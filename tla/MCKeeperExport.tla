--------------------------- MODULE MCKeeperExport ---------------------------
(***************************************************************************)
(* The two halves of the keeper's export API for TLC, over one table of    *)
(* instances and credentials: a behaviour pushes usage, or it pushes       *)
(* metadata.  Handlers are interchangeable.                                *)
(***************************************************************************)
EXTENDS KeeperExport, MetadataExport, TLC

VARIABLE scene      \* what the exporters of this behaviour push

usageVars == <<exporterVars, handler, storeVars>>

MCInit ==
    /\ Init
    /\ MetadataInit
    /\ scene \in {"usage", "metadata"}

MCNext ==
    /\ scene' = scene
    /\ \/ scene = "usage" /\ Next /\ UNCHANGED metadataVars
       \/ scene = "metadata" /\ MetadataNext /\ UNCHANGED usageVars

MCSpec == MCInit /\ [][MCNext]_<<vars, metadataVars, scene>>

Symmetric == Permutations(Handlers)
=============================================================================
