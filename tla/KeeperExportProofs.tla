------------------------- MODULE KeeperExportProofs -------------------------
(***************************************************************************)
(* Proofs about KeeperExport and MetadataExport, for any number of         *)
(* instances, credentials, streams, categories, handlers and events.       *)
(***************************************************************************)
EXTENDS KeeperExport, MetadataExport, TLAPS

-----------------------------------------------------------------------------
(* KeeperExport.  An acknowledgement is only worth something while its      *)
(* instance exists, and instances come into being, so AcksAreStored needs   *)
(* to know that nothing was pushed for an instance before it was created    *)
(* (FreshInv).                                                              *)

\* Nothing refers to an instance that was not created yet.
FreshInv ==
    /\ \A c \in Credentials :
          credential[c].state # "unused" => instance[credential[c].owner] # "unused"
    /\ \A h \in Handlers :
          handler[h] # Idle => instance[handler[h].key[1]] # "unused"
    /\ \A k \in Keys : instance[k[1]] = "unused" => acked[k] = 0

StoreInv == StoredOnce /\ WatermarkExact /\ NothingAfterDelete

Inv ==
    /\ TypeOK /\ StoreInv /\ AcksAreStored /\ FreshInv /\ NoOrphanCredentials

LEMMA HandlerKinds ==
    ASSUME TypeOK, NEW h \in Handlers
    PROVE  /\ Idle.at = "idle"
           /\ handler[h] \in Requests \/ handler[h] \in Replies \/ handler[h] = Idle
           /\ handler[h].at = "reply" => handler[h] \in Replies
           /\ handler[h].at \in {"credential", "instance", "commit"} => handler[h] \in Requests
           /\ handler[h] # Idle => handler[h].key \in Keys /\ handler[h].at # "idle"
  BY DEF TypeOK, Requests, Replies, Idle

LEMMA InitInv == Init => Inv
<1> SUFFICES ASSUME Init PROVE Inv
  OBVIOUS
<1> USE ExportAssumption, InstancesAssumption DEF Init, InstancesInit
<1>1. TypeOK
  <2>1. NoCredential \in CredentialRows
    BY DEF NoCredential, CredentialRows
  <2>2. InstancesTypeOK
    BY <2>1 DEF InstancesTypeOK
  <2>3. EmptyLedger \in [Seqs -> Digests \cup {NoDigest}] /\ NoRows \in [Seqs -> Nat]
    BY DEF EmptyLedger, NoRows
  <2> QED BY <2>2, <2>3 DEF TypeOK
<1>2. StoreInv
  BY DEF StoreInv, StoredOnce, WatermarkExact, NothingAfterDelete, EmptyLedger, NoRows, Seqs
<1>3. AcksAreStored
  BY DEF AcksAreStored, Idle
<1>4. FreshInv /\ NoOrphanCredentials
  BY DEF FreshInv, NoOrphanCredentials, NoCredential, Idle
<1> QED BY <1>1, <1>2, <1>3, <1>4 DEF Inv

\* Steps of the exporter and of a handler that leave the tables alone.
LEMMA QuietInv ==
    ASSUME Inv, UNCHANGED <<instanceVars, storeVars>>,
           produced' \in [Keys -> 0..MaxSeq], acked' \in [Keys -> 0..MaxSeq],
           NEW h \in Handlers, NEW r \in Requests \cup Replies \cup {Idle},
           handler' = [handler EXCEPT ![h] = r],
           r # Idle => instance[r.key[1]] # "unused",
           r.at = "reply" => r = handler[h],
           \A k \in Keys : \/ acked'[k] = acked[k]
                           \/ /\ handler[h].at = "reply" /\ k = handler[h].key
                              /\ acked'[k] = handler[h].through
    PROVE  Inv'
<1>1. TypeOK'
  BY DEF Inv, TypeOK, InstancesTypeOK, instanceVars, storeVars
<1>2. StoreInv'
  BY DEF Inv, StoreInv, StoredOnce, WatermarkExact, NothingAfterDelete, Exists,
         instanceVars, storeVars
<1>h. \A g \in Handlers : handler'[g] = IF g = h THEN r ELSE handler[g]
  BY DEF Inv, TypeOK
<1>3. AcksAreStored'
  <2>1. \A g \in Handlers :
           handler'[g].at = "reply" => handler'[g] = handler[g]
    BY <1>h
  <2>2. (\A g \in Handlers :
           handler[g].at = "reply" /\ Exists(handler[g].key[1])
             => \A s \in 1..handler[g].through : rows[handler[g].key][s] = 1)'
    BY <2>1 DEF Inv, AcksAreStored, Exists, instanceVars, storeVars
  <2>3. (\A k \in Keys : Exists(k[1]) => \A s \in 1..acked[k] : rows[k][s] = 1)'
    BY DEF Inv, AcksAreStored, Exists, instanceVars, storeVars
  <2> QED BY <2>2, <2>3 DEF AcksAreStored
<1>4. FreshInv'
  <2>1. \A g \in Handlers : handler'[g] # Idle => instance[handler'[g].key[1]] # "unused"
    BY <1>h DEF Inv, FreshInv
  <2>2. \A k \in Keys : instance[k[1]] = "unused" => acked'[k] = 0
    <3> SUFFICES ASSUME NEW k \in Keys, instance[k[1]] = "unused",
                        acked'[k] # acked[k]
                 PROVE  FALSE
      BY DEF Inv, FreshInv
    <3>1. handler[h].at = "reply" /\ k = handler[h].key
      OBVIOUS
    <3>2. handler[h] # Idle
      BY <3>1 DEF Idle
    <3> QED BY <3>1, <3>2 DEF Inv, FreshInv
  <2> QED BY <2>1, <2>2 DEF Inv, FreshInv, instanceVars
<1>5. NoOrphanCredentials'
  BY DEF Inv, NoOrphanCredentials, Exists, instanceVars
<1> QED BY <1>1, <1>2, <1>3, <1>4, <1>5 DEF Inv

LEMMA ProduceInv == ASSUME Inv, NEW k \in Keys, Produce(k) PROVE Inv'
<1> USE DEF Produce
<1>1. produced' \in [Keys -> 0..MaxSeq]
  BY ExportAssumption DEF Inv, TypeOK
<1>2. TypeOK'
  BY <1>1 DEF Inv, TypeOK, InstancesTypeOK, instanceVars, storeVars
<1>3. StoreInv'
  BY DEF Inv, StoreInv, StoredOnce, WatermarkExact, NothingAfterDelete, Exists,
         instanceVars, storeVars
<1>4. AcksAreStored'
  BY DEF Inv, AcksAreStored, Exists, instanceVars, storeVars
<1>5. FreshInv' /\ NoOrphanCredentials'
  BY DEF Inv, FreshInv, NoOrphanCredentials, Exists, instanceVars
<1> QED BY <1>2, <1>3, <1>4, <1>5 DEF Inv

LEMMA ArriveInv ==
    ASSUME Inv, NEW h \in Handlers, NEW c \in Credentials, NEW st \in Streams,
           NEW batch \in SUBSET Seqs, NEW changed \in SUBSET Seqs,
           Arrive(h, c, st, batch, changed)
    PROVE  Inv'
<1> DEFINE k == <<credential[c].owner, st>>
           r == [at |-> "credential", cred |-> c, key |-> k,
                 batch |-> batch, changed |-> changed]
<1>1. credential[c].owner \in Instances /\ k \in Keys
  <2>1. credential[c] \in CredentialRows
    BY DEF Inv, TypeOK, InstancesTypeOK
  <2>2. credential[c].owner \in Instances
    BY <2>1 DEF CredentialRows
  <2> QED BY <2>2 DEF Keys
<1>2. r \in Requests /\ r.at # "reply" /\ r.key[1] = credential[c].owner
  BY <1>1 DEF Requests
<1>3. instance[r.key[1]] # "unused"
  BY <1>2 DEF Inv, FreshInv, Arrive
<1>4. handler' = [handler EXCEPT ![h] = r]
  BY DEF Arrive
<1>5. UNCHANGED <<instanceVars, storeVars>> /\ UNCHANGED exporterVars
  BY DEF Arrive
<1>6. /\ produced' \in [Keys -> 0..MaxSeq] /\ acked' \in [Keys -> 0..MaxSeq]
      /\ \A q \in Keys : acked'[q] = acked[q]
  BY <1>5 DEF Inv, TypeOK, exporterVars
<1> HIDE DEF r
<1> QED BY <1>2, <1>3, <1>4, <1>5, <1>6, QuietInv

\* A handler goes on, stops, or hands its reply over.
LEMMA HandlerInv ==
    ASSUME Inv, NEW h \in Handlers,
           CheckCredential(h) \/ CheckInstance(h) \/ Conflict(h) \/ Fail(h)
    PROVE  Inv'
<1>1. UNCHANGED <<instanceVars, storeVars>> /\ UNCHANGED exporterVars
  BY DEF CheckCredential, CheckInstance, Conflict, Fail
<1>2. /\ produced' \in [Keys -> 0..MaxSeq] /\ acked' \in [Keys -> 0..MaxSeq]
      /\ \A q \in Keys : acked'[q] = acked[q]
  BY <1>1 DEF Inv, TypeOK, exporterVars
<1>3. CASE Done(h)
  <2>1. handler' = [handler EXCEPT ![h] = Idle] /\ Idle.at # "reply"
    BY <1>3 DEF Done, Idle
  <2> QED BY <1>1, <1>2, <2>1, QuietInv
<1>4. CASE ~Done(h)
  <2>1. PICK point \in {"instance", "commit"} :
           /\ handler[h].at \in {"credential", "instance"}
           /\ handler' = [handler EXCEPT ![h] = [handler[h] EXCEPT !.at = point]]
    BY <1>4 DEF CheckCredential, CheckInstance, Conflict, Fail, Step
  <2> DEFINE r == [handler[h] EXCEPT !.at = point]
  <2>2. handler[h] \in Requests /\ handler[h] # Idle
    BY <2>1, HandlerKinds DEF Inv, Idle
  <2>3. r \in Requests /\ r.key = handler[h].key /\ r.at # "reply"
    BY <2>1, <2>2 DEF Requests
  <2>4. instance[r.key[1]] # "unused"
    BY <2>2, <2>3 DEF Inv, FreshInv
  <2>5. handler' = [handler EXCEPT ![h] = r]
    BY <2>1
  <2> HIDE DEF r
  <2> QED BY <1>1, <1>2, <2>3, <2>4, <2>5, QuietInv
<1> QED BY <1>3, <1>4

LEMMA ReceiveAckInv == ASSUME Inv, NEW h \in Handlers, ReceiveAck(h) PROVE Inv'
<1> USE DEF ReceiveAck
<1>1. handler[h] \in Replies
  BY HandlerKinds DEF Inv
<1>2. handler[h].key \in Keys /\ handler[h].through \in 0..MaxSeq
  BY <1>1 DEF Replies
<1>3. acked' \in [Keys -> 0..MaxSeq] /\ produced' \in [Keys -> 0..MaxSeq]
  BY <1>2 DEF Inv, TypeOK
<1>4. \A k \in Keys : \/ acked'[k] = acked[k]
                      \/ /\ handler[h].at = "reply" /\ k = handler[h].key
                         /\ acked'[k] = handler[h].through
  BY <1>2 DEF Inv, TypeOK
<1>5. UNCHANGED <<instanceVars, storeVars>> /\ handler' = [handler EXCEPT ![h] = Idle]
  OBVIOUS
<1>6. Idle.at # "reply"
  BY DEF Idle
<1> QED BY <1>3, <1>4, <1>5, <1>6, QuietInv

LEMMA CommitInv == ASSUME Inv, NEW h \in Handlers, Commit(h) PROVE Inv'
<1> DEFINE r == handler[h]
           k == r.key
<1>1. /\ r \in Requests /\ r # Idle /\ k \in Keys /\ r.batch \subseteq Seqs
      /\ Exists(k[1]) /\ Accept(r) /\ UNCHANGED <<instanceVars, exporterVars>>
  <2>1. handler[h].at = "commit"
    BY DEF Commit
  <2>2. handler[h] \in Requests /\ handler[h] # Idle
    BY <2>1, HandlerKinds DEF Inv, Idle
  <2> QED BY <2>2 DEF Commit, Requests
<1>2. PICK n \in 0..MaxSeq :
         /\ Reaches({s \in Seqs : ledger'[k][s] # NoDigest}, mark[k], n)
         /\ mark' = [mark EXCEPT ![k] = n]
         /\ handler' = [handler EXCEPT
                ![h] = [at |-> "reply", key |-> k, through |-> n]]
  BY DEF Commit
<1> HIDE DEF r
<1>3. \A s \in Seqs : DigestOf(r, s) \in Digests
  BY DEF DigestOf, Digests
<1>t. /\ ledger \in [Keys -> [Seqs -> Digests \cup {NoDigest}]]
      /\ rows \in [Keys -> [Seqs -> Nat]] /\ mark \in [Keys -> 0..MaxSeq]
      /\ handler \in [Handlers -> Requests \cup Replies \cup {Idle}]
  BY DEF Inv, TypeOK
<1>4. /\ ledger' \in [Keys -> [Seqs -> Digests \cup {NoDigest}]]
      /\ \A q \in Keys : q # k => ledger'[q] = ledger[q]
      /\ \A s \in Seqs : ledger'[k][s] = IF s \in Fresh(r) THEN DigestOf(r, s)
                                         ELSE ledger[k][s]
  BY <1>1, <1>3, <1>t DEF Accept
<1>5. /\ rows' \in [Keys -> [Seqs -> Nat]]
      /\ \A q \in Keys : q # k => rows'[q] = rows[q]
      /\ \A s \in Seqs : rows'[k][s] = IF s \in Fresh(r) THEN rows[k][s] + 1
                                       ELSE rows[k][s]
  BY <1>1, <1>t DEF Accept
<1>6. \A s \in Seqs : s \in Fresh(r) => ledger[k][s] = NoDigest
  BY DEF Fresh
<1>7. StoredOnce'
  <2>1. \A s \in Seqs : rows'[k][s] = IF ledger'[k][s] = NoDigest THEN 0 ELSE 1
    BY <1>1, <1>3, <1>4, <1>5, <1>6 DEF Inv, StoreInv, StoredOnce, Digests, NoDigest
  <2> QED BY <1>4, <1>5, <2>1 DEF Inv, StoreInv, StoredOnce
<1>8. \A s \in Seqs : ledger[k][s] # NoDigest => ledger'[k][s] # NoDigest
  BY <1>4, <1>6
<1>9. /\ mark' \in [Keys -> 0..MaxSeq] /\ mark'[k] = n
      /\ \A q \in Keys : q # k => mark'[q] = mark[q]
  BY <1>1, <1>2, <1>t
<1>10. /\ \A s \in 1..n : ledger'[k][s] # NoDigest
       /\ n < MaxSeq => ledger'[k][n + 1] = NoDigest
  <2>1. mark[k] \in 0..MaxSeq /\ n \in mark[k]..MaxSeq
    BY <1>1, <1>2, <1>t DEF Reaches
  <2>2. \A s \in 1..mark[k] : s \in Seqs /\ ledger'[k][s] # NoDigest
    BY <1>1, <1>8, <2>1, ExportAssumption DEF Inv, StoreInv, WatermarkExact, Seqs
  <2>3. \A s \in (mark[k] + 1)..n : ledger'[k][s] # NoDigest
    BY <1>2 DEF Reaches
  <2>4. n < MaxSeq => n + 1 \in Seqs
    BY <2>1, ExportAssumption DEF Seqs
  <2>5. n < MaxSeq => ledger'[k][n + 1] = NoDigest
    BY <1>2, <2>4 DEF Reaches
  <2> QED BY <2>1, <2>2, <2>3, <2>5, ExportAssumption
<1>11. WatermarkExact'
  BY <1>4, <1>9, <1>10 DEF Inv, StoreInv, WatermarkExact
<1>12. NothingAfterDelete'
  BY <1>1, <1>4, <1>5, <1>9 DEF Inv, StoreInv, NothingAfterDelete, Exists, instanceVars
<1> DEFINE reply == [at |-> "reply", key |-> k, through |-> n]
<1>13. reply \in Replies /\ reply.key = k /\ reply.through = n
  BY <1>1 DEF Replies
<1>14. \A g \in Handlers : handler'[g] = IF g = h THEN reply ELSE handler[g]
  BY <1>2, <1>t
<1>15. TypeOK'
  <2>1. handler' \in [Handlers -> Requests \cup Replies \cup {Idle}]
    BY <1>2, <1>t, <1>13
  <2> QED BY <1>1, <1>4, <1>5, <1>9, <2>1
          DEF Inv, TypeOK, InstancesTypeOK, instanceVars, exporterVars
<1> HIDE DEF reply
<1>16. AcksAreStored'
  <2>1. \A q \in Keys, s \in Seqs : rows[q][s] = 1 => rows'[q][s] = 1
    BY <1>4, <1>5, <1>6, <1>7 DEF Inv, StoreInv, StoredOnce
  <2>2. \A s \in 1..n : rows'[k][s] = 1
    BY <1>1, <1>7, <1>10, ExportAssumption DEF StoredOnce, Seqs
  <2>3. \A g \in Handlers : handler[g].at = "reply" => handler[g] \in Replies
    BY HandlerKinds DEF Inv
  <2>4. ASSUME NEW g \in Handlers, handler'[g].at = "reply",
               Exists(handler[g].key[1])', NEW s \in 1..handler'[g].through
        PROVE  rows'[handler'[g].key][s] = 1
    <3>1. CASE g = h
      BY <3>1, <2>2, <2>4, <1>13, <1>14
    <3>2. CASE g # h
      <4>1. /\ handler'[g] = handler[g] /\ handler[g].key \in Keys
            /\ handler[g].through \in 0..MaxSeq
        BY <3>2, <2>3, <2>4, <1>14 DEF Replies
      <4>2. rows[handler[g].key][s] = 1
        BY <4>1, <2>4, <1>1 DEF Inv, AcksAreStored, Exists, instanceVars
      <4> QED BY <4>1, <4>2, <2>1, <2>4, ExportAssumption DEF Seqs
    <3> QED BY <3>1, <3>2
  <2>5. ASSUME NEW q \in Keys, Exists(q[1])', NEW s \in 1..acked'[q]
        PROVE  rows'[q][s] = 1
    <3>1. acked'[q] = acked[q] /\ acked[q] \in 0..MaxSeq
      BY <1>1 DEF exporterVars, Inv, TypeOK
    <3>2. rows[q][s] = 1
      BY <3>1, <2>5, <1>1 DEF Inv, AcksAreStored, Exists, instanceVars
    <3> QED BY <3>1, <3>2, <2>1, <2>5, ExportAssumption DEF Seqs
  <2> QED BY <2>4, <2>5 DEF AcksAreStored
<1>17. FreshInv'
  <2>1. instance[k[1]] # "unused"
    BY <1>1 DEF Exists
  <2> QED BY <1>1, <1>13, <1>14, <2>1 DEF Inv, FreshInv, instanceVars, exporterVars
<1>18. NoOrphanCredentials'
  BY <1>1 DEF Inv, NoOrphanCredentials, Exists, instanceVars
<1> QED BY <1>7, <1>11, <1>12, <1>15, <1>16, <1>17, <1>18 DEF Inv, StoreInv

\* What a request of the administrator may do to an instance and to a
\* credential: an instance may appear, none disappears.
InstanceStep(i) ==
    \/ instance'[i] = instance[i]
    \/ Exists(i) /\ instance'[i] \in {"enabled", "disabled"}
    \/ instance[i] = "unused" /\ instance'[i] = "enabled"

CredentialStep(c) ==
    \/ credential'[c] = credential[c]
    \/ /\ credential[c].state = "active"
       /\ credential'[c].owner = credential[c].owner
    \/ instance'[credential'[c].owner] \in {"enabled", "disabled"}

AdminStep ==
    /\ instance' \in [Instances -> {"unused", "enabled", "disabled", "deleted"}]
    /\ credential' \in [Credentials -> CredentialRows]
    /\ \A i \in Instances : InstanceStep(i)
    /\ \A c \in Credentials : CredentialStep(c)

LEMMA AdministerStep == ASSUME TypeOK, Administer PROVE AdminStep
<1>t. /\ instance \in [Instances -> {"unused", "enabled", "disabled", "deleted"}]
      /\ credential \in [Credentials -> CredentialRows]
  BY DEF TypeOK, InstancesTypeOK
<1>1. \A i \in Instances : NewCredential(i) \in CredentialRows /\ NewCredential(i).owner = i
  BY DEF NewCredential, CredentialRows
<1>2. \A row \in CredentialRows :
         /\ Revoked(row) \in CredentialRows /\ Revoked(row).owner = row.owner
         /\ Expired(row) \in CredentialRows /\ Expired(row).owner = row.owner
  BY DEF Revoked, Expired, CredentialRows
<1> USE <1>t DEF AdminStep, InstanceStep, CredentialStep, Exists
<1>3. ASSUME NEW i \in Instances, NEW c \in Credentials, Create(i, c)
      PROVE  AdminStep
  BY <1>1, <1>3 DEF Create, Issued
<1>4. ASSUME NEW i \in Instances, NEW c \in Credentials, Issue(i, c)
      PROVE  AdminStep
  BY <1>1, <1>4 DEF Issue, Issued
<1>5. ASSUME NEW i \in Instances, NEW c \in Credentials, Revoke(i, c)
      PROVE  AdminStep
  BY <1>2, <1>5 DEF Revoke, Active
<1>6. ASSUME NEW i \in Instances, NEW on \in BOOLEAN, SetEnabled(i, on)
      PROVE  AdminStep
  BY <1>6 DEF SetEnabled
<1>7. ASSUME NEW i \in Instances, NEW old \in Credentials, NEW new \in Credentials,
             Rotate(i, old, new)
      PROVE  AdminStep
  BY <1>1, <1>2, <1>7 DEF Rotate, Active
<1>8. ASSUME NEW c \in Credentials, Expire(c)
      PROVE  AdminStep
  BY <1>2, <1>8 DEF Expire
<1> QED BY <1>3, <1>4, <1>5, <1>6, <1>7, <1>8 DEF Administer

LEMMA AdministerInv == ASSUME Inv, AdministerOnly PROVE Inv'
<1>1. AdminStep /\ UNCHANGED <<exporterVars, handler, storeVars>>
  BY AdministerStep DEF Inv, AdministerOnly
<1>2. TypeOK'
  BY <1>1 DEF Inv, TypeOK, InstancesTypeOK, AdminStep, exporterVars, storeVars
<1>3. \A i \in Instances :
         /\ Exists(i) => Exists(i)'
         /\ Exists(i)' => Exists(i) \/ instance[i] = "unused"
         /\ instance'[i] = "unused" => instance[i] = "unused"
  BY <1>1 DEF AdminStep, InstanceStep, Exists
<1>4. \A k \in Keys : k[1] \in Instances
  BY DEF Keys
<1>5. StoreInv'
  <2>1. StoredOnce' /\ WatermarkExact'
    BY <1>1 DEF Inv, StoreInv, StoredOnce, WatermarkExact, storeVars
  <2>2. NothingAfterDelete'
    BY <1>1, <1>3, <1>4 DEF Inv, StoreInv, NothingAfterDelete, storeVars
  <2> QED BY <2>1, <2>2 DEF StoreInv
<1>6. \A h \in Handlers : handler[h] # Idle => handler[h].key \in Keys
  BY HandlerKinds DEF Inv
<1>7. AcksAreStored'
  <2>1. ASSUME NEW h \in Handlers, handler[h].at = "reply",
               Exists(handler[h].key[1])', NEW s \in 1..handler[h].through
        PROVE  rows[handler[h].key][s] = 1
    <3>1. handler[h] # Idle /\ handler'[h] = handler[h]
      BY <1>1, <2>1 DEF Idle
    <3>2. Exists(handler[h].key[1])
      BY <1>3, <1>4, <1>6, <2>1, <3>1 DEF Inv, FreshInv, Exists
    <3> QED BY <2>1, <3>2 DEF Inv, AcksAreStored
  <2>2. ASSUME NEW k \in Keys, Exists(k[1])', NEW s \in 1..acked[k]
        PROVE  rows[k][s] = 1
    <3>1. instance[k[1]] # "unused"
      BY <2>2 DEF Inv, FreshInv
    <3> QED BY <1>3, <1>4, <2>2, <3>1 DEF Inv, AcksAreStored
  <2> QED BY <1>1, <2>1, <2>2 DEF AcksAreStored, exporterVars, storeVars
<1>8. FreshInv'
  <2>1. ASSUME NEW c \in Credentials, credential'[c].state # "unused"
        PROVE  instance'[credential'[c].owner] # "unused"
    <3>1. CredentialStep(c) /\ credential[c].owner \in Instances
      BY <1>1 DEF AdminStep, Inv, TypeOK, InstancesTypeOK, CredentialRows
    <3> QED BY <1>3, <2>1, <3>1 DEF CredentialStep, Inv, FreshInv
  <2>2. \A h \in Handlers : handler[h] # Idle => instance'[handler[h].key[1]] # "unused"
    BY <1>3, <1>4, <1>6 DEF Inv, FreshInv
  <2>3. \A k \in Keys : instance'[k[1]] = "unused" => acked[k] = 0
    BY <1>3, <1>4 DEF Inv, FreshInv
  <2> QED BY <1>1, <2>1, <2>2, <2>3 DEF FreshInv, exporterVars
<1>9. NoOrphanCredentials'
  <2> SUFFICES ASSUME NEW c \in Credentials,
                      credential'[c].state \in {"active", "revoked"}
               PROVE  Exists(credential[c].owner)'
    BY DEF NoOrphanCredentials
  <2>1. CredentialStep(c) /\ credential[c].owner \in Instances
    BY <1>1 DEF AdminStep, Inv, TypeOK, InstancesTypeOK, CredentialRows
  <2> QED BY <1>3, <2>1 DEF CredentialStep, Exists, Inv, NoOrphanCredentials
<1> QED BY <1>2, <1>5, <1>7, <1>8, <1>9 DEF Inv

LEMMA DeleteInv == ASSUME Inv, NEW i \in Instances, Delete(i) PROVE Inv'
<1> USE DEF Delete, Removed
<1>t. /\ instance \in [Instances -> {"unused", "enabled", "disabled", "deleted"}]
      /\ credential \in [Credentials -> CredentialRows]
      /\ ledger \in [Keys -> [Seqs -> Digests \cup {NoDigest}]]
      /\ rows \in [Keys -> [Seqs -> Nat]] /\ mark \in [Keys -> 0..MaxSeq]
  BY DEF Inv, TypeOK, InstancesTypeOK
<1>1. /\ EmptyLedger \in [Seqs -> Digests \cup {NoDigest}] /\ NoRows \in [Seqs -> Nat]
      /\ \A s \in Seqs : EmptyLedger[s] = NoDigest /\ NoRows[s] = 0
      /\ 0 \in 0..MaxSeq
  BY ExportAssumption DEF EmptyLedger, NoRows
<1>2. /\ instance'[i] = "deleted"
      /\ \A j \in Instances : j # i => instance'[j] = instance[j]
      /\ instance' \in [Instances -> {"unused", "enabled", "disabled", "deleted"}]
  BY <1>t
<1>3. \A c \in Credentials :
         /\ credential'[c] \in CredentialRows
         /\ credential'[c].owner = credential[c].owner
         /\ credential'[c].state = "unused" => credential[c].state = "unused"
         /\ \/ credential'[c] = credential[c] /\ (credential[c].owner # i \/ credential[c].state = "unused")
            \/ credential'[c].state = "removed"
  <2> SUFFICES ASSUME NEW c \in Credentials
               PROVE  /\ credential'[c] \in CredentialRows
                      /\ credential'[c].owner = credential[c].owner
                      /\ credential'[c].state = "unused" => credential[c].state = "unused"
                      /\ \/ /\ credential'[c] = credential[c]
                            /\ credential[c].owner # i \/ credential[c].state = "unused"
                         \/ credential'[c].state = "removed"
    OBVIOUS
  <2>1. credential[c] \in CredentialRows
    BY <1>t
  <2>2. CASE credential[c].owner = i /\ credential[c].state # "unused"
    <3>1. credential'[c] = [credential[c] EXCEPT !.state = "removed"]
      BY <2>2
    <3> QED BY <2>1, <2>2, <3>1 DEF CredentialRows
  <2>3. CASE ~(credential[c].owner = i /\ credential[c].state # "unused")
    BY <2>1, <2>3
  <2> QED BY <2>2, <2>3
<1>4. \A k \in Keys :
         /\ k[1] = i => ledger'[k] = EmptyLedger /\ rows'[k] = NoRows /\ mark'[k] = 0
         /\ k[1] # i => ledger'[k] = ledger[k] /\ rows'[k] = rows[k] /\ mark'[k] = mark[k]
  OBVIOUS
<1>5. TypeOK'
  <2>1. /\ ledger' \in [Keys -> [Seqs -> Digests \cup {NoDigest}]]
        /\ rows' \in [Keys -> [Seqs -> Nat]] /\ mark' \in [Keys -> 0..MaxSeq]
    BY <1>t, <1>1
  <2>2. credential' \in [Credentials -> CredentialRows]
    BY <1>3
  <2> QED BY <1>2, <2>1, <2>2 DEF Inv, TypeOK, InstancesTypeOK, exporterVars
<1>6. StoreInv'
  <2>1. StoredOnce'
    BY <1>1, <1>4 DEF Inv, StoreInv, StoredOnce
  <2>2. WatermarkExact'
    <3> SUFFICES ASSUME NEW k \in Keys
                 PROVE  /\ \A s \in 1..mark'[k] : ledger'[k][s] # NoDigest
                        /\ mark'[k] < MaxSeq => ledger'[k][mark'[k] + 1] = NoDigest
      BY DEF WatermarkExact
    <3>1. CASE k[1] = i
      BY <1>1, <1>4, <3>1, ExportAssumption DEF Seqs
    <3>2. CASE k[1] # i
      BY <1>4, <3>2 DEF Inv, StoreInv, WatermarkExact
    <3> QED BY <3>1, <3>2
  <2>3. NothingAfterDelete'
    BY <1>2, <1>4 DEF Inv, StoreInv, NothingAfterDelete, Exists, Keys
  <2> QED BY <2>1, <2>2, <2>3 DEF StoreInv
<1>7. \A k \in Keys : Exists(k[1])' => Exists(k[1]) /\ k[1] # i
  BY <1>2 DEF Exists, Keys
<1>8. \A h \in Handlers : handler[h] # Idle => handler[h].key \in Keys
  BY HandlerKinds DEF Inv
<1>9. AcksAreStored'
  <2>1. ASSUME NEW h \in Handlers, handler[h].at = "reply",
               Exists(handler[h].key[1])', NEW s \in 1..handler[h].through
        PROVE  rows'[handler[h].key][s] = 1
    <3>1. handler[h].key \in Keys
      BY <1>8, <2>1 DEF Idle
    <3> QED BY <1>4, <1>7, <2>1, <3>1 DEF Inv, AcksAreStored
  <2>2. ASSUME NEW k \in Keys, Exists(k[1])', NEW s \in 1..acked[k]
        PROVE  rows'[k][s] = 1
    BY <1>4, <1>7, <2>2 DEF Inv, AcksAreStored
  <2> QED BY <2>1, <2>2 DEF AcksAreStored, exporterVars
<1>10. \A j \in Instances : instance'[j] = "unused" => instance[j] = "unused"
  BY <1>2
<1>11. FreshInv'
  <2>1. \A c \in Credentials : credential[c].owner \in Instances
    BY <1>t DEF CredentialRows
  <2>2. \A k \in Keys : k[1] \in Instances
    BY DEF Keys
  <2> QED BY <1>3, <1>8, <1>10, <2>1, <2>2 DEF Inv, FreshInv, exporterVars
<1>12. NoOrphanCredentials'
  <2>1. \A c \in Credentials : credential[c].owner \in Instances
    BY <1>t DEF CredentialRows
  <2> QED BY <1>2, <1>3, <2>1 DEF Inv, NoOrphanCredentials, Exists
<1> QED BY <1>5, <1>6, <1>9, <1>11, <1>12 DEF Inv

LEMMA NextInv == Inv /\ [Next]_vars => Inv'
<1> SUFFICES ASSUME Inv, [Next]_vars PROVE Inv'
  OBVIOUS
<1>1. ASSUME NEW k \in Keys, Produce(k) PROVE Inv'
  BY <1>1, ProduceInv
<1>2. ASSUME NEW h \in Handlers, NEW c \in Credentials, NEW st \in Streams,
             NEW batch \in SUBSET Seqs, NEW changed \in SUBSET Seqs,
             Arrive(h, c, st, batch, changed)
      PROVE  Inv'
  BY <1>2, ArriveInv
<1>3. ASSUME NEW h \in Handlers, Handle(h) \/ Fail(h) \/ ReceiveAck(h)
      PROVE  Inv'
  BY <1>3, HandlerInv, CommitInv, ReceiveAckInv DEF Handle
<1>4. CASE AdministerOnly
  BY <1>4, AdministerInv
<1>5. ASSUME NEW i \in Instances, Delete(i) PROVE Inv'
  BY <1>5, DeleteInv
<1>6. CASE UNCHANGED vars
  <2>1. TypeOK'
    BY <1>6 DEF Inv, TypeOK, InstancesTypeOK, vars
  <2>2. StoreInv'
    BY <1>6 DEF Inv, StoreInv, StoredOnce, WatermarkExact, NothingAfterDelete, Exists, vars
  <2>3. AcksAreStored' /\ FreshInv' /\ NoOrphanCredentials'
    BY <1>6 DEF Inv, AcksAreStored, FreshInv, NoOrphanCredentials, Exists, vars
  <2> QED BY <2>1, <2>2, <2>3 DEF Inv
<1> QED BY <1>1, <1>2, <1>3, <1>4, <1>5, <1>6 DEF Next

LEMMA Invariance == Spec => []Inv
  BY InitInv, NextInv, PTL DEF Spec

\* What a step leaves of a digest that is stored.
Kept ==
    \A k \in Keys, s \in Seqs :
        ledger[k][s] # NoDigest /\ Exists(k[1])' => ledger'[k][s] = ledger[k][s]

LEMMA DigestStep == TypeOK /\ [Next]_vars => Kept
<1> SUFFICES ASSUME TypeOK, [Next]_vars PROVE Kept
  OBVIOUS
<1>t. /\ ledger \in [Keys -> [Seqs -> Digests \cup {NoDigest}]]
      /\ instance \in [Instances -> {"unused", "enabled", "disabled", "deleted"}]
  BY DEF TypeOK, InstancesTypeOK
<1>1. CASE ledger' = ledger
  BY <1>1 DEF Kept
<1>2. ASSUME NEW h \in Handlers, Commit(h) PROVE Kept
  <2> DEFINE r == handler[h]
  <2>1. handler[h] \in Requests
    BY <1>2, HandlerKinds DEF Commit
  <2>2. r.key \in Keys /\ Accept(r)
    BY <1>2, <2>1 DEF Commit, Requests
  <2> HIDE DEF r
  <2>3. /\ \A k \in Keys : k # r.key => ledger'[k] = ledger[k]
        /\ \A s \in Seqs : s \notin Fresh(r) => ledger'[r.key][s] = ledger[r.key][s]
    BY <1>t, <2>2 DEF Accept
  <2>4. \A s \in Seqs : ledger[r.key][s] # NoDigest => s \notin Fresh(r)
    BY DEF Fresh
  <2> QED BY <2>2, <2>3, <2>4 DEF Kept
<1>3. ASSUME NEW i \in Instances, Delete(i) PROVE Kept
  <2>1. instance'[i] = "deleted"
    BY <1>3, <1>t DEF Delete, Removed
  <2>2. \A k \in Keys : k[1] # i => ledger'[k] = ledger[k]
    BY <1>3 DEF Delete
  <2> QED BY <2>1, <2>2 DEF Kept, Exists
<1>4. \/ ledger' = ledger
      \/ \E h \in Handlers : Commit(h)
      \/ \E i \in Instances : Delete(i)
  BY DEF Next, Handle, Produce, Arrive, CheckCredential, CheckInstance, Conflict,
         Fail, ReceiveAck, AdministerOnly, storeVars, vars
<1> QED BY <1>1, <1>2, <1>3, <1>4

-----------------------------------------------------------------------------
(* Theorems.                                                               *)

\* Every variable keeps its type.
THEOREM TypeCorrect == Spec => []TypeOK
  BY Invariance, PTL DEF Inv

\* CommitUsageBatch makes one inbox row per sequence, however requests are
\* repeated, reordered and interleaved.
THEOREM DeliveredOnce == Spec => []StoredOnce
  BY Invariance, PTL DEF Inv, StoreInv

\* acknowledged_through is the end of the contiguous run.
THEOREM ContiguousWatermark == Spec => []WatermarkExact
  BY Invariance, PTL DEF Inv, StoreInv

\* No acknowledgement, however late, covers an event the keeper lacks.
THEOREM SafeToForget == Spec => []AcksAreStored
  BY Invariance, PTL DEF Inv

\* No request changes a stored digest.
THEOREM PayloadImmutable == Spec => FirstPayloadStays
<1>1. TypeOK /\ [Next]_vars => [Kept]_vars
  BY DigestStep
<1> QED BY <1>1, TypeCorrect, PTL DEF Spec, FirstPayloadStays, Kept

\* Delete takes every credential of the instance with it.
THEOREM CredentialsDieWithInstance == Spec => []NoOrphanCredentials
  BY Invariance, PTL DEF Inv

\* A deleted instance stays empty in spite of requests under way.
THEOREM DeletedStaysEmpty == Spec => []NothingAfterDelete
  BY Invariance, PTL DEF Inv, StoreInv

-----------------------------------------------------------------------------
(* MetadataExport.  The ledger compares a request with one revision only.   *)
(* That this keeps the rows from going back rests on all snapshots that are *)
(* still under way: within one life of an exporter a higher revision never  *)
(* carries an older list, and the exporter's counter is not behind any of   *)
(* them (Numbered).                                                         *)

\* The snapshots of a category that some handler still has, and the one whose
\* digest is in the ledger.
Sent(k) ==
    {[revision |-> pusher[h].revision, body |-> pusher[h].body] :
        h \in {g \in Pushers : pusher[g] # Waiting /\ pusher[g].key = k}}
    \cup {s \in {snapshot[k]} : s.revision > 0}

Numbered ==
    \A k \in Scopes : \A d \in Sent(k) :
        /\ d.body.life <= counter[k].life
        /\ d.body.life = counter[k].life => d.revision <= counter[k].revision
        /\ d.body.change <= upstream[k].change
        /\ \A e \in Sent(k) :
              d.body.life = e.body.life /\ d.revision <= e.revision
                => d.body.change <= e.body.change

\* While an instance is not deleted, whether it was created yet or not, its
\* rows are those of the body in the ledger.
RowsInv ==
    \A k \in Scopes :
        instance[k[1]] # "deleted" => LiveRows(k) = snapshot[k].body.items

Successes ==
    \A h \in Pushers : pusher[h].at = "reply" /\ pusher[h].hint = 0
        => LET k == pusher[h].key
           IN  \/ snapshot[k].revision > pusher[h].revision
               \/ snapshot[k] = [revision |-> pusher[h].revision,
                                 body |-> pusher[h].body]

MetadataInv == MetadataTypeOK /\ Numbered /\ RowsInv /\ Successes

allVars == <<instanceVars, metadataVars>>
-----------------------------------------------------------------------------
(* Types.                                                                  *)

LEMMA BodyType ==
    ASSUME NEW b \in Bodies
    PROVE  b.items \subseteq Items /\ b.change \in Nat /\ b.life \in Nat
  BY MetadataAssumption DEF Bodies

LEMMA PusherKinds ==
    ASSUME MetadataTypeOK, NEW h \in Pushers
    PROVE  /\ Waiting.at = "idle"
           /\ pusher[h] = Waiting \/ pusher[h] \in PushRequests \/ pusher[h] \in PushReplies
           /\ pusher[h].at = "reply" => pusher[h] \in PushReplies
           /\ pusher[h].at \in {"credential", "instance", "commit"}
                 => pusher[h] \in PushRequests
           /\ pusher[h] # Waiting =>
                 /\ pusher[h].at # "idle" /\ pusher[h].cred \in Credentials
                 /\ pusher[h].key \in Scopes /\ pusher[h].body \in Bodies
                 /\ pusher[h].revision \in Nat \ {0}
<1>1. pusher[h] \in {Waiting} \cup PushRequests \cup PushReplies
  BY DEF MetadataTypeOK
<1>2. Waiting.at = "idle"
  BY DEF Waiting
<1> QED BY <1>1, <1>2 DEF PushRequests, PushReplies

LEMMA MetadataInitInv == InstancesInit /\ MetadataInit => MetadataInv
<1> SUFFICES ASSUME InstancesInit, MetadataInit PROVE MetadataInv
  OBVIOUS
<1> USE InstancesAssumption, MetadataAssumption DEF InstancesInit, MetadataInit
<1>1. MetadataTypeOK
  <2>1. NoCredential \in CredentialRows
    BY DEF NoCredential, CredentialRows
  <2>2. NoSnapshot \in [revision : Nat, body : Bodies]
    BY DEF NoSnapshot, Bodies
  <2>3. /\ [items |-> {}, change |-> 0] \in [items : SUBSET Items, change : 0..MaxChanges]
        /\ [revision |-> 0, life |-> 1] \in [revision : Nat, life : 1..MaxLives]
    OBVIOUS
  <2> QED BY <2>1, <2>2, <2>3 DEF MetadataTypeOK, InstancesTypeOK
<1>2. \A k \in Scopes : Sent(k) = {}
  BY DEF Sent, NoSnapshot
<1>3. RowsInv
  BY DEF RowsInv, LiveRows, NoSnapshot
<1>4. Successes
  BY DEF Successes, Waiting
<1> QED BY <1>1, <1>2, <1>3, <1>4 DEF MetadataInv, Numbered
-----------------------------------------------------------------------------
(* Snapshots under way.                                                    *)

LEMMA SentType ==
    ASSUME MetadataTypeOK, NEW k \in Scopes, NEW d \in Sent(k)
    PROVE  d.revision \in Nat \ {0} /\ d.body \in Bodies
<1>1. CASE d \in {s \in {snapshot[k]} : s.revision > 0}
  BY <1>1 DEF MetadataTypeOK
<1>2. CASE \E h \in Pushers : /\ pusher[h] # Waiting
                              /\ d = [revision |-> pusher[h].revision, body |-> pusher[h].body]
  BY <1>2, PusherKinds
<1> QED BY <1>1, <1>2 DEF Sent

\* Handlers drop snapshots, copy them, and enter them into the ledger; the
\* exporter's counter and the upstream list move on.
LEMMA NumberedKept ==
    ASSUME MetadataTypeOK, MetadataTypeOK', Numbered,
           \A k \in Scopes : Sent(k)' \subseteq Sent(k),
           \A k \in Scopes :
              /\ upstream[k].change <= upstream'[k].change
              /\ \/ counter[k].life < counter'[k].life
                 \/ /\ counter[k].life = counter'[k].life
                    /\ counter[k].revision <= counter'[k].revision
    PROVE  Numbered'
<1> SUFFICES ASSUME NEW k \in Scopes, NEW d \in Sent(k)'
             PROVE  /\ d.body.life <= counter'[k].life
                    /\ d.body.life = counter'[k].life => d.revision <= counter'[k].revision
                    /\ d.body.change <= upstream'[k].change
                    /\ \A e \in Sent(k)' :
                          d.body.life = e.body.life /\ d.revision <= e.revision
                            => d.body.change <= e.body.change
  BY DEF Numbered
<1>1. d \in Sent(k) /\ d.revision \in Nat /\ d.body.life \in Nat /\ d.body.change \in Nat
  BY SentType, BodyType
<1>2. /\ counter[k].life \in Nat /\ counter'[k].life \in Nat
      /\ counter[k].revision \in Nat /\ counter'[k].revision \in Nat
      /\ upstream[k].change \in Nat /\ upstream'[k].change \in Nat
  BY MetadataAssumption DEF MetadataTypeOK
<1> QED BY <1>1, <1>2 DEF Numbered

\* What the handler's own steps must show: one handler moves to a point with
\* the request it had, or copies a request, or leaves.
LEMMA SentKept ==
    ASSUME MetadataTypeOK, NEW h \in Pushers, NEW g \in Pushers, NEW p,
           pusher' = [pusher EXCEPT ![h] = p],
           \/ p = Waiting
           \/ /\ pusher[g] # Waiting /\ p.key = pusher[g].key
              /\ p.revision = pusher[g].revision /\ p.body = pusher[g].body,
           \A k \in Scopes : \/ snapshot'[k] = snapshot[k]
                             \/ snapshot'[k] \in Sent(k)
    PROVE  \A k \in Scopes : Sent(k)' \subseteq Sent(k)
<1> SUFFICES ASSUME NEW k \in Scopes, NEW d \in Sent(k)' PROVE d \in Sent(k)
  OBVIOUS
<1>1. CASE d \in {s \in {snapshot'[k]} : s.revision > 0}
  BY <1>1 DEF Sent
<1>2. CASE \E j \in Pushers : /\ pusher'[j] # Waiting /\ pusher'[j].key = k
                              /\ d = [revision |-> pusher'[j].revision,
                                      body |-> pusher'[j].body]
  <2>1. PICK j \in Pushers : /\ pusher'[j] # Waiting /\ pusher'[j].key = k
                             /\ d = [revision |-> pusher'[j].revision,
                                     body |-> pusher'[j].body]
    BY <1>2
  <2>2. pusher'[h] = p /\ \A i \in Pushers : i # h => pusher'[i] = pusher[i]
    BY DEF MetadataTypeOK
  <2>3. CASE j = h
    <3>1. pusher[g] # Waiting /\ pusher[g].key = k
      BY <2>1, <2>2, <2>3
    <3>2. d = [revision |-> pusher[g].revision, body |-> pusher[g].body]
      BY <2>1, <2>2, <2>3
    <3> QED BY <3>1, <3>2 DEF Sent
  <2>4. CASE j # h
    BY <2>1, <2>2, <2>4 DEF Sent
  <2> QED BY <2>3, <2>4
<1> QED BY <1>1, <1>2 DEF Sent

\* A step that leaves ledger and rows alone keeps them in agreement.
LEMMA LedgerKept ==
    ASSUME MetadataInv, UNCHANGED <<instance, snapshot, rowState>>,
           \A h \in Pushers : \/ pusher'[h] = pusher[h]
                              \/ pusher'[h].at # "reply"
                              \/ pusher'[h].hint # 0
    PROVE  RowsInv' /\ Successes'
<1>1. RowsInv'
  BY DEF MetadataInv, RowsInv, LiveRows
<1>2. Successes'
  BY DEF MetadataInv, Successes
<1> QED BY <1>1, <1>2
-----------------------------------------------------------------------------
(* The exporter.                                                           *)

LEMMA ChangeUpstreamInv ==
    ASSUME MetadataInv, NEW k \in Scopes, NEW items \in SUBSET Items, ChangeUpstream(k, items)
    PROVE  MetadataInv'
<1> DEFINE new == [items |-> items, change |-> upstream[k].change + 1]
<1>1. /\ upstream' = [upstream EXCEPT ![k] = new]
      /\ UNCHANGED <<instance, credential, counter, pusher, snapshot, rowState>>
  BY DEF ChangeUpstream, instanceVars
<1>2. /\ upstream[k].change \in Nat
      /\ new \in [items : SUBSET Items, change : 0..MaxChanges]
  BY MetadataAssumption DEF ChangeUpstream, MetadataInv, MetadataTypeOK
<1>3. upstream[k].change <= new.change
  BY <1>2
<1> HIDE DEF new
<1>4. MetadataTypeOK'
  BY <1>1, <1>2 DEF MetadataInv, MetadataTypeOK, InstancesTypeOK
<1>5. \A j \in Scopes : /\ upstream[j].change <= upstream'[j].change
                        /\ counter'[j] = counter[j] /\ counter[j].revision <= counter[j].revision
  BY <1>1, <1>3, MetadataAssumption DEF MetadataInv, MetadataTypeOK
<1>6. \A j \in Scopes : Sent(j)' = Sent(j)
  BY <1>1 DEF Sent
<1>7. Numbered'
  BY <1>4, <1>5, <1>6, NumberedKept DEF MetadataInv
<1> QED BY <1>1, <1>4, <1>7, LedgerKept DEF MetadataInv

LEMMA ReinstallInv ==
    ASSUME MetadataInv, NEW k \in Scopes, Reinstall(k) PROVE MetadataInv'
<1> DEFINE new == [revision |-> 0, life |-> counter[k].life + 1]
<1>1. /\ counter' = [counter EXCEPT ![k] = new]
      /\ UNCHANGED <<instance, credential, upstream, pusher, snapshot, rowState>>
  BY DEF Reinstall, instanceVars
<1>2. /\ counter[k].life \in Nat
      /\ new \in [revision : Nat, life : 1..MaxLives]
  BY MetadataAssumption DEF Reinstall, MetadataInv, MetadataTypeOK
<1>3. counter[k].life < new.life
  BY <1>2
<1> HIDE DEF new
<1>4. MetadataTypeOK'
  BY <1>1, <1>2 DEF MetadataInv, MetadataTypeOK, InstancesTypeOK
<1>5. \A j \in Scopes :
         /\ upstream[j].change <= upstream'[j].change
         /\ \/ counter[j].life < counter'[j].life
            \/ counter'[j] = counter[j] /\ counter[j].revision <= counter[j].revision
  BY <1>1, <1>3, MetadataAssumption DEF MetadataInv, MetadataTypeOK
<1>6. \A j \in Scopes : Sent(j)' = Sent(j)
  BY <1>1 DEF Sent
<1>7. Numbered'
  BY <1>4, <1>5, <1>6, NumberedKept DEF MetadataInv
<1> QED BY <1>1, <1>4, <1>7, LedgerKept DEF MetadataInv

\* A new snapshot has a higher revision than every one of its life, and the
\* newest list.
LEMMA PushInv ==
    ASSUME MetadataInv, NEW h \in Pushers, NEW c \in Credentials, NEW cat \in Categories,
           NEW w \in BOOLEAN, Push(h, c, cat, w)
    PROVE  MetadataInv'
<1>2. PICK k \in Scopes : k = <<credential[c].owner, cat>>
  BY DEF MetadataInv, MetadataTypeOK, InstancesTypeOK, CredentialRows, Scopes
<1> DEFINE r == counter[k].revision + 1
           body == [items |-> upstream[k].items, change |-> upstream[k].change,
                    life |-> counter[k].life]
           new == [at |-> "credential", cred |-> c, key |-> k, wellFormed |-> w,
                   revision |-> r, body |-> body]
           d == [revision |-> r, body |-> body]
<1>1. /\ pusher[h] = Waiting
      /\ counter' = [counter EXCEPT ![k].revision = r]
      /\ pusher' = [pusher EXCEPT ![h] = new]
      /\ UNCHANGED <<instance, credential, upstream, snapshot, rowState>>
  BY <1>2 DEF Push, instanceVars
<1>3. /\ counter[k] \in [revision : Nat, life : 1..MaxLives]
      /\ upstream[k] \in [items : SUBSET Items, change : 0..MaxChanges]
      /\ counter \in [Scopes -> [revision : Nat, life : 1..MaxLives]]
  BY <1>2 DEF MetadataInv, MetadataTypeOK
<1>4. body \in Bodies /\ r \in Nat \ {0} /\ r > counter[k].revision
  BY <1>3 DEF Bodies
<1>5. /\ body.life = counter[k].life /\ body.change = upstream[k].change
      /\ d.revision = r /\ d.body = body
      /\ new.at = "credential" /\ new.key = k /\ new.revision = r /\ new.body = body
  OBVIOUS
<1>6. new \in PushRequests
  BY <1>2, <1>4 DEF PushRequests
<1>7. [counter[k] EXCEPT !.revision = r] \in [revision : Nat, life : 1..MaxLives]
  BY <1>3, <1>4
<1>8. /\ counter'[k].revision = r /\ counter'[k].life = counter[k].life
      /\ \A j \in Scopes : j # k => counter'[j] = counter[j]
  BY <1>1, <1>2, <1>3
<1> HIDE DEF body, new, r, d
<1>9. MetadataTypeOK'
  <2>1. counter' = [counter EXCEPT ![k] = [counter[k] EXCEPT !.revision = r]]
    BY <1>1, <1>2, <1>3
  <2>2. counter' \in [Scopes -> [revision : Nat, life : 1..MaxLives]]
    BY <1>2, <1>3, <1>7, <2>1
  <2>3. pusher' \in [Pushers -> {Waiting} \cup PushRequests \cup PushReplies]
    BY <1>1, <1>6 DEF MetadataInv, MetadataTypeOK
  <2> QED BY <1>1, <2>2, <2>3 DEF MetadataInv, MetadataTypeOK, InstancesTypeOK
<1>10. /\ pusher'[h] = new
       /\ \A g \in Pushers : g # h => pusher'[g] = pusher[g]
  BY <1>1 DEF MetadataInv, MetadataTypeOK
<1>11. /\ \A j \in Scopes : j # k => Sent(j)' \subseteq Sent(j)
       /\ Sent(k)' \subseteq Sent(k) \cup {d}
  <2> SUFFICES ASSUME NEW j \in Scopes, NEW e \in Sent(j)'
               PROVE  e \in Sent(j) \/ (j = k /\ e = d)
    BY <1>2
  <2>1. CASE e \in {s \in {snapshot'[j]} : s.revision > 0}
    BY <1>1, <2>1 DEF Sent
  <2>2. CASE \E g \in Pushers : /\ pusher'[g] # Waiting /\ pusher'[g].key = j
                                /\ e = [revision |-> pusher'[g].revision,
                                        body |-> pusher'[g].body]
    <3>1. PICK g \in Pushers : /\ pusher'[g] # Waiting /\ pusher'[g].key = j
                               /\ e = [revision |-> pusher'[g].revision,
                                       body |-> pusher'[g].body]
      BY <2>2
    <3>2. CASE g = h
      BY <1>5, <1>10, <3>1, <3>2 DEF d
    <3>3. CASE g # h
      BY <1>10, <3>1, <3>3 DEF Sent
    <3> QED BY <3>2, <3>3
  <2> QED BY <2>1, <2>2 DEF Sent
<1>12. Numbered'
  <2> SUFFICES ASSUME NEW j \in Scopes, NEW e \in Sent(j)'
               PROVE  /\ e.body.life <= counter'[j].life
                      /\ e.body.life = counter'[j].life => e.revision <= counter'[j].revision
                      /\ e.body.change <= upstream'[j].change
                      /\ \A f \in Sent(j)' :
                            e.body.life = f.body.life /\ e.revision <= f.revision
                              => e.body.change <= f.body.change
    BY DEF Numbered
  <2>1. \A f \in Sent(j) : /\ f.revision \in Nat /\ f.body.life \in Nat
                           /\ f.body.change \in Nat
    BY SentType, BodyType DEF MetadataInv
  <2>2. \A f \in Sent(j) :
           /\ f.body.life <= counter[j].life
           /\ f.body.life = counter[j].life => f.revision <= counter[j].revision
           /\ f.body.change <= upstream[j].change
           /\ \A g \in Sent(j) :
                 f.body.life = g.body.life /\ f.revision <= g.revision
                   => f.body.change <= g.body.change
    BY DEF MetadataInv, Numbered
  <2>3. CASE j # k
    BY <1>1, <1>8, <1>11, <2>2, <2>3
  <2>4. CASE j = k
    <3>1. \A f \in Sent(k)' : f \in Sent(k) \/ f = d
      BY <1>11
    <3>2. /\ counter[k].revision \in Nat /\ counter[k].life \in Nat
          /\ upstream[k].change \in Nat /\ r \in Nat
      BY <1>3, <1>4, MetadataAssumption
    <3>3. /\ counter'[k].life = counter[k].life /\ counter'[k].revision = r
          /\ upstream'[k].change = upstream[k].change
      BY <1>1, <1>8
    <3>4. \A f \in Sent(k) : f.body.life = d.body.life
             => f.revision < d.revision /\ f.body.change <= d.body.change
      BY <1>4, <1>5, <2>1, <2>2, <2>4, <3>2
    <3>5. CASE e = d
      BY <1>5, <2>4, <3>1, <3>2, <3>3, <3>4, <3>5, <2>1
    <3>6. CASE e \in Sent(k)
      <4>1. /\ e.revision \in Nat /\ e.body.life \in Nat /\ e.body.change \in Nat
            /\ e.body.life <= counter[k].life
            /\ e.body.life = counter[k].life => e.revision <= counter[k].revision
            /\ e.body.change <= upstream[k].change
        BY <2>1, <2>2, <2>4, <3>6
      <4>2. \A f \in Sent(k) : e.body.life = f.body.life /\ e.revision <= f.revision
                               => e.body.change <= f.body.change
        BY <2>2, <2>4, <3>6
      <4>3. e.body.life = d.body.life => e.body.change <= d.body.change
        BY <3>4, <3>6
      <4>4. counter[k].revision <= r
        BY <1>4, <3>2
      <4> QED BY <2>4, <3>1, <3>2, <3>3, <4>1, <4>2, <4>3, <4>4
    <3> QED BY <2>4, <3>1, <3>5, <3>6
  <2> QED BY <2>3, <2>4
<1>13. \A g \in Pushers : pusher'[g] = pusher[g] \/ pusher'[g].at # "reply"
  BY <1>5, <1>10
<1> QED BY <1>1, <1>9, <1>12, <1>13, LedgerKept DEF MetadataInv
-----------------------------------------------------------------------------
(* The handlers.                                                           *)

\* A handler leaves, moves to a point with its request, or copies another's.
LEMMA MoveInv ==
    ASSUME MetadataInv, NEW h \in Pushers, NEW g \in Pushers, NEW p,
           pusher' = [pusher EXCEPT ![h] = p],
           \/ p = Waiting
           \/ /\ pusher[g] # Waiting /\ p \in PushRequests
              /\ p.key = pusher[g].key /\ p.revision = pusher[g].revision
              /\ p.body = pusher[g].body,
           UNCHANGED <<instanceVars, metadataExporterVars, snapshot, rowState>>
    PROVE  MetadataInv'
<1>1. UNCHANGED <<instance, credential, upstream, counter, snapshot, rowState>>
  BY DEF instanceVars, metadataExporterVars
<1>2. MetadataTypeOK'
  BY <1>1 DEF MetadataInv, MetadataTypeOK, InstancesTypeOK
<1>3. \A k \in Scopes : Sent(k)' \subseteq Sent(k)
  BY <1>1, SentKept DEF MetadataInv
<1>4. \A k \in Scopes : /\ upstream[k].change <= upstream'[k].change
                        /\ counter[k].life = counter'[k].life
                        /\ counter[k].revision <= counter'[k].revision
  BY <1>1, MetadataAssumption DEF MetadataInv, MetadataTypeOK
<1>5. Numbered'
  BY <1>2, <1>3, <1>4, NumberedKept DEF MetadataInv
<1>6. \A j \in Pushers : pusher'[j] = pusher[j] \/ pusher'[j].at # "reply"
  <2>1. p.at # "reply"
    BY DEF Waiting, PushRequests
  <2> QED BY <2>1 DEF MetadataInv, MetadataTypeOK
<1> QED BY <1>1, <1>2, <1>5, <1>6, LedgerKept DEF MetadataInv

LEMMA MetadataHandlerInv ==
    ASSUME MetadataInv, NEW h \in Pushers,
           \/ PushCredential(h) \/ PushDecode(h) \/ PushFails(h)
           \/ \E g \in Pushers : Repeat(h, g)
    PROVE  MetadataInv'
<1>1. UNCHANGED <<instanceVars, metadataExporterVars, snapshot, rowState>>
  BY DEF PushCredential, PushDecode, PushFails, Repeat
<1>2. CASE Leaves(h)
  BY <1>1, <1>2, MoveInv DEF Leaves
<1>3. ASSUME NEW point \in {"instance", "commit"}, Goes(h, point),
             pusher[h].at \in {"credential", "instance"}
      PROVE  MetadataInv'
  <2>1. pusher[h] \in PushRequests /\ pusher[h] # Waiting
    BY <1>3, PusherKinds DEF MetadataInv
  <2> DEFINE p == [pusher[h] EXCEPT !.at = point]
  <2>2. /\ p \in PushRequests /\ p.key = pusher[h].key
        /\ p.revision = pusher[h].revision /\ p.body = pusher[h].body
    BY <1>3, <2>1 DEF PushRequests
  <2>3. pusher' = [pusher EXCEPT ![h] = p]
    BY <1>3 DEF Goes
  <2> HIDE DEF p
  <2> QED BY <1>1, <2>1, <2>2, <2>3, MoveInv
<1>4. CASE \E g \in Pushers : Repeat(h, g)
  <2>1. PICK g \in Pushers : Repeat(h, g)
    BY <1>4
  <2> DEFINE p == [at |-> "credential", cred |-> pusher[g].cred, key |-> pusher[g].key,
                   wellFormed |-> pusher[g].wellFormed,
                   revision |-> pusher[g].revision, body |-> pusher[g].body]
  <2>2. /\ pusher[g] \in PushRequests \cup PushReplies
        /\ pusher[g] # Waiting /\ pusher' = [pusher EXCEPT ![h] = p]
    BY <2>1, PusherKinds DEF Repeat, MetadataInv
  <2>3. /\ p \in PushRequests /\ p.key = pusher[g].key
        /\ p.revision = pusher[g].revision /\ p.body = pusher[g].body
    BY <2>2 DEF PushRequests, PushReplies
  <2> HIDE DEF p
  <2> QED BY <1>1, <2>2, <2>3, MoveInv
<1> QED BY <1>2, <1>3, <1>4 DEF PushCredential, PushDecode, PushFails

LEMMA ReceiveReplyInv ==
    ASSUME MetadataInv, NEW h \in Pushers, ReceiveReply(h) PROVE MetadataInv'
<1>1. PICK k \in Scopes : k = pusher[h].key
  BY PusherKinds DEF ReceiveReply, MetadataInv, PushReplies
<1> DEFINE r == IF pusher[h].hint > counter[k].revision
                THEN pusher[h].hint ELSE counter[k].revision
<1>2. /\ pusher' = [pusher EXCEPT ![h] = Waiting]
      /\ counter' = [counter EXCEPT ![k].revision = r]
      /\ UNCHANGED <<instance, credential, upstream, snapshot, rowState>>
  BY <1>1 DEF ReceiveReply, instanceVars
<1>3. pusher[h].hint \in Nat
  BY PusherKinds DEF ReceiveReply, MetadataInv, PushReplies
<1>4. /\ counter[k] \in [revision : Nat, life : 1..MaxLives]
      /\ counter \in [Scopes -> [revision : Nat, life : 1..MaxLives]]
  BY DEF MetadataInv, MetadataTypeOK
<1>5. r \in Nat /\ counter[k].revision <= r
  BY <1>3, <1>4
<1> HIDE DEF r
<1>6. /\ counter'[k].revision = r /\ counter'[k].life = counter[k].life
      /\ \A j \in Scopes : j # k => counter'[j] = counter[j]
      /\ counter' \in [Scopes -> [revision : Nat, life : 1..MaxLives]]
  BY <1>2, <1>4, <1>5
<1>7. MetadataTypeOK'
  BY <1>2, <1>6 DEF MetadataInv, MetadataTypeOK, InstancesTypeOK
<1>8. \A j \in Scopes : Sent(j)' \subseteq Sent(j)
  BY <1>2, SentKept DEF MetadataInv
<1>9. \A j \in Scopes : /\ upstream[j].change <= upstream'[j].change
                        /\ counter[j].life = counter'[j].life
                        /\ counter[j].revision <= counter'[j].revision
  BY <1>2, <1>5, <1>6, MetadataAssumption DEF MetadataInv, MetadataTypeOK
<1>10. Numbered'
  BY <1>7, <1>8, <1>9, NumberedKept DEF MetadataInv
<1>11. \A j \in Pushers : pusher'[j] = pusher[j] \/ pusher'[j].at # "reply"
  BY <1>2 DEF MetadataInv, MetadataTypeOK, Waiting
<1> QED BY <1>2, <1>7, <1>10, <1>11, LedgerKept DEF MetadataInv

\* What a handler at the commit has, and what Answered leaves.
LEMMA AnsweredStep ==
    ASSUME MetadataInv, NEW h \in Pushers, NEW hint \in Nat, pusher[h].at = "commit",
           Answered(h, hint)
    PROVE  /\ pusher' \in [Pushers -> {Waiting} \cup PushRequests \cup PushReplies]
           /\ \A g \in Pushers : g # h => pusher'[g] = pusher[g]
           /\ pusher'[h].at = "reply" /\ pusher'[h].hint = hint
           /\ pusher'[h].key = pusher[h].key /\ pusher'[h].body = pusher[h].body
           /\ pusher'[h].revision = pusher[h].revision
           /\ pusher[h] \in PushRequests /\ pusher[h] # Waiting
           /\ pusher[h].key \in Scopes
           /\ ((\A k \in Scopes : snapshot'[k] = snapshot[k] \/ snapshot'[k] \in Sent(k))
                 => \A k \in Scopes : Sent(k)' \subseteq Sent(k))
<1>1. pusher[h] \in PushRequests /\ pusher[h] # Waiting
  BY PusherKinds DEF MetadataInv
<1> DEFINE p == [at |-> "reply", cred |-> pusher[h].cred, key |-> pusher[h].key,
                 wellFormed |-> TRUE, revision |-> pusher[h].revision,
                 body |-> pusher[h].body, hint |-> hint]
<1>2. p \in PushReplies
  BY <1>1 DEF PushRequests, PushReplies
<1>3. /\ p.at = "reply" /\ p.hint = hint /\ p.key = pusher[h].key
      /\ p.body = pusher[h].body /\ p.revision = pusher[h].revision
  OBVIOUS
<1>4. pusher' = [pusher EXCEPT ![h] = p]
  BY DEF Answered
<1>5. pusher[h].key \in Scopes
  BY <1>1 DEF PushRequests
<1> HIDE DEF p
<1>6. /\ pusher' \in [Pushers -> {Waiting} \cup PushRequests \cup PushReplies]
      /\ pusher'[h] = p /\ \A g \in Pushers : g # h => pusher'[g] = pusher[g]
  BY <1>2, <1>4 DEF MetadataInv, MetadataTypeOK
<1>7. (\A k \in Scopes : snapshot'[k] = snapshot[k] \/ snapshot'[k] \in Sent(k))
         => \A k \in Scopes : Sent(k)' \subseteq Sent(k)
  BY <1>1, <1>3, <1>4, SentKept DEF MetadataInv
<1> QED BY <1>1, <1>3, <1>5, <1>6, <1>7

\* A replay is answered for the body in the ledger; a refusal carries its
\* revision, which is not zero.
LEMMA AnswerInv ==
    ASSUME MetadataInv, NEW h \in Pushers, ReplaySnapshot(h) \/ RefuseSnapshot(h) PROVE MetadataInv'
<1>1. PICK k \in Scopes : k = pusher[h].key
  BY PusherKinds DEF ReplaySnapshot, RefuseSnapshot, MetadataInv, PushRequests
<1>2. snapshot[k] \in [revision : Nat, body : Bodies]
  BY DEF MetadataInv, MetadataTypeOK
<1>3. PICK hint \in Nat :
         /\ pusher[h].at = "commit" /\ Answered(h, hint)
         /\ hint = 0 => snapshot[k] = [revision |-> pusher[h].revision,
                                       body |-> pusher[h].body]
  <2>1. CASE ReplaySnapshot(h)
    BY <1>1, <1>2, <2>1 DEF ReplaySnapshot, ConflictingBody
  <2>2. CASE RefuseSnapshot(h)
    BY <1>1, <1>2, <2>2 DEF RefuseSnapshot, Applies
  <2> QED BY <2>1, <2>2
<1>4. UNCHANGED <<instance, credential, upstream, counter, snapshot, rowState>>
  BY DEF ReplaySnapshot, RefuseSnapshot, instanceVars, metadataExporterVars
<1>5. MetadataTypeOK'
  BY <1>3, <1>4, AnsweredStep DEF MetadataInv, MetadataTypeOK, InstancesTypeOK
<1>6. \A j \in Scopes : Sent(j)' \subseteq Sent(j)
  BY <1>3, <1>4, AnsweredStep
<1>7. \A j \in Scopes : /\ upstream[j].change <= upstream'[j].change
                        /\ counter[j].life = counter'[j].life
                        /\ counter[j].revision <= counter'[j].revision
  BY <1>4, MetadataAssumption DEF MetadataInv, MetadataTypeOK
<1>8. Numbered'
  BY <1>5, <1>6, <1>7, NumberedKept DEF MetadataInv
<1>9. RowsInv'
  BY <1>4 DEF MetadataInv, RowsInv, LiveRows
<1>10. Successes'
  <2>1. /\ \A g \in Pushers : g # h => pusher'[g] = pusher[g]
        /\ pusher'[h].hint = hint
        /\ pusher'[h].key = pusher[h].key /\ pusher'[h].body = pusher[h].body
        /\ pusher'[h].revision = pusher[h].revision
    BY <1>3, AnsweredStep
  <2>2. \A g \in Pushers : g # h =>
           (pusher[g].at = "reply" /\ pusher[g].hint = 0
             => \/ snapshot[pusher[g].key].revision > pusher[g].revision
                \/ snapshot[pusher[g].key] = [revision |-> pusher[g].revision,
                                              body |-> pusher[g].body])
    BY DEF MetadataInv, Successes
  <2> QED BY <1>1, <1>3, <1>4, <2>1, <2>2 DEF Successes
<1> QED BY <1>5, <1>8, <1>9, <1>10 DEF MetadataInv

\* What the transaction that applies a body does.
LEMMA AppliedStep ==
    ASSUME MetadataInv, NEW h \in Pushers, ApplySnapshot(h), NEW k \in Scopes, k = pusher[h].key
    PROVE  LET s == [revision |-> pusher[h].revision, body |-> pusher[h].body]
           IN  /\ s \in Sent(k) /\ s \in [revision : Nat, body : Bodies]
               /\ s.revision > snapshot[k].revision
               /\ snapshot' = [snapshot EXCEPT ![k] = s]
<1>1. pusher[h] \in PushRequests /\ pusher[h] # Waiting
  BY PusherKinds DEF ApplySnapshot, MetadataInv
<1>2. /\ pusher[h].revision \in Nat \ {0} /\ pusher[h].body \in Bodies
  BY <1>1 DEF PushRequests
<1> DEFINE s == [revision |-> pusher[h].revision, body |-> pusher[h].body]
<1>3. s \in Sent(k)
  BY <1>1 DEF Sent
<1>4. s \in [revision : Nat, body : Bodies] /\ s.revision = pusher[h].revision
  BY <1>2
<1>5. snapshot[k].revision \in Nat
  BY DEF MetadataInv, MetadataTypeOK
<1>6. snapshot' = [snapshot EXCEPT ![k] = s]
  BY DEF ApplySnapshot
<1>7. s.revision > snapshot[k].revision
  BY <1>2, <1>4, <1>5 DEF ApplySnapshot, Applies
<1> QED BY <1>3, <1>4, <1>6, <1>7

LEMMA ApplyInv ==
    ASSUME MetadataInv, NEW h \in Pushers, ApplySnapshot(h) PROVE MetadataInv'
<1>1. PICK k \in Scopes : k = pusher[h].key
  BY PusherKinds DEF ApplySnapshot, MetadataInv, PushRequests
<1> DEFINE s == [revision |-> pusher[h].revision, body |-> pusher[h].body]
           newRows == Replaced(rowState[k], s.body.items)
<1>2. /\ s \in Sent(k) /\ s \in [revision : Nat, body : Bodies]
      /\ s.revision > snapshot[k].revision
      /\ snapshot' = [snapshot EXCEPT ![k] = s]
      /\ s.revision = pusher[h].revision /\ s.body = pusher[h].body
  BY <1>1, AppliedStep
<1>3. /\ pusher[h].at = "commit" /\ Answered(h, 0)
      /\ rowState' = [rowState EXCEPT ![k] = newRows]
      /\ UNCHANGED <<instance, credential, upstream, counter>>
  BY <1>1 DEF ApplySnapshot, instanceVars, metadataExporterVars
<1> HIDE DEF s
<1>4. s.body.items \subseteq Items
  BY <1>2, BodyType
<1>5. /\ newRows \in [Items -> {"live", "deleted", "absent"}]
      /\ {x \in Items : newRows[x] = "live"} = s.body.items
  BY <1>4 DEF Replaced, MetadataInv, MetadataTypeOK
<1> HIDE DEF newRows
<1>6. /\ snapshot'[k] = s /\ \A j \in Scopes : j # k => snapshot'[j] = snapshot[j]
      /\ rowState'[k] = newRows /\ \A j \in Scopes : j # k => rowState'[j] = rowState[j]
  BY <1>2, <1>3 DEF MetadataInv, MetadataTypeOK
<1>7. MetadataTypeOK'
  BY <1>2, <1>3, <1>5, AnsweredStep DEF MetadataInv, MetadataTypeOK, InstancesTypeOK
<1>8. \A j \in Scopes : Sent(j)' \subseteq Sent(j)
  BY <1>2, <1>3, <1>6, AnsweredStep
<1>9. \A j \in Scopes : /\ upstream[j].change <= upstream'[j].change
                        /\ counter[j].life = counter'[j].life
                        /\ counter[j].revision <= counter'[j].revision
  BY <1>3, MetadataAssumption DEF MetadataInv, MetadataTypeOK
<1>10. Numbered'
  BY <1>7, <1>8, <1>9, NumberedKept DEF MetadataInv
<1>11. RowsInv'
  <2> SUFFICES ASSUME NEW j \in Scopes, instance[j[1]] # "deleted"
               PROVE  {x \in Items : rowState'[j][x] = "live"} = snapshot'[j].body.items
    BY <1>3 DEF RowsInv, LiveRows
  <2>1. CASE j = k
    BY <1>5, <1>6, <2>1
  <2>2. CASE j # k
    BY <1>6, <2>2 DEF MetadataInv, RowsInv, LiveRows
  <2> QED BY <2>1, <2>2
<1>12. Successes'
  <2> SUFFICES ASSUME NEW g \in Pushers, pusher'[g].at = "reply", pusher'[g].hint = 0
               PROVE  LET j == pusher'[g].key
                      IN  \/ snapshot'[j].revision > pusher'[g].revision
                          \/ snapshot'[j] = [revision |-> pusher'[g].revision,
                                             body |-> pusher'[g].body]
    BY DEF Successes
  <2>1. CASE g = h
    BY <1>1, <1>3, <1>6, <2>1, AnsweredStep DEF s
  <2>2. CASE g # h
    <3>1. pusher'[g] = pusher[g]
      BY <1>3, <2>2, AnsweredStep
    <3>2. PICK j \in Scopes : j = pusher[g].key
      BY <3>1, PusherKinds DEF MetadataInv, PushReplies
    <3>3. \/ snapshot[j].revision > pusher[g].revision
          \/ snapshot[j] = [revision |-> pusher[g].revision, body |-> pusher[g].body]
      BY <3>1, <3>2 DEF MetadataInv, Successes
    <3>4. pusher[g].revision \in Nat /\ snapshot[j].revision \in Nat /\ s.revision \in Nat
      BY <1>2, <3>1, PusherKinds DEF MetadataInv, PushReplies, MetadataTypeOK
    <3>5. \/ snapshot'[j].revision > pusher[g].revision
          \/ snapshot'[j] = [revision |-> pusher[g].revision, body |-> pusher[g].body]
      <4>1. CASE j = k
        BY <1>2, <1>6, <3>3, <3>4, <4>1
      <4>2. CASE j # k
        BY <1>6, <3>3, <4>2
      <4> QED BY <4>1, <4>2
    <3> QED BY <3>1, <3>2, <3>5
  <2> QED BY <2>1, <2>2
<1> QED BY <1>7, <1>10, <1>11, <1>12 DEF MetadataInv
-----------------------------------------------------------------------------
(* The administrator.                                                      *)

\* No request brings a deleted instance back.
LEMMA MetadataAdministerStep ==
    ASSUME InstancesTypeOK, Administer
    PROVE  /\ InstancesTypeOK'
           /\ \A i \in Instances : instance'[i] # "deleted" => instance[i] # "deleted"
<1>1. \A i \in Instances : NewCredential(i) \in CredentialRows
  BY DEF NewCredential, CredentialRows
<1>2. \A row \in CredentialRows : Revoked(row) \in CredentialRows /\ Expired(row) \in CredentialRows
  BY DEF Revoked, Expired, CredentialRows
<1> USE DEF InstancesTypeOK, Exists
<1>3. ASSUME NEW i \in Instances, NEW c \in Credentials,
             Create(i, c) \/ Issue(i, c) \/ Revoke(i, c)
      PROVE  /\ InstancesTypeOK'
             /\ \A j \in Instances : instance'[j] # "deleted" => instance[j] # "deleted"
  BY <1>1, <1>2, <1>3 DEF Create, Issue, Issued, Revoke
<1>4. ASSUME NEW i \in Instances, NEW on \in BOOLEAN, SetEnabled(i, on)
      PROVE  /\ InstancesTypeOK'
             /\ \A j \in Instances : instance'[j] # "deleted" => instance[j] # "deleted"
  BY <1>4 DEF SetEnabled
<1>5. ASSUME NEW i \in Instances, NEW old \in Credentials, NEW new \in Credentials,
             Rotate(i, old, new)
      PROVE  InstancesTypeOK' /\ instance' = instance
  BY <1>1, <1>2, <1>5 DEF Rotate
<1>6. ASSUME NEW c \in Credentials, Expire(c)
      PROVE  InstancesTypeOK' /\ instance' = instance
  BY <1>2, <1>6 DEF Expire
<1> QED BY <1>3, <1>4, <1>5, <1>6 DEF Administer

LEMMA MetadataAdministerInv ==
    ASSUME MetadataInv, Administer, UNCHANGED metadataVars PROVE MetadataInv'
<1>1. /\ InstancesTypeOK'
      /\ \A i \in Instances : instance'[i] # "deleted" => instance[i] # "deleted"
  BY MetadataAdministerStep DEF MetadataInv, MetadataTypeOK
<1>2. UNCHANGED <<upstream, counter, pusher, snapshot, rowState>>
  BY DEF metadataVars
<1>3. MetadataTypeOK'
  BY <1>1, <1>2 DEF MetadataInv, MetadataTypeOK
<1>4. Numbered' /\ Successes'
  BY <1>2 DEF MetadataInv, Numbered, Sent, Successes
<1>5. RowsInv'
  BY <1>1, <1>2 DEF MetadataInv, RowsInv, LiveRows, Scopes
<1> QED BY <1>3, <1>4, <1>5 DEF MetadataInv

LEMMA MetadataDeleteInv ==
    ASSUME MetadataInv, NEW i \in Instances, DeleteMetadata(i) PROVE MetadataInv'
<1>1. UNCHANGED <<upstream, counter, pusher, snapshot>>
  BY DEF DeleteMetadata, metadataExporterVars
<1>2. InstancesTypeOK'
  <2>1. \A c \in Credentials : [credential[c] EXCEPT !.state = "removed"] \in CredentialRows
    BY DEF MetadataInv, MetadataTypeOK, InstancesTypeOK, CredentialRows
  <2> QED BY <2>1 DEF DeleteMetadata, Removed, MetadataInv, MetadataTypeOK, InstancesTypeOK
<1>3. rowState' = [k \in Scopes |-> IF k[1] = i THEN [x \in Items |-> "absent"]
                                   ELSE rowState[k]]
  BY DEF DeleteMetadata
<1>4. MetadataTypeOK'
  BY <1>1, <1>2, <1>3 DEF MetadataInv, MetadataTypeOK
<1>5. Numbered' /\ Successes'
  BY <1>1 DEF MetadataInv, Numbered, Sent, Successes
<1>6. RowsInv'
  <2> SUFFICES ASSUME NEW k \in Scopes, instance'[k[1]] # "deleted"
               PROVE  {x \in Items : rowState'[k][x] = "live"} = snapshot'[k].body.items
    BY DEF RowsInv, LiveRows
  <2>1. k[1] \in Instances /\ instance' = [instance EXCEPT ![i] = "deleted"]
    BY DEF Scopes, DeleteMetadata, Removed
  <2>2. k[1] # i /\ instance[k[1]] # "deleted"
    BY <2>1 DEF MetadataInv, MetadataTypeOK, InstancesTypeOK
  <2>3. rowState'[k] = rowState[k]
    BY <1>3, <2>2
  <2> QED BY <1>1, <2>2, <2>3 DEF MetadataInv, RowsInv, LiveRows
<1> QED BY <1>4, <1>5, <1>6 DEF MetadataInv
-----------------------------------------------------------------------------
LEMMA MetadataNextInv == MetadataInv /\ [MetadataNext]_allVars => MetadataInv'
<1> SUFFICES ASSUME MetadataInv, [MetadataNext]_allVars PROVE MetadataInv'
  OBVIOUS
<1>1. CASE UNCHANGED allVars
  <2>1. UNCHANGED <<instance, credential, upstream, counter, pusher, snapshot, rowState>>
    BY <1>1 DEF allVars, instanceVars, metadataVars
  <2> QED BY <2>1 DEF MetadataInv, MetadataTypeOK, InstancesTypeOK, Numbered, Sent,
                      RowsInv, LiveRows, Successes
<1>2. CASE MetadataNext
  BY <1>2, ChangeUpstreamInv, ReinstallInv, PushInv, MetadataHandlerInv, ReceiveReplyInv,
     ApplyInv, AnswerInv, MetadataAdministerInv, MetadataDeleteInv DEF MetadataNext
<1> QED BY <1>1, <1>2

LEMMA MetadataInvariance == MetadataSpec => []MetadataInv
  BY MetadataInitInv, MetadataNextInv, PTL DEF MetadataSpec, allVars

\* Every variable keeps its type, for any number of handlers and snapshots.
THEOREM MetadataTypeCorrect == MetadataSpec => []MetadataTypeOK
  BY MetadataInvariance, PTL DEF MetadataInv

\* The rows of a category are always those of the body in the ledger, and a
\* success is only given for that body or one the ledger has passed
\* (CommitMetadataSnapshot).
THEOREM LedgerTellsRows == MetadataSpec => []RowsMatchLedger
<1>1. MetadataInv => RowsMatchLedger
  <2> SUFFICES ASSUME MetadataInv PROVE RowsMatchLedger
    OBVIOUS
  <2>1. \A k \in Scopes : Exists(k[1]) => LiveRows(k) = snapshot[k].body.items
    BY DEF MetadataInv, RowsInv, Exists
  <2>2. Successes
    BY DEF MetadataInv
  <2> QED BY <2>1, <2>2 DEF RowsMatchLedger, Successes
<1> QED BY <1>1, MetadataInvariance, PTL

\* Only a later list of the same life replaces a list, in whatever order and
\* how often the requests arrive (CheckMetadataRevision).
LEMMA OnlyLater ==
    ASSUME MetadataInv, [MetadataNext]_allVars, NEW k \in Scopes, snapshot[k].revision > 0,
           snapshot'[k].body.life = snapshot[k].body.life
    PROVE  snapshot'[k].body.change >= snapshot[k].body.change
<1>1. snapshot[k].revision \in Nat /\ snapshot[k].body.change \in Nat
  BY BodyType DEF MetadataInv, MetadataTypeOK
<1>2. CASE UNCHANGED snapshot
  BY <1>1, <1>2
<1>3. CASE \E h \in Pushers : ApplySnapshot(h)
  <2>1. PICK h \in Pushers : ApplySnapshot(h)
    BY <1>3
  <2>2. PICK j \in Scopes : j = pusher[h].key
    BY <2>1, PusherKinds DEF ApplySnapshot, MetadataInv, PushRequests
  <2> DEFINE s == [revision |-> pusher[h].revision, body |-> pusher[h].body]
  <2>3. /\ s \in Sent(j) /\ s \in [revision : Nat, body : Bodies]
        /\ s.revision > snapshot[j].revision
        /\ snapshot' = [snapshot EXCEPT ![j] = s]
    BY <2>1, <2>2, AppliedStep
  <2> HIDE DEF s
  <2>4. CASE j # k
    BY <1>1, <2>3, <2>4 DEF MetadataInv, MetadataTypeOK
  <2>5. CASE j = k
    <3>1. snapshot'[k] = s
      BY <2>3, <2>5 DEF MetadataInv, MetadataTypeOK
    <3>2. snapshot[k] \in Sent(k) /\ s \in Sent(k)
      BY <2>3, <2>5 DEF Sent
    <3>3. snapshot[k].revision <= s.revision /\ s.body.change \in Nat
      BY <1>1, <2>3, <2>5, BodyType
    <3>4. snapshot[k].body.change <= s.body.change
      BY <3>1, <3>2, <3>3 DEF MetadataInv, Numbered
    <3> QED BY <1>1, <3>1, <3>3, <3>4
  <2> QED BY <2>4, <2>5
<1> QED
  BY <1>2, <1>3 DEF MetadataNext, ChangeUpstream, Reinstall, Push, Repeat,
     PushCredential, PushDecode, PushFails, ReceiveReply, ReplaySnapshot,
     RefuseSnapshot, DeleteMetadata, metadataVars, allVars

\* No delayed, repeated or overtaking snapshot brings an older list back.
THEOREM NeverOlderList == MetadataSpec => NoResurrection
<1> DEFINE Forward == \A k \in Scopes :
                 snapshot[k].revision > 0 /\ snapshot'[k].body.life = snapshot[k].body.life
                   => snapshot'[k].body.change >= snapshot[k].body.change
<1>1. MetadataInv /\ [MetadataNext]_allVars => [Forward]_metadataVars
  BY OnlyLater
<1>2. NoResurrection <=> [][Forward]_metadataVars
  BY DEF NoResurrection
<1> HIDE DEF Forward
<1> QED BY <1>1, <1>2, MetadataInvariance, PTL DEF MetadataSpec, allVars
=============================================================================
