--------------------------- MODULE ServicesProofs ---------------------------
(***************************************************************************)
(* What is proved of three services, for every value of their constants.   *)
(*                                                                         *)
(* Credentials: no completed change of a credential is taken back, and a   *)
(* change of a provider list changes nothing else in it, but for what      *)
(* others did to it where CPA gives no ETag, for any number of requests,   *)
(* keys and synchronisations and any number of changes by others.          *)
(*                                                                         *)
(* Backups: a file with a backup's name is whole and was finished, a       *)
(* finished backup can be restored until its day has expired, those that   *)
(* were due are an interval apart, and without a fault nothing temporary   *)
(* is left, wherever a step fails or the process ends.                     *)
(*                                                                         *)
(* The upgrade at the start: however often it is interrupted, it can go on *)
(* from where it was, refuses no database it has made itself, and has      *)
(* converted, priced and counted every event once when it is through.      *)
(***************************************************************************)
EXTENDS CredentialMutations, StartupPipeline, DatabaseBackup,
        FiniteSetTheorems, WellFoundedInduction, TLAPS

Lists == [Members -> States] \cup {Failed}

RequestRecords ==
    [at : {"lock", "call", "fetch", "put", "complete", "refresh"},
     kind : {"single", "batch", "delete"}, row : Rows, field : Fields,
     value : BOOLEAN, document : Lists, tagged : BOOLEAN, seen : Nat]

SyncRecords ==
    [at : {"credentials", "providers", "storeFile", "storeList"},
     version : Nat, file : States \cup {Failed}, list : Lists]

TypeOK ==
    /\ openai \in BOOLEAN
    /\ remote \in [Rows -> States]
    /\ local \in [Rows -> States]
    /\ version \in Nat
    /\ request \in [Requests -> {Unused, Done} \cup RequestRecords]
    /\ sync \in {NoSync} \cup SyncRecords
    /\ fetched \in BOOLEAN
    /\ wanted \in BOOLEAN
    /\ drift \in [Rows -> BOOLEAN]
    /\ outside \in Seq(Rows \X Fields)

\* Where a request of each kind can be.
PlacedAt(r) ==
    /\ r.at = "call" => r.row = File
    /\ r.at \in {"fetch", "put"} => r.row \in Members
    /\ r.at \notin {"unused", "done"} /\ r.kind # "single" => r.row = File

Placed == \A o \in Requests : PlacedAt(request[o])

\* The request has taken the lock of its file, or of its list.
Holds(r) ==
    /\ r.at \in {"call", "fetch", "put", "complete", "refresh"}
    /\ r.kind # "delete"

LocksExclude ==
    \A o, p \in Requests :
        /\ Holds(request[o]) /\ Holds(request[p])
        /\ (request[o].row = File) = (request[p].row = File)
        => o = p

\* What becomes of the state s of a row when the request r is applied to it.
After(s, r) == IF s = Gone THEN s ELSE [s EXCEPT ![r.field] = r.value]

\* The requests that UnderWay(x) is about.
Completing(x) ==
    {o \in Requests : request[o].at = "complete" /\ x \in Targets(request[o])}

\* The copy s of a row is CPA's state r, or becomes it by the one request
\* of C that is still to be written; d excuses it.
Agrees(s, r, d, C, requests) ==
    ~d => /\ C = {} => s = r
          /\ \A o \in C : C = {o} /\ requests[o].kind = "single"
                            => After(s, requests[o]) = r

AgreesAt(s, x) == Agrees(s, remote[x], drift[x], Completing(x), request)

LocalAgrees == \A x \in Rows : AgreesAt(local[x], x)

\* What a synchronisation holds agrees as well, as long as it will be saved.
FetchedAgrees ==
    sync # NoSync =>
        /\ sync.version <= version
        /\ sync.version = version =>
              /\ sync.file # Failed => AgreesAt(sync.file, File)
              /\ sync.list # Failed => \A x \in Members : AgreesAt(sync.list[x], x)

\* The document s of a request that read it when others had made n changes
\* differs from CPA's list r only where they have changed it since.
ReadSince(s, n, r, changes) ==
    /\ s \in [Members -> States]
    /\ \A x \in Members :
          LET Since(f) == \E i \in n + 1 .. Len(changes) : changes[i] = <<x, f>>
          IN  /\ s[x] # r[x] => \E f \in Fields : Since(f)
              /\ \A f \in Fields : s[x][f] # r[x][f] => Since(f)

DocumentsRead ==
    \A o \in Requests : request[o].at = "put" =>
        /\ request[o].seen <= Len(outside)
        /\ ReadSince(request[o].document, request[o].seen, remote, outside)

IInv == TypeOK /\ Placed /\ LocksExclude /\ LocalAgrees /\ FetchedAgrees /\ DocumentsRead
-----------------------------------------------------------------------------
(* Applying requests.                                                       *)

LEMMA AfterType ==
    ASSUME NEW s \in States, NEW r \in RequestRecords
    PROVE  After(s, r) \in States
BY DEF After, States, RequestRecords

\* To apply a request twice is to apply it once.
LEMMA AfterTwice ==
    ASSUME NEW s \in States, NEW r \in RequestRecords
    PROVE  After(After(s, r), r) = After(s, r)
<1> DEFINE t == After(s, r)
<1>1. CASE s = Gone \/ t = Gone
  BY <1>1 DEF After
<1>2. CASE s # Gone /\ t # Gone
  <2>1. s \in [Fields -> BOOLEAN] /\ t = [s EXCEPT ![r.field] = r.value]
    BY <1>2 DEF After, States
  <2>2. r.field \in Fields /\ r.value \in BOOLEAN
    BY DEF RequestRecords
  <2>3. [t EXCEPT ![r.field] = r.value] = t
    BY <2>1, <2>2
  <2> QED
    BY <1>2, <2>3 DEF After
<1> QED
  BY <1>1, <1>2

LEMMA SameAfter ==
    ASSUME NEW q, NEW r, q.field = r.field, q.value = r.value
    PROVE  \A s : After(s, q) = After(s, r)
BY DEF After

\* Changed applies the request to its targets and leaves the other rows.
LEMMA ChangedIsAfter ==
    ASSUME NEW states, NEW r, NEW x \in Rows
    PROVE  Changed(states, r)[x] =
             IF x \in Targets(r) THEN After(states[x], r) ELSE states[x]
BY DEF Changed, After

LEMMA ChangedType ==
    ASSUME NEW states \in [Rows -> States], NEW r \in RequestRecords
    PROVE  Changed(states, r) \in [Rows -> States]
<1>1. ASSUME NEW x \in Rows
      PROVE  Changed(states, r)[x] \in States
  <2>1. states[x] \in States /\ After(states[x], r) \in States
    BY AfterType
  <2> QED
    BY <2>1, ChangedIsAfter
<1> DEFINE f[x \in Rows] == IF x \notin Targets(r) \/ states[x] = Gone THEN states[x]
                            ELSE [states[x] EXCEPT ![r.field] = r.value]
<1>2. Changed(states, r) = f
  BY DEF Changed
<1> QED
  BY <1>1, <1>2

\* A request writes rows of the class it has locked: its file, or its list.
LEMMA TargetsInClass ==
    ASSUME NEW r, r.row \in Rows, NEW x \in Targets(r)
    PROVE  x \in Rows /\ (x = File) = (r.row = File)
BY MutationsAssumption DEF Targets, Rows
-----------------------------------------------------------------------------
(* Agreement of one row.                                                    *)

\* It outlasts every step that leaves the row and its requests alone, and
\* every step that marks a drift.
LEMMA AgreementStays ==
    ASSUME NEW s, NEW r1, NEW r2, NEW d1, NEW d2, NEW C, NEW q1, NEW q2,
           Agrees(s, r1, d1, C, q1),
           ~d2 => ~d1 /\ r2 = r1,
           \A o \in C : q2[o] = q1[o]
    PROVE  Agrees(s, r2, d2, C, q2)
BY DEF Agrees

\* CPA has applied a request, which is to be written now.
LEMMA AgreementAnswered ==
    ASSUME NEW s, NEW r1, NEW r2, NEW d1, NEW d2, NEW C, NEW q1, NEW q2, NEW o,
           Agrees(s, r1, d1, C, q1), o \notin C, ~d2 => ~d1,
           q2[o].kind = "single" => r2 = After(r1, q2[o])
    PROVE  Agrees(s, r2, d2, C \cup {o}, q2)
<1>1. ASSUME NEW p \in C \cup {o}, C \cup {o} = {p} PROVE p = o /\ C = {}
  BY <1>1
<1> QED
  BY <1>1 DEF Agrees

\* A request is written: no other one that would be is left.
LEMMA AgreementWritten ==
    ASSUME NEW s, NEW r, NEW d, NEW C, NEW q1, NEW q2, NEW o \in C,
           Agrees(s, r, d, C, q1), q1[o].kind = "single",
           \A p \in C \ {o} : q2[p].kind # "single"
    PROVE  Agrees(After(s, q1[o]), r, d, C \ {o}, q2)
<1>1. C \ {o} = {} => C = {o}
  OBVIOUS
<1> QED
  BY <1>1 DEF Agrees

\* What CPA says now agrees with CPA, whatever is to be written.
LEMMA FreshAgrees ==
    ASSUME NEW s \in States, NEW r, NEW d, NEW C, NEW q,
           Agrees(s, r, d, C, q), \A o \in C : q[o] \in RequestRecords
    PROVE  Agrees(r, r, d, C, q)
<1>1. ASSUME NEW o \in C, r = After(s, q[o]) PROVE After(r, q[o]) = r
  BY <1>1, AfterTwice
<1> QED
  BY <1>1 DEF Agrees
-----------------------------------------------------------------------------
(* Requests: where they are, and their locks.                               *)

RequestsInv ==
    /\ request \in [Requests -> {Unused, Done} \cup RequestRecords]
    /\ Placed
    /\ LocksExclude

LEMMA RecordOf ==
    ASSUME RequestsInv, NEW o \in Requests, request[o].at \notin {"unused", "done"}
    PROVE  request[o] \in RequestRecords
BY DEF RequestsInv, Unused, Done

\* A request may take a lock that nobody holds, and keep the one it has.
LEMMA RequestChanges ==
    ASSUME RequestsInv, NEW o \in Requests,
           NEW r \in {Unused, Done} \cup RequestRecords,
           request' = [request EXCEPT ![o] = r],
           PlacedAt(r),
           Holds(r) => Free(r.row) \/ (Holds(request[o]) /\ request[o].row = r.row)
    PROVE  RequestsInv'
<1>1. request'[o] = r /\ \A p \in Requests \ {o} : request'[p] = request[p]
  BY DEF RequestsInv
<1>2. request' \in [Requests -> {Unused, Done} \cup RequestRecords]
  BY DEF RequestsInv
<1>3. Placed'
  BY <1>1 DEF RequestsInv, Placed, PlacedAt
<1>4. ASSUME NEW p \in Requests \ {o}, Holds(r), Holds(request[p]),
             (r.row = File) = (request[p].row = File)
      PROVE  FALSE
  <2>1. CASE Free(r.row)
    BY <2>1, <1>4 DEF Free, Holds
  <2>2. CASE Holds(request[o]) /\ request[o].row = r.row
    BY <2>2, <1>4 DEF RequestsInv, LocksExclude
  <2> QED
    BY <2>1, <2>2, <1>4
<1>5. LocksExclude'
  <2> SUFFICES ASSUME NEW p \in Requests, NEW q \in Requests,
                      Holds(request'[p]), Holds(request'[q]),
                      (request'[p].row = File) = (request'[q].row = File), p # q
               PROVE  FALSE
    BY DEF LocksExclude, Holds
  <2>1. CASE p = o
    BY <2>1, <1>1, <1>4
  <2>2. CASE q = o
    BY <2>2, <1>1, <1>4
  <2>3. CASE p # o /\ q # o
    BY <2>3, <1>1 DEF RequestsInv, LocksExclude
  <2> QED
    BY <2>1, <2>2, <2>3
<1> QED
  BY <1>2, <1>3, <1>5 DEF RequestsInv

LEMMA RequestEnds ==
    ASSUME RequestsInv, NEW o \in Requests, Ends(o)
    PROVE  RequestsInv'
<1>1. PlacedAt(Done) /\ ~Holds(Done)
  BY DEF PlacedAt, Holds, Done
<1> QED
  BY <1>1, RequestChanges DEF Ends

LEMMA RequestMoves ==
    ASSUME RequestsInv, NEW o \in Requests, NEW place \in {"call", "fetch", "put", "complete", "refresh"},
           Moves(o, place),
           request[o].at \notin {"unused", "done"},
           place = "call" => request[o].row = File,
           place \in {"fetch", "put"} => request[o].row \in Members,
           Holds(request[o]) \/ request[o].kind = "delete" \/ Free(request[o].row)
    PROVE  RequestsInv'
<1> DEFINE r == [request[o] EXCEPT !.at = place]
<1>1. request[o] \in RequestRecords
  BY RecordOf
<1>2. r \in RequestRecords
  BY <1>1 DEF RequestRecords
<1>3. r.at = place /\ r.kind = request[o].kind /\ r.row = request[o].row
  BY <1>1 DEF RequestRecords
<1>4. PlacedAt(r)
  BY <1>3 DEF PlacedAt, RequestsInv, Placed
<1>5. Holds(r) => Free(r.row) \/ (Holds(request[o]) /\ request[o].row = r.row)
  BY <1>3 DEF Holds
<1>6. request' = [request EXCEPT ![o] = r]
  BY DEF Moves
<1> HIDE DEF r
<1> QED
  BY <1>2, <1>4, <1>5, <1>6, RequestChanges
-----------------------------------------------------------------------------
(* The rows.                                                                *)

RowsInv ==
    /\ openai \in BOOLEAN
    /\ remote \in [Rows -> States]
    /\ local \in [Rows -> States]
    /\ drift \in [Rows -> BOOLEAN]

SyncInv ==
    /\ version \in Nat
    /\ sync \in {NoSync} \cup SyncRecords

FieldsTyped == fetched \in BOOLEAN /\ wanted \in BOOLEAN /\ outside \in Seq(Rows \X Fields)

LEMMA Groups ==
    /\ IInv <=> /\ RequestsInv /\ RowsInv /\ SyncInv /\ FieldsTyped
                /\ LocalAgrees /\ FetchedAgrees /\ DocumentsRead
    /\ IInv' <=> /\ RequestsInv' /\ RowsInv' /\ SyncInv' /\ FieldsTyped'
                 /\ LocalAgrees' /\ FetchedAgrees' /\ DocumentsRead'
BY DEF IInv, TypeOK, RequestsInv, RowsInv, SyncInv, FieldsTyped

\* The requests that are to be written stay the same.
Quiet ==
    /\ openai' = openai
    /\ \A o \in Requests :
          request[o].at = "complete" \/ request'[o].at = "complete"
            => request'[o] = request[o]

LEMMA QuietCompleting ==
    ASSUME Quiet
    PROVE  \A x \in Rows :
              /\ Completing(x)' = Completing(x)
              /\ \A o \in Completing(x) : request'[o] = request[o]
BY DEF Quiet, Completing, Targets

\* A step that writes nothing locally and marks what it changes at CPA.
LEMMA QuietStep ==
    ASSUME LocalAgrees, FetchedAgrees, Quiet,
           UNCHANGED <<local, version, sync>>,
           \A x \in Rows : ~drift'[x] => ~drift[x] /\ remote'[x] = remote[x]
    PROVE  LocalAgrees' /\ FetchedAgrees'
<1>1. ASSUME NEW s, NEW x \in Rows, AgreesAt(s, x)
      PROVE  Agrees(s, remote'[x], drift'[x], Completing(x)', request')
  BY <1>1, QuietCompleting, AgreementStays DEF AgreesAt
<1>2. File \in Rows /\ \A x \in Members : x \in Rows
  BY DEF Rows
<1>3. LocalAgrees'
  BY <1>1 DEF LocalAgrees, AgreesAt
<1>4. FetchedAgrees'
  BY <1>1, <1>2 DEF FetchedAgrees, AgreesAt
<1> QED
  BY <1>3, <1>4

\* A request that does not come to its local write, or has written.
LEMMA OneIsQuiet ==
    ASSUME RequestsInv, NEW o \in Requests, NEW r,
           request' = [request EXCEPT ![o] = r], openai' = openai,
           request[o].at # "complete", r.at # "complete"
    PROVE  Quiet
BY DEF RequestsInv, Quiet

\* Request o gets a record that waits for its local write.
Answered(o, new) ==
    /\ new.at = "complete" /\ new.kind = request[o].kind /\ new.row = request[o].row
    /\ new.field = request[o].field /\ new.value = request[o].value
    /\ request' = [request EXCEPT ![o] = new]

\* CPA has applied r and nothing else, but for rows that are marked.
AppliedBut(r, back) ==
    /\ \A x \in Rows : ~drift'[x] => ~drift[x] /\ x \notin back
    /\ \A x \in Rows \ back : x \notin Targets(r) => remote'[x] = remote[x]
    /\ r.kind = "single" =>
         \A x \in Targets(r) \ back : remote'[x] = After(remote[x], r)

\* CPA has applied request o, and o is to be written; rows that were taken
\* back to an earlier state are marked.
LEMMA AnsweredStep ==
    ASSUME RequestsInv, LocalAgrees, FetchedAgrees,
           UNCHANGED <<openai, local, version, sync>>,
           NEW o \in Requests, request[o] \in RequestRecords, request[o].at # "complete",
           NEW new, Answered(o, new), NEW back, AppliedBut(request[o], back)
    PROVE  LocalAgrees' /\ FetchedAgrees'
<1>1. /\ request'[o] = new
      /\ \A p \in Requests \ {o} : request'[p] = request[p]
  BY DEF RequestsInv, Answered
<1>2. /\ request'[o].at = "complete" /\ request'[o].kind = request[o].kind
      /\ request'[o].row = request[o].row /\ request'[o].field = request[o].field
      /\ request'[o].value = request[o].value
  BY <1>1 DEF Answered
<1>3. Targets(request[o])' = Targets(request[o])
  BY <1>2 DEF Targets
<1>4. \A s : After(s, request'[o]) = After(s, request[o])
  BY <1>2, SameAfter
<1>5. ASSUME NEW s, NEW x \in Rows, AgreesAt(s, x)
      PROVE  Agrees(s, remote'[x], drift'[x], Completing(x)', request')
  <2>1. o \notin Completing(x)
    BY DEF Completing
  <2>2. \A p \in Completing(x) : request'[p] = request[p]
    BY <1>1, <2>1 DEF Completing
  <2>3. ~drift'[x] => ~drift[x] /\ x \notin back
    BY DEF AppliedBut
  <2>4. ~drift'[x] => ~drift[x]
    BY <2>3
  <2>5. Agrees(s, remote[x], drift[x], Completing(x), request)
    BY <1>5 DEF AgreesAt
  <2>6. CASE x \in back
    BY <2>3, <2>6 DEF Agrees
  <2>7. CASE x \notin back /\ x \in Targets(request[o])
    <3>1. \A p \in Requests \ {o} : p \in Completing(x)' <=> p \in Completing(x)
      BY <1>1 DEF Completing, Targets
    <3>2. o \in Completing(x)'
      BY <2>7, <1>2, <1>3 DEF Completing
    <3>3. Completing(x)' = Completing(x) \cup {o}
      BY <2>1, <3>1, <3>2 DEF Completing
    <3>4. request'[o].kind = "single" => remote'[x] = After(remote[x], request'[o])
      BY <2>7, <1>2, <1>4 DEF AppliedBut
    <3>5. Agrees(s, remote'[x], drift'[x], Completing(x) \cup {o}, request')
      BY <2>1, <2>4, <2>5, <3>4, AgreementAnswered
    <3> QED
      BY <3>3, <3>5
  <2>8. CASE x \notin back /\ x \notin Targets(request[o])
    <3>1. Completing(x)' = Completing(x)
      <4>1. \A p \in Requests \ {o} : p \in Completing(x)' <=> p \in Completing(x)
        BY <1>1 DEF Completing, Targets
      <4>2. o \notin Completing(x)'
        BY <2>8, <1>3 DEF Completing
      <4> QED
        BY <2>1, <4>1, <4>2 DEF Completing
    <3>2. ~drift'[x] => ~drift[x] /\ remote'[x] = remote[x]
      BY <2>8, <2>4 DEF AppliedBut
    <3>3. Agrees(s, remote'[x], drift'[x], Completing(x), request')
      BY <2>2, <2>5, <3>2, AgreementStays
    <3> QED
      BY <3>1, <3>3
  <2> QED
    BY <2>6, <2>7, <2>8
<1>6. File \in Rows /\ \A x \in Members : x \in Rows
  BY DEF Rows
<1>7. LocalAgrees'
  BY <1>5 DEF LocalAgrees, AgreesAt
<1>8. FetchedAgrees'
  BY <1>5, <1>6 DEF FetchedAgrees, AgreesAt
<1> QED
  BY <1>7, <1>8

\* A request is written locally; what a synchronisation holds gets stale.
LEMMA WrittenStep ==
    ASSUME RequestsInv, RowsInv, SyncInv, LocalAgrees, FetchedAgrees,
           NEW o \in Requests, NEW saved \in BOOLEAN, CompleteMutation(o, saved)
    PROVE  LocalAgrees' /\ FetchedAgrees'
<1> DEFINE r == request[o]
<1>1. /\ r.at = "complete" /\ r \in RequestRecords
      /\ request' = [request EXCEPT ![o].at = "refresh"]
      /\ remote' = remote /\ openai' = openai /\ sync' = sync /\ version' = version + 1
  <2>1. r.at = "complete"
    BY DEF CompleteMutation
  <2>2. r \in RequestRecords
    BY <2>1, RecordOf
  <2> QED
    BY <2>1, <2>2 DEF CompleteMutation, Moves, syncState
<1>2. /\ request'[o].at = "refresh"
      /\ \A p \in Requests \ {o} : request'[p] = request[p]
  BY <1>1 DEF RequestsInv, RequestRecords
<1>3. \A x \in Rows : Completing(x)' = Completing(x) \ {o}
  BY <1>1, <1>2 DEF Completing, Targets
<1>4. FetchedAgrees'
  BY <1>1 DEF FetchedAgrees, SyncInv, SyncRecords
<1>5. ASSUME NEW x \in Rows
      PROVE  Agrees(local'[x], remote'[x], drift'[x], Completing(x)', request')
  <2>1. Agrees(local[x], remote[x], drift[x], Completing(x), request)
    BY DEF LocalAgrees, AgreesAt
  <2>2. CASE x \notin Targets(r)
    <3>1. local'[x] = local[x] /\ drift'[x] = drift[x]
      BY <2>2 DEF CompleteMutation, PersistLocal, Changed, RowsInv
    <3>2. o \notin Completing(x)
      BY <2>2 DEF Completing
    <3>3. \A p \in Completing(x) : request'[p] = request[p]
      BY <1>2, <3>2 DEF Completing
    <3>4. Completing(x)' = Completing(x)
      BY <1>3, <3>2
    <3>5. ~drift'[x] => ~drift[x] /\ remote'[x] = remote[x]
      BY <1>1, <3>1
    <3>6. Agrees(local[x], remote'[x], drift'[x], Completing(x), request')
      BY <2>1, <3>3, <3>5, AgreementStays
    <3> QED
      BY <3>1, <3>4, <3>6
  <2>3. CASE x \in Targets(r) /\ ~(saved /\ r.kind = "single")
    <3>1. drift'[x]
      BY <2>3 DEF CompleteMutation
    <3> QED
      BY <3>1 DEF Agrees
  <2>4. CASE x \in Targets(r) /\ saved /\ r.kind = "single"
    <3>1. local'[x] = After(local[x], r) /\ drift'[x] = drift[x]
      BY <2>4, ChangedIsAfter DEF CompleteMutation, PersistLocal, RowsInv
    <3>2. o \in Completing(x)
      BY <1>1, <2>4 DEF Completing
    <3>3. ASSUME NEW p \in Completing(x) \ {o} PROVE request'[p].kind # "single"
      <4>1. p \in Requests /\ request[p].at = "complete" /\ x \in Targets(request[p])
        BY DEF Completing
      <4>2. request[p] \in RequestRecords
        BY <4>1, RecordOf
      <4>3. (request[p].row = File) = (r.row = File)
        BY <1>1, <2>4, <4>1, <4>2, TargetsInClass DEF RequestRecords
      <4>4. Holds(r)
        BY <1>1, <2>4 DEF Holds
      <4>5. ~Holds(request[p])
        BY <4>1, <4>3, <4>4 DEF RequestsInv, LocksExclude
      <4> QED
        BY <1>2, <4>1, <4>5 DEF Holds
    <3>4. Agrees(After(local[x], r), remote[x], drift[x], Completing(x) \ {o}, request')
      BY <2>1, <2>4, <3>2, <3>3, AgreementWritten
    <3>5. remote'[x] = remote[x]
      BY <1>1
    <3> QED
      BY <1>3, <3>1, <3>4, <3>5
  <2> QED
    BY <2>2, <2>3, <2>4
<1>6. LocalAgrees'
  BY <1>5 DEF LocalAgrees, AgreesAt
<1> QED
  BY <1>4, <1>6

\* What is fetched now agrees with CPA.
LEMMA FetchNow ==
    ASSUME RequestsInv, RowsInv, LocalAgrees
    PROVE  \A x \in Rows : AgreesAt(remote[x], x)
<1> SUFFICES ASSUME NEW x \in Rows
             PROVE  Agrees(remote[x], remote[x], drift[x], Completing(x), request)
  BY DEF AgreesAt
<1>1. Agrees(local[x], remote[x], drift[x], Completing(x), request) /\ local[x] \in States
  BY DEF LocalAgrees, AgreesAt, RowsInv
<1>2. \A o \in Completing(x) : request[o] \in RequestRecords
  BY RecordOf DEF Completing
<1> QED
  BY <1>1, <1>2, FreshAgrees

\* A snapshot that agrees is saved, and the drift it ends is forgotten.
LEMMA StoredStep ==
    ASSUME RowsInv, LocalAgrees, UNCHANGED <<openai, remote, request>>,
           NEW rows \in SUBSET Rows, NEW states \in [Rows -> States],
           \A x \in rows : AgreesAt(states[x], x),
           \A x \in Rows \ rows : states[x] = local[x],
           local' = states, drift' = Aligned(rows, states)
    PROVE  LocalAgrees'
<1> SUFFICES ASSUME NEW x \in Rows
             PROVE  Agrees(states[x], remote[x], drift'[x], Completing(x), request)
  BY DEF LocalAgrees, AgreesAt, Completing, Targets
<1>1. drift'[x] = (drift[x] /\ (x \in rows => states[x] # remote[x] \/ UnderWay(x)))
  BY DEF Aligned
<1>2. UnderWay(x) <=> Completing(x) # {}
  BY DEF UnderWay, Completing
<1>3. AgreesAt(states[x], x)
  BY DEF LocalAgrees
<1>4. CASE drift'[x] = drift[x]
  BY <1>3, <1>4 DEF AgreesAt
<1>5. CASE drift'[x] # drift[x]
  <2>1. states[x] = remote[x] /\ Completing(x) = {}
    BY <1>1, <1>2, <1>5 DEF RowsInv
  <2> QED
    BY <2>1 DEF Agrees
<1> QED
  BY <1>4, <1>5
-----------------------------------------------------------------------------
(* The actions.                                                             *)

Parts == RequestsInv /\ RowsInv /\ SyncInv /\ FieldsTyped /\ LocalAgrees /\ FetchedAgrees

LEMMA SubmitStep ==
    ASSUME Parts, NEW o \in Requests, NEW kind \in {"single", "batch", "delete"},
           NEW row \in Rows, NEW field \in Fields, NEW value \in BOOLEAN,
           kind # "single" => row = File, Submit(o, kind, row, field, value)
    PROVE  Parts'
<1> DEFINE r == [at |-> IF kind = "delete" THEN "call" ELSE "lock", kind |-> kind,
                 row |-> row, field |-> field, value |-> value,
                 document |-> Failed, tagged |-> FALSE, seen |-> 0]
<1>1. request' = [request EXCEPT ![o] = r] /\ request[o] = Unused
  BY DEF Submit
<1>2. UNCHANGED <<openai, remote, local, version, sync, fetched, wanted, drift, outside>>
  BY DEF Submit, syncState
<1>3. r \in RequestRecords
  BY DEF RequestRecords, Lists
<1>4. PlacedAt(r) /\ ~Holds(r) /\ r.at # "complete"
  BY DEF PlacedAt, Holds
<1>5. request[o].at # "complete"
  BY <1>1 DEF Unused
<1> HIDE DEF r
<1>6. RequestsInv'
  BY <1>1, <1>3, <1>4, RequestChanges DEF Parts
<1>7. Quiet
  BY <1>1, <1>2, <1>4, <1>5, OneIsQuiet DEF Parts
<1>8. LocalAgrees' /\ FetchedAgrees'
  BY <1>2, <1>7, QuietStep DEF Parts
<1> QED
  BY <1>2, <1>6, <1>8 DEF Parts, RowsInv, SyncInv, FieldsTyped

LEMMA FileSubmissionsStep ==
    ASSUME Parts, NEW o \in Requests, NEW value \in Values,
           \/ SetCredentialDisabled(o, value) \/ SetCredentialPriority(o, value)
           \/ SetCredentialsDisabled(o, value)
    PROVE  Parts'
<1>1. /\ File \in Rows /\ value \in BOOLEAN
      /\ "disabled" \in Fields /\ "priority" \in Fields
  BY MutationsAssumption DEF Rows, Fields
<1>2. CASE SetCredentialDisabled(o, value)
  BY <1>1, <1>2, SubmitStep DEF SetCredentialDisabled
<1>3. CASE SetCredentialPriority(o, value)
  BY <1>1, <1>3, SubmitStep DEF SetCredentialPriority
<1>4. CASE SetCredentialsDisabled(o, value)
  BY <1>1, <1>4, SubmitStep DEF SetCredentialsDisabled
<1> QED
  BY <1>2, <1>3, <1>4

LEMMA DeletionStep ==
    ASSUME Parts, NEW o \in Requests, DeleteCredentials(o)
    PROVE  Parts'
<1>1. File \in Rows /\ "disabled" \in Fields
  BY DEF Rows, Fields
<1> QED
  BY <1>1, SubmitStep DEF DeleteCredentials

LEMMA KeySubmissionsStep ==
    ASSUME Parts, NEW o \in Requests, NEW value \in Values, NEW row \in Members,
           SetAIProviderDisabled(o, row, value) \/ SetAIProviderPriority(o, row, value)
    PROVE  Parts'
<1>1. /\ row \in Rows /\ value \in BOOLEAN
      /\ "disabled" \in Fields /\ "priority" \in Fields
  BY MutationsAssumption DEF Rows, Fields
<1>2. CASE SetAIProviderDisabled(o, row, value)
  BY <1>1, <1>2, SubmitStep DEF SetAIProviderDisabled
<1>3. CASE SetAIProviderPriority(o, row, value)
  BY <1>1, <1>3, SubmitStep DEF SetAIProviderPriority
<1> QED
  BY <1>2, <1>3

LEMMA AcquireStep ==
    ASSUME Parts, NEW o \in Requests, Acquire(o)
    PROVE  Parts'
<1> DEFINE place == IF request[o].row = File THEN "call" ELSE "fetch"
<1>1. /\ request[o].at = "lock" /\ Free(request[o].row) /\ Moves(o, place)
      /\ UNCHANGED <<openai, remote, local, version, sync, fetched, wanted, drift, outside>>
  BY DEF Acquire, syncState
<1>2. request[o] \in RequestRecords
  BY <1>1, RecordOf DEF Parts
<1>3. place \in {"call", "fetch"} /\ (place = "fetch" => request[o].row \in Members)
  BY <1>2 DEF RequestRecords, Rows
<1>4. place = "call" => request[o].row = File
  OBVIOUS
<1> HIDE DEF place
<1>5. RequestsInv'
  BY <1>1, <1>3, <1>4, RequestMoves DEF Parts
<1>6. [request[o] EXCEPT !.at = place].at = place
  BY <1>2 DEF RequestRecords
<1>7. Quiet
  BY <1>1, <1>3, <1>6, OneIsQuiet DEF Parts, Moves
<1>8. LocalAgrees' /\ FetchedAgrees'
  BY <1>1, <1>7, QuietStep DEF Parts
<1> QED
  BY <1>1, <1>5, <1>8 DEF Parts, RowsInv, SyncInv, FieldsTyped

\* A request that ends before its local write, and marks what it did at CPA.
LEMMA EndsStep ==
    ASSUME Parts, NEW o \in Requests, Ends(o), request[o].at # "complete",
           UNCHANGED <<openai, local, version, sync, fetched, outside>>,
           wanted' \in BOOLEAN, remote' \in [Rows -> States], drift' \in [Rows -> BOOLEAN],
           \A x \in Rows : ~drift'[x] => ~drift[x] /\ remote'[x] = remote[x]
    PROVE  Parts'
<1>1. RequestsInv'
  BY RequestEnds DEF Parts
<1>2. Done.at # "complete"
  BY DEF Done
<1>3. Quiet
  BY <1>2, OneIsQuiet DEF Parts, Ends
<1>4. LocalAgrees' /\ FetchedAgrees'
  BY <1>3, QuietStep DEF Parts
<1> QED
  BY <1>1, <1>4 DEF Parts, RowsInv, SyncInv, FieldsTyped

LEMMA RefusedStep ==
    ASSUME Parts, NEW o \in Requests, Refused(o)
    PROVE  Parts'
<1>1. /\ Ends(o) /\ request[o].at # "complete"
      /\ UNCHANGED <<openai, remote, local, version, sync, fetched, wanted, drift, outside>>
  BY DEF Refused, syncState
<1>2. remote' \in [Rows -> States] /\ drift' \in [Rows -> BOOLEAN] /\ wanted' \in BOOLEAN
  BY <1>1 DEF Parts, RowsInv, FieldsTyped
<1> QED
  BY <1>1, <1>2, EndsStep

LEMMA AskRefreshStep ==
    ASSUME Parts, NEW o \in Requests, AskRefresh(o)
    PROVE  Parts'
<1>1. /\ Ends(o) /\ request[o].at # "complete" /\ wanted' = TRUE
      /\ UNCHANGED <<openai, remote, local, version, sync, fetched, drift, outside>>
  BY DEF AskRefresh, syncState
<1>2. remote' \in [Rows -> States] /\ drift' \in [Rows -> BOOLEAN]
  BY <1>1 DEF Parts, RowsInv
<1> QED
  BY <1>1, <1>2, EndsStep

\* CPA does what request o asks for; the answer may be lost.
LEMMA AppliedStep ==
    ASSUME Parts, NEW o \in Requests, NEW answered \in BOOLEAN,
           NEW states \in [Rows -> States], NEW back, NEW new \in RequestRecords,
           request[o].at \in {"call", "put"},
           remote' = states, drift' \in [Rows -> BOOLEAN],
           IF answered THEN Answered(o, new) /\ AppliedBut(request[o], back)
                       ELSE AnswerLost(o, states),
           UNCHANGED <<openai, local, version, sync, fetched, wanted, outside>>
    PROVE  Parts'
<1>1. request[o] \in RequestRecords
  BY RecordOf DEF Parts
<1>2. CASE answered
  <2>1. Answered(o, new) /\ AppliedBut(request[o], back)
    BY <1>2
  <2>2. PlacedAt(new)
    BY <2>1 DEF Answered, PlacedAt, Parts, RequestsInv, Placed
  <2>3. Holds(new) => Holds(request[o]) /\ request[o].row = new.row
    BY <2>1 DEF Answered, Holds
  <2>4. RequestsInv'
    BY <2>1, <2>2, <2>3, RequestChanges DEF Answered, Parts
  <2>5. LocalAgrees' /\ FetchedAgrees'
    BY <1>1, <2>1, AnsweredStep DEF Parts
  <2> QED
    BY <2>1, <2>4, <2>5 DEF Parts, RowsInv, SyncInv, FieldsTyped
<1>3. CASE ~answered
  <2>1. Ends(o) /\ drift' = [x \in Rows |-> drift[x] \/ states[x] # remote[x]]
    BY <1>3 DEF AnswerLost
  <2>2. \A x \in Rows : ~drift'[x] => ~drift[x] /\ remote'[x] = remote[x]
    BY <2>1
  <2>3. wanted' \in BOOLEAN
    BY DEF Parts, FieldsTyped
  <2> QED
    BY <2>1, <2>2, <2>3, EndsStep
<1> QED
  BY <1>2, <1>3

LEMMA CallFileStep ==
    ASSUME Parts, NEW o \in Requests, NEW answered \in BOOLEAN, CallFile(o, answered)
    PROVE  Parts'
<1> DEFINE r == request[o]
           states == IF r.kind = "delete" THEN [remote EXCEPT ![File] = Gone]
                     ELSE Changed(remote, r)
           new == [r EXCEPT !.at = "complete"]
<1>1. /\ r.at \in {"call", "put"} /\ r.at = "call" /\ remote' = states
      /\ IF answered THEN request' = [request EXCEPT ![o] = new] /\ drift' = drift
                     ELSE AnswerLost(o, states)
      /\ UNCHANGED <<openai, local, version, sync, fetched, wanted, outside>>
  BY DEF CallFile, Moves, syncState
<1>2. r \in RequestRecords /\ r.row = File
  <2>1. r \in RequestRecords
    BY <1>1, RecordOf DEF Parts
  <2> QED
    BY <1>1, <2>1 DEF Parts, RequestsInv, Placed, PlacedAt
<1>3. Targets(r) = {File} /\ File \in Rows
  BY <1>2 DEF Targets, Rows
<1>4. new \in RequestRecords /\ (answered => Answered(o, new))
  BY <1>1, <1>2 DEF RequestRecords, Answered
<1>5. drift' \in [Rows -> BOOLEAN]
  BY <1>1 DEF Parts, RowsInv, AnswerLost
<1>6. /\ states \in [Rows -> States]
      /\ \A x \in Rows : x \notin Targets(r) => states[x] = remote[x]
      /\ r.kind = "single" => \A x \in Targets(r) : states[x] = After(remote[x], r)
  <2>1. CASE r.kind = "delete"
    <3>1. states = [remote EXCEPT ![File] = Gone]
      BY <2>1
    <3> HIDE DEF states
    <3> QED
      BY <1>3, <2>1, <3>1 DEF Parts, RowsInv, States
  <2>2. CASE r.kind # "delete"
    <3>1. states = Changed(remote, r)
      BY <2>2
    <3> HIDE DEF states
    <3>2. states \in [Rows -> States]
      BY <1>2, <3>1, ChangedType DEF Parts, RowsInv
    <3> HIDE DEF r
    <3>3. \A x \in Rows : states[x] = IF x \in Targets(r) THEN After(remote[x], r)
                                      ELSE remote[x]
      BY <3>1, ChangedIsAfter
    <3> QED
      BY <1>3, <3>2, <3>3
  <2> QED
    BY <2>1, <2>2
<1>7. answered => AppliedBut(r, {})
  BY <1>1, <1>6 DEF AppliedBut
<1> HIDE DEF new, states
<1> QED
  BY <1>1, <1>4, <1>5, <1>6, <1>7, AppliedStep

LEMMA FetchListStep ==
    ASSUME Parts, NEW o \in Requests, NEW tagged \in BOOLEAN, FetchList(o, tagged)
    PROVE  Parts'
<1> DEFINE r == [request[o] EXCEPT !.at = "put", !.document = List(remote),
                                   !.tagged = tagged, !.seen = Len(outside)]
<1>1. /\ request[o].at = "fetch" /\ request' = [request EXCEPT ![o] = r]
      /\ UNCHANGED <<openai, remote, local, version, sync, fetched, wanted, drift, outside>>
  BY DEF FetchList, syncState
<1>2. request[o] \in RequestRecords
  BY <1>1, RecordOf DEF Parts
<1>3. List(remote) \in Lists /\ Len(outside) \in Nat
  BY DEF List, Lists, Parts, RowsInv, FieldsTyped, Rows
<1>4. r \in RequestRecords
  BY <1>2, <1>3 DEF RequestRecords
<1>5. r.at = "put" /\ r.row = request[o].row /\ r.kind = request[o].kind
  BY <1>2 DEF RequestRecords
<1>6. PlacedAt(request[o])
  BY DEF Parts, RequestsInv, Placed
<1> HIDE DEF r
<1>7. PlacedAt(r)
  BY <1>1, <1>5, <1>6 DEF PlacedAt
<1>8. Holds(r) => Holds(request[o]) /\ request[o].row = r.row
  BY <1>1, <1>5 DEF Holds
<1>9. RequestsInv'
  BY <1>1, <1>4, <1>7, <1>8, RequestChanges DEF Parts
<1>10. Quiet
  BY <1>1, <1>5, OneIsQuiet DEF Parts
<1>11. LocalAgrees' /\ FetchedAgrees'
  BY <1>1, <1>10, QuietStep DEF Parts
<1> QED
  BY <1>1, <1>9, <1>11 DEF Parts, RowsInv, SyncInv, FieldsTyped

\* The edited list is CPA's own but for the request, and but for what is taken
\* back where the list came without an ETag.
LEMMA PutListEdits ==
    ASSUME Parts, DocumentsRead, NEW o \in Requests, NEW ok, PutList(o, ok),
           NEW x \in Rows \ TakenBack(request[o])
    PROVE  Edited(request[o])[x] =
             IF x \in Targets(request[o]) THEN After(remote[x], request[o]) ELSE remote[x]
<1> DEFINE r == request[o]
           under == [y \in Rows |-> IF y \in Members THEN r.document[y] ELSE remote[y]]
<1>1. r.at = "put" /\ (r.tagged => r.document = List(remote))
  BY DEF PutList
<1>2. ReadSince(r.document, r.seen, remote, outside)
  BY <1>1 DEF DocumentsRead
<1>3. x \in Members => r.document[x] = remote[x]
  <2>1. CASE r.tagged
    BY <1>1, <2>1 DEF List
  <2>2. CASE ~r.tagged /\ x \in Members
    BY <1>2, <2>2 DEF TakenBack, ChangedSince, ReadSince
  <2> QED
    BY <2>1, <2>2
<1>4. under[x] = remote[x]
  BY <1>3
<1>5. Edited(r)[x] = IF x \in Targets(r) THEN After(under[x], r) ELSE under[x]
  <2>1. Edited(r) = Changed(under, r)
    BY DEF Edited
  <2> HIDE DEF under, r
  <2> QED
    BY <2>1, ChangedIsAfter
<1> QED
  BY <1>4, <1>5

LEMMA EditedType ==
    ASSUME Parts, DocumentsRead, NEW o \in Requests, request[o].at = "put"
    PROVE  Edited(request[o]) \in [Rows -> States]
<1> DEFINE under == [y \in Rows |-> IF y \in Members THEN request[o].document[y] ELSE remote[y]]
<1>1. request[o] \in RequestRecords
  BY RecordOf DEF Parts
<1>2. request[o].document \in [Members -> States]
  BY DEF DocumentsRead, ReadSince
<1>3. under \in [Rows -> States]
  BY <1>2 DEF Parts, RowsInv
<1>4. Edited(request[o]) = Changed(under, request[o])
  BY DEF Edited
<1> HIDE DEF under
<1> QED
  BY <1>1, <1>3, <1>4, ChangedType

LEMMA PutListStep ==
    ASSUME Parts, DocumentsRead, NEW o \in Requests, NEW answered \in BOOLEAN,
           PutList(o, answered)
    PROVE  Parts'
<1> DEFINE r == request[o]
           new == [r EXCEPT !.at = "complete", !.document = Failed,
                            !.tagged = FALSE, !.seen = 0]
<1>1. /\ r.at = "put" /\ r.at \in {"call", "put"} /\ remote' = Edited(r)
      /\ IF answered THEN /\ request' = [request EXCEPT ![o] = new]
                          /\ drift' = [x \in Rows |-> drift[x] \/ x \in TakenBack(r)]
                     ELSE AnswerLost(o, Edited(r))
      /\ UNCHANGED <<openai, local, version, sync, fetched, wanted, outside>>
  BY DEF PutList, Put, syncState
<1>2. r \in RequestRecords
  BY <1>1, RecordOf DEF Parts
<1>3. new \in RequestRecords /\ (answered => Answered(o, new))
  BY <1>1, <1>2 DEF RequestRecords, Answered, Lists
<1>4. \A x \in Targets(r) : x \in Rows
  BY <1>2, TargetsInClass DEF RequestRecords
<1>5. Edited(r) \in [Rows -> States]
  BY <1>1, EditedType
<1>6. drift' \in [Rows -> BOOLEAN]
  BY <1>1 DEF Parts, RowsInv, AnswerLost
<1> HIDE DEF new
<1>7. \A x \in Rows \ TakenBack(r) :
         Edited(r)[x] = IF x \in Targets(r) THEN After(remote[x], r) ELSE remote[x]
  BY PutListEdits
<1>8. answered => AppliedBut(r, TakenBack(r))
  BY <1>1, <1>4, <1>7 DEF AppliedBut
<1> QED
  BY <1>1, <1>3, <1>5, <1>6, <1>8, AppliedStep

LEMMA CompleteMutationStep ==
    ASSUME Parts, NEW o \in Requests, NEW saved \in BOOLEAN, CompleteMutation(o, saved)
    PROVE  Parts'
<1> DEFINE r == request[o]
<1>1. /\ r.at = "complete" /\ Moves(o, "refresh")
      /\ version' = version + 1
      /\ local' = IF saved THEN PersistLocal(r) ELSE local
      /\ drift' = [x \in Rows |-> drift[x] \/ (x \in Targets(r) /\ ~(saved /\ r.kind = "single"))]
      /\ UNCHANGED <<openai, remote, sync, fetched, wanted, outside>>
  BY DEF CompleteMutation, syncState
<1>2. r \in RequestRecords
  BY <1>1, RecordOf DEF Parts
<1>3. Holds(r) \/ r.kind = "delete"
  BY <1>1 DEF Holds
<1>4. RequestsInv'
  BY <1>1, <1>3, RequestMoves DEF Parts
<1>5. local' \in [Rows -> States]
  <2>1. local \in [Rows -> States]
    BY DEF Parts, RowsInv
  <2>2. Changed(local, r) \in [Rows -> States]
    BY <1>2, <2>1, ChangedType
  <2> QED
    BY <1>1, <2>1, <2>2 DEF PersistLocal
<1>6. drift' \in [Rows -> BOOLEAN]
  BY <1>1 DEF Parts, RowsInv
<1>7. LocalAgrees' /\ FetchedAgrees'
  BY WrittenStep DEF Parts
<1> QED
  BY <1>1, <1>4, <1>5, <1>6, <1>7 DEF Parts, RowsInv, SyncInv, FieldsTyped

LEMMA ChangeOutsideStep ==
    ASSUME Parts, NEW row \in Rows, NEW field \in Fields, ChangeOutside(row, field)
    PROVE  Parts'
<1>1. /\ remote[row] # Gone
      /\ outside' = Append(outside, <<row, field>>)
      /\ remote' = [remote EXCEPT ![row][field] = ~remote[row][field]]
      /\ drift' = [drift EXCEPT ![row] = TRUE]
      /\ UNCHANGED <<openai, local, version, request, sync, fetched, wanted>>
  BY DEF ChangeOutside, syncState
<1>2. remote' \in [Rows -> States]
  <2> DEFINE new == [remote[row] EXCEPT ![field] = ~remote[row][field]]
  <2>1. remote[row] \in [Fields -> BOOLEAN]
    BY <1>1 DEF Parts, RowsInv, States
  <2>2. new \in [Fields -> BOOLEAN]
    BY <2>1
  <2>3. remote' = [remote EXCEPT ![row] = new]
    BY <1>1
  <2> HIDE DEF new
  <2> QED
    BY <2>2, <2>3 DEF Parts, RowsInv, States
<1>3. drift' \in [Rows -> BOOLEAN]
  BY <1>1 DEF Parts, RowsInv
<1>4. \A x \in Rows : ~drift'[x] => ~drift[x] /\ remote'[x] = remote[x]
  BY <1>1 DEF Parts, RowsInv
<1>5. Quiet
  BY <1>1 DEF Quiet
<1>6. LocalAgrees' /\ FetchedAgrees'
  BY <1>1, <1>4, <1>5, QuietStep DEF Parts
<1>7. RequestsInv'
  BY <1>1 DEF Parts, RequestsInv, Placed, LocksExclude
<1>8. FieldsTyped'
  BY <1>1 DEF Parts, FieldsTyped
<1> QED
  BY <1>1, <1>2, <1>3, <1>6, <1>7, <1>8 DEF Parts, RowsInv, SyncInv

\* A step of the synchronisation that leaves the rows and the requests.
LEMMA SyncStep ==
    ASSUME Parts, UNCHANGED <<openai, remote, local, version, request, drift, outside>>,
           fetched' \in BOOLEAN, wanted' \in BOOLEAN,
           sync' \in {NoSync} \cup SyncRecords,
           sync' # NoSync =>
              /\ sync'.version <= version
              /\ sync'.version = version =>
                    /\ sync'.file # Failed => AgreesAt(sync'.file, File)
                    /\ sync'.list # Failed => \A x \in Members : AgreesAt(sync'.list[x], x)
    PROVE  Parts'
<1>1. \A x : Completing(x)' = Completing(x)
  BY DEF Completing, Targets
<1>2. RequestsInv' /\ RowsInv' /\ SyncInv' /\ FieldsTyped'
  BY DEF Parts, RequestsInv, Placed, LocksExclude, RowsInv, SyncInv, FieldsTyped
<1>3. LocalAgrees'
  BY <1>1 DEF Parts, LocalAgrees, AgreesAt
<1>4. FetchedAgrees'
  BY <1>1 DEF Parts, FetchedAgrees, AgreesAt
<1> QED
  BY <1>2, <1>3, <1>4 DEF Parts

LEMMA SyncRecordOf ==
    ASSUME SyncInv, sync.at # "idle"
    PROVE  sync \in SyncRecords /\ sync # NoSync
BY DEF SyncInv, NoSync

LEMMA BeginStep ==
    ASSUME Parts, BeginSyncMetadata
    PROVE  Parts'
<1> DEFINE s == [at |-> "credentials", version |-> version, file |-> Failed, list |-> Failed]
<1>1. /\ sync' = s /\ wanted' = FALSE
      /\ UNCHANGED <<openai, remote, local, version, request, fetched, drift, outside>>
  BY DEF BeginSyncMetadata
<1>2. s \in SyncRecords
  BY DEF SyncRecords, Lists, Parts, SyncInv
<1>3. s.version = version /\ s.file = Failed /\ s.list = Failed
  OBVIOUS
<1> HIDE DEF s
<1>4. sync'.version <= version
  BY <1>1, <1>3 DEF Parts, SyncInv
<1>5. fetched' \in BOOLEAN /\ wanted' \in BOOLEAN
  BY <1>1 DEF Parts, FieldsTyped
<1> QED
  BY <1>1, <1>2, <1>3, <1>4, <1>5, SyncStep

LEMMA FetchCredentialsStep ==
    ASSUME Parts, NEW ok \in BOOLEAN, FetchCredentials(ok)
    PROVE  Parts'
<1> DEFINE file == IF ok THEN remote[File] ELSE Failed
<1>1. /\ sync.at = "credentials"
      /\ sync' = [sync EXCEPT !.at = "providers", !.file = file]
      /\ UNCHANGED <<openai, remote, local, version, request, fetched, wanted, drift, outside>>
  BY DEF FetchCredentials
<1>2. sync \in SyncRecords /\ sync # NoSync
  BY <1>1, SyncRecordOf DEF Parts
<1>3. file \in States \cup {Failed} /\ (file # Failed => AgreesAt(file, File))
  BY FetchNow DEF Parts, RowsInv, Rows
<1> HIDE DEF file
<1>4. sync' \in SyncRecords
  BY <1>1, <1>2, <1>3 DEF SyncRecords
<1>5. sync'.file = file /\ sync'.list = sync.list /\ sync'.version = sync.version
  BY <1>1, <1>2 DEF SyncRecords
<1>6. fetched' \in BOOLEAN /\ wanted' \in BOOLEAN
  BY <1>1 DEF Parts, FieldsTyped
<1>7. /\ sync'.version <= version
      /\ sync'.version = version =>
            /\ sync'.file # Failed => AgreesAt(sync'.file, File)
            /\ sync'.list # Failed => \A x \in Members : AgreesAt(sync'.list[x], x)
  BY <1>2, <1>3, <1>5 DEF Parts, FetchedAgrees
<1> QED
  BY <1>1, <1>4, <1>6, <1>7, SyncStep

LEMMA FetchProvidersStep ==
    ASSUME Parts, NEW ok \in BOOLEAN, FetchProviders(ok)
    PROVE  Parts'
<1> DEFINE list == IF ok /\ ~fetched THEN List(remote) ELSE Failed
<1>1. /\ sync.at = "providers"
      /\ sync' = [sync EXCEPT !.at = "storeFile", !.list = list]
      /\ fetched' = (fetched \/ (ok /\ Throttle))
      /\ UNCHANGED <<openai, remote, local, version, request, wanted, drift, outside>>
  BY DEF FetchProviders
<1>2. sync \in SyncRecords /\ sync # NoSync
  BY <1>1, SyncRecordOf DEF Parts
<1>3. list \in Lists
  BY DEF List, Lists, Parts, RowsInv, Rows
<1>4. ASSUME list # Failed, NEW x \in Members PROVE AgreesAt(list[x], x)
  <2>1. list = List(remote) /\ x \in Rows
    BY <1>4 DEF Rows
  <2>2. list[x] = remote[x]
    BY <2>1 DEF List
  <2> QED
    BY <2>1, <2>2, FetchNow DEF Parts
<1> HIDE DEF list
<1>5. sync' \in SyncRecords
  BY <1>1, <1>2, <1>3 DEF SyncRecords
<1>6. sync'.file = sync.file /\ sync'.list = list /\ sync'.version = sync.version
  BY <1>1, <1>2 DEF SyncRecords
<1>7. fetched' \in BOOLEAN /\ wanted' \in BOOLEAN
  BY <1>1 DEF Parts, FieldsTyped
<1>8. /\ sync'.version <= version
      /\ sync'.version = version =>
            /\ sync'.file # Failed => AgreesAt(sync'.file, File)
            /\ sync'.list # Failed => \A x \in Members : AgreesAt(sync'.list[x], x)
  BY <1>2, <1>4, <1>6 DEF Parts, FetchedAgrees
<1> QED
  BY <1>1, <1>5, <1>7, <1>8, SyncStep

\* A snapshot is saved.
LEMMA SnapshotStep ==
    ASSUME Parts, NEW rows \in SUBSET Rows, NEW states \in [Rows -> States],
           UNCHANGED <<openai, remote, version, request, fetched, wanted, outside>>,
           local' = states, drift' = Aligned(rows, states),
           \A x \in rows : AgreesAt(states[x], x),
           \A x \in Rows \ rows : states[x] = local[x],
           sync' \in {NoSync} \cup SyncRecords,
           sync' # NoSync =>
              /\ sync'.version <= version
              /\ sync'.version = version =>
                    /\ sync'.file = Failed
                    /\ sync'.list # Failed =>
                         \A x \in Members : x \notin rows /\ AgreesAt(sync'.list[x], x)
    PROVE  Parts'
<1>1. \A x : Completing(x)' = Completing(x)
  BY DEF Completing, Targets
<1>2. LocalAgrees'
  BY StoredStep DEF Parts
<1>3. \A x \in Rows \ rows : drift'[x] = drift[x]
  BY DEF Aligned, Parts, RowsInv
<1>4. FetchedAgrees'
  <2>1. ASSUME sync' # NoSync, sync'.version = version, sync'.list # Failed,
               NEW x \in Members
        PROVE  AgreesAt(sync.list[x], x)'
    <3>1. x \in Rows /\ x \notin rows /\ AgreesAt(sync'.list[x], x)
      BY <2>1 DEF Rows
    <3>2. drift'[x] = drift[x]
      BY <1>3, <3>1
    <3> QED
      BY <1>1, <3>1, <3>2 DEF AgreesAt
  <2> QED
    BY <2>1 DEF FetchedAgrees
<1>5. drift' \in [Rows -> BOOLEAN]
  BY DEF Aligned, Parts, RowsInv
<1>6. RequestsInv' /\ RowsInv' /\ SyncInv' /\ FieldsTyped'
  BY <1>5 DEF Parts, RequestsInv, Placed, LocksExclude, RowsInv, SyncInv, FieldsTyped
<1> QED
  BY <1>2, <1>4, <1>6 DEF Parts

LEMMA StoreFileStep ==
    ASSUME Parts, StoreFile
    PROVE  Parts'
<1> DEFINE states == [local EXCEPT ![File] = sync.file]
           keeps == sync.version # version \/ sync.file = Failed
<1>1. /\ sync.at = "storeFile"
      /\ sync' = [sync EXCEPT !.at = "storeList", !.file = Failed]
      /\ IF keeps THEN UNCHANGED <<local, drift>>
                  ELSE local' = states /\ drift' = Aligned({File}, states)
      /\ UNCHANGED <<openai, remote, version, request, fetched, wanted, outside>>
  BY DEF StoreFile, Pinned
<1>2. sync \in SyncRecords /\ sync # NoSync
  BY <1>1, SyncRecordOf DEF Parts
<1>3. /\ sync' \in SyncRecords
      /\ sync'.file = Failed /\ sync'.list = sync.list /\ sync'.version = sync.version
  BY <1>1, <1>2 DEF SyncRecords
<1>4. local \in [Rows -> States] /\ File \in Rows
  BY DEF Parts, RowsInv, Rows
<1>5. CASE ~keeps
  <2>1. sync.file \in States /\ AgreesAt(sync.file, File)
    BY <1>2, <1>5 DEF SyncRecords, Parts, FetchedAgrees
  <2>2. states \in [Rows -> States]
    BY <1>4, <2>1
  <2>3. states[File] = sync.file /\ \A x \in Rows \ {File} : states[x] = local[x]
    BY <1>4
  <2>4. FetchedAgrees
    BY DEF Parts
  <2>5. \A x \in Members : x \notin {File}
    BY MutationsAssumption
  <2> HIDE DEF states
  <2>6. \A x \in {File} : AgreesAt(states[x], x)
    BY <2>1, <2>3
  <2> QED
    BY <1>1, <1>2, <1>3, <1>4, <1>5, <2>2, <2>3, <2>4, <2>5, <2>6, SnapshotStep DEF FetchedAgrees
<1>6. CASE keeps
  <2>1. FetchedAgrees
    BY DEF Parts
  <2> HIDE DEF keeps, states
  <2>2. /\ fetched' \in BOOLEAN /\ wanted' \in BOOLEAN
        /\ UNCHANGED <<openai, remote, local, version, request, drift, outside>>
    BY <1>1, <1>6 DEF Parts, FieldsTyped
  <2>3. /\ sync'.version <= version
        /\ sync'.version = version =>
              /\ sync'.file # Failed => AgreesAt(sync'.file, File)
              /\ sync'.list # Failed => \A x \in Members : AgreesAt(sync'.list[x], x)
    BY <1>2, <1>3, <2>1 DEF FetchedAgrees
  <2> QED
    BY <1>3, <2>2, <2>3, SyncStep
<1> QED
  BY <1>5, <1>6

LEMMA StoreListStep ==
    ASSUME Parts, StoreList
    PROVE  Parts'
<1> DEFINE states == [x \in Rows |-> IF x \in Members THEN sync.list[x] ELSE local[x]]
           keeps == sync.version # version \/ sync.list = Failed
<1>1. /\ sync.at = "storeList"
      /\ sync' = NoSync
      /\ IF keeps THEN UNCHANGED <<local, drift>>
                  ELSE local' = states /\ drift' = Aligned(Members, states)
      /\ UNCHANGED <<openai, remote, version, request, fetched, wanted, outside>>
  BY DEF StoreList, Pinned
<1>2. sync \in SyncRecords /\ sync # NoSync
  BY <1>1, SyncRecordOf DEF Parts
<1>3. local \in [Rows -> States] /\ Members \subseteq Rows
  BY DEF Parts, RowsInv, Rows
<1>4. CASE ~keeps
  <2>1. sync.list \in [Members -> States] /\ \A x \in Members : AgreesAt(sync.list[x], x)
    BY <1>2, <1>4 DEF SyncRecords, Lists, Parts, FetchedAgrees
  <2>2. states \in [Rows -> States]
    BY <1>3, <2>1
  <2>3. /\ \A x \in Members : states[x] = sync.list[x]
        /\ \A x \in Rows \ Members : states[x] = local[x]
    BY <1>3
  <2> HIDE DEF states
  <2>4. \A x \in Members : AgreesAt(states[x], x)
    BY <2>1, <2>3
  <2> QED
    BY <1>1, <1>3, <1>4, <2>2, <2>3, <2>4, SnapshotStep
<1>5. CASE keeps
  <2> HIDE DEF keeps, states
  <2>1. /\ fetched' \in BOOLEAN /\ wanted' \in BOOLEAN
        /\ UNCHANGED <<openai, remote, local, version, request, drift, outside>>
    BY <1>1, <1>5 DEF Parts, FieldsTyped
  <2> QED
    BY <1>1, <2>1, SyncStep
<1> QED
  BY <1>4, <1>5

LEMMA IntervalStep ==
    ASSUME Parts, IntervalPasses
    PROVE  Parts'
<1>1. /\ fetched' \in BOOLEAN /\ wanted' \in BOOLEAN /\ sync' = sync
      /\ UNCHANGED <<openai, remote, local, version, request, drift, outside>>
  BY DEF IntervalPasses, Parts, FieldsTyped
<1> QED
  BY <1>1, SyncStep DEF Parts, FetchedAgrees, SyncInv

LEMMA StutterStep ==
    ASSUME Parts, UNCHANGED mutationVars
    PROVE  Parts'
<1>1. /\ fetched' \in BOOLEAN /\ wanted' \in BOOLEAN /\ sync' = sync
      /\ UNCHANGED <<openai, remote, local, version, request, drift, outside>>
  BY DEF mutationVars, Parts, FieldsTyped
<1> QED
  BY <1>1, SyncStep DEF Parts, FetchedAgrees, SyncInv

\* The put of a request is the one step that moves it on and changes CPA.
LEMMA PutIsPutList ==
    ASSUME Parts, MutationsNext, NEW o \in Requests,
           request[o].at = "put", request'[o] # request[o], remote' # remote
    PROVE  \E ok \in BOOLEAN : PutList(o, ok)
<1>1. ASSUME NEW p \in Requests, NEW r, request' = [request EXCEPT ![p] = r]
      PROVE  p = o
  BY <1>1 DEF Parts, RequestsInv
<1>2. \A p, kind, row, field, value : ~Submit(p, kind, row, field, value)
  BY DEF Submit
<1>3. ASSUME NEW p \in Requests, NEW value
      PROVE  ~SetCredentialDisabled(p, value) /\ ~SetCredentialPriority(p, value)
             /\ ~SetCredentialsDisabled(p, value) /\ ~DeleteCredentials(p)
  BY <1>2 DEF SetCredentialDisabled, SetCredentialPriority, SetCredentialsDisabled,
              DeleteCredentials
<1>4. ASSUME NEW p \in Requests, NEW value, NEW row
      PROVE  ~SetAIProviderDisabled(p, row, value) /\ ~SetAIProviderPriority(p, row, value)
  BY <1>2 DEF SetAIProviderDisabled, SetAIProviderPriority
<1>5. ASSUME NEW p \in Requests, NEW ok \in BOOLEAN
      PROVE  ~Acquire(p) /\ ~Refused(p) /\ ~FetchList(p, ok) /\ ~AskRefresh(p)
             /\ ~CompleteMutation(p, ok)
  BY DEF Acquire, Refused, FetchList, AskRefresh, CompleteMutation
<1>6. ASSUME NEW p \in Requests, NEW ok \in BOOLEAN
      PROVE  ~CallFile(p, ok) /\ (PutList(p, ok) => p = o)
  <2>1. CallFile(p, ok) => p = o
    BY <1>1 DEF CallFile, Moves, AnswerLost, Ends
  <2>2. PutList(p, ok) => p = o
    BY <1>1 DEF PutList, Put, AnswerLost, Ends
  <2> QED
    BY <2>1, <2>2 DEF CallFile
<1>7. /\ \A row, field : ~ChangeOutside(row, field)
      /\ \A ok : ~FetchCredentials(ok) /\ ~FetchProviders(ok)
      /\ ~BeginSyncMetadata /\ ~StoreFile /\ ~StoreList /\ ~IntervalPasses
  BY DEF ChangeOutside, FetchCredentials, FetchProviders, BeginSyncMetadata,
         StoreFile, StoreList, IntervalPasses
<1> QED
  BY <1>3, <1>4, <1>5, <1>6, <1>7 DEF MutationsNext
-----------------------------------------------------------------------------
(* The documents that requests have read.                                   *)

LEMMA DocumentsStay ==
    ASSUME DocumentsRead, outside' = outside,
           \A x \in Members : remote'[x] = remote[x],
           \A o \in Requests : request'[o].at = "put" => request'[o] = request[o]
    PROVE  DocumentsRead'
<1>1. ASSUME NEW s, NEW n, ReadSince(s, n, remote, outside)
      PROVE  ReadSince(s, n, remote', outside')
  BY <1>1 DEF ReadSince
<1> QED
  BY <1>1 DEF DocumentsRead

\* A step of one request that is not at its put afterwards.
LEMMA OneRecordChanges ==
    ASSUME Parts, DocumentsRead, NEW p \in Requests, NEW r, r.at # "put",
           request' = [request EXCEPT ![p] = r],
           outside' = outside, \A x \in Members : remote'[x] = remote[x]
    PROVE  DocumentsRead'
<1>1. \A o \in Requests : request'[o].at = "put" => request'[o] = request[o]
  BY DEF Parts, RequestsInv
<1> QED
  BY <1>1, DocumentsStay

LEMMA MovesRecord ==
    ASSUME Parts, DocumentsRead, NEW p \in Requests, NEW place, place # "put",
           request[p].at \notin {"unused", "done"}, Moves(p, place),
           outside' = outside, \A x \in Members : remote'[x] = remote[x]
    PROVE  DocumentsRead'
<1> DEFINE r == [request[p] EXCEPT !.at = place]
<1>1. request[p] \in RequestRecords
  BY RecordOf DEF Parts
<1>2. r.at # "put" /\ request' = [request EXCEPT ![p] = r]
  BY <1>1 DEF Moves, RequestRecords
<1> HIDE DEF r
<1> QED
  BY <1>2, OneRecordChanges

LEMMA EndsRecord ==
    ASSUME Parts, DocumentsRead, NEW p \in Requests, Ends(p),
           outside' = outside, \A x \in Members : remote'[x] = remote[x]
    PROVE  DocumentsRead'
<1>1. Done.at # "put"
  BY DEF Done
<1> QED
  BY <1>1, OneRecordChanges DEF Ends

LEMMA SubmitRecord ==
    ASSUME Parts, DocumentsRead, NEW p \in Requests, NEW kind, NEW row, NEW field, NEW value,
           Submit(p, kind, row, field, value)
    PROVE  DocumentsRead'
<1> DEFINE r == [at |-> IF kind = "delete" THEN "call" ELSE "lock", kind |-> kind,
                 row |-> row, field |-> field, value |-> value,
                 document |-> Failed, tagged |-> FALSE, seen |-> 0]
<1>1. r.at # "put"
  OBVIOUS
<1>2. request' = [request EXCEPT ![p] = r] /\ outside' = outside /\ remote' = remote
  BY DEF Submit
<1> HIDE DEF r
<1> QED
  BY <1>1, <1>2, OneRecordChanges

\* Others have changed nothing yet since a list was read.
LEMMA FetchListRecord ==
    ASSUME Parts, DocumentsRead, NEW p \in Requests, NEW tagged, FetchList(p, tagged)
    PROVE  DocumentsRead'
<1> DEFINE r == [request[p] EXCEPT !.at = "put", !.document = List(remote),
                                   !.tagged = tagged, !.seen = Len(outside)]
<1>1. request[p].at = "fetch" /\ request[p] \in RequestRecords
  <2>1. request[p].at = "fetch"
    BY DEF FetchList
  <2> QED
    BY <2>1, RecordOf DEF Parts
<1>2. request'[p] = r /\ \A o \in Requests \ {p} : request'[o] = request[o]
  BY DEF FetchList, Parts, RequestsInv
<1>3. r.document = List(remote) /\ r.seen = Len(outside)
  BY <1>1 DEF RequestRecords
<1>4. UNCHANGED <<remote, outside>>
  BY DEF FetchList
<1>5. List(remote) \in [Members -> States] /\ Len(outside) \in Nat
  BY DEF List, Parts, RowsInv, FieldsTyped, Rows
<1>6. ReadSince(List(remote), Len(outside), remote, outside)
  BY <1>5 DEF ReadSince, List
<1> HIDE DEF r
<1>7. ASSUME NEW o \in Requests, request'[o].at = "put"
      PROVE  /\ request'[o].seen <= Len(outside)
             /\ ReadSince(request'[o].document, request'[o].seen, remote, outside)
  BY <1>2, <1>3, <1>5, <1>6, <1>7 DEF DocumentsRead
<1> QED
  BY <1>4, <1>7 DEF DocumentsRead

\* The lock lets no other request be at its put.
LEMMA PutListRecord ==
    ASSUME Parts, DocumentsRead, NEW p \in Requests, NEW ok \in BOOLEAN, PutList(p, ok)
    PROVE  DocumentsRead'
<1>1. request[p].at = "put"
  BY DEF PutList
<1>2. ASSUME NEW o \in Requests \ {p} PROVE request[o].at # "put"
  <2>1. ASSUME NEW q \in Requests, request[q].at = "put"
        PROVE  Holds(request[q]) /\ request[q].row # File
    BY <2>1, MutationsAssumption DEF Parts, RequestsInv, Placed, PlacedAt, Holds
  <2> QED
    BY <1>1, <2>1 DEF Parts, RequestsInv, LocksExclude
<1>3. PICK r : request' = [request EXCEPT ![p] = r] /\ r.at # "put"
  <2>1. request[p] \in RequestRecords
    BY <1>1, RecordOf DEF Parts
  <2>2. [request[p] EXCEPT !.at = "complete", !.document = Failed,
                           !.tagged = FALSE, !.seen = 0].at # "put"
    BY <2>1 DEF RequestRecords
  <2>3. Done.at # "put"
    BY DEF Done
  <2> QED
    BY <2>2, <2>3 DEF PutList, Put, AnswerLost, Ends
<1>4. \A o \in Requests : request'[o].at # "put"
  BY <1>2, <1>3 DEF Parts, RequestsInv
<1> QED
  BY <1>4 DEF DocumentsRead

-----------------------------------------------------------------------------
(* The invariant and what it says.                                          *)

LEMMA Starts == MutationsInit => Parts /\ DocumentsRead
<1> SUFFICES ASSUME MutationsInit PROVE Parts /\ DocumentsRead
  OBVIOUS
<1> USE DEF MutationsInit
<1>1. RequestsInv
  BY DEF RequestsInv, Placed, PlacedAt, LocksExclude, Holds, Unused
<1>2. [f \in Fields |-> FALSE] \in States
  BY DEF States
<1>3. RowsInv
  BY <1>2 DEF RowsInv
<1>4. \A x : Completing(x) = {}
  BY DEF Completing, Unused
<1>5. LocalAgrees
  BY <1>4 DEF LocalAgrees, AgreesAt, Agrees
<1>6. SyncInv /\ FieldsTyped /\ FetchedAgrees
  <2>1. SyncInv /\ FetchedAgrees
    BY DEF SyncInv, FetchedAgrees
  <2>2. <<>> \in Seq(Rows \X Fields)
    OBVIOUS
  <2> QED
    BY <2>1, <2>2 DEF FieldsTyped
<1>7. DocumentsRead
  BY DEF DocumentsRead, Unused
<1> QED
  BY <1>1, <1>3, <1>5, <1>6, <1>7 DEF Parts

LEMMA NextStep ==
    ASSUME Parts, DocumentsRead, [MutationsNext]_mutationVars
    PROVE  Parts'
<1>1. ASSUME NEW o \in Requests, NEW value \in Values,
             \/ SetCredentialDisabled(o, value) \/ SetCredentialPriority(o, value)
             \/ SetCredentialsDisabled(o, value)
      PROVE  Parts'
  BY <1>1, FileSubmissionsStep
<1>2. ASSUME NEW o \in Requests, NEW value \in Values, NEW row \in Members,
             SetAIProviderDisabled(o, row, value) \/ SetAIProviderPriority(o, row, value)
      PROVE  Parts'
  BY <1>2, KeySubmissionsStep
<1>3. ASSUME NEW o \in Requests, DeleteCredentials(o) PROVE Parts'
  BY <1>3, DeletionStep
<1>4. ASSUME NEW o \in Requests,
             Acquire(o) \/ Refused(o) \/ AskRefresh(o)
      PROVE  Parts'
  BY <1>4, AcquireStep, RefusedStep, AskRefreshStep
<1>5. ASSUME NEW o \in Requests, NEW ok \in BOOLEAN,
             \/ FetchList(o, ok) \/ CallFile(o, ok)
             \/ PutList(o, ok) \/ CompleteMutation(o, ok)
      PROVE  Parts'
  BY <1>5, FetchListStep, CallFileStep, PutListStep, CompleteMutationStep
<1>6. ASSUME NEW row \in Rows, NEW field \in Fields, ChangeOutside(row, field)
      PROVE  Parts'
  BY <1>6, ChangeOutsideStep
<1>7. ASSUME BeginSyncMetadata \/ StoreFile \/ StoreList \/ IntervalPasses
      PROVE  Parts'
  BY <1>7, BeginStep, StoreFileStep, StoreListStep, IntervalStep
<1>8. ASSUME NEW ok \in BOOLEAN, FetchCredentials(ok) \/ FetchProviders(ok)
      PROVE  Parts'
  BY <1>8, FetchCredentialsStep, FetchProvidersStep
<1>9. ASSUME UNCHANGED mutationVars PROVE Parts'
  BY <1>9, StutterStep
<1> QED
  BY <1>1, <1>2, <1>3, <1>4, <1>5, <1>6, <1>7, <1>8, <1>9 DEF MutationsNext

LEMMA SubmissionsRecord ==
    ASSUME Parts, DocumentsRead, NEW o \in Requests, NEW value, NEW row,
           \/ SetCredentialDisabled(o, value) \/ SetCredentialPriority(o, value)
           \/ SetCredentialsDisabled(o, value) \/ DeleteCredentials(o)
           \/ SetAIProviderDisabled(o, row, value) \/ SetAIProviderPriority(o, row, value)
    PROVE  DocumentsRead'
<1>1. PICK kind, target, field, asked : Submit(o, kind, target, field, asked)
  BY DEF SetCredentialDisabled, SetCredentialPriority, SetCredentialsDisabled,
         DeleteCredentials, SetAIProviderDisabled, SetAIProviderPriority
<1> QED
  BY <1>1, SubmitRecord

\* A file is no member of a list.
LEMMA CallFileRecord ==
    ASSUME Parts, DocumentsRead, NEW o \in Requests, NEW ok \in BOOLEAN, CallFile(o, ok)
    PROVE  DocumentsRead'
<1> DEFINE r == request[o]
<1>1. r.at = "call" /\ outside' = outside /\ (Moves(o, "complete") \/ Ends(o))
  BY DEF CallFile, AnswerLost
<1>2. r.row = File
  BY <1>1 DEF Parts, RequestsInv, Placed, PlacedAt
<1>3. \A x \in Members : x \in Rows /\ x # File /\ x \notin Targets(r)
  BY <1>2, MutationsAssumption DEF Rows, Targets
<1>4. \/ remote' = [remote EXCEPT ![File] = Gone]
      \/ remote' = Changed(remote, r)
  BY DEF CallFile
<1>5. \A x \in Members : remote'[x] = remote[x]
  <2>1. CASE remote' = [remote EXCEPT ![File] = Gone]
    BY <1>3, <2>1 DEF Parts, RowsInv
  <2>2. CASE remote' = Changed(remote, r)
    BY <1>3, <2>2 DEF Changed
  <2> QED
    BY <1>4, <2>1, <2>2
<1> QED
  BY <1>1, <1>5, MovesRecord, EndsRecord

LEMMA OtherRequestsRecord ==
    ASSUME Parts, DocumentsRead, NEW o \in Requests, NEW ok \in BOOLEAN,
           Acquire(o) \/ Refused(o) \/ AskRefresh(o) \/ CompleteMutation(o, ok)
    PROVE  DocumentsRead'
<1>1. outside' = outside /\ remote' = remote
  BY DEF Acquire, Refused, AskRefresh, CompleteMutation
<1>2. CASE Refused(o) \/ AskRefresh(o)
  BY <1>1, <1>2, EndsRecord DEF Refused, AskRefresh
<1>3. CASE Acquire(o)
  <2>1. PICK place \in {"call", "fetch"} : Moves(o, place)
    BY <1>3 DEF Acquire
  <2>2. request[o].at = "lock"
    BY <1>3 DEF Acquire
  <2> QED
    BY <1>1, <2>1, <2>2, MovesRecord
<1>4. CASE CompleteMutation(o, ok)
  <2>1. Moves(o, "refresh") /\ request[o].at = "complete"
    BY <1>4 DEF CompleteMutation
  <2> QED
    BY <1>1, <2>1, MovesRecord
<1> QED
  BY <1>2, <1>3, <1>4

\* A change by others is one more since every list was read.
LEMMA ChangeOutsideRecord ==
    ASSUME Parts, DocumentsRead, NEW row \in Rows, NEW field \in Fields,
           ChangeOutside(row, field)
    PROVE  DocumentsRead'
<1>1. /\ outside' = Append(outside, <<row, field>>)
      /\ remote' = [remote EXCEPT ![row][field] = ~remote[row][field]]
      /\ remote[row] # Gone /\ request' = request
  BY DEF ChangeOutside
<1>2. outside \in Seq(Rows \X Fields) /\ remote \in [Rows -> States]
  BY DEF Parts, FieldsTyped, RowsInv
<1>3. /\ Len(outside') = Len(outside) + 1 /\ Len(outside) \in Nat
      /\ outside'[Len(outside) + 1] = <<row, field>>
      /\ \A i \in 1 .. Len(outside) : outside'[i] = outside[i]
  BY <1>1, <1>2
<1>4. \A x \in Members : x \in Rows
  BY DEF Rows
<1>5. \A x \in Members, f \in Fields :
         /\ x # row => remote'[x] = remote[x]
         /\ x # row \/ f # field => remote'[x][f] = remote[x][f]
  BY <1>1, <1>2, <1>4 DEF States
<1>6. ASSUME NEW s, NEW n \in Nat, n <= Len(outside), ReadSince(s, n, remote, outside)
      PROVE  ReadSince(s, n, remote', outside')
  <2>1. ASSUME NEW x \in Members, NEW f \in Fields,
               \E i \in n + 1 .. Len(outside) : outside[i] = <<x, f>>
        PROVE  \E i \in n + 1 .. Len(outside') : outside'[i] = <<x, f>>
    BY <2>1, <1>3, <1>6
  <2>2. \E i \in n + 1 .. Len(outside') : outside'[i] = <<row, field>>
    BY <1>3, <1>6
  <2>3. ASSUME NEW x \in Members, s[x] # remote'[x]
        PROVE  \E f \in Fields : \E i \in n + 1 .. Len(outside') : outside'[i] = <<x, f>>
    BY <2>1, <2>2, <2>3, <1>5, <1>6 DEF ReadSince
  <2>4. ASSUME NEW x \in Members, NEW f \in Fields, s[x][f] # remote'[x][f]
        PROVE  \E i \in n + 1 .. Len(outside') : outside'[i] = <<x, f>>
    BY <2>1, <2>2, <2>4, <1>5, <1>6 DEF ReadSince
  <2> QED
    BY <2>3, <2>4, <1>6 DEF ReadSince
<1>7. ASSUME NEW o \in Requests, request[o].at = "put"
      PROVE  /\ request[o].seen <= Len(outside')
             /\ ReadSince(request[o].document, request[o].seen, remote', outside')
  <2>1. request[o].seen \in Nat
    BY <1>7, RecordOf DEF Parts, RequestRecords
  <2> QED
    BY <2>1, <1>3, <1>6, <1>7 DEF DocumentsRead
<1> QED
  BY <1>1, <1>7 DEF DocumentsRead

LEMMA DocumentsStep ==
    ASSUME Parts, DocumentsRead, [MutationsNext]_mutationVars
    PROVE  DocumentsRead'
<1>1. CASE \/ BeginSyncMetadata \/ StoreFile \/ StoreList \/ IntervalPasses
           \/ \E ok \in BOOLEAN : FetchCredentials(ok) \/ FetchProviders(ok)
           \/ UNCHANGED mutationVars
  <2>1. UNCHANGED <<request, remote, outside>>
    BY <1>1 DEF BeginSyncMetadata, StoreFile, StoreList, IntervalPasses,
                FetchCredentials, FetchProviders, mutationVars
  <2> QED
    BY <2>1, DocumentsStay
<1>2. ASSUME NEW o \in Requests, NEW value, NEW row,
             \/ SetCredentialDisabled(o, value) \/ SetCredentialPriority(o, value)
             \/ SetCredentialsDisabled(o, value) \/ DeleteCredentials(o)
             \/ SetAIProviderDisabled(o, row, value) \/ SetAIProviderPriority(o, row, value)
      PROVE  DocumentsRead'
  BY <1>2, SubmissionsRecord
<1>3. ASSUME NEW o \in Requests, NEW ok \in BOOLEAN,
             \/ Acquire(o) \/ Refused(o) \/ AskRefresh(o) \/ CompleteMutation(o, ok)
             \/ FetchList(o, ok) \/ CallFile(o, ok) \/ PutList(o, ok)
      PROVE  DocumentsRead'
  BY <1>3, OtherRequestsRecord, FetchListRecord, CallFileRecord, PutListRecord
<1>4. ASSUME NEW row \in Rows, NEW field \in Fields, ChangeOutside(row, field)
      PROVE  DocumentsRead'
  BY <1>4, ChangeOutsideRecord
<1> QED
  BY <1>1, <1>2, <1>3, <1>4 DEF MutationsNext

\* IInv is an invariant: at most one request holds the lock of a file or of a
\* list, a row that only the keeper has changed agrees with CPA, in the table
\* and in every snapshot that is still to be saved, and a list that was read
\* for a put differs from CPA's only where others have changed it since.
THEOREM Inductive == MutationsSpec => []IInv
<1>1. MutationsInit => IInv
  BY Starts, Groups DEF Parts
<1>2. IInv /\ [MutationsNext]_mutationVars => IInv'
  BY NextStep, DocumentsStep, Groups DEF Parts
<1> QED
  BY <1>1, <1>2, PTL DEF MutationsSpec

\* Every variable keeps its type.
THEOREM TypeCorrect == MutationsSpec => []TypeOK
<1>1. IInv => TypeOK
  BY DEF IInv
<1> QED
  BY <1>1, Inductive, PTL

\* A row that only this keeper has changed says what CPA says: no
\* synchronisation and no second request takes a completed change back, whether
\* CPA gives ETags or not.  What an unconditional put takes back of others'
\* changes drifts until a synchronisation has stored it.
THEOREM ChangesStay == MutationsSpec => []NoUndo
<1>1. IInv => NoUndo
  BY DEF IInv, LocalAgrees, AgreesAt, Agrees, NoUndo, UnderWay, Completing
<1> QED
  BY <1>1, Inductive, PTL

\* A list is put back with the field of its request changed and nothing else
\* (If-Match); without an ETag also fields that others changed since it was
\* read are taken back, but never what another request of the keeper did
\* (lockProviderConfig).
THEOREM PutsOnlyItsField == MutationsSpec => OnlyItsField
<1> DEFINE Only ==
      \A o \in Requests, x \in Members, f \in Fields :
         (request[o].at = "put" /\ request'[o] # request[o] /\ remote'[x][f] # remote[x][f])
            => \/ x \in Targets(request[o]) /\ f = request[o].field
               \/ ~request[o].tagged /\ ChangedSince(request[o], x, f)
<1>1. IInv /\ [MutationsNext]_mutationVars => [Only]_mutationVars
  <2> SUFFICES ASSUME Parts, DocumentsRead, MutationsNext,
                      NEW o \in Requests, NEW x \in Members, NEW f \in Fields,
                      request[o].at = "put", request'[o] # request[o],
                      remote'[x][f] # remote[x][f],
                      ~(x \in Targets(request[o]) /\ f = request[o].field)
               PROVE  ~request[o].tagged /\ ChangedSince(request[o], x, f)
    BY Groups DEF Parts
  <2> DEFINE r == request[o]
             under == [y \in Rows |-> IF y \in Members THEN r.document[y] ELSE remote[y]]
  <2>1. PICK ok \in BOOLEAN : PutList(o, ok)
    BY PutIsPutList
  <2>2. remote' = Edited(r) /\ (r.tagged => r.document = List(remote))
    BY <2>1 DEF PutList, Put
  <2>3. r \in RequestRecords /\ x \in Rows
    BY RecordOf DEF Parts, Rows
  <2>4. ReadSince(r.document, r.seen, remote, outside)
    BY DEF DocumentsRead
  <2>5. under[x] = r.document[x] /\ r.document[x] \in States
    BY <2>3, <2>4 DEF ReadSince
  <2>6. Edited(r) = Changed(under, r)
    BY DEF Edited
  <2>7. remote'[x][f] = r.document[x][f]
    <3>1. CASE x \notin Targets(r) \/ r.document[x] = Gone
      BY <2>2, <2>3, <2>5, <2>6, <3>1 DEF Changed
    <3>2. CASE x \in Targets(r) /\ r.document[x] # Gone
      <4>1. remote'[x] = [r.document[x] EXCEPT ![r.field] = r.value]
        BY <2>2, <2>3, <2>5, <2>6, <3>2 DEF Changed
      <4>2. r.document[x] \in [Fields -> BOOLEAN] /\ f # r.field
        BY <2>5, <3>2 DEF States
      <4> QED
        BY <4>1, <4>2
    <3> QED
      BY <3>1, <3>2
  <2>8. ~r.tagged
    BY <2>2, <2>7 DEF List
  <2>9. ChangedSince(r, x, f)
    BY <2>4, <2>7 DEF ReadSince, ChangedSince
  <2> QED
    BY <2>8, <2>9
<1> QED
  BY <1>1, Inductive, PTL DEF MutationsSpec, OnlyItsField
-----------------------------------------------------------------------------
(* The scheduled backups: the state of the runner and of its files.        *)

Moments == Nat \cup {Never}
RunnerPoints == {"down", "asleep", "copying", "copied", "compressing", "zipping", "zipped",
                 "replacing", "compressed", "cleaning", "resting"}
Runners == [at : RunnerPoints, wake : Moments, last : Moments, attempts : Nat, pending : BOOLEAN,
            blind : BOOLEAN, stamp : Moments, file : Moments, cleaning : BOOLEAN]

ZipPoints == {"compressing", "zipping", "zipped", "replacing", "compressed"}

BackupTypeOK ==
    /\ clock \in Nat
    /\ plan \in [interval : Nat \ {0}, retention : Nat, compress : BOOLEAN]
    /\ files \in SUBSET [at : Nat, ext : {"db.tmp", "db", "gz.tmp", "gz"}, whole : BOOLEAN, mtime : Nat]
    /\ runner \in Runners
    /\ made \in SUBSET [at : Nat, due : BOOLEAN]
    /\ faults \in Nat /\ slow \in Nat

\* Nothing is dated after now.
Dated ==
    /\ \A f \in files : f.at <= f.mtime /\ f.mtime <= clock
    /\ \A b \in made : b.at <= clock
    /\ runner.last <= clock /\ runner.stamp <= clock

\* While a copy is made its stamp belongs to it alone.
CopyInv ==
    runner.at \in {"copying", "copied"} =>
        /\ runner.stamp \in Nat /\ runner.file = runner.stamp
        /\ \E f \in files : f.at = runner.stamp
        /\ \A f \in files : f.at = runner.stamp =>
             f.ext = "db.tmp" /\ (runner.at = "copied" => f.whole)
        /\ \A b \in made : b.at < runner.stamp

\* The file that is compressed is a finished backup; it is there until its
\* compressed copy is.
ZipInv ==
    runner.at \in ZipPoints =>
        /\ \E b \in made : b.at = runner.file
        /\ Has(runner.file, "db")
        /\ runner.at \in {"zipping", "zipped", "replacing"} => Has(runner.file, "gz.tmp")
        /\ runner.at \in {"zipped", "replacing"} =>
             \A f \in files : f.at = runner.file /\ f.ext = "gz.tmp" => f.whole
        /\ runner.at = "compressed" => Has(runner.file, "gz")

\* Cleanup runs within an attempt, and only where days are to be removed.
CleanInv ==
    /\ runner.cleaning => runner.at \notin {"down", "asleep", "copying", "copied"}
    /\ runner.at = "cleaning" => runner.cleaning
    /\ runner.cleaning /\ runner.at # "resting" => plan.retention > 0

\* From its start to the rest after it an attempt has its stamp.
StampInv == runner.at \notin {"down", "asleep"} => runner.stamp \in Nat

\* What is on disk and what the runner is doing with it.
FilesInv ==
    /\ BackupTypeOK /\ Dated /\ StampInv /\ CopyInv /\ ZipInv /\ CleanInv
    /\ NamesPromise /\ Restorable


LEMMA Euclid ==
    ASSUME NEW t \in Nat
    PROVE  /\ DayAt(t) \in Nat
           /\ DayAt(t) * DayTicks <= t /\ t < DayAt(t) * DayTicks + DayTicks
<1>1. DayTicks \in Nat \ {0}
  BY BackupAssumption
<1> QED
  BY <1>1 DEF DayAt

LEMMA ProductGrows ==
    ASSUME NEW a \in Int, NEW b \in Int, NEW d \in Nat, a <= b
    PROVE  a * d <= b * d
OBVIOUS

LEMMA DayGrows ==
    ASSUME NEW s \in Nat, NEW t \in Nat, s <= t
    PROVE  DayAt(s) <= DayAt(t)
<1>1. DayTicks \in Nat \ {0}
  BY BackupAssumption
<1>2. ASSUME DayAt(t) + 1 <= DayAt(s) PROVE FALSE
  <2>1. (DayAt(t) + 1) * DayTicks <= DayAt(s) * DayTicks
    BY <1>1, <1>2, Euclid, ProductGrows
  <2>2. (DayAt(t) + 1) * DayTicks = DayAt(t) * DayTicks + DayTicks
    BY <1>1, Euclid
  <2> QED
    BY <1>1, <2>1, <2>2, Euclid
<1> QED
  BY <1>2, Euclid

\* A moment of a day: its day.
LEMMA DayOf ==
    ASSUME NEW d \in Nat, NEW r \in Nat, r < DayTicks
    PROVE  DayAt(d * DayTicks + r) = d
<1>1. DayTicks \in Nat \ {0}
  BY BackupAssumption
<1> DEFINE t == d * DayTicks + r
<1>2. t \in Nat
  BY <1>1
<1>3. DayAt(t) * DayTicks <= t /\ t < DayAt(t) * DayTicks + DayTicks /\ DayAt(t) \in Nat
  BY <1>2, Euclid
<1>4. ASSUME DayAt(t) + 1 <= d PROVE FALSE
  <2>1. (DayAt(t) + 1) * DayTicks <= d * DayTicks
    BY <1>1, <1>3, <1>4, ProductGrows
  <2>2. (DayAt(t) + 1) * DayTicks = DayAt(t) * DayTicks + DayTicks
    BY <1>1, <1>3
  <2> QED
    BY <1>1, <1>3, <2>1, <2>2
<1>5. ASSUME d + 1 <= DayAt(t) PROVE FALSE
  <2>1. (d + 1) * DayTicks <= DayAt(t) * DayTicks
    BY <1>1, <1>3, <1>5, ProductGrows
  <2>2. (d + 1) * DayTicks = d * DayTicks + DayTicks
    BY <1>1
  <2> QED
    BY <1>1, <1>3, <2>1, <2>2
<1> QED
  BY <1>3, <1>4, <1>5

LEMMA SmallestNumber ==
    ASSUME NEW T \in SUBSET Nat, T # {}
    PROVE  \E n \in T : \A m \in T : n <= m
<1>1. \E n \in T : \A m \in T : ~(<<m, n>> \in OpToRel(<, Nat))
  BY NatLessThanWellFounded, WFMin, Zenon
<1>2. PICK n \in T : \A m \in T : ~(<<m, n>> \in OpToRel(<, Nat))
  BY <1>1
<1>3. ASSUME NEW m \in T PROVE n <= m
  <2>1. ~(m < n)
    BY <1>2 DEF OpToRel
  <2> QED
    BY <2>1
<1> QED
  BY <1>3

LEMMA SmallestIs ==
    ASSUME NEW T \in SUBSET Nat, T # {}
    PROVE  Smallest(T) \in T
BY SmallestNumber DEF Smallest

\* The largest of some numbers that are bounded.
LEMMA LargestIs ==
    ASSUME NEW T \in SUBSET Nat, T # {}, NEW n \in Nat, \A m \in T : m <= n
    PROVE  Largest(T) \in T /\ \A m \in T : m <= Largest(T)
<1> DEFINE Left == {n - m : m \in T}
<1>1. Left \in SUBSET Nat /\ Left # {}
  <2>1. \A m \in T : n - m \in Nat
    OBVIOUS
  <2> QED
    BY <2>1
<1>2. PICK x \in Left : \A y \in Left : x <= y
  <2> HIDE DEF Left
  <2> QED
    BY <1>1, SmallestNumber
<1>3. PICK m \in T : x = n - m
  BY <1>2
<1>4. \A y \in T : y <= m
  BY <1>2, <1>3
<1> QED
  BY <1>3, <1>4 DEF Largest

LEMMA FilesInit == BackupInit => FilesInv
<1> SUFFICES ASSUME BackupInit PROVE FilesInv
  OBVIOUS
<1>1. BackupTypeOK
  <2>1. clock \in Nat
    BY BackupAssumption DEF BackupInit
  <2>3. plan \in [interval : Nat \ {0}, retention : Nat, compress : BOOLEAN]
    BY BackupAssumption DEF BackupInit
  <2>2. runner \in Runners
    BY DEF BackupInit, Down, Sleeping, Fresh, Runners, RunnerPoints, Moments, Never
  <2> QED
    BY <2>1, <2>2, <2>3 DEF BackupInit, BackupTypeOK
<1>2. /\ runner.at = "down" /\ runner.last = Never /\ runner.stamp = Never /\ runner.cleaning = FALSE
      /\ files = {} /\ made = {}
  BY DEF BackupInit, Down, Sleeping, Fresh
<1>3. Dated
  BY <1>1, <1>2 DEF Dated, BackupTypeOK, Never
<1>4. CopyInv /\ ZipInv /\ CleanInv /\ StampInv
  BY <1>2 DEF StampInv, CopyInv, ZipInv, CleanInv, ZipPoints
<1>5. NamesPromise /\ Restorable
  BY <1>2 DEF NamesPromise, Restorable, Listed
<1> QED
  BY <1>1, <1>3, <1>4, <1>5 DEF FilesInv

\* How long the runner sleeps, by what it knows.
LEMMA WakeType ==
    ASSUME FilesInv, NEW last \in Moments, NEW pending \in BOOLEAN
    PROVE  clock + AtLeastNone(NextDelay(last, pending)) \in Nat
<1>1. clock \in Nat /\ plan.interval \in Nat \ {0} /\ DayTicks \in Nat \ {0} /\ BackupHour \in Nat
  BY BackupAssumption DEF FilesInv, BackupTypeOK
<1>2. DayAt(clock) \in Nat /\ (last # Never => DayAt(last) \in Nat)
  BY <1>1, Euclid DEF Moments
<1>3. NextDailyBackupAt \in Int
  BY <1>1, <1>2 DEF NextDailyBackupAt
<1>4. NextDailyDelay(last) \in Int
  <2>1. CASE last = Never
    BY <1>1, <1>3, <2>1 DEF NextDailyDelay
  <2>2. CASE last # Never
    <3>1. DayAt(last) * DayTicks + BackupHour + plan.interval \in Int
      BY <1>1, <1>2, <2>2
    <3> QED
      BY <1>1, <1>3, <3>1 DEF NextDailyDelay
  <2> QED
    BY <2>1, <2>2
<1>5. NextDelay(last, pending) \in Int
  <2>1. last + plan.interval - clock \in Int
    BY <1>1 DEF Moments, Never
  <2> QED
    BY <1>4, <2>1 DEF NextDelay, Retry
<1> QED
  BY <1>1, <1>5 DEF AtLeastNone

LEMMA LastType ==
    ASSUME FilesInv, NEW own \in Moments, own <= clock, NEW readable \in BOOLEAN
    PROVE  LET last == LastFromHistory(own, readable) IN last \in Moments /\ last <= clock
<1>1. clock \in Nat
  BY DEF FilesInv, BackupTypeOK
<1>2. LastBackupAt \in Moments /\ LastBackupAt <= clock
  <2>1. CASE Listed = {}
    BY <1>1, <2>1 DEF LastBackupAt, Moments, Never
  <2>2. CASE Listed # {}
    <3> DEFINE T == {f.mtime : f \in Listed}
    <3>1. T \in SUBSET Nat /\ T # {} /\ \A m \in T : m <= clock
      BY <2>2 DEF Listed, FilesInv, BackupTypeOK, Dated
    <3>2. Largest(T) \in T
      <4> HIDE DEF T
      <4> QED
        BY <1>1, <3>1, LargestIs
    <3>3. LastBackupAt = Largest(T)
      BY <2>2 DEF LastBackupAt
    <3> HIDE DEF T
    <3> QED
      BY <3>1, <3>2, <3>3 DEF Moments
  <2> QED
    BY <2>1, <2>2
<1> QED
  BY <1>1, <1>2 DEF LastFromHistory

\* Going to sleep.
LEMMA SleepType ==
    ASSUME FilesInv, NEW fresh, fresh.last \in Moments, fresh.last <= clock,
           fresh.attempts \in Nat, fresh.pending \in BOOLEAN, NEW readable \in BOOLEAN
    PROVE  /\ Sleeping(fresh, readable) \in Runners
           /\ Sleeping(fresh, readable).at = "asleep"
           /\ Sleeping(fresh, readable).cleaning = FALSE
           /\ Sleeping(fresh, readable).last <= clock
           /\ Sleeping(fresh, readable).stamp = Never
           /\ Sleeping(fresh, readable).file = Never
<1> DEFINE w == clock + AtLeastNone(NextDelay(LastFromHistory(fresh.last, readable), fresh.pending))
<1>1. w \in Nat
  BY LastType, WakeType
<1>2. Sleeping(fresh, readable) =
        [at |-> "asleep", wake |-> w, last |-> fresh.last, attempts |-> fresh.attempts,
         pending |-> fresh.pending, blind |-> ~readable, stamp |-> Never, file |-> Never,
         cleaning |-> FALSE]
  BY DEF Sleeping
<1> HIDE DEF w
<1>3. Sleeping(fresh, readable) \in Runners
  BY <1>1, <1>2 DEF Runners, RunnerPoints, Moments
<1> QED
  BY <1>2, <1>3

\* Nothing but the runner changes, and it goes to a place at which nothing is
\* asked of the files.
LEMMA RunnerMoves ==
    ASSUME FilesInv, UNCHANGED <<clock, plan, files, made>>, faults' \in Nat, slow' \in Nat,
           runner' \in Runners, runner'.last <= clock, runner'.stamp <= clock,
           runner'.at \in {"down", "asleep", "cleaning", "resting"},
           runner'.at \in {"down", "asleep"} => runner'.cleaning = FALSE,
           runner'.at = "cleaning" => runner'.cleaning /\ plan.retention > 0,
           runner'.at \in {"cleaning", "resting"} => runner'.stamp \in Nat
    PROVE  FilesInv'
<1>1. BackupTypeOK'
  BY DEF FilesInv, BackupTypeOK
<1>2. Dated'
  BY DEF FilesInv, Dated
<1>3. CopyInv' /\ ZipInv'
  BY DEF CopyInv, ZipInv, ZipPoints
<1>4. CleanInv' /\ StampInv'
  BY DEF CleanInv, FilesInv, StampInv
<1>5. NamesPromise' /\ Restorable'
  BY DEF FilesInv, NamesPromise, Restorable, Listed, Has, KeepDay, DayAt
<1> QED
  BY <1>1, <1>2, <1>3, <1>4, <1>5 DEF FilesInv

LEMMA AttemptedRunner ==
    ASSUME FilesInv, runner.at \notin {"down", "asleep"}, runner.stamp \in Nat,
           NEW ok \in BOOLEAN, Attempted(ok)
    PROVE  /\ runner' \in Runners /\ runner'.at \in {"cleaning", "resting"}
           /\ runner'.at = "cleaning" => plan.retention > 0
           /\ runner'.cleaning /\ runner'.stamp = runner.stamp
           /\ runner'.last <= clock /\ runner'.stamp <= clock
<1>1. runner \in Runners /\ runner.last <= clock /\ runner.stamp <= clock /\ runner.attempts \in Nat
  BY DEF FilesInv, BackupTypeOK, Dated, Runners
<1> DEFINE known == IF ok THEN [last |-> runner.stamp, attempts |-> 0, pending |-> FALSE]
                    ELSE [last |-> runner.last, attempts |-> runner.attempts + 1,
                          pending |-> runner.attempts + 1 <= MaxRetries]
<1>2. /\ known.last \in Moments /\ known.last <= clock
      /\ known.attempts \in Nat /\ known.pending \in BOOLEAN
  <2>1. (runner.attempts + 1 <= MaxRetries) \in BOOLEAN
    OBVIOUS
  <2>2. runner.last \in Moments
    BY <1>1 DEF Runners
  <2>3. CASE ok
    <3>1. known = [last |-> runner.stamp, attempts |-> 0, pending |-> FALSE]
      BY <2>3
    <3> HIDE DEF known
    <3> QED
      BY <1>1, <3>1 DEF Moments
  <2>4. CASE ~ok
    <3>1. known = [last |-> runner.last, attempts |-> runner.attempts + 1,
                   pending |-> runner.attempts + 1 <= MaxRetries]
      BY <2>4
    <3> HIDE DEF known
    <3>2. known.last = runner.last /\ known.attempts = runner.attempts + 1
      BY <3>1
    <3>3. known.pending \in BOOLEAN
      BY <2>1, <3>1
    <3> QED
      BY <1>1, <2>2, <3>2, <3>3
  <2> QED
    BY <2>3, <2>4
<1>3. runner' = [runner EXCEPT
           !.last = known.last, !.attempts = known.attempts, !.pending = known.pending,
           !.at = IF plan.retention > 0 THEN "cleaning" ELSE "resting",
           !.file = Never, !.cleaning = TRUE]
  BY DEF Attempted
<1> HIDE DEF known
<1>4. runner' \in Runners
  BY <1>1, <1>2, <1>3 DEF Runners, RunnerPoints, Moments
<1>5. /\ runner'.at = (IF plan.retention > 0 THEN "cleaning" ELSE "resting")
      /\ runner'.cleaning = TRUE /\ runner'.stamp = runner.stamp /\ runner'.last = known.last
  BY <1>1, <1>3 DEF Runners
<1> QED
  BY <1>1, <1>2, <1>4, <1>5

LEMMA FailedRunner ==
    ASSUME FilesInv, runner.at \in ZipPoints, StepFails
    PROVE  /\ runner' \in Runners /\ runner'.at \in {"cleaning", "resting"}
           /\ runner'.at = "cleaning" => plan.retention > 0
           /\ runner'.cleaning /\ runner'.stamp = runner.stamp
           /\ runner'.last <= clock /\ runner'.stamp <= clock
<1>1. CASE ~runner.cleaning
  <2>1. Attempted(FALSE)
    BY <1>1 DEF StepFails
  <2>2. runner.stamp \in Nat /\ runner.at \notin {"down", "asleep"}
    BY DEF FilesInv, StampInv, ZipPoints
  <2> QED
    BY <2>1, <2>2, AttemptedRunner
<1>2. CASE runner.cleaning
  <2>1. runner' = [runner EXCEPT !.at = "resting"]
    BY <1>2 DEF StepFails, Reach
  <2>2. runner \in Runners /\ runner.last <= clock /\ runner.stamp <= clock
    BY DEF FilesInv, BackupTypeOK, Dated
  <2>3. runner' \in Runners
    BY <2>1, <2>2 DEF Runners, RunnerPoints
  <2>4. /\ runner'.at = "resting" /\ runner'.cleaning = runner.cleaning
        /\ runner'.stamp = runner.stamp /\ runner'.last = runner.last
    BY <2>1, <2>2 DEF Runners
  <2> QED
    BY <1>2, <2>2, <2>3, <2>4
<1> QED
  BY <1>1, <1>2

\* A step after which the runner is at rest or cleans up.
LEMMA Settles ==
    ASSUME FilesInv, UNCHANGED <<clock, plan, made>>, faults' \in Nat, slow' \in Nat,
           runner' \in Runners, runner'.at \in {"cleaning", "resting"},
           runner'.at = "cleaning" => plan.retention > 0,
           runner'.cleaning, runner'.last <= clock,
           runner'.stamp = runner.stamp, runner.at \notin {"down", "asleep"},
           files' \subseteq files,
           \A f \in files : f.ext \in {"db", "gz"} =>
              \/ f \in files' \/ Has(f.at, "gz")' \/ Has(f.at, "db")'
              \/ plan.retention > 0 /\ DayAt(f.at) < KeepDay(clock)
    PROVE  FilesInv'
<1>1. BackupTypeOK'
  BY DEF FilesInv, BackupTypeOK
<1>2. Dated'
  BY DEF FilesInv, Dated
<1>3. CopyInv' /\ ZipInv'
  BY DEF CopyInv, ZipInv, ZipPoints
<1>4. CleanInv' /\ StampInv'
  BY DEF CleanInv, FilesInv, StampInv
<1>5. NamesPromise'
  BY DEF FilesInv, NamesPromise, Listed
<1>6. Restorable'
  <2> SUFFICES ASSUME NEW b \in made
               PROVE  \/ Has(b.at, "db")' \/ Has(b.at, "gz")'
                      \/ plan.retention > 0 /\ DayAt(b.at) < KeepDay(clock)
    BY DEF Restorable, KeepDay, DayAt
  <2>1. CASE plan.retention > 0 /\ DayAt(b.at) < KeepDay(clock)
    BY <2>1
  <2>2. CASE Has(b.at, "db") \/ Has(b.at, "gz")
    <3>1. PICK f \in files : f.at = b.at /\ f.ext \in {"db", "gz"}
      BY <2>2 DEF Has
    <3>2. f \in files' => Has(b.at, "db")' \/ Has(b.at, "gz")'
      BY <3>1 DEF Has
    <3> QED
      BY <3>1, <3>2
  <2> QED
    BY <2>1, <2>2 DEF FilesInv, Restorable
<1> QED
  BY <1>1, <1>2, <1>3, <1>4, <1>5, <1>6 DEF FilesInv

LEMMA TickFiles == FilesInv /\ Tick => FilesInv'
<1> SUFFICES ASSUME FilesInv, Tick PROVE FilesInv'
  OBVIOUS
<1>1. clock' = clock + 1 /\ UNCHANGED <<plan, files, runner, made, faults>> /\ clock \in Nat
  BY DEF Tick, FilesInv, BackupTypeOK
<1>2. slow' \in Nat
  BY DEF Tick, FilesInv, BackupTypeOK
<1>3. BackupTypeOK'
  BY <1>1, <1>2 DEF FilesInv, BackupTypeOK
<1>4. Dated'
  <2>1. \A f \in files : f.at \in Nat /\ f.mtime \in Nat
    BY DEF FilesInv, BackupTypeOK
  <2>2. \A b \in made : b.at \in Nat
    BY DEF FilesInv, BackupTypeOK
  <2>3. runner.last \in Moments /\ runner.stamp \in Moments
    BY DEF FilesInv, BackupTypeOK, Runners
  <2> QED
    BY <1>1, <2>1, <2>2, <2>3 DEF FilesInv, Dated, Moments, Never
<1>5. CopyInv' /\ ZipInv' /\ CleanInv' /\ StampInv' /\ NamesPromise'
  BY <1>1 DEF FilesInv, CopyInv, ZipInv, CleanInv, StampInv, NamesPromise, Listed, Has
<1>6. Restorable'
  <2> SUFFICES ASSUME NEW b \in made
               PROVE  \/ Has(b.at, "db") \/ Has(b.at, "gz")
                      \/ plan.retention > 0 /\ DayAt(b.at) < DayAt(clock + 1) - (plan.retention - 1)
    BY <1>1 DEF Restorable, KeepDay, Has
  <2>1. DayAt(clock) <= DayAt(clock + 1) /\ DayAt(clock) \in Nat /\ DayAt(clock + 1) \in Nat
    BY <1>1, DayGrows, Euclid
  <2>2. DayAt(b.at) \in Nat
    BY Euclid DEF FilesInv, BackupTypeOK
  <2>3. plan.retention \in Nat
    BY DEF FilesInv, BackupTypeOK
  <2>4. \/ Has(b.at, "db") \/ Has(b.at, "gz")
        \/ plan.retention > 0 /\ DayAt(b.at) < DayAt(clock) - (plan.retention - 1)
    BY DEF FilesInv, Restorable, KeepDay
  <2> QED
    BY <2>1, <2>2, <2>3, <2>4
<1> QED
  BY <1>3, <1>4, <1>5, <1>6 DEF FilesInv

LEMMA RunnerFiles ==
    FilesInv /\ (StartRunner \/ Crash \/ Rest) => FilesInv'
<1> SUFFICES ASSUME FilesInv, StartRunner \/ Crash \/ Rest PROVE FilesInv'
  OBVIOUS
<1>1. UNCHANGED <<clock, slow, plan, files, made>>
  BY DEF StartRunner, Crash, Rest
<1>6. slow' \in Nat
  BY <1>1 DEF FilesInv, BackupTypeOK
<1>7. faults' \in Nat
  <2>1. faults' = faults \/ faults' = faults + 1
    BY DEF StartRunner, Crash, Rest, Fault
  <2> QED
    BY <2>1 DEF FilesInv, BackupTypeOK
<1>2. runner \in Runners /\ runner.last <= clock /\ runner.stamp <= clock /\ clock \in Nat
  BY DEF FilesInv, BackupTypeOK, Dated
<1>3. /\ Fresh.last \in Moments /\ Fresh.last <= clock
      /\ Fresh.attempts \in Nat /\ Fresh.pending \in BOOLEAN
  BY <1>2 DEF Fresh, Moments, Never
<1>4. CASE \E fresh \in {Fresh, runner}, readable \in BOOLEAN : runner' = Sleeping(fresh, readable)
  <2>1. PICK fresh \in {Fresh, runner}, readable \in BOOLEAN : runner' = Sleeping(fresh, readable)
    BY <1>4
  <2>2. /\ fresh.last \in Moments /\ fresh.last <= clock
        /\ fresh.attempts \in Nat /\ fresh.pending \in BOOLEAN
    BY <1>2, <1>3 DEF Runners
  <2>3. /\ runner' \in Runners /\ runner'.at = "asleep" /\ runner'.cleaning = FALSE
        /\ runner'.last <= clock /\ runner'.stamp = Never
    BY <2>1, <2>2, SleepType
  <2>4. runner'.last <= clock /\ runner'.stamp <= clock
    BY <1>2, <2>3 DEF Never
  <2> QED
    BY <1>1, <1>6, <1>7, <2>3, <2>4, RunnerMoves
<1>5. CASE runner' = Down
  <2>1. /\ Sleeping(Fresh, TRUE) \in Runners /\ Sleeping(Fresh, TRUE).cleaning = FALSE
        /\ Sleeping(Fresh, TRUE).last <= clock /\ Sleeping(Fresh, TRUE).stamp = Never
    BY <1>3, SleepType
  <2>2. runner' = [Sleeping(Fresh, TRUE) EXCEPT !.at = "down", !.wake = Never]
    BY <1>5 DEF Down
  <2>3. /\ runner' \in Runners /\ runner'.at = "down" /\ runner'.cleaning = FALSE
        /\ runner'.last <= clock /\ runner'.stamp = Never
    BY <2>1, <2>2 DEF Runners, RunnerPoints, Moments
  <2>4. runner'.last <= clock /\ runner'.stamp <= clock
    BY <1>2, <2>3 DEF Never
  <2> QED
    BY <1>1, <1>6, <1>7, <2>3, <2>4, RunnerMoves
<1> QED
  BY <1>4, <1>5 DEF StartRunner, Crash, Rest

\* No backup is lost that keeps a file with one of its names.
LEMMA StillRestorable ==
    ASSUME FilesInv, UNCHANGED <<clock, plan, made>>,
           \A f \in files : f.ext \in {"db", "gz"} =>
              \E g \in files' : g.at = f.at /\ g.ext \in {"db", "gz"}
    PROVE  Restorable'
<1> SUFFICES ASSUME NEW b \in made
             PROVE  \/ Has(b.at, "db")' \/ Has(b.at, "gz")'
                    \/ plan.retention > 0 /\ DayAt(b.at) < KeepDay(clock)
  BY DEF Restorable, KeepDay, DayAt
<1>1. CASE plan.retention > 0 /\ DayAt(b.at) < KeepDay(clock)
  BY <1>1
<1>2. CASE Has(b.at, "db") \/ Has(b.at, "gz")
  BY <1>2 DEF Has
<1> QED
  BY <1>1, <1>2 DEF FilesInv, Restorable

\* A backup that was made just now has not expired.
LEMMA MadeNow ==
    ASSUME FilesInv, NEW b \in made, b.at = clock
    PROVE  \E f \in files : f.at = clock
<1>1. plan.retention \in Nat /\ DayAt(clock) \in Nat
  BY Euclid DEF FilesInv, BackupTypeOK
<1>2. ~(plan.retention > 0 /\ DayAt(b.at) < KeepDay(clock))
  BY <1>1 DEF KeepDay
<1> QED
  BY <1>2 DEF FilesInv, Restorable, Has

LEMMA BeginFiles == FilesInv /\ BeginBackup => FilesInv'
<1> SUFFICES ASSUME FilesInv, BeginBackup PROVE FilesInv'
  OBVIOUS
<1> DEFINE new == [at |-> clock, ext |-> "db.tmp", whole |-> FALSE, mtime |-> clock]
<1>1. /\ UNCHANGED <<clock, slow, plan, made, faults>> /\ files' = files \cup {new}
      /\ ~\E f \in files : f.at = clock
      /\ runner.at = "asleep"
      /\ runner' = [runner EXCEPT !.at = "copying", !.stamp = clock, !.file = clock]
  BY DEF BeginBackup, Written, At, Taken
<1>2. clock \in Nat /\ runner \in Runners /\ runner.last <= clock
  BY DEF FilesInv, BackupTypeOK, Dated
<1>3. new \in [at : Nat, ext : {"db.tmp", "db", "gz.tmp", "gz"}, whole : BOOLEAN, mtime : Nat]
  BY <1>2
<1>4. /\ runner' \in Runners
      /\ runner'.at = "copying" /\ runner'.stamp = clock /\ runner'.file = clock
      /\ runner'.last = runner.last /\ runner'.cleaning = runner.cleaning
  BY <1>1, <1>2 DEF Runners, RunnerPoints, Moments
<1>5. new.at = clock /\ new.ext = "db.tmp" /\ new.mtime = clock
  OBVIOUS
<1> HIDE DEF new
<1>6. BackupTypeOK'
  BY <1>1, <1>3, <1>4 DEF FilesInv, BackupTypeOK
<1>7. Dated'
  BY <1>1, <1>2, <1>4, <1>5 DEF FilesInv, Dated
<1>8. CopyInv'
  <2>1. ASSUME NEW b \in made PROVE b.at < clock
    BY <1>1, <1>2, MadeNow DEF FilesInv, Dated, BackupTypeOK
  <2>2. \A f \in files' : f.at = clock => f = new
    BY <1>1
  <2>3. new \in files'
    BY <1>1
  <2> QED
    BY <1>1, <1>2, <1>4, <1>5, <2>1, <2>2, <2>3 DEF CopyInv
<1>9. ZipInv' /\ CleanInv' /\ StampInv'
  BY <1>1, <1>2, <1>4 DEF ZipInv, ZipPoints, CleanInv, StampInv, FilesInv
<1>10. NamesPromise'
  BY <1>1, <1>5 DEF FilesInv, NamesPromise, Listed
<1>11. Restorable'
  BY <1>1, StillRestorable
<1> QED
  BY <1>6, <1>7, <1>8, <1>9, <1>10, <1>11 DEF FilesInv

LEMMA CopyFiles == FilesInv /\ CopyDatabase => FilesInv'
<1> SUFFICES ASSUME FilesInv, CopyDatabase PROVE FilesInv'
  OBVIOUS
<1>1. UNCHANGED <<clock, slow, plan, made>> /\ runner.at = "copying"
  BY DEF CopyDatabase, At
<1>2. /\ clock \in Nat /\ runner \in Runners /\ runner.stamp \in Nat /\ runner.stamp <= clock
      /\ runner.last <= clock /\ slow \in Nat /\ faults \in Nat
  BY <1>1 DEF FilesInv, BackupTypeOK, Dated, CopyInv
<1>3. \A f \in files : f.at = runner.stamp => f.ext = "db.tmp"
  BY <1>1 DEF FilesInv, CopyInv
<1>4. CASE Fault /\ files' = Without(runner.stamp, "db.tmp") /\ Attempted(FALSE)
  <2>1. faults' \in Nat /\ slow' \in Nat
    BY <1>1, <1>2, <1>4 DEF Fault
  <2>2. files' \subseteq files /\ \A f \in files : f.ext \in {"db", "gz"} => f \in files'
    BY <1>4 DEF Without
  <2>3. /\ runner' \in Runners /\ runner'.at \in {"cleaning", "resting"}
        /\ runner'.at = "cleaning" => plan.retention > 0
        /\ runner'.cleaning /\ runner'.stamp = runner.stamp /\ runner'.last <= clock
    BY <1>1, <1>2, <1>4, AttemptedRunner
  <2>4. runner.at \notin {"down", "asleep"}
    BY <1>1
  <2> QED
    BY <1>1, <2>1, <2>2, <2>3, <2>4, Settles
<1>5. CASE /\ files' = Without(runner.stamp, "db.tmp") \cup {Written(runner.stamp, "db.tmp", TRUE)}
           /\ Reach("copied") /\ faults' = faults
  <2> DEFINE new == [at |-> runner.stamp, ext |-> "db.tmp", whole |-> TRUE, mtime |-> clock]
  <2>1. files' = {f \in files : ~(f.at = runner.stamp /\ f.ext = "db.tmp")} \cup {new}
    BY <1>5 DEF Without, Written
  <2>2. new \in [at : Nat, ext : {"db.tmp", "db", "gz.tmp", "gz"}, whole : BOOLEAN, mtime : Nat]
    BY <1>2
  <2>3. /\ runner' \in Runners
        /\ runner'.at = "copied" /\ runner'.stamp = runner.stamp /\ runner'.file = runner.file
        /\ runner'.last = runner.last /\ runner'.cleaning = runner.cleaning
    BY <1>2, <1>5 DEF Reach, Runners, RunnerPoints
  <2>4. new.at = runner.stamp /\ new.ext = "db.tmp" /\ new.mtime = clock /\ new.whole = TRUE
    OBVIOUS
  <2> HIDE DEF new
  <2>5. BackupTypeOK'
    BY <1>1, <1>5, <2>1, <2>2, <2>3 DEF FilesInv, BackupTypeOK
  <2>6. Dated'
    BY <1>1, <1>2, <2>1, <2>3, <2>4 DEF FilesInv, Dated
  <2>7. CopyInv'
    <3>1. \A f \in files' : f.at = runner.stamp => f = new
      BY <1>3, <2>1
    <3>2. new \in files'
      BY <2>1
    <3>3. runner.file = runner.stamp /\ \A b \in made : b.at < runner.stamp
      BY <1>1 DEF FilesInv, CopyInv
    <3> QED
      BY <1>1, <1>2, <2>3, <2>4, <3>1, <3>2, <3>3 DEF CopyInv
  <2>8. ZipInv' /\ CleanInv' /\ StampInv'
    BY <1>1, <1>2, <2>3 DEF ZipInv, ZipPoints, CleanInv, StampInv, FilesInv
  <2>9. NamesPromise'
    BY <1>1, <2>1, <2>4 DEF FilesInv, NamesPromise, Listed
  <2>10. Restorable'
    BY <1>1, <2>1, StillRestorable
  <2> QED
    BY <2>5, <2>6, <2>7, <2>8, <2>9, <2>10 DEF FilesInv
<1> QED
  BY <1>4, <1>5 DEF CopyDatabase

LEMMA FinalizeFiles == FilesInv /\ FinalizeBackup => FilesInv'
<1> SUFFICES ASSUME FilesInv, FinalizeBackup PROVE FilesInv'
  OBVIOUS
<1>1. UNCHANGED <<clock, slow, plan>> /\ runner.at = "copied"
  BY DEF FinalizeBackup, At
<1>2. /\ clock \in Nat /\ runner \in Runners /\ runner.stamp \in Nat /\ runner.stamp <= clock
      /\ runner.last <= clock /\ slow \in Nat /\ faults \in Nat
  BY <1>1 DEF FilesInv, BackupTypeOK, Dated, CopyInv
<1>3. \A f \in files : f.at = runner.stamp => f.ext = "db.tmp" /\ f.whole
  BY <1>1 DEF FilesInv, CopyInv
<1>4. CASE Fault /\ files' = Without(runner.stamp, "db.tmp") /\ Attempted(FALSE) /\ made' = made
  <2>1. faults' \in Nat /\ slow' \in Nat
    BY <1>1, <1>2, <1>4 DEF Fault
  <2>2. files' \subseteq files /\ \A f \in files : f.ext \in {"db", "gz"} => f \in files'
    BY <1>4 DEF Without
  <2>3. /\ runner' \in Runners /\ runner'.at \in {"cleaning", "resting"}
        /\ runner'.at = "cleaning" => plan.retention > 0
        /\ runner'.cleaning /\ runner'.stamp = runner.stamp /\ runner'.last <= clock
    BY <1>1, <1>2, <1>4, AttemptedRunner
  <2>4. runner.at \notin {"down", "asleep"}
    BY <1>1
  <2> QED
    BY <1>1, <1>4, <2>1, <2>2, <2>3, <2>4, Settles
<1>5. CASE /\ files' = {IF f.at = runner.stamp THEN [f EXCEPT !.ext = "db"] ELSE f : f \in files}
           /\ made' = made \cup {[at |-> runner.stamp, due |-> ~runner.pending /\ ~runner.blind]}
           /\ IF plan.compress THEN Reach("compressing") ELSE Attempted(TRUE)
           /\ faults' = faults
  <2> DEFINE new == [at |-> runner.stamp, due |-> ~runner.pending /\ ~runner.blind]
  <2>1. new.at = runner.stamp /\ new \in [at : Nat, due : BOOLEAN]
    BY <1>2
  <2>2. made' = made \cup {new}
    BY <1>5
  <2> HIDE DEF new
  <2>3. \A g \in files' : \E f \in files :
          /\ g.at = f.at /\ g.whole = f.whole /\ g.mtime = f.mtime
          /\ IF f.at = runner.stamp THEN g.ext = "db" ELSE g = f
    BY <1>5 DEF FilesInv, BackupTypeOK
  <2>4. \A f \in files : \E g \in files' :
          g.at = f.at /\ IF f.at = runner.stamp THEN g.ext = "db" ELSE g = f
    <3> SUFFICES ASSUME NEW f \in files
                 PROVE  \E g \in files' :
                          g.at = f.at /\ IF f.at = runner.stamp THEN g.ext = "db" ELSE g = f
      OBVIOUS
    <3> DEFINE g == IF f.at = runner.stamp THEN [f EXCEPT !.ext = "db"] ELSE f
    <3>1. g \in files'
      BY <1>5
    <3>2. g.at = f.at /\ IF f.at = runner.stamp THEN g.ext = "db" ELSE g = f
      BY DEF FilesInv, BackupTypeOK
    <3> HIDE DEF g
    <3> QED
      BY <3>1, <3>2
  <2>5. files' \subseteq [at : Nat, ext : {"db.tmp", "db", "gz.tmp", "gz"}, whole : BOOLEAN, mtime : Nat]
    BY <1>5 DEF FilesInv, BackupTypeOK
  <2>6. PICK c \in files : c.at = runner.stamp
    BY <1>1 DEF FilesInv, CopyInv
  <2>7. Has(runner.stamp, "db")'
    <3>1. PICK g \in files' : g.at = runner.stamp /\ g.ext = "db"
      BY <2>4, <2>6
    <3>2. runner'.stamp = runner.stamp => Has(runner.stamp, "db")'
      BY <3>1 DEF Has
    <3>3. runner'.stamp = runner.stamp
      <4>1. CASE plan.compress
        BY <1>2, <1>5, <4>1 DEF Reach, Runners
      <4>2. CASE ~plan.compress
        BY <1>1, <1>2, <1>5, <4>2, AttemptedRunner
      <4> QED
        BY <4>1, <4>2
    <3> QED
      BY <3>2, <3>3
  <2>8. /\ runner' \in Runners /\ runner'.last <= clock /\ runner'.stamp = runner.stamp
        /\ \/ /\ runner'.at = "compressing" /\ runner'.file = runner.file
              /\ runner'.cleaning = runner.cleaning
           \/ /\ runner'.at \in {"cleaning", "resting"} /\ runner'.cleaning
              /\ runner'.at = "cleaning" => plan.retention > 0
    <3>1. CASE plan.compress
      <4>1. runner' = [runner EXCEPT !.at = "compressing"]
        BY <1>5, <3>1 DEF Reach
      <4>2. runner' \in Runners
        BY <1>2, <4>1 DEF Runners, RunnerPoints
      <4>3. /\ runner'.last = runner.last /\ runner'.stamp = runner.stamp
            /\ runner'.at = "compressing" /\ runner'.file = runner.file
            /\ runner'.cleaning = runner.cleaning
        BY <1>2, <4>1 DEF Runners
      <4> QED
        BY <1>2, <4>2, <4>3
    <3>2. CASE ~plan.compress
      BY <1>1, <1>2, <1>5, <3>2, AttemptedRunner
    <3> QED
      BY <3>1, <3>2
  <2>9. BackupTypeOK'
    BY <1>1, <1>2, <1>5, <2>1, <2>2, <2>5, <2>8 DEF FilesInv, BackupTypeOK
  <2>10. Dated'
    <3>1. \A g \in files' : g.at <= g.mtime /\ g.mtime <= clock
      BY <2>3 DEF FilesInv, Dated
    <3>2. \A b \in made' : b.at <= clock
      BY <1>2, <2>1, <2>2 DEF FilesInv, Dated
    <3> QED
      BY <1>1, <1>2, <2>8, <3>1, <3>2 DEF Dated
  <2>11. CopyInv' /\ StampInv'
    BY <1>2, <2>8 DEF CopyInv, StampInv
  <2>12. ZipInv'
    <3>1. runner.file = runner.stamp
      BY <1>1 DEF FilesInv, CopyInv
    <3> SUFFICES ASSUME runner'.at \in ZipPoints PROVE ZipInv'
      BY DEF ZipInv
    <3>2. runner'.at = "compressing" /\ runner'.file = runner.stamp
      BY <2>8, <3>1 DEF ZipPoints
    <3>3. \E b \in made' : b.at = runner'.file
      BY <2>1, <2>2, <3>2
    <3>4. Has(runner.file, "db")'
      <4>1. \E g \in files' : g.at = runner'.stamp /\ g.ext = "db"
        BY <2>7 DEF Has
      <4> QED
        BY <2>8, <3>2, <4>1 DEF Has
    <3> QED
      BY <3>2, <3>3, <3>4 DEF ZipInv
  <2>13. CleanInv'
    <3>1. ~runner.cleaning
      BY <1>1 DEF FilesInv, CleanInv
    <3> QED
      BY <1>1, <2>8, <3>1 DEF CleanInv
  <2>14. NamesPromise'
    <3> SUFFICES ASSUME NEW g \in files', g.ext \in {"db", "gz"}
                 PROVE  g.whole /\ \E b \in made' : b.at = g.at
      BY DEF NamesPromise, Listed
    <3>1. PICK f \in files :
            /\ g.at = f.at /\ g.whole = f.whole
            /\ IF f.at = runner.stamp THEN g.ext = "db" ELSE g = f
      BY <2>3
    <3>2. CASE f.at = runner.stamp
      BY <1>3, <2>1, <2>2, <3>1, <3>2
    <3>3. CASE f.at # runner.stamp
      BY <2>2, <3>1, <3>3 DEF FilesInv, NamesPromise, Listed
    <3> QED
      BY <3>2, <3>3
  <2>15. Restorable'
    <3> SUFFICES ASSUME NEW b \in made'
                 PROVE  \/ \E g \in files' : g.at = b.at /\ g.ext \in {"db", "gz"}
                        \/ plan.retention > 0 /\ DayAt(b.at) < KeepDay(clock)
      BY <1>1 DEF Restorable, KeepDay, DayAt, Has
    <3>1. CASE b.at = runner.stamp
      BY <2>4, <2>6, <3>1
    <3>2. CASE b.at # runner.stamp /\ ~(plan.retention > 0 /\ DayAt(b.at) < KeepDay(clock))
      <4>1. b \in made
        BY <2>1, <2>2, <3>2
      <4>2. PICK f \in files : f.at = b.at /\ f.ext \in {"db", "gz"}
        BY <3>2, <4>1 DEF FilesInv, Restorable, Has
      <4> QED
        BY <2>4, <3>2, <4>2
    <3> QED
      BY <3>1, <3>2
  <2> QED
    BY <2>9, <2>10, <2>11, <2>12, <2>13, <2>14, <2>15 DEF FilesInv
<1> QED
  BY <1>4, <1>5 DEF FinalizeBackup

\* A step of the compression that fails takes away no more than its copy.
LEMMA ZipFails ==
    ASSUME FilesInv, runner.at \in ZipPoints, UNCHANGED <<clock, slow, plan, made>>,
           Fault, StepFails, files' = Without(runner.file, "gz.tmp") \/ files' = files
    PROVE  FilesInv'
<1>1. slow' \in Nat /\ faults' \in Nat
  BY DEF Fault, FilesInv, BackupTypeOK
<1>2. files' \subseteq files /\ \A f \in files : f.ext \in {"db", "gz"} => f \in files'
  BY DEF Without
<1>3. runner.at \notin {"down", "asleep"}
  BY DEF ZipPoints
<1> QED
  BY <1>1, <1>2, <1>3, FailedRunner, Settles

\* One that succeeds.
LEMMA ZipMoves ==
    ASSUME FilesInv, runner.at \in ZipPoints, UNCHANGED <<clock, slow, plan, made, faults>>,
           NEW place \in ZipPoints, runner' = [runner EXCEPT !.at = place],
           files' \subseteq [at : Nat, ext : {"db.tmp", "db", "gz.tmp", "gz"}, whole : BOOLEAN, mtime : Nat],
           \A g \in files' : /\ g.at <= g.mtime /\ g.mtime <= clock
                             /\ g.ext \in {"db", "gz"} => g.whole /\ \E b \in made : b.at = g.at,
           \A f \in files : f.ext \in {"db", "gz"} =>
              \E g \in files' : g.at = f.at /\ g.ext \in {"db", "gz"},
           \E g \in files' : g.at = runner.file /\ g.ext = "db",
           place \in {"zipping", "zipped", "replacing"} =>
              \E g \in files' : g.at = runner.file /\ g.ext = "gz.tmp",
           place \in {"zipped", "replacing"} =>
              \A g \in files' : g.at = runner.file /\ g.ext = "gz.tmp" => g.whole,
           place = "compressed" => \E g \in files' : g.at = runner.file /\ g.ext = "gz"
    PROVE  FilesInv'
<1>1. /\ runner \in Runners /\ runner.last <= clock /\ runner.stamp <= clock
      /\ clock \in Nat
  BY DEF FilesInv, BackupTypeOK, Dated
<1>2. runner' \in Runners
  BY <1>1 DEF Runners, RunnerPoints, ZipPoints
<1>3. /\ runner'.at = place /\ runner'.file = runner.file /\ runner'.stamp = runner.stamp
      /\ runner'.last = runner.last /\ runner'.cleaning = runner.cleaning
  BY <1>1 DEF Runners
<1>4. BackupTypeOK'
  BY <1>2 DEF FilesInv, BackupTypeOK
<1>5. Dated'
  BY <1>1, <1>3 DEF FilesInv, Dated
<1>6. CopyInv' /\ StampInv'
  BY <1>3 DEF CopyInv, StampInv, ZipPoints, FilesInv
<1>7. ZipInv'
  BY <1>3 DEF ZipInv, FilesInv, Has
<1>8. CleanInv'
  BY <1>3 DEF CleanInv, FilesInv, ZipPoints
<1>9. NamesPromise'
  BY DEF NamesPromise, Listed
<1>10. Restorable'
  BY StillRestorable
<1> QED
  BY <1>4, <1>5, <1>6, <1>7, <1>8, <1>9, <1>10 DEF FilesInv

\* What FilesInv says of the files, for the steps of the compression.
LEMMA ZipFacts ==
    ASSUME FilesInv, runner.at \in ZipPoints
    PROVE  /\ clock \in Nat /\ runner.file \in Nat /\ runner.file <= clock
           /\ files \subseteq [at : Nat, ext : {"db.tmp", "db", "gz.tmp", "gz"}, whole : BOOLEAN, mtime : Nat]
           /\ \A f \in files : f.at <= f.mtime /\ f.mtime <= clock
           /\ \A f \in files : f.ext \in {"db", "gz"} => f.whole /\ \E b \in made : b.at = f.at
           /\ \E f \in files : f.at = runner.file /\ f.ext = "db"
           /\ \E b \in made : b.at = runner.file
<1>1. \E b \in made : b.at = runner.file
  BY DEF FilesInv, ZipInv
<1>2. runner.file \in Nat /\ runner.file <= clock
  BY <1>1 DEF FilesInv, BackupTypeOK, Dated
<1> QED
  BY <1>1, <1>2 DEF FilesInv, BackupTypeOK, Dated, ZipInv, NamesPromise, Listed, Has

LEMMA WriteFiles == FilesInv /\ (OpenCompressed \/ WriteCompressed) => FilesInv'
<1> SUFFICES ASSUME FilesInv, OpenCompressed \/ WriteCompressed PROVE FilesInv'
  OBVIOUS
<1>1. /\ UNCHANGED <<clock, slow, plan, made>>
      /\ runner.at \in {"compressing", "zipping"}
      /\ \/ \E whole \in BOOLEAN, place \in {"zipping", "zipped"} :
              /\ place = "zipped" => whole
              /\ files' = Without(runner.file, "gz.tmp") \cup {Written(runner.file, "gz.tmp", whole)}
              /\ runner' = [runner EXCEPT !.at = place] /\ faults' = faults
         \/ Fault /\ files' = Without(runner.file, "gz.tmp") /\ StepFails
  BY DEF OpenCompressed, WriteCompressed, At, Reach
<1>2. runner.at \in ZipPoints
  BY <1>1 DEF ZipPoints
<1>3. CASE Fault /\ files' = Without(runner.file, "gz.tmp") /\ StepFails
  BY <1>1, <1>2, <1>3, ZipFails
<1>4. ASSUME NEW whole \in BOOLEAN, NEW place \in {"zipping", "zipped"}, place = "zipped" => whole,
             files' = Without(runner.file, "gz.tmp") \cup {Written(runner.file, "gz.tmp", whole)},
             runner' = [runner EXCEPT !.at = place], faults' = faults
      PROVE  FilesInv'
  <2> DEFINE new == [at |-> runner.file, ext |-> "gz.tmp", whole |-> whole, mtime |-> clock]
  <2>1. files' = {f \in files : ~(f.at = runner.file /\ f.ext = "gz.tmp")} \cup {new}
    BY <1>4 DEF Without, Written
  <2>2. /\ new \in [at : Nat, ext : {"db.tmp", "db", "gz.tmp", "gz"}, whole : BOOLEAN, mtime : Nat]
        /\ new.at = runner.file /\ new.ext = "gz.tmp" /\ new.mtime = clock /\ new.whole = whole
    BY <1>2, ZipFacts
  <2> HIDE DEF new
  <2>3. files' \subseteq [at : Nat, ext : {"db.tmp", "db", "gz.tmp", "gz"}, whole : BOOLEAN, mtime : Nat]
    BY <1>2, <2>1, <2>2, ZipFacts
  <2>4. \A g \in files' : g.at <= g.mtime /\ g.mtime <= clock
    BY <1>2, <2>1, <2>2, ZipFacts
  <2>5. \A g \in files' : g.ext \in {"db", "gz"} => g.whole /\ \E b \in made : b.at = g.at
    BY <1>2, <2>1, <2>2, ZipFacts
  <2>6. \A f \in files : f.ext \in {"db", "gz"} => f \in files'
    BY <2>1
  <2>7. \E g \in files' : g.at = runner.file /\ g.ext = "db"
    BY <1>2, <2>6, ZipFacts
  <2>8. \E g \in files' : g.at = runner.file /\ g.ext = "gz.tmp"
    BY <2>1, <2>2
  <2>9. \A g \in files' : g.at = runner.file /\ g.ext = "gz.tmp" => g = new
    BY <2>1
  <2>10. place \in ZipPoints /\ place # "compressed" /\ place # "replacing"
    BY <1>4 DEF ZipPoints
  <2>11. place = "zipped" => \A g \in files' : g.at = runner.file /\ g.ext = "gz.tmp" => g.whole
    BY <1>4, <2>2, <2>9
  <2> QED
    BY <1>1, <1>2, <1>4, <2>3, <2>4, <2>5, <2>6, <2>7, <2>8, <2>10, <2>11, ZipMoves
<1> QED
  BY <1>1, <1>3, <1>4

LEMMA RemoveOldFiles == FilesInv /\ RemoveOldCompressed => FilesInv'
<1> SUFFICES ASSUME FilesInv, RemoveOldCompressed PROVE FilesInv'
  OBVIOUS
<1>1. /\ UNCHANGED <<clock, slow, plan, made, faults>> /\ runner.at = "zipped"
      /\ files' = {f \in files : ~(f.at = runner.file /\ f.ext = "gz")}
      /\ runner' = [runner EXCEPT !.at = "replacing"]
  BY DEF RemoveOldCompressed, At, Reach, Without
<1>2. runner.at \in ZipPoints /\ "replacing" \in ZipPoints
  BY <1>1 DEF ZipPoints
<1>3. files' \subseteq files
  BY <1>1
<1>4. PICK d \in files : d.at = runner.file /\ d.ext = "db"
  BY <1>2, ZipFacts
<1>5. d \in files'
  BY <1>1, <1>4
<1>6. \A f \in files : f.ext \in {"db", "gz"} =>
        \E g \in files' : g.at = f.at /\ g.ext \in {"db", "gz"}
  BY <1>1, <1>4, <1>5
<1>7. PICK t \in files : t.at = runner.file /\ t.ext = "gz.tmp"
  BY <1>1, <1>2 DEF FilesInv, ZipInv, Has
<1>8. t \in files'
  BY <1>1, <1>7
<1>9. \A g \in files' : g.at = runner.file /\ g.ext = "gz.tmp" => g.whole
  BY <1>1, <1>2, <1>3 DEF FilesInv, ZipInv
<1>10. /\ files' \subseteq [at : Nat, ext : {"db.tmp", "db", "gz.tmp", "gz"}, whole : BOOLEAN, mtime : Nat]
       /\ \A g \in files' : /\ g.at <= g.mtime /\ g.mtime <= clock
                            /\ g.ext \in {"db", "gz"} => g.whole /\ \E b \in made : b.at = g.at
  BY <1>2, <1>3, ZipFacts
<1> QED
  BY <1>1, <1>2, <1>4, <1>5, <1>6, <1>7, <1>8, <1>9, <1>10, ZipMoves

LEMMA RenameFiles == FilesInv /\ RenameCompressed => FilesInv'
<1> SUFFICES ASSUME FilesInv, RenameCompressed PROVE FilesInv'
  OBVIOUS
<1>1. UNCHANGED <<clock, slow, plan, made>> /\ runner.at = "replacing"
  BY DEF RenameCompressed, At
<1>2. runner.at \in ZipPoints /\ "compressed" \in ZipPoints
  BY <1>1 DEF ZipPoints
<1>3. CASE Fault /\ files' = Without(runner.file, "gz.tmp") /\ StepFails
  BY <1>1, <1>2, <1>3, ZipFails
<1>4. CASE /\ files' = {IF f.at = runner.file /\ f.ext = "gz.tmp" THEN [f EXCEPT !.ext = "gz"] ELSE f :
                          f \in files}
           /\ runner' = [runner EXCEPT !.at = "compressed"]
           /\ faults' = faults
  <2>1. \A g \in files' : \E f \in files :
          /\ g.at = f.at /\ g.whole = f.whole /\ g.mtime = f.mtime
          /\ IF f.at = runner.file /\ f.ext = "gz.tmp" THEN g.ext = "gz" ELSE g = f
    BY <1>4 DEF FilesInv, BackupTypeOK
  <2>2. \A f \in files : \E g \in files' :
          g.at = f.at /\ IF f.at = runner.file /\ f.ext = "gz.tmp" THEN g.ext = "gz" ELSE g = f
    <3> SUFFICES ASSUME NEW f \in files
                 PROVE  \E g \in files' :
                          g.at = f.at /\ IF f.at = runner.file /\ f.ext = "gz.tmp" THEN g.ext = "gz" ELSE g = f
      OBVIOUS
    <3> DEFINE g == IF f.at = runner.file /\ f.ext = "gz.tmp" THEN [f EXCEPT !.ext = "gz"] ELSE f
    <3>1. g \in files'
      BY <1>4
    <3>2. g.at = f.at /\ IF f.at = runner.file /\ f.ext = "gz.tmp" THEN g.ext = "gz" ELSE g = f
      BY DEF FilesInv, BackupTypeOK
    <3> HIDE DEF g
    <3> QED
      BY <3>1, <3>2
  <2>3. files' \subseteq [at : Nat, ext : {"db.tmp", "db", "gz.tmp", "gz"}, whole : BOOLEAN, mtime : Nat]
    BY <1>4 DEF FilesInv, BackupTypeOK
  <2>4. \A g \in files' : g.at <= g.mtime /\ g.mtime <= clock
    BY <1>2, <2>1, ZipFacts
  <2>5. \A g \in files' : g.ext \in {"db", "gz"} => g.whole /\ \E b \in made : b.at = g.at
    <3> SUFFICES ASSUME NEW g \in files', g.ext \in {"db", "gz"}
                 PROVE  g.whole /\ \E b \in made : b.at = g.at
      OBVIOUS
    <3>1. PICK f \in files :
            /\ g.at = f.at /\ g.whole = f.whole
            /\ IF f.at = runner.file /\ f.ext = "gz.tmp" THEN g.ext = "gz" ELSE g = f
      BY <2>1
    <3>2. CASE f.at = runner.file /\ f.ext = "gz.tmp"
      <4>1. f.whole
        BY <1>1, <1>2, <3>2 DEF FilesInv, ZipInv
      <4> QED
        BY <1>2, <3>1, <3>2, <4>1, ZipFacts
    <3>3. CASE ~(f.at = runner.file /\ f.ext = "gz.tmp")
      BY <1>2, <3>1, <3>3, ZipFacts
    <3> QED
      BY <3>2, <3>3
  <2>6. \A f \in files : f.ext \in {"db", "gz"} => f \in files'
    BY <2>2
  <2>7. \E g \in files' : g.at = runner.file /\ g.ext = "db"
    BY <1>2, <2>6, ZipFacts
  <2>8. PICK t \in files : t.at = runner.file /\ t.ext = "gz.tmp"
    BY <1>1, <1>2 DEF FilesInv, ZipInv, Has
  <2>9. \E g \in files' : g.at = runner.file /\ g.ext = "gz"
    BY <2>2, <2>8
  <2> QED
    BY <1>1, <1>2, <1>4, <2>3, <2>4, <2>5, <2>6, <2>7, <2>9, ZipMoves
<1> QED
  BY <1>3, <1>4 DEF RenameCompressed, Reach

LEMMA RemoveSourceFiles == FilesInv /\ RemoveSource => FilesInv'
<1> SUFFICES ASSUME FilesInv, RemoveSource PROVE FilesInv'
  OBVIOUS
<1>1. UNCHANGED <<clock, slow, plan, made>> /\ runner.at = "compressed"
  BY DEF RemoveSource, At
<1>2. runner.at \in ZipPoints
  BY <1>1 DEF ZipPoints
<1>3. CASE Fault /\ files' = files /\ StepFails
  BY <1>1, <1>2, <1>3, ZipFails
<1>4. CASE /\ files' = Without(runner.file, "db")
           /\ IF runner.cleaning THEN Reach("cleaning") ELSE Attempted(TRUE)
           /\ faults' = faults
  <2>1. files' = {f \in files : ~(f.at = runner.file /\ f.ext = "db")}
    BY <1>4 DEF Without
  <2>2. PICK z \in files : z.at = runner.file /\ z.ext = "gz"
    BY <1>1, <1>2 DEF FilesInv, ZipInv, Has
  <2>3. z \in files'
    BY <2>1, <2>2
  <2>5. \A f \in files : f.ext \in {"db", "gz"} => f \in files' \/ f.at = z.at
    BY <2>1, <2>2
  <2>6. /\ runner' \in Runners /\ runner'.at \in {"cleaning", "resting"}
        /\ runner'.at = "cleaning" => plan.retention > 0
        /\ runner'.cleaning /\ runner'.stamp = runner.stamp /\ runner'.last <= clock
    <3>1. runner \in Runners /\ runner.last <= clock /\ runner.stamp \in Nat
      BY <1>1 DEF FilesInv, BackupTypeOK, Dated, StampInv
    <3>2. CASE runner.cleaning
      <4>1. runner' = [runner EXCEPT !.at = "cleaning"]
        BY <1>4, <3>2 DEF Reach
      <4>2. runner' \in Runners
        BY <3>1, <4>1 DEF Runners, RunnerPoints
      <4>3. /\ runner'.at = "cleaning" /\ runner'.cleaning = runner.cleaning
            /\ runner'.stamp = runner.stamp /\ runner'.last = runner.last
        BY <3>1, <4>1 DEF Runners
      <4>4. plan.retention > 0
        BY <1>1, <3>2 DEF FilesInv, CleanInv
      <4> QED
        BY <3>1, <3>2, <4>2, <4>3, <4>4
    <3>3. CASE ~runner.cleaning
      BY <1>1, <1>4, <3>1, <3>3, AttemptedRunner
    <3> QED
      BY <3>2, <3>3
  <2>7. slow' \in Nat /\ faults' \in Nat
    BY <1>1, <1>4 DEF FilesInv, BackupTypeOK
  <2>8. \A f \in files : f.ext \in {"db", "gz"} => f \in files' \/ Has(f.at, "gz")'
    BY <2>2, <2>3, <2>5 DEF Has
  <2>9. files' \subseteq files /\ runner.at \notin {"down", "asleep"}
    BY <1>1, <2>1
  <2> QED
    BY <1>1, <2>6, <2>7, <2>8, <2>9, Settles
<1> QED
  BY <1>3, <1>4 DEF RemoveSource

LEMMA CompressFiles == FilesInv /\ CompressExisting => FilesInv'
<1> SUFFICES ASSUME FilesInv, CompressExisting PROVE FilesInv'
  OBVIOUS
<1>1. /\ UNCHANGED <<clock, slow, plan, files, made, faults>> /\ runner.at = "cleaning"
      /\ Uncompressed # {}
      /\ runner' = [runner EXCEPT !.at = "compressing", !.file = Smallest(Uncompressed)]
  BY DEF CompressExisting, At
<1>2. Uncompressed \in SUBSET Nat
  BY DEF Uncompressed, FilesInv, BackupTypeOK
<1>3. Smallest(Uncompressed) \in Uncompressed
  BY <1>1, <1>2, SmallestIs
<1>4. PICK d \in files : d.at = Smallest(Uncompressed) /\ d.ext = "db"
  BY <1>3 DEF Uncompressed
<1>5. \E b \in made : b.at = d.at
  BY <1>4 DEF FilesInv, NamesPromise, Listed
<1>6. runner \in Runners /\ d.at \in Nat
  BY DEF FilesInv, BackupTypeOK
<1>7. /\ runner' \in Runners /\ runner'.at = "compressing" /\ runner'.file = d.at
      /\ runner'.stamp = runner.stamp /\ runner'.last = runner.last
      /\ runner'.cleaning = runner.cleaning
  BY <1>1, <1>4, <1>6 DEF Runners, RunnerPoints, Moments
<1>8. BackupTypeOK' /\ Dated'
  BY <1>1, <1>7 DEF FilesInv, BackupTypeOK, Dated
<1>9. CopyInv' /\ StampInv' /\ CleanInv'
  BY <1>1, <1>7 DEF FilesInv, CopyInv, StampInv, CleanInv
<1>10. ZipInv'
  BY <1>1, <1>4, <1>5, <1>7 DEF ZipInv, Has
<1>11. NamesPromise' /\ Restorable'
  BY <1>1 DEF FilesInv, NamesPromise, Listed, Restorable, Has, KeepDay, DayAt
<1> QED
  BY <1>8, <1>9, <1>10, <1>11 DEF FilesInv

LEMMA ExpiredFiles == FilesInv /\ RemoveExpired => FilesInv'
<1> SUFFICES ASSUME FilesInv, RemoveExpired PROVE FilesInv'
  OBVIOUS
<1>1. UNCHANGED <<clock, slow, plan, made>> /\ runner.at = "cleaning"
  BY DEF RemoveExpired, At
<1>2. /\ runner \in Runners /\ runner.cleaning /\ plan.retention > 0 /\ plan.retention \in Nat
      /\ clock \in Nat /\ runner.stamp \in Nat /\ runner.stamp <= clock /\ runner.last <= clock
      /\ slow \in Nat /\ faults \in Nat
  BY <1>1 DEF FilesInv, BackupTypeOK, Dated, CleanInv, StampInv
<1>3. /\ runner' = runner \/ runner' = [runner EXCEPT !.at = "resting"]
      /\ files' = files \/ \E f \in Expired : files' = files \ {f}
      /\ faults' = faults \/ faults' = faults + 1
  BY DEF RemoveExpired, Reach, Fault
<1>4. /\ runner' \in Runners /\ runner'.at \in {"cleaning", "resting"}
      /\ runner'.cleaning = runner.cleaning
      /\ runner'.stamp = runner.stamp /\ runner'.last = runner.last
  <2>1. CASE runner' = runner
    BY <1>1, <1>2, <2>1
  <2>2. CASE runner' = [runner EXCEPT !.at = "resting"]
    BY <1>2, <2>2 DEF Runners, RunnerPoints
  <2> QED
    BY <1>3, <2>1, <2>2
<1>5. \A f \in Expired : DayAt(f.at) < KeepDay(clock)
  <2>1. DayAt(runner.stamp) <= DayAt(clock) /\ DayAt(runner.stamp) \in Nat /\ DayAt(clock) \in Nat
    BY <1>2, DayGrows, Euclid
  <2>2. KeepDay(runner.stamp) <= KeepDay(clock) /\ KeepDay(runner.stamp) \in Int /\ KeepDay(clock) \in Int
    BY <1>2, <2>1 DEF KeepDay
  <2>3. \A f \in files : DayAt(f.at) \in Nat
    BY Euclid DEF FilesInv, BackupTypeOK
  <2> HIDE DEF KeepDay
  <2> QED
    BY <2>2, <2>3 DEF Expired
<1>6. \A f \in files : f \in files' \/ (plan.retention > 0 /\ DayAt(f.at) < KeepDay(clock))
  BY <1>2, <1>3, <1>5
<1>7. files' \subseteq files
  BY <1>3
<1>8. faults' \in Nat /\ slow' \in Nat
  BY <1>1, <1>2, <1>3
<1>9. runner.at \notin {"down", "asleep"}
  BY <1>1
<1> QED
  BY <1>1, <1>2, <1>4, <1>6, <1>7, <1>8, <1>9, Settles

LEMMA FilesSteps == FilesInv /\ [BackupNext]_backupVars => FilesInv'
<1>1. ASSUME FilesInv, UNCHANGED backupVars PROVE FilesInv'
  BY <1>1 DEF backupVars, FilesInv, BackupTypeOK, Dated, CopyInv, ZipInv, CleanInv, StampInv,
       NamesPromise, Restorable, Listed, Has, KeepDay, DayAt
<1> QED
  BY <1>1, TickFiles, RunnerFiles, BeginFiles, CopyFiles, FinalizeFiles, WriteFiles,
     RemoveOldFiles, RenameFiles, RemoveSourceFiles, CompressFiles, ExpiredFiles
     DEF BackupNext

-----------------------------------------------------------------------------
(* Backups that were due are an interval apart.                            *)

Apart(a, t) ==
    IF UsesDailySchedule THEN (DayAt(t) - DayAt(a)) * DayTicks >= plan.interval
    ELSE t - a >= plan.interval
Unexpired(a, t) == plan.retention = 0 \/ DayAt(a) >= KeepDay(t)
Due == ~runner.pending /\ ~runner.blind

\* What the runner will write next is an interval from what it has written,
\* whenever the sleep it has chosen ends.
SpaceInv ==
    /\ Spaced
    /\ runner.at = "asleep" /\ Due =>
         \A a \in made, t \in Nat : t >= runner.wake /\ Unexpired(a.at, t) => Apart(a.at, t)
    /\ runner.at \in {"copying", "copied"} /\ Due =>
         \A a \in made : Unexpired(a.at, runner.stamp) => Apart(a.at, runner.stamp)

LEMMA AtLeast ==
    ASSUME NEW delay \in Int
    PROVE  /\ AtLeastNone(delay) \in Nat /\ AtLeastNone(delay) >= delay
           /\ delay >= 0 => AtLeastNone(delay) = delay
BY DEF AtLeastNone

\* A sleep that knows the history ends an interval after what is in it.
LEMMA SleepSpaces ==
    ASSUME FilesInv, NEW fresh, fresh.last \in Moments, fresh.last <= clock, fresh.pending = FALSE,
           NEW a \in made, NEW t \in Nat, t >= Sleeping(fresh, TRUE).wake, Unexpired(a.at, t)
    PROVE  Apart(a.at, t)
<1> DEFINE last == LastFromHistory(fresh.last, TRUE)
<1>1. /\ clock \in Nat /\ plan.interval \in Nat \ {0} /\ plan.retention \in Nat
      /\ DayTicks \in Nat \ {0} /\ BackupHour \in Nat /\ BackupHour < DayTicks
      /\ a.at \in Nat
  BY BackupAssumption DEF FilesInv, BackupTypeOK
<1>2. t >= clock + AtLeastNone(NextDelay(last, FALSE))
  BY DEF Sleeping
<1>3. last \in Moments /\ last <= clock
  BY LastType
<1>5. NextDelay(last, FALSE) \in Int
  <2> HIDE DEF last
  <2>1. CASE last = Never
    <3>1. NextDailyBackupAt \in Int
      BY <1>1, Euclid DEF NextDailyBackupAt
    <3> QED
      BY <1>1, <2>1, <3>1 DEF NextDelay, NextDailyDelay
  <2>2. CASE last # Never
    <3>1. NextDailyBackupAt \in Int
      BY <1>1, Euclid DEF NextDailyBackupAt
    <3>2. DayAt(last) * DayTicks + BackupHour + plan.interval \in Int
      BY <1>1, <1>3, <2>2, Euclid DEF Moments
    <3>3. NextDailyDelay(last) \in Int
      BY <1>1, <3>1, <3>2 DEF NextDailyDelay
    <3> QED
      BY <1>1, <1>3, <2>2, <3>3 DEF NextDelay, Moments
  <2> QED
    BY <2>1, <2>2
<1>13. AtLeastNone(NextDelay(last, FALSE)) \in Nat
  BY <1>5, AtLeast
<1>6. t >= clock
  <2> HIDE DEF last
  <2> DEFINE w == AtLeastNone(NextDelay(last, FALSE))
  <2>1. t >= clock + w /\ w \in Nat
    BY <1>2, <1>13
  <2> HIDE DEF w
  <2> QED
    BY <1>1, <2>1
<1>7. \E f \in Listed : f.at = a.at
  <2>1. DayAt(clock) <= DayAt(t) /\ DayAt(clock) \in Nat /\ DayAt(t) \in Nat /\ DayAt(a.at) \in Nat
    BY <1>1, <1>6, DayGrows, Euclid
  <2>2. ~(plan.retention > 0 /\ DayAt(a.at) < KeepDay(clock))
    BY <1>1, <2>1 DEF Unexpired, KeepDay
  <2> QED
    BY <2>2 DEF FilesInv, Restorable, Has, Listed
<1>8. a.at <= LastBackupAt /\ LastBackupAt \in Nat
  <2> DEFINE T == {f.mtime : f \in Listed}
  <2>1. PICK f \in Listed : f.at = a.at
    BY <1>7
  <2>2. f.mtime \in T /\ a.at <= f.mtime
    BY <2>1 DEF Listed, FilesInv, Dated
  <2>3. T \in SUBSET Nat /\ \A m \in T : m <= clock
    BY DEF Listed, FilesInv, BackupTypeOK, Dated
  <2>4. LastBackupAt = Largest(T)
    BY <2>1 DEF LastBackupAt
  <2> HIDE DEF T
  <2>5. Largest(T) \in T /\ \A m \in T : m <= Largest(T)
    BY <1>1, <2>2, <2>3, LargestIs
  <2>6. LastBackupAt \in Nat /\ f.mtime <= LastBackupAt /\ f.mtime \in Nat
    BY <2>2, <2>3, <2>4, <2>5
  <2> QED
    BY <1>1, <2>2, <2>6
<1>9. last \in Nat /\ a.at <= last
  <2>1. fresh.last \in Nat \/ fresh.last = Never
    BY DEF Moments
  <2> QED
    BY <1>1, <1>8, <2>1 DEF LastFromHistory, Never
<1> HIDE DEF last
<1>10. last # Never
  BY <1>9 DEF Never
<1>11. CASE ~UsesDailySchedule
  <2>1. NextDelay(last, FALSE) = last + plan.interval - clock
    BY <1>10, <1>11 DEF NextDelay
  <2> DEFINE w == AtLeastNone(NextDelay(last, FALSE))
  <2>2. w \in Nat /\ w >= last + plan.interval - clock /\ t >= clock + w
    BY <1>2, <1>5, <1>13, <2>1, AtLeast
  <2> HIDE DEF w
  <2>3. t - a.at >= plan.interval
    BY <1>1, <1>9, <2>2
  <2> QED
    BY <1>11, <2>3 DEF Apart
<1>12. CASE UsesDailySchedule
  <2> DEFINE k == plan.interval \div DayTicks
             d == DayAt(last)
             candidate == d * DayTicks + BackupHour + plan.interval
  <2>1. k \in Nat /\ plan.interval = k * DayTicks
    BY <1>1, <1>12 DEF UsesDailySchedule
  <2>2. d \in Nat
    BY <1>9, Euclid
  <2>3. candidate \in Nat /\ candidate = (d + k) * DayTicks + BackupHour
    <3> HIDE DEF d, k
    <3>1. (d + k) * DayTicks = d * DayTicks + k * DayTicks
      BY <1>1, <2>1, <2>2
    <3>2. d * DayTicks \in Nat
      BY <1>1, <2>2
    <3> QED
      BY <1>1, <2>1, <3>1, <3>2
  <2>4. NextDelay(last, FALSE) =
          (IF clock < candidate THEN candidate ELSE NextDailyBackupAt) - clock
    BY <1>10, <1>12 DEF NextDelay, NextDailyDelay
  <2> HIDE DEF d, k, candidate
  <2>5. t >= candidate
    <3>1. CASE clock < candidate
      <4>1. NextDelay(last, FALSE) = candidate - clock
        BY <2>4, <3>1, Zenon
      <4>4. candidate - clock >= 0 /\ candidate - clock \in Int
        BY <1>1, <2>3, <3>1
      <4>2. AtLeastNone(candidate - clock) = candidate - clock
        BY <4>4, AtLeast
      <4>3. t >= clock + (candidate - clock)
        BY <1>2, <4>1, <4>2
      <4> QED
        BY <1>1, <2>3, <4>3
    <3>2. CASE ~(clock < candidate)
      BY <1>1, <1>6, <2>3, <3>2
    <3> QED
      BY <3>1, <3>2
  <2>6. DayAt(candidate) = d + k
    BY <1>1, <2>1, <2>2, <2>3, DayOf
  <2>7. DayAt(candidate) <= DayAt(t) /\ DayAt(a.at) <= d
    BY <1>1, <1>9, <2>3, <2>5, DayGrows DEF d
  <2>8. DayAt(t) \in Nat /\ DayAt(a.at) \in Nat
    BY <1>1, Euclid
  <2>9. k <= DayAt(t) - DayAt(a.at)
    BY <2>1, <2>2, <2>6, <2>7, <2>8
  <2>10. k * DayTicks <= (DayAt(t) - DayAt(a.at)) * DayTicks
    BY <1>1, <2>1, <2>8, <2>9, ProductGrows
  <2>11. (DayAt(t) - DayAt(a.at)) * DayTicks >= plan.interval
    BY <1>1, <2>1, <2>8, <2>10
  <2> QED
    BY <1>12, <2>11 DEF Apart
<1> QED
  BY <1>11, <1>12

LEMMA SpaceInit == BackupInit => SpaceInv
<1> SUFFICES ASSUME BackupInit PROVE SpaceInv
  OBVIOUS
<1>1. runner.at = "down" /\ made = {}
  BY DEF BackupInit, Down, Sleeping
<1> QED
  BY <1>1 DEF SpaceInv, Spaced

\* What is said of two moments does not change with the plan.
LEMMA SamePlan ==
    ASSUME plan' = plan
    PROVE  \A a, t : Apart(a, t)' = Apart(a, t) /\ Unexpired(a, t)' = Unexpired(a, t)
BY DEF Apart, Unexpired, UsesDailySchedule, KeepDay, DayAt

LEMMA SpacedByPairs ==
    Spaced <=> \A a, b \in made : a.at < b.at /\ b.due /\ Unexpired(a.at, b.at) => Apart(a.at, b.at)
BY DEF Spaced, Apart, Unexpired

\* Steps that finish no backup.
LEMMA SpaceKept ==
    ASSUME FilesInv, SpaceInv, UNCHANGED <<plan, made>>,
           \/ runner'.at \notin {"asleep", "copying", "copied"}
           \/ runner' = runner
           \/ /\ runner.at = "copying" /\ runner'.at = "copied" /\ runner'.stamp = runner.stamp
              /\ runner'.pending = runner.pending /\ runner'.blind = runner.blind
           \/ /\ runner.at = "asleep" /\ clock >= runner.wake /\ clock \in Nat
              /\ runner'.at = "copying" /\ runner'.stamp = clock
              /\ runner'.pending = runner.pending /\ runner'.blind = runner.blind
    PROVE  SpaceInv'
<1>1. Spaced'
  <2>1. \A a, t : Apart(a, t)' = Apart(a, t) /\ Unexpired(a, t)' = Unexpired(a, t)
    BY SamePlan
  <2> QED
    BY DEF SpaceInv, Spaced, UsesDailySchedule, KeepDay, DayAt
<1>2. \A a, t : (Apart(a, t)' <=> Apart(a, t)) /\ (Unexpired(a, t)' <=> Unexpired(a, t))
  BY SamePlan
<1>3. CASE runner'.at \notin {"asleep", "copying", "copied"}
  BY <1>1, <1>3 DEF SpaceInv
<1>4. CASE runner' = runner
  BY <1>1, <1>4 DEF SpaceInv, Due, Apart, Unexpired, UsesDailySchedule, KeepDay, DayAt
<1>5. CASE /\ runner.at = "copying" /\ runner'.at = "copied" /\ runner'.stamp = runner.stamp
           /\ runner'.pending = runner.pending /\ runner'.blind = runner.blind
  BY <1>1, <1>5 DEF SpaceInv, Due, Apart, Unexpired, UsesDailySchedule, KeepDay, DayAt
<1>6. CASE /\ runner.at = "asleep" /\ clock >= runner.wake /\ clock \in Nat
           /\ runner'.at = "copying" /\ runner'.stamp = clock
           /\ runner'.pending = runner.pending /\ runner'.blind = runner.blind
  <2>1. Due => \A a \in made : Unexpired(a.at, clock) => Apart(a.at, clock)
    BY <1>6 DEF SpaceInv
  <2> QED
    BY <1>1, <1>6, <2>1 DEF SpaceInv, Due, Apart, Unexpired, UsesDailySchedule, KeepDay, DayAt
<1> QED
  BY <1>3, <1>4, <1>5, <1>6

LEMMA SleepSteps ==
    ASSUME FilesInv, SpaceInv, StartRunner \/ Rest
    PROVE  SpaceInv'
<1>1. UNCHANGED <<clock, slow, plan, files, made>> /\ runner.at \in {"down", "resting"}
  BY DEF StartRunner, Rest, At
<1>2. PICK fresh : \E readable \in BOOLEAN :
        /\ runner' = Sleeping(fresh, readable)
        /\ fresh.last \in Moments /\ fresh.last <= clock /\ fresh.pending \in BOOLEAN
  <2>1. runner \in Runners /\ clock \in Nat /\ runner.last <= clock
    BY DEF FilesInv, BackupTypeOK, Dated
  <2>2. CASE StartRunner
    <3>1. Fresh.last \in Moments /\ Fresh.last <= clock /\ Fresh.pending \in BOOLEAN
      BY <2>1 DEF Fresh, Moments, Never
    <3> QED
      BY <2>2, <3>1 DEF StartRunner
  <2>3. CASE Rest
    <3>1. runner.last \in Moments /\ runner.pending \in BOOLEAN
      BY <2>1 DEF Runners
    <3> QED
      BY <2>1, <2>3, <3>1 DEF Rest
  <2> QED
    BY <2>2, <2>3
<1>8. PICK readable \in BOOLEAN : runner' = Sleeping(fresh, readable)
  BY <1>2
<1>3. /\ runner'.at = "asleep" /\ runner'.pending = fresh.pending /\ runner'.blind = ~readable
      /\ runner'.wake = Sleeping(fresh, readable).wake
  BY <1>8 DEF Sleeping
<1>4. Spaced'
  BY <1>1 DEF SpaceInv, Spaced, UsesDailySchedule, KeepDay, DayAt
<1>5. \A a, t : (Apart(a, t)' <=> Apart(a, t)) /\ (Unexpired(a, t)' <=> Unexpired(a, t))
  BY <1>1, SamePlan
<1>6. ASSUME Due', NEW a \in made, NEW t \in Nat, t >= runner'.wake, Unexpired(a.at, t)
      PROVE  Apart(a.at, t)
  <2>1. readable = TRUE /\ fresh.pending = FALSE
    BY <1>2, <1>3, <1>6 DEF Due
  <2>2. t >= Sleeping(fresh, TRUE).wake
    BY <1>3, <1>6, <2>1
  <2> QED
    BY <1>2, <1>6, <2>1, <2>2, SleepSpaces
<1>7. (\A a \in made, t \in Nat : t >= runner.wake /\ Unexpired(a.at, t) => Apart(a.at, t))' \/ ~Due'
  BY <1>1, <1>5, <1>6
<1> QED
  BY <1>3, <1>4, <1>7 DEF SpaceInv

\* A finished backup takes its place after those that were made before it.
LEMMA FinalizeSpaces ==
    ASSUME FilesInv, SpaceInv, FinalizeBackup
    PROVE  SpaceInv'
<1>1. UNCHANGED <<clock, slow, plan>> /\ runner.at = "copied"
  BY DEF FinalizeBackup, At
<1>2. \A a, t : (Apart(a, t)' <=> Apart(a, t)) /\ (Unexpired(a, t)' <=> Unexpired(a, t))
  BY <1>1, SamePlan
<1>3. runner'.at \notin {"asleep", "copying", "copied"}
  <2>1. runner \in Runners /\ runner.stamp \in Nat
    BY <1>1 DEF FilesInv, BackupTypeOK, StampInv
  <2>2. ASSUME NEW ok \in BOOLEAN, Attempted(ok) PROVE runner'.at \in {"cleaning", "resting"}
    BY <1>1, <2>1, <2>2, AttemptedRunner
  <2>3. Reach("compressing") => runner'.at = "compressing"
    BY <2>1 DEF Reach, Runners
  <2> QED
    BY <2>2, <2>3 DEF FinalizeBackup
<1>4. Spaced'
  <2>1. CASE made' = made
    BY <1>1, <2>1 DEF SpaceInv, Spaced, UsesDailySchedule, KeepDay, DayAt
  <2>2. CASE made' = made \cup {[at |-> runner.stamp, due |-> Due]}
    <3> SUFFICES ASSUME NEW a \in made', NEW b \in made', a.at < b.at, b.due, Unexpired(a.at, b.at)
                 PROVE  Apart(a.at, b.at)
      BY <1>1 DEF Spaced, Apart, Unexpired, UsesDailySchedule, KeepDay, DayAt
    <3>1. \A x \in made : x.at < runner.stamp /\ x.at \in Nat
      BY <1>1 DEF FilesInv, CopyInv, BackupTypeOK
    <3>2. runner.stamp \in Nat
      BY <1>1 DEF FilesInv, CopyInv
    <3>3. CASE a \in made /\ b \in made
      BY <3>3, SpacedByPairs DEF SpaceInv
    <3>4. CASE a \in made /\ b = [at |-> runner.stamp, due |-> Due]
      <4>1. b.at = runner.stamp /\ Due
        BY <3>4
      <4> QED
        BY <1>1, <3>4, <4>1 DEF SpaceInv
    <3>5. CASE a = [at |-> runner.stamp, due |-> Due]
      <4>1. a.at = runner.stamp /\ b.at <= runner.stamp
        BY <2>2, <3>1, <3>2, <3>5
      <4>2. b.at \in Nat
        BY <2>2, <3>1, <3>2
      <4> QED
        BY <3>2, <4>1, <4>2
    <3> QED
      BY <2>2, <3>3, <3>4, <3>5
  <2> QED
    BY <2>1, <2>2 DEF FinalizeBackup, Due
<1> QED
  BY <1>3, <1>4 DEF SpaceInv

LEMMA SpaceSteps == FilesInv /\ SpaceInv /\ [BackupNext]_backupVars => SpaceInv'
<1> SUFFICES ASSUME FilesInv, SpaceInv, [BackupNext]_backupVars PROVE SpaceInv'
  OBVIOUS
<1>0. runner \in Runners /\ clock \in Nat
  BY DEF FilesInv, BackupTypeOK
<1>1. CASE UNCHANGED backupVars \/ Tick
  <2>1. UNCHANGED <<plan, made>> /\ runner' = runner
    BY <1>1 DEF backupVars, Tick
  <2> QED
    BY <2>1, SpaceKept
<1>2. CASE StartRunner \/ Rest
  BY <1>2, SleepSteps
<1>3. CASE Crash
  <2>1. UNCHANGED <<plan, made>> /\ runner'.at = "down"
    BY <1>3 DEF Crash, Down, Sleeping
  <2> QED
    BY <2>1, SpaceKept
<1>4. CASE BeginBackup
  <2>1. /\ UNCHANGED <<plan, made>> /\ runner.at = "asleep" /\ clock >= runner.wake
        /\ runner' = [runner EXCEPT !.at = "copying", !.stamp = clock, !.file = clock]
    BY <1>4 DEF BeginBackup, At
  <2>2. /\ runner'.at = "copying" /\ runner'.stamp = clock
        /\ runner'.pending = runner.pending /\ runner'.blind = runner.blind
    BY <1>0, <2>1 DEF Runners
  <2> QED
    BY <1>0, <2>1, <2>2, SpaceKept
<1>5. ASSUME runner.at \notin {"down", "asleep"}, NEW ok \in BOOLEAN, Attempted(ok)
      PROVE  runner'.at \in {"cleaning", "resting"}
  BY <1>5, AttemptedRunner DEF FilesInv, StampInv
<1>6. ASSUME runner.at \in ZipPoints, StepFails
      PROVE  runner'.at \in {"cleaning", "resting"}
  BY <1>6, FailedRunner
<1>7. ASSUME NEW place \in RunnerPoints, Reach(place)
      PROVE  /\ runner'.at = place /\ runner'.stamp = runner.stamp
             /\ runner'.pending = runner.pending /\ runner'.blind = runner.blind
  BY <1>0, <1>7 DEF Reach, Runners
<1>8. CASE CopyDatabase
  <2>1. UNCHANGED <<plan, made>> /\ runner.at = "copying"
    BY <1>8 DEF CopyDatabase, At
  <2>2. CASE Reach("copied")
    BY <1>7, <2>1, <2>2, SpaceKept DEF RunnerPoints
  <2>3. CASE Attempted(FALSE)
    BY <1>5, <2>1, <2>3, SpaceKept
  <2> QED
    BY <1>8, <2>2, <2>3 DEF CopyDatabase
<1>9. CASE FinalizeBackup
  BY <1>9, FinalizeSpaces
<1>10. CASE OpenCompressed \/ WriteCompressed \/ RemoveOldCompressed \/ RenameCompressed
  <2>1. UNCHANGED <<plan, made>> /\ runner.at \in ZipPoints
    BY <1>10 DEF OpenCompressed, WriteCompressed, RemoveOldCompressed, RenameCompressed, At, ZipPoints
  <2>2. \/ Reach("zipping") \/ Reach("zipped") \/ Reach("replacing") \/ Reach("compressed") \/ StepFails
    BY <1>10 DEF OpenCompressed, WriteCompressed, RemoveOldCompressed, RenameCompressed
  <2>3. runner'.at \notin {"asleep", "copying", "copied"}
    BY <1>6, <1>7, <2>1, <2>2 DEF RunnerPoints
  <2> QED
    BY <2>1, <2>3, SpaceKept
<1>11. CASE RemoveSource
  <2>1. UNCHANGED <<plan, made>> /\ runner.at = "compressed" /\ runner.at \in ZipPoints
    BY <1>11 DEF RemoveSource, At, ZipPoints
  <2>2. Reach("cleaning") \/ Attempted(TRUE) \/ StepFails
    BY <1>11 DEF RemoveSource
  <2>3. runner'.at \notin {"asleep", "copying", "copied"}
    BY <1>5, <1>6, <1>7, <2>1, <2>2 DEF RunnerPoints
  <2> QED
    BY <2>1, <2>3, SpaceKept
<1>12. CASE CompressExisting
  <2>1. UNCHANGED <<plan, made>> /\ runner'.at = "compressing"
    BY <1>0, <1>12 DEF CompressExisting, Runners
  <2> QED
    BY <2>1, SpaceKept
<1>13. CASE RemoveExpired
  <2>1. UNCHANGED <<plan, made>>
    BY <1>13 DEF RemoveExpired
  <2>2. runner' = runner \/ Reach("resting")
    BY <1>13 DEF RemoveExpired
  <2>3. Reach("resting") => runner'.at \notin {"asleep", "copying", "copied"}
    BY <1>7 DEF RunnerPoints
  <2> QED
    BY <2>1, <2>2, <2>3, SpaceKept
<1> QED
  BY <1>1, <1>2, <1>3, <1>4, <1>8, <1>9, <1>10, <1>11, <1>12, <1>13 DEF BackupNext

-----------------------------------------------------------------------------
\* Without a fault a temporary file is the one being written.
LeftInv ==
    faults = 0 =>
        \A f \in files :
            /\ f.ext = "db.tmp" => runner.at \in {"copying", "copied"} /\ f.at = runner.stamp
            /\ f.ext = "gz.tmp" => runner.at \in {"zipping", "zipped", "replacing"} /\ f.at = runner.file

LEMMA LeftInit == BackupInit => LeftInv
BY DEF BackupInit, LeftInv

LEMMA LeftSteps == FilesInv /\ LeftInv /\ [BackupNext]_backupVars => LeftInv'
<1> SUFFICES ASSUME FilesInv, LeftInv, [BackupNext]_backupVars, faults' = 0
             PROVE  \A f \in files' :
                      /\ f.ext = "db.tmp" => runner'.at \in {"copying", "copied"} /\ f.at = runner'.stamp
                      /\ f.ext = "gz.tmp" => /\ runner'.at \in {"zipping", "zipped", "replacing"}
                                             /\ f.at = runner'.file
  BY DEF LeftInv
<1>0. runner \in Runners /\ faults \in Nat /\ ~Fault
  BY DEF FilesInv, BackupTypeOK, Fault
<1>1. faults = 0
  BY <1>0 DEF BackupNext, backupVars, Tick, StartRunner, Crash, BeginBackup, CopyDatabase,
     FinalizeBackup, OpenCompressed, WriteCompressed, RemoveOldCompressed, RenameCompressed,
     RemoveSource, CompressExisting, RemoveExpired, Rest
<1>2. \A f \in files :
        /\ f.ext = "db.tmp" => runner.at \in {"copying", "copied"} /\ f.at = runner.stamp
        /\ f.ext = "gz.tmp" => runner.at \in {"zipping", "zipped", "replacing"} /\ f.at = runner.file
  BY <1>1 DEF LeftInv
<1>3. ASSUME NEW place \in RunnerPoints, Reach(place)
      PROVE  runner'.at = place /\ runner'.stamp = runner.stamp /\ runner'.file = runner.file
  BY <1>0, <1>3 DEF Reach, Runners
<1>4. CASE UNCHANGED backupVars \/ Tick
  BY <1>2, <1>4 DEF backupVars, Tick
<1>5. CASE /\ files' \subseteq files
           /\ runner.at \in {"down", "resting", "cleaning", "compressed", "asleep"}
  BY <1>2, <1>5
<1>6. CASE StartRunner \/ Rest
  BY <1>5, <1>6 DEF StartRunner, Rest, At
<1>7. CASE BeginBackup
  <2>1. /\ runner.at = "asleep" /\ files' = files \cup {Written(clock, "db.tmp", FALSE)}
        /\ runner' = [runner EXCEPT !.at = "copying", !.stamp = clock, !.file = clock]
    BY <1>7 DEF BeginBackup, At
  <2>2. runner'.at = "copying" /\ runner'.stamp = clock
    BY <1>0, <2>1 DEF Runners
  <2> QED
    BY <1>2, <2>1, <2>2 DEF Written
<1>8. CASE CopyDatabase
  <2>1. /\ runner.at = "copying" /\ Reach("copied")
        /\ files' = Without(runner.stamp, "db.tmp") \cup {Written(runner.stamp, "db.tmp", TRUE)}
    BY <1>0, <1>8 DEF CopyDatabase, At
  <2>2. runner'.at = "copied" /\ runner'.stamp = runner.stamp
    BY <1>3, <2>1 DEF RunnerPoints
  <2> QED
    BY <1>2, <2>1, <2>2 DEF Written, Without
<1>9. CASE FinalizeBackup
  <2>1. /\ runner.at = "copied"
        /\ files' = {IF f.at = runner.stamp THEN [f EXCEPT !.ext = "db"] ELSE f : f \in files}
    BY <1>0, <1>9 DEF FinalizeBackup, At
  <2>2. ASSUME NEW f \in files' PROVE f.ext \notin {"db.tmp", "gz.tmp"}
    <3>1. PICK g \in files : f = IF g.at = runner.stamp THEN [g EXCEPT !.ext = "db"] ELSE g
      BY <2>1
    <3>2. g \in [at : Nat, ext : {"db.tmp", "db", "gz.tmp", "gz"}, whole : BOOLEAN, mtime : Nat]
      BY DEF FilesInv, BackupTypeOK
    <3>3. CASE g.at = runner.stamp
      <4>1. f = [g EXCEPT !.ext = "db"]
        BY <3>1, <3>3
      <4> QED
        BY <3>2, <4>1
    <3>4. CASE g.at # runner.stamp
      BY <1>2, <2>1, <3>1, <3>4
    <3> QED
      BY <3>3, <3>4
  <2> QED
    BY <2>2
<1>10. CASE OpenCompressed \/ WriteCompressed
  <2>1. PICK whole \in BOOLEAN :
        files' = Without(runner.file, "gz.tmp") \cup {Written(runner.file, "gz.tmp", whole)}
    BY <1>0, <1>10 DEF OpenCompressed, WriteCompressed
  <2>2. runner.at \in {"compressing", "zipping"} /\ (Reach("zipping") \/ Reach("zipped"))
    BY <1>0, <1>10 DEF OpenCompressed, WriteCompressed, At
  <2>3. runner'.at \in {"zipping", "zipped"} /\ runner'.file = runner.file
    BY <1>3, <2>2 DEF RunnerPoints
  <2> QED
    BY <1>2, <2>1, <2>2, <2>3 DEF Written, Without
<1>11. CASE RemoveOldCompressed
  <2>1. runner.at = "zipped" /\ files' \subseteq files /\ Reach("replacing")
    BY <1>11 DEF RemoveOldCompressed, At, Without
  <2>2. runner'.at = "replacing" /\ runner'.file = runner.file
    BY <1>3, <2>1 DEF RunnerPoints
  <2> QED
    BY <1>2, <2>1, <2>2
<1>12. CASE RenameCompressed
  <2>1. /\ runner.at = "replacing"
        /\ files' = {IF f.at = runner.file /\ f.ext = "gz.tmp" THEN [f EXCEPT !.ext = "gz"] ELSE f :
                       f \in files}
    BY <1>0, <1>12 DEF RenameCompressed, At
  <2>2. ASSUME NEW f \in files' PROVE f.ext \notin {"db.tmp", "gz.tmp"}
    <3>1. PICK g \in files : f = IF g.at = runner.file /\ g.ext = "gz.tmp"
                                 THEN [g EXCEPT !.ext = "gz"] ELSE g
      BY <2>1
    <3>2. g \in [at : Nat, ext : {"db.tmp", "db", "gz.tmp", "gz"}, whole : BOOLEAN, mtime : Nat]
      BY DEF FilesInv, BackupTypeOK
    <3>3. CASE g.at = runner.file /\ g.ext = "gz.tmp"
      <4>1. f = [g EXCEPT !.ext = "gz"]
        BY <3>1, <3>3
      <4> QED
        BY <3>2, <4>1
    <3>4. CASE ~(g.at = runner.file /\ g.ext = "gz.tmp")
      BY <1>2, <2>1, <3>1, <3>4
    <3> QED
      BY <3>3, <3>4
  <2> QED
    BY <2>2
<1>13. CASE RemoveSource
  BY <1>5, <1>13 DEF RemoveSource, At, Without
<1>14. CASE CompressExisting \/ RemoveExpired
  BY <1>5, <1>14 DEF CompressExisting, RemoveExpired, At
<1>15. CASE Crash
  BY <1>0, <1>15 DEF Crash
<1> QED
  BY <1>4, <1>6, <1>7, <1>8, <1>9, <1>10, <1>11, <1>12, <1>13, <1>14, <1>15 DEF BackupNext

\* The runner's schedule and its files keep their types, whatever fails and
\* whenever the process ends.
THEOREM BackupTypeCorrect == BackupSpec => []BackupTypeOK
<1>1. FilesInv => BackupTypeOK
  BY DEF FilesInv
<1> QED
  BY FilesInit, FilesSteps, <1>1, PTL DEF BackupSpec

\* What WriteDatabase, Cleanup and the runner keep, for every interval, every
\* retention, with and without compression: a file with a backup's name is whole
\* and was finished, a finished backup that has not expired is on disk whole in
\* one form or the other, also while it is compressed; backups that were due are
\* an interval apart, or on days an interval apart; and without a fault nothing
\* temporary is left at rest.
THEOREM BackupsAreKept == BackupSpec => []BackupsKept
<1>1. FilesInv /\ SpaceInv /\ LeftInv => BackupsKept
  BY DEF FilesInv, SpaceInv, LeftInv, BackupsKept, NothingLeft
<1> QED
  BY FilesInit, SpaceInit, LeftInit, FilesSteps, SpaceSteps, LeftSteps, <1>1, PTL DEF BackupSpec
-----------------------------------------------------------------------------
(* The upgrade at the start: what is so at each point of it.               *)

Numbered == DOMAIN cost
Costs == {Null, OldPrice, "new"}
UpgradePhases == {"none", "opening", "protected", "baseline_fixed", "schema_complete",
                  "events_backfilled", "overview_rebuilding"}
Backfilled == {"events_backfilled", "overview_rebuilding"}
Fixed == {"baseline_fixed", "schema_complete"} \cup Backfilled
UpgradePoints == {"protect", "published", "replay", "fix", "structure", "mark", "events",
                  "begin", "overview", "complete"}
Points == {"down", "identity", "inbox", "fresh", "freshDone", "check", "remaining", "activate",
           "ready", "failed"} \cup UpgradePoints
AllPublished == {Published[i] : i \in DOMAIN Published}
Backups == [applied : SUBSET Versions, hot : SUBSET Nat, archive : SUBSET Nat,
            facts : [Ids -> Nat], checkpoint : Nat]

StartupTypeOK ==
    /\ identity \in {"none", "legacy", "fresh"}
    /\ phase \in UpgradePhases \cup {"data_complete"}
    /\ schemaComplete \in BOOLEAN /\ dataComplete \in BOOLEAN
    /\ tables \in BOOLEAN /\ old \in BOOLEAN /\ refused \in BOOLEAN
    /\ applied \in SUBSET Versions
    /\ hot \in SUBSET Numbered /\ archive \in SUBSET Ids
    /\ cost \in [Numbered -> Costs]
    /\ facts \in [Numbered -> Nat]
    /\ rollup \in [Numbered \cup {Ghost} -> Nat]
    /\ checkpoint \in Nat
    /\ price \in {OldPrice, "new"}
    /\ point \in Points
    /\ shell \in {"none", "opening", "migrating", "failed", "ready"}

\* The rows there are: ids are never used twice, and what is archived lies
\* behind the checkpoint.
EventsInv ==
    /\ Numbered \subseteq Nat \ {0} /\ IsFiniteSet(Numbered) /\ Ids \subseteq Numbered
    /\ hot \cap archive = {}
    /\ checkpoint \in Numbered \cup {0}
    /\ \A i \in archive : i <= checkpoint

\* A message is in the inbox until it has become one event.
InboxInv ==
    /\ IsFiniteSet(kept) /\ inbox \subseteq kept
    /\ Cardinality(kept) = Cardinality(inbox) + Cardinality(Events \ Ids)

\* What the tables say of the database is what it is.
IdentityInv ==
    /\ identity = "none" => tables = old
    /\ identity = "none" <=> phase = "none"
    /\ identity = "legacy" => old
    /\ identity = "fresh" => ~old
    /\ ~refused

\* What is so at each point of Initialize.
PointInv ==
    /\ identity = "none" => point \in {"down", "identity", "failed"}
    /\ point \in {"fresh", "freshDone"} => identity = "fresh"
    /\ point \in UpgradePoints => identity = "legacy" /\ ~dataComplete
    /\ point \in {"check", "remaining", "activate", "ready"} => dataComplete
    /\ shell = "ready" => point = "ready"
    /\ point \in {"published", "replay"} => phase = "protected"
    /\ point = "replay" => /\ "source" \in applied /\ "replay" \notin applied
                           /\ checkpoint <= MaxOf(hot)
    /\ point = "fix" => phase \in {"protected"} \cup Fixed /\ AllPublished \subseteq applied
    /\ point \in {"structure", "mark"} => phase \in Fixed
    /\ point = "events" => phase \in Fixed \ {"baseline_fixed"} /\ schemaComplete
    /\ point = "begin" => phase \in Backfilled /\ schemaComplete
    /\ point \in {"overview", "complete"} => phase = "overview_rebuilding" /\ schemaComplete
    /\ point = "complete" => /\ cursors.overview.hot = OverviewBound("hot")
                             /\ cursors.overview.archive = OverviewBound("archive")

\* What the upgrade leaves when it is through, as usage goes on arriving.
CompleteInv ==
    /\ dataComplete <=> phase = "data_complete"
    /\ dataComplete => schemaComplete
    /\ dataComplete =>
          /\ \A i \in DOMAIN rollup :
                rollup[i] = IF i \in Events /\ i <= checkpoint THEN 1 ELSE 0
          /\ \A i \in Events \cap Ids : cost[i] = OldPrice
          /\ \A i \in hot : facts[i] = 1

\* A new database holds nothing before it is in service.
FreshInv ==
    ~old /\ ~dataComplete => Events = {} /\ \A i \in DOMAIN rollup : rollup[i] = 0

\* Where the upgrade is, by its phase.
PhaseInv ==
    old /\ ~dataComplete =>
        /\ Numbered = Ids /\ price = OldPrice
        /\ backup = None <=> phase \in {"none", "opening"}
        /\ fixed = None <=> phase \in {"none", "opening", "protected"}
        /\ fixed = None => Boundary \notin applied
        /\ fixed # None => AllPublished \subseteq applied

\* What the published migrations have made of the tables the backup recorded.
ConvertInv ==
    old /\ ~dataComplete =>
        /\ \A i \in hot : facts[i] = IF "convert" \in applied THEN 1 ELSE 0
        /\ "replay" \notin applied => archive = {}
        /\ "source" \in applied => "convert" \in applied
        /\ "replay" \in applied => "source" \in applied
        /\ "reset" \in applied => "replay" \in applied
        /\ backup # None =>
             /\ backup \in Backups
             /\ backup.hot = hot /\ backup.archive = archive /\ backup.applied \subseteq applied
             /\ \A i \in Ids :
                   facts[i] = backup.facts[i]
                     + IF "convert" \in applied \ backup.applied /\ i \in hot THEN 1 ELSE 0
             /\ IF "replay" \in backup.applied THEN checkpoint = backup.checkpoint
                ELSE "replay" \in applied => checkpoint = MaxOf(hot)

\* What the backfill and the rebuild have reached.
CursorInv ==
    old /\ ~dataComplete /\ fixed # None =>
        /\ fixed = [cursor |-> checkpoint, hot |-> MaxOf(hot), archive |-> MaxOf(archive),
                    price |-> OldPrice]
        /\ cursors \in [hot : Nat, archive : Nat,
                        overview : {None} \cup [hot : Nat, archive : Nat]]
        /\ cursors.hot <= MaxOf(hot) /\ cursors.archive <= MaxOf(archive)
        /\ phase \in Backfilled => cursors.hot = MaxOf(hot) /\ cursors.archive = MaxOf(archive)
        /\ \A i \in hot : i <= cursors.hot => cost[i] = OldPrice
        /\ \A i \in archive : i <= cursors.archive => cost[i] = OldPrice
        /\ phase # "overview_rebuilding" => cursors.overview = None

\* The rebuilt overview counts what lies behind its cursors, once.
OverviewInv ==
    old /\ ~dataComplete /\ phase = "overview_rebuilding" =>
        /\ cursors.overview \in [hot : Nat, archive : Nat]
        /\ cursors.overview.hot <= OverviewBound("hot")
        /\ cursors.overview.archive <= OverviewBound("archive")
        /\ \A i \in DOMAIN rollup :
             rollup[i] = IF \/ i \in hot /\ i <= cursors.overview.hot
                            \/ i \in archive /\ i <= cursors.overview.archive
                         THEN 1 ELSE 0

UpgradeInv ==
    /\ StartupTypeOK /\ EventsInv /\ InboxInv /\ IdentityInv /\ PointInv /\ CompleteInv
    /\ FreshInv /\ PhaseInv /\ ConvertInv /\ CursorInv /\ OverviewInv




\* Finitely many numbers have a largest one: the one with the fewest above it.
LEMMA LargestNumber ==
    ASSUME NEW S \in SUBSET Nat, IsFiniteSet(S), S # {}
    PROVE  \E x \in S : \A y \in S : y <= x
<1> DEFINE Above(x) == {y \in S : x < y}
           g(x) == Cardinality(Above(x))
           K == {g(x) : x \in S}
<1>1. \A x \in S : IsFiniteSet(Above(x)) /\ g(x) \in Nat
  <2> SUFFICES ASSUME NEW x \in S PROVE IsFiniteSet(Above(x)) /\ g(x) \in Nat
    OBVIOUS
  <2>1. Above(x) \in SUBSET S
    OBVIOUS
  <2> QED
    BY <2>1, FS_Subset, FS_CardinalityType
<1>2. K \in SUBSET Nat /\ K # {}
  <2> HIDE DEF g
  <2> QED
    BY <1>1
<1>3. PICK k \in K : \A m \in K : k <= m
  <2> HIDE DEF K
  <2> QED
    BY <1>2, SmallestNumber
<1>4. PICK x \in S : k = g(x)
  <2> HIDE DEF g
  <2> QED
    BY <1>3
<1>5. ASSUME NEW y \in S, x < y PROVE FALSE
  <2>1. Above(y) \in SUBSET Above(x)
    <3>1. \A z \in S : y < z => x < z
      BY <1>5
    <3> QED
      BY <3>1
  <2>2. Above(y) # Above(x)
    <3>1. y \in Above(x) /\ y \notin Above(y)
      BY <1>5
    <3> QED
      BY <3>1
  <2>3. IsFiniteSet(Above(x)) /\ IsFiniteSet(Above(y)) /\ g(x) \in Nat /\ g(y) \in Nat
    BY <1>1
  <2>4. g(y) <= g(x) /\ (g(x) = g(y) => Above(x) = Above(y))
    <3> HIDE DEF Above
    <3> QED
      BY <2>1, <2>3, FS_Subset
  <2>5. g(y) \in K
    <3> HIDE DEF g
    <3> QED
      OBVIOUS
  <2>6. k <= g(y)
    <3> HIDE DEF g, K
    <3> QED
      BY <1>3, <2>5
  <2> HIDE DEF g, K, Above
  <2> QED
    BY <1>4, <2>2, <2>3, <2>4, <2>6
<1>6. \A y \in S : y <= x
  BY <1>5
<1> QED
  BY <1>6

LEMMA MaxOfFacts ==
    ASSUME NEW S \in SUBSET Nat, IsFiniteSet(S)
    PROVE  /\ MaxOf(S) \in Nat /\ \A y \in S : y <= MaxOf(S)
           /\ S # {} => MaxOf(S) \in S
           /\ S = {} => MaxOf(S) = 0
<1>1. CASE S = {}
  BY <1>1 DEF MaxOf
<1>2. CASE S # {}
  <2>1. \E x \in S : \A y \in S : y <= x
    BY <1>2, LargestNumber
  <2>2. MaxOf(S) = CHOOSE x \in S : \A y \in S : y <= x
    BY <1>2 DEF MaxOf
  <2>3. MaxOf(S) \in S /\ \A y \in S : y <= MaxOf(S)
    BY <2>1, <2>2
  <2> QED
    BY <1>2, <2>3
<1> QED
  BY <1>1, <1>2

\* A page holds the first of the ids that are due, up to its last one.
LEMMA PageFacts ==
    ASSUME NEW ids \in SUBSET Nat, IsFiniteSet(ids), NEW after \in Nat, NEW bound \in Nat
    PROVE  LET page == Page(ids, after, bound)
           IN  /\ page \subseteq ids
               /\ \A i \in page : after < i /\ i <= bound
               /\ (\E i \in ids : after < i /\ i <= bound) => page # {}
               /\ page # {} => MaxOf(page) \in page
               /\ \A i \in ids : i \in page <=> page # {} /\ after < i /\ i <= MaxOf(page)
<1> DEFINE due == {i \in ids : i > after /\ i <= bound}
           below(i) == {j \in due : j < i}
           page == Page(ids, after, bound)
<1>1. page = {i \in due : Cardinality(below(i)) < PageSize}
  BY DEF Page
<1>2. IsFiniteSet(due) /\ due \in SUBSET Nat
  <2>1. due \in SUBSET ids
    OBVIOUS
  <2> QED
    BY <2>1, FS_Subset
<1>3. \A i \in due : IsFiniteSet(below(i)) /\ Cardinality(below(i)) \in Nat
  <2> SUFFICES ASSUME NEW i \in due
               PROVE  IsFiniteSet(below(i)) /\ Cardinality(below(i)) \in Nat
    OBVIOUS
  <2>1. below(i) \in SUBSET due
    OBVIOUS
  <2> HIDE DEF below, due
  <2> QED
    BY <1>2, <2>1, FS_Subset, FS_CardinalityType
<1>4. PageSize \in Nat \ {0}
  BY StartupAssumption
<1>5. page \subseteq due /\ page \in SUBSET Nat /\ IsFiniteSet(page)
  <2>1. page \in SUBSET due
    BY <1>1
  <2> HIDE DEF page, due
  <2> QED
    BY <1>2, <2>1, FS_Subset
<1>6. ASSUME due # {} PROVE page # {}
  <2>1. PICK i \in due : \A j \in due : i <= j
    <3> HIDE DEF due
    <3> QED
      BY <1>2, <1>6, SmallestNumber
  <2>2. below(i) = {}
    BY <1>2, <2>1
  <2>3. Cardinality(below(i)) = 0
    <3> HIDE DEF below
    <3> QED
      BY <2>2, FS_EmptySet
  <2>4. i \in page
    BY <1>1, <1>4, <2>1, <2>3
  <2> QED
    BY <2>4
<1>7. ASSUME NEW i \in page, NEW j \in due, j <= i PROVE j \in page
  <2>1. below(j) \in SUBSET below(i)
    BY <1>2, <1>5, <1>7
  <2>2. i \in due
    BY <1>5
  <2>3. Cardinality(below(j)) <= Cardinality(below(i))
    <3> HIDE DEF below, due, page
    <3> QED
      BY <1>3, <2>1, <2>2, FS_Subset
  <2>4. Cardinality(below(i)) < PageSize
    BY <1>1
  <2>5. Cardinality(below(j)) < PageSize
    <3>1. Cardinality(below(j)) \in Nat /\ Cardinality(below(i)) \in Nat
      <4> HIDE DEF below, due, page
      <4> QED
        BY <1>3, <2>2
    <3> HIDE DEF below, due, page
    <3> QED
      BY <1>4, <2>3, <2>4, <3>1
  <2> QED
    BY <1>1, <2>5
<1>8. \A i \in due : after < i /\ i <= bound /\ i \in ids
  OBVIOUS
<1>9. \A i \in ids : after < i /\ i <= bound => i \in due
  OBVIOUS
<1> HIDE DEF due, page
<1>10. /\ \A i \in page : i <= MaxOf(page)
       /\ page # {} => MaxOf(page) \in page
       /\ MaxOf(page) \in Nat
  BY <1>5, MaxOfFacts
<1>11. page # {} => MaxOf(page) <= bound
  BY <1>5, <1>8, <1>10
<1>12. \A i \in ids : i \in page <=> page # {} /\ after < i /\ i <= MaxOf(page)
  <2> SUFFICES ASSUME NEW i \in ids
               PROVE  i \in page <=> page # {} /\ after < i /\ i <= MaxOf(page)
    OBVIOUS
  <2>1. i \in page => page # {} /\ after < i /\ i <= MaxOf(page)
    BY <1>5, <1>8, <1>10
  <2>2. ASSUME page # {}, after < i, i <= MaxOf(page) PROVE i \in page
    <3>1. i <= bound
      BY <1>10, <1>11, <2>2
    <3> QED
      BY <1>7, <1>9, <1>10, <2>2, <3>1
  <2> QED
    BY <2>1, <2>2
<1>13. (\E i \in ids : after < i /\ i <= bound) => page # {}
  BY <1>6, <1>9
<1>14. /\ page \subseteq ids /\ \A i \in page : after < i /\ i <= bound
  BY <1>5, <1>8
<1> QED
  BY <1>10, <1>12, <1>13, <1>14 DEF page

LEMMA NotNone ==
    /\ \A a, b, c, d, e : [applied |-> a, hot |-> b, archive |-> c, facts |-> d, checkpoint |-> e] # None
    /\ \A a, b, c, d : [cursor |-> a, hot |-> b, archive |-> c, price |-> d] # None
    /\ \A a, b : [hot |-> a, archive |-> b] # None
<1>1. DOMAIN None = {"none"}
  BY DEF None
<1>2. \A a, b, c, d, e :
        "hot" \in DOMAIN [applied |-> a, hot |-> b, archive |-> c, facts |-> d, checkpoint |-> e]
  OBVIOUS
<1>3. \A a, b, c, d : "hot" \in DOMAIN [cursor |-> a, hot |-> b, archive |-> c, price |-> d]
  OBVIOUS
<1>4. \A a, b : "hot" \in DOMAIN [hot |-> a, archive |-> b]
  OBVIOUS
<1>5. \A r : "hot" \in DOMAIN r => r # None
  BY <1>1
<1> QED
  BY <1>2, <1>3, <1>4, <1>5, Zenon

\* The next published migration, when those that are applied come first.
LEMMA NextIs ==
    ASSUME "source" \in applied => "convert" \in applied,
           "replay" \in applied => "source" \in applied,
           "reset" \in applied => "replay" \in applied
    PROVE  /\ NextPublished \in 1..5 /\ Len(Published) = 4
           /\ NextPublished = 1 => "convert" \notin applied
           /\ NextPublished = 2 => "convert" \in applied /\ "source" \notin applied
           /\ NextPublished = 3 => "source" \in applied /\ "replay" \notin applied
           /\ NextPublished = 4 => "replay" \in applied /\ "reset" \notin applied
           /\ NextPublished = 5 <=> AllPublished \subseteq applied
<1> DEFINE S == {i \in DOMAIN Published : Published[i] \in applied}
           n == Cardinality(S)
<1>1. /\ Len(Published) = 4 /\ DOMAIN Published = 1..4
      /\ Published[1] = "convert" /\ Published[2] = "source"
      /\ Published[3] = "replay" /\ Published[4] = "reset"
  BY DEF Published
<1>2. NextPublished = MinOf(5, 1 + n)
  BY <1>1 DEF NextPublished
<1>3. AllPublished = {"convert", "source", "replay", "reset"}
  <2>1. 1..4 = {1, 2, 3, 4}
    OBVIOUS
  <2> QED
    BY <1>1, <2>1 DEF AllPublished
<1>4. \A d \in 0..4 : S = 1..d => n = d
  <2> SUFFICES ASSUME NEW d \in 0..4, S = 1..d PROVE n = d
    OBVIOUS
  <2>1. n = Cardinality(1..d)
    OBVIOUS
  <2>2. Cardinality(1..d) = IF 1 > d THEN 0 ELSE d - 1 + 1
    BY FS_Interval
  <2> HIDE DEF n
  <2> QED
    BY <2>1, <2>2
<1>5. \A i \in 1..4 : i = 1 \/ i = 2 \/ i = 3 \/ i = 4
  OBVIOUS
<1>6. CASE "convert" \notin applied
  <2>1. S = 1..0
    BY <1>1, <1>5, <1>6
  <2>2. n = 0
    BY <1>4, <2>1
  <2>3. NextPublished = 1
    BY <1>2, <2>2 DEF MinOf
  <2> QED
    BY <1>1, <1>3, <1>6, <2>3
<1>7. CASE "convert" \in applied /\ "source" \notin applied
  <2>1. S = 1..1
    BY <1>1, <1>5, <1>7
  <2>2. n = 1
    BY <1>4, <2>1
  <2>3. NextPublished = 2
    BY <1>2, <2>2 DEF MinOf
  <2> QED
    BY <1>1, <1>3, <1>7, <2>3
<1>8. CASE "source" \in applied /\ "replay" \notin applied
  <2>1. S = 1..2
    BY <1>1, <1>5, <1>8
  <2>2. n = 2
    BY <1>4, <2>1
  <2>3. NextPublished = 3
    BY <1>2, <2>2 DEF MinOf
  <2> QED
    BY <1>1, <1>3, <1>8, <2>3
<1>9. CASE "replay" \in applied /\ "reset" \notin applied
  <2>1. S = 1..3
    BY <1>1, <1>5, <1>9
  <2>2. n = 3
    BY <1>4, <2>1
  <2>3. NextPublished = 4
    BY <1>2, <2>2 DEF MinOf
  <2> QED
    BY <1>1, <1>3, <1>9, <2>3
<1>10. CASE "reset" \in applied
  <2>1. S = 1..4
    BY <1>1, <1>5, <1>10
  <2>2. n = 4
    BY <1>4, <2>1
  <2>3. NextPublished = 5
    BY <1>2, <2>2 DEF MinOf
  <2> QED
    BY <1>1, <1>3, <1>10, <2>3
<1> QED
  BY <1>6, <1>7, <1>8, <1>9, <1>10

LEMMA PublishedValues ==
    /\ Published[1] = "convert" /\ Published[2] = "source"
    /\ Published[3] = "replay" /\ Published[4] = "reset"
    /\ DOMAIN Published = 1..4 /\ Len(Published) = 4
    /\ AllPublished = {"convert", "source", "replay", "reset"}
    /\ Versions = AllPublished \cup {Boundary, "remaining"}
<1>1. /\ Published[1] = "convert" /\ Published[2] = "source"
      /\ Published[3] = "replay" /\ Published[4] = "reset"
      /\ DOMAIN Published = 1..4 /\ Len(Published) = 4
  BY DEF Published
<1>2. 1..4 = {1, 2, 3, 4}
  OBVIOUS
<1> QED
  BY <1>1, <1>2 DEF AllPublished, Versions

\* The legacy databases an upgrade may start from.
LEMMA LegacyFacts ==
    ASSUME NEW done \in 0..Len(Published), NEW mark \in Ids \cup {0},
           NEW cold \in {0, MaxOf(Ids) - 1}, NEW ghost \in {0, 1},
           LegacyDatabase(done, mark, cold, ghost)
    PROVE  /\ applied \subseteq AllPublished
           /\ "source" \in applied => "convert" \in applied
           /\ "replay" \in applied => "source" \in applied
           /\ "reset" \in applied => "replay" \in applied
           /\ archive \subseteq Ids /\ hot = Ids \ archive
           /\ \A i \in archive : i <= checkpoint
           /\ "replay" \notin applied => archive = {}
           /\ checkpoint \in Ids \cup {0}
           /\ rollup \in [Ids \cup {Ghost} -> Nat]
<1>1. /\ applied = {Published[i] : i \in 1..done}
      /\ archive = {i \in Ids : i <= cold} /\ hot = Ids \ archive
      /\ cold > 0 => "replay" \in applied /\ cold <= mark
      /\ checkpoint = mark
      /\ rollup = [i \in Ids \cup {Ghost} |->
                    IF i = Ghost THEN ghost ELSE IF i <= mark THEN 1 ELSE 0]
  BY DEF LegacyDatabase
<1>2. Ids \subseteq Nat \ {0} /\ IsFiniteSet(Ids) /\ mark \in Nat
  BY StartupAssumption
<1>3. cold \in Int
  BY <1>2, MaxOfFacts
<1>4. done \in 0..4
  BY PublishedValues
<1>5. applied \subseteq AllPublished
  BY <1>1, <1>4, PublishedValues DEF AllPublished
<1>6. /\ "convert" \in applied <=> done >= 1
      /\ "source" \in applied <=> done >= 2
      /\ "replay" \in applied <=> done >= 3
      /\ "reset" \in applied <=> done >= 4
  <2>1. done = 0 \/ done = 1 \/ done = 2 \/ done = 3 \/ done = 4
    BY <1>4
  <2>2. \A i \in 1..done : i = 1 \/ i = 2 \/ i = 3 \/ i = 4
    BY <1>4
  <2>3. /\ 1 \in 1..done <=> done >= 1
        /\ 2 \in 1..done <=> done >= 2
        /\ 3 \in 1..done <=> done >= 3
        /\ 4 \in 1..done <=> done >= 4
    BY <1>4
  <2> QED
    BY <1>1, <2>2, <2>3, PublishedValues
<1>7. \A i \in archive : i <= checkpoint /\ cold > 0
  BY <1>1, <1>2, <1>3
<1>8. "replay" \notin applied => archive = {}
  BY <1>1, <1>7
<1>9. rollup \in [Ids \cup {Ghost} -> Nat]
  BY <1>1
<1>10. done >= 2 => done >= 1
  BY <1>4
<1>11. (done >= 3 => done >= 2) /\ (done >= 4 => done >= 3)
  BY <1>4
<1> QED
  BY <1>1, <1>5, <1>6, <1>7, <1>8, <1>9, <1>10, <1>11

LEMMA UpgradeInit == StartupInit => UpgradeInv
<1> SUFFICES ASSUME StartupInit PROVE UpgradeInv
  OBVIOUS
<1>1. /\ identity = "none" /\ phase = "none"
      /\ schemaComplete = FALSE /\ dataComplete = FALSE
      /\ backup = None /\ moved = FALSE /\ fixed = None /\ cursors = None
      /\ facts = [i \in Ids |-> IF "convert" \in applied THEN 1 ELSE 0]
      /\ cost = [i \in Ids |-> Null]
      /\ inbox = {} /\ kept = {}
      /\ price = OldPrice /\ point = "down" /\ shell = "none" /\ refused = FALSE
  BY DEF StartupInit
<1>2. Ids \subseteq Nat \ {0} /\ IsFiniteSet(Ids) /\ Numbered = Ids
  BY <1>1, StartupAssumption DEF Numbered
<1>3. /\ old \in BOOLEAN /\ tables = old
      /\ applied \subseteq AllPublished
      /\ "source" \in applied => "convert" \in applied
      /\ "replay" \in applied => "source" \in applied
      /\ "reset" \in applied => "replay" \in applied
      /\ archive \subseteq Ids /\ hot \subseteq Ids /\ hot \cap archive = {}
      /\ \A i \in archive : i <= checkpoint
      /\ "replay" \notin applied => archive = {}
      /\ checkpoint \in Ids \cup {0}
      /\ rollup \in [Ids \cup {Ghost} -> Nat]
      /\ ~old => Events = {} /\ \A i \in DOMAIN rollup : rollup[i] = 0
  <2>1. CASE FreshDatabase
    <3>1. /\ old = FALSE /\ tables = FALSE /\ applied = {} /\ archive = {} /\ hot = {}
          /\ checkpoint = 0 /\ rollup = [i \in Ids \cup {Ghost} |-> 0]
      BY <2>1 DEF FreshDatabase
    <3> QED
      BY <3>1 DEF Events
  <2>2. CASE \E done \in 0..Len(Published), mark \in Ids \cup {0},
                cold \in {0, MaxOf(Ids) - 1}, ghost \in {0, 1} :
                   LegacyDatabase(done, mark, cold, ghost)
    <3>1. PICK done \in 0..Len(Published), mark \in Ids \cup {0},
                cold \in {0, MaxOf(Ids) - 1}, ghost \in {0, 1} :
                   LegacyDatabase(done, mark, cold, ghost)
      BY <2>2
    <3>2. old = TRUE /\ tables = TRUE
      BY <3>1 DEF LegacyDatabase
    <3>3. /\ applied \subseteq AllPublished
          /\ "source" \in applied => "convert" \in applied
          /\ "replay" \in applied => "source" \in applied
          /\ "reset" \in applied => "replay" \in applied
          /\ archive \subseteq Ids /\ hot = Ids \ archive
          /\ \A i \in archive : i <= checkpoint
          /\ "replay" \notin applied => archive = {}
          /\ checkpoint \in Ids \cup {0}
          /\ rollup \in [Ids \cup {Ghost} -> Nat]
      BY <3>1, LegacyFacts
    <3> QED
      BY <3>2, <3>3
  <2> QED
    BY <2>1, <2>2 DEF StartupInit
<1>4. StartupTypeOK
  <2>1. cost \in [Numbered -> Costs] /\ facts \in [Numbered -> Nat]
    BY <1>1, <1>2 DEF Costs
  <2>2. applied \in SUBSET Versions /\ Boundary \notin applied
    BY <1>3, PublishedValues DEF Boundary
  <2>3. rollup \in [Numbered \cup {Ghost} -> Nat] /\ checkpoint \in Nat
    BY <1>2, <1>3
  <2>4. hot \in SUBSET Numbered /\ archive \in SUBSET Ids
    BY <1>2, <1>3
  <2>5. tables \in BOOLEAN /\ old \in BOOLEAN
    BY <1>3
  <2>6. phase \in UpgradePhases /\ point \in Points
    BY <1>1 DEF UpgradePhases, Points
  <2>7. /\ identity \in {"none", "legacy", "fresh"} /\ schemaComplete \in BOOLEAN
        /\ dataComplete \in BOOLEAN /\ refused \in BOOLEAN /\ price \in {OldPrice, "new"}
        /\ shell \in {"none", "opening", "migrating", "failed", "ready"}
    BY <1>1
  <2> QED
    BY <2>1, <2>2, <2>3, <2>4, <2>5, <2>6, <2>7 DEF StartupTypeOK
<1>5. EventsInv
  BY <1>2, <1>3 DEF EventsInv
<1>6. InboxInv
  <2>1. Events \ Ids = {}
    BY <1>3 DEF Events
  <2> QED
    BY <1>1, <2>1, FS_EmptySet DEF InboxInv
<1>7. IdentityInv /\ PointInv
  BY <1>1, <1>3 DEF IdentityInv, PointInv, UpgradePoints
<1>8. CompleteInv /\ FreshInv
  BY <1>1, <1>3 DEF CompleteInv, FreshInv
<1>9. PhaseInv
  BY <1>1, <1>2, <1>3, PublishedValues DEF PhaseInv, Boundary
<1>10. ConvertInv
  BY <1>1, <1>3 DEF ConvertInv
<1>11. CursorInv /\ OverviewInv
  BY <1>1 DEF CursorInv, OverviewInv
<1> QED
  BY <1>4, <1>5, <1>6, <1>7, <1>8, <1>9, <1>10, <1>11 DEF UpgradeInv

-----------------------------------------------------------------------------
\* Only where Initialize is changes, and what is so at that point is so.
LEMMA PointMoves ==
    ASSUME UpgradeInv,
           UNCHANGED <<identity, phase, schemaComplete, dataComplete, backup, fixed, cursors,
                       stored, inbox, kept, price, old, refused>>,
           point' \in Points, shell' \in {"none", "opening", "migrating", "failed", "ready"},
           PointInv'
    PROVE  UpgradeInv'
<1>1. UNCHANGED <<tables, applied, hot, archive, facts, cost, checkpoint, rollup>>
  BY DEF stored
<1>2. StartupTypeOK'
  BY <1>1 DEF UpgradeInv, StartupTypeOK, Numbered
<1>3. EventsInv' /\ InboxInv' /\ IdentityInv'
  BY <1>1 DEF UpgradeInv, EventsInv, InboxInv, IdentityInv, Numbered, Events
<1>4. CompleteInv' /\ FreshInv' /\ PhaseInv'
  BY <1>1 DEF UpgradeInv, CompleteInv, FreshInv, PhaseInv, Numbered, Events
<1>5. ConvertInv'
  BY <1>1 DEF UpgradeInv, ConvertInv
<1>6. CursorInv' /\ OverviewInv'
  BY <1>1 DEF UpgradeInv, CursorInv, OverviewInv, OverviewBound
<1> QED
  BY <1>2, <1>3, <1>4, <1>5, <1>6 DEF UpgradeInv

\* Going to a point at which nothing is asked.
LEMMA RestartMoves ==
    ASSUME UpgradeInv, StartupNext,
           \/ Listen \/ StatementFails \/ Stop \/ MoveBackup \/ Activate
    PROVE  UpgradeInv'
<1>1. /\ UNCHANGED <<identity, phase, schemaComplete, dataComplete, backup, fixed, cursors,
                     stored, inbox, kept, price, old, refused>>
      /\ point' \in {"down", "identity", "failed", "ready"} \/ point' = point
      /\ shell' \in {"none", "opening", "failed", "ready"} \/ shell' = shell
      /\ shell' = "ready" => point' = "ready"
      /\ point' = "ready" => dataComplete
  <2>1. CASE Listen
    BY <2>1 DEF Listen, control, ingest
  <2>2. CASE StatementFails
    BY <2>2 DEF StatementFails, control, ingest
  <2>3. CASE Stop
    BY <2>3 DEF Stop, control
  <2>4. CASE MoveBackup
    BY <2>4 DEF MoveBackup, ingest, UpgradeInv, PointInv
  <2>5. CASE Activate
    BY <2>5 DEF Activate, control, UpgradeInv, PointInv
  <2> QED
    BY <2>1, <2>2, <2>3, <2>4, <2>5
<1>2. point \in Points /\ shell \in {"none", "opening", "migrating", "failed", "ready"}
  BY DEF UpgradeInv, StartupTypeOK
<1>3. point' \in Points /\ shell' \in {"none", "opening", "migrating", "failed", "ready"}
  BY <1>1, <1>2 DEF Points
<1>4. UNCHANGED <<applied, hot, checkpoint>>
  BY <1>1 DEF stored
<1>5. PointInv'
  <2>1. CASE point' \in {"down", "identity", "failed", "ready"}
    BY <1>1, <2>1 DEF PointInv, UpgradePoints, UpgradeInv, IdentityInv, CompleteInv
  <2>2. CASE point' = point
    BY <1>1, <1>4, <2>2 DEF PointInv, UpgradeInv, OverviewBound
  <2> QED
    BY <1>1, <2>1, <2>2
<1> QED
  BY <1>1, <1>3, <1>5, PointMoves

LEMMA IngestMoves ==
    ASSUME UpgradeInv, StartIngest
    PROVE  UpgradeInv'
<1>1. /\ UNCHANGED <<identity, phase, schemaComplete, dataComplete, backup, fixed, cursors,
                     stored, inbox, kept, price, old, refused>>
      /\ point = "inbox" /\ shell' = "migrating"
      /\ point' = CASE identity = "fresh" -> "fresh"
                    [] identity = "legacy" /\ ~dataComplete -> "protect"
                    [] OTHER -> "check"
  BY DEF StartIngest, control
<1>2. identity \in {"fresh", "legacy"}
  BY <1>1 DEF UpgradeInv, StartupTypeOK, PointInv
<1>3. \/ point' = "fresh" /\ identity = "fresh"
      \/ point' = "protect" /\ identity = "legacy" /\ ~dataComplete
      \/ point' = "check" /\ identity = "legacy" /\ dataComplete
  BY <1>1, <1>2
<1>4. point' \in Points /\ shell' \in {"none", "opening", "migrating", "failed", "ready"}
  BY <1>1, <1>3 DEF Points, UpgradePoints
<1>5. PointInv'
  BY <1>1, <1>3 DEF PointInv, UpgradePoints
<1> QED
  BY <1>1, <1>4, <1>5, PointMoves

\* Goto of an action that changes nothing else.
LEMMA GotoMoves ==
    ASSUME UpgradeInv, NEW next \in Points, Goto(next),
           UNCHANGED <<identity, phase, schemaComplete, dataComplete, backup, fixed, cursors,
                       stored, ingest, price>>,
           next # "ready", identity # "none", point \notin {"down", "ready"},
           next \in {"fresh", "freshDone"} => identity = "fresh",
           next \in UpgradePoints => identity = "legacy" /\ ~dataComplete,
           next \in {"check", "remaining", "activate"} => dataComplete,
           next = "published" => phase = "protected", next # "replay",
           next = "fix" => phase \in {"protected"} \cup Fixed /\ AllPublished \subseteq applied,
           next \in {"structure", "mark"} => phase \in Fixed,
           next = "events" => phase \in Fixed \ {"baseline_fixed"} /\ schemaComplete,
           next = "begin" => phase \in Backfilled /\ schemaComplete,
           next \in {"overview", "complete"} => phase = "overview_rebuilding" /\ schemaComplete,
           next = "complete" => /\ cursors.overview.hot = OverviewBound("hot")
                                /\ cursors.overview.archive = OverviewBound("archive")
    PROVE  UpgradeInv'
<1>1. point' = next /\ UNCHANGED <<shell, old, refused>>
  BY DEF Goto
<1>2. UNCHANGED <<inbox, kept>> /\ UNCHANGED <<applied, hot, checkpoint>>
  BY DEF ingest, stored
<1>3. shell # "ready"
  BY DEF UpgradeInv, PointInv
<1>4. shell \in {"none", "opening", "migrating", "failed", "ready"}
  BY DEF UpgradeInv, StartupTypeOK
<1>5. PointInv'
  BY <1>1, <1>2, <1>3 DEF PointInv, OverviewBound
<1> QED
  BY <1>1, <1>2, <1>4, <1>5, PointMoves

LEMMA Pointed ==
    ASSUME UpgradeInv
    PROVE  /\ point \in UpgradePoints => /\ identity = "legacy" /\ ~dataComplete /\ old
                                         /\ phase \in UpgradePhases \ {"none"}
           /\ IsFiniteSet(hot) /\ IsFiniteSet(archive)
           /\ hot \in SUBSET Nat /\ archive \in SUBSET Nat
           /\ MaxOf(hot) \in Nat /\ MaxOf(archive) \in Nat /\ checkpoint \in Nat
           /\ \A i \in hot : i <= MaxOf(hot) /\ i > 0
           /\ \A i \in archive : i <= MaxOf(archive) /\ i > 0
<1>1. point \in UpgradePoints => /\ identity = "legacy" /\ ~dataComplete /\ old
                                 /\ phase \in UpgradePhases \ {"none"}
  BY DEF UpgradeInv, StartupTypeOK, PointInv, IdentityInv, CompleteInv
<1>2. /\ hot \in SUBSET Numbered /\ archive \in SUBSET Numbered /\ IsFiniteSet(Numbered)
      /\ Numbered \subseteq Nat \ {0} /\ checkpoint \in Nat
  BY DEF UpgradeInv, StartupTypeOK, EventsInv
<1>3. IsFiniteSet(hot) /\ IsFiniteSet(archive)
  BY <1>2, FS_Subset
<1>4. hot \in SUBSET Nat /\ archive \in SUBSET Nat
  BY <1>2
<1>5. /\ MaxOf(hot) \in Nat /\ MaxOf(archive) \in Nat
      /\ \A i \in hot : i <= MaxOf(hot)
      /\ \A i \in archive : i <= MaxOf(archive)
  BY <1>3, <1>4, MaxOfFacts
<1>6. \A i \in Numbered : i > 0
  BY <1>2
<1> QED
  BY <1>1, <1>2, <1>3, <1>4, <1>5, <1>6

LEMMA BootstrapStep ==
    ASSUME UpgradeInv, BootstrapPricingInitialization
    PROVE  UpgradeInv'
<1>1. /\ point = "identity" /\ tables' = TRUE /\ Goto("inbox")
      /\ UNCHANGED <<schemaComplete, dataComplete, backup, fixed, cursors,
                     applied, hot, archive, facts, cost, checkpoint, rollup, inbox, kept, price>>
      /\ IF identity = "none"
           THEN identity' = (IF tables THEN "legacy" ELSE "fresh") /\ phase' = "opening"
           ELSE UNCHANGED <<identity, phase>>
  BY DEF BootstrapPricingInitialization, ingest
<1>2. point' = "inbox" /\ UNCHANGED <<shell, old, refused>>
  BY <1>1 DEF Goto
<1>3. /\ identity' \in {"legacy", "fresh"}
      /\ identity' = "legacy" => old
      /\ identity' = "fresh" => ~old
      /\ \/ phase' = phase /\ phase # "none"
         \/ phase = "none" /\ phase' = "opening"
  BY <1>1 DEF UpgradeInv, IdentityInv, StartupTypeOK
<1>4. StartupTypeOK'
  <2>1. phase' \in UpgradePhases \cup {"data_complete"} /\ point' \in Points
    BY <1>2, <1>3 DEF UpgradeInv, StartupTypeOK, UpgradePhases, Points
  <2> QED
    BY <1>1, <1>2, <1>3, <2>1 DEF UpgradeInv, StartupTypeOK, Numbered
<1>5. EventsInv' /\ InboxInv'
  BY <1>1 DEF UpgradeInv, EventsInv, InboxInv, Numbered, Events
<1>6. IdentityInv'
  BY <1>2, <1>3 DEF UpgradeInv, IdentityInv
<1>7. PointInv'
  BY <1>1, <1>2, <1>3 DEF UpgradeInv, PointInv, UpgradePoints
<1>8. CompleteInv' /\ FreshInv'
  BY <1>1, <1>2, <1>3 DEF UpgradeInv, CompleteInv, FreshInv, Events
<1>9. PhaseInv'
  BY <1>1, <1>2, <1>3 DEF UpgradeInv, PhaseInv, Numbered
<1>10. ConvertInv'
  BY <1>1, <1>2 DEF UpgradeInv, ConvertInv
<1>11. CursorInv' /\ OverviewInv'
  <2>1. phase' \in Backfilled => phase' = phase
    BY <1>3 DEF Backfilled
  <2>2. old /\ ~dataComplete /\ phase = "none" => fixed = None
    BY DEF UpgradeInv, PhaseInv
  <2>3. CursorInv'
    BY <1>1, <1>2, <1>3, <2>1, <2>2 DEF UpgradeInv, CursorInv
  <2>4. OverviewInv'
    BY <1>1, <1>2, <1>3, <2>1 DEF UpgradeInv, OverviewInv, OverviewBound, Backfilled
  <2> QED
    BY <2>3, <2>4
<1> QED
  BY <1>4, <1>5, <1>6, <1>7, <1>8, <1>9, <1>10, <1>11 DEF UpgradeInv

LEMMA FreshSteps ==
    ASSUME UpgradeInv, CreateSchema \/ FreshComplete
    PROVE  UpgradeInv'
<1>1. identity = "fresh" /\ ~old /\ point \in {"fresh", "freshDone"}
  BY DEF UpgradeInv, PointInv, IdentityInv, CreateSchema, FreshComplete
<1>2. CASE CreateSchema /\ schemaComplete /\ dataComplete
  <2>1. /\ Goto("check")
        /\ UNCHANGED <<identity, phase, schemaComplete, dataComplete, backup, fixed, cursors,
                       stored, ingest, price>>
    BY <1>2 DEF CreateSchema, control, stored
  <2> QED
    BY <1>1, <1>2, <2>1, GotoMoves DEF Points, UpgradePoints
<1>3. CASE CreateSchema /\ ~(schemaComplete /\ dataComplete)
  <2>1. /\ point' = "freshDone" /\ applied' = Versions
        /\ UNCHANGED <<identity, phase, schemaComplete, dataComplete, backup, fixed, cursors, tables,
                       hot, archive, facts, cost, checkpoint, rollup, inbox, kept, price,
                       shell, old, refused>>
    BY <1>3 DEF CreateSchema, control, ingest, Goto
  <2>2. StartupTypeOK'
    BY <2>1 DEF UpgradeInv, StartupTypeOK, Numbered, Points
  <2>3. EventsInv' /\ InboxInv' /\ IdentityInv'
    BY <2>1 DEF UpgradeInv, EventsInv, InboxInv, IdentityInv, Numbered, Events
  <2>4. PointInv'
    BY <1>1, <2>1 DEF UpgradeInv, PointInv, UpgradePoints
  <2>5. CompleteInv' /\ FreshInv'
    BY <2>1 DEF UpgradeInv, CompleteInv, FreshInv, Events
  <2>6. PhaseInv' /\ ConvertInv' /\ CursorInv' /\ OverviewInv'
    BY <1>1, <2>1 DEF PhaseInv, ConvertInv, CursorInv, OverviewInv
  <2> QED
    BY <2>2, <2>3, <2>4, <2>5, <2>6 DEF UpgradeInv
<1>4. CASE FreshComplete
  <2>1. /\ point' = "check" /\ phase' = "data_complete"
        /\ schemaComplete' = TRUE /\ dataComplete' = TRUE
        /\ UNCHANGED <<identity, backup, fixed, cursors, tables, applied,
                       hot, archive, facts, cost, checkpoint, rollup, inbox, kept, price,
                       shell, old, refused>>
    BY <1>4 DEF FreshComplete, stored, ingest, Goto
  <2>2. StartupTypeOK'
    BY <2>1 DEF UpgradeInv, StartupTypeOK, Numbered, Points
  <2>3. EventsInv' /\ InboxInv' /\ IdentityInv'
    BY <1>1, <2>1 DEF UpgradeInv, EventsInv, InboxInv, IdentityInv, Numbered, Events
  <2>4. PointInv'
    BY <1>1, <2>1 DEF UpgradeInv, PointInv, UpgradePoints
  <2>5. CompleteInv'
    <3>1. CASE dataComplete
      BY <2>1, <3>1 DEF UpgradeInv, CompleteInv, Events
    <3>2. CASE ~dataComplete
      <4>1. Events = {} /\ \A i \in DOMAIN rollup : rollup[i] = 0
        BY <1>1, <3>2 DEF UpgradeInv, FreshInv
      <4>2. Events' = {} /\ hot' = {}
        BY <2>1, <4>1 DEF Events
      <4> QED
        BY <2>1, <4>1, <4>2 DEF CompleteInv
    <3> QED
      BY <3>1, <3>2
  <2>6. FreshInv' /\ PhaseInv' /\ ConvertInv' /\ CursorInv' /\ OverviewInv'
    BY <2>1 DEF FreshInv, PhaseInv, ConvertInv, CursorInv, OverviewInv
  <2> QED
    BY <2>2, <2>3, <2>4, <2>5, <2>6 DEF UpgradeInv
<1> QED
  BY <1>2, <1>3, <1>4

LEMMA ProtectStep ==
    ASSUME UpgradeInv, Protect
    PROVE  UpgradeInv'
<1>1. /\ point = "protect" /\ point \in UpgradePoints
      /\ Goto(IF fixed = None THEN "published" ELSE "fix")
      /\ UNCHANGED <<identity, schemaComplete, dataComplete, fixed, cursors, stored, ingest, price>>
      /\ IF backup = None
           THEN /\ backup' = [applied |-> applied, hot |-> hot, archive |-> archive,
                              facts |-> facts, checkpoint |-> checkpoint]
                /\ phase' = "protected"
           ELSE UNCHANGED <<backup, phase>>
  BY DEF Protect, UpgradePoints
<1>2. /\ identity = "legacy" /\ ~dataComplete /\ old /\ phase \in UpgradePhases \ {"none"}
  BY <1>1, Pointed
<1>3. /\ backup = None <=> phase = "opening"
      /\ fixed = None <=> phase \in {"opening", "protected"}
      /\ fixed # None => AllPublished \subseteq applied
      /\ Numbered = Ids
  BY <1>2 DEF UpgradeInv, PhaseInv
<1>4. CASE backup # None
  <2>1. CASE fixed = None
    BY <1>1, <1>2, <1>3, <1>4, <2>1, GotoMoves DEF Points, UpgradePoints
  <2>2. CASE fixed # None
    <3>1. phase \in Fixed
      BY <1>2, <1>3, <2>2 DEF UpgradePhases, Fixed, Backfilled
    <3>2. Goto("fix")
      BY <1>1, <2>2
    <3> QED
      BY <1>1, <1>2, <1>3, <1>4, <3>1, <3>2, GotoMoves DEF Points, UpgradePoints
  <2> QED
    BY <2>1, <2>2
<1>5. CASE backup = None
  <2>1. /\ phase = "opening" /\ fixed = None /\ point' = "published" /\ phase' = "protected"
        /\ backup' = [applied |-> applied, hot |-> hot, archive |-> archive,
                      facts |-> facts, checkpoint |-> checkpoint]
        /\ UNCHANGED <<identity, schemaComplete, dataComplete, fixed, cursors, tables, applied,
                       hot, archive, facts, cost, checkpoint, rollup, inbox, kept, price,
                       shell, old, refused>>
    BY <1>1, <1>2, <1>3, <1>5 DEF stored, ingest, Goto
  <2>2. StartupTypeOK'
    BY <2>1 DEF UpgradeInv, StartupTypeOK, Numbered, Points, UpgradePoints, UpgradePhases
  <2>3. EventsInv' /\ InboxInv' /\ IdentityInv'
    BY <1>2, <2>1 DEF UpgradeInv, EventsInv, InboxInv, IdentityInv, Numbered, Events
  <2>4. PointInv'
    BY <1>1, <1>2, <2>1 DEF UpgradeInv, PointInv, UpgradePoints
  <2>5. CompleteInv' /\ FreshInv'
    BY <1>2, <2>1 DEF UpgradeInv, CompleteInv, FreshInv
  <2>6. PhaseInv'
    <3>1. backup' # None
      BY <2>1, NotNone
    <3>2. Numbered' = Numbered
      BY <2>1 DEF Numbered
    <3> QED
      BY <1>2, <1>3, <2>1, <3>1, <3>2 DEF UpgradeInv, PhaseInv
  <2>7. ConvertInv'
    <3>1. /\ applied \in SUBSET Versions /\ hot \in SUBSET Nat /\ archive \in SUBSET Nat
          /\ facts \in [Ids -> Nat] /\ checkpoint \in Nat
      BY <1>3, Pointed DEF UpgradeInv, StartupTypeOK
    <3>2. /\ backup' \in Backups /\ backup'.hot = hot /\ backup'.archive = archive
          /\ backup'.applied = applied /\ backup'.facts = facts /\ backup'.checkpoint = checkpoint
      BY <2>1, <3>1 DEF Backups
    <3>3. \A i \in Ids : facts[i] = facts[i] + 0
      BY <3>1
    <3>4. "convert" \notin applied \ applied
      OBVIOUS
    <3> QED
      BY <1>2, <2>1, <3>2, <3>3, <3>4 DEF UpgradeInv, ConvertInv
  <2>8. CursorInv' /\ OverviewInv'
    BY <2>1 DEF CursorInv, OverviewInv
  <2> QED
    BY <2>2, <2>3, <2>4, <2>5, <2>6, <2>7, <2>8 DEF UpgradeInv
<1> QED
  BY <1>4, <1>5

\* A published migration other than the replay: the counts are converted once.
LEMMA PublishedStep ==
    ASSUME UpgradeInv, RunPublished
    PROVE  UpgradeInv'
<1> DEFINE step == Published[NextPublished]
<1>1. /\ point = "published" /\ point \in UpgradePoints
      /\ NextPublished <= Len(Published) /\ step # "replay"
      /\ applied' = applied \cup {step}
      /\ facts' = IF step = "convert"
                    THEN [i \in DOMAIN facts |-> IF i \in hot THEN facts[i] + 1 ELSE facts[i]]
                    ELSE facts
      /\ UNCHANGED <<identity, phase, schemaComplete, dataComplete, backup, fixed, cursors, tables,
                     hot, archive, cost, checkpoint, rollup, inbox, kept, price, point,
                     shell, old, refused>>
  BY DEF RunPublished, UpgradePoints, control, ingest
<1>2. /\ identity = "legacy" /\ ~dataComplete /\ old /\ phase = "protected" /\ backup # None
      /\ fixed = None /\ Numbered = Ids
      /\ "source" \in applied => "convert" \in applied
      /\ "replay" \in applied => "source" \in applied
      /\ "reset" \in applied => "replay" \in applied
  BY <1>1, Pointed DEF UpgradeInv, PointInv, PhaseInv, ConvertInv
<1>3. \/ step = "convert" /\ "convert" \notin applied /\ "source" \notin applied
      \/ step = "source" /\ "convert" \in applied /\ "source" \notin applied
      \/ step = "reset" /\ "replay" \in applied
  <2>1. NextPublished \in 1..5 /\ NextPublished # 5 /\ NextPublished # 3
    BY <1>1, <1>2, NextIs, PublishedValues
  <2>2. NextPublished = 1 \/ NextPublished = 2 \/ NextPublished = 4
    BY <2>1
  <2> QED
    BY <1>2, <2>2, NextIs, PublishedValues
<1>4. step \in AllPublished
  BY <1>3, PublishedValues
<1> HIDE DEF step
<1>5. facts \in [Ids -> Nat] /\ hot \in SUBSET Ids
  BY <1>2 DEF UpgradeInv, StartupTypeOK
<1>6. /\ facts' \in [Ids -> Nat]
      /\ \A i \in Ids : facts'[i] = facts[i] + IF step = "convert" /\ i \in hot THEN 1 ELSE 0
  <2>1. CASE step = "convert"
    BY <1>1, <1>5, <2>1
  <2>2. CASE step # "convert"
    <3>1. facts' = facts
      BY <1>1, <2>2
    <3> QED
      BY <1>5, <2>2, <3>1
  <2> QED
    BY <2>1, <2>2
<1>7. Numbered' = Numbered
  BY <1>1 DEF Numbered
<1>8. StartupTypeOK'
  <2>1. applied' \in SUBSET Versions
    BY <1>1, <1>4, PublishedValues DEF UpgradeInv, StartupTypeOK
  <2> QED
    BY <1>1, <1>2, <1>6, <1>7, <2>1 DEF UpgradeInv, StartupTypeOK
<1>9. EventsInv' /\ InboxInv' /\ IdentityInv'
  BY <1>1, <1>7 DEF UpgradeInv, EventsInv, InboxInv, IdentityInv, Events
<1>10. PointInv'
  BY <1>1 DEF UpgradeInv, PointInv, UpgradePoints
<1>11. CompleteInv' /\ FreshInv'
  BY <1>1, <1>2 DEF UpgradeInv, CompleteInv, FreshInv
<1>12. PhaseInv'
  <2>1. Boundary \notin applied'
    <3>1. Boundary \notin applied
      BY <1>2 DEF UpgradeInv, PhaseInv
    <3> QED
      BY <1>1, <1>4, <3>1, PublishedValues DEF Boundary
  <2> QED
    BY <1>1, <1>2, <1>7, <2>1 DEF UpgradeInv, PhaseInv
<1>13. ConvertInv'
  <2>1. /\ "convert" \in applied' <=> "convert" \in applied \/ step = "convert"
        /\ "source" \in applied' <=> "source" \in applied \/ step = "source"
        /\ "replay" \in applied' <=> "replay" \in applied
        /\ "reset" \in applied' <=> "reset" \in applied \/ step = "reset"
    BY <1>1, <1>3
  <2>2. /\ "source" \in applied' => "convert" \in applied'
        /\ "replay" \in applied' => "source" \in applied'
        /\ "reset" \in applied' => "replay" \in applied'
    BY <1>2, <1>3, <2>1
  <2>3. ASSUME NEW i \in hot PROVE facts'[i] = IF "convert" \in applied' THEN 1 ELSE 0
    <3>1. facts[i] = IF "convert" \in applied THEN 1 ELSE 0
      BY <1>2 DEF UpgradeInv, ConvertInv
    <3>2. facts'[i] = facts[i] + IF step = "convert" THEN 1 ELSE 0
      BY <1>5, <1>6
    <3>3. CASE step = "convert"
      BY <1>3, <2>1, <3>1, <3>2, <3>3
    <3>4. CASE step # "convert"
      BY <2>1, <3>1, <3>2, <3>4
    <3> QED
      BY <3>3, <3>4
  <2>4. /\ backup \in Backups
        /\ backup.hot = hot /\ backup.archive = archive /\ backup.applied \subseteq applied
        /\ \A i \in Ids :
              facts[i] = backup.facts[i]
                + IF "convert" \in applied \ backup.applied /\ i \in hot THEN 1 ELSE 0
        /\ IF "replay" \in backup.applied THEN checkpoint = backup.checkpoint
           ELSE "replay" \in applied => checkpoint = MaxOf(hot)
    BY <1>2 DEF UpgradeInv, ConvertInv
  <2>5. ASSUME NEW i \in Ids
        PROVE  facts'[i] = backup.facts[i]
                 + IF "convert" \in applied' \ backup.applied /\ i \in hot THEN 1 ELSE 0
    <3>1. backup.facts[i] \in Nat /\ facts[i] \in Nat
      BY <1>5, <2>4 DEF Backups
    <3>2. facts'[i] = facts[i] + IF step = "convert" /\ i \in hot THEN 1 ELSE 0
      BY <1>6
    <3>3. facts[i] = backup.facts[i]
            + IF "convert" \in applied \ backup.applied /\ i \in hot THEN 1 ELSE 0
      BY <2>4
    <3>4. CASE step = "convert"
      <4>1. "convert" \notin applied /\ "convert" \notin backup.applied /\ "convert" \in applied'
        BY <1>3, <2>1, <2>4, <3>4
      <4>2. facts[i] = backup.facts[i]
        BY <3>1, <3>3, <4>1
      <4> QED
        BY <3>1, <3>2, <3>4, <4>1, <4>2
    <3>5. CASE step # "convert"
      <4>1. "convert" \in applied' \ backup.applied <=> "convert" \in applied \ backup.applied
        BY <2>1, <3>5
      <4>2. facts'[i] = facts[i]
        BY <3>1, <3>2, <3>5
      <4> QED
        BY <3>3, <4>1, <4>2
    <3> QED
      BY <3>4, <3>5
  <2>6. backup.applied \subseteq applied'
    BY <1>1, <2>4
  <2>7. "replay" \notin applied => archive = {}
    BY <1>2 DEF UpgradeInv, ConvertInv
  <2> QED
    BY <1>1, <2>1, <2>2, <2>3, <2>4, <2>5, <2>6, <2>7 DEF ConvertInv
<1>14. CursorInv' /\ OverviewInv'
  BY <1>1, <1>2 DEF CursorInv, OverviewInv
<1> QED
  BY <1>8, <1>9, <1>10, <1>11, <1>12, <1>13, <1>14 DEF UpgradeInv

LEMMA PrepareStep ==
    ASSUME UpgradeInv, PrepareReplay
    PROVE  UpgradeInv'
<1>1. /\ point = "published" /\ point \in UpgradePoints /\ point' = "replay"
      /\ NextPublished <= Len(Published) /\ Published[NextPublished] = "replay"
      /\ checkpoint' = 0 /\ rollup' = [i \in DOMAIN rollup |-> 0]
      /\ UNCHANGED <<identity, phase, schemaComplete, dataComplete, backup, fixed, cursors, tables,
                     applied, hot, archive, facts, cost, inbox, kept, price, shell, old, refused>>
  BY DEF PrepareReplay, UpgradePoints, control, ingest, Goto
<1>2. /\ identity = "legacy" /\ ~dataComplete /\ old /\ phase = "protected" /\ backup # None
      /\ fixed = None
      /\ "source" \in applied => "convert" \in applied
      /\ "replay" \in applied => "source" \in applied
      /\ "reset" \in applied => "replay" \in applied
  BY <1>1, Pointed DEF UpgradeInv, PointInv, PhaseInv, ConvertInv
<1>3. "source" \in applied /\ "replay" \notin applied
  <2>1. NextPublished \in 1..5 /\ NextPublished # 5
    BY <1>1, <1>2, NextIs
  <2>2. NextPublished = 1 \/ NextPublished = 2 \/ NextPublished = 3 \/ NextPublished = 4
    BY <2>1
  <2>3. NextPublished = 3
    BY <1>1, <2>2, PublishedValues
  <2> QED
    BY <1>2, <2>3, NextIs
<1>4. archive = {}
  BY <1>2, <1>3 DEF UpgradeInv, ConvertInv
<1>5. Numbered' = Numbered
  BY <1>1 DEF Numbered
<1>6. StartupTypeOK'
  <2>1. rollup' \in [Numbered \cup {Ghost} -> Nat]
    BY <1>1 DEF UpgradeInv, StartupTypeOK
  <2> QED
    BY <1>1, <1>5, <2>1 DEF UpgradeInv, StartupTypeOK, Points, UpgradePoints
<1>7. EventsInv'
  BY <1>1, <1>4, <1>5 DEF UpgradeInv, EventsInv
<1>8. InboxInv' /\ IdentityInv'
  BY <1>1, <1>2 DEF UpgradeInv, InboxInv, IdentityInv, Events
<1>9. PointInv'
  <2>1. 0 <= MaxOf(hot)
    BY Pointed
  <2> QED
    BY <1>1, <1>2, <1>3, <2>1 DEF UpgradeInv, PointInv, UpgradePoints
<1>10. CompleteInv' /\ FreshInv' /\ PhaseInv'
  BY <1>1, <1>2, <1>5 DEF UpgradeInv, CompleteInv, FreshInv, PhaseInv
<1>11. ConvertInv'
  <2>1. "replay" \notin backup.applied
    BY <1>2, <1>3 DEF UpgradeInv, ConvertInv
  <2> QED
    BY <1>1, <1>2, <1>3, <2>1 DEF UpgradeInv, ConvertInv
<1>12. CursorInv' /\ OverviewInv'
  BY <1>1, <1>2 DEF CursorInv, OverviewInv
<1> QED
  BY <1>6, <1>7, <1>8, <1>9, <1>10, <1>11, <1>12 DEF UpgradeInv

LEMMA ReplayStep ==
    ASSUME UpgradeInv, ReplayBatch
    PROVE  UpgradeInv'
<1> DEFINE page == Page(hot, checkpoint, MaxOf(hot))
<1>1. /\ point = "replay" /\ point \in UpgradePoints /\ page # {}
      /\ checkpoint' = MaxOf(page)
      /\ rollup' = [i \in DOMAIN rollup |-> rollup[i] + IF i \in page THEN 1 ELSE 0]
      /\ UNCHANGED <<identity, phase, schemaComplete, dataComplete, backup, fixed, cursors, tables,
                     applied, hot, archive, facts, cost, inbox, kept, price, point, shell, old, refused>>
  BY DEF ReplayBatch, UpgradePoints, control, ingest
<1>2. /\ identity = "legacy" /\ ~dataComplete /\ old /\ phase = "protected" /\ backup # None
      /\ fixed = None /\ "source" \in applied /\ "replay" \notin applied
  BY <1>1, Pointed DEF UpgradeInv, PointInv, PhaseInv
<1>3. MaxOf(page) \in hot /\ MaxOf(page) <= MaxOf(hot)
  BY <1>1, Pointed, PageFacts
<1> HIDE DEF page
<1>4. archive = {}
  BY <1>2 DEF UpgradeInv, ConvertInv
<1>5. Numbered' = Numbered
  BY <1>1 DEF Numbered
<1>6. hot \subseteq Numbered /\ Numbered \subseteq Nat
  BY DEF UpgradeInv, StartupTypeOK, EventsInv
<1>7. StartupTypeOK'
  <2>1. rollup' \in [Numbered \cup {Ghost} -> Nat]
    BY <1>1 DEF UpgradeInv, StartupTypeOK
  <2>2. checkpoint' \in Nat
    BY <1>1, <1>3, <1>6
  <2> QED
    BY <1>1, <1>5, <2>1, <2>2 DEF UpgradeInv, StartupTypeOK
<1>8. EventsInv'
  BY <1>1, <1>3, <1>4, <1>5, <1>6 DEF UpgradeInv, EventsInv
<1>9. InboxInv' /\ IdentityInv'
  BY <1>1, <1>2 DEF UpgradeInv, InboxInv, IdentityInv, Events
<1>10. PointInv'
  BY <1>1, <1>2, <1>3 DEF UpgradeInv, PointInv, UpgradePoints
<1>11. CompleteInv' /\ FreshInv' /\ PhaseInv'
  BY <1>1, <1>2, <1>5 DEF UpgradeInv, CompleteInv, FreshInv, PhaseInv
<1>12. ConvertInv'
  <2>1. "replay" \notin backup.applied
    BY <1>2 DEF UpgradeInv, ConvertInv
  <2> QED
    BY <1>1, <1>2, <2>1 DEF UpgradeInv, ConvertInv
<1>13. CursorInv' /\ OverviewInv'
  BY <1>1, <1>2 DEF CursorInv, OverviewInv
<1> QED
  BY <1>7, <1>8, <1>9, <1>10, <1>11, <1>12, <1>13 DEF UpgradeInv

LEMMA RecordStep ==
    ASSUME UpgradeInv, RecordReplay
    PROVE  UpgradeInv'
<1>1. /\ point = "replay" /\ point \in UpgradePoints /\ Page(hot, checkpoint, MaxOf(hot)) = {}
  BY DEF RecordReplay, UpgradePoints
<1>2. /\ identity = "legacy" /\ ~dataComplete /\ old /\ phase = "protected" /\ backup # None
      /\ fixed = None /\ "source" \in applied /\ "replay" \notin applied
      /\ checkpoint <= MaxOf(hot) /\ Boundary \notin applied
  BY <1>1, Pointed DEF UpgradeInv, PointInv, PhaseInv
<1>3. ~(checkpoint < MaxOf(hot))
  <2>1. ASSUME checkpoint < MaxOf(hot) PROVE FALSE
    <3>1. MaxOf(hot) \in hot
      <4>1. hot # {}
        BY <2>1, Pointed, MaxOfFacts
      <4> QED
        BY <4>1, Pointed, MaxOfFacts
    <3>2. \E i \in hot : checkpoint < i /\ i <= MaxOf(hot)
      BY <2>1, <3>1, Pointed
    <3> QED
      BY <1>1, <3>2, Pointed, PageFacts
  <2> QED
    BY <2>1
<1>4. checkpoint = MaxOf(hot)
  BY <1>2, <1>3, Pointed
<1>5. /\ applied' = applied \cup {"replay"} /\ point' = "published"
      /\ UNCHANGED <<identity, phase, schemaComplete, dataComplete, backup, fixed, cursors, tables,
                     hot, archive, facts, cost, checkpoint, rollup, inbox, kept, price,
                     shell, old, refused>>
  BY <1>3 DEF RecordReplay, control, ingest, Goto
<1>6. Numbered' = Numbered
  BY <1>5 DEF Numbered
<1>7. StartupTypeOK'
  <2>1. applied' \in SUBSET Versions
    BY <1>5, PublishedValues DEF UpgradeInv, StartupTypeOK
  <2> QED
    BY <1>5, <1>6, <2>1 DEF UpgradeInv, StartupTypeOK, Points, UpgradePoints
<1>8. EventsInv' /\ InboxInv' /\ IdentityInv'
  BY <1>5, <1>6 DEF UpgradeInv, EventsInv, InboxInv, IdentityInv, Events
<1>9. PointInv'
  BY <1>1, <1>2, <1>5 DEF UpgradeInv, PointInv, UpgradePoints
<1>10. CompleteInv' /\ FreshInv'
  BY <1>2, <1>5 DEF UpgradeInv, CompleteInv, FreshInv
<1>11. PhaseInv'
  <2>1. Boundary \notin applied'
    BY <1>2, <1>5 DEF Boundary
  <2> QED
    BY <1>2, <1>5, <1>6, <2>1 DEF UpgradeInv, PhaseInv
<1>12. ConvertInv'
  <2>1. /\ "convert" \in applied' <=> "convert" \in applied
        /\ "source" \in applied' /\ "convert" \in applied
    BY <1>2, <1>5 DEF UpgradeInv, ConvertInv
  <2>2. "convert" \in applied' \ backup.applied <=> "convert" \in applied \ backup.applied
    BY <2>1
  <2>3. /\ backup \in Backups
        /\ backup.hot = hot /\ backup.archive = archive /\ backup.applied \subseteq applied
        /\ \A i \in Ids :
              facts[i] = backup.facts[i]
                + IF "convert" \in applied \ backup.applied /\ i \in hot THEN 1 ELSE 0
        /\ "replay" \notin backup.applied
        /\ \A i \in hot : facts[i] = IF "convert" \in applied THEN 1 ELSE 0
    BY <1>2 DEF UpgradeInv, ConvertInv
  <2>4. backup.applied \subseteq applied' /\ "replay" \in applied'
    BY <1>5, <2>3
  <2>5. \A i \in hot : facts[i] = IF "convert" \in applied' THEN 1 ELSE 0
    BY <2>1, <2>3
  <2>6. \A i \in Ids :
              facts[i] = backup.facts[i]
                + IF "convert" \in applied' \ backup.applied /\ i \in hot THEN 1 ELSE 0
    BY <2>2, <2>3, Zenon
  <2> QED
    BY <1>4, <1>5, <2>1, <2>3, <2>4, <2>5, <2>6 DEF ConvertInv
<1>13. CursorInv' /\ OverviewInv'
  BY <1>2, <1>5 DEF CursorInv, OverviewInv
<1> QED
  BY <1>7, <1>8, <1>9, <1>10, <1>11, <1>12, <1>13 DEF UpgradeInv

\* Once all published versions are applied the tables are what the backup
\* says they become.
LEMMA VerifiedOnceApplied ==
    ASSUME UpgradeInv, point \in UpgradePoints, backup # None, AllPublished \subseteq applied
    PROVE  PublishedVerified
<1>1. /\ identity = "legacy" /\ ~dataComplete /\ old
  BY Pointed
<1>2. "convert" \in applied /\ "replay" \in applied
  BY PublishedValues
<1>3. /\ backup \in Backups
      /\ backup.hot = hot /\ backup.archive = archive /\ backup.applied \subseteq applied
      /\ \A i \in Ids :
            facts[i] = backup.facts[i]
              + IF "convert" \in applied \ backup.applied /\ i \in hot THEN 1 ELSE 0
      /\ IF "replay" \in backup.applied THEN checkpoint = backup.checkpoint
         ELSE checkpoint = MaxOf(hot)
  BY <1>1, <1>2 DEF UpgradeInv, ConvertInv
<1>4. Events \subseteq Ids
  BY <1>1 DEF UpgradeInv, StartupTypeOK, PhaseInv, Events
<1>5. "convert" \in applied \ backup.applied <=> "convert" \notin backup.applied
  BY <1>2
<1>6. EventsConverted
  BY <1>3, <1>4, <1>5, Zenon DEF EventsConverted
<1>7. CursorConverted
  BY <1>3, Pointed DEF CursorConverted
<1> QED
  BY <1>6, <1>7 DEF PublishedVerified

LEMMA VerifyStep ==
    ASSUME UpgradeInv, VerifyPublished
    PROVE  UpgradeInv'
<1>1. point = "published" /\ point \in UpgradePoints /\ NextPublished > Len(Published)
  BY DEF VerifyPublished, UpgradePoints
<1>2. /\ identity = "legacy" /\ ~dataComplete /\ old /\ phase = "protected" /\ backup # None
      /\ "source" \in applied => "convert" \in applied
      /\ "replay" \in applied => "source" \in applied
      /\ "reset" \in applied => "replay" \in applied
  BY <1>1, Pointed DEF UpgradeInv, PointInv, PhaseInv, ConvertInv
<1>3. AllPublished \subseteq applied
  <2>1. NextPublished = 5
    BY <1>1, <1>2, NextIs
  <2> QED
    BY <1>2, <2>1, NextIs
<1>4. PublishedVerified
  BY <1>1, <1>2, <1>3, VerifiedOnceApplied
<1>5. /\ Goto("fix")
      /\ UNCHANGED <<identity, phase, schemaComplete, dataComplete, backup, fixed, cursors,
                     stored, ingest, price>>
  BY <1>4 DEF VerifyPublished, control
<1> QED
  BY <1>1, <1>2, <1>3, <1>5, GotoMoves DEF Points, UpgradePoints

LEMMA FixStep ==
    ASSUME UpgradeInv, FixBaseline
    PROVE  UpgradeInv'
<1>1. point = "fix" /\ point \in UpgradePoints
  BY DEF FixBaseline, UpgradePoints
<1>2. /\ identity = "legacy" /\ ~dataComplete /\ old
      /\ phase \in {"protected"} \cup Fixed /\ AllPublished \subseteq applied
      /\ fixed = None <=> phase \in {"none", "opening", "protected"}
      /\ backup = None <=> phase \in {"none", "opening"}
      /\ fixed = None => Boundary \notin applied
      /\ Numbered = Ids /\ price = OldPrice
  BY <1>1, Pointed DEF UpgradeInv, PointInv, PhaseInv
<1>3. CASE fixed # None
  <2>1. phase \in Fixed
    BY <1>2, <1>3
  <2>2. /\ Goto("structure")
        /\ UNCHANGED <<identity, phase, schemaComplete, dataComplete, backup, fixed, cursors,
                       stored, ingest, price>>
    BY <1>3 DEF FixBaseline, control
  <2> QED
    BY <1>1, <1>2, <2>1, <2>2, GotoMoves DEF Points, UpgradePoints
<1>4. CASE fixed = None
  <2>1. /\ fixed' = [cursor |-> checkpoint, hot |-> MaxOf(hot),
                     archive |-> MaxOf(archive), price |-> price]
        /\ cursors' = [hot |-> 0, archive |-> 0, overview |-> None]
        /\ phase' = "baseline_fixed" /\ point' = "structure"
        /\ UNCHANGED <<identity, schemaComplete, dataComplete, backup, tables,
                       applied, hot, archive, facts, cost, checkpoint, rollup, inbox, kept, price,
                       shell, old, refused>>
    BY <1>2, <1>4 DEF FixBaseline, stored, ingest, Goto
  <2>2. phase = "protected"
    BY <1>2, <1>4 DEF Fixed, Backfilled
  <2>3. fixed' # None
    BY <2>1, NotNone
  <2>4. Numbered' = Numbered
    BY <2>1 DEF Numbered
  <2>5. StartupTypeOK'
    BY <2>1, <2>4 DEF UpgradeInv, StartupTypeOK, Points, UpgradePoints, UpgradePhases
  <2>6. EventsInv' /\ InboxInv' /\ IdentityInv'
    BY <1>2, <2>1, <2>4 DEF UpgradeInv, EventsInv, InboxInv, IdentityInv, Events
  <2>7. PointInv'
    BY <1>1, <1>2, <2>1 DEF UpgradeInv, PointInv, UpgradePoints, Fixed
  <2>8. CompleteInv' /\ FreshInv'
    BY <1>2, <2>1 DEF UpgradeInv, CompleteInv, FreshInv
  <2>9. PhaseInv'
    BY <1>2, <2>1, <2>2, <2>3, <2>4 DEF PhaseInv
  <2>10. ConvertInv'
    BY <2>1 DEF UpgradeInv, ConvertInv
  <2>11. CursorInv'
    <3>1. /\ cursors'.hot = 0 /\ cursors'.archive = 0 /\ cursors'.overview = None
          /\ cursors' \in [hot : Nat, archive : Nat,
                           overview : {None} \cup [hot : Nat, archive : Nat]]
      BY <2>1
    <3>2. 0 <= MaxOf(hot) /\ 0 <= MaxOf(archive)
      BY Pointed
    <3>3. (\A i \in hot : ~(i <= 0)) /\ (\A i \in archive : ~(i <= 0))
      BY Pointed
    <3>4. phase' \notin Backfilled
      BY <2>1 DEF Backfilled
    <3> QED
      BY <1>2, <2>1, <3>1, <3>2, <3>3, <3>4 DEF CursorInv
  <2>12. OverviewInv'
    BY <2>1 DEF OverviewInv
  <2> QED
    BY <2>5, <2>6, <2>7, <2>8, <2>9, <2>10, <2>11, <2>12 DEF UpgradeInv
<1> QED
  BY <1>3, <1>4

LEMMA StructureStep ==
    ASSUME UpgradeInv, AddStructure
    PROVE  UpgradeInv'
<1>1. point = "structure" /\ point \in UpgradePoints
  BY DEF AddStructure, UpgradePoints
<1>2. /\ identity = "legacy" /\ ~dataComplete /\ old /\ phase \in Fixed
      /\ fixed # None /\ AllPublished \subseteq applied
      /\ "source" \in applied => "convert" \in applied
      /\ "replay" \in applied => "source" \in applied
      /\ "reset" \in applied => "replay" \in applied
  BY <1>1, Pointed DEF UpgradeInv, PointInv, PhaseInv, ConvertInv, Fixed, Backfilled
<1>3. ~(NextPublished <= Len(Published))
  <2>1. NextPublished = 5 /\ Len(Published) = 4
    BY <1>2, NextIs
  <2> QED
    BY <2>1
<1>4. /\ applied' = applied \cup {Boundary} /\ point' = "mark"
      /\ UNCHANGED <<identity, phase, schemaComplete, dataComplete, backup, fixed, cursors, tables,
                     hot, archive, facts, cost, checkpoint, rollup, inbox, kept, price,
                     shell, old, refused>>
  BY <1>3 DEF AddStructure, control, ingest, Goto
<1>5. Numbered' = Numbered
  BY <1>4 DEF Numbered
<1>6. StartupTypeOK'
  <2>1. applied' \in SUBSET Versions
    BY <1>4, PublishedValues DEF UpgradeInv, StartupTypeOK
  <2> QED
    BY <1>4, <1>5, <2>1 DEF UpgradeInv, StartupTypeOK, Points, UpgradePoints
<1>7. EventsInv' /\ InboxInv' /\ IdentityInv'
  BY <1>4, <1>5 DEF UpgradeInv, EventsInv, InboxInv, IdentityInv, Events
<1>8. PointInv'
  BY <1>1, <1>2, <1>4 DEF UpgradeInv, PointInv, UpgradePoints
<1>9. CompleteInv' /\ FreshInv'
  BY <1>2, <1>4 DEF UpgradeInv, CompleteInv, FreshInv
<1>10. PhaseInv'
  <2>1. AllPublished \subseteq applied'
    BY <1>2, <1>4
  <2> QED
    BY <1>2, <1>4, <1>5, <2>1 DEF UpgradeInv, PhaseInv
<1>11. ConvertInv'
  <2>1. "convert" \in applied' /\ "replay" \in applied' /\ "source" \in applied' /\ "convert" \in applied
    BY <1>2, <1>4, PublishedValues
  <2>2. "replay" \in applied
    BY <1>2, PublishedValues
  <2>3. "convert" \in applied' \ backup.applied <=> "convert" \in applied \ backup.applied
    BY <2>1
  <2>4. applied \subseteq applied'
    BY <1>4
  <2> QED
    BY <1>4, <2>1, <2>2, <2>3, <2>4 DEF UpgradeInv, ConvertInv
<1>12. CursorInv' /\ OverviewInv'
  BY <1>4 DEF UpgradeInv, CursorInv, OverviewInv, OverviewBound
<1> QED
  BY <1>6, <1>7, <1>8, <1>9, <1>10, <1>11, <1>12 DEF UpgradeInv

\* The phase moves on among those of a fixed baseline.
LEMMA PhaseMoves ==
    ASSUME UpgradeInv, point \in UpgradePoints, phase \in Fixed, phase' \in Fixed,
           schemaComplete' \in BOOLEAN,
           UNCHANGED <<identity, dataComplete, backup, fixed, cursors,
                       stored, ingest, price, shell, old, refused>>,
           point' \in UpgradePoints, PointInv',
           phase' = "overview_rebuilding" => phase = "overview_rebuilding",
           phase = "overview_rebuilding" => phase' = "overview_rebuilding",
           phase' \in Backfilled => cursors.hot = MaxOf(hot) /\ cursors.archive = MaxOf(archive)
    PROVE  UpgradeInv'
<1>1. UNCHANGED <<tables, applied, hot, archive, facts, cost, checkpoint, rollup, inbox, kept>>
  BY DEF stored, ingest
<1>2. /\ identity = "legacy" /\ ~dataComplete /\ old
  BY Pointed
<1>3. Numbered' = Numbered
  BY <1>1 DEF Numbered
<1>4. phase \notin {"none", "opening", "protected"} /\ phase' \notin {"none", "opening", "protected"}
  BY DEF Fixed, Backfilled
<1>5. phase' \in UpgradePhases /\ phase' # "data_complete" /\ phase # "data_complete"
  BY DEF Fixed, Backfilled, UpgradePhases
<1>6. StartupTypeOK'
  <2>1. point' \in Points
    BY DEF Points
  <2> QED
    BY <1>1, <1>3, <1>5, <2>1 DEF UpgradeInv, StartupTypeOK
<1>7. EventsInv' /\ InboxInv' /\ IdentityInv'
  BY <1>1, <1>2, <1>3, <1>4 DEF UpgradeInv, EventsInv, InboxInv, IdentityInv, Events
<1>8. CompleteInv' /\ FreshInv'
  BY <1>2, <1>5 DEF CompleteInv, FreshInv
<1>9. PhaseInv'
  BY <1>1, <1>2, <1>3, <1>4 DEF UpgradeInv, PhaseInv
<1>10. ConvertInv'
  BY <1>1 DEF UpgradeInv, ConvertInv
<1>11. CursorInv'
  BY <1>1, <1>2 DEF UpgradeInv, CursorInv
<1>12. OverviewInv'
  BY <1>1 DEF UpgradeInv, OverviewInv, OverviewBound
<1> QED
  BY <1>6, <1>7, <1>8, <1>9, <1>10, <1>11, <1>12 DEF UpgradeInv

LEMMA MarkStep ==
    ASSUME UpgradeInv, MarkSchemaComplete
    PROVE  UpgradeInv'
<1>1. /\ point = "mark" /\ point \in UpgradePoints /\ schemaComplete' = TRUE /\ point' = "events"
      /\ phase' = IF phase = "baseline_fixed" THEN "schema_complete" ELSE phase
      /\ UNCHANGED <<identity, dataComplete, backup, fixed, cursors, stored, ingest, price,
                     shell, old, refused>>
  BY DEF MarkSchemaComplete, UpgradePoints, Goto
<1>2. /\ identity = "legacy" /\ ~dataComplete /\ old /\ phase \in Fixed
  BY <1>1, Pointed DEF UpgradeInv, PointInv
<1>3. /\ phase' \in Fixed \ {"baseline_fixed"}
      /\ phase' = "overview_rebuilding" <=> phase = "overview_rebuilding"
      /\ phase' \in Backfilled <=> phase \in Backfilled
  BY <1>1, <1>2 DEF Fixed, Backfilled
<1>4. PointInv'
  BY <1>1, <1>2, <1>3 DEF UpgradeInv, PointInv, UpgradePoints
<1>5. fixed # None
  BY <1>2 DEF UpgradeInv, PhaseInv, Fixed, Backfilled
<1>6. phase' \in Backfilled => cursors.hot = MaxOf(hot) /\ cursors.archive = MaxOf(archive)
  BY <1>2, <1>3, <1>5 DEF UpgradeInv, CursorInv
<1> QED
  BY <1>1, <1>2, <1>3, <1>4, <1>6, PhaseMoves DEF UpgradePoints

\* What holds once the baseline is fixed.
LEMMA FixedFacts ==
    ASSUME UpgradeInv, point \in {"events", "begin", "overview", "complete"}
    PROVE  /\ point \in UpgradePoints
           /\ identity = "legacy" /\ ~dataComplete /\ old /\ schemaComplete
           /\ phase \in Fixed /\ fixed # None /\ backup # None
           /\ fixed.cursor = checkpoint /\ fixed.hot = MaxOf(hot) /\ fixed.archive = MaxOf(archive)
           /\ fixed.price = OldPrice
           /\ cursors \in [hot : Nat, archive : Nat,
                           overview : {None} \cup [hot : Nat, archive : Nat]]
           /\ cursors.hot <= MaxOf(hot) /\ cursors.archive <= MaxOf(archive)
           /\ AllPublished \subseteq applied
<1>1. point \in UpgradePoints
  BY DEF UpgradePoints
<1>2. /\ identity = "legacy" /\ ~dataComplete /\ old /\ schemaComplete /\ phase \in Fixed
  BY <1>1, Pointed DEF UpgradeInv, PointInv, Fixed, Backfilled
<1>3. fixed # None /\ backup # None
  BY <1>2 DEF UpgradeInv, PhaseInv, Fixed, Backfilled
<1>4. /\ fixed = [cursor |-> checkpoint, hot |-> MaxOf(hot), archive |-> MaxOf(archive),
                  price |-> OldPrice]
      /\ cursors \in [hot : Nat, archive : Nat,
                      overview : {None} \cup [hot : Nat, archive : Nat]]
      /\ cursors.hot <= MaxOf(hot) /\ cursors.archive <= MaxOf(archive)
  BY <1>2, <1>3 DEF UpgradeInv, CursorInv
<1>5. AllPublished \subseteq applied
  BY <1>2, <1>3 DEF UpgradeInv, PhaseInv
<1> QED
  BY <1>1, <1>2, <1>3, <1>4, <1>5

LEMMA BackfilledStep ==
    ASSUME UpgradeInv, EventsBackfilled
    PROVE  UpgradeInv'
<1>1. /\ point = "events" /\ point' = "begin"
      /\ cursors.hot >= fixed.hot /\ cursors.archive >= fixed.archive
      /\ phase' = IF phase = "schema_complete" THEN "events_backfilled" ELSE phase
      /\ UNCHANGED <<identity, schemaComplete, dataComplete, backup, fixed, cursors, stored,
                     ingest, price, shell, old, refused>>
  BY DEF EventsBackfilled, Goto
<1>2. /\ point \in UpgradePoints /\ identity = "legacy" /\ ~dataComplete /\ old /\ schemaComplete
      /\ cursors.hot = MaxOf(hot) /\ cursors.archive = MaxOf(archive)
      /\ phase \in Fixed \ {"baseline_fixed"}
  <2>1. cursors.hot = MaxOf(hot) /\ cursors.archive = MaxOf(archive)
    <3>1. /\ cursors.hot \in Nat /\ cursors.archive \in Nat
          /\ cursors.hot <= MaxOf(hot) /\ cursors.archive <= MaxOf(archive)
          /\ fixed.hot = MaxOf(hot) /\ fixed.archive = MaxOf(archive)
      BY <1>1, FixedFacts
    <3> QED
      BY <1>1, <3>1, Pointed
  <2> QED
    BY <1>1, <2>1, FixedFacts DEF UpgradeInv, PointInv
<1>3. /\ phase' \in Backfilled /\ phase' \in Fixed
      /\ phase' = "overview_rebuilding" <=> phase = "overview_rebuilding"
  BY <1>1, <1>2 DEF Fixed, Backfilled
<1>4. PointInv'
  BY <1>1, <1>2, <1>3 DEF UpgradeInv, PointInv, UpgradePoints
<1> QED
  BY <1>1, <1>2, <1>3, <1>4, PhaseMoves DEF UpgradePoints, UpgradeInv, StartupTypeOK

\* What M4 changes: costs and its own cursors.
LEMMA PriceMoves ==
    ASSUME UpgradeInv, point = "events",
           UNCHANGED <<identity, phase, schemaComplete, dataComplete, backup, fixed, tables, applied,
                       hot, archive, facts, checkpoint, rollup, inbox, kept, price, point,
                       shell, old, refused>>,
           cost' \in [Numbered -> Costs],
           cursors' \in [hot : Nat, archive : Nat,
                         overview : {None} \cup [hot : Nat, archive : Nat]],
           cursors'.hot <= MaxOf(hot), cursors'.archive <= MaxOf(archive),
           cursors'.overview = cursors.overview,
           phase \notin Backfilled,
           \A i \in hot : i <= cursors'.hot => cost'[i] = OldPrice,
           \A i \in archive : i <= cursors'.archive => cost'[i] = OldPrice
    PROVE  UpgradeInv'
<1>1. /\ identity = "legacy" /\ ~dataComplete /\ old /\ fixed # None /\ phase \in Fixed
  BY FixedFacts
<1>2. Numbered' = Numbered
  BY DEF Numbered
<1>3. StartupTypeOK'
  BY <1>2 DEF UpgradeInv, StartupTypeOK
<1>4. EventsInv' /\ InboxInv' /\ IdentityInv'
  BY <1>1, <1>2 DEF UpgradeInv, EventsInv, InboxInv, IdentityInv, Events
<1>5. PointInv'
  BY <1>1 DEF UpgradeInv, PointInv, UpgradePoints
<1>6. CompleteInv' /\ FreshInv'
  BY <1>1 DEF UpgradeInv, CompleteInv, FreshInv
<1>7. PhaseInv'
  BY <1>1, <1>2 DEF UpgradeInv, PhaseInv
<1>8. ConvertInv'
  BY DEF UpgradeInv, ConvertInv
<1>9. CursorInv'
  BY <1>1 DEF UpgradeInv, CursorInv
<1>10. OverviewInv'
  BY DEF OverviewInv, Backfilled
<1> QED
  BY <1>3, <1>4, <1>5, <1>6, <1>7, <1>8, <1>9, <1>10 DEF UpgradeInv

\* A page of either table is there as long as its cursor is below its bound.
LEMMA PageThere ==
    ASSUME NEW ids \in SUBSET Nat, IsFiniteSet(ids), NEW after \in Nat, after < MaxOf(ids)
    PROVE  Page(ids, after, MaxOf(ids)) # {}
<1>1. MaxOf(ids) \in Nat /\ ids # {}
  BY MaxOfFacts
<1>2. MaxOf(ids) \in ids
  BY <1>1, MaxOfFacts
<1> QED
  BY <1>1, <1>2, PageFacts

LEMMA PriceHotStep ==
    ASSUME UpgradeInv, point = "events", PricePage(hot, "hot", fixed.hot)
    PROVE  UpgradeInv'
<1> DEFINE page == Page(hot, cursors.hot, MaxOf(hot))
<1>1. /\ fixed.hot = MaxOf(hot) /\ fixed.price = OldPrice /\ fixed # None
      /\ ~dataComplete /\ old /\ phase \in Fixed
      /\ cursors \in [hot : Nat, archive : Nat,
                      overview : {None} \cup [hot : Nat, archive : Nat]]
      /\ cursors.archive <= MaxOf(archive)
  BY FixedFacts
<1>2. cursors.hot < MaxOf(hot) /\ cursors.hot \in Nat
  BY <1>1 DEF PricePage
<1>3. page # {}
  BY <1>2, Pointed, PageThere
<1>4. /\ cost' = [i \in DOMAIN cost |-> IF i \in page THEN fixed.price ELSE cost[i]]
      /\ cursors' = [cursors EXCEPT !["hot"] = MaxOf(page)]
      /\ UNCHANGED <<identity, phase, schemaComplete, dataComplete, backup, fixed, tables, applied,
                     hot, archive, facts, checkpoint, rollup, inbox, kept, price, point,
                     shell, old, refused>>
  BY <1>1, <1>3 DEF PricePage, ingest
<1>5. /\ MaxOf(page) \in hot /\ page \subseteq hot
      /\ \A i \in hot : i \in page <=> cursors.hot < i /\ i <= MaxOf(page)
  BY <1>2, <1>3, Pointed, PageFacts
<1> HIDE DEF page
<1>6. MaxOf(page) \in Nat /\ MaxOf(page) <= MaxOf(hot)
  BY <1>5, Pointed
<1>7. /\ cursors' \in [hot : Nat, archive : Nat,
                       overview : {None} \cup [hot : Nat, archive : Nat]]
      /\ cursors'.hot = MaxOf(page) /\ cursors'.archive = cursors.archive
      /\ cursors'.overview = cursors.overview
  BY <1>1, <1>4, <1>6
<1>8. phase \notin Backfilled
  BY <1>1, <1>2, Pointed DEF UpgradeInv, CursorInv
<1>9. /\ cost' \in [Numbered -> Costs]
      /\ \A i \in Numbered : cost'[i] = IF i \in page THEN OldPrice ELSE cost[i]
  <2>1. cost \in [Numbered -> Costs] /\ OldPrice \in Costs
    BY DEF UpgradeInv, StartupTypeOK, Costs
  <2> QED
    BY <1>1, <1>4, <2>1 DEF Numbered
<1>10. hot \subseteq Numbered /\ archive \subseteq Numbered
  BY DEF UpgradeInv, StartupTypeOK, EventsInv
<1>11. /\ \A i \in hot : i <= cursors.hot => cost[i] = OldPrice
       /\ \A i \in archive : i <= cursors.archive => cost[i] = OldPrice
  BY <1>1 DEF UpgradeInv, CursorInv
<1>12. ASSUME NEW i \in hot, i <= cursors'.hot PROVE cost'[i] = OldPrice
  <2>1. i \in Nat
    BY Pointed
  <2>2. CASE i \in page
    BY <1>9, <1>10, <2>2
  <2>3. CASE i \notin page
    <3>1. i <= cursors.hot
      BY <1>2, <1>5, <1>7, <1>12, <2>1, <2>3
    <3> QED
      BY <1>9, <1>10, <1>11, <2>3, <3>1
  <2> QED
    BY <2>2, <2>3
<1>13. \A i \in archive : i <= cursors'.archive => cost'[i] = OldPrice
  BY <1>7, <1>9, <1>10, <1>11
<1> QED
  BY <1>1, <1>4, <1>6, <1>7, <1>8, <1>9, <1>12, <1>13, PriceMoves

LEMMA PriceArchiveStep ==
    ASSUME UpgradeInv, point = "events", PricePage(archive, "archive", fixed.archive)
    PROVE  UpgradeInv'
<1> DEFINE page == Page(archive, cursors.archive, MaxOf(archive))
<1>1. /\ fixed.archive = MaxOf(archive) /\ fixed.price = OldPrice /\ fixed # None
      /\ ~dataComplete /\ old /\ phase \in Fixed
      /\ cursors \in [hot : Nat, archive : Nat,
                      overview : {None} \cup [hot : Nat, archive : Nat]]
      /\ cursors.hot <= MaxOf(hot)
  BY FixedFacts
<1>2. cursors.archive < MaxOf(archive) /\ cursors.archive \in Nat
  BY <1>1 DEF PricePage
<1>3. page # {}
  BY <1>2, Pointed, PageThere
<1>4. /\ cost' = [i \in DOMAIN cost |-> IF i \in page THEN fixed.price ELSE cost[i]]
      /\ cursors' = [cursors EXCEPT !["archive"] = MaxOf(page)]
      /\ UNCHANGED <<identity, phase, schemaComplete, dataComplete, backup, fixed, tables, applied,
                     hot, archive, facts, checkpoint, rollup, inbox, kept, price, point,
                     shell, old, refused>>
  BY <1>1, <1>3 DEF PricePage, ingest
<1>5. /\ MaxOf(page) \in archive /\ page \subseteq archive
      /\ \A i \in archive : i \in page <=> cursors.archive < i /\ i <= MaxOf(page)
  BY <1>2, <1>3, Pointed, PageFacts
<1> HIDE DEF page
<1>6. MaxOf(page) \in Nat /\ MaxOf(page) <= MaxOf(archive)
  BY <1>5, Pointed
<1>7. /\ cursors' \in [hot : Nat, archive : Nat,
                       overview : {None} \cup [hot : Nat, archive : Nat]]
      /\ cursors'.archive = MaxOf(page) /\ cursors'.hot = cursors.hot
      /\ cursors'.overview = cursors.overview
  BY <1>1, <1>4, <1>6
<1>8. phase \notin Backfilled
  BY <1>1, <1>2, Pointed DEF UpgradeInv, CursorInv
<1>9. /\ cost' \in [Numbered -> Costs]
      /\ \A i \in Numbered : cost'[i] = IF i \in page THEN OldPrice ELSE cost[i]
  <2>1. cost \in [Numbered -> Costs] /\ OldPrice \in Costs
    BY DEF UpgradeInv, StartupTypeOK, Costs
  <2> QED
    BY <1>1, <1>4, <2>1 DEF Numbered
<1>10. hot \subseteq Numbered /\ archive \subseteq Numbered
  BY DEF UpgradeInv, StartupTypeOK, EventsInv
<1>11. /\ \A i \in hot : i <= cursors.hot => cost[i] = OldPrice
       /\ \A i \in archive : i <= cursors.archive => cost[i] = OldPrice
  BY <1>1 DEF UpgradeInv, CursorInv
<1>12. ASSUME NEW i \in archive, i <= cursors'.archive PROVE cost'[i] = OldPrice
  <2>1. i \in Nat
    BY Pointed
  <2>2. CASE i \in page
    BY <1>9, <1>10, <2>2
  <2>3. CASE i \notin page
    <3>1. i <= cursors.archive
      BY <1>2, <1>5, <1>7, <1>12, <2>1, <2>3
    <3> QED
      BY <1>9, <1>10, <1>11, <2>3, <3>1
  <2> QED
    BY <2>2, <2>3
<1>13. \A i \in hot : i <= cursors'.hot => cost'[i] = OldPrice
  BY <1>7, <1>9, <1>10, <1>11
<1> QED
  BY <1>1, <1>4, <1>6, <1>7, <1>8, <1>9, <1>12, <1>13, PriceMoves

LEMMA BeginOverviewStep ==
    ASSUME UpgradeInv, BeginOverview
    PROVE  UpgradeInv'
<1>1. point = "begin"
  BY DEF BeginOverview
<1>2. /\ point \in UpgradePoints /\ identity = "legacy" /\ ~dataComplete /\ old /\ schemaComplete
      /\ phase \in Backfilled /\ fixed # None
      /\ cursors \in [hot : Nat, archive : Nat,
                      overview : {None} \cup [hot : Nat, archive : Nat]]
      /\ phase # "overview_rebuilding" => cursors.overview = None
  BY <1>1, FixedFacts DEF UpgradeInv, PointInv, CursorInv
<1>3. CASE phase = "overview_rebuilding"
  <2>1. /\ Goto("overview")
        /\ UNCHANGED <<identity, phase, schemaComplete, dataComplete, backup, fixed, cursors,
                       stored, ingest, price>>
    BY <1>3 DEF BeginOverview, control
  <2> QED
    BY <1>1, <1>2, <1>3, <2>1, GotoMoves DEF Points, UpgradePoints
<1>4. CASE phase # "overview_rebuilding"
  <2>1. phase = "events_backfilled" /\ cursors.overview = None
    BY <1>2, <1>4 DEF Backfilled
  <2>2. /\ phase' = "overview_rebuilding" /\ point' = "overview"
        /\ cursors' = [cursors EXCEPT !.overview = [hot |-> 0, archive |-> 0]]
        /\ rollup' = [i \in DOMAIN rollup |-> 0]
        /\ UNCHANGED <<identity, schemaComplete, dataComplete, backup, fixed, tables, applied,
                       hot, archive, facts, cost, checkpoint, inbox, kept, price, shell, old, refused>>
    BY <2>1 DEF BeginOverview, ingest, Goto
  <2>3. /\ cursors' \in [hot : Nat, archive : Nat,
                         overview : {None} \cup [hot : Nat, archive : Nat]]
        /\ cursors'.hot = cursors.hot /\ cursors'.archive = cursors.archive
        /\ cursors'.overview = [hot |-> 0, archive |-> 0]
    BY <1>2, <2>2
  <2>4. Numbered' = Numbered
    BY <2>2 DEF Numbered
  <2>5. StartupTypeOK'
    <3>1. rollup' \in [Numbered \cup {Ghost} -> Nat]
      BY <2>2 DEF UpgradeInv, StartupTypeOK
    <3> QED
      BY <2>2, <2>4, <3>1 DEF UpgradeInv, StartupTypeOK, Points, UpgradePoints, UpgradePhases
  <2>6. EventsInv' /\ InboxInv' /\ IdentityInv'
    BY <1>2, <2>2, <2>4 DEF UpgradeInv, EventsInv, InboxInv, IdentityInv, Events
  <2>7. PointInv'
    BY <1>1, <1>2, <2>2 DEF UpgradeInv, PointInv, UpgradePoints
  <2>8. CompleteInv' /\ FreshInv'
    BY <1>2, <2>2 DEF UpgradeInv, CompleteInv, FreshInv
  <2>9. PhaseInv'
    BY <1>2, <2>1, <2>2, <2>4 DEF UpgradeInv, PhaseInv
  <2>10. ConvertInv'
    BY <2>2 DEF UpgradeInv, ConvertInv
  <2>11. CursorInv'
    BY <1>2, <2>1, <2>2, <2>3 DEF UpgradeInv, CursorInv, Backfilled
  <2>12. OverviewInv'
    <3>1. fixed.cursor = checkpoint /\ fixed.hot = MaxOf(hot) /\ fixed.archive = MaxOf(archive)
      BY <1>1, FixedFacts
    <3>2. 0 <= OverviewBound("hot")' /\ 0 <= OverviewBound("archive")'
      BY <2>2, <3>1, Pointed DEF OverviewBound, MinOf
    <3>3. /\ cursors'.overview.hot = 0 /\ cursors'.overview.archive = 0
          /\ cursors'.overview \in [hot : Nat, archive : Nat]
      BY <2>3
    <3>4. (\A i \in hot : ~(i <= 0)) /\ (\A i \in archive : ~(i <= 0))
      BY Pointed
    <3>5. \A i \in DOMAIN rollup' : rollup'[i] = 0
      BY <2>2
    <3> QED
      BY <2>2, <3>2, <3>3, <3>4, <3>5 DEF OverviewInv
  <2> QED
    BY <2>5, <2>6, <2>7, <2>8, <2>9, <2>10, <2>11, <2>12 DEF UpgradeInv
<1> QED
  BY <1>3, <1>4

\* What M5 changes: the overview and its own cursors.
LEMMA RebuildMoves ==
    ASSUME UpgradeInv, point = "overview",
           UNCHANGED <<identity, phase, schemaComplete, dataComplete, backup, fixed, tables, applied,
                       hot, archive, facts, cost, checkpoint, inbox, kept, price, point,
                       shell, old, refused>>,
           rollup' \in [Numbered \cup {Ghost} -> Nat],
           cursors' \in [hot : Nat, archive : Nat,
                         overview : {None} \cup [hot : Nat, archive : Nat]],
           cursors'.hot = cursors.hot, cursors'.archive = cursors.archive,
           cursors'.overview \in [hot : Nat, archive : Nat],
           cursors'.overview.hot <= OverviewBound("hot"),
           cursors'.overview.archive <= OverviewBound("archive"),
           \A i \in DOMAIN rollup' :
             rollup'[i] = IF \/ i \in hot /\ i <= cursors'.overview.hot
                             \/ i \in archive /\ i <= cursors'.overview.archive
                          THEN 1 ELSE 0
    PROVE  UpgradeInv'
<1>1. /\ identity = "legacy" /\ ~dataComplete /\ old /\ fixed # None
      /\ phase = "overview_rebuilding"
  BY FixedFacts DEF UpgradeInv, PointInv
<1>2. Numbered' = Numbered
  BY DEF Numbered
<1>3. StartupTypeOK'
  BY <1>2 DEF UpgradeInv, StartupTypeOK
<1>4. EventsInv' /\ InboxInv' /\ IdentityInv'
  BY <1>1, <1>2 DEF UpgradeInv, EventsInv, InboxInv, IdentityInv, Events
<1>5. PointInv'
  BY <1>1 DEF UpgradeInv, PointInv, UpgradePoints
<1>6. CompleteInv' /\ FreshInv'
  BY <1>1 DEF UpgradeInv, CompleteInv, FreshInv
<1>7. PhaseInv'
  BY <1>1, <1>2 DEF UpgradeInv, PhaseInv
<1>8. ConvertInv'
  BY DEF UpgradeInv, ConvertInv
<1>9. CursorInv'
  BY <1>1 DEF UpgradeInv, CursorInv
<1>10. OverviewInv'
  BY DEF OverviewInv, OverviewBound
<1> QED
  BY <1>3, <1>4, <1>5, <1>6, <1>7, <1>8, <1>9, <1>10 DEF UpgradeInv

\* One page of a table whose events are counted up to a cursor.
LEMMA CountPage ==
    ASSUME NEW ids \in SUBSET Nat, IsFiniteSet(ids), NEW after \in Nat, NEW bound \in Nat,
           after <= bound
    PROVE  LET page == Page(ids, after, bound)
               next == IF page = {} THEN bound ELSE MaxOf(page)
           IN  /\ next \in Nat /\ next <= bound
               /\ \A i \in ids : i <= next <=> i <= after \/ i \in page
               /\ \A i \in ids : i \in page => ~(i <= after)
               /\ page \subseteq ids
<1> DEFINE page == Page(ids, after, bound)
           next == IF page = {} THEN bound ELSE MaxOf(page)
<1>1. /\ page \subseteq ids
      /\ \A i \in page : after < i /\ i <= bound
      /\ (\E i \in ids : after < i /\ i <= bound) => page # {}
      /\ page # {} => MaxOf(page) \in page
      /\ \A i \in ids : i \in page <=> page # {} /\ after < i /\ i <= MaxOf(page)
  BY PageFacts
<1> HIDE DEF page
<1>2. CASE page = {}
  <2>1. next = bound
    BY <1>2
  <2>2. \A i \in ids : ~(after < i /\ i <= bound)
    BY <1>1, <1>2
  <2>3. \A i \in ids : i <= bound <=> i <= after
    BY <2>2
  <2> QED
    BY <1>2, <2>1, <2>3 DEF page
<1>3. CASE page # {}
  <2>1. next = MaxOf(page) /\ next \in ids /\ next <= bound /\ after < next
    BY <1>1, <1>3
  <2>2. next \in Nat
    BY <2>1
  <2>3. \A i \in ids : i \in page <=> after < i /\ i <= next
    BY <1>1, <1>3, <2>1
  <2> HIDE DEF next
  <2>4. \A i \in ids : i <= next <=> i <= after \/ i \in page
    BY <2>1, <2>2, <2>3
  <2>5. \A i \in ids : i \in page => ~(i <= after)
    BY <2>3
  <2> QED
    BY <1>1, <2>1, <2>2, <2>4, <2>5 DEF page, next
<1> QED
  BY <1>2, <1>3

LEMMA OverviewFacts ==
    ASSUME UpgradeInv, point \in {"overview", "complete"}
    PROVE  /\ phase = "overview_rebuilding" /\ fixed # None /\ backup # None
           /\ identity = "legacy" /\ ~dataComplete /\ old /\ schemaComplete
           /\ cursors \in [hot : Nat, archive : Nat,
                           overview : {None} \cup [hot : Nat, archive : Nat]]
           /\ cursors.overview \in [hot : Nat, archive : Nat]
           /\ OverviewBound("hot") = MinOf(checkpoint, MaxOf(hot))
           /\ OverviewBound("archive") = MinOf(checkpoint, MaxOf(archive))
           /\ OverviewBound("hot") \in Nat /\ OverviewBound("archive") \in Nat
           /\ cursors.overview.hot <= OverviewBound("hot")
           /\ cursors.overview.archive <= OverviewBound("archive")
           /\ cursors.hot = MaxOf(hot) /\ cursors.archive = MaxOf(archive)
           /\ rollup \in [Numbered \cup {Ghost} -> Nat]
           /\ \A i \in DOMAIN rollup :
                rollup[i] = IF \/ i \in hot /\ i <= cursors.overview.hot
                               \/ i \in archive /\ i <= cursors.overview.archive
                            THEN 1 ELSE 0
           /\ hot \cap archive = {} /\ hot \subseteq Numbered /\ archive \subseteq Numbered
<1>1. /\ phase = "overview_rebuilding" /\ fixed # None /\ backup # None
      /\ identity = "legacy" /\ ~dataComplete /\ old /\ schemaComplete
      /\ cursors \in [hot : Nat, archive : Nat,
                      overview : {None} \cup [hot : Nat, archive : Nat]]
      /\ fixed.cursor = checkpoint /\ fixed.hot = MaxOf(hot) /\ fixed.archive = MaxOf(archive)
  BY FixedFacts DEF UpgradeInv, PointInv
<1>2. /\ OverviewBound("hot") = MinOf(checkpoint, MaxOf(hot))
      /\ OverviewBound("archive") = MinOf(checkpoint, MaxOf(archive))
  BY <1>1 DEF OverviewBound
<1>3. OverviewBound("hot") \in Nat /\ OverviewBound("archive") \in Nat
  BY <1>2, Pointed DEF MinOf
<1>4. /\ cursors.overview \in [hot : Nat, archive : Nat]
      /\ cursors.overview.hot <= OverviewBound("hot")
      /\ cursors.overview.archive <= OverviewBound("archive")
      /\ \A i \in DOMAIN rollup :
           rollup[i] = IF \/ i \in hot /\ i <= cursors.overview.hot
                          \/ i \in archive /\ i <= cursors.overview.archive
                       THEN 1 ELSE 0
  BY <1>1 DEF UpgradeInv, OverviewInv
<1>5. cursors.hot = MaxOf(hot) /\ cursors.archive = MaxOf(archive)
  BY <1>1 DEF UpgradeInv, CursorInv, Backfilled
<1>6. /\ rollup \in [Numbered \cup {Ghost} -> Nat]
      /\ hot \cap archive = {} /\ hot \subseteq Numbered /\ archive \subseteq Numbered
  BY DEF UpgradeInv, StartupTypeOK, EventsInv
<1> QED
  BY <1>1, <1>2, <1>3, <1>4, <1>5, <1>6

LEMMA RebuildHotStep ==
    ASSUME UpgradeInv, point = "overview", RebuildPage(hot, "hot")
    PROVE  UpgradeInv'
<1> DEFINE after == cursors.overview.hot
           bound == OverviewBound("hot")
           page == Page(hot, after, bound)
           next == IF page = {} THEN bound ELSE MaxOf(page)
<1>1. /\ rollup' = [i \in DOMAIN rollup |-> rollup[i] + IF i \in page THEN 1 ELSE 0]
      /\ cursors' = [cursors EXCEPT !.overview["hot"] = next]
      /\ UNCHANGED <<identity, phase, schemaComplete, dataComplete, backup, fixed, tables, applied,
                     hot, archive, facts, cost, checkpoint, inbox, kept, price, point,
                     shell, old, refused>>
  BY DEF RebuildPage, ingest
<1>2. after \in Nat /\ bound \in Nat /\ after <= bound
  BY OverviewFacts
<1>3. /\ next \in Nat /\ next <= bound
      /\ \A i \in hot : i <= next <=> i <= after \/ i \in page
      /\ \A i \in hot : i \in page => ~(i <= after)
      /\ page \subseteq hot
  <2> HIDE DEF after, bound
  <2> QED
    BY <1>2, Pointed, CountPage
<1> HIDE DEF page, next, bound
<1>4. /\ cursors \in [hot : Nat, archive : Nat,
                      overview : {None} \cup [hot : Nat, archive : Nat]]
      /\ cursors.overview \in [hot : Nat, archive : Nat]
  BY OverviewFacts
<1>5. /\ cursors' \in [hot : Nat, archive : Nat,
                       overview : {None} \cup [hot : Nat, archive : Nat]]
      /\ cursors'.hot = cursors.hot /\ cursors'.archive = cursors.archive
      /\ cursors'.overview \in [hot : Nat, archive : Nat]
      /\ cursors'.overview.hot = next
      /\ cursors'.overview.archive = cursors.overview.archive
  <2>1. cursors' = [cursors EXCEPT !.overview = [cursors.overview EXCEPT !.hot = next]]
    BY <1>1
  <2>2. /\ [cursors.overview EXCEPT !.hot = next] \in [hot : Nat, archive : Nat]
        /\ [cursors.overview EXCEPT !.hot = next].hot = next
        /\ [cursors.overview EXCEPT !.hot = next].archive = cursors.overview.archive
    BY <1>3, <1>4
  <2> DEFINE o == [cursors.overview EXCEPT !.hot = next]
  <2> HIDE DEF o
  <2>3. cursors' = [cursors EXCEPT !.overview = o]
    BY <2>1 DEF o
  <2>4. o \in [hot : Nat, archive : Nat] /\ o.hot = next /\ o.archive = cursors.overview.archive
    BY <2>2 DEF o
  <2>5. cursors'.overview = o /\ cursors'.hot = cursors.hot /\ cursors'.archive = cursors.archive
    BY <1>4, <2>3
  <2>6. cursors' \in [hot : Nat, archive : Nat,
                      overview : {None} \cup [hot : Nat, archive : Nat]]
    BY <1>4, <2>3, <2>4
  <2> QED
    BY <2>4, <2>5, <2>6
<1>6. rollup \in [Numbered \cup {Ghost} -> Nat] /\ hot \cap archive = {}
  BY OverviewFacts
<1>7. rollup' \in [Numbered \cup {Ghost} -> Nat] /\ DOMAIN rollup' = DOMAIN rollup
  BY <1>1, <1>6
<1>8. ASSUME NEW i \in DOMAIN rollup
      PROVE  rollup'[i] = IF \/ i \in hot /\ i <= next
                             \/ i \in archive /\ i <= cursors.overview.archive
                          THEN 1 ELSE 0
  <2>1. rollup'[i] = rollup[i] + IF i \in page THEN 1 ELSE 0
    BY <1>1
  <2>2. rollup[i] = IF \/ i \in hot /\ i <= after
                       \/ i \in archive /\ i <= cursors.overview.archive
                    THEN 1 ELSE 0
    BY OverviewFacts
  <2>3. CASE i \in page
    <3>1. i \in hot /\ ~(i <= after) /\ i <= next /\ i \notin archive
      BY <1>3, <1>6, <2>3
    <3>2. rollup[i] = 0
      BY <2>2, <3>1
    <3> QED
      BY <2>1, <2>3, <3>1, <3>2
  <2>4. CASE i \notin page
    <3>1. rollup'[i] = rollup[i]
      BY <2>1, <2>2, <2>4
    <3>2. i \in hot => (i <= next <=> i <= after)
      BY <1>3, <2>4
    <3> QED
      BY <2>2, <3>1, <3>2
  <2> QED
    BY <2>3, <2>4
<1>9. cursors.overview.archive <= OverviewBound("archive")
  BY OverviewFacts
<1> QED
  BY <1>1, <1>3, <1>5, <1>7, <1>8, <1>9, RebuildMoves DEF bound

LEMMA RebuildArchiveStep ==
    ASSUME UpgradeInv, point = "overview", RebuildPage(archive, "archive")
    PROVE  UpgradeInv'
<1> DEFINE after == cursors.overview.archive
           bound == OverviewBound("archive")
           page == Page(archive, after, bound)
           next == IF page = {} THEN bound ELSE MaxOf(page)
<1>1. /\ rollup' = [i \in DOMAIN rollup |-> rollup[i] + IF i \in page THEN 1 ELSE 0]
      /\ cursors' = [cursors EXCEPT !.overview["archive"] = next]
      /\ UNCHANGED <<identity, phase, schemaComplete, dataComplete, backup, fixed, tables, applied,
                     hot, archive, facts, cost, checkpoint, inbox, kept, price, point,
                     shell, old, refused>>
  BY DEF RebuildPage, ingest
<1>2. after \in Nat /\ bound \in Nat /\ after <= bound
  BY OverviewFacts
<1>3. /\ next \in Nat /\ next <= bound
      /\ \A i \in archive : i <= next <=> i <= after \/ i \in page
      /\ \A i \in archive : i \in page => ~(i <= after)
      /\ page \subseteq archive
  <2> HIDE DEF after, bound
  <2> QED
    BY <1>2, Pointed, CountPage
<1> HIDE DEF page, next, bound
<1>4. /\ cursors \in [hot : Nat, archive : Nat,
                      overview : {None} \cup [hot : Nat, archive : Nat]]
      /\ cursors.overview \in [hot : Nat, archive : Nat]
  BY OverviewFacts
<1>5. /\ cursors' \in [hot : Nat, archive : Nat,
                       overview : {None} \cup [hot : Nat, archive : Nat]]
      /\ cursors'.hot = cursors.hot /\ cursors'.archive = cursors.archive
      /\ cursors'.overview \in [hot : Nat, archive : Nat]
      /\ cursors'.overview.archive = next
      /\ cursors'.overview.hot = cursors.overview.hot
  <2>1. cursors' = [cursors EXCEPT !.overview = [cursors.overview EXCEPT !.archive = next]]
    BY <1>1
  <2>2. /\ [cursors.overview EXCEPT !.archive = next] \in [hot : Nat, archive : Nat]
        /\ [cursors.overview EXCEPT !.archive = next].archive = next
        /\ [cursors.overview EXCEPT !.archive = next].hot = cursors.overview.hot
    BY <1>3, <1>4
  <2> DEFINE o == [cursors.overview EXCEPT !.archive = next]
  <2> HIDE DEF o
  <2>3. cursors' = [cursors EXCEPT !.overview = o]
    BY <2>1 DEF o
  <2>4. o \in [hot : Nat, archive : Nat] /\ o.archive = next /\ o.hot = cursors.overview.hot
    BY <2>2 DEF o
  <2>5. cursors'.overview = o /\ cursors'.hot = cursors.hot /\ cursors'.archive = cursors.archive
    BY <1>4, <2>3
  <2>6. cursors' \in [hot : Nat, archive : Nat,
                      overview : {None} \cup [hot : Nat, archive : Nat]]
    BY <1>4, <2>3, <2>4
  <2> QED
    BY <2>4, <2>5, <2>6
<1>6. rollup \in [Numbered \cup {Ghost} -> Nat] /\ hot \cap archive = {}
  BY OverviewFacts
<1>7. rollup' \in [Numbered \cup {Ghost} -> Nat] /\ DOMAIN rollup' = DOMAIN rollup
  BY <1>1, <1>6
<1>8. ASSUME NEW i \in DOMAIN rollup
      PROVE  rollup'[i] = IF \/ i \in hot /\ i <= cursors.overview.hot
                             \/ i \in archive /\ i <= next
                          THEN 1 ELSE 0
  <2>1. rollup'[i] = rollup[i] + IF i \in page THEN 1 ELSE 0
    BY <1>1
  <2>2. rollup[i] = IF \/ i \in hot /\ i <= cursors.overview.hot
                       \/ i \in archive /\ i <= after
                    THEN 1 ELSE 0
    BY OverviewFacts
  <2>3. CASE i \in page
    <3>1. i \in archive /\ ~(i <= after) /\ i <= next /\ i \notin hot
      BY <1>3, <1>6, <2>3
    <3>2. rollup[i] = 0
      BY <2>2, <3>1
    <3> QED
      BY <2>1, <2>3, <3>1, <3>2
  <2>4. CASE i \notin page
    <3>1. rollup'[i] = rollup[i]
      BY <2>1, <2>2, <2>4
    <3>2. i \in archive => (i <= next <=> i <= after)
      BY <1>3, <2>4
    <3> QED
      BY <2>2, <3>1, <3>2
  <2> QED
    BY <2>3, <2>4
<1>9. cursors.overview.hot <= OverviewBound("hot")
  BY OverviewFacts
<1> QED
  BY <1>1, <1>3, <1>5, <1>7, <1>8, <1>9, RebuildMoves DEF bound

\* When the rebuild has reached its bounds the overview holds the events up to
\* the checkpoint.
LEMMA Counted ==
    ASSUME UpgradeInv, point \in {"overview", "complete"},
           cursors.overview.hot = OverviewBound("hot"),
           cursors.overview.archive = OverviewBound("archive")
    PROVE  \A i \in DOMAIN rollup :
              rollup[i] = IF i \in Events /\ i <= checkpoint THEN 1 ELSE 0
<1>1. \A i \in hot : i <= cursors.overview.hot <=> i <= checkpoint
  BY OverviewFacts, Pointed DEF MinOf
<1>2. \A i \in archive : i <= cursors.overview.archive <=> i <= checkpoint
  BY OverviewFacts, Pointed DEF MinOf
<1>3. \A i \in DOMAIN rollup :
         rollup[i] = IF \/ i \in hot /\ i <= cursors.overview.hot
                        \/ i \in archive /\ i <= cursors.overview.archive
                     THEN 1 ELSE 0
  BY OverviewFacts
<1> QED
  BY <1>1, <1>2, <1>3 DEF Events

LEMMA Priced ==
    ASSUME UpgradeInv, point \in {"overview", "complete"}
    PROVE  \A i \in Events : cost[i] = OldPrice
<1>1. /\ cursors.hot = MaxOf(hot) /\ cursors.archive = MaxOf(archive)
      /\ fixed # None /\ ~dataComplete /\ old
  BY OverviewFacts
<1>2. /\ \A i \in hot : i <= cursors.hot => cost[i] = OldPrice
      /\ \A i \in archive : i <= cursors.archive => cost[i] = OldPrice
  BY <1>1 DEF UpgradeInv, CursorInv
<1> QED
  BY <1>1, <1>2, Pointed DEF Events

LEMMA VerifyDataStep ==
    ASSUME UpgradeInv, VerifyData
    PROVE  UpgradeInv'
<1>1. /\ point = "overview" /\ point \in UpgradePoints
      /\ cursors.overview.hot >= OverviewBound("hot")
      /\ cursors.overview.archive >= OverviewBound("archive")
  BY DEF VerifyData, UpgradePoints
<1>2. /\ cursors.overview.hot = OverviewBound("hot")
      /\ cursors.overview.archive = OverviewBound("archive")
  <2>1. /\ cursors.overview.hot \in Nat /\ cursors.overview.archive \in Nat
        /\ OverviewBound("hot") \in Nat /\ OverviewBound("archive") \in Nat
        /\ cursors.overview.hot <= OverviewBound("hot")
        /\ cursors.overview.archive <= OverviewBound("archive")
    BY <1>1, OverviewFacts
  <2> QED
    BY <1>1, <2>1
<1>3. /\ fixed.cursor = checkpoint /\ fixed.hot = MaxOf(hot) /\ fixed.archive = MaxOf(archive)
      /\ AllPublished \subseteq applied /\ backup # None
  BY <1>1, FixedFacts
<1>4. /\ cursors.hot = fixed.hot /\ cursors.archive = fixed.archive
      /\ checkpoint >= fixed.cursor
      /\ MaxOf(hot) = fixed.hot /\ MaxOf(archive) = fixed.archive
  BY <1>1, <1>3, OverviewFacts, Pointed
<1>5. EventCostsVerified
  <2>1. OldPrice # Null
    BY DEF OldPrice, Null
  <2> QED
    BY <1>1, <2>1, Priced DEF EventCostsVerified
<1>6. OverviewVerified
  BY <1>1, <1>2, <1>3, Counted DEF OverviewVerified
<1>7. PublishedVerified
  BY <1>1, <1>3, VerifiedOnceApplied
<1>8. DataVerified
  BY <1>4, <1>5, <1>6, <1>7 DEF DataVerified
<1>9. /\ Goto("complete")
      /\ UNCHANGED <<identity, phase, schemaComplete, dataComplete, backup, fixed, cursors,
                     stored, ingest, price>>
  BY <1>8 DEF VerifyData, control
<1>10. /\ phase = "overview_rebuilding" /\ schemaComplete /\ identity = "legacy" /\ ~dataComplete
  BY <1>1, OverviewFacts
<1> QED
  BY <1>1, <1>2, <1>9, <1>10, GotoMoves DEF Points, UpgradePoints

LEMMA CompleteStep ==
    ASSUME UpgradeInv, CompleteData
    PROVE  UpgradeInv'
<1>1. /\ point = "complete" /\ point' = "check" /\ phase' = "data_complete" /\ dataComplete' = TRUE
      /\ UNCHANGED <<identity, schemaComplete, backup, fixed, cursors, tables, applied,
                     hot, archive, facts, cost, checkpoint, rollup, inbox, kept, price,
                     shell, old, refused>>
  BY DEF CompleteData, stored, ingest, Goto
<1>2. /\ point \in UpgradePoints /\ identity = "legacy" /\ ~dataComplete /\ old /\ schemaComplete
      /\ AllPublished \subseteq applied
      /\ cursors.overview.hot = OverviewBound("hot")
      /\ cursors.overview.archive = OverviewBound("archive")
  BY <1>1, FixedFacts DEF UpgradeInv, PointInv
<1>3. Numbered' = Numbered
  BY <1>1 DEF Numbered
<1>4. StartupTypeOK'
  BY <1>1, <1>3 DEF UpgradeInv, StartupTypeOK, Points
<1>5. EventsInv' /\ InboxInv' /\ IdentityInv'
  BY <1>1, <1>2, <1>3 DEF UpgradeInv, EventsInv, InboxInv, IdentityInv, Events
<1>6. PointInv'
  BY <1>1, <1>2 DEF UpgradeInv, PointInv, UpgradePoints
<1>7. CompleteInv'
  <2>1. \A i \in DOMAIN rollup :
          rollup[i] = IF i \in Events /\ i <= checkpoint THEN 1 ELSE 0
    BY <1>1, <1>2, Counted
  <2>2. \A i \in Events \cap Ids : cost[i] = OldPrice
    BY <1>1, Priced
  <2>3. \A i \in hot : facts[i] = 1
    BY <1>2, PublishedValues DEF UpgradeInv, ConvertInv
  <2>4. Events' = Events
    BY <1>1 DEF Events
  <2> QED
    BY <1>1, <1>2, <2>1, <2>2, <2>3, <2>4 DEF CompleteInv
<1>8. FreshInv' /\ PhaseInv' /\ ConvertInv' /\ CursorInv' /\ OverviewInv'
  BY <1>1 DEF FreshInv, PhaseInv, ConvertInv, CursorInv, OverviewInv
<1> QED
  BY <1>4, <1>5, <1>6, <1>7, <1>8 DEF UpgradeInv

LEMMA CheckStep ==
    ASSUME UpgradeInv, CheckComplete
    PROVE  UpgradeInv'
<1>1. point = "check" /\ dataComplete
  BY DEF CheckComplete, UpgradeInv, PointInv
<1>2. schemaComplete /\ phase = "data_complete" /\ identity # "none"
  BY <1>1 DEF UpgradeInv, CompleteInv, PointInv
<1>3. /\ Goto("remaining")
      /\ UNCHANGED <<identity, phase, schemaComplete, dataComplete, backup, fixed, cursors,
                     stored, ingest, price>>
  BY <1>1, <1>2 DEF CheckComplete, control
<1> QED
  BY <1>1, <1>2, <1>3, GotoMoves DEF Points, UpgradePoints

LEMMA RemainingStep ==
    ASSUME UpgradeInv, RunRemaining
    PROVE  UpgradeInv'
<1>1. /\ point = "remaining" /\ point' = "activate" /\ applied' = applied \cup {"remaining"}
      /\ UNCHANGED <<identity, phase, schemaComplete, dataComplete, backup, fixed, cursors, tables,
                     hot, archive, facts, cost, checkpoint, rollup, inbox, kept, price,
                     shell, old, refused>>
  BY DEF RunRemaining, control, ingest, Goto
<1>2. dataComplete /\ identity # "none" /\ shell # "ready"
  BY <1>1 DEF UpgradeInv, PointInv
<1>3. Numbered' = Numbered
  BY <1>1 DEF Numbered
<1>4. StartupTypeOK'
  <2>1. applied' \in SUBSET Versions
    BY <1>1, PublishedValues DEF UpgradeInv, StartupTypeOK
  <2> QED
    BY <1>1, <1>3, <2>1 DEF UpgradeInv, StartupTypeOK, Points
<1>5. EventsInv' /\ InboxInv' /\ IdentityInv' /\ CompleteInv'
  BY <1>1, <1>3 DEF UpgradeInv, EventsInv, InboxInv, IdentityInv, CompleteInv, Events
<1>6. PointInv'
  BY <1>1, <1>2 DEF PointInv, UpgradePoints
<1>7. FreshInv' /\ PhaseInv' /\ ConvertInv' /\ CursorInv' /\ OverviewInv'
  BY <1>1, <1>2 DEF FreshInv, PhaseInv, ConvertInv, CursorInv, OverviewInv
<1> QED
  BY <1>4, <1>5, <1>6, <1>7 DEF UpgradeInv

LEMMA OutsideFinite ==
    ASSUME UpgradeInv
    PROVE  /\ IsFiniteSet(Events \ Ids) /\ Cardinality(Events \ Ids) \in Nat
           /\ IsFiniteSet(inbox) /\ Cardinality(inbox) \in Nat
           /\ IsFiniteSet(kept) /\ Cardinality(kept) \in Nat
           /\ Cardinality(kept) = Cardinality(inbox) + Cardinality(Events \ Ids)
<1>1. (Events \ Ids) \in SUBSET Numbered /\ IsFiniteSet(Numbered)
  BY DEF UpgradeInv, StartupTypeOK, EventsInv, Events
<1>2. inbox \in SUBSET kept /\ IsFiniteSet(kept)
  BY DEF UpgradeInv, InboxInv
<1>3. IsFiniteSet(Events \ Ids) /\ IsFiniteSet(inbox)
  BY <1>1, <1>2, FS_Subset
<1> QED
  BY <1>2, <1>3, FS_CardinalityType DEF UpgradeInv, InboxInv

LEMMA InsertStep ==
    ASSUME UpgradeInv, NEW m \in Messages, InsertMessage(m)
    PROVE  UpgradeInv'
<1>1. /\ m \notin kept /\ inbox' = inbox \cup {m} /\ kept' = kept \cup {m}
      /\ UNCHANGED <<identity, phase, schemaComplete, dataComplete, backup, fixed, cursors, tables,
                     applied, hot, archive, facts, cost, checkpoint, rollup, price, point,
                     shell, old, refused>>
  BY DEF InsertMessage, control, stored
<1>2. Numbered' = Numbered /\ Events' = Events
  BY <1>1 DEF Numbered, Events
<1>3. InboxInv'
  <2>1. m \notin inbox /\ inbox \subseteq kept
    BY <1>1 DEF UpgradeInv, InboxInv
  <2>2. /\ IsFiniteSet(kept') /\ Cardinality(kept') = Cardinality(kept) + 1
        /\ Cardinality(inbox') = Cardinality(inbox) + 1
    BY <1>1, <2>1, OutsideFinite, FS_AddElement
  <2>3. Cardinality(kept') = Cardinality(inbox') + Cardinality(Events \ Ids)
    BY <2>2, OutsideFinite
  <2>4. inbox' \subseteq kept'
    BY <1>1, <2>1
  <2> QED
    BY <1>2, <2>2, <2>3, <2>4 DEF InboxInv
<1>4. StartupTypeOK' /\ EventsInv' /\ IdentityInv'
  BY <1>1, <1>2 DEF UpgradeInv, StartupTypeOK, EventsInv, IdentityInv
<1>5. CompleteInv' /\ FreshInv' /\ PhaseInv'
  BY <1>1, <1>2 DEF UpgradeInv, CompleteInv, FreshInv, PhaseInv
<1>6. ConvertInv' /\ CursorInv' /\ OverviewInv'
  BY <1>1 DEF UpgradeInv, ConvertInv, CursorInv, OverviewInv, OverviewBound
<1>7. PointInv'
  BY <1>1 DEF UpgradeInv, PointInv, OverviewBound
<1> QED
  BY <1>3, <1>4, <1>5, <1>6, <1>7 DEF UpgradeInv

LEMMA ProcessStep ==
    ASSUME UpgradeInv, NEW m \in Messages, ProcessMessage(m)
    PROVE  UpgradeInv'
<1> DEFINE n == NewId(m)
<1>1. /\ point = "ready" /\ m \in inbox
      /\ inbox' = inbox \ {m} /\ hot' = hot \cup {n}
      /\ cost' = [i \in Numbered \cup {n} |-> IF i = n THEN price ELSE cost[i]]
      /\ facts' = [i \in DOMAIN facts \cup {n} |-> IF i = n THEN 1 ELSE facts[i]]
      /\ rollup' = [i \in DOMAIN rollup \cup {n} |-> IF i = n THEN 0 ELSE rollup[i]]
      /\ UNCHANGED <<identity, phase, schemaComplete, dataComplete, backup, fixed, cursors, tables,
                     applied, archive, checkpoint, kept, price, point, shell, old, refused>>
  BY DEF ProcessMessage, control, Numbered
<1>2. dataComplete
  BY <1>1 DEF UpgradeInv, PointInv
<1>3. /\ Numbered \subseteq Nat \ {0} /\ IsFiniteSet(Numbered) /\ Ids \subseteq Numbered
      /\ hot \subseteq Numbered /\ archive \subseteq Ids
      /\ checkpoint \in Numbered \cup {0}
      /\ facts \in [Numbered -> Nat] /\ cost \in [Numbered -> Costs]
      /\ rollup \in [Numbered \cup {0} -> Nat] /\ price \in {OldPrice, "new"}
      /\ hot \cap archive = {} /\ \A i \in archive : i <= checkpoint
  BY DEF UpgradeInv, StartupTypeOK, EventsInv, Ghost
<1>4. /\ n \in Nat \ {0} /\ n \notin Numbered /\ checkpoint < n /\ n # 0
      /\ \A i \in Numbered : i < n
  <2>1. Numbered \in SUBSET Nat
    BY <1>3
  <2>2. /\ MaxOf(Numbered) \in Nat /\ \A y \in Numbered : y <= MaxOf(Numbered)
    BY <1>3, <2>1, MaxOfFacts
  <2>3. n = MaxOf(Numbered) + 1
    BY DEF NewId, Numbered
  <2> HIDE DEF n
  <2>4. n \in Nat /\ n > 0 /\ \A y \in Numbered : y < n
    BY <2>1, <2>2, <2>3
  <2> QED
    BY <1>3, <2>1, <2>4
<1> HIDE DEF n
<1>5. Numbered' = Numbered \cup {n}
  BY <1>1 DEF Numbered
<1>6. /\ cost' \in [Numbered' -> Costs] /\ facts' \in [Numbered' -> Nat]
      /\ rollup' \in [Numbered' \cup {0} -> Nat]
      /\ \A i \in Numbered : cost'[i] = cost[i] /\ facts'[i] = facts[i]
      /\ \A i \in DOMAIN rollup : rollup'[i] = rollup[i]
      /\ rollup'[n] = 0 /\ facts'[n] = 1
  <2>1. cost' \in [Numbered' -> Costs]
    BY <1>1, <1>3, <1>5 DEF Costs
  <2>2. facts' \in [Numbered' -> Nat]
    BY <1>1, <1>3, <1>5
  <2>3. rollup' \in [Numbered' \cup {0} -> Nat]
    BY <1>1, <1>3, <1>5
  <2>4. /\ \A i \in Numbered : cost'[i] = cost[i] /\ facts'[i] = facts[i]
        /\ facts'[n] = 1
    BY <1>1, <1>3, <1>4
  <2>5. \A i \in DOMAIN rollup : rollup'[i] = rollup[i]
    BY <1>1, <1>3, <1>4
  <2>6. rollup'[n] = 0
    BY <1>1
  <2> QED
    BY <2>1, <2>2, <2>3, <2>4, <2>5, <2>6
<1>7. StartupTypeOK'
  <2>1. hot' \in SUBSET Numbered'
    BY <1>1, <1>3, <1>5
  <2> QED
    BY <1>1, <1>6, <2>1 DEF UpgradeInv, StartupTypeOK, Ghost
<1>8. EventsInv'
  <2>1. Numbered' \subseteq Nat \ {0} /\ IsFiniteSet(Numbered') /\ Ids \subseteq Numbered'
    BY <1>3, <1>4, <1>5, FS_AddElement
  <2>2. hot' \cap archive' = {}
    BY <1>1, <1>3, <1>4
  <2> QED
    BY <1>1, <1>3, <1>5, <2>1, <2>2 DEF EventsInv
<1>9. InboxInv'
  <2>1. Events' \ Ids = (Events \ Ids) \cup {n} /\ n \notin Events \ Ids
    BY <1>1, <1>3, <1>4 DEF Events
  <2>2. Cardinality(Events' \ Ids) = Cardinality(Events \ Ids) + 1
    BY <2>1, OutsideFinite, FS_AddElement
  <2>3. Cardinality(inbox') = Cardinality(inbox) - 1
    BY <1>1, OutsideFinite, FS_RemoveElement
  <2>4. Cardinality(kept) = Cardinality(inbox') + Cardinality(Events' \ Ids)
    BY <2>2, <2>3, OutsideFinite
  <2>5. inbox' \subseteq kept /\ IsFiniteSet(kept)
    BY <1>1 DEF UpgradeInv, InboxInv
  <2> QED
    BY <1>1, <2>4, <2>5 DEF InboxInv
<1>10. IdentityInv' /\ PointInv'
  BY <1>1, <1>2 DEF UpgradeInv, IdentityInv, PointInv, UpgradePoints
<1>11. CompleteInv'
  <2>1. /\ schemaComplete /\ phase = "data_complete"
        /\ \A i \in DOMAIN rollup :
              rollup[i] = IF i \in Events /\ i <= checkpoint THEN 1 ELSE 0
        /\ \A i \in Events \cap Ids : cost[i] = OldPrice
        /\ \A i \in hot : facts[i] = 1
    BY <1>2 DEF UpgradeInv, CompleteInv
  <2>2. Events' = Events \cup {n} /\ Events \subseteq Numbered
    BY <1>1, <1>3 DEF Events
  <2>3. ASSUME NEW i \in DOMAIN rollup'
        PROVE  rollup'[i] = IF i \in Events' /\ i <= checkpoint THEN 1 ELSE 0
    <3>1. CASE i = n
      BY <1>3, <1>4, <1>6, <3>1
    <3>2. CASE i # n
      <4>1. i \in DOMAIN rollup
        BY <1>1, <3>2
      <4>2. rollup'[i] = rollup[i]
        BY <1>6, <4>1
      <4>3. i \in Events' <=> i \in Events
        BY <2>2, <3>2
      <4> QED
        BY <2>1, <4>1, <4>2, <4>3
    <3> QED
      BY <3>1, <3>2
  <2>4. \A i \in Events' \cap Ids : cost'[i] = OldPrice
    BY <1>3, <1>4, <1>6, <2>1, <2>2
  <2>5. \A i \in hot' : facts'[i] = 1
    BY <1>1, <1>3, <1>6, <2>1
  <2> QED
    BY <1>1, <1>2, <2>1, <2>3, <2>4, <2>5 DEF CompleteInv
<1>12. FreshInv' /\ PhaseInv' /\ ConvertInv' /\ CursorInv' /\ OverviewInv'
  BY <1>1, <1>2 DEF FreshInv, PhaseInv, ConvertInv, CursorInv, OverviewInv
<1> QED
  BY <1>7, <1>8, <1>9, <1>10, <1>11, <1>12 DEF UpgradeInv

LEMMA AggregateStep ==
    ASSUME UpgradeInv, AggregateEvents
    PROVE  UpgradeInv'
<1> DEFINE page == Page(hot, checkpoint, MaxOf(hot))
<1>1. /\ point = "ready" /\ page # {}
      /\ checkpoint' = MaxOf(page)
      /\ rollup' = [i \in DOMAIN rollup |-> rollup[i] + IF i \in page THEN 1 ELSE 0]
      /\ UNCHANGED <<identity, phase, schemaComplete, dataComplete, backup, fixed, cursors, tables,
                     applied, hot, archive, facts, cost, inbox, kept, price, point, shell, old, refused>>
  BY DEF AggregateEvents, control, ingest
<1>2. dataComplete
  BY <1>1 DEF UpgradeInv, PointInv
<1>3. /\ MaxOf(page) \in hot /\ page \subseteq hot
      /\ \A i \in page : checkpoint < i
      /\ \A i \in hot : i \in page <=> checkpoint < i /\ i <= MaxOf(page)
  BY <1>1, Pointed, PageFacts
<1> HIDE DEF page
<1>4. /\ Numbered \subseteq Nat \ {0} /\ hot \subseteq Numbered /\ archive \subseteq Numbered
      /\ checkpoint \in Nat /\ hot \cap archive = {} /\ \A i \in archive : i <= checkpoint
      /\ rollup \in [Numbered \cup {Ghost} -> Nat]
  BY DEF UpgradeInv, StartupTypeOK, EventsInv
<1>5. /\ checkpoint' \in hot /\ checkpoint' \in Nat /\ checkpoint < checkpoint'
  <2>1. MaxOf(page) \in page
    BY <1>1, <1>3, <1>4, Pointed, PageFacts DEF page
  <2> QED
    BY <1>1, <1>3, <1>4, <2>1
<1>6. Numbered' = Numbered /\ Events' = Events
  BY <1>1 DEF Numbered, Events
<1>7. StartupTypeOK'
  <2>1. rollup' \in [Numbered \cup {Ghost} -> Nat]
    BY <1>1, <1>4
  <2> QED
    BY <1>1, <1>5, <1>6, <2>1 DEF UpgradeInv, StartupTypeOK
<1>8. EventsInv'
  <2>1. \A i \in archive : i <= checkpoint'
    BY <1>4, <1>5
  <2> QED
    BY <1>1, <1>4, <1>5, <1>6, <2>1 DEF UpgradeInv, EventsInv
<1>9. InboxInv' /\ IdentityInv'
  BY <1>1, <1>6 DEF UpgradeInv, InboxInv, IdentityInv
<1>10. PointInv'
  BY <1>1, <1>2 DEF UpgradeInv, PointInv, UpgradePoints
<1>11. CompleteInv'
  <2>1. /\ schemaComplete /\ phase = "data_complete"
        /\ \A i \in DOMAIN rollup :
              rollup[i] = IF i \in Events /\ i <= checkpoint THEN 1 ELSE 0
        /\ \A i \in Events \cap Ids : cost[i] = OldPrice
        /\ \A i \in hot : facts[i] = 1
    BY <1>2 DEF UpgradeInv, CompleteInv
  <2>2. ASSUME NEW i \in DOMAIN rollup
        PROVE  rollup'[i] = IF i \in Events /\ i <= checkpoint' THEN 1 ELSE 0
    <3>1. rollup'[i] = rollup[i] + IF i \in page THEN 1 ELSE 0
      BY <1>1
    <3>2. rollup[i] = IF i \in Events /\ i <= checkpoint THEN 1 ELSE 0
      BY <2>1
    <3>3. CASE i \in page
      <4>1. i \in hot /\ checkpoint < i /\ i <= checkpoint' /\ i \in Nat
        BY <1>1, <1>3, <1>4, <3>3
      <4>2. i \in Events /\ ~(i <= checkpoint)
        BY <1>4, <4>1 DEF Events
      <4>3. rollup[i] = 0
        BY <3>2, <4>2
      <4> QED
        BY <3>1, <3>3, <4>1, <4>2, <4>3
    <3>4. CASE i \notin page
      <4>1. rollup'[i] = rollup[i]
        BY <3>1, <3>2, <3>4
      <4>2. i \in Events => (i <= checkpoint' <=> i <= checkpoint)
        <5>1. ASSUME i \in hot PROVE i <= checkpoint' <=> i <= checkpoint
          <6>1. i \in Nat /\ ~(checkpoint < i /\ i <= checkpoint')
            BY <1>1, <1>3, <1>4, <3>4, <5>1
          <6> QED
            BY <1>4, <1>5, <6>1
        <5>2. ASSUME i \in archive PROVE i <= checkpoint' <=> i <= checkpoint
          <6>1. i \in Nat /\ i <= checkpoint
            BY <1>4, <5>2
          <6> QED
            BY <1>4, <1>5, <6>1
        <5> QED
          BY <5>1, <5>2 DEF Events
      <4> QED
        BY <3>2, <4>1, <4>2
    <3> QED
      BY <3>3, <3>4
  <2>3. DOMAIN rollup' = DOMAIN rollup
    BY <1>1
  <2> QED
    BY <1>1, <1>2, <1>6, <2>1, <2>2, <2>3 DEF CompleteInv
<1>12. FreshInv' /\ PhaseInv' /\ ConvertInv' /\ CursorInv' /\ OverviewInv'
  BY <1>1, <1>2 DEF FreshInv, PhaseInv, ConvertInv, CursorInv, OverviewInv
<1> QED
  BY <1>7, <1>8, <1>9, <1>10, <1>11, <1>12 DEF UpgradeInv

LEMMA RepriceStep ==
    ASSUME UpgradeInv, ChangePrice
    PROVE  UpgradeInv'
<1>1. /\ point = "ready" /\ price' = "new"
      /\ UNCHANGED <<identity, phase, schemaComplete, dataComplete, backup, fixed, cursors, tables,
                     applied, hot, archive, facts, cost, checkpoint, rollup, inbox, kept, point,
                     shell, old, refused>>
  BY DEF ChangePrice, control, stored, ingest
<1>2. dataComplete
  BY <1>1 DEF UpgradeInv, PointInv
<1>3. Numbered' = Numbered /\ Events' = Events
  BY <1>1 DEF Numbered, Events
<1>4. StartupTypeOK' /\ EventsInv' /\ InboxInv' /\ IdentityInv'
  BY <1>1, <1>3 DEF UpgradeInv, StartupTypeOK, EventsInv, InboxInv, IdentityInv
<1>5. CompleteInv' /\ PointInv'
  BY <1>1, <1>2, <1>3 DEF UpgradeInv, CompleteInv, PointInv, UpgradePoints
<1>6. FreshInv' /\ PhaseInv' /\ ConvertInv' /\ CursorInv' /\ OverviewInv'
  BY <1>1, <1>2 DEF FreshInv, PhaseInv, ConvertInv, CursorInv, OverviewInv
<1> QED
  BY <1>4, <1>5, <1>6 DEF UpgradeInv

LEMMA UpgradeSteps == UpgradeInv /\ [StartupNext]_startupVars => UpgradeInv'
<1> SUFFICES ASSUME UpgradeInv, [StartupNext]_startupVars PROVE UpgradeInv'
  OBVIOUS
<1>1. CASE UNCHANGED startupVars
  <2>1. /\ UNCHANGED <<identity, phase, schemaComplete, dataComplete, backup, fixed, cursors,
                       stored, inbox, kept, price, old, refused>>
        /\ UNCHANGED <<point, shell, applied, hot, checkpoint>>
    BY <1>1 DEF startupVars, control, stored, ingest
  <2>2. point \in Points /\ shell \in {"none", "opening", "migrating", "failed", "ready"}
    BY DEF UpgradeInv, StartupTypeOK
  <2>3. PointInv'
    BY <2>1 DEF UpgradeInv, PointInv, OverviewBound
  <2> QED
    BY <2>1, <2>2, <2>3, PointMoves
<1>2. CASE Listen \/ StatementFails \/ Stop \/ MoveBackup \/ Activate
  BY <1>2, RestartMoves DEF StartupNext
<1>3. CASE PriceEvents
  BY <1>3, PriceHotStep, PriceArchiveStep DEF PriceEvents
<1>4. CASE RebuildOverview
  BY <1>4, RebuildHotStep, RebuildArchiveStep DEF RebuildOverview
<1>5. CASE \E m \in Messages : InsertMessage(m) \/ ProcessMessage(m)
  BY <1>5, InsertStep, ProcessStep
<1> QED
  BY <1>1, <1>2, <1>3, <1>4, <1>5, BootstrapStep, IngestMoves, FreshSteps, ProtectStep,
     PublishedStep, PrepareStep, ReplayStep, RecordStep, VerifyStep, FixStep, StructureStep,
     MarkStep, BackfilledStep, BeginOverviewStep, VerifyDataStep, CompleteStep, CheckStep,
     RemainingStep, AggregateStep, RepriceStep
     DEF StartupNext

\* However often Initialize is interrupted and by whatever statement, and however
\* much usage arrives meanwhile, no database the upgrade has written is refused,
\* and once it is through every event was converted, priced and counted exactly
\* once.
THEOREM UpgradeIsSound == StartupSpec => []UpgradeSound
<1>1. UpgradeInv => UpgradeSound
  <2> SUFFICES ASSUME UpgradeInv PROVE UpgradeSound
    OBVIOUS
  <2>1. UpgradeNeverStuck
    BY DEF UpgradeInv, IdentityInv, UpgradeNeverStuck
  <2>2. UpgradeExact
    BY DEF UpgradeInv, PointInv, CompleteInv, InboxInv, UpgradeExact
  <2> QED
    BY <2>1, <2>2 DEF UpgradeSound
<1> QED
  BY UpgradeInit, UpgradeSteps, <1>1, PTL DEF StartupSpec
=============================================================================
