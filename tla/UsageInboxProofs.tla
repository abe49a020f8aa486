-------------------------- MODULE UsageInboxProofs --------------------------
(***************************************************************************)
(* Proofs about UsageInbox, for every number of instances and messages,    *)
(* every batch size, retry budget and number of crashes.                   *)
(*                                                                         *)
(* ExactlyOnce is not inductive alone: the committing transaction adds an  *)
(* event to rows listed several statements earlier, so the invariant has   *)
(* to say what is still true of the rows the runner holds in memory        *)
(* although the cleanup ran in between (BatchInv), and that every failure  *)
(* mark recorded since the last sleep is settled or makes the runner wait  *)
(* (TriedInv).  That the Legacy rows are in order needs the same of the    *)
(* held batches and of CPA's queue, each behind the other (OrderInv).      *)
(***************************************************************************)
EXTENDS UsageInbox, SequenceTheorems, FiniteSetTheorems, TLAPS

\* A row of the running batch: nothing was counted for it yet, and nobody
\* settled it; at most the cleanup deleted it.
Open(r) ==
    /\ r \in DOMAIN inbox
    /\ inbox[r].events = 0
    /\ inbox[r].status \in Retryable \cup {"deleted"}

BatchInv ==
    /\ \A r \in todo : Open(r)
    /\ \A r \in failing : Open(r)
    /\ pc # "notify" => \A r \in valid : Open(r)
    /\ pc = "notify" => \A r \in valid : inbox[r].events = 1
    /\ todo \cap valid = {}
    /\ failing \cap valid = {}
    /\ pc \in {"idle", "sleep"} => todo = {} /\ valid = {} /\ failing = {} /\ ~retry
    /\ pc \in {"decode", "resolve"} => failing = {} /\ ~retry
    /\ pc # "decode" => todo = {}
    /\ pc \in {"commit", "notify"} => failing = {}

TriedInv ==
    /\ tried \cap (todo \cup valid \cup failing) = {}
    /\ pc # "sleep" /\ ~retry => \A r \in tried : inbox[r].status \notin Retryable

RowInv == ExactlyOnce /\ RetryBudget /\ NotifiedAreCommitted

Inv == TypeOK /\ RowInv /\ BatchInv /\ TriedInv

-----------------------------------------------------------------------------
(* Lemmas about the inbox table.                                           *)

\* Replacing one row keeps the table's shape.
LEMMA UpdateRow ==
    ASSUME NEW s \in Seq(Rows), NEW r \in DOMAIN s, NEW row \in Rows
    PROVE  /\ [s EXCEPT ![r] = row] \in Seq(Rows)
           /\ DOMAIN [s EXCEPT ![r] = row] = DOMAIN s
  BY DEF Rows

\* Inserting a batch appends pending rows and leaves the others alone.
LEMMA InsertRows ==
    ASSUME NEW s \in Seq(Rows), NEW msgs \in Seq(Messages), NEW inst \in Instances
    PROVE  LET t == s \o NewRows(msgs, inst)
           IN  /\ t \in Seq(Rows)
               /\ DOMAIN s \subseteq DOMAIN t
               /\ \A r \in DOMAIN s : t[r] = s[r]
               /\ \A r \in DOMAIN t \ DOMAIN s :
                     t[r].status = "pending" /\ t[r].attempts = 0 /\ t[r].events = 0
<1> DEFINE n == NewRows(msgs, inst)
<1>1. n \in Seq(Rows) /\ Len(n) = Len(msgs)
  <2>1. Len(msgs) \in Nat /\ \A i \in 1..Len(msgs) : msgs[i] \in Messages
    BY ElementOfSeq, LenProperties
  <2>2. \A i \in 1..Len(msgs) : n[i] \in Rows
    BY <2>1 DEF NewRows, Rows, Statuses, Retryable
  <2>3. n = [i \in 1..Len(msgs) |-> n[i]]
    BY DEF NewRows
  <2> HIDE DEF n
  <2>4. n \in Seq(Rows)
    BY <2>1, <2>2, <2>3, IsASeq
  <2>5. DOMAIN n = 1..Len(msgs)
    BY <2>3
  <2>6. DOMAIN n = 1..Len(n) /\ Len(n) \in Nat
    BY <2>4, LenProperties
  <2> QED BY <2>1, <2>4, <2>5, <2>6
<1>2. \A i \in 1..Len(n) : n[i].status = "pending" /\ n[i].attempts = 0 /\ n[i].events = 0
  BY <1>1 DEF NewRows
<1> HIDE DEF n
<1>3. /\ s \o n \in Seq(Rows)
      /\ Len(s \o n) = Len(s) + Len(n)
      /\ \A i \in 1..Len(s) + Len(n) :
            (s \o n)[i] = IF i <= Len(s) THEN s[i] ELSE n[i - Len(s)]
  BY <1>1, ConcatProperties
<1>4. /\ Len(s) \in Nat /\ DOMAIN s = 1..Len(s)
      /\ Len(n) \in Nat /\ DOMAIN (s \o n) = 1..Len(s \o n)
  BY <1>1, <1>3, LenProperties
<1>5. DOMAIN s \subseteq DOMAIN (s \o n)
  BY <1>3, <1>4
<1>6. \A r \in DOMAIN s : (s \o n)[r] = s[r]
  BY <1>3, <1>4
<1>7. \A r \in DOMAIN (s \o n) \ DOMAIN s : r - Len(s) \in 1..Len(n) /\ (s \o n)[r] = n[r - Len(s)]
  BY <1>3, <1>4
<1> QED BY <1>2, <1>3, <1>5, <1>6, <1>7 DEF n

\* The rows a batch lists are rows of the table that may be tried.
LEMMA ListedRows ==
    ASSUME NEW inst, NEW r \in Oldest(Processable(inst))
    PROVE  r \in DOMAIN inbox /\ inbox[r].status \in Retryable
  BY DEF Oldest, Processable
-----------------------------------------------------------------------------
(* The inductive invariant.                                                *)

LEMMA InitInv == Init => Inv
<1> SUFFICES ASSUME Init PROVE Inv
  OBVIOUS
<1> USE DEF Init
<1>1. DOMAIN inbox = {}
  OBVIOUS
<1>2. TypeOK
  <2>1. <<>> \in Seq(Messages) /\ <<>> \in Seq(Seq(Messages)) /\ <<>> \in Seq(Rows)
    BY EmptySeq
  <2>2. nextMsg \in Nat \ {0} /\ crashes \in Nat
    OBVIOUS
  <2> QED BY <2>1, <2>2 DEF TypeOK, Points, Continuations
<1>3. RowInv /\ BatchInv /\ TriedInv
  BY <1>1 DEF RowInv, ExactlyOnce, RetryBudget, NotifiedAreCommitted,
              BatchInv, TriedInv
<1> QED BY <1>2, <1>3 DEF Inv

\* A step that only adds pending rows keeps the invariant of the rows.
LEMMA GrowInv ==
    ASSUME Inv, NEW msgs \in Seq(Messages), NEW inst \in Instances,
           inbox' = inbox \o NewRows(msgs, inst),
           UNCHANGED <<workerVars, notified>>
    PROVE  /\ inbox' \in Seq(Rows) /\ DOMAIN inbox \subseteq DOMAIN inbox'
           /\ RowInv' /\ BatchInv' /\ TriedInv'
<1>1. inbox \in Seq(Rows)
  BY DEF Inv, TypeOK
<1>2. /\ inbox' \in Seq(Rows) /\ DOMAIN inbox \subseteq DOMAIN inbox'
      /\ \A r \in DOMAIN inbox : inbox'[r] = inbox[r]
      /\ \A r \in DOMAIN inbox' \ DOMAIN inbox :
            /\ inbox'[r].status = "pending"
            /\ inbox'[r].attempts = 0
            /\ inbox'[r].events = 0
  BY <1>1, InsertRows
<1>3. RowInv'
  <2>1. ExactlyOnce'
    BY <1>2 DEF Inv, RowInv, ExactlyOnce
  <2>2. 0 < MaxAttempts
    BY InboxAssumption
  <2>3. RetryBudget'
    BY <1>2, <2>2 DEF Inv, RowInv, RetryBudget
  <2>4. NotifiedAreCommitted'
    BY <1>2 DEF Inv, TypeOK, RowInv, NotifiedAreCommitted
  <2> QED BY <2>1, <2>3, <2>4 DEF RowInv
<1>4. BatchInv'
  BY <1>2 DEF Inv, TypeOK, BatchInv, Open, workerVars
<1>5. TriedInv'
  BY <1>2 DEF Inv, TypeOK, TriedInv, workerVars
<1> QED BY <1>2, <1>3, <1>4, <1>5

\* A step that leaves the table and the runner alone keeps their invariant.
LEMMA FrameInv ==
    ASSUME Inv, UNCHANGED <<inbox, workerVars, notified>>
    PROVE  RowInv' /\ BatchInv' /\ TriedInv'
<1>1. RowInv'
  BY DEF Inv, RowInv, ExactlyOnce, RetryBudget, NotifiedAreCommitted
<1>2. BatchInv'
  BY DEF Inv, BatchInv, Open, workerVars
<1>3. TriedInv'
  BY DEF Inv, TriedInv, workerVars
<1> QED BY <1>1, <1>2, <1>3

\* Taking n messages off the remote queue.
LEMMA PopType ==
    ASSUME TypeOK, NEW n \in 1..Len(remote), Pop(n)
    PROVE  /\ remote' \in Seq(Messages) /\ nextMsg' \in Nat \ {0}
           /\ Popped(n) \in Seq(Messages)
           /\ \A i \in 1..n : remote[i] \in Messages
<1>1. remote \in Seq(Messages) /\ Len(remote) \in Nat
  BY LenProperties DEF TypeOK
<1>2. \A i \in 1..n : remote[i] \in Messages
  BY <1>1, ElementOfSeq
<1>3. Popped(n) \in Seq(Messages)
  BY <1>1, SubSeqProperties DEF Popped
<1>4. SubSeq(remote, n + 1, Len(remote)) \in Seq(Messages)
  BY <1>1, SubSeqProperties
<1> QED BY <1>2, <1>3, <1>4 DEF Pop, TypeOK

LEMMA IngestInv == Inv /\ Ingest => Inv'
<1> SUFFICES ASSUME Inv, Ingest PROVE Inv'
  OBVIOUS
<1>t. TypeOK
  BY DEF Inv
<1>1. CASE Produce
  <2>1. RowInv' /\ BatchInv' /\ TriedInv'
    BY <1>1, FrameInv DEF Produce
  <2>2. nextMsg \in Messages
    BY <1>1, <1>t, InboxAssumption DEF Produce, TypeOK, Messages
  <2>3. TypeOK'
    BY <1>1, <1>t, <2>2, AppendProperties DEF Produce, TypeOK, workerVars
  <2> QED BY <2>1, <2>3 DEF Inv
<1>2. CASE Pull
  <2>1. RowInv' /\ BatchInv' /\ TriedInv'
    BY <1>2, FrameInv DEF Pull
  <2>2. PICK n \in 1..Len(remote) : Pop(n) /\ held' = Append(held, Popped(n))
    <3>1. remote \in Seq(Messages) /\ remote # <<>>
      BY <1>2, <1>t DEF Pull, TypeOK
    <3>2. Len(remote) \in Nat \ {0}
      BY <3>1, EmptySeq, LenProperties
    <3> QED BY <1>2, <3>2, InboxAssumption DEF Pull
  <2>3. remote' \in Seq(Messages) /\ nextMsg' \in Nat \ {0} /\ Popped(n) \in Seq(Messages)
    BY <1>t, <2>2, PopType
  <2>4. held' \in Seq(Seq(Messages))
    BY <1>t, <2>2, <2>3, AppendProperties DEF TypeOK
  <2>5. TypeOK'
    BY <1>2, <1>t, <2>3, <2>4 DEF Pull, TypeOK, workerVars
  <2> QED BY <2>1, <2>5 DEF Inv
<1>3. CASE Subscribe
  <2>1. RowInv' /\ BatchInv' /\ TriedInv'
    BY <1>3, FrameInv DEF Subscribe
  <2>2. PICK n \in 1..Len(remote) : Pop(n) /\ held' = Append(held, Popped(n))
    BY <1>3 DEF Subscribe
  <2>3. remote' \in Seq(Messages) /\ nextMsg' \in Nat \ {0} /\ Popped(n) \in Seq(Messages)
    BY <1>t, <2>2, PopType
  <2>4. held' \in Seq(Seq(Messages))
    BY <1>t, <2>2, <2>3, AppendProperties DEF TypeOK
  <2>5. TypeOK'
    BY <1>3, <1>t, <2>3, <2>4 DEF Subscribe, TypeOK, workerVars
  <2> QED BY <2>1, <2>5 DEF Inv
<1>4. CASE LoseReply
  <2>1. RowInv' /\ BatchInv' /\ TriedInv'
    BY <1>4, FrameInv DEF LoseReply
  <2>2. PICK n \in 1..Len(remote) :
           Pop(n) /\ lost' = lost \cup {remote[i] : i \in 1..n}
    BY <1>4 DEF LoseReply
  <2>3. /\ remote' \in Seq(Messages) /\ nextMsg' \in Nat \ {0}
        /\ \A i \in 1..n : remote[i] \in Messages
    BY <1>t, <2>2, PopType
  <2>4. TypeOK'
    BY <1>4, <1>t, <2>2, <2>3 DEF LoseReply, TypeOK, workerVars
  <2> QED BY <2>1, <2>4 DEF Inv
<1>5. CASE InsertHeld
  <2>1. Head(held) \in Seq(Messages) /\ Tail(held) \in Seq(Seq(Messages))
    BY <1>5, <1>t, HeadTailProperties DEF InsertHeld, TypeOK
  <2>2. /\ inbox' \in Seq(Rows) /\ DOMAIN inbox \subseteq DOMAIN inbox'
        /\ RowInv' /\ BatchInv' /\ TriedInv'
    BY <1>5, <2>1, GrowInv, InboxAssumption DEF InsertHeld
  <2>3. TypeOK'
    BY <1>5, <1>t, <2>1, <2>2 DEF InsertHeld, TypeOK, workerVars, remoteVars
  <2> QED BY <2>2, <2>3 DEF Inv
<1>6. CASE \E inst \in Instances \ {Legacy} : Push(inst)
  <2>1. PICK inst \in Instances : Push(inst)
    BY <1>6
  <2>2. <<nextMsg>> \in Seq(Messages)
    BY <2>1, <1>t, InboxAssumption DEF Push, TypeOK, Messages
  <2>3. /\ inbox' \in Seq(Rows) /\ DOMAIN inbox \subseteq DOMAIN inbox'
        /\ RowInv' /\ BatchInv' /\ TriedInv'
    BY <2>1, <2>2, GrowInv DEF Push
  <2>4. TypeOK'
    BY <2>1, <1>t, <2>3 DEF Push, TypeOK, workerVars
  <2> QED BY <2>3, <2>4 DEF Inv
<1> QED BY <1>1, <1>2, <1>3, <1>4, <1>5, <1>6 DEF Ingest

\* What a step of the process runner that leaves the table alone must show.
LEMMA RunnerFrame ==
    ASSUME Inv, UNCHANGED <<remoteVars, held, lost, inbox, crashes, gone>>
    PROVE  /\ ExactlyOnce' /\ RetryBudget'
           /\ \A r : Open(r) => Open(r)'
           /\ \A r \in DOMAIN inbox : inbox'[r] = inbox[r]
           /\ (/\ pc' \in Points /\ after' \in Continuations
               /\ todo' \subseteq DOMAIN inbox /\ valid' \subseteq DOMAIN inbox
               /\ failing' \subseteq DOMAIN inbox /\ tried' \subseteq DOMAIN inbox
               /\ notified' \subseteq DOMAIN inbox
               /\ full' \in BOOLEAN /\ retry' \in BOOLEAN) => TypeOK'
  BY DEF Inv, RowInv, ExactlyOnce, RetryBudget, Open, TypeOK, remoteVars

\* A batch that ends keeps the invariant when the runner sleeps, or when no
\* tried row is left to retry.
LEMMA EndBatchInv ==
    ASSUME Inv, UNCHANGED <<remoteVars, held, lost, inbox, tried, crashes, gone>>,
           \A r \in notified' : r \in DOMAIN inbox /\ inbox[r].events = 1,
           NEW next \in {"idle", "sleep"}, EndBatch(next),
           next = "idle" => \A r \in tried : inbox[r].status \notin Retryable
    PROVE  Inv'
<1>1. TypeOK'
  BY RunnerFrame DEF Inv, TypeOK, EndBatch, Points, Continuations
<1>2. RowInv'
  BY RunnerFrame DEF Inv, RowInv, NotifiedAreCommitted
<1>3. BatchInv'
  BY DEF BatchInv, EndBatch
<1>4. TriedInv'
  BY DEF TriedInv, EndBatch
<1> QED BY <1>1, <1>2, <1>3, <1>4 DEF Inv

LEMMA FinishInv ==
    ASSUME Inv, UNCHANGED <<remoteVars, held, lost, inbox, tried, crashes, gone>>,
           \A r \in notified' : r \in DOMAIN inbox /\ inbox[r].events = 1,
           pc # "sleep", Finish
    PROVE  Inv'
<1>1. CASE full /\ ~retry
  <2>1. \A r \in tried : inbox[r].status \notin Retryable
    BY <1>1 DEF Inv, TriedInv
  <2>2. EndBatch("idle")
    BY <1>1 DEF Finish
  <2> QED BY <2>1, <2>2, EndBatchInv
<1>2. CASE ~(full /\ ~retry)
  <2>1. EndBatch("sleep")
    BY <1>2 DEF Finish
  <2> QED BY <2>1, EndBatchInv
<1> QED BY <1>1, <1>2

\* The listeners know only committed rows, before and after a step that tells
\* them nothing.
LEMMA NotifiedFrame ==
    ASSUME Inv, UNCHANGED notified
    PROVE  \A r \in notified' : r \in DOMAIN inbox /\ inbox[r].events = 1
  BY DEF Inv, TypeOK, RowInv, NotifiedAreCommitted

LEMMA ProcessReadInv ==
    ASSUME Inv,
           \/ ListBatch \/ ListEmpty \/ DecodeValid \/ DecodeMarkError
           \/ DecodeDone \/ Resolve \/ ResolveError \/ MarkFailedError
           \/ MarkDone \/ CommitError \/ Notify \/ Wake
    PROVE  Inv'
<1> USE DEF Points, Continuations
<1>1. CASE ListBatch
  <2> USE <1>1 DEF ListBatch
  <2>1. PICK inst \in BatchInstances : todo' = Oldest(Processable(inst))
    OBVIOUS
  <2>2. \A r \in todo' : r \in DOMAIN inbox /\ inbox[r].status \in Retryable
    BY <2>1, ListedRows
  <2>3. \A r \in todo' : Open(r)
    BY <2>2 DEF Inv, RowInv, ExactlyOnce, Open
  <2>4. tried \cap todo' = {}
    BY <2>2 DEF Inv, TriedInv, BatchInv
  <2>5. TypeOK'
    BY <2>2, RunnerFrame DEF Inv, TypeOK
  <2>6. RowInv'
    BY RunnerFrame DEF Inv, RowInv, NotifiedAreCommitted
  <2>7. BatchInv'
    BY <2>3, RunnerFrame DEF Inv, BatchInv
  <2>8. TriedInv'
    BY <2>4 DEF Inv, TriedInv, BatchInv
  <2> QED BY <2>5, <2>6, <2>7, <2>8 DEF Inv
<1>2. CASE ListEmpty
  BY <1>2, EndBatchInv, NotifiedFrame DEF ListEmpty
<1>3. CASE DecodeValid
  <2> USE <1>3 DEF DecodeValid
  <2>1. PICK r \in todo : todo' = todo \ {r} /\ valid' = valid \cup {r}
    BY DEF Lowest
  <2>2. TypeOK'
    BY <2>1, RunnerFrame DEF Inv, TypeOK
  <2>3. RowInv'
    BY RunnerFrame DEF Inv, RowInv, NotifiedAreCommitted
  <2>4. BatchInv'
    BY <2>1, RunnerFrame DEF Inv, BatchInv
  <2>5. TriedInv'
    BY <2>1 DEF Inv, TriedInv
  <2> QED BY <2>2, <2>3, <2>4, <2>5 DEF Inv
<1>4. CASE DecodeMarkError
  BY <1>4, EndBatchInv, NotifiedFrame DEF DecodeMarkError
<1>5. CASE DecodeDone
  <2>1. CASE valid = {}
    BY <1>5, <2>1, FinishInv, NotifiedFrame DEF DecodeDone
  <2>2. CASE valid # {}
    <3> USE <1>5, <2>2 DEF DecodeDone
    <3>1. TypeOK'
      BY RunnerFrame DEF Inv, TypeOK
    <3>2. RowInv'
      BY RunnerFrame DEF Inv, RowInv, NotifiedAreCommitted
    <3>3. BatchInv'
      BY RunnerFrame DEF Inv, BatchInv
    <3>4. TriedInv'
      BY DEF Inv, TriedInv
    <3> QED BY <3>1, <3>2, <3>3, <3>4 DEF Inv
  <2> QED BY <2>1, <2>2
<1>6. CASE Resolve
  <2> USE <1>6 DEF Resolve
  <2>1. TypeOK'
    BY RunnerFrame DEF Inv, TypeOK
  <2>2. RowInv'
    BY RunnerFrame DEF Inv, RowInv, NotifiedAreCommitted
  <2>3. BatchInv'
    BY RunnerFrame DEF Inv, BatchInv
  <2>4. TriedInv'
    BY DEF Inv, TriedInv
  <2> QED BY <2>1, <2>2, <2>3, <2>4 DEF Inv
<1>7. CASE ResolveError
  <2> USE <1>7 DEF ResolveError
  <2>1. TypeOK'
    BY RunnerFrame DEF Inv, TypeOK, Unresolved
  <2>2. RowInv'
    BY RunnerFrame DEF Inv, RowInv, NotifiedAreCommitted
  <2>3. BatchInv'
    BY RunnerFrame DEF Inv, BatchInv, Unresolved
  <2>4. TriedInv'
    BY DEF Inv, TriedInv, Unresolved
  <2> QED BY <2>1, <2>2, <2>3, <2>4 DEF Inv
<1>8. CASE MarkFailedError
  <2> USE <1>8 DEF MarkFailedError
  <2>1. PICK r \in failing : failing' = failing \ {r}
    BY DEF Lowest
  <2>2. TypeOK'
    BY <2>1, RunnerFrame DEF Inv, TypeOK
  <2>3. RowInv'
    BY RunnerFrame DEF Inv, RowInv, NotifiedAreCommitted
  <2>4. BatchInv'
    BY <2>1, RunnerFrame DEF Inv, BatchInv
  <2>5. TriedInv'
    BY <2>1 DEF Inv, TriedInv
  <2> QED BY <2>2, <2>3, <2>4, <2>5 DEF Inv
<1>9. CASE MarkDone
  <2>1. CASE after = "commit"
    <3> USE <1>9, <2>1 DEF MarkDone
    <3>1. TypeOK'
      BY RunnerFrame DEF Inv, TypeOK
    <3>2. RowInv'
      BY RunnerFrame DEF Inv, RowInv, NotifiedAreCommitted
    <3>3. BatchInv'
      BY RunnerFrame DEF Inv, BatchInv
    <3>4. TriedInv'
      BY DEF Inv, TriedInv
    <3> QED BY <3>1, <3>2, <3>3, <3>4 DEF Inv
  <2>2. CASE after # "commit"
    BY <1>9, <2>2, EndBatchInv, NotifiedFrame DEF MarkDone
  <2> QED BY <2>1, <2>2
<1>10. CASE CommitError
  <2> USE <1>10 DEF CommitError
  <2>1. TypeOK'
    BY RunnerFrame DEF Inv, TypeOK
  <2>2. RowInv'
    BY RunnerFrame DEF Inv, RowInv, NotifiedAreCommitted
  <2>3. BatchInv'
    BY RunnerFrame DEF Inv, BatchInv
  <2>4. TriedInv'
    BY DEF Inv, TriedInv
  <2> QED BY <2>1, <2>2, <2>3, <2>4 DEF Inv
<1>11. CASE Notify
  <2>1. \A r \in notified' : r \in DOMAIN inbox /\ inbox[r].events = 1
    BY <1>11 DEF Notify, Inv, TypeOK, RowInv, NotifiedAreCommitted, BatchInv
  <2> QED BY <1>11, <2>1, FinishInv DEF Notify
<1>12. CASE Wake
  <2> USE <1>12 DEF Wake
  <2>1. TypeOK'
    BY RunnerFrame DEF Inv, TypeOK
  <2>2. RowInv'
    BY RunnerFrame DEF Inv, RowInv, NotifiedAreCommitted
  <2>3. BatchInv'
    BY RunnerFrame DEF Inv, BatchInv
  <2>4. TriedInv'
    BY DEF TriedInv
  <2> QED BY <2>1, <2>2, <2>3, <2>4 DEF Inv
<1> QED BY <1>1, <1>2, <1>3, <1>4, <1>5, <1>6, <1>7, <1>8, <1>9, <1>10,
           <1>11, <1>12

\* What is required of a row a step writes.
RowOK(row) ==
    /\ row.events <= 1
    /\ row.status = "processed" => row.events = 1
    /\ row.status \in Retryable \cup {"decode_failed", "discarded"} => row.events = 0
    /\ row.status = "discarded" => row.attempts = MaxAttempts
    /\ row.status \in Retryable => row.attempts < MaxAttempts

\* One row changes; the table stays well formed and the other rows stay.
LEMMA OneRow ==
    ASSUME Inv, NEW r \in DOMAIN inbox, NEW row \in Rows, RowOK(row),
           inbox' = [inbox EXCEPT ![r] = row]
    PROVE  /\ inbox' \in Seq(Rows) /\ DOMAIN inbox' = DOMAIN inbox
           /\ inbox'[r] = row
           /\ \A q \in DOMAIN inbox : q # r => inbox'[q] = inbox[q]
           /\ ExactlyOnce' /\ RetryBudget'
<1>1. inbox' \in Seq(Rows) /\ DOMAIN inbox' = DOMAIN inbox
  BY UpdateRow DEF Inv, TypeOK
<1>2. inbox'[r] = row /\ \A q \in DOMAIN inbox : q # r => inbox'[q] = inbox[q]
  OBVIOUS
<1>3. ExactlyOnce'
  BY <1>1, <1>2 DEF Inv, RowInv, ExactlyOnce, RowOK
<1>4. RetryBudget'
  BY <1>1, <1>2 DEF Inv, RowInv, RetryBudget, RowOK
<1> QED BY <1>1, <1>2, <1>3, <1>4

LEMMA RowType ==
    ASSUME Inv, NEW r \in DOMAIN inbox
    PROVE  inbox[r] \in Rows /\ RowOK(inbox[r])
<1>1. inbox[r] \in Rows
  BY ElementOfSeq, LenProperties DEF Inv, TypeOK
<1> QED BY <1>1 DEF Inv, RowInv, ExactlyOnce, RetryBudget, RowOK

LEMMA DecodeMalformedInv == Inv /\ DecodeMalformed => Inv'
<1> SUFFICES ASSUME Inv, DecodeMalformed PROVE Inv'
  OBVIOUS
<1> USE DEF DecodeMalformed
<1>1. PICK r \in todo : todo' = todo \ {r} /\ inbox' = [inbox EXCEPT ![r] = DecodeFailed(@)]
  BY DEF Lowest
<1>2. Open(r) /\ r \notin valid /\ r \notin tried
  BY DEF Inv, BatchInv, TriedInv
<1> DEFINE row == DecodeFailed(inbox[r])
<1>3. inbox[r] \in Rows /\ RowOK(inbox[r])
  BY <1>2, RowType DEF Open
<1>4. /\ row \in Rows /\ row.events = 0
      /\ row.status \in {"decode_failed", "deleted"}
  <2>1. inbox[r].attempts + 1 \in Nat /\ "decode_failed" \in Statuses
    BY <1>3 DEF Rows, Statuses
  <2>2. CASE inbox[r].status = "deleted"
    BY <1>2, <1>3, <2>2 DEF DecodeFailed, Open
  <2>3. CASE inbox[r].status # "deleted"
    <3>1. row = [inbox[r] EXCEPT !.status = "decode_failed",
                                 !.attempts = inbox[r].attempts + 1]
      BY <2>3 DEF DecodeFailed
    <3> HIDE DEF row
    <3>2. row \in Rows /\ row.status = "decode_failed" /\ row.events = inbox[r].events
      BY <1>3, <2>1, <3>1 DEF Rows
    <3> QED BY <1>2, <3>2 DEF Open
  <2> QED BY <2>2, <2>3
<1>5. RowOK(row)
  BY <1>4 DEF RowOK, Retryable
<1>6. inbox' = [inbox EXCEPT ![r] = row]
  BY <1>1
<1> HIDE DEF row
<1>7. /\ inbox' \in Seq(Rows) /\ DOMAIN inbox' = DOMAIN inbox
      /\ inbox'[r] = row
      /\ \A q \in DOMAIN inbox : q # r => inbox'[q] = inbox[q]
      /\ ExactlyOnce' /\ RetryBudget'
  BY <1>2, <1>4, <1>5, <1>6, OneRow DEF Open
<1>8. TypeOK'
  BY <1>1, <1>7 DEF Inv, TypeOK, remoteVars
<1>9. NotifiedAreCommitted'
  BY <1>2, <1>7 DEF Inv, TypeOK, RowInv, NotifiedAreCommitted, Open
<1>10. BatchInv'
  BY <1>1, <1>2, <1>7 DEF Inv, TypeOK, BatchInv, Open
<1>11. TriedInv'
  BY <1>1, <1>2, <1>7 DEF Inv, TypeOK, TriedInv
<1> QED BY <1>7, <1>8, <1>9, <1>10, <1>11 DEF Inv, RowInv

LEMMA MarkFailedInv == Inv /\ MarkFailed => Inv'
<1> SUFFICES ASSUME Inv, MarkFailed PROVE Inv'
  OBVIOUS
<1> USE DEF MarkFailed
<1>1. PICK r \in failing, readable \in BOOLEAN :
         /\ failing' = failing \ {r}
         /\ inbox' = [inbox EXCEPT ![r] = ProcessFailed(inbox[r])]
         /\ tried' = tried \cup {r}
         /\ retry' = (retry \/ ~readable \/ ProcessFailed(inbox[r]).status # "discarded")
  BY DEF Lowest
<1>2. Open(r) /\ r \notin valid /\ r \notin tried /\ todo = {}
  BY DEF Inv, BatchInv, TriedInv
<1> DEFINE row == ProcessFailed(inbox[r])
<1>3. inbox[r] \in Rows /\ RowOK(inbox[r])
  BY <1>2, RowType DEF Open
<1>4. /\ row \in Rows /\ row.events = 0
      /\ row.status \in {"process_failed", "discarded", "deleted"}
  <2>1. /\ inbox[r].attempts + 1 \in Nat
        /\ "discarded" \in Statuses /\ "process_failed" \in Statuses
    BY <1>3 DEF Rows, Statuses, Retryable
  <2>2. CASE inbox[r].status = "deleted"
    BY <1>2, <1>3, <2>2 DEF ProcessFailed, Open
  <2>3. CASE inbox[r].status # "deleted"
    <3> DEFINE status == IF inbox[r].attempts + 1 >= MaxAttempts
                         THEN "discarded" ELSE "process_failed"
    <3>1. row = [inbox[r] EXCEPT !.status = status,
                                 !.attempts = inbox[r].attempts + 1]
      BY <2>3 DEF ProcessFailed
    <3>2. status \in Statuses /\ status \in {"discarded", "process_failed"}
      BY <2>1
    <3> HIDE DEF row, status
    <3>3. row \in Rows /\ row.status = status /\ row.events = inbox[r].events
      BY <1>3, <2>1, <3>1, <3>2 DEF Rows
    <3> QED BY <1>2, <3>2, <3>3 DEF Open
  <2> QED BY <2>2, <2>3
<1>5. RowOK(row)
  <2>1. CASE inbox[r].status = "deleted"
    BY <1>3, <2>1 DEF ProcessFailed
  <2>2. CASE inbox[r].status # "deleted"
    <3>1. inbox[r].attempts \in Nat /\ inbox[r].attempts < MaxAttempts /\ inbox[r].events = 0
      BY <1>2, <1>3, <2>2 DEF Open, RowOK, Rows
    <3>2. row.attempts = inbox[r].attempts + 1
      BY <1>3, <2>2 DEF ProcessFailed, Rows
    <3>3. row.status = IF row.attempts >= MaxAttempts THEN "discarded" ELSE "process_failed"
      BY <1>3, <2>2, <3>2 DEF ProcessFailed, Rows
    <3> QED BY <1>4, <3>1, <3>2, <3>3, InboxAssumption DEF RowOK, Retryable
  <2> QED BY <2>1, <2>2
<1>6. inbox' = [inbox EXCEPT ![r] = row]
  BY <1>1
<1>7. retry' = (retry \/ ~readable \/ row.status # "discarded")
  BY <1>1
<1> HIDE DEF row
<1>8. /\ inbox' \in Seq(Rows) /\ DOMAIN inbox' = DOMAIN inbox
      /\ inbox'[r] = row
      /\ \A q \in DOMAIN inbox : q # r => inbox'[q] = inbox[q]
      /\ ExactlyOnce' /\ RetryBudget'
  BY <1>2, <1>4, <1>5, <1>6, OneRow DEF Open
<1>9. TypeOK'
  BY <1>1, <1>7, <1>8 DEF Inv, TypeOK, remoteVars
<1>10. NotifiedAreCommitted'
  BY <1>2, <1>8 DEF Inv, TypeOK, RowInv, NotifiedAreCommitted, Open
<1>11. BatchInv'
  BY <1>1, <1>2, <1>8 DEF Inv, TypeOK, BatchInv, Open
<1>12. TriedInv'
  <2>1. tried' \cap (todo' \cup valid' \cup failing') = {}
    BY <1>1, <1>2 DEF Inv, TriedInv
  <2>2. ~retry' => row.status \notin Retryable /\ ~retry
    BY <1>7 DEF Retryable
  <2>3. ~retry' => \A q \in tried' : inbox'[q].status \notin Retryable
    BY <1>1, <1>2, <1>8, <2>2 DEF Inv, TypeOK, TriedInv
  <2> QED BY <2>1, <2>3 DEF TriedInv
<1> QED BY <1>8, <1>9, <1>10, <1>11, <1>12 DEF Inv, RowInv

LEMMA CommitInv == Inv /\ Commit => Inv'
<1> SUFFICES ASSUME Inv, Commit PROVE Inv'
  OBVIOUS
<1> USE DEF Commit
<1>1. \A r \in valid : Open(r) /\ r \notin tried
  BY DEF Inv, BatchInv, TriedInv
<1>2. DOMAIN inbox' = DOMAIN inbox
  OBVIOUS
<1>3. \A r \in DOMAIN inbox : r \notin valid => inbox'[r] = inbox[r]
  OBVIOUS
<1>4. \A r \in valid :
         /\ inbox'[r] \in Rows /\ inbox'[r].events = 1
         /\ inbox'[r].status \in {"processed", "deleted"}
  <2> SUFFICES ASSUME NEW r \in valid
               PROVE  /\ inbox'[r] \in Rows /\ inbox'[r].events = 1
                      /\ inbox'[r].status \in {"processed", "deleted"}
    OBVIOUS
  <2>1. Open(r) /\ inbox[r] \in Rows
    BY <1>1, RowType DEF Open
  <2>2. inbox'[r] = Committed(inbox[r])
    BY <2>1 DEF Open
  <2>3. /\ Committed(inbox[r]).events = inbox[r].events + 1
        /\ Committed(inbox[r]).status = IF inbox[r].status = "deleted"
                                        THEN "deleted" ELSE "processed"
    BY <2>1 DEF Committed, Rows
  <2>4. Committed(inbox[r]) \in Rows
    <3>1. inbox[r].events + 1 \in Nat /\ "processed" \in Statuses /\ "deleted" \in Statuses
      BY <2>1 DEF Rows, Statuses
    <3> QED BY <2>1, <3>1 DEF Committed, Rows
  <2> QED BY <2>1, <2>2, <2>3, <2>4 DEF Open
<1>5. inbox' \in Seq(Rows)
  <2>1. inbox \in Seq(Rows) /\ Len(inbox) \in Nat /\ DOMAIN inbox = 1..Len(inbox)
    BY LenProperties DEF Inv, TypeOK
  <2>2. \A r \in 1..Len(inbox) : inbox'[r] \in Rows
    BY <1>3, <1>4, <2>1, RowType
  <2>3. inbox' = [r \in 1..Len(inbox) |-> inbox'[r]]
    BY <2>1
  <2> QED BY <2>1, <2>2, <2>3, IsASeq
<1>6. TypeOK'
  BY <1>2, <1>5 DEF Inv, TypeOK, Points, remoteVars
<1>7. RowInv'
  <2>1. ExactlyOnce'
    BY <1>2, <1>3, <1>4 DEF Inv, RowInv, ExactlyOnce, Retryable
  <2>2. RetryBudget'
    BY <1>2, <1>3, <1>4 DEF Inv, RowInv, RetryBudget, Retryable
  <2>3. NotifiedAreCommitted'
    BY <1>3, <1>4 DEF Inv, TypeOK, RowInv, NotifiedAreCommitted
  <2> QED BY <2>1, <2>2, <2>3 DEF RowInv
<1>8. BatchInv'
  BY <1>4 DEF Inv, BatchInv
<1>9. TriedInv'
  BY <1>1, <1>3 DEF Inv, TypeOK, TriedInv
<1> QED BY <1>6, <1>7, <1>8, <1>9 DEF Inv

LEMMA CleanupInv == Inv /\ Cleanup => Inv'
<1> SUFFICES ASSUME Inv, Cleanup PROVE Inv'
  OBVIOUS
<1> USE DEF Cleanup
<1>1. PICK r \in DOMAIN inbox :
         inbox' = [inbox EXCEPT ![r] = [inbox[r] EXCEPT !.status = "deleted"]]
  OBVIOUS
<1> DEFINE row == [inbox[r] EXCEPT !.status = "deleted"]
<1>2. inbox[r] \in Rows /\ RowOK(inbox[r])
  BY RowType
<1>3. row \in Rows /\ row.status = "deleted" /\ row.events = inbox[r].events
  BY <1>2 DEF Rows, Statuses
<1>4. RowOK(row)
  BY <1>2, <1>3 DEF RowOK, Retryable
<1>5. inbox' = [inbox EXCEPT ![r] = row]
  BY <1>1
<1> HIDE DEF row
<1>6. /\ inbox' \in Seq(Rows) /\ DOMAIN inbox' = DOMAIN inbox
      /\ inbox'[r] = row
      /\ \A q \in DOMAIN inbox : q # r => inbox'[q] = inbox[q]
      /\ ExactlyOnce' /\ RetryBudget'
  BY <1>3, <1>4, <1>5, OneRow
<1>7. TypeOK'
  BY <1>6 DEF Inv, TypeOK, remoteVars, workerVars
<1>8. NotifiedAreCommitted'
  BY <1>3, <1>6 DEF Inv, TypeOK, RowInv, NotifiedAreCommitted
<1>9. \A q : Open(q) => Open(q)'
  BY <1>3, <1>6 DEF Open
<1>10. BatchInv'
  BY <1>3, <1>6, <1>9 DEF Inv, TypeOK, BatchInv, workerVars
<1>11. TriedInv'
  BY <1>3, <1>6 DEF Inv, TypeOK, TriedInv, workerVars, Retryable
<1> QED BY <1>6, <1>7, <1>8, <1>10, <1>11 DEF Inv, RowInv

LEMMA CrashInv == Inv /\ Crash => Inv'
<1> SUFFICES ASSUME Inv, Crash PROVE Inv'
  OBVIOUS
<1> USE DEF Crash, EndBatch
<1>1. HeldMessages \subseteq Messages
  <2>1. held \in Seq(Seq(Messages))
    BY DEF Inv, TypeOK
  <2>2. \A b \in 1..Len(held) : held[b] \in Seq(Messages)
    BY <2>1, ElementOfSeq
  <2>3. \A b \in 1..Len(held) : \A i \in 1..Len(held[b]) : held[b][i] \in Messages
    BY <2>2, ElementOfSeq
  <2> QED BY <2>3 DEF HeldMessages
<1>2. <<>> \in Seq(Seq(Messages))
  BY EmptySeq
<1>3. TypeOK'
  <2>1. /\ lost' \subseteq Messages /\ held' \in Seq(Seq(Messages))
        /\ crashes' \in Nat
    BY <1>1, <1>2 DEF Inv, TypeOK
  <2> QED BY <2>1 DEF Inv, TypeOK, Points, Continuations, remoteVars
<1>4. RowInv'
  BY DEF Inv, RowInv, ExactlyOnce, RetryBudget, NotifiedAreCommitted
<1>5. BatchInv' /\ TriedInv'
  BY DEF BatchInv, TriedInv
<1> QED BY <1>3, <1>4, <1>5 DEF Inv

LEMMA DeleteInstanceInv ==
    ASSUME Inv, NEW inst \in Instances, DeleteInstance(inst)
    PROVE  Inv'
<1> USE DEF DeleteInstance
<1>1. DOMAIN inbox' = DOMAIN inbox
  OBVIOUS
<1>2. \A r \in DOMAIN inbox :
         /\ inbox'[r] \in Rows /\ inbox'[r].events = inbox[r].events
         /\ inbox'[r] = inbox[r] \/ inbox'[r].status = "deleted"
  <2> SUFFICES ASSUME NEW r \in DOMAIN inbox
               PROVE  /\ inbox'[r] \in Rows /\ inbox'[r].events = inbox[r].events
                      /\ inbox'[r] = inbox[r] \/ inbox'[r].status = "deleted"
    OBVIOUS
  <2>1. inbox[r] \in Rows
    BY RowType
  <2>2. CASE inbox[r].inst = inst
    <3>1. inbox'[r] = [inbox[r] EXCEPT !.status = "deleted"]
      BY <2>2
    <3> QED BY <2>1, <3>1 DEF Rows, Statuses
  <2>3. CASE inbox[r].inst # inst
    BY <2>1, <2>3
  <2> QED BY <2>2, <2>3
<1>3. inbox' \in Seq(Rows)
  <2>1. inbox \in Seq(Rows) /\ Len(inbox) \in Nat /\ DOMAIN inbox = 1..Len(inbox)
    BY LenProperties DEF Inv, TypeOK
  <2>2. inbox' = [r \in 1..Len(inbox) |-> inbox'[r]]
    BY <2>1
  <2> QED BY <1>2, <2>1, <2>2, IsASeq
<1> USE <1>1, <1>2
<1>4. TypeOK'
  BY <1>3 DEF Inv, TypeOK, remoteVars, workerVars
<1>5. RowInv'
  <2>1. ExactlyOnce'
    BY DEF Inv, RowInv, ExactlyOnce, Retryable
  <2>2. RetryBudget'
    BY DEF Inv, RowInv, RetryBudget, Retryable
  <2>3. NotifiedAreCommitted'
    BY DEF Inv, TypeOK, RowInv, NotifiedAreCommitted
  <2> QED BY <2>1, <2>2, <2>3 DEF RowInv
<1>6. \A r : Open(r) => Open(r)'
  BY DEF Open
<1>7. BatchInv'
  BY <1>6 DEF Inv, TypeOK, BatchInv, workerVars
<1>8. TriedInv'
  BY DEF Inv, TypeOK, TriedInv, workerVars, Retryable
<1> QED BY <1>4, <1>5, <1>7, <1>8 DEF Inv

LEMMA NextInv == Inv /\ [Next]_vars => Inv'
<1> SUFFICES ASSUME Inv, [Next]_vars PROVE Inv'
  OBVIOUS
<1>1. CASE Ingest
  BY <1>1, IngestInv
<1>2. CASE Process
  BY <1>2, ProcessReadInv, DecodeMalformedInv, MarkFailedInv, CommitInv DEF Process
<1>3. CASE Cleanup
  BY <1>3, CleanupInv
<1>4. CASE Crash
  BY <1>4, CrashInv
<1>6. CASE \E inst \in Instances : DeleteInstance(inst)
  BY <1>6, DeleteInstanceInv
<1>5. CASE UNCHANGED vars
  <2>1. UNCHANGED <<inbox, workerVars, notified>>
    BY <1>5 DEF vars, workerVars
  <2>2. RowInv' /\ BatchInv' /\ TriedInv'
    BY <2>1, FrameInv
  <2>3. TypeOK'
    BY <1>5 DEF Inv, TypeOK, vars
  <2> QED BY <2>2, <2>3 DEF Inv
<1> QED BY <1>1, <1>2, <1>3, <1>4, <1>5, <1>6 DEF Next

LEMMA Invariance == Spec => []Inv
  BY InitInv, NextInv, PTL DEF Spec

-----------------------------------------------------------------------------
(* Theorems.                                                               *)

\* Every variable keeps its type.
THEOREM TypeCorrect == Spec => []TypeOK
  BY Invariance, PTL DEF Inv

\* A message is counted at most once, and the status of its row tells
\* whether it was: the transaction of processRedisInboxRows holds up against
\* partial batches, failure marks, the cleanup and crashes.
THEOREM CountedOnce == Spec => []ExactlyOnce
  BY Invariance, PTL DEF Inv, RowInv

\* A row is discarded at its last attempt and not before.
THEOREM BudgetKept == Spec => []RetryBudget
  BY Invariance, PTL DEF Inv, RowInv

\* The aggregation runner hears only of committed events.
THEOREM NotifiedAfterCommit == Spec => []NotifiedAreCommitted
  BY Invariance, PTL DEF Inv, RowInv

\* How one step may change a row.
RowStep(r) ==
    \/ inbox'[r] = inbox[r]
    \/ /\ inbox'[r].status = "deleted"
       /\ inbox'[r].events = inbox[r].events
       /\ inbox'[r].attempts = inbox[r].attempts
    \/ Open(r) /\ r \notin tried

LEMMA StepRows ==
    ASSUME Inv, [Next]_vars, NEW r \in DOMAIN inbox
    PROVE  RowStep(r)
<1>t. inbox \in Seq(Rows)
  BY DEF Inv, TypeOK
<1>1. CASE UNCHANGED inbox
  BY <1>1 DEF RowStep
<1>2. CASE InsertHeld
  <2>1. Head(held) \in Seq(Messages)
    BY <1>2, HeadTailProperties DEF InsertHeld, Inv, TypeOK
  <2> QED BY <1>2, <1>t, <2>1, InsertRows, InboxAssumption DEF InsertHeld, RowStep
<1>3. CASE \E inst \in Instances \ {Legacy} : Push(inst)
  <2>1. PICK inst \in Instances : Push(inst)
    BY <1>3
  <2>2. <<nextMsg>> \in Seq(Messages)
    BY <2>1, InboxAssumption DEF Push, Inv, TypeOK, Messages
  <2> QED BY <2>1, <2>2, <1>t, InsertRows DEF Push, RowStep
<1>4. CASE DecodeMalformed
  <2>1. PICK q \in todo : inbox' = [inbox EXCEPT ![q] = DecodeFailed(@)]
    BY <1>4 DEF DecodeMalformed, Lowest
  <2>2. Open(q) /\ q \notin tried
    BY DEF Inv, BatchInv, TriedInv
  <2>3. r = q \/ inbox'[r] = inbox[r]
    BY <2>1
  <2> QED BY <2>2, <2>3 DEF RowStep
<1>5. CASE MarkFailed
  <2>1. PICK q \in failing : inbox' = [inbox EXCEPT ![q] = ProcessFailed(inbox[q])]
    BY <1>5 DEF MarkFailed, Lowest
  <2>2. Open(q) /\ q \notin tried
    BY DEF Inv, BatchInv, TriedInv
  <2>3. r = q \/ inbox'[r] = inbox[r]
    BY <2>1
  <2> QED BY <2>2, <2>3 DEF RowStep
<1>6. CASE Commit
  <2>1. r \in valid => Open(r) /\ r \notin tried
    BY <1>6 DEF Commit, Inv, BatchInv, TriedInv
  <2>2. r \notin valid => inbox'[r] = inbox[r]
    BY <1>6 DEF Commit
  <2> QED BY <2>1, <2>2 DEF RowStep
<1>7. CASE Cleanup
  <2>1. PICK q \in DOMAIN inbox :
           inbox' = [inbox EXCEPT ![q] = [inbox[q] EXCEPT !.status = "deleted"]]
    BY <1>7 DEF Cleanup
  <2>2. inbox[r] \in Rows
    BY RowType
  <2>3. CASE r = q
    <3>1. inbox'[r] = [inbox[r] EXCEPT !.status = "deleted"]
      BY <2>1, <2>3
    <3> QED BY <2>2, <3>1 DEF Rows, RowStep
  <2>4. CASE r # q
    BY <2>1, <2>4 DEF RowStep
  <2> QED BY <2>3, <2>4
<1>9. CASE \E inst \in Instances : DeleteInstance(inst)
  <2>1. PICK inst \in Instances : DeleteInstance(inst)
    BY <1>9
  <2>2. inbox[r] \in Rows
    BY RowType
  <2>3. CASE inbox[r].inst = inst
    <3>1. inbox'[r] = [inbox[r] EXCEPT !.status = "deleted"]
      BY <2>1, <2>3 DEF DeleteInstance
    <3> QED BY <2>2, <3>1 DEF Rows, RowStep
  <2>4. CASE inbox[r].inst # inst
    BY <2>1, <2>4 DEF DeleteInstance, RowStep
  <2> QED BY <2>3, <2>4
<1>8. \/ UNCHANGED inbox
      \/ InsertHeld \/ (\E inst \in Instances \ {Legacy} : Push(inst))
      \/ DecodeMalformed \/ MarkFailed \/ Commit \/ Cleanup
      \/ \E inst \in Instances : DeleteInstance(inst)
  BY DEF Next, Ingest, Process, Produce, Pull, Subscribe, LoseReply, ListBatch,
         ListEmpty, DecodeValid, DecodeMarkError, DecodeDone, Resolve,
         ResolveError, MarkFailedError, MarkDone, CommitError, Notify, Wake,
         Crash, vars
<1> QED BY <1>1, <1>2, <1>3, <1>4, <1>5, <1>6, <1>7, <1>8, <1>9

\* Processed, undecodable and discarded rows are never touched again except
\* by deletion, whatever stale list a batch still holds.
THEOREM SettledForGood == Spec => SettledRowsStay
<1> DEFINE Step == \A r \in DOMAIN inbox :
               inbox[r].status \in {"processed", "decode_failed", "discarded"}
                 => /\ inbox'[r].status \in {inbox[r].status, "deleted"}
                    /\ inbox'[r].events = inbox[r].events
<1>1. Inv /\ [Next]_vars => [Step]_vars
  BY StepRows DEF RowStep, Open, Retryable
<1> QED BY <1>1, Invariance, PTL DEF Spec, SettledRowsStay

\* No row burns two attempts between two sleeps of the runner.
THEOREM RetriesWait == Spec => NoHotRetry
<1> DEFINE Step == \A r \in tried : inbox'[r].attempts = inbox[r].attempts
<1>1. Inv /\ [Next]_vars => [Step]_vars
  BY StepRows DEF RowStep, Inv, TypeOK
<1> QED BY <1>1, Invariance, PTL DEF Spec, NoHotRetry

-----------------------------------------------------------------------------
(* Where the messages are.                                                  *)

MessagesOf(s) == {s[i] : i \in DOMAIN s}

Ascending(s) == \A i, j \in DOMAIN s : i < j => s[i] < s[j]

\* The table, the held batches and CPA's queue are one sequence in the order of
\* production, and each of them is in that order.
OrderInv ==
    /\ Ascending(remote)
    /\ \A b \in DOMAIN held : Ascending(held[b])
    /\ \A a, b \in DOMAIN held : a < b =>
          \A x \in MessagesOf(held[a]), y \in MessagesOf(held[b]) : x < y
    /\ \A x \in HeldMessages, y \in QueuedMessages : x < y
    /\ \A r \in DOMAIN inbox : inbox[r].inst = Legacy =>
          \A y \in HeldMessages \cup QueuedMessages : inbox[r].msg < y

KeptInv == OrderInv /\ NothingVanishes /\ ArrivalOrder

LEMMA MessageTypes ==
    ASSUME TypeOK
    PROVE  /\ Messages \subseteq Nat
           /\ QueuedMessages \subseteq Messages /\ HeldMessages \subseteq Messages
           /\ StoredMessages \subseteq Messages
           /\ \A b \in DOMAIN held : held[b] \in Seq(Messages) /\ MessagesOf(held[b]) \subseteq HeldMessages
           /\ \A x \in HeldMessages : \E b \in DOMAIN held : x \in MessagesOf(held[b])
<1>1. Messages \subseteq Nat
  BY InboxAssumption DEF Messages
<1>2. QueuedMessages \subseteq Messages
  BY LenProperties, ElementOfSeq DEF TypeOK, QueuedMessages
<1>3. ASSUME NEW b \in DOMAIN held PROVE held[b] \in Seq(Messages) /\ b \in 1..Len(held)
  BY <1>3, LenProperties, ElementOfSeq DEF TypeOK
<1>4. ASSUME NEW b \in DOMAIN held
      PROVE  /\ DOMAIN held[b] = 1..Len(held[b]) /\ MessagesOf(held[b]) \subseteq Messages
             /\ MessagesOf(held[b]) = {held[b][i] : i \in 1..Len(held[b])}
  BY <1>3, LenProperties, ElementOfSeq DEF MessagesOf
<1>5. DOMAIN held = 1..Len(held)
  BY LenProperties DEF TypeOK
<1>6. HeldMessages = UNION {MessagesOf(held[b]) : b \in DOMAIN held}
  BY <1>4, <1>5 DEF HeldMessages
<1>7. StoredMessages \subseteq Messages
  <2>1. \A r \in DOMAIN inbox : inbox[r] \in Rows
    BY LenProperties, ElementOfSeq DEF TypeOK
  <2> QED BY <2>1 DEF StoredMessages, Rows
<1> QED BY <1>1, <1>2, <1>3, <1>4, <1>6, <1>7

\* What Popped(n) is, and what it leaves behind.
LEMMA PopMessages ==
    ASSUME TypeOK, Ascending(remote), NEW n \in 1..Len(remote), Pop(n)
    PROVE  /\ Popped(n) \in Seq(Messages) /\ Ascending(Popped(n)) /\ Ascending(remote')
           /\ MessagesOf(Popped(n)) = {remote[i] : i \in 1..n}
           /\ MessagesOf(Popped(n)) \cup QueuedMessages' = QueuedMessages
           /\ \A x \in MessagesOf(Popped(n)), y \in QueuedMessages' : x < y
<1> DEFINE p == Popped(n)
           q == SubSeq(remote, n + 1, Len(remote))
           len == Len(remote)
<1>1. /\ len \in Nat /\ DOMAIN remote = 1..len
      /\ \A i \in 1..len : remote[i] \in Messages
  BY LenProperties, ElementOfSeq DEF TypeOK
<1>2. /\ p \in Seq(Messages) /\ Len(p) = n
      /\ \A i \in 1..n : p[i] = remote[i]
  BY <1>1, SubSeqProperties DEF Popped
<1>3. /\ q \in Seq(Messages) /\ Len(q) = len - n
      /\ \A i \in 1..(len - n) : q[i] = remote[n + i]
  <2>1. n + 1 \in Int /\ len \in Int /\ \A i \in (n + 1)..len : remote[i] \in Messages
    BY <1>1
  <2> HIDE DEF len
  <2>2. /\ SubSeq(remote, n + 1, len) \in Seq(Messages)
        /\ Len(SubSeq(remote, n + 1, len)) = IF n + 1 <= len THEN len - (n + 1) + 1 ELSE 0
        /\ \A i \in 1..(len - (n + 1) + 1) :
              SubSeq(remote, n + 1, len)[i] = remote[n + 1 + i - 1]
    BY <2>1, SubSeqProperties
  <2>3. n <= len /\ len \in Nat
    BY <1>1 DEF len
  <2>4. len - (n + 1) + 1 = len - n /\ (IF n + 1 <= len THEN len - (n + 1) + 1 ELSE 0) = len - n
    BY <2>3
  <2>5. \A i \in 1..(len - n) : n + 1 + i - 1 = n + i
    BY <2>3
  <2>6. q = SubSeq(remote, n + 1, len)
    BY DEF q, len
  <2> QED BY <2>2, <2>4, <2>5, <2>6
<1>4. DOMAIN p = 1..n /\ DOMAIN q = 1..(len - n)
  BY <1>2, <1>3, LenProperties
<1>5. remote' = q
  BY DEF Pop
<1> HIDE DEF p, q, len
<1>6. Ascending(p) /\ Ascending(q)
  <2>1. n <= len /\ len \in Nat
    BY <1>1 DEF len
  <2>2. Ascending(p)
    BY <1>1, <1>2, <1>4, <2>1 DEF Ascending
  <2>3. ASSUME NEW i \in 1..(len - n), NEW j \in 1..(len - n), i < j PROVE q[i] < q[j]
    <3>1. n + i \in 1..len /\ n + j \in 1..len /\ n + i < n + j
      BY <2>1, <2>3
    <3> QED BY <1>1, <1>3, <3>1 DEF Ascending
  <2> QED BY <1>4, <2>2, <2>3 DEF Ascending
<1>7. MessagesOf(p) = {remote[i] : i \in 1..n}
  BY <1>2, <1>4 DEF MessagesOf
<1>8. QueuedMessages' = {remote[i] : i \in (n + 1)..len}
  <2>1. QueuedMessages' = {q[i] : i \in 1..(len - n)}
    BY <1>4, <1>5 DEF QueuedMessages
  <2>2. \A i \in (n + 1)..len : i - n \in 1..(len - n) /\ q[i - n] = remote[i]
    BY <1>1, <1>3 DEF len
  <2>3. \A i \in 1..(len - n) : i + n \in (n + 1)..len /\ q[i] = remote[i + n]
    BY <1>1, <1>3 DEF len
  <2> QED BY <2>1, <2>2, <2>3
<1>9. QueuedMessages = {remote[i] : i \in 1..len}
  BY <1>1 DEF QueuedMessages
<1>10. 1..len = (1..n) \cup ((n + 1)..len)
  BY <1>1 DEF len
<1>11. \A i \in 1..n, j \in (n + 1)..len : remote[i] < remote[j]
  BY <1>1 DEF Ascending, len
<1> QED BY <1>2, <1>5, <1>6, <1>7, <1>8, <1>9, <1>10, <1>11 DEF p

\* A batch behind the others.
LEMMA HoldBatch ==
    ASSUME TypeOK, NEW s \in Seq(Messages), held' = Append(held, s)
    PROVE  /\ DOMAIN held' = DOMAIN held \cup {Len(held) + 1}
           /\ \A b \in DOMAIN held : held'[b] = held[b] /\ b < Len(held) + 1
           /\ held'[Len(held) + 1] = s
           /\ HeldMessages' = HeldMessages \cup MessagesOf(s)
<1>1. /\ held \in Seq(Seq(Messages)) /\ Len(held) \in Nat /\ DOMAIN held = 1..Len(held)
  BY LenProperties DEF TypeOK
<1>2. /\ held' \in Seq(Seq(Messages)) /\ Len(held') = Len(held) + 1
      /\ \A b \in 1..Len(held) : held'[b] = held[b]
      /\ held'[Len(held) + 1] = s
  BY <1>1, AppendProperties
<1>3. DOMAIN held' = 1..(Len(held) + 1)
  BY <1>2, LenProperties
<1>4. 1..(Len(held) + 1) = (1..Len(held)) \cup {Len(held) + 1}
  BY <1>1
<1>5. \A b \in 1..Len(held) : 1..Len(held[b]) = 1..Len(held'[b])
  BY <1>2
<1>6. MessagesOf(s) = {s[i] : i \in 1..Len(s)}
  BY LenProperties DEF MessagesOf
<1>7. HeldMessages' = HeldMessages \cup MessagesOf(s)
  BY <1>2, <1>4, <1>6 DEF HeldMessages
<1> QED BY <1>1, <1>2, <1>3, <1>4, <1>7

\* The oldest batch gone.
LEMMA WriteBatch ==
    ASSUME TypeOK, held # <<>>, held' = Tail(held)
    PROVE  /\ Head(held) \in Seq(Messages) /\ 1 \in DOMAIN held /\ Head(held) = held[1]
           /\ \A b \in DOMAIN held' :
                 b + 1 \in DOMAIN held /\ held'[b] = held[b + 1] /\ 1 < b + 1
           /\ HeldMessages = MessagesOf(Head(held)) \cup HeldMessages'
<1>1. /\ held \in Seq(Seq(Messages)) /\ Len(held) \in Nat \ {0} /\ DOMAIN held = 1..Len(held)
  BY LenProperties, EmptySeq DEF TypeOK
<1>2. /\ held' \in Seq(Seq(Messages)) /\ Len(held') = Len(held) - 1
      /\ \A b \in 1..Len(held') : held'[b] = held[b + 1]
      /\ Head(held) \in Seq(Messages)
  BY <1>1, HeadTailProperties
<1>3. DOMAIN held' = 1..(Len(held) - 1)
  BY <1>2, LenProperties
<1>4. Head(held) = held[1]
  BY <1>1
<1>5. \A b \in 1..(Len(held) - 1) : b + 1 \in 1..Len(held) /\ 1 < b + 1
  BY <1>1
<1>6. \A b \in 1..Len(held) : b = 1 \/ (b - 1 \in 1..(Len(held) - 1) /\ (b - 1) + 1 = b)
  BY <1>1
<1>7. MessagesOf(Head(held)) = {held[1][i] : i \in 1..Len(held[1])}
  BY <1>2, <1>4, LenProperties DEF MessagesOf
<1>8. HeldMessages = MessagesOf(Head(held)) \cup HeldMessages'
  <2> DEFINE Of(f, b) == {f[b][i] : i \in 1..Len(f[b])}
  <2>1. \A b \in 1..(Len(held) - 1) : Of(held', b) = Of(held, b + 1)
    BY <1>2
  <2>2. HeldMessages = UNION {Of(held, b) : b \in 1..Len(held)}
    BY DEF HeldMessages
  <2>3. HeldMessages' = UNION {Of(held', b) : b \in 1..(Len(held) - 1)}
    BY <1>2 DEF HeldMessages
  <2>4. MessagesOf(Head(held)) = Of(held, 1) /\ 1 \in 1..Len(held)
    BY <1>1, <1>7
  <2> HIDE DEF Of
  <2>5. ASSUME NEW x \in HeldMessages PROVE x \in Of(held, 1) \/ x \in HeldMessages'
    <3>1. PICK b \in 1..Len(held) : x \in Of(held, b)
      BY <2>2
    <3>2. CASE b = 1
      BY <3>1, <3>2
    <3>3. CASE b - 1 \in 1..(Len(held) - 1) /\ (b - 1) + 1 = b
      BY <2>1, <2>3, <3>1, <3>3
    <3> QED BY <1>6, <3>2, <3>3
  <2>6. ASSUME NEW x \in HeldMessages' PROVE x \in HeldMessages
    BY <1>5, <2>1, <2>2, <2>3, <2>6
  <2> QED BY <2>2, <2>4, <2>5, <2>6
<1> QED BY <1>1, <1>2, <1>3, <1>4, <1>5, <1>8

\* Rows inserted for a batch.
LEMMA StoreBatch ==
    ASSUME Inv, NEW msgs \in Seq(Messages), NEW inst \in Instances,
           inbox' = inbox \o NewRows(msgs, inst)
    PROVE  /\ DOMAIN inbox \subseteq DOMAIN inbox' /\ DOMAIN inbox' \subseteq Nat
           /\ \A r \in DOMAIN inbox : inbox'[r] = inbox[r]
           /\ \A q \in DOMAIN inbox' \ DOMAIN inbox :
                 /\ \A r \in DOMAIN inbox : r < q
                 /\ q - Len(inbox) \in DOMAIN msgs
                 /\ inbox'[q].msg = msgs[q - Len(inbox)] /\ inbox'[q].inst = inst
           /\ StoredMessages' = StoredMessages \cup MessagesOf(msgs)
<1> DEFINE n == NewRows(msgs, inst)
<1>1. /\ Len(msgs) \in Nat /\ DOMAIN msgs = 1..Len(msgs)
      /\ \A i \in 1..Len(msgs) : msgs[i] \in Messages
  BY ElementOfSeq, LenProperties
<1>2. /\ \A i \in 1..Len(msgs) : n[i] \in Rows /\ n[i].inst = inst /\ n[i].msg = msgs[i]
      /\ n = [i \in 1..Len(msgs) |-> n[i]]
  BY <1>1 DEF NewRows, Rows, Statuses, Retryable
<1> HIDE DEF n
<1>3. n \in Seq(Rows) /\ DOMAIN n = 1..Len(msgs)
  BY <1>1, <1>2, IsASeq
<1>4. Len(n) = Len(msgs)
  BY <1>1, <1>3, LenProperties
<1>5. /\ inbox' \in Seq(Rows)
      /\ Len(inbox') = Len(inbox) + Len(n)
      /\ \A i \in 1..Len(inbox) + Len(n) :
            inbox'[i] = IF i <= Len(inbox) THEN inbox[i] ELSE n[i - Len(inbox)]
  BY <1>3, ConcatProperties DEF Inv, TypeOK, n
<1>6. /\ Len(inbox) \in Nat /\ DOMAIN inbox = 1..Len(inbox)
      /\ DOMAIN inbox' = 1..Len(inbox')
  BY <1>5, LenProperties DEF Inv, TypeOK
<1>7. \A r \in DOMAIN inbox : r \in DOMAIN inbox' /\ inbox'[r] = inbox[r]
  BY <1>1, <1>4, <1>5, <1>6
<1>8. \A r \in DOMAIN inbox' \ DOMAIN inbox :
         /\ r - Len(inbox) \in 1..Len(msgs) /\ inbox'[r] = n[r - Len(inbox)]
         /\ \A q \in DOMAIN inbox : q < r
  BY <1>1, <1>4, <1>5, <1>6
<1>9. \A i \in 1..Len(msgs) :
         /\ Len(inbox) + i \in DOMAIN inbox' \ DOMAIN inbox
         /\ inbox'[Len(inbox) + i] = n[i]
  BY <1>1, <1>4, <1>5, <1>6
<1>10. StoredMessages' = StoredMessages \cup MessagesOf(msgs)
  <2>1. ASSUME NEW x \in StoredMessages' PROVE x \in StoredMessages \cup MessagesOf(msgs)
    <3>1. PICK r \in DOMAIN inbox' : x = inbox'[r].msg
      BY DEF StoredMessages
    <3>2. CASE r \in DOMAIN inbox
      BY <1>7, <3>1, <3>2 DEF StoredMessages
    <3>3. CASE r \notin DOMAIN inbox
      <4>1. r - Len(inbox) \in 1..Len(msgs) /\ inbox'[r] = n[r - Len(inbox)]
        BY <1>8, <3>3
      <4>2. inbox'[r].msg = msgs[r - Len(inbox)]
        BY <1>2, <4>1
      <4> QED BY <1>1, <3>1, <4>1, <4>2 DEF MessagesOf
    <3> QED BY <3>2, <3>3
  <2>2. ASSUME NEW x \in MessagesOf(msgs) PROVE x \in StoredMessages'
    BY <1>1, <1>2, <1>9 DEF StoredMessages, MessagesOf
  <2>3. ASSUME NEW x \in StoredMessages PROVE x \in StoredMessages'
    BY <1>7 DEF StoredMessages
  <2> QED BY <2>1, <2>2, <2>3
<1>11. DOMAIN inbox' \subseteq Nat
  BY <1>6
<1> QED BY <1>1, <1>2, <1>7, <1>8, <1>10, <1>11

\* All messages are older than the next one.
LEMMA Older ==
    ASSUME TypeOK, NothingVanishes
    PROVE  /\ nextMsg \in Nat
           /\ \A x \in QueuedMessages \cup HeldMessages \cup StoredMessages \cup lost : x \in Nat /\ x < nextMsg
           /\ 1..nextMsg = (1..(nextMsg - 1)) \cup {nextMsg}
           /\ (nextMsg + 1) - 1 = nextMsg
<1>1. nextMsg \in Nat \ {0}
  BY DEF TypeOK
<1>2. QueuedMessages \cup HeldMessages \cup StoredMessages \cup lost = 1..(nextMsg - 1)
  BY DEF NothingVanishes
<1> QED BY <1>1, <1>2

LEMMA ProduceKept == ASSUME Inv, KeptInv, Produce PROVE KeptInv'
<1>1. TypeOK /\ NothingVanishes
  BY DEF Inv, KeptInv
<1>2. /\ nextMsg \in Nat /\ nextMsg' = nextMsg + 1 /\ remote' = Append(remote, nextMsg)
      /\ UNCHANGED <<held, lost, inbox>> /\ nextMsg \in Messages
  BY <1>1, InboxAssumption DEF Produce, TypeOK, Messages
<1>3. /\ DOMAIN remote' = DOMAIN remote \cup {Len(remote) + 1}
      /\ \A i \in DOMAIN remote : remote'[i] = remote[i] /\ i < Len(remote) + 1
      /\ remote'[Len(remote) + 1] = nextMsg /\ DOMAIN remote \subseteq Nat
  <2>1. remote \in Seq(Messages) /\ Len(remote) \in Nat /\ DOMAIN remote = 1..Len(remote)
    BY <1>1, LenProperties DEF TypeOK
  <2>2. /\ remote' \in Seq(Messages) /\ Len(remote') = Len(remote) + 1
        /\ \A i \in 1..Len(remote) : remote'[i] = remote[i]
        /\ remote'[Len(remote) + 1] = nextMsg
    BY <1>2, <2>1, AppendProperties
  <2>3. DOMAIN remote' = 1..(Len(remote) + 1)
    BY <2>2, LenProperties
  <2> QED BY <2>1, <2>2, <2>3
<1>4. QueuedMessages' = QueuedMessages \cup {nextMsg}
  BY <1>3 DEF QueuedMessages
<1>5. HeldMessages' = HeldMessages /\ StoredMessages' = StoredMessages
  BY <1>2 DEF HeldMessages, StoredMessages
<1>6. \A x \in QueuedMessages : x < nextMsg
  BY <1>1, Older
<1>7. Ascending(remote')
  <2>1. ASSUME NEW i \in DOMAIN remote', NEW j \in DOMAIN remote', i < j
        PROVE  remote'[i] < remote'[j]
    <3>1. i \in DOMAIN remote
      BY <1>1, <1>3, <2>1, LenProperties DEF TypeOK
    <3> QED BY <1>3, <1>6, <2>1, <3>1 DEF KeptInv, OrderInv, Ascending, QueuedMessages
  <2> QED BY <2>1 DEF Ascending
<1>8. OrderInv'
  <2>1. \A x \in HeldMessages : x < nextMsg
    BY <1>1, Older
  <2>2. \A r \in DOMAIN inbox : inbox[r].msg < nextMsg
    BY <1>1, Older DEF StoredMessages
  <2> QED BY <1>2, <1>4, <1>5, <1>7, <2>1, <2>2 DEF KeptInv, OrderInv
<1>9. NothingVanishes'
  <2>1. 1..(nextMsg' - 1) = (1..(nextMsg - 1)) \cup {nextMsg}
    BY <1>1, <1>2, Older
  <2>2. nextMsg \notin QueuedMessages \cup HeldMessages \cup StoredMessages \cup lost
    BY <1>1, Older
  <2> QED BY <1>1, <1>2, <1>4, <1>5, <2>1, <2>2 DEF NothingVanishes
<1> QED BY <1>2, <1>8, <1>9 DEF KeptInv, ArrivalOrder

\* Pull and Subscribe.
LEMMA TakeKept ==
    ASSUME Inv, KeptInv, NEW n \in 1..Len(remote), Pop(n),
           held' = Append(held, Popped(n)), UNCHANGED <<lost, inbox>>
    PROVE  KeptInv'
<1>1. TypeOK /\ NothingVanishes /\ OrderInv /\ nextMsg' = nextMsg
  BY DEF Inv, KeptInv, Pop
<1> DEFINE s == Popped(n)
<1>2. /\ s \in Seq(Messages) /\ Ascending(s) /\ Ascending(remote')
      /\ MessagesOf(s) \cup QueuedMessages' = QueuedMessages
      /\ \A x \in MessagesOf(s), y \in QueuedMessages' : x < y
  BY <1>1, PopMessages DEF OrderInv
<1> HIDE DEF s
<1>3. /\ DOMAIN held' = DOMAIN held \cup {Len(held) + 1}
      /\ \A b \in DOMAIN held : held'[b] = held[b] /\ b < Len(held) + 1
      /\ held'[Len(held) + 1] = s
      /\ HeldMessages' = HeldMessages \cup MessagesOf(s)
  BY <1>1, <1>2, HoldBatch DEF s
<1>4. StoredMessages' = StoredMessages
  BY DEF StoredMessages
<1>5. \A x \in HeldMessages, y \in MessagesOf(s) : x < y
  BY <1>1, <1>2 DEF OrderInv
<1>6. \A b \in DOMAIN held : MessagesOf(held[b]) \subseteq HeldMessages
  BY <1>1, MessageTypes
<1>7. OrderInv'
  <2>1. \A b \in DOMAIN held' : Ascending(held'[b])
    BY <1>1, <1>2, <1>3 DEF OrderInv
  <2>2. ASSUME NEW a \in DOMAIN held', NEW b \in DOMAIN held', a < b,
               NEW x \in MessagesOf(held'[a]), NEW y \in MessagesOf(held'[b])
        PROVE  x < y
    <3>1. a \in DOMAIN held
      BY <1>1, <1>3, <2>2, LenProperties DEF TypeOK
    <3> QED BY <1>1, <1>3, <1>5, <1>6, <2>2, <3>1 DEF OrderInv
  <2>3. \A x \in HeldMessages', y \in QueuedMessages' : x < y
    BY <1>1, <1>2, <1>3 DEF OrderInv
  <2>4. HeldMessages' \cup QueuedMessages' = HeldMessages \cup QueuedMessages
    BY <1>2, <1>3
  <2>5. \A r \in DOMAIN inbox' : inbox'[r].inst = Legacy =>
           \A y \in HeldMessages' \cup QueuedMessages' : inbox'[r].msg < y
    BY <1>1, <2>4 DEF OrderInv
  <2> QED BY <1>2, <2>1, <2>2, <2>3, <2>5 DEF OrderInv
<1>8. NothingVanishes'
  <2>1. MessagesOf(s) \cap QueuedMessages' = {}
    BY <1>1, <1>2, Older
  <2> QED BY <1>1, <1>2, <1>3, <1>4, <2>1 DEF NothingVanishes
<1> QED BY <1>7, <1>8 DEF KeptInv, ArrivalOrder

LEMMA LoseKept == ASSUME Inv, KeptInv, LoseReply PROVE KeptInv'
<1>1. TypeOK /\ NothingVanishes /\ OrderInv /\ UNCHANGED <<held, inbox>>
  BY DEF Inv, KeptInv, LoseReply
<1>2. PICK n \in 1..Len(remote) : Pop(n) /\ lost' = lost \cup {remote[i] : i \in 1..n}
  BY DEF LoseReply
<1> DEFINE s == Popped(n)
<1>3. /\ Ascending(remote') /\ nextMsg' = nextMsg /\ lost' = lost \cup MessagesOf(s)
      /\ MessagesOf(s) \cup QueuedMessages' = QueuedMessages
      /\ \A x \in MessagesOf(s), y \in QueuedMessages' : x < y
  BY <1>1, <1>2, PopMessages DEF OrderInv, Pop
<1> HIDE DEF s
<1>4. StoredMessages' = StoredMessages /\ HeldMessages' = HeldMessages
  BY <1>1 DEF StoredMessages, HeldMessages
<1>5. OrderInv'
  BY <1>1, <1>3, <1>4 DEF OrderInv
<1>6. NothingVanishes'
  <2>1. MessagesOf(s) \cap QueuedMessages' = {}
    BY <1>1, <1>3, Older
  <2> QED BY <1>1, <1>3, <1>4, <2>1 DEF NothingVanishes
<1> QED BY <1>1, <1>5, <1>6 DEF KeptInv, ArrivalOrder

LEMMA CrashKept == ASSUME Inv, KeptInv, Crash PROVE KeptInv'
<1>1. TypeOK /\ NothingVanishes /\ OrderInv
  BY DEF Inv, KeptInv
<1>2. /\ lost' = lost \cup HeldMessages /\ held' = <<>>
      /\ UNCHANGED <<nextMsg, remote, inbox>>
  BY DEF Crash, remoteVars
<1>3. /\ HeldMessages' = {} /\ DOMAIN held' = {}
      /\ QueuedMessages' = QueuedMessages /\ StoredMessages' = StoredMessages
  BY <1>2 DEF HeldMessages, QueuedMessages, StoredMessages
<1>4. OrderInv'
  BY <1>1, <1>2, <1>3 DEF OrderInv
<1>5. NothingVanishes'
  BY <1>1, <1>2, <1>3 DEF NothingVanishes
<1> QED BY <1>2, <1>4, <1>5 DEF KeptInv, ArrivalOrder

LEMMA InsertHeldKept == ASSUME Inv, KeptInv, InsertHeld PROVE KeptInv'
<1>1. TypeOK /\ NothingVanishes /\ OrderInv /\ ArrivalOrder
  BY DEF Inv, KeptInv
<1>2. /\ held # <<>> /\ held' = Tail(held) /\ UNCHANGED <<nextMsg, remote, lost>>
      /\ inbox' = inbox \o NewRows(Head(held), Legacy)
  BY DEF InsertHeld, remoteVars
<1> DEFINE s == Head(held)
<1>3. /\ s \in Seq(Messages) /\ 1 \in DOMAIN held /\ s = held[1]
      /\ \A b \in DOMAIN held' :
            b + 1 \in DOMAIN held /\ held'[b] = held[b + 1] /\ 1 < b + 1
      /\ HeldMessages = MessagesOf(s) \cup HeldMessages'
  BY <1>1, <1>2, WriteBatch
<1> HIDE DEF s
<1>4. /\ DOMAIN inbox \subseteq DOMAIN inbox' /\ DOMAIN inbox' \subseteq Nat
      /\ \A r \in DOMAIN inbox : inbox'[r] = inbox[r]
      /\ \A q \in DOMAIN inbox' \ DOMAIN inbox :
            /\ \A r \in DOMAIN inbox : r < q
            /\ q - Len(inbox) \in DOMAIN s
            /\ inbox'[q].msg = s[q - Len(inbox)] /\ inbox'[q].inst = Legacy
      /\ StoredMessages' = StoredMessages \cup MessagesOf(s)
  BY <1>2, <1>3, StoreBatch, InboxAssumption DEF s
<1>5. QueuedMessages' = QueuedMessages /\ MessagesOf(s) \subseteq HeldMessages
  BY <1>2, <1>3 DEF QueuedMessages
<1>6. \A x \in MessagesOf(s), y \in HeldMessages' : x < y
  <2> SUFFICES ASSUME NEW x \in MessagesOf(s), NEW y \in HeldMessages' PROVE x < y
    OBVIOUS
  <2>1. held' \in Seq(Seq(Messages))
    BY IngestInv DEF Ingest, Inv, TypeOK
  <2>2. PICK b \in 1..Len(held') : y \in {held'[b][i] : i \in 1..Len(held'[b])}
    BY DEF HeldMessages
  <2>3. b \in DOMAIN held' /\ DOMAIN held'[b] = 1..Len(held'[b])
    BY <2>1, <2>2, LenProperties, ElementOfSeq
  <2>4. y \in MessagesOf(held'[b])
    BY <2>2, <2>3 DEF MessagesOf
  <2> QED BY <1>1, <1>3, <2>3, <2>4 DEF OrderInv
<1>7. ASSUME NEW q \in DOMAIN inbox' \ DOMAIN inbox
      PROVE  inbox'[q].msg \in MessagesOf(s) /\ q \in Nat
  BY <1>4, <1>7 DEF MessagesOf
<1>8. Ascending(s) /\ Len(inbox) \in Nat /\ DOMAIN inbox = 1..Len(inbox)
  BY <1>1, <1>3, LenProperties DEF OrderInv, TypeOK
<1>9. \A r, q \in DOMAIN inbox' \ DOMAIN inbox : r < q => inbox'[r].msg < inbox'[q].msg
  <2> SUFFICES ASSUME NEW r \in DOMAIN inbox' \ DOMAIN inbox,
                      NEW q \in DOMAIN inbox' \ DOMAIN inbox, r < q
               PROVE  inbox'[r].msg < inbox'[q].msg
    OBVIOUS
  <2>1. r - Len(inbox) < q - Len(inbox)
    BY <1>7, <1>8
  <2> QED BY <1>4, <1>8, <2>1 DEF Ascending
<1>10. OrderInv'
  <2>1. ASSUME NEW b \in DOMAIN held' PROVE Ascending(held'[b])
    BY <1>1, <1>3 DEF OrderInv
  <2>2. ASSUME NEW a \in DOMAIN held', NEW b \in DOMAIN held', a < b
        PROVE  \A x \in MessagesOf(held'[a]), y \in MessagesOf(held'[b]) : x < y
    <3>1. a \in Nat /\ b \in Nat
      <4>1. held' \in Seq(Seq(Messages))
        BY IngestInv DEF Ingest, Inv, TypeOK
      <4> QED BY <4>1, LenProperties
    <3>2. a + 1 < b + 1
      BY <2>2, <3>1
    <3> QED BY <1>1, <1>3, <3>2 DEF OrderInv
  <2>3. \A x \in HeldMessages', y \in QueuedMessages' : x < y
    BY <1>1, <1>3, <1>5 DEF OrderInv
  <2>4. ASSUME NEW r \in DOMAIN inbox', inbox'[r].inst = Legacy,
               NEW y \in HeldMessages' \cup QueuedMessages'
        PROVE  inbox'[r].msg < y
    <3>1. CASE r \in DOMAIN inbox
      BY <1>1, <1>3, <1>4, <1>5, <2>4, <3>1 DEF OrderInv
    <3>2. CASE r \notin DOMAIN inbox
      BY <1>1, <1>5, <1>6, <1>7, <3>2 DEF OrderInv
    <3> QED BY <3>1, <3>2
  <2>5. Ascending(remote')
    BY <1>1, <1>2 DEF OrderInv
  <2> QED BY <2>1, <2>2, <2>3, <2>4, <2>5 DEF OrderInv
<1>11. \A x \in MessagesOf(s) : x \notin HeldMessages' /\ x \notin StoredMessages /\ x \in Nat
  BY <1>1, <1>5, <1>6, Older, MessageTypes DEF NothingVanishes
<1>12. NothingVanishes'
  <2>1. ASSUME NEW r \in DOMAIN inbox', NEW q \in DOMAIN inbox', inbox'[r].msg = inbox'[q].msg
        PROVE  r = q
    <3>1. CASE r \in DOMAIN inbox /\ q \in DOMAIN inbox
      BY <1>1, <1>4, <2>1, <3>1 DEF NothingVanishes
    <3>2. CASE r \in DOMAIN inbox /\ q \notin DOMAIN inbox
      BY <1>4, <1>7, <1>11, <2>1, <3>2 DEF StoredMessages
    <3>3. CASE r \notin DOMAIN inbox /\ q \in DOMAIN inbox
      BY <1>4, <1>7, <1>11, <2>1, <3>3 DEF StoredMessages
    <3>4. CASE r \notin DOMAIN inbox /\ q \notin DOMAIN inbox
      BY <1>7, <1>9, <1>11, <2>1, <3>4
    <3> QED BY <3>1, <3>2, <3>3, <3>4
  <2>2. QueuedMessages' \cap HeldMessages' = {}
    BY <1>1, <1>3, <1>5 DEF NothingVanishes
  <2>3. (QueuedMessages' \cup HeldMessages') \cap StoredMessages' = {}
    BY <1>1, <1>3, <1>4, <1>5, <1>11 DEF NothingVanishes
  <2> QED BY <1>1, <1>2, <1>3, <1>4, <1>5, <2>1, <2>2, <2>3 DEF NothingVanishes
<1>13. ArrivalOrder'
  <2>1. ASSUME NEW r \in DOMAIN inbox', NEW q \in DOMAIN inbox',
               inbox'[r].inst = Legacy, inbox'[q].inst = Legacy, r < q
        PROVE  inbox'[r].msg < inbox'[q].msg
    <3>1. r \in Nat /\ q \in Nat
      BY <1>4
    <3>2. CASE q \in DOMAIN inbox
      <4>1. r \in DOMAIN inbox
        BY <1>4, <2>1, <3>1, <3>2
      <4> QED BY <1>1, <1>4, <2>1, <3>2, <4>1 DEF ArrivalOrder
    <3>3. CASE r \in DOMAIN inbox /\ q \notin DOMAIN inbox
      BY <1>1, <1>4, <1>5, <1>7, <2>1, <3>3 DEF OrderInv
    <3>4. CASE r \notin DOMAIN inbox /\ q \notin DOMAIN inbox
      BY <1>9, <2>1, <3>4
    <3> QED BY <3>2, <3>3, <3>4
  <2> QED BY <2>1 DEF ArrivalOrder
<1> QED BY <1>10, <1>12, <1>13 DEF KeptInv

LEMMA PushKept ==
    ASSUME Inv, KeptInv, NEW inst \in Instances \ {Legacy}, Push(inst) PROVE KeptInv'
<1>1. TypeOK /\ NothingVanishes /\ OrderInv /\ ArrivalOrder
  BY DEF Inv, KeptInv
<1>2. /\ nextMsg' = nextMsg + 1 /\ UNCHANGED <<remote, held, lost>>
      /\ inbox' = inbox \o NewRows(<<nextMsg>>, inst) /\ nextMsg \in Messages
  BY <1>1, InboxAssumption DEF Push, TypeOK, Messages
<1> DEFINE s == <<nextMsg>>
<1>3. s \in Seq(Messages) /\ DOMAIN s = {1} /\ s[1] = nextMsg /\ MessagesOf(s) = {nextMsg}
  BY <1>2 DEF MessagesOf
<1> HIDE DEF s
<1>4. /\ DOMAIN inbox \subseteq DOMAIN inbox' /\ DOMAIN inbox' \subseteq Nat
      /\ \A r \in DOMAIN inbox : inbox'[r] = inbox[r]
      /\ \A q \in DOMAIN inbox' \ DOMAIN inbox :
            /\ \A r \in DOMAIN inbox : r < q
            /\ q - Len(inbox) \in DOMAIN s
            /\ inbox'[q].msg = s[q - Len(inbox)] /\ inbox'[q].inst = inst
      /\ StoredMessages' = StoredMessages \cup MessagesOf(s)
  BY <1>2, <1>3, StoreBatch DEF s
<1>5. \A q \in DOMAIN inbox' \ DOMAIN inbox : inbox'[q].msg = nextMsg /\ q = Len(inbox) + 1
  <2> SUFFICES ASSUME NEW q \in DOMAIN inbox' \ DOMAIN inbox
               PROVE  inbox'[q].msg = nextMsg /\ q = Len(inbox) + 1
    OBVIOUS
  <2>1. q - Len(inbox) = 1 /\ inbox'[q].msg = s[q - Len(inbox)]
    BY <1>3, <1>4
  <2>2. q \in Nat /\ Len(inbox) \in Nat
    BY <1>1, <1>4, LenProperties DEF TypeOK
  <2> QED BY <1>3, <2>1, <2>2
<1>6. QueuedMessages' = QueuedMessages /\ HeldMessages' = HeldMessages
  BY <1>2 DEF QueuedMessages, HeldMessages
<1>7. nextMsg \notin QueuedMessages \cup HeldMessages \cup StoredMessages \cup lost
  BY <1>1, Older
<1>8. OrderInv'
  BY <1>1, <1>2, <1>4, <1>6 DEF OrderInv
<1>9. NothingVanishes'
  <2>1. 1..(nextMsg' - 1) = (1..(nextMsg - 1)) \cup {nextMsg}
    BY <1>1, <1>2, Older
  <2>2. ASSUME NEW r \in DOMAIN inbox', NEW q \in DOMAIN inbox', inbox'[r].msg = inbox'[q].msg
        PROVE  r = q
    BY <1>1, <1>4, <1>5, <1>7, <2>2 DEF NothingVanishes, StoredMessages
  <2>3. StoredMessages' = StoredMessages \cup {nextMsg} /\ lost' = lost
    BY <1>2, <1>3, <1>4
  <2>4. 1..(nextMsg' - 1) = QueuedMessages' \cup HeldMessages' \cup StoredMessages' \cup lost'
    BY <1>1, <1>6, <2>1, <2>3 DEF NothingVanishes
  <2>5. /\ QueuedMessages' \cap HeldMessages' = {}
        /\ (QueuedMessages' \cup HeldMessages') \cap StoredMessages' = {}
        /\ lost' \cap (QueuedMessages' \cup HeldMessages' \cup StoredMessages') = {}
    BY <1>1, <1>6, <1>7, <2>3 DEF NothingVanishes
  <2> QED BY <2>2, <2>4, <2>5 DEF NothingVanishes
<1>10. ArrivalOrder'
  BY <1>1, <1>4 DEF ArrivalOrder
<1> QED BY <1>8, <1>9, <1>10 DEF KeptInv

\* What is done with the rows of the table leaves the messages where they are.
LEMMA SameMessages ==
    ASSUME Inv, UNCHANGED <<nextMsg, remote, held, lost>>,
           DOMAIN inbox' = DOMAIN inbox,
           \A r \in DOMAIN inbox : inbox'[r].msg = inbox[r].msg /\ inbox'[r].inst = inbox[r].inst,
           KeptInv
    PROVE  KeptInv'
<1>1. /\ QueuedMessages' = QueuedMessages /\ HeldMessages' = HeldMessages
      /\ StoredMessages' = StoredMessages
  BY DEF QueuedMessages, HeldMessages, StoredMessages
<1>2. OrderInv'
  BY <1>1 DEF KeptInv, OrderInv
<1>3. NothingVanishes'
  BY <1>1 DEF KeptInv, NothingVanishes
<1> QED BY <1>2, <1>3 DEF KeptInv, ArrivalOrder

LEMMA KeptStep == Inv /\ KeptInv /\ [Next]_vars => KeptInv'
<1> SUFFICES ASSUME Inv, KeptInv, [Next]_vars PROVE KeptInv'
  OBVIOUS
<1> DEFINE Same == /\ UNCHANGED <<nextMsg, remote, held, lost>>
                   /\ DOMAIN inbox' = DOMAIN inbox
                   /\ \A r \in DOMAIN inbox :
                         inbox'[r].msg = inbox[r].msg /\ inbox'[r].inst = inbox[r].inst
<1>s. Same => KeptInv'
  BY SameMessages
<1>1. CASE Produce \/ LoseReply \/ InsertHeld \/ Crash
  BY <1>1, ProduceKept, LoseKept, InsertHeldKept, CrashKept
<1>2. CASE Pull
  <2>1. Len(remote) \in Nat \ {0}
    BY <1>2, EmptySeq, LenProperties DEF Pull, Inv, TypeOK
  <2>2. PICK n \in 1..Len(remote) : Pop(n) /\ held' = Append(held, Popped(n))
    BY <1>2, <2>1, InboxAssumption DEF Pull
  <2> QED BY <1>2, <2>2, TakeKept DEF Pull
<1>3. CASE Subscribe
  BY <1>3, TakeKept DEF Subscribe
<1>4. CASE \E inst \in Instances \ {Legacy} : Push(inst)
  BY <1>4, PushKept
<1>5. CASE DecodeMalformed
  <2>1. PICK q \in todo : inbox' = [inbox EXCEPT ![q] = DecodeFailed(inbox[q])]
    BY <1>5 DEF DecodeMalformed, Lowest
  <2>2. inbox[q] \in Rows
    BY RowType DEF Inv, TypeOK
  <2>3. DecodeFailed(inbox[q]).inst = inbox[q].inst /\ DecodeFailed(inbox[q]).msg = inbox[q].msg
    BY <2>2 DEF DecodeFailed, Rows
  <2>4. Same
    BY <1>5, <2>1, <2>3 DEF DecodeMalformed, remoteVars
  <2> QED BY <1>s, <2>4
<1>6. CASE MarkFailed
  <2>1. PICK q \in failing : inbox' = [inbox EXCEPT ![q] = ProcessFailed(inbox[q])]
    BY <1>6 DEF MarkFailed, Lowest
  <2>2. inbox[q] \in Rows
    BY RowType DEF Inv, TypeOK
  <2>3. ProcessFailed(inbox[q]).inst = inbox[q].inst /\ ProcessFailed(inbox[q]).msg = inbox[q].msg
    BY <2>2 DEF ProcessFailed, Rows
  <2>4. Same
    BY <1>6, <2>1, <2>3 DEF MarkFailed, remoteVars
  <2> QED BY <1>s, <2>4
<1>7. CASE Commit
  <2>1. ASSUME NEW r \in DOMAIN inbox
        PROVE  inbox'[r].msg = inbox[r].msg /\ inbox'[r].inst = inbox[r].inst
    <3>1. inbox[r] \in Rows
      BY RowType
    <3>2. Committed(inbox[r]).inst = inbox[r].inst /\ Committed(inbox[r]).msg = inbox[r].msg
      BY <3>1 DEF Committed, Rows
    <3> QED BY <1>7, <3>2 DEF Commit
  <2>2. Same
    BY <1>7, <2>1 DEF Commit, remoteVars
  <2> QED BY <1>s, <2>2
<1>8. CASE Cleanup
  <2>1. PICK q \in DOMAIN inbox :
           inbox' = [inbox EXCEPT ![q] = [inbox[q] EXCEPT !.status = "deleted"]]
    BY <1>8 DEF Cleanup
  <2>2. inbox[q] \in Rows
    BY RowType
  <2>3. /\ [inbox[q] EXCEPT !.status = "deleted"].inst = inbox[q].inst
        /\ [inbox[q] EXCEPT !.status = "deleted"].msg = inbox[q].msg
    BY <2>2 DEF Rows
  <2>4. Same
    BY <1>8, <2>1, <2>3 DEF Cleanup, remoteVars
  <2> QED BY <1>s, <2>4
<1>9. CASE \E inst \in Instances : DeleteInstance(inst)
  <2>1. PICK inst \in Instances : DeleteInstance(inst)
    BY <1>9
  <2>2. ASSUME NEW r \in DOMAIN inbox
        PROVE  inbox'[r].msg = inbox[r].msg /\ inbox'[r].inst = inbox[r].inst
    <3>1. inbox[r] \in Rows
      BY RowType
    <3> QED BY <2>1, <3>1 DEF DeleteInstance, Rows
  <2>3. Same
    BY <2>1, <2>2 DEF DeleteInstance, remoteVars
  <2> QED BY <1>s, <2>3
<1>10. CASE UNCHANGED <<nextMsg, remote, held, lost, inbox>>
  BY <1>10, <1>s
<1>11. \/ UNCHANGED <<nextMsg, remote, held, lost, inbox>>
       \/ Produce \/ LoseReply \/ InsertHeld \/ Crash \/ Pull \/ Subscribe
       \/ (\E inst \in Instances \ {Legacy} : Push(inst))
       \/ DecodeMalformed \/ MarkFailed \/ Commit \/ Cleanup
       \/ \E inst \in Instances : DeleteInstance(inst)
  BY DEF Next, Ingest, Process, ListBatch, ListEmpty, DecodeValid, DecodeMarkError,
         DecodeDone, Resolve, ResolveError, MarkFailedError, MarkDone, CommitError,
         Notify, Wake, vars, remoteVars
<1> QED
  BY <1>1, <1>2, <1>3, <1>4, <1>5, <1>6, <1>7, <1>8, <1>9, <1>10, <1>11

LEMMA InitKept == Init => KeptInv
<1> SUFFICES ASSUME Init PROVE KeptInv
  OBVIOUS
<1>1. /\ nextMsg = 1 /\ remote = <<>> /\ held = <<>> /\ lost = {} /\ inbox = <<>>
  BY DEF Init
<1>2. QueuedMessages = {} /\ HeldMessages = {} /\ StoredMessages = {} /\ 1..(nextMsg - 1) = {}
  BY <1>1 DEF QueuedMessages, HeldMessages, StoredMessages
<1> QED
  BY <1>1, <1>2 DEF KeptInv, OrderInv, Ascending, NothingVanishes, ArrivalOrder

\* No message vanishes or is doubled between CPA and the table, whatever is lost
\* or written again, and Legacy rows come in the order of production
\* (serialPullAndWrite, writeSubscribeBatch, writeInboxLocked).
THEOREM MessagesAreKept == Spec => []MessagesKept
<1>1. Spec => []KeptInv
  BY InitKept, KeptStep, Invariance, PTL DEF Spec
<1>2. KeptInv => MessagesKept
  BY DEF KeptInv, MessagesKept
<1> QED BY <1>1, <1>2, PTL

-----------------------------------------------------------------------------
(* Deleted instances.                                                      *)

\* Nothing of a deleted instance is left in the table.
GoneInv ==
    \A r \in DOMAIN inbox : inbox[r].inst \in gone => inbox[r].status = "deleted"

FinalStep ==
    \A r \in DOMAIN inbox' :
        inbox'[r].inst \in gone => r \in DOMAIN inbox /\ inbox'[r] = inbox[r]

LEMMA GoneStep == Inv /\ GoneInv /\ [Next]_vars => GoneInv' /\ FinalStep
<1> SUFFICES ASSUME Inv, GoneInv, [Next]_vars PROVE GoneInv' /\ FinalStep
  OBVIOUS
<1> USE DEF GoneInv, FinalStep
<1>t. inbox \in Seq(Rows) /\ Legacy \notin gone
  BY DEF Inv, TypeOK
<1>1. CASE UNCHANGED inbox /\ UNCHANGED gone
  BY <1>1
<1>2. CASE InsertHeld
  <2>1. Head(held) \in Seq(Messages) /\ UNCHANGED gone
    BY <1>2, HeadTailProperties DEF InsertHeld, Inv, TypeOK
  <2>2. /\ \A r \in DOMAIN inbox : inbox'[r] = inbox[r]
        /\ \A r \in DOMAIN inbox' \ DOMAIN inbox : inbox'[r].inst = Legacy
    BY <1>2, <2>1, StoreBatch, InboxAssumption DEF InsertHeld
  <2> QED BY <1>t, <2>1, <2>2
<1>3. CASE \E inst \in Instances \ {Legacy} : Push(inst)
  <2>1. PICK inst \in Instances : Push(inst)
    BY <1>3
  <2>2. <<nextMsg>> \in Seq(Messages) /\ UNCHANGED gone
    BY <2>1, InboxAssumption DEF Push, Inv, TypeOK, Messages
  <2>3. /\ \A r \in DOMAIN inbox : inbox'[r] = inbox[r]
        /\ \A r \in DOMAIN inbox' \ DOMAIN inbox : inbox'[r].inst = inst
    BY <2>1, <2>2, StoreBatch DEF Push
  <2> QED BY <2>1, <2>2, <2>3 DEF Push
<1>4. CASE DecodeMalformed
  <2>1. PICK q \in todo : inbox' = [inbox EXCEPT ![q] = DecodeFailed(inbox[q])]
    BY <1>4 DEF DecodeMalformed, Lowest
  <2>2. q \in DOMAIN inbox /\ inbox[q] \in Rows /\ UNCHANGED gone
    BY <1>4, RowType DEF Inv, TypeOK, DecodeMalformed
  <2>3. DecodeFailed(inbox[q]).inst = inbox[q].inst
    BY <2>2 DEF DecodeFailed, Rows
  <2>4. inbox[q].status = "deleted" => DecodeFailed(inbox[q]) = inbox[q]
    BY DEF DecodeFailed
  <2> QED BY <2>1, <2>2, <2>3, <2>4
<1>5. CASE MarkFailed
  <2>1. PICK q \in failing : inbox' = [inbox EXCEPT ![q] = ProcessFailed(inbox[q])]
    BY <1>5 DEF MarkFailed, Lowest
  <2>2. q \in DOMAIN inbox /\ inbox[q] \in Rows /\ UNCHANGED gone
    BY <1>5, RowType DEF Inv, TypeOK, MarkFailed
  <2>3. ProcessFailed(inbox[q]).inst = inbox[q].inst
    BY <2>2 DEF ProcessFailed, Rows
  <2>4. inbox[q].status = "deleted" => ProcessFailed(inbox[q]) = inbox[q]
    BY DEF ProcessFailed
  <2> QED BY <2>1, <2>2, <2>3, <2>4
<1>6. CASE Commit
  <2>1. UNCHANGED gone /\ DOMAIN inbox' = DOMAIN inbox
    BY <1>6 DEF Commit
  <2>2. \A r \in DOMAIN inbox : inbox'[r].inst = inbox[r].inst
    <3> SUFFICES ASSUME NEW r \in DOMAIN inbox
                 PROVE  inbox'[r].inst = inbox[r].inst
      OBVIOUS
    <3>1. inbox[r] \in Rows
      BY RowType
    <3>2. Committed(inbox[r]).inst = inbox[r].inst
      BY <3>1 DEF Committed, Rows
    <3> QED BY <1>6, <3>2 DEF Commit
  <2>3. \A r \in DOMAIN inbox : inbox[r].inst \in gone => inbox'[r] = inbox[r]
    BY <1>6 DEF Commit
  <2> QED BY <2>1, <2>2, <2>3
<1>7. CASE Cleanup
  <2>1. PICK q \in DOMAIN inbox :
           /\ inbox[q].inst = Legacy
           /\ inbox' = [inbox EXCEPT ![q] = [inbox[q] EXCEPT !.status = "deleted"]]
    BY <1>7 DEF Cleanup, Expirable
  <2>2. inbox[q] \in Rows /\ UNCHANGED gone
    BY <1>7, RowType DEF Cleanup
  <2>3. [inbox[q] EXCEPT !.status = "deleted"].inst = Legacy
    BY <2>1, <2>2 DEF Rows
  <2> QED BY <1>t, <2>1, <2>2, <2>3
<1>8. CASE \E inst \in Instances : DeleteInstance(inst)
  <2>1. PICK inst \in Instances : DeleteInstance(inst)
    BY <1>8
  <2>2. DOMAIN inbox' = DOMAIN inbox
    BY <2>1 DEF DeleteInstance
  <2>3. \A r \in DOMAIN inbox :
           /\ inbox'[r].inst = inbox[r].inst
           /\ inbox[r].inst = inst => inbox'[r].status = "deleted"
           /\ inbox[r].inst # inst => inbox'[r] = inbox[r]
    <3> SUFFICES ASSUME NEW r \in DOMAIN inbox
                 PROVE  /\ inbox'[r].inst = inbox[r].inst
                        /\ inbox[r].inst = inst => inbox'[r].status = "deleted"
                        /\ inbox[r].inst # inst => inbox'[r] = inbox[r]
      OBVIOUS
    <3>1. inbox[r] \in Rows
      BY RowType
    <3> QED BY <2>1, <3>1 DEF DeleteInstance, Rows
  <2>4. inst \notin gone /\ gone' = gone \cup {inst}
    BY <2>1 DEF DeleteInstance
  <2> QED BY <2>2, <2>3, <2>4
<1>9. \/ UNCHANGED inbox /\ UNCHANGED gone
      \/ InsertHeld \/ (\E inst \in Instances \ {Legacy} : Push(inst))
      \/ DecodeMalformed \/ MarkFailed \/ Commit \/ Cleanup
      \/ \E inst \in Instances : DeleteInstance(inst)
  BY DEF Next, Ingest, Process, Produce, Pull, Subscribe, LoseReply, ListBatch,
         ListEmpty, DecodeValid, DecodeMarkError, DecodeDone, Resolve,
         ResolveError, MarkFailedError, MarkDone, CommitError, Notify, Wake,
         Crash, vars
<1> QED BY <1>1, <1>2, <1>3, <1>4, <1>5, <1>6, <1>7, <1>8, <1>9

\* Once an instance is deleted, no batch that still holds its rows gives it
\* events, and none of its rows appears or comes back.
THEOREM DeletedForGood == Spec => DeletionIsFinal
<1>1. Init => GoneInv
  BY DEF Init, GoneInv
<1>2. Inv /\ GoneInv /\ [Next]_vars => GoneInv'
  BY GoneStep
<1>3. Spec => []GoneInv
  BY <1>1, <1>2, Invariance, PTL DEF Spec
<1>4. Inv /\ GoneInv /\ [Next]_vars => [FinalStep]_vars
  BY GoneStep
<1> QED BY <1>3, <1>4, Invariance, PTL DEF Spec, DeletionIsFinal, FinalStep

-----------------------------------------------------------------------------
(* UsageInbox implements UsageLedger.  Nearly every step keeps the usage    *)
(* events and only adds to what is given up (KeepStep), so that it maps to  *)
(* GiveUp or to a stutter.  Production and Push map to Offer.  The commit   *)
(* maps to Count: the rows of its batch are still Open and hold different   *)
(* messages, so that each of them is decided once and the events grow by as *)
(* many as there are messages.                                              *)

\* With one event per row at most, there are as many usage events as rows
\* with an event.
CountedIn(s) == {r \in DOMAIN s : s[r].events > 0}

LEMMA FewEvents ==
    ASSUME NEW s \in Seq(Rows), \A r \in DOMAIN s : s[r].events <= 1
    PROVE  /\ IsFiniteSet(CountedIn(s))
           /\ Cardinality(UNION {{r} \X (1..s[r].events) : r \in DOMAIN s})
                 = Cardinality(CountedIn(s))
<1> DEFINE E == UNION {{r} \X (1..s[r].events) : r \in DOMAIN s}
           C == CountedIn(s)
           f == [r \in C |-> <<r, 1>>]
<1>1. IsFiniteSet(C)
  <2>1. DOMAIN s = 1..Len(s) /\ Len(s) \in Nat
    BY LenProperties
  <2>2. IsFiniteSet(DOMAIN s)
    BY <2>1, FS_Interval
  <2> QED BY <2>2, FS_Subset DEF CountedIn
<1>2. \A r \in DOMAIN s : s[r].events \in Nat
  <2>1. \A r \in DOMAIN s : s[r] \in Rows
    BY ElementOfSeq, LenProperties
  <2> QED BY <2>1 DEF Rows
<1>3. E = {<<r, 1>> : r \in C}
  <2>1. \A r \in DOMAIN s : s[r].events = 0 \/ s[r].events = 1
    BY <1>2
  <2>2. \A r \in DOMAIN s : {r} \X (1..s[r].events) =
                              IF r \in C THEN {<<r, 1>>} ELSE {}
    BY <2>1 DEF CountedIn
  <2> QED BY <2>2 DEF CountedIn
<1>4. f \in Bijection(C, E)
  <2> HIDE DEF C, E
  <2>1. \A a, b \in C : f[a] = f[b] => a = b
    OBVIOUS
  <2>2. \A e \in E : \E r \in C : f[r] = e
    BY <1>3
  <2>3. f \in [C -> E]
    BY <1>3
  <2> HIDE DEF f
  <2> QED BY <2>1, <2>2, <2>3 DEF Bijection, Injection, IsInjective, Surjection
<1> QED BY <1>1, <1>4, FS_Bijection DEF ExistsBijection
\* The cardinality the ledger's module knows is the same.
LEMMA LedgerCardinality ==
    ASSUME NEW S PROVE Ledger!Cardinality(S) = Cardinality(S)
  BY DEF Ledger!Cardinality, Cardinality
-----------------------------------------------------------------------------
(* Steps that decide messages only by giving them up.                      *)

KeepStep ==
    /\ nextMsg' = nextMsg
    /\ lost \subseteq lost'
    /\ \A r \in DOMAIN inbox :
          /\ r \in DOMAIN inbox'
          /\ inbox'[r].msg = inbox[r].msg
          /\ inbox'[r].events = inbox[r].events
          /\ r \notin InFlight /\ inbox[r].status \notin Retryable
                => r \notin InFlight' /\ inbox'[r].status \notin Retryable
    /\ \A r \in DOMAIN inbox' \ DOMAIN inbox : inbox'[r].events = 0

\* The number of usage events is the number of rows with an event.
LEMMA Totals ==
    ASSUME Inv, Inv'
    PROVE  /\ IsFiniteSet(CountedIn(inbox)) /\ IsFiniteSet(CountedIn(inbox'))
           /\ Cardinality(EventRows) = Cardinality(CountedIn(inbox))
           /\ Cardinality(EventRows)' = Cardinality(CountedIn(inbox'))
<1>1. inbox \in Seq(Rows) /\ \A r \in DOMAIN inbox : inbox[r].events <= 1
  BY DEF Inv, TypeOK, RowInv, ExactlyOnce
<1>2. inbox' \in Seq(Rows) /\ \A r \in DOMAIN inbox' : inbox'[r].events <= 1
  BY DEF Inv, TypeOK, RowInv, ExactlyOnce
<1>3. /\ IsFiniteSet(CountedIn(inbox))
      /\ Cardinality(EventRows) = Cardinality(CountedIn(inbox))
  BY <1>1, FewEvents DEF EventRows
<1>4. /\ IsFiniteSet(CountedIn(inbox'))
      /\ Cardinality(EventRows)' = Cardinality(CountedIn(inbox'))
  BY <1>2, FewEvents DEF EventRows
<1> QED BY <1>3, <1>4

LEMMA KeepGivesUp ==
    ASSUME Inv, Inv', KeepStep PROVE [Ledger!Next]_Ledger!vars
<1> DEFINE old == [m \in Messages |-> OutcomeOf(m)]
           new == [m \in Messages |-> OutcomeOf(m)']
           S == {m \in Messages : old[m] # new[m]}
<1>1. Cardinality(EventRows)' = Cardinality(EventRows)
  <2>1. inbox' \in Seq(Rows) /\ \A r \in DOMAIN inbox : inbox[r].events \in Nat
    BY RowType DEF Inv, TypeOK, Rows
  <2>2. CountedIn(inbox') = CountedIn(inbox)
    BY <2>1 DEF KeepStep, CountedIn
  <2> QED BY <2>2, Totals
<1>2. \A m \in Messages : Counted(m)' <=> Counted(m)
  BY DEF KeepStep, Counted, RowsOf
<1>3. \A m \in Messages : GivenUp(m) => GivenUp(m)'
  BY DEF KeepStep, GivenUp, RowsOf
<1>4. \A m \in Messages : \/ new[m] = old[m]
                          \/ old[m] = "offered" /\ new[m] = "given_up"
  BY <1>2, <1>3 DEF KeepStep, OutcomeOf
<1>5. CASE S = {}
  <2>1. new = old
    BY <1>5
  <2> QED BY <1>1, <2>1 DEF Ledger!vars
<1>6. CASE S # {}
  <2> HIDE DEF old, new
  <2>1. \A m \in S : old[m] = "offered" /\ new[m] = "given_up"
    BY <1>4
  <2>2. \A m \in Messages \ S : new[m] = old[m]
    OBVIOUS
  <2>3. new = [m \in Messages |-> IF m \in S THEN "given_up" ELSE old[m]]
    BY <2>1, <2>2 DEF new
  <2>4. S \in (SUBSET Messages) \ {{}}
    <3>1. S \subseteq Messages
      OBVIOUS
    <3> HIDE DEF S
    <3> QED BY <1>6, <3>1
  <2> HIDE DEF S
  <2>5. Ledger!GiveUp(S)
    BY <1>1, <2>1, <2>3, <2>4 DEF old, new, Ledger!GiveUp, Ledger!Decide
  <2> QED BY <2>4, <2>5 DEF Ledger!Next
<1> QED BY <1>5, <1>6

\* The runner's batch only loses rows, except that it lists retryable ones.
LEMMA BatchShrinks ==
    ASSUME Inv, Process, NEW r \in InFlight'
    PROVE  r \in InFlight \/ (r \in DOMAIN inbox /\ inbox[r].status \in Retryable)
<1> USE DEF InFlight
<1>1. CASE ListBatch
  <2>1. PICK inst \in BatchInstances :
           todo' = Oldest(Processable(inst)) /\ UNCHANGED <<valid, failing>>
    BY <1>1 DEF ListBatch
  <2> QED BY <2>1, ListedRows
<1>2. CASE \E next \in {"idle", "sleep"} : EndBatch(next)
  BY <1>2 DEF EndBatch
<1>3. ListEmpty \/ DecodeMarkError \/ Notify => \E next \in {"idle", "sleep"} : EndBatch(next)
  BY DEF ListEmpty, DecodeMarkError, Notify, Finish
<1>4. CASE DecodeDone \/ MarkDone
  BY <1>2, <1>4 DEF DecodeDone, MarkDone, Finish
<1>5. CASE DecodeValid \/ DecodeMalformed
  BY <1>5 DEF DecodeValid, DecodeMalformed, Lowest
<1>6. CASE Resolve \/ ResolveError \/ CommitError \/ Commit \/ Wake
  BY <1>6 DEF Resolve, ResolveError, Unresolved, CommitError, Commit, Wake
<1>7. CASE MarkFailed \/ MarkFailedError
  BY <1>7 DEF MarkFailed, MarkFailedError, Lowest
<1> QED BY <1>1, <1>2, <1>3, <1>4, <1>5, <1>6, <1>7 DEF Process

\* Steps that write one row or none.
LEMMA KeepProcess == ASSUME Inv, Process, ~Commit PROVE KeepStep
<1>1. nextMsg' = nextMsg /\ lost' = lost
  BY DEF Process, ListBatch, ListEmpty, DecodeValid, DecodeMalformed,
         DecodeMarkError, DecodeDone, Resolve, ResolveError, MarkFailed,
         MarkFailedError, MarkDone, CommitError, Notify, Wake, remoteVars
<1>2. \A r \in InFlight' : r \in InFlight \/ inbox[r].status \in Retryable
  BY BatchShrinks
<1>3. CASE UNCHANGED inbox
  BY <1>1, <1>2, <1>3 DEF KeepStep
<1>4. CASE \E q \in InFlight : \E row : /\ inbox' = [inbox EXCEPT ![q] = row]
                                      /\ q \in DOMAIN inbox
                                      /\ row.msg = inbox[q].msg
                                      /\ row.events = inbox[q].events
  <2>0. PICK q \in InFlight : \E row : /\ inbox' = [inbox EXCEPT ![q] = row]
                                       /\ q \in DOMAIN inbox
                                       /\ row.msg = inbox[q].msg
                                       /\ row.events = inbox[q].events
    BY <1>4
  <2>1. PICK row : /\ inbox' = [inbox EXCEPT ![q] = row]
                   /\ q \in DOMAIN inbox
                   /\ row.msg = inbox[q].msg
                   /\ row.events = inbox[q].events
    BY <2>0
  <2>2. /\ DOMAIN inbox' = DOMAIN inbox /\ inbox'[q] = row
        /\ \A r \in DOMAIN inbox : r # q => inbox'[r] = inbox[r]
    BY <2>1
  <2> QED BY <1>1, <1>2, <2>1, <2>2 DEF KeepStep
<1>5. CASE DecodeMalformed
  <2>1. PICK q \in todo : inbox' = [inbox EXCEPT ![q] = DecodeFailed(@)]
    BY <1>5 DEF DecodeMalformed, Lowest
  <2>2. q \in DOMAIN inbox
    BY DEF Inv, TypeOK
  <2>3. inbox' = [inbox EXCEPT ![q] = DecodeFailed(inbox[q])]
    BY <2>1
  <2>4. /\ DecodeFailed(inbox[q]).msg = inbox[q].msg
        /\ DecodeFailed(inbox[q]).events = inbox[q].events
    BY <2>2, RowType DEF DecodeFailed, Rows
  <2> QED BY <1>4, <2>2, <2>3, <2>4 DEF InFlight
<1>6. CASE MarkFailed
  <2>1. PICK q \in failing : inbox' = [inbox EXCEPT ![q] = ProcessFailed(inbox[q])]
    BY <1>6 DEF MarkFailed, Lowest
  <2>2. q \in DOMAIN inbox
    BY DEF Inv, TypeOK
  <2>3. /\ ProcessFailed(inbox[q]).msg = inbox[q].msg
        /\ ProcessFailed(inbox[q]).events = inbox[q].events
    BY <2>2, RowType DEF ProcessFailed, Rows
  <2> QED BY <1>4, <2>1, <2>2, <2>3 DEF InFlight
<1> QED
  BY <1>3, <1>5, <1>6 DEF Process, ListBatch, ListEmpty, DecodeValid,
     DecodeMarkError, DecodeDone, Resolve, ResolveError, MarkFailedError,
     MarkDone, CommitError, Notify, Wake

\* The ingest runner only moves messages; a lost reply gives them up.
LEMMA KeepIngest ==
    ASSUME Inv, Pull \/ Subscribe \/ LoseReply \/ InsertHeld PROVE KeepStep
<1>1. nextMsg' = nextMsg /\ lost \subseteq lost' /\ InFlight' = InFlight
  BY DEF Pull, Subscribe, LoseReply, InsertHeld, Pop, remoteVars, workerVars, InFlight
<1>2. CASE UNCHANGED inbox
  BY <1>1, <1>2 DEF KeepStep
<1>3. CASE InsertHeld
  <2>1. Head(held) \in Seq(Messages)
    BY <1>3, HeadTailProperties DEF InsertHeld, Inv, TypeOK
  <2>2. /\ \A r \in DOMAIN inbox : r \in DOMAIN inbox' /\ inbox'[r] = inbox[r]
        /\ \A r \in DOMAIN inbox' \ DOMAIN inbox : inbox'[r].events = 0
    <3>1. inbox \in Seq(Rows) /\ Legacy \in Instances
      BY InboxAssumption DEF Inv, TypeOK
    <3>2. inbox' = inbox \o NewRows(Head(held), Legacy)
      BY <1>3 DEF InsertHeld
    <3> QED BY <2>1, <3>1, <3>2, InsertRows
  <2> QED BY <1>1, <2>2 DEF KeepStep
<1> QED BY <1>2, <1>3 DEF Pull, Subscribe, LoseReply

\* Cleanup, deletion and crashes; no usage event is touched.
LEMMA KeepRest ==
    ASSUME Inv, Cleanup \/ Crash \/ \E inst \in Instances : DeleteInstance(inst)
    PROVE  KeepStep
<1>1. CASE Cleanup
  <2>1. PICK q \in DOMAIN inbox :
           inbox' = [inbox EXCEPT ![q] = [inbox[q] EXCEPT !.status = "deleted"]]
    BY <1>1 DEF Cleanup
  <2>2. InFlight' = InFlight /\ nextMsg' = nextMsg /\ lost' = lost
    BY <1>1 DEF Cleanup, InFlight, workerVars, remoteVars
  <2>3. inbox[q] \in Rows
    BY RowType
  <2>4. /\ DOMAIN inbox' = DOMAIN inbox
        /\ inbox'[q].status = "deleted" /\ inbox'[q].msg = inbox[q].msg
        /\ inbox'[q].events = inbox[q].events
        /\ \A r \in DOMAIN inbox : r # q => inbox'[r] = inbox[r]
    BY <2>1, <2>3 DEF Rows
  <2> QED BY <2>2, <2>4 DEF KeepStep, Retryable
<1>2. CASE Crash
  BY <1>2 DEF Crash, EndBatch, InFlight, remoteVars, KeepStep
<1>3. CASE \E inst \in Instances : DeleteInstance(inst)
  <2>1. PICK inst \in Instances : DeleteInstance(inst)
    BY <1>3
  <2>2. InFlight' = InFlight /\ nextMsg' = nextMsg /\ lost' = lost
    BY <2>1 DEF DeleteInstance, InFlight, workerVars, remoteVars
  <2>3. DOMAIN inbox' = DOMAIN inbox
    BY <2>1 DEF DeleteInstance
  <2>4. ASSUME NEW r \in DOMAIN inbox
        PROVE  \/ inbox'[r] = inbox[r]
               \/ /\ inbox'[r].status = "deleted" /\ inbox'[r].msg = inbox[r].msg
                  /\ inbox'[r].events = inbox[r].events
    <3>1. inbox[r] \in Rows
      BY RowType
    <3> QED BY <2>1, <3>1 DEF DeleteInstance, Rows
  <2> QED BY <2>2, <2>3, <2>4 DEF KeepStep, Retryable
<1> QED BY <1>1, <1>2, <1>3
-----------------------------------------------------------------------------
(* Steps that offer a message.                                             *)

\* The next message has no row and was not lost; afterwards it is in CPA's
\* queue or in a pending row.
LEMMA OfferNext ==
    ASSUME Inv, Inv', KeptInv, nextMsg \in Messages,
           nextMsg' = nextMsg + 1, UNCHANGED <<lost, todo, valid, failing>>,
           \A r \in DOMAIN inbox : r \in DOMAIN inbox' /\ inbox'[r] = inbox[r],
           \A r \in DOMAIN inbox' \ DOMAIN inbox :
              /\ inbox'[r].msg = nextMsg
              /\ inbox'[r].status = "pending" /\ inbox'[r].events = 0
    PROVE  [Ledger!Next]_Ledger!vars
<1> DEFINE old == [m \in Messages |-> OutcomeOf(m)]
           new == [m \in Messages |-> OutcomeOf(m)']
<1>1. /\ nextMsg \in Nat /\ nextMsg \notin lost
      /\ \A r \in DOMAIN inbox : inbox[r].msg # nextMsg
  BY Older DEF Inv, KeptInv, StoredMessages
<1>2. Cardinality(EventRows)' = Cardinality(EventRows)
  <2>1. CountedIn(inbox') = CountedIn(inbox)
    BY DEF CountedIn
  <2> QED BY <2>1, Totals
<1>3. InFlight' = InFlight
  BY DEF InFlight
<1>4. \A m \in Messages : Counted(m)' <=> Counted(m)
  BY DEF Counted, RowsOf
<1>5. \A m \in Messages : GivenUp(m)' <=> GivenUp(m)
  BY <1>3 DEF GivenUp, RowsOf, Retryable
<1>6. old[nextMsg] = "unknown" /\ new[nextMsg] = "offered"
  <2>1. ~Counted(nextMsg) /\ ~GivenUp(nextMsg)
    BY <1>1 DEF Counted, GivenUp, RowsOf
  <2> QED BY <1>1, <1>4, <1>5, <2>1 DEF OutcomeOf
<1>7. \A m \in Messages \ {nextMsg} : new[m] = old[m]
  BY <1>1, <1>4, <1>5 DEF OutcomeOf, Messages
<1> HIDE DEF old, new
<1>8. new = [m \in Messages |-> IF m \in {nextMsg} THEN "offered" ELSE old[m]]
  BY <1>6, <1>7 DEF new
<1>9. Ledger!Offer(nextMsg)
  BY <1>2, <1>6, <1>8 DEF old, new, Ledger!Offer, Ledger!Decide
<1> QED BY <1>9 DEF Ledger!Next

LEMMA ProduceOffers ==
    ASSUME Inv, Inv', KeptInv,
           Produce \/ \E inst \in Instances \ {Legacy} : Push(inst)
    PROVE  [Ledger!Next]_Ledger!vars
<1>1. CASE Produce
  <2>1. nextMsg \in Messages
    BY <1>1 DEF Produce, Messages, Inv, TypeOK, InboxAssumption
  <2> QED BY <1>1, <2>1, OfferNext DEF Produce, workerVars
<1>2. CASE \E inst \in Instances \ {Legacy} : Push(inst)
  <2>1. PICK inst \in Instances \ {Legacy} : Push(inst)
    BY <1>2
  <2>2. /\ nextMsg \in Messages /\ nextMsg' = nextMsg + 1
        /\ UNCHANGED <<lost, todo, valid, failing>>
        /\ inbox' = inbox \o NewRows(<<nextMsg>>, inst)
    BY <2>1, InboxAssumption DEF Push, workerVars, Messages, Inv, TypeOK
  <2> DEFINE s == <<nextMsg>>
  <2>3. s \in Seq(Messages) /\ \A i \in DOMAIN s : s[i] = nextMsg
    BY <2>2
  <2>4. inbox \in Seq(Rows) /\ inst \in Instances /\ inbox' = inbox \o NewRows(s, inst)
    BY <2>2 DEF Inv, TypeOK
  <2> HIDE DEF s
  <2>5. /\ \A r \in DOMAIN inbox : r \in DOMAIN inbox' /\ inbox'[r] = inbox[r]
        /\ \A r \in DOMAIN inbox' \ DOMAIN inbox :
              inbox'[r].status = "pending" /\ inbox'[r].events = 0
    BY <2>3, <2>4, InsertRows
  <2>6. \A r \in DOMAIN inbox' \ DOMAIN inbox : inbox'[r].msg = nextMsg
    <3>1. \A r \in DOMAIN inbox' \ DOMAIN inbox :
             r - Len(inbox) \in DOMAIN s /\ inbox'[r].msg = s[r - Len(inbox)]
      BY <2>3, <2>4, StoreBatch
    <3> QED BY <2>3, <3>1
  <2> QED BY <2>2, <2>5, <2>6, OfferNext
<1> QED BY <1>1, <1>2
-----------------------------------------------------------------------------
(* The commit.                                                             *)

\* Different rows of a batch hold different messages, so the committed
\* messages are as many as the new usage events.
LEMMA CommitCounts ==
    ASSUME Inv, Inv', KeptInv, Commit PROVE [Ledger!Next]_Ledger!vars
<1> DEFINE old == [m \in Messages |-> OutcomeOf(m)]
           new == [m \in Messages |-> OutcomeOf(m)']
           S == {inbox[r].msg : r \in valid}
           f == [r \in valid |-> inbox[r].msg]
<1>1. /\ UNCHANGED <<nextMsg, lost, todo, valid, failing>>
      /\ DOMAIN inbox' = DOMAIN inbox
      /\ valid \subseteq DOMAIN inbox
      /\ \A r \in valid : inbox'[r] = Committed(inbox[r])
      /\ \A r \in DOMAIN inbox \ valid : inbox'[r] = inbox[r]
  BY DEF Commit, Inv, TypeOK, remoteVars
<1>2. \A r \in valid : /\ Open(r) /\ inbox[r] \in Rows
                       /\ inbox'[r].events = 1 /\ inbox'[r].msg = inbox[r].msg
  <2> SUFFICES ASSUME NEW r \in valid
               PROVE  /\ Open(r) /\ inbox[r] \in Rows
                      /\ inbox'[r].events = 1 /\ inbox'[r].msg = inbox[r].msg
    OBVIOUS
  <2>1. Open(r)
    BY DEF Commit, Inv, BatchInv
  <2>2. inbox[r] \in Rows
    BY <1>1, RowType
  <2>3. inbox[r].events = 0
    BY <2>1 DEF Open
  <2>4. /\ Committed(inbox[r]).events = inbox[r].events + 1
        /\ Committed(inbox[r]).msg = inbox[r].msg
    BY <2>2 DEF Committed, Rows
  <2>5. inbox'[r] = Committed(inbox[r])
    BY <1>1
  <2> QED BY <2>1, <2>2, <2>3, <2>4, <2>5
<1>3. \A r, q \in DOMAIN inbox : inbox[r].msg = inbox[q].msg => r = q
  BY DEF KeptInv, NothingVanishes
<1>4. \A r \in DOMAIN inbox : /\ inbox[r].msg \in Messages /\ inbox[r].msg < nextMsg
                              /\ inbox[r].msg \notin lost
  <2>1. \A r \in DOMAIN inbox : inbox[r].msg \in Messages
    BY RowType DEF Rows
  <2> QED BY <2>1, Older DEF Inv, KeptInv, NothingVanishes, StoredMessages
<1>5. IsFiniteSet(valid)
  <2>1. DOMAIN inbox = 1..Len(inbox) /\ Len(inbox) \in Nat
    BY LenProperties DEF Inv, TypeOK
  <2>2. IsFiniteSet(DOMAIN inbox)
    BY <2>1, FS_Interval
  <2> QED BY <1>1, <2>2, FS_Subset
<1>6. IsFiniteSet(S) /\ Cardinality(S) = Cardinality(valid)
  <2>1. \A a, b \in valid : f[a] = f[b] => a = b
    BY <1>1, <1>3
  <2>2. f \in [valid -> S] /\ \A x \in S : \E r \in valid : f[r] = x
    OBVIOUS
  <2> HIDE DEF f, S
  <2>3. f \in Bijection(valid, S)
    BY <2>1, <2>2 DEF Bijection, Injection, IsInjective, Surjection
  <2> QED BY <1>5, <2>3, FS_Bijection DEF ExistsBijection
<1>7. Cardinality(EventRows)' = Cardinality(EventRows) + Cardinality(S)
  <2>1. CountedIn(inbox') = CountedIn(inbox) \cup valid
    BY <1>1, <1>2 DEF CountedIn
  <2>2. CountedIn(inbox) \cap valid = {}
    BY <1>2 DEF CountedIn, Open
  <2>3. Cardinality({}) = 0
    BY FS_EmptySet
  <2>4. Cardinality(CountedIn(inbox)) \in Nat /\ Cardinality(valid) \in Nat
    BY <1>5, Totals, FS_CardinalityType
  <2>5. Cardinality(CountedIn(inbox) \cup valid) =
           Cardinality(CountedIn(inbox)) + Cardinality(valid)
             - Cardinality(CountedIn(inbox) \cap valid)
    BY <1>5, Totals, FS_Union
  <2>6. /\ Cardinality(EventRows) = Cardinality(CountedIn(inbox))
        /\ Cardinality(EventRows)' = Cardinality(CountedIn(inbox'))
    BY Totals
  <2>7. Cardinality(CountedIn(inbox')) =
           Cardinality(CountedIn(inbox)) + Cardinality(valid) - Cardinality({})
    BY <2>1, <2>2, <2>5
  <2>8. Cardinality(CountedIn(inbox')) =
           Cardinality(CountedIn(inbox)) + Cardinality(valid)
    BY <2>3, <2>4, <2>7
  <2> QED BY <1>6, <2>6, <2>8
<1>8. \A m \in S : old[m] = "offered" /\ new[m] = "counted"
  <2> SUFFICES ASSUME NEW r \in valid, NEW m, m = inbox[r].msg
               PROVE  old[m] = "offered" /\ new[m] = "counted"
    OBVIOUS
  <2>1. m \in Messages /\ m < nextMsg /\ m \in Int /\ nextMsg \in Int /\ ~(m >= nextMsg)
    BY <1>1, <1>4 DEF Messages, Inv, TypeOK
  <2>2. RowsOf(m) = {r}
    BY <1>1, <1>3 DEF RowsOf
  <2>3. ~Counted(m) /\ ~GivenUp(m)
    BY <1>1, <1>2, <1>4, <2>2 DEF Counted, GivenUp, Open, InFlight
  <2>4. Counted(m)'
    BY <1>1, <1>2 DEF Counted, RowsOf
  <2> QED BY <1>1, <2>1, <2>3, <2>4 DEF OutcomeOf
<1>9. \A m \in Messages \ S : new[m] = old[m]
  <2> SUFFICES ASSUME NEW m \in Messages \ S PROVE OutcomeOf(m)' = OutcomeOf(m)
    OBVIOUS
  <2>1. \A r \in RowsOf(m) : r \in DOMAIN inbox \ valid
    BY DEF RowsOf
  <2>2. RowsOf(m)' = RowsOf(m)
    BY <1>1, <1>2 DEF RowsOf
  <2>3. InFlight' = InFlight
    BY <1>1 DEF InFlight
  <2>4. Counted(m)' <=> Counted(m)
    BY <1>1, <2>1, <2>2 DEF Counted
  <2>5. GivenUp(m)' <=> GivenUp(m)
    BY <1>1, <2>1, <2>2, <2>3 DEF GivenUp
  <2> QED BY <1>1, <2>4, <2>5 DEF OutcomeOf
<1>10. S \subseteq Messages
  BY <1>1, <1>4
<1> HIDE DEF old, new, S
<1>11. new = [m \in Messages |-> IF m \in S THEN "counted" ELSE old[m]]
  BY <1>8, <1>9 DEF new
<1>12. CASE S = {}
  <2>1. new = old /\ Cardinality(EventRows)' = Cardinality(EventRows)
    <3>1. new = old
      BY <1>11, <1>12 DEF old
    <3>2. Cardinality(S) = 0 /\ Cardinality(EventRows) \in Nat
      BY <1>12, FS_EmptySet, Totals, FS_CardinalityType
    <3> QED BY <1>7, <3>1, <3>2
  <2> QED BY <2>1 DEF old, new, Ledger!vars
<1>13. CASE S # {}
  <2>1. Ledger!Decide(S, "offered", "counted")
    BY <1>8, <1>10, <1>11 DEF old, new, Ledger!Decide
  <2>2. Ledger!Count(S)
    BY <1>7, <2>1, LedgerCardinality DEF Ledger!Count
  <2> QED BY <1>10, <1>13, <2>2 DEF Ledger!Next
<1> QED BY <1>12, <1>13
-----------------------------------------------------------------------------
LEMMA LedgerInit == Init => Ledger!Init
<1> SUFFICES ASSUME Init PROVE Ledger!Init
  OBVIOUS
<1>1. EventRows = {}
  BY DEF Init, EventRows
<1>2. \A m \in Messages : OutcomeOf(m) = "unknown"
  BY DEF Init, OutcomeOf, Messages
<1> QED BY <1>1, <1>2, FS_EmptySet DEF Ledger!Init

LEMMA LedgerStep ==
    Inv /\ Inv' /\ KeptInv /\ [Next]_vars => [Ledger!Next]_Ledger!vars
<1> SUFFICES ASSUME Inv, Inv', KeptInv, [Next]_vars
             PROVE  [Ledger!Next]_Ledger!vars
  OBVIOUS
<1>1. CASE UNCHANGED vars
  <2>1. KeepStep
    BY <1>1 DEF vars, KeepStep, InFlight
  <2> QED BY <2>1, KeepGivesUp
<1>2. CASE Ingest
  BY <1>2, KeepIngest, KeepGivesUp, ProduceOffers DEF Ingest
<1>3. CASE Process
  BY <1>3, KeepProcess, KeepGivesUp, CommitCounts
<1>4. CASE Cleanup \/ Crash \/ \E inst \in Instances : DeleteInstance(inst)
  BY <1>4, KeepRest, KeepGivesUp
<1> QED BY <1>1, <1>2, <1>3, <1>4 DEF Next

\* Tables, batches, retries, crashes and deletions together implement the
\* ledger: every message CPA hands out is decided once, counted or given up,
\* and usage_events has one row per counted message.
THEOREM PipelineIsLedger == Spec => ImplementsLedger
<1>1. Spec => [](Inv /\ KeptInv)
  BY InitKept, KeptStep, Invariance, PTL DEF Spec
<1> QED BY <1>1, LedgerInit, LedgerStep, PTL DEF Spec, ImplementsLedger, Ledger!Spec
=============================================================================
