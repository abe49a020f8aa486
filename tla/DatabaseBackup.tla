--------------------------- MODULE DatabaseBackup ---------------------------
(***************************************************************************)
(* The scheduled backups of the database.  DatabaseBackupRunner sleeps     *)
(* until a backup is due, has the Writer copy the database to a file of    *)
(* the day's directory, and cleans the directories up.  Each step on the   *)
(* file system is an action, may fail, and may be the last one before the  *)
(* process dies.  The copy is taken under a pinned read snapshot, so what  *)
(* is written to the database meanwhile does not matter to it, and the     *)
(* model leaves the contents of a file out but for whether it is whole.    *)
(* Time is in units of the delay before a retry.                           *)
(***************************************************************************)
EXTENDS Integers, FiniteSets

CONSTANTS
    DayTicks,       \* units a day has
    BackupHour,     \* units from midnight to 04:00
    Intervals,      \* values BACKUP_INTERVAL may have
    Retentions,     \* values BACKUP_RETENTION_DAYS may have, in days
    MaxRetries,     \* 3
    MaxClock,       \* bound: the instant a behaviour ends at
    MaxSlow,        \* bound: units the runner is late or at work
    MaxFaults       \* bound: crashes, and steps that fail

ASSUME BackupAssumption ==
    /\ DayTicks \in Nat /\ BackupHour \in Nat \ {0} /\ MaxClock \in Nat /\ MaxFaults \in Nat /\ MaxSlow \in Nat
    /\ MaxRetries \in Nat
    /\ BackupHour < DayTicks
    /\ Intervals \subseteq Nat \ {0}
    /\ Retentions \subseteq Nat

VARIABLES
    clock,      \* the time
    plan,       \* interval, retentionDays and compress, as configured
    files,      \* what the backup directory holds
    runner,     \* where the runner is, and its fields
    made,       \* history: the backups that were finished
    faults,     \* crashes and failed steps so far
    slow        \* units it was late or at work so far

backupVars == <<clock, plan, files, runner, made, faults, slow>>

Retry == 1                      \* retryDelay
Never == -1                     \* the zero time
DayAt(t) == t \div DayTicks
Largest(S) == CHOOSE x \in S : \A y \in S : y <= x
Smallest(S) == CHOOSE x \in S : \A y \in S : x <= y

\* Variant with a fault: compressed backups are not part of the history.
ListedUncompressed == {f \in files : f.ext = "db"}

\* ListFiles: a compressed backup counts as one that is not.
Listed == {f \in files : f.ext \in {"db", "gz"}}
LastBackupAt == IF Listed = {} THEN Never ELSE Largest({f.mtime : f \in Listed})

\* The history may be unreadable; then only what this process did is known.
LastFromHistory(own, readable) ==
    IF readable /\ LastBackupAt > own THEN LastBackupAt ELSE own

UsesDailySchedule == plan.interval >= DayTicks /\ plan.interval % DayTicks = 0
NextDailyBackupAt ==
    LET today == DayAt(clock) * DayTicks + BackupHour
    IN IF clock < today THEN today ELSE today + DayTicks
NextDailyDelay(last) ==
    LET candidate == DayAt(last) * DayTicks + BackupHour + plan.interval
        next == IF last # Never /\ clock < candidate THEN candidate ELSE NextDailyBackupAt
    IN next - clock

NextDelay(last, pending) ==
    IF pending THEN Retry
    ELSE IF UsesDailySchedule THEN NextDailyDelay(last)
    ELSE IF last = Never THEN 0
    ELSE last + plan.interval - clock

AtLeastNone(delay) == IF delay < 0 THEN 0 ELSE delay

\* The runner goes to sleep; `fresh` says what it knows of its own attempts.
Sleeping(fresh, readable) ==
    [at |-> "asleep",
     wake |-> clock + AtLeastNone(NextDelay(LastFromHistory(fresh.last, readable), fresh.pending)),
     last |-> fresh.last, attempts |-> fresh.attempts, pending |-> fresh.pending,
     blind |-> ~readable, stamp |-> Never, file |-> Never, cleaning |-> FALSE]
Fresh == [last |-> Never, attempts |-> 0, pending |-> FALSE]
Down == [Sleeping(Fresh, TRUE) EXCEPT !.at = "down", !.wake = Never]

BackupInit ==
    /\ clock \in {BackupHour - 1, BackupHour + 1}
    /\ plan \in [interval : Intervals, retention : Retentions, compress : BOOLEAN]
    /\ files = {}
    /\ runner = Down
    /\ made = {}
    /\ faults = 0
    /\ slow = 0

At(point) == runner.at = point
Reach(point) == runner' = [runner EXCEPT !.at = point]
Fault == faults < MaxFaults /\ faults' = faults + 1
Has(stamp, ext) == \E f \in files : f.at = stamp /\ f.ext = ext
Without(stamp, ext) == {f \in files : ~(f.at = stamp /\ f.ext = ext)}
Written(stamp, ext, whole) == [at |-> stamp, ext |-> ext, whole |-> whole, mtime |-> clock]

\* An attempt was made at this instant; stamps have nanoseconds, so no two
\* attempts share one.
Taken == \E f \in files : f.at = clock

\* Time passes while the runner waits, and, at most MaxSlow units of it in a
\* behaviour, while it is late, copies or compresses.
Tick ==
    /\ clock < MaxClock
    /\ clock' = clock + 1
    /\ \/ At("down") /\ slow' = slow
       \/ At("asleep") /\ (clock < runner.wake \/ Taken) /\ slow' = slow
       \/ /\ runner.at \in {"asleep", "copying", "zipping"} /\ clock >= runner.wake
          /\ slow < MaxSlow /\ slow' = slow + 1
    /\ UNCHANGED <<plan, files, runner, made, faults>>

StartRunner ==
    /\ At("down")
    /\ \/ runner' = Sleeping(Fresh, TRUE) /\ faults' = faults
       \/ runner' = Sleeping(Fresh, FALSE) /\ Fault
    /\ UNCHANGED <<clock, slow, plan, files, made>>

\* The process ends, between any two steps.
Crash ==
    /\ ~At("down")
    /\ Fault
    /\ runner' = Down
    /\ UNCHANGED <<clock, slow, plan, files, made>>

\* The timer fires and WriteDatabase creates the file it copies to.
BeginBackup ==
    /\ At("asleep") /\ clock >= runner.wake
    /\ ~Taken
    /\ files' = files \cup {Written(clock, "db.tmp", FALSE)}
    /\ runner' = [runner EXCEPT !.at = "copying", !.stamp = clock, !.file = clock]
    /\ UNCHANGED <<clock, slow, plan, made, faults>>

\* What follows an attempt: its result, and the cleanup it is followed by.
Attempted(ok) ==
    LET tries == runner.attempts + 1
        known == IF ok THEN [last |-> runner.stamp, attempts |-> 0, pending |-> FALSE]
                 ELSE [last |-> runner.last, attempts |-> tries, pending |-> tries <= MaxRetries]
    IN runner' = [runner EXCEPT
           !.last = known.last, !.attempts = known.attempts, !.pending = known.pending,
           !.at = IF plan.retention > 0 THEN "cleaning" ELSE "resting",
           !.file = Never, !.cleaning = TRUE]

\* A step fails: an attempt failed, or the cleanup ends early.
StepFails == IF runner.cleaning THEN Reach("resting") ELSE Attempted(FALSE)

CopyDatabase ==
    /\ At("copying")
    /\ \/ /\ files' = Without(runner.stamp, "db.tmp") \cup {Written(runner.stamp, "db.tmp", TRUE)}
          /\ Reach("copied")
          /\ faults' = faults
       \/ Fault /\ files' = Without(runner.stamp, "db.tmp") /\ Attempted(FALSE)
    /\ UNCHANGED <<clock, slow, plan, made>>

FinalizeBackup ==
    /\ At("copied")
    /\ \/ /\ files' = {IF f.at = runner.stamp THEN [f EXCEPT !.ext = "db"] ELSE f : f \in files}
          /\ made' = made \cup {[at |-> runner.stamp,
                                 due |-> ~runner.pending /\ ~runner.blind]}
          /\ IF plan.compress THEN Reach("compressing") ELSE Attempted(TRUE)
          /\ faults' = faults
       \/ Fault /\ files' = Without(runner.stamp, "db.tmp") /\ Attempted(FALSE) /\ made' = made
    /\ UNCHANGED <<clock, slow, plan>>

\* writeCompressedCopy, from the file that was there to the renamed copy.
OpenCompressed ==
    /\ At("compressing")
    /\ \/ /\ files' = Without(runner.file, "gz.tmp") \cup {Written(runner.file, "gz.tmp", FALSE)}
          /\ Reach("zipping")
          /\ faults' = faults
       \/ Fault /\ files' = Without(runner.file, "gz.tmp") /\ StepFails
    /\ UNCHANGED <<clock, slow, plan, made>>

WriteCompressed ==
    /\ At("zipping")
    /\ \/ /\ files' = Without(runner.file, "gz.tmp") \cup {Written(runner.file, "gz.tmp", TRUE)}
          /\ Reach("zipped")
          /\ faults' = faults
       \/ Fault /\ files' = Without(runner.file, "gz.tmp") /\ StepFails
    /\ UNCHANGED <<clock, slow, plan, made>>

RemoveOldCompressed ==
    /\ At("zipped")
    /\ files' = Without(runner.file, "gz")
    /\ Reach("replacing")
    /\ UNCHANGED <<clock, slow, plan, made, faults>>

RenameCompressed ==
    /\ At("replacing")
    /\ \/ /\ files' = {IF f.at = runner.file /\ f.ext = "gz.tmp" THEN [f EXCEPT !.ext = "gz"] ELSE f :
                         f \in files}
          /\ Reach("compressed")
          /\ faults' = faults
       \/ Fault /\ files' = Without(runner.file, "gz.tmp") /\ StepFails
    /\ UNCHANGED <<clock, slow, plan, made>>

RemoveSource ==
    /\ At("compressed")
    /\ \/ /\ files' = Without(runner.file, "db")
          /\ IF runner.cleaning THEN Reach("cleaning") ELSE Attempted(TRUE)
          /\ faults' = faults
       \/ Fault /\ files' = files /\ StepFails
    /\ UNCHANGED <<clock, slow, plan, made>>

\* compressExistingBackups takes the next file it has listed.
Uncompressed == {f.at : f \in {g \in files : g.ext = "db"}}
CompressExisting ==
    /\ At("cleaning") /\ plan.compress /\ Uncompressed # {}
    /\ runner' = [runner EXCEPT !.at = "compressing", !.file = Smallest(Uncompressed)]
    /\ UNCHANGED <<clock, slow, plan, files, made, faults>>

\* Cleanup removes what is in the directories of expired days.
KeepDay(now) == DayAt(now) - (plan.retention - 1)
Expired == {f \in files : DayAt(f.at) < KeepDay(runner.stamp)}
RemoveExpired ==
    /\ At("cleaning") /\ (plan.compress => Uncompressed = {})
    /\ \/ /\ \E f \in Expired : files' = files \ {f}
          /\ UNCHANGED <<runner, faults>>
       \/ Expired # {} /\ Fault /\ Reach("resting") /\ files' = files
       \/ Expired = {} /\ Reach("resting") /\ UNCHANGED <<files, faults>>
    /\ UNCHANGED <<clock, slow, plan, made>>

Rest ==
    /\ At("resting")
    /\ \/ runner' = Sleeping(runner, TRUE) /\ faults' = faults
       \/ runner' = Sleeping(runner, FALSE) /\ Fault
    /\ UNCHANGED <<clock, slow, plan, files, made>>

BackupNext ==
    \/ Tick \/ StartRunner \/ Crash \/ BeginBackup \/ CopyDatabase \/ FinalizeBackup
    \/ OpenCompressed \/ WriteCompressed \/ RemoveOldCompressed \/ RenameCompressed
    \/ RemoveSource \/ CompressExisting \/ RemoveExpired \/ Rest

BackupSpec == BackupInit /\ [][BackupNext]_backupVars
-----------------------------------------------------------------------------
(* What the names of the files promise: a file with a backup's name is     *)
(* whole, whatever step failed or was the last one.                        *)
NamesPromise == \A f \in Listed : f.whole /\ \E b \in made : b.at = f.at

(* A finished backup can be restored until its day has expired.            *)
Restorable ==
    \A b \in made :
        \/ Has(b.at, "db") \/ Has(b.at, "gz")
        \/ plan.retention > 0 /\ DayAt(b.at) < KeepDay(clock)

(* A backup that was due, not a retry, and whose runner could read the     *)
(* history is an interval from every one that had not expired, across      *)
(* restarts too.                                                           *)
Spaced ==
    \A a, b \in made :
        a.at < b.at /\ b.due /\ (plan.retention = 0 \/ DayAt(a.at) >= KeepDay(b.at)) =>
            IF UsesDailySchedule THEN (DayAt(b.at) - DayAt(a.at)) * DayTicks >= plan.interval
            ELSE b.at - a.at >= plan.interval

(* Without a fault no temporary file outlives the step that writes it.     *)
NothingLeft ==
    faults = 0 => \A f \in files : f.ext \in {"db.tmp", "gz.tmp"} => f.at \in {runner.stamp, runner.file}

BackupsKept == NamesPromise /\ Restorable /\ Spaced /\ NothingLeft
=============================================================================
