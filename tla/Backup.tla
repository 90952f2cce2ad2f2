------------------------------- MODULE Backup -------------------------------
(***************************************************************************)
(* scripts/backup_postgres.sh with --retention-days and --verify-restore,  *)
(* run several times over one backup directory.  Each command of the       *)
(* script is a step; set -e ends the script when a command fails, and the  *)
(* trap cleans up, from the moment it is set.  A script may be told to     *)
(* stop (INT, TERM) or be killed between any two commands and in the       *)
(* middle of those that write, and a removal of a trap may fail as well.   *)
(***************************************************************************)
EXTENDS Naturals, FiniteSets

CONSTANTS Runs,        \* the executions of the script, numbered as they start
          Retention,   \* --retention-days
          MaxDay,      \* bound: the last day
          MaxFaults    \* bound: signals sent and removals that failed

ASSUME BackupAssumption ==
    /\ Runs \subseteq Nat
    /\ Retention \in Nat \ {0}
    /\ MaxDay \in Nat \ {0}
    /\ MaxFaults \in Nat

VARIABLES
    day,           \* the host's date
    pc,            \* the command each script is about to run, or is running
    lock,          \* the lock directory is there
    partial,       \* the .partial file of each run
    final,         \* the .dump file of each run
    sums,          \* the runs whose .sha256 file is there and complete
    made,          \* the day of each run's dump, its file's mtime
    temporary,     \* the runs whose restore container or volume is there
    pending,       \* the scripts whose INT or TERM trap has not run yet
    checked,       \* history: the runs whose checksum was verified
    unremoved,     \* history: what the trap of which run failed to remove
    interrupted,   \* history: an INT or TERM trap has run
    signals        \* bound: signals sent so far

files   == <<partial, final, sums, made>>
history == <<checked, unremoved, interrupted>>
vars    == <<day, pc, lock, files, temporary, pending, history, signals>>

Contents == {"absent", "truncated", "complete"}

Leftovers == {"partial", "lock", "temporary"}

(* The commands after the trap is set; a script past the lock runs one of   *)
(* them, or is about to set the trap.                                       *)
Trapped == {"inspect", "dump", "copy", "copying", "move", "unstage", "sum",
            "check", "restore", "restoring", "unverified", "expire"}
Working == {"locked"} \cup Trapped
InProgress == {"copying", "restoring"}
Ended   == {"done", "failed", "refused", "stopped", "killed"}

BackupTypeOK ==
    /\ day \in 1 .. MaxDay
    /\ pc \in [Runs -> Working \cup Ended \cup {"new"}]
    /\ lock \in BOOLEAN
    /\ partial \in [Runs -> Contents]
    /\ final \in [Runs -> Contents]
    /\ sums \subseteq Runs
    /\ made \in [Runs -> 0 .. MaxDay]
    /\ temporary \subseteq Runs
    /\ pending \subseteq Runs
    /\ checked \subseteq Runs
    /\ unremoved \subseteq Runs \X Leftovers
    /\ interrupted \in BOOLEAN
    /\ signals \in Nat

Init ==
    /\ day = 1
    /\ pc = [r \in Runs |-> "new"]
    /\ lock = FALSE
    /\ partial = [r \in Runs |-> "absent"]
    /\ final = [r \in Runs |-> "absent"]
    /\ sums = {}
    /\ made = [r \in Runs |-> 0]
    /\ temporary = {}
    /\ pending = {}
    /\ checked = {}
    /\ unremoved = {}
    /\ interrupted = FALSE
    /\ signals = 0

(* bound: a script is over before its own dump expires, and its retention   *)
(* loop is over within the day.                                             *)
NextDay ==
    /\ day < MaxDay
    /\ \A r \in Runs :
          /\ pc[r] # "expire"
          /\ (pc[r] \in Working /\ made[r] # 0) => day < made[r] + Retention
    /\ day' = day + 1
    /\ UNCHANGED <<pc, lock, files, temporary, pending, history, signals>>

-----------------------------------------------------------------------------
(* The lock and the trap.                                                  *)

Starts(r) == pc[r] = "new" /\ \A q \in Runs : q < r => pc[q] # "new"

Acquire(r) ==
    /\ Starts(r)
    /\ ~lock
    /\ lock' = TRUE
    /\ pc' = [pc EXCEPT ![r] = "locked"]
    /\ UNCHANGED <<day, files, temporary, pending, history, signals>>

(* Mutant: the trap is set before the lock is taken. *)
RefuseAndCleanUp(r) ==
    /\ Starts(r)
    /\ lock
    /\ lock' = FALSE
    /\ pc' = [pc EXCEPT ![r] = "refused"]
    /\ UNCHANGED <<day, files, temporary, pending, history, signals>>

(* Another backup is running, or one left its lock: exit, with no trap set. *)
Refuse(r) ==
    /\ Starts(r)
    /\ lock
    /\ pc' = [pc EXCEPT ![r] = "refused"]
    /\ UNCHANGED <<day, lock, files, temporary, pending, history, signals>>

SetTrap(r) ==
    /\ pc[r] = "locked"
    /\ pc' = [pc EXCEPT ![r] = "inspect"]
    /\ UNCHANGED <<day, lock, files, temporary, pending, history, signals>>

Unremoved(r, what) ==
    /\ unremoved' = unremoved \cup {<<r, what>>}
    /\ signals + Cardinality(unremoved') <= MaxFaults

(* Mutant: only the lock is given back. *)
ReleaseLock(r) == lock' = FALSE /\ UNCHANGED <<partial, unremoved>>

(* cleanup: whoever owns the lock directory, it is removed; a rmdir that    *)
(* fails is passed over.                                                    *)
CleanUp(r) ==
    /\ partial' = [partial EXCEPT ![r] = "absent"]
    /\ \/ lock' = FALSE /\ UNCHANGED unremoved
       \/ lock /\ Unremoved(r, "lock") /\ UNCHANGED lock

(* cleanup when rm -f fails: set -e ends it there, and with it the script.  *)
LeavePartial(r) ==
    /\ partial[r] # "absent"
    /\ Unremoved(r, "partial")
    /\ UNCHANGED <<lock, partial>>

(* Mutant: there is no EXIT trap. *)
FailWithoutTrap(r) ==
    /\ pc[r] \in Trapped \ {"restoring"}
    /\ pc' = [pc EXCEPT ![r] = "failed"]
    /\ pending' = pending \ {r}
    /\ UNCHANGED <<day, lock, files, temporary, history, signals>>

(* The command fails: PostgreSQL is not healthy, docker, a checksum or the  *)
(* restored database is not right.                                          *)
Fail(r) ==
    /\ pc[r] \in Trapped \ {"restoring"}
    /\ CleanUp(r) \/ LeavePartial(r)
    /\ pc' = [pc EXCEPT ![r] = "failed"]
    /\ pending' = pending \ {r}
    /\ UNCHANGED <<day, final, sums, made, temporary, checked, interrupted, signals>>

Signal ==
    /\ signals' = signals + 1
    /\ signals' + Cardinality(unremoved) <= MaxFaults

(* INT or TERM reaches the script while a command runs. *)
Interrupt(r) ==
    /\ pc[r] \in Trapped
    /\ Signal
    /\ pending' = pending \cup {r}
    /\ UNCHANGED <<day, pc, lock, files, temporary, history>>

(* INT or TERM before the trap is set ends the script, by default.          *)
StopBeforeTrap(r) ==
    /\ pc[r] = "locked"
    /\ Signal
    /\ pc' = [pc EXCEPT ![r] = "stopped"]
    /\ UNCHANGED <<day, lock, files, temporary, pending, history>>

(* The trap runs when the command is over; it does not exit, so the script  *)
(* goes on with the next command.                                           *)
RunTrap(r) ==
    /\ r \in pending
    /\ pc[r] \in Trapped \ InProgress
    /\ \/ CleanUp(r) /\ UNCHANGED pc
       \/ LeavePartial(r) /\ pc' = [pc EXCEPT ![r] = "failed"]
    /\ pending' = pending \ {r}
    /\ interrupted' = TRUE
    /\ UNCHANGED <<day, final, sums, made, temporary, checked, signals>>

(* KILL, or the host goes down: no trap runs. *)
Kill(r) ==
    /\ pc[r] \in Working
    /\ Signal
    /\ pc' = [pc EXCEPT ![r] = "killed"]
    /\ pending' = pending \ {r}
    /\ UNCHANGED <<day, lock, files, temporary, history>>

-----------------------------------------------------------------------------
(* The commands.  A pending trap runs before the next of them.             *)

Step(r, from, to) ==
    /\ pc[r] = from
    /\ r \in pending => from \in InProgress
    /\ pc' = [pc EXCEPT ![r] = to]
    /\ UNCHANGED <<day, pending, interrupted, signals>>

(* docker compose ps, docker inspect *)
InspectContainer(r) ==
    /\ Step(r, "inspect", "dump")
    /\ UNCHANGED <<lock, files, temporary, checked, unremoved>>

(* Mutant: the file is dated by a clock a day ahead. *)
DumpDatedTomorrow(r) ==
    /\ Step(r, "dump", "copy")
    /\ made' = [made EXCEPT ![r] = day + 1]
    /\ UNCHANGED <<lock, partial, final, sums, temporary, checked, unremoved>>

(* pg_dump, to a file inside the container *)
DumpDatabase(r) ==
    /\ Step(r, "dump", "copy")
    /\ made' = [made EXCEPT ![r] = day]
    /\ UNCHANGED <<lock, partial, final, sums, temporary, checked, unremoved>>

(* Mutant: the copy is made under the final name. *)
CopyToFinal(r) ==
    /\ Step(r, "copy", "copying")
    /\ final' = [final EXCEPT ![r] = "truncated"]
    /\ UNCHANGED <<lock, partial, sums, made, temporary, checked, unremoved>>

(* docker cp begins to write the partial file, and ends. *)
BeginCopy(r) ==
    /\ Step(r, "copy", "copying")
    /\ partial' = [partial EXCEPT ![r] = "truncated"]
    /\ UNCHANGED <<lock, final, sums, made, temporary, checked, unremoved>>

EndCopy(r) ==
    /\ Step(r, "copying", "move")
    /\ partial' = [partial EXCEPT ![r] = "complete"]
    /\ UNCHANGED <<lock, final, sums, made, temporary, checked, unremoved>>

(* mv, which fails if a trap has removed the partial file *)
MoveToFinal(r) ==
    /\ partial[r] # "absent"
    /\ Step(r, "move", "unstage")
    /\ final' = [final EXCEPT ![r] = partial[r]]
    /\ partial' = [partial EXCEPT ![r] = "absent"]
    /\ UNCHANGED <<lock, sums, made, temporary, checked, unremoved>>

(* rm inside the container *)
RemoveStaged(r) ==
    /\ Step(r, "unstage", "sum")
    /\ UNCHANGED <<lock, files, temporary, checked, unremoved>>

(* sha256sum and, with it, the checksum file; one cut short by a KILL       *)
(* counts as not there.                                                     *)
WriteChecksum(r) ==
    /\ Step(r, "sum", "check")
    /\ sums' = sums \cup {r}
    /\ UNCHANGED <<lock, partial, final, made, temporary, checked, unremoved>>

(* sha256sum -c; the restore is tried only with --verify-restore. *)
CheckChecksum(r) ==
    /\ r \in sums /\ final[r] # "absent"
    /\ \E next \in {"restore", "expire"} : Step(r, "check", next)
    /\ checked' = checked \cup {r}
    /\ UNCHANGED <<lock, files, temporary, unremoved>>

(* verify_postgres_restore.sh: a container and a volume of its own, the     *)
(* dump restored and looked at.  Its trap removes both; a removal that      *)
(* fails is passed over, whether the dump was right or not.                 *)
RemoveTemporary(r) ==
    \/ temporary' = temporary \ {r} /\ UNCHANGED unremoved
    \/ Unremoved(r, "temporary") /\ UNCHANGED temporary

BeginRestore(r) ==
    /\ Step(r, "restore", "restoring")
    /\ temporary' = temporary \cup {r}
    /\ UNCHANGED <<lock, files, checked, unremoved>>

EndRestore(r) ==
    /\ final[r] = "complete"
    /\ Step(r, "restoring", "expire")
    /\ RemoveTemporary(r)
    /\ UNCHANGED <<lock, files, checked>>

RestoreFails(r) ==
    /\ Step(r, "restoring", "unverified")
    /\ RemoveTemporary(r)
    /\ UNCHANGED <<lock, files, checked>>

(* Mutant: the age of the file is not looked at. *)
ExpiredAtAnyAge(x) == final[x] # "absent"

(* Mutant: find -mtime RETENTION_DAYS *)
ExpiredOnItsLastDay(x) == final[x] # "absent" /\ day - made[x] >= Retention

(* find -mtime +RETENTION_DAYS *)
Expired(x) == final[x] # "absent" /\ day - made[x] > Retention

(* One turn of the retention loop: an expired dump and its checksum.        *)
RemoveExpired(r, x) ==
    /\ Expired(x)
    /\ Step(r, "expire", "expire")
    /\ final' = [final EXCEPT ![x] = "absent"]
    /\ sums' = sums \ {x}
    /\ UNCHANGED <<lock, partial, made, temporary, checked, unremoved>>

Finish(r) ==
    /\ \A x \in Runs : ~Expired(x)
    /\ Step(r, "expire", "done")
    /\ CleanUp(r)
    /\ UNCHANGED <<final, sums, made, temporary, checked>>

Command(r) ==
    \/ InspectContainer(r) \/ DumpDatabase(r) \/ BeginCopy(r) \/ EndCopy(r)
    \/ MoveToFinal(r) \/ RemoveStaged(r) \/ WriteChecksum(r) \/ CheckChecksum(r)
    \/ BeginRestore(r) \/ EndRestore(r) \/ RestoreFails(r) \/ Finish(r)
    \/ \E x \in Runs : RemoveExpired(r, x)

Script(r) == SetTrap(r) \/ Command(r) \/ Fail(r) \/ RunTrap(r)

Next == \/ NextDay
        \/ \E r \in Runs : \/ Acquire(r) \/ Refuse(r) \/ Script(r)
                           \/ StopBeforeTrap(r) \/ Interrupt(r) \/ Kill(r)

Spec == Init /\ [][Next]_vars

(* A command ends, one way or another; nobody has to start a backup, and    *)
(* nobody has to stop one.                                                  *)
BackupSpec == Spec /\ \A r \in Runs : WF_vars(Script(r))

-----------------------------------------------------------------------------
(* A file under the final name is a whole dump, whatever was killed in the  *)
(* middle of the copy.  (docker cp to .partial, then mv.)                   *)
FinalIsComplete == \A r \in Runs : final[r] \in {"absent", "complete"}

(* As long as no script was interrupted, at most one is past the lock, and  *)
(* the lock is there while one is: a refused script leaves the other's lock *)
(* alone, and so does a killed one.  (mkdir before the trap is set.)        *)
LockExcludes ==
    ~interrupted =>
        /\ \A r, q \in Runs : (pc[r] \in Working /\ pc[q] \in Working) => r = q
        /\ \A r \in Runs : pc[r] \in Working => lock

(* A script that ended other than by KILL leaves no partial file and no     *)
(* restore container or volume but one whose removal failed, also when it   *)
(* failed or was interrupted in the middle of either.  (The EXIT traps of   *)
(* the two scripts.)                                                        *)
EndedScriptsLeaveNothing ==
    \A r \in Runs : pc[r] \in Ended \ {"killed"} =>
        /\ partial[r] # "absent" => <<r, "partial">> \in unremoved
        /\ r \in temporary => <<r, "temporary">> \in unremoved

(* A script that ended well, which is what a scheduler sees of it, has left *)
(* a whole dump with a verified checksum, also when its trap ran in the     *)
(* middle and went on; only its own age removes that dump.  (set -e: the mv *)
(* of a file the trap removed fails.)                                       *)
SuccessMeansRestorable ==
    \A r \in Runs : pc[r] = "done" =>
        \/ final[r] = "complete" /\ r \in sums /\ r \in checked
        \/ final[r] = "absent" /\ day - made[r] > Retention

(* A script ended with nobody to give its lock back: it was killed, or told *)
(* to stop before its trap was set, or a removal of its trap failed.        *)
LeftItsLock(r) ==
    \/ pc[r] \in {"killed", "stopped"}
    \/ <<r, "lock">> \in unremoved
    \/ <<r, "partial">> \in unremoved

(* Whichever commands fail or are interrupted, the lock is given back, so   *)
(* that a later backup can run, unless one of the three things above        *)
(* happened.  (The EXIT trap.)                                              *)
LockIsReleased == lock ~> (~lock \/ \E r \in Runs : LeftItsLock(r))

(* Retention never removes a usable backup unless a usable newer one is     *)
(* there, whichever scripts run side by side and wherever they are stopped. *)
(* (The checksum is verified before the retention loop.)                    *)
Archive == INSTANCE BackupArchive WITH
    Backups <- Runs,
    usable  <- {r \in Runs : final[r] = "complete" /\ r \in sums /\ r \in checked},
    madeOn  <- made

ImplementsArchive == Archive!ArchiveSpec

-----------------------------------------------------------------------------
(* What the documents say and the code does not do.                        *)

(* docs/postgresql-backup-restore.md:34: the final name is given only after *)
(* the checksum was written and verified.  What an ended script leaves      *)
(* under a final name has a verified checksum.                              *)
FinalIsVerified ==
    \A r \in Runs :
        (final[r] # "absent" /\ pc[r] \in Ended) => r \in sums /\ r \in checked
=============================================================================
