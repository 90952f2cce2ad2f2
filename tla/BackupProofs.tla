---------------------------- MODULE BackupProofs ----------------------------
(***************************************************************************)
(* What the backup directory may be trusted for, for any number of scripts *)
(* that overlap, fail, are interrupted or killed.                          *)
(***************************************************************************)
EXTENDS Backup, TLAPS

USE BackupAssumption

(* The commands that a script runs on a dump that is there.                 *)
WithDump == Trapped \ {"inspect", "dump"}
Verifying == {"restore", "restoring", "unverified", "expire"}

(* A partial file about to be renamed is whole, or a trap has removed it.   *)
Copied == \A r \in Runs : pc[r] = "move" => partial[r] # "truncated"

(* A dump a script still works on is young; the one it goes on to retention *)
(* with is usable; one whose checksum it has not looked at is not.          *)
Verified == \A r \in Runs :
    /\ pc[r] \in WithDump => made[r] # 0 /\ day <= made[r] + Retention
    /\ pc[r] \in Verifying => r \in sums /\ r \in checked /\ final[r] = "complete"
    /\ pc[r] \in {"new"} \cup (Working \ Verifying) => r \notin checked

BackupInv == BackupTypeOK /\ FinalIsComplete /\ Copied /\ Verified /\ LockExcludes

LEMMA BackupInitInv == Init => BackupInv
<1> SUFFICES ASSUME Init PROVE BackupInv
  OBVIOUS
<1>1. BackupTypeOK
  <2>1. day \in 1 .. MaxDay /\ 0 \in 0 .. MaxDay
    BY DEF Init
  <2> QED
    BY <2>1 DEF Init, BackupTypeOK, Contents
<1>2. FinalIsComplete /\ Copied /\ LockExcludes
  BY DEF Init, FinalIsComplete, Copied, LockExcludes, Working, Trapped
<1>3. Verified
  BY DEF Init, Verified, WithDump, Verifying, Working, Trapped
<1> QED
  BY <1>1, <1>2, <1>3 DEF BackupInv

-----------------------------------------------------------------------------
LEMMA UnremovedIsTyped ==
    ASSUME unremoved \subseteq Runs \X Leftovers,
           NEW r \in Runs, NEW what \in Leftovers, Unremoved(r, what)
    PROVE  unremoved' \subseteq Runs \X Leftovers
BY DEF Unremoved

(* A command moves one script on; traps and signals move none, or end it.   *)
LEMMA BackupTypeStep == BackupTypeOK /\ [Next]_vars => BackupTypeOK'
<1> SUFFICES ASSUME BackupTypeOK, [Next]_vars PROVE BackupTypeOK'
  OBVIOUS
<1> USE DEF BackupTypeOK, Contents, Working, Trapped, Ended, files, history
<1>1. CASE NextDay
  BY <1>1 DEF NextDay
<1>2. ASSUME NEW r \in Runs, Acquire(r) \/ Refuse(r) \/ SetTrap(r)
      PROVE  BackupTypeOK'
  BY <1>2 DEF Acquire, Refuse, Starts, SetTrap
<1>3. ASSUME NEW r \in Runs, Fail(r) \/ RunTrap(r)
      PROVE  BackupTypeOK'
  <2>1. ASSUME CleanUp(r) \/ LeavePartial(r)
        PROVE  /\ unremoved' \subseteq Runs \X Leftovers
               /\ lock' \in BOOLEAN /\ partial' \in [Runs -> Contents]
    BY <2>1, UnremovedIsTyped DEF CleanUp, LeavePartial, Leftovers
  <2>2. CASE Fail(r)
    BY <2>1, <2>2 DEF Fail
  <2>3. CASE RunTrap(r)
    BY <2>1, <2>3 DEF RunTrap
  <2> QED
    BY <1>3, <2>2, <2>3
<1>4. ASSUME NEW r \in Runs, Interrupt(r) \/ StopBeforeTrap(r) \/ Kill(r)
      PROVE  BackupTypeOK'
  <2>1. CASE Interrupt(r)
    BY <2>1 DEF Interrupt, Signal
  <2>2. CASE StopBeforeTrap(r)
    BY <2>2 DEF StopBeforeTrap, Signal
  <2>3. CASE Kill(r)
    BY <2>3 DEF Kill, Signal
  <2> QED
    BY <1>4, <2>1, <2>2, <2>3
<1>5. ASSUME NEW r \in Runs, InspectContainer(r) \/ DumpDatabase(r) \/ RemoveStaged(r)
      PROVE  BackupTypeOK'
  <2>1. CASE InspectContainer(r) \/ RemoveStaged(r)
    BY <2>1 DEF InspectContainer, RemoveStaged, Step
  <2>2. CASE DumpDatabase(r)
    BY <2>2 DEF DumpDatabase, Step
  <2> QED
    BY <1>5, <2>1, <2>2
<1>6. ASSUME NEW r \in Runs, BeginCopy(r) \/ EndCopy(r) \/ MoveToFinal(r)
      PROVE  BackupTypeOK'
  BY <1>6 DEF BeginCopy, EndCopy, MoveToFinal, Step
<1>7. ASSUME NEW r \in Runs, WriteChecksum(r) \/ CheckChecksum(r)
      PROVE  BackupTypeOK'
  BY <1>7 DEF WriteChecksum, CheckChecksum, Step
<1>8. ASSUME NEW r \in Runs, BeginRestore(r) \/ EndRestore(r) \/ RestoreFails(r)
      PROVE  BackupTypeOK'
  <2>1. ASSUME RemoveTemporary(r)
        PROVE  temporary' \subseteq Runs /\ unremoved' \subseteq Runs \X Leftovers
    BY <2>1, UnremovedIsTyped DEF RemoveTemporary, Leftovers
  <2>2. CASE BeginRestore(r)
    BY <2>2 DEF BeginRestore, Step
  <2>3. CASE EndRestore(r) \/ RestoreFails(r)
    BY <2>1, <2>3 DEF EndRestore, RestoreFails, Step
  <2> QED
    BY <1>8, <2>2, <2>3
<1>9. ASSUME NEW r \in Runs, NEW x \in Runs, RemoveExpired(r, x)
      PROVE  BackupTypeOK'
  BY <1>9 DEF RemoveExpired, Step
<1>10. ASSUME NEW r \in Runs, Finish(r)
       PROVE  BackupTypeOK'
  <2>1. /\ unremoved' \subseteq Runs \X Leftovers
        /\ lock' \in BOOLEAN /\ partial' \in [Runs -> Contents]
    BY <1>10, UnremovedIsTyped DEF Finish, CleanUp, Leftovers
  <2> QED
    BY <1>10, <2>1 DEF Finish, Step
<1>11. CASE UNCHANGED vars
  BY <1>11 DEF vars
<1> QED
  BY <1>1, <1>2, <1>3, <1>4, <1>5, <1>6, <1>7, <1>8, <1>9, <1>10, <1>11
     DEF Next, Script, Command

LEMMA CompleteStep ==
    ASSUME BackupTypeOK, FinalIsComplete, Copied, [Next]_vars
    PROVE  FinalIsComplete' /\ Copied'
<1> USE DEF BackupTypeOK, FinalIsComplete, Copied, Contents, files, history
<1>1. CASE NextDay
  BY <1>1 DEF NextDay
<1>2. ASSUME NEW r \in Runs,
             \/ Acquire(r) \/ Refuse(r) \/ SetTrap(r)
             \/ Interrupt(r) \/ StopBeforeTrap(r) \/ Kill(r)
      PROVE  FinalIsComplete' /\ Copied'
  BY <1>2 DEF Acquire, Refuse, Starts, SetTrap, Interrupt, StopBeforeTrap, Kill
<1>3. ASSUME NEW r \in Runs, Fail(r) \/ RunTrap(r)
      PROVE  FinalIsComplete' /\ Copied'
  BY <1>3 DEF Fail, RunTrap, CleanUp, LeavePartial, Unremoved
<1>4. ASSUME NEW r \in Runs, InspectContainer(r) \/ DumpDatabase(r) \/ RemoveStaged(r)
      PROVE  FinalIsComplete' /\ Copied'
  BY <1>4 DEF InspectContainer, DumpDatabase, RemoveStaged, Step
<1>5. ASSUME NEW r \in Runs, BeginCopy(r) \/ EndCopy(r) \/ MoveToFinal(r)
      PROVE  FinalIsComplete' /\ Copied'
  BY <1>5 DEF BeginCopy, EndCopy, MoveToFinal, Step
<1>6. ASSUME NEW r \in Runs,
             \/ WriteChecksum(r) \/ CheckChecksum(r)
             \/ BeginRestore(r) \/ EndRestore(r) \/ RestoreFails(r)
      PROVE  FinalIsComplete' /\ Copied'
  BY <1>6 DEF WriteChecksum, CheckChecksum, BeginRestore, EndRestore, RestoreFails, Step
<1>7. ASSUME NEW r \in Runs, NEW x \in Runs, RemoveExpired(r, x)
      PROVE  FinalIsComplete' /\ Copied'
  BY <1>7 DEF RemoveExpired, Step
<1>8. ASSUME NEW r \in Runs, Finish(r)
      PROVE  FinalIsComplete' /\ Copied'
  BY <1>8 DEF Finish, CleanUp, Unremoved, Step
<1>9. CASE UNCHANGED vars
  BY <1>9 DEF vars
<1> QED
  BY <1>1, <1>2, <1>3, <1>4, <1>5, <1>6, <1>7, <1>8, <1>9 DEF Next, Script, Command

-----------------------------------------------------------------------------
(* Which steps let a script past the lock, and which open it.               *)
LEMMA WhoLocks ==
    ASSUME BackupTypeOK, [Next]_vars
    PROVE  \/ \E r \in Runs : Acquire(r)
           \/ interrupted'
           \/ \E r \in Runs : /\ pc[r] \in Working /\ pc'[r] \notin Working
                              /\ \A q \in Runs \ {r} : pc'[q] = pc[q]
                              /\ interrupted' = interrupted
           \/ /\ \A q \in Runs : pc'[q] \in Working <=> pc[q] \in Working
              /\ lock' = lock /\ interrupted' = interrupted
<1> USE DEF BackupTypeOK, Working, Trapped, Ended, files, history
<1>1. CASE NextDay \/ UNCHANGED vars
  BY <1>1 DEF NextDay, vars
<1>2. ASSUME NEW r \in Runs, Refuse(r) \/ SetTrap(r) \/ Interrupt(r)
      PROVE  /\ \A q \in Runs : pc'[q] \in Working <=> pc[q] \in Working
             /\ lock' = lock /\ interrupted' = interrupted
  BY <1>2 DEF Refuse, Starts, SetTrap, Interrupt
<1>3. ASSUME NEW r \in Runs, RunTrap(r) PROVE interrupted'
  BY <1>3 DEF RunTrap
<1>4. ASSUME NEW r \in Runs, Fail(r) \/ StopBeforeTrap(r) \/ Kill(r) \/ Finish(r)
      PROVE  /\ pc[r] \in Working /\ pc'[r] \notin Working
             /\ \A q \in Runs \ {r} : pc'[q] = pc[q]
             /\ interrupted' = interrupted
  BY <1>4 DEF Fail, StopBeforeTrap, Kill, Finish, Step
<1>5. ASSUME NEW r \in Runs, InspectContainer(r) \/ DumpDatabase(r) \/ RemoveStaged(r)
      PROVE  /\ \A q \in Runs : pc'[q] \in Working <=> pc[q] \in Working
             /\ lock' = lock /\ interrupted' = interrupted
  BY <1>5 DEF InspectContainer, DumpDatabase, RemoveStaged, Step
<1>6. ASSUME NEW r \in Runs, BeginCopy(r) \/ EndCopy(r) \/ MoveToFinal(r)
      PROVE  /\ \A q \in Runs : pc'[q] \in Working <=> pc[q] \in Working
             /\ lock' = lock /\ interrupted' = interrupted
  BY <1>6 DEF BeginCopy, EndCopy, MoveToFinal, Step
<1>7. ASSUME NEW r \in Runs,
             \/ WriteChecksum(r) \/ CheckChecksum(r)
             \/ BeginRestore(r) \/ EndRestore(r) \/ RestoreFails(r)
      PROVE  /\ \A q \in Runs : pc'[q] \in Working <=> pc[q] \in Working
             /\ lock' = lock /\ interrupted' = interrupted
  BY <1>7 DEF WriteChecksum, CheckChecksum, BeginRestore, EndRestore, RestoreFails, Step
<1>8. ASSUME NEW r \in Runs, NEW x \in Runs, RemoveExpired(r, x)
      PROVE  /\ \A q \in Runs : pc'[q] \in Working <=> pc[q] \in Working
             /\ lock' = lock /\ interrupted' = interrupted
  BY <1>8 DEF RemoveExpired, Step
<1> HIDE DEF BackupTypeOK, Working, Trapped, Ended, files, history
<1> QED
  BY <1>1, <1>2, <1>3, <1>4, <1>5, <1>6, <1>7, <1>8 DEF Next, Script, Command

LEMMA LockStep ==
    ASSUME BackupTypeOK, LockExcludes, [Next]_vars
    PROVE  LockExcludes'
<1>1. CASE \E r \in Runs : Acquire(r)
  BY <1>1 DEF Acquire, Starts, LockExcludes, BackupTypeOK, history
<1>2. CASE interrupted'
  BY <1>2 DEF LockExcludes
<1>3. CASE \E r \in Runs : /\ pc[r] \in Working /\ pc'[r] \notin Working
                           /\ \A q \in Runs \ {r} : pc'[q] = pc[q]
                           /\ interrupted' = interrupted
  <2>1. SUFFICES ASSUME ~interrupted' PROVE \A q \in Runs : pc'[q] \notin Working
    BY <2>1 DEF LockExcludes
  <2>2. PICK r \in Runs : /\ pc[r] \in Working /\ pc'[r] \notin Working
                          /\ \A q \in Runs \ {r} : pc'[q] = pc[q]
                          /\ interrupted' = interrupted
    BY <1>3
  <2>3. \A q \in Runs : pc[q] \in Working => q = r
    BY <2>1, <2>2 DEF LockExcludes
  <2> QED
    BY <2>2, <2>3
<1>4. CASE /\ \A q \in Runs : pc'[q] \in Working <=> pc[q] \in Working
           /\ lock' = lock /\ interrupted' = interrupted
  BY <1>4 DEF LockExcludes
<1> QED
  BY <1>1, <1>2, <1>3, <1>4, WhoLocks

(* Somebody is behind a lock: a script at work, or one that ended without   *)
(* giving it back.                                                          *)
LockHasOwner == lock => \E r \in Runs : pc[r] \in Working \/ LeftItsLock(r)

LEMMA OwnerStep ==
    ASSUME BackupTypeOK, LockHasOwner, [Next]_vars
    PROVE  LockHasOwner'
<1> DEFINE Owner(r) == pc[r] \in Working \/ LeftItsLock(r)
<1> USE DEF BackupTypeOK, LockHasOwner, LeftItsLock, files, history
<1>1. CASE NextDay \/ UNCHANGED vars
  BY <1>1 DEF NextDay, vars
<1>2. ASSUME NEW r \in Runs, Fail(r) \/ RunTrap(r) \/ Finish(r)
      PROVE  ~lock' \/ Owner(r)'
  BY <1>2 DEF Fail, RunTrap, Finish, CleanUp, LeavePartial, Unremoved
<1>3. ASSUME NEW r \in Runs,
             \/ Acquire(r) \/ SetTrap(r) \/ StopBeforeTrap(r) \/ Interrupt(r) \/ Kill(r)
             \/ InspectContainer(r) \/ DumpDatabase(r) \/ BeginCopy(r) \/ EndCopy(r)
             \/ MoveToFinal(r) \/ RemoveStaged(r) \/ WriteChecksum(r) \/ CheckChecksum(r)
             \/ BeginRestore(r) \/ EndRestore(r) \/ RestoreFails(r)
             \/ \E x \in Runs : RemoveExpired(r, x)
      PROVE  Owner(r)'
  BY <1>3 DEF Acquire, Starts, SetTrap, StopBeforeTrap, Interrupt, Kill,
              InspectContainer, DumpDatabase, BeginCopy, EndCopy, MoveToFinal,
              RemoveStaged, WriteChecksum, CheckChecksum, BeginRestore, EndRestore,
              RestoreFails, RemoveExpired, Step, Working, Trapped
<1>4. ASSUME NEW r \in Runs, Refuse(r)
      PROVE  lock' = lock /\ \A q \in Runs : Owner(q) => Owner(q)'
  BY <1>4 DEF Refuse, Starts, Working, Trapped
<1> QED
  BY <1>1, <1>2, <1>3, <1>4 DEF Next, Script, Command

-----------------------------------------------------------------------------
(* A script past its dump keeps that dump: it is too young to expire.       *)
LEMMA YoungIsKept ==
    ASSUME BackupTypeOK, Verified, NEW x \in Runs, Expired(x)
    PROVE  pc[x] \notin WithDump
BY DEF BackupTypeOK, Verified, Expired

LEMMA VerifiedStep ==
    ASSUME BackupTypeOK, FinalIsComplete, Verified, [Next]_vars
    PROVE  Verified'
<1> USE DEF BackupTypeOK, Verified, WithDump, Verifying, Working, Trapped, files, history
<1>1. CASE NextDay
  BY <1>1 DEF NextDay
<1>2. ASSUME NEW r \in Runs, Acquire(r) \/ Refuse(r) \/ SetTrap(r)
      PROVE  Verified'
  BY <1>2 DEF Acquire, Refuse, Starts, SetTrap
<1>3. ASSUME NEW r \in Runs, Fail(r) \/ RunTrap(r)
      PROVE  Verified'
  BY <1>3 DEF Fail, RunTrap
<1>4. ASSUME NEW r \in Runs, Interrupt(r) \/ StopBeforeTrap(r) \/ Kill(r)
      PROVE  Verified'
  BY <1>4 DEF Interrupt, StopBeforeTrap, Kill
<1>5. ASSUME NEW r \in Runs, InspectContainer(r) \/ RemoveStaged(r)
      PROVE  Verified'
  BY <1>5 DEF InspectContainer, RemoveStaged, Step
<1>6. ASSUME NEW r \in Runs, DumpDatabase(r)
      PROVE  Verified'
  BY <1>6 DEF DumpDatabase, Step
<1>7. ASSUME NEW r \in Runs, BeginCopy(r) \/ EndCopy(r) \/ MoveToFinal(r)
      PROVE  Verified'
  BY <1>7 DEF BeginCopy, EndCopy, MoveToFinal, Step
<1>8. ASSUME NEW r \in Runs, WriteChecksum(r)
      PROVE  Verified'
  BY <1>8 DEF WriteChecksum, Step
<1>9. ASSUME NEW r \in Runs, CheckChecksum(r)
      PROVE  Verified'
  BY <1>9 DEF CheckChecksum, Step, FinalIsComplete
<1>10. ASSUME NEW r \in Runs, BeginRestore(r) \/ EndRestore(r) \/ RestoreFails(r)
       PROVE  Verified'
  BY <1>10 DEF BeginRestore, EndRestore, RestoreFails, Step
<1>11. ASSUME NEW r \in Runs, NEW x \in Runs, RemoveExpired(r, x)
       PROVE  Verified'
  <2>1. pc[x] \notin WithDump
    BY <1>11, YoungIsKept DEF RemoveExpired
  <2> QED
    BY <1>11, <2>1 DEF RemoveExpired, Step
<1>12. ASSUME NEW r \in Runs, Finish(r)
       PROVE  Verified'
  BY <1>12 DEF Finish, Step
<1>13. CASE UNCHANGED vars
  BY <1>13 DEF vars
<1> QED
  BY <1>1, <1>2, <1>3, <1>4, <1>5, <1>6, <1>7, <1>8, <1>9, <1>10, <1>11, <1>12, <1>13
     DEF Next, Script, Command

LEMMA BackupInvariant == Spec => []BackupInv
<1>1. BackupInv /\ [Next]_vars => BackupInv'
  BY BackupTypeStep, CompleteStep, LockStep, VerifiedStep DEF BackupInv
<1> QED
  BY BackupInitInv, <1>1, PTL DEF Spec

(* A file under the final name is a whole dump, wherever scripts were       *)
(* stopped: a copy is made under another name and renamed when it is over.  *)
THEOREM OnlyWholeDumps == Spec => []FinalIsComplete
<1>1. BackupInv => FinalIsComplete
  BY DEF BackupInv
<1> QED
  BY <1>1, BackupInvariant, PTL

(* While no script was interrupted, one at most is past the lock.           *)
THEOREM OneBackupAtATime == Spec => []LockExcludes
<1>1. BackupInv => LockExcludes
  BY DEF BackupInv
<1> QED
  BY <1>1, BackupInvariant, PTL

(* Every state of the scripts and their files is well typed.                *)
THEOREM BackupTypeCorrect == Spec => []BackupTypeOK
<1>1. BackupInv => BackupTypeOK
  BY DEF BackupInv
<1> QED
  BY <1>1, BackupInvariant, PTL

(* Every lock is accounted for: whichever scripts fail, are interrupted or  *)
(* take the lock from one another, behind a lock there is a script at work, *)
(* or one that was killed, told to stop before its trap was set, or whose   *)
(* trap failed to remove something.  Every other end gives the lock back.   *)
THEOREM StaleLocksAreExplained ==
    Spec => [](lock => \E r \in Runs : pc[r] \in Working \/ LeftItsLock(r))
<1>1. Init => LockHasOwner
  BY DEF Init, LockHasOwner
<1>2. BackupInv => BackupTypeOK
  BY DEF BackupInv
<1> QED
  BY <1>1, <1>2, OwnerStep, BackupInvariant, PTL DEF Spec, LockHasOwner

LEMMA RestorableStep ==
    ASSUME BackupInv, SuccessMeansRestorable, [Next]_vars
    PROVE  SuccessMeansRestorable'
<1> USE DEF BackupInv, BackupTypeOK, SuccessMeansRestorable, files, history
<1>1. CASE NextDay \/ UNCHANGED vars
  BY <1>1 DEF NextDay, vars
<1>2. ASSUME NEW r \in Runs, Acquire(r) \/ Refuse(r) \/ SetTrap(r)
      PROVE  SuccessMeansRestorable'
  BY <1>2 DEF Acquire, Refuse, Starts, SetTrap
<1>3. ASSUME NEW r \in Runs, Fail(r) \/ RunTrap(r)
      PROVE  SuccessMeansRestorable'
  BY <1>3 DEF Fail, RunTrap
<1>4. ASSUME NEW r \in Runs, Interrupt(r) \/ StopBeforeTrap(r) \/ Kill(r)
      PROVE  SuccessMeansRestorable'
  BY <1>4 DEF Interrupt, StopBeforeTrap, Kill
<1>5. ASSUME NEW r \in Runs, InspectContainer(r) \/ DumpDatabase(r) \/ RemoveStaged(r)
      PROVE  SuccessMeansRestorable'
  BY <1>5 DEF InspectContainer, DumpDatabase, RemoveStaged, Step
<1>6. ASSUME NEW r \in Runs, BeginCopy(r) \/ EndCopy(r) \/ MoveToFinal(r)
      PROVE  SuccessMeansRestorable'
  BY <1>6 DEF BeginCopy, EndCopy, MoveToFinal, Step
<1>7. ASSUME NEW r \in Runs, WriteChecksum(r) \/ CheckChecksum(r)
      PROVE  SuccessMeansRestorable'
  BY <1>7 DEF WriteChecksum, CheckChecksum, Step
<1>8. ASSUME NEW r \in Runs, BeginRestore(r) \/ EndRestore(r) \/ RestoreFails(r)
      PROVE  SuccessMeansRestorable'
  BY <1>8 DEF BeginRestore, EndRestore, RestoreFails, Step
<1>9. ASSUME NEW r \in Runs, NEW x \in Runs, RemoveExpired(r, x)
      PROVE  SuccessMeansRestorable'
  BY <1>9 DEF RemoveExpired, Expired, Step
<1>10. ASSUME NEW r \in Runs, Finish(r)
       PROVE  SuccessMeansRestorable'
  <2>1. pc[r] = "expire"
    BY <1>10 DEF Finish, Step
  <2>2. final[r] = "complete" /\ r \in sums /\ r \in checked
    BY <2>1 DEF Verified, Verifying, WithDump, Working
  <2> QED
    BY <1>10, <2>2 DEF Finish, Step
<1> QED
  BY <1>1, <1>2, <1>3, <1>4, <1>5, <1>6, <1>7, <1>8, <1>9, <1>10
     DEF Next, Script, Command

(* A script that ended well has left a whole dump with a verified checksum, *)
(* which only its age removes: whatever was interrupted on the way, the     *)
(* retention loop is reached by nothing else, and spares it.                *)
THEOREM SuccessIsRestorable == Spec => []SuccessMeansRestorable
<1>1. Init => SuccessMeansRestorable
  BY DEF Init, SuccessMeansRestorable
<1> QED
  BY <1>1, RestorableStep, BackupInvariant, PTL DEF Spec

-----------------------------------------------------------------------------
(* What a script leaves behind.                                             *)

(* A script has a restore container only while it restores, and no partial  *)
(* file before it starts, but for what its traps failed to remove.          *)
Tidy == \A r \in Runs :
    /\ (pc[r] \in {"new", "locked"} \cup (Ended \ {"killed"}) /\ partial[r] # "absent")
          => <<r, "partial">> \in unremoved
    /\ (pc[r] \notin {"restoring", "killed"} /\ r \in temporary)
          => <<r, "temporary">> \in unremoved

LEMMA TidyStep ==
    ASSUME BackupTypeOK, Tidy, [Next]_vars
    PROVE  Tidy'
<1> USE DEF BackupTypeOK, Tidy, Ended, files, history
<1>1. CASE NextDay \/ UNCHANGED vars
  BY <1>1 DEF NextDay, vars
<1>2. ASSUME NEW r \in Runs, Acquire(r) \/ Refuse(r) \/ SetTrap(r)
      PROVE  Tidy'
  BY <1>2 DEF Acquire, Refuse, Starts, SetTrap
<1>3. ASSUME NEW r \in Runs, Fail(r) \/ RunTrap(r)
      PROVE  Tidy'
  <2> HIDE DEF Tidy
  <2>1. CleanUp(r) \/ LeavePartial(r)
    BY <1>3 DEF Fail, RunTrap
  <2>2. unremoved \subseteq unremoved'
    BY <2>1 DEF CleanUp, LeavePartial, Unremoved
  <2>3. /\ \A q \in Runs \ {r} : partial'[q] = partial[q]
        /\ partial'[r] # "absent" => <<r, "partial">> \in unremoved'
    BY <2>1 DEF CleanUp, LeavePartial, Unremoved
  <2>4. UNCHANGED temporary /\ \A q \in Runs \ {r} : pc'[q] = pc[q]
    BY <1>3 DEF Fail, RunTrap
  <2>5. pc[r] \notin {"restoring", "killed"}
    BY <1>3 DEF Fail, RunTrap, Trapped, InProgress
  <2> QED
    BY <2>2, <2>3, <2>4, <2>5 DEF Tidy
<1>4. ASSUME NEW r \in Runs, Interrupt(r) \/ StopBeforeTrap(r) \/ Kill(r)
      PROVE  Tidy'
  BY <1>4 DEF Interrupt, StopBeforeTrap, Kill
<1>5. ASSUME NEW r \in Runs,
             \/ InspectContainer(r) \/ DumpDatabase(r) \/ RemoveStaged(r)
             \/ WriteChecksum(r) \/ CheckChecksum(r)
             \/ \E x \in Runs : RemoveExpired(r, x)
      PROVE  Tidy'
  BY <1>5 DEF InspectContainer, DumpDatabase, RemoveStaged, WriteChecksum,
              CheckChecksum, RemoveExpired, Step
<1>6. ASSUME NEW r \in Runs, BeginCopy(r) \/ EndCopy(r) \/ MoveToFinal(r)
      PROVE  Tidy'
  BY <1>6 DEF BeginCopy, EndCopy, MoveToFinal, Step
<1>7. ASSUME NEW r \in Runs, BeginRestore(r) \/ EndRestore(r) \/ RestoreFails(r)
      PROVE  Tidy'
  BY <1>7 DEF BeginRestore, EndRestore, RestoreFails, RemoveTemporary, Unremoved, Step
<1>8. ASSUME NEW r \in Runs, Finish(r)
      PROVE  Tidy'
  BY <1>8 DEF Finish, CleanUp, Unremoved, Step
<1> QED
  BY <1>1, <1>2, <1>3, <1>4, <1>5, <1>6, <1>7, <1>8 DEF Next, Script, Command

(* A script that ended, well or badly, but for one that was killed, leaves  *)
(* no partial file and no restore container or volume, unless the trap that *)
(* runs in every such case tried to remove it and the removal failed.       *)
THEOREM NothingIsLeft == Spec => []EndedScriptsLeaveNothing
<1>1. Init => Tidy
  BY DEF Init, Tidy
<1>2. BackupInv => BackupTypeOK
  BY DEF BackupInv
<1>3. Tidy => EndedScriptsLeaveNothing
  BY DEF Tidy, EndedScriptsLeaveNothing, Ended
<1> QED
  BY <1>1, <1>2, <1>3, TidyStep, BackupInvariant, PTL DEF Spec

-----------------------------------------------------------------------------
(* Steps of the scripts, seen from the archive.                             *)
LEMMA ArchiveStep ==
    ASSUME BackupInv, [Next]_vars
    PROVE  [Archive!ArchiveNext]_(Archive!archive)
<1> USE DEF BackupInv, BackupTypeOK, Archive!archive, files, history
<1>1. ASSUME UNCHANGED <<final, sums, checked, made>>
      PROVE  UNCHANGED Archive!archive
  BY <1>1
<1>2. CASE NextDay \/ UNCHANGED vars
  BY <1>1, <1>2 DEF NextDay, vars
<1>3. ASSUME NEW r \in Runs,
             \/ Acquire(r) \/ Refuse(r) \/ SetTrap(r) \/ Fail(r) \/ RunTrap(r)
             \/ Interrupt(r) \/ StopBeforeTrap(r) \/ Kill(r)
      PROVE  UNCHANGED Archive!archive
  BY <1>1, <1>3 DEF Acquire, Refuse, SetTrap, Fail, RunTrap, CleanUp, LeavePartial,
                    Interrupt, StopBeforeTrap, Kill
<1>4. ASSUME NEW r \in Runs,
             \/ InspectContainer(r) \/ RemoveStaged(r) \/ BeginCopy(r) \/ EndCopy(r)
             \/ BeginRestore(r) \/ EndRestore(r) \/ RestoreFails(r) \/ Finish(r)
      PROVE  UNCHANGED Archive!archive
  BY <1>1, <1>4 DEF InspectContainer, RemoveStaged, BeginCopy, EndCopy, BeginRestore,
                    EndRestore, RestoreFails, Finish
<1>5. ASSUME NEW r \in Runs, DumpDatabase(r)
      PROVE  Archive!Dump(r)
  <2>1. r \notin checked
    BY <1>5 DEF DumpDatabase, Step, Verified, Working, Trapped, Verifying
  <2> QED
    BY <1>5, <2>1 DEF DumpDatabase, Archive!Dump
<1>6. ASSUME NEW r \in Runs, MoveToFinal(r) \/ WriteChecksum(r)
      PROVE  UNCHANGED Archive!archive
  <2>1. r \notin checked
    BY <1>6 DEF MoveToFinal, WriteChecksum, Step, Verified, Working, Trapped, Verifying
  <2> QED
    BY <1>6, <2>1 DEF MoveToFinal, WriteChecksum
<1>7. ASSUME NEW r \in Runs, CheckChecksum(r)
      PROVE  Archive!Add(r)
  <2>1. r \notin checked
    BY <1>7 DEF CheckChecksum, Step, Verified, Working, Trapped, Verifying
  <2>2. final[r] = "complete"
    BY <1>7 DEF CheckChecksum, FinalIsComplete
  <2> QED
    BY <1>7, <2>1, <2>2 DEF CheckChecksum, Archive!Add
<1>8. ASSUME NEW r \in Runs, NEW x \in Runs, RemoveExpired(r, x)
      PROVE  Archive!Remove(x)
  <2>1. pc[r] = "expire"
    BY <1>8 DEF RemoveExpired, Step
  <2>2. r \in sums /\ r \in checked /\ final[r] = "complete" /\ day <= made[r] + Retention
    BY <2>1 DEF Verified, Verifying, Working, Trapped, WithDump
  <2>3. made[r] > made[x]
    BY <1>8, <2>2 DEF RemoveExpired, Expired
  <2> QED
    BY <1>8, <2>2, <2>3 DEF RemoveExpired, Archive!Remove
<1> HIDE DEF BackupInv, BackupTypeOK, Archive!archive, files, history
<1> QED
  BY <1>2, <1>3, <1>4, <1>5, <1>6, <1>7, <1>8
     DEF Next, Script, Command, Archive!ArchiveNext

(* Retention removes a usable backup only while a usable newer one is       *)
(* there, for any scripts that overlap, fail or are killed: the loop is     *)
(* reached with the script's own dump verified, and that one is too young.  *)
THEOREM NewestIsKept == Spec => ImplementsArchive
<1>1. Init => Archive!ArchiveInit
  BY DEF Init, Archive!ArchiveInit
<1> QED
  BY <1>1, ArchiveStep, BackupInvariant, PTL DEF Spec, ImplementsArchive, Archive!ArchiveSpec
=============================================================================
