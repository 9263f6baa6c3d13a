-------------------------- MODULE StateLocksProofs --------------------------
(***************************************************************************)
(* Theorems about StateLocks, for any set of devices, any number of faults *)
(* and any choice of modes.                                                *)
(***************************************************************************)
EXTENDS StateLocks, TLAPS

LEMMA InitTypeOK == Init => TypeOK
  BY FaultAssumption, SMT DEF Init, TypeOK, NoLock, NoEntry, PC, Result

(* The records a step writes are locks and entries. *)
LEMMA Records ==
  ASSUME NEW d \in Devices, NEW f \in BOOLEAN,
         NEW st \in {"none", "processing", "done", "fail"}
  PROVE  /\ NoLock \in [by : Devices \cup {Nobody}, full : BOOLEAN, old : BOOLEAN]
         /\ [by |-> d, full |-> f, old |-> FALSE]
              \in [by : Devices \cup {Nobody}, full : BOOLEAN, old : BOOLEAN]
         /\ [status |-> st, by |-> d, old |-> FALSE]
              \in [status : {"none", "processing", "done", "fail"},
                  by : Devices \cup {Nobody}, old : BOOLEAN]
  BY DEF NoLock

LEMMA GoesTyped ==
  ASSUME TypeOK, NEW d \in Devices, NEW to \in PC, Goes(d, to)
  PROVE  pc' \in [Devices -> PC]
  BY DEF TypeOK, Goes

LEMMA FaultTyped ==
  ASSUME TypeOK, Fault
  PROVE  faults' \in 0 .. MaxFaults
  BY FaultAssumption, SMT DEF TypeOK, Fault

LEMMA ModeKept == [Next]_vars => remote' = remote /\ steal' = steal
  BY DEF Next, Step, Crash, Restart, Age, mode, vars

(* Every step keeps the types, in every mode. *)
LEMMA StepTypeOK == TypeOK /\ [Next]_vars => TypeOK'
<1> SUFFICES ASSUME TypeOK, [Next]_vars PROVE TypeOK'
  OBVIOUS
<1> DEFINE Locks == [by : Devices \cup {Nobody}, full : BOOLEAN, old : BOOLEAN]
           Entries == [status : {"none", "processing", "done", "fail"},
                       by : Devices \cup {Nobody}, old : BOOLEAN]
<1>a. /\ remote \in Remote /\ steal \in Steal
      /\ pc \in [Devices -> PC] /\ res \in [Devices -> Result]
      /\ lock \in Locks /\ entry \in Entries /\ faults \in 0 .. MaxFaults
  BY DEF TypeOK
<1>b. /\ NoLock \in Locks
      /\ \A d \in Devices, f \in BOOLEAN : [by |-> d, full |-> f, old |-> FALSE] \in Locks
      /\ \A d \in Devices, st \in {"none", "processing", "done", "fail"} :
           [status |-> st, by |-> d, old |-> FALSE] \in Entries
      /\ [lock EXCEPT !.full = TRUE] \in Locks
      /\ [lock EXCEPT !.old = lock.by # Nobody] \in Locks
      /\ [entry EXCEPT !.old = entry.status # "none"] \in Entries
  <2>2. NoLock \in Locks
    BY DEF NoLock
  <2>3. [lock EXCEPT !.full = TRUE] \in Locks
    BY <1>a
  <2>4. [lock EXCEPT !.old = lock.by # Nobody] \in Locks
    BY <1>a
  <2>5. [entry EXCEPT !.old = entry.status # "none"] \in Entries
    BY <1>a
  <2> QED
    BY <2>2, <2>3, <2>4, <2>5, Records
<1>c. \A d \in Devices, to \in PC : Goes(d, to) => pc' \in [Devices -> PC]
  BY GoesTyped
<1>d. Fault => faults' \in 0 .. MaxFaults
  BY FaultTyped
<1>e. TypeOK' <=> /\ remote' \in Remote /\ steal' \in Steal
                  /\ pc' \in [Devices -> PC] /\ res' \in [Devices -> Result]
                  /\ lock' \in Locks /\ entry' \in Entries
                  /\ faults' \in 0 .. MaxFaults
  BY DEF TypeOK
<1>f. {"idle", "dead", "scan", "queued", "finalize"} \cup Acquiring \cup Holding = PC
  BY DEF PC
<1>g. \A d \in Devices, r \in Result : [res EXCEPT ![d] = r] \in [Devices -> Result]
  BY <1>a
<1> HIDE DEF Locks, Entries
<1>0. remote' = remote /\ steal' = steal
  BY ModeKept
<1> USE <1>0, <1>a, <1>b, <1>c, <1>d, <1>e, <1>f, <1>g DEF Acquiring, Holding
<1>1. ASSUME NEW d \in Devices, Start(d) \/ Scan(d) PROVE TypeOK'
  BY <1>1 DEF Start, Scan
<1>2. ASSUME NEW d \in Devices, LookLocal(d) \/ ReadLocal(d) PROVE TypeOK'
  BY <1>2 DEF LookLocal, ReadLocal
<1>3. ASSUME NEW d \in Devices, Remove(d) PROVE TypeOK'
  BY <1>3 DEF Remove
<1>4. ASSUME NEW d \in Devices, Create(d) PROVE TypeOK'
  BY <1>4 DEF Create
<1>5. ASSUME NEW d \in Devices, Fill(d) PROVE TypeOK'
  BY <1>5 DEF Fill
<1>6. ASSUME NEW d \in Devices, ReadRemote(d) PROVE TypeOK'
  BY <1>6 DEF ReadRemote
<1>7. ASSUME NEW d \in Devices, WriteRemote(d) PROVE TypeOK'
  BY <1>7 DEF WriteRemote
<1>8. ASSUME NEW d \in Devices, VerifyRemote(d) PROVE TypeOK'
  BY <1>8 DEF VerifyRemote
<1>9. ASSUME NEW d \in Devices, Recheck(d) PROVE TypeOK'
  BY <1>9 DEF Recheck, Result
<1>10. ASSUME NEW d \in Devices, Mark(d) PROVE TypeOK'
  BY <1>10 DEF Mark, Append
<1>11. ASSUME NEW d \in Devices, Work(d) PROVE TypeOK'
  BY <1>11 DEF Work, Result
<1>12. ASSUME NEW d \in Devices, Release(d) PROVE TypeOK'
  BY <1>12 DEF Release
<1>13. ASSUME NEW d \in Devices, Finalize(d) PROVE TypeOK'
  <2>1. /\ res' = [res EXCEPT ![d] = "none"] /\ Goes(d, "idle")
        /\ lock' = lock
    BY <1>13 DEF Finalize
  <2>2. \E st \in {"none", "processing", "done", "fail"} :
          \/ entry' = [status |-> st, by |-> d, old |-> FALSE] /\ faults' = faults
          \/ entry' = entry /\ (Fault \/ faults' = faults)
    BY <1>13 DEF Finalize, Append
  <2>3. entry' \in Entries /\ faults' \in 0 .. MaxFaults
    BY <2>2
  <2>4. res' \in [Devices -> Result] /\ pc' \in [Devices -> PC] /\ lock' \in Locks
    BY <2>1 DEF Result
  <2> QED
    BY <2>3, <2>4
<1>14. ASSUME NEW d \in Devices, Crash(d) \/ Restart(d) PROVE TypeOK'
  BY <1>14 DEF Crash, Restart, Result
<1>15. CASE Age
  BY <1>15 DEF Age
<1>16. CASE UNCHANGED vars
  BY <1>16 DEF vars
<1> QED
  BY <1>1, <1>2, <1>3, <1>4, <1>5, <1>6, <1>7, <1>8, <1>9, <1>10, <1>11,
     <1>12, <1>13, <1>14, <1>15, <1>16 DEF Next, Step

----------------------------------------------------------------------------
LEMMA InitOwn == Init => \A d \in Devices : Own(d)
  BY DEF Init, Own, Holds, Holding

(* Only the owner of the lock file, or a device that finds none, changes   *)
(* its owner: nothing is stolen, and release and unlink meet an own file.  *)
LEMMA StepOwn ==
  ASSUME Exclusive, TypeOK, \A d \in Devices : Own(d), [Next]_vars
  PROVE  \A d \in Devices : Own(d)'
<1> SUFFICES ASSUME NEW e \in Devices PROVE Own(e)'
  OBVIOUS
<1> USE NobodyAssumption DEF TypeOK, Own, Holds, PC, Acquiring, Holding, Goes
<1>0. ~remote /\ ~steal
  BY DEF Exclusive
<1>1. ASSUME NEW d \in Devices, Start(d) \/ Scan(d) PROVE Own(e)'
  BY <1>1 DEF Start, Scan
<1>2. ASSUME NEW d \in Devices, LookLocal(d) \/ ReadLocal(d) PROVE Own(e)'
  BY <1>0, <1>2 DEF LookLocal, ReadLocal, MayTake, Same
<1>3. ASSUME NEW d \in Devices, Remove(d) PROVE Own(e)'
  BY <1>3 DEF Remove, NoLock
<1>4. ASSUME NEW d \in Devices, Create(d) PROVE Own(e)'
  BY <1>4 DEF Create
<1>5. ASSUME NEW d \in Devices, Fill(d) PROVE Own(e)'
  BY <1>5 DEF Fill
<1>6. ASSUME NEW d \in Devices,
             ReadRemote(d) \/ WriteRemote(d) \/ VerifyRemote(d)
      PROVE  Own(e)'
  BY <1>0, <1>6 DEF ReadRemote, WriteRemote, VerifyRemote
<1>7. ASSUME NEW d \in Devices, Recheck(d) PROVE Own(e)'
  BY <1>7 DEF Recheck
<1>8. ASSUME NEW d \in Devices, Mark(d) \/ Work(d) PROVE Own(e)'
  BY <1>8 DEF Mark, Work
<1>9. ASSUME NEW d \in Devices, Release(d) PROVE Own(e)'
  BY <1>9 DEF Release, NoLock
<1>10. ASSUME NEW d \in Devices, Finalize(d) PROVE Own(e)'
  BY <1>10 DEF Finalize
<1>11. ASSUME NEW d \in Devices, Crash(d) \/ Restart(d) PROVE Own(e)'
  BY <1>11 DEF Crash, Restart
<1>12. CASE Age
  BY <1>12 DEF Age
<1>13. CASE UNCHANGED vars
  BY <1>13 DEF vars
<1> QED
  BY <1>1, <1>2, <1>3, <1>4, <1>5, <1>6, <1>7, <1>8, <1>9, <1>10, <1>11,
     <1>12, <1>13 DEF Next, Step

(* Two holders would both be the one owner of the lock file. *)
LEMMA OwnExcludes ==
  (Exclusive => \A d \in Devices : Own(d)) => MutualExclusion
  BY DEF Own, MutualExclusion

(* LocalInv is inductive: with a local output and --no-steal-stale-lock a  *)
(* device at work has its own lock file there, whoever else runs, crashes  *)
(* or is started again (state.py:336-365).                                 *)
THEOREM LocalCorrect == Spec => []LocalInv
<1>1. Init => LocalInv
  BY InitTypeOK, InitOwn, OwnExcludes DEF LocalInv
<1>2. LocalInv /\ [Next]_vars => LocalInv'
  <2> SUFFICES ASSUME LocalInv, [Next]_vars PROVE LocalInv'
    OBVIOUS
  <2>1. TypeOK'
    BY StepTypeOK DEF LocalInv
  <2>2. Exclusive' => Exclusive
    BY ModeKept DEF Exclusive
  <2>3. Exclusive' => \A d \in Devices : Own(d)'
    BY <2>2, StepOwn DEF LocalInv
  <2>4. MutualExclusion'
    BY <2>3 DEF Own, MutualExclusion, Holds
  <2> QED
    BY <2>1, <2>3, <2>4 DEF LocalInv
<1> QED
  BY <1>1, <1>2, PTL DEF Spec

(* Mutual exclusion of the jobs on one item: the lock of a local output    *)
(* that is never stolen keeps every two devices apart.                     *)
THEOREM LocalExclusion == Spec => []MutualExclusion
<1>1. LocalInv => MutualExclusion
  BY DEF LocalInv
<1> QED
  BY <1>1, LocalCorrect, PTL

----------------------------------------------------------------------------
(* NoOrphan is inductive with the types: a lock file is left behind only   *)
(* by a crash, a failed call or a run that is being stopped.               *)
LEMMA StepNoOrphan ==
  ASSUME TypeOK, NoOrphan, [Next]_vars
  PROVE  NoOrphan'
<1> SUFFICES ASSUME faults' = 0, lock'.by # Nobody
             PROVE  (Holds(lock.by) \/ pc[lock.by] \in {"fill", "verify"})'
  BY DEF NoOrphan
<1>0. faults = 0 /\ ~Fault
  <2>1. Fault => faults' # 0
    BY FaultAssumption, SMT DEF Fault, TypeOK
  <2>2. faults' = faults
    BY <2>1, SMT DEF Next, Step, Start, Scan, LookLocal, ReadLocal, Remove,
       Create, Fill, ReadRemote, WriteRemote, VerifyRemote, Recheck, Mark,
       Append, Work, Release, Finalize, Crash, Restart, Age, vars
  <2> QED
    BY <2>1, <2>2
<1> USE <1>0 DEF TypeOK, NoOrphan, Holds, PC, Acquiring, Holding, Goes
<1>1. ASSUME NEW d \in Devices,
             Start(d) \/ Scan(d) \/ LookLocal(d) \/ ReadLocal(d)
      PROVE  (Holds(lock.by) \/ pc[lock.by] \in {"fill", "verify"})'
  BY <1>1 DEF Start, Scan, LookLocal, ReadLocal
<1>2. ASSUME NEW d \in Devices, Remove(d) PROVE FALSE
  BY <1>2 DEF Remove, NoLock
<1>3. ASSUME NEW d \in Devices, Create(d)
      PROVE  (Holds(lock.by) \/ pc[lock.by] \in {"fill", "verify"})'
  BY <1>3 DEF Create
<1>4. ASSUME NEW d \in Devices, Fill(d)
      PROVE  (Holds(lock.by) \/ pc[lock.by] \in {"fill", "verify"})'
  BY <1>4 DEF Fill
<1>5. ASSUME NEW d \in Devices, ReadRemote(d)
      PROVE  (Holds(lock.by) \/ pc[lock.by] \in {"fill", "verify"})'
  BY <1>5 DEF ReadRemote
<1>6. ASSUME NEW d \in Devices, WriteRemote(d)
      PROVE  (Holds(lock.by) \/ pc[lock.by] \in {"fill", "verify"})'
  BY <1>6 DEF WriteRemote
<1>7. ASSUME NEW d \in Devices, VerifyRemote(d)
      PROVE  (Holds(lock.by) \/ pc[lock.by] \in {"fill", "verify"})'
  BY <1>7 DEF VerifyRemote
<1>8. ASSUME NEW d \in Devices, Recheck(d) \/ Mark(d) \/ Work(d) \/ Finalize(d)
      PROVE  (Holds(lock.by) \/ pc[lock.by] \in {"fill", "verify"})'
  BY <1>8 DEF Recheck, Mark, Work, Finalize
<1>9. ASSUME NEW d \in Devices, Release(d) PROVE FALSE
  BY <1>9 DEF Release, NoLock
<1>10. ASSUME NEW d \in Devices, Crash(d) \/ Restart(d)
      PROVE  (Holds(lock.by) \/ pc[lock.by] \in {"fill", "verify"})'
  BY <1>10 DEF Crash, Restart
<1>11. CASE Age
  BY <1>11 DEF Age
<1>12. CASE UNCHANGED vars
  BY <1>12 DEF vars
<1> QED
  BY <1>1, <1>2, <1>3, <1>4, <1>5, <1>6, <1>7, <1>8, <1>9, <1>10, <1>11,
     <1>12 DEF Next, Step

(* In every mode, local or remote, stealing or not: while nothing has gone *)
(* wrong, no interleaving of the devices leaves a lock behind.             *)
THEOREM NoOrphanLock == Spec => []NoOrphan
<1>1. Init => TypeOK /\ NoOrphan
  BY InitTypeOK DEF Init, NoOrphan, NoLock
<1>2. (TypeOK /\ NoOrphan) /\ [Next]_vars => (TypeOK /\ NoOrphan)'
  BY StepTypeOK, StepNoOrphan
<1> QED
  BY <1>1, <1>2, PTL DEF Spec
=============================================================================
