----------------------------- MODULE StateLocks -----------------------------
(***************************************************************************)
(* The lock and the state entry of ONE item, shared by the devices that    *)
(* run the command line tool on the same output directory                  *)
(* (src/shrink_media/state.py; scan_producer, worker, finalize of          *)
(* pipeline.py).  One process runs per device id, the source file does not *)
(* change, and no run is a dry run.                                        *)
(*                                                                         *)
(* A local output keeps locks as files made with O_EXCL and written in a   *)
(* second step; a remote output (OpenList) has no exclusive create: a lock *)
(* is read, overwritten and read back.                                     *)
(*                                                                         *)
(* lock.by is the device whose lock file is there; lock.full is FALSE      *)
(* while a local file is still empty (it reads as no owner and ts 0).      *)
(* The token f"{now}:{device}" is abstracted to the device: a device has   *)
(* one acquisition at a time.                                              *)
(***************************************************************************)
EXTENDS Naturals

CONSTANTS
  Devices,     \* the device ids
  Nobody,      \* no device
  Remote,      \* the values of remote that an instance explores
  Steal,       \* the values of steal that an instance explores
  MaxFaults    \* bound: crashes, interrupts, failed calls and failed jobs

ASSUME NobodyAssumption == Nobody \notin Devices
ASSUME SwitchAssumption == Remote \subseteq BOOLEAN /\ Steal \subseteq BOOLEAN
ASSUME FaultAssumption  == MaxFaults \in Nat

VARIABLES
  remote,  \* the output directory is on OpenList; never changes
  steal,   \* not --no-steal-stale-lock, on every device; never changes
  pc,      \* pc[d]: where the run of device d is with the item
  res,     \* res[d]: the JobResult on its way to finalize
  lock,    \* <sha1>.lock
  entry,   \* the latest StateEntry of the item
  faults   \* how many things have gone wrong so far

mode == <<remote, steal>>
vars == <<mode, pc, res, lock, entry, faults>>

Acquiring == {"read", "remove", "create", "fill", "write", "verify"}
Holding   == {"locked", "mark", "work", "free"}
PC        == {"idle", "dead", "scan", "queued", "finalize"} \cup Acquiring \cup Holding
Result    == {"none", "ok", "skip", "fail"}

NoLock  == [by |-> Nobody, full |-> FALSE, old |-> FALSE]
NoEntry == [status |-> "none", by |-> Nobody, old |-> FALSE]

TypeOK ==
  /\ remote \in Remote /\ steal \in Steal
  /\ pc \in [Devices -> PC]
  /\ res \in [Devices -> Result]
  /\ lock \in [by : Devices \cup {Nobody}, full : BOOLEAN, old : BOOLEAN]
  /\ entry \in [status : {"none", "processing", "done", "fail"},
                by : Devices \cup {Nobody}, old : BOOLEAN]
  /\ faults \in 0 .. MaxFaults

Init ==
  /\ remote \in Remote /\ steal \in Steal
  /\ pc = [d \in Devices |-> "idle"]
  /\ res = [d \in Devices |-> "none"]
  /\ lock = NoLock
  /\ entry = NoEntry
  /\ faults = 0

(* One more thing goes wrong. *)
Fault == faults < MaxFaults /\ faults' = faults + 1

Goes(d, to) == pc' = [pc EXCEPT ![d] = to]

----------------------------------------------------------------------------
(* Scanning: is_done, is_processing.                                       *)

(* LockBackend.is_active: an empty file has ts 0 and does not count. *)
IsActive == lock.by # Nobody /\ lock.full /\ ~lock.old

IsProcessing(d) ==
  /\ entry.status = "processing"
  /\ ~entry.old
  /\ entry.by # d
  /\ IsActive

Start(d) ==
  /\ pc[d] = "idle"
  /\ Goes(d, "scan")
  /\ UNCHANGED <<res, lock, entry, faults>>

(* The entry may come from a cache of 10 s or be unreadable: then the item *)
(* is queued whatever the entry says now.                                  *)
Scan(d) ==
  /\ pc[d] = "scan"
  /\ \/ Goes(d, "queued")
     \/ /\ entry.status = "done" \/ IsProcessing(d)
        /\ Goes(d, "idle")
  /\ UNCHANGED <<res, lock, entry, faults>>

----------------------------------------------------------------------------
(* try_acquire.                                                            *)

(* What the content of the lock says: an empty local file has no owner and *)
(* is stale.                                                               *)
Same(d) == lock.full /\ lock.by = d
Stale   == ~lock.full \/ lock.old

(* Defect: a device does not know its own lock. *)
MayTakeStale(d) == steal /\ Stale

MayTake(d) == Same(d) \/ (steal /\ Stale)

(* Local: the file is looked for. *)
LookLocal(d) ==
  /\ ~remote
  /\ pc[d] = "queued"
  /\ Goes(d, IF lock.by = Nobody THEN "create" ELSE "read")
  /\ UNCHANGED <<res, lock, entry, faults>>

(* ... and read.  A file that is gone by then cannot be read, which stops  *)
(* a run that does not steal.                                              *)
ReadLocal(d) ==
  /\ pc[d] = "read"
  /\ Goes(d, IF IF lock.by = Nobody THEN steal ELSE MayTake(d)
             THEN "remove" ELSE "idle")
  /\ UNCHANGED <<res, lock, entry, faults>>

(* unlink(missing_ok=True): whatever is there by now. *)
Remove(d) ==
  /\ pc[d] = "remove"
  /\ lock' = NoLock
  /\ Goes(d, "create")
  /\ UNCHANGED <<res, entry, faults>>

(* Defect: the file is opened without O_EXCL. *)
CreateOver(d) ==
  /\ pc[d] = "create"
  /\ lock' = [by |-> d, full |-> FALSE, old |-> FALSE]
  /\ Goes(d, "fill")
  /\ UNCHANGED <<res, entry, faults>>

(* os.open with O_CREAT | O_EXCL: the new file is empty. *)
Create(d) ==
  /\ pc[d] = "create"
  /\ IF lock.by = Nobody
       THEN /\ lock' = [by |-> d, full |-> FALSE, old |-> FALSE]
            /\ Goes(d, "fill")
       ELSE /\ Goes(d, "idle")
            /\ UNCHANGED lock
  /\ UNCHANGED <<res, entry, faults>>

(* The content is written, into the file that was opened: if the name was *)
(* unlinked meanwhile nobody sees it.                                     *)
Fill(d) ==
  /\ pc[d] = "fill"
  /\ lock' = IF lock.by = d THEN [lock EXCEPT !.full = TRUE] ELSE lock
  /\ Goes(d, "locked")
  /\ UNCHANGED <<res, entry, faults>>

(* Remote: read_text.  An unreadable lock stops only a run that does not  *)
(* steal.                                                                 *)
ReadRemote(d) ==
  /\ remote
  /\ pc[d] = "queued"
  /\ \/ /\ Goes(d, IF lock.by = Nobody \/ MayTake(d) THEN "write" ELSE "idle")
        /\ UNCHANGED faults
     \/ /\ Goes(d, IF steal THEN "write" ELSE "idle")
        /\ Fault
  /\ UNCHANGED <<res, lock, entry>>

(* upload_text(overwrite=True); a failed call may have taken effect. *)
WriteRemote(d) ==
  /\ pc[d] = "write"
  /\ \/ /\ lock' = [by |-> d, full |-> TRUE, old |-> FALSE]
        /\ Goes(d, "verify")
        /\ UNCHANGED faults
     \/ /\ lock' \in {lock, [by |-> d, full |-> TRUE, old |-> FALSE]}
        /\ Goes(d, "idle")
        /\ Fault
  /\ UNCHANGED <<res, entry>>

(* Read back: another token, no file or a failed read end the attempt.   *)
VerifyRemote(d) ==
  /\ pc[d] = "verify"
  /\ \/ /\ Goes(d, IF lock.by = d THEN "locked" ELSE "idle")
        /\ UNCHANGED faults
     \/ /\ Goes(d, "idle")
        /\ Fault
  /\ UNCHANGED <<res, lock, entry>>

----------------------------------------------------------------------------
(* The job, its end, and the two records of it.                            *)

(* Defect: the early return of a done item comes before the try/finally. *)
RecheckKeepsLock(d) ==
  /\ pc[d] = "locked"
  /\ \/ /\ entry.status = "done"
        /\ Goes(d, "idle")
        /\ UNCHANGED <<res, faults>>
     \/ /\ entry.status # "done"
        /\ Goes(d, "mark")
        /\ UNCHANGED <<res, faults>>
     \/ /\ remote /\ Fault
        /\ Goes(d, "mark")
        /\ UNCHANGED res
  /\ UNCHANGED <<lock, entry>>

(* get_latest(force=True) under the lock; a remote read may fail (None).  *)
Recheck(d) ==
  /\ pc[d] = "locked"
  /\ \/ /\ entry.status = "done"
        /\ res' = [res EXCEPT ![d] = "skip"]
        /\ Goes(d, "free")
        /\ UNCHANGED faults
     \/ /\ entry.status # "done"
        /\ Goes(d, "mark")
        /\ UNCHANGED <<res, faults>>
     \/ /\ remote /\ Fault
        /\ Goes(d, "mark")
        /\ UNCHANGED res
  /\ UNCHANGED <<lock, entry>>

(* Coordinator.append through safe_append: a failure is only logged.  The  *)
(* new entry replaces the latest, remote files being overwritten and local *)
(* lines ordered by their time.                                            *)
Append(d, status) ==
  \/ /\ entry' = [status |-> status, by |-> d, old |-> FALSE]
     /\ UNCHANGED faults
  \/ /\ Fault
     /\ UNCHANGED entry

Mark(d) ==
  /\ pc[d] = "mark"
  /\ Append(d, "processing")
  /\ Goes(d, "work")
  /\ UNCHANGED <<res, lock>>

(* Download, process_one_local, upload.  Nothing generated is a skip. *)
Work(d) ==
  /\ pc[d] = "work"
  /\ \/ /\ res' = [res EXCEPT ![d] = "ok"]
        /\ UNCHANGED faults
     \/ /\ \E r \in {"fail", "skip"} : res' = [res EXCEPT ![d] = r]
        /\ Fault
  /\ Goes(d, "free")
  /\ UNCHANGED <<lock, entry>>

(* release: whatever lock file is there.  It is kept when the run is being *)
(* stopped or the remote call fails.                                       *)
Release(d) ==
  /\ pc[d] = "free"
  /\ \/ /\ lock' = NoLock
        /\ UNCHANGED faults
     \/ /\ Fault
        /\ UNCHANGED lock
  /\ Goes(d, "finalize")
  /\ UNCHANGED <<res, entry>>

(* finalize, by the main thread, after the lock was released. *)
Finalize(d) ==
  /\ pc[d] = "finalize"
  /\ \/ /\ res[d] = "ok"
        /\ Append(d, "done")
     \/ /\ res[d] = "fail"
        /\ Append(d, "fail")
     \/ /\ res[d] = "skip"
        /\ UNCHANGED <<entry, faults>>
  /\ res' = [res EXCEPT ![d] = "none"]
  /\ Goes(d, "idle")
  /\ UNCHANGED lock

----------------------------------------------------------------------------
(* Crashes and time.                                                       *)

(* A killed run leaves its lock and its entry behind. *)
Crash(d) ==
  /\ pc[d] \notin {"idle", "dead"}
  /\ Fault
  /\ Goes(d, "dead")
  /\ res' = [res EXCEPT ![d] = "none"]
  /\ UNCHANGED <<mode, lock, entry>>

Restart(d) ==
  /\ pc[d] = "dead"
  /\ Goes(d, "idle")
  /\ UNCHANGED <<mode, res, lock, entry, faults>>

(* --lock-ttl goes by.  Six hours by default: only a scan, a place in the *)
(* queue, a job and a device that is off last that long ("read" is still   *)
(* in the queue: nothing was decided yet).                                 *)
Age ==
  /\ \A d \in Devices : pc[d] \in {"idle", "dead", "scan", "queued", "read", "work"}
  /\ lock' = [lock EXCEPT !.old = lock.by # Nobody]
  /\ entry' = [entry EXCEPT !.old = entry.status # "none"]
  /\ <<lock, entry>>' # <<lock, entry>>
  /\ UNCHANGED <<mode, pc, res, faults>>

Step(d) ==
  /\ \/ Start(d) \/ Scan(d)
     \/ LookLocal(d) \/ ReadLocal(d) \/ Remove(d) \/ Create(d) \/ Fill(d)
     \/ ReadRemote(d) \/ WriteRemote(d) \/ VerifyRemote(d)
     \/ Recheck(d) \/ Mark(d) \/ Work(d) \/ Release(d) \/ Finalize(d)
  /\ UNCHANGED mode

Next ==
  \/ \E d \in Devices : Step(d) \/ Crash(d) \/ Restart(d)
  \/ Age

Spec == Init /\ [][Next]_vars

(* A process that runs goes on and is run again; time passes, which takes  *)
(* strong fairness only because Age is written for the moments when no     *)
(* device is between two calls.  Nothing says that a device that is down   *)
(* comes back.                                                             *)
FairSpec ==
  /\ Spec
  /\ \A d \in Devices : WF_vars(Step(d))
  /\ SF_vars(Age)

----------------------------------------------------------------------------
(* Correctness.                                                            *)

Holds(d) == pc[d] \in Holding

(* A local output whose locks are not stolen: the one mode in which a lock *)
(* belongs to its device until it gives it up.                             *)
Exclusive == ~remote /\ ~steal

(* No two devices work on the item at once: what the lock is for           *)
(* (state.py:336).                                                         *)
MutualExclusion ==
  Exclusive => \A d, e \in Devices : Holds(d) /\ Holds(e) => d = e

(* As long as nothing went wrong, a lock file belongs to a device that is  *)
(* acquiring or holding it: no interleaving leaves a lock behind that      *)
(* would block the item until it is stale.                                 *)
NoOrphan ==
  faults = 0 /\ lock.by # Nobody =>
    Holds(lock.by) \/ pc[lock.by] \in {"fill", "verify"}

(* A lock file without content whose device is not about to write it.      *)
EmptyLeft == lock.by # Nobody /\ ~lock.full /\ pc[lock.by] # "fill"

(* Without stealing, what keeps an item from being done: a device that is  *)
(* down, which may have the lock, and the empty lock of a run that was     *)
(* killed between creating and writing it: that is nobody's, not even its  *)
(* own device takes it, and it blocks the item for good.                   *)
Blocked == ~steal /\ (EmptyLeft \/ \E d \in Devices : pc[d] = "dead")

(* After any crash, failed call or interrupt the item is done in the end,  *)
(* again and again: with stealing over the stale lock of a device that may *)
(* stay down (cli.py:270), as long as one device is up; without stealing,  *)
(* unless it is Blocked, because a device that is run again takes over and *)
(* releases a lock of its own that it left behind (state.py:346).          *)
TakenOver == []<>(entry.status = "done" \/ Blocked)

(* Who is at a step that needs the lock has its lock file there. *)
Own(d) ==
  /\ Holds(d) => lock.by = d /\ lock.full
  /\ pc[d] = "fill" => lock.by = d
  /\ pc[d] = "remove" => lock.by = d
  /\ pc[d] \notin {"write", "verify"}

(* The inductive form of mutual exclusion: who holds the lock, or is about *)
(* to, has its own lock file there.                                        *)
LocalInv ==
  /\ TypeOK
  /\ Exclusive => \A d \in Devices : Own(d)
  /\ MutualExclusion
=============================================================================
