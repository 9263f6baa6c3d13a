---------------------------- MODULE WorkerFleet ----------------------------
(***************************************************************************)
(* Worker processes (src/shrink_media_worker/worker.py) against the task   *)
(* table: the main loop that leases, the job threads, the heartbeat        *)
(* thread, --once, SIGTERM and SIGINT, crashes.  Each request of a worker  *)
(* is one step that the server answers from TaskRow; what concurrent       *)
(* requests do inside the server is in TaskServer.  All requests of a      *)
(* worker go through _client_lock, one at a time, except the transfers of  *)
(* files.                                                                  *)
(*                                                                         *)
(* A lease runs for ten minutes and heartbeats come every minute, so a     *)
(* lease does not run out while the heartbeat thread renews it, unless the *)
(* instance says that heartbeats may be lost (Lossy).                      *)
(*                                                                         *)
(* Left out: the three semaphores that delay a job, registration, and the  *)
(* back-off between empty leases.                                          *)
(***************************************************************************)
EXTENDS TaskRow, FiniteSets

CONSTANTS
  MaxInflight,  \* WORKER_MAX_INFLIGHT_TASKS
  BatchSize,    \* WORKER_LEASE_BATCH_SIZE
  Once,         \* the workers that run with --once
  Interrupts,   \* bound: SIGINT may arrive
  Lossy,        \* bound: ten minutes of heartbeats may get lost
  MaxFaults,    \* bound: crashes, signals, failed or unanswered calls
  NoTask

ASSUME FleetAssumption ==
  /\ MaxInflight \in Nat \ {0} /\ BatchSize \in Nat \ {0}
  /\ Once \subseteq Workers /\ Interrupts \in BOOLEAN /\ Lossy \in BOOLEAN
  /\ MaxFaults \in Nat
  /\ NoTask \notin Tasks

VARIABLES
  row,       \* the tasks table
  main,      \* main[w]: where the main loop is
  got,       \* got[w]: tasks of the last lease, not submitted yet
  leased,    \* leased[w]: leased_once
  job,       \* job[w][k]: the job of one of the max_inflight threads
  active,    \* active[w]: the keys of active_tasks, which get heartbeats
  shutting,  \* shutting[w]: shutting_down
  running,   \* running[w]: the heartbeat thread goes on
  faults     \* how many things have gone wrong so far

server == <<row>>
worker == <<main, got, leased, job, active, shutting, running>>
vars   == <<row, worker, faults>>

Threads == 1 .. MaxInflight

Request == {"intent", "complete", "skip", "fail", "giveUp"}
Stage   == {"none", "submitted", "work", "upload", "over"} \cup Request
NoJob   == [task |-> NoTask, at |-> "none"]
Job     == [task : Tasks \cup {NoTask}, at : Stage]
MainPC  == {"poll", "lease", "submit", "leave", "stopped", "dead"}

TypeOK ==
  /\ row \in [Tasks -> Row]
  /\ main \in [Workers -> MainPC]
  /\ got \in [Workers -> SUBSET Tasks]
  /\ leased \in [Workers -> BOOLEAN]
  /\ job \in [Workers -> [Threads -> Job]]
  /\ active \in [Workers -> SUBSET Tasks]
  /\ shutting \in [Workers -> BOOLEAN]
  /\ running \in [Workers -> BOOLEAN]
  /\ faults \in 0 .. MaxFaults

Init ==
  /\ row = [t \in Tasks |-> NewRow]
  /\ main = [w \in Workers |-> "poll"]
  /\ got = [w \in Workers |-> {}]
  /\ leased = [w \in Workers |-> FALSE]
  /\ job = [w \in Workers |-> [k \in Threads |-> NoJob]]
  /\ active = [w \in Workers |-> {}]
  /\ shutting = [w \in Workers |-> FALSE]
  /\ running = [w \in Workers |-> TRUE]
  /\ faults = 0

Fault == faults < MaxFaults /\ faults' = faults + 1

Goes(w, to)     == main' = [main EXCEPT ![w] = to]
JobAt(w, k, s)  == job[w][k].at = s
JobTo(w, k, s)  == job' = [job EXCEPT ![w][k].at = s]
TaskOf(w, k)    == job[w][k].task
InFlight(w)     == {k \in Threads : job[w][k].at \notin {"none", "over"}}
Put(t, r)       == row' = [row EXCEPT ![t] = r]

----------------------------------------------------------------------------
(* The main loop of run().                                                 *)

Drained(w) == [k \in Threads |-> IF JobAt(w, k, "over") THEN NoJob ELSE job[w][k]]

MayLease(w) == /\ Cardinality(InFlight(w)) < MaxInflight
               /\ w \notin Once \/ ~leased[w]

Poll(w) ==
  /\ main[w] = "poll"
  /\ job' = [job EXCEPT ![w] = Drained(w)]
  /\ \/ /\ shutting[w] \/ (w \in Once /\ leased[w] /\ InFlight(w) = {})
        /\ Goes(w, "leave")
     \/ /\ ~shutting[w]
        /\ MayLease(w)
        /\ Goes(w, "lease")
     \/ /\ ~shutting[w] /\ ~MayLease(w) /\ InFlight(w) # {}
        /\ \E k \in Threads : JobAt(w, k, "over")
        /\ UNCHANGED main
  /\ UNCHANGED <<server, got, leased, active, shutting, running, faults>>

LeaseAll(w, S) ==
  row' = [t \in Tasks |-> IF t \in S THEN LeaseRow(row[t], w) ELSE row[t]]

(* min(lease_batch_size, capacity) of the tasks that can be leased. *)
Batches(w) ==
  LET can == {t \in Tasks : Leasable(row[t])}
      n   == MaxInflight - Cardinality(InFlight(w))
  IN {S \in SUBSET can :
        \/ Cardinality(S) = BatchSize /\ BatchSize <= n
        \/ Cardinality(S) = n /\ n <= BatchSize
        \/ S = can /\ Cardinality(S) <= n /\ Cardinality(S) <= BatchSize}

Lease(w) ==
  /\ main[w] = "lease"
  /\ \E S \in Batches(w) :
       /\ LeaseAll(w, S)
       /\ got' = [got EXCEPT ![w] = S]
       /\ leased' = [leased EXCEPT ![w] = TRUE]
       /\ Goes(w, IF S # {} THEN "submit" ELSE IF w \in Once THEN "leave" ELSE "poll")
  /\ UNCHANGED <<job, active, shutting, running, faults>>

(* The request fails, or its answer is lost. *)
LeaseFails(w) ==
  /\ main[w] = "lease"
  /\ Fault
  /\ UNCHANGED row \/ \E S \in Batches(w) : LeaseAll(w, S)
  /\ Goes(w, IF w \in Once THEN "leave" ELSE "poll")
  /\ UNCHANGED <<got, leased, job, active, shutting, running>>

(* Defect: only one task of a batch is submitted. *)
SubmitFirst(w) ==
  /\ main[w] = "submit"
  /\ \/ /\ got[w] = {} \/ shutting[w]
        /\ got' = [got EXCEPT ![w] = {}]
        /\ Goes(w, "poll")
        /\ UNCHANGED job
     \/ /\ ~shutting[w]
        /\ \E t \in got[w], k \in Threads :
             /\ JobAt(w, k, "none")
             /\ \A l \in 1 .. k - 1 : ~JobAt(w, l, "none")
             /\ got' = [got EXCEPT ![w] = {}]
             /\ job' = [job EXCEPT ![w][k] = [task |-> t, at |-> "submitted"]]
        /\ UNCHANGED main
  /\ UNCHANGED <<server, leased, active, shutting, running, faults>>

(* executor.submit for one task after the other; a shutdown drops the rest. *)
Submit(w) ==
  /\ main[w] = "submit"
  /\ \/ /\ got[w] = {} \/ shutting[w]
        /\ got' = [got EXCEPT ![w] = {}]
        /\ Goes(w, "poll")
        /\ UNCHANGED job
     \/ /\ ~shutting[w]
        /\ \E t \in got[w], k \in Threads :
             /\ JobAt(w, k, "none")
             /\ \A l \in 1 .. k - 1 : ~JobAt(w, l, "none")
             /\ got' = [got EXCEPT ![w] = @ \ {t}]
             /\ job' = [job EXCEPT ![w][k] = [task |-> t, at |-> "submitted"]]
        /\ UNCHANGED main
  /\ UNCHANGED <<server, leased, active, shutting, running, faults>>

(* Defect: a worker that leaves does not wait for its jobs. *)
LeaveAtOnce(w) ==
  /\ main[w] = "leave"
  /\ Goes(w, "stopped")
  /\ running' = [running EXCEPT ![w] = FALSE]
  /\ UNCHANGED <<server, got, leased, job, active, shutting, faults>>

(* The finally clause waits for every job, then shutdown() ends the        *)
(* heartbeats.                                                             *)
Leave(w) ==
  /\ main[w] = "leave"
  /\ InFlight(w) = {}
  /\ Goes(w, "stopped")
  /\ running' = [running EXCEPT ![w] = FALSE]
  /\ job' = [job EXCEPT ![w] = [k \in Threads |-> NoJob]]
  /\ UNCHANGED <<server, got, leased, active, shutting, faults>>

(* Defect: the signal handler ends the heartbeats as well. *)
SigTermStops(w) ==
  /\ main[w] \notin {"stopped", "dead"}
  /\ ~shutting[w]
  /\ Fault
  /\ shutting' = [shutting EXCEPT ![w] = TRUE]
  /\ running' = [running EXCEPT ![w] = FALSE]
  /\ UNCHANGED <<server, main, got, leased, job, active>>

(* SIGTERM: request_shutdown. *)
SigTerm(w) ==
  /\ main[w] \notin {"stopped", "dead"}
  /\ ~shutting[w]
  /\ Fault
  /\ shutting' = [shutting EXCEPT ![w] = TRUE]
  /\ UNCHANGED <<server, main, got, leased, job, active, running>>

(* SIGINT in the main loop: KeyboardInterrupt, running = False, and then   *)
(* the wait for the jobs in progress.  A lease may have been granted.      *)
SigInt(w) ==
  /\ Interrupts
  /\ main[w] \in {"poll", "lease", "submit"}
  /\ ~shutting[w]
  /\ Fault
  /\ shutting' = [shutting EXCEPT ![w] = TRUE]
  /\ running' = [running EXCEPT ![w] = FALSE]
  /\ got' = [got EXCEPT ![w] = {}]
  /\ Goes(w, "leave")
  /\ \/ UNCHANGED row
     \/ main[w] = "lease" /\ \E S \in Batches(w) : LeaseAll(w, S)
  /\ UNCHANGED <<leased, job, active>>

Kill(w, to) ==
  /\ main' = [main EXCEPT ![w] = to]
  /\ got' = [got EXCEPT ![w] = {}]
  /\ leased' = [leased EXCEPT ![w] = FALSE]
  /\ job' = [job EXCEPT ![w] = [k \in Threads |-> NoJob]]
  /\ active' = [active EXCEPT ![w] = {}]
  /\ shutting' = [shutting EXCEPT ![w] = FALSE]
  /\ UNCHANGED row

(* A crash, or a second signal (os._exit). *)
Crash(w) ==
  /\ main[w] \notin {"stopped", "dead"}
  /\ Fault
  /\ Kill(w, "dead")
  /\ running' = [running EXCEPT ![w] = FALSE]

(* The worker is started again with the same WORKER_TOKEN. *)
Restart(w) ==
  /\ main[w] \in {"stopped", "dead"}
  /\ Kill(w, "poll")
  /\ running' = [running EXCEPT ![w] = TRUE]
  /\ UNCHANGED faults

----------------------------------------------------------------------------
(* A job thread: process_task.                                             *)

rest == <<main, got, leased, shutting, running>>

Begin(w, k) ==
  /\ JobAt(w, k, "submitted")
  /\ active' = [active EXCEPT ![w] = @ \cup {TaskOf(w, k)}]
  /\ JobTo(w, k, IF shutting[w] THEN "fail" ELSE "work")
  /\ UNCHANGED <<server, rest, faults>>

(* Download and encoding: an output, nothing to do, an error, or a source  *)
(* that the server does not give out (401, 403, 404: not retryable).       *)
Process(w, k) ==
  /\ JobAt(w, k, "work")
  /\ \/ \E s \in {"intent", "skip"} : JobTo(w, k, s) /\ UNCHANGED faults
     \/ \E s \in {"fail", "giveUp"} : JobTo(w, k, s) /\ Fault
  /\ UNCHANGED <<server, rest, active>>

(* The checks every request makes. *)
Granted(w, t) == row[t].worker = w /\ row[t].status # "finalized"

(* 409 for a finalized task is retryable, 403 for a lost lease is not. *)
Refused(w, k) ==
  /\ ~Granted(w, TaskOf(w, k))
  /\ JobTo(w, k, IF row[TaskOf(w, k)].status = "finalized" THEN "fail" ELSE "giveUp")

(* A request that changes row t to r: it is answered, refused, or fails    *)
(* with or without an effect.                                              *)
Calls(w, k, r, next) ==
  \/ /\ Granted(w, TaskOf(w, k))
     /\ Put(TaskOf(w, k), r)
     /\ JobTo(w, k, next)
     /\ UNCHANGED faults
  \/ /\ Refused(w, k)
     /\ UNCHANGED <<row, faults>>
  \/ /\ Fault
     /\ \/ UNCHANGED row
        \/ Granted(w, TaskOf(w, k)) /\ Put(TaskOf(w, k), r)
     /\ JobTo(w, k, "fail")

UploadIntent(w, k) ==
  /\ JobAt(w, k, "intent")
  /\ \E n \in Nonces, p \in Paths, a \in OutputAction, s \in Sizes :
       Calls(w, k, IntentRow(row[TaskOf(w, k)], n, p, a, s), "upload")
  /\ UNCHANGED <<rest, active>>

(* upload_file_chunked; only upload_proxy looks at the lease.  An error    *)
(* without a text keeps its status, and 401, 403, 404 are not retried.     *)
Upload(w, k) ==
  /\ JobAt(w, k, "upload")
  /\ \/ JobTo(w, k, "complete") /\ UNCHANGED faults
     \/ ~Granted(w, TaskOf(w, k)) /\ JobTo(w, k, "fail") /\ UNCHANGED faults
     \/ \E s \in {"fail", "giveUp"} : JobTo(w, k, s) /\ Fault
  /\ UNCHANGED <<server, rest, active>>

(* active_tasks.pop in the finally clause; the future is done. *)
Ends(w, k) ==
  /\ active' = [active EXCEPT ![w] = @ \ {TaskOf(w, k)}]
  /\ JobTo(w, k, "over")

(* complete: 409 when the row names no output (any more), an answer        *)
(* ok = False when finalize failed.                                        *)
Complete(w, k) ==
  LET t == TaskOf(w, k) IN
  /\ JobAt(w, k, "complete")
  /\ \/ /\ Granted(w, t) /\ row[t].staging # NoNonce
        /\ Put(t, DoneRow(row[t]))
        /\ Ends(w, k)
        /\ UNCHANGED faults
     \/ /\ Granted(w, t) /\ row[t].staging = NoNonce
        /\ JobTo(w, k, "fail")
        /\ UNCHANGED <<row, active, faults>>
     \/ /\ Refused(w, k)
        /\ UNCHANGED <<row, active, faults>>
     \/ /\ Fault
        /\ \/ UNCHANGED row
           \/ /\ Granted(w, t) /\ row[t].staging # NoNonce
              /\ \E r \in {DoneRow(row[t]), FailedRow(row[t])} : Put(t, r)
        /\ JobTo(w, k, "fail")
        /\ UNCHANGED active
  /\ UNCHANGED rest

(* complete with action skip; it is accepted again by a skipped task. *)
Skip(w, k) ==
  LET t == TaskOf(w, k) IN
  /\ JobAt(w, k, "skip")
  /\ \/ /\ Granted(w, t)
        /\ \E s \in Sizes : Put(t, SkipRow(row[t], s))
        /\ Ends(w, k)
        /\ UNCHANGED faults
     \/ /\ row[t].status = "finalized" /\ row[t].action = "skip"
        /\ Ends(w, k)
        /\ UNCHANGED <<row, faults>>
     \/ /\ row[t].status # "finalized" \/ row[t].action # "skip"
        /\ Refused(w, k)
        /\ UNCHANGED <<row, active, faults>>
     \/ /\ Fault
        /\ \/ UNCHANGED row
           \/ Granted(w, t) /\ \E s \in Sizes : Put(t, SkipRow(row[t], s))
        /\ JobTo(w, k, "fail")
        /\ UNCHANGED active
  /\ UNCHANGED rest

(* The except clause: the failure is reported; when that fails it is only  *)
(* printed.                                                                *)
Report(w, k) ==
  LET t == TaskOf(w, k)
      accepted == Granted(w, t) /\ row[t].status \notin {"queued", "deadletter"}
      failed == FailRow(row[t], JobAt(w, k, "fail"))
  IN
  /\ JobAt(w, k, "fail") \/ JobAt(w, k, "giveUp")
  /\ \/ /\ row' = IF accepted THEN [row EXCEPT ![t] = failed] ELSE row
        /\ UNCHANGED faults
     \/ /\ UNCHANGED row
        /\ Fault
  /\ Ends(w, k)
  /\ UNCHANGED rest

----------------------------------------------------------------------------
(* Heartbeats and time.                                                    *)

(* heartbeat_loop; a lease that has run out is renewed as well. *)
Heartbeat(w, t) ==
  /\ running[w]
  /\ t \in active[w]
  /\ Granted(w, t)
  /\ row[t] # RenewRow(row[t])
  /\ Put(t, RenewRow(row[t]))
  /\ UNCHANGED <<worker, faults>>

(* The worker has been given the task and is about to start it. *)
Fresh(w, t) ==
  \/ t \in got[w]
  \/ \E k \in Threads : TaskOf(w, k) = t /\ JobAt(w, k, "submitted")

Renewed(t) ==
  \E w \in Workers : /\ row[t].worker = w
                     /\ (running[w] /\ t \in active[w]) \/ Fresh(w, t)

Lapsing(t) ==
  /\ row[t].status = "leased" /\ row[t].expiry = "live"
  /\ Put(t, [row[t] EXCEPT !.expiry = "expired"])
  /\ UNCHANGED worker

Lapse(t) == ~Renewed(t) /\ Lapsing(t) /\ UNCHANGED faults

(* Ten minutes of heartbeats are lost, or wait for _client_lock. *)
LapseAnyway(t) == Lossy /\ Renewed(t) /\ Fault /\ Lapsing(t)

JobStep(w, k) ==
  \/ Begin(w, k) \/ Process(w, k) \/ UploadIntent(w, k) \/ Upload(w, k)
  \/ Complete(w, k) \/ Skip(w, k) \/ Report(w, k)

MainStep(w) == Poll(w) \/ Lease(w) \/ LeaseFails(w) \/ Submit(w) \/ Leave(w)

Next ==
  \/ \E w \in Workers :
       \/ MainStep(w)
       \/ \E k \in Threads : JobStep(w, k)
       \/ SigTerm(w) \/ SigInt(w) \/ Crash(w) \/ Restart(w)
       \/ \E t \in Tasks : Heartbeat(w, t)
  \/ \E t \in Tasks : Lapse(t) \/ LapseAnyway(t)

Spec == Init /\ [][Next]_vars

(* Workers run, one of their jobs at least, and time passes.  Nobody has  *)
(* to restart a worker.                                                    *)
FairSpec ==
  /\ Spec
  /\ \A w \in Workers :
       /\ WF_vars(MainStep(w))
       /\ WF_vars(\E k \in Threads : JobStep(w, k))
  /\ WF_vars(\E t \in Tasks : Lapse(t))

----------------------------------------------------------------------------
(* Correctness.                                                            *)

Doing(w, k) == job[w][k].at \in {"work", "intent", "upload", "complete", "skip"}

(* A task is worked on by one job at a time, in all workers: leases and    *)
(* heartbeats (worker.py:208, api.py:607) are there for that, also while a *)
(* worker that was told to stop waits for its jobs.                        *)
NoDoubleWork ==
  \A v, w \in Workers : \A k, l \in Threads :
    Doing(v, k) /\ Doing(w, l) /\ TaskOf(v, k) = TaskOf(w, l)
      => v = w /\ k = l

(* A task in progress keeps its lease: no job works for nothing. *)
LeaseCovers ==
  \A w \in Workers : \A k \in Threads :
    Doing(w, k) => Granted(w, TaskOf(w, k)) /\ row[TaskOf(w, k)].expiry = "live"

(* As long as nothing has gone wrong in the fleet and no worker was told   *)
(* to stop, a --once worker that has stopped has reported everything it    *)
(* leased (README.md:158).                                                 *)
OnceReports ==
  faults = 0 =>
    \A w \in Workers : main[w] = "stopped" =>
      \A t \in Tasks : row[t].status = "leased" => row[t].worker # w

Settled(t) == row[t].status \in {"finalized", "failed", "deadletter"}

(* Every task is done or given up in the end, whoever crashes or is told   *)
(* to stop, as long as less goes wrong than max_attempts allows: a crash   *)
(* costs a task one attempt, a SIGTERM up to two.                          *)
AllSettle == \A t \in Tasks : <>Settled(t)

(* A lease that has run out is not the end of the task: it is leased       *)
(* again or the task is given up (api.py:522).                             *)
ExpiredReassigned ==
  \A t \in Tasks :
    (row[t].status = "leased" /\ row[t].expiry = "expired")
      ~> (row[t].expiry # "expired" \/ Settled(t))
============================================================================
