---------------------------- MODULE UploadQueue ----------------------------
(***************************************************************************)
(* The pipeline of the command line program when the output is remote and  *)
(* --upload-jobs is positive (shrink_media/pipeline.py, PipelineContext,   *)
(* and the run loops of shrink_media/cli.py).                              *)
(*                                                                         *)
(* A scan thread feeds a queue of items.  With --jobs 1 the main thread    *)
(* encodes them itself (_run_single_threaded), otherwise a pool does and   *)
(* the main thread handles what is done, in batches (_run_multi_threaded). *)
(* Encoded files wait on the local disk for a pool of upload threads; a    *)
(* semaphore of 2 * UploadJobs slots bounds them.  An upload that fails    *)
(* and may be retried is deferred: it keeps its slot and its file until    *)
(* its time has come and the upload pool is "idleish".                     *)
(*                                                                         *)
(* Only the main thread touches upload_futs and deferred_uploads, so a     *)
(* step of the main thread is what it does between two waits.  Of a file   *)
(* only its presence on disk is kept, of time only that a retry is due.    *)
(* Not here: SIGINT and FatalAuthError, which end the run; the locks (see  *)
(* StateLocks); a submit to a pool that has been shut down.                *)
(***************************************************************************)
EXTENDS Naturals, FiniteSets

CONSTANTS Items,        \* the input files
          Jobs,         \* the values of --jobs that an instance explores
          UploadJobs,   \* --upload-jobs
          IdleRetries,  \* --upload-idle-retries
          Flaky,        \* bound: items whose upload may fail or file be lost
          NoItem

ASSUME UploadQueueAssumption ==
  /\ IsFiniteSet(Items)
  /\ Jobs \subseteq Nat \ {0}
  /\ UploadJobs \in Nat \ {0}
  /\ IdleRetries \in Nat
  /\ Flaky \subseteq Items
  /\ NoItem \notin Items

VARIABLES
  jobs,    \* --jobs: never changes
  phase,   \* where each item is
  result,  \* what the last upload of an item came to
  attempt, \* idle_retry_attempt of its next or running upload
  due,     \* the deferred items whose next_retry_at has passed
  output,  \* the items whose encoded file is in upload_dir
  slots,   \* the value of the semaphore upload_slots
  main,    \* where the main thread is, and the item it holds
  batch    \* the finished futures it has still to handle

queue == <<phase, result, attempt, due, output, slots, main, batch>>
vars  == <<jobs, queue>>

(* unscanned, work_q, ctx.worker, finished with and without something to   *)
(* upload, upload pool, future done, deferred_uploads, finalized           *)
Phase == {"todo", "queued", "working", "encoded", "processed",
          "submitted", "uploading", "uploaded", "deferred", "final"}

Result == {"none", "ok", "fail", "defer"}

MainPC == {"loop", "work", "slot", "acquire", "drain", "after", "tail",
           "tailDrain", "top", "take", "wait", "batch", "batchPump", "exit"}

MaxSlots  == 2 * UploadJobs
QueueSize == 4 * jobs
Serial    == jobs = 1

In(P) == {i \in Items : phase[i] \in P}

Proc == In({"working", "encoded", "processed"})      \* proc_futs
Futs == In({"submitted", "uploading", "uploaded"})   \* upload_futs

TypeOK ==
  /\ jobs \in Jobs
  /\ phase \in [Items -> Phase]
  /\ result \in [Items -> Result]
  /\ attempt \in [Items -> 0 .. IdleRetries]
  /\ due \subseteq Items
  /\ output \subseteq Items
  /\ slots \in 0 .. MaxSlots
  /\ main \in [pc : MainPC, cur : Items \cup {NoItem}]
  /\ batch \subseteq Items

At(pc) == main.pc = pc
GoTo(pc) == main' = [pc |-> pc, cur |-> NoItem]

Init ==
  /\ jobs \in Jobs
  /\ phase = [i \in Items |-> "todo"]
  /\ result = [i \in Items |-> "none"]
  /\ attempt = [i \in Items |-> 0]
  /\ due = {}
  /\ output = {}
  /\ slots = MaxSlots
  /\ main = [pc |-> IF Serial THEN "loop" ELSE "top", cur |-> NoItem]
  /\ batch = {}

uploads == <<result, attempt, due, output, slots>>

----------------------------------------------------------------------------
(* The scan thread, the workers, the upload threads, the clock.            *)

(* scan_producer: done elsewhere, being processed elsewhere, or queued.    *)
Scan(i) ==
  /\ phase[i] = "todo"
  /\ Cardinality(In({"queued"})) < QueueSize
  /\ \E p \in {"queued", "final"} : phase' = [phase EXCEPT ![i] = p]
  /\ UNCHANGED <<uploads, main, batch>>

(* ctx.worker: an encoded file to upload, or nothing to upload. *)
Work(i) ==
  /\ phase[i] = "working"
  /\ \/ /\ phase' = [phase EXCEPT ![i] = "encoded"]
        /\ output' = output \cup {i}
     \/ /\ phase' = [phase EXCEPT ![i] = "processed"]
        /\ UNCHANGED output
  /\ UNCHANGED <<result, attempt, due, slots, main, batch>>

Start(i) ==
  /\ phase[i] = "submitted"
  /\ Cardinality(In({"uploading"})) < UploadJobs
  /\ phase' = [phase EXCEPT ![i] = "uploading"]
  /\ UNCHANGED <<uploads, main, batch>>

(* Defect: a deferred upload gives its slot back. *)
FinishReleases(i) ==
  /\ phase[i] = "uploading"
  /\ phase' = [phase EXCEPT ![i] = "uploaded"]
  /\ \/ /\ attempt[i] < IdleRetries /\ i \in Flaky
        /\ result' = [result EXCEPT ![i] = "defer"]
        /\ UNCHANGED output
     \/ /\ \E r \in {"ok", "fail"} :
             /\ IF r = "ok" THEN i \in output ELSE i \in Flaky
             /\ result' = [result EXCEPT ![i] = r]
        /\ output' = output \ {i}
  /\ slots' = slots + 1
  /\ UNCHANGED <<attempt, due, main, batch>>

(* upload_worker: unless the upload is to be retried, its finally clause   *)
(* removes the file and releases the slot before the future is done.       *)
Finish(i) ==
  /\ phase[i] = "uploading"
  /\ phase' = [phase EXCEPT ![i] = "uploaded"]
  /\ \/ /\ attempt[i] < IdleRetries /\ i \in Flaky
        /\ result' = [result EXCEPT ![i] = "defer"]
        /\ UNCHANGED <<output, slots>>
     \/ /\ \E r \in {"ok", "fail"} :
             /\ IF r = "ok" THEN i \in output ELSE i \in Flaky
             /\ result' = [result EXCEPT ![i] = r]
        /\ output' = output \ {i}
        /\ slots' = slots + 1
  /\ UNCHANGED <<attempt, due, main, batch>>

(* next_retry_at passes. *)
ComeDue(i) ==
  /\ phase[i] = "deferred"
  /\ i \notin due
  /\ due' = due \cup {i}
  /\ UNCHANGED <<phase, result, attempt, output, slots, main, batch>>

(* Somebody cleans up the temporary directory. *)
Lose(i) ==
  /\ i \in Flaky \cap output
  /\ output' = output \ {i}
  /\ UNCHANGED <<phase, result, attempt, due, slots, main, batch>>

----------------------------------------------------------------------------
(* What the main thread does in several places.                            *)

(* Defect: half of the upload jobs, rounded down. *)
RoomRoundedDown == IF 2 * Cardinality(Futs) < UploadJobs
                   THEN UploadJobs \div 2 - Cardinality(Futs) ELSE 0

(* upload_queue_idleish_for_retry: how many uploads may be resubmitted     *)
(* before len(upload_futs) < upload_jobs / 2 is false.                     *)
Room == IF 2 * Cardinality(Futs) < UploadJobs
        THEN (UploadJobs + 1) \div 2 - Cardinality(Futs) ELSE 0

Ready == due \cap In({"deferred"})

(* The due uploads that one call handles; those without a file take no     *)
(* room.                                                                   *)
Pumped(P) ==
  /\ P \subseteq Ready
  /\ Cardinality(P \cap output) <= Room
  /\ Room = 0 => P = {}
  /\ P = Ready \/ Cardinality(P \cap output) = Room

PumpNext == [top       |-> "take",  slot |-> "acquire",   after |-> "loop",
             batchPump |-> "batch", tail |-> "tailDrain"]

(* pump_deferred_uploads, wherever the main thread calls it. *)
Pump(P) ==
  /\ main.pc \in DOMAIN PumpNext
  /\ Pumped(P)
  /\ phase' = [i \in Items |->
                CASE i \in P \cap output -> "submitted"
                  [] i \in P \ output -> "final"
                  [] OTHER -> phase[i]]
  /\ due' = due \ P
  /\ slots' = slots + Cardinality(P \ output)
  /\ main' = [main EXCEPT !.pc = PumpNext[main.pc]]
  /\ UNCHANGED <<result, attempt, output, batch>>

(* Up to n items from work_q go to the worker pool. *)
Taken(T, n) ==
  /\ T \subseteq In({"queued"})
  /\ \/ Cardinality(T) = n
     \/ Cardinality(T) < n /\ T = In({"queued"})

Moved(T, p) == [i \in Items |-> IF i \in T THEN p ELSE phase[i]]

WorkDone == In({"todo", "queued"}) = {}

(* What drain_upload_futs and the batch loop do with a finished upload:    *)
(* defer_upload, its file gone or not, or finalize.                        *)
Handle(i) ==
  \/ /\ result[i] = "defer"
     /\ i \in output
     /\ phase' = [phase EXCEPT ![i] = "deferred"]
     /\ attempt' = [attempt EXCEPT ![i] = @ + 1]
     /\ UNCHANGED <<result, due, output, slots>>
  \/ /\ result[i] = "defer"
     /\ i \notin output
     /\ phase' = [phase EXCEPT ![i] = "final"]
     /\ slots' = slots + 1
     /\ UNCHANGED <<result, attempt, due, output>>
  \/ /\ result[i] # "defer"
     /\ phase' = [phase EXCEPT ![i] = "final"]
     /\ UNCHANGED uploads

(* acquire_upload_slot waits 0.2 s for a slot and pumps again; with a slot *)
(* the upload is submitted.                                                *)
Acquire(T) ==
  /\ At("acquire")
  /\ slots > 0
  /\ Taken(T, IF Serial THEN 0 ELSE 1)
  /\ phase' = [Moved(T, "working") EXCEPT ![main.cur] = "submitted"]
  /\ slots' = slots - 1
  /\ GoTo(IF Serial THEN "drain" ELSE "batch")
  /\ UNCHANGED <<result, attempt, due, output, batch>>

SlotTimeout ==
  /\ At("acquire")
  /\ slots = 0
  /\ main' = [main EXCEPT !.pc = "slot"]
  /\ UNCHANGED <<phase, uploads, batch>>

----------------------------------------------------------------------------
(* _run_single_threaded.                                                   *)

Take(i) ==
  /\ At("loop")
  /\ phase[i] = "queued"
  /\ phase' = [phase EXCEPT ![i] = "working"]
  /\ main' = [pc |-> "work", cur |-> i]
  /\ UNCHANGED <<uploads, batch>>

NoMoreWork ==
  /\ At("loop")
  /\ WorkDone
  /\ GoTo("tail")
  /\ UNCHANGED <<phase, uploads, batch>>

Worked ==
  /\ At("work")
  /\ \/ /\ phase[main.cur] = "encoded"
        /\ main' = [main EXCEPT !.pc = "slot"]
        /\ UNCHANGED phase
     \/ /\ phase[main.cur] = "processed"
        /\ phase' = [phase EXCEPT ![main.cur] = "final"]
        /\ GoTo("loop")
  /\ UNCHANGED <<uploads, batch>>

(* drain_upload_futs: one finished upload after the other. *)
Drain(i) ==
  /\ At("drain") \/ At("tailDrain")
  /\ phase[i] = "uploaded"
  /\ Handle(i)
  /\ UNCHANGED <<main, batch>>

(* Defect: the end of the run does not wait for the deferred uploads. *)
DrainEndsForgets ==
  /\ At("drain") \/ At("tailDrain")
  /\ In({"uploaded"}) = {}
  /\ GoTo(IF At("drain") THEN "after"
          ELSE IF Futs = {} THEN "exit" ELSE "tail")
  /\ UNCHANGED <<phase, uploads, batch>>

DrainEnds ==
  /\ At("drain") \/ At("tailDrain")
  /\ In({"uploaded"}) = {}
  /\ GoTo(IF At("drain") THEN "after"
          ELSE IF Futs = {} /\ In({"deferred"}) = {} THEN "exit" ELSE "tail")
  /\ UNCHANGED <<phase, uploads, batch>>

----------------------------------------------------------------------------
(* _run_multi_threaded.                                                    *)

TakeSome(T) ==
  /\ At("take")
  /\ Taken(T, jobs - Cardinality(Proc))
  /\ phase' = Moved(T, "working")
  /\ GoTo("wait")
  /\ UNCHANGED <<uploads, batch>>

(* Defect: deferred uploads are forgotten when nothing is running. *)
WaitForWorkForgets(T) ==
  /\ At("wait")
  /\ Proc = {} /\ Futs = {}
  /\ Taken(T, 1)
  /\ phase' = Moved(T, "working")
  /\ GoTo(IF WorkDone THEN "exit" ELSE "top")
  /\ UNCHANGED <<uploads, batch>>

(* Nothing is running: wait for an item, or stop. *)
WaitForWork(T) ==
  /\ At("wait")
  /\ Proc = {} /\ Futs = {}
  /\ Taken(T, 1)
  /\ phase' = Moved(T, "working")
  /\ GoTo(IF WorkDone /\ In({"deferred"}) = {} THEN "exit" ELSE "top")
  /\ UNCHANGED <<uploads, batch>>

(* cf.wait(FIRST_COMPLETED, timeout) returns everything that is done. *)
WaitForFutures ==
  LET done == In({"encoded", "processed", "uploaded"}) IN
  /\ At("wait")
  /\ Proc # {} \/ Futs # {}
  /\ batch' = done
  /\ GoTo(IF done = {} THEN "top" ELSE "batch")
  /\ UNCHANGED <<phase, uploads>>

HandleJob(i, T) ==
  /\ At("batch")
  /\ i \in batch
  /\ batch' = batch \ {i}
  /\ \/ /\ phase[i] = "encoded"
        /\ main' = [pc |-> "slot", cur |-> i]
        /\ T = {}
        /\ UNCHANGED phase
     \/ /\ phase[i] = "processed"
        /\ Taken(T, 1)
        /\ phase' = [Moved(T, "working") EXCEPT ![i] = "final"]
        /\ UNCHANGED main
  /\ UNCHANGED uploads

HandleUpload(i) ==
  /\ At("batch")
  /\ i \in batch
  /\ phase[i] = "uploaded"
  /\ batch' = batch \ {i}
  /\ Handle(i)
  /\ GoTo("batchPump")

BatchEnds ==
  /\ At("batch")
  /\ batch = {}
  /\ GoTo("top")
  /\ UNCHANGED <<phase, uploads, batch>>

----------------------------------------------------------------------------
Main ==
  \/ \E P \in SUBSET Items : Pump(P)
  \/ \E T \in SUBSET Items : Acquire(T) \/ TakeSome(T) \/ WaitForWork(T)
  \/ SlotTimeout \/ NoMoreWork \/ Worked \/ DrainEnds
  \/ WaitForFutures \/ BatchEnds
  \/ \E i \in Items : Take(i) \/ Drain(i) \/ HandleUpload(i)
  \/ \E i \in Items, T \in SUBSET Items : HandleJob(i, T)

Others ==
  \E i \in Items : Scan(i) \/ Work(i) \/ Start(i) \/ Finish(i) \/ ComeDue(i)

Next ==
  /\ Main \/ Others \/ \E i \in Items : Lose(i)
  /\ UNCHANGED jobs

(* Every thread goes on, and the clock does; files need not be lost.       *)
Fairness ==
  /\ WF_queue(Main)
  /\ \A i \in Items : /\ WF_queue(Scan(i)) /\ WF_queue(Work(i))
                      /\ WF_queue(Start(i)) /\ WF_queue(Finish(i))
                      /\ WF_queue(ComeDue(i))

Spec == Init /\ [][Next]_vars
FairSpec == Spec /\ Fairness

----------------------------------------------------------------------------
(* The uploads that own a slot. *)
Holders ==
  In({"submitted", "uploading", "deferred"})
    \cup {i \in Items : phase[i] = "uploaded" /\ result[i] = "defer"}

(* A slot is free or owned by one upload.  The release is in four places   *)
(* (upload_worker, finalize_deferred_as_fail and its callers), the         *)
(* acquisition in another, and the semaphore's ValueError is swallowed, so *)
(* nothing in the program would tell a slot that is lost or freed twice.   *)
SlotsConserved == slots + Cardinality(Holders) = MaxSlots

(* What the slots are for: the encoded files on the local disk are at most *)
(* two per upload thread and one per worker, however many uploads fail     *)
(* (init_upload, acquire_upload_slot, defer_upload).                       *)
DiskBounded == Cardinality(output) <= MaxSlots + jobs

(* The run loop ends only when every item has been finalized, no file is   *)
(* left in upload_dir and every slot is free.                              *)
ExitComplete ==
  At("exit") => /\ \A i \in Items : phase[i] = "final"
                /\ output = {}
                /\ slots = MaxSlots

(* The run ends. *)
Terminates == <>At("exit")

(* A failed upload that is deferred is retried or given up some time:      *)
(* cli.py promises extra retries once the queue is rather idle.            *)
DeferredRetried ==
  \A i \in Items : phase[i] = "deferred" ~> phase[i] # "deferred"

----------------------------------------------------------------------------
(* Why the slots are conserved and the disk is bounded. *)

(* A file on disk is waiting for a slot or belongs to an upload with one. *)
OutputHeld == output \subseteq In({"encoded"}) \cup Holders

(* Never more jobs than workers, finished ones and the one in the main     *)
(* thread's hands included.                                                *)
JobsBounded == Cardinality(Proc) <= jobs

SerialPC == {"loop", "work", "slot", "acquire", "drain", "after", "tail",
             "tailDrain", "exit"}
PoolPC   == {"top", "take", "wait", "slot", "acquire", "batch", "batchPump",
             "exit"}

(* What the main thread holds when it waits for a slot, and what it is     *)
(* waiting for when it works itself.                                       *)
MainHolds ==
  /\ main.pc \in IF Serial THEN SerialPC ELSE PoolPC
  /\ main.pc \in {"work", "slot", "acquire"} => main.cur \in Proc
  /\ main.pc \in {"slot", "acquire"} => phase[main.cur] = "encoded"
  /\ Serial => Proc = IF main.pc \in {"work", "slot", "acquire"}
                      THEN {main.cur} ELSE {}
  /\ main.pc \in {"tail", "tailDrain", "exit"} => WorkDone

(* An upload that failed for good is not deferred. *)
RetryLeft ==
  \A i \in Items :
    phase[i] = "uploaded" /\ result[i] = "defer" => attempt[i] < IdleRetries

(* The conjunction is inductive (the run loops of cli.py and the helpers   *)
(* of PipelineContext they call).                                          *)
QueueInv ==
  /\ TypeOK
  /\ SlotsConserved
  /\ OutputHeld
  /\ JobsBounded
  /\ MainHolds
  /\ RetryLeft
  /\ ExitComplete
============================================================================
