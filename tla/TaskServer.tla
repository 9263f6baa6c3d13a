----------------------------- MODULE TaskServer -----------------------------
(***************************************************************************)
(* The task API of shrink_media_server/api.py over its two stores: the     *)
(* `tasks` table and the files it keeps on OpenList.                       *)
(*                                                                         *)
(* The handlers are plain `def` functions, so FastAPI runs each request in *)
(* a thread of its pool.  A request reads its row, decides, calls OpenList *)
(* with no transaction open, and commits; a thread is therefore a record   *)
(* that carries what it has read and what it will write, and between two   *)
(* of its steps any other thread may run.  Callers are not trusted: any    *)
(* worker may send any request for any task at any time.  A request that   *)
(* the code answers with an error before changing anything is not a step.  *)
(***************************************************************************)
EXTENDS TaskRow, FiniteSets

CONSTANTS Threads,    \* threads of the pool that serve requests
          Dirs,       \* directories of the output tree
          OutPaths,   \* the final paths a task may ask for (one per out_ext)
          DirOf,      \* the directory of a final path
          Scope,      \* tasks a worker may lease: allow_routes, allow_kinds,
                      \* and no route in copy mode
          Kinds,      \* bound: the requests, and whether leases run out, that
                      \* an instance explores
          NoTask

Op == {"lease", "heartbeat", "intent", "skip", "complete", "fail", "requeue"}
AllKinds == Op \cup {"expire"}

ASSUME TaskServerAssumption ==
  /\ OutPaths \in [Tasks -> SUBSET Paths]
  /\ DirOf \in [Paths -> Dirs]
  /\ Scope \in [Workers -> SUBSET Tasks]
  /\ Kinds \subseteq AllKinds
  /\ NoTask \notin Tasks

VARIABLES
  row,     \* the tasks table
  thread,  \* what each pool thread is doing
  issued,  \* the task whose upload_intent handed out a nonce
  staged,  \* <out_root>/.shrink_media_staging/<task>/<nonce>/blob
  blob,    \* <dir>/blob: a moved file that has not been renamed yet
  final,   \* the output files at their final paths
  audit    \* the tasks with an Attempt row that says ok = 1

vars == <<row, thread, issued, staged, blob, final, audit>>

(* The content of a file: the upload it came from, and its size. *)
File   == [nonce : Nonces, size : Sizes]
Absent == [nonce |-> NoNonce, size |-> NoSize]

FinalizeStep ==
  {"checkStaging", "checkFinal", "discard", "move", "rename", "verify"}

Thread == [pc      : {"idle", "commit", "probe"} \cup FinalizeStep,
           op      : Op \cup {"none"},
           task    : Tasks \cup {NoTask},
           worker  : Workers \cup {NoWorker},
           read    : Row,
           new     : Row,
           logs    : BOOLEAN]

Idle == [pc |-> "idle", op |-> "none", task |-> NoTask, worker |-> NoWorker,
         read |-> NewRow, new |-> NewRow, logs |-> FALSE]

TypeOK ==
  /\ row \in [Tasks -> Row]
  /\ thread \in [Threads -> Thread]
  /\ issued \in [Nonces -> Tasks \cup {NoTask}]
  /\ staged \in [Nonces -> File \cup {Absent}]
  /\ blob \in [Dirs -> File \cup {Absent}]
  /\ final \in [Paths -> File \cup {Absent}]
  /\ audit \subseteq Tasks

Init ==
  /\ row = [t \in Tasks |-> NewRow]
  /\ thread = [h \in Threads |-> Idle]
  /\ issued = [n \in Nonces |-> NoTask]
  /\ staged = [n \in Nonces |-> Absent]
  /\ blob = [d \in Dirs |-> Absent]
  /\ final = [p \in Paths |-> Absent]
  /\ audit = {}

files == <<staged, blob, final>>

----------------------------------------------------------------------------
(* Reading the row.  Thread h accepts a request of worker w for task t; it *)
(* has decided to write `new`; logs says whether an Attempt row with ok = 1  *)
(* goes with it (rows with ok = 0 are written too, and nothing reads them). *)

Accept(h, o, t, w, new, logs, pc) ==
  /\ thread[h].pc = "idle"
  /\ o \in Kinds
  /\ thread' = [thread EXCEPT ![h] =
                  [pc |-> pc, op |-> o, task |-> t, worker |-> w,
                   read |-> row[t], new |-> new, logs |-> logs]]
  /\ UNCHANGED <<row, issued, files, audit>>

(* "Task not leased by this worker" and "Task already finalized". *)
Holds(w, t) == row[t].worker = w /\ row[t].status # "finalized"

Lease(h, w, t) ==
  /\ t \in Scope[w]
  /\ Leasable(row[t])
  /\ Accept(h, "lease", t, w, LeaseRow(row[t], w), FALSE, "commit")

Heartbeat(h, w, t) ==
  /\ Holds(w, t)
  /\ Accept(h, "heartbeat", t, w, RenewRow(row[t]), FALSE, "commit")

(* secrets.token_hex never repeats: no upload and no other request in      *)
(* flight has this nonce.                                                  *)
Unused(n) == issued[n] = NoTask /\ \A h \in Threads : thread[h].new.staging # n

UploadIntent(h, w, t, n, p, a, s) ==
  /\ Holds(w, t)
  /\ Unused(n)
  /\ p \in OutPaths[t]
  /\ Accept(h, "intent", t, w, IntentRow(row[t], n, p, a, s), FALSE, "commit")

CompleteSkip(h, w, t, s) ==
  /\ Holds(w, t)
  /\ Accept(h, "skip", t, w, SkipRow(row[t], s), TRUE, "commit")

HasOutput(r) == /\ r.staging # NoNonce
                /\ r.final # NoPath
                /\ r.action \in OutputAction
                /\ r.size # NoSize

(* The request must name the staging path, action and size of the row, so  *)
(* there is exactly one that is accepted, and only after an upload_intent. *)
Complete(h, w, t) ==
  /\ Holds(w, t)
  /\ HasOutput(row[t])
  /\ Accept(h, "complete", t, w, row[t], FALSE, "probe")

(* A queued or dead-lettered task is answered from the row alone. *)
Fail(h, w, t, retryable) ==
  /\ Holds(w, t)
  /\ row[t].status \notin {"queued", "deadletter"}
  /\ Accept(h, "fail", t, w, FailRow(row[t], retryable), FALSE, "commit")

(* The two requeue endpoints of the operator; a bulk requeue is modelled   *)
(* one row at a time (its limit is 1).                                     *)
Requeue(h, t, reset) ==
  /\ row[t].status # "finalized"
  /\ Accept(h, "requeue", t, NoWorker, RequeueRow(row[t], reset), FALSE,
            "commit")

----------------------------------------------------------------------------
(* /complete between its read and its commit: OpenList calls.              *)

At(h, pc) == thread[h].pc = pc

Goto(h, pc) == thread' = [thread EXCEPT ![h].pc = pc]

(* The output is in place; with an Attempt row to write or without. *)
Succeed(h, logs) ==
  LET done == DoneRow(thread[h].new) IN
  thread' = [thread EXCEPT ![h] =
               [thread[h] EXCEPT !.pc = "commit", !.logs = logs, !.new = done]]

(* finalize returned an error, or an exception it has caught. *)
Reject(h) ==
  LET failed == FailedRow(thread[h].new) IN
  thread' = [thread EXCEPT ![h] =
               [thread[h] EXCEPT !.pc = "commit", !.new = failed]]

FinalOf(h)   == final[thread[h].new.final]
StagedOf(h)  == staged[thread[h].new.staging]
FolderOf(h)  == DirOf[thread[h].new.final]
HasSize(f, h) == f # Absent /\ f.size = thread[h].new.size

(* The idempotency check of the handler itself: an output of the right     *)
(* size is already there.  No Attempt row is written on this path.         *)
Probe(h) ==
  /\ At(h, "probe")
  /\ IF HasSize(FinalOf(h), h) THEN Succeed(h, FALSE)
                               ELSE Goto(h, "checkStaging")
  /\ UNCHANGED <<row, issued, files, audit>>

CheckStaging(h) ==
  /\ At(h, "checkStaging")
  /\ IF HasSize(StagedOf(h), h) THEN Goto(h, "checkFinal") ELSE Reject(h)
  /\ UNCHANGED <<row, issued, files, audit>>

(* Defect: an existing final file is not compared with the upload. *)
CheckFinalAnySize(h) ==
  /\ At(h, "checkFinal")
  /\ Goto(h, IF FinalOf(h) = Absent THEN "move" ELSE "discard")
  /\ UNCHANGED <<row, issued, files, audit>>

CheckFinal(h) ==
  /\ At(h, "checkFinal")
  /\ \/ FinalOf(h) = Absent /\ Goto(h, "move")
     \/ HasSize(FinalOf(h), h) /\ Goto(h, "discard")
     \/ FinalOf(h) # Absent /\ ~HasSize(FinalOf(h), h) /\ Reject(h)
  /\ UNCHANGED <<row, issued, files, audit>>

(* The client swallows an error of remove: the file may stay. *)
Discard(h) ==
  /\ At(h, "discard")
  /\ Succeed(h, TRUE)
  /\ \/ staged' = [staged EXCEPT ![thread[h].new.staging] = Absent]
     \/ UNCHANGED staged
  /\ UNCHANGED <<row, issued, blob, final, audit>>

(* Defect: the move overwrites what another request has moved. *)
CanMoveOver(h) == StagedOf(h) # Absent

(* OpenList refuses to move or rename onto an existing file.  The answer   *)
(* of a call that took effect may be lost: the client retries it, and the  *)
(* retry fails.                                                            *)
CanMove(h) == StagedOf(h) # Absent /\ blob[FolderOf(h)] = Absent

Move(h) ==
  /\ At(h, "move")
  /\ \/ /\ CanMove(h)
        /\ blob' = [blob EXCEPT ![FolderOf(h)] = StagedOf(h)]
        /\ staged' = [staged EXCEPT ![thread[h].new.staging] = Absent]
        /\ Goto(h, "rename") \/ Reject(h)
     \/ ~CanMove(h) /\ Reject(h) /\ UNCHANGED <<staged, blob>>
  /\ UNCHANGED <<row, issued, final, audit>>

(* Defect: the rename overwrites an existing output. *)
CanRenameOver(h) == blob[FolderOf(h)] # Absent

CanRename(h) == blob[FolderOf(h)] # Absent /\ FinalOf(h) = Absent

Rename(h) ==
  /\ At(h, "rename")
  /\ \/ /\ CanRename(h)
        /\ final' = [final EXCEPT ![thread[h].new.final] = blob[FolderOf(h)]]
        /\ blob' = [blob EXCEPT ![FolderOf(h)] = Absent]
        /\ Goto(h, "verify") \/ Reject(h)
     \/ ~CanRename(h) /\ Reject(h) /\ UNCHANGED <<blob, final>>
  /\ UNCHANGED <<row, issued, staged, audit>>

(* Defect: the file is not measured again after the rename. *)
VerifyExists(h) ==
  /\ At(h, "verify")
  /\ IF FinalOf(h) # Absent THEN Succeed(h, TRUE) ELSE Reject(h)
  /\ UNCHANGED <<row, issued, files, audit>>

Verify(h) ==
  /\ At(h, "verify")
  /\ IF HasSize(FinalOf(h), h) THEN Succeed(h, TRUE) ELSE Reject(h)
  /\ UNCHANGED <<row, issued, files, audit>>

(* An OpenList call fails without taking effect: inside finalize this is   *)
(* caught, in the probe it makes the request answer 500.                   *)
CallFails(h) ==
  /\ \/ thread[h].pc \in FinalizeStep \ {"discard"} /\ Reject(h)
     \/ At(h, "probe") /\ thread' = [thread EXCEPT ![h] = Idle]
  /\ UNCHANGED <<row, issued, files, audit>>

----------------------------------------------------------------------------
(* session.commit(): the changed columns and the Attempt row, atomically.  *)

Renews(h) == thread[h].op \in {"lease", "heartbeat"}

Commit(h) ==
  LET t == thread[h].task IN
  /\ At(h, "commit")
  /\ row' = [row EXCEPT ![t] = Flush(@, thread[h].read, thread[h].new,
                                     Renews(h))]
  /\ audit' = IF thread[h].logs THEN audit \cup {t} ELSE audit
  /\ issued' = IF thread[h].op = "intent"
               THEN [issued EXCEPT ![thread[h].new.staging] = t] ELSE issued
  /\ thread' = [thread EXCEPT ![h] = Idle]
  /\ UNCHANGED files

----------------------------------------------------------------------------
(* The environment.                                                        *)

(* Whoever got the upload URL writes the staging file: a direct upload, of *)
(* any size and possibly late or repeated, or the end of an upload_proxy.  *)
Upload(n, s) ==
  /\ issued[n] # NoTask
  /\ staged' = [staged EXCEPT ![n] = [nonce |-> n, size |-> s]]
  /\ UNCHANGED <<row, thread, issued, blob, final, audit>>

(* Ten minutes pass without a heartbeat. *)
Expire(t) ==
  /\ "expire" \in Kinds
  /\ row[t].expiry = "live"
  /\ row' = [row EXCEPT ![t].expiry = "expired"]
  /\ UNCHANGED <<thread, issued, files, audit>>

(* Defect: the start-up requeue does not look at the status. *)
RestartRequeuesAny(S, reset) ==
  /\ thread' = [h \in Threads |-> Idle]
  /\ row' = [t \in Tasks |-> IF t \in S THEN RequeueRow(row[t], reset)
                                        ELSE row[t]]
  /\ UNCHANGED <<issued, files, audit>>

(* The process dies and starts again: requests in flight are gone, the     *)
(* database and OpenList are not.  With --requeue-failed-on-startup some   *)
(* failed and dead-lettered tasks are queued before requests are served.   *)
Restart(S, reset) ==
  /\ \A t \in S : row[t].status \in {"failed", "deadletter"}
  /\ thread' = [h \in Threads |-> Idle]
  /\ row' = [t \in Tasks |-> IF t \in S THEN RequeueRow(row[t], reset)
                                        ELSE row[t]]
  /\ UNCHANGED <<issued, files, audit>>

----------------------------------------------------------------------------
Read(h) ==
  \/ \E w \in Workers, t \in Tasks :
       \/ Lease(h, w, t)
       \/ Heartbeat(h, w, t)
       \/ \E n \in Nonces, p \in Paths, a \in OutputAction, s \in Sizes :
            UploadIntent(h, w, t, n, p, a, s)
       \/ \E s \in Sizes : CompleteSkip(h, w, t, s)
       \/ Complete(h, w, t)
       \/ \E retryable \in BOOLEAN : Fail(h, w, t, retryable)
  \/ \E t \in Tasks, reset \in BOOLEAN : Requeue(h, t, reset)

FinalizeNext(h) ==
  \/ Probe(h) \/ CheckStaging(h) \/ CheckFinal(h) \/ Discard(h)
  \/ Move(h) \/ Rename(h) \/ Verify(h) \/ CallFails(h)

Environment ==
  \/ \E n \in Nonces, s \in Sizes : Upload(n, s)
  \/ \E t \in Tasks : Expire(t)
  \/ \E S \in SUBSET Tasks, reset \in BOOLEAN : Restart(S, reset)

Next ==
  \/ \E h \in Threads : Read(h) \/ FinalizeNext(h) \/ Commit(h)
  \/ Environment

Spec == Init /\ [][Next]_vars
----------------------------------------------------------------------------
(* Properties of every interleaving.                                       *)

(* No task is attempted more often than max_attempts, and no request in    *)
(* flight is about to make it so.  The bound is checked when a lease is    *)
(* read and the counter written when it is committed, by a request that    *)
(* may have lost a race (lease_tasks, attempts += 1).                      *)
AttemptsBounded ==
  /\ \A t \in Tasks : row[t].attempts <= MaxAttempts
  /\ \A h \in Threads : thread[h].new.attempts <= MaxAttempts

(* When /complete is about to record success, a file of the registered     *)
(* size is at the final path of the row it has read, whatever uploads,     *)
(* other completes and lost answers happened since it looked               *)
(* (OpenListManager.finalize and the idempotency check of complete_task).  *)
CompleteVerified ==
  \A h \in Threads :
    thread[h].op = "complete" /\ thread[h].new.status = "finalized"
      => HasSize(FinalOf(h), h)

(* An output file was uploaded for a task that may write that path.  All   *)
(* tasks of a directory pass through the same <dir>/blob, so this fails if *)
(* a finalize ever renames the file another one has moved there            *)
(* (OpenListManager.finalize, move then rename).                           *)
OutputsOwned ==
  \A p \in Paths :
    final[p] # Absent => \E t \in Tasks : /\ issued[final[p].nonce] = t
                                          /\ p \in OutPaths[t]

----------------------------------------------------------------------------
(* Properties of requests that do not overlap (one thread).                *)

(* A finalized row that claims an output names a file that is there, of    *)
(* the size it claims; complete_task answers 500 otherwise.                *)
FinalizedBacked ==
  \A t \in Tasks :
    row[t].status = "finalized" /\ row[t].action # "skip"
      => /\ row[t].final # NoPath
         /\ final[row[t].final] # Absent
         /\ final[row[t].final].size = row[t].size

(* A successful attempt is in the audit log only for a task that is        *)
(* finalized: nothing takes a finalized task back (complete_task,          *)
(* fail_task, admin_requeue_task, --requeue-failed-on-startup).            *)
AuditAgrees ==
  \A t \in audit : row[t].status = "finalized"

(* Exactly the leased and the failed rows carry a lease.                   *)
LeaseColumns ==
  \A t \in Tasks :
    /\ row[t].worker # NoWorker <=> row[t].status \in {"leased", "failed"}
    /\ row[t].expiry # "none" <=> row[t].worker # NoWorker

(* The life cycle that each row then goes through. *)
Life(r) == CASE r.status = "queued" -> "waiting"
             [] r.status \in {"leased", "failed"} -> "held"
             [] r.status = "finalized" -> "done"
             [] r.status = "deadletter" -> "dead"

Lifecycle == INSTANCE TaskLifecycle WITH
  life <- [t \in Tasks |-> Life(row[t])],
  holder <- [t \in Tasks |-> row[t].worker],
  lapsed <- [t \in Tasks |-> row[t].expiry = "expired"],
  attempts <- [t \in Tasks |-> row[t].attempts]

(* Served one at a time, the requests implement the atomic life cycle:     *)
(* grants only of waiting or lapsed tasks with attempts left, done is      *)
(* final, and so on for every handler.                                     *)
ImplementsLifecycle == Lifecycle!Spec
============================================================================
