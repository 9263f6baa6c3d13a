------------------------------ MODULE CopyScan ------------------------------
(***************************************************************************)
(* Scan runs of the server (shrink_media_server/scanner.py): a run lists   *)
(* the input tree, inserts a row for every source version it has not seen, *)
(* and then executes the tasks of the routes in copy mode itself, in       *)
(* batches: it selects rows, calls OpenList for each of them with no       *)
(* transaction open, reads the rows again and commits all results at once. *)
(*                                                                         *)
(* The periodic thread of the server does such runs, and `--scan-once` is  *)
(* another process that does the same over the same database.  Nothing     *)
(* keeps two runs apart.  The administrator may requeue a row at any time. *)
(*                                                                         *)
(* OpenList copies asynchronously: a call that succeeds has submitted a    *)
(* job, whose file appears later, or never.                                *)
(***************************************************************************)
EXTENDS TaskRow, FiniteSets

CONSTANTS Scanners,    \* processes that do scan runs
          Server,      \* the one whose thread does them periodically
          Sources,     \* files of the input tree
          SrcOf,       \* the source file a task is a version of
          PathOf,      \* final_path: out_root / src_rel
          SizeOf,      \* src_size
          NoTask,
          Batch,       \* copy_batch_size
          Leases,      \* the sets of tasks that may still be leased because
                       \* their route was a compress route before a restart
          MaxEvents    \* bound: runs of --scan-once, runs that fail or are
                       \* killed, requeue requests and changes of source
                       \* files, together

ASSUME CopyScanAssumption ==
  /\ Server \in Scanners
  /\ IsFiniteSet(Scanners)
  /\ IsFiniteSet(Tasks)
  /\ SrcOf \in [Tasks -> Sources]
  /\ PathOf \in [Tasks -> Paths]
  /\ SizeOf \in [Tasks -> Sizes]
  /\ NoTask \notin Tasks
  /\ Workers # {}
  /\ "copy" \in OutputAction
  /\ MaxAttempts # 0   \* 3, never assigned
  /\ Batch \in Nat \ {0}
  /\ Leases \subseteq SUBSET Tasks
  /\ MaxEvents \in Nat

VARIABLES
  row,      \* the tasks table
  stored,   \* the tasks that have a row
  source,   \* the version a source file has now, NoTask when it is gone
  dst,      \* the size of the file at a final path
  jobs,     \* copies OpenList has accepted and not finished
  evidence, \* history: tasks for whose path a copy was accepted, or where a
            \* file of their size was seen
  run,      \* what each scanner is doing
  old,      \* rows whose updated_at is not later than the run's start
  request,  \* the requeue request being served
  count     \* history: bounded events so far

vars == <<row, stored, source, dst, jobs, evidence, run, old, request, count>>

Outcome == {"ok", "conflict", "missing", "error"}

Run == [pc   : {"idle", "list", "select", "work", "copy", "recheck", "commit",
                "gone"},
        left : SUBSET Sources,            \* entries still to be listed
        todo : SUBSET Tasks,              \* rows of the batch still to do
        late : SUBSET Tasks,              \* of those, selected as leased
        cur  : Tasks \cup {NoTask},       \* the row being copied
        res  : [Tasks -> Outcome \cup {"none"}],
        read : [Tasks -> Row]]            \* the rows as read again

NoResult == [t \in Tasks |-> "none"]
NoRead   == [t \in Tasks |-> NewRow]

Idle == [pc |-> "idle", left |-> {}, todo |-> {}, late |-> {}, cur |-> NoTask,
         res |-> NoResult, read |-> NoRead]

(* The server's thread does a run again and again, --scan-once does one.    *)
Over(s) == IF s = Server THEN Idle ELSE [Idle EXCEPT !.pc = "gone"]

NoRequest == [task |-> NoTask, reset |-> FALSE, read |-> NewRow]

TypeOK ==
  /\ row \in [Tasks -> Row]
  /\ stored \subseteq Tasks
  /\ source \in [Sources -> Tasks \cup {NoTask}]
  /\ dst \in [Paths -> Sizes \cup {NoSize}]
  /\ jobs \subseteq Tasks
  /\ evidence \subseteq Tasks
  /\ run \in [Scanners -> Run]
  /\ old \in [Scanners -> SUBSET Tasks]
  /\ request \in [task : Tasks \cup {NoTask}, reset : BOOLEAN, read : Row]
  /\ count \in [onces : Nat, aborts : Nat, requeues : Nat, changes : Nat]

(* A path that a file or a copy in progress occupies. *)
Busy(p) == dst[p] # NoSize \/ \E u \in jobs : PathOf[u] = p

Shown(d, j) == {t \in Tasks : \/ d[PathOf[t]] = SizeOf[t]
                              \/ \E u \in j : PathOf[u] = PathOf[t]}

LeasedRow == [NewRow EXCEPT !.status = "leased", !.attempts = 1,
                            !.worker = CHOOSE w \in Workers : TRUE,
                            !.expiry = "live"]

Init ==
  /\ \E l \in Leases :
       /\ stored = l
       /\ row = [t \in Tasks |-> IF t \in l THEN LeasedRow ELSE NewRow]
  /\ source \in [Sources -> Tasks \cup {NoTask}]
  /\ \A f \in Sources : source[f] # NoTask => SrcOf[source[f]] = f
  /\ dst = [p \in Paths |-> NoSize]
  /\ jobs = {}
  /\ evidence = {}
  /\ run = [s \in Scanners |-> Idle]
  /\ old = [s \in Scanners |-> {}]
  /\ request = NoRequest
  /\ count = [onces |-> 0, aborts |-> 0, requeues |-> 0, changes |-> 0]

Bounded ==
  count.onces + count.aborts + count.requeues + count.changes < MaxEvents

table == <<row, stored>>
store == <<dst, jobs, evidence>>

----------------------------------------------------------------------------
(* scan_route: every entry of the listing, one insert and one commit each. *)

Begin(s) ==
  /\ run[s].pc = "idle"
  /\ run' = [run EXCEPT ![s] = [Idle EXCEPT !.pc = "list", !.left = Sources]]
  /\ IF s = Server THEN UNCHANGED count
     ELSE Bounded /\ count' = [count EXCEPT !.onces = @ + 1]
  /\ UNCHANGED <<table, source, store, old, request>>

(* A version that has a row already violates uq_task_srcver and is skipped. *)
List(s, f) ==
  /\ run[s].pc = "list"
  /\ f \in run[s].left
  /\ run' = [run EXCEPT ![s].left = @ \ {f}]
  /\ LET t == source[f] IN
       IF t = NoTask \/ t \in stored THEN UNCHANGED table
       ELSE /\ stored' = stored \cup {t}
            /\ row' = [row EXCEPT ![t] = NewRow]
  /\ UNCHANGED <<source, store, old, request, count>>

(* process_copy_tasks begins: run_started_at. *)
StartCopying(s) ==
  /\ run[s].pc = "list"
  /\ run[s].left = {}
  /\ run' = [run EXCEPT ![s].pc = "select"]
  /\ old' = [old EXCEPT ![s] = stored]
  /\ UNCHANGED <<table, source, store, request, count>>

----------------------------------------------------------------------------
(* One batch. *)

(* Defect: a row that has used up its attempts is taken again. *)
DueWithoutLimit(r) ==
  \/ r.status \in {"queued", "failed"}
  \/ r.status = "leased" /\ r.expiry = "expired"

Due(r) ==
  /\ \/ r.status \in {"queued", "failed"}
     \/ r.status = "leased" /\ r.expiry = "expired"
  /\ r.attempts < MaxAttempts

(* The rows with the oldest updated_at first: which ones is left open. *)
Select(s) ==
  /\ run[s].pc = "select"
  /\ LET due == {t \in stored \cap old[s] : Due(row[t])} IN
       \/ due = {} /\ run' = [run EXCEPT ![s] = Over(s)]
       \/ \E b \in SUBSET due :
            /\ b # {}
            /\ Cardinality(b) = Batch \/ (b = due /\ Cardinality(b) < Batch)
            /\ run' = [run EXCEPT ![s].pc = "work", ![s].todo = b,
                          ![s].late = {t \in b : row[t].status = "leased"}]
  /\ UNCHANGED <<table, source, store, old, request, count>>

(* A call fails: "missing" is FileNotFoundError, or any error that says    *)
(* "not found", whatever it was that OpenList did not find.                *)
Failure == {"error", "missing"}

(* The row is done with; its result waits for the end of the batch. *)
Record(s, t, o) ==
  run' = [run EXCEPT ![s].pc = "work", ![s].cur = NoTask,
                     ![s].todo = @ \ {t}, ![s].res[t] = o]

(* What a look at the final path says. *)
Judge(t) == IF dst[PathOf[t]] = SizeOf[t] THEN "ok" ELSE "conflict"

(* scanner.py:83 compares lease_expires_at, which the database returns     *)
(* without a time zone, with a time that has one: TypeError.  It ends the  *)
(* run and drops the results the batch had so far.                         *)
CompareFails(s, t) ==
  /\ run[s].pc = "work"
  /\ t \in run[s].todo
  /\ t \in run[s].late
  /\ run' = [run EXCEPT ![s] = Over(s)]
  /\ UNCHANGED <<table, source, store, old, request, count>>

Probe(s, t) ==
  /\ run[s].pc = "work"
  /\ t \in run[s].todo \ run[s].late
  /\ \/ dst[PathOf[t]] # NoSize /\ Record(s, t, Judge(t))
     \/ \E o \in Failure : Record(s, t, o)
     \/ /\ dst[PathOf[t]] = NoSize
        /\ run' = [run EXCEPT ![s].pc = "copy", ![s].cur = t]
  /\ UNCHANGED <<table, source, store, old, request, count>>

(* OpenList takes the job, or does not. *)
Submit(t) ==
  /\ source[SrcOf[t]] # NoTask
  /\ jobs' = jobs \cup {t}
  /\ evidence' = evidence \cup Shown(dst, jobs \cup {t})
  /\ UNCHANGED dst

(* Defect: a call that fails is taken for one whose answer was lost. *)
CopyErrorIsOk(s) ==
  /\ run[s].pc = "copy"
  /\ LET t == run[s].cur IN
       \/ Submit(t) /\ Record(s, t, "ok")
       \/ UNCHANGED store /\ Record(s, t, "ok")
  /\ UNCHANGED <<table, source, old, request, count>>

(* The client repeats a call whose answer was lost, so a call can submit a *)
(* job and still end with FileExistsError or another error.                *)
Copy(s) ==
  /\ run[s].pc = "copy"
  /\ LET t == run[s].cur IN
       \/ Submit(t) /\ Record(s, t, "ok")
       \/ /\ Submit(t) \/ (Busy(PathOf[t]) /\ UNCHANGED store)
          /\ run' = [run EXCEPT ![s].pc = "recheck"]
       \/ /\ Submit(t) \/ UNCHANGED store
          /\ \E o \in Failure : Record(s, t, o)
  /\ UNCHANGED <<table, source, old, request, count>>

(* After FileExistsError.  Nothing to be seen at the path counts as done.  *)
Recheck(s) ==
  /\ run[s].pc = "recheck"
  /\ LET t == run[s].cur IN
       \/ dst[PathOf[t]] # NoSize /\ Record(s, t, Judge(t))
       \/ dst[PathOf[t]] = NoSize /\ Record(s, t, "ok")
       \/ \E o \in Failure : Record(s, t, o)
  /\ UNCHANGED <<table, source, store, old, request, count>>

Reread(s) ==
  /\ run[s].pc = "work"
  /\ run[s].todo = {}
  /\ run' = [run EXCEPT ![s].pc = "commit", ![s].late = {},
       ![s].read = [t \in Tasks |-> IF run[s].res[t] = "none" THEN NewRow
                                    ELSE row[t]]]
  /\ UNCHANGED <<table, source, store, old, request, count>>

(* Defect: an error does not count as an attempt. *)
CopyRowFreeRetry(r, t, o) ==
  [DropLease(r) EXCEPT
     !.attempts = IF o = "error" THEN @ ELSE @ + 1,
     !.staging = NoNonce, !.final = PathOf[t], !.action = "copy",
     !.status = CASE o = "ok" -> "finalized"
                  [] o = "error" /\ r.attempts + 1 < MaxAttempts -> "queued"
                  [] OTHER -> "deadletter",
     !.size = IF o = "ok" THEN SizeOf[t] ELSE NoSize]

(* Defect: the columns of a finalized row are left to whoever is last. *)
CopyRowClears(r, t, o) ==
  [DropLease(r) EXCEPT
     !.attempts = @ + 1, !.staging = NoNonce, !.action = "copy",
     !.final = IF o = "ok" THEN PathOf[t] ELSE NoPath,
     !.status = CASE o = "ok" -> "finalized"
                  [] o = "error" /\ r.attempts + 1 < MaxAttempts -> r.status
                  [] OTHER -> "deadletter",
     !.size = IF o = "ok" THEN SizeOf[t] ELSE NoSize]

(* Defect: a status of its own for copied files. *)
CopyRowCopied(r, t, o) ==
  [DropLease(r) EXCEPT
     !.attempts = @ + 1, !.staging = NoNonce, !.final = PathOf[t],
     !.action = "copy", !.status = IF o = "ok" THEN "copied" ELSE "deadletter",
     !.size = IF o = "ok" THEN SizeOf[t] ELSE NoSize]

CopyRow(r, t, o) ==
  [DropLease(r) EXCEPT
     !.attempts = @ + 1, !.staging = NoNonce, !.final = PathOf[t],
     !.action = "copy",
     !.status = CASE o = "ok" -> "finalized"
                  [] o = "error" /\ r.attempts + 1 < MaxAttempts -> "queued"
                  [] OTHER -> "deadletter",
     !.size = IF o = "ok" THEN SizeOf[t] ELSE NoSize]

(* A write sets updated_at to a time taken before the commit: later than   *)
(* the start of the writer's run, perhaps earlier than that of another.    *)
Touch(ts, own) ==
  \E missed \in SUBSET (Scanners \ own) :
    old' = [s \in Scanners |-> IF s \in missed THEN old[s] ELSE old[s] \ ts]

Commit(s) ==
  /\ run[s].pc = "commit"
  /\ LET r    == run[s]
         done == {t \in Tasks : r.res[t] # "none"}
     IN /\ row' = [t \in Tasks |->
                     IF t \in done
                     THEN Flush(row[t], r.read[t],
                                CopyRow(r.read[t], t, r.res[t]), FALSE)
                     ELSE row[t]]
        /\ Touch(done, {s})
  /\ run' = [run EXCEPT ![s] = [Idle EXCEPT !.pc = "select"]]
  /\ UNCHANGED <<stored, source, store, request, count>>

(* An exception other than those of a single copy (the listing, the        *)
(* database), or the end of the process: what is not committed is lost.    *)
Abort(s) ==
  /\ run[s].pc \notin {"idle", "gone"}
  /\ Bounded
  /\ run' = [run EXCEPT ![s] = Over(s)]
  /\ count' = [count EXCEPT !.aborts = @ + 1]
  /\ UNCHANGED <<table, source, store, old, request>>

----------------------------------------------------------------------------
(* What happens around the scans. *)

(* POST /v1/admin/tasks/{id}/requeue *)
RequeueRead(t, reset) ==
  /\ request = NoRequest
  /\ Bounded
  /\ t \in stored
  /\ row[t].status # "finalized"
  /\ request' = [task |-> t, reset |-> reset, read |-> row[t]]
  /\ count' = [count EXCEPT !.requeues = @ + 1]
  /\ UNCHANGED <<table, source, store, run, old>>

RequeueCommit ==
  /\ request # NoRequest
  /\ LET t == request.task IN
       /\ row' = [row EXCEPT ![t] =
                    Flush(@, request.read,
                          RequeueRow(request.read, request.reset), FALSE)]
       /\ Touch({t}, {})
  /\ request' = NoRequest
  /\ UNCHANGED <<stored, source, store, run, count>>

Expire(t) ==
  /\ row[t].expiry = "live"
  /\ row' = [row EXCEPT ![t].expiry = "expired"]
  /\ UNCHANGED <<stored, source, store, run, old, request, count>>

(* The user replaces or removes a source file. *)
Change(f, t) ==
  /\ Bounded
  /\ t # source[f]
  /\ t # NoTask => SrcOf[t] = f
  /\ source' = [source EXCEPT ![f] = t]
  /\ count' = [count EXCEPT !.changes = @ + 1]
  /\ UNCHANGED <<table, store, run, old, request>>

(* OpenList finishes a job: the file, as it is then, is at its path, unless *)
(* the job fails.                                                          *)
Land(t) ==
  /\ t \in jobs
  /\ jobs' = jobs \ {t}
  /\ LET v == source[SrcOf[t]] IN
       dst' \in {dst} \cup
                (IF v = NoTask THEN {}
                 ELSE {[dst EXCEPT ![PathOf[t]] = SizeOf[v]]})
  /\ evidence' = evidence \cup Shown(dst', jobs')
  /\ UNCHANGED <<table, source, run, old, request, count>>

----------------------------------------------------------------------------
Step(s) ==
  \/ Begin(s) \/ StartCopying(s) \/ Select(s)
  \/ \E f \in Sources : List(s, f)
  \/ \E t \in Tasks : CompareFails(s, t) \/ Probe(s, t)
  \/ Copy(s) \/ Recheck(s) \/ Reread(s) \/ Commit(s)

Next ==
  \/ \E s \in Scanners : Step(s) \/ Abort(s)
  \/ \E t \in Tasks, reset \in BOOLEAN : RequeueRead(t, reset)
  \/ RequeueCommit
  \/ \E t \in Tasks : Expire(t) \/ Land(t)
  \/ \E f \in Sources, t \in Tasks \cup {NoTask} : Change(f, t)

Spec == Init /\ [][Next]_vars

(* The periodic thread keeps running: after a run, however it ended, it    *)
(* starts the next one (api.py:288-378).                                   *)
FairSpec == Spec /\ WF_vars(Step(Server))

----------------------------------------------------------------------------
(* A finalized row rests on something OpenList said: it accepted a copy to *)
(* the final path, or showed a file of the task's size there.  An aborted  *)
(* run, an error whose call took effect or a second scanner does not       *)
(* finalize a row for which nothing was done.                              *)
FinalizedBacked == \A t \in Tasks : row[t].status = "finalized" => t \in evidence

(* Two runs can select the same row before either counts its attempt, so   *)
(* max_attempts may be exceeded, by at most one for every run of           *)
(* --scan-once, as long as the administrator requeues nothing; the         *)
(* server's thread alone never exceeds it, whatever is requeued.           *)
AttemptsBounded ==
  count.onces = 0 \/ count.requeues = 0 =>
    \A t \in Tasks : row[t].attempts <= MaxAttempts + count.onces

(* Two runs that finish the same row write it column by column over each   *)
(* other.  Whatever they found, a row that ends finalized has the path,    *)
(* the action and the size of a copy, and no lease, as long as nobody has  *)
(* requeued a row and one run of --scan-once is done beside the server's.  *)
(* A requeue between the second read and the commit leaves columns out, as *)
(* do three runs beside the server's: one that read "deadletter" and the   *)
(* size of an earlier success writes "finalized" only, after another that  *)
(* read "finalized" and the same size has removed the size.                *)
FinalizedWhole ==
  \A t \in Tasks :
    row[t].status = "finalized" /\ count.requeues = 0 /\ count.onces <= 1 =>
      row[t] = [NewRow EXCEPT !.status = "finalized", !.final = PathOf[t],
                              !.action = "copy", !.size = SizeOf[t],
                              !.attempts = row[t].attempts]

(* A row with attempts left does not wait for ever, although runs fail,    *)
(* OpenList answers with errors and another scanner takes its rows.  A     *)
(* lease left over from a compress route is the exception (see CopiedAll). *)
Waiting(t) == t \in stored /\ Due(row[t])
NoLease == \A u \in Tasks : row[u].status # "leased"
Progress == \A t \in Tasks : (Waiting(t) /\ NoLease) ~> ~Waiting(t)

(* README.md:63 says of a copy route that the server copies its files.     *)
CopiedAll == \A t \in Tasks : Waiting(t) ~> ~Waiting(t)
=============================================================================
