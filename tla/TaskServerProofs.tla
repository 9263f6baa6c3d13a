-------------------------- MODULE TaskServerProofs --------------------------
(***************************************************************************)
(* Safety of the task API for any number of tasks, workers, threads,       *)
(* nonces, paths and sizes, proved of Spec.                                *)
(***************************************************************************)
EXTENDS TaskServerInv, TLAPS

----------------------------------------------------------------------------
(* Rows: what is assigned stays inside the columns' types.                 *)

LEMMA NewRowType == NewRow \in Row
BY DEF NewRow, Row, Status, Expiry

LEMMA UpdateType ==
  ASSUME NEW r \in Row
  PROVE  /\ ForgetOutput(r) \in Row
         /\ DropLease(r) \in Row
         /\ \A st \in Status : [r EXCEPT !.status = st] \in Row
<1>1. ForgetOutput(r) \in Row
  BY DEF ForgetOutput, Row
<1>2. DropLease(r) \in Row
  BY DEF DropLease, Row, Expiry
<1>3. \A st \in Status : [r EXCEPT !.status = st] \in Row
  BY DEF Row
<1>4. QED
  BY <1>1, <1>2, <1>3

LEMMA LeaseRowType ==
  ASSUME NEW r \in Row, NEW w \in Workers
  PROVE  LeaseRow(r, w) \in Row
<1>1. PICK f \in Row : f = ForgetOutput(r)
  BY UpdateType
<1>2. f.attempts + 1 \in Nat
  BY DEF Row
<1>3. [f EXCEPT !.status = "leased", !.worker = w, !.expiry = "live",
                !.attempts = f.attempts + 1] \in Row
  <2>1. PICK g \in Row : g = [f EXCEPT !.worker = w, !.expiry = "live"]
    BY ZenonT(30) DEF Row, Expiry
  <2>2. [g EXCEPT !.status = "leased", !.attempts = f.attempts + 1] \in Row
    BY <1>2, ZenonT(30) DEF Row, Status
  <2>3. QED
    BY <2>1, <2>2
<1>4. QED
  BY <1>1, <1>3 DEF LeaseRow

LEMMA RenewRowType ==
  ASSUME NEW r \in Row
  PROVE  RenewRow(r) \in Row
BY DEF RenewRow, Row, Expiry

LEMMA IntentRowType ==
  ASSUME NEW r \in Row, NEW n \in Nonces, NEW p \in Paths,
         NEW a \in OutputAction, NEW s \in Sizes
  PROVE  IntentRow(r, n, p, a, s) \in Row
BY DEF IntentRow, Row

LEMMA SkipRowType ==
  ASSUME NEW r \in Row, NEW s \in Sizes
  PROVE  SkipRow(r, s) \in Row
<1>1. PICK d \in Row : d = DropLease(ForgetOutput(r))
  BY UpdateType
<1>2. [d EXCEPT !.status = "finalized", !.action = "skip", !.size = s] \in Row
  BY DEF Row, Status
<1>3. QED
  BY <1>1, <1>2 DEF SkipRow

LEMMA DoneRowType ==
  ASSUME NEW r \in Row
  PROVE  DoneRow(r) \in Row
BY UpdateType DEF DoneRow, Status

LEMMA FailedRowType ==
  ASSUME NEW r \in Row
  PROVE  FailedRow(r) \in Row
BY DEF FailedRow, Row, Status

LEMMA FailRowType ==
  ASSUME NEW r \in Row, NEW b \in BOOLEAN
  PROVE  FailRow(r, b) \in Row
<1>1. PICK d \in Row : d = DropLease(ForgetOutput(r))
  BY UpdateType
<1>2. QED
  BY <1>1, UpdateType DEF FailRow, Status

LEMMA RequeueRowType ==
  ASSUME NEW r \in Row, NEW b \in BOOLEAN
  PROVE  RequeueRow(r, b) \in Row
<1>1. PICK d \in Row : d = DropLease(ForgetOutput(r))
  BY UpdateType
<1>2. \A k \in Nat : [d EXCEPT !.status = "queued", !.attempts = k] \in Row
  BY DEF Row, Status
<1>3. RequeueRow(r, b)
        = [d EXCEPT !.status = "queued", !.attempts = IF b THEN 0 ELSE d.attempts]
  BY <1>1 DEF RequeueRow
<1>4. (IF b THEN 0 ELSE d.attempts) \in Nat
  BY DEF Row
<1>5. QED
  BY <1>2, <1>3, <1>4

LEMMA FlushType ==
  ASSUME NEW db \in Row, NEW r \in Row, NEW new \in Row, NEW b \in BOOLEAN
  PROVE  Flush(db, r, new, b) \in Row
BY DEF Flush, Changed, Row

----------------------------------------------------------------------------
(* One request reads its row. *)
LEMMA AcceptType ==
  ASSUME TypeOK, NEW h \in Threads, NEW o \in Op, NEW t \in Tasks,
         NEW w \in Workers \cup {NoWorker}, NEW new \in Row,
         NEW logs \in BOOLEAN, NEW pc \in {"commit", "probe"},
         Accept(h, o, t, w, new, logs, pc)
  PROVE  TypeOK'
<1>1. row[t] \in Row
  BY DEF TypeOK
<1>2. [pc |-> pc, op |-> o, task |-> t, worker |-> w,
       read |-> row[t], new |-> new, logs |-> logs] \in Thread
  BY <1>1 DEF Thread
<1>3. thread' \in [Threads -> Thread]
  BY <1>2 DEF TypeOK, Accept
<1>4. QED
  BY <1>3 DEF TypeOK, Accept, files

(* The type invariant of the server is kept by every request that is read. *)
LEMMA ReadType ==
  ASSUME TypeOK, NEW h \in Threads, Read(h)
  PROVE  TypeOK'
<1> USE DEF Op
<1>1. ASSUME NEW w \in Workers, NEW t \in Tasks, Lease(h, w, t)
      PROVE  TypeOK'
  BY <1>1, AcceptType, LeaseRowType DEF Lease, TypeOK
<1>2. ASSUME NEW w \in Workers, NEW t \in Tasks, Heartbeat(h, w, t)
      PROVE  TypeOK'
  BY <1>2, AcceptType, RenewRowType DEF Heartbeat, TypeOK
<1>3. ASSUME NEW w \in Workers, NEW t \in Tasks, NEW n \in Nonces,
             NEW p \in Paths, NEW a \in OutputAction, NEW s \in Sizes,
             UploadIntent(h, w, t, n, p, a, s)
      PROVE  TypeOK'
  BY <1>3, AcceptType, IntentRowType DEF UploadIntent, TypeOK
<1>4. ASSUME NEW w \in Workers, NEW t \in Tasks, NEW s \in Sizes,
             CompleteSkip(h, w, t, s)
      PROVE  TypeOK'
  BY <1>4, AcceptType, SkipRowType DEF CompleteSkip, TypeOK
<1>5. ASSUME NEW w \in Workers, NEW t \in Tasks, Complete(h, w, t)
      PROVE  TypeOK'
  BY <1>5, AcceptType DEF Complete, TypeOK
<1>6. ASSUME NEW w \in Workers, NEW t \in Tasks, NEW b \in BOOLEAN,
             Fail(h, w, t, b)
      PROVE  TypeOK'
  BY <1>6, AcceptType, FailRowType DEF Fail, TypeOK
<1>7. ASSUME NEW t \in Tasks, NEW b \in BOOLEAN, Requeue(h, t, b)
      PROVE  TypeOK'
  BY <1>7, AcceptType, RequeueRowType DEF Requeue, TypeOK
<1>8. QED
  BY <1>1, <1>2, <1>3, <1>4, <1>5, <1>6, <1>7 DEF Read

(* A thread that moves on without reading keeps its type. *)
LEMMA ThreadStepType ==
  ASSUME TypeOK, NEW h \in Threads, NEW pc \in {"commit"} \cup FinalizeStep,
         NEW logs \in BOOLEAN
  PROVE  /\ Goto(h, pc) => thread' \in [Threads -> Thread]
         /\ Succeed(h, logs) => thread' \in [Threads -> Thread]
         /\ Reject(h) => thread' \in [Threads -> Thread]
<1>1. thread[h] \in Thread /\ thread[h].new \in Row
  BY DEF TypeOK, Thread
<1>2. DoneRow(thread[h].new) \in Row /\ FailedRow(thread[h].new) \in Row
  BY <1>1, DoneRowType, FailedRowType
<1>3. Goto(h, pc) => thread' \in [Threads -> Thread]
  BY <1>1 DEF Goto, TypeOK, Thread, FinalizeStep
<1>4. Succeed(h, logs) => thread' \in [Threads -> Thread]
  <2> DEFINE th == [thread[h] EXCEPT !.pc = "commit", !.logs = logs,
                                     !.new = DoneRow(thread[h].new)]
  <2>1. th \in Thread
    BY <1>1, <1>2 DEF Thread
  <2>2. Succeed(h, logs) => thread' = [thread EXCEPT ![h] = th]
    BY DEF Succeed
  <2> HIDE DEF th
  <2>3. QED
    BY <2>1, <2>2 DEF TypeOK
<1>5. Reject(h) => thread' \in [Threads -> Thread]
  <2> DEFINE th == [thread[h] EXCEPT !.pc = "commit",
                                     !.new = FailedRow(thread[h].new)]
  <2>1. th \in Thread
    BY <1>1, <1>2 DEF Thread
  <2>2. Reject(h) => thread' = [thread EXCEPT ![h] = th]
    BY DEF Reject
  <2> HIDE DEF th
  <2>3. QED
    BY <2>1, <2>2 DEF TypeOK
<1>6. QED
  BY <1>3, <1>4, <1>5

LEMMA IdleType == Idle \in Thread
BY NewRowType DEF Idle, Thread

(* Where a finalizing thread points: never at a NULL column. *)
LEMMA FinalizingType ==
  ASSUME TypeOK, CompleteHasOutput, NEW h \in Threads,
         thread[h].pc \in FinalizeStep \cup {"probe"}
  PROVE  /\ thread[h].op = "complete"
         /\ thread[h].new.staging \in Nonces
         /\ thread[h].new.final \in Paths
         /\ thread[h].new.size \in Sizes
         /\ FolderOf(h) \in Dirs
<1>1. thread[h].new \in Row
  BY DEF TypeOK, Thread
<1>2. thread[h].op = "complete" /\ HasOutput(thread[h].new)
  BY DEF CompleteHasOutput
<1>3. QED
  BY <1>1, <1>2, TaskServerAssumption DEF HasOutput, Row, FolderOf

LEMMA FinalizeType ==
  ASSUME TypeOK, CompleteHasOutput, NEW h \in Threads, FinalizeNext(h)
  PROVE  TypeOK'
<1>1. /\ \A pc \in FinalizeStep : Goto(h, pc) => thread' \in [Threads -> Thread]
      /\ \A b \in BOOLEAN : Succeed(h, b) => thread' \in [Threads -> Thread]
      /\ Reject(h) => thread' \in [Threads -> Thread]
  BY ThreadStepType
<1>2. CASE Probe(h)
  BY <1>1, <1>2 DEF Probe, TypeOK, files, FinalizeStep
<1>3. CASE CheckStaging(h)
  BY <1>1, <1>3 DEF CheckStaging, TypeOK, files, FinalizeStep
<1>4. CASE CheckFinal(h)
  BY <1>1, <1>4 DEF CheckFinal, TypeOK, files, FinalizeStep
<1>5. CASE Discard(h)
  BY <1>1, <1>5 DEF Discard, TypeOK
<1>6. CASE Move(h)
  <2>1. thread' \in [Threads -> Thread]
    BY <1>1, <1>6 DEF Move, FinalizeStep
  <2>2. thread[h].new.staging \in Nonces
    BY <1>6, FinalizingType DEF Move, At, FinalizeStep
  <2>3. StagedOf(h) \in File \cup {Absent}
    BY <2>2 DEF TypeOK, StagedOf
  <2>4. QED
    BY <1>6, <2>1, <2>3 DEF Move, TypeOK
<1>7. CASE Rename(h)
  <2>1. thread' \in [Threads -> Thread]
    BY <1>1, <1>7 DEF Rename, FinalizeStep
  <2>2. FolderOf(h) \in Dirs
    BY <1>7, FinalizingType DEF Rename, At, FinalizeStep
  <2>3. QED
    BY <1>7, <2>1, <2>2 DEF Rename, TypeOK
<1>8. CASE Verify(h)
  BY <1>1, <1>8 DEF Verify, TypeOK, files
<1>9. CASE CallFails(h)
  BY <1>1, <1>9, IdleType DEF CallFails, TypeOK, files
<1>10. QED
  BY <1>2, <1>3, <1>4, <1>5, <1>6, <1>7, <1>8, <1>9 DEF FinalizeNext

LEMMA CommitType ==
  ASSUME TypeOK, CompleteHasOutput, NEW h \in Threads, Commit(h)
  PROVE  TypeOK'
<1>1. thread[h].task \in Tasks
  BY DEF CompleteHasOutput, Active, Commit, At
<1>2. thread[h].read \in Row /\ thread[h].new \in Row
  BY DEF TypeOK, Thread
<1>3. Flush(row[thread[h].task], thread[h].read, thread[h].new, Renews(h)) \in Row
  <2>1. row[thread[h].task] \in Row /\ Renews(h) \in BOOLEAN
    BY <1>1 DEF TypeOK, Renews
  <2>2. QED
    BY <1>2, <2>1, FlushType
<1>4. row' \in [Tasks -> Row]
  BY <1>1, <1>3 DEF Commit, TypeOK
<1>5. issued' \in [Nonces -> Tasks \cup {NoTask}]
  BY <1>1 DEF Commit, TypeOK
<1>6. audit' \subseteq Tasks
  BY <1>1 DEF Commit, TypeOK
<1>7. QED
  BY <1>4, <1>5, <1>6, IdleType DEF Commit, TypeOK, files

LEMMA EnvironmentType ==
  ASSUME TypeOK, Environment
  PROVE  TypeOK'
<1>1. ASSUME NEW n \in Nonces, NEW s \in Sizes, Upload(n, s)
      PROVE  TypeOK'
  BY <1>1 DEF Upload, TypeOK, File
<1>2. ASSUME NEW t \in Tasks, Expire(t)
      PROVE  TypeOK'
  <2>1. [row[t] EXCEPT !.expiry = "expired"] \in Row
    BY DEF TypeOK, Row, Expiry
  <2>2. row' \in [Tasks -> Row]
    BY <1>2, <2>1 DEF Expire, TypeOK
  <2>3. QED
    BY <1>2, <2>2 DEF Expire, TypeOK, files
<1>3. ASSUME NEW S \in SUBSET Tasks, NEW b \in BOOLEAN, Restart(S, b)
      PROVE  TypeOK'
  <2>1. \A t \in Tasks : RequeueRow(row[t], b) \in Row
    BY RequeueRowType DEF TypeOK
  <2>2. row' \in [Tasks -> Row]
    BY <1>3, <2>1 DEF Restart, TypeOK
  <2>3. thread' \in [Threads -> Thread]
    BY <1>3, IdleType DEF Restart
  <2>4. QED
    BY <1>3, <2>2, <2>3 DEF Restart, TypeOK, files
<1>4. QED
  BY <1>1, <1>2, <1>3 DEF Environment

LEMMA NextType ==
  ASSUME TypeOK, CompleteHasOutput, [Next]_vars
  PROVE  TypeOK'
<1>1. CASE UNCHANGED vars
  BY <1>1 DEF vars, TypeOK
<1>2. QED
  BY <1>1, ReadType, FinalizeType, CommitType, EnvironmentType DEF Next

----------------------------------------------------------------------------
(* Only /complete gets to OpenList.                                        *)

LEMMA AcceptHasOutput ==
  ASSUME TypeOK, CompleteHasOutput, NEW h \in Threads, NEW o, NEW t \in Tasks,
         NEW w, NEW new, NEW logs, NEW pc,
         Accept(h, o, t, w, new, logs, pc),
         pc # "commit" => o = "complete", pc \in {"commit", "probe"},
         o = "complete" => HasOutput(new)
  PROVE  CompleteHasOutput'
<1>1. thread'[h].pc = pc /\ thread'[h].op = o /\ thread'[h].task = t
      /\ thread'[h].new = new
  BY DEF Accept, TypeOK
<1>2. \A g \in Threads \ {h} : thread'[g] = thread[g]
  BY DEF Accept, TypeOK
<1>3. QED
  BY <1>1, <1>2 DEF CompleteHasOutput, Active, FinalizeStep, HasOutput

LEMMA ReadHasOutput ==
  ASSUME TypeOK, CompleteHasOutput, NEW h \in Threads, Read(h)
  PROVE  CompleteHasOutput'
<1>1. ASSUME NEW w \in Workers, NEW t \in Tasks, Complete(h, w, t)
      PROVE  CompleteHasOutput'
  BY <1>1, AcceptHasOutput DEF Complete
<1>2. ASSUME NEW t \in Tasks, NEW w, NEW o \in Op \ {"complete"}, NEW new,
             NEW logs, Accept(h, o, t, w, new, logs, "commit")
      PROVE  CompleteHasOutput'
  BY <1>2, AcceptHasOutput
<1>3. ASSUME NEW w \in Workers, NEW t \in Tasks, NEW b,
             Lease(h, w, t) \/ Heartbeat(h, w, t) \/ Fail(h, w, t, b)
      PROVE  CompleteHasOutput'
  BY <1>2, <1>3 DEF Lease, Heartbeat, Fail, Op
<1>4. ASSUME NEW t \in Tasks, NEW b, Requeue(h, t, b)
      PROVE  CompleteHasOutput'
  BY <1>2, <1>4 DEF Requeue, Op
<1>5. ASSUME NEW w \in Workers, NEW t \in Tasks, NEW n, NEW p, NEW a, NEW s,
             UploadIntent(h, w, t, n, p, a, s) \/ CompleteSkip(h, w, t, s)
      PROVE  CompleteHasOutput'
  BY <1>2, <1>5 DEF UploadIntent, CompleteSkip, Op
<1>6. QED
  BY <1>1, <1>3, <1>4, <1>5 DEF Read

(* What finalizing changes in a thread: its pc, its logs, and the status   *)
(* and lease columns of the row it will write.                             *)
SameOutput(a, b) ==
  /\ a.op = b.op /\ a.task = b.task
  /\ a.new.staging = b.new.staging
  /\ a.new.final = b.new.final
  /\ a.new.action = b.new.action
  /\ a.new.size = b.new.size
  /\ a.new.attempts = b.new.attempts

LEMMA MovingOn ==
  ASSUME TypeOK, NEW h \in Threads, NEW pc, NEW logs
  PROVE  /\ Goto(h, pc) => /\ thread'[h].pc = pc
                           /\ thread'[h].new = thread[h].new
                           /\ SameOutput(thread'[h], thread[h])
         /\ Succeed(h, logs) => /\ thread'[h].pc = "commit"
                                /\ thread'[h].new.status = "finalized"
                                /\ SameOutput(thread'[h], thread[h])
         /\ Reject(h) => /\ thread'[h].pc = "commit"
                         /\ thread'[h].new.status = "failed"
                         /\ SameOutput(thread'[h], thread[h])
         /\ Goto(h, pc) \/ Succeed(h, logs) \/ Reject(h)
              => \A g \in Threads \ {h} : thread'[g] = thread[g]
<1>1. thread[h] \in Thread /\ thread[h].new \in Row
  BY DEF TypeOK, Thread
<1>2. Goto(h, pc) => /\ thread'[h].pc = pc
                     /\ thread'[h].new = thread[h].new
                     /\ SameOutput(thread'[h], thread[h])
  BY <1>1 DEF Goto, TypeOK, SameOutput, Thread
<1>3. Succeed(h, logs) => /\ thread'[h].pc = "commit"
                          /\ thread'[h].new.status = "finalized"
                          /\ SameOutput(thread'[h], thread[h])
  <2>1. /\ DoneRow(thread[h].new).status = "finalized"
        /\ \A c \in {"staging", "final", "action", "size", "attempts"} :
             DoneRow(thread[h].new)[c] = thread[h].new[c]
    BY <1>1 DEF DoneRow, DropLease, Row
  <2>2. QED
    BY <1>1, <2>1 DEF Succeed, TypeOK, SameOutput, Thread
<1>4. Reject(h) => /\ thread'[h].pc = "commit"
                   /\ thread'[h].new.status = "failed"
                   /\ SameOutput(thread'[h], thread[h])
  <2>1. /\ FailedRow(thread[h].new).status = "failed"
        /\ \A c \in {"staging", "final", "action", "size", "attempts"} :
             FailedRow(thread[h].new)[c] = thread[h].new[c]
    BY <1>1 DEF FailedRow, Row
  <2>2. QED
    BY <1>1, <2>1 DEF Reject, TypeOK, SameOutput, Thread
<1>5. Goto(h, pc) \/ Succeed(h, logs) \/ Reject(h)
        => \A g \in Threads \ {h} : thread'[g] = thread[g]
  BY DEF Goto, Succeed, Reject, TypeOK
<1>6. QED
  BY <1>2, <1>3, <1>4, <1>5

LEMMA FinalizeShape ==
  ASSUME TypeOK, NEW h \in Threads, FinalizeNext(h)
  PROVE  /\ UNCHANGED <<row, issued, audit>>
         /\ \A g \in Threads \ {h} : thread'[g] = thread[g]
         /\ thread[h].pc \in FinalizeStep \cup {"probe"}
         /\ \/ thread'[h] = Idle
            \/ /\ SameOutput(thread'[h], thread[h])
               /\ thread'[h].pc \in {"commit"} \cup FinalizeStep
<1> USE DEF FinalizeStep
<1>1. CASE Probe(h)
  BY <1>1, MovingOn DEF Probe, At
<1>2. CASE CheckStaging(h)
  BY <1>2, MovingOn DEF CheckStaging, At
<1>3. CASE CheckFinal(h)
  BY <1>3, MovingOn DEF CheckFinal, At
<1>4. CASE Discard(h)
  BY <1>4, MovingOn DEF Discard, At
<1>5. CASE Move(h)
  BY <1>5, MovingOn DEF Move, At
<1>6. CASE Rename(h)
  BY <1>6, MovingOn DEF Rename, At
<1>7. CASE Verify(h)
  BY <1>7, MovingOn DEF Verify, At
<1>8. CASE CallFails(h)
  <2>1. CASE At(h, "probe") /\ thread' = [thread EXCEPT ![h] = Idle]
    BY <1>8, <2>1 DEF CallFails, At, TypeOK
  <2>2. CASE thread[h].pc \in FinalizeStep \ {"discard"} /\ Reject(h)
    BY <1>8, <2>2, MovingOn DEF CallFails
  <2>3. QED
    BY <1>8, <2>1, <2>2 DEF CallFails
<1>9. QED
  BY <1>1, <1>2, <1>3, <1>4, <1>5, <1>6, <1>7, <1>8 DEF FinalizeNext

(* Committing, or dying, leaves threads idle. *)
LEMMA CommitShape ==
  ASSUME TypeOK, NEW h \in Threads, Commit(h)
  PROVE  /\ thread'[h] = Idle
         /\ \A g \in Threads \ {h} : thread'[g] = thread[g]
BY DEF Commit, TypeOK

LEMMA NextHasOutput ==
  ASSUME TypeOK, CompleteHasOutput, [Next]_vars
  PROVE  CompleteHasOutput'
<1>1. ASSUME NEW h \in Threads, FinalizeNext(h)
      PROVE  CompleteHasOutput'
  BY <1>1, FinalizeShape
  DEF CompleteHasOutput, SameOutput, HasOutput, Active, Idle, FinalizeStep
<1>2. ASSUME NEW h \in Threads, Commit(h)
      PROVE  CompleteHasOutput'
  BY <1>2, CommitShape DEF CompleteHasOutput, HasOutput, Active, Idle, FinalizeStep
<1>3. CASE Environment
  BY <1>3 DEF Environment, Upload, Expire, Restart, CompleteHasOutput,
              HasOutput, Active, Idle, FinalizeStep
<1>4. CASE UNCHANGED vars
  BY <1>4 DEF vars, CompleteHasOutput, HasOutput, Active
<1>5. QED
  BY <1>1, <1>2, <1>3, <1>4, ReadHasOutput DEF Next

LEMMA InitBase == Init => TypeOK /\ CompleteHasOutput
<1>1. Init => TypeOK
  BY NewRowType, IdleType DEF Init, TypeOK
<1>2. Init => CompleteHasOutput
  BY DEF Init, CompleteHasOutput, Active, Idle, FinalizeStep
<1>3. QED
  BY <1>1, <1>2

(* The stores always hold well-typed values, and only a /complete that has *)
(* an output to finalize makes OpenList calls.                             *)
THEOREM TypeCorrect == Spec => [](TypeOK /\ CompleteHasOutput)
<1>1. TypeOK /\ CompleteHasOutput /\ [Next]_vars
        => (TypeOK /\ CompleteHasOutput)'
  BY NextType, NextHasOutput
<1>2. QED
  BY InitBase, <1>1, PTL DEF Spec

----------------------------------------------------------------------------
(* The attempts budget.                                                    *)

LEMMA AcceptBounded ==
  ASSUME TypeOK, AttemptsBounded, NEW h \in Threads, NEW o, NEW t \in Tasks,
         NEW w, NEW new, NEW logs, NEW pc,
         Accept(h, o, t, w, new, logs, pc), new.attempts <= MaxAttempts
  PROVE  AttemptsBounded'
<1>1. \A g \in Threads : thread'[g].new = IF g = h THEN new ELSE thread[g].new
  BY DEF Accept, TypeOK
<1>2. QED
  BY <1>1 DEF Accept, AttemptsBounded

(* No request computes a counter above the budget from one within it. *)
LEMMA NewAttempts ==
  ASSUME NEW r \in Row, r.attempts <= MaxAttempts
  PROVE  /\ \A w \in Workers :
              Leasable(r) => LeaseRow(r, w).attempts <= MaxAttempts
         /\ RenewRow(r).attempts <= MaxAttempts
         /\ \A n \in Nonces, p \in Paths, a \in OutputAction, s \in Sizes :
              IntentRow(r, n, p, a, s).attempts <= MaxAttempts
         /\ \A s \in Sizes : SkipRow(r, s).attempts <= MaxAttempts
         /\ \A b \in BOOLEAN : FailRow(r, b).attempts <= MaxAttempts
         /\ \A b \in BOOLEAN : RequeueRow(r, b).attempts <= MaxAttempts
<1>1. ASSUME NEW w \in Workers, Leasable(r)
      PROVE  LeaseRow(r, w).attempts <= MaxAttempts
  <2>1. ForgetOutput(r).attempts = r.attempts
    BY DEF ForgetOutput, Row
  <2>2. PICK f \in Row : f = ForgetOutput(r)
    BY DEF ForgetOutput, Row
  <2>3. [f EXCEPT !.status = "leased", !.worker = w, !.expiry = "live",
                  !.attempts = f.attempts + 1].attempts = f.attempts + 1
    BY DEF Row
  <2>4. LeaseRow(r, w).attempts = r.attempts + 1
    BY <2>1, <2>2, <2>3 DEF LeaseRow
  <2>5. QED
    BY <1>1, <2>4, TaskRowAssumption DEF Leasable, Row
<1>2. QED
  BY <1>1, TaskRowAssumption
  DEF RenewRow, IntentRow, SkipRow, FailRow, RequeueRow, DropLease,
      ForgetOutput, Row

(* A request that is read carries a counter within the budget. *)
LEMMA ReadBounded ==
  ASSUME TypeOK, AttemptsBounded, NEW h \in Threads, Read(h)
  PROVE  AttemptsBounded'
<1>1. \A t \in Tasks : row[t] \in Row /\ row[t].attempts <= MaxAttempts
  BY DEF TypeOK, AttemptsBounded
<1>2. ASSUME NEW w \in Workers, NEW t \in Tasks, Lease(h, w, t)
      PROVE  AttemptsBounded'
  BY <1>1, <1>2, AcceptBounded, NewAttempts DEF Lease
<1>3. ASSUME NEW w \in Workers, NEW t \in Tasks, Heartbeat(h, w, t)
      PROVE  AttemptsBounded'
  BY <1>1, <1>3, AcceptBounded, NewAttempts DEF Heartbeat
<1>4. ASSUME NEW w \in Workers, NEW t \in Tasks, NEW n \in Nonces,
             NEW p \in Paths, NEW a \in OutputAction, NEW s \in Sizes,
             UploadIntent(h, w, t, n, p, a, s)
      PROVE  AttemptsBounded'
  BY <1>1, <1>4, AcceptBounded, NewAttempts DEF UploadIntent
<1>5. ASSUME NEW w \in Workers, NEW t \in Tasks, NEW s \in Sizes,
             CompleteSkip(h, w, t, s)
      PROVE  AttemptsBounded'
  BY <1>1, <1>5, AcceptBounded, NewAttempts DEF CompleteSkip
<1>6. ASSUME NEW w \in Workers, NEW t \in Tasks, Complete(h, w, t)
      PROVE  AttemptsBounded'
  BY <1>1, <1>6, AcceptBounded DEF Complete
<1>7. ASSUME NEW w \in Workers, NEW t \in Tasks, NEW b \in BOOLEAN,
             Fail(h, w, t, b)
      PROVE  AttemptsBounded'
  BY <1>1, <1>7, AcceptBounded, NewAttempts DEF Fail
<1>8. ASSUME NEW t \in Tasks, NEW b \in BOOLEAN, Requeue(h, t, b)
      PROVE  AttemptsBounded'
  BY <1>1, <1>8, AcceptBounded, NewAttempts DEF Requeue
<1>9. QED
  BY <1>2, <1>3, <1>4, <1>5, <1>6, <1>7, <1>8 DEF Read

(* A commit writes the counter of the request or leaves the one that is    *)
(* there: both are within the budget, however stale the request.           *)
LEMMA CommitBounded ==
  ASSUME TypeOK, AttemptsBounded, NEW h \in Threads, Commit(h)
  PROVE  AttemptsBounded'
<1> DEFINE t == thread[h].task
           f == Flush(row[t], thread[h].read, thread[h].new, Renews(h))
<1>1. /\ \A u \in Tasks : row'[u] = IF u = t THEN f ELSE row[u]
      /\ \A g \in Threads : thread'[g] = IF g = h THEN Idle ELSE thread[g]
  BY DEF Commit, TypeOK
<1>2. f.attempts = thread[h].new.attempts \/ f.attempts = row[t].attempts
  BY DEF Flush, Changed
<1>3. Idle.new.attempts = 0 /\ 0 <= MaxAttempts
  BY TaskRowAssumption DEF Idle, NewRow
<1> HIDE DEF f, t
<1>4. QED
  BY <1>1, <1>2, <1>3 DEF AttemptsBounded

LEMMA NextBounded ==
  ASSUME TypeOK, AttemptsBounded, [Next]_vars
  PROVE  AttemptsBounded'
<1>1. ASSUME NEW h \in Threads, FinalizeNext(h)
      PROVE  AttemptsBounded'
  <2>1. Idle.new.attempts <= MaxAttempts
    BY TaskRowAssumption DEF Idle, NewRow
  <2>2. QED
    BY <1>1, <2>1, FinalizeShape DEF AttemptsBounded, SameOutput
<1>2. CASE Environment
  <2>1. ASSUME NEW t \in Tasks, Expire(t)
        PROVE  AttemptsBounded'
    <3>1. \A u \in Tasks : row'[u].attempts = row[u].attempts
      BY <2>1 DEF Expire, TypeOK, Row
    <3>2. QED
      BY <2>1, <3>1 DEF Expire, AttemptsBounded
  <2>2. ASSUME NEW S \in SUBSET Tasks, NEW b \in BOOLEAN, Restart(S, b)
        PROVE  AttemptsBounded'
    <3>1. \A u \in Tasks : row'[u].attempts <= MaxAttempts
      BY <2>2, NewAttempts DEF Restart, TypeOK, AttemptsBounded
    <3>2. \A h \in Threads : thread'[h].new.attempts = 0
      BY <2>2 DEF Restart, Idle, NewRow
    <3>3. QED
      BY <3>1, <3>2, TaskRowAssumption DEF AttemptsBounded
  <2>3. QED
    BY <1>2, <2>1, <2>2 DEF Environment, Upload, AttemptsBounded
<1>3. CASE UNCHANGED vars
  BY <1>3 DEF vars, AttemptsBounded
<1>4. QED
  BY <1>1, <1>2, <1>3, ReadBounded, CommitBounded DEF Next

(* max_attempts bounds the attempts of every task, for any number of       *)
(* requests that race (lease_tasks, fail_task, the requeue endpoints).     *)
THEOREM AttemptsSafe == Spec => []AttemptsBounded
<1>1. Init => AttemptsBounded
  BY TaskRowAssumption DEF Init, AttemptsBounded, Idle, NewRow
<1>2. TypeOK /\ AttemptsBounded /\ [Next]_vars => AttemptsBounded'
  BY NextBounded
<1>3. QED
  BY <1>1, <1>2, TypeCorrect, PTL DEF Spec

----------------------------------------------------------------------------
(* An output file that is there stays as it is.                            *)

LEMMA FinalKept ==
  ASSUME TypeOK, CompleteHasOutput, [Next]_vars, NEW p \in Paths,
         final[p] # Absent
  PROVE  final'[p] = final[p]
<1>1. ASSUME NEW h \in Threads, Rename(h)
      PROVE  final'[p] = final[p]
  <2>1. CASE CanRename(h) /\ final' = [final EXCEPT ![thread[h].new.final] =
                                                     blob[FolderOf(h)]]
    <3>1. final[thread[h].new.final] = Absent
      BY <2>1 DEF CanRename, FinalOf
    <3>2. QED
      BY <2>1, <3>1 DEF TypeOK
  <2>2. QED
    BY <1>1, <2>1 DEF Rename
<1>2. ASSUME NEW h \in Threads, Read(h)
      PROVE  UNCHANGED final
  BY <1>2 DEF Read, Lease, Heartbeat, UploadIntent, CompleteSkip, Complete,
              Fail, Requeue, Accept, files
<1>3. ASSUME NEW h \in Threads, FinalizeNext(h), ~Rename(h)
      PROVE  UNCHANGED final
  BY <1>3 DEF FinalizeNext, Probe, CheckStaging, CheckFinal, Discard, Move,
              Verify, CallFails, files
<1>4. ASSUME NEW h \in Threads, Commit(h)
      PROVE  UNCHANGED final
  BY <1>4 DEF Commit, files
<1>5. CASE Environment
  BY <1>5 DEF Environment, Upload, Expire, Restart, files
<1>6. CASE UNCHANGED vars
  BY <1>6 DEF vars
<1>7. QED
  BY <1>1, <1>2, <1>3, <1>4, <1>5, <1>6 DEF Next

(* A /complete that moves on has a final path and a size to look for. *)
LEMMA SeenKept ==
  ASSUME TypeOK, CompleteHasOutput, [Next]_vars, NEW h \in Threads,
         thread[h].op = "complete", HasSize(FinalOf(h), h),
         SameOutput(thread'[h], thread[h])
  PROVE  HasSize(FinalOf(h), h)'
<1>1. thread[h].new.final \in Paths
  BY DEF CompleteHasOutput, HasOutput, TypeOK, Thread, Row
<1>2. final'[thread[h].new.final] = final[thread[h].new.final]
  BY <1>1, FinalKept DEF HasSize, FinalOf
<1>3. QED
  BY <1>2 DEF HasSize, FinalOf, SameOutput

LEMMA ReadSeen ==
  ASSUME TypeOK, CompleteHasOutput, OutputSeen, NEW h \in Threads, Read(h)
  PROVE  OutputSeen'
<1>1. final' = final /\ [Next]_vars
  BY DEF Read, Lease, Heartbeat, UploadIntent, CompleteSkip, Complete,
         Fail, Requeue, Accept, files, Next
<1>2. ASSUME NEW o \in Op, NEW t \in Tasks, NEW w, NEW new, NEW logs,
             NEW pc \in {"commit", "probe"},
             Accept(h, o, t, w, new, logs, pc),
             o = "complete" => new.status # "finalized"
      PROVE  OutputSeen'
  <2>1. /\ thread'[h].pc = pc /\ thread'[h].op = o /\ thread'[h].new = new
        /\ \A g \in Threads \ {h} : thread'[g] = thread[g]
    BY <1>2 DEF Accept, TypeOK
  <2>2. QED
    BY <1>1, <1>2, <2>1 DEF OutputSeen, HasSize, FinalOf
<1>3. ASSUME NEW w \in Workers, NEW t \in Tasks, Complete(h, w, t)
      PROVE  OutputSeen'
  BY <1>3, <1>2 DEF Complete, Holds, Op
<1>4. ASSUME NEW w \in Workers, NEW t \in Tasks, NEW b,
             Lease(h, w, t) \/ Heartbeat(h, w, t) \/ Fail(h, w, t, b)
      PROVE  OutputSeen'
  BY <1>2, <1>4 DEF Lease, Heartbeat, Fail, Op
<1>5. ASSUME NEW t \in Tasks, NEW b, Requeue(h, t, b)
      PROVE  OutputSeen'
  BY <1>2, <1>5 DEF Requeue, Op
<1>6. ASSUME NEW w \in Workers, NEW t \in Tasks, NEW n, NEW p, NEW a, NEW s,
             UploadIntent(h, w, t, n, p, a, s) \/ CompleteSkip(h, w, t, s)
      PROVE  OutputSeen'
  BY <1>2, <1>6 DEF UploadIntent, CompleteSkip, Op
<1>7. QED
  BY <1>3, <1>4, <1>5, <1>6 DEF Read

LEMMA FinalizeSeen ==
  ASSUME TypeOK, CompleteHasOutput, OutputSeen, NEW h \in Threads,
         FinalizeNext(h)
  PROVE  OutputSeen'
<1>1. [Next]_vars
  BY DEF Next
<1>2. ASSUME NEW g \in Threads \ {h}, thread[g].op = "complete",
             HasSize(FinalOf(g), g)
      PROVE  HasSize(FinalOf(g), g)'
  BY <1>1, <1>2, SeenKept, FinalizeShape DEF SameOutput
<1>3. thread[h].op = "complete"
  BY FinalizeShape DEF CompleteHasOutput
<1>4. ASSUME thread'[h].op = "complete",
             thread'[h].pc = "discard" \/ thread'[h].new.status = "finalized"
      PROVE  \/ HasSize(FinalOf(h), h) /\ SameOutput(thread'[h], thread[h])
             \/ HasSize(FinalOf(h), h)'
  <2>1. SameOutput(thread'[h], thread[h])
    BY <1>4, FinalizeShape DEF Idle
  <2>2. ASSUME thread[h].new.status = "finalized" \/ thread[h].pc = "discard"
        PROVE  HasSize(FinalOf(h), h)
    BY <2>2, <1>3 DEF OutputSeen
  <2>3. CASE Probe(h)
    BY <1>4, <2>1, <2>2, <2>3, MovingOn DEF Probe
  <2>4. CASE CheckStaging(h)
    BY <1>4, <2>1, <2>2, <2>4, MovingOn DEF CheckStaging
  <2>5. CASE CheckFinal(h)
    BY <1>4, <2>1, <2>2, <2>5, MovingOn DEF CheckFinal
  <2>6. CASE Discard(h)
    BY <2>1, <2>2, <2>6 DEF Discard, At
  <2>7. CASE Move(h)
    BY <1>4, <2>1, <2>2, <2>7, MovingOn DEF Move
  <2>8. CASE Rename(h)
    BY <1>4, <2>1, <2>2, <2>8, MovingOn DEF Rename
  <2>9. CASE Verify(h)
    BY <1>4, <2>1, <2>2, <2>9, MovingOn DEF Verify
  <2>10. CASE CallFails(h)
    <3>1. CASE Reject(h)
      BY <1>4, <3>1, MovingOn
    <3>2. CASE thread' = [thread EXCEPT ![h] = Idle]
      BY <1>4, <3>2 DEF TypeOK, Idle
    <3>3. QED
      BY <2>10, <3>1, <3>2 DEF CallFails
  <2>11. QED
    BY <2>3, <2>4, <2>5, <2>6, <2>7, <2>8, <2>9, <2>10 DEF FinalizeNext
<1>5. ASSUME NEW g \in Threads, thread'[g].op = "complete",
             thread'[g].pc = "discard" \/ thread'[g].new.status = "finalized"
      PROVE  HasSize(FinalOf(g), g)'
  <2>1. CASE g = h
    BY <1>1, <1>3, <1>4, <1>5, <2>1, SeenKept
  <2>2. CASE g # h
    BY <1>2, <1>5, <2>2, FinalizeShape DEF OutputSeen
  <2>3. QED
    BY <2>1, <2>2
<1>6. QED
  BY <1>5 DEF OutputSeen

LEMMA NextSeen ==
  ASSUME TypeOK, CompleteHasOutput, OutputSeen, [Next]_vars
  PROVE  OutputSeen'
<1>1. ASSUME NEW h \in Threads, Commit(h)
      PROVE  OutputSeen'
  BY <1>1, CommitShape DEF Commit, files, OutputSeen, HasSize, FinalOf, Idle
<1>2. CASE Environment
  BY <1>2 DEF Environment, Upload, Expire, Restart, files, OutputSeen,
              HasSize, FinalOf, Idle
<1>3. CASE UNCHANGED vars
  BY <1>3 DEF vars, OutputSeen, HasSize, FinalOf
<1>4. QED
  BY <1>1, <1>2, <1>3, ReadSeen, FinalizeSeen DEF Next

(* What /complete has seen at the final path is still there when it        *)
(* records success: any number of finalizes, late uploads and lost answers *)
(* may have happened in between (complete_task, OpenListManager.finalize). *)
THEOREM CompleteVerifiedSafe == Spec => []CompleteVerified
<1>1. Init => OutputSeen
  BY DEF Init, OutputSeen, Idle
<1>2. TypeOK /\ CompleteHasOutput /\ OutputSeen /\ [Next]_vars => OutputSeen'
  BY NextSeen
<1>3. OutputSeen => CompleteVerified
  BY DEF OutputSeen, CompleteVerified
<1>4. QED
  BY <1>1, <1>2, <1>3, TypeCorrect, PTL DEF Spec

----------------------------------------------------------------------------
(* Who owns a nonce, and through it a file.                                *)

LEMMA ReadShape ==
  ASSUME TypeOK, NEW h \in Threads, Read(h)
  PROVE  /\ UNCHANGED <<row, issued, files, audit>>
         /\ \A g \in Threads \ {h} : thread'[g] = thread[g]
         /\ thread'[h].pc \in {"commit", "probe"}
BY DEF Read, Lease, Heartbeat, UploadIntent, CompleteSkip, Complete, Fail,
       Requeue, Accept, TypeOK

(* The output columns of the row each handler computes. *)
LEMMA RowOutput ==
  ASSUME NEW r \in Row
  PROVE  /\ RenewRow(r).staging = r.staging /\ RenewRow(r).final = r.final
         /\ \A w \in Workers : /\ LeaseRow(r, w).staging = NoNonce
                               /\ LeaseRow(r, w).final = NoPath
         /\ \A s \in Sizes : /\ SkipRow(r, s).staging = NoNonce
                             /\ SkipRow(r, s).final = NoPath
         /\ \A b \in BOOLEAN : /\ FailRow(r, b).staging = NoNonce
                               /\ FailRow(r, b).final = NoPath
                               /\ RequeueRow(r, b).staging = NoNonce
                               /\ RequeueRow(r, b).final = NoPath
<1>1. /\ RenewRow(r).staging = r.staging /\ RenewRow(r).final = r.final
  BY DEF RenewRow, Row
<1>2. \A w \in Workers : /\ LeaseRow(r, w).staging = NoNonce
                        /\ LeaseRow(r, w).final = NoPath
  BY DEF LeaseRow, ForgetOutput, Row
<1>3. \A s \in Sizes : /\ SkipRow(r, s).staging = NoNonce
                      /\ SkipRow(r, s).final = NoPath
  BY DEF SkipRow, DropLease, ForgetOutput, Row
<1>4. \A b \in BOOLEAN : /\ FailRow(r, b).staging = NoNonce
                        /\ FailRow(r, b).final = NoPath
  BY DEF FailRow, DropLease, ForgetOutput, Row
<1>5. \A b \in BOOLEAN : /\ RequeueRow(r, b).staging = NoNonce
                        /\ RequeueRow(r, b).final = NoPath
  BY DEF RequeueRow, DropLease, ForgetOutput, Row
<1>6. QED
  BY <1>1, <1>2, <1>3, <1>4, <1>5

(* The output columns a request will write: those it has read, none, or,   *)
(* for an upload intent, a nonce that nobody has and a path of the task.   *)
LEMMA ReadOutput ==
  ASSUME TypeOK, NEW h \in Threads, Read(h)
  PROVE  LET c == thread'[h] IN
         /\ c.task \in Tasks
         /\ c.new.final = NoPath \/ c.new.final = row[c.task].final
              \/ c.new.final \in OutPaths[c.task]
         /\ \/ /\ c.op # "intent"
               /\ c.new.staging = NoNonce \/ c.new.staging = row[c.task].staging
            \/ c.op = "intent" /\ c.new.staging \in Nonces /\ Unused(c.new.staging)
<1>1. ASSUME NEW o, NEW t \in Tasks, NEW w, NEW new, NEW logs, NEW pc,
             Accept(h, o, t, w, new, logs, pc)
      PROVE  thread'[h].op = o /\ thread'[h].task = t /\ thread'[h].new = new
  BY <1>1 DEF Accept, TypeOK
<1>2. \A t \in Tasks : row[t] \in Row
  BY DEF TypeOK
<1>3. ASSUME NEW w \in Workers, NEW t \in Tasks, Lease(h, w, t)
      PROVE  /\ thread'[h].op # "intent" /\ thread'[h].task = t
             /\ thread'[h].new.staging = NoNonce
             /\ thread'[h].new.final = NoPath
  <2>1. LeaseRow(row[t], w).staging = NoNonce
        /\ LeaseRow(row[t], w).final = NoPath
    BY <1>2, RowOutput
  <2>2. /\ thread'[h].op = "lease" /\ thread'[h].task = t
        /\ thread'[h].new = LeaseRow(row[t], w)
    BY <1>1, <1>3 DEF Lease
  <2>3. QED
    BY <2>1, <2>2
<1>4. ASSUME NEW w \in Workers, NEW t \in Tasks, Heartbeat(h, w, t)
      PROVE  /\ thread'[h].op # "intent" /\ thread'[h].task = t
             /\ thread'[h].new.staging = row[t].staging
             /\ thread'[h].new.final = row[t].final
  <2>1. RenewRow(row[t]).staging = row[t].staging
        /\ RenewRow(row[t]).final = row[t].final
    BY <1>2, RowOutput
  <2>2. /\ thread'[h].op = "heartbeat" /\ thread'[h].task = t
        /\ thread'[h].new = RenewRow(row[t])
    BY <1>1, <1>4 DEF Heartbeat
  <2>3. QED
    BY <2>1, <2>2
<1>5. ASSUME NEW w \in Workers, NEW t \in Tasks, NEW n \in Nonces,
             NEW p \in Paths, NEW a \in OutputAction, NEW s \in Sizes,
             UploadIntent(h, w, t, n, p, a, s)
      PROVE  /\ thread'[h].op = "intent" /\ thread'[h].task = t
             /\ thread'[h].new.staging = n /\ Unused(n)
             /\ thread'[h].new.final \in OutPaths[t]
  <2>1. IntentRow(row[t], n, p, a, s).staging = n
        /\ IntentRow(row[t], n, p, a, s).final = p
    BY <1>2 DEF IntentRow, Row
  <2>2. QED
    BY <1>1, <1>5, <2>1 DEF UploadIntent
<1>6. ASSUME NEW w \in Workers, NEW t \in Tasks, NEW s \in Sizes,
             CompleteSkip(h, w, t, s)
      PROVE  /\ thread'[h].op # "intent" /\ thread'[h].task = t
             /\ thread'[h].new.staging = NoNonce
             /\ thread'[h].new.final = NoPath
  <2>1. SkipRow(row[t], s).staging = NoNonce
        /\ SkipRow(row[t], s).final = NoPath
    BY <1>2, RowOutput
  <2>2. /\ thread'[h].op = "skip" /\ thread'[h].task = t
        /\ thread'[h].new = SkipRow(row[t], s)
    BY <1>1, <1>6 DEF CompleteSkip
  <2>3. QED
    BY <2>1, <2>2
<1>7. ASSUME NEW w \in Workers, NEW t \in Tasks, Complete(h, w, t)
      PROVE  /\ thread'[h].op # "intent" /\ thread'[h].task = t
             /\ thread'[h].new.staging = row[t].staging
             /\ thread'[h].new.final = row[t].final
  BY <1>1, <1>7 DEF Complete
<1>8. ASSUME NEW w \in Workers, NEW t \in Tasks, NEW b \in BOOLEAN,
             Fail(h, w, t, b)
      PROVE  /\ thread'[h].op # "intent" /\ thread'[h].task = t
             /\ thread'[h].new.staging = NoNonce
             /\ thread'[h].new.final = NoPath
  <2>1. FailRow(row[t], b).staging = NoNonce
        /\ FailRow(row[t], b).final = NoPath
    BY <1>2, RowOutput
  <2>2. /\ thread'[h].op = "fail" /\ thread'[h].task = t
        /\ thread'[h].new = FailRow(row[t], b)
    BY <1>1, <1>8 DEF Fail
  <2>3. QED
    BY <2>1, <2>2
<1>9. ASSUME NEW t \in Tasks, NEW b \in BOOLEAN, Requeue(h, t, b)
      PROVE  /\ thread'[h].op # "intent" /\ thread'[h].task = t
             /\ thread'[h].new.staging = NoNonce
             /\ thread'[h].new.final = NoPath
  <2>1. RequeueRow(row[t], b).staging = NoNonce
        /\ RequeueRow(row[t], b).final = NoPath
    BY <1>2, RowOutput
  <2>2. /\ thread'[h].op = "requeue" /\ thread'[h].task = t
        /\ thread'[h].new = RequeueRow(row[t], b)
    BY <1>1, <1>9 DEF Requeue
  <2>3. QED
    BY <2>1, <2>2
<1>10. QED
  BY <1>3, <1>4, <1>5, <1>6, <1>7, <1>8, <1>9 DEF Read

(* A nonce keeps its task. *)
LEMMA IssuedKept ==
  ASSUME TypeOK, NoncesFresh, [Next]_vars, NEW n \in Nonces,
         issued[n] # NoTask
  PROVE  issued'[n] = issued[n]
<1>1. ASSUME NEW h \in Threads, Commit(h)
      PROVE  issued'[n] = issued[n]
  <2>1. CASE thread[h].op = "intent"
    BY <1>1, <2>1 DEF Commit, NoncesFresh, TypeOK
  <2>2. QED
    BY <1>1, <2>1 DEF Commit
<1>2. CASE Environment
  BY <1>2 DEF Environment, Upload, Expire, Restart
<1>3. QED
  BY <1>1, <1>2, ReadShape, FinalizeShape DEF Next, vars

(* What a commit leaves in the output columns. *)
LEMMA CommitOutput ==
  ASSUME TypeOK, NEW h \in Threads, Commit(h), NEW u \in Tasks
  PROVE  /\ \/ row'[u].staging = row[u].staging
            \/ u = thread[h].task /\ row'[u].staging = thread[h].new.staging
         /\ \/ row'[u].final = row[u].final
            \/ u = thread[h].task /\ row'[u].final = thread[h].new.final
<1> DEFINE f == Flush(row[thread[h].task], thread[h].read, thread[h].new,
                      Renews(h))
<1>1. row'[u] = IF u = thread[h].task THEN f ELSE row[u]
  BY DEF Commit, TypeOK
<1>2. /\ f.staging = row[thread[h].task].staging
           \/ f.staging = thread[h].new.staging
      /\ f.final = row[thread[h].task].final
           \/ f.final = thread[h].new.final
  BY DEF Flush, Changed
<1> HIDE DEF f
<1>3. QED
  BY <1>1, <1>2

LEMMA EnvironmentOutput ==
  ASSUME TypeOK, Environment, NEW u \in Tasks
  PROVE  /\ UNCHANGED <<issued, blob, final>>
         /\ row'[u].staging \in {row[u].staging, NoNonce}
         /\ row'[u].final \in {row[u].final, NoPath}
         /\ \A h \in Threads : thread'[h] = thread[h] \/ thread'[h] = Idle
<1>1. row[u] \in Row
  BY DEF TypeOK
<1>2. ASSUME NEW t \in Tasks, Expire(t)
      PROVE  row'[u].staging = row[u].staging /\ row'[u].final = row[u].final
  BY <1>1, <1>2 DEF Expire, TypeOK, Row
<1>3. ASSUME NEW S \in SUBSET Tasks, NEW b \in BOOLEAN, Restart(S, b)
      PROVE  /\ row'[u].staging \in {row[u].staging, NoNonce}
             /\ row'[u].final \in {row[u].final, NoPath}
  BY <1>1, <1>3, RowOutput DEF Restart
<1>4. QED
  BY <1>2, <1>3 DEF Environment, Upload, Expire, Restart, files

LEMMA NextFresh ==
  ASSUME TypeOK, NoncesOwned, NoncesFresh, [Next]_vars
  PROVE  NoncesFresh'
<1>1. Idle.op # "intent" /\ Idle.new.staging \notin Nonces
  BY TaskRowAssumption DEF Idle, NewRow
<1>2. ASSUME NEW h \in Threads, Read(h)
      PROVE  NoncesFresh'
  <2>1. UNCHANGED issued /\ \A g \in Threads \ {h} : thread'[g] = thread[g]
    BY <1>2, ReadShape
  <2>2. ASSUME NEW g \in Threads \ {h}, thread[g].op = "intent"
        PROVE  thread'[h].new.staging # thread[g].new.staging
    <3>1. /\ thread[g].new.staging \in Nonces
          /\ issued[thread[g].new.staging] = NoTask
      BY <2>2 DEF NoncesFresh
    <3>2. QED
      BY <1>2, <3>1, ReadOutput, TaskRowAssumption, TaskServerAssumption
      DEF NoncesOwned, Unused
  <2>3. thread'[h].op = "intent" =>
          /\ thread'[h].new.staging \in Nonces
          /\ issued[thread'[h].new.staging] = NoTask
          /\ \A g \in Threads : thread[g].new.staging # thread'[h].new.staging
    BY <1>2, ReadOutput DEF Unused
  <2>4. QED
    BY <2>1, <2>2, <2>3 DEF NoncesFresh
<1>3. ASSUME NEW h \in Threads, FinalizeNext(h)
      PROVE  NoncesFresh'
  <2>1. /\ UNCHANGED issued
        /\ \A g \in Threads \ {h} : thread'[g] = thread[g]
        /\ thread'[h] = Idle \/ SameOutput(thread'[h], thread[h])
    BY <1>3, FinalizeShape
  <2>2. /\ thread'[h].op = "intent" => thread[h].op = "intent"
        /\ thread'[h].new.staging \in Nonces
             => thread'[h].new.staging = thread[h].new.staging
    BY <1>1, <2>1 DEF SameOutput
  <2>3. ASSUME NEW g \in Threads, thread'[g].op = "intent"
        PROVE  /\ thread[g].op = "intent"
               /\ thread'[g].new.staging = thread[g].new.staging
    BY <1>1, <2>1, <2>3 DEF SameOutput
  <2>4. QED
    BY <2>1, <2>2, <2>3 DEF NoncesFresh
<1>4. ASSUME NEW h \in Threads, Commit(h)
      PROVE  NoncesFresh'
  <2>1. thread'[h] = Idle /\ \A g \in Threads \ {h} : thread'[g] = thread[g]
    BY <1>4, CommitShape
  <2>2. \A n \in Nonces :
          \/ issued'[n] = issued[n]
          \/ thread[h].op = "intent" /\ n = thread[h].new.staging
    BY <1>4 DEF Commit, TypeOK
  <2>3. ASSUME NEW g \in Threads \ {h}, thread[g].op = "intent"
        PROVE  issued'[thread[g].new.staging] = NoTask
    BY <2>2, <2>3 DEF NoncesFresh
  <2>4. QED
    BY <1>1, <2>1, <2>3 DEF NoncesFresh
<1>5. CASE Environment
  <2>1. \A h \in Threads : thread'[h] = thread[h] \/ thread'[h] = Idle
    BY <1>5 DEF Environment, Upload, Expire, Restart
  <2>2. UNCHANGED issued
    BY <1>5 DEF Environment, Upload, Expire, Restart
  <2>3. QED
    BY <1>1, <2>1, <2>2 DEF NoncesFresh
<1>6. CASE UNCHANGED vars
  BY <1>6 DEF vars, NoncesFresh
<1>7. QED
  BY <1>2, <1>3, <1>4, <1>5, <1>6 DEF Next

LEMMA NextOwned ==
  ASSUME TypeOK, CompleteHasOutput, NoncesOwned, NoncesFresh, [Next]_vars
  PROVE  NoncesOwned'
<1>1. Idle.pc = "idle"
  BY DEF Idle
<1>2. ASSUME NEW n \in Nonces, NEW t \in Tasks, issued[n] = t
      PROVE  issued'[n] = t
  BY <1>2, IssuedKept, TaskServerAssumption
<1>3. ASSUME NEW t \in Tasks, row[t].staging # NoNonce
      PROVE  issued'[row[t].staging] = t
  BY <1>2, <1>3 DEF NoncesOwned, TypeOK, Row
<1>4. ASSUME NEW h \in Threads, Active(h), thread[h].op # "intent",
             thread[h].new.staging # NoNonce
      PROVE  issued'[thread[h].new.staging] = thread[h].task
  <2>1. issued[thread[h].new.staging] = thread[h].task
        /\ thread[h].new.staging \in Nonces /\ thread[h].task \in Tasks
    BY <1>4 DEF NoncesOwned, TypeOK, Thread, Row, CompleteHasOutput
  <2>2. QED
    BY <2>1, <1>2
<1>5. ASSUME NEW h \in Threads, Read(h)
      PROVE  NoncesOwned'
  <2>1. UNCHANGED <<row, issued>>
        /\ \A g \in Threads \ {h} : thread'[g] = thread[g]
    BY <1>5, ReadShape
  <2>2. /\ thread'[h].task \in Tasks
        /\ thread'[h].new.staging # NoNonce /\ thread'[h].op # "intent"
             => thread'[h].new.staging = row[thread'[h].task].staging
        /\ thread'[h].new.final # NoPath
             => \/ thread'[h].new.final \in OutPaths[thread'[h].task]
                \/ thread'[h].new.final = row[thread'[h].task].final
    BY <1>5, ReadOutput
  <2>3. /\ thread'[h].new.staging # NoNonce /\ thread'[h].op # "intent"
             => issued[thread'[h].new.staging] = thread'[h].task
        /\ thread'[h].new.final # NoPath
             => thread'[h].new.final \in OutPaths[thread'[h].task]
    BY <2>2 DEF NoncesOwned
  <2>4. QED
    BY <2>1, <2>3 DEF NoncesOwned, Active
<1>6. ASSUME NEW h \in Threads, FinalizeNext(h)
      PROVE  NoncesOwned'
  <2>1. /\ UNCHANGED <<row, issued>>
        /\ \A g \in Threads \ {h} : thread'[g] = thread[g]
        /\ Active(h)
        /\ thread'[h] = Idle \/ SameOutput(thread'[h], thread[h])
    BY <1>6, FinalizeShape DEF Active, FinalizeStep
  <2>2. QED
    BY <1>1, <2>1 DEF NoncesOwned, Active, SameOutput
<1>7. ASSUME NEW h \in Threads, Commit(h)
      PROVE  NoncesOwned'
  <2>1. thread'[h] = Idle /\ \A g \in Threads \ {h} : thread'[g] = thread[g]
    BY <1>7, CommitShape
  <2>2. Active(h) /\ thread[h].task \in Tasks
    BY <1>7 DEF Commit, At, Active, CompleteHasOutput
  <2>3. thread[h].op = "intent"
          => issued'[thread[h].new.staging] = thread[h].task
    BY <1>7 DEF Commit, NoncesFresh, TypeOK
  <2>4. ASSUME NEW u \in Tasks
        PROVE  /\ row'[u].staging # NoNonce => issued'[row'[u].staging] = u
               /\ row'[u].final # NoPath => row'[u].final \in OutPaths[u]
    BY <1>3, <1>4, <1>7, <2>2, <2>3, CommitOutput DEF NoncesOwned
  <2>5. QED
    BY <1>1, <1>4, <2>1, <2>4 DEF NoncesOwned, Active
<1>8. CASE Environment
  <2>1. UNCHANGED issued
        /\ \A h \in Threads : thread'[h] = thread[h] \/ thread'[h] = Idle
    BY <1>8 DEF Environment, Upload, Expire, Restart
  <2>2. QED
    BY <1>1, <1>8, <2>1, EnvironmentOutput DEF NoncesOwned, Active
<1>9. CASE UNCHANGED vars
  BY <1>9 DEF vars, NoncesOwned, Active
<1>10. QED
  BY <1>5, <1>6, <1>7, <1>8, <1>9 DEF Next

----------------------------------------------------------------------------
(* The files on OpenList.                                                  *)

(* Who touches which store. *)
LEMMA OtherFiles ==
  ASSUME NEW h \in Threads
  PROVE  /\ Read(h) \/ Commit(h) => UNCHANGED files
         /\ FinalizeNext(h) /\ ~Discard(h) /\ ~Move(h) => UNCHANGED staged
         /\ FinalizeNext(h) /\ ~Move(h) /\ ~Rename(h) => UNCHANGED blob
         /\ FinalizeNext(h) /\ ~Rename(h) => UNCHANGED final
<1>1. Read(h) => UNCHANGED files
  BY DEF Read, Lease, Heartbeat, UploadIntent, CompleteSkip, Complete, Fail,
         Requeue, Accept, files
<1>2. Commit(h) => UNCHANGED files
  BY DEF Commit
<1>3. Probe(h) \/ CheckStaging(h) \/ CheckFinal(h) \/ Verify(h) \/ CallFails(h)
        => UNCHANGED files
  BY DEF Probe, CheckStaging, CheckFinal, Verify, CallFails
<1>4. /\ Discard(h) => UNCHANGED <<blob, final>>
      /\ Move(h) => UNCHANGED final
      /\ Rename(h) => UNCHANGED staged
  BY DEF Discard, Move, Rename
<1>5. QED
  BY <1>1, <1>2, <1>3, <1>4 DEF FinalizeNext, files

LEMMA NextFilesOwned ==
  ASSUME TypeOK, CompleteHasOutput, NoncesFresh, FilesOwned, [Next]_vars
  PROVE  FilesOwned'
<1>1. \A n \in Nonces : issued[n] # NoTask => issued'[n] # NoTask
  BY IssuedKept
<1>2. \A d \in Dirs : blob[d] # Absent => blob[d].nonce \in Nonces
  BY DEF TypeOK, File
<1>3. ASSUME UNCHANGED <<staged, blob>>
      PROVE  FilesOwned'
  BY <1>1, <1>2, <1>3 DEF FilesOwned
<1>4. ASSUME NEW h \in Threads, Discard(h)
      PROVE  FilesOwned'
  <2>1. \A n \in Nonces : staged'[n] \in {staged[n], Absent}
    BY <1>4 DEF Discard, TypeOK
  <2>2. QED
    BY <1>1, <1>2, <1>4, <2>1 DEF FilesOwned, Discard
<1>5. ASSUME NEW h \in Threads, Move(h)
      PROVE  FilesOwned'
  <2>1. thread[h].new.staging \in Nonces /\ FolderOf(h) \in Dirs
    BY <1>5, FinalizingType DEF Move, At, FinalizeStep
  <2>2. CASE CanMove(h)
    <3>1. /\ StagedOf(h) # Absent
          /\ StagedOf(h).nonce = thread[h].new.staging
          /\ issued[StagedOf(h).nonce] # NoTask
      BY <2>1, <2>2 DEF FilesOwned, CanMove, StagedOf
    <3>2. /\ \A n \in Nonces : staged'[n] \in {staged[n], Absent}
          /\ \A d \in Dirs : blob'[d] \in {blob[d], StagedOf(h)}
          /\ UNCHANGED issued
      BY <1>5, <2>2 DEF Move, TypeOK
    <3>3. QED
      BY <3>1, <3>2 DEF FilesOwned
  <2>3. CASE ~CanMove(h)
    BY <1>3, <1>5, <2>3 DEF Move
  <2>4. QED
    BY <2>2, <2>3
<1>6. ASSUME NEW h \in Threads, Rename(h)
      PROVE  FilesOwned'
  <2>1. /\ \A d \in Dirs : blob'[d] \in {blob[d], Absent}
        /\ UNCHANGED <<staged, issued>>
    BY <1>6 DEF Rename, TypeOK
  <2>2. QED
    BY <2>1 DEF FilesOwned
<1>7. ASSUME NEW n \in Nonces, NEW sz \in Sizes, Upload(n, sz)
      PROVE  FilesOwned'
  BY <1>7 DEF Upload, FilesOwned, TypeOK
<1>8. CASE Environment
  BY <1>3, <1>7, <1>8 DEF Environment, Expire, Restart, files
<1>9. ASSUME NEW h \in Threads, Read(h) \/ FinalizeNext(h) \/ Commit(h)
      PROVE  FilesOwned'
  BY <1>3, <1>4, <1>5, <1>6, <1>9, OtherFiles DEF files
<1>10. QED
  BY <1>3, <1>8, <1>9 DEF Next, vars

LEMMA NextReserved ==
  ASSUME TypeOK, CompleteHasOutput, FilesOwned, BlobReserved, [Next]_vars
  PROVE  BlobReserved'
<1>1. Idle.pc # "rename"
  BY DEF Idle
<1>2. ASSUME \A g \in Threads : thread'[g].pc = "rename" => thread'[g] = thread[g],
             \A g \in Threads : thread'[g].pc = "rename" =>
                                 blob'[FolderOf(g)] = blob[FolderOf(g)]
      PROVE  BlobReserved'
  BY <1>2 DEF BlobReserved, FolderOf
<1>3. ASSUME NEW h \in Threads, Move(h)
      PROVE  BlobReserved'
  <2>1. \A g \in Threads \ {h} : thread'[g] = thread[g]
    BY <1>3, FinalizeShape DEF FinalizeNext
  <2>2. /\ thread[h].new.staging \in Nonces /\ FolderOf(h) \in Dirs
        /\ thread[h].pc # "rename"
    BY <1>3, FinalizingType DEF Move, At, FinalizeStep
  <2>3. CASE CanMove(h)
    <3>1. /\ StagedOf(h) # Absent
          /\ StagedOf(h).nonce = thread[h].new.staging
          /\ blob[FolderOf(h)] = Absent
      BY <2>2, <2>3 DEF FilesOwned, CanMove, StagedOf
    <3>2. /\ blob'[FolderOf(h)] = StagedOf(h)
          /\ \A d \in Dirs \ {FolderOf(h)} : blob'[d] = blob[d]
      BY <1>3, <2>2, <2>3 DEF Move, TypeOK
    <3>3. ASSUME NEW g \in Threads \ {h}, thread[g].pc = "rename"
          PROVE  FolderOf(g) # FolderOf(h) /\ FolderOf(g) \in Dirs
      BY <3>1, <3>3, FinalizingType DEF BlobReserved, FinalizeStep
    <3>4. thread'[h].new = thread[h].new \/ thread'[h].pc # "rename"
      BY <1>3, <2>3, MovingOn DEF Move
    <3>5. QED
      BY <2>1, <3>1, <3>2, <3>3, <3>4 DEF BlobReserved, FolderOf
  <2>4. CASE ~CanMove(h)
    <3>1. thread'[h].pc # "rename" /\ UNCHANGED blob
      BY <1>3, <2>4, MovingOn DEF Move
    <3>2. QED
      BY <1>2, <2>1, <3>1
  <2>5. QED
    BY <2>3, <2>4
<1>4. ASSUME NEW h \in Threads, Rename(h)
      PROVE  BlobReserved'
  <2>1. \A g \in Threads \ {h} : thread'[g] = thread[g]
    BY <1>4, FinalizeShape DEF FinalizeNext
  <2>2. thread[h].pc = "rename" /\ thread'[h].pc # "rename"
    BY <1>4, MovingOn DEF Rename, At
  <2>3. \A g \in Threads \ {h} :
          thread[g].pc = "rename" => FolderOf(g) # FolderOf(h)
    BY <2>2 DEF BlobReserved
  <2>4. \A g \in Threads \ {h} :
          thread[g].pc = "rename" => FolderOf(g) \in Dirs
    BY FinalizingType DEF FinalizeStep
  <2>5. \A d \in Dirs \ {FolderOf(h)} : blob'[d] = blob[d]
    BY <1>4 DEF Rename, TypeOK
  <2>6. QED
    BY <1>2, <2>1, <2>2, <2>3, <2>4, <2>5
<1>5. ASSUME NEW h \in Threads, FinalizeNext(h), ~Move(h), ~Rename(h)
      PROVE  BlobReserved'
  <2>1. UNCHANGED blob
    BY <1>5, OtherFiles
  <2>2. \A g \in Threads \ {h} : thread'[g] = thread[g]
    BY <1>5, FinalizeShape
  <2>3. thread'[h].pc # "rename"
    <3>1. CASE Probe(h)
      <4>1. CASE Succeed(h, FALSE)
        BY <4>1, MovingOn
      <4>2. CASE Goto(h, "checkStaging")
        BY <4>2, MovingOn
      <4>3. QED
        BY <3>1, <4>1, <4>2 DEF Probe
    <3>2. CASE CheckStaging(h)
      BY <3>2, MovingOn DEF CheckStaging
    <3>3. CASE CheckFinal(h)
      <4>1. Goto(h, "move") \/ Goto(h, "discard") \/ Reject(h)
        BY <3>3 DEF CheckFinal
      <4>2. QED
        BY <4>1, MovingOn
    <3>4. CASE Discard(h) \/ Verify(h)
      <4>1. Succeed(h, TRUE) \/ Reject(h)
        BY <3>4 DEF Discard, Verify
      <4>2. QED
        BY <4>1, MovingOn
    <3>5. CASE CallFails(h)
      BY <1>1, <3>5, MovingOn DEF CallFails, TypeOK
    <3>6. QED
      BY <1>5, <3>1, <3>2, <3>3, <3>4, <3>5 DEF FinalizeNext
  <2>4. QED
    BY <1>2, <2>1, <2>2, <2>3
<1>6. ASSUME NEW h \in Threads, Read(h) \/ Commit(h)
      PROVE  BlobReserved'
  BY <1>1, <1>2, <1>6, OtherFiles, ReadShape, CommitShape DEF files
<1>7. CASE Environment
  <2>1. UNCHANGED blob
        /\ \A h \in Threads : thread'[h] = thread[h] \/ thread'[h] = Idle
    BY <1>7 DEF Environment, Upload, Expire, Restart, files
  <2>2. QED
    BY <1>1, <1>2, <2>1
<1>8. CASE UNCHANGED vars
  BY <1>2, <1>8 DEF vars
<1>9. QED
  BY <1>3, <1>4, <1>5, <1>6, <1>7, <1>8 DEF Next

LEMMA NextOutputsOwned ==
  ASSUME TypeOK, OutputsInv, [Next]_vars
  PROVE  OutputsOwned'
<1>1. ASSUME NEW n \in Nonces, NEW t \in Tasks, issued[n] = t
      PROVE  issued'[n] = t
  BY <1>1, IssuedKept, TaskServerAssumption DEF OutputsInv
<1>2. \A p \in Paths : final[p] # Absent => final[p].nonce \in Nonces
  BY DEF TypeOK, File
<1>3. ASSUME NEW p \in Paths, final'[p] = final[p], final[p] # Absent
      PROVE  \E t \in Tasks : issued'[final'[p].nonce] = t /\ p \in OutPaths[t]
  BY <1>1, <1>2, <1>3 DEF OutputsInv, OutputsOwned
<1>4. ASSUME NEW h \in Threads, Rename(h)
      PROVE  OutputsOwned'
  <2>1. /\ thread[h].pc = "rename" /\ Active(h) /\ thread[h].task \in Tasks
        /\ thread[h].op = "complete"
        /\ thread[h].new.staging \in Nonces
        /\ thread[h].new.final \in Paths
    BY <1>4, FinalizingType
    DEF Rename, At, Active, FinalizeStep, OutputsInv, CompleteHasOutput
  <2>2. /\ blob[FolderOf(h)].nonce = thread[h].new.staging
        /\ issued[thread[h].new.staging] = thread[h].task
        /\ thread[h].new.final \in OutPaths[thread[h].task]
    BY <2>1, TaskRowAssumption DEF OutputsInv, BlobReserved, NoncesOwned
  <2>3. \A p \in Paths : \/ final'[p] = final[p]
                        \/ /\ p = thread[h].new.final
                           /\ final'[p] = blob[FolderOf(h)]
    BY <1>4, <2>1 DEF Rename, TypeOK
  <2>4. issued'[thread[h].new.staging] = thread[h].task
    BY <1>1, <2>1, <2>2
  <2>5. QED
    BY <1>3, <2>1, <2>2, <2>3, <2>4 DEF OutputsOwned
<1>5. CASE UNCHANGED final
  BY <1>3, <1>5 DEF OutputsOwned
<1>6. CASE Environment
  BY <1>5, <1>6 DEF Environment, Upload, Expire, Restart, files
<1>7. QED
  BY <1>4, <1>5, <1>6, OtherFiles DEF Next, vars, files

(* Every file at a final path was uploaded for a task that may write that  *)
(* path, although all finalizes of a directory go through one <dir>/blob   *)
(* (OpenListManager.finalize).  BlobReserved is what makes it inductive:   *)
(* move refuses an occupied <dir>/blob, so whoever reaches rename is alone *)
(* there and finds its own upload.                                         *)
THEOREM OutputsOwnedSafe == Spec => []OutputsOwned
<1>1. Init => OutputsInv
  <2>1. Init => OutputSeen /\ NoncesFresh /\ BlobReserved
    BY DEF Init, OutputSeen, NoncesFresh, BlobReserved, Idle
  <2>2. Init => NoncesOwned
    BY DEF Init, NoncesOwned, Active, Idle, NewRow
  <2>3. Init => FilesOwned /\ OutputsOwned
    BY DEF Init, FilesOwned, OutputsOwned
  <2>4. QED
    BY InitBase, <2>1, <2>2, <2>3 DEF OutputsInv
<1>2. TypeOK /\ OutputsInv /\ [Next]_vars => OutputsInv'
  BY NextHasOutput, NextSeen, NextOwned, NextFresh, NextFilesOwned,
     NextReserved, NextOutputsOwned DEF OutputsInv
<1>3. OutputsInv => OutputsOwned
  BY DEF OutputsInv
<1>4. QED
  BY <1>1, <1>2, <1>3, TypeCorrect, PTL DEF Spec

----------------------------------------------------------------------------
(* Requests that do not overlap: with one thread the table is consistent   *)
(* with the files and the audit log, and the handlers implement the atomic *)
(* life cycle.                                                             *)
OneThread == \A g, h \in Threads : g = h

(* A row is still what the request has read, but for the lease, which may  *)
(* have run out meanwhile.                                                 *)
Current(db, r) ==
  \/ db = r
  \/ r.expiry = "live" /\ db = [r EXCEPT !.expiry = "expired"]

Held(r) == r.worker \in Workers /\ r.status # "finalized"

(* What a request in progress is about to make of the row it has read. *)
Plans(c) ==
  \/ c.op = "lease" /\ c.pc = "commit" /\ c.worker \in Workers
       /\ Leasable(c.read) /\ c.new = LeaseRow(c.read, c.worker)
  \/ c.op = "heartbeat" /\ c.pc = "commit"
       /\ Held(c.read) /\ c.new = RenewRow(c.read)
  \/ c.op = "intent" /\ c.pc = "commit" /\ Held(c.read)
       /\ \E n \in Nonces, p \in Paths, a \in OutputAction, s \in Sizes :
            c.new = IntentRow(c.read, n, p, a, s)
  \/ c.op = "skip" /\ c.pc = "commit" /\ Held(c.read)
       /\ \E s \in Sizes : c.new = SkipRow(c.read, s)
  \/ c.op = "complete" /\ c.pc # "commit" /\ Held(c.read) /\ c.new = c.read
  \/ c.op = "complete" /\ c.pc = "commit" /\ Held(c.read)
       /\ c.new \in {DoneRow(c.read), FailedRow(c.read)}
  \/ c.op = "fail" /\ c.pc = "commit" /\ Held(c.read)
       /\ \E b \in BOOLEAN : c.new = FailRow(c.read, b)
  \/ c.op = "requeue" /\ c.pc = "commit" /\ c.read.status # "finalized"
       /\ \E b \in BOOLEAN : c.new = RequeueRow(c.read, b)

(* A request in progress works on the row as it is. *)
InStep ==
  \A h \in Threads : Active(h) =>
    /\ Current(row[thread[h].task], thread[h].read)
    /\ Plans(thread[h])
    /\ thread[h].logs => thread[h].new.status = "finalized"

SerialInv ==
  /\ TypeOK /\ CompleteHasOutput /\ OutputSeen
  /\ InStep
  /\ LeaseColumns /\ FinalizedBacked /\ AuditAgrees

----------------------------------------------------------------------------
(* What a request has planned is no longer touched by others. *)

LEMMA AcceptInStep ==
  ASSUME OneThread, TypeOK, NEW h \in Threads, NEW o, NEW t \in Tasks,
         NEW w, NEW new, NEW logs, NEW pc,
         Accept(h, o, t, w, new, logs, pc),
         Plans([pc |-> pc, op |-> o, task |-> t, worker |-> w,
                read |-> row[t], new |-> new, logs |-> logs]),
         logs => new.status = "finalized"
  PROVE  InStep'
<1> DEFINE c == [pc |-> pc, op |-> o, task |-> t, worker |-> w,
                 read |-> row[t], new |-> new, logs |-> logs]
<1>1. /\ thread'[h] = c /\ row' = row /\ \A g \in Threads : g = h
      /\ c.task = t /\ c.read = row[t] /\ c.new = new /\ c.logs = logs
  BY DEF Accept, TypeOK, OneThread
<1>2. Plans(c)
  OBVIOUS
<1> HIDE DEF c
<1>3. Plans(thread'[h])
  BY <1>1, <1>2
<1>4. Current(row'[t], row[t])
  BY <1>1 DEF Current
<1>5. QED
  BY <1>1, <1>3, <1>4 DEF InStep, Active, Plans

LEMMA ReadInStep ==
  ASSUME OneThread, TypeOK, NEW h \in Threads, Read(h)
  PROVE  InStep'
<1>1. ASSUME NEW w \in Workers, NEW t \in Tasks, Lease(h, w, t)
      PROVE  InStep'
  BY <1>1, AcceptInStep DEF Lease, Plans
<1>2. ASSUME NEW w \in Workers, NEW t \in Tasks, Heartbeat(h, w, t)
      PROVE  InStep'
  BY <1>2, AcceptInStep DEF Heartbeat, Plans, Holds, Held
<1>3. ASSUME NEW w \in Workers, NEW t \in Tasks, NEW n \in Nonces, NEW p \in Paths,
             NEW a \in OutputAction, NEW s \in Sizes, UploadIntent(h, w, t, n, p, a, s)
      PROVE  InStep'
  BY <1>3, AcceptInStep DEF UploadIntent, Plans, Holds, Held
<1>4. ASSUME NEW w \in Workers, NEW t \in Tasks, NEW s \in Sizes, CompleteSkip(h, w, t, s)
      PROVE  InStep'
  <2>1. SkipRow(row[t], s).status = "finalized"
    BY DEF TypeOK, SkipRow, DropLease, ForgetOutput, Row
  <2>2. QED
    BY <1>4, <2>1, AcceptInStep DEF CompleteSkip, Plans, Holds, Held
<1>5. ASSUME NEW w \in Workers, NEW t \in Tasks, Complete(h, w, t)
      PROVE  InStep'
  BY <1>5, AcceptInStep DEF Complete, Plans, Holds, Held
<1>6. ASSUME NEW w \in Workers, NEW t \in Tasks, NEW b \in BOOLEAN, Fail(h, w, t, b)
      PROVE  InStep'
  BY <1>6, AcceptInStep DEF Fail, Plans, Holds, Held
<1>7. ASSUME NEW t \in Tasks, NEW b \in BOOLEAN, Requeue(h, t, b)
      PROVE  InStep'
  BY <1>7, AcceptInStep DEF Requeue, Plans
<1>8. QED
  BY <1>1, <1>2, <1>3, <1>4, <1>5, <1>6, <1>7 DEF Read

LEMMA FinalizeInStep ==
  ASSUME OneThread, SerialInv, NEW h \in Threads, FinalizeNext(h)
  PROVE  InStep'
<1>1. /\ UNCHANGED row /\ thread[h].pc \in FinalizeStep \cup {"probe"}
      /\ \A g \in Threads : g = h
      /\ TypeOK /\ thread[h] \in Thread
  BY FinalizeShape DEF SerialInv, OneThread, TypeOK
<1>2. /\ thread[h].op = "complete" /\ Held(thread[h].read)
      /\ thread[h].new = thread[h].read
      /\ ~thread[h].logs
      /\ Current(row[thread[h].task], thread[h].read)
  <2>1. Active(h) /\ thread[h].op = "complete" /\ thread[h].pc # "commit"
    BY <1>1 DEF SerialInv, CompleteHasOutput, Active, FinalizeStep
  <2>2. Plans(thread[h]) /\ (thread[h].logs => thread[h].new.status = "finalized")
        /\ Current(row[thread[h].task], thread[h].read)
    BY <2>1 DEF SerialInv, InStep
  <2>3. Held(thread[h].read) /\ thread[h].new = thread[h].read
    BY <2>1, <2>2 DEF Plans
  <2>4. QED
    BY <2>1, <2>2, <2>3 DEF Held
<1>3. ASSUME NEW pc \in FinalizeStep, Goto(h, pc)
      PROVE  InStep'
  <2>1. /\ thread'[h].pc = pc /\ thread'[h].op = thread[h].op
        /\ thread'[h].task = thread[h].task /\ thread'[h].read = thread[h].read
        /\ thread'[h].new = thread[h].new /\ thread'[h].logs = thread[h].logs
    BY <1>1, <1>3 DEF Goto, TypeOK, Thread
  <2>2. QED
    BY <1>1, <1>2, <2>1 DEF InStep, Plans, FinalizeStep
<1>4. ASSUME NEW logs \in BOOLEAN, Succeed(h, logs)
      PROVE  InStep'
  <2>1. /\ thread'[h].pc = "commit" /\ thread'[h].op = thread[h].op
        /\ thread'[h].task = thread[h].task /\ thread'[h].read = thread[h].read
        /\ thread'[h].new = DoneRow(thread[h].new)
    BY <1>1, <1>4 DEF Succeed, TypeOK, Thread
  <2>2. DoneRow(thread[h].new).status = "finalized"
    BY <1>1 DEF DoneRow, DropLease, Thread, Row
  <2>3. QED
    BY <1>1, <1>2, <2>1, <2>2 DEF InStep, Plans
<1>5. ASSUME Reject(h)
      PROVE  InStep'
  <2>1. /\ thread'[h].pc = "commit" /\ thread'[h].op = thread[h].op
        /\ thread'[h].task = thread[h].task /\ thread'[h].read = thread[h].read
        /\ thread'[h].new = FailedRow(thread[h].new)
        /\ thread'[h].logs = thread[h].logs
    BY <1>1, <1>5 DEF Reject, TypeOK, Thread
  <2>2. QED
    BY <1>1, <1>2, <2>1 DEF InStep, Plans
<1>6. ASSUME thread' = [thread EXCEPT ![h] = Idle]
      PROVE  InStep'
  BY <1>1, <1>6 DEF InStep, Active, Idle, TypeOK
<1>7. QED
  BY <1>3, <1>4, <1>5, <1>6 DEF FinalizeNext, Probe, CheckStaging, CheckFinal,
     Discard, Move, Rename, Verify, CallFails, FinalizeStep

----------------------------------------------------------------------------
(* A commit with nobody in between writes what the request has planned,    *)
(* except that a lease it does not look at may have run out.               *)

Consistent(r) ==
  /\ r.worker # NoWorker <=> r.status \in {"leased", "failed"}
  /\ r.expiry # "none" <=> r.worker # NoWorker

LEMMA SerialFlush ==
  ASSUME NEW db \in Row, NEW r \in Row, NEW new \in Row, NEW b \in BOOLEAN,
         Current(db, r)
  PROVE  LET f == Flush(db, r, new, b) IN
         /\ f.status = new.status /\ f.worker = new.worker
         /\ f.attempts = new.attempts
         /\ f.final = new.final /\ f.action = new.action /\ f.size = new.size
         /\ f.expiry # "none" <=> new.expiry # "none"
         /\ b => f.expiry = new.expiry
         /\ ~b /\ new.expiry = r.expiry => f.expiry = db.expiry
<1>1. CASE db = r
  BY <1>1 DEF Flush, Changed, Row
<1>2. CASE r.expiry = "live" /\ db = [r EXCEPT !.expiry = "expired"]
  <2>1. /\ db.status = r.status /\ db.worker = r.worker /\ db.attempts = r.attempts
        /\ db.final = r.final /\ db.action = r.action /\ db.size = r.size
        /\ db.expiry = "expired" /\ r.expiry = "live"
    BY <1>2 DEF Row
  <2>2. QED
    BY <2>1 DEF Flush, Changed
<1>3. QED
  BY <1>1, <1>2 DEF Current

(* What a row becomes is consistent when the row was. *)
LEMMA PlanConsistent ==
  ASSUME NEW c \in Thread, Plans(c), c.pc = "commit", Consistent(c.read)
  PROVE  Consistent(c.new)
<1>1. c.read \in Row /\ NoWorker \notin Workers
  BY TaskRowAssumption DEF Thread
<1>2. ASSUME c.worker \in Workers, c.new = LeaseRow(c.read, c.worker)
      PROVE  Consistent(c.new)
  BY <1>1, <1>2 DEF LeaseRow, ForgetOutput, Row, Consistent
<1>3. ASSUME Held(c.read), c.new = RenewRow(c.read)
      PROVE  Consistent(c.new)
  BY <1>1, <1>3 DEF RenewRow, Row, Consistent, Held
<1>4. ASSUME NEW n \in Nonces, NEW p \in Paths, NEW a \in OutputAction, NEW s \in Sizes,
             c.new = IntentRow(c.read, n, p, a, s)
      PROVE  Consistent(c.new)
  BY <1>1, <1>4 DEF IntentRow, Row, Consistent
<1>5. ASSUME NEW s \in Sizes, c.new = SkipRow(c.read, s)
      PROVE  Consistent(c.new)
  BY <1>1, <1>5 DEF SkipRow, DropLease, ForgetOutput, Row, Consistent
<1>6. ASSUME c.new = DoneRow(c.read)
      PROVE  Consistent(c.new)
  BY <1>1, <1>6 DEF DoneRow, DropLease, Row, Consistent
<1>7. ASSUME Held(c.read), c.new = FailedRow(c.read)
      PROVE  Consistent(c.new)
  BY <1>1, <1>7 DEF FailedRow, Row, Consistent, Held
<1>8. ASSUME NEW b \in BOOLEAN, c.new = FailRow(c.read, b)
      PROVE  Consistent(c.new)
  BY <1>1, <1>8 DEF FailRow, DropLease, ForgetOutput, Row, Consistent
<1>9. ASSUME NEW b \in BOOLEAN, c.new = RequeueRow(c.read, b)
      PROVE  Consistent(c.new)
  BY <1>1, <1>9 DEF RequeueRow, DropLease, ForgetOutput, Row, Consistent
<1>10. QED
  BY <1>2, <1>3, <1>4, <1>5, <1>6, <1>7, <1>8, <1>9 DEF Plans

LEMMA CommitFacts ==
  ASSUME SerialInv, NEW h \in Threads, Commit(h)
  PROVE  LET c == thread[h] IN
         /\ c \in Thread /\ c.read \in Row /\ c.new \in Row
         /\ c.task \in Tasks /\ c.pc = "commit"
         /\ Plans(c) /\ Current(row[c.task], c.read)
         /\ c.read.status = row[c.task].status /\ c.read.status # "finalized"
         /\ c.read.worker = row[c.task].worker
         /\ Consistent(c.read) /\ Consistent(c.new)
         /\ row' = [row EXCEPT ![c.task] = Flush(@, c.read, c.new, Renews(h))]
         /\ row[c.task] \in Row
<1> DEFINE c == thread[h]
<1>1. /\ c.pc = "commit" /\ Active(h) /\ c \in Thread
      /\ row' = [row EXCEPT ![c.task] = Flush(@, c.read, c.new, Renews(h))]
  BY DEF Commit, At, Active, SerialInv, TypeOK
<1>2. c.read \in Row /\ c.new \in Row /\ c.task \in Tasks
  BY <1>1 DEF SerialInv, CompleteHasOutput, Thread
<1>3. Plans(c) /\ Current(row[c.task], c.read)
  BY <1>1 DEF SerialInv, InStep
<1>4. row[c.task] \in Row /\ Consistent(row[c.task])
  BY <1>2 DEF SerialInv, TypeOK, LeaseColumns, Consistent
<1>5. /\ c.read.status = row[c.task].status
      /\ c.read.worker = row[c.task].worker
      /\ c.read.expiry # "none" <=> row[c.task].expiry # "none"
  BY <1>2, <1>3 DEF Current, Row
<1>6. Consistent(c.read)
  BY <1>4, <1>5 DEF Consistent
<1>7. c.read.status # "finalized"
  BY <1>3 DEF Plans, Held, Leasable
<1>8. Consistent(c.new)
  BY <1>1, <1>3, <1>6, PlanConsistent
<1>9. QED
  BY <1>1, <1>2, <1>3, <1>4, <1>5, <1>6, <1>7, <1>8

(* Success is recorded by skip and complete only, and by complete only     *)
(* with the output it has seen.                                            *)
LEMMA PlanFinalized ==
  ASSUME NEW c \in Thread, Plans(c), c.pc = "commit", c.new.status = "finalized"
  PROVE  c.new.action = "skip" \/ c.op = "complete"
<1>1. c.read \in Row
  BY DEF Thread
<1>2. \A w \in Workers : LeaseRow(c.read, w).status # "finalized"
  BY <1>1 DEF LeaseRow, ForgetOutput, Row
<1>3. RenewRow(c.read).status = c.read.status
  BY <1>1 DEF RenewRow, Row
<1>4. \A n \in Nonces, p \in Paths, a \in OutputAction, s \in Sizes :
        IntentRow(c.read, n, p, a, s).status = c.read.status
  BY <1>1 DEF IntentRow, Row
<1>5. \A s \in Sizes : SkipRow(c.read, s).action = "skip"
  BY <1>1 DEF SkipRow, DropLease, ForgetOutput, Row
<1>6. \A b \in BOOLEAN : FailRow(c.read, b).status # "finalized"
  BY <1>1 DEF FailRow, DropLease, ForgetOutput, Row
<1>7. \A b \in BOOLEAN : RequeueRow(c.read, b).status # "finalized"
  BY <1>1 DEF RequeueRow, DropLease, ForgetOutput, Row
<1>8. QED
  BY <1>2, <1>3, <1>4, <1>5, <1>6, <1>7 DEF Plans, Held

LEMMA CommitSerial ==
  ASSUME OneThread, SerialInv, NEW h \in Threads, Commit(h)
  PROVE  InStep' /\ LeaseColumns' /\ FinalizedBacked' /\ AuditAgrees'
<1> DEFINE c == thread[h]
           t == c.task
           f == Flush(row[t], c.read, c.new, Renews(h))
<1>1. /\ c \in Thread /\ c.read \in Row /\ c.new \in Row /\ t \in Tasks
      /\ c.pc = "commit" /\ Plans(c) /\ Current(row[t], c.read)
      /\ row[t].status # "finalized" /\ row[t] \in Row
      /\ Consistent(c.new) /\ row' = [row EXCEPT ![t] = f]
  BY CommitFacts
<1>2. Renews(h) \in BOOLEAN
  BY DEF Renews
<1>3. /\ f.status = c.new.status /\ f.worker = c.new.worker
      /\ f.final = c.new.final /\ f.action = c.new.action /\ f.size = c.new.size
      /\ f.expiry # "none" <=> c.new.expiry # "none"
  BY <1>1, <1>2, SerialFlush
<1>4. /\ final' = final /\ thread' = [thread EXCEPT ![h] = Idle]
      /\ audit' = IF c.logs THEN audit \cup {t} ELSE audit
  BY DEF Commit, files
<1>5. row'[t] = f /\ \A u \in Tasks : u # t => row'[u] = row[u]
  BY <1>1 DEF SerialInv, TypeOK
<1>6. c.logs => c.new.status = "finalized"
  BY <1>1 DEF SerialInv, InStep, Active
<1>7. c.op = "complete" /\ c.new.status = "finalized" =>
        /\ c.new.final # NoPath
        /\ final[c.new.final] # Absent /\ final[c.new.final].size = c.new.size
  BY DEF SerialInv, CompleteHasOutput, HasOutput, OutputSeen, HasSize, FinalOf
<1> HIDE DEF f, t, c
<1>8. InStep'
  BY <1>4 DEF InStep, Active, Idle, OneThread, SerialInv, TypeOK
<1>9. LeaseColumns'
  BY <1>1, <1>3, <1>5 DEF LeaseColumns, Consistent, SerialInv
<1>10. FinalizedBacked'
  <2>1. f.status = "finalized" /\ f.action # "skip" =>
          /\ f.final # NoPath
          /\ final[f.final] # Absent /\ final[f.final].size = f.size
    BY <1>1, <1>3, <1>7, PlanFinalized
  <2>2. QED
    BY <1>4, <1>5, <2>1 DEF FinalizedBacked, SerialInv
<1>11. AuditAgrees'
  <2>1. \A u \in audit : u \in Tasks /\ row[u].status = "finalized"
    BY DEF AuditAgrees, SerialInv, TypeOK
  <2>2. \A u \in audit : row'[u].status = "finalized"
    BY <1>1, <1>5, <2>1
  <2>3. QED
    BY <1>3, <1>4, <1>5, <1>6, <2>2 DEF AuditAgrees
<1>12. QED
  BY <1>8, <1>9, <1>10, <1>11

(* Steps that do not write the table. *)
LEMMA SameTable ==
  ASSUME SerialInv, [Next]_vars, UNCHANGED <<row, audit>>
  PROVE  LeaseColumns' /\ FinalizedBacked' /\ AuditAgrees'
<1>1. LeaseColumns' /\ AuditAgrees'
  BY DEF SerialInv, LeaseColumns, AuditAgrees
<1>2. ASSUME NEW u \in Tasks, row[u].status = "finalized", row[u].action # "skip"
      PROVE  /\ row[u].final # NoPath
             /\ final'[row[u].final] # Absent
             /\ final'[row[u].final].size = row[u].size
  <2>1. /\ row[u].final # NoPath /\ final[row[u].final] # Absent
        /\ final[row[u].final].size = row[u].size
    BY <1>2 DEF SerialInv, FinalizedBacked
  <2>2. row[u].final \in Paths
    BY <2>1 DEF SerialInv, TypeOK, Row
  <2>3. final'[row[u].final] = final[row[u].final]
    BY <2>1, <2>2, FinalKept DEF SerialInv
  <2>4. QED
    BY <2>1, <2>3
<1>3. QED
  BY <1>1, <1>2 DEF FinalizedBacked

LEMMA ExpireSerial ==
  ASSUME OneThread, SerialInv, NEW t \in Tasks, Expire(t)
  PROVE  InStep' /\ LeaseColumns' /\ FinalizedBacked' /\ AuditAgrees'
<1>1. /\ row \in [Tasks -> Row] /\ row[t] \in Row /\ row[t].expiry = "live"
      /\ row' = [row EXCEPT ![t].expiry = "expired"]
      /\ UNCHANGED <<thread, final, audit>>
  BY DEF SerialInv, TypeOK, Expire, files
<1>2. /\ row'[t] = [row[t] EXCEPT !.expiry = "expired"]
      /\ \A u \in Tasks : u # t => row'[u] = row[u]
  BY <1>1
<1>3. /\ row'[t].status = row[t].status /\ row'[t].worker = row[t].worker
      /\ row'[t].final = row[t].final /\ row'[t].size = row[t].size
      /\ row'[t].action = row[t].action /\ row'[t].expiry = "expired"
  BY <1>1, <1>2 DEF Row
<1>4. InStep'
  <2>1. ASSUME NEW h \in Threads, Active(h)
        PROVE  Current(row'[thread[h].task], thread[h].read)
    <3>1. Current(row[thread[h].task], thread[h].read) /\ thread[h].task \in Tasks
      BY <2>1 DEF SerialInv, InStep, CompleteHasOutput
    <3>2. CASE thread[h].task # t
      BY <1>2, <3>1, <3>2
    <3>3. CASE thread[h].task = t
      <4>1. thread[h].read \in Row
        BY DEF SerialInv, TypeOK, Thread
      <4>2. row[t] = thread[h].read
        BY <1>1, <3>1, <3>3, <4>1 DEF Current, Row
      <4>3. QED
        BY <1>1, <1>2, <3>3, <4>2 DEF Current
    <3>4. QED
      BY <3>2, <3>3
  <2>2. QED
    BY <1>1, <2>1 DEF SerialInv, InStep, Active
<1>5. LeaseColumns'
  BY <1>1, <1>2, <1>3 DEF SerialInv, LeaseColumns
<1>6. FinalizedBacked'
  BY <1>1, <1>2, <1>3 DEF SerialInv, FinalizedBacked
<1>7. AuditAgrees'
  BY <1>1, <1>2, <1>3 DEF SerialInv, AuditAgrees, TypeOK
<1>8. QED
  BY <1>4, <1>5, <1>6, <1>7

LEMMA RestartSerial ==
  ASSUME SerialInv, NEW S \in SUBSET Tasks, NEW reset \in BOOLEAN, Restart(S, reset)
  PROVE  InStep' /\ LeaseColumns' /\ FinalizedBacked' /\ AuditAgrees'
<1>1. /\ \A t \in S : row[t].status # "finalized"
      /\ UNCHANGED <<final, audit>>
      /\ \A h \in Threads : thread'[h] = Idle
      /\ \A t \in Tasks : row'[t] = IF t \in S THEN RequeueRow(row[t], reset)
                                               ELSE row[t]
  BY DEF Restart, files
<1>2. \A t \in S : /\ row'[t].status = "queued" /\ row'[t].worker = NoWorker
                   /\ row'[t].expiry = "none"
  <2>1. \A r \in Row : /\ RequeueRow(r, reset).status = "queued"
                       /\ RequeueRow(r, reset).worker = NoWorker
                       /\ RequeueRow(r, reset).expiry = "none"
    BY DEF RequeueRow, DropLease, ForgetOutput, Row
  <2>2. QED
    BY <1>1, <2>1 DEF SerialInv, TypeOK
<1>3. InStep'
  BY <1>1 DEF InStep, Active, Idle
<1>4. LeaseColumns'
  BY <1>1, <1>2 DEF SerialInv, LeaseColumns
<1>5. FinalizedBacked'
  BY <1>1, <1>2 DEF SerialInv, FinalizedBacked
<1>6. AuditAgrees'
  BY <1>1, <1>2 DEF SerialInv, AuditAgrees, TypeOK
<1>7. QED
  BY <1>3, <1>4, <1>5, <1>6

LEMMA SerialNext ==
  ASSUME OneThread, SerialInv, [Next]_vars
  PROVE  SerialInv'
<1>1. (TypeOK /\ CompleteHasOutput /\ OutputSeen)'
  BY NextType, NextHasOutput, NextSeen DEF SerialInv
<1>2. ASSUME NEW h \in Threads, Read(h)
      PROVE  (InStep /\ LeaseColumns /\ FinalizedBacked /\ AuditAgrees)'
  BY <1>2, ReadShape, ReadInStep, SameTable DEF SerialInv
<1>3. ASSUME NEW h \in Threads, FinalizeNext(h)
      PROVE  (InStep /\ LeaseColumns /\ FinalizedBacked /\ AuditAgrees)'
  BY <1>3, FinalizeShape, FinalizeInStep, SameTable DEF SerialInv
<1>4. ASSUME NEW h \in Threads, Commit(h)
      PROVE  (InStep /\ LeaseColumns /\ FinalizedBacked /\ AuditAgrees)'
  BY <1>4, CommitSerial
<1>5. ASSUME NEW n \in Nonces, NEW s \in Sizes, Upload(n, s)
      PROVE  (InStep /\ LeaseColumns /\ FinalizedBacked /\ AuditAgrees)'
  <2>1. UNCHANGED <<row, thread, audit>>
    BY <1>5 DEF Upload
  <2>2. InStep'
    BY <2>1 DEF SerialInv, InStep, Active
  <2>3. QED
    BY <2>1, <2>2, SameTable
<1>6. CASE UNCHANGED vars
  <2>1. UNCHANGED <<row, thread, audit>>
    BY <1>6 DEF vars
  <2>2. InStep'
    BY <2>1 DEF SerialInv, InStep, Active
  <2>3. QED
    BY <1>1, <2>1, <2>2, SameTable DEF SerialInv
<1>7. QED
  BY <1>1, <1>2, <1>3, <1>4, <1>5, <1>6, ExpireSerial, RestartSerial
  DEF Next, Environment, SerialInv

LEMMA SerialInit == Init => SerialInv
<1> SUFFICES ASSUME Init
             PROVE  SerialInv
  OBVIOUS
<1>1. TypeOK /\ CompleteHasOutput
  BY InitBase
<1>2. OutputSeen /\ InStep
  BY DEF Init, OutputSeen, InStep, Active, Idle
<1>3. LeaseColumns /\ FinalizedBacked /\ AuditAgrees
  BY DEF Init, NewRow, LeaseColumns, FinalizedBacked, AuditAgrees
<1>4. QED
  BY <1>1, <1>2, <1>3 DEF SerialInv

THEOREM Serial == ASSUME OneThread PROVE Spec => []SerialInv
<1>1. SerialInv /\ [Next]_vars => SerialInv'
  BY SerialNext
<1>2. QED
  BY <1>1, SerialInit, PTL DEF Spec

(* A row carries a lease exactly while it is leased or has failed, for     *)
(* every handler (the assignments to leased_by_worker_id and               *)
(* lease_expires_at in api.py).                                            *)
THEOREM LeaseColumnsSafe == ASSUME OneThread PROVE Spec => []LeaseColumns
<1>1. SerialInv => LeaseColumns
  BY DEF SerialInv
<1>2. QED
  BY <1>1, Serial, PTL

(* A row that is finalized with an output has a file of its size at its    *)
(* final path, for ever (complete_task, OpenListManager.finalize).         *)
THEOREM FinalizedBackedSafe == ASSUME OneThread PROVE Spec => []FinalizedBacked
<1>1. SerialInv => FinalizedBacked
  BY DEF SerialInv
<1>2. QED
  BY <1>1, Serial, PTL

(* A task with a successful attempt in the audit log stays finalized,      *)
(* whatever requeues and restarts follow (complete_task, fail_task,        *)
(* admin_requeue_task, --requeue-failed-on-startup).                       *)
THEOREM AuditSafe == ASSUME OneThread PROVE Spec => []AuditAgrees
<1>1. SerialInv => AuditAgrees
  BY DEF SerialInv
<1>2. QED
  BY <1>1, Serial, PTL

----------------------------------------------------------------------------
(* The refinement, step by step: the commit of a request is the step of    *)
(* the life cycle, everything before it is none.                           *)

LEMMA LifeOf ==
  ASSUME NEW r
  PROVE  /\ r.status = "queued" => Life(r) = "waiting"
         /\ r.status \in {"leased", "failed"} => Life(r) = "held"
         /\ r.status = "finalized" => Life(r) = "done"
         /\ r.status = "deadletter" => Life(r) = "dead"
BY DEF Life

LEMMA LifeInit == Init => Lifecycle!Init
<1> SUFFICES ASSUME Init
             PROVE  Lifecycle!Init
  OBVIOUS
<1>1. \A t \in Tasks : row[t].status = "queued" /\ row[t].worker = NoWorker
                     /\ row[t].expiry = "none" /\ row[t].attempts = 0
  BY DEF Init, NewRow
<1>2. \A t \in Tasks : Life(row[t]) = "waiting"
  BY <1>1, LifeOf
<1>3. [t \in Tasks |-> Life(row[t])] = [t \in Tasks |-> "waiting"]
  BY <1>2
<1>4. [t \in Tasks |-> row[t].worker] = [t \in Tasks |-> NoWorker]
  BY <1>1
<1>5. [t \in Tasks |-> row[t].expiry = "expired"] = [t \in Tasks |-> FALSE]
  <2>1. \A t \in Tasks : (row[t].expiry = "expired") = FALSE
    BY <1>1
  <2>2. QED
    BY <2>1
<1>6. [t \in Tasks |-> row[t].attempts] = [t \in Tasks |-> 0]
  BY <1>1
<1>7. QED
  BY <1>3, <1>4, <1>5, <1>6 DEF Lifecycle!Init

(* The life cycle does not see it. *)
LEMMA LifeStutter ==
  ASSUME \A t \in Tasks :
           /\ Life(row'[t]) = Life(row[t]) /\ row'[t].worker = row[t].worker
           /\ row'[t].expiry = "expired" <=> row[t].expiry = "expired"
           /\ row'[t].attempts = row[t].attempts
  PROVE  UNCHANGED Lifecycle!lifeVars
BY DEF Lifecycle!lifeVars

(* One row changes, to what the life cycle makes of it. *)
LEMMA LifeOne ==
  ASSUME NEW t \in Tasks, \A u \in Tasks : u # t => row'[u] = row[u]
  PROVE  LET life     == [u \in Tasks |-> Life(row[u])]
             holder   == [u \in Tasks |-> row[u].worker]
             lapsed   == [u \in Tasks |-> row[u].expiry = "expired"]
             attempts == [u \in Tasks |-> row[u].attempts]
         IN /\ life' = [life EXCEPT ![t] = Life(row'[t])]
            /\ holder' = [holder EXCEPT ![t] = row'[t].worker]
            /\ lapsed' = [lapsed EXCEPT ![t] = (row'[t].expiry = "expired")]
            /\ attempts' = [attempts EXCEPT ![t] = row'[t].attempts]
<1>1. \A u \in Tasks : u # t => Life(row'[u]) = Life(row[u])
  OBVIOUS
<1>2. QED
  BY <1>1

LEMMA LifeExpire ==
  ASSUME SerialInv, NEW t \in Tasks, Expire(t)
  PROVE  Lifecycle!Lapse(t)
<1>1. /\ row \in [Tasks -> Row] /\ row[t] \in Row /\ row[t].expiry = "live"
      /\ row' = [row EXCEPT ![t].expiry = "expired"]
  BY DEF SerialInv, TypeOK, Expire
<1>2. /\ row'[t] = [row[t] EXCEPT !.expiry = "expired"]
      /\ \A u \in Tasks : u # t => row'[u] = row[u]
  BY <1>1
<1>3. /\ row'[t].status = row[t].status /\ row'[t].worker = row[t].worker
      /\ row'[t].attempts = row[t].attempts /\ row'[t].expiry = "expired"
  BY <1>1, <1>2 DEF Row
<1>4. row[t].status \in {"leased", "failed"}
  BY <1>1 DEF SerialInv, LeaseColumns
<1>5. Life(row[t]) = "held" /\ Life(row'[t]) = "held"
  BY <1>3, <1>4, LifeOf
<1>6. QED
  <2> DEFINE life     == [u \in Tasks |-> Life(row[u])]
             holder   == [u \in Tasks |-> row[u].worker]
             lapsed   == [u \in Tasks |-> row[u].expiry = "expired"]
             attempts == [u \in Tasks |-> row[u].attempts]
  <2>1. /\ life' = [life EXCEPT ![t] = Life(row'[t])]
        /\ holder' = [holder EXCEPT ![t] = row'[t].worker]
        /\ lapsed' = [lapsed EXCEPT ![t] = (row'[t].expiry = "expired")]
        /\ attempts' = [attempts EXCEPT ![t] = row'[t].attempts]
    BY <1>2, LifeOne
  <2>2. life[t] = "held"
    BY <1>5
  <2>3. life' = life
    BY <1>2, <1>5
  <2>4. holder' = holder /\ attempts' = attempts
    BY <1>2, <1>3
  <2>5. lapsed' = [lapsed EXCEPT ![t] = TRUE]
    <3>1. (row'[t].expiry = "expired") = TRUE
      BY <1>3
    <3>2. QED
      BY <2>1, <3>1
  <2>6. QED
    BY <2>2, <2>3, <2>4, <2>5 DEF Lifecycle!Lapse

LEMMA LifeRestart ==
  ASSUME SerialInv, NEW S \in SUBSET Tasks, NEW reset \in BOOLEAN, Restart(S, reset)
  PROVE  Lifecycle!Requeue(S)
<1>1. /\ \A t \in S : row[t].status \in {"failed", "deadletter"}
      /\ \A t \in Tasks : row'[t] = IF t \in S THEN RequeueRow(row[t], reset)
                                               ELSE row[t]
  BY DEF Restart
<1>2. \A t \in S : /\ row'[t].status = "queued" /\ row'[t].worker = NoWorker
                   /\ row'[t].expiry = "none"
                   /\ row'[t].attempts = IF reset THEN 0 ELSE row[t].attempts
  <2>1. \A r \in Row : /\ RequeueRow(r, reset).status = "queued"
                       /\ RequeueRow(r, reset).worker = NoWorker
                       /\ RequeueRow(r, reset).expiry = "none"
                       /\ RequeueRow(r, reset).attempts = IF reset THEN 0 ELSE r.attempts
    BY DEF RequeueRow, DropLease, ForgetOutput, Row
  <2>2. QED
    BY <1>1, <2>1 DEF SerialInv, TypeOK
<1>3. \A t \in S : Life(row[t]) # "done" /\ Life(row'[t]) = "waiting"
  BY <1>1, <1>2, LifeOf
<1>4. \A t \in Tasks : t \notin S => row'[t] = row[t]
  BY <1>1
<1>5. QED
  BY <1>2, <1>3, <1>4 DEF Lifecycle!Requeue

(* What a commit does to a row, as far as the life cycle goes. *)
LEMMA LifeCommitFacts ==
  ASSUME SerialInv, NEW h \in Threads, Commit(h)
  PROVE  LET c == thread[h]
             old == row[c.task]
             new == row'[c.task]
         IN /\ c.task \in Tasks /\ Plans(c) /\ c.pc = "commit" /\ c.read \in Row
            /\ \A u \in Tasks : u # c.task => row'[u] = row[u]
            /\ c.read.status = old.status /\ c.read.worker = old.worker
            /\ c.read.attempts = old.attempts
            /\ c.read.expiry = "expired" => old.expiry = "expired"
            /\ Held(c.read) => Life(old) = "held"
            /\ new.status = c.new.status /\ new.worker = c.new.worker
            /\ new.attempts = c.new.attempts
            /\ c.op \in {"lease", "heartbeat"} => new.expiry = c.new.expiry
            /\ c.op \notin {"lease", "heartbeat"} /\ c.new.expiry = c.read.expiry
                 => new.expiry = old.expiry
            /\ c.new.expiry = "none" => new.expiry = "none"
<1> DEFINE c == thread[h]
           f == Flush(row[c.task], c.read, c.new, Renews(h))
<1>1. /\ c \in Thread /\ c.read \in Row /\ c.new \in Row
      /\ c.task \in Tasks /\ c.pc = "commit"
      /\ Plans(c) /\ Current(row[c.task], c.read)
      /\ c.read.status = row[c.task].status
      /\ c.read.worker = row[c.task].worker
      /\ Consistent(c.read) /\ Consistent(c.new)
      /\ row' = [row EXCEPT ![c.task] = f]
      /\ row[c.task] \in Row
  BY CommitFacts
<1>2. Renews(h) \in BOOLEAN /\ (Renews(h) <=> c.op \in {"lease", "heartbeat"})
  BY DEF Renews
<1>3. /\ f.status = c.new.status /\ f.worker = c.new.worker
      /\ f.attempts = c.new.attempts
      /\ f.expiry # "none" <=> c.new.expiry # "none"
      /\ Renews(h) => f.expiry = c.new.expiry
      /\ ~Renews(h) /\ c.new.expiry = c.read.expiry => f.expiry = row[c.task].expiry
  BY <1>1, <1>2, SerialFlush
<1>4. /\ c.read.attempts = row[c.task].attempts
      /\ c.read.expiry = "expired" => row[c.task].expiry = "expired"
  BY <1>1 DEF Current, Row
<1>5. row'[c.task] = f /\ \A u \in Tasks : u # c.task => row'[u] = row[u]
  <2> HIDE DEF f, c
  <2>1. QED
    BY <1>1 DEF SerialInv, TypeOK
<1>6. Held(c.read) => Life(row[c.task]) = "held"
  BY <1>1, LifeOf, TaskRowAssumption DEF Held, Consistent
<1> HIDE DEF f, c
<1>7. QED
  BY <1>1, <1>2, <1>3, <1>4, <1>5, <1>6 DEF c

(* A step of the life cycle that takes one task from its worker. *)
LEMMA LifeLeave ==
  ASSUME NEW t \in Tasks, \A u \in Tasks : u # t => row'[u] = row[u],
         row'[t].worker = NoWorker, row'[t].expiry = "none",
         NEW to, Life(row'[t]) = to
  PROVE  Lifecycle!Leave(t, to)
<1> DEFINE life     == [u \in Tasks |-> Life(row[u])]
           holder   == [u \in Tasks |-> row[u].worker]
           lapsed   == [u \in Tasks |-> row[u].expiry = "expired"]
<1>1. /\ life' = [life EXCEPT ![t] = to]
      /\ holder' = [holder EXCEPT ![t] = row'[t].worker]
      /\ lapsed' = [lapsed EXCEPT ![t] = (row'[t].expiry = "expired")]
  BY LifeOne
<1>2. (row'[t].expiry = "expired") = FALSE
  OBVIOUS
<1>3. lapsed' = [lapsed EXCEPT ![t] = FALSE]
  BY <1>1, <1>2
<1>4. QED
  BY <1>1, <1>3 DEF Lifecycle!Leave

LEMMA LifeAttempts ==
  ASSUME NEW t \in Tasks, \A u \in Tasks : u # t => row'[u] = row[u],
         row'[t].attempts = row[t].attempts
  PROVE  [u \in Tasks |-> row[u].attempts]' = [u \in Tasks |-> row[u].attempts]
OBVIOUS

LEMMA LifeSame ==
  ASSUME NEW t \in Tasks, \A u \in Tasks : u # t => row'[u] = row[u],
         Life(row'[t]) = Life(row[t]), row'[t].worker = row[t].worker,
         row'[t].expiry = row[t].expiry, row'[t].attempts = row[t].attempts
  PROVE  UNCHANGED Lifecycle!lifeVars
<1>1. \A u \in Tasks : Life(row'[u]) = Life(row[u])
  OBVIOUS
<1>2. QED
  BY <1>1, LifeStutter

LEMMA LifeGrant ==
  ASSUME NEW t \in Tasks, NEW w \in Workers,
         \A u \in Tasks : u # t => row'[u] = row[u],
         Life(row[t]) = "waiting" \/ row[t].expiry = "expired",
         row[t].attempts < MaxAttempts,
         Life(row'[t]) = "held", row'[t].worker = w, row'[t].expiry = "live",
         row'[t].attempts = row[t].attempts + 1
  PROVE  Lifecycle!Grant(t, w)
<1> DEFINE life     == [u \in Tasks |-> Life(row[u])]
           holder   == [u \in Tasks |-> row[u].worker]
           lapsed   == [u \in Tasks |-> row[u].expiry = "expired"]
           attempts == [u \in Tasks |-> row[u].attempts]
<1>1. /\ life' = [life EXCEPT ![t] = Life(row'[t])]
      /\ holder' = [holder EXCEPT ![t] = row'[t].worker]
      /\ lapsed' = [lapsed EXCEPT ![t] = (row'[t].expiry = "expired")]
      /\ attempts' = [attempts EXCEPT ![t] = row'[t].attempts]
  BY LifeOne
<1>2. (row'[t].expiry = "expired") = FALSE
  OBVIOUS
<1>3. lapsed' = [lapsed EXCEPT ![t] = FALSE]
  BY <1>1, <1>2
<1>4. attempts' = [attempts EXCEPT ![t] = attempts[t] + 1] /\ attempts[t] < MaxAttempts
  BY <1>1
<1>5. life[t] = "waiting" \/ lapsed[t]
  OBVIOUS
<1>6. QED
  BY <1>1, <1>3, <1>4, <1>5 DEF Lifecycle!Grant

LEMMA LifeRenew ==
  ASSUME NEW t \in Tasks, \A u \in Tasks : u # t => row'[u] = row[u],
         Life(row[t]) = "held", Life(row'[t]) = "held",
         row'[t].worker = row[t].worker, row'[t].expiry = "live",
         row'[t].attempts = row[t].attempts
  PROVE  Lifecycle!Renew(t)
<1> DEFINE life     == [u \in Tasks |-> Life(row[u])]
           holder   == [u \in Tasks |-> row[u].worker]
           lapsed   == [u \in Tasks |-> row[u].expiry = "expired"]
           attempts == [u \in Tasks |-> row[u].attempts]
<1>1. lapsed' = [lapsed EXCEPT ![t] = (row'[t].expiry = "expired")]
  BY LifeOne
<1>2. (row'[t].expiry = "expired") = FALSE
  OBVIOUS
<1>3. lapsed' = [lapsed EXCEPT ![t] = FALSE]
  BY <1>1, <1>2
<1>4. life' = life /\ holder' = holder /\ attempts' = attempts
  <2>1. \A u \in Tasks : Life(row'[u]) = Life(row[u])
    OBVIOUS
  <2>2. QED
    BY <2>1
<1>5. QED
  BY <1>3, <1>4 DEF Lifecycle!Renew

LEMMA LifeRequeue ==
  ASSUME NEW t \in Tasks, \A u \in Tasks : u # t => row'[u] = row[u],
         Life(row[t]) # "done", Life(row'[t]) = "waiting",
         row'[t].worker = NoWorker, row'[t].expiry = "none",
         row'[t].attempts = row[t].attempts \/ row'[t].attempts = 0
  PROVE  Lifecycle!Requeue({t})
<1> DEFINE life     == [u \in Tasks |-> Life(row[u])]
           holder   == [u \in Tasks |-> row[u].worker]
           lapsed   == [u \in Tasks |-> row[u].expiry = "expired"]
           attempts == [u \in Tasks |-> row[u].attempts]
<1>1. life' = [u \in Tasks |-> IF u \in {t} THEN "waiting" ELSE life[u]]
  <2>1. \A u \in Tasks : u # t => Life(row'[u]) = Life(row[u])
    OBVIOUS
  <2>2. QED
    BY <2>1
<1>2. holder' = [u \in Tasks |-> IF u \in {t} THEN NoWorker ELSE holder[u]]
  OBVIOUS
<1>3. lapsed' = [u \in Tasks |-> u \notin {t} /\ lapsed[u]]
  <2>1. \A u \in Tasks : lapsed'[u] = (u \notin {t} /\ lapsed[u])
    OBVIOUS
  <2>2. QED
    BY <2>1
<1>4. \/ attempts' = attempts
      \/ attempts' = [u \in Tasks |-> IF u \in {t} THEN 0 ELSE attempts[u]]
  OBVIOUS
<1>5. QED
  BY <1>1, <1>2, <1>3, <1>4 DEF Lifecycle!Requeue

LEMMA CommitImplements ==
  ASSUME OneThread, SerialInv, NEW h \in Threads, Commit(h)
  PROVE  Lifecycle!Next \/ UNCHANGED Lifecycle!lifeVars
<1> PICK c : c = thread[h]
  OBVIOUS
<1> PICK t : t = c.task
  OBVIOUS
<1> DEFINE old == row[t]
           new == row'[t]
<1>1. /\ t \in Tasks /\ Plans(c) /\ c.pc = "commit" /\ c.read \in Row
      /\ \A u \in Tasks : u # t => row'[u] = row[u]
      /\ c.read.status = old.status /\ c.read.worker = old.worker
      /\ c.read.attempts = old.attempts
      /\ c.read.expiry = "expired" => old.expiry = "expired"
      /\ Held(c.read) => Life(old) = "held"
      /\ new.status = c.new.status /\ new.worker = c.new.worker
      /\ new.attempts = c.new.attempts
      /\ c.op \in {"lease", "heartbeat"} => new.expiry = c.new.expiry
      /\ c.op \notin {"lease", "heartbeat"} /\ c.new.expiry = c.read.expiry
           => new.expiry = old.expiry
      /\ c.new.expiry = "none" => new.expiry = "none"
  BY LifeCommitFacts
<1> HIDE DEF old, new
<1>2. ASSUME c.op = "lease", c.worker \in Workers, Leasable(c.read),
             c.new = LeaseRow(c.read, c.worker)
      PROVE  Lifecycle!Grant(t, c.worker)
  <2>1. /\ c.new.status = "leased" /\ c.new.worker = c.worker
        /\ c.new.expiry = "live" /\ c.new.attempts = c.read.attempts + 1
    BY <1>1, <1>2 DEF LeaseRow, ForgetOutput, Row
  <2>2. /\ old.status = "queued" \/ old.expiry = "expired"
        /\ old.attempts < MaxAttempts
    BY <1>1, <1>2 DEF Leasable
  <2>3. (Life(old) = "waiting" \/ old.expiry = "expired") /\ Life(new) = "held"
    BY <1>1, <2>1, <2>2, LifeOf
  <2>4. QED
    BY <1>1, <1>2, <2>1, <2>2, <2>3, LifeGrant DEF old, new
<1>3. ASSUME c.op = "heartbeat", Held(c.read), c.new = RenewRow(c.read)
      PROVE  Lifecycle!Renew(t)
  <2>1. /\ c.new.status = c.read.status /\ c.new.worker = c.read.worker
        /\ c.new.expiry = "live" /\ c.new.attempts = c.read.attempts
    BY <1>1, <1>3 DEF RenewRow, Row
  <2>2. Life(new) = Life(old) /\ Life(old) = "held"
    BY <1>1, <1>3, <2>1 DEF Life
  <2>3. QED
    BY <1>1, <1>3, <2>1, <2>2, LifeRenew DEF old, new
<1>4. ASSUME c.op = "intent", NEW n \in Nonces, NEW p \in Paths,
             NEW a \in OutputAction, NEW s \in Sizes,
             c.new = IntentRow(c.read, n, p, a, s)
      PROVE  UNCHANGED Lifecycle!lifeVars
  <2>1. /\ c.new.status = c.read.status /\ c.new.worker = c.read.worker
        /\ c.new.expiry = c.read.expiry /\ c.new.attempts = c.read.attempts
    BY <1>1, <1>4 DEF IntentRow, Row
  <2>2. Life(new) = Life(old)
    BY <1>1, <2>1 DEF Life
  <2>3. QED
    BY <1>1, <1>4, <2>1, <2>2, LifeSame DEF old, new
<1>5. ASSUME Held(c.read),
             c.new = DoneRow(c.read) \/ \E s \in Sizes : c.new = SkipRow(c.read, s)
      PROVE  Lifecycle!Finish(t)
  <2>1. /\ c.new.status = "finalized" /\ c.new.worker = NoWorker
        /\ c.new.expiry = "none" /\ c.new.attempts = c.read.attempts
    <3>1. CASE c.new = DoneRow(c.read)
      BY <1>1, <3>1 DEF DoneRow, DropLease, Row
    <3>2. ASSUME NEW s \in Sizes, c.new = SkipRow(c.read, s)
          PROVE  /\ c.new.status = "finalized" /\ c.new.worker = NoWorker
                 /\ c.new.expiry = "none" /\ c.new.attempts = c.read.attempts
      BY <1>1, <3>2 DEF SkipRow, DropLease, ForgetOutput, Row
    <3>3. QED
      BY <1>5, <3>1, <3>2
  <2>2. Life(new) = "done" /\ Life(old) = "held"
    BY <1>1, <1>5, <2>1, LifeOf
  <2>3. Lifecycle!Leave(t, "done")
    BY <1>1, <2>1, <2>2, LifeLeave DEF new
  <2>4. [u \in Tasks |-> row[u].attempts]' = [u \in Tasks |-> row[u].attempts]
    BY <1>1, <2>1, LifeAttempts DEF old, new
  <2>5. QED
    BY <1>1, <2>2, <2>3, <2>4 DEF Lifecycle!Finish, old
<1>6. ASSUME c.op = "complete", Held(c.read), c.new = FailedRow(c.read)
      PROVE  UNCHANGED Lifecycle!lifeVars
  <2>1. /\ c.new.status = "failed" /\ c.new.worker = c.read.worker
        /\ c.new.expiry = c.read.expiry /\ c.new.attempts = c.read.attempts
    BY <1>1, <1>6 DEF FailedRow, Row
  <2>2. Life(new) = "held" /\ Life(old) = "held"
    BY <1>1, <1>6, <2>1, LifeOf
  <2>3. QED
    BY <1>1, <1>6, <2>1, <2>2, LifeSame DEF old, new
<1>7. ASSUME Held(c.read), NEW b \in BOOLEAN, c.new = FailRow(c.read, b)
      PROVE  Lifecycle!GiveBack(t)
  <2>1. /\ c.new.worker = NoWorker
        /\ c.new.expiry = "none" /\ c.new.attempts = c.read.attempts
        /\ \/ c.new.status = "queued" /\ c.read.attempts < MaxAttempts
           \/ c.new.status = "deadletter"
    BY <1>1, <1>7 DEF FailRow, DropLease, ForgetOutput, Row
  <2>2. /\ Life(old) = "held"
        /\ \/ Life(new) = "waiting" /\ old.attempts < MaxAttempts
           \/ Life(new) = "dead"
    BY <1>1, <1>7, <2>1, LifeOf
  <2>3. /\ Life(new) = "waiting" => Lifecycle!Leave(t, "waiting")
        /\ Life(new) = "dead" => Lifecycle!Leave(t, "dead")
    BY <1>1, <2>1, LifeLeave DEF new
  <2>4. [u \in Tasks |-> row[u].attempts]' = [u \in Tasks |-> row[u].attempts]
    BY <1>1, <2>1, LifeAttempts DEF old, new
  <2>5. QED
    BY <1>1, <2>2, <2>3, <2>4 DEF Lifecycle!GiveBack, old
<1>8. ASSUME c.read.status # "finalized", NEW b \in BOOLEAN, c.new = RequeueRow(c.read, b)
      PROVE  Lifecycle!Requeue({t})
  <2>1. /\ c.new.status = "queued" /\ c.new.worker = NoWorker
        /\ c.new.expiry = "none"
        /\ c.new.attempts = c.read.attempts \/ c.new.attempts = 0
    BY <1>1, <1>8 DEF RequeueRow, DropLease, ForgetOutput, Row
  <2>2. Life(old) # "done" /\ Life(new) = "waiting"
    <3>1. old.status \in Status /\ old.status # "finalized"
      BY <1>1, <1>8 DEF Row
    <3>2. QED
      BY <1>1, <2>1, <3>1, LifeOf DEF Status
  <2>3. QED
    BY <1>1, <2>1, <2>2, LifeRequeue DEF old, new
<1>9. QED
  BY <1>1, <1>2, <1>3, <1>4, <1>5, <1>6, <1>7, <1>8 DEF Plans, Lifecycle!Next

LEMMA NextImplements ==
  ASSUME OneThread, SerialInv, [Next]_vars
  PROVE  [Lifecycle!Next]_(Lifecycle!lifeVars)
<1>1. ASSUME UNCHANGED row
      PROVE  UNCHANGED Lifecycle!lifeVars
  BY <1>1, LifeStutter
<1>2. ASSUME NEW h \in Threads, Read(h) \/ FinalizeNext(h)
      PROVE  UNCHANGED row
  BY <1>2, ReadShape, FinalizeShape DEF SerialInv
<1>3. ASSUME NEW n \in Nonces, NEW s \in Sizes, Upload(n, s)
      PROVE  UNCHANGED row
  BY <1>3 DEF Upload
<1>4. UNCHANGED vars => UNCHANGED row
  BY DEF vars
<1>5. ASSUME NEW t \in Tasks, Expire(t)
      PROVE  Lifecycle!Next
  BY <1>5, LifeExpire DEF Lifecycle!Next
<1>6. ASSUME NEW S \in SUBSET Tasks, NEW reset \in BOOLEAN, Restart(S, reset)
      PROVE  Lifecycle!Next
  BY <1>6, LifeRestart DEF Lifecycle!Next
<1>7. QED
  BY <1>1, <1>2, <1>3, <1>4, <1>5, <1>6, CommitImplements DEF Next, Environment

(* Served one at a time, the requests, the passing of time and restarts    *)
(* are steps of the atomic life cycle, or none: a grant only of a waiting  *)
(* or lapsed task, at most max_attempts of them, and done is final         *)
(* (lease_tasks, complete_task, fail_task, admin_requeue_task).            *)
THEOREM LifecycleImplemented == ASSUME OneThread PROVE Spec => ImplementsLifecycle
<1>1. Init => Lifecycle!Init
  BY LifeInit
<1>2. SerialInv /\ [Next]_vars => [Lifecycle!Next]_(Lifecycle!lifeVars)
  BY NextImplements
<1>3. QED
  BY <1>1, <1>2, Serial, PTL DEF Spec, ImplementsLifecycle, Lifecycle!Spec
=============================================================================
