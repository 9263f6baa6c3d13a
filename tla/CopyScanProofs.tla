--------------------------- MODULE CopyScanProofs ---------------------------
(***************************************************************************)
(* Safety of the scan runs for any number of scanners, tasks, sources and  *)
(* final paths, and without the bound on events, proved of Spec.           *)
(***************************************************************************)
EXTENDS CopyScan, FiniteSetTheorems, TLAPS

(* A run that copies has picked a row. *)
CopyingTask ==
  \A s \in Scanners : run[s].pc \in {"copy", "recheck"} => run[s].cur \in Tasks

(* Why a result "ok" may be committed: whatever is at a final path, or on  *)
(* its way there, is evidence for the tasks it belongs to; every "ok" of   *)
(* the batch has evidence; and a run that looks again after a conflict has *)
(* evidence already, or a file there that nothing removes.                 *)
Backed ==
  /\ Shown(dst, jobs) \subseteq evidence
  /\ \A s \in Scanners, t \in Tasks : run[s].res[t] = "ok" => t \in evidence
  /\ \A s \in Scanners : run[s].pc = "recheck" =>
       run[s].cur \in evidence \/ dst[PathOf[run[s].cur]] # NoSize

----------------------------------------------------------------------------
(* Rows: what is assigned stays inside the columns' types.                 *)

LEMMA NewRowType == NewRow \in Row
BY DEF NewRow, Row, Status, Expiry

LEMMA UpdateType ==
  ASSUME NEW r \in Row
  PROVE  /\ ForgetOutput(r) \in Row
         /\ DropLease(r) \in Row
         /\ \A st \in Status : [r EXCEPT !.status = st] \in Row
<1>1. ForgetOutput(r) \in Row
  BY DEF ForgetOutput, Row
<1>2. DropLease(r) \in Row
  BY DEF DropLease, Row, Expiry
<1>3. \A st \in Status : [r EXCEPT !.status = st] \in Row
  BY DEF Row
<1>4. QED
  BY <1>1, <1>2, <1>3

LEMMA RequeueRowType ==
  ASSUME NEW r \in Row, NEW b \in BOOLEAN
  PROVE  RequeueRow(r, b) \in Row
<1>1. PICK d \in Row : d = DropLease(ForgetOutput(r))
  BY UpdateType
<1>2. \A k \in Nat : [d EXCEPT !.status = "queued", !.attempts = k] \in Row
  BY DEF Row, Status
<1>3. RequeueRow(r, b)
        = [d EXCEPT !.status = "queued", !.attempts = IF b THEN 0 ELSE d.attempts]
  BY <1>1 DEF RequeueRow
<1>4. (IF b THEN 0 ELSE d.attempts) \in Nat
  BY DEF Row
<1>5. QED
  BY <1>2, <1>3, <1>4

LEMMA FlushType ==
  ASSUME NEW db \in Row, NEW r \in Row, NEW new \in Row, NEW b \in BOOLEAN
  PROVE  Flush(db, r, new, b) \in Row
BY DEF Flush, Changed, Row

(* A flush changes the status only to the one that was computed. *)
LEMMA FlushStatus ==
  ASSUME NEW db \in Row, NEW r \in Row, NEW new \in Row, NEW b \in BOOLEAN
  PROVE  Flush(db, r, new, b).status \in {db.status, new.status}
BY DEF Flush, Changed

----------------------------------------------------------------------------
(* Types.                                                                  *)

LEMMA CopyRowType ==
  ASSUME NEW r \in Row, NEW t \in Tasks, NEW o \in Outcome
  PROVE  CopyRow(r, t, o) \in Row
<1>1. PICK d \in Row : d = DropLease(r)
  BY DEF DropLease, Row, Expiry
<1>2. /\ d.attempts + 1 \in Nat
      /\ PathOf[t] \in Paths /\ SizeOf[t] \in Sizes /\ "copy" \in OutputAction
  BY CopyScanAssumption DEF Row
<1>3. PICK st \in Status :
        st = (CASE o = "ok" -> "finalized"
                [] o = "error" /\ r.attempts + 1 < MaxAttempts -> "queued"
                [] OTHER -> "deadletter")
  BY DEF Status
<1>4. PICK sz \in Sizes \cup {NoSize} : sz = IF o = "ok" THEN SizeOf[t] ELSE NoSize
  BY <1>2
<1>5. [d EXCEPT !.attempts = d.attempts + 1, !.staging = NoNonce,
                !.final = PathOf[t], !.action = "copy", !.status = st,
                !.size = sz] \in Row
  BY <1>2 DEF Row
<1>6. QED
  BY <1>1, <1>3, <1>4, <1>5 DEF CopyRow

LEMMA LeasedRowType == LeasedRow \in Row
<1>1. (CHOOSE w \in Workers : TRUE) \in Workers
  BY CopyScanAssumption
<1>2. QED
  BY <1>1 DEF LeasedRow, NewRow, Row, Status, Expiry

LEMMA IdleType == Idle \in Run /\ \A s \in Scanners : Over(s) \in Run
<1>1. NoRead \in [Tasks -> Row] /\ NoResult \in [Tasks -> Outcome \cup {"none"}]
  BY NewRowType DEF NoRead, NoResult
<1>2. Idle \in Run
  BY <1>1 DEF Idle, Run
<1>3. QED
  BY <1>2 DEF Over, Run

LEMMA RecordType ==
  ASSUME run \in [Scanners -> Run], NEW s \in Scanners, NEW t \in Tasks,
         NEW o \in Outcome, Record(s, t, o)
  PROVE  run' \in [Scanners -> Run]
<1>1. PICK m \in [Tasks -> Outcome \cup {"none"}] :
        m = [run[s].res EXCEPT ![t] = o]
  BY DEF Run
<1> DEFINE r == [run[s] EXCEPT !.pc = "work", !.cur = NoTask,
                               !.todo = @ \ {t}, !.res = [@ EXCEPT ![t] = o]]
           q == [run[s] EXCEPT !.pc = "work", !.cur = NoTask,
                               !.todo = @ \ {t}, !.res = m]
<1>2. r \in Run
  <2>1. q \in Run
    BY ZenonT(30) DEF Run
  <2>2. r = q
    <3>1. run[s] \in Run
      OBVIOUS
    <3>2. QED
      BY ONLY <1>1, <3>1
  <2>3. QED
    BY <2>1, <2>2
<1>3. run' = [run EXCEPT ![s] = r]
  BY ZenonT(30) DEF Record
<1> HIDE DEF r
<1>4. QED
  BY <1>2, <1>3

LEMMA InitType == Init => TypeOK /\ CopyingTask
<1> SUFFICES ASSUME Init
             PROVE  TypeOK /\ CopyingTask
  OBVIOUS
<1>1. PICK l \in Leases : /\ stored = l
                          /\ row = [t \in Tasks |-> IF t \in l THEN LeasedRow ELSE NewRow]
  BY DEF Init
<1>2. row \in [Tasks -> Row] /\ stored \subseteq Tasks
  BY <1>1, LeasedRowType, NewRowType, CopyScanAssumption
<1>3. run \in [Scanners -> Run]
  BY IdleType DEF Init
<1>4. request \in [task : Tasks \cup {NoTask}, reset : BOOLEAN, read : Row]
  BY NewRowType DEF Init, NoRequest
<1>5. CopyingTask
  BY DEF Init, CopyingTask, Idle
<1>6. QED
  BY <1>2, <1>3, <1>4, <1>5 DEF Init, TypeOK

(* A step of one scanner keeps the types. *)
LEMMA StepType ==
  ASSUME TypeOK, CopyingTask, NEW s \in Scanners, Step(s)
  PROVE  (TypeOK /\ CopyingTask)'
<1> USE DEF table, store
<1>1. /\ run \in [Scanners -> Run] /\ run[s] \in Run
      /\ row \in [Tasks -> Row] /\ source \in [Sources -> Tasks \cup {NoTask}]
  BY DEF TypeOK
<1>2. CASE Begin(s)
  <2>1. [Idle EXCEPT !.pc = "list", !.left = Sources] \in Run
    BY IdleType DEF Run
  <2>2. run' \in [Scanners -> Run]
    BY <1>1, <1>2, <2>1 DEF Begin
  <2>3. count' \in [onces : Nat, aborts : Nat, requeues : Nat, changes : Nat]
    BY <1>2 DEF Begin, TypeOK
  <2>4. CopyingTask'
    BY <1>1, <1>2 DEF Begin, CopyingTask, Idle
  <2>5. QED
    BY <1>2, <2>2, <2>3, <2>4 DEF Begin, TypeOK
<1>3. ASSUME NEW f \in Sources, List(s, f)
      PROVE  (TypeOK /\ CopyingTask)'
  <2>1. run' \in [Scanners -> Run]
    BY <1>1, <1>3 DEF List, Run
  <2>2. row' \in [Tasks -> Row] /\ stored' \subseteq Tasks
    BY <1>1, <1>3, NewRowType DEF List, TypeOK
  <2>3. CopyingTask'
    BY <1>1, <1>3 DEF List, CopyingTask, Run
  <2>4. QED
    BY <1>3, <2>1, <2>2, <2>3 DEF List, TypeOK
<1>4. CASE StartCopying(s)
  <2>1. run' \in [Scanners -> Run]
    BY <1>1, <1>4 DEF StartCopying, Run
  <2>2. CopyingTask'
    BY <1>1, <1>4 DEF StartCopying, CopyingTask, Run
  <2>3. QED
    BY <1>4, <2>1, <2>2 DEF StartCopying, TypeOK
<1>5. CASE Select(s)
  <2>1. CASE run' = [run EXCEPT ![s] = Over(s)]
    <3>1. run' \in [Scanners -> Run]
      BY <1>1, <2>1, IdleType
    <3>2. CopyingTask'
      BY <1>1, <2>1 DEF CopyingTask, Over, Idle
    <3>3. QED
      BY <1>5, <3>1, <3>2 DEF Select, TypeOK
  <2>2. ASSUME NEW b \in SUBSET Tasks, NEW l \in SUBSET Tasks,
               run' = [run EXCEPT ![s].pc = "work", ![s].todo = b,
                                  ![s].late = l]
        PROVE  (TypeOK /\ CopyingTask)'
    <3>1. run' \in [Scanners -> Run]
      BY <1>1, <2>2 DEF Run
    <3>2. CopyingTask'
      BY <1>1, <2>2 DEF CopyingTask, Run
    <3>3. QED
      BY <1>5, <3>1, <3>2 DEF Select, TypeOK
  <2>3. ASSUME run' # [run EXCEPT ![s] = Over(s)]
        PROVE  \E b \in SUBSET Tasks, l \in SUBSET Tasks :
                 run' = [run EXCEPT ![s].pc = "work", ![s].todo = b,
                                    ![s].late = l]
    <3>1. PICK b \in SUBSET {t \in stored \cap old[s] : Due(row[t])} :
            run' = [run EXCEPT ![s].pc = "work", ![s].todo = b,
                          ![s].late = {t \in b : row[t].status = "leased"}]
      BY <1>5, <2>3 DEF Select
    <3>2. /\ b \in SUBSET Tasks
          /\ {t \in b : row[t].status = "leased"} \in SUBSET Tasks
      BY DEF TypeOK
    <3>3. QED
      BY <3>1, <3>2
  <2>4. QED
    BY <2>1, <2>2, <2>3
<1>6. ASSUME NEW t \in Tasks, NEW o \in Outcome, Record(s, t, o),
             UNCHANGED <<table, source, old, request, count>>,
             dst' \in [Paths -> Sizes \cup {NoSize}],
             jobs' \subseteq Tasks, evidence' \subseteq Tasks
      PROVE  (TypeOK /\ CopyingTask)'
  <2>1. run' \in [Scanners -> Run]
    BY <1>1, <1>6, RecordType
  <2>2. CopyingTask'
    BY <1>1, <1>6 DEF Record, CopyingTask, Run
  <2>3. QED
    BY <1>6, <2>1, <2>2 DEF TypeOK
<1>7. ASSUME NEW t \in Tasks, CompareFails(s, t)
      PROVE  (TypeOK /\ CopyingTask)'
  <2>1. run' \in [Scanners -> Run]
    BY <1>1, <1>7, IdleType DEF CompareFails
  <2>2. CopyingTask'
    BY <1>1, <1>7 DEF CompareFails, CopyingTask, Over, Idle
  <2>3. QED
    BY <1>7, <2>1, <2>2 DEF CompareFails, TypeOK
<1>8. ASSUME NEW t \in Tasks, Probe(s, t)
      PROVE  (TypeOK /\ CopyingTask)'
  <2>1. CASE \E o \in Outcome : Record(s, t, o)
    BY <1>6, <1>8, <2>1 DEF Probe, TypeOK
  <2>2. CASE run' = [run EXCEPT ![s].pc = "copy", ![s].cur = t]
    <3>1. run' \in [Scanners -> Run]
      BY <1>1, <2>2 DEF Run
    <3>2. CopyingTask'
      BY <1>1, <2>2 DEF CopyingTask, Run
    <3>3. QED
      BY <1>8, <3>1, <3>2 DEF Probe, TypeOK
  <2>3. QED
    BY <1>8, <2>1, <2>2 DEF Probe, Judge, Outcome, Failure
<1>9. CASE Copy(s)
  <2> DEFINE t == run[s].cur
  <2>1. t \in Tasks
    BY <1>9 DEF Copy, CopyingTask
  <2> HIDE DEF t
  <2>2. /\ UNCHANGED <<table, source, old, request, count>>
        /\ dst' \in [Paths -> Sizes \cup {NoSize}]
        /\ jobs' \subseteq Tasks /\ evidence' \subseteq Tasks
    BY <1>9, <2>1 DEF Copy, t, TypeOK, Submit, Shown
  <2>3. CASE \E o \in Outcome : Record(s, t, o)
    BY <1>6, <2>1, <2>2, <2>3
  <2>4. CASE run' = [run EXCEPT ![s].pc = "recheck"]
    <3>1. run' \in [Scanners -> Run]
      BY <1>1, <2>4 DEF Run
    <3>2. CopyingTask'
      BY <1>1, <1>9, <2>4 DEF Copy, CopyingTask, Run
    <3>3. QED
      BY <2>2, <3>1, <3>2 DEF TypeOK
  <2>5. QED
    BY <1>9, <2>3, <2>4 DEF Copy, t, Outcome, Failure
<1>10. CASE Recheck(s)
  <2>1. run[s].cur \in Tasks
    BY <1>10 DEF Recheck, CopyingTask
  <2>2. QED
    BY <1>6, <1>10, <2>1 DEF Recheck, Judge, Outcome, Failure, TypeOK
<1>11. CASE Reread(s)
  <2> DEFINE read == [t \in Tasks |-> IF run[s].res[t] = "none" THEN NewRow
                                      ELSE row[t]]
  <2>1. read \in [Tasks -> Row]
    BY <1>1, NewRowType
  <2>2. run' = [run EXCEPT ![s].pc = "commit", ![s].late = {}, ![s].read = read]
    BY <1>11 DEF Reread
  <2> HIDE DEF read
  <2>3. run' \in [Scanners -> Run]
    BY <1>1, <2>1, <2>2 DEF Run
  <2>4. CopyingTask'
    BY <1>1, <2>2 DEF CopyingTask, Run
  <2>5. QED
    BY <1>11, <2>3, <2>4 DEF Reread, TypeOK
<1>12. CASE Commit(s)
  <2>1. ASSUME NEW t \in Tasks
        PROVE  row'[t] \in Row
    <3>1. row[t] \in Row /\ run[s].read[t] \in Row
      BY <1>1 DEF Run
    <3>2. CASE run[s].res[t] = "none"
      BY <1>12, <3>1, <3>2 DEF Commit
    <3>3. CASE run[s].res[t] # "none"
      <4>1. CopyRow(run[s].read[t], t, run[s].res[t]) \in Row
        BY <1>1, <3>1, <3>3, CopyRowType DEF Run
      <4>2. Flush(row[t], run[s].read[t],
                  CopyRow(run[s].read[t], t, run[s].res[t]), FALSE) \in Row
        BY <3>1, <4>1, FlushType
      <4>3. QED
        BY <1>12, <3>3, <4>2 DEF Commit
    <3>4. QED
      BY <3>2, <3>3
  <2>2. row' \in [Tasks -> Row]
    BY <1>12, <2>1 DEF Commit
  <2>3. run' \in [Scanners -> Run]
    BY <1>1, <1>12, IdleType DEF Commit, Run
  <2>4. old' \in [Scanners -> SUBSET Tasks]
    BY <1>12 DEF Commit, Touch, TypeOK
  <2>5. CopyingTask'
    BY <1>1, <1>12 DEF Commit, CopyingTask, Idle
  <2>6. QED
    BY <1>12, <2>2, <2>3, <2>4, <2>5 DEF Commit, TypeOK
<1>13. QED
  BY <1>2, <1>3, <1>4, <1>5, <1>7, <1>8, <1>9, <1>10, <1>11, <1>12 DEF Step

(* Every step keeps the types. *)
LEMMA NextType ==
  ASSUME TypeOK, CopyingTask, [Next]_vars
  PROVE  (TypeOK /\ CopyingTask)'
<1> USE DEF table, store
<1>1. /\ run \in [Scanners -> Run] /\ row \in [Tasks -> Row]
      /\ source \in [Sources -> Tasks \cup {NoTask}]
      /\ dst \in [Paths -> Sizes \cup {NoSize}]
      /\ request \in [task : Tasks \cup {NoTask}, reset : BOOLEAN, read : Row]
      /\ count \in [onces : Nat, aborts : Nat, requeues : Nat, changes : Nat]
  BY DEF TypeOK
<1>2. ASSUME NEW s \in Scanners, Abort(s)
      PROVE  (TypeOK /\ CopyingTask)'
  <2>1. run' \in [Scanners -> Run]
    BY <1>1, <1>2, IdleType DEF Abort
  <2>2. CopyingTask'
    BY <1>1, <1>2 DEF Abort, CopyingTask, Over, Idle
  <2>3. count' \in [onces : Nat, aborts : Nat, requeues : Nat, changes : Nat]
    BY <1>1, <1>2 DEF Abort
  <2>4. QED
    BY <1>2, <2>1, <2>2, <2>3 DEF Abort, TypeOK
<1>3. ASSUME NEW t \in Tasks, NEW b \in BOOLEAN, RequeueRead(t, b)
      PROVE  (TypeOK /\ CopyingTask)'
  <2>1. request' \in [task : Tasks \cup {NoTask}, reset : BOOLEAN, read : Row]
    BY <1>1, <1>3 DEF RequeueRead
  <2>2. count' \in [onces : Nat, aborts : Nat, requeues : Nat, changes : Nat]
    BY <1>1, <1>3 DEF RequeueRead
  <2>3. QED
    BY <1>3, <2>1, <2>2 DEF RequeueRead, TypeOK, CopyingTask
<1>4. CASE RequeueCommit
  <2> DEFINE new == RequeueRow(request.read, request.reset)
  <2>1. request.read \in Row /\ request.reset \in BOOLEAN /\ new \in Row
    BY <1>1, RequeueRowType
  <2>2. \A u \in Tasks : Flush(row[u], request.read, new, FALSE) \in Row
    BY <1>1, <2>1, FlushType
  <2>3. row' \in [Tasks -> Row]
    BY <1>1, <1>4, <2>2 DEF RequeueCommit
  <2>4. old' \in [Scanners -> SUBSET Tasks]
    BY <1>4 DEF RequeueCommit, Touch, TypeOK
  <2>5. NoRequest \in [task : Tasks \cup {NoTask}, reset : BOOLEAN, read : Row]
    BY NewRowType DEF NoRequest
  <2>6. QED
    BY <1>4, <2>3, <2>4, <2>5 DEF RequeueCommit, TypeOK, CopyingTask
<1>5. ASSUME NEW t \in Tasks, Expire(t)
      PROVE  (TypeOK /\ CopyingTask)'
  <2>1. [row[t] EXCEPT !.expiry = "expired"] \in Row
    BY <1>1 DEF Row, Expiry
  <2>2. row' \in [Tasks -> Row]
    BY <1>1, <1>5, <2>1 DEF Expire
  <2>3. QED
    BY <1>5, <2>2 DEF Expire, TypeOK, CopyingTask
<1>6. ASSUME NEW t \in Tasks, Land(t)
      PROVE  (TypeOK /\ CopyingTask)'
  <2>1. dst' \in [Paths -> Sizes \cup {NoSize}]
    BY <1>1, <1>6, CopyScanAssumption DEF Land
  <2>2. QED
    BY <1>6, <2>1 DEF Land, TypeOK, CopyingTask, Shown
<1>7. ASSUME NEW f \in Sources, NEW v \in Tasks \cup {NoTask}, Change(f, v)
      PROVE  (TypeOK /\ CopyingTask)'
  <2>1. source' \in [Sources -> Tasks \cup {NoTask}]
    BY <1>1, <1>7 DEF Change
  <2>2. count' \in [onces : Nat, aborts : Nat, requeues : Nat, changes : Nat]
    BY <1>1, <1>7 DEF Change
  <2>3. QED
    BY <1>7, <2>1, <2>2 DEF Change, TypeOK, CopyingTask
<1>8. ASSUME NEW s \in Scanners, Step(s)
      PROVE  (TypeOK /\ CopyingTask)'
  BY <1>8, StepType
<1>9. CASE UNCHANGED vars
  BY <1>9 DEF vars, TypeOK, CopyingTask
<1>10. QED
  BY <1>2, <1>3, <1>4, <1>5, <1>6, <1>7, <1>8, <1>9 DEF Next

(* The types of the scan runs, and that a run copies only a row it has     *)
(* picked.                                                                 *)
THEOREM TypeCorrect == Spec => [](TypeOK /\ CopyingTask)
<1>1. TypeOK /\ CopyingTask /\ [Next]_vars => (TypeOK /\ CopyingTask)'
  BY NextType
<1>2. QED
  BY InitType, <1>1, PTL DEF Spec

----------------------------------------------------------------------------
(* A finalized row rests on evidence.                                      *)

IInv == TypeOK /\ CopyingTask /\ FinalizedBacked /\ Backed

LEMMA InitBacked == Init => FinalizedBacked /\ Backed
<1> SUFFICES ASSUME Init
             PROVE  FinalizedBacked /\ Backed
  OBVIOUS
<1>1. \A t \in Tasks : row[t].status # "finalized"
  <2>1. PICK l \in Leases :
          row = [t \in Tasks |-> IF t \in l THEN LeasedRow ELSE NewRow]
    BY DEF Init
  <2>2. LeasedRow.status # "finalized" /\ NewRow.status # "finalized"
    BY DEF LeasedRow, NewRow
  <2>3. QED
    BY <2>1, <2>2
<1>2. Shown(dst, jobs) = {}
  <2>1. \A t \in Tasks : dst[PathOf[t]] # SizeOf[t]
    <3>1. \A t \in Tasks : PathOf[t] \in Paths /\ SizeOf[t] \in Sizes
      BY CopyScanAssumption
    <3>2. dst = [p \in Paths |-> NoSize] /\ NoSize \notin Sizes
      BY TaskRowAssumption DEF Init
    <3>3. QED
      BY <3>1, <3>2
  <2>2. jobs = {}
    BY DEF Init
  <2>3. QED
    BY <2>1, <2>2 DEF Shown
<1>3. QED
  BY <1>1, <1>2 DEF Init, FinalizedBacked, Backed, Idle, NoResult

(* A result enters the batch: an "ok" needs evidence, and no row changes.  *)
LEMMA RecordBacked ==
  ASSUME IInv, NEW s \in Scanners, NEW t \in Tasks, NEW o \in Outcome,
         Record(s, t, o), UNCHANGED row, evidence \subseteq evidence',
         UNCHANGED <<dst, jobs, evidence>> \/ Shown(dst', jobs') \subseteq evidence',
         UNCHANGED dst,
         o = "ok" => t \in evidence'
  PROVE  (FinalizedBacked /\ Backed)'
<1>1. run \in [Scanners -> Run] /\ run[s].res \in [Tasks -> Outcome \cup {"none"}]
  BY DEF IInv, TypeOK, Run
<1>2. Shown(dst', jobs') \subseteq evidence'
  BY DEF IInv, Backed
<1>3. ASSUME NEW x \in Scanners, NEW u \in Tasks, run'[x].res[u] = "ok"
      PROVE  u \in evidence'
  <2>1. CASE x = s /\ u = t
    BY <1>1, <1>3, <2>1 DEF Record
  <2>2. CASE ~(x = s /\ u = t)
    <3>1. run'[x].res[u] = run[x].res[u]
      BY <1>1, <2>2 DEF Record, Run
    <3>2. QED
      BY <1>3, <3>1 DEF IInv, Backed
  <2>3. QED
    BY <2>1, <2>2
<1>4. ASSUME NEW x \in Scanners, run'[x].pc = "recheck"
      PROVE  run'[x].cur \in evidence' \/ dst'[PathOf[run'[x].cur]] # NoSize
  <2>1. x # s
    BY <1>1, <1>4 DEF Record, Run
  <2>2. run'[x] = run[x]
    BY <1>1, <2>1 DEF Record
  <2>3. QED
    BY <1>4, <2>2 DEF IInv, Backed
<1>5. QED
  BY <1>2, <1>3, <1>4 DEF IInv, FinalizedBacked, Backed, Shown

(* A run goes on without a result, or without those it had.                *)
LEMMA MoveBacked ==
  ASSUME IInv, NEW s \in Scanners, NEW r \in Run, run' = [run EXCEPT ![s] = r],
         r.pc # "recheck", r.res \in {run[s].res, NoResult},
         UNCHANGED <<dst, jobs, evidence>>,
         \A t \in Tasks : row'[t].status = "finalized" => t \in evidence
  PROVE  (FinalizedBacked /\ Backed)'
<1>1. run \in [Scanners -> Run]
  BY DEF IInv, TypeOK
<1>2. \A x \in Scanners, u \in Tasks :
        run'[x].res[u] = "ok" => u \in evidence
  BY <1>1 DEF IInv, Backed, NoResult
<1>3. \A x \in Scanners : run'[x].pc = "recheck" =>
        run'[x].cur \in evidence \/ dst[PathOf[run'[x].cur]] # NoSize
  BY <1>1 DEF IInv, Backed
<1>4. QED
  BY <1>2, <1>3 DEF IInv, FinalizedBacked, Backed, Shown

LEMMA SubmitShown ==
  ASSUME IInv, NEW t \in Tasks, Submit(t)
  PROVE  /\ t \in evidence' /\ evidence \subseteq evidence'
         /\ Shown(dst', jobs') \subseteq evidence'
BY DEF IInv, Backed, Submit, Shown

(* A file of the task's size at its path is evidence. *)
LEMMA SeenShown ==
  ASSUME IInv, NEW t \in Tasks
  PROVE  /\ dst[PathOf[t]] = SizeOf[t] => t \in evidence
         /\ Judge(t) = "ok" => t \in evidence
         /\ (\E u \in jobs : PathOf[u] = PathOf[t]) => t \in evidence
BY DEF IInv, Backed, Shown, Judge

LEMMA CopyBacked ==
  ASSUME IInv, NEW s \in Scanners, Copy(s)
  PROVE  (FinalizedBacked /\ Backed)'
<1> DEFINE t == run[s].cur
<1> USE DEF table, store
<1>1. t \in Tasks /\ run \in [Scanners -> Run]
  BY DEF Copy, IInv, CopyingTask, TypeOK
<1>2. UNCHANGED row
  BY DEF Copy
<1>3. CASE Submit(t) /\ Record(s, t, "ok")
  BY <1>1, <1>2, <1>3, SubmitShown, RecordBacked DEF Submit, Outcome
<1>4. CASE /\ Submit(t) \/ (Busy(PathOf[t]) /\ UNCHANGED store)
           /\ run' = [run EXCEPT ![s].pc = "recheck"]
  <2>1. /\ Shown(dst', jobs') \subseteq evidence' /\ evidence \subseteq evidence'
        /\ UNCHANGED dst
    BY <1>1, <1>4, SubmitShown DEF Submit, IInv, Backed
  <2>2. t \in evidence' \/ dst'[PathOf[t]] # NoSize
    BY <1>1, <1>4, SubmitShown, SeenShown DEF Busy
  <2>3. \A x \in Scanners : run'[x].res = run[x].res /\ run'[x].cur = run[x].cur
    BY <1>1, <1>4 DEF Run
  <2>4. \A x \in Scanners : x # s => run'[x] = run[x]
    BY <1>1, <1>4
  <2>5. \A x \in Scanners, u \in Tasks : run'[x].res[u] = "ok" => u \in evidence'
    BY <2>1, <2>3 DEF IInv, Backed
  <2>6. ASSUME NEW x \in Scanners, run'[x].pc = "recheck"
        PROVE  run'[x].cur \in evidence' \/ dst'[PathOf[run'[x].cur]] # NoSize
    BY <2>1, <2>2, <2>3, <2>4, <2>6 DEF IInv, Backed
  <2>7. QED
    BY <1>2, <2>1, <2>5, <2>6 DEF IInv, FinalizedBacked, Backed, Shown
<1>5. CASE (Submit(t) \/ UNCHANGED store) /\ \E o \in Failure : Record(s, t, o)
  BY <1>1, <1>2, <1>5, SubmitShown, RecordBacked DEF Submit, Outcome, Failure
<1>6. QED
  BY <1>3, <1>4, <1>5 DEF Copy

LEMMA CommitBacked ==
  ASSUME IInv, NEW s \in Scanners, Commit(s)
  PROVE  (FinalizedBacked /\ Backed)'
<1>1. run \in [Scanners -> Run] /\ run[s] \in Run /\ row \in [Tasks -> Row]
  BY DEF IInv, TypeOK
<1>2. ASSUME NEW t \in Tasks, row'[t].status = "finalized"
      PROVE  t \in evidence
  <2>1. CASE row[t].status = "finalized"
    BY <2>1 DEF IInv, FinalizedBacked
  <2>2. CASE row[t].status # "finalized"
    <3> DEFINE new == CopyRow(run[s].read[t], t, run[s].res[t])
    <3>1. run[s].res[t] # "none"
      BY <1>2, <2>2 DEF Commit
    <3>2. row'[t] = Flush(row[t], run[s].read[t], new, FALSE)
      BY <3>1 DEF Commit
    <3>3. run[s].read[t] \in Row /\ run[s].res[t] \in Outcome
      BY <1>1, <3>1 DEF Run
    <3>4. new \in Row
      BY <3>3, CopyRowType
    <3>5. new.status = "finalized"
      <4> HIDE DEF new
      <4>1. row'[t].status \in {row[t].status, new.status}
        BY <1>1, <3>2, <3>3, <3>4, FlushStatus
      <4>2. QED
        BY <1>2, <2>2, <4>1
    <3>6. DropLease(run[s].read[t]) \in Row
      BY <3>3 DEF DropLease, Row, Expiry
    <3>7. new.status = CASE run[s].res[t] = "ok" -> "finalized"
                         [] run[s].res[t] = "error"
                              /\ run[s].read[t].attempts + 1 < MaxAttempts -> "queued"
                         [] OTHER -> "deadletter"
      BY <3>6 DEF CopyRow, Row
    <3>8. run[s].res[t] = "ok"
      BY <3>5, <3>7
    <3>9. QED
      BY <3>8 DEF IInv, Backed
  <2>3. QED
    BY <2>1, <2>2
<1>3. [Idle EXCEPT !.pc = "select"] \in Run
  BY IdleType DEF Run
<1>4. QED
  BY <1>2, <1>3, MoveBacked DEF Commit, store, Idle

LEMMA StepBacked ==
  ASSUME IInv, NEW s \in Scanners, Step(s)
  PROVE  (FinalizedBacked /\ Backed)'
<1> USE DEF table, store
<1>1. /\ run \in [Scanners -> Run] /\ run[s] \in Run /\ row \in [Tasks -> Row]
      /\ Over(s) \in Run /\ Over(s).pc # "recheck" /\ Over(s).res = NoResult
  BY IdleType DEF IInv, TypeOK, Over, Idle
<1>2. \A t \in Tasks : row[t].status = "finalized" => t \in evidence
  BY DEF IInv, FinalizedBacked
<1>3. CASE Begin(s)
  <2> DEFINE r == [Idle EXCEPT !.pc = "list", !.left = Sources]
  <2>1. r \in Run /\ r.pc # "recheck" /\ r.res = NoResult
    BY IdleType DEF Run, Idle
  <2>2. QED
    BY <1>2, <1>3, <2>1, MoveBacked DEF Begin
<1>4. ASSUME NEW f \in Sources, List(s, f)
      PROVE  (FinalizedBacked /\ Backed)'
  <2> DEFINE r == [run[s] EXCEPT !.left = @ \ {f}]
  <2>1. r \in Run /\ r.pc # "recheck" /\ r.res = run[s].res
    BY <1>1, <1>4 DEF List, Run
  <2>2. run' = [run EXCEPT ![s] = r]
    BY <1>4 DEF List
  <2>3. \A t \in Tasks : row'[t].status = "finalized" => t \in evidence
    <3>1. NewRow.status # "finalized"
      BY DEF NewRow
    <3>2. \A t \in Tasks : row'[t] \in {row[t], NewRow}
      BY <1>1, <1>4 DEF List
    <3>3. QED
      BY <1>2, <3>1, <3>2
  <2>4. UNCHANGED <<dst, jobs, evidence>>
    BY <1>4 DEF List
  <2> HIDE DEF r
  <2>5. QED
    BY <2>1, <2>2, <2>3, <2>4, MoveBacked
<1>5. CASE StartCopying(s)
  <2> DEFINE r == [run[s] EXCEPT !.pc = "select"]
  <2>1. r \in Run /\ r.pc # "recheck" /\ r.res = run[s].res
    BY <1>1 DEF Run
  <2>2. run' = [run EXCEPT ![s] = r] /\ UNCHANGED <<row, dst, jobs, evidence>>
    BY <1>5 DEF StartCopying
  <2> HIDE DEF r
  <2>3. QED
    BY <1>2, <2>1, <2>2, MoveBacked
<1>6. CASE Select(s)
  <2>1. UNCHANGED <<row, dst, jobs, evidence>>
    BY <1>6 DEF Select
  <2>2. CASE run' = [run EXCEPT ![s] = Over(s)]
    BY <1>1, <1>2, <2>1, <2>2, MoveBacked
  <2>3. CASE run' # [run EXCEPT ![s] = Over(s)]
    <3>1. PICK b \in SUBSET (stored \cap old[s]),
               l \in SUBSET (stored \cap old[s]) :
            run' = [run EXCEPT ![s].pc = "work", ![s].todo = b, ![s].late = l]
      <4>1. PICK b \in SUBSET {t \in stored \cap old[s] : Due(row[t])} :
              run' = [run EXCEPT ![s].pc = "work", ![s].todo = b,
                            ![s].late = {t \in b : row[t].status = "leased"}]
        BY <1>6, <2>3 DEF Select
      <4>2. /\ b \in SUBSET (stored \cap old[s])
            /\ {t \in b : row[t].status = "leased"} \in SUBSET (stored \cap old[s])
        OBVIOUS
      <4>3. QED
        BY <4>1, <4>2
    <3> DEFINE r == [run[s] EXCEPT !.pc = "work", !.todo = b, !.late = l]
    <3>2. b \subseteq Tasks /\ l \subseteq Tasks
      BY DEF IInv, TypeOK
    <3>3. r \in Run /\ r.pc # "recheck" /\ r.res = run[s].res
      BY <1>1, <3>2 DEF Run
    <3>4. run' = [run EXCEPT ![s] = r]
      BY <3>1
    <3> HIDE DEF r
    <3>5. QED
      BY <1>2, <2>1, <3>3, <3>4, MoveBacked
  <2>4. QED
    BY <2>2, <2>3
<1>7. ASSUME NEW t \in Tasks, CompareFails(s, t)
      PROVE  (FinalizedBacked /\ Backed)'
  BY <1>1, <1>2, <1>7, MoveBacked DEF CompareFails
<1>8. ASSUME NEW t \in Tasks, Probe(s, t)
      PROVE  (FinalizedBacked /\ Backed)'
  <2>1. UNCHANGED <<row, dst, jobs, evidence>>
    BY <1>8 DEF Probe
  <2>2. CASE \E o \in Outcome : Record(s, t, o) /\ (o = "ok" => Judge(t) = "ok")
    BY <2>1, <2>2, RecordBacked, SeenShown
  <2>3. CASE run' = [run EXCEPT ![s].pc = "copy", ![s].cur = t]
    <3> DEFINE r == [run[s] EXCEPT !.pc = "copy", !.cur = t]
    <3>1. r \in Run /\ r.pc # "recheck" /\ r.res = run[s].res
      BY <1>1 DEF Run
    <3>2. run' = [run EXCEPT ![s] = r]
      BY <2>3
    <3> HIDE DEF r
    <3>3. QED
      BY <1>2, <2>1, <3>1, <3>2, MoveBacked
  <2>4. QED
    BY <1>8, <2>2, <2>3 DEF Probe, Judge, Outcome, Failure
<1>9. CASE Copy(s)
  BY <1>9, CopyBacked
<1>10. CASE Recheck(s)
  <2> DEFINE t == run[s].cur
  <2>1. t \in Tasks /\ UNCHANGED <<row, dst, jobs, evidence>>
    BY <1>10 DEF Recheck, IInv, CopyingTask
  <2>2. dst[PathOf[t]] = NoSize => t \in evidence
    BY <1>10 DEF Recheck, IInv, Backed
  <2> HIDE DEF t
  <2>3. PICK o \in Outcome : Record(s, t, o) /\ (o = "ok" => t \in evidence)
    BY <1>10, <2>1, <2>2, SeenShown DEF Recheck, Judge, Outcome, Failure, t
  <2>4. QED
    BY <2>1, <2>3, RecordBacked
<1>11. CASE Reread(s)
  <2> DEFINE read == [t \in Tasks |-> IF run[s].res[t] = "none" THEN NewRow
                                      ELSE row[t]]
             r == [run[s] EXCEPT !.pc = "commit", !.late = {}, !.read = read]
  <2>1. read \in [Tasks -> Row]
    BY <1>1, NewRowType
  <2>2. run' = [run EXCEPT ![s] = r] /\ UNCHANGED <<row, dst, jobs, evidence>>
    BY <1>11 DEF Reread
  <2> HIDE DEF read
  <2>3. r \in Run /\ r.pc # "recheck" /\ r.res = run[s].res
    BY <1>1, <2>1 DEF Run
  <2> HIDE DEF r
  <2>4. QED
    BY <1>2, <2>2, <2>3, MoveBacked
<1>12. CASE Commit(s)
  BY <1>12, CommitBacked
<1>13. QED
  BY <1>3, <1>4, <1>5, <1>6, <1>7, <1>8, <1>9, <1>10, <1>11, <1>12 DEF Step

LEMMA NextBacked ==
  ASSUME IInv, [Next]_vars
  PROVE  (FinalizedBacked /\ Backed)'
<1> USE DEF table, store
<1>1. /\ run \in [Scanners -> Run] /\ row \in [Tasks -> Row]
      /\ dst \in [Paths -> Sizes \cup {NoSize}]
      /\ source \in [Sources -> Tasks \cup {NoTask}]
      /\ request \in [task : Tasks \cup {NoTask}, reset : BOOLEAN, read : Row]
  BY DEF IInv, TypeOK
<1>2. ASSUME NEW s \in Scanners, Abort(s)
      PROVE  (FinalizedBacked /\ Backed)'
  <2>1. Over(s) \in Run /\ Over(s).pc # "recheck" /\ Over(s).res = NoResult
    BY IdleType DEF Over, Idle
  <2>2. run' = [run EXCEPT ![s] = Over(s)] /\ UNCHANGED <<row, dst, jobs, evidence>>
    BY <1>2 DEF Abort
  <2>3. QED
    BY <2>1, <2>2, MoveBacked DEF IInv, FinalizedBacked
<1>3. ASSUME (\A t \in Tasks : row'[t].status = "finalized" => t \in evidence),
             UNCHANGED <<run, dst, jobs, evidence>>
      PROVE  (FinalizedBacked /\ Backed)'
  BY <1>3 DEF IInv, FinalizedBacked, Backed, Shown
<1>4. ASSUME NEW t \in Tasks, NEW b \in BOOLEAN, RequeueRead(t, b)
      PROVE  (FinalizedBacked /\ Backed)'
  BY <1>3, <1>4 DEF RequeueRead, IInv, FinalizedBacked
<1>5. CASE RequeueCommit
  <2> DEFINE t == request.task
             new == RequeueRow(request.read, request.reset)
  <2>1. new \in Row /\ request.read \in Row
    BY <1>1, RequeueRowType
  <2>2. new.status = "queued"
    <3>1. DropLease(ForgetOutput(request.read)) \in Row
      BY <2>1 DEF DropLease, ForgetOutput, Row, Expiry
    <3>2. QED
      BY <3>1 DEF RequeueRow, Row
  <2>3. /\ row' = [row EXCEPT ![t] = Flush(row[t], request.read, new, FALSE)]
        /\ UNCHANGED <<run, dst, jobs, evidence>>
    BY <1>5 DEF RequeueCommit
  <2> HIDE DEF new
  <2>4. ASSUME NEW u \in Tasks, row'[u].status = "finalized"
        PROVE  row[u].status = "finalized"
    <3>1. row[u] \in Row
      BY <1>1
    <3>2. Flush(row[u], request.read, new, FALSE).status
            \in {row[u].status, new.status}
      BY <2>1, <3>1, FlushStatus
    <3>3. QED
      BY <1>1, <2>2, <2>3, <2>4, <3>2
  <2>5. QED
    BY <1>3, <2>3, <2>4 DEF IInv, FinalizedBacked
<1>6. ASSUME NEW t \in Tasks, Expire(t)
      PROVE  (FinalizedBacked /\ Backed)'
  <2>1. \A u \in Tasks : row'[u].status = row[u].status
    BY <1>1, <1>6 DEF Expire, Row
  <2>2. QED
    BY <1>3, <1>6, <2>1 DEF Expire, IInv, FinalizedBacked
<1>7. ASSUME NEW t \in Tasks, Land(t)
      PROVE  (FinalizedBacked /\ Backed)'
  <2>1. /\ Shown(dst', jobs') \subseteq evidence' /\ evidence \subseteq evidence'
        /\ UNCHANGED <<run, row>>
    BY <1>7 DEF Land
  <2>2. \A p \in Paths : dst[p] # NoSize => dst'[p] # NoSize
    BY <1>1, <1>7, CopyScanAssumption, TaskRowAssumption DEF Land
  <2>3. ASSUME NEW x \in Scanners, run[x].pc = "recheck"
        PROVE  run[x].cur \in evidence' \/ dst'[PathOf[run[x].cur]] # NoSize
    <3>1. PathOf[run[x].cur] \in Paths
      BY <2>3, CopyScanAssumption DEF IInv, CopyingTask
    <3>2. QED
      BY <2>1, <2>2, <2>3, <3>1 DEF IInv, Backed
  <2>4. QED
    BY <2>1, <2>3 DEF IInv, FinalizedBacked, Backed, Shown
<1>8. ASSUME NEW f \in Sources, NEW v \in Tasks \cup {NoTask}, Change(f, v)
      PROVE  (FinalizedBacked /\ Backed)'
  BY <1>3, <1>8 DEF Change, IInv, FinalizedBacked
<1>9. ASSUME NEW s \in Scanners, Step(s)
      PROVE  (FinalizedBacked /\ Backed)'
  BY <1>9, StepBacked
<1>10. CASE UNCHANGED vars
  BY <1>3, <1>10 DEF vars, IInv, FinalizedBacked
<1>11. QED
  BY <1>2, <1>4, <1>5, <1>6, <1>7, <1>8, <1>9, <1>10 DEF Next

(* A finalized row rests on an accepted copy to its final path or a file   *)
(* of its size seen there, whatever fails, is retried or is done by two    *)
(* runs at once (scanner.py:40-165).                                       *)
THEOREM FinalizedBackedSafe == Spec => []FinalizedBacked
<1>1. Init => IInv
  BY InitType, InitBacked DEF IInv
<1>2. IInv /\ [Next]_vars => IInv'
  BY NextType, NextBacked DEF IInv
<1>3. IInv => FinalizedBacked
  BY DEF IInv
<1>4. QED
  BY <1>1, <1>2, <1>3, PTL DEF Spec

----------------------------------------------------------------------------
(* How often a row is tried, and what becomes of a row that two runs       *)
(* finish.  The invariants speak of what a run has of a row (Holds,        *)
(* Pending); what its steps do to that is summed up in Shapes.             *)

(* What a run has of a row: it has selected it and will read it again, or  *)
(* it has done so and will commit.                                         *)
Holds(s, t) ==
  /\ run[s].pc \in {"work", "copy", "recheck"}
  /\ t \in run[s].todo \ run[s].late \/ run[s].res[t] # "none"

Pending(s, t) == run[s].pc = "commit" /\ run[s].res[t] # "none"

Written(s, t) == run[s].read[t].attempts + 1

Onces == Scanners \ {Server}
Begun == {s \in Onces : run[s].pc # "idle"}

InBatch ==
  /\ count.onces = Cardinality(Begun)
  /\ count.requeues = 0 =>
       request = NoRequest /\ \A t \in Tasks \ stored : row[t].attempts = 0
  /\ \A s \in Scanners :
       /\ run[s].pc \in {"copy", "recheck"} => run[s].cur \in run[s].todo \ run[s].late
       /\ run[s].pc \in {"idle", "list", "select", "gone"} =>
            run[s].todo = {} /\ run[s].res = NoResult
  /\ \A s \in Scanners, t \in Tasks :
       Holds(s, t) \/ Pending(s, t) => t \in stored

(* The server's thread alone. *)
AloneBounded ==
  count.onces = 0 =>
    \A t \in Tasks :
      /\ row[t].attempts <= MaxAttempts
      /\ Holds(Server, t) => row[t].attempts < MaxAttempts
      /\ Pending(Server, t) => Written(Server, t) <= MaxAttempts

(* The runs of --scan-once that may still read the row, or have read so    *)
(* few attempts that what they write opens the row again.                  *)
Spare(t) ==
  {s \in Onces :
     \/ run[s].pc = "list"
     \/ Holds(s, t)
     \/ run[s].pc \in {"select", "work", "copy", "recheck", "commit"}
          /\ t \in old[s] /\ ~Pending(s, t)
     \/ Pending(s, t) /\ Written(s, t) < MaxAttempts}

Below(t, k) ==
  /\ row[t].attempts + Cardinality(Spare(t)) + k <= MaxAttempts + count.onces
  /\ \A s \in Onces : Pending(s, t) =>
       Written(s, t) + Cardinality(Spare(t)) + k <= MaxAttempts + count.onces

(* The server's thread may select the row, or has it with attempts left.   *)
Open(t) ==
  \/ row[t].attempts < MaxAttempts
  \/ Holds(Server, t)
  \/ Pending(Server, t) /\ Written(Server, t) < MaxAttempts

Shared(t) ==
  /\ Below(t, 0)
  /\ Open(t) => Below(t, 1)
  /\ Pending(Server, t) =>
       Written(Server, t) + Cardinality(Spare(t)) <= MaxAttempts + count.onces

SharedBounded == count.requeues = 0 => \A t \in Tasks : Shared(t)

(* What rows look like that nobody has requeued. *)
Plain(r) == r.worker = NoWorker /\ r.expiry = "none" /\ r.staging = NoNonce
Marked(r, t) == r.final = PathOf[t] /\ r.action = "copy"
Closed(r) == r.status \in {"finalized", "deadletter"}

Shaped(r, t) ==
  \/ r.status = "leased"
  \/ /\ Plain(r) /\ r.status = "queued" /\ r.size = NoSize
     /\ Marked(r, t) \/ (r.final = NoPath /\ r.action = "none")
  \/ /\ Plain(r) /\ Marked(r, t)
     /\ \/ r.status = "finalized" /\ r.size = SizeOf[t]
        \/ r.status = "deadletter" /\ r.size \in {NoSize, SizeOf[t]}

Touches(s, t) == Holds(s, t) \/ Pending(s, t)

(* With two runs under way at most one has a closed row; if it read it     *)
(* closed, nobody has changed it since.                                    *)
Whole(t) ==
  /\ Shaped(row[t], t)
  /\ Closed(row[t]) =>
       \A s, u \in Scanners : Touches(s, t) /\ Touches(u, t) => s = u
  /\ \A s \in Scanners : Touches(s, t) => row[t].status # "leased"
  /\ \A s \in Scanners : Pending(s, t) =>
       LET r == run[s].read[t] IN
         /\ Shaped(r, t) /\ r.status # "leased"
         /\ Marked(r, t) => Marked(row[t], t)
         /\ Closed(r) => row[t] = r

RowsWhole == count.requeues = 0 /\ count.onces <= 1 => \A t \in Tasks : Whole(t)

----------------------------------------------------------------------------
(* What a step of a scanner does to its batch and to the rows. *)
Rests(s) ==
  /\ run'[s].todo = {} /\ run'[s].res = NoResult

Begins(s) ==
  /\ run[s].pc = "idle" /\ run'[s].pc = "list" /\ Rests(s)
  /\ UNCHANGED <<row, stored, old>>
  /\ count'.onces = IF s = Server THEN count.onces ELSE count.onces + 1

Lists(s) ==
  /\ run[s].pc = "list" /\ run'[s].pc = "list" /\ Rests(s)
  /\ UNCHANGED old /\ stored \subseteq stored' /\ count'.onces = count.onces
  /\ \A t \in Tasks : row'[t] = row[t] \/ (t \in stored' \ stored /\ row'[t] = NewRow)

Starts(s) ==
  /\ run[s].pc = "list" /\ run'[s].pc = "select" /\ Rests(s)
  /\ UNCHANGED <<row, stored>> /\ count'.onces = count.onces
  /\ \A u \in Scanners \ {s} : old'[u] = old[u]

Drops(s) ==
  /\ run[s].pc # "idle" /\ Rests(s)
  /\ run'[s].pc = "gone" \/ (s = Server /\ run'[s].pc = "idle")
  /\ UNCHANGED <<row, stored, old>> /\ count'.onces = count.onces

Picks(s) ==
  /\ run[s].pc = "select" /\ run'[s].pc = "work" /\ run'[s].res = NoResult
  /\ \A t \in run'[s].todo \ run'[s].late :
       t \in stored /\ t \in old[s] /\ Due(row[t]) /\ row[t].status # "leased"
  /\ UNCHANGED <<row, stored, old>> /\ count'.onces = count.onces

Goes(s) ==
  /\ {run[s].pc, run'[s].pc} \subseteq {"work", "copy", "recheck"}
  /\ run'[s].pc \in {"copy", "recheck"} => run'[s].cur \in run'[s].todo \ run'[s].late
  /\ \A t \in Tasks : Holds(s, t)' => Holds(s, t)
  /\ UNCHANGED <<row, stored, old>> /\ count'.onces = count.onces

Rereads(s) ==
  /\ run[s].pc = "work" /\ run'[s].pc = "commit"
  /\ run'[s].res = run[s].res
  /\ \A t \in Tasks : run[s].res[t] # "none" => run'[s].read[t] = row[t]
  /\ UNCHANGED <<row, stored, old>> /\ count'.onces = count.onces

Commits(s) ==
  /\ run[s].pc = "commit" /\ run'[s].pc = "select" /\ Rests(s)
  /\ UNCHANGED stored /\ count'.onces = count.onces
  /\ \A u \in Scanners : old'[u] \subseteq old[u]
  /\ \A t \in Tasks :
       IF run[s].res[t] = "none" THEN row'[t] = row[t]
       ELSE /\ t \notin old'[s]
            /\ row'[t] = Flush(row[t], run[s].read[t],
                               CopyRow(run[s].read[t], t, run[s].res[t]), FALSE)

Shapes(s) ==
  /\ \A u \in Scanners \ {s} : run'[u] = run[u]
  /\ request' = request /\ count'.requeues = count.requeues
  /\ \/ Begins(s) \/ Lists(s) \/ Starts(s) \/ Drops(s) \/ Picks(s)
     \/ Goes(s) \/ Rereads(s) \/ Commits(s)

LEMMA RecordGoes ==
  ASSUME TypeOK, InBatch, NEW s \in Scanners, NEW t \in Tasks, NEW o \in Outcome,
         Record(s, t, o), run[s].pc \in {"work", "copy", "recheck"},
         t \in run[s].todo \ run[s].late,
         UNCHANGED <<row, stored, old, request, count>>
  PROVE  Shapes(s)
<1>1. run \in [Scanners -> Run] /\ run[s] \in Run
  BY DEF TypeOK
<1>2. /\ run'[s].pc = "work" /\ run'[s].todo = run[s].todo \ {t}
      /\ run'[s].late = run[s].late
      /\ run'[s].res = [run[s].res EXCEPT ![t] = o]
      /\ \A u \in Scanners \ {s} : run'[u] = run[u]
  BY <1>1 DEF Record, Run
<1>3. \A u \in Tasks : Holds(s, u)' => Holds(s, u)
  BY <1>1, <1>2 DEF Holds, Run
<1>4. QED
  BY <1>2, <1>3 DEF Shapes, Goes

LEMMA OverShape ==
  ASSUME TypeOK, NEW s \in Scanners, run[s].pc # "idle",
         run' = [run EXCEPT ![s] = Over(s)],
         UNCHANGED <<row, stored, old, request>>,
         count'.onces = count.onces, count'.requeues = count.requeues
  PROVE  Shapes(s)
<1>1. /\ run'[s] = Over(s) /\ \A u \in Scanners \ {s} : run'[u] = run[u]
  BY DEF TypeOK
<1>2. Drops(s)
  BY <1>1 DEF Drops, Rests, Over, Idle
<1>3. QED
  BY <1>1, <1>2 DEF Shapes

LEMMA StepShape ==
  ASSUME TypeOK, CopyingTask, InBatch, NEW s \in Scanners, Step(s) \/ Abort(s)
  PROVE  Shapes(s)
<1> USE DEF table, store
<1>1. /\ run \in [Scanners -> Run] /\ run[s] \in Run /\ row \in [Tasks -> Row]
      /\ count \in [onces : Nat, aborts : Nat, requeues : Nat, changes : Nat]
      /\ old \in [Scanners -> SUBSET Tasks]
  BY DEF TypeOK
<1>2. CASE Begin(s)
  <2>1. /\ run'[s] = [Idle EXCEPT !.pc = "list", !.left = Sources]
        /\ \A u \in Scanners \ {s} : run'[u] = run[u]
    BY <1>1, <1>2 DEF Begin
  <2>2. count'.requeues = count.requeues
        /\ count'.onces = IF s = Server THEN count.onces ELSE count.onces + 1
    BY <1>1, <1>2 DEF Begin
  <2>3. run'[s].pc = "list" /\ Rests(s)
    BY <2>1 DEF Rests, Idle
  <2>4. run[s].pc = "idle" /\ UNCHANGED <<row, stored, old, request>>
    BY <1>2 DEF Begin
  <2>5. QED
    BY <2>1, <2>2, <2>3, <2>4 DEF Shapes, Begins
<1>3. ASSUME NEW f \in Sources, List(s, f)
      PROVE  Shapes(s)
  <2>1. /\ run[s].pc = "list" /\ run'[s].pc = "list"
        /\ run'[s].todo = run[s].todo /\ run'[s].res = run[s].res
        /\ \A u \in Scanners \ {s} : run'[u] = run[u]
    BY <1>1, <1>3 DEF List, Run
  <2>2. Rests(s)
    BY <2>1 DEF InBatch, Rests
  <2>3. /\ stored \subseteq stored'
        /\ \A t \in Tasks : row'[t] = row[t] \/ (t \in stored' \ stored /\ row'[t] = NewRow)
    BY <1>1, <1>3 DEF List
  <2>4. QED
    BY <1>3, <2>1, <2>2, <2>3 DEF List, Shapes, Lists
<1>4. CASE StartCopying(s)
  <2>1. /\ run[s].pc = "list" /\ run'[s].pc = "select"
        /\ run'[s].todo = run[s].todo /\ run'[s].res = run[s].res
        /\ \A u \in Scanners \ {s} : run'[u] = run[u]
        /\ \A u \in Scanners \ {s} : old'[u] = old[u]
    BY <1>1, <1>4 DEF StartCopying, Run
  <2>2. Rests(s)
    BY <2>1 DEF InBatch, Rests
  <2>3. QED
    BY <1>4, <2>1, <2>2 DEF StartCopying, Shapes, Starts
<1>5. CASE Select(s)
  <2>1. CASE run' = [run EXCEPT ![s] = Over(s)]
    BY <1>5, <2>1, OverShape DEF Select
  <2>2. CASE run' # [run EXCEPT ![s] = Over(s)]
    <3>1. PICK b \in SUBSET {t \in stored \cap old[s] : Due(row[t])} :
            run' = [run EXCEPT ![s].pc = "work", ![s].todo = b,
                          ![s].late = {t \in b : row[t].status = "leased"}]
      BY <1>5, <2>2 DEF Select
    <3>2. /\ run'[s].pc = "work" /\ run'[s].todo = b
          /\ run'[s].late = {t \in b : row[t].status = "leased"}
          /\ run'[s].res = run[s].res
          /\ \A u \in Scanners \ {s} : run'[u] = run[u]
      BY <1>1, <3>1 DEF Run
    <3>3. Picks(s)
      BY <1>5, <3>2 DEF Select, InBatch, Picks
    <3>4. QED
      BY <1>5, <3>2, <3>3 DEF Select, Shapes
  <2>3. QED
    BY <2>1, <2>2
<1>6. ASSUME NEW t \in Tasks, CompareFails(s, t)
      PROVE  Shapes(s)
  BY <1>6, OverShape DEF CompareFails
<1>7. ASSUME NEW t \in Tasks, Probe(s, t)
      PROVE  Shapes(s)
  <2>1. CASE \E o \in Outcome : Record(s, t, o)
    BY <1>7, <2>1, RecordGoes DEF Probe
  <2>2. CASE run' = [run EXCEPT ![s].pc = "copy", ![s].cur = t]
    <3>1. /\ run'[s].pc = "copy" /\ run'[s].cur = t /\ run'[s].todo = run[s].todo
          /\ run'[s].late = run[s].late /\ run'[s].res = run[s].res
          /\ \A u \in Scanners \ {s} : run'[u] = run[u]
      BY <1>1, <2>2 DEF Run
    <3>2. Goes(s)
      BY <1>7, <3>1 DEF Probe, Goes, Holds
    <3>3. QED
      BY <1>7, <3>1, <3>2 DEF Probe, Shapes
  <2>3. QED
    BY <1>7, <2>1, <2>2 DEF Probe, Judge, Outcome, Failure
<1>8. CASE Copy(s)
  <2> DEFINE t == run[s].cur
  <2>1. /\ run[s].pc = "copy" /\ t \in Tasks /\ t \in run[s].todo \ run[s].late
        /\ UNCHANGED <<row, stored, old, request, count>>
    BY <1>8 DEF Copy, CopyingTask, InBatch
  <2>2. CASE \E o \in Outcome : Record(s, t, o)
    BY <2>1, <2>2, RecordGoes
  <2>3. CASE run' = [run EXCEPT ![s].pc = "recheck"]
    <3>1. /\ run'[s].pc = "recheck" /\ run'[s].cur = t /\ run'[s].todo = run[s].todo
          /\ run'[s].late = run[s].late /\ run'[s].res = run[s].res
          /\ \A u \in Scanners \ {s} : run'[u] = run[u]
      BY <1>1, <2>3 DEF Run
    <3>2. Goes(s)
      BY <2>1, <3>1 DEF Goes, Holds
    <3>3. QED
      BY <2>1, <3>1, <3>2 DEF Shapes
  <2>4. QED
    BY <1>8, <2>2, <2>3 DEF Copy, Outcome, Failure
<1>9. CASE Recheck(s)
  <2>1. run[s].cur \in Tasks /\ run[s].cur \in run[s].todo \ run[s].late
    BY <1>9 DEF Recheck, CopyingTask, InBatch
  <2>2. QED
    BY <1>9, <2>1, RecordGoes DEF Recheck, Judge, Outcome, Failure
<1>10. CASE Reread(s)
  <2> DEFINE read == [t \in Tasks |-> IF run[s].res[t] = "none" THEN NewRow ELSE row[t]]
  <2>1. run' = [run EXCEPT ![s].pc = "commit", ![s].late = {}, ![s].read = read]
    BY <1>10 DEF Reread
  <2>2. /\ run'[s].pc = "commit" /\ run'[s].res = run[s].res /\ run'[s].read = read
        /\ \A u \in Scanners \ {s} : run'[u] = run[u]
    BY <1>1, <2>1 DEF Run
  <2>3. \A t \in Tasks : run[s].res[t] # "none" => run'[s].read[t] = row[t]
    BY <2>2
  <2>4. QED
    BY <1>10, <2>2, <2>3 DEF Reread, Shapes, Rereads
<1>11. CASE Commit(s)
  <2>1. /\ run'[s] = [Idle EXCEPT !.pc = "select"]
        /\ \A u \in Scanners \ {s} : run'[u] = run[u]
    BY <1>1, <1>11 DEF Commit
  <2>2. /\ \A u \in Scanners : old'[u] \subseteq old[u]
        /\ \A t \in Tasks : run[s].res[t] # "none" => t \notin old'[s]
    BY <1>1, <1>11 DEF Commit, Touch
  <2>3. \A t \in Tasks :
          row'[t] = IF run[s].res[t] = "none" THEN row[t]
                    ELSE Flush(row[t], run[s].read[t],
                               CopyRow(run[s].read[t], t, run[s].res[t]), FALSE)
    BY <1>11 DEF Commit
  <2>4. run'[s].pc = "select" /\ Rests(s)
    BY <2>1 DEF Rests, Idle
  <2>5. run[s].pc = "commit" /\ UNCHANGED <<stored, request, count>>
    BY <1>11 DEF Commit
  <2>6. Commits(s)
    BY <2>2, <2>3, <2>4, <2>5 DEF Commits
  <2>7. QED
    BY <2>1, <2>5, <2>6 DEF Shapes
<1>12. CASE Abort(s)
  <2>1. count'.onces = count.onces /\ count'.requeues = count.requeues
    BY <1>1, <1>12 DEF Abort
  <2>2. QED
    BY <1>12, <2>1, OverShape DEF Abort
<1>13. QED
  BY <1>2, <1>3, <1>4, <1>5, <1>6, <1>7, <1>8, <1>9, <1>10, <1>11, <1>12 DEF Step

(* The other runs keep what they have. *)
LEMMA Others ==
  ASSUME NEW s \in Scanners, Shapes(s), NEW u \in Scanners \ {s}, NEW t \in Tasks
  PROVE  /\ Holds(u, t)' <=> Holds(u, t)
         /\ Pending(u, t)' <=> Pending(u, t)
         /\ Written(u, t)' = Written(u, t)
BY DEF Shapes, Holds, Pending, Written

(* The steps of a run that has begun. *)
LEMMA BegunShape ==
  ASSUME TypeOK, InBatch, NEW s \in Scanners, Shapes(s)
  PROVE  /\ IsFiniteSet(Begun) /\ IsFiniteSet(Onces)
         /\ count'.onces = Cardinality(Begun')
         /\ count.onces <= count'.onces
         /\ Begun \subseteq Begun'
         /\ s \in Onces /\ Begins(s) => count'.onces = count.onces + 1
         /\ s = Server \/ ~Begins(s) => count'.onces = count.onces
<1>1. IsFiniteSet(Onces)
  BY CopyScanAssumption, FS_Subset DEF Onces
<1>2. IsFiniteSet(Begun)
  BY <1>1, FS_Subset DEF Begun
<1>3. count.onces = Cardinality(Begun) /\ count.onces \in Nat
  BY DEF InBatch, TypeOK
<1>4. \A u \in Scanners \ {s} : run'[u] = run[u]
  BY DEF Shapes
<1>5. CASE Begins(s) /\ s \in Onces
  <2>1. s \notin Begun /\ Begun' = Begun \cup {s} /\ s # Server
    BY <1>4, <1>5 DEF Begins, Begun, Onces
  <2>2. count'.onces = count.onces + 1
    BY <1>5, <2>1 DEF Begins
  <2>3. Cardinality(Begun \cup {s}) = Cardinality(Begun) + 1
    BY <1>2, <2>1, FS_AddElement
  <2>4. QED
    BY <1>1, <1>2, <1>3, <1>5, <2>1, <2>2, <2>3
<1>6. CASE s = Server \/ ~Begins(s)
  <2>1. count'.onces = count.onces
    BY <1>6 DEF Shapes, Begins, Lists, Starts, Drops, Picks, Goes, Rereads, Commits
  <2>2. s \in Onces => run[s].pc # "idle" /\ run'[s].pc # "idle"
    BY <1>6 DEF Shapes, Lists, Starts, Drops, Picks, Goes, Rereads, Commits, Onces
  <2>3. Begun' = Begun
    BY <1>4, <2>2 DEF Begun, Onces
  <2>4. s \in Onces => ~Begins(s)
    BY <1>6 DEF Onces
  <2>5. QED
    BY <1>1, <1>2, <1>3, <2>1, <2>3, <2>4
<1>7. QED
  BY <1>5, <1>6 DEF Onces

LEMMA InBatchShape ==
  ASSUME TypeOK, InBatch, NEW s \in Scanners, Shapes(s)
  PROVE  InBatch'
<1>1. count'.onces = Cardinality(Begun')
  BY BegunShape
<1>2. stored \subseteq stored'
  BY DEF Shapes, Begins, Lists, Starts, Drops, Picks, Goes, Rereads, Commits
<1>3. ASSUME count'.requeues = 0
      PROVE  request' = NoRequest /\ \A t \in Tasks \ stored' : row'[t].attempts = 0
  <2>1. request' = NoRequest /\ \A t \in Tasks \ stored : row[t].attempts = 0
    BY <1>3 DEF Shapes, InBatch
  <2>2. ASSUME NEW t \in Tasks \ stored'
        PROVE  row'[t] = row[t]
    <3>1. CASE Commits(s)
      <4>1. ~Pending(s, t)
        BY <3>1, <2>2 DEF InBatch, Commits
      <4>2. QED
        BY <3>1, <4>1 DEF Commits, Pending
    <3>2. CASE ~Commits(s)
      BY <3>2, <2>2 DEF Shapes, Begins, Lists, Starts, Drops, Picks, Goes, Rereads
    <3>3. QED
      BY <3>1, <3>2
  <2>3. QED
    BY <1>2, <2>1, <2>2
<1>4. ASSUME NEW u \in Scanners
      PROVE  /\ run'[u].pc \in {"copy", "recheck"} =>
                  run'[u].cur \in run'[u].todo \ run'[u].late
             /\ run'[u].pc \in {"idle", "list", "select", "gone"} =>
                  run'[u].todo = {} /\ run'[u].res = NoResult
  <2>1. CASE u # s
    BY <2>1 DEF Shapes, InBatch
  <2>2. CASE u = s
    BY <2>2 DEF Shapes, Begins, Lists, Starts, Drops, Picks, Goes, Rereads,
                Commits, Rests
  <2>3. QED
    BY <2>1, <2>2
<1>5. ASSUME NEW u \in Scanners, NEW t \in Tasks, (Holds(u, t) \/ Pending(u, t))'
      PROVE  t \in stored'
  <2>1. CASE u # s
    BY <1>2, <1>5, <2>1, Others DEF InBatch
  <2>2. CASE u = s
    <3>1. CASE Picks(s)
      <4>1. run'[s].res[t] = "none"
        BY <3>1 DEF Picks, NoResult
      <4>2. QED
        BY <1>2, <1>5, <2>2, <3>1, <4>1 DEF Picks, Holds, Pending
    <3>2. CASE Goes(s)
      BY <1>2, <1>5, <2>2, <3>2 DEF Goes, Holds, Pending, InBatch
    <3>3. CASE Rereads(s)
      <4>1. Holds(s, t)
        BY <1>5, <2>2, <3>3 DEF Rereads, Holds, Pending
      <4>2. QED
        BY <1>2, <4>1 DEF InBatch
    <3>4. CASE ~Picks(s) /\ ~Goes(s) /\ ~Rereads(s)
      BY <1>5, <2>2, <3>4 DEF Shapes, Begins, Lists, Starts, Drops, Commits,
                              Holds, Pending
    <3>5. QED
      BY <3>1, <3>2, <3>3, <3>4
  <2>3. QED
    BY <2>1, <2>2
<1>6. QED
  BY <1>1, <1>3, <1>4, <1>5 DEF InBatch

----------------------------------------------------------------------------
(* Attempts of the server's thread alone.                                  *)

(* A copy writes one attempt more than was read, whatever has happened to  *)
(* the row since.                                                          *)
LEMMA CopyAttempts ==
  ASSUME NEW db \in Row, NEW r \in Row, NEW t \in Tasks, NEW o \in Outcome
  PROVE  Flush(db, r, CopyRow(r, t, o), FALSE).attempts = r.attempts + 1
<1>1. r.attempts \in Nat
  BY DEF Row
<1>2. CopyRow(r, t, o).attempts = r.attempts + 1
  BY <1>1 DEF CopyRow, DropLease, Row
<1>3. QED
  BY <1>1, <1>2 DEF Flush, Changed

LEMMA RequeueAttempts ==
  ASSUME NEW db \in Row, NEW r \in Row, NEW b \in BOOLEAN
  PROVE  Flush(db, r, RequeueRow(r, b), FALSE).attempts \in {db.attempts, 0}
<1>1. RequeueRow(r, b).attempts = IF b THEN 0 ELSE r.attempts
  BY DEF RequeueRow, DropLease, ForgetOutput, Row
<1>2. QED
  BY <1>1 DEF Flush, Changed

LEMMA CommitAttempts ==
  ASSUME TypeOK, NEW s \in Scanners, Commits(s), NEW t \in Tasks
  PROVE  row'[t].attempts = IF Pending(s, t) THEN Written(s, t)
                            ELSE row[t].attempts
<1>1. row[t] \in Row /\ run[s].read[t] \in Row
      /\ run[s].res[t] \in Outcome \cup {"none"}
  BY DEF TypeOK, Run
<1>2. CASE run[s].res[t] = "none"
  BY <1>2 DEF Commits, Pending
<1>3. CASE run[s].res[t] # "none"
  <2>1. row'[t] = Flush(row[t], run[s].read[t],
                        CopyRow(run[s].read[t], t, run[s].res[t]), FALSE)
    BY <1>3 DEF Commits
  <2> DEFINE r == run[s].read[t]
             o == run[s].res[t]
  <2>2. row'[t].attempts = r.attempts + 1
    <3>1. o \in Outcome
      BY <1>1, <1>3
    <3> HIDE DEF r, o
    <3>2. Flush(row[t], r, CopyRow(r, t, o), FALSE).attempts = r.attempts + 1
      BY <1>1, <3>1, CopyAttempts DEF r
    <3>3. QED
      BY <2>1, <3>2 DEF r, o
  <2>3. QED
    BY <1>3, <2>2 DEF Commits, Pending, Written
<1>4. QED
  BY <1>2, <1>3

LEMMA AloneShape ==
  ASSUME TypeOK, InBatch, AloneBounded, NEW s \in Scanners, Shapes(s)
  PROVE  AloneBounded'
<1> SUFFICES ASSUME count'.onces = 0, NEW t \in Tasks
             PROVE  (/\ row[t].attempts <= MaxAttempts
                     /\ Holds(Server, t) => row[t].attempts < MaxAttempts
                     /\ Pending(Server, t) => Written(Server, t) <= MaxAttempts)'
  BY DEF AloneBounded
<1>1. count.onces = 0 /\ Begun' = {}
  <2>1. count.onces \in Nat /\ count'.onces >= count.onces /\ IsFiniteSet(Begun')
    <3>1. IsFiniteSet(Begun')
      BY BegunShape, FS_Subset DEF Begun, Onces
    <3>2. QED
      BY <3>1, BegunShape DEF TypeOK
  <2>2. Cardinality(Begun') = 0
    BY BegunShape
  <2>3. QED
    BY <2>1, <2>2, FS_EmptySet
<1>2. s = Server
  <2>1. s \in Onces => run'[s].pc = "idle"
    BY <1>1 DEF Begun
  <2>2. QED
    BY <2>1 DEF Shapes, Begins, Lists, Starts, Drops, Picks, Goes, Rereads,
                Commits, Onces
<1>3. /\ row[t].attempts <= MaxAttempts
      /\ Holds(s, t) => row[t].attempts < MaxAttempts
      /\ Pending(s, t) => Written(s, t) <= MaxAttempts
  BY <1>1, <1>2 DEF AloneBounded
<1>4. row[t].attempts \in Nat /\ MaxAttempts \in Nat
  BY TaskRowAssumption DEF TypeOK, Row
<1>5. CASE Picks(s)
  <2>1. Holds(s, t)' => Due(row[t])
    BY <1>5 DEF Picks, Holds, NoResult
  <2>2. QED
    BY <1>2, <1>3, <1>5, <2>1 DEF Picks, Pending, Due
<1>6. CASE Goes(s)
  BY <1>2, <1>3, <1>6 DEF Goes, Pending
<1>7. CASE Rereads(s)
  <2>1. Pending(s, t)' => Holds(s, t) /\ run'[s].read[t] = row[t]
    BY <1>7 DEF Rereads, Holds, Pending
  <2>2. ~Holds(s, t)' /\ row'[t] = row[t]
    BY <1>7 DEF Rereads, Holds
  <2>3. QED
    BY <1>2, <1>3, <1>4, <2>1, <2>2 DEF Written
<1>8. CASE Commits(s)
  <2>1. ~Holds(s, t)' /\ ~Pending(s, t)'
    BY <1>8 DEF Commits, Holds, Pending
  <2>2. QED
    BY <1>2, <1>3, <1>8, <2>1, CommitAttempts
<1>9. CASE Begins(s) \/ Lists(s) \/ Starts(s) \/ Drops(s)
  <2>1. ~Holds(s, t)' /\ ~Pending(s, t)'
    BY <1>9 DEF Begins, Lists, Starts, Drops, Holds, Pending
  <2>2. row'[t].attempts \in {row[t].attempts, 0}
    BY <1>9 DEF Begins, Lists, Starts, Drops, NewRow
  <2>3. QED
    BY <1>2, <1>3, <1>4, <2>1, <2>2
<1>10. QED
  BY <1>5, <1>6, <1>7, <1>8, <1>9 DEF Shapes

----------------------------------------------------------------------------
(* Attempts of runs side by side.                                          *)

(* A run of --scan-once joins those that may open the row again only when  *)
(* it begins, which counts.                                                *)
LEMMA SpareShape ==
  ASSUME TypeOK, InBatch, NEW s \in Scanners, Shapes(s), NEW t \in Tasks
  PROVE  /\ Spare(t)' \subseteq Spare(t) \cup {s}
         /\ s \in Spare(t)' \ Spare(t) => Begins(s)
<1>1. ASSUME NEW u \in Scanners \ {s}, u \in Spare(t)'
      PROVE  u \in Spare(t)
  <2>1. t \in old'[u] => t \in old[u]
    BY DEF Shapes, Begins, Lists, Starts, Drops, Picks, Goes, Rereads, Commits
  <2>2. run'[u].pc = run[u].pc /\ u \in Onces
    BY <1>1 DEF Shapes, Spare
  <2>3. /\ Holds(u, t)' <=> Holds(u, t)
        /\ Pending(u, t)' <=> Pending(u, t)
        /\ Written(u, t)' = Written(u, t)
    BY Others
  <2>4. \/ run'[u].pc = "list"
        \/ Holds(u, t)'
        \/ run'[u].pc \in {"select", "work", "copy", "recheck", "commit"}
             /\ t \in old'[u] /\ ~Pending(u, t)'
        \/ Pending(u, t)' /\ Written(u, t)' < MaxAttempts
    BY <1>1 DEF Spare
  <2>5. QED
    BY <2>1, <2>2, <2>3, <2>4 DEF Spare
<1>2. ASSUME s \in Spare(t)', ~Begins(s)
      PROVE  s \in Spare(t)
  <2>1. /\ s \in Onces
        /\ \/ run'[s].pc = "list"
           \/ Holds(s, t)'
           \/ run'[s].pc \in {"select", "work", "copy", "recheck", "commit"}
                /\ t \in old'[s] /\ ~Pending(s, t)'
           \/ Pending(s, t)'
    BY <1>2 DEF Spare
  <2>2. CASE run[s].pc = "list"
    BY <2>1, <2>2 DEF Spare
  <2>3. CASE Picks(s)
    <3>1. t \in old[s]
      BY <2>1, <2>3 DEF Picks, Holds, Pending, NoResult
    <3>2. QED
      BY <2>1, <2>3, <3>1 DEF Picks, Spare, Pending
  <2>4. CASE Goes(s)
    <3>1. ~Pending(s, t)' /\ ~Pending(s, t)
      BY <2>4 DEF Goes, Pending
    <3>2. Holds(s, t)' => Holds(s, t)
      BY <2>4 DEF Goes
    <3>3. QED
      BY <2>1, <2>4, <3>1, <3>2 DEF Goes, Spare
  <2>5. CASE Rereads(s)
    <3>1. ~Holds(s, t)' /\ ~Pending(s, t)
      BY <2>5 DEF Rereads, Holds, Pending
    <3>2. Pending(s, t)' => Holds(s, t)
      BY <2>5 DEF Rereads, Holds, Pending
    <3>3. QED
      BY <2>1, <2>5, <3>1, <3>2 DEF Rereads, Spare
  <2>6. CASE Commits(s)
    <3>1. ~Holds(s, t)' /\ ~Pending(s, t)'
      BY <2>6 DEF Commits, Holds, Pending
    <3>2. t \in old'[s]
      BY <2>1, <2>6, <3>1 DEF Commits
    <3>3. ~Pending(s, t) /\ t \in old[s]
      BY <2>6, <3>2 DEF Commits, Pending
    <3>4. QED
      BY <2>1, <2>6, <3>3 DEF Commits, Spare
  <2>7. CASE Drops(s)
    <3>1. s # Server
      BY <2>1 DEF Onces
    <3>2. QED
      BY <2>1, <2>7, <3>1 DEF Drops, Holds, Pending
  <2>8. QED
    BY <1>2, <2>2, <2>3, <2>4, <2>5, <2>6, <2>7 DEF Shapes, Lists, Starts
<1>3. Spare(t)' \subseteq Scanners
  BY DEF Spare, Onces
<1>4. QED
  BY <1>1, <1>2, <1>3

(* A run that is idle may not read the row. *)
LEMMA SpareBegun ==
  ASSUME NEW t \in Tasks
  PROVE  Spare(t) \subseteq Begun
BY DEF Spare, Begun, Holds, Pending

LEMMA SpareCount ==
  ASSUME TypeOK, InBatch, NEW s \in Scanners, Shapes(s), NEW t \in Tasks
  PROVE  /\ Cardinality(Spare(t)) \in Nat /\ Cardinality(Spare(t)') \in Nat
         /\ count.onces \in Nat /\ count'.onces \in Nat
         /\ Cardinality(Spare(t)) <= count.onces
         /\ count.onces <= count'.onces
         /\ Cardinality(Spare(t)') + count.onces <= Cardinality(Spare(t)) + count'.onces
         /\ s \in Spare(t) \ Spare(t)' =>
              Cardinality(Spare(t)') + 1 <= Cardinality(Spare(t))
<1> DEFINE S == Spare(t)
           T == Spare(t)'
<1>1. IsFiniteSet(Onces) /\ IsFiniteSet(Begun)
  BY BegunShape
<1>2. S \subseteq Begun
  BY SpareBegun
<1>3. /\ S \subseteq Onces /\ T \subseteq Onces
      /\ T \subseteq S \cup {s} /\ (s \in T \ S => Begins(s) /\ s \in Onces)
  BY SpareShape DEF Spare
<1>4. /\ count.onces \in Nat /\ count.onces = Cardinality(Begun)
      /\ count.onces <= count'.onces
      /\ Begins(s) /\ s \in Onces => count'.onces = count.onces + 1
      /\ count'.onces \in Nat
  <2>1. count.onces \in Nat /\ count.onces = Cardinality(Begun)
    BY DEF TypeOK, InBatch
  <2>2. count'.onces \in {count.onces, count.onces + 1}
    BY BegunShape DEF Onces
  <2>3. QED
    BY <2>1, <2>2, BegunShape
<1> HIDE DEF S, T
<1>5. IsFiniteSet(S) /\ IsFiniteSet(T) /\ IsFiniteSet(S \ {s})
  BY <1>1, <1>3, FS_Subset
<1>6. Cardinality(S) \in Nat /\ Cardinality(T) \in Nat /\ Cardinality(S) <= count.onces
  BY <1>1, <1>2, <1>4, <1>5, FS_Subset, FS_CardinalityType
<1>7. CASE s \in T \ S
  <2>1. T \subseteq S \cup {s} /\ Cardinality(S \cup {s}) = Cardinality(S) + 1
        /\ IsFiniteSet(S \cup {s})
    BY <1>3, <1>5, <1>7, FS_AddElement
  <2>2. Cardinality(T) <= Cardinality(S) + 1
    BY <2>1, FS_Subset
  <2>3. count'.onces = count.onces + 1
    BY <1>3, <1>4, <1>7
  <2>4. QED
    BY <1>4, <1>6, <1>7, <2>2, <2>3 DEF S, T
<1>8. CASE s \in S \ T
  <2>1. T \subseteq S \ {s} /\ Cardinality(S \ {s}) = Cardinality(S) - 1
    BY <1>3, <1>5, <1>8, FS_RemoveElement
  <2>2. Cardinality(T) <= Cardinality(S) - 1
    BY <1>5, <2>1, FS_Subset
  <2>3. QED
    BY <1>4, <1>6, <2>2 DEF S, T
<1>9. CASE s \notin T \ S /\ s \notin S \ T
  <2>1. T \subseteq S
    BY <1>3, <1>9
  <2>2. Cardinality(T) <= Cardinality(S)
    BY <1>5, <2>1, FS_Subset
  <2>3. QED
    BY <1>4, <1>6, <1>9, <2>2 DEF S, T
<1>10. QED
  BY <1>7, <1>8, <1>9

(* A step that neither writes the row nor reads it again leaves the sums   *)
(* alone.                                                                  *)
LEMMA QuietShared ==
  ASSUME TypeOK, InBatch, NEW s \in Scanners, Shapes(s), NEW t \in Tasks, Shared(t),
         row'[t].attempts = row[t].attempts,
         Pending(s, t)' => Pending(s, t) /\ Written(s, t)' = Written(s, t),
         Open(t)' => Open(t)
  PROVE  Shared(t)'
<1> DEFINE S == Cardinality(Spare(t))
           T == Cardinality(Spare(t)')
           N == count.onces
           O == count'.onces
<1>1. S \in Nat /\ T \in Nat /\ N \in Nat /\ O \in Nat /\ T + N <= S + O
  BY SpareCount
<1>2. \A u \in Scanners : Pending(u, t)' =>
         Pending(u, t) /\ Written(u, t)' = Written(u, t)
  BY Others
<1>3. Server \in Scanners /\ Onces \subseteq Scanners
  BY CopyScanAssumption DEF Onces
<1>4. /\ row[t].attempts \in Nat /\ MaxAttempts \in Nat
      /\ \A u \in Scanners : Written(u, t) \in Nat
  BY TaskRowAssumption DEF TypeOK, Run, Row, Written
<1>5. /\ row[t].attempts + S + 0 <= MaxAttempts + N
      /\ \A u \in Onces : Pending(u, t) => Written(u, t) + S + 0 <= MaxAttempts + N
      /\ Open(t) =>
           /\ row[t].attempts + S + 1 <= MaxAttempts + N
           /\ \A u \in Onces : Pending(u, t) => Written(u, t) + S + 1 <= MaxAttempts + N
      /\ Pending(Server, t) => Written(Server, t) + S <= MaxAttempts + N
  BY DEF Shared, Below
<1> HIDE DEF S, T, N, O
<1>6. ASSUME NEW x \in Nat, NEW k \in {0, 1}, x + S + k <= MaxAttempts + N
      PROVE  x + T + k <= MaxAttempts + O
  BY <1>1, <1>4, <1>6
<1>7. row'[t].attempts + T + 0 <= MaxAttempts + O
  BY <1>4, <1>5, <1>6
<1>8. ASSUME NEW u \in Onces, Pending(u, t)'
      PROVE  Written(u, t)' + T + 0 <= MaxAttempts + O
  <2>1. Written(u, t) \in Nat /\ Written(u, t) + S + 0 <= MaxAttempts + N
    BY <1>2, <1>3, <1>4, <1>5, <1>8
  <2>2. Written(u, t) + T + 0 <= MaxAttempts + O
    BY <1>6, <2>1
  <2>3. QED
    BY <1>2, <1>3, <1>8, <2>2
<1>9. ASSUME Open(t)'
      PROVE  /\ row'[t].attempts + T + 1 <= MaxAttempts + O
             /\ \A u \in Onces : Pending(u, t)' =>
                   Written(u, t)' + T + 1 <= MaxAttempts + O
  <2>1. row'[t].attempts + T + 1 <= MaxAttempts + O
    BY <1>4, <1>5, <1>6, <1>9
  <2>2. ASSUME NEW u \in Onces, Pending(u, t)'
        PROVE  Written(u, t)' + T + 1 <= MaxAttempts + O
    <3>1. Written(u, t) \in Nat /\ Written(u, t) + S + 1 <= MaxAttempts + N
      BY <1>2, <1>3, <1>4, <1>5, <1>9, <2>2
    <3>2. Written(u, t) + T + 1 <= MaxAttempts + O
      BY <1>6, <3>1
    <3>3. QED
      BY <1>2, <1>3, <2>2, <3>2
  <2>3. QED
    BY <2>1, <2>2
<1>10. ASSUME Pending(Server, t)'
       PROVE  Written(Server, t)' + T <= MaxAttempts + O
  <2>1. Written(Server, t) \in Nat /\ Written(Server, t) + S <= MaxAttempts + N
    BY <1>2, <1>3, <1>4, <1>5, <1>10
  <2>2. Written(Server, t)' = Written(Server, t)
    BY <1>2, <1>3, <1>10
  <2>3. QED
    BY <1>1, <1>4, <2>1, <2>2
<1>11. QED
  BY <1>7, <1>8, <1>9, <1>10 DEF Shared, Below, T, O

(* A run of --scan-once reads the row again. *)
LEMMA RereadShared ==
  ASSUME TypeOK, InBatch, NEW s \in Onces, Shapes(s), Rereads(s),
         NEW t \in Tasks, Shared(t), run[s].res[t] # "none"
  PROVE  Shared(t)'
<1> DEFINE S == Cardinality(Spare(t))
           T == Cardinality(Spare(t)')
           N == count.onces
           x == row[t].attempts
<1>1. s \in Scanners /\ s # Server /\ Server \in Scanners /\ Onces \subseteq Scanners
  BY CopyScanAssumption DEF Onces
<1>2. /\ S \in Nat /\ T \in Nat /\ N \in Nat /\ S <= N /\ T <= S
      /\ count'.onces = N
      /\ s \in Spare(t) \ Spare(t)' => T + 1 <= S
  <2>1. count'.onces = N
    BY DEF Rereads
  <2>2. QED
    BY <1>1, <2>1, SpareCount
<1>3. x \in Nat /\ MaxAttempts \in Nat /\ \A u \in Scanners : Written(u, t) \in Nat
  BY TaskRowAssumption DEF TypeOK, Run, Row, Written
<1>4. Pending(s, t)' /\ Written(s, t)' = x + 1 /\ ~Holds(s, t)' /\ Holds(s, t)
  BY DEF Rereads, Pending, Written, Holds
<1>5. s \in Spare(t) /\ (s \in Spare(t)' => x + 1 < MaxAttempts)
  <2>1. s \in Spare(t)' => Written(s, t)' < MaxAttempts
    BY <1>4 DEF Spare, Rereads
  <2>2. QED
    BY <1>4, <2>1 DEF Spare
<1>6. row'[t] = row[t] /\ (Open(t)' <=> Open(t))
  <2>1. row'[t] = row[t]
    BY DEF Rereads
  <2>2. /\ Holds(Server, t)' <=> Holds(Server, t)
        /\ Pending(Server, t)' <=> Pending(Server, t)
        /\ Written(Server, t)' = Written(Server, t)
    BY <1>1, Others
  <2>3. QED
    BY <2>1, <2>2 DEF Open
<1>7. /\ x + S + 0 <= MaxAttempts + N
      /\ \A u \in Onces : Pending(u, t) => Written(u, t) + S + 0 <= MaxAttempts + N
      /\ Open(t) =>
           /\ x + S + 1 <= MaxAttempts + N
           /\ \A u \in Onces : Pending(u, t) => Written(u, t) + S + 1 <= MaxAttempts + N
      /\ Pending(Server, t) => Written(Server, t) + S <= MaxAttempts + N
  BY DEF Shared, Below
<1>8. \A u \in Scanners \ {s} :
        Pending(u, t)' => Pending(u, t) /\ Written(u, t)' = Written(u, t)
  BY <1>1, Others
<1> HIDE DEF S, T, N, x
<1>9. ASSUME NEW k \in {0, 1}, x + S + k <= MaxAttempts + N
      PROVE  x + T + k <= MaxAttempts + N /\ (x + 1) + T + k <= MaxAttempts + N
  <2>1. CASE s \in Spare(t)'
    <3>1. x + 1 < MaxAttempts
      BY <1>5, <2>1
    <3>2. QED
      BY <1>2, <1>3, <1>9, <3>1
  <2>2. CASE s \notin Spare(t)'
    <3>1. T + 1 <= S
      BY <1>2, <1>5, <2>2
    <3>2. QED
      BY <1>2, <1>3, <1>9, <3>1
  <2>3. QED
    BY <2>1, <2>2
<1>10. ASSUME NEW k \in {0, 1}, x + S + k <= MaxAttempts + N,
              \A u \in Onces : Pending(u, t) => Written(u, t) + S + k <= MaxAttempts + N
       PROVE  Below(t, k)'
  <2>1. ASSUME NEW u \in Onces, Pending(u, t)'
        PROVE  Written(u, t)' + T + k <= MaxAttempts + N
    <3>1. CASE u = s
      BY <1>4, <1>9, <1>10, <3>1
    <3>2. CASE u # s
      <4>1. Pending(u, t) /\ Written(u, t)' = Written(u, t) /\ Written(u, t) \in Nat
        BY <1>1, <1>3, <1>8, <2>1, <3>2
      <4>2. Written(u, t) + S + k <= MaxAttempts + N
        BY <1>10, <4>1
      <4>3. QED
        BY <1>2, <1>3, <4>1, <4>2
    <3>3. QED
      BY <3>1, <3>2
  <2>2. x + T + k <= MaxAttempts + N /\ row'[t].attempts = x
    BY <1>6, <1>9, <1>10 DEF x
  <2>3. QED
    BY <1>2, <2>1, <2>2 DEF Below, T, N
<1>11. Below(t, 0)' /\ (Open(t)' => Below(t, 1)')
  BY <1>6, <1>7, <1>10
<1>12. ASSUME Pending(Server, t)'
       PROVE  Written(Server, t)' + T <= MaxAttempts + N
  <2>1. Written(Server, t)' = Written(Server, t) /\ Written(Server, t) \in Nat
        /\ Written(Server, t) + S <= MaxAttempts + N
    BY <1>1, <1>3, <1>7, <1>8, <1>12
  <2>2. QED
    BY <1>2, <1>3, <2>1
<1>13. QED
  BY <1>2, <1>11, <1>12 DEF Shared, T, N

(* A run commits the row. *)
LEMMA CommitShared ==
  ASSUME TypeOK, InBatch, NEW s \in Scanners, Shapes(s), Commits(s),
         NEW t \in Tasks, Shared(t), Pending(s, t)
  PROVE  Shared(t)'
<1> DEFINE S == Cardinality(Spare(t))
           T == Cardinality(Spare(t)')
           N == count.onces
           w == Written(s, t)
<1>1. Server \in Scanners /\ Onces \subseteq Scanners
  BY CopyScanAssumption DEF Onces
<1>2. /\ S \in Nat /\ T \in Nat /\ N \in Nat /\ S <= N /\ T <= S
      /\ count'.onces = N
      /\ s \in Spare(t) \ Spare(t)' => T + 1 <= S
  <2>1. count'.onces = N
    BY DEF Commits
  <2>2. QED
    BY <2>1, SpareCount
<1>3. MaxAttempts \in Nat /\ \A u \in Scanners : Written(u, t) \in Nat
  BY TaskRowAssumption DEF TypeOK, Run, Row, Written
<1>4. ~Pending(s, t)' /\ ~Holds(s, t)' /\ s \notin Spare(t)'
  <2>1. t \notin old'[s] /\ run'[s].pc = "select"
    BY DEF Commits, Pending
  <2>2. QED
    BY <2>1 DEF Pending, Holds, Spare
<1>5. s \in Onces /\ w < MaxAttempts => T + 1 <= S
  <2>1. s \in Onces /\ w < MaxAttempts => s \in Spare(t)
    BY DEF Spare
  <2>2. QED
    BY <1>2, <1>4, <2>1
<1>6. row'[t].attempts = w
  BY CommitAttempts
<1>7. \A u \in Scanners \ {s} :
        /\ Pending(u, t)' => Pending(u, t) /\ Written(u, t)' = Written(u, t)
        /\ Holds(u, t)' => Holds(u, t)
  BY Others
<1>8. /\ \A u \in Onces : Pending(u, t) => Written(u, t) + S + 0 <= MaxAttempts + N
      /\ Open(t) =>
           \A u \in Onces : Pending(u, t) => Written(u, t) + S + 1 <= MaxAttempts + N
      /\ Pending(Server, t) => Written(Server, t) + S <= MaxAttempts + N
  BY DEF Shared, Below
<1>9. Open(t)' => w < MaxAttempts \/ (Open(t) /\ s # Server)
  <2>1. /\ Holds(Server, t)' => s # Server /\ Holds(Server, t)
        /\ Pending(Server, t)' =>
             s # Server /\ Pending(Server, t) /\ Written(Server, t)' = Written(Server, t)
    BY <1>1, <1>4, <1>7
  <2>2. QED
    BY <1>6, <2>1 DEF Open
<1>10. s = Server /\ w < MaxAttempts => Open(t)
  BY DEF Open
<1> HIDE DEF S, T, N
<1>11. w + T + 0 <= MaxAttempts + N
  <2>1. w + S + 0 <= MaxAttempts + N
    BY <1>2, <1>3, <1>8 DEF Onces
  <2>2. QED
    BY <1>2, <1>3, <2>1
<1>12. ASSUME NEW u \in Onces, Pending(u, t)'
       PROVE  /\ u # s /\ Pending(u, t) /\ Written(u, t)' = Written(u, t)
              /\ Written(u, t) \in Nat
              /\ Written(u, t)' + T + 0 <= MaxAttempts + N
  <2>1. u # s /\ Pending(u, t) /\ Written(u, t)' = Written(u, t)
        /\ Written(u, t) \in Nat
    BY <1>1, <1>3, <1>4, <1>7, <1>12
  <2>2. Written(u, t) + S + 0 <= MaxAttempts + N
    BY <1>8, <2>1
  <2>3. QED
    BY <1>2, <1>3, <2>1, <2>2
<1>13. ASSUME Open(t)'
       PROVE  /\ w + T + 1 <= MaxAttempts + N
              /\ \A u \in Onces : Pending(u, t)' =>
                    Written(u, t)' + T + 1 <= MaxAttempts + N
  <2>1. CASE w < MaxAttempts
    <3>1. w + T + 1 <= MaxAttempts + N
      BY <1>2, <1>3, <2>1
    <3>2. ASSUME NEW u \in Onces, Pending(u, t)'
          PROVE  Written(u, t)' + T + 1 <= MaxAttempts + N
      <4>1. CASE s = Server
        <5>1. Written(u, t) + S + 1 <= MaxAttempts + N
          BY <1>8, <1>10, <1>12, <2>1, <3>2, <4>1
        <5>2. QED
          BY <1>2, <1>3, <1>12, <3>2, <5>1
      <4>2. CASE s # Server
        <5>1. T + 1 <= S
          BY <1>5, <2>1, <4>2 DEF Onces
        <5>2. Written(u, t) + S + 0 <= MaxAttempts + N /\ Written(u, t) \in Nat
              /\ Written(u, t)' = Written(u, t)
          BY <1>8, <1>12, <3>2
        <5>3. QED
          BY <1>2, <1>3, <5>1, <5>2
      <4>3. QED
        BY <4>1, <4>2
    <3>3. QED
      BY <3>1, <3>2
  <2>2. CASE ~(w < MaxAttempts)
    <3>1. Open(t) /\ s \in Onces
      BY <1>9, <1>13, <2>2 DEF Onces
    <3>2. w + S + 1 <= MaxAttempts + N
      BY <1>8, <3>1
    <3>3. ASSUME NEW u \in Onces, Pending(u, t)'
          PROVE  Written(u, t)' + T + 1 <= MaxAttempts + N
      <4>1. Written(u, t) + S + 1 <= MaxAttempts + N
        BY <1>8, <1>12, <3>1, <3>3
      <4>2. QED
        BY <1>2, <1>3, <1>12, <3>3, <4>1
    <3>4. QED
      BY <1>2, <1>3, <3>2, <3>3
  <2>3. QED
    BY <2>1, <2>2
<1>14. ASSUME Pending(Server, t)'
       PROVE  Written(Server, t)' + T <= MaxAttempts + N
  <2>1. Written(Server, t)' = Written(Server, t) /\ Written(Server, t) \in Nat
        /\ Written(Server, t) + S <= MaxAttempts + N
    BY <1>1, <1>3, <1>4, <1>7, <1>8, <1>14
  <2>2. QED
    BY <1>2, <1>3, <2>1
<1>15. Below(t, 0)'
  BY <1>2, <1>6, <1>11, <1>12 DEF Below, T, N
<1>16. Open(t)' => Below(t, 1)'
  BY <1>2, <1>6, <1>13 DEF Below, T, N
<1>17. QED
  BY <1>2, <1>14, <1>15, <1>16 DEF Shared, T, N

LEMMA SharedShape ==
  ASSUME TypeOK, InBatch, NEW s \in Scanners, Shapes(s), count.requeues = 0,
         NEW t \in Tasks, Shared(t)
  PROVE  Shared(t)'
<1>1. row[t].attempts \in Nat /\ MaxAttempts \in Nat
      /\ Server \in Scanners
  BY TaskRowAssumption, CopyScanAssumption DEF TypeOK, Row
<1>2. /\ Holds(Server, t)' => Holds(Server, t) \/ s = Server
      /\ Pending(Server, t)' => s = Server \/
           (Pending(Server, t) /\ Written(Server, t)' = Written(Server, t))
  BY <1>1, Others
<1>3. CASE Begins(s) \/ Lists(s) \/ Starts(s) \/ Drops(s)
  <2>1. ~Holds(s, t)' /\ ~Pending(s, t)'
    BY <1>3 DEF Begins, Lists, Starts, Drops, Holds, Pending
  <2>2. row'[t].attempts = row[t].attempts
    BY <1>3 DEF Begins, Lists, Starts, Drops, NewRow, InBatch
  <2>3. Open(t)' => Open(t)
    BY <1>2, <2>1, <2>2 DEF Open
  <2>4. QED
    BY <2>1, <2>2, <2>3, QuietShared
<1>4. CASE Picks(s)
  <2>1. Holds(s, t)' => row[t].attempts < MaxAttempts
    BY <1>4 DEF Picks, Holds, NoResult, Due
  <2>2. ~Pending(s, t)' /\ row'[t] = row[t]
    BY <1>4 DEF Picks, Pending
  <2>3. Open(t)' => Open(t)
    BY <1>2, <2>1, <2>2 DEF Open
  <2>4. QED
    BY <2>2, <2>3, QuietShared
<1>5. CASE Goes(s)
  <2>1. (Holds(s, t)' => Holds(s, t)) /\ ~Pending(s, t)' /\ row'[t] = row[t]
    BY <1>5 DEF Goes, Pending
  <2>2. Open(t)' => Open(t)
    BY <1>2, <2>1 DEF Open
  <2>3. QED
    BY <2>1, <2>2, QuietShared
<1>6. CASE Rereads(s) /\ run[s].res[t] = "none"
  <2>1. ~Holds(s, t)' /\ ~Pending(s, t)' /\ row'[t] = row[t]
    BY <1>6 DEF Rereads, Holds, Pending
  <2>2. Open(t)' => Open(t)
    BY <1>2, <2>1 DEF Open
  <2>3. QED
    BY <2>1, <2>2, QuietShared
<1>7. CASE Rereads(s) /\ run[s].res[t] # "none" /\ s # Server
  BY <1>7, RereadShared DEF Onces
<1>8. CASE Rereads(s) /\ run[s].res[t] # "none" /\ s = Server
  <2> DEFINE S == Cardinality(Spare(t))
             T == Cardinality(Spare(t)')
             N == count.onces
  <2>1. /\ S \in Nat /\ T \in Nat /\ N \in Nat /\ T <= S /\ count'.onces = N
    <3>1. count'.onces = N
      BY <1>8 DEF Rereads
    <3>2. QED
      BY <3>1, SpareCount
  <2>2. Holds(Server, t) /\ ~Holds(Server, t)' /\ Pending(Server, t)'
        /\ Written(Server, t)' = row[t].attempts + 1 /\ row'[t] = row[t]
    BY <1>8 DEF Rereads, Holds, Pending, Written
  <2>3. Open(t) /\ Below(t, 1)
    BY <2>2 DEF Open, Shared
  <2>4. Server \notin Onces /\ Onces \subseteq Scanners
    BY DEF Onces
  <2>5. \A u \in Onces : Pending(u, t)' =>
          Pending(u, t) /\ Written(u, t)' = Written(u, t) /\ Written(u, t) \in Nat
    <3>1. \A u \in Scanners : Written(u, t) \in Nat
      BY DEF TypeOK, Run, Row, Written
    <3>2. QED
      BY <1>8, <2>4, <3>1, Others
  <2>6. /\ row[t].attempts + S + 1 <= MaxAttempts + N
        /\ \A u \in Onces : Pending(u, t) => Written(u, t) + S + 1 <= MaxAttempts + N
    BY <2>3 DEF Below
  <2> HIDE DEF S, T, N
  <2>7. row[t].attempts + T + 1 <= MaxAttempts + N
        /\ row[t].attempts + T + 0 <= MaxAttempts + N
        /\ (row[t].attempts + 1) + T <= MaxAttempts + N
    BY <1>1, <2>1, <2>6
  <2>8. ASSUME NEW u \in Onces, Pending(u, t)'
        PROVE  /\ Written(u, t)' + T + 1 <= MaxAttempts + N
               /\ Written(u, t)' + T + 0 <= MaxAttempts + N
    <3>1. Written(u, t)' = Written(u, t) /\ Written(u, t) \in Nat
          /\ Written(u, t) + S + 1 <= MaxAttempts + N
      BY <2>5, <2>6, <2>8
    <3>2. QED
      BY <1>1, <2>1, <3>1
  <2>9. Below(t, 0)' /\ Below(t, 1)'
    BY <2>1, <2>2, <2>7, <2>8 DEF Below, T, N
  <2>10. Written(Server, t)' + T <= MaxAttempts + N
    BY <2>2, <2>7
  <2>11. QED
    BY <2>1, <2>9, <2>10 DEF Shared, T, N
<1>9. CASE Commits(s) /\ Pending(s, t)
  BY <1>9, CommitShared
<1>10. CASE Commits(s) /\ ~Pending(s, t)
  <2>1. ~Holds(s, t)' /\ ~Pending(s, t)'
    BY <1>10 DEF Commits, Holds, Pending
  <2>2. row'[t].attempts = row[t].attempts
    BY <1>10, CommitAttempts
  <2>3. Open(t)' => Open(t)
    BY <1>2, <2>1, <2>2 DEF Open
  <2>4. QED
    BY <2>1, <2>2, <2>3, QuietShared
<1>11. QED
  BY <1>3, <1>4, <1>5, <1>6, <1>7, <1>8, <1>9, <1>10 DEF Shapes

----------------------------------------------------------------------------
AInv == TypeOK /\ CopyingTask /\ InBatch /\ AloneBounded /\ SharedBounded

LEMMA InitAttempts == Init => InBatch /\ AloneBounded /\ SharedBounded
<1> SUFFICES ASSUME Init
             PROVE  InBatch /\ AloneBounded /\ SharedBounded
  OBVIOUS
<1>1. run = [s \in Scanners |-> Idle] /\ request = NoRequest
      /\ count.onces = 0 /\ count.requeues = 0
  BY DEF Init
<1>2. MaxAttempts \in Nat \ {0} /\ Server \in Scanners
  BY TaskRowAssumption, CopyScanAssumption
<1>3. \A t \in Tasks : row[t].attempts \in {0, 1}
                       /\ (t \notin stored => row[t].attempts = 0)
  <2>1. row = [t \in Tasks |-> IF t \in stored THEN LeasedRow ELSE NewRow]
    BY DEF Init
  <2>2. LeasedRow.attempts = 1 /\ NewRow.attempts = 0
    BY DEF LeasedRow, NewRow
  <2>3. QED
    BY <2>1, <2>2
<1>4. \A s \in Scanners : run[s].pc = "idle" /\ run[s].todo = {} /\ run[s].res = NoResult
  BY <1>1 DEF Idle
<1>5. \A s \in Scanners, t \in Tasks : ~Holds(s, t) /\ ~Pending(s, t)
  BY <1>4 DEF Holds, Pending
<1>6. Begun = {} /\ \A t \in Tasks : Spare(t) = {}
  BY <1>4, <1>5 DEF Begun, Spare, Onces
<1>7. Cardinality({}) = 0
  BY FS_EmptySet
<1>8. InBatch
  BY <1>1, <1>3, <1>4, <1>5, <1>6, <1>7 DEF InBatch
<1>9. AloneBounded
  <2>1. 0 <= MaxAttempts /\ 1 <= MaxAttempts
    BY <1>2
  <2>3. ASSUME NEW t \in Tasks
        PROVE  row[t].attempts <= MaxAttempts
    <3>1. row[t].attempts = 0 \/ row[t].attempts = 1
      BY <1>3
    <3>2. QED
      BY <2>1, <3>1
  <2>2. QED
    BY <1>2, <1>5, <2>3 DEF AloneBounded
<1>10. ASSUME NEW t \in Tasks
       PROVE  Shared(t)
  <2>1. Cardinality(Spare(t)) = 0
    BY <1>6, <1>7
  <2>2. Below(t, 0)
    BY <1>1, <1>2, <1>3, <1>5, <2>1 DEF Below, Onces
  <2>3. Open(t) => row[t].attempts < MaxAttempts
    BY <1>2, <1>5 DEF Open
  <2>4. Open(t) => Below(t, 1)
    BY <1>1, <1>2, <1>3, <1>5, <2>1, <2>3 DEF Below, Onces
  <2>5. QED
    BY <1>2, <1>5, <2>2, <2>4 DEF Shared
<1>11. QED
  BY <1>8, <1>9, <1>10 DEF SharedBounded

(* What happens around the scans.  A requeue may set attempts to 0.        *)
LEMMA AroundAttempts ==
  ASSUME AInv, run' = run, stored' = stored, count'.onces = count.onces,
         \A t \in Tasks : row'[t].attempts \in {row[t].attempts, 0},
         count'.requeues = 0 =>
           /\ count.requeues = 0 /\ old' = old /\ request' = request
           /\ \A t \in Tasks : row'[t].attempts = row[t].attempts
  PROVE  (InBatch /\ AloneBounded /\ SharedBounded)'
<1>1. TypeOK /\ InBatch /\ AloneBounded /\ SharedBounded
  BY DEF AInv
<1>2. \A s \in Scanners, t \in Tasks :
        /\ Holds(s, t)' <=> Holds(s, t)
        /\ Pending(s, t)' <=> Pending(s, t)
        /\ Written(s, t)' = Written(s, t)
  BY DEF Holds, Pending, Written
<1>3. MaxAttempts \in Nat \ {0} /\ Server \in Scanners
  BY TaskRowAssumption, CopyScanAssumption
<1>4. Begun' = Begun
  BY DEF Begun
<1>5. InBatch'
  BY <1>1, <1>2, <1>4 DEF InBatch
<1>6. AloneBounded'
  <2>1. \A t \in Tasks : row'[t].attempts <= row[t].attempts /\ row[t].attempts \in Nat
                         /\ (row'[t].attempts = row[t].attempts \/ row'[t].attempts = 0)
    BY <1>1 DEF TypeOK, Row
  <2>2. QED
    BY <1>1, <1>2, <1>3, <2>1 DEF AloneBounded
<1>7. ASSUME count'.requeues = 0, NEW t \in Tasks
      PROVE  Shared(t)'
  <2>1. Shared(t) /\ row'[t].attempts = row[t].attempts
    BY <1>1, <1>7 DEF SharedBounded
  <2>2. Spare(t)' = Spare(t)
    BY <1>2, <1>7 DEF Spare, Onces, Holds, Pending, Written
  <2>3. Open(t)' <=> Open(t)
    BY <1>2, <1>3, <2>1 DEF Open
  <2>4. \A u \in Onces : (Pending(u, t)' <=> Pending(u, t)) /\ Written(u, t)' = Written(u, t)
    BY <1>2 DEF Onces
  <2>5. Below(t, 0)' /\ (Open(t)' => Below(t, 1)')
    BY <2>1, <2>2, <2>3, <2>4 DEF Shared, Below
  <2>6. QED
    BY <1>2, <1>3, <2>1, <2>2, <2>5 DEF Shared
<1>8. QED
  BY <1>5, <1>6, <1>7 DEF SharedBounded

LEMMA NextAttempts ==
  ASSUME AInv, [Next]_vars
  PROVE  (InBatch /\ AloneBounded /\ SharedBounded)'
<1> USE DEF table, store
<1>1. /\ row \in [Tasks -> Row]
      /\ request \in [task : Tasks \cup {NoTask}, reset : BOOLEAN, read : Row]
      /\ count \in [onces : Nat, aborts : Nat, requeues : Nat, changes : Nat]
  BY DEF AInv, TypeOK
<1>2. ASSUME NEW s \in Scanners, Step(s) \/ Abort(s)
      PROVE  (InBatch /\ AloneBounded /\ SharedBounded)'
  <2>1. TypeOK /\ InBatch /\ AloneBounded /\ SharedBounded /\ Shapes(s)
    BY <1>2, StepShape DEF AInv
  <2>2. InBatch' /\ AloneBounded'
    BY <2>1, InBatchShape, AloneShape
  <2>3. ASSUME count'.requeues = 0, NEW t \in Tasks
        PROVE  Shared(t)'
    <3>1. count.requeues = 0
      BY <2>1, <2>3 DEF Shapes
    <3>2. Shared(t)
      BY <2>1, <3>1 DEF SharedBounded
    <3>3. QED
      BY <2>1, <3>1, <3>2, SharedShape
  <2>4. QED
    BY <2>2, <2>3 DEF SharedBounded
<1>3. ASSUME NEW t \in Tasks, NEW reset \in BOOLEAN, RequeueRead(t, reset)
      PROVE  (InBatch /\ AloneBounded /\ SharedBounded)'
  <2>1. count'.onces = count.onces /\ count'.requeues # 0
        /\ UNCHANGED <<row, stored, run>>
    BY <1>1, <1>3 DEF RequeueRead
  <2>2. QED
    BY <2>1, AroundAttempts
<1>4. CASE RequeueCommit
  <2>1. UNCHANGED <<run, stored, count>>
        /\ row' = [row EXCEPT ![request.task] =
                     Flush(@, request.read, RequeueRow(request.read, request.reset), FALSE)]
    BY <1>4 DEF RequeueCommit
  <2>2. count.requeues # 0
    BY <1>4 DEF RequeueCommit, AInv, InBatch
  <2>3. \A t \in Tasks : row'[t].attempts \in {row[t].attempts, 0}
    <3>1. request.read \in Row /\ request.reset \in BOOLEAN
      BY <1>1
    <3>2. ASSUME NEW t \in Tasks
          PROVE  row'[t].attempts \in {row[t].attempts, 0}
      <4>1. row[t] \in Row
        BY <1>1
      <4>2. Flush(row[t], request.read, RequeueRow(request.read, request.reset),
                  FALSE).attempts \in {row[t].attempts, 0}
        BY <3>1, <4>1, RequeueAttempts
      <4>3. QED
        BY <1>1, <2>1, <4>2
    <3>3. QED
      BY <3>2
  <2>4. QED
    BY <2>1, <2>2, <2>3, AroundAttempts
<1>5. ASSUME NEW t \in Tasks, Expire(t)
      PROVE  (InBatch /\ AloneBounded /\ SharedBounded)'
  <2>1. \A u \in Tasks : row'[u].attempts = row[u].attempts
    BY <1>1, <1>5 DEF Expire, Row
  <2>2. QED
    BY <1>5, <2>1, AroundAttempts DEF Expire
<1>6. ASSUME NEW t \in Tasks, Land(t)
      PROVE  (InBatch /\ AloneBounded /\ SharedBounded)'
  BY <1>6, AroundAttempts DEF Land
<1>7. ASSUME NEW f \in Sources, NEW v \in Tasks \cup {NoTask}, Change(f, v)
      PROVE  (InBatch /\ AloneBounded /\ SharedBounded)'
  <2>1. count'.onces = count.onces /\ count'.requeues = count.requeues
    BY <1>1, <1>7 DEF Change
  <2>2. QED
    BY <1>7, <2>1, AroundAttempts DEF Change
<1>8. CASE UNCHANGED vars
  BY <1>8, AroundAttempts DEF vars
<1>9. QED
  BY <1>2, <1>3, <1>4, <1>5, <1>6, <1>7, <1>8 DEF Next

(* No row is tried more than max_attempts times, and once more for every   *)
(* run of --scan-once, if nobody requeues; not even that, whatever is      *)
(* requeued, if the server's thread runs alone (scanner.py:95-165).        *)
THEOREM AttemptsSafe == Spec => []AttemptsBounded
<1>1. Init => AInv
  BY InitType, InitAttempts DEF AInv
<1>2. AInv /\ [Next]_vars => AInv'
  BY NextType, NextAttempts DEF AInv
<1>3. AInv => AttemptsBounded
  <2> SUFFICES ASSUME AInv, NEW t \in Tasks, count.onces = 0 \/ count.requeues = 0
               PROVE  row[t].attempts <= MaxAttempts + count.onces
    BY DEF AttemptsBounded
  <2>1. row[t].attempts \in Nat /\ count.onces \in Nat /\ MaxAttempts \in Nat
    BY TaskRowAssumption DEF AInv, TypeOK, Row
  <2>2. CASE count.onces = 0
    BY <2>1, <2>2 DEF AInv, AloneBounded
  <2>3. CASE count.requeues = 0
    <3>1. row[t].attempts + Cardinality(Spare(t)) + 0 <= MaxAttempts + count.onces
      BY <2>3 DEF AInv, SharedBounded, Shared, Below
    <3>2. Cardinality(Spare(t)) \in Nat
      <4>1. IsFiniteSet(Spare(t))
        BY CopyScanAssumption, FS_Subset DEF Spare, Onces
      <4>2. QED
        BY <4>1, FS_CardinalityType
    <3>3. QED
      BY <2>1, <3>1, <3>2
  <2>4. QED
    BY <2>2, <2>3
<1>4. QED
  BY <1>1, <1>2, <1>3, PTL DEF Spec

----------------------------------------------------------------------------
(* Rows that are finalized are whole.                                      *)

LEMMA TwoRuns ==
  ASSUME TypeOK, InBatch, count.onces <= 1,
         NEW s \in Scanners, NEW u \in Scanners, NEW v \in Scanners,
         NEW t \in Tasks, Touches(s, t), Touches(u, t), Touches(v, t), u # s, v # s
  PROVE  u = v
<1>1. IsFiniteSet(Begun)
  BY CopyScanAssumption, FS_Subset DEF Begun, Onces
<1>2. \A a, b \in Begun : a = b
  <2>1. Cardinality(Begun) = 0 \/ Cardinality(Begun) = 1
    BY DEF InBatch, TypeOK
  <2>2. Begun = {} \/ \E x : Begun = {x}
    BY <1>1, <2>1, FS_EmptySet, FS_Singleton
  <2>3. QED
    BY <2>2
<1>3. {s, u, v} \subseteq Begun \cup {Server}
  BY DEF Touches, Holds, Pending, Begun, Onces
<1>4. QED
  BY <1>2, <1>3

(* What CopyRow assigns. *)
LEMMA CopyRowFields ==
  ASSUME NEW r \in Row, NEW t \in Tasks, NEW o \in Outcome
  PROVE  LET c == CopyRow(r, t, o) IN
           /\ Plain(c) /\ Marked(c, t)
           /\ o = "ok" => c.status = "finalized" /\ c.size = SizeOf[t]
           /\ o # "ok" => c.status \in {"queued", "deadletter"} /\ c.size = NoSize
<1> DEFINE c == CopyRow(r, t, o)
<1>1. /\ c.worker = NoWorker /\ c.expiry = "none" /\ c.staging = NoNonce
      /\ c.final = PathOf[t] /\ c.action = "copy"
      /\ c.size = IF o = "ok" THEN SizeOf[t] ELSE NoSize
  BY DEF CopyRow, DropLease, Row
<1>2. c.status = CASE o = "ok" -> "finalized"
                   [] o = "error" /\ r.attempts + 1 < MaxAttempts -> "queued"
                   [] OTHER -> "deadletter"
  BY DEF CopyRow, DropLease, Row
<1> HIDE DEF c
<1>3. (o = "ok" => c.status = "finalized")
      /\ (o # "ok" => c.status \in {"queued", "deadletter"})
  BY <1>2
<1>4. Plain(c) /\ Marked(c, t)
  BY <1>1 DEF Plain, Marked
<1>5. QED
  BY <1>1, <1>3, <1>4 DEF c

(* A commit over a row that another run may have written since it was      *)
(* read.                                                                   *)
LEMMA FlushWhole ==
  ASSUME NEW db \in Row, NEW r \in Row, NEW t \in Tasks, NEW o \in Outcome,
         Shaped(db, t), db.status # "leased", Shaped(r, t), r.status # "leased",
         Marked(r, t) => Marked(db, t), Closed(r) => db = r
  PROVE  LET n == Flush(db, r, CopyRow(r, t, o), FALSE) IN
           /\ Shaped(n, t) /\ n.status # "leased"
           /\ Marked(n, t)
<1> DEFINE c == CopyRow(r, t, o)
           n == Flush(db, r, c, FALSE)
<1>1. /\ c.worker = NoWorker /\ c.expiry = "none" /\ c.staging = NoNonce
      /\ c.final = PathOf[t] /\ c.action = "copy"
      /\ o = "ok" => c.status = "finalized" /\ c.size = SizeOf[t]
      /\ o # "ok" => c.status \in {"queued", "deadletter"} /\ c.size = NoSize
  BY CopyRowFields DEF Plain, Marked
<1> HIDE DEF c
<1>2. /\ n.status = Changed(db.status, r.status, c.status)
      /\ n.worker = Changed(db.worker, r.worker, c.worker)
      /\ n.expiry = Changed(db.expiry, r.expiry, c.expiry)
      /\ n.staging = Changed(db.staging, r.staging, c.staging)
      /\ n.final = Changed(db.final, r.final, c.final)
      /\ n.action = Changed(db.action, r.action, c.action)
      /\ n.size = Changed(db.size, r.size, c.size)
  BY DEF Flush
<1> HIDE DEF n
<1>3. PathOf[t] # NoPath /\ SizeOf[t] # NoSize
  BY CopyScanAssumption, TaskRowAssumption
<1>4. Plain(db) /\ Plain(r)
  BY DEF Shaped
<1>5. Plain(n)
  BY <1>1, <1>2, <1>4 DEF Plain, Changed
<1>6. CASE Closed(r)
  <2>1. db = r /\ Marked(r, t)
    BY <1>6 DEF Shaped, Closed
  <2>2. n.status = c.status /\ n.size = c.size /\ n.final = c.final /\ n.action = c.action
    BY <1>2, <2>1 DEF Changed
  <2>3. Marked(n, t)
    BY <1>1, <2>2 DEF Marked
  <2>4. Shaped(n, t) /\ n.status # "leased"
    <3>1. CASE o = "ok"
      BY <1>1, <1>5, <2>2, <2>3, <3>1 DEF Shaped
    <3>2. CASE o # "ok"
      BY <1>1, <1>5, <2>2, <2>3, <3>2 DEF Shaped
    <3>3. QED
      BY <3>1, <3>2
  <2>5. QED
    BY <2>3, <2>4 DEF n, c
<1>7. CASE ~Closed(r)
  <2>1. r.status = "queued" /\ r.size = NoSize
        /\ (Marked(r, t) \/ (r.final = NoPath /\ r.action = "none"))
    BY <1>7 DEF Shaped, Closed
  <2>2. Marked(n, t)
    <3>1. CASE Marked(r, t)
      BY <1>1, <1>2, <3>1 DEF Marked, Changed
    <3>2. CASE r.final = NoPath /\ r.action = "none"
      BY <1>1, <1>2, <1>3, <3>2 DEF Marked, Changed
    <3>3. QED
      BY <2>1, <3>1, <3>2
  <2>3. CASE o = "ok"
    <3>1. n.status = "finalized" /\ n.size = SizeOf[t]
      BY <1>1, <1>2, <1>3, <2>1, <2>3 DEF Changed
    <3>2. QED
      BY <1>5, <2>2, <3>1 DEF Shaped, n, c
  <2>4. CASE o # "ok"
    <3>1. n.size = db.size
      BY <1>1, <1>2, <2>1, <2>4 DEF Changed
    <3>2. db.size \in {NoSize, SizeOf[t]}
      BY DEF Shaped
    <3>3. CASE c.status = "queued"
      <4>1. n.status = db.status
        BY <1>2, <2>1, <3>3 DEF Changed
      <4>2. QED
        BY <1>5, <2>2, <3>1, <4>1 DEF Shaped, n, c
    <3>4. CASE c.status = "deadletter"
      <4>1. n.status = "deadletter"
        BY <1>2, <2>1, <3>4 DEF Changed
      <4>2. QED
        BY <1>5, <2>2, <3>1, <3>2, <4>1 DEF Shaped, n, c
    <3>5. QED
      BY <1>1, <2>4, <3>3, <3>4
  <2>5. QED
    BY <2>3, <2>4
<1>8. QED
  BY <1>6, <1>7

LEMMA QuietWhole ==
  ASSUME NEW s \in Scanners, Shapes(s), NEW t \in Tasks, Whole(t),
         row'[t] = row[t],
         Holds(s, t)' => Touches(s, t) /\ row[t].status # "leased",
         ~Pending(s, t)'
  PROVE  Whole(t)'
<1>1. \A u \in Scanners \ {s} :
        /\ Holds(u, t)' <=> Holds(u, t)
        /\ Pending(u, t)' <=> Pending(u, t)
        /\ run'[u] = run[u]
  BY Others DEF Shapes
<1>2. \A u \in Scanners : Touches(u, t)' => Touches(u, t)
  BY <1>1 DEF Touches
<1>3. \A u \in Scanners : Pending(u, t)' => Pending(u, t) /\ run'[u] = run[u]
  BY <1>1
<1>4. Shaped(row'[t], t)
  BY DEF Whole
<1>5. Closed(row'[t]) => \A u, v \in Scanners : Touches(u, t)' /\ Touches(v, t)' => u = v
  BY <1>2 DEF Whole
<1>6. \A u \in Scanners : Touches(u, t)' => row'[t].status # "leased"
  BY <1>2 DEF Whole
<1>7. \A u \in Scanners : Pending(u, t)' =>
        /\ Shaped(run'[u].read[t], t) /\ run'[u].read[t].status # "leased"
        /\ Marked(run'[u].read[t], t) => Marked(row'[t], t)
        /\ Closed(run'[u].read[t]) => row'[t] = run'[u].read[t]
  BY <1>3 DEF Whole
<1>8. QED
  BY <1>4, <1>5, <1>6, <1>7 DEF Whole

LEMMA WholeShape ==
  ASSUME TypeOK, InBatch, NEW s \in Scanners, Shapes(s), count.onces <= 1,
         NEW t \in Tasks, Whole(t)
  PROVE  Whole(t)'
<1>1. /\ row[t] \in Row /\ run[s].read[t] \in Row
      /\ run[s].res[t] \in Outcome \cup {"none"}
  BY DEF TypeOK, Run
<1>2. \A u \in Scanners \ {s} :
        /\ Holds(u, t)' <=> Holds(u, t)
        /\ Pending(u, t)' <=> Pending(u, t)
        /\ run'[u] = run[u]
  BY Others DEF Shapes
<1>3. CASE Begins(s) \/ Starts(s) \/ Drops(s)
  <2>1. ~Holds(s, t)' /\ ~Pending(s, t)' /\ row'[t] = row[t]
    BY <1>3 DEF Begins, Starts, Drops, Holds, Pending
  <2>2. QED
    BY <2>1, QuietWhole
<1>4. CASE Lists(s)
  <2>1. ~Holds(s, t)' /\ ~Pending(s, t)'
    BY <1>4 DEF Lists, Holds, Pending
  <2>2. CASE row'[t] = row[t]
    BY <2>1, <2>2, QuietWhole
  <2>3. CASE row'[t] # row[t]
    <3>1. t \notin stored /\ row'[t] = NewRow
      BY <1>4, <2>3 DEF Lists
    <3>2. \A u \in Scanners : ~Holds(u, t)' /\ ~Pending(u, t)'
      BY <1>2, <2>1, <3>1 DEF InBatch
    <3>3. Shaped(row'[t], t) /\ ~Closed(row'[t])
      BY <3>1 DEF NewRow, Shaped, Closed, Plain
    <3>4. QED
      BY <3>2, <3>3 DEF Whole, Touches
  <2>4. QED
    BY <2>2, <2>3
<1>5. CASE Picks(s)
  <2>1. row'[t] = row[t] /\ ~Pending(s, t)'
    BY <1>5 DEF Picks, Pending
  <2>2. CASE ~Holds(s, t)'
    BY <2>1, <2>2, QuietWhole
  <2>3. CASE Holds(s, t)'
    <3>1. row[t].status \in {"queued", "failed"}
      BY <1>5, <2>3 DEF Picks, Holds, NoResult, Due
    <3>2. row[t].status # "leased" /\ ~Closed(row[t])
      BY <3>1 DEF Closed
    <3>3. \A u \in Scanners : Pending(u, t)' => Pending(u, t) /\ run'[u] = run[u]
      BY <1>2, <2>1
    <3>4. \A u \in Scanners : Pending(u, t)' =>
            /\ Shaped(run'[u].read[t], t) /\ run'[u].read[t].status # "leased"
            /\ Marked(run'[u].read[t], t) => Marked(row'[t], t)
            /\ Closed(run'[u].read[t]) => row'[t] = run'[u].read[t]
      BY <2>1, <3>3 DEF Whole
    <3>5. Shaped(row'[t], t)
      BY <2>1 DEF Whole
    <3>6. QED
      BY <2>1, <3>2, <3>4, <3>5 DEF Whole
  <2>4. QED
    BY <2>2, <2>3
<1>6. CASE Goes(s)
  <2>1. /\ row'[t] = row[t] /\ ~Pending(s, t)'
        /\ Holds(s, t)' => Touches(s, t) /\ row[t].status # "leased"
    BY <1>6 DEF Goes, Pending, Touches, Whole
  <2>2. QED
    BY <2>1, QuietWhole
<1>7. CASE Rereads(s) /\ run[s].res[t] = "none"
  <2>1. ~Holds(s, t)' /\ ~Pending(s, t)' /\ row'[t] = row[t]
    BY <1>7 DEF Rereads, Holds, Pending
  <2>2. QED
    BY <2>1, QuietWhole
<1>8. CASE Rereads(s) /\ run[s].res[t] # "none"
  <2>1. /\ row'[t] = row[t] /\ run'[s].read[t] = row[t]
        /\ Holds(s, t) /\ ~Holds(s, t)' /\ row[t].status # "leased"
    BY <1>8 DEF Rereads, Holds, Touches, Whole
  <2>2. \A u \in Scanners : Touches(u, t)' => Touches(u, t)
    BY <1>2, <2>1 DEF Touches
  <2>3. Shaped(row'[t], t)
    BY <2>1 DEF Whole
  <2>4. Closed(row'[t]) => \A u, v \in Scanners : Touches(u, t)' /\ Touches(v, t)' => u = v
    BY <2>1, <2>2 DEF Whole
  <2>5. ASSUME NEW u \in Scanners, Pending(u, t)'
        PROVE  /\ Shaped(run'[u].read[t], t) /\ run'[u].read[t].status # "leased"
               /\ Marked(run'[u].read[t], t) => Marked(row'[t], t)
               /\ Closed(run'[u].read[t]) => row'[t] = run'[u].read[t]
    <3>1. CASE u = s
      BY <2>1, <2>3, <3>1
    <3>2. CASE u # s
      <4>1. Pending(u, t) /\ run'[u] = run[u]
        BY <1>2, <2>5, <3>2
      <4>2. QED
        BY <2>1, <4>1 DEF Whole
    <3>3. QED
      BY <3>1, <3>2
  <2>6. QED
    BY <2>1, <2>3, <2>4, <2>5 DEF Whole
<1>9. CASE Commits(s) /\ ~Pending(s, t)
  <2>1. ~Holds(s, t)' /\ ~Pending(s, t)' /\ row'[t] = row[t]
    BY <1>9 DEF Commits, Holds, Pending
  <2>2. QED
    BY <2>1, QuietWhole
<1>10. CASE Commits(s) /\ Pending(s, t)
  <2> DEFINE r == run[s].read[t]
             o == run[s].res[t]
             n == Flush(row[t], r, CopyRow(r, t, o), FALSE)
  <2>1. r \in Row /\ o \in Outcome /\ row'[t] = n
    BY <1>1, <1>10 DEF Commits, Pending
  <2>2. /\ Shaped(row[t], t) /\ row[t].status # "leased"
        /\ Shaped(r, t) /\ r.status # "leased"
        /\ Marked(r, t) => Marked(row[t], t)
        /\ Closed(r) => row[t] = r
    BY <1>10 DEF Whole, Touches
  <2> HIDE DEF r, o
  <2>3. Shaped(n, t) /\ n.status # "leased" /\ Marked(n, t)
    BY <1>1, <2>1, <2>2, FlushWhole
  <2> HIDE DEF n
  <2>4. ~Holds(s, t)' /\ ~Pending(s, t)' /\ Touches(s, t)
    BY <1>10 DEF Commits, Holds, Pending, Touches
  <2>5. ASSUME NEW u \in Scanners, NEW v \in Scanners, Touches(u, t)', Touches(v, t)'
        PROVE  u = v
    <3>1. u # s /\ v # s /\ Touches(u, t) /\ Touches(v, t)
      BY <1>2, <2>4, <2>5 DEF Touches
    <3>2. QED
      BY <2>4, <3>1, TwoRuns
  <2>6. ASSUME NEW u \in Scanners, Pending(u, t)'
        PROVE  /\ Shaped(run'[u].read[t], t) /\ run'[u].read[t].status # "leased"
               /\ Marked(run'[u].read[t], t) => Marked(row'[t], t)
               /\ Closed(run'[u].read[t]) => row'[t] = run'[u].read[t]
    <3>1. u # s /\ Pending(u, t) /\ run'[u] = run[u]
      BY <1>2, <2>4, <2>6
    <3>2. Shaped(run[u].read[t], t) /\ run[u].read[t].status # "leased"
      BY <3>1 DEF Whole
    <3>3. ~Closed(run[u].read[t])
      <4>1. Closed(run[u].read[t]) => Closed(row[t])
        BY <3>1 DEF Whole
      <4>2. Touches(u, t)
        BY <3>1 DEF Touches
      <4>3. QED
        BY <2>4, <3>1, <4>1, <4>2 DEF Whole
    <3>4. QED
      BY <2>1, <2>3, <3>1, <3>2, <3>3
  <2>7. QED
    BY <2>1, <2>3, <2>5, <2>6 DEF Whole
<1>11. QED
  BY <1>3, <1>4, <1>5, <1>6, <1>7, <1>8, <1>9, <1>10 DEF Shapes, Pending

LEMMA NextWhole ==
  ASSUME AInv, RowsWhole, [Next]_vars
  PROVE  RowsWhole'
<1> USE DEF table, store
<1> SUFFICES ASSUME count'.requeues = 0, count'.onces <= 1, NEW t \in Tasks
             PROVE  Whole(t)'
  BY DEF RowsWhole
<1>1. /\ row \in [Tasks -> Row]
      /\ count \in [onces : Nat, aborts : Nat, requeues : Nat, changes : Nat]
      /\ TypeOK /\ CopyingTask /\ InBatch
  BY DEF AInv, TypeOK
<1>2. ASSUME NEW s \in Scanners, Step(s) \/ Abort(s)
      PROVE  Whole(t)'
  <2>1. Shapes(s)
    BY <1>1, <1>2, StepShape
  <2>2. count.onces <= 1
    <3>1. count'.onces \in {count.onces, count.onces + 1}
      BY <1>1, <2>1, BegunShape DEF Onces
    <3>2. QED
      BY <1>1, <3>1
  <2>3. Whole(t)
    BY <2>1, <2>2 DEF Shapes, RowsWhole
  <2>4. QED
    BY <1>1, <2>1, <2>2, <2>3, WholeShape
<1>3. ASSUME run' = run, row' = row, count'.onces = count.onces,
             count'.requeues = count.requeues
      PROVE  Whole(t)'
  <2>1. Whole(t)
    BY <1>3 DEF RowsWhole
  <2>2. \A s \in Scanners : (Holds(s, t)' <=> Holds(s, t)) /\ (Pending(s, t)' <=> Pending(s, t))
    BY <1>3 DEF Holds, Pending
  <2>3. QED
    BY <1>3, <2>1, <2>2 DEF Whole, Touches
<1>4. ASSUME NEW u \in Tasks, NEW reset \in BOOLEAN, RequeueRead(u, reset)
      PROVE  Whole(t)'
  BY <1>1, <1>4 DEF RequeueRead
<1>5. CASE RequeueCommit
  BY <1>5 DEF RequeueCommit, AInv, InBatch
<1>6. ASSUME NEW u \in Tasks, Expire(u)
      PROVE  Whole(t)'
  <2>1. run' = run /\ count' = count
    BY <1>6 DEF Expire
  <2>2. Whole(t)
    BY <2>1 DEF RowsWhole
  <2>3. CASE row'[t] = row[t]
    <3>1. \A s \in Scanners : (Holds(s, t)' <=> Holds(s, t)) /\ (Pending(s, t)' <=> Pending(s, t))
      BY <2>1 DEF Holds, Pending
    <3>2. QED
      BY <2>1, <2>2, <2>3, <3>1 DEF Whole, Touches
  <2>4. CASE row'[t] # row[t]
    <3>1. u = t /\ row[t].expiry = "live" /\ row'[t] = [row[t] EXCEPT !.expiry = "expired"]
      BY <1>1, <1>6, <2>4 DEF Expire
    <3>2. row[t].status = "leased"
      BY <2>2, <3>1 DEF Whole, Shaped, Plain
    <3>3. row'[t].status = "leased"
      BY <1>1, <3>1, <3>2 DEF Row
    <3>4. \A s \in Scanners : ~Holds(s, t)' /\ ~Pending(s, t)'
      BY <2>1, <2>2, <3>2 DEF Whole, Touches, Holds, Pending
    <3>5. QED
      BY <3>3, <3>4 DEF Whole, Touches, Shaped, Closed
  <2>5. QED
    BY <2>3, <2>4
<1>7. ASSUME NEW u \in Tasks, Land(u)
      PROVE  Whole(t)'
  BY <1>3, <1>7 DEF Land
<1>8. ASSUME NEW f \in Sources, NEW v \in Tasks \cup {NoTask}, Change(f, v)
      PROVE  Whole(t)'
  <2>1. count'.onces = count.onces /\ count'.requeues = count.requeues
    BY <1>1, <1>8 DEF Change
  <2>2. QED
    BY <1>3, <1>8, <2>1 DEF Change
<1>9. CASE UNCHANGED vars
  BY <1>3, <1>9 DEF vars
<1>10. QED
  BY <1>2, <1>4, <1>5, <1>6, <1>7, <1>8, <1>9 DEF Next

(* A row that two runs have finished, writing column by column over each   *)
(* other, is nevertheless one of the two results if it ends finalized: the *)
(* path, the action and the size of a copy, and no lease; as long as one   *)
(* run of --scan-once at most has been done next to the server's           *)
(* (scanner.py:129-165).                                                   *)
THEOREM WholeSafe == Spec => []FinalizedWhole
<1>1. Init => AInv /\ RowsWhole
  <2> SUFFICES ASSUME Init
               PROVE  AInv /\ RowsWhole
    OBVIOUS
  <2>1. AInv
    BY InitType, InitAttempts DEF AInv
  <2>2. ASSUME NEW t \in Tasks
        PROVE  Whole(t)
    <3>1. row[t] \in {LeasedRow, NewRow}
      BY DEF Init
    <3>2. \A s \in Scanners : ~Holds(s, t) /\ ~Pending(s, t)
      BY DEF Init, Idle, Holds, Pending
    <3>3. LeasedRow.status = "leased"
      BY DEF LeasedRow, NewRow
    <3>4. Shaped(row[t], t) /\ ~Closed(row[t])
      BY <3>1, <3>3 DEF NewRow, Shaped, Plain, Closed
    <3>5. QED
      BY <3>2, <3>4 DEF Whole, Touches
  <2>3. QED
    BY <2>1, <2>2 DEF RowsWhole
<1>2. AInv /\ RowsWhole /\ [Next]_vars => (AInv /\ RowsWhole)'
  BY NextType, NextAttempts, NextWhole DEF AInv
<1>3. AInv /\ RowsWhole => FinalizedWhole
  <2> SUFFICES ASSUME AInv, RowsWhole, NEW t \in Tasks,
                      row[t].status = "finalized", count.requeues = 0, count.onces <= 1
               PROVE  row[t] = [NewRow EXCEPT !.status = "finalized", !.final = PathOf[t],
                                  !.action = "copy", !.size = SizeOf[t],
                                  !.attempts = row[t].attempts]
    BY DEF FinalizedWhole
  <2>1. row[t] \in Row /\ Shaped(row[t], t)
    BY DEF AInv, TypeOK, RowsWhole, Whole
  <2>2. Plain(row[t]) /\ Marked(row[t], t) /\ row[t].size = SizeOf[t]
    BY <2>1 DEF Shaped
  <2> DEFINE a == row[t].attempts
             w == [status |-> "finalized", worker |-> NoWorker, expiry |-> "none",
                   attempts |-> a, staging |-> NoNonce, final |-> PathOf[t],
                   action |-> "copy", size |-> SizeOf[t]]
  <2>3. row[t] = w
    BY <2>1, <2>2 DEF Row, Plain, Marked
  <2>4. [NewRow EXCEPT !.status = "finalized", !.final = PathOf[t], !.action = "copy",
                       !.size = SizeOf[t], !.attempts = a] = w
    <3> HIDE DEF a
    <3> DEFINE e == [NewRow EXCEPT !.status = "finalized", !.final = PathOf[t],
                       !.action = "copy", !.size = SizeOf[t], !.attempts = a]
    <3>1. /\ e.status = "finalized" /\ e.worker = NoWorker /\ e.expiry = "none"
          /\ e.attempts = a /\ e.staging = NoNonce /\ e.final = PathOf[t]
          /\ e.action = "copy" /\ e.size = SizeOf[t]
      BY DEF NewRow
    <3>2. e \in Row
      <4>1. a \in Nat
        BY <2>1 DEF Row, a
      <4>2. "finalized" \in Status /\ PathOf[t] \in Paths /\ SizeOf[t] \in Sizes
            /\ "copy" \in OutputAction
        BY CopyScanAssumption DEF Status
      <4>3. QED
        BY <4>1, <4>2, NewRowType DEF Row
    <3> HIDE DEF e
    <3>3. e = w
      BY <3>1, <3>2 DEF Row
    <3>4. QED
      BY <3>3 DEF e
  <2>5. QED
    BY <2>3, <2>4
<1>4. QED
  BY <1>1, <1>2, <1>3, PTL DEF Spec
=============================================================================
