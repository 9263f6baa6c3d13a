------------------------- MODULE WorkerFleetProofs --------------------------
(***************************************************************************)
(* Safety of the workers for any number of workers, tasks, threads and     *)
(* faults, proved of Spec.                                                 *)
(*                                                                         *)
(* Two of the properties need that no worker loses its heartbeats: nothing *)
(* has gone wrong yet, or neither a SIGINT nor ten minutes without an      *)
(* answered heartbeat can happen.                                          *)
(***************************************************************************)
EXTENDS WorkerFleet, TLAPS

Calm == faults = 0 \/ (~Interrupts /\ ~Lossy)

Working == {"work", "intent", "upload", "complete", "skip"}
Failing == {"fail", "giveUp"}

(* What is true of workers whatever goes wrong. *)
Shape ==
  /\ \A w \in Workers : got[w] # {} => main[w] = "submit"
  /\ \A w \in Workers : main[w] \in {"stopped", "dead"} => InFlight(w) = {}
  /\ \A w \in Workers, k \in Threads : k \in InFlight(w) => TaskOf(w, k) \in Tasks
  /\ faults = 0 => \A w \in Workers : ~shutting[w]

Holds(w, t) ==
  row[t].worker = w /\ row[t].status = "leased" /\ row[t].expiry = "live"

(* What a job that has failed may find: a complete whose answer was lost   *)
(* has finalized the row or marked it as failed.                           *)
Closed(w, t) ==
  \/ row[t].status = "finalized"
  \/ row[t].status = "failed" /\ row[t].worker = w

(* The leases of workers that send heartbeats: whatever a worker has been  *)
(* given stays its own until the job is over, and is given to it once.     *)
Leases ==
  /\ \A w \in Workers : main[w] \notin {"stopped", "dead"} => running[w]
  /\ \A w \in Workers : \A t \in got[w] : Holds(w, t)
  /\ \A w \in Workers, k \in Threads : k \in InFlight(w) =>
       \/ Holds(w, TaskOf(w, k))
       \/ job[w][k].at \in Failing /\ Closed(w, TaskOf(w, k))
  /\ \A w \in Workers, k \in Threads :
       k \in InFlight(w) /\ job[w][k].at # "submitted" => TaskOf(w, k) \in active[w]
  /\ \A v, w \in Workers, k, l \in Threads :
       k \in InFlight(v) /\ l \in InFlight(w) /\ TaskOf(v, k) = TaskOf(w, l)
         => v = w /\ k = l
  /\ \A v, w \in Workers, k \in Threads :
       k \in InFlight(v) => TaskOf(v, k) \notin got[w]

(* Until something goes wrong, a leased row is in its worker's hands. *)
Reported ==
  \A w \in Workers, t \in Tasks :
    row[t].status = "leased" /\ row[t].worker = w =>
      t \in got[w] \/ \E k \in InFlight(w) : TaskOf(w, k) = t

IInv ==
  /\ TypeOK
  /\ Shape
  /\ Calm => Leases
  /\ faults = 0 => Reported

----------------------------------------------------------------------------
(* Rows: what is assigned stays inside the columns' types.                 *)

LEMMA NewRowType == NewRow \in Row
BY DEF NewRow, Row, Status, Expiry

LEMMA UpdateType ==
  ASSUME NEW r \in Row
  PROVE  /\ ForgetOutput(r) \in Row
         /\ DropLease(r) \in Row
         /\ \A st \in Status : [r EXCEPT !.status = st] \in Row
<1>1. ForgetOutput(r) \in Row
  BY DEF ForgetOutput, Row
<1>2. DropLease(r) \in Row
  BY DEF DropLease, Row, Expiry
<1>3. \A st \in Status : [r EXCEPT !.status = st] \in Row
  BY DEF Row
<1>4. QED
  BY <1>1, <1>2, <1>3

LEMMA LeaseRowType ==
  ASSUME NEW r \in Row, NEW w \in Workers
  PROVE  LeaseRow(r, w) \in Row
<1>1. PICK f \in Row : f = ForgetOutput(r)
  BY UpdateType
<1>2. f.attempts + 1 \in Nat
  BY DEF Row
<1>3. [f EXCEPT !.status = "leased", !.worker = w, !.expiry = "live",
                !.attempts = f.attempts + 1] \in Row
  <2>1. PICK g \in Row : g = [f EXCEPT !.worker = w, !.expiry = "live"]
    BY ZenonT(30) DEF Row, Expiry
  <2>2. [g EXCEPT !.status = "leased", !.attempts = f.attempts + 1] \in Row
    BY <1>2, ZenonT(30) DEF Row, Status
  <2>3. QED
    BY <2>1, <2>2
<1>4. QED
  BY <1>1, <1>3 DEF LeaseRow

LEMMA RenewRowType ==
  ASSUME NEW r \in Row
  PROVE  RenewRow(r) \in Row
BY DEF RenewRow, Row, Expiry

LEMMA IntentRowType ==
  ASSUME NEW r \in Row, NEW n \in Nonces, NEW p \in Paths,
         NEW a \in OutputAction, NEW s \in Sizes
  PROVE  IntentRow(r, n, p, a, s) \in Row
BY DEF IntentRow, Row

LEMMA SkipRowType ==
  ASSUME NEW r \in Row, NEW s \in Sizes
  PROVE  SkipRow(r, s) \in Row
<1>1. PICK d \in Row : d = DropLease(ForgetOutput(r))
  BY UpdateType
<1>2. [d EXCEPT !.status = "finalized", !.action = "skip", !.size = s] \in Row
  BY DEF Row, Status
<1>3. QED
  BY <1>1, <1>2 DEF SkipRow

LEMMA DoneRowType ==
  ASSUME NEW r \in Row
  PROVE  DoneRow(r) \in Row
BY UpdateType DEF DoneRow, Status

LEMMA FailedRowType ==
  ASSUME NEW r \in Row
  PROVE  FailedRow(r) \in Row
BY DEF FailedRow, Row, Status

LEMMA FailRowType ==
  ASSUME NEW r \in Row, NEW b \in BOOLEAN
  PROVE  FailRow(r, b) \in Row
<1>1. PICK d \in Row : d = DropLease(ForgetOutput(r))
  BY UpdateType
<1>2. QED
  BY <1>1, UpdateType DEF FailRow, Status

----------------------------------------------------------------------------
LEMMA InitInv == Init => IInv
<1> SUFFICES ASSUME Init
             PROVE  IInv
  OBVIOUS
<1>1. TypeOK
  BY NewRowType, FleetAssumption DEF Init, TypeOK, NoJob, Job, MainPC, Stage, Request
<1>2. \A w \in Workers : InFlight(w) = {}
  BY DEF Init, InFlight, NoJob
<1>3. Shape /\ Leases
  BY <1>2 DEF Init, Shape, Leases
<1>4. \A t \in Tasks : row[t].status = "queued"
  BY DEF Init, NewRow
<1>5. QED
  BY <1>1, <1>3, <1>4 DEF IInv, Reported

(* Faults only ever become more. *)
LEMMA CalmBefore ==
  ASSUME TypeOK, UNCHANGED faults \/ Fault
  PROVE  /\ faults' \in 0 .. MaxFaults
         /\ Calm' => Calm
         /\ faults' = 0 => faults = 0 /\ UNCHANGED faults
BY FleetAssumption DEF TypeOK, Fault, Calm

----------------------------------------------------------------------------
(* The job threads.                                                        *)

(* A job of w moves on to s, or ends, and only its own row may change.     *)
LEMMA JobMoves ==
  ASSUME IInv, NEW w \in Workers, NEW k \in Threads, NEW s \in Stage,
         k \in InFlight(w), JobTo(w, k, s), s \notin {"none", "submitted"},
         UNCHANGED rest, UNCHANGED faults \/ Fault,
         row' \in [Tasks -> Row],
         \A u \in Tasks : u # TaskOf(w, k) => row'[u] = row[u],
         (\/ s # "over" /\ active' = [active EXCEPT ![w] = @ \cup {TaskOf(w, k)}]
          \/ s # "over" /\ UNCHANGED active /\ job[w][k].at # "submitted"
          \/ s = "over" /\ active' = [active EXCEPT ![w] = @ \ {TaskOf(w, k)}]),
         Calm' /\ s # "over" =>
           (\/ Holds(w, TaskOf(w, k))'
            \/ s \in Failing /\ Closed(w, TaskOf(w, k))'),
         faults' = 0 => \A v \in Workers : 
            LET t == TaskOf(w, k) IN
            row'[t].status = "leased" /\ row'[t].worker = v =>
              s # "over" /\ row[t].status = "leased" /\ row[t].worker = v
  PROVE  IInv'
<1> DEFINE t == TaskOf(w, k)
<1>1. /\ TypeOK /\ Shape /\ t \in Tasks
      /\ job \in [Workers -> [Threads -> Job]] /\ active \in [Workers -> SUBSET Tasks]
  BY DEF IInv, Shape, TypeOK
<1>2. /\ faults' \in 0 .. MaxFaults
      /\ Calm' => Calm
      /\ faults' = 0 => faults = 0 /\ UNCHANGED faults
  BY <1>1, CalmBefore
<1> DEFINE j == [job[w][k] EXCEPT !.at = s]
<1>3. /\ j \in Job /\ j.at = s /\ j.task = t
      /\ job' = [job EXCEPT ![w] = [job[w] EXCEPT ![k] = j]]
  BY <1>1 DEF JobTo, Job, TaskOf
<1> HIDE DEF j
<1>4. /\ job' \in [Workers -> [Threads -> Job]]
      /\ \A v \in Workers, l \in Threads : TaskOf(v, l)' = TaskOf(v, l)
      /\ job'[w][k].at = s
      /\ \A v \in Workers, l \in Threads :
            v # w \/ l # k => job'[v][l].at = job[v][l].at
  BY <1>1, <1>3 DEF TaskOf
<1>5. \A v \in Workers, l \in Threads :
        /\ l \in InFlight(v)' => l \in InFlight(v)
        /\ (v # w \/ l # k) /\ l \in InFlight(v) => l \in InFlight(v)'
        /\ v = w /\ l = k /\ s # "over" => l \in InFlight(v)'
        /\ v = w /\ l = k /\ l \in InFlight(v)' => s # "over"
  BY <1>4 DEF InFlight
<1>6. active' \in [Workers -> SUBSET Tasks]
  BY <1>1
<1>7. TypeOK'
  <2>1. UNCHANGED <<main, got, leased, shutting, running>>
    BY DEF rest
  <2>2. /\ main' \in [Workers -> MainPC] /\ got' \in [Workers -> SUBSET Tasks]
        /\ leased' \in [Workers -> BOOLEAN] /\ shutting' \in [Workers -> BOOLEAN]
        /\ running' \in [Workers -> BOOLEAN]
    BY <1>1, <2>1 DEF TypeOK
  <2>3. QED
    BY <1>2, <1>4, <1>6, <2>2 DEF TypeOK
<1>8. Shape'
  <2>1. /\ UNCHANGED <<main, got, shutting>>
        /\ faults' = 0 => faults = 0
    BY <1>2 DEF rest
  <2>2. \A v \in Workers : InFlight(v)' \subseteq InFlight(v)
    BY <1>5 DEF InFlight
  <2> HIDE DEF t
  <2>3. QED
    BY <1>1, <1>4, <2>1, <2>2 DEF Shape, InFlight
<1>9. ASSUME Calm'
      PROVE  Leases'
  <2> HIDE DEF t
  <2>1. /\ Leases
        /\ main' = main /\ got' = got /\ running' = running
    BY <1>2, <1>9 DEF IInv, rest
  <2>2. \A v \in Workers, u \in Tasks : u # t => (Holds(v, u)' <=> Holds(v, u))
                                            /\ (Closed(v, u)' <=> Closed(v, u))
    BY DEF Holds, Closed, t
  <2>3. \A v \in Workers, l \in Threads : l \in InFlight(v) /\ TaskOf(v, l) = t
           => v = w /\ l = k
    BY <2>1 DEF Leases, t
  <2>4. \A v \in Workers : t \notin got[v] /\ got[v] \subseteq Tasks
    BY <1>1, <2>1 DEF Leases, t, TypeOK
  <2>5. \A v \in Workers : \A u \in got'[v] : Holds(v, u)'
    BY <2>1, <2>2, <2>4 DEF Leases
  <2>6. ASSUME NEW v \in Workers, NEW l \in Threads, l \in InFlight(v)'
        PROVE  /\ \/ Holds(v, TaskOf(v, l))'
                  \/ job'[v][l].at \in Failing /\ Closed(v, TaskOf(v, l))'
               /\ job'[v][l].at # "submitted" => TaskOf(v, l)' \in active'[v]
    <3>1. CASE v = w /\ l = k
      BY <1>1, <1>4, <1>5, <1>9, <2>1, <2>6, <3>1 DEF t, Leases
    <3>2. CASE v # w \/ l # k
      <4>1. l \in InFlight(v) /\ TaskOf(v, l) # t /\ TaskOf(v, l) \in Tasks
        BY <1>1, <1>5, <2>3, <2>6, <3>2 DEF Shape
      <4>2. TaskOf(v, l) \in active[v] => TaskOf(v, l) \in active'[v]
        BY <1>1, <4>1 DEF t
      <4>3. QED
        BY <1>4, <2>1, <2>2, <3>2, <4>1, <4>2 DEF Leases
    <3>3. QED
      BY <3>1, <3>2
  <2>7. QED
    BY <1>4, <1>5, <2>1, <2>5, <2>6 DEF Leases
<1>10. ASSUME faults' = 0
       PROVE  Reported'
  <2> HIDE DEF t
  <2>1. Reported /\ UNCHANGED got
    BY <1>2, <1>10 DEF IInv, rest
  <2>2. ASSUME NEW v \in Workers, NEW u \in Tasks,
               row'[u].status = "leased", row'[u].worker = v
        PROVE  u \in got'[v] \/ \E l \in InFlight(v)' : TaskOf(v, l)' = u
    <3>1. row[u].status = "leased" /\ row[u].worker = v /\ (u = t => s # "over")
      BY <1>10, <2>2 DEF t
    <3>2. CASE u \in got[v]
      BY <2>1, <3>2
    <3>3. ASSUME NEW l \in InFlight(v), TaskOf(v, l) = u
          PROVE  \E i \in InFlight(v)' : TaskOf(v, i)' = u
      <4>1. l \in Threads
        BY DEF InFlight
      <4>2. l \in InFlight(v)'
        BY <1>5, <3>1, <3>3, <4>1 DEF t
      <4>3. QED
        BY <1>4, <3>3, <4>1, <4>2
    <3>4. QED
      BY <2>1, <3>1, <3>2, <3>3 DEF Reported
  <2>3. QED
    BY <2>2 DEF Reported
<1>11. QED
  BY <1>7, <1>8, <1>9, <1>10 DEF IInv

LEMMA JobFacts ==
  ASSUME IInv, NEW w \in Workers, NEW k \in Threads, k \in InFlight(w)
  PROVE  /\ TaskOf(w, k) \in Tasks /\ row \in [Tasks -> Row]
         /\ row[TaskOf(w, k)] \in Row
         /\ Calm => \/ Holds(w, TaskOf(w, k))
                    \/ job[w][k].at \in Failing /\ Closed(w, TaskOf(w, k))
         /\ TypeOK
BY DEF IInv, Shape, Leases, TypeOK

LEMMA FaultFacts ==
  ASSUME IInv
  PROVE  /\ UNCHANGED faults => (Calm' <=> Calm)
         /\ Fault => faults' # 0 /\ (Calm' => Calm)
         /\ faults' = 0 => Calm'
BY FleetAssumption DEF IInv, TypeOK, Fault, Calm

(* A job that moves on without touching its row. *)
LEMMA JobGoesOn ==
  ASSUME IInv, NEW w \in Workers, NEW k \in Threads,
         k \in InFlight(w), job[w][k].at \notin Failing \cup {"submitted"},
         NEW s \in (Working \cup Failing), JobTo(w, k, s),
         UNCHANGED <<rest, active, row>>, UNCHANGED faults \/ Fault
  PROVE  IInv'
<1>1. /\ s \in Stage /\ s \notin {"none", "submitted", "over"}
      /\ row' = row /\ UNCHANGED active /\ UNCHANGED rest
  BY DEF Stage, Request, Working, Failing
<1>2. Calm' => Holds(w, TaskOf(w, k))
  BY JobFacts, FaultFacts
<1>3. job'[w][k].task = job[w][k].task
  BY JobFacts DEF JobTo, TypeOK, Job
<1>4. Holds(w, TaskOf(w, k))' <=> Holds(w, TaskOf(w, k))
  BY <1>1, <1>3 DEF Holds, TaskOf
<1>5. row' \in [Tasks -> Row]
  BY <1>1, JobFacts
<1>6. QED
  BY <1>1, <1>2, <1>4, <1>5, JobMoves

(* The same, after a request that has written the row r.                   *)
LEMMA JobWrites ==
  ASSUME IInv, NEW w \in Workers, NEW k \in Threads, k \in InFlight(w),
         job[w][k].at \notin Failing \cup {"submitted"},
         NEW s \in (Working \cup Failing), JobTo(w, k, s), NEW r \in Row,
         Granted(w, TaskOf(w, k)), Put(TaskOf(w, k), r),
         UNCHANGED <<rest, active>>,
         \/ UNCHANGED faults /\ r.status = row[TaskOf(w, k)].status
              /\ r.worker = w /\ r.expiry = row[TaskOf(w, k)].expiry
         \/ Fault /\ s = "fail"
              /\ (\/ r.status = row[TaskOf(w, k)].status /\ r.worker = w
                    /\ r.expiry = row[TaskOf(w, k)].expiry
                  \/ r.status = "finalized"
                  \/ r.status = "failed" /\ r.worker = w)
  PROVE  IInv'
<1> DEFINE t == TaskOf(w, k)
<1>1. /\ s \in Stage /\ s \notin {"none", "submitted", "over"}
      /\ UNCHANGED active /\ UNCHANGED rest
  BY DEF Stage, Request, Working, Failing
<1>2. t \in Tasks /\ row \in [Tasks -> Row] /\ TypeOK /\ (Calm' => Holds(w, t))
  BY JobFacts, FaultFacts
<1>3. TaskOf(w, k)' = t
  BY <1>2 DEF JobTo, TypeOK, Job, TaskOf
<1>4. /\ row'[t] = r /\ row' \in [Tasks -> Row]
      /\ \A u \in Tasks : u # t => row'[u] = row[u]
  BY <1>2 DEF Put
<1>5. Calm' => \/ Holds(w, TaskOf(w, k))'
               \/ s \in Failing /\ Closed(w, TaskOf(w, k))'
  BY <1>2, <1>3, <1>4 DEF Holds, Closed, Failing
<1>6. faults' = 0 => r.status = row[t].status /\ r.worker = row[t].worker
  BY FaultFacts DEF Granted
<1> HIDE DEF t
<1>7. QED
  BY <1>1, <1>4, <1>5, <1>6, JobMoves DEF t

(* A job that ends: nothing of its row is left to its worker but what some *)
(* fault has kept.                                                         *)
LEMMA JobEnds ==
  ASSUME IInv, NEW w \in Workers, NEW k \in Threads, k \in InFlight(w),
         Ends(w, k), UNCHANGED rest, UNCHANGED faults \/ Fault,
         row' \in [Tasks -> Row],
         \A u \in Tasks : u # TaskOf(w, k) => row'[u] = row[u],
         faults' = 0 => row'[TaskOf(w, k)].status # "leased"
  PROVE  IInv'
BY JobMoves DEF Ends, Stage

LEMMA BeginInv ==
  ASSUME IInv, NEW w \in Workers, NEW k \in Threads, Begin(w, k)
  PROVE  IInv'
<1> DEFINE s == IF shutting[w] THEN "fail" ELSE "work"
<1>1. /\ k \in InFlight(w) /\ job[w][k].at \notin Failing
      /\ row' = row /\ UNCHANGED rest /\ UNCHANGED faults
      /\ JobTo(w, k, s)
      /\ active' = [active EXCEPT ![w] = @ \cup {TaskOf(w, k)}]
      /\ s \in Stage /\ s \notin {"none", "submitted", "over"}
  BY DEF Begin, JobAt, InFlight, Failing, server, Stage, Request
<1> HIDE DEF s
<1>2. Calm' => Holds(w, TaskOf(w, k))
  BY <1>1, JobFacts, FaultFacts
<1>3. TaskOf(w, k)' = TaskOf(w, k)
  BY <1>1, JobFacts DEF JobTo, TypeOK, Job, TaskOf
<1>4. Holds(w, TaskOf(w, k))' <=> Holds(w, TaskOf(w, k))
  BY <1>1, <1>3 DEF Holds
<1>5. row' \in [Tasks -> Row]
  BY <1>1, JobFacts
<1>6. QED
  BY <1>1, <1>2, <1>4, <1>5, JobMoves

(* The steps between Begin and the end of the job: the job holds its row.  *)
LEMMA WorkingFacts ==
  ASSUME IInv, NEW w \in Workers, NEW k \in Threads, job[w][k].at \in Working
  PROVE  /\ k \in InFlight(w)
         /\ job[w][k].at \notin Failing \cup {"submitted"}
BY DEF Working, Failing, InFlight

LEMMA ProcessInv ==
  ASSUME IInv, NEW w \in Workers, NEW k \in Threads, Process(w, k)
  PROVE  IInv'
<1>1. job[w][k].at \in Working /\ UNCHANGED <<rest, active, row>>
  BY DEF Process, JobAt, Working, server
<1>2. PICK s \in Working \cup Failing :
        JobTo(w, k, s) /\ (UNCHANGED faults \/ Fault)
  BY DEF Process, Working, Failing
<1>3. QED
  BY <1>1, <1>2, WorkingFacts, JobGoesOn

LEMMA RefusedGoesOn ==
  ASSUME IInv, NEW w \in Workers, NEW k \in Threads, job[w][k].at \in Working,
         Refused(w, k), UNCHANGED <<rest, active, row>>, UNCHANGED faults
  PROVE  IInv'
<1>1. PICK s \in Working \cup Failing : JobTo(w, k, s)
  BY DEF Refused, Failing
<1>2. QED
  BY <1>1, WorkingFacts, JobGoesOn

LEMMA UploadIntentInv ==
  ASSUME IInv, NEW w \in Workers, NEW k \in Threads, UploadIntent(w, k)
  PROVE  IInv'
<1> DEFINE t == TaskOf(w, k)
<1>1. /\ job[w][k].at \in Working
      /\ UNCHANGED rest /\ UNCHANGED active /\ UNCHANGED <<rest, active>>
  BY DEF UploadIntent, JobAt, Working
<1>2. PICK n \in Nonces, p \in Paths, a \in OutputAction, s \in Sizes :
        Calls(w, k, IntentRow(row[t], n, p, a, s), "upload")
  BY DEF UploadIntent
<1> DEFINE r == IntentRow(row[t], n, p, a, s)
<1>3. /\ row[t] \in Row
      /\ k \in InFlight(w) /\ job[w][k].at \notin Failing \cup {"submitted"}
  BY <1>1, WorkingFacts, JobFacts
<1>4. /\ r \in Row /\ r.status = row[t].status
      /\ r.worker = row[t].worker /\ r.expiry = row[t].expiry
  BY <1>3, IntentRowType DEF IntentRow, Row
<1>5. "upload" \in Working \cup Failing /\ "fail" \in Working \cup Failing
  BY DEF Working, Failing
<1> HIDE DEF t, r
<1>6. CASE Granted(w, t) /\ Put(t, r) /\ JobTo(w, k, "upload") /\ UNCHANGED faults
  <2>1. r.worker = w
    BY <1>4, <1>6 DEF Granted
  <2>2. QED
    BY <1>1, <1>3, <1>4, <1>5, <1>6, <2>1, JobWrites DEF t
<1>7. CASE Refused(w, k) /\ UNCHANGED <<row, faults>>
  BY <1>1, <1>7, RefusedGoesOn
<1>8. CASE Fault /\ UNCHANGED row /\ JobTo(w, k, "fail")
  BY <1>1, <1>3, <1>5, <1>8, JobGoesOn
<1>9. CASE Fault /\ Granted(w, t) /\ Put(t, r) /\ JobTo(w, k, "fail")
  <2>1. r.worker = w
    BY <1>4, <1>9 DEF Granted
  <2>2. QED
    BY <1>1, <1>3, <1>4, <1>5, <1>9, <2>1, JobWrites DEF t
<1>10. QED
  BY <1>2, <1>6, <1>7, <1>8, <1>9 DEF Calls, t, r

LEMMA UploadInv ==
  ASSUME IInv, NEW w \in Workers, NEW k \in Threads, Upload(w, k)
  PROVE  IInv'
<1>1. job[w][k].at \in Working /\ UNCHANGED <<rest, active, row>>
  BY DEF Upload, JobAt, Working, server
<1>2. PICK s \in Working \cup Failing :
        JobTo(w, k, s) /\ (UNCHANGED faults \/ Fault)
  BY DEF Upload, Working, Failing
<1>3. QED
  BY <1>1, <1>2, WorkingFacts, JobGoesOn

(* A row that is closed by a job that is over, or by one that does not     *)
(* learn of it.                                                            *)
LEMMA PutFacts ==
  ASSUME IInv, NEW t \in Tasks, NEW r \in Row, Put(t, r)
  PROVE  /\ row' \in [Tasks -> Row] /\ row'[t] = r
         /\ \A u \in Tasks : u # t => row'[u] = row[u]
BY DEF IInv, TypeOK, Put

LEMMA CompleteInv ==
  ASSUME IInv, NEW w \in Workers, NEW k \in Threads, Complete(w, k)
  PROVE  IInv'
<1> DEFINE t == TaskOf(w, k)
<1>1. /\ job[w][k].at \in Working
      /\ UNCHANGED rest
  BY DEF Complete, JobAt, Working
<1>2. /\ t \in Tasks /\ row[t] \in Row
      /\ k \in InFlight(w) /\ job[w][k].at \notin Failing \cup {"submitted"}
  BY <1>1, WorkingFacts, JobFacts
<1>3. /\ DoneRow(row[t]) \in Row /\ FailedRow(row[t]) \in Row
      /\ DoneRow(row[t]).status = "finalized"
      /\ FailedRow(row[t]).status = "failed"
      /\ FailedRow(row[t]).worker = row[t].worker
  BY <1>2, DoneRowType, FailedRowType DEF DoneRow, FailedRow, DropLease, Row
<1>4. "fail" \in Working \cup Failing
  BY DEF Failing
<1> HIDE DEF t
<1>5. CASE Put(t, DoneRow(row[t])) /\ Ends(w, k) /\ UNCHANGED faults
  BY <1>1, <1>2, <1>3, <1>5, PutFacts, JobEnds DEF t
<1>6. CASE JobTo(w, k, "fail") /\ UNCHANGED <<row, active, faults>>
  BY <1>1, <1>2, <1>4, <1>6, JobGoesOn
<1>7. CASE Refused(w, k) /\ UNCHANGED <<row, active, faults>>
  BY <1>1, <1>7, RefusedGoesOn
<1>8. CASE Fault /\ UNCHANGED row /\ JobTo(w, k, "fail") /\ UNCHANGED active
  BY <1>1, <1>2, <1>4, <1>8, JobGoesOn
<1>9. ASSUME Fault, Granted(w, t), JobTo(w, k, "fail"), UNCHANGED active,
             NEW r \in {DoneRow(row[t]), FailedRow(row[t])}, Put(t, r)
      PROVE  IInv'
  <2>1. r \in Row /\ (r.status = "finalized" \/ (r.status = "failed" /\ r.worker = w))
    BY <1>3, <1>9 DEF Granted
  <2>2. UNCHANGED <<rest, active>>
    BY <1>1, <1>9
  <2>3. QED
    BY <1>2, <1>4, <1>9, <2>1, <2>2, JobWrites DEF t
<1>10. QED
  BY <1>5, <1>6, <1>7, <1>8, <1>9 DEF Complete, t

LEMMA SkipInv ==
  ASSUME IInv, NEW w \in Workers, NEW k \in Threads, Skip(w, k)
  PROVE  IInv'
<1> DEFINE t == TaskOf(w, k)
<1>1. /\ job[w][k].at \in Working
      /\ UNCHANGED rest
  BY DEF Skip, JobAt, Working
<1>2. /\ t \in Tasks /\ row[t] \in Row /\ row \in [Tasks -> Row]
      /\ k \in InFlight(w) /\ job[w][k].at \notin Failing \cup {"submitted"}
  BY <1>1, WorkingFacts, JobFacts
<1>3. \A s \in Sizes : SkipRow(row[t], s) \in Row
                      /\ SkipRow(row[t], s).status = "finalized"
  BY <1>2, SkipRowType DEF SkipRow, DropLease, ForgetOutput, Row
<1>4. "fail" \in Working \cup Failing
  BY DEF Failing
<1> HIDE DEF t
<1>5. ASSUME NEW s \in Sizes, Put(t, SkipRow(row[t], s)), Ends(w, k), UNCHANGED faults
      PROVE  IInv'
  BY <1>1, <1>2, <1>3, <1>5, PutFacts, JobEnds DEF t
<1>6. CASE row[t].status = "finalized" /\ Ends(w, k) /\ UNCHANGED <<row, faults>>
  BY <1>1, <1>2, <1>6, JobEnds DEF t
<1>7. CASE Refused(w, k) /\ UNCHANGED <<row, active, faults>>
  BY <1>1, <1>7, RefusedGoesOn
<1>8. CASE Fault /\ UNCHANGED row /\ JobTo(w, k, "fail") /\ UNCHANGED active
  BY <1>1, <1>2, <1>4, <1>8, JobGoesOn
<1>9. ASSUME Fault, Granted(w, t), JobTo(w, k, "fail"), UNCHANGED active,
             NEW s \in Sizes, Put(t, SkipRow(row[t], s))
      PROVE  IInv'
  <2>1. UNCHANGED <<rest, active>>
    BY <1>1, <1>9
  <2>2. QED
    BY <1>2, <1>3, <1>4, <1>9, <2>1, JobWrites DEF t
<1>10. QED
  BY <1>5, <1>6, <1>7, <1>8, <1>9 DEF Skip, t

LEMMA ReportInv ==
  ASSUME IInv, NEW w \in Workers, NEW k \in Threads, Report(w, k)
  PROVE  IInv'
<1> DEFINE t == TaskOf(w, k)
           failed == FailRow(row[t], JobAt(w, k, "fail"))
           accepted == Granted(w, t) /\ row[t].status \notin {"queued", "deadletter"}
<1>1. /\ k \in InFlight(w) /\ Ends(w, k) /\ UNCHANGED rest
      /\ UNCHANGED faults \/ Fault
  BY DEF Report, JobAt, InFlight
<1>2. t \in Tasks /\ row[t] \in Row /\ row \in [Tasks -> Row]
  BY <1>1, JobFacts
<1>3. failed \in Row /\ failed.status # "leased"
  <2>1. JobAt(w, k, "fail") \in BOOLEAN
    BY DEF JobAt
  <2>2. failed \in Row
    BY <1>2, <2>1, FailRowType
  <2>3. failed.status \in {"queued", "deadletter"}
    BY <1>2 DEF FailRow, DropLease, ForgetOutput, Row
  <2>4. QED
    BY <2>2, <2>3
<1>4. \/ row' = IF accepted THEN [row EXCEPT ![t] = failed] ELSE row
      \/ row' = row /\ Fault
  BY DEF Report
<1> HIDE DEF failed
<1>5. /\ row' \in [Tasks -> Row]
      /\ \A u \in Tasks : u # t => row'[u] = row[u]
  BY <1>2, <1>3, <1>4
<1>6. ASSUME faults' = 0
      PROVE  row'[t].status # "leased"
  <2>1. ~Fault /\ (Holds(w, t) \/ Closed(w, t))
    BY <1>1, <1>6, JobFacts, FaultFacts
  <2>2. row' = IF accepted THEN [row EXCEPT ![t] = failed] ELSE row
    BY <1>4, <2>1
  <2>3. Holds(w, t) => accepted
    BY DEF Holds, Granted
  <2>4. Closed(w, t) => row[t].status # "leased"
    BY DEF Closed
  <2> HIDE DEF accepted
  <2>5. QED
    BY <1>2, <1>3, <2>1, <2>2, <2>3, <2>4
<1>7. QED
  BY <1>1, <1>5, <1>6, JobEnds

LEMMA JobStepInv ==
  ASSUME IInv, NEW w \in Workers, NEW k \in Threads, JobStep(w, k)
  PROVE  IInv'
BY BeginInv, ProcessInv, UploadIntentInv, UploadInv, CompleteInv, SkipInv,
   ReportInv DEF JobStep

----------------------------------------------------------------------------
(* The main loops, signals, heartbeats and time: the jobs in flight stay   *)
(* what they are.                                                          *)

SameJobs ==
  \A v \in Workers : /\ InFlight(v)' = InFlight(v)
                     /\ \A l \in InFlight(v) : job'[v][l] = job[v][l]

Claims(v, t) == t \in got[v] \/ \E l \in InFlight(v) : TaskOf(v, l) = t

(* Nobody takes from v what it holds. *)
LeftTo(v, t) ==
  /\ Holds(v, t) => Holds(v, t)'
  /\ Closed(v, t) => Closed(v, t)'

LEMMA Frame ==
  ASSUME IInv, TypeOK', SameJobs, active' = active, UNCHANGED faults \/ Fault,
         \A v \in Workers : got'[v] # {} => main'[v] = "submit",
         \A v \in Workers : main'[v] \in {"stopped", "dead"} => InFlight(v) = {},
         faults' = 0 => \A v \in Workers : ~shutting'[v],
         Calm' =>
           /\ \A v \in Workers : main'[v] \notin {"stopped", "dead"} => running'[v]
           /\ \A v \in Workers : \A t \in got'[v] : Holds(v, t)'
           /\ \A v \in Workers, t \in Tasks : Claims(v, t) => LeftTo(v, t)
           /\ \A u, v \in Workers : \A l \in InFlight(v) : TaskOf(v, l) \notin got'[u],
         faults' = 0 => \A v \in Workers, t \in Tasks :
           row'[t].status = "leased" /\ row'[t].worker = v =>
             \/ t \in got'[v]
             \/ row[t].status = "leased" /\ row[t].worker = v /\ t \notin got[v]
  PROVE  IInv'
<1>1. /\ faults' \in 0 .. MaxFaults
      /\ Calm' => Calm
      /\ faults' = 0 => faults = 0 /\ UNCHANGED faults
  BY CalmBefore DEF IInv
<1>2. \A v \in Workers : \A l \in InFlight(v) :
        /\ l \in Threads /\ l \in InFlight(v)'
        /\ TaskOf(v, l)' = TaskOf(v, l) /\ TaskOf(v, l) \in Tasks
        /\ job'[v][l].at = job[v][l].at
  <2>1. \A v \in Workers, l \in Threads : l \in InFlight(v) => TaskOf(v, l) \in Tasks
    BY DEF IInv, Shape
  <2>2. \A v \in Workers : \A l \in InFlight(v) : l \in Threads
    BY DEF InFlight
  <2>3. QED
    BY <2>1, <2>2 DEF SameJobs, TaskOf
<1>3. \A v \in Workers : InFlight(v)' = InFlight(v)
  BY DEF SameJobs
<1>4. Shape'
  BY <1>2, <1>3 DEF Shape
<1>5. ASSUME Calm'
      PROVE  Leases'
  <2>1. Leases
    BY <1>1, <1>5 DEF IInv
  <2>2. \A v \in Workers : main'[v] \notin {"stopped", "dead"} => running'[v]
    BY <1>5
  <2>3. \A v \in Workers : \A t \in got'[v] : Holds(v, t)'
    BY <1>5
  <2>4. ASSUME NEW v \in Workers, NEW l \in Threads, l \in InFlight(v)'
        PROVE  /\ \/ Holds(v, TaskOf(v, l))'
                  \/ job'[v][l].at \in Failing /\ Closed(v, TaskOf(v, l))'
               /\ job'[v][l].at # "submitted" => TaskOf(v, l)' \in active'[v]
               /\ \A u \in Workers : TaskOf(v, l)' \notin got'[u]
    <3>1. l \in InFlight(v)
      BY <1>3, <2>4
    <3>2. PICK t \in Tasks : t = TaskOf(v, l)
      BY <1>2, <3>1
    <3>3. TaskOf(v, l)' = t /\ job'[v][l].at = job[v][l].at
      BY <1>2, <3>1, <3>2
    <3>4. Claims(v, t)
      BY <3>1, <3>2 DEF Claims
    <3>5. LeftTo(v, t) /\ \A u \in Workers : t \notin got'[u]
      BY <1>5, <3>1, <3>2, <3>4
    <3>6. Holds(v, t) \/ (job[v][l].at \in Failing /\ Closed(v, t))
      BY <2>1, <3>1, <3>2 DEF Leases
    <3>7. Holds(v, t)' \/ (job[v][l].at \in Failing /\ Closed(v, t)')
      BY <3>5, <3>6 DEF LeftTo
    <3>8. job[v][l].at # "submitted" => t \in active[v]
      BY <2>1, <3>1, <3>2 DEF Leases
    <3>9. QED
      BY <3>3, <3>5, <3>7, <3>8 DEF Holds, Closed
  <2>5. ASSUME NEW u \in Workers, NEW v \in Workers, NEW k \in Threads, NEW l \in Threads,
               k \in InFlight(u)', l \in InFlight(v)', TaskOf(u, k)' = TaskOf(v, l)'
        PROVE  u = v /\ k = l
    BY <1>2, <1>3, <2>1, <2>5 DEF Leases
  <2>6. QED
    BY <2>2, <2>3, <2>4, <2>5 DEF Leases
<1>6. ASSUME faults' = 0
      PROVE  Reported'
  <2>1. Reported
    BY <1>1, <1>6 DEF IInv
  <2>2. ASSUME NEW v \in Workers, NEW t \in Tasks,
               row'[t].status = "leased", row'[t].worker = v, t \notin got'[v]
        PROVE  \E k \in InFlight(v)' : TaskOf(v, k)' = t
    <3>1. PICK k \in InFlight(v) : TaskOf(v, k) = t
      BY <1>6, <2>1, <2>2 DEF Reported
    <3>2. QED
      BY <1>2, <3>1
  <2>3. QED
    BY <2>2 DEF Reported
<1>7. QED
  BY <1>4, <1>5, <1>6 DEF IInv

LEMMA Facts ==
  ASSUME IInv
  PROVE  /\ TypeOK /\ Shape
         /\ row \in [Tasks -> Row] /\ main \in [Workers -> MainPC]
         /\ got \in [Workers -> SUBSET Tasks]
         /\ job \in [Workers -> [Threads -> Job]]
         /\ active \in [Workers -> SUBSET Tasks]
         /\ shutting \in [Workers -> BOOLEAN] /\ running \in [Workers -> BOOLEAN]
         /\ faults \in 0 .. MaxFaults
         /\ \A w \in Workers : got[w] # {} => main[w] = "submit"
         /\ \A w \in Workers : main[w] \in {"stopped", "dead"} => InFlight(w) = {}
         /\ faults = 0 => \A w \in Workers : ~shutting[w]
         /\ Calm => Leases
BY DEF IInv, TypeOK, Shape

(* What is left of the invariant when rows and leases stay as they are. *)
LEMMA FactsCalm ==
  ASSUME IInv, Calm
  PROVE  /\ \A v \in Workers : main[v] \notin {"stopped", "dead"} => running[v]
         /\ \A v \in Workers : \A t \in got[v] : Holds(v, t)
         /\ \A u, v \in Workers : \A l \in InFlight(v) : TaskOf(v, l) \notin got[u]
         /\ \A v \in Workers : \A l \in InFlight(v) :
              Holds(v, TaskOf(v, l)) \/ Closed(v, TaskOf(v, l))
<1>1. Leases /\ \A v \in Workers : \A l \in InFlight(v) : l \in Threads
  BY DEF IInv, InFlight
<1>2. QED
  BY <1>1 DEF Leases

LEMMA PollInv ==
  ASSUME IInv, NEW w \in Workers, Poll(w)
  PROVE  IInv'
<1> USE Facts
<1>1. /\ main[w] = "poll" /\ UNCHANGED <<row, got, leased, active, shutting, running, faults>>
      /\ job' = [job EXCEPT ![w] = Drained(w)]
  BY DEF Poll, server
<1>2. PICK to \in {"poll", "lease", "leave"} : main' = [main EXCEPT ![w] = to]
  <2>1. main' = main => main' = [main EXCEPT ![w] = "poll"]
    BY <1>1
  <2>2. QED
    BY <2>1 DEF Poll, Goes
<1>3. Drained(w) \in [Threads -> Job]
  BY DEF Drained, Job, NoJob, Stage
<1>4. \A l \in Threads : \/ job[w][l].at = "over" /\ Drained(w)[l].at = "none"
                         \/ job[w][l].at # "over" /\ Drained(w)[l] = job[w][l]
  BY DEF Drained, JobAt, NoJob
<1>5. SameJobs
  BY <1>1, <1>3, <1>4 DEF SameJobs, InFlight
<1>6. TypeOK'
  BY <1>1, <1>2, <1>3 DEF TypeOK, MainPC
<1>7. \A v \in Workers : /\ got'[v] # {} => main'[v] = "submit"
                         /\ main'[v] \in {"stopped", "dead"} => InFlight(v) = {}
  BY <1>1, <1>2
<1>8. \A v \in Workers, t \in Tasks : LeftTo(v, t)
  BY <1>1 DEF LeftTo, Holds, Closed
<1>9. ASSUME Calm'
      PROVE  /\ \A v \in Workers : main'[v] \notin {"stopped", "dead"} => running'[v]
             /\ \A v \in Workers : \A t \in got'[v] : Holds(v, t)'
             /\ \A u, v \in Workers : \A l \in InFlight(v) : TaskOf(v, l) \notin got'[u]
  BY <1>1, <1>2, <1>9, FactsCalm DEF Calm, Holds
<1>10. QED
  BY <1>1, <1>5, <1>6, <1>7, <1>8, <1>9, Frame DEF IInv, Reported

(* A lease takes nothing from anybody. *)
LEMMA Grants ==
  ASSUME IInv, NEW w \in Workers, NEW S \in Batches(w), LeaseAll(w, S)
  PROVE  /\ S \subseteq Tasks /\ row' \in [Tasks -> Row]
         /\ \A t \in S : Holds(w, t)'
         /\ \A t \in Tasks : t \notin S => row'[t] = row[t]
         /\ \A v \in Workers, t \in Tasks : LeftTo(v, t)
         /\ Calm => \A v \in Workers : \A l \in InFlight(v) : TaskOf(v, l) \notin S
<1>1. S \subseteq Tasks /\ \A t \in S : Leasable(row[t])
  BY DEF Batches
<1>2. row \in [Tasks -> Row]
  BY Facts
<1>3. \A t \in Tasks : row'[t] = IF t \in S THEN LeaseRow(row[t], w) ELSE row[t]
  BY DEF LeaseAll
<1>4. row' \in [Tasks -> Row]
  <2>1. \A t \in Tasks : (IF t \in S THEN LeaseRow(row[t], w) ELSE row[t]) \in Row
    BY <1>2, LeaseRowType
  <2>2. QED
    BY <2>1 DEF LeaseAll
<1>5. \A r \in Row : /\ LeaseRow(r, w).status = "leased" /\ LeaseRow(r, w).worker = w
                     /\ LeaseRow(r, w).expiry = "live"
  BY DEF LeaseRow, ForgetOutput, Row
<1>6. \A t \in S : Holds(w, t)'
  BY <1>1, <1>2, <1>3, <1>5 DEF Holds
<1>7. \A v \in Workers : \A t \in S : ~Holds(v, t) /\ ~Closed(v, t)
  BY <1>1 DEF Leasable, Holds, Closed
<1>8. \A v \in Workers, t \in Tasks : LeftTo(v, t)
  BY <1>3, <1>7 DEF LeftTo, Holds, Closed
<1>9. Calm => \A v \in Workers : \A l \in InFlight(v) : TaskOf(v, l) \notin S
  BY <1>7, FactsCalm
<1>10. QED
  BY <1>1, <1>3, <1>4, <1>6, <1>8, <1>9

LEMMA SameJobsStay ==
  ASSUME UNCHANGED job
  PROVE  SameJobs
BY DEF SameJobs, InFlight

LEMMA LeaseInv ==
  ASSUME IInv, NEW w \in Workers, Lease(w)
  PROVE  IInv'
<1> USE Facts
<1>1. /\ main[w] = "lease" /\ UNCHANGED <<job, active, shutting, running, faults>>
  BY DEF Lease
<1>2. PICK S \in Batches(w) :
        /\ LeaseAll(w, S)
        /\ got' = [got EXCEPT ![w] = S]
        /\ leased' = [leased EXCEPT ![w] = TRUE]
        /\ Goes(w, IF S # {} THEN "submit" ELSE IF w \in Once THEN "leave" ELSE "poll")
  BY DEF Lease
<1>3. PICK to \in {"submit", "leave", "poll"} :
        main' = [main EXCEPT ![w] = to] /\ (S # {} => to = "submit")
  BY <1>2 DEF Goes
<1>4. /\ S \subseteq Tasks /\ row' \in [Tasks -> Row]
      /\ \A t \in S : Holds(w, t)'
      /\ \A t \in Tasks : t \notin S => row'[t] = row[t]
      /\ \A v \in Workers, t \in Tasks : LeftTo(v, t)
      /\ Calm => \A v \in Workers : \A l \in InFlight(v) : TaskOf(v, l) \notin S
  BY <1>2, Grants
<1>5. TypeOK'
  BY <1>1, <1>2, <1>3, <1>4 DEF TypeOK, MainPC
<1>6. \A v \in Workers : /\ got'[v] # {} => main'[v] = "submit"
                         /\ main'[v] \in {"stopped", "dead"} => InFlight(v) = {}
  BY <1>1, <1>2, <1>3
<1>7. ASSUME Calm'
      PROVE  /\ \A v \in Workers : main'[v] \notin {"stopped", "dead"} => running'[v]
             /\ \A v \in Workers : \A t \in got'[v] : Holds(v, t)'
             /\ \A u, v \in Workers : \A l \in InFlight(v) : TaskOf(v, l) \notin got'[u]
  <2>1. Calm
    BY <1>1, <1>7 DEF Calm
  <2>2. \A v \in Workers : \A t \in got[v] : Holds(v, t)' /\ t \in Tasks
    BY <1>4, <2>1, FactsCalm DEF LeftTo
  <2>3. QED
    BY <1>1, <1>2, <1>3, <1>4, <2>1, <2>2, FactsCalm
<1>8. \A v \in Workers, t \in Tasks :
        row'[t].status = "leased" /\ row'[t].worker = v =>
             \/ t \in got'[v]
             \/ row[t].status = "leased" /\ row[t].worker = v /\ t \notin got[v]
  <2>1. got[w] = {}
    BY <1>1
  <2>2. \A v \in Workers : IF v = w THEN got'[v] = S ELSE got'[v] = got[v]
    BY <1>2
  <2>3. \A t \in S : row'[t].worker = w
    BY <1>4 DEF Holds
  <2>4. QED
    BY <1>4, <2>1, <2>2, <2>3
<1>9. QED
  BY <1>1, <1>4, <1>5, <1>6, <1>7, <1>8, SameJobsStay, Frame

(* The answer to a lease that is lost: rows are leased, nobody knows.      *)
LEMMA LostLease ==
  ASSUME IInv, NEW w \in Workers,
         UNCHANGED row \/ \E S \in Batches(w) : LeaseAll(w, S)
  PROVE  /\ row' \in [Tasks -> Row]
         /\ \A v \in Workers, t \in Tasks : LeftTo(v, t)
<1>1. CASE UNCHANGED row
  BY <1>1, Facts DEF LeftTo, Holds, Closed
<1>2. CASE \E S \in Batches(w) : LeaseAll(w, S)
  BY <1>2, Grants
<1>3. QED
  BY <1>1, <1>2

LEMMA LeaseFailsInv ==
  ASSUME IInv, NEW w \in Workers, LeaseFails(w)
  PROVE  IInv'
<1> USE Facts
<1>1. /\ main[w] = "lease" /\ Fault
      /\ UNCHANGED <<got, leased, job, active, shutting, running>>
      /\ UNCHANGED row \/ \E S \in Batches(w) : LeaseAll(w, S)
  BY DEF LeaseFails
<1>2. PICK to \in {"leave", "poll"} : main' = [main EXCEPT ![w] = to]
  BY DEF LeaseFails, Goes
<1>3. /\ row' \in [Tasks -> Row]
      /\ \A v \in Workers, t \in Tasks : LeftTo(v, t)
  BY <1>1, LostLease
<1>4. faults' \in 0 .. MaxFaults /\ faults' # 0 /\ (Calm' => Calm)
  BY <1>1, CalmBefore, FaultFacts
<1>5. TypeOK'
  BY <1>1, <1>2, <1>3, <1>4 DEF TypeOK, MainPC
<1>6. \A v \in Workers : /\ got'[v] # {} => main'[v] = "submit"
                         /\ main'[v] \in {"stopped", "dead"} => InFlight(v) = {}
  BY <1>1, <1>2
<1>7. ASSUME Calm'
      PROVE  /\ \A v \in Workers : main'[v] \notin {"stopped", "dead"} => running'[v]
             /\ \A v \in Workers : \A t \in got'[v] : Holds(v, t)'
             /\ \A u, v \in Workers : \A l \in InFlight(v) : TaskOf(v, l) \notin got'[u]
  <2>1. \A v \in Workers : \A t \in got[v] : Holds(v, t)' /\ t \in Tasks
    BY <1>3, <1>4, <1>7, FactsCalm DEF LeftTo
  <2>2. QED
    BY <1>1, <1>2, <1>4, <1>7, <2>1, FactsCalm
<1>8. QED
  BY <1>1, <1>3, <1>4, <1>5, <1>6, <1>7, SameJobsStay, Frame

LEMMA SigTermInv ==
  ASSUME IInv, NEW w \in Workers, SigTerm(w)
  PROVE  IInv'
<1> USE Facts
<1>1. /\ Fault /\ shutting' = [shutting EXCEPT ![w] = TRUE]
      /\ UNCHANGED <<row, main, got, leased, job, active, running>>
  BY DEF SigTerm, server
<1>2. faults' \in 0 .. MaxFaults /\ faults' # 0 /\ (Calm' => Calm)
  BY <1>1, CalmBefore, FaultFacts
<1>3. TypeOK'
  BY <1>1, <1>2 DEF TypeOK
<1>4. \A v \in Workers, t \in Tasks : LeftTo(v, t)
  BY <1>1 DEF LeftTo, Holds, Closed
<1>5. ASSUME Calm'
      PROVE  /\ \A v \in Workers : main'[v] \notin {"stopped", "dead"} => running'[v]
             /\ \A v \in Workers : \A t \in got'[v] : Holds(v, t)'
             /\ \A u, v \in Workers : \A l \in InFlight(v) : TaskOf(v, l) \notin got'[u]
  BY <1>1, <1>2, <1>5, FactsCalm DEF Holds
<1>6. QED
  BY <1>1, <1>2, <1>3, <1>4, <1>5, SameJobsStay, Frame

(* Only where SIGINT may not arrive is anything said of leases afterwards. *)
LEMMA SigIntInv ==
  ASSUME IInv, NEW w \in Workers, SigInt(w)
  PROVE  IInv'
<1> USE Facts
<1>1. /\ Interrupts /\ Fault
      /\ UNCHANGED <<leased, job, active>>
      /\ UNCHANGED row \/ \E S \in Batches(w) : LeaseAll(w, S)
      /\ shutting' = [shutting EXCEPT ![w] = TRUE]
      /\ running' = [running EXCEPT ![w] = FALSE]
      /\ got' = [got EXCEPT ![w] = {}]
      /\ main' = [main EXCEPT ![w] = "leave"]
  BY DEF SigInt, Goes
<1>2. row' \in [Tasks -> Row]
  BY <1>1, LostLease
<1>3. faults' \in 0 .. MaxFaults /\ faults' # 0 /\ ~Calm'
  BY <1>1, CalmBefore, FaultFacts DEF Calm
<1>4. TypeOK'
  BY <1>1, <1>2, <1>3 DEF TypeOK, MainPC
<1>5. \A v \in Workers : /\ got'[v] # {} => main'[v] = "submit"
                         /\ main'[v] \in {"stopped", "dead"} => InFlight(v) = {}
  BY <1>1
<1>6. QED
  BY <1>1, <1>3, <1>4, <1>5, SameJobsStay, Frame

LEMMA LeaveInv ==
  ASSUME IInv, NEW w \in Workers, Leave(w)
  PROVE  IInv'
<1> USE Facts
<1>1. /\ main[w] = "leave" /\ InFlight(w) = {}
      /\ main' = [main EXCEPT ![w] = "stopped"]
      /\ running' = [running EXCEPT ![w] = FALSE]
      /\ job' = [job EXCEPT ![w] = [k \in Threads |-> NoJob]]
      /\ UNCHANGED <<row, got, leased, active, shutting, faults>>
  BY DEF Leave, Goes, server
<1>2. NoJob \in Job /\ NoJob.at = "none"
  BY DEF NoJob, Job, Stage
<1>3. SameJobs
  BY <1>1, <1>2 DEF SameJobs, InFlight
<1>4. TypeOK'
  BY <1>1, <1>2 DEF TypeOK, MainPC
<1>5. \A v \in Workers : /\ got'[v] # {} => main'[v] = "submit"
                         /\ main'[v] \in {"stopped", "dead"} => InFlight(v) = {}
  BY <1>1
<1>6. \A v \in Workers, t \in Tasks : LeftTo(v, t)
  BY <1>1 DEF LeftTo, Holds, Closed
<1>7. ASSUME Calm'
      PROVE  /\ \A v \in Workers : main'[v] \notin {"stopped", "dead"} => running'[v]
             /\ \A v \in Workers : \A t \in got'[v] : Holds(v, t)'
             /\ \A u, v \in Workers : \A l \in InFlight(v) : TaskOf(v, l) \notin got'[u]
  BY <1>1, <1>7, FactsCalm DEF Calm, Holds
<1>8. QED
  BY <1>1, <1>3, <1>4, <1>5, <1>6, <1>7, Frame DEF IInv, Reported

LEMMA HeartbeatInv ==
  ASSUME IInv, NEW w \in Workers, NEW t \in Tasks, Heartbeat(w, t)
  PROVE  IInv'
<1> USE Facts
<1>1. /\ Put(t, RenewRow(row[t]))
      /\ UNCHANGED <<main, got, leased, job, active, shutting, running, faults>>
  BY DEF Heartbeat, worker
<1>2. /\ RenewRow(row[t]) \in Row /\ RenewRow(row[t]).expiry = "live"
      /\ RenewRow(row[t]).status = row[t].status
      /\ RenewRow(row[t]).worker = row[t].worker
  BY RenewRowType DEF RenewRow, Row
<1>3. /\ row' \in [Tasks -> Row] /\ row'[t] = RenewRow(row[t])
      /\ \A u \in Tasks : u # t => row'[u] = row[u]
  BY <1>1, <1>2, PutFacts
<1>4. TypeOK'
  BY <1>1, <1>3 DEF TypeOK
<1>5. \A v \in Workers, u \in Tasks : LeftTo(v, u)
  BY <1>2, <1>3 DEF LeftTo, Holds, Closed
<1>6. ASSUME Calm'
      PROVE  /\ \A v \in Workers : main'[v] \notin {"stopped", "dead"} => running'[v]
             /\ \A v \in Workers : \A u \in got'[v] : Holds(v, u)'
             /\ \A u, v \in Workers : \A l \in InFlight(v) : TaskOf(v, l) \notin got'[u]
  <2>1. Calm
    BY <1>1, <1>6 DEF Calm
  <2>2. \A v \in Workers : \A u \in got[v] : Holds(v, u)' /\ u \in Tasks
    BY <1>5, <2>1, FactsCalm DEF LeftTo
  <2>3. QED
    BY <1>1, <2>1, <2>2, FactsCalm
<1>7. faults' = 0 => \A v \in Workers, u \in Tasks :
        row'[u].status = "leased" /\ row'[u].worker = v =>
          \/ u \in got'[v]
          \/ row[u].status = "leased" /\ row[u].worker = v /\ u \notin got[v]
  BY <1>1, <1>2, <1>3
<1>8. QED
  BY <1>1, <1>4, <1>5, <1>6, <1>7, SameJobsStay, Frame

(* A lease that runs out. *)
LEMMA LapsingFacts ==
  ASSUME IInv, NEW t \in Tasks, Lapsing(t)
  PROVE  /\ row' \in [Tasks -> Row]
         /\ row'[t].status = "leased" /\ row'[t].worker = row[t].worker
         /\ \A u \in Tasks : u # t => row'[u] = row[u]
         /\ row[t].status = "leased" /\ row[t].expiry = "live"
<1>0. row[t] \in Row
  BY Facts
<1>1. [row[t] EXCEPT !.expiry = "expired"] \in Row
  BY <1>0 DEF Row, Expiry
<1>2. row[t] \in Row /\ Put(t, [row[t] EXCEPT !.expiry = "expired"])
  BY Facts DEF Lapsing
<1>3. QED
  BY <1>1, <1>2, PutFacts DEF Row, Lapsing

(* While no worker is without heartbeats, what somebody claims is renewed. *)
LEMMA ClaimsRenewed ==
  ASSUME IInv, Calm, NEW v \in Workers, NEW t \in Tasks, Claims(v, t), Holds(v, t)
  PROVE  Renewed(t)
<1>1. CASE t \in got[v]
  BY <1>1 DEF Renewed, Fresh, Holds
<1>2. ASSUME NEW l \in InFlight(v), TaskOf(v, l) = t
      PROVE  Renewed(t)
  <2>1. l \in Threads
    BY DEF InFlight
  <2>2. running[v]
    BY <2>1, Facts, FactsCalm
  <2>3. job[v][l].at # "submitted" => t \in active[v]
    BY <1>2, <2>1 DEF IInv, Leases
  <2>4. Fresh(v, t) \/ (running[v] /\ t \in active[v])
    BY <1>2, <2>1, <2>2, <2>3 DEF Fresh, JobAt
  <2>5. QED
    BY <2>4 DEF Renewed, Holds
<1>3. QED
  BY <1>1, <1>2 DEF Claims

LEMMA LapseInv ==
  ASSUME IInv, NEW t \in Tasks, Lapse(t) \/ LapseAnyway(t)
  PROVE  IInv'
<1> USE Facts
<1>1. /\ Lapsing(t)
      /\ UNCHANGED <<main, got, leased, job, active, shutting, running>>
      /\ (~Renewed(t) /\ UNCHANGED faults) \/ (Lossy /\ Fault)
  BY DEF Lapse, LapseAnyway, Lapsing, worker
<1>2. /\ row' \in [Tasks -> Row]
      /\ row'[t].status = "leased" /\ row'[t].worker = row[t].worker
      /\ \A u \in Tasks : u # t => row'[u] = row[u]
      /\ row[t].status = "leased" /\ row[t].expiry = "live"
  BY <1>1, LapsingFacts
<1>3. /\ faults' \in 0 .. MaxFaults
      /\ Calm' => Calm
      /\ faults' = 0 => UNCHANGED faults
      /\ Calm' => ~Renewed(t)
  BY <1>1, CalmBefore, FaultFacts DEF Calm
<1>4. TypeOK'
  BY <1>1, <1>2, <1>3 DEF TypeOK
<1>5. Calm' => \A v \in Workers, u \in Tasks : Claims(v, u) => LeftTo(v, u)
  <2>1. \A v \in Workers, u \in Tasks : u # t => LeftTo(v, u)
    BY <1>2 DEF LeftTo, Holds, Closed
  <2>2. \A v \in Workers : ~Closed(v, t)
    BY <1>2 DEF Closed
  <2>3. Calm' => \A v \in Workers : Claims(v, t) => ~Holds(v, t)
    BY <1>3, ClaimsRenewed
  <2>4. QED
    BY <2>1, <2>2, <2>3 DEF LeftTo
<1>6. ASSUME Calm'
      PROVE  /\ \A v \in Workers : main'[v] \notin {"stopped", "dead"} => running'[v]
             /\ \A v \in Workers : \A u \in got'[v] : Holds(v, u)'
             /\ \A u, v \in Workers : \A l \in InFlight(v) : TaskOf(v, l) \notin got'[u]
  <2>1. \A v \in Workers : \A u \in got[v] : Holds(v, u)' /\ u \in Tasks
    BY <1>3, <1>5, <1>6, FactsCalm DEF LeftTo, Claims
  <2>2. QED
    BY <1>1, <1>3, <1>6, <2>1, FactsCalm
<1>7. faults' = 0 => \A v \in Workers, u \in Tasks :
        row'[u].status = "leased" /\ row'[u].worker = v =>
          \/ u \in got'[v]
          \/ row[u].status = "leased" /\ row[u].worker = v /\ u \notin got[v]
  BY <1>1, <1>2
<1>8. UNCHANGED faults \/ Fault
  BY <1>1
<1>9. QED
  BY <1>1, <1>3, <1>4, <1>5, <1>6, <1>7, <1>8, SameJobsStay, Frame

----------------------------------------------------------------------------
(* A worker that dies has no jobs, and its rows are claimed by nobody.     *)

LEMMA KillInv ==
  ASSUME IInv, NEW w \in Workers, NEW to \in {"dead", "poll"}, Kill(w, to),
         running' = [running EXCEPT ![w] = (to = "poll")],
         \/ Fault
         \/ UNCHANGED faults /\ main[w] \in {"stopped", "dead"}
  PROVE  IInv'
<1> USE Facts
<1>1. /\ main' = [main EXCEPT ![w] = to]
      /\ got' = [got EXCEPT ![w] = {}]
      /\ leased' = [leased EXCEPT ![w] = FALSE]
      /\ job' = [job EXCEPT ![w] = [k \in Threads |-> NoJob]]
      /\ active' = [active EXCEPT ![w] = {}]
      /\ shutting' = [shutting EXCEPT ![w] = FALSE]
      /\ row' = row
  BY DEF Kill
<1>2. /\ faults' \in 0 .. MaxFaults /\ (Calm' => Calm)
      /\ faults' = 0 => faults = 0 /\ main[w] \in {"stopped", "dead"}
  BY CalmBefore, FaultFacts
<1>3. NoJob \in Job /\ NoJob.at = "none"
  BY DEF NoJob, Job, Stage
<1>4. /\ \A v \in Workers : v # w => InFlight(v)' = InFlight(v)
      /\ \A v \in Workers : v # w => job'[v] = job[v]
      /\ InFlight(w)' = {}
  BY <1>1, <1>3 DEF InFlight
<1>5. TypeOK'
  BY <1>1, <1>2, <1>3 DEF TypeOK, MainPC
<1>6. \A v \in Workers, k \in Threads : k \in InFlight(v)' =>
        /\ v # w /\ k \in InFlight(v)
        /\ job'[v][k] = job[v][k] /\ TaskOf(v, k)' = TaskOf(v, k)
  BY <1>4 DEF TaskOf
<1>7. Shape'
  <2>1. \A v \in Workers : got'[v] # {} => main'[v] = "submit"
    BY <1>1
  <2>2. \A v \in Workers : main'[v] \in {"stopped", "dead"} => InFlight(v)' = {}
    BY <1>1, <1>4
  <2>3. \A v \in Workers, k \in Threads : k \in InFlight(v)' => TaskOf(v, k)' \in Tasks
    BY <1>6 DEF Shape
  <2>4. faults' = 0 => \A v \in Workers : ~shutting'[v]
    BY <1>1, <1>2
  <2>5. QED
    BY <2>1, <2>2, <2>3, <2>4 DEF Shape
<1>8. ASSUME Calm'
      PROVE  Leases'
  <2>1. Leases
    BY <1>2, <1>8 DEF IInv
  <2>2. \A v \in Workers : main'[v] \notin {"stopped", "dead"} => running'[v]
    BY <1>1, <2>1 DEF Leases
  <2>3. \A v \in Workers : \A t \in got'[v] : Holds(v, t)'
    BY <1>1, <2>1 DEF Leases, Holds
  <2>4. \A v \in Workers, k \in Threads : k \in InFlight(v)' =>
          \/ Holds(v, TaskOf(v, k))'
          \/ job'[v][k].at \in Failing /\ Closed(v, TaskOf(v, k))'
    BY <1>1, <1>6, <2>1 DEF Leases, Holds, Closed
  <2>5. \A v \in Workers, k \in Threads :
          k \in InFlight(v)' /\ job'[v][k].at # "submitted" => TaskOf(v, k)' \in active'[v]
    BY <1>1, <1>6, <2>1 DEF Leases
  <2>6. \A u, v \in Workers, k, l \in Threads :
          k \in InFlight(u)' /\ l \in InFlight(v)' /\ TaskOf(u, k)' = TaskOf(v, l)'
            => u = v /\ k = l
    BY <1>6, <2>1 DEF Leases
  <2>7. \A u, v \in Workers, k \in Threads :
          k \in InFlight(u)' => TaskOf(u, k)' \notin got'[v]
    BY <1>1, <1>6, <2>1 DEF Leases
  <2>8. QED
    BY <2>2, <2>3, <2>4, <2>5, <2>6, <2>7 DEF Leases
<1>9. ASSUME faults' = 0
      PROVE  Reported'
  <2>1. Reported /\ got[w] = {} /\ InFlight(w) = {}
    BY <1>2, <1>9 DEF IInv
  <2>2. ASSUME NEW v \in Workers, NEW t \in Tasks,
               row'[t].status = "leased", row'[t].worker = v
        PROVE  t \in got'[v] \/ \E k \in InFlight(v)' : TaskOf(v, k)' = t
    <3>1. t \in got[v] \/ \E k \in InFlight(v) : TaskOf(v, k) = t
      BY <1>1, <2>1, <2>2 DEF Reported
    <3>2. v # w
      BY <2>1, <3>1
    <3>3. QED
      BY <1>1, <1>4, <3>1, <3>2 DEF TaskOf
  <2>3. QED
    BY <2>2 DEF Reported
<1>10. QED
  BY <1>5, <1>7, <1>8, <1>9 DEF IInv

LEMMA CrashInv ==
  ASSUME IInv, NEW w \in Workers, Crash(w) \/ Restart(w)
  PROVE  IInv'
<1>1. CASE Crash(w)
  <2>1. Kill(w, "dead") /\ Fault /\ running' = [running EXCEPT ![w] = ("dead" = "poll")]
    BY <1>1 DEF Crash
  <2>2. QED
    BY <2>1, KillInv
<1>2. CASE Restart(w)
  <2>1. /\ Kill(w, "poll") /\ running' = [running EXCEPT ![w] = ("poll" = "poll")]
        /\ UNCHANGED faults /\ main[w] \in {"stopped", "dead"}
    BY <1>2 DEF Restart
  <2>2. QED
    BY <2>1, KillInv
<1>3. QED
  BY <1>1, <1>2

----------------------------------------------------------------------------
(* A task that was leased goes to a thread. *)

LEMMA SubmitNone ==
  ASSUME IInv, NEW w \in Workers, main[w] = "submit", got[w] = {} \/ shutting[w],
         got' = [got EXCEPT ![w] = {}], Goes(w, "poll"),
         UNCHANGED <<row, job, leased, active, shutting, running, faults>>
  PROVE  IInv'
<1> USE Facts
<1>1. main' = [main EXCEPT ![w] = "poll"]
  BY DEF Goes
<1>2. TypeOK'
  BY <1>1 DEF TypeOK, MainPC
<1>3. \A v \in Workers : got'[v] # {} => main'[v] = "submit"
  BY <1>1
<1>4. \A v \in Workers : main'[v] \in {"stopped", "dead"} => InFlight(v) = {}
  BY <1>1
<1>5. \A v \in Workers, t \in Tasks : LeftTo(v, t)
  BY DEF LeftTo, Holds, Closed
<1>6. ASSUME Calm'
      PROVE  /\ \A v \in Workers : main'[v] \notin {"stopped", "dead"} => running'[v]
             /\ \A v \in Workers : \A t \in got'[v] : Holds(v, t)'
             /\ \A u, v \in Workers : \A l \in InFlight(v) : TaskOf(v, l) \notin got'[u]
  <2>1. Calm
    BY <1>6 DEF Calm
  <2>2. QED
    BY <1>1, <2>1, FactsCalm DEF Holds
<1>7. faults' = 0 => got' = got
  BY Facts
<1>8. QED
  BY <1>2, <1>3, <1>4, <1>5, <1>6, <1>7, SameJobsStay, Frame DEF IInv, Reported

LEMMA SubmitOne ==
  ASSUME IInv, NEW w \in Workers, main[w] = "submit", NEW t \in got[w],
         NEW k \in Threads, JobAt(w, k, "none"),
         got' = [got EXCEPT ![w] = @ \ {t}],
         job' = [job EXCEPT ![w][k] = [task |-> t, at |-> "submitted"]],
         UNCHANGED <<row, main, leased, active, shutting, running, faults>>
  PROVE  IInv'
<1> USE Facts
<1>1. t \in Tasks /\ [task |-> t, at |-> "submitted"] \in Job
  BY DEF Job, Stage
<1>2. /\ TaskOf(w, k)' = t /\ job'[w][k].at = "submitted"
      /\ \A v \in Workers, l \in Threads : v # w \/ l # k =>
           job'[v][l] = job[v][l] /\ TaskOf(v, l)' = TaskOf(v, l)
      /\ job' \in [Workers -> [Threads -> Job]]
  BY <1>1 DEF TaskOf
<1>3. \A v \in Workers, l \in Threads :
        /\ l \in InFlight(v)' <=> l \in InFlight(v) \/ (v = w /\ l = k)
        /\ l \in InFlight(v) => ~(v = w /\ l = k)
  BY <1>2 DEF InFlight, JobAt
<1>4. /\ \A v \in Workers : v # w => got'[v] = got[v]
      /\ got'[w] = got[w] \ {t}
      /\ got' \in [Workers -> SUBSET Tasks]
  BY <1>1
<1>5. TypeOK'
  BY <1>2, <1>4 DEF TypeOK
<1>6. Shape'
  <2>1. \A v \in Workers : got'[v] # {} => main'[v] = "submit"
    BY <1>4
  <2>2. \A v \in Workers : main'[v] \in {"stopped", "dead"} => InFlight(v)' = {}
    <3>1. \A v \in Workers : v # w => InFlight(v)' = InFlight(v)
      BY <1>2 DEF InFlight
    <3>2. QED
      BY <3>1
  <2>3. \A v \in Workers, l \in Threads : l \in InFlight(v)' => TaskOf(v, l)' \in Tasks
    BY <1>1, <1>2, <1>3 DEF Shape
  <2>4. QED
    BY <2>1, <2>2, <2>3 DEF Shape
<1>7. ASSUME Calm'
      PROVE  Leases'
  <2>1. Leases
    BY <1>7 DEF Calm, IInv
  <2>2. \A v \in Workers, u \in Tasks : Holds(v, u)' <=> Holds(v, u)
    BY DEF Holds
  <2>3. \A v \in Workers : t \in got[v] => v = w
    BY <2>1 DEF Leases, Holds
  <2>4. \A v \in Workers, l \in Threads : l \in InFlight(v) => TaskOf(v, l) # t
    BY <2>1 DEF Leases
  <2>5. \A v \in Workers : main'[v] \notin {"stopped", "dead"} => running'[v]
    BY <2>1 DEF Leases
  <2>6. \A v \in Workers : \A u \in got'[v] : Holds(v, u)'
    BY <1>4, <2>1 DEF Leases, Holds
  <2>7. \A v \in Workers, l \in Threads : l \in InFlight(v)' =>
          \/ Holds(v, TaskOf(v, l))'
          \/ job'[v][l].at \in Failing /\ Closed(v, TaskOf(v, l))'
    BY <1>2, <1>3, <2>1 DEF Leases, Holds, Closed
  <2>8. \A v \in Workers, l \in Threads :
          l \in InFlight(v)' /\ job'[v][l].at # "submitted" => TaskOf(v, l)' \in active'[v]
    BY <1>2, <1>3, <2>1 DEF Leases
  <2>9. \A u, v \in Workers, i, l \in Threads :
          i \in InFlight(u)' /\ l \in InFlight(v)' /\ TaskOf(u, i)' = TaskOf(v, l)'
            => u = v /\ i = l
    BY <1>2, <1>3, <2>1, <2>4 DEF Leases
  <2>10. \A u, v \in Workers, l \in Threads :
          l \in InFlight(u)' => TaskOf(u, l)' \notin got'[v]
    <3>1. \A v \in Workers : t \notin got'[v] /\ got'[v] \subseteq got[v]
      BY <1>4, <2>3
    <3>2. \A u, v \in Workers, l \in Threads : l \in InFlight(u) => TaskOf(u, l) \notin got[v]
      BY <2>1 DEF Leases
    <3>3. QED
      BY <1>2, <1>3, <3>1, <3>2
  <2>11. QED
    BY <2>5, <2>6, <2>7, <2>8, <2>9, <2>10 DEF Leases
<1>8. ASSUME faults' = 0
      PROVE  Reported'
  <2>1. ASSUME NEW v \in Workers, NEW u \in Tasks,
               row'[u].status = "leased", row'[u].worker = v
        PROVE  u \in got'[v] \/ \E l \in InFlight(v)' : TaskOf(v, l)' = u
    <3>1. u \in got[v] \/ \E l \in InFlight(v) : TaskOf(v, l) = u
      BY <1>8, <2>1 DEF IInv, Reported
    <3>2. ASSUME NEW l \in InFlight(v), TaskOf(v, l) = u
          PROVE  \E i \in InFlight(v)' : TaskOf(v, i)' = u
      <4>1. l \in Threads
        BY DEF InFlight
      <4>2. QED
        BY <1>2, <1>3, <3>2, <4>1
    <3>3. CASE u \in got[v] /\ v = w /\ u = t
      BY <1>2, <1>3, <3>3
    <3>4. CASE u \in got[v] /\ (v # w \/ u # t)
      BY <1>4, <3>4
    <3>5. QED
      BY <3>1, <3>2, <3>3, <3>4
  <2>2. QED
    BY <2>1 DEF Reported
<1>9. QED
  BY <1>5, <1>6, <1>7, <1>8 DEF IInv

LEMMA SubmitInv ==
  ASSUME IInv, NEW w \in Workers, Submit(w)
  PROVE  IInv'
BY SubmitNone, SubmitOne DEF Submit, server

----------------------------------------------------------------------------
LEMMA NextInv ==
  ASSUME IInv, [Next]_vars
  PROVE  IInv'
<1>1. CASE UNCHANGED vars
  <2>1. UNCHANGED <<row, main, got, leased, job, active, shutting, running, faults>>
    BY <1>1 DEF vars, worker
  <2>2. TypeOK' <=> TypeOK
    BY <2>1 DEF TypeOK
  <2>3. SameJobs
    BY <2>1, SameJobsStay
  <2>4. \A v \in Workers, t \in Tasks : LeftTo(v, t)
    BY <2>1 DEF LeftTo, Holds, Closed
  <2>5. ASSUME Calm'
        PROVE  \A v \in Workers : \A t \in got'[v] : Holds(v, t)'
    <3>1. Calm
      BY <2>1, <2>5 DEF Calm
    <3>2. QED
      BY <2>1, <3>1, FactsCalm DEF Holds
  <2>6. Calm' => Calm
    BY <2>1 DEF Calm
  <2>7. QED
    BY <2>1, <2>2, <2>3, <2>4, <2>5, <2>6, Facts, FactsCalm, Frame DEF IInv, Reported
<1>2. ASSUME NEW w \in Workers, MainStep(w)
      PROVE  IInv'
  BY <1>2, PollInv, LeaseInv, LeaseFailsInv, SubmitInv, LeaveInv DEF MainStep
<1>3. ASSUME NEW w \in Workers, NEW k \in Threads, JobStep(w, k)
      PROVE  IInv'
  BY <1>3, JobStepInv
<1>4. ASSUME NEW w \in Workers, SigTerm(w) \/ SigInt(w) \/ Crash(w) \/ Restart(w)
      PROVE  IInv'
  BY <1>4, SigTermInv, SigIntInv, CrashInv
<1>5. ASSUME NEW w \in Workers, NEW t \in Tasks, Heartbeat(w, t)
      PROVE  IInv'
  BY <1>5, HeartbeatInv
<1>6. ASSUME NEW t \in Tasks, Lapse(t) \/ LapseAnyway(t)
      PROVE  IInv'
  BY <1>6, LapseInv
<1>7. QED
  BY <1>1, <1>2, <1>3, <1>4, <1>5, <1>6 DEF Next

THEOREM Inductive == Spec => []IInv
<1>1. Init => IInv
  BY InitInv
<1>2. IInv /\ [Next]_vars => IInv'
  BY NextInv
<1>3. QED
  BY <1>1, <1>2, PTL DEF Spec

(* The state of every worker and of every row stays within its types. *)
THEOREM TypeCorrect == Spec => []TypeOK
<1>1. IInv => TypeOK
  BY DEF IInv
<1>2. QED
  BY <1>1, Inductive, PTL

(* A worker that has stopped by itself leaves no leased row behind, as     *)
(* long as nothing has gone wrong anywhere in the fleet: run() waits for   *)
(* every job before it returns (worker.py:628), whatever --once, the batch *)
(* size and the number of threads are.                                     *)
THEOREM OnceIsEnough == Spec => []OnceReports
<1>1. IInv => OnceReports
  <2> SUFFICES ASSUME IInv, faults = 0, NEW w \in Workers, main[w] = "stopped",
                      NEW t \in Tasks, row[t].status = "leased", row[t].worker = w
               PROVE  FALSE
    BY DEF OnceReports
  <2>1. got[w] = {} /\ InFlight(w) = {}
    BY Facts
  <2>2. QED
    BY <2>1 DEF IInv, Reported
<1>2. QED
  BY <1>1, Inductive, PTL

LEMMA DoingInFlight ==
  ASSUME NEW w \in Workers, NEW k \in Threads, Doing(w, k)
  PROVE  k \in InFlight(w) /\ job[w][k].at \notin Failing
BY DEF Doing, InFlight, Failing

(* The lease of a task in progress does not run out and goes to nobody     *)
(* else, through crashes, restarts, SIGTERM and lost answers: a worker     *)
(* that still has jobs still sends heartbeats.  After a SIGINT it does     *)
(* not (worker.py:616), hence the first assumption.                        *)
THEOREM LeaseHeld ==
  ASSUME ~Interrupts, ~Lossy
  PROVE  Spec => []LeaseCovers
<1>1. IInv => LeaseCovers
  <2> SUFFICES ASSUME IInv, NEW w \in Workers, NEW k \in Threads, Doing(w, k)
               PROVE  Granted(w, TaskOf(w, k)) /\ row[TaskOf(w, k)].expiry = "live"
    BY DEF LeaseCovers
  <2>1. Calm
    BY DEF Calm
  <2>2. Holds(w, TaskOf(w, k))
    BY <2>1, DoingInFlight DEF IInv, Leases
  <2>3. QED
    BY <2>2 DEF Holds, Granted
<1>2. QED
  BY <1>1, Inductive, PTL

(* No task is worked on by two jobs, in one worker or in two. *)
THEOREM OneJobPerTask ==
  ASSUME ~Interrupts, ~Lossy
  PROVE  Spec => []NoDoubleWork
<1>1. IInv => NoDoubleWork
  <2> SUFFICES ASSUME IInv, NEW v \in Workers, NEW w \in Workers,
                      NEW k \in Threads, NEW l \in Threads,
                      Doing(v, k), Doing(w, l), TaskOf(v, k) = TaskOf(w, l)
               PROVE  v = w /\ k = l
    BY DEF NoDoubleWork
  <2>1. Leases
    BY DEF Calm, IInv
  <2>2. QED
    BY <2>1, DoingInFlight DEF Leases
<1>2. QED
  BY <1>1, Inductive, PTL
=============================================================================
