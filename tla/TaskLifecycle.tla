--------------------------- MODULE TaskLifecycle ---------------------------
(***************************************************************************)
(* What the task API promises about one row of the table, with every       *)
(* request atomic: a task waits, is held by one worker under a lease that  *)
(* may run out, and is done or dead.  Done is final; a lease is never      *)
(* given away while it runs; a grant costs an attempt and only the         *)
(* operator gives attempts back.                                           *)
(***************************************************************************)
EXTENDS Naturals

CONSTANTS Tasks, Workers, NoWorker, MaxAttempts

VARIABLES life,      \* waiting, held, done, dead
          holder,    \* the worker of a held task
          lapsed,    \* the lease of a held task has run out
          attempts   \* grants since the row was created or last reset

lifeVars == <<life, holder, lapsed, attempts>>

Init ==
  /\ life = [t \in Tasks |-> "waiting"]
  /\ holder = [t \in Tasks |-> NoWorker]
  /\ lapsed = [t \in Tasks |-> FALSE]
  /\ attempts = [t \in Tasks |-> 0]

Leave(t, to) ==
  /\ life' = [life EXCEPT ![t] = to]
  /\ holder' = [holder EXCEPT ![t] = NoWorker]
  /\ lapsed' = [lapsed EXCEPT ![t] = FALSE]

Grant(t, w) ==
  /\ life[t] = "waiting" \/ lapsed[t]
  /\ attempts[t] < MaxAttempts
  /\ life' = [life EXCEPT ![t] = "held"]
  /\ holder' = [holder EXCEPT ![t] = w]
  /\ lapsed' = [lapsed EXCEPT ![t] = FALSE]
  /\ attempts' = [attempts EXCEPT ![t] = @ + 1]

Renew(t) ==
  /\ life[t] = "held"
  /\ lapsed' = [lapsed EXCEPT ![t] = FALSE]
  /\ UNCHANGED <<life, holder, attempts>>

Lapse(t) ==
  /\ life[t] = "held"
  /\ lapsed' = [lapsed EXCEPT ![t] = TRUE]
  /\ UNCHANGED <<life, holder, attempts>>

Finish(t) == life[t] = "held" /\ Leave(t, "done") /\ UNCHANGED attempts

GiveBack(t) ==
  /\ life[t] = "held"
  /\ \/ attempts[t] < MaxAttempts /\ Leave(t, "waiting")
     \/ Leave(t, "dead")
  /\ UNCHANGED attempts

(* The operator, or a start with --requeue-failed-on-startup: several      *)
(* tasks at once.                                                          *)
Requeue(S) ==
  /\ \A t \in S : life[t] # "done"
  /\ life' = [t \in Tasks |-> IF t \in S THEN "waiting" ELSE life[t]]
  /\ holder' = [t \in Tasks |-> IF t \in S THEN NoWorker ELSE holder[t]]
  /\ lapsed' = [t \in Tasks |-> t \notin S /\ lapsed[t]]
  /\ \/ UNCHANGED attempts
     \/ attempts' = [t \in Tasks |-> IF t \in S THEN 0 ELSE attempts[t]]

Next ==
  \/ \E t \in Tasks :
       \/ \E w \in Workers : Grant(t, w)
       \/ Renew(t) \/ Lapse(t) \/ Finish(t) \/ GiveBack(t)
  \/ \E S \in SUBSET Tasks : Requeue(S)

Spec == Init /\ [][Next]_lifeVars
============================================================================
