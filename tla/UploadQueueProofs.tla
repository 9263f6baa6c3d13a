------------------------- MODULE UploadQueueProofs -------------------------
(***************************************************************************)
(* The slots of the upload queue, for any finite set of items and any      *)
(* number of jobs, upload jobs and retries.                                *)
(***************************************************************************)
EXTENDS UploadQueue, FiniteSetTheorems, TLAPS

(* The number of jobs, and with it the run loop, is that of the start. *)
JobsKept == jobs \in Jobs /\ jobs' = jobs /\ Serial' = Serial

USE DEF JobsKept

(* The sets that are counted are finite. *)
LEMMA Finite ==
  /\ \A P : IsFiniteSet(In(P)) /\ Cardinality(In(P)) \in Nat
  /\ IsFiniteSet(Holders) /\ Cardinality(Holders) \in Nat
  /\ IsFiniteSet(Proc) /\ Cardinality(Proc) \in Nat
  /\ IsFiniteSet(Futs) /\ Cardinality(Futs) \in Nat
  /\ \A T \in SUBSET Items : IsFiniteSet(T) /\ Cardinality(T) \in Nat
<1>1. \A T \in SUBSET Items : IsFiniteSet(T) /\ Cardinality(T) \in Nat
  BY FS_Subset, FS_CardinalityType, UploadQueueAssumption
<1>2. \A P : In(P) \in SUBSET Items
  BY DEF In
<1>3. Holders \in SUBSET Items
  BY <1>2 DEF Holders
<1>4. QED
  BY <1>1, <1>2, <1>3 DEF Proc, Futs

(* The numbers of the configuration. *)
LEMMA Numbers ==
  /\ MaxSlots \in Nat /\ MaxSlots > 0
  /\ Jobs \subseteq Nat \ {0}
  /\ Serial \in BOOLEAN /\ (Serial <=> jobs = 1)
BY UploadQueueAssumption DEF MaxSlots, Serial

(* How many items Taken takes. *)
LEMMA TakenSize ==
  ASSUME NEW T \in SUBSET Items, NEW n \in Nat, Taken(T, n)
  PROVE  /\ T \subseteq In({"queued"})
         /\ IsFiniteSet(T)
         /\ Cardinality(T) \in Nat
         /\ Cardinality(T) <= n
         /\ n = 0 => T = {}
<1>1. IsFiniteSet(T) /\ Cardinality(T) \in Nat
  BY Finite
<1>2. T \subseteq In({"queued"}) /\ Cardinality(T) <= n
  BY <1>1 DEF Taken
<1>3. n = 0 => T = {}
  BY <1>1, <1>2, FS_EmptySet
<1>4. QED
  BY <1>1, <1>2, <1>3

----------------------------------------------------------------------------
(* Each step moves one slot or a set of slots, or leaves them alone. *)

LEMMA SlotKept ==
  ASSUME SlotsConserved, slots' = slots, Holders' = Holders
  PROVE  SlotsConserved'
BY DEF SlotsConserved, MaxSlots

LEMMA SlotTaken ==
  ASSUME TypeOK, SlotsConserved, NEW i \in Items, i \notin Holders,
         slots > 0, slots' = slots - 1, Holders' = Holders \cup {i}
  PROVE  SlotsConserved' /\ slots' \in 0 .. MaxSlots
<1>1. Cardinality(Holders \cup {i}) = Cardinality(Holders) + 1
  BY Finite, FS_AddElement
<1>2. Cardinality(Holders') = Cardinality(Holders) + 1
  BY <1>1
<1>3. QED
  BY <1>2, Finite, Numbers DEF SlotsConserved, TypeOK, MaxSlots

LEMMA SlotFreed ==
  ASSUME TypeOK, SlotsConserved, NEW i \in Items, i \in Holders,
         slots' = slots + 1, Holders' = Holders \ {i}
  PROVE  SlotsConserved' /\ slots' \in 0 .. MaxSlots
<1>1. Cardinality(Holders \ {i}) = Cardinality(Holders) - 1
  BY Finite, FS_RemoveElement
<1>2. IsFiniteSet(Holders \ {i}) /\ Cardinality(Holders \ {i}) \in Nat
  BY Finite, FS_RemoveElement, FS_CardinalityType
<1>3. Cardinality(Holders') = Cardinality(Holders) - 1
      /\ Cardinality(Holders') \in Nat
  BY <1>1, <1>2
<1>4. QED
  BY <1>3, Finite, Numbers DEF SlotsConserved, TypeOK, MaxSlots

LEMMA SlotsFreed ==
  ASSUME TypeOK, SlotsConserved, NEW D \in SUBSET Items, D \subseteq Holders,
         slots' = slots + Cardinality(D), Holders' = Holders \ D
  PROVE  SlotsConserved' /\ slots' \in 0 .. MaxSlots
<1> DEFINE R == Holders \ D
<1>1. R \in SUBSET Items
  BY DEF Holders, In
<1>2. IsFiniteSet(R) /\ IsFiniteSet(D)
      /\ Cardinality(R) \in Nat /\ Cardinality(D) \in Nat
  BY <1>1, Finite
<1>3. R \cap D = {} /\ R \cup D = Holders
  OBVIOUS
<1>4. Cardinality(R \cup D) =
        Cardinality(R) + Cardinality(D) - Cardinality(R \cap D)
  BY <1>2, FS_Union
<1>5. Cardinality(Holders) = Cardinality(R) + Cardinality(D)
  <2>1. Cardinality(R \cap D) = 0 /\ Cardinality(R \cup D) = Cardinality(Holders)
    BY <1>3, FS_EmptySet
  <2>2. Cardinality(Holders) = Cardinality(R) + Cardinality(D) - 0
    BY <1>4, <2>1
  <2> HIDE DEF R
  <2>3. QED
    BY <1>2, <2>2
<1>6. Cardinality(Holders') = Cardinality(R)
  OBVIOUS
<1>7. QED
  BY <1>2, <1>5, <1>6, Finite, Numbers DEF SlotsConserved, TypeOK, MaxSlots

(* Jobs go away, one is replaced by at most one, or new ones fit. *)
LEMMA JobsFewer ==
  ASSUME JobsKept, JobsBounded, Proc' \subseteq Proc
  PROVE  JobsBounded'
<1>1. Cardinality(Proc') <= Cardinality(Proc) /\ Cardinality(Proc') \in Nat
  BY Finite, FS_Subset, FS_CardinalityType
<1>2. QED
  BY <1>1, Finite, Numbers DEF JobsBounded

LEMMA JobsAdded ==
  ASSUME JobsKept, NEW A \in SUBSET Items, NEW T \in SUBSET Items,
         Cardinality(A) + Cardinality(T) <= jobs, Proc' \subseteq A \cup T
  PROVE  JobsBounded'
<1>1. /\ IsFiniteSet(A) /\ Cardinality(A) \in Nat
      /\ IsFiniteSet(T) /\ Cardinality(T) \in Nat
      /\ Cardinality(A \cap T) \in Nat
  BY Finite
<1>2. /\ IsFiniteSet(A \cup T)
      /\ Cardinality(A \cup T) =
           Cardinality(A) + Cardinality(T) - Cardinality(A \cap T)
  BY <1>1, FS_Union
<1>3. Cardinality(A \cup T) \in Nat
  BY <1>2, FS_CardinalityType
<1>4. Cardinality(Proc') <= Cardinality(A \cup T) /\ Cardinality(Proc') \in Nat
  BY <1>2, FS_Subset, FS_CardinalityType
<1>5. QED
  BY <1>1, <1>2, <1>3, <1>4, Numbers DEF JobsBounded

LEMMA JobReplaced ==
  ASSUME JobsKept, JobsBounded, NEW i \in Proc, NEW T \in SUBSET Items,
         Cardinality(T) <= 1, Proc' \subseteq (Proc \ {i}) \cup T
  PROVE  JobsBounded'
<1>1. Cardinality(Proc \ {i}) = Cardinality(Proc) - 1
  BY Finite, FS_RemoveElement
<1>2. Proc \ {i} \in SUBSET Items
  BY DEF Proc, In
<1>3. Cardinality(Proc \ {i}) \in Nat /\ Cardinality(T) \in Nat
  BY <1>2, Finite
<1>4. Cardinality(Proc \ {i}) + Cardinality(T) <= jobs
  BY <1>1, <1>3, Finite, Numbers DEF JobsBounded
<1>5. QED
  BY <1>2, <1>4, JobsAdded

----------------------------------------------------------------------------
(* The other threads and the clock. *)

LEMMA ScanInv ==
  ASSUME QueueInv, JobsKept, NEW i \in Items, Scan(i)
  PROVE  QueueInv'
<1> USE DEF QueueInv
<1>1. /\ phase' \in [Items -> Phase]
      /\ UNCHANGED <<result, attempt, due, output, slots, main, batch>>
  BY DEF Scan, TypeOK, Phase, uploads
<1>2. \A j \in Items : phase'[j] # phase[j] =>
         j = i /\ phase[j] = "todo" /\ phase'[j] \in {"queued", "final"}
  BY DEF Scan, TypeOK
<1>3. Holders' = Holders /\ Proc' = Proc /\ In({"encoded"})' = In({"encoded"})
  BY <1>1, <1>2 DEF Holders, Proc, In
<1>4. TypeOK' /\ SlotsConserved'
  BY <1>1, <1>3, SlotKept DEF TypeOK
<1>5. OutputHeld' /\ JobsBounded'
  BY <1>1, <1>3, JobsFewer DEF OutputHeld
<1>6. MainHolds'
  BY <1>1, <1>2, <1>3 DEF MainHolds, WorkDone, In, Proc, TypeOK
<1>7. RetryLeft' /\ ExitComplete'
  BY <1>1, <1>2 DEF RetryLeft, ExitComplete, At, TypeOK
<1>8. QED
  BY <1>4, <1>5, <1>6, <1>7

LEMMA WorkInv ==
  ASSUME QueueInv, JobsKept, NEW i \in Items, Work(i)
  PROVE  QueueInv'
<1> USE DEF QueueInv
<1>1. /\ phase' \in [Items -> Phase] /\ output' \subseteq Items
      /\ UNCHANGED <<result, attempt, due, slots, main, batch>>
  BY DEF Work, TypeOK, Phase
<1>2. \A j \in Items : phase'[j] # phase[j] =>
         j = i /\ phase[j] = "working" /\ phase'[j] \in {"encoded", "processed"}
  BY DEF Work, TypeOK
<1>3. Holders' = Holders /\ Proc' = Proc
  BY <1>1, <1>2 DEF Holders, Proc, In
<1>4. TypeOK' /\ SlotsConserved'
  BY <1>1, <1>3, SlotKept DEF TypeOK
<1>5. OutputHeld'
  BY <1>1, <1>2, <1>3 DEF OutputHeld, In, Work, TypeOK
<1>6. JobsBounded'
  BY <1>3, JobsFewer
<1>7. MainHolds'
  BY <1>1, <1>2, <1>3 DEF MainHolds, WorkDone, In, Proc, TypeOK
<1>8. RetryLeft' /\ ExitComplete'
  BY <1>1, <1>2 DEF RetryLeft, ExitComplete, At, TypeOK, Work
<1>9. QED
  BY <1>4, <1>5, <1>6, <1>7, <1>8

LEMMA StartInv ==
  ASSUME QueueInv, JobsKept, NEW i \in Items, Start(i)
  PROVE  QueueInv'
<1> USE DEF QueueInv
<1>1. /\ phase' \in [Items -> Phase]
      /\ UNCHANGED <<result, attempt, due, output, slots, main, batch>>
  BY DEF Start, TypeOK, Phase, uploads
<1>2. \A j \in Items : phase'[j] # phase[j] =>
         j = i /\ phase[j] = "submitted" /\ phase'[j] = "uploading"
  BY DEF Start, TypeOK
<1>3. Holders' = Holders /\ Proc' = Proc /\ In({"encoded"})' = In({"encoded"})
  BY <1>1, <1>2 DEF Holders, Proc, In
<1>4. TypeOK' /\ SlotsConserved'
  BY <1>1, <1>3, SlotKept DEF TypeOK
<1>5. OutputHeld' /\ JobsBounded'
  BY <1>1, <1>3, JobsFewer DEF OutputHeld
<1>6. MainHolds'
  BY <1>1, <1>2, <1>3 DEF MainHolds, WorkDone, In, Proc, TypeOK
<1>7. RetryLeft' /\ ExitComplete'
  BY <1>1, <1>2 DEF RetryLeft, ExitComplete, At, TypeOK, Start
<1>8. QED
  BY <1>4, <1>5, <1>6, <1>7

(* The upload that ends keeps its slot if it is to be retried, and gives   *)
(* slot and file back if it is not.                                        *)
LEMMA FinishInv ==
  ASSUME QueueInv, JobsKept, NEW i \in Items, Finish(i)
  PROVE  QueueInv'
<1> USE DEF QueueInv
<1>1. /\ phase[i] = "uploading" /\ phase' = [phase EXCEPT ![i] = "uploaded"]
      /\ phase' \in [Items -> Phase] /\ result' \in [Items -> Result]
      /\ UNCHANGED <<attempt, due, main, batch>>
  BY DEF Finish, TypeOK, Phase, Result
<1>2. \A j \in Items \ {i} : phase'[j] = phase[j] /\ result'[j] = result[j]
  BY DEF Finish, TypeOK
<1>3. Proc' = Proc /\ In({"encoded"})' = In({"encoded"})
  BY <1>1, <1>2 DEF Proc, In, TypeOK
<1>4. i \in Holders
  BY <1>1 DEF Holders, In
<1>5. CASE /\ attempt[i] < IdleRetries /\ result' = [result EXCEPT ![i] = "defer"]
           /\ output' = output /\ slots' = slots
  <2>1. Holders' = Holders
    BY <1>1, <1>2, <1>5 DEF Holders, In, TypeOK
  <2>2. TypeOK' /\ SlotsConserved' /\ OutputHeld'
    BY <1>1, <1>3, <1>5, <2>1, SlotKept DEF TypeOK, OutputHeld
  <2>3. RetryLeft'
    BY <1>1, <1>2, <1>5 DEF RetryLeft, TypeOK
  <2>4. QED
    BY <1>1, <1>2, <1>3, <2>2, <2>3, JobsFewer
       DEF MainHolds, WorkDone, In, Proc, ExitComplete, At, TypeOK
<1>6. CASE /\ result'[i] \in {"ok", "fail"}
           /\ output' = output \ {i} /\ slots' = slots + 1
  <2>1. Holders' = Holders \ {i}
    BY <1>1, <1>2, <1>6 DEF Holders, In, TypeOK
  <2>2. SlotsConserved' /\ slots' \in 0 .. MaxSlots
    BY <1>4, <1>6, <2>1, SlotFreed
  <2>3. TypeOK' /\ OutputHeld'
    BY <1>1, <1>3, <1>6, <2>1, <2>2 DEF TypeOK, OutputHeld
  <2>4. RetryLeft'
    BY <1>1, <1>2, <1>6 DEF RetryLeft, TypeOK
  <2>5. QED
    BY <1>1, <1>2, <1>3, <2>2, <2>3, <2>4, JobsFewer
       DEF MainHolds, WorkDone, In, Proc, ExitComplete, At, TypeOK
<1>7. QED
  BY <1>5, <1>6 DEF Finish, TypeOK

LEMMA ClockInv ==
  ASSUME QueueInv, JobsKept, NEW i \in Items, ComeDue(i) \/ Lose(i)
  PROVE  QueueInv'
<1> USE DEF QueueInv
<1>1. /\ due' \subseteq Items /\ output' \subseteq output
      /\ UNCHANGED <<phase, result, attempt, slots, main, batch>>
  BY DEF ComeDue, Lose, TypeOK
<1>2. Holders' = Holders /\ Proc' = Proc /\ In({"encoded"})' = In({"encoded"})
  BY <1>1 DEF Holders, Proc, In
<1>3. TypeOK' /\ SlotsConserved'
  BY <1>1, <1>2, SlotKept DEF TypeOK
<1>4. OutputHeld' /\ JobsBounded'
  BY <1>1, <1>2, JobsFewer DEF OutputHeld
<1>5. MainHolds'
  BY <1>1, <1>2 DEF MainHolds, WorkDone, In
<1>6. RetryLeft' /\ ExitComplete'
  BY <1>1 DEF RetryLeft, ExitComplete, At
<1>7. QED
  BY <1>3, <1>4, <1>5, <1>6

----------------------------------------------------------------------------
(* The main thread, where it only changes its mind: no item moves. *)

LEMMA NoMove ==
  ASSUME QueueInv, JobsKept, UNCHANGED <<phase, result, attempt, due, output, slots>>,
         batch' \subseteq Items, main' \in [pc : MainPC, cur : Items \cup {NoItem}],
         MainHolds', ~At("exit")' \/ ExitComplete'
  PROVE  QueueInv'
<1> USE DEF QueueInv
<1>1. Holders' = Holders /\ Proc' = Proc /\ In({"encoded"})' = In({"encoded"})
  BY DEF Holders, Proc, In
<1>2. TypeOK' /\ SlotsConserved' /\ OutputHeld' /\ JobsBounded'
  BY <1>1, SlotKept, JobsFewer DEF TypeOK, OutputHeld
<1>3. RetryLeft' /\ ExitComplete'
  BY DEF RetryLeft, ExitComplete, At
<1>4. QED
  BY <1>2, <1>3

LEMMA WaitingInv ==
  ASSUME QueueInv, JobsKept, SlotTimeout \/ NoMoreWork \/ WaitForFutures \/ BatchEnds
  PROVE  QueueInv'
<1> USE DEF QueueInv, At, GoTo, uploads
<1>1. CASE SlotTimeout
  <2>1. MainHolds' /\ main' \in [pc : MainPC, cur : Items \cup {NoItem}]
    BY <1>1 DEF SlotTimeout, MainHolds, SerialPC, PoolPC, Proc, In, WorkDone,
                TypeOK, MainPC
  <2>2. QED
    BY <1>1, <2>1, NoMove DEF SlotTimeout, TypeOK
<1>2. CASE NoMoreWork
  <2>1. MainHolds' /\ main' \in [pc : MainPC, cur : Items \cup {NoItem}]
    BY <1>2 DEF NoMoreWork, MainHolds, SerialPC, PoolPC, Proc, In, WorkDone,
                TypeOK, MainPC
  <2>2. QED
    BY <1>2, <2>1, NoMove DEF NoMoreWork, TypeOK
<1>3. CASE WaitForFutures
  <2>1. MainHolds' /\ main' \in [pc : MainPC, cur : Items \cup {NoItem}]
    BY <1>3 DEF WaitForFutures, MainHolds, SerialPC, PoolPC, Proc, In,
                WorkDone, TypeOK, MainPC
  <2>2. QED
    BY <1>3, <2>1, NoMove DEF WaitForFutures, TypeOK, In
<1>4. CASE BatchEnds
  <2>1. MainHolds' /\ main' \in [pc : MainPC, cur : Items \cup {NoItem}]
    BY <1>4 DEF BatchEnds, MainHolds, SerialPC, PoolPC, Proc, In, WorkDone,
                TypeOK, MainPC
  <2>2. QED
    BY <1>4, <2>1, NoMove DEF BatchEnds, TypeOK
<1>5. QED
  BY <1>1, <1>2, <1>3, <1>4

(* A drain that finds nothing to do goes on; at the end of the run, with   *)
(* nothing uploading and nothing deferred, everything is finalized.        *)
LEMMA DrainEndsInv ==
  ASSUME QueueInv, JobsKept, DrainEnds
  PROVE  QueueInv'
<1> USE DEF QueueInv, At, GoTo, uploads
<1>1. MainHolds' /\ main' \in [pc : MainPC, cur : Items \cup {NoItem}]
  BY DEF DrainEnds, MainHolds, SerialPC, PoolPC, Proc, In, WorkDone, TypeOK,
         MainPC
<1>2. CASE main'.pc = "exit"
  <2>1. Futs = {} /\ In({"deferred"}) = {} /\ Proc = {} /\ WorkDone
    BY <1>2 DEF DrainEnds, MainHolds, SerialPC, PoolPC
  <2>2. \A i \in Items : phase[i] = "final"
    BY <2>1 DEF Futs, Proc, WorkDone, In, TypeOK, Phase
  <2>3. output = {} /\ Holders = {}
    BY <2>2 DEF OutputHeld, Holders, In
  <2>4. slots = MaxSlots
    BY <2>3, FS_EmptySet DEF SlotsConserved, TypeOK
  <2>5. ExitComplete'
    BY <2>2, <2>3, <2>4 DEF DrainEnds, ExitComplete, MaxSlots
  <2>6. QED
    BY <1>1, <2>5, NoMove DEF DrainEnds, TypeOK
<1>3. CASE main'.pc # "exit"
  BY <1>1, <1>3, NoMove DEF DrainEnds, TypeOK
<1>4. QED
  BY <1>2, <1>3

----------------------------------------------------------------------------
(* The main thread starts and ends jobs: no slot moves. *)

LEMMA JobMove ==
  ASSUME QueueInv, JobsKept, UNCHANGED <<result, attempt, due, output, slots>>,
         batch' \subseteq Items, main' \in [pc : MainPC, cur : Items \cup {NoItem}],
         phase' \in [Items -> Phase],
         \A j \in Items : phase'[j] # phase[j] =>
            \/ phase[j] = "queued" /\ phase'[j] = "working"
            \/ phase[j] = "processed" /\ phase'[j] = "final",
         JobsBounded', MainHolds', ~At("exit")'
  PROVE  QueueInv'
<1> USE DEF QueueInv
<1>1. Holders' = Holders /\ In({"encoded"})' = In({"encoded"})
  BY DEF Holders, In
<1>2. TypeOK' /\ SlotsConserved' /\ OutputHeld'
  BY <1>1, SlotKept DEF TypeOK, OutputHeld
<1>3. RetryLeft' /\ ExitComplete'
  BY DEF RetryLeft, ExitComplete, At, TypeOK
<1>4. QED
  BY <1>2, <1>3

LEMMA TakeInv ==
  ASSUME QueueInv, JobsKept, NEW i \in Items, Take(i)
  PROVE  QueueInv'
<1> USE DEF QueueInv, At, GoTo, uploads
<1>1. Serial /\ Proc = {}
  BY DEF Take, MainHolds, PoolPC
<1>2. phase' \in [Items -> Phase] /\ Proc' = {i} /\ phase'[i] = "working"
  BY <1>1 DEF Take, TypeOK, Phase, Proc, In
<1>3. JobsBounded'
  <2>1. jobs = 1 /\ Proc' = {i} /\ Cardinality({i}) = 1
    BY <1>1, <1>2, FS_Singleton DEF Serial
  <2>2. QED
    BY <2>1 DEF JobsBounded
<1>4. MainHolds' /\ main' \in [pc : MainPC, cur : Items \cup {NoItem}]
  BY <1>1, <1>2 DEF Take, MainHolds, SerialPC, MainPC
<1>5. QED
  BY <1>2, <1>3, <1>4, JobMove DEF Take, TypeOK

LEMMA WorkedInv ==
  ASSUME QueueInv, JobsKept, Worked
  PROVE  QueueInv'
<1> USE DEF QueueInv, At, GoTo, uploads
<1>1. Serial /\ Proc = {main.cur} /\ main.cur \in Items
  BY DEF Worked, MainHolds, PoolPC, Proc, In
<1>2. CASE phase[main.cur] = "encoded" /\ main' = [main EXCEPT !.pc = "slot"]
             /\ phase' = phase
  <2>1. MainHolds' /\ main' \in [pc : MainPC, cur : Items \cup {NoItem}]
    BY <1>1, <1>2 DEF MainHolds, SerialPC, Proc, In, TypeOK, MainPC
  <2>2. QED
    BY <1>2, <2>1, NoMove DEF Worked, TypeOK
<1>3. CASE /\ phase[main.cur] = "processed"
           /\ phase' = [phase EXCEPT ![main.cur] = "final"]
           /\ main' = [pc |-> "loop", cur |-> NoItem]
  <2>1. phase' \in [Items -> Phase] /\ Proc' = {}
    BY <1>1, <1>3 DEF TypeOK, Phase, Proc, In
  <2>2. JobsBounded'
    BY <2>1, JobsFewer
  <2>3. MainHolds' /\ main' \in [pc : MainPC, cur : Items \cup {NoItem}]
    BY <1>1, <1>3, <2>1 DEF MainHolds, SerialPC, MainPC
  <2>4. QED
    BY <1>1, <1>3, <2>1, <2>2, <2>3, JobMove DEF Worked, TypeOK
<1>4. QED
  BY <1>2, <1>3 DEF Worked

(* Moving queued items to the workers. *)
LEMMA MovedItems ==
  ASSUME TypeOK, NEW T \in SUBSET Items, T \subseteq In({"queued"}),
         phase' = Moved(T, "working")
  PROVE  /\ phase' \in [Items -> Phase]
         /\ Proc' = Proc \cup T
         /\ \A j \in Items : phase'[j] # phase[j] =>
              phase[j] = "queued" /\ phase'[j] = "working"
BY DEF TypeOK, Moved, Phase, Proc, In

LEMMA TakeSomeInv ==
  ASSUME QueueInv, JobsKept, NEW T \in SUBSET Items, TakeSome(T)
  PROVE  QueueInv'
<1> USE DEF QueueInv, At, GoTo, uploads
<1>1. ~Serial
  BY DEF TakeSome, MainHolds, SerialPC
<1>2. jobs - Cardinality(Proc) \in Nat
  BY Finite, Numbers DEF JobsBounded
<1>3. T \subseteq In({"queued"}) /\ Cardinality(T) \in Nat
      /\ Cardinality(T) <= jobs - Cardinality(Proc)
  BY <1>2, TakenSize DEF TakeSome
<1>4. /\ phase' \in [Items -> Phase] /\ Proc' = Proc \cup T
      /\ \A j \in Items : phase'[j] # phase[j] =>
           phase[j] = "queued" /\ phase'[j] = "working"
  BY <1>3, MovedItems DEF TakeSome
<1>5. Cardinality(Proc) + Cardinality(T) <= jobs
  BY <1>3, Finite, Numbers
<1>6. JobsBounded'
  BY <1>4, <1>5, JobsAdded DEF Proc, In
<1>7. MainHolds' /\ main' \in [pc : MainPC, cur : Items \cup {NoItem}]
  BY <1>1 DEF TakeSome, MainHolds, PoolPC, MainPC
<1>8. QED
  BY <1>4, <1>6, <1>7, JobMove DEF TakeSome, TypeOK

(* With nothing running, either everything is finalized and the run ends,  *)
(* or one more item may start.                                             *)
LEMMA WaitForWorkInv ==
  ASSUME QueueInv, JobsKept, NEW T \in SUBSET Items, WaitForWork(T)
  PROVE  QueueInv'
<1> USE DEF QueueInv, At, GoTo, uploads
<1>1. ~Serial /\ Proc = {} /\ Futs = {}
  BY DEF WaitForWork, MainHolds, SerialPC
<1>2. T \subseteq In({"queued"}) /\ Cardinality(T) \in Nat /\ Cardinality(T) <= 1
  BY TakenSize DEF WaitForWork
<1>3. /\ phase' \in [Items -> Phase] /\ Proc' = Proc \cup T
      /\ \A j \in Items : phase'[j] # phase[j] =>
           phase[j] = "queued" /\ phase'[j] = "working"
  BY <1>2, MovedItems DEF WaitForWork
<1>4. JobsBounded'
  <2>1. Cardinality({}) + Cardinality(T) <= jobs
    BY <1>2, FS_EmptySet, Numbers
  <2>2. QED
    BY <1>1, <1>3, <2>1, JobsAdded
<1>5. CASE WorkDone /\ In({"deferred"}) = {}
  <2>1. T = {} /\ \A j \in Items : phase[j] = "final"
    BY <1>1, <1>2, <1>5 DEF Futs, Proc, WorkDone, In, TypeOK, Phase
  <2>2. output = {} /\ Holders = {}
    BY <2>1 DEF OutputHeld, Holders, In
  <2>3. slots = MaxSlots
    BY <2>2, FS_EmptySet DEF SlotsConserved, TypeOK
  <2>4. phase' = phase
    BY <1>3, <2>1 DEF TypeOK
  <2>5. ExitComplete'
    BY <2>1, <2>2, <2>3, <2>4 DEF WaitForWork, ExitComplete, MaxSlots
  <2>6. MainHolds' /\ main' \in [pc : MainPC, cur : Items \cup {NoItem}]
    BY <1>1, <1>5, <2>4 DEF WaitForWork, MainHolds, PoolPC, MainPC, WorkDone, In
  <2>7. QED
    BY <2>4, <2>5, <2>6, NoMove DEF WaitForWork, TypeOK
<1>6. CASE ~(WorkDone /\ In({"deferred"}) = {})
  <2>1. main' = [pc |-> "top", cur |-> NoItem]
    BY <1>6 DEF WaitForWork
  <2>2. MainHolds' /\ main' \in [pc : MainPC, cur : Items \cup {NoItem}]
    BY <1>1, <2>1 DEF MainHolds, PoolPC, MainPC
  <2>3. QED
    BY <1>3, <1>4, <2>1, <2>2, JobMove DEF WaitForWork, TypeOK
<1>7. QED
  BY <1>5, <1>6

LEMMA HandleJobInv ==
  ASSUME QueueInv, JobsKept, NEW i \in Items, NEW T \in SUBSET Items, HandleJob(i, T)
  PROVE  QueueInv'
<1> USE DEF QueueInv, At, GoTo, uploads
<1>1. ~Serial /\ batch' \subseteq Items
  BY DEF HandleJob, MainHolds, SerialPC, TypeOK
<1>2. CASE /\ phase[i] = "encoded" /\ phase' = phase
           /\ main' = [pc |-> "slot", cur |-> i]
  <2>1. MainHolds' /\ main' \in [pc : MainPC, cur : Items \cup {NoItem}]
    BY <1>1, <1>2 DEF MainHolds, PoolPC, Proc, In, MainPC
  <2>2. QED
    BY <1>1, <1>2, <2>1, NoMove DEF HandleJob
<1>3. CASE /\ phase[i] = "processed" /\ Taken(T, 1) /\ main' = main
           /\ phase' = [Moved(T, "working") EXCEPT ![i] = "final"]
  <2>1. T \subseteq In({"queued"}) /\ Cardinality(T) <= 1
    BY <1>3, TakenSize
  <2>2. /\ phase' \in [Items -> Phase]
        /\ \A j \in Items : phase'[j] # phase[j] =>
            \/ phase[j] = "queued" /\ phase'[j] = "working"
            \/ phase[j] = "processed" /\ phase'[j] = "final"
    BY <1>3, <2>1 DEF Moved, TypeOK, Phase, In
  <2>3. i \in Proc /\ Proc' \subseteq (Proc \ {i}) \cup T
    BY <1>3, <2>1 DEF Moved, TypeOK, Proc, In
  <2>4. JobsBounded'
    BY <2>1, <2>3, JobReplaced
  <2>5. main.pc = "batch" /\ MainHolds'
    BY <1>1, <1>3 DEF HandleJob, MainHolds, PoolPC
  <2>6. QED
    BY <1>1, <1>3, <2>2, <2>4, <2>5, JobMove DEF HandleJob, TypeOK
<1>4. QED
  BY <1>2, <1>3 DEF HandleJob

----------------------------------------------------------------------------
(* The main thread gets a slot for the encoded item in its hands. *)
LEMMA AcquireInv ==
  ASSUME QueueInv, JobsKept, NEW T \in SUBSET Items, Acquire(T)
  PROVE  QueueInv'
<1> USE DEF QueueInv, At, GoTo, uploads
<1> DEFINE c == main.cur
<1>1. c \in Items /\ c \in Proc /\ phase[c] = "encoded"
  BY DEF Acquire, MainHolds, Proc, In
<1>2. /\ T \subseteq In({"queued"}) /\ Cardinality(T) <= 1
      /\ Serial => T = {}
  <2>1. CASE Serial
    <3>1. Taken(T, 0)
      BY <2>1 DEF Acquire
    <3>2. QED
      BY <3>1, TakenSize
  <2>2. CASE ~Serial
    <3>1. Taken(T, 1)
      BY <2>2 DEF Acquire
    <3>2. QED
      BY <2>2, <3>1, TakenSize
  <2>3. QED
    BY <2>1, <2>2
<1>3. /\ phase' \in [Items -> Phase] /\ phase'[c] = "submitted"
      /\ \A j \in Items \ {c} : phase'[j] # phase[j] =>
           phase[j] = "queued" /\ phase'[j] = "working"
  BY <1>1, <1>2 DEF Acquire, Moved, TypeOK, Phase, In
<1>4. c \notin Holders /\ Holders' = Holders \cup {c}
  BY <1>1, <1>3 DEF Acquire, Holders, In
<1>5. SlotsConserved' /\ slots' \in 0 .. MaxSlots
  BY <1>1, <1>4, SlotTaken DEF Acquire
<1>6. Proc' = (Proc \ {c}) \cup T
  BY <1>1, <1>2, <1>3 DEF Acquire, Moved, Proc, In, TypeOK
<1>7. JobsBounded'
  BY <1>1, <1>2, <1>6, JobReplaced
<1>8. main' = [pc |-> IF Serial THEN "drain" ELSE "batch", cur |-> NoItem]
  BY DEF Acquire
<1>9. TypeOK'
  BY <1>3, <1>5, <1>8 DEF Acquire, TypeOK, MainPC
<1>10. OutputHeld'
  BY <1>1, <1>3, <1>4 DEF Acquire, OutputHeld, In
<1>11. MainHolds'
  BY <1>1, <1>2, <1>6, <1>8 DEF MainHolds, Acquire, SerialPC, PoolPC
<1>12. RetryLeft' /\ ExitComplete'
  BY <1>1, <1>3, <1>8 DEF Acquire, RetryLeft, ExitComplete
<1>13. QED
  BY <1>5, <1>7, <1>9, <1>10, <1>11, <1>12

(* The deferred uploads that are pumped keep their slots, except those     *)
(* whose file is lost.                                                     *)
LEMMA PumpStep ==
  ASSUME main.pc \in DOMAIN PumpNext
  PROVE  /\ PumpNext[main.pc] \in {"take", "acquire", "loop", "batch", "tailDrain"}
         /\ main.pc = "slot" <=> PumpNext[main.pc] = "acquire"
         /\ main.pc = "tail" <=> PumpNext[main.pc] = "tailDrain"
         /\ main.pc \in SerialPC => PumpNext[main.pc] \in SerialPC
         /\ main.pc \in PoolPC => PumpNext[main.pc] \in PoolPC
         /\ main.pc \in {"top", "slot", "after", "batchPump", "tail"}
BY DEF PumpNext, SerialPC, PoolPC

LEMMA PumpInv ==
  ASSUME QueueInv, JobsKept, NEW P \in SUBSET Items, Pump(P)
  PROVE  QueueInv'
<1> USE DEF QueueInv, At, GoTo, uploads
<1> DEFINE D == P \ output
<1>1. \A j \in P : phase[j] = "deferred"
  BY DEF Pump, Pumped, Ready, In
<1>2. /\ phase' \in [Items -> Phase]
      /\ \A j \in P \cap output : phase'[j] = "submitted"
      /\ \A j \in D : phase'[j] = "final"
      /\ \A j \in Items \ P : phase'[j] = phase[j]
  BY DEF Pump, TypeOK, Phase
<1>3. D \in SUBSET Items /\ D \subseteq Holders /\ Holders' = Holders \ D
  BY <1>1, <1>2 DEF Pump, Holders, In
<1>4. slots' = slots + Cardinality(D)
  BY DEF Pump
<1>5. SlotsConserved' /\ slots' \in 0 .. MaxSlots
  BY <1>3, <1>4, SlotsFreed
<1>6. Proc' = Proc /\ In({"encoded"})' = In({"encoded"})
      /\ In({"todo", "queued"})' = In({"todo", "queued"})
  BY <1>1, <1>2 DEF Proc, In
<1>7. main' = [pc |-> PumpNext[main.pc], cur |-> main.cur]
  BY DEF Pump, TypeOK
<1>8. /\ main'.pc \in {"take", "acquire", "loop", "batch", "tailDrain"}
      /\ main.pc = "slot" <=> main'.pc = "acquire"
      /\ main.pc = "tail" <=> main'.pc = "tailDrain"
      /\ main.pc \in SerialPC => main'.pc \in SerialPC
      /\ main.pc \in PoolPC => main'.pc \in PoolPC
      /\ main.pc \in {"top", "slot", "after", "batchPump", "tail"}
  BY <1>7, PumpStep DEF Pump
<1>9. TypeOK'
  BY <1>2, <1>5, <1>7, <1>8 DEF Pump, TypeOK, MainPC
<1>10. OutputHeld' /\ JobsBounded'
  BY <1>3, <1>6, JobsFewer DEF Pump, OutputHeld
<1>11. MainHolds'
  <2>1. main'.cur = main.cur
    BY <1>7
  <2>2. main.pc = "slot" => /\ main.cur \in Items
                            /\ phase[main.cur] = "encoded"
                            /\ phase'[main.cur] = "encoded"
    BY <1>1, <1>2 DEF MainHolds, Proc, In
  <2>3. QED
    BY <1>6, <1>8, <2>1, <2>2 DEF MainHolds, WorkDone
<1>12. RetryLeft' /\ ExitComplete'
  BY <1>1, <1>2, <1>8 DEF Pump, RetryLeft, ExitComplete
<1>13. QED
  BY <1>5, <1>9, <1>10, <1>11, <1>12

(* A finished upload is deferred with its slot, or finalized without. *)
LEMMA HandleInv ==
  ASSUME QueueInv, JobsKept, NEW i \in Items, phase[i] = "uploaded", Handle(i),
         batch' \subseteq Items, main'.cur \in {main.cur, NoItem},
         main' \in [pc : MainPC, cur : Items \cup {NoItem}],
         \/ main'.pc = main.pc /\ main.pc \in {"drain", "tailDrain"}
         \/ main.pc = "batch" /\ main'.pc = "batchPump"
  PROVE  QueueInv'
<1> USE DEF QueueInv, At, uploads
<1>1. /\ phase' \in [Items -> Phase] /\ phase'[i] \in {"deferred", "final"}
      /\ \A j \in Items \ {i} : phase'[j] = phase[j] /\ attempt'[j] = attempt[j]
      /\ attempt' \in [Items -> 0 .. IdleRetries]
      /\ UNCHANGED <<result, due, output>>
  <2>1. result[i] = "defer" => attempt[i] + 1 \in 0 .. IdleRetries
    BY UploadQueueAssumption DEF RetryLeft, TypeOK
  <2>2. QED
    BY <2>1 DEF Handle, TypeOK, Phase
<1>2. Proc' = Proc /\ In({"encoded"})' = In({"encoded"})
      /\ In({"todo", "queued"})' = In({"todo", "queued"})
  BY <1>1 DEF Proc, In
<1>3. JobsBounded' /\ MainHolds'
  BY <1>2, JobsFewer DEF MainHolds, WorkDone, SerialPC, PoolPC
<1>4. RetryLeft' /\ ExitComplete'
  BY <1>1 DEF RetryLeft, ExitComplete
<1>5. CASE result[i] = "defer" /\ phase'[i] = "deferred" /\ slots' = slots
  <2>1. Holders' = Holders
    BY <1>1, <1>5 DEF Holders, In
  <2>2. TypeOK' /\ SlotsConserved' /\ OutputHeld'
    BY <1>1, <1>2, <1>5, <2>1, SlotKept DEF TypeOK, OutputHeld
  <2>3. QED
    BY <1>3, <1>4, <2>2
<1>6. CASE /\ result[i] = "defer" /\ i \notin output
           /\ phase'[i] = "final" /\ slots' = slots + 1
  <2>1. i \in Holders /\ Holders' = Holders \ {i}
    BY <1>1, <1>6 DEF Holders, In
  <2>2. SlotsConserved' /\ slots' \in 0 .. MaxSlots
    BY <1>6, <2>1, SlotFreed
  <2>3. TypeOK' /\ OutputHeld'
    BY <1>1, <1>2, <1>6, <2>1, <2>2 DEF TypeOK, OutputHeld
  <2>4. QED
    BY <1>3, <1>4, <2>2, <2>3
<1>7. CASE result[i] # "defer" /\ phase'[i] = "final" /\ slots' = slots
  <2>1. Holders' = Holders
    BY <1>1, <1>7 DEF Holders, In
  <2>2. TypeOK' /\ SlotsConserved' /\ OutputHeld'
    BY <1>1, <1>2, <1>7, <2>1, SlotKept DEF TypeOK, OutputHeld
  <2>3. QED
    BY <1>3, <1>4, <2>2
<1>8. QED
  BY <1>5, <1>6, <1>7 DEF Handle, TypeOK

LEMMA DrainInv ==
  ASSUME QueueInv, JobsKept, NEW i \in Items, Drain(i) \/ HandleUpload(i)
  PROVE  QueueInv'
<1>1. CASE Drain(i)
  BY <1>1, HandleInv DEF Drain, QueueInv, TypeOK, At
<1>2. CASE HandleUpload(i)
  <2>1. /\ main.pc = "batch" /\ main' = [pc |-> "batchPump", cur |-> NoItem]
        /\ batch' \subseteq Items /\ phase[i] = "uploaded" /\ Handle(i)
    BY <1>2 DEF HandleUpload, QueueInv, TypeOK, At, GoTo
  <2>2. main'.pc = "batchPump" /\ main'.cur = NoItem
        /\ main' \in [pc : MainPC, cur : Items \cup {NoItem}]
    BY <2>1 DEF MainPC
  <2>3. QED
    BY <2>1, <2>2, HandleInv
<1>3. QED
  BY <1>1, <1>2

----------------------------------------------------------------------------
LEMMA NextInv ==
  ASSUME QueueInv, [Next]_vars
  PROVE  QueueInv'
<1>0. JobsKept
  BY DEF Next, vars, QueueInv, TypeOK, Serial
<1>1. CASE Main
  BY <1>0, <1>1, PumpInv, AcquireInv, TakeSomeInv, WaitForWorkInv, WaitingInv,
     WorkedInv, DrainEndsInv, TakeInv, DrainInv, HandleJobInv DEF Main
<1>2. CASE Others
  BY <1>0, <1>2, ScanInv, WorkInv, StartInv, FinishInv, ClockInv DEF Others
<1>3. CASE \E i \in Items : Lose(i)
  BY <1>0, <1>3, ClockInv
<1>4. CASE UNCHANGED vars
  <2>1. /\ main' \in [pc : MainPC, cur : Items \cup {NoItem}]
        /\ MainHolds' /\ ExitComplete' /\ batch' \subseteq Items
    BY <1>0, <1>4 DEF vars, queue, QueueInv, TypeOK, MainHolds, ExitComplete, Proc, In,
                WorkDone, At
  <2>2. QED
    BY <1>0, <1>4, <2>1, NoMove DEF vars, queue
<1>5. QED
  BY <1>1, <1>2, <1>3, <1>4 DEF Next

LEMMA InitInv == Init => QueueInv
<1> SUFFICES ASSUME Init PROVE QueueInv
  OBVIOUS
<1>1. Holders = {} /\ Proc = {} /\ output = {}
  BY DEF Init, Holders, Proc, In
<1>2. Cardinality(Holders) = 0 /\ Cardinality(Proc) = 0
  BY <1>1, FS_EmptySet
<1>3. TypeOK
  BY Numbers, UploadQueueAssumption DEF Init, TypeOK, Phase, Result, MainPC
<1>4. SlotsConserved /\ OutputHeld /\ JobsBounded
  BY <1>1, <1>2, Numbers DEF SlotsConserved, OutputHeld, JobsBounded, Init, TypeOK
<1>5. MainHolds /\ RetryLeft /\ ExitComplete
  BY <1>1 DEF Init, MainHolds, SerialPC, PoolPC, RetryLeft, ExitComplete, At
<1>6. QED
  BY <1>3, <1>4, <1>5 DEF QueueInv

(* The invariant is inductive, so no run of the pipeline loses a slot or   *)
(* frees one twice, and every run that ends has finalized every item and   *)
(* left nothing in upload_dir.                                             *)
THEOREM QueueCorrect == Spec => []QueueInv
<1>1. Init => QueueInv
  BY InitInv
<1>2. QueueInv /\ [Next]_vars => QueueInv'
  BY NextInv
<1>3. QED
  BY <1>1, <1>2, PTL DEF Spec

(* The semaphore of init_upload counts exactly the uploads in progress.    *)
THEOREM SlotsSafe == Spec => []SlotsConserved
<1>1. QueueInv => SlotsConserved
  BY DEF QueueInv
<1>2. QED
  BY <1>1, QueueCorrect, PTL

(* The encoded files on the local disk: one per job and one per slot.      *)
THEOREM DiskSafe == Spec => []DiskBounded
<1>1. QueueInv => DiskBounded
  <2> SUFFICES ASSUME QueueInv PROVE DiskBounded
    OBVIOUS
  <2>1. output \subseteq Proc \cup Holders
    BY DEF QueueInv, OutputHeld, Proc, In
  <2>2. /\ IsFiniteSet(Proc) /\ Cardinality(Proc) \in Nat
        /\ IsFiniteSet(Holders) /\ Cardinality(Holders) \in Nat
    BY Finite
  <2>3. /\ IsFiniteSet(Proc \cup Holders)
        /\ Cardinality(Proc \cup Holders) =
             Cardinality(Proc) + Cardinality(Holders)
               - Cardinality(Proc \cap Holders)
    BY <2>2, FS_Union
  <2>4. Cardinality(Proc \cap Holders) \in Nat
    BY <2>2, FS_Intersection, FS_CardinalityType
  <2>5. /\ Cardinality(output) <= Cardinality(Proc \cup Holders)
        /\ Cardinality(output) \in Nat
    BY <2>1, <2>3, FS_Subset, FS_CardinalityType
  <2>6. Cardinality(Proc) <= jobs /\ Cardinality(Holders) <= MaxSlots
    BY <2>2, Numbers DEF QueueInv, JobsBounded, SlotsConserved, TypeOK
  <2>7. QED
    BY <2>2, <2>3, <2>4, <2>5, <2>6, Numbers DEF DiskBounded, QueueInv, TypeOK
<1>2. QED
  BY <1>1, QueueCorrect, PTL

(* A run that ends has dropped no item, file or slot. *)
THEOREM ExitSafe == Spec => []ExitComplete
<1>1. QueueInv => ExitComplete
  BY DEF QueueInv
<1>2. QED
  BY <1>1, QueueCorrect, PTL
============================================================================
