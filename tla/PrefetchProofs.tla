--------------------------- MODULE PrefetchProofs ---------------------------
(***************************************************************************)
(* Theorems about Prefetch, for any number of files, workers, downloads    *)
(* and cached results.                                                     *)
(***************************************************************************)
EXTENDS Prefetch, FiniteSetTheorems, SequenceTheorems, TLAPS

(* The scan offers and queues the files in order, each of them once, and   *)
(* workers take them in that order.                                        *)
Known(i) ==
  i < scan.at \/ (i = scan.at /\ scan.pc \in {"pump", "pumping", "put"})

Behind(i) == i < scan.at /\ \A k \in 1 .. Len(work) : i < work[k]

Ordered ==
  /\ scan.pc # "end" => scan.at <= Last
  /\ \A j, k \in 1 .. Len(candidates) : j < k => candidates[j] < candidates[k]
  /\ \A k \in 1 .. Len(candidates) :
       Known(candidates[k]) /\ fetch[candidates[k]] = "none"
  /\ \A i \in Items : fetch[i] # "none" => Known(i)
  /\ \A j, k \in 1 .. Len(work) : j < k => work[j] < work[k]
  /\ \A k \in 1 .. Len(work) : work[k] < scan.at
  /\ \A w \in Workers : worker[w].pc # "idle" => Behind(worker[w].item)
  /\ \A i \in claimed : Behind(i)

(* A worker has a file of its own, and a result only when it has asked.    *)
Working ==
  /\ \A w \in Workers :
       /\ worker[w].pc # "idle" => worker[w].item \in Items
       /\ worker[w].pc \in {"idle", "start", "wait"} => worker[w].res = "none"
  /\ \A v, w \in Workers :
       worker[v].pc # "idle" /\ worker[w].pc # "idle"
         /\ worker[v].item = worker[w].item => v = w

(* The thread that holds the lock of the pump waits for it. *)
Pumping ==
  pump.pc # "free" =>
    /\ pump.owner = Scanner => scan.pc = "pumping"
    /\ pump.owner \in Workers => worker[pump.owner].pc = "pumping"
    /\ pump.owner \in Items => callback[pump.owner] = "pumping"

Pending(i) == fetch[i] # "none" /\ callback[i] \in {"none", "attached"}

(* A download is in prefetch_futs until its callback has run. *)
Futures ==
  /\ \A i \in Items : fetch[i] = "none" =>
       callback[i] = "none" /\ i \notin futs /\ results[i] = "none"
  /\ \A i \in Items : fetch[i] # "none" /\ callback[i] = "none" =>
       pump.pc = "attach" /\ pump.item = i
  /\ pump.pc = "attach" =>
       /\ pump.item \in Items
       /\ fetch[pump.item] # "none" /\ callback[pump.item] = "none"
  /\ \A i \in Items : fetch[i] = "running" => Pending(i)
  /\ \A i \in Items : Pending(i) => i \in futs /\ results[i] = "none"
  /\ \A i \in futs : Pending(i) \/ fetch[i] = "fatal"

(* Where the files are that have been downloaded. *)
Stored ==
  /\ \A i \in disk : fetch[i] = "ok"
  /\ \A i \in Items : results[i] # "none" => results[i] = fetch[i]
  /\ \A i \in Items : results[i] = "ok" => i \in disk
  /\ \A i \in Items : Pending(i) /\ fetch[i] = "ok" /\ i \notin claimed => i \in disk

(* Whoever waits for a download has claimed it, and nobody else gets it.   *)
Claimed ==
  /\ \A w \in Workers : worker[w].pc = "start" => worker[w].item \notin claimed
  /\ \A w \in Workers : worker[w].pc = "wait" \/ worker[w].res = "ok" =>
       /\ results[worker[w].item] = "none"
       /\ fetch[worker[w].item] # "none"
       /\ Pending(worker[w].item) => worker[w].item \in claimed
       /\ fetch[worker[w].item] = "ok" => worker[w].item \in disk
  /\ \A w \in Workers : worker[w].res = "ok" => fetch[worker[w].item] = "ok"
  /\ \A i \in claimed : fetch[i] # "none" /\
       (fetch[i] = "running" => \E w \in Workers : worker[w].pc = "wait" /\ worker[w].item = i)

(* What the lock of the pump and the check before a submit are for. *)
Bounded ==
  /\ Cardinality(futs) <= Window
  /\ pump.pc = "submit" => Cardinality(futs) < Window
  /\ Cardinality(Cached) <= MaxCached

(* Without Holder's set. *)
Owned ==
  ~stop => \A i \in disk :
    \/ Pending(i) /\ i \notin claimed
    \/ results[i] = "ok"
    \/ \E w \in Workers : /\ worker[w].item = i
                          /\ worker[w].pc = "wait" \/ worker[w].res = "ok"

IInv ==
  /\ TypeOK
  /\ Ordered /\ Working /\ Pumping
  /\ Futures /\ Stored /\ Claimed
  /\ Bounded /\ Owned

----------------------------------------------------------------------------
ScanType == [pc : {"offer", "pump", "pumping", "put", "end"}, at : 1 .. (Last + 1)]
PumpType == [pc    : {"free", "check", "submit", "attach", "release"},
             item  : Items \cup {Nobody},
             owner : {Scanner, Nobody} \cup Items \cup Workers]
WorkerType == [pc   : {"idle", "start", "wait", "pump", "pumping", "get"},
               item : Items \cup {Nobody},
               res  : {"none", "ok", "bad"}]

(* The record of a thread becomes this one, the others keep theirs. *)
ScanIs(p, n) == scan' \in ScanType /\ scan'.pc = p /\ scan'.at = n

PumpIs(p, i, o) ==
  pump' \in PumpType /\ pump'.pc = p /\ pump'.item = i /\ pump'.owner = o

WorkerIs(w, p, i, r) ==
  /\ worker' \in [Workers -> WorkerType]
  /\ worker'[w].pc = p /\ worker'[w].item = i /\ worker'[w].res = r
  /\ \A v \in Workers : v # w => worker'[v] = worker[v]

LEMMA Types ==
  ASSUME TypeOK
  PROVE  /\ scan \in ScanType /\ pump \in PumpType
         /\ candidates \in Seq(Items) /\ work \in Seq(Items)
         /\ fetch \in [Items -> {"none", "running", "ok", "bad", "fatal"}]
         /\ callback \in [Items -> {"none", "attached", "pump", "pumping", "ran"}]
         /\ results \in [Items -> {"none", "ok", "bad"}]
         /\ futs \subseteq Items /\ claimed \subseteq Items
         /\ disk \subseteq Items /\ done \subseteq Items
         /\ worker \in [Workers -> WorkerType] /\ stop \in BOOLEAN
BY DEF TypeOK, ScanType, PumpType, WorkerType

LEMMA TypesAgain ==
  ASSUME scan' \in ScanType, pump' \in PumpType,
         candidates' \in Seq(Items), work' \in Seq(Items),
         fetch' \in [Items -> {"none", "running", "ok", "bad", "fatal"}],
         callback' \in [Items -> {"none", "attached", "pump", "pumping", "ran"}],
         results' \in [Items -> {"none", "ok", "bad"}],
         futs' \subseteq Items, claimed' \subseteq Items,
         disk' \subseteq Items, done' \subseteq Items,
         worker' \in [Workers -> WorkerType], stop' \in BOOLEAN
  PROVE  TypeOK'
BY DEF TypeOK, ScanType, PumpType, WorkerType

LEMMA WorkerStep ==
  ASSUME TypeOK, NEW w \in Workers
  PROVE  /\ \A p \in {"pump", "pumping", "get", "wait"} :
              worker' = [worker EXCEPT ![w].pc = p] =>
                WorkerIs(w, p, worker[w].item, worker[w].res)
         /\ \A r \in {"none", "ok", "bad"} :
              worker' = [worker EXCEPT ![w].pc = "pump", ![w].res = r] =>
                WorkerIs(w, "pump", worker[w].item, r)
         /\ \A i \in Items :
              worker' = [worker EXCEPT ![w].pc = "start", ![w].item = i] =>
                WorkerIs(w, "start", i, worker[w].res)
         /\ Ends(w) => WorkerIs(w, "idle", Nobody, "none")
<1>1. worker \in [Workers -> WorkerType] /\ worker[w] \in WorkerType
  BY Types
<1>2. \A p \in {"pump", "pumping", "get", "wait"} :
        worker' = [worker EXCEPT ![w].pc = p] =>
          WorkerIs(w, p, worker[w].item, worker[w].res)
  <2> SUFFICES ASSUME NEW p \in {"pump", "pumping", "get", "wait"},
                      worker' = [worker EXCEPT ![w].pc = p]
               PROVE  WorkerIs(w, p, worker[w].item, worker[w].res)
    OBVIOUS
  <2>1. [worker[w] EXCEPT !.pc = p] \in WorkerType
    BY <1>1 DEF WorkerType
  <2>2. worker'[w] = [worker[w] EXCEPT !.pc = p]
    BY <1>1
  <2>3. QED
    BY <1>1, <2>1, <2>2 DEF WorkerIs, WorkerType
<1>3. \A r \in {"none", "ok", "bad"} :
        worker' = [worker EXCEPT ![w].pc = "pump", ![w].res = r] =>
          WorkerIs(w, "pump", worker[w].item, r)
  <2> SUFFICES ASSUME NEW r \in {"none", "ok", "bad"},
                      worker' = [worker EXCEPT ![w].pc = "pump", ![w].res = r]
               PROVE  WorkerIs(w, "pump", worker[w].item, r)
    OBVIOUS
  <2>1. [worker[w] EXCEPT !.pc = "pump", !.res = r] \in WorkerType
    BY <1>1 DEF WorkerType
  <2>2. worker' = [worker EXCEPT ![w] = [worker[w] EXCEPT !.pc = "pump", !.res = r]]
    BY <1>1
  <2>3. QED
    BY <1>1, <2>1, <2>2 DEF WorkerIs, WorkerType
<1>4. \A i \in Items :
        worker' = [worker EXCEPT ![w].pc = "start", ![w].item = i] =>
          WorkerIs(w, "start", i, worker[w].res)
  <2> SUFFICES ASSUME NEW i \in Items,
                      worker' = [worker EXCEPT ![w].pc = "start", ![w].item = i]
               PROVE  WorkerIs(w, "start", i, worker[w].res)
    OBVIOUS
  <2>1. [worker[w] EXCEPT !.pc = "start", !.item = i] \in WorkerType
    BY <1>1 DEF WorkerType
  <2>2. worker' = [worker EXCEPT ![w] = [worker[w] EXCEPT !.pc = "start", !.item = i]]
    BY <1>1
  <2>3. QED
    BY <1>1, <2>1, <2>2 DEF WorkerIs, WorkerType
<1>5. Ends(w) => WorkerIs(w, "idle", Nobody, "none")
  BY <1>1 DEF Ends, IdleWorker, WorkerIs, WorkerType
<1>6. QED
  BY <1>2, <1>3, <1>4, <1>5

LEMMA PumpStep ==
  ASSUME TypeOK
  PROVE  /\ \A p \in {"submit", "release"} :
              pump' = [pump EXCEPT !.pc = p] => PumpIs(p, pump.item, pump.owner)
         /\ \A i \in Items :
              pump' = [pump EXCEPT !.pc = "attach", !.item = i] =>
                PumpIs("attach", i, pump.owner)
         /\ pump' = [pump EXCEPT !.pc = "check", !.item = Nobody] =>
              PumpIs("check", Nobody, pump.owner)
         /\ pump' = FreePump => PumpIs("free", Nobody, Nobody)
         /\ \A o \in {Scanner} \cup Items \cup Workers :
              Enter(o) => PumpIs("check", Nobody, o)
<1>1. pump \in PumpType
  BY Types
<1>2. \A p \in {"submit", "release"} :
        pump' = [pump EXCEPT !.pc = p] => PumpIs(p, pump.item, pump.owner)
  BY <1>1 DEF PumpType, PumpIs
<1>3. \A i \in Items :
        pump' = [pump EXCEPT !.pc = "attach", !.item = i] =>
          PumpIs("attach", i, pump.owner)
  BY <1>1 DEF PumpType, PumpIs
<1>4. pump' = [pump EXCEPT !.pc = "check", !.item = Nobody] =>
        PumpIs("check", Nobody, pump.owner)
  BY <1>1 DEF PumpType, PumpIs
<1>5. pump' = FreePump => PumpIs("free", Nobody, Nobody)
  BY DEF PumpType, PumpIs, FreePump
<1>6. ASSUME NEW o \in {Scanner} \cup Items \cup Workers, Enter(o)
      PROVE  PumpIs("check", Nobody, o)
  <2>1. pump' = [pc |-> "check", item |-> Nobody, owner |-> o]
    BY <1>6 DEF Enter, FreePump
  <2>2. QED
    BY <2>1 DEF PumpType, PumpIs
<1>7. QED
  BY <1>2, <1>3, <1>4, <1>5, <1>6

LEMMA ScanStep ==
  ASSUME TypeOK, NEW p \in {"pump", "pumping", "put"}, scan' = [scan EXCEPT !.pc = p]
  PROVE  ScanIs(p, scan.at)
BY Types DEF ScanType, ScanIs


LEMMA FirstOfQueue ==
  ASSUME NEW q \in Seq(Items), q # <<>>
  PROVE  /\ Len(q) \in Nat \ {0}
         /\ Head(q) = q[1] /\ Head(q) \in Items
         /\ Tail(q) \in Seq(Items) /\ Len(Tail(q)) = Len(q) - 1
         /\ \A k \in 1 .. Len(Tail(q)) : k + 1 \in 1 .. Len(q) /\ Tail(q)[k] = q[k + 1]
<1>1. Len(q) \in Nat \ {0} /\ Head(q) = q[1] /\ Head(q) \in Items
  BY HeadTailProperties, ElementOfSeq
<1>2. Tail(q) \in Seq(Items) /\ Len(Tail(q)) = Len(q) - 1
  BY HeadTailProperties
<1>3. QED
  BY <1>1, <1>2, HeadTailProperties

LEMMA EndOfQueue ==
  ASSUME NEW q \in Seq(Items), NEW i \in Items
  PROVE  /\ Append(q, i) \in Seq(Items) /\ Len(Append(q, i)) = Len(q) + 1
         /\ Len(q) \in Nat
         /\ \A k \in 1 .. Len(Append(q, i)) :
              Append(q, i)[k] = IF k = Len(q) + 1 THEN i ELSE q[k]
BY AppendProperties, LenProperties

(* Sets of files have a size. *)
LEMMA FilesCounted ==
  ASSUME NEW S \in SUBSET Items
  PROVE  /\ IsFiniteSet(S) /\ Cardinality(S) \in Nat
         /\ \A R \in SUBSET S : IsFiniteSet(R) /\ Cardinality(R) <= Cardinality(S)
         /\ \A i \in Items : Cardinality(S \cup {i}) <= Cardinality(S) + 1
<1>1. IsFiniteSet(Items)
  BY FS_Interval, PrefetchAssumption DEF Items
<1>2. IsFiniteSet(S) /\ Cardinality(S) \in Nat
  BY <1>1, FS_Subset, FS_CardinalityType
<1>3. \A R \in SUBSET S : IsFiniteSet(R) /\ Cardinality(R) <= Cardinality(S)
  BY <1>2, FS_Subset
<1>4. \A i \in Items : Cardinality(S \cup {i}) <= Cardinality(S) + 1
  BY <1>2, FS_AddElement
<1>5. QED
  BY <1>2, <1>3, <1>4

LEMMA OwnersDiffer ==
  /\ Last \in Nat
  /\ \A i \in Items : i \in Nat \ {0} /\ i # Nobody /\ i # Scanner /\ i \notin Workers
  /\ \A w \in Workers : w # Nobody /\ w # Scanner
  /\ Nobody # Scanner
BY PrefetchAssumption DEF Items, Scanner

----------------------------------------------------------------------------
(* What the steps have in common.                                          *)

(* The order of the files is not touched by whoever only moves on. *)
LEMMA StillOrdered ==
  ASSUME TypeOK, Ordered,
         candidates' = candidates, work' = work,
         scan'.at = scan.at,
         scan' = scan \/ {scan.pc, scan'.pc} \subseteq {"pump", "pumping", "put"},
         \A i \in Items : fetch'[i] = "none" <=> fetch[i] = "none",
         \A w \in Workers : worker'[w].pc # "idle" =>
           worker[w].pc # "idle" /\ worker'[w].item = worker[w].item,
         \A i \in claimed' : Behind(i)
  PROVE  Ordered'
<1>1. /\ \A k \in 1 .. Len(candidates) : candidates[k] \in Items
      /\ \A k \in 1 .. Len(work) : work[k] \in Items
  BY Types, ElementOfSeq
<1>2. \A i \in Items : Known(i) => Known(i)'
  BY DEF Known
<1>3. \A i : Behind(i) => Behind(i)'
  BY DEF Behind
<1>4. \A k \in 1 .. Len(candidates)' :
        Known(candidates[k])' /\ fetch'[candidates'[k]] = "none"
  BY <1>1, <1>2 DEF Ordered
<1>5. \A i \in Items : fetch'[i] # "none" => Known(i)'
  BY <1>2 DEF Ordered
<1>6. \A w \in Workers : worker'[w].pc # "idle" => Behind(worker[w].item)'
  BY <1>3 DEF Ordered
<1>7. \A i \in claimed' : Behind(i)'
  BY <1>3
<1>8. scan'.pc # "end" => scan'.at <= Last
  BY DEF Ordered
<1>9. QED
  BY <1>4, <1>5, <1>6, <1>7, <1>8 DEF Ordered

(* A worker goes on with the file it has. *)
LEMMA StillWorking ==
  ASSUME TypeOK, Working, NEW w \in Workers,
         NEW p, NEW r, WorkerIs(w, p, worker[w].item, r),
         worker[w].pc # "idle",
         p \in {"idle", "start", "wait"} => r = "none"
  PROVE  Working'
BY DEF Working, WorkerIs

(* The same, when the worker is through with its file. *)
LEMMA Rests ==
  ASSUME TypeOK, Working, Pumping, Stored, Claimed, NEW w \in Workers,
         WorkerIs(w, "idle", Nobody, "none"),
         worker[w].pc \notin {"idle", "pumping", "wait"},
         UNCHANGED <<scan, pump, callback, fetch, results, claimed>>,
         \A i \in Items : i \in disk /\ i \notin disk' => i = worker[w].item
  PROVE  Working' /\ Pumping' /\ Claimed'
<1>1. Working'
  BY DEF Working, WorkerIs
<1>2. Pumping'
  BY OwnersDiffer DEF Pumping, WorkerIs
<1>3. \A v \in Workers : v # w => worker'[v] = worker[v]
  BY DEF WorkerIs
<1>4. \A v \in Workers : (worker'[v].pc \in {"start", "wait"} \/ worker'[v].res = "ok") =>
        v # w /\ worker'[v] = worker[v] /\ worker[v].pc # "idle"
             /\ worker[v].item # worker[w].item /\ worker[v].item \in Items
  BY <1>3 DEF Working, WorkerIs
<1>5. \A i \in claimed : fetch'[i] # "none" /\
        (fetch'[i] = "running" => \E v \in Workers : worker'[v].pc = "wait" /\ worker'[v].item = i)
  BY <1>3 DEF Claimed
<1>6. QED
  BY <1>1, <1>2, <1>4, <1>5 DEF Claimed, Pending

(* The futures are not touched by who comes to the pump or leaves it. *)
LEMMA StillFutures ==
  ASSUME TypeOK, Futures, UNCHANGED <<fetch, futs, results>>,
         \A i \in Items : /\ Pending(i)' = Pending(i)
                          /\ callback'[i] = "none" <=> callback[i] = "none",
         \/ pump' = pump
         \/ pump.pc # "attach" /\ pump'.pc # "attach"
  PROVE  Futures'
<1>1. \A i \in futs : Pending(i)' \/ fetch'[i] = "fatal"
  BY Types DEF Futures
<1>2. \A i \in Items : fetch'[i] # "none" /\ callback'[i] = "none" =>
        pump'.pc = "attach" /\ pump'.item = i
  BY DEF Futures
<1>3. pump'.pc = "attach" => /\ pump'.item \in Items
                             /\ fetch'[pump'.item] # "none" /\ callback'[pump'.item] = "none"
  BY DEF Futures
<1>4. QED
  BY <1>1, <1>2, <1>3 DEF Futures

(* What the callback of a download does with its result. *)
LEMMA Delivered ==
  ASSUME IInv, NEW i \in Items, Deliver(i), Pending(i), fetch[i] # "running",
         UNCHANGED <<fetch, worker>>,
         callback' \in [Items -> {"none", "attached", "pump", "pumping", "ran"}],
         callback'[i] \in {"pump", "ran"},
         \A j \in Items \ {i} : callback'[j] = callback[j],
         \/ pump'.pc \notin {"attach", "submit"} /\ pump.pc = "attach" /\ pump.item = i
         \/ pump' = pump /\ callback[i] # "none"
  PROVE  /\ futs' \subseteq futs /\ claimed' \subseteq claimed
         /\ disk' \subseteq disk /\ stop' \in BOOLEAN
         /\ results' \in [Items -> {"none", "ok", "bad"}]
         /\ Futures' /\ Stored' /\ Claimed' /\ Bounded' /\ Owned'
<1>1. /\ fetch \in [Items -> {"none", "running", "ok", "bad", "fatal"}]
      /\ results \in [Items -> {"none", "ok", "bad"}]
      /\ worker \in [Workers -> WorkerType] /\ pump \in PumpType
      /\ futs \subseteq Items /\ claimed \subseteq Items /\ disk \subseteq Items
      /\ stop \in BOOLEAN
  BY Types DEF IInv
<1>2. fetch[i] \in {"ok", "bad", "fatal"} /\ i \in futs /\ results[i] = "none"
  BY <1>1 DEF IInv, Futures, Pending
<1>3. ~Pending(i)' /\ \A j \in Items \ {i} : Pending(j)' = Pending(j)
  BY DEF Pending
<1>4. /\ futs' \subseteq futs /\ claimed' \subseteq claimed
      /\ disk' \subseteq disk /\ stop' \in BOOLEAN
      /\ futs \ {i} \subseteq futs' /\ claimed \ {i} \subseteq claimed'
      /\ i \in futs' \/ i \in claimed' => fetch[i] = "fatal"
      /\ stop => stop'
      /\ fetch[i] = "fatal" => stop'
  BY <1>1, <1>2 DEF Deliver, cache
<1>5. /\ results' \in [Items -> {"none", "ok", "bad"}]
      /\ \A j \in Items \ {i} : results'[j] = results[j]
      /\ results'[i] # "none" => results'[i] = fetch[i] /\ i \notin claimed
  BY <1>1, <1>2 DEF Deliver, cache
<1>6. /\ \A j \in disk : j # i => j \in disk'
      /\ i \in disk /\ i \notin disk' => i \notin claimed /\ results'[i] = "none"
      /\ i \in disk' /\ ~stop' => i \in claimed \/ results'[i] = fetch[i]
  BY <1>1, <1>2 DEF Deliver, cache
<1>7. Futures'
  <2>1. \A j \in Items : fetch'[j] = "none" =>
          callback'[j] = "none" /\ j \notin futs' /\ results'[j] = "none"
    BY <1>2, <1>4, <1>5 DEF IInv, Futures
  <2>2. \A j \in Items : fetch'[j] # "none" /\ callback'[j] = "none" =>
          j # i /\ pump.pc = "attach" /\ pump.item = j
    BY DEF IInv, Futures
  <2>3. i = pump.item /\ pump.pc = "attach" => callback[i] = "none"
    BY DEF IInv, Futures
  <2>4. \A j \in Items : fetch'[j] # "none" /\ callback'[j] = "none" =>
          pump'.pc = "attach" /\ pump'.item = j
    BY <2>2
  <2>5. pump'.pc = "attach" => /\ pump'.item \in Items /\ fetch'[pump'.item] # "none"
                               /\ callback'[pump'.item] = "none"
    BY <2>3 DEF IInv, Futures
  <2>6. \A j \in Items : fetch'[j] = "running" => Pending(j)'
    BY <1>3 DEF IInv, Futures
  <2>7. \A j \in Items : Pending(j)' => j \in futs' /\ results'[j] = "none"
    BY <1>3, <1>4, <1>5 DEF IInv, Futures
  <2>8. \A j \in futs' : Pending(j)' \/ fetch'[j] = "fatal"
    BY <1>1, <1>3, <1>4 DEF IInv, Futures
  <2>9. QED
    BY <2>1, <2>4, <2>5, <2>6, <2>7, <2>8 DEF Futures
<1>8. Stored'
  BY <1>1, <1>2, <1>3, <1>4, <1>5, <1>6 DEF IInv, Stored
<1>9. Claimed'
  <2>1. \A w \in Workers : worker[w].pc = "start" => worker[w].item \notin claimed'
    BY <1>4 DEF IInv, Claimed
  <2>2. ASSUME NEW w \in Workers, worker[w].pc = "wait" \/ worker[w].res = "ok"
        PROVE  /\ results'[worker[w].item] = "none"
               /\ Pending(worker[w].item)' => worker[w].item \in claimed'
               /\ fetch[worker[w].item] = "ok" => worker[w].item \in disk'
    <3>1. worker[w].item \in Items /\ (worker[w].item = i => i \in claimed)
      BY <2>2, <1>1 DEF IInv, Claimed, Working, WorkerType
    <3>2. QED
      BY <2>2, <3>1, <1>3, <1>4, <1>5, <1>6 DEF IInv, Claimed
  <2>3. QED
    BY <2>1, <2>2, <1>4 DEF IInv, Claimed
<1>10. Bounded'
  <2>1. Cardinality(futs') <= Cardinality(futs) /\ Cardinality(futs) \in Nat
        /\ Cardinality(futs') \in Nat
    BY <1>1, <1>4, FilesCounted
  <2>2. Cardinality(Cached') <= MaxCached
    <3>1. Cached \in SUBSET Items /\ Cached' \in SUBSET Items
      BY DEF Cached
    <3>2. CASE Cardinality(Cached) < MaxCached
      <4>1. Cached' \subseteq Cached \cup {i} /\ Cached \cup {i} \in SUBSET Items
        BY <1>5 DEF Cached
      <4>2. Cardinality(Cached') <= Cardinality(Cached \cup {i})
        BY <4>1, FilesCounted
      <4>3. QED
        BY <3>1, <3>2, <4>1, <4>2, FilesCounted, PrefetchAssumption
    <3>3. CASE ~(Cardinality(Cached) < MaxCached)
      <4>1. results' = results
        BY <3>3 DEF Deliver, cache
      <4>2. QED
        BY <4>1 DEF IInv, Bounded, Cached
    <3>4. QED
      BY <3>2, <3>3
  <2>3. QED
    BY <2>1, <2>2, PrefetchAssumption DEF IInv, Bounded
<1>11. Owned'
  <2> SUFFICES ASSUME ~stop', NEW j \in disk'
               PROVE  \/ Pending(j)' /\ j \notin claimed'
                      \/ results'[j] = "ok"
                      \/ \E w \in Workers :
                           worker[w].item = j /\ (worker[w].pc = "wait" \/ worker[w].res = "ok")
    BY DEF Owned
  <2>1. j \in Items /\ j \in disk /\ ~stop
    BY <1>1, <1>4
  <2>2. CASE j # i
    BY <2>1, <2>2, <1>3, <1>4, <1>5 DEF IInv, Owned
  <2>3. CASE j = i
    <3>1. fetch[i] = "ok"
      BY <2>1, <2>3 DEF IInv, Stored
    <3>2. CASE i \in claimed
      BY <2>1, <2>3, <3>2, <1>2 DEF IInv, Owned
    <3>3. CASE i \notin claimed
      BY <2>3, <3>1, <3>3, <1>6
    <3>4. QED
      BY <3>2, <3>3
  <2>4. QED
    BY <2>2, <2>3
<1>12. QED
  BY <1>4, <1>5, <1>7, <1>8, <1>9, <1>10, <1>11

----------------------------------------------------------------------------
(* The pump.                                                               *)

LEMMA PumpCheckKeeps == ASSUME IInv, PumpCheck PROVE IInv'
<1>1. \/ PumpIs("release", pump.item, pump.owner)
      \/ /\ PumpIs("submit", pump.item, pump.owner)
         /\ ~(Cardinality(futs) >= Window)
  BY PumpStep DEF IInv, PumpCheck
<1>2. TypeOK'
  BY <1>1, Types, TypesAgain DEF IInv, PumpCheck, PumpIs, cache
<1>3. Pumping'
  BY <1>1, Types DEF IInv, PumpCheck, PumpIs, Pumping
<1>4. Futures'
  BY <1>1 DEF IInv, PumpCheck, PumpIs, Futures, Pending, cache
<1>5. Bounded'
  <2>1. Cardinality(futs) \in Nat
    BY Types, FilesCounted DEF IInv
  <2>2. QED
    BY <1>1, <2>1, PrefetchAssumption
    DEF IInv, PumpCheck, PumpIs, Bounded, Cached, cache
<1>6. Ordered' /\ Working' /\ Stored' /\ Claimed' /\ Owned'
  BY DEF IInv, PumpCheck, Ordered, Known, Behind, Working, Stored, Claimed,
         Owned, Pending, cache
<1>7. QED
  BY <1>2, <1>3, <1>4, <1>5, <1>6 DEF IInv

(* A candidate has not been fetched before, and no candidate comes twice. *)
LEMMA PumpSubmitKeeps == ASSUME IInv, PumpSubmit PROVE IInv'
<1>a. /\ candidates \in Seq(Items) /\ pump \in PumpType /\ futs \subseteq Items
      /\ fetch \in [Items -> {"none", "running", "ok", "bad", "fatal"}]
      /\ worker \in [Workers -> WorkerType]
  BY Types DEF IInv
<1>1. CASE candidates = <<>>
  <2>1. PumpIs("release", pump.item, pump.owner)
    BY <1>1, PumpStep DEF IInv, PumpSubmit
  <2>2. UNCHANGED <<scan, candidates, work, fetch, callback, cache, disk, worker, done, stop>>
    BY <1>1 DEF PumpSubmit, cache
  <2>3. TypeOK'
    BY <2>1, <2>2, Types, TypesAgain DEF IInv, PumpIs, cache
  <2>4. Pumping' /\ Futures'
    BY <2>1, <2>2, Types DEF IInv, PumpSubmit, PumpIs, Pumping, Futures, Pending, cache
  <2>5. Ordered' /\ Working' /\ Stored' /\ Claimed' /\ Bounded' /\ Owned'
    BY <2>1, <2>2 DEF IInv, PumpIs, Ordered, Known, Behind, Working, Stored, Claimed,
                      Bounded, Cached, Owned, Pending, cache
  <2>6. QED
    BY <2>3, <2>4, <2>5 DEF IInv
<1>2. CASE candidates # <<>>
  <2> DEFINE i == Head(candidates)
  <2>1. /\ i \in Items /\ i = candidates[1] /\ 1 \in 1 .. Len(candidates)
        /\ Tail(candidates) \in Seq(Items)
        /\ \A k \in 1 .. Len(Tail(candidates)) :
             k + 1 \in 1 .. Len(candidates) /\ Tail(candidates)[k] = candidates[k + 1]
        /\ Len(candidates) \in Nat /\ Len(Tail(candidates)) = Len(candidates) - 1
    BY <1>a, <1>2, FirstOfQueue
  <2>2. /\ candidates' = Tail(candidates)
        /\ fetch' = [fetch EXCEPT ![i] = "running"]
        /\ futs' = futs \cup {i}
        /\ UNCHANGED <<scan, work, callback, results, claimed, disk, worker, done, stop>>
    BY <1>2 DEF PumpSubmit
  <2>3. PumpIs("attach", i, pump.owner)
    BY <1>2, <2>1, PumpStep DEF IInv, PumpSubmit
  <2>4. /\ fetch' \in [Items -> {"none", "running", "ok", "bad", "fatal"}]
        /\ fetch'[i] = "running"
        /\ \A j \in Items \ {i} : fetch'[j] = fetch[j]
    BY <1>a, <2>1, <2>2
  <2>5. TypeOK'
    BY <1>a, <2>1, <2>2, <2>3, <2>4, Types, TypesAgain DEF IInv, PumpIs
  <2>6. fetch[i] = "none" /\ Known(i)
    BY <2>1 DEF IInv, Ordered
  <2>7. /\ callback[i] = "none" /\ i \notin futs /\ results[i] = "none"
        /\ i \notin claimed /\ i \notin disk
    BY <2>1, <2>6 DEF IInv, Futures, Claimed, Stored
  <2>8. Ordered'
    <3>1. \A k \in 1 .. Len(candidates') :
            candidates'[k] \in Items /\ Known(candidates'[k]) /\ candidates'[k] # i
              /\ fetch[candidates'[k]] = "none"
      <4>1. \A k \in 1 .. Len(candidates') : candidates[1] < candidates[k + 1]
        BY <2>1, <2>2 DEF IInv, Ordered
      <4>2. \A k \in 1 .. Len(candidates) : candidates[k] \in Items
        BY <1>a, ElementOfSeq
      <4>3. QED
        BY <2>1, <2>2, <4>1, <4>2, OwnersDiffer DEF IInv, Ordered
    <3>2. \A j, k \in 1 .. Len(candidates') : j < k => candidates'[j] < candidates'[k]
      BY <2>1, <2>2 DEF IInv, Ordered
    <3>3. \A j \in Items : Known(j)' = Known(j)
      BY <2>2 DEF Known
    <3>4. \A j : Behind(j)' = Behind(j)
      BY <2>2 DEF Behind
    <3>5. \A j \in Items : fetch'[j] # "none" => Known(j)'
      BY <2>4, <2>6, <3>3 DEF IInv, Ordered
    <3>6. QED
      BY <2>2, <2>4, <3>1, <3>2, <3>3, <3>4, <3>5 DEF IInv, Ordered
  <2>9. Working'
    BY <2>2 DEF IInv, Working
  <2>10. Pumping'
    BY <2>2, <2>3 DEF IInv, PumpSubmit, PumpIs, Pumping
  <2>11. \A j \in Items \ {i} : Pending(j)' = Pending(j)
    BY <2>2, <2>4 DEF Pending
  <2>12. Futures'
    BY <2>1, <2>2, <2>3, <2>4, <2>7, <2>11, <1>a
    DEF IInv, PumpSubmit, PumpIs, Futures, Pending
  <2>13. Stored'
    BY <1>a, <2>2, <2>4, <2>7, <2>11, Types DEF IInv, Stored
  <2>14. Claimed'
    <3>1. ASSUME NEW w \in Workers, worker[w].pc = "wait" \/ worker[w].res = "ok"
          PROVE  worker[w].item \in Items \ {i}
      BY <3>1, <2>6 DEF IInv, Working, Claimed
    <3>2. QED
      BY <1>a, <2>2, <2>4, <2>7, <2>11, <3>1 DEF IInv, Claimed
  <2>15. Bounded'
    <3>1. Cardinality(futs') <= Cardinality(futs) + 1
          /\ Cardinality(futs) \in Nat /\ Cardinality(futs') \in Nat
      BY <1>a, <2>1, <2>2, FilesCounted
    <3>2. QED
      BY <2>2, <2>3, <3>1, PrefetchAssumption
      DEF IInv, PumpSubmit, PumpIs, Bounded, Cached
  <2>16. Owned'
    BY <2>2, <2>7, <2>11, Types DEF IInv, Owned
  <2>17. QED
    BY <2>5, <2>8, <2>9, <2>10, <2>12, <2>13, <2>14, <2>15, <2>16 DEF IInv
<1>3. QED
  BY <1>1, <1>2

(* The future gets its callback, or the callback runs at once. *)
LEMMA PumpAttachKeeps == ASSUME IInv, PumpAttach PROVE IInv'
<1> DEFINE i == pump.item
<1>a. /\ pump \in PumpType /\ worker \in [Workers -> WorkerType]
      /\ callback \in [Items -> {"none", "attached", "pump", "pumping", "ran"}]
  BY Types DEF IInv
<1>1. i \in Items /\ fetch[i] # "none" /\ callback[i] = "none" /\ Pending(i)
  BY DEF IInv, PumpAttach, Futures, Pending
<1>2. PumpIs("check", Nobody, pump.owner)
  BY PumpStep DEF IInv, PumpAttach
<1>3. UNCHANGED <<scan, candidates, work, fetch, worker, done>>
  BY DEF PumpAttach
<1>4. /\ callback' \in [Items -> {"none", "attached", "pump", "pumping", "ran"}]
      /\ callback'[i] \in {"attached", "ran"}
      /\ \A j \in Items \ {i} : callback'[j] = callback[j]
  BY <1>a, <1>1 DEF PumpAttach
<1>5. Working'
  BY <1>3 DEF IInv, Working
<1>6. Pumping'
  BY <1>1, <1>2, <1>3, <1>4 DEF IInv, Pumping, PumpIs, PumpAttach
<1>7. CASE fetch[i] = "running"
  <2>1. UNCHANGED <<cache, disk, stop>> /\ callback'[i] = "attached"
    BY <1>a, <1>1, <1>7 DEF PumpAttach
  <2>2. \A j \in Items : Pending(j)' = Pending(j)
    BY <1>1, <1>3, <1>4, <2>1 DEF Pending
  <2>3. TypeOK'
    BY <1>2, <1>3, <1>4, <2>1, Types, TypesAgain DEF IInv, PumpIs, cache
  <2>4. Futures'
    <3>1. \A j \in Items : fetch'[j] # "none" => callback'[j] # "none"
      BY <1>1, <1>3, <1>4 DEF IInv, Futures
    <3>2. \A j \in Items : fetch[j] = "none" => callback'[j] = "none"
      BY <1>1, <1>4 DEF IInv, Futures
    <3>3. QED
      BY <1>2, <1>3, <2>1, <2>2, <3>1, <3>2, Types DEF IInv, PumpIs, Futures, cache
  <2>5. Stored' /\ Owned'
    BY <1>3, <2>1, <2>2, Types DEF IInv, Stored, Owned, cache
  <2>6. Claimed'
    BY <1>3, <2>1, <2>2 DEF IInv, Working, Claimed, cache
  <2>7. Ordered' /\ Bounded'
    BY <1>2, <1>3, <2>1
    DEF IInv, PumpIs, Ordered, Known, Behind, Bounded, Cached, cache
  <2>8. QED
    BY <1>5, <1>6, <2>3, <2>4, <2>5, <2>6, <2>7 DEF IInv
<1>8. CASE fetch[i] # "running"
  <2>1. Deliver(i) /\ callback'[i] = "ran"
    BY <1>a, <1>1, <1>8 DEF PumpAttach
  <2>2. /\ futs' \subseteq futs /\ claimed' \subseteq claimed
        /\ disk' \subseteq disk /\ stop' \in BOOLEAN
        /\ results' \in [Items -> {"none", "ok", "bad"}]
        /\ Futures' /\ Stored' /\ Claimed' /\ Bounded' /\ Owned'
    BY <1>1, <1>2, <1>3, <1>4, <1>8, <2>1, Delivered DEF PumpAttach, PumpIs
  <2>3. TypeOK'
    BY <1>2, <1>3, <1>4, <2>2, Types, TypesAgain DEF IInv, PumpIs
  <2>4. Ordered'
    BY <1>3, <2>2, StillOrdered DEF IInv, Ordered
  <2>5. QED
    BY <1>5, <1>6, <2>2, <2>3, <2>4 DEF IInv
<1>9. QED
  BY <1>7, <1>8

LEMMA PumpReleaseKeeps == ASSUME IInv, PumpRelease PROVE IInv'
<1> DEFINE o == pump.owner
<1>a. /\ pump \in PumpType /\ worker \in [Workers -> WorkerType] /\ scan \in ScanType
      /\ callback \in [Items -> {"none", "attached", "pump", "pumping", "ran"}]
      /\ o \in {Scanner, Nobody} \cup Items \cup Workers
  BY Types DEF IInv, PumpType
<1>1. PumpIs("free", Nobody, Nobody)
  BY PumpStep DEF IInv, PumpRelease
<1>2. UNCHANGED <<candidates, work, fetch, futs, results, claimed, disk, done, stop>>
  BY DEF PumpRelease, cache
<1>3. /\ scan' \in ScanType /\ scan'.at = scan.at
      /\ scan' = scan \/ {scan.pc, scan'.pc} \subseteq {"pump", "pumping", "put"}
  <2>1. CASE o = Scanner
    <3>1. ScanIs("put", scan.at) /\ scan.pc = "pumping"
      BY <2>1, ScanStep DEF IInv, PumpRelease, Pumping
    <3>2. QED
      BY <3>1 DEF ScanIs
  <2>2. CASE o # Scanner
    BY <1>a, <2>2 DEF PumpRelease
  <2>3. QED
    BY <2>1, <2>2
<1>4. \A w \in Workers : w # o => worker'[w] = worker[w]
  BY DEF PumpRelease
<1>5. ASSUME o \in Workers
      PROVE  /\ worker[o].pc = "pumping" /\ worker'[o] \in WorkerType
             /\ worker'[o].pc = "get" /\ worker'[o].item = worker[o].item
             /\ worker'[o].res = worker[o].res
  <2>1. worker'[o] = [worker[o] EXCEPT !.pc = "get"] /\ worker[o] \in WorkerType
    BY <1>5, <1>a DEF PumpRelease
  <2>2. QED
    BY <1>5, <2>1 DEF IInv, PumpRelease, Pumping, WorkerType
<1>6. worker' \in [Workers -> WorkerType]
  <2>1. \A w \in Workers : worker'[w] \in WorkerType
    BY <1>a, <1>4, <1>5
  <2>2. worker' = [w \in Workers |-> worker'[w]]
    BY DEF PumpRelease
  <2>3. QED
    BY <2>1, <2>2
<1>7. /\ callback' \in [Items -> {"none", "attached", "pump", "pumping", "ran"}]
      /\ \A i \in Items : callback'[i] # callback[i] =>
           callback[i] = "pumping" /\ callback'[i] = "ran"
  <2>1. callback' = [i \in Items |-> IF i = o THEN "ran" ELSE callback[i]]
    BY DEF PumpRelease
  <2>2. o \in Items => callback[o] = "pumping"
    BY DEF IInv, PumpRelease, Pumping
  <2>3. QED
    BY <1>a, <2>1, <2>2
<1>8. \A w \in Workers :
        /\ worker'[w].item = worker[w].item /\ worker'[w].res = worker[w].res
        /\ worker'[w].pc # worker[w].pc => worker[w].pc = "pumping" /\ worker'[w].pc = "get"
  BY <1>4, <1>5
<1>9. \A i \in Items : Pending(i)' = Pending(i) /\ (callback'[i] = "none" <=> callback[i] = "none")
  BY <1>2, <1>7 DEF Pending
<1>10. TypeOK'
  BY <1>1, <1>2, <1>3, <1>6, <1>7, Types, TypesAgain DEF IInv, PumpIs
<1>11. Ordered'
  BY <1>2, <1>3, <1>8, StillOrdered DEF IInv, Ordered
<1>12. Working'
  BY <1>8 DEF IInv, Working
<1>13. Pumping'
  BY <1>1 DEF PumpIs, Pumping
<1>14. Futures'
  BY <1>1, <1>2, <1>9, Types DEF IInv, PumpRelease, PumpIs, Futures
<1>15. Stored'
  BY <1>2, <1>9 DEF IInv, Stored
<1>16. Claimed'
  <2>1. \A w \in Workers : worker'[w].pc \in {"start", "wait"} =>
          worker'[w].pc = worker[w].pc
    BY <1>8
  <2>2. \A w \in Workers : worker[w].pc = "wait" => worker'[w].pc = "wait"
    BY <1>8
  <2>3. ASSUME NEW w \in Workers, worker[w].pc = "wait" \/ worker[w].res = "ok"
        PROVE  worker[w].item \in Items
    BY <2>3 DEF IInv, Working
  <2>4. QED
    BY <1>2, <1>8, <1>9, <2>1, <2>2, <2>3 DEF IInv, Claimed
<1>17. Bounded'
  BY <1>1, <1>2 DEF IInv, PumpIs, Bounded, Cached
<1>18. Owned'
  <2>1. \A w \in Workers : worker[w].pc = "wait" => worker'[w].pc = "wait"
    BY <1>8
  <2>2. QED
    BY <1>2, <1>8, <1>9, <2>1, Types DEF IInv, Owned
<1>19. QED
  BY <1>10, <1>11, <1>12, <1>13, <1>14, <1>15, <1>16, <1>17, <1>18 DEF IInv

----------------------------------------------------------------------------
(* The pool.                                                               *)

LEMMA FetchEndsKeeps ==
  ASSUME IInv, NEW i \in Items, NEW o \in {"ok", "bad", "fatal"}, FetchEnds(i, o)
  PROVE  IInv'
<1>a. /\ fetch \in [Items -> {"none", "running", "ok", "bad", "fatal"}]
      /\ worker \in [Workers -> WorkerType] /\ disk \subseteq Items
  BY Types DEF IInv
<1>1. /\ fetch' \in [Items -> {"none", "running", "ok", "bad", "fatal"}]
      /\ fetch[i] = "running" /\ fetch'[i] = o
      /\ \A j \in Items \ {i} : fetch'[j] = fetch[j]
  BY <1>a DEF FetchEnds
<1>2. disk' = IF o = "ok" THEN disk \cup {i} ELSE disk
  BY DEF FetchEnds
<1>3. UNCHANGED <<scan, candidates, work, pump, callback, futs, results, claimed, worker, done, stop>>
  BY DEF FetchEnds, cache
<1>4. TypeOK'
  BY <1>1, <1>2, <1>3, Types, TypesAgain DEF IInv
<1>5. Pending(i) /\ i \in futs /\ results[i] = "none" /\ i \notin disk
  BY <1>1 DEF IInv, Futures, Stored
<1>6. \A j \in Items : Pending(j)' = Pending(j) /\ (fetch'[j] = "none" <=> fetch[j] = "none")
  BY <1>1, <1>3 DEF Pending
<1>7. Ordered'
  BY <1>3, <1>6, StillOrdered DEF IInv, Ordered
<1>8. Working' /\ Pumping' /\ Bounded'
  BY <1>3 DEF IInv, Working, Pumping, Bounded, Cached
<1>9. Futures'
  <2>1. \A j \in futs : Pending(j)' \/ fetch'[j] = "fatal"
    BY <1>1, <1>6, Types DEF IInv, Futures
  <2>2. \A j \in Items : fetch'[j] = "running" => Pending(j)'
    BY <1>1, <1>6 DEF IInv, Futures
  <2>3. QED
    BY <1>1, <1>3, <1>6, <2>1, <2>2 DEF IInv, Futures
<1>10. Stored'
  BY <1>1, <1>2, <1>3, <1>5, <1>6, <1>a DEF IInv, Stored
<1>11. Claimed'
  <2>1. \A w \in Workers : worker[w].res = "ok" => fetch'[worker[w].item] = "ok"
    BY <1>a, <1>1 DEF IInv, Claimed, Working
  <2>2. ASSUME NEW w \in Workers, worker[w].pc = "wait" \/ worker[w].res = "ok"
        PROVE  /\ worker[w].item \in Items
               /\ fetch'[worker[w].item] = "ok" => worker[w].item \in disk'
    BY <2>2, <1>1, <1>2 DEF IInv, Working, Claimed
  <2>3. \A j \in claimed : j \in Items
    BY Types DEF IInv
  <2>4. QED
    BY <1>1, <1>3, <1>6, <2>1, <2>2, <2>3 DEF IInv, Claimed
<1>12. Owned'
  <2> SUFFICES ASSUME ~stop, NEW j \in disk'
               PROVE  \/ Pending(j)' /\ j \notin claimed
                      \/ results[j] = "ok"
                      \/ \E w \in Workers :
                           worker[w].item = j /\ (worker[w].pc = "wait" \/ worker[w].res = "ok")
    BY <1>3 DEF Owned
  <2>1. CASE j \in disk
    BY <1>a, <1>6, <2>1 DEF IInv, Owned
  <2>2. CASE j \notin disk
    BY <1>1, <1>2, <1>5, <1>6, <2>2 DEF IInv, Claimed
  <2>3. QED
    BY <2>1, <2>2
<1>13. QED
  BY <1>4, <1>7, <1>8, <1>9, <1>10, <1>11, <1>12 DEF IInv

LEMMA CallbackKeeps == ASSUME IInv, NEW i \in Items, Callback(i) PROVE IInv'
<1>a. /\ callback \in [Items -> {"none", "attached", "pump", "pumping", "ran"}]
      /\ fetch \in [Items -> {"none", "running", "ok", "bad", "fatal"}]
  BY Types DEF IInv
<1>1. /\ Deliver(i) /\ callback[i] = "attached" /\ fetch[i] # "running"
      /\ UNCHANGED <<scan, candidates, work, pump, fetch, worker, done>>
  BY DEF Callback
<1>2. /\ callback' \in [Items -> {"none", "attached", "pump", "pumping", "ran"}]
      /\ callback'[i] \in {"pump", "ran"}
      /\ \A j \in Items \ {i} : callback'[j] = callback[j]
  BY <1>a DEF Callback
<1>3. Pending(i)
  BY <1>a, <1>1 DEF IInv, Futures, Pending
<1>4. /\ futs' \subseteq futs /\ claimed' \subseteq claimed
      /\ disk' \subseteq disk /\ stop' \in BOOLEAN
      /\ results' \in [Items -> {"none", "ok", "bad"}]
      /\ Futures' /\ Stored' /\ Claimed' /\ Bounded' /\ Owned'
  BY <1>1, <1>2, <1>3, Delivered
<1>5. TypeOK'
  BY <1>1, <1>2, <1>4, Types, TypesAgain DEF IInv
<1>6. Ordered'
  BY <1>1, <1>4, StillOrdered DEF IInv, Ordered
<1>7. Working' /\ Pumping'
  BY <1>1, <1>2 DEF IInv, Working, Pumping
<1>8. QED
  BY <1>4, <1>5, <1>6, <1>7 DEF IInv

(* A caller of pump_prefetch gets in or goes on. *)
LEMMA CallbackPumpKeeps == ASSUME IInv, NEW i \in Items, CallbackPump(i) PROVE IInv'
<1>a. /\ callback \in [Items -> {"none", "attached", "pump", "pumping", "ran"}]
      /\ pump \in PumpType
  BY Types DEF IInv
<1>1. UNCHANGED <<scan, candidates, work, fetch, futs, results, claimed, disk, worker, done, stop>>
  BY DEF CallbackPump, cache
<1>2. /\ callback' \in [Items -> {"none", "attached", "pump", "pumping", "ran"}]
      /\ callback[i] = "pump"
      /\ callback'[i] = IF Enters THEN "pumping" ELSE "ran"
      /\ \A j \in Items \ {i} : callback'[j] = callback[j]
  BY <1>a DEF CallbackPump
<1>3. \/ Enters /\ pump.pc = "free" /\ PumpIs("check", Nobody, i)
      \/ ~Enters /\ pump' = pump
  BY PumpStep DEF IInv, CallbackPump, Enters
<1>4. pump' \in PumpType
  BY <1>a, <1>3 DEF PumpIs
<1>5. \A j \in Items : Pending(j)' = Pending(j) /\ (callback'[j] = "none" <=> callback[j] = "none")
  BY <1>1, <1>2 DEF Pending
<1>6. TypeOK'
  BY <1>1, <1>2, <1>4, Types, TypesAgain DEF IInv
<1>7. Ordered' /\ Working'
  BY <1>1 DEF IInv, Ordered, Known, Behind, Working
<1>8. Pumping'
  <2>1. CASE Enters
    BY <1>2, <1>3, <2>1, OwnersDiffer DEF PumpIs, Pumping
  <2>2. CASE ~Enters
    BY <1>1, <1>2, <1>3, <2>2 DEF IInv, Pumping
  <2>3. QED
    BY <2>1, <2>2
<1>9. Futures'
  BY <1>1, <1>3, <1>5, StillFutures DEF IInv, PumpIs
<1>10. Stored' /\ Owned'
  BY <1>1, <1>5, Types DEF IInv, Stored, Owned
<1>11. Claimed'
  BY <1>1, <1>5 DEF IInv, Working, Claimed
<1>12. Bounded'
  BY <1>1, <1>3 DEF IInv, PumpIs, Bounded, Cached
<1>13. QED
  BY <1>6, <1>7, <1>8, <1>9, <1>10, <1>11, <1>12 DEF IInv

----------------------------------------------------------------------------
(* The scan thread.                                                        *)

LEMMA OfferKeeps == ASSUME IInv, Offer PROVE IInv'
<1>a. /\ candidates \in Seq(Items) /\ work \in Seq(Items) /\ scan \in ScanType
      /\ Len(candidates) \in Nat
  BY Types, LenProperties DEF IInv
<1>1. UNCHANGED <<work, pump, fetch, callback, futs, results, claimed, disk, worker, done, stop>>
  BY DEF Offer, cache
<1>2. scan.pc = "offer" /\ scan.at \in Items
  BY <1>a, PrefetchAssumption DEF IInv, Offer, Ordered, ScanType, Items
<1>3. \/ ScanIs("put", scan.at) /\ candidates' = candidates
      \/ ScanIs("pump", scan.at) /\ candidates' = Append(candidates, scan.at)
  BY ScanStep DEF IInv, Offer
<1>4. scan' \in ScanType /\ scan'.at = scan.at /\ scan'.pc \in {"pump", "put"}
  BY <1>3 DEF ScanIs
<1>5. candidates' \in Seq(Items)
  BY <1>a, <1>2, <1>3, EndOfQueue
<1>6. TypeOK'
  BY <1>1, <1>4, <1>5, Types, TypesAgain DEF IInv
<1>7. Ordered'
  <2>1. /\ \A i \in Items : Known(i) => Known(i)' /\ i # scan.at
        /\ \A i \in Items : i = scan.at => Known(i)'
    BY <1>2, <1>4, OwnersDiffer DEF Known
  <2>2. \A i : Behind(i)' = Behind(i)
    BY <1>1, <1>4 DEF Behind
  <2>3. fetch[scan.at] = "none"
    BY <1>2, <2>1 DEF IInv, Ordered
  <2>4. \A k \in 1 .. Len(candidates) : /\ candidates[k] \in Items
                                        /\ candidates[k] < scan.at
    BY <1>a, <1>2, ElementOfSeq, OwnersDiffer DEF IInv, Ordered, Known
  <2>5. /\ \A j, k \in 1 .. Len(candidates') : j < k => candidates'[j] < candidates'[k]
        /\ \A k \in 1 .. Len(candidates') :
             \E i \in Items : candidates'[k] = i /\ Known(i)' /\ fetch[i] = "none"
    <3>1. CASE candidates' = candidates
      BY <3>1, <2>1, <2>4 DEF IInv, Ordered
    <3>2. CASE candidates' = Append(candidates, scan.at)
      <4>1. /\ Len(candidates') = Len(candidates) + 1
            /\ \A k \in 1 .. Len(candidates') :
                 candidates'[k] = IF k = Len(candidates) + 1 THEN scan.at ELSE candidates[k]
        BY <3>2, <1>a, <1>2, EndOfQueue
      <4>2. \A k \in 1 .. Len(candidates') :
              k \in 1 .. Len(candidates) \/ k = Len(candidates) + 1
        BY <1>a, <4>1
      <4>3. \A j, k \in 1 .. Len(candidates') : j < k =>
              j \in 1 .. Len(candidates) /\ j # Len(candidates) + 1
        BY <1>a, <4>1
      <4>4. \A j, k \in 1 .. Len(candidates) : j < k => candidates[j] < candidates[k]
        BY DEF IInv, Ordered
      <4>5. \A j, k \in 1 .. Len(candidates') : j < k => candidates'[j] < candidates'[k]
        BY <1>a, <1>2, <2>4, <4>1, <4>2, <4>3, <4>4
      <4>6. \A k \in 1 .. Len(candidates) : Known(candidates[k]) /\ fetch[candidates[k]] = "none"
        BY DEF IInv, Ordered
      <4>7. ASSUME NEW k \in 1 .. Len(candidates')
            PROVE  \E i \in Items : candidates'[k] = i /\ Known(i)' /\ fetch[i] = "none"
        <5>1. CASE k = Len(candidates) + 1
          BY <5>1, <1>2, <2>1, <2>3, <4>1
        <5>2. CASE k # Len(candidates) + 1
          <6>1. k \in 1 .. Len(candidates) /\ candidates'[k] = candidates[k]
            BY <5>2, <4>1, <4>2
          <6>2. QED
            BY <6>1, <2>1, <2>4, <4>6
        <5>3. QED
          BY <5>1, <5>2
      <4>8. QED
        BY <4>5, <4>7
    <3>3. QED
      BY <1>3, <3>1, <3>2
  <2>6. scan'.at <= Last
    BY <1>2, <1>4, OwnersDiffer DEF Items
  <2>7. \A i \in Items : fetch'[i] # "none" => Known(i)'
    BY <1>1, <2>1 DEF IInv, Ordered
  <2>8. \A k \in 1 .. Len(candidates') :
          Known(candidates[k])' /\ fetch'[candidates'[k]] = "none"
    BY <1>1, <2>5
  <2>9. QED
    BY <1>1, <1>4, <2>2, <2>5, <2>6, <2>7, <2>8 DEF IInv, Ordered
<1>8. Pumping'
  BY <1>1, <1>2 DEF IInv, Pumping
<1>9. Working' /\ Futures' /\ Stored' /\ Claimed' /\ Bounded' /\ Owned'
  BY <1>1 DEF IInv, Working, Futures, Stored, Claimed, Bounded, Cached, Owned, Pending
<1>10. QED
  BY <1>6, <1>7, <1>8, <1>9 DEF IInv

LEMMA OfferPumpKeeps == ASSUME IInv, OfferPump PROVE IInv'
<1>a. pump \in PumpType /\ scan \in ScanType
  BY Types DEF IInv
<1>1. UNCHANGED <<candidates, work, fetch, callback, futs, results, claimed, disk, worker, done, stop>>
  BY DEF OfferPump, cache
<1>2. \/ /\ Enters /\ pump.pc = "free" /\ PumpIs("check", Nobody, Scanner)
         /\ ScanIs("pumping", scan.at)
      \/ ~Enters /\ pump' = pump /\ ScanIs("put", scan.at)
  BY PumpStep, ScanStep DEF IInv, OfferPump, Enters
<1>3. /\ scan' \in ScanType /\ scan'.at = scan.at /\ pump' \in PumpType
      /\ scan.pc = "pump" /\ scan'.pc \in {"pumping", "put"}
  BY <1>a, <1>2 DEF PumpIs, ScanIs, OfferPump
<1>4. TypeOK'
  BY <1>1, <1>3, Types, TypesAgain DEF IInv
<1>5. Ordered'
  BY <1>1, <1>3, StillOrdered DEF IInv, Ordered
<1>6. Pumping'
  <2>1. CASE Enters
    BY <1>2, <2>1, OwnersDiffer DEF PumpIs, ScanIs, Pumping
  <2>2. CASE ~Enters
    BY <1>1, <1>2, <1>3, <2>2 DEF IInv, Pumping
  <2>3. QED
    BY <2>1, <2>2
<1>7. Futures'
  BY <1>1, <1>2, StillFutures DEF IInv, PumpIs, Pending
<1>8. Bounded'
  BY <1>1, <1>2 DEF IInv, PumpIs, Bounded, Cached
<1>9. Working' /\ Stored' /\ Claimed' /\ Owned'
  BY <1>1 DEF IInv, Working, Stored, Claimed, Owned, Pending
<1>10. QED
  BY <1>4, <1>5, <1>6, <1>7, <1>8, <1>9 DEF IInv

LEMMA PutKeeps == ASSUME IInv, Put PROVE IInv'
<1>a. work \in Seq(Items) /\ candidates \in Seq(Items) /\ scan \in ScanType /\ Len(work) \in Nat
  BY Types, LenProperties DEF IInv
<1>1. UNCHANGED <<candidates, pump, fetch, callback, futs, results, claimed, disk, worker, done, stop>>
  BY DEF Put, cache
<1>2. scan.pc = "put" /\ scan.at \in Items
  BY <1>a, PrefetchAssumption DEF IInv, Put, Ordered, ScanType, Items
<1>3. /\ scan' \in ScanType /\ scan'.at = scan.at + 1 /\ scan'.pc \in {"end", "offer"}
      /\ scan'.pc # "end" => scan'.at <= Last
  BY <1>2, PrefetchAssumption DEF Put, ScanType, Items
<1>4. work' \in Seq(Items)
  BY <1>a, <1>2, EndOfQueue DEF Put
<1>5. TypeOK'
  BY <1>1, <1>3, <1>4, Types, TypesAgain DEF IInv
<1>6. /\ \A j, k \in 1 .. Len(work') : j < k => work'[j] < work'[k]
      /\ \A k \in 1 .. Len(work') : work'[k] \in Items /\ work'[k] < scan.at + 1
      /\ \A i \in Items : Behind(i) => Behind(i)'
  <2>1. \A k \in 1 .. Len(work) : work[k] \in Items /\ work[k] < scan.at
    BY <1>a, ElementOfSeq DEF IInv, Ordered
  <2>2. CASE stop
    <3>1. work' = work
      BY <2>2 DEF Put
    <3>2. \A j, k \in 1 .. Len(work) : j < k => work[j] < work[k]
      BY DEF IInv, Ordered
    <3>3. scan.at \in Nat
      BY <1>2, OwnersDiffer
    <3>4. \A k \in 1 .. Len(work') : work'[k] \in Items /\ work'[k] < scan.at + 1
      BY <2>1, <3>1, <3>3, OwnersDiffer
    <3>5. \A i \in Items : Behind(i) => Behind(i)'
      BY <1>2, <1>3, <3>1, OwnersDiffer DEF Behind
    <3>6. QED
      BY <3>1, <3>2, <3>4, <3>5
  <2>3. CASE ~stop
    <3>1. /\ Len(work') = Len(work) + 1
          /\ \A k \in 1 .. Len(work') :
               work'[k] = IF k = Len(work) + 1 THEN scan.at ELSE work[k]
      BY <1>a, <1>2, <2>3, EndOfQueue DEF Put
    <3>2. \A k \in 1 .. Len(work') : k \in 1 .. Len(work) \/ k = Len(work) + 1
      BY <1>a, <3>1
    <3>3. \A j, k \in 1 .. Len(work') : j < k =>
            j \in 1 .. Len(work) /\ j # Len(work) + 1
      BY <1>a, <3>1
    <3>4. \A j, k \in 1 .. Len(work) : j < k => work[j] < work[k]
      BY DEF IInv, Ordered
    <3>5. \A j, k \in 1 .. Len(work') : j < k => work'[j] < work'[k]
      BY <1>a, <1>2, <2>1, <3>1, <3>2, <3>3, <3>4
    <3>6. \A k \in 1 .. Len(work') : work'[k] \in Items /\ work'[k] < scan.at + 1
      BY <1>2, <2>1, <3>1, <3>2, OwnersDiffer
    <3>7. \A i \in Items : Behind(i) => Behind(i)'
      BY <1>2, <1>3, <3>1, <3>2, OwnersDiffer DEF Behind
    <3>8. QED
      BY <3>5, <3>6, <3>7
  <2>4. QED
    BY <2>2, <2>3
<1>7. Ordered'
  <2>1. \A i \in Items : Known(i) => Known(i)'
    BY <1>2, <1>3, OwnersDiffer DEF Known
  <2>2. \A k \in 1 .. Len(candidates) : candidates[k] \in Items
    BY <1>a, ElementOfSeq
  <2>3. \A w \in Workers : worker[w].pc # "idle" => worker[w].item \in Items
    BY DEF IInv, Working
  <2>4. \A i \in claimed : i \in Items
    BY Types DEF IInv
  <2>5. QED
    BY <1>1, <1>3, <1>6, <2>1, <2>2, <2>3, <2>4 DEF IInv, Ordered
<1>8. Pumping'
  BY <1>1, <1>2 DEF IInv, Pumping
<1>9. Working' /\ Futures' /\ Stored' /\ Claimed' /\ Bounded' /\ Owned'
  BY <1>1 DEF IInv, Working, Futures, Stored, Claimed, Bounded, Cached, Owned, Pending
<1>10. QED
  BY <1>5, <1>7, <1>8, <1>9 DEF IInv

----------------------------------------------------------------------------
(* The workers.                                                            *)

LEMMA TakeKeeps == ASSUME IInv, NEW w \in Workers, Take(w) PROVE IInv'
<1> DEFINE i == Head(work)
<1>a. /\ work \in Seq(Items) /\ scan \in ScanType /\ worker \in [Workers -> WorkerType]
      /\ claimed \subseteq Items /\ worker[w].res = "none"
  BY Types DEF IInv, Take, Working
<1>1. /\ i \in Items /\ i = work[1] /\ 1 \in 1 .. Len(work)
      /\ Tail(work) \in Seq(Items)
      /\ \A k \in 1 .. Len(Tail(work)) :
           k + 1 \in 1 .. Len(work) /\ Tail(work)[k] = work[k + 1]
      /\ Len(work) \in Nat /\ Len(Tail(work)) = Len(work) - 1
  BY <1>a, FirstOfQueue DEF Take
<1>2. /\ worker[w].pc = "idle" /\ work' = Tail(work)
      /\ UNCHANGED <<scan, candidates, pump, fetch, callback, futs, results, claimed, disk, done, stop>>
  BY DEF Take, cache
<1>3. WorkerIs(w, "start", i, "none")
  BY <1>a, <1>1, WorkerStep DEF IInv, Take
<1>4. TypeOK'
  BY <1>1, <1>2, <1>3, Types, TypesAgain DEF IInv, WorkerIs
<1>5. i < scan.at /\ \A j \in Items : Behind(j) => Behind(j)' /\ j # i
  <2>1. i < scan.at
    BY <1>1 DEF IInv, Ordered
  <2>2. ASSUME NEW j \in Items, Behind(j)
        PROVE  Behind(j)' /\ j # i
    <3>1. j < i
      BY <1>1, <2>2 DEF Behind
    <3>2. \A k \in 1 .. Len(work') : j < work'[k]
      BY <1>1, <1>2, <2>2 DEF Behind
    <3>3. QED
      BY <1>1, <1>2, <2>2, <3>1, <3>2, OwnersDiffer DEF Behind
  <2>3. QED
    BY <2>1, <2>2
<1>6. /\ \A j, k \in 1 .. Len(work') : j < k => work'[j] < work'[k]
      /\ \A k \in 1 .. Len(work') : work'[k] < scan.at
      /\ \A j \in Items : j = i => Behind(j)'
  BY <1>1, <1>2, <1>5 DEF IInv, Ordered, Behind
<1>7. i \notin claimed
  BY <1>1, <1>5 DEF IInv, Ordered
<1>8. Ordered'
  <2>1. ASSUME NEW v \in Workers, worker'[v].pc # "idle"
        PROVE  Behind(worker[v].item)'
    <3>1. CASE v = w
      BY <3>1, <1>1, <1>3, <1>6 DEF WorkerIs
    <3>2. CASE v # w
      BY <2>1, <3>2, <1>3, <1>5 DEF IInv, Ordered, Working, WorkerIs
    <3>3. QED
      BY <3>1, <3>2
  <2>2. \A j \in claimed : Behind(j)'
    BY <1>a, <1>5 DEF IInv, Ordered
  <2>3. \A j : Known(j)' = Known(j)
    BY <1>2 DEF Known
  <2>4. /\ scan'.pc # "end" => scan'.at <= Last
        /\ \A j, k \in 1 .. Len(candidates') : j < k => candidates'[j] < candidates'[k]
        /\ \A k \in 1 .. Len(candidates') :
             Known(candidates[k])' /\ fetch'[candidates'[k]] = "none"
        /\ \A j \in Items : fetch'[j] # "none" => Known(j)'
    BY <1>2, <2>3 DEF IInv, Ordered
  <2>5. QED
    BY <1>2, <1>6, <2>1, <2>2, <2>4 DEF Ordered
<1>9. Working'
  <2>1. ASSUME NEW v \in Workers, v # w, worker[v].pc # "idle"
        PROVE  worker[v].item \in Items /\ worker[v].item # i
    BY <2>1, <1>5 DEF IInv, Ordered, Working
  <2>2. QED
    BY <1>1, <1>2, <1>3, <2>1 DEF IInv, Working, WorkerIs
<1>10. Pumping'
  BY <1>2, <1>3 DEF IInv, Pumping, WorkerIs
<1>11. Futures' /\ Stored' /\ Bounded'
  BY <1>2 DEF IInv, Futures, Stored, Bounded, Cached, Pending
<1>12. Claimed'
  <2>1. \A v \in Workers : worker'[v].pc = "start" => worker'[v].item \notin claimed
    BY <1>3, <1>7 DEF IInv, Claimed, WorkerIs
  <2>2. \A v \in Workers : worker'[v].pc = "wait" \/ worker'[v].res = "ok" =>
          worker'[v] = worker[v]
    BY <1>3 DEF WorkerIs
  <2>3. \A v \in Workers : worker[v].pc = "wait" => worker'[v] = worker[v]
    BY <1>2, <1>3 DEF WorkerIs
  <2>4. \A j \in claimed : fetch[j] # "none" /\
          (fetch[j] = "running" => \E v \in Workers : worker'[v].pc = "wait" /\ worker'[v].item = j)
    BY <2>3 DEF IInv, Claimed
  <2>5. QED
    BY <1>2, <2>1, <2>2, <2>4 DEF IInv, Claimed, Pending
<1>13. Owned'
  <2>1. \A v \in Workers : worker[v].pc = "wait" \/ worker[v].res = "ok" =>
          worker'[v] = worker[v]
    BY <1>a, <1>2, <1>3 DEF WorkerIs
  <2>2. QED
    BY <1>2, <2>1 DEF IInv, Owned, Pending
<1>14. QED
  BY <1>4, <1>8, <1>9, <1>10, <1>11, <1>12, <1>13 DEF IInv

LEMMA SkipKeeps == ASSUME IInv, NEW w \in Workers, Skip(w) PROVE IInv'
<1>1. /\ UNCHANGED <<scan, candidates, work, pump, fetch, callback, futs, results, claimed, disk, stop>>
      /\ worker[w].pc = "start" /\ worker[w].item \in Items
      /\ worker[w].res = "none"
      /\ done' = done \cup {worker[w].item}
  BY DEF IInv, Working, Skip, Ends, cache
<1>2. WorkerIs(w, "idle", Nobody, "none")
  BY WorkerStep DEF IInv, Skip
<1>3. TypeOK'
  BY <1>1, <1>2, Types, TypesAgain DEF IInv, WorkerIs
<1>4. Ordered'
  BY <1>1, <1>2, StillOrdered DEF IInv, Ordered, WorkerIs
<1>5. Working' /\ Pumping' /\ Claimed'
  BY <1>1, <1>2, Rests DEF IInv
<1>6. Futures' /\ Stored' /\ Bounded'
  BY <1>1 DEF IInv, Futures, Stored, Bounded, Cached, Pending
<1>7. Owned'
  <2>1. \A v \in Workers : worker[v].pc = "wait" \/ worker[v].res = "ok" =>
          worker'[v] = worker[v]
    BY <1>1, <1>2 DEF WorkerIs
  <2>2. QED
    BY <1>1, <2>1 DEF IInv, Owned, Pending
<1>8. QED
  BY <1>3, <1>4, <1>5, <1>6, <1>7 DEF IInv

(* Downloads a worker makes for itself do not concern the window. *)
LEMMA DownloadKeeps == ASSUME IInv, NEW w \in Workers, Download(w) PROVE IInv'
<1>1. /\ UNCHANGED <<scan, candidates, work, pump, fetch, callback, futs, results, claimed, disk, stop>>
      /\ worker[w].pc = "get" /\ worker[w].item \in Items
      /\ worker[w].res = "ok" => worker[w].item \notin disk
      /\ done' = done \cup {worker[w].item}
  BY DEF IInv, Working, Download, Ends, cache
<1>2. WorkerIs(w, "idle", Nobody, "none")
  BY WorkerStep DEF IInv, Download
<1>3. TypeOK'
  BY <1>1, <1>2, Types, TypesAgain DEF IInv, WorkerIs
<1>4. Ordered'
  BY <1>1, <1>2, StillOrdered DEF IInv, Ordered, WorkerIs
<1>5. Working' /\ Pumping' /\ Claimed'
  BY <1>1, <1>2, Rests DEF IInv
<1>6. Futures' /\ Stored' /\ Bounded'
  BY <1>1 DEF IInv, Futures, Stored, Bounded, Cached, Pending
<1>7. Owned'
  <2>1. \A v \in Workers : v # w => worker'[v] = worker[v]
    BY <1>2 DEF WorkerIs
  <2>2. QED
    BY <1>1, <2>1 DEF IInv, Owned, Pending
<1>8. QED
  BY <1>3, <1>4, <1>5, <1>6, <1>7 DEF IInv

(* The file that is used belongs to nobody else. *)
LEMMA UseKeeps == ASSUME IInv, NEW w \in Workers, Use(w) PROVE IInv'
<1> DEFINE i == worker[w].item
<1>1. /\ UNCHANGED <<scan, candidates, work, pump, fetch, callback, futs, results, claimed, stop>>
      /\ worker[w].pc = "get" /\ i \in Items /\ worker[w].res = "ok"
      /\ disk' = disk \ {i} /\ done' = done \cup {i}
  BY DEF IInv, Working, Use, Ends, cache
<1>2. WorkerIs(w, "idle", Nobody, "none")
  BY WorkerStep DEF IInv, Use
<1>3. TypeOK'
  BY <1>1, <1>2, Types, TypesAgain DEF IInv, WorkerIs
<1>4. Ordered'
  BY <1>1, <1>2, StillOrdered DEF IInv, Ordered, WorkerIs
<1>5. Working' /\ Pumping' /\ Claimed'
  BY <1>1, <1>2, Rests DEF IInv
<1>6. results[i] = "none" /\ (Pending(i) => i \in claimed)
  BY <1>1 DEF IInv, Claimed
<1>7. Futures' /\ Bounded'
  BY <1>1 DEF IInv, Futures, Bounded, Cached, Pending
<1>8. Stored'
  BY <1>1, <1>6 DEF IInv, Stored, Pending
<1>9. Owned'
  <2>1. \A v \in Workers : v # w => worker'[v] = worker[v]
    BY <1>2 DEF WorkerIs
  <2>2. \A j \in disk' : j \in disk /\ j # i
    BY <1>1
  <2>3. QED
    BY <1>1, <2>1, <2>2 DEF IInv, Owned, Pending
<1>10. QED
  BY <1>3, <1>4, <1>5, <1>7, <1>8, <1>9 DEF IInv

(* A result leaves the cache with the worker, a download is claimed. *)
LEMMA ClaimKeeps == ASSUME IInv, NEW w \in Workers, Claim(w) PROVE IInv'
<1> DEFINE i == worker[w].item
<1>a. /\ worker \in [Workers -> WorkerType] /\ claimed \subseteq Items
      /\ results \in [Items -> {"none", "ok", "bad"}] /\ disk \subseteq Items
  BY Types DEF IInv
<1>1. /\ UNCHANGED <<scan, candidates, work, pump, fetch, callback, futs, disk, done, stop>>
      /\ worker[w].pc = "start" /\ worker[w].res = "none"
      /\ i \in Items /\ i \notin claimed /\ Behind(i)
  BY DEF IInv, Ordered, Working, Claimed, Claim
<1>2. \/ /\ results[i] # "none" /\ results' = [results EXCEPT ![i] = "none"]
         /\ claimed' = claimed /\ WorkerIs(w, "pump", i, results[i])
      \/ /\ results[i] = "none" /\ i \in futs /\ results' = results
         /\ claimed' = claimed \cup {i} /\ WorkerIs(w, "wait", i, "none")
      \/ /\ results[i] = "none" /\ i \notin futs /\ results' = results
         /\ claimed' = claimed /\ WorkerIs(w, "pump", i, "none")
  BY <1>a, <1>1, WorkerStep DEF IInv, Claim
<1>3. /\ results' \in [Items -> {"none", "ok", "bad"}] /\ results'[i] = "none"
      /\ \A j \in Items \ {i} : results'[j] = results[j]
  BY <1>a, <1>1, <1>2
<1>4. /\ worker' \in [Workers -> WorkerType] /\ worker'[w].item = i
      /\ worker'[w].pc \in {"pump", "wait"}
      /\ worker'[w].pc = "wait" => worker'[w].res = "none"
      /\ worker'[w].res = results[i]
      /\ \A v \in Workers : v # w => worker'[v] = worker[v]
  BY <1>2 DEF WorkerIs
<1>5. TypeOK'
  BY <1>1, <1>2, <1>3, <1>4, Types, TypesAgain DEF IInv
<1>6. \A v \in Workers : v # w /\ worker[v].pc # "idle" =>
        worker[v].item \in Items /\ worker[v].item # i
  BY <1>1 DEF IInv, Working
<1>7. Ordered'
  BY <1>1, <1>2, <1>4, StillOrdered DEF IInv, Ordered
<1>8. Working'
  BY <1>1, <1>4, <1>6 DEF IInv, Working
<1>9. Pumping'
  BY <1>1, <1>4 DEF IInv, Pumping
<1>10. \A j \in Items : Pending(j)' = Pending(j)
  BY <1>1 DEF Pending
<1>11. Futures'
  <2>1. \A j \in Items : results[j] = "none" => results'[j] = "none"
    BY <1>3
  <2>2. QED
    BY <1>1, <1>10, <2>1, Types DEF IInv, Futures
<1>12. Stored'
  BY <1>1, <1>2, <1>3, <1>10 DEF IInv, Stored
<1>13. Claimed'
  <2>1. \A v \in Workers : worker'[v].pc = "start" =>
          v # w /\ worker'[v].item \notin claimed'
    BY <1>2, <1>4, <1>6 DEF IInv, Claimed
  <2>2. \A v \in Workers : worker'[v].res = "ok" => fetch[worker'[v].item] = "ok"
    BY <1>1, <1>4 DEF IInv, Claimed, Stored
  <2>3. ASSUME NEW v \in Workers, worker'[v].pc = "wait" \/ worker'[v].res = "ok"
        PROVE  /\ results'[worker'[v].item] = "none"
               /\ fetch[worker'[v].item] # "none"
               /\ Pending(worker'[v].item) => worker'[v].item \in claimed'
               /\ fetch[worker'[v].item] = "ok" => worker'[v].item \in disk
    <3>1. CASE v # w
      <4>1. worker'[v] = worker[v] /\ worker[v].item \in Items \ {i}
        BY <2>3, <3>1, <1>4, <1>6 DEF IInv, Working
      <4>2. QED
        BY <2>3, <4>1, <1>2, <1>3 DEF IInv, Claimed
    <3>2. CASE v = w /\ results[i] # "none"
      <4>1. worker'[w].res = "ok" /\ results[i] = "ok"
        BY <2>3, <3>2, <1>2, <1>4 DEF WorkerIs
      <4>2. ~Pending(i) /\ i \in disk /\ fetch[i] # "none"
        BY <4>1, <1>1 DEF IInv, Futures, Stored
      <4>3. QED
        BY <3>2, <4>2, <1>3, <1>4
    <3>3. CASE v = w /\ results[i] = "none"
      <4>1. i \in futs /\ claimed' = claimed \cup {i}
        BY <2>3, <3>3, <1>2, <1>4 DEF WorkerIs
      <4>2. fetch[i] # "none" /\ (fetch[i] = "ok" => i \in disk)
        BY <4>1, <1>1 DEF IInv, Futures, Stored
      <4>3. QED
        BY <3>3, <4>1, <4>2, <1>3, <1>4
    <3>4. QED
      BY <3>1, <3>2, <3>3
  <2>4. ASSUME NEW j \in claimed'
        PROVE  /\ fetch[j] # "none"
               /\ fetch[j] = "running" =>
                    \E v \in Workers : worker'[v].pc = "wait" /\ worker'[v].item = j
    <3>1. CASE j \in claimed
      BY <3>1, <1>1, <1>4 DEF IInv, Claimed
    <3>2. CASE j \notin claimed
      <4>1. j = i /\ i \in futs /\ worker'[w].pc = "wait"
        BY <2>4, <3>2, <1>2 DEF WorkerIs
      <4>2. QED
        BY <4>1, <1>1, <1>4 DEF IInv, Futures
    <3>3. QED
      BY <3>1, <3>2
  <2>5. QED
    BY <1>1, <2>1, <2>2, <2>3, <2>4 DEF Claimed, Pending
<1>14. Bounded'
  <2>1. Cached' \in SUBSET Cached /\ Cached \in SUBSET Items
    BY <1>3 DEF Cached
  <2>2. Cardinality(Cached') <= Cardinality(Cached) /\ Cardinality(Cached) \in Nat
        /\ Cardinality(Cached') \in Nat
    BY <2>1, FilesCounted
  <2>3. QED
    BY <1>1, <2>2, PrefetchAssumption DEF IInv, Bounded
<1>15. Owned'
  <2> SUFFICES ASSUME ~stop, NEW j \in disk
               PROVE  \/ Pending(j) /\ j \notin claimed'
                      \/ results'[j] = "ok"
                      \/ \E v \in Workers :
                           worker'[v].item = j /\ (worker'[v].pc = "wait" \/ worker'[v].res = "ok")
    BY <1>1 DEF Owned, Pending
  <2>1. CASE j # i
    <3>1. j \in claimed' => j \in claimed
      BY <2>1, <1>2
    <3>2. QED
      BY <2>1, <3>1, <1>1, <1>3, <1>4, <1>a DEF IInv, Owned
  <2>2. CASE j = i
    <3>1. fetch[i] = "ok"
      BY <2>2 DEF IInv, Stored
    <3>2. CASE results[i] # "none"
      <4>1. results[i] = "ok"
        BY <3>1, <3>2, <1>1 DEF IInv, Stored
      <4>2. QED
        BY <2>2, <4>1, <1>4
    <3>3. CASE results[i] = "none"
      <4>1. Pending(i)
        <5>1. \A v \in Workers : worker[v].item = i => v = w \/ worker[v].pc = "idle"
          BY <1>6
        <5>2. ~(\E v \in Workers :
                 worker[v].item = i /\ (worker[v].pc = "wait" \/ worker[v].res = "ok"))
          BY <1>1, <5>1 DEF IInv, Working
        <5>3. QED
          BY <2>2, <3>3, <5>2 DEF IInv, Owned
      <4>2. i \in futs
        BY <4>1, <1>1 DEF IInv, Futures
      <4>3. worker'[w].pc = "wait"
        BY <3>3, <4>2, <1>2 DEF WorkerIs
      <4>4. QED
        BY <2>2, <4>3, <1>4
    <3>4. QED
      BY <3>2, <3>3
  <2>3. QED
    BY <2>1, <2>2
<1>16. QED
  BY <1>5, <1>7, <1>8, <1>9, <1>11, <1>12, <1>13, <1>14, <1>15 DEF IInv

LEMMA AwaitKeeps == ASSUME IInv, NEW w \in Workers, Await(w) PROVE IInv'
<1> DEFINE i == worker[w].item
<1>1. /\ UNCHANGED <<scan, candidates, work, pump, fetch, callback, futs, results, claimed, disk, stop>>
      /\ worker[w].pc = "wait" /\ worker[w].res = "none" /\ i \in Items
      /\ done' = done \/ done' = done \cup {i}
  BY DEF IInv, Working, Await, Ends, cache
<1>2. \/ fetch[i] \in {"ok", "bad"} /\ WorkerIs(w, "pump", i, fetch[i])
      \/ fetch[i] = "fatal" /\ WorkerIs(w, "idle", Nobody, "none")
  BY WorkerStep DEF IInv, Await
<1>3. /\ worker' \in [Workers -> WorkerType]
      /\ worker'[w].pc \in {"pump", "idle"}
      /\ worker'[w].pc = "idle" => worker'[w].res = "none"
      /\ worker'[w].pc # "idle" => worker'[w].item = i
      /\ worker'[w].res = "ok" <=> fetch[i] = "ok"
      /\ worker'[w].res = "ok" => worker'[w].item = i
      /\ \A v \in Workers : v # w => worker'[v] = worker[v]
  BY <1>2 DEF WorkerIs
<1>4. TypeOK'
  BY <1>1, <1>3, Types, TypesAgain DEF IInv
<1>5. Ordered'
  BY <1>1, <1>3, StillOrdered DEF IInv, Ordered
<1>6. Working'
  BY <1>1, <1>3 DEF IInv, Working
<1>7. Pumping'
  BY <1>1, <1>3 DEF IInv, Pumping
<1>8. Futures' /\ Stored' /\ Bounded'
  BY <1>1 DEF IInv, Futures, Stored, Bounded, Cached, Pending
<1>9. Claimed'
  <2>1. \A v \in Workers : worker'[v].pc \in {"start", "wait"} => v # w /\ worker'[v] = worker[v]
    BY <1>3
  <2>2. \A v \in Workers : worker'[v].res = "ok" =>
          fetch[worker'[v].item] = "ok" /\ (v # w => worker'[v] = worker[v])
    BY <1>3 DEF IInv, Claimed
  <2>3. ASSUME NEW v \in Workers, worker'[v].pc = "wait" \/ worker'[v].res = "ok"
        PROVE  /\ worker'[v].item = worker[v].item
               /\ worker[v].pc = "wait" \/ worker[v].res = "ok"
    BY <2>3, <1>1, <1>3
  <2>4. ASSUME NEW j \in claimed, fetch[j] = "running"
        PROVE  \E v \in Workers : worker'[v].pc = "wait" /\ worker'[v].item = j
    <3>1. PICK v \in Workers : worker[v].pc = "wait" /\ worker[v].item = j
      BY <2>4 DEF IInv, Claimed
    <3>2. v # w
      BY <2>4, <3>1, <1>2
    <3>3. QED
      BY <3>1, <3>2, <1>3
  <2>5. \A j \in claimed : fetch[j] # "none"
    BY DEF IInv, Claimed
  <2>6. QED
    BY <1>1, <2>1, <2>2, <2>3, <2>4, <2>5 DEF IInv, Claimed, Pending
<1>10. Owned'
  <2>1. ASSUME NEW j \in disk
        PROVE  \A v \in Workers :
                 worker[v].item = j /\ (worker[v].pc = "wait" \/ worker[v].res = "ok") =>
                   worker'[v].item = j /\ (worker'[v].pc = "wait" \/ worker'[v].res = "ok")
    <3>1. fetch[j] = "ok"
      BY DEF IInv, Stored
    <3>2. QED
      BY <3>1, <1>3
  <2>2. QED
    BY <1>1, <2>1 DEF IInv, Owned, Pending
<1>11. QED
  BY <1>4, <1>5, <1>6, <1>7, <1>8, <1>9, <1>10 DEF IInv

LEMMA ClaimPumpKeeps == ASSUME IInv, NEW w \in Workers, ClaimPump(w) PROVE IInv'
<1>a. pump \in PumpType /\ worker[w].pc = "pump" /\ worker[w].item \in Items
  BY Types DEF IInv, Working, ClaimPump
<1>1. UNCHANGED <<scan, candidates, work, fetch, callback, futs, results, claimed, disk, done, stop>>
  BY DEF ClaimPump, cache
<1>2. \/ /\ Enters /\ pump.pc = "free" /\ PumpIs("check", Nobody, w)
         /\ WorkerIs(w, "pumping", worker[w].item, worker[w].res)
      \/ /\ ~Enters /\ pump' = pump
         /\ WorkerIs(w, "get", worker[w].item, worker[w].res)
  BY PumpStep, WorkerStep DEF IInv, ClaimPump, Enters
<1>3. /\ worker' \in [Workers -> WorkerType]
      /\ worker'[w].pc \in {"pumping", "get"}
      /\ worker'[w].item = worker[w].item /\ worker'[w].res = worker[w].res
      /\ \A v \in Workers : v # w => worker'[v] = worker[v]
  BY <1>2 DEF WorkerIs
<1>4. TypeOK'
  BY <1>a, <1>1, <1>2, <1>3, Types, TypesAgain DEF IInv, PumpIs
<1>5. Ordered'
  BY <1>a, <1>1, <1>3, StillOrdered DEF IInv, Ordered
<1>6. Working'
  BY <1>a, <1>3 DEF IInv, Working
<1>7. Pumping'
  <2>1. CASE Enters
    BY <1>2, <2>1, OwnersDiffer DEF PumpIs, WorkerIs, Pumping
  <2>2. CASE ~Enters
    BY <1>a, <1>1, <1>2, <1>3, <2>2 DEF IInv, Pumping
  <2>3. QED
    BY <2>1, <2>2
<1>8. Futures'
  BY <1>1, <1>2, StillFutures DEF IInv, PumpIs, Pending
<1>9. Bounded'
  BY <1>1, <1>2 DEF IInv, PumpIs, Bounded, Cached
<1>10. \A v \in Workers :
         /\ worker'[v].item = worker[v].item /\ worker'[v].res = worker[v].res
         /\ worker'[v].pc = "wait" <=> worker[v].pc = "wait"
         /\ worker'[v].pc = "start" <=> worker[v].pc = "start"
  BY <1>a, <1>3
<1>11. Stored' /\ Claimed' /\ Owned'
  <2>1. \A j : Pending(j)' = Pending(j)
    BY <1>1 DEF Pending
  <2>2. QED
    BY <1>1, <1>10, <2>1 DEF IInv, Stored, Claimed, Owned, Pending
<1>12. QED
  BY <1>4, <1>5, <1>6, <1>7, <1>8, <1>9, <1>11 DEF IInv

----------------------------------------------------------------------------
LEMMA InitGood == ASSUME Init PROVE IInv
<1>1. Last \in Nat /\ Items \subseteq Nat /\ IsFiniteSet({}) /\ Cardinality({}) = 0
  BY PrefetchAssumption, FS_EmptySet DEF Items
<1>2. scan \in ScanType /\ (scan.pc # "end" => scan.at <= Last) /\ scan.pc \in {"end", "offer"}
  BY <1>1 DEF Init, ScanType
<1>3. pump \in PumpType /\ pump.pc = "free" /\ worker \in [Workers -> WorkerType]
  BY DEF Init, PumpType, FreePump, WorkerType, IdleWorker
<1>4. TypeOK
  <2>1. /\ candidates \in Seq(Items) /\ work \in Seq(Items)
        /\ futs \subseteq Items /\ claimed \subseteq Items
        /\ disk \subseteq Items /\ done \subseteq Items /\ stop \in BOOLEAN
    BY EmptySeq DEF Init
  <2>2. /\ fetch \in [Items -> {"none", "running", "ok", "bad", "fatal"}]
        /\ callback \in [Items -> {"none", "attached", "pump", "pumping", "ran"}]
        /\ results \in [Items -> {"none", "ok", "bad"}]
    BY DEF Init
  <2>3. QED
    BY <1>2, <1>3, <2>1, <2>2 DEF TypeOK, ScanType, PumpType, WorkerType
<1>5. Cached = {}
  BY DEF Init, Cached
<1>6. Len(<<>>) = 0 /\ 1 .. 0 = {}
  BY EmptySeq
<1>7. Ordered
  BY <1>2, <1>6 DEF Init, Ordered, IdleWorker
<1>8. Working /\ Pumping /\ Futures /\ Stored /\ Claimed /\ Owned
  BY <1>3 DEF Init, Working, Pumping, Futures, Stored, Claimed, Owned, Pending, IdleWorker
<1>9. Bounded
  BY <1>1, <1>3, <1>5, PrefetchAssumption DEF Init, Bounded
<1>10. QED
  BY <1>4, <1>7, <1>8, <1>9 DEF IInv

LEMMA NextGood == ASSUME IInv, [Next]_vars PROVE IInv'
<1>1. CASE Pump
  BY <1>1, PumpCheckKeeps, PumpSubmitKeeps, PumpAttachKeeps, PumpReleaseKeeps DEF Pump
<1>2. ASSUME NEW i \in Items,
             \/ Callback(i) \/ CallbackPump(i)
             \/ \E o \in {"ok", "bad", "fatal"} : FetchEnds(i, o)
      PROVE  IInv'
  BY <1>2, CallbackKeeps, CallbackPumpKeeps, FetchEndsKeeps
<1>3. CASE Offer \/ OfferPump \/ Put
  BY <1>3, OfferKeeps, OfferPumpKeeps, PutKeeps
<1>4. ASSUME NEW w \in Workers,
             \/ Take(w) \/ Skip(w) \/ Claim(w) \/ Await(w)
             \/ ClaimPump(w) \/ Use(w) \/ Download(w)
      PROVE  IInv'
  BY <1>4, TakeKeeps, SkipKeeps, ClaimKeeps, AwaitKeeps, ClaimPumpKeeps, UseKeeps, DownloadKeeps
<1>5. CASE UNCHANGED vars
  BY <1>5 DEF vars, cache, IInv, TypeOK, Ordered, Known, Behind, Working, Pumping, Futures,
              Stored, Claimed, Bounded, Cached, Owned, Pending
<1>6. QED
  BY <1>1, <1>2, <1>3, <1>4, <1>5 DEF Next

(* The invariant of the window is inductive, for any number of files,      *)
(* workers, downloads and results: the lock of pump_prefetch, the tables   *)
(* under _prefetch_mu, and who has which file (pipeline.py:239-344).       *)
THEOREM Inductive == Spec => []IInv
<1>1. Init => IInv
  BY InitGood
<1>2. IInv /\ [Next]_vars => IInv'
  BY NextGood
<1>3. QED
  BY <1>1, <1>2, PTL DEF Spec

(* The tables of the window stay well typed, whichever thread pumps. *)
THEOREM TypeCorrect == Spec => []TypeOK
<1>1. IInv => TypeOK
  BY DEF IInv
<1>2. QED
  BY <1>1, Inductive, PTL

(* While a worker has a result or waits for it, no callback keeps it for   *)
(* another worker or deletes its file (get_prefetch_result against         *)
(* the done callback).                                                     *)
THEOREM HandedOverSafe == Spec => []HandedOver
<1>1. IInv => HandedOver
  <2> SUFFICES ASSUME IInv, NEW w \in Workers, worker[w].res = "ok"
               PROVE  worker[w].item \in disk /\ results[worker[w].item] = "none"
    BY DEF HandedOver
  <2>1. QED
    BY DEF IInv, Claimed
<1>2. QED
  BY <1>1, Inductive, PTL

(* As long as the run is not stopped, every prefetched file is known to    *)
(* the download that will keep or delete it, to the worker that has taken  *)
(* it over, or to the cache on behalf of a worker that has not looked yet; *)
(* or it is stranded in the cache, its item skipped or downloaded          *)
(* otherwise.                                                              *)
THEOREM FilesOwnedSafe == Spec => []FilesOwned
<1>1. IInv => FilesOwned
  <2> SUFFICES ASSUME IInv, ~stop, NEW i \in disk
               PROVE  Holder(i) # {} \/ Stranded(i)
    BY DEF FilesOwned
  <2>1. CASE Pending(i) /\ i \notin claimed
    <3>1. "future" \in Holder(i)
      BY <2>1 DEF Holder, Pending
    <3>2. QED
      BY <3>1
  <2>2. CASE results[i] = "ok"
    <3>1. CASE Passed(i)
      BY <2>2, <3>1 DEF Stranded
    <3>2. CASE ~Passed(i)
      <4>1. "cache" \in Holder(i)
        BY <2>2, <3>2 DEF Holder
      <4>2. QED
        BY <4>1
    <3>3. QED
      BY <3>1, <3>2
  <2>3. CASE \E w \in Workers :
               worker[w].item = i /\ (worker[w].pc = "wait" \/ worker[w].res = "ok")
    <3>1. PICK w \in Workers :
            worker[w].item = i /\ (worker[w].pc = "wait" \/ worker[w].res = "ok")
      BY <2>3
    <3>2. w \in Holder(i)
      BY <3>1 DEF Holder
    <3>3. QED
      BY <3>2
  <2>4. QED
    BY <2>1, <2>2, <2>3 DEF IInv, Owned
<1>2. QED
  BY <1>1, Inductive, PTL

(* However many threads pump, the window and the cache keep their size,    *)
(* and there are no more files on disk than those and one for each worker. *)
THEOREM WindowBoundedSafe == Spec => []WindowBounded
<1>1. ASSUME IInv PROVE WindowBounded
  <2> DEFINE mine == {worker[w].item : w \in {v \in Workers : worker[v].pc # "idle"}}
  <2>1. /\ mine \in SUBSET Items /\ futs \in SUBSET Items /\ Cached \in SUBSET Items
        /\ disk \in SUBSET Items
    BY <1>1, Types DEF IInv, Working, Cached
  <2>2. Cardinality(mine) <= Cardinality(Workers) /\ Cardinality(Workers) \in Nat
    <3> DEFINE busy == {v \in Workers : worker[v].pc # "idle"}
    <3>1. /\ IsFiniteSet(Workers) /\ Cardinality(Workers) \in Nat
          /\ IsFiniteSet(busy) /\ Cardinality(busy) \in Nat
          /\ Cardinality(busy) <= Cardinality(Workers)
      BY PrefetchAssumption, FS_Subset, FS_CardinalityType
    <3>2. Cardinality(mine) <= Cardinality(busy)
      <4> DEFINE f == [v \in busy |-> worker[v].item]
      <4>1. f \in Surjection(busy, mine)
        BY DEF Surjection
      <4>2. QED
        BY <3>1, <4>1, FS_Surjection
    <3>3. QED
      BY <2>1, <3>1, <3>2, FilesCounted
  <2>3. ~stop => disk \subseteq futs \cup Cached \cup mine
    <3> SUFFICES ASSUME ~stop, NEW i \in disk
                 PROVE  i \in futs \cup Cached \cup mine
      OBVIOUS
    <3>1. CASE Pending(i)
      BY <2>1, <3>1, <1>1 DEF IInv, Futures
    <3>2. CASE results[i] = "ok"
      BY <2>1, <3>2 DEF Cached
    <3>3. CASE \E w \in Workers :
                 worker[w].item = i /\ (worker[w].pc = "wait" \/ worker[w].res = "ok")
      BY <3>3, <1>1 DEF IInv, Working
    <3>4. QED
      BY <3>1, <3>2, <3>3, <1>1 DEF IInv, Owned
  <2>4. /\ Cardinality(futs) \in Nat /\ Cardinality(Cached) \in Nat
        /\ Cardinality(mine) \in Nat
        /\ IsFiniteSet(futs) /\ IsFiniteSet(Cached) /\ IsFiniteSet(mine)
    BY <2>1, FilesCounted
  <2>5. Cardinality(futs \cup Cached \cup mine)
          <= Cardinality(futs) + Cardinality(Cached) + Cardinality(mine)
        /\ Cardinality(futs \cup Cached \cup mine) \in Nat
    <3> DEFINE two == futs \cup Cached
    <3>1. IsFiniteSet(two) /\ Cardinality(two) \in Nat
          /\ Cardinality(two) <= Cardinality(futs) + Cardinality(Cached)
      <4>1. Cardinality(two) = Cardinality(futs) + Cardinality(Cached)
                                 - Cardinality(futs \cap Cached)
        BY <2>4, FS_Union
      <4>2. Cardinality(futs \cap Cached) \in Nat /\ two \in SUBSET Items
        BY <2>1, FilesCounted
      <4>3. QED
        BY <2>4, <4>1, <4>2, FilesCounted
    <3>2. Cardinality(two \cup mine) = Cardinality(two) + Cardinality(mine)
                                         - Cardinality(two \cap mine)
      BY <2>4, <3>1, FS_Union
    <3>3. Cardinality(two \cap mine) \in Nat /\ Cardinality(two \cup mine) \in Nat
      BY <2>1, FilesCounted
    <3>4. QED
      BY <2>4, <3>1, <3>2, <3>3
  <2>6. ~stop => /\ Cardinality(disk) <= Cardinality(futs \cup Cached \cup mine)
                 /\ Cardinality(disk) \in Nat
    BY <2>1, <2>3, FilesCounted
  <2>7. QED
    BY <1>1, <2>2, <2>4, <2>5, <2>6, PrefetchAssumption DEF IInv, Bounded, WindowBounded
<1>2. IInv => WindowBounded
  BY <1>1
<1>3. QED
  BY <1>2, Inductive, PTL
=============================================================================
