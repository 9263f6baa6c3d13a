------------------------------ MODULE Prefetch ------------------------------
(***************************************************************************)
(* The prefetch window of the CLI (shrink_media/pipeline.py:239-344): the  *)
(* scan thread offers every remote file it finds, a small pool downloads   *)
(* some of them ahead of the workers, and a worker that starts a file      *)
(* takes over the finished result, or claims the running download, or      *)
(* downloads the file itself.                                              *)
(*                                                                         *)
(* Three kinds of threads refill the window with pump_prefetch: the scan   *)
(* thread, the workers, and the pool threads that run the done callbacks.  *)
(* Only one at a time gets in; the others turn away without waiting.       *)
(***************************************************************************)
EXTENDS Naturals, Sequences, FiniteSets

CONSTANTS Last,           \* the files of the scan are 1 .. Last, in its order
          Workers,        \* threads of the job pool
          Window,         \* --prefetch: downloads at a time
          MaxCached,      \* results kept, 2 * Window in the code
          MaxCandidates,  \* offers kept, 8 * Window in the code
          Nobody

Items == 1 .. Last

ASSUME PrefetchAssumption ==
  /\ Last \in Nat
  /\ IsFiniteSet(Workers)
  /\ Window \in Nat \ {0}
  /\ MaxCached \in Nat \ {0}
  /\ MaxCandidates \in Nat \ {0}
  /\ Nobody \notin Workers \cup Items \cup {0}   \* 0 is the scan thread
  /\ Workers \cap (Items \cup {0}) = {}

VARIABLES
  scan,       \* the scan thread: the file it is at, and what it does there
  candidates, \* prefetch_candidates
  work,       \* work_q
  pump,       \* the thread that holds _prefetch_pump_mu, and where it is
  fetch,      \* the download of a file by the pool
  callback,   \* its done callback
  futs,       \* prefetch_futs
  results,    \* prefetch_results
  claimed,    \* prefetch_claimed
  disk,       \* files downloaded completely into prefetch_dir, without those
              \* that a failed call leaves for cleanup()
  worker,     \* what each worker is doing
  done,       \* files a worker is through with
  stop        \* stop_event

vars == <<scan, candidates, work, pump, fetch, callback, futs, results,
          claimed, disk, worker, done, stop>>

Scanner == 0   \* the scan thread, as an owner of the pump

TypeOK ==
  /\ scan \in [pc : {"offer", "pump", "pumping", "put", "end"},
               at : 1 .. (Last + 1)]
  /\ candidates \in Seq(Items)
  /\ work \in Seq(Items)
  /\ pump \in [pc    : {"free", "check", "submit", "attach", "release"},
               item  : Items \cup {Nobody},
               owner : {Scanner, Nobody} \cup Items \cup Workers]
  /\ fetch \in [Items -> {"none", "running", "ok", "bad", "fatal"}]
  /\ callback \in [Items -> {"none", "attached", "pump", "pumping", "ran"}]
  /\ futs \subseteq Items
  /\ results \in [Items -> {"none", "ok", "bad"}]
  /\ claimed \subseteq Items
  /\ disk \subseteq Items
  /\ worker \in [Workers -> [pc   : {"idle", "start", "wait", "pump", "pumping",
                                     "get"},
                             item : Items \cup {Nobody},
                             res  : {"none", "ok", "bad"}]]
  /\ done \subseteq Items
  /\ stop \in BOOLEAN

IdleWorker == [pc |-> "idle", item |-> Nobody, res |-> "none"]
FreePump   == [pc |-> "free", item |-> Nobody, owner |-> Nobody]

Init ==
  /\ scan = [pc |-> IF Last = 0 THEN "end" ELSE "offer", at |-> 1]
  /\ candidates = <<>>
  /\ work = <<>>
  /\ pump = FreePump
  /\ fetch = [i \in Items |-> "none"]
  /\ callback = [i \in Items |-> "none"]
  /\ futs = {}
  /\ results = [i \in Items |-> "none"]
  /\ claimed = {}
  /\ disk = {}
  /\ worker = [w \in Workers |-> IdleWorker]
  /\ done = {}
  /\ stop = FALSE

Cached == {i \in Items : results[i] # "none"}

cache == <<futs, results, claimed>>

----------------------------------------------------------------------------
(* pump_prefetch.  A caller enters, or finds that it need not or cannot.   *)

Enters == ~stop /\ pump.pc = "free"
Enter(owner) == pump' = [FreePump EXCEPT !.pc = "check", !.owner = owner]

(* Defect: the window is compared the wrong way round. *)
PumpCheckLate ==
  /\ pump.pc = "check"
  /\ pump' = [pump EXCEPT !.pc =
       IF Cardinality(futs) > Window \/ Cardinality(Cached) > MaxCached
       THEN "release" ELSE "submit"]
  /\ UNCHANGED <<scan, candidates, work, fetch, callback, cache, disk, worker,
                 done, stop>>

PumpCheck ==
  /\ pump.pc = "check"
  /\ pump' = [pump EXCEPT !.pc =
       IF Cardinality(futs) >= Window \/ Cardinality(Cached) >= MaxCached
       THEN "release" ELSE "submit"]
  /\ UNCHANGED <<scan, candidates, work, fetch, callback, cache, disk, worker,
                 done, stop>>

(* The next candidate and submit_prefetch: the future and its entry in      *)
(* prefetch_futs.  A file is offered once, so it is never there already.   *)
PumpSubmit ==
  /\ pump.pc = "submit"
  /\ IF candidates = <<>>
     THEN pump' = [pump EXCEPT !.pc = "release"] /\ UNCHANGED <<candidates, fetch, futs>>
     ELSE LET i == Head(candidates) IN
            /\ candidates' = Tail(candidates)
            /\ fetch' = [fetch EXCEPT ![i] = "running"]
            /\ futs' = futs \cup {i}
            /\ pump' = [pump EXCEPT !.pc = "attach", !.item = i]
  /\ UNCHANGED <<scan, work, callback, results, claimed, disk, worker, done,
                 stop>>

(* Defect: a result that does not fit is dropped and its file forgotten. *)
DeliverNoUnlink(i) ==
  IF fetch[i] = "fatal"
  THEN stop' = TRUE /\ UNCHANGED <<cache, disk>>
  ELSE /\ futs' = futs \ {i}
       /\ claimed' = claimed \ {i}
       /\ results' = IF i \notin claimed /\ Cardinality(Cached) < MaxCached
                     THEN [results EXCEPT ![i] = fetch[i]] ELSE results
       /\ UNCHANGED <<disk, stop>>

(* Defect: claims are not looked at. *)
DeliverUnclaimed(i) ==
  IF fetch[i] = "fatal"
  THEN stop' = TRUE /\ UNCHANGED <<cache, disk>>
  ELSE /\ futs' = futs \ {i}
       /\ claimed' = claimed \ {i}
       /\ \/ /\ Cardinality(Cached) < MaxCached
             /\ results' = [results EXCEPT ![i] = fetch[i]]
             /\ UNCHANGED disk
          \/ /\ Cardinality(Cached) >= MaxCached
             /\ disk' = disk \ {i}
             /\ UNCHANGED results
       /\ UNCHANGED stop

(* The body of the callback, up to its call of pump_prefetch: a result     *)
(* goes to the worker that has claimed it, or into the cache, or away.     *)
Deliver(i) ==
  IF fetch[i] = "fatal"
  THEN stop' = TRUE /\ UNCHANGED <<cache, disk>>
  ELSE /\ futs' = futs \ {i}
       /\ claimed' = claimed \ {i}
       /\ \/ i \in claimed /\ UNCHANGED <<results, disk>>
          \/ /\ i \notin claimed
             /\ Cardinality(Cached) < MaxCached
             /\ results' = [results EXCEPT ![i] = fetch[i]]
             /\ UNCHANGED disk
          \/ /\ i \notin claimed
             /\ Cardinality(Cached) >= MaxCached
             /\ disk' = disk \ {i}
             /\ UNCHANGED results
       /\ UNCHANGED stop

(* Defect: pump_prefetch waits for the lock, and the callback that runs in  *)
(* the thread that holds it waits for ever.                                *)
PumpAttachBlocking ==
  /\ pump.pc = "attach"
  /\ fetch[pump.item] = "running"
  /\ callback' = [callback EXCEPT ![pump.item] = "attached"]
  /\ pump' = [pump EXCEPT !.pc = "check", !.item = Nobody]
  /\ UNCHANGED <<scan, candidates, work, fetch, cache, disk, worker, done, stop>>

(* add_done_callback.  When the download has ended already the callback    *)
(* runs here and now, and its own pump_prefetch finds the lock taken.      *)
PumpAttach ==
  /\ pump.pc = "attach"
  /\ LET i == pump.item IN
       \/ /\ fetch[i] = "running"
          /\ callback' = [callback EXCEPT ![i] = "attached"]
          /\ UNCHANGED <<cache, disk, stop>>
       \/ /\ fetch[i] # "running"
          /\ callback' = [callback EXCEPT ![i] = "ran"]
          /\ Deliver(i)
  /\ pump' = [pump EXCEPT !.pc = "check", !.item = Nobody]
  /\ UNCHANGED <<scan, candidates, work, fetch, worker, done>>

(* The loop is left and the lock released; the caller goes on. *)
PumpRelease ==
  /\ pump.pc = "release"
  /\ pump' = FreePump
  /\ LET o == pump.owner IN
       /\ scan' = IF o = Scanner THEN [scan EXCEPT !.pc = "put"] ELSE scan
       /\ worker' = [w \in Workers |-> IF w = o THEN [worker[w] EXCEPT !.pc = "get"]
                                       ELSE worker[w]]
       /\ callback' = [i \in Items |-> IF i = o THEN "ran" ELSE callback[i]]
  /\ UNCHANGED <<candidates, work, fetch, cache, disk, done, stop>>

Pump == \/ PumpCheck \/ PumpSubmit \/ PumpAttach
        \/ PumpRelease

----------------------------------------------------------------------------
(* The pool: a download ends, then its callback runs in the same thread.   *)

FetchEnds(i, o) ==
  /\ fetch[i] = "running"
  /\ fetch' = [fetch EXCEPT ![i] = o]
  /\ disk' = IF o = "ok" THEN disk \cup {i} ELSE disk
  /\ UNCHANGED <<scan, candidates, work, pump, callback, cache, worker, done,
                 stop>>

Callback(i) ==
  /\ callback[i] = "attached"
  /\ fetch[i] # "running"
  /\ Deliver(i)
  /\ callback' = [callback EXCEPT ![i] = IF fetch[i] = "fatal" THEN "ran"
                                         ELSE "pump"]
  /\ UNCHANGED <<scan, candidates, work, pump, fetch, worker, done>>

CallbackPump(i) ==
  /\ callback[i] = "pump"
  /\ callback' = [callback EXCEPT ![i] = IF Enters THEN "pumping" ELSE "ran"]
  /\ IF Enters THEN Enter(i) ELSE UNCHANGED pump
  /\ UNCHANGED <<scan, candidates, work, fetch, cache, disk, worker, done, stop>>

----------------------------------------------------------------------------
(* The scan thread: offer_prefetch, then work_q.put.                       *)

Offer ==
  /\ scan.pc = "offer"
  /\ ~stop
  /\ IF Len(candidates) >= MaxCandidates
     THEN scan' = [scan EXCEPT !.pc = "put"] /\ UNCHANGED candidates
     ELSE /\ scan' = [scan EXCEPT !.pc = "pump"]
          /\ candidates' = Append(candidates, scan.at)
  /\ UNCHANGED <<work, pump, fetch, callback, cache, disk, worker, done, stop>>

OfferPump ==
  /\ scan.pc = "pump"
  /\ scan' = [scan EXCEPT !.pc = IF Enters THEN "pumping" ELSE "put"]
  /\ IF Enters THEN Enter(Scanner) ELSE UNCHANGED pump
  /\ UNCHANGED <<candidates, work, fetch, callback, cache, disk, worker, done,
                 stop>>

(* The bound of work_q is left out: put only waits for a worker to take.   *)
Put ==
  /\ scan.pc = "put"
  /\ work' = IF stop THEN work ELSE Append(work, scan.at)
  /\ scan' = [pc |-> IF stop \/ scan.at = Last THEN "end" ELSE "offer",
              at |-> scan.at + 1]
  /\ UNCHANGED <<candidates, pump, fetch, callback, cache, disk, worker, done,
                 stop>>

----------------------------------------------------------------------------
(* The workers (pipeline.py:596-685).                                      *)

Ends(w) ==
  /\ worker' = [worker EXCEPT ![w] = IdleWorker]
  /\ done' = done \cup {worker[w].item}

Take(w) ==
  /\ worker[w].pc = "idle"
  /\ ~stop
  /\ work # <<>>
  /\ work' = Tail(work)
  /\ worker' = [worker EXCEPT ![w].pc = "start", ![w].item = Head(work)]
  /\ UNCHANGED <<scan, candidates, pump, fetch, callback, cache, disk, done,
                 stop>>

(* Another device has the lock, or has done the file: no look at the cache. *)
Skip(w) ==
  /\ worker[w].pc = "start"
  /\ Ends(w)
  /\ UNCHANGED <<scan, candidates, work, pump, fetch, callback, cache, disk,
                 stop>>

(* get_prefetch_result *)
Claim(w) ==
  /\ worker[w].pc = "start"
  /\ LET i == worker[w].item IN
       \/ /\ results[i] # "none"
          /\ results' = [results EXCEPT ![i] = "none"]
          /\ worker' = [worker EXCEPT ![w].pc = "pump", ![w].res = results[i]]
          /\ UNCHANGED claimed
       \/ /\ results[i] = "none"
          /\ i \in futs
          /\ claimed' = claimed \cup {i}
          /\ worker' = [worker EXCEPT ![w].pc = "wait"]
          /\ UNCHANGED results
       \/ /\ results[i] = "none"
          /\ i \notin futs
          /\ worker' = [worker EXCEPT ![w].pc = "pump"]
          /\ UNCHANGED <<results, claimed>>
  /\ UNCHANGED <<scan, candidates, work, pump, fetch, callback, futs, disk,
                 done, stop>>

(* Defect: the result of the future is used whatever it is. *)
AwaitAny(w) ==
  /\ worker[w].pc = "wait"
  /\ fetch[worker[w].item] # "running"
  /\ worker' = [worker EXCEPT ![w].pc = "pump", ![w].res = fetch[worker[w].item]]
  /\ UNCHANGED <<scan, candidates, work, pump, fetch, callback, cache, disk, done,
                 stop>>

(* fut.result() *)
Await(w) ==
  /\ worker[w].pc = "wait"
  /\ LET o == fetch[worker[w].item] IN
       \/ /\ o \in {"ok", "bad"}
          /\ worker' = [worker EXCEPT ![w].pc = "pump", ![w].res = o]
          /\ UNCHANGED done
       \/ o = "fatal" /\ Ends(w)
  /\ UNCHANGED <<scan, candidates, work, pump, fetch, callback, cache, disk,
                 stop>>

ClaimPump(w) ==
  /\ worker[w].pc = "pump"
  /\ worker' = [worker EXCEPT ![w].pc = IF Enters THEN "pumping" ELSE "get"]
  /\ IF Enters THEN Enter(w) ELSE UNCHANGED pump
  /\ UNCHANGED <<scan, candidates, work, fetch, callback, cache, disk, done,
                 stop>>

(* Defect: the prefetched file is copied and left there. *)
UseNoUnlink(w) ==
  /\ worker[w].pc = "get"
  /\ worker[w].res = "ok"
  /\ worker[w].item \in disk
  /\ Ends(w)
  /\ UNCHANGED <<scan, candidates, work, pump, fetch, callback, cache, disk,
                 stop>>

(* Copy the prefetched file and remove it.  When the copy fails, or the    *)
(* download that replaces a file of the wrong size, it stays.              *)
Use(w) ==
  /\ worker[w].pc = "get"
  /\ worker[w].res = "ok"
  /\ worker[w].item \in disk
  /\ disk' = disk \ {worker[w].item}
  /\ Ends(w)
  /\ UNCHANGED <<scan, candidates, work, pump, fetch, callback, cache, stop>>

(* Download without the cache, into a directory of the worker's own. *)
Download(w) ==
  /\ worker[w].pc = "get"
  /\ ~(worker[w].res = "ok" /\ worker[w].item \in disk)
  /\ Ends(w)
  /\ UNCHANGED <<scan, candidates, work, pump, fetch, callback, cache, disk,
                 stop>>

----------------------------------------------------------------------------
Next ==
  \/ Pump
  \/ \E i \in Items : \/ Callback(i) \/ CallbackPump(i)
                      \/ \E o \in {"ok", "bad", "fatal"} : FetchEnds(i, o)
  \/ Offer \/ OfferPump \/ Put
  \/ \E w \in Workers : \/ Take(w) \/ Skip(w) \/ Claim(w) \/ Await(w)
                        \/ ClaimPump(w) \/ Use(w) \/ Download(w)

Spec == Init /\ [][Next]_vars

(* Some thread that can take a step does; every step uses something up, so *)
(* nothing more is needed.                                                 *)
FairSpec == Spec /\ WF_vars(Next)

----------------------------------------------------------------------------
(* The window: no more downloads and no more results at a time than asked  *)
(* for, whichever threads pump, and so no more files on disk than those,   *)
(* one for every worker, and what failed calls leave.                      *)
WindowBounded ==
  /\ Cardinality(futs) <= Window
  /\ Cardinality(Cached) <= MaxCached
  /\ ~stop => Cardinality(disk)
                <= Window + MaxCached + Cardinality(Workers)

(* The worker of file i no longer looks for a prefetched copy: it skipped  *)
(* the file, has the result, or downloads the file itself.                 *)
Passed(i) ==
  \/ i \in done
  \/ \E w \in Workers : worker[w].item = i /\ worker[w].pc # "start"

(* Who knows of a file in prefetch_dir and will use or delete it: the      *)
(* download whose callback is still to come, the cache on behalf of a      *)
(* worker that has not looked yet, or the worker that has taken it over.   *)
Holder(i) ==
  {h \in {"future", "cache"} \cup Workers :
     \/ h = "future" /\ fetch[i] # "none" /\ callback[i] \in {"none", "attached"}
                     /\ i \notin claimed
     \/ h = "cache" /\ results[i] = "ok" /\ ~Passed(i)
     \/ h \in Workers /\ worker[h].item = i
                      /\ (worker[h].pc = "wait" \/ worker[h].res = "ok")}

(* A result that came too late, or whose file was skipped: nobody will     *)
(* look for it, and its place in the cache is lost (pipeline.py:319).      *)
Stranded(i) == results[i] = "ok" /\ Passed(i)

(* Every file in prefetch_dir has such a holder, but for stranded results: *)
(* no interleaving of callback, claim and pump makes a file that nobody    *)
(* knows of, and what stays behind, failed calls apart, is in the cache    *)
(* and so within its bound.                                                *)
FilesOwned == ~stop => \A i \in disk : Holder(i) # {} \/ Stranded(i)

(* What the holders are for: a prefetched file does go in the end, used by *)
(* its worker or thrown away, unless it is stranded or the run is stopped. *)
FilesGone ==
  \A i \in Items : i \in disk ~> (i \notin disk \/ Stranded(i) \/ stop)

(* A result is handed over once: while a worker has it or waits for it,    *)
(* the callback neither keeps it for another nor deletes the file.         *)
HandedOver ==
  \A w \in Workers :
    LET i == worker[w].item IN
      worker[w].pc \in {"pump", "pumping", "get"} /\ worker[w].res = "ok" =>
        i \in disk /\ results[i] = "none"

(* Every file that is queued is dealt with, unless the run is stopped: a   *)
(* worker that waits for a prefetch gets its result, and a callback never  *)
(* keeps the thread that runs it.                                          *)
Served ==
  \A i \in Items :
    (\E k \in 1 .. Len(work) : work[k] = i) ~> (i \in done \/ stop)
=============================================================================
