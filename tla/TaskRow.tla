------------------------------ MODULE TaskRow ------------------------------
(***************************************************************************)
(* A row of the `tasks` table (shrink_media_server/models.py, class Task)  *)
(* and what each request handler of shrink_media_server/api.py assigns to  *)
(* it.  The operators are pure: a handler reads a row, computes the row it *)
(* wants from what it read, and Flush says what SQLAlchemy then writes     *)
(* over the row that is in the database at commit time.                    *)
(*                                                                         *)
(* Left out, because no handler decides anything by them: profile_json,    *)
(* last_error, created_at, updated_at.  max_attempts is the same for every *)
(* row (the column default, never assigned by the code).                   *)
(***************************************************************************)
EXTENDS Naturals

CONSTANTS Tasks,       \* ids of task rows
          Workers,     \* ids of registered workers
          Nonces,      \* staging nonces, secrets.token_hex(8)
          Paths,       \* final output paths
          Sizes,       \* file sizes, compared for equality only
          OutputAction, \* of a task with an output: "ok", "copy"
          MaxAttempts, \* models.py: max_attempts, 3 by default
          NoWorker, NoNonce, NoPath, NoSize   \* NULL in the column

ASSUME TaskRowAssumption ==
  /\ NoWorker \notin Workers
  /\ NoNonce \notin Nonces
  /\ NoPath \notin Paths
  /\ NoSize \notin Sizes
  /\ {"skip", "none"} \cap OutputAction = {}
  /\ MaxAttempts \in Nat

(* models.py:48 also names "uploaded_to_staging", which no code assigns. *)
Status == {"queued", "leased", "failed", "finalized", "deadletter"}

(* lease_expires_at against the clock: NULL, in the future, in the past. *)
Expiry == {"none", "live", "expired"}

Row == [status   : Status,
        worker   : Workers \cup {NoWorker},
        expiry   : Expiry,
        attempts : Nat,
        staging  : Nonces \cup {NoNonce},
        final    : Paths \cup {NoPath},
        action   : OutputAction \cup {"skip", "none"},
        size     : Sizes \cup {NoSize}]

(* The row scanner.scan_route inserts for a new source version. *)
NewRow == [status |-> "queued", worker |-> NoWorker, expiry |-> "none",
           attempts |-> 0, staging |-> NoNonce, final |-> NoPath,
           action |-> "none", size |-> NoSize]

----------------------------------------------------------------------------
(* What a handler assigns to the row it has read.                          *)

ForgetOutput(r) == [r EXCEPT !.staging = NoNonce, !.final = NoPath,
                             !.action = "none", !.size = NoSize]

DropLease(r) == [r EXCEPT !.worker = NoWorker, !.expiry = "none"]

(* Defect: the query forgets that a lease may still be running. *)
LeasableAnyLease(r) ==
  r.status \in {"queued", "leased"} /\ r.attempts < MaxAttempts

(* Defect: the query forgets the leases that have run out. *)
LeasableQueued(r) == r.status = "queued" /\ r.attempts < MaxAttempts

(* The filter of the lease query: queued, or leased with a lease that has  *)
(* run out, and attempts left.                                             *)
Leasable(r) ==
  /\ \/ r.status = "queued"
     \/ r.status = "leased" /\ r.expiry = "expired"
  /\ r.attempts < MaxAttempts

LeaseRow(r, w) ==
  [ForgetOutput(r) EXCEPT !.status = "leased", !.worker = w,
                          !.expiry = "live", !.attempts = @ + 1]

RenewRow(r) == [r EXCEPT !.expiry = "live"]

IntentRow(r, n, p, a, s) ==
  [r EXCEPT !.staging = n, !.final = p, !.action = a, !.size = s]

(* /complete with action "skip": no output file. *)
SkipRow(r, s) ==
  [DropLease(ForgetOutput(r)) EXCEPT !.status = "finalized",
                                     !.action = "skip", !.size = s]

(* /complete once the output is at its final path. *)
DoneRow(r) == [DropLease(r) EXCEPT !.status = "finalized"]

(* Defect: the status nothing else knows. *)
FailedRowUploaded(r) == [r EXCEPT !.status = "uploaded_to_staging"]

(* /complete when finalize reports an error: the lease columns stay. *)
FailedRow(r) == [r EXCEPT !.status = "failed"]

(* Defect: a task that is given back keeps its lease. *)
FailRowKeepsLease(r, retryable) ==
  [ForgetOutput(r) EXCEPT
      !.status = IF retryable /\ r.attempts < MaxAttempts
                 THEN "queued" ELSE "deadletter"]

FailRow(r, retryable) ==
  [DropLease(ForgetOutput(r)) EXCEPT
      !.status = IF retryable /\ r.attempts < MaxAttempts
                 THEN "queued" ELSE "deadletter"]

RequeueRow(r, reset) ==
  [DropLease(ForgetOutput(r)) EXCEPT
      !.status = "queued", !.attempts = IF reset THEN 0 ELSE @]

----------------------------------------------------------------------------
(* The unit of work of SQLAlchemy: UPDATE tasks SET <the columns whose     *)
(* value differs from the one loaded> WHERE id = ...  There is no version  *)
(* column, so a column the handler did not change keeps the value some     *)
(* other request has committed in the meantime, and a column it did change *)
(* replaces it.                                                            *)
Changed(db, read, new) == IF new # read THEN new ELSE db

(* Defect: attempts is incremented by the database (attempts = attempts + *)
(* the difference), not assigned from what was read.                      *)
FlushIncrement(db, read, new, renewed) ==
  [status   |-> Changed(db.status, read.status, new.status),
   worker   |-> Changed(db.worker, read.worker, new.worker),
   expiry   |-> IF renewed THEN new.expiry
                ELSE Changed(db.expiry, read.expiry, new.expiry),
   attempts |-> db.attempts + new.attempts - read.attempts,
   staging  |-> Changed(db.staging, read.staging, new.staging),
   final    |-> Changed(db.final, read.final, new.final),
   action   |-> Changed(db.action, read.action, new.action),
   size     |-> Changed(db.size, read.size, new.size)]

(* renewed: the handler assigned a new timestamp to lease_expires_at, which *)
(* differs from any loaded one.                                             *)
Flush(db, read, new, renewed) ==
  [status   |-> Changed(db.status, read.status, new.status),
   worker   |-> Changed(db.worker, read.worker, new.worker),
   expiry   |-> IF renewed THEN new.expiry
                ELSE Changed(db.expiry, read.expiry, new.expiry),
   attempts |-> Changed(db.attempts, read.attempts, new.attempts),
   staging  |-> Changed(db.staging, read.staging, new.staging),
   final    |-> Changed(db.final, read.final, new.final),
   action   |-> Changed(db.action, read.action, new.action),
   size     |-> Changed(db.size, read.size, new.size)]
============================================================================
