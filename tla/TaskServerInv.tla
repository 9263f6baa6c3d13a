--------------------------- MODULE TaskServerInv ---------------------------
(***************************************************************************)
(* The inductive invariant behind CompleteVerified and OutputsOwned.       *)
(***************************************************************************)
EXTENDS TaskServer

Active(h) == thread[h].pc # "idle"

(* Only /complete calls OpenList, and then it has an output to finalize. *)
CompleteHasOutput ==
  \A h \in Threads :
    /\ Active(h) => thread[h].task \in Tasks
    /\ thread[h].pc \in FinalizeStep \cup {"probe"} => thread[h].op = "complete"
    /\ thread[h].op = "complete" => HasOutput(thread[h].new)

(* Having seen the output, /complete may rely on it until it commits. *)
OutputSeen ==
  \A h \in Threads :
    /\ thread[h].op = "complete"
    /\ thread[h].pc = "discard" \/ thread[h].new.status = "finalized"
    => HasSize(FinalOf(h), h)

(* A nonce belongs to the one task it was issued for. *)
NoncesOwned ==
  /\ \A t \in Tasks :
       /\ row[t].staging # NoNonce => issued[row[t].staging] = t
       /\ row[t].final # NoPath => row[t].final \in OutPaths[t]
  /\ \A h \in Threads : Active(h) =>
       /\ thread[h].new.staging # NoNonce /\ thread[h].op # "intent"
            => issued[thread[h].new.staging] = thread[h].task
       /\ thread[h].new.final # NoPath
            => thread[h].new.final \in OutPaths[thread[h].task]

(* ... and one that is being issued belongs to nobody yet. *)
NoncesFresh ==
  \A h \in Threads : thread[h].op = "intent" =>
    /\ thread[h].new.staging \in Nonces
    /\ issued[thread[h].new.staging] = NoTask
    /\ \A g \in Threads \ {h} :
         thread[g].new.staging # thread[h].new.staging

FilesOwned ==
  /\ \A n \in Nonces :
       staged[n] # Absent => staged[n].nonce = n /\ issued[n] # NoTask
  /\ \A d \in Dirs : blob[d] # Absent => issued[blob[d].nonce] # NoTask

(* Whoever is about to rename <dir>/blob has moved it there, and nobody    *)
(* else is about to rename it.                                             *)
BlobReserved ==
  \A h \in Threads : thread[h].pc = "rename" =>
    /\ blob[FolderOf(h)] # Absent
    /\ blob[FolderOf(h)].nonce = thread[h].new.staging
    /\ \A g \in Threads \ {h} :
         thread[g].pc = "rename" => FolderOf(g) # FolderOf(h)

(* The conjunction is inductive: what a request relies on across its       *)
(* OpenList calls is never undone by another request, a late upload, a     *)
(* lost answer or a restart (complete_task, OpenListManager.finalize).     *)
OutputsInv ==
  /\ CompleteHasOutput /\ OutputSeen
  /\ NoncesOwned /\ NoncesFresh
  /\ FilesOwned /\ BlobReserved
  /\ OutputsOwned
============================================================================
