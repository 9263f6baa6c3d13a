---------------------------- MODULE ChunkUpload ----------------------------
(***************************************************************************)
(* Uploading one task's output through the server: upload_file_chunked of  *)
(* shrink_media_worker/transport.py against upload_proxy of                *)
(* shrink_media_server/api.py.                                             *)
(*                                                                         *)
(* The worker sends the file in chunks, one request after the other, and   *)
(* tries each chunk MaxTries times.  The server appends the chunks of a    *)
(* task to one file, <tmp>/shrink_media_server_upload_proxy/<task>/        *)
(* blob.part, and uploads it to OpenList with the last one.  upload_proxy  *)
(* is a coroutine: it checks and opens the file without giving up control, *)
(* and then gives it up for every piece of the body, so the requests of a  *)
(* task interleave piece by piece.  A request the client has given up on   *)
(* may still arrive, or still be streaming, when the next one does.        *)
(*                                                                         *)
(* Each upload is what one upload_intent started, by the holder of the     *)
(* lease; the next one may come from another worker, or from the same one. *)
(***************************************************************************)
EXTENDS Naturals, Sequences, FiniteSets

CONSTANTS Uploads,   \* the uploads of the task
          Total,     \* their sizes, in pieces
          ChunkLen,  \* pieces per chunk
          MaxTries,  \* transport.py: max_retries, 3
          WorkerOf,  \* who does an upload
          Content,   \* what is uploaded
          MaxInFlight, \* bound: requests of the task that are under way
          NoUpload, NoFile

ASSUME ChunkUploadAssumption ==
  /\ Total \in [Uploads -> Nat \ {0}]
  /\ ChunkLen \in Nat \ {0}
  /\ MaxTries \in Nat \ {0}
  /\ NoUpload \notin Uploads

(* A worker that processes the same source twice and gets a file of the    *)
(* same size gets the same file; its uploads may then be mixed.            *)
ASSUME SameEncode ==
  \A u, v \in Uploads :
    WorkerOf[u] = WorkerOf[v] /\ Total[u] = Total[v] => Content[u] = Content[v]

VARIABLES
  current,  \* the upload of the last upload_intent: staging_path and out_size
  client,   \* the worker's loop, one per upload
  inFlight, \* requests that have been sent and not been answered
  part,     \* what is in blob.part
  staged    \* the staging file of each upload on OpenList

vars == <<current, client, inFlight, part, staged>>

Chunked(u) == Total[u] > ChunkLen
ChunkEnd(u, start) ==
  IF start + ChunkLen < Total[u] THEN start + ChunkLen ELSE Total[u]

Piece == {Content[u] : u \in Uploads} \X Nat
Source(u) == [i \in 1 .. Total[u] |-> <<Content[u], i>>]

(* That there is no file is not something a file can hold.                 *)
ASSUME NoFileAssumption == NoFile \notin Seq(Piece)

Client == [state : {"none", "sending", "waiting", "done", "failed"},
           start : Nat,    \* offset of the chunk being sent
           tries : Nat]    \* times it has been sent

Request == [upload : Uploads, start : Nat, try : Nat,
            pc     : {"sent", "streaming"},
            linked : BOOLEAN,                    \* what it has open is blob.part
            wrote  : Nat,                        \* pieces received
            target : Uploads \cup {NoUpload}]    \* the row it has read

TypeOK ==
  /\ current \in Uploads \cup {NoUpload}
  /\ client \in [Uploads -> Client]
  /\ inFlight \subseteq Request
  /\ part = NoFile \/ part \in Seq(Piece)
  /\ staged \in [Uploads -> Seq(Piece) \cup {NoFile}]

Init ==
  /\ current = NoUpload
  /\ client = [u \in Uploads |->
                [state |-> "none", start |-> 0, tries |-> 0]]
  /\ inFlight = {}
  /\ part = NoFile
  /\ staged = [u \in Uploads |-> NoFile]

----------------------------------------------------------------------------
(* The worker.                                                             *)

(* upload_intent, then the first chunk.  An earlier upload may still be    *)
(* running: its lease has expired, or its worker was given the task again. *)
Intent(u) ==
  /\ client[u].state = "none"
  /\ client' = [client EXCEPT ![u].state = "sending"]
  /\ current' = u
  /\ UNCHANGED <<inFlight, part, staged>>

Send(u) ==
  /\ client[u].state = "sending"
  /\ Cardinality(inFlight) < MaxInFlight
  /\ client' = [client EXCEPT ![u].state = "waiting",
                              ![u].tries = client[u].tries + 1]
  /\ inFlight' = inFlight \cup
       {[upload |-> u, start |-> client[u].start, try |-> client[u].tries + 1,
         pc |-> "sent", linked |-> FALSE, wrote |-> 0, target |-> NoUpload]}
  /\ UNCHANGED <<current, part, staged>>

Acked(c, u) ==
  IF Chunked(u) /\ ChunkEnd(u, c.start) < Total[u]
  THEN [state |-> "sending", start |-> ChunkEnd(u, c.start), tries |-> 0]
  ELSE [c EXCEPT !.state = "done"]

(* An exception: again after a pause, or raised to process_task.  A file   *)
(* that fits one chunk is sent once.                                       *)
Refused(c, u) ==
  [c EXCEPT !.state = IF Chunked(u) /\ c.tries < MaxTries THEN "sending"
                                                          ELSE "failed"]

(* A request never arrives. *)
Vanish(r) ==
  /\ r.pc = "sent"
  /\ inFlight' = inFlight \ {r}
  /\ UNCHANGED <<current, client, part, staged>>

(* No answer in time, or the connection breaks. *)
GiveUp(u) ==
  /\ client[u].state = "waiting"
  /\ client' = [client EXCEPT ![u] = Refused(@, u)]
  /\ UNCHANGED <<current, inFlight, part, staged>>

WaitsFor(u, r) == /\ client[u].state = "waiting"
                  /\ client[u].start = r.start
                  /\ client[u].tries = r.try

(* The answer to r; nobody hears it if the client has given up. *)
Answer(r, ok) ==
  client' = IF WaitsFor(r.upload, r)
            THEN [client EXCEPT ![r.upload] =
                    IF ok THEN Acked(@, r.upload) ELSE Refused(@, r.upload)]
            ELSE client

----------------------------------------------------------------------------
(* upload_proxy.                                                           *)

(* The lease, the total against out_size; a single-shot body is compared   *)
(* with out_size as well.                                                  *)
Allowed(r) == /\ WorkerOf[r.upload] = WorkerOf[current]
              /\ Total[r.upload] = Total[current]

PartLen == IF part = NoFile THEN 0 ELSE Len(part)

(* Defect: the offset of a chunk is not compared with what is there. *)
InOrderUnchecked(r) == r.start \in Nat

(* A first chunk starts the file anew. *)
InOrder(r) == r.start \in {0, PartLen}

Opens(r, linked) ==
  [r EXCEPT !.pc = "streaming", !.linked = linked, !.target = current]

(* Once blob.part is unlinked, whoever has it open writes in vain. *)
Unlinked(S) == {[r EXCEPT !.linked = FALSE] : r \in S}

Refuse(r) ==
  /\ r.pc = "sent"
  /\ ~Allowed(r) \/ (Chunked(r.upload) /\ ~InOrder(r))
  /\ Answer(r, FALSE)
  /\ inFlight' = inFlight \ {r}
  /\ UNCHANGED <<current, part, staged>>

(* A first chunk unlinks what is there and starts a new file. *)
Open(r) ==
  /\ r.pc = "sent"
  /\ Allowed(r)
  /\ Chunked(r.upload)
  /\ InOrder(r)
  /\ IF r.start = 0 /\ PartLen # 0
     THEN /\ part' = <<>>
          /\ inFlight' = Unlinked(inFlight \ {r}) \cup {Opens(r, TRUE)}
     ELSE /\ part' = IF part = NoFile THEN <<>> ELSE part
          /\ inFlight' = (inFlight \ {r}) \cup {Opens(r, TRUE)}
  /\ UNCHANGED <<current, client, staged>>

(* A body without Content-Range goes to a temporary file of its own. *)
OpenSingle(r) ==
  /\ r.pc = "sent"
  /\ Allowed(r)
  /\ ~Chunked(r.upload)
  /\ inFlight' = (inFlight \ {r}) \cup {Opens(r, FALSE)}
  /\ UNCHANGED <<current, client, part, staged>>

Wanted(r) == ChunkEnd(r.upload, r.start) - r.start

(* One piece of the body. *)
Write(r) ==
  /\ r.pc = "streaming"
  /\ Chunked(r.upload)
  /\ r.wrote < Wanted(r)
  /\ part' = IF r.linked
             THEN Append(part, <<Content[r.upload], r.start + r.wrote + 1>>)
             ELSE part
  /\ inFlight' = (inFlight \ {r}) \cup {[r EXCEPT !.wrote = @ + 1]}
  /\ UNCHANGED <<current, client, staged>>

(* The connection breaks: what has been written stays. *)
Break(r) ==
  /\ r.pc = "streaming"
  /\ inFlight' = inFlight \ {r}
  /\ UNCHANGED <<current, client, part, staged>>

FinishChunk(r) ==
  /\ r.pc = "streaming"
  /\ Chunked(r.upload)
  /\ r.wrote = Wanted(r)
  /\ ChunkEnd(r.upload, r.start) < Total[r.upload]
  /\ Answer(r, TRUE)
  /\ inFlight' = inFlight \ {r}
  /\ UNCHANGED <<current, part, staged>>

(* overwrite=False: a staging file is written once. *)
CanStage(r, data) == data # NoFile /\ staged[r.target] = NoFile

(* The last chunk: whatever blob.part is now goes to the staging path of   *)
(* the row as the request read it, and the directory is removed, also when *)
(* OpenList refuses the file, or stores it and seems to have failed.       *)
FinishLast(r) ==
  /\ r.pc = "streaming"
  /\ Chunked(r.upload)
  /\ r.wrote = Wanted(r)
  /\ ChunkEnd(r.upload, r.start) = Total[r.upload]
  /\ \/ /\ CanStage(r, part)
        /\ staged' = [staged EXCEPT ![r.target] = part]
        /\ \E ok \in BOOLEAN : Answer(r, ok)
     \/ Answer(r, FALSE) /\ UNCHANGED staged
  /\ part' = NoFile
  /\ inFlight' = Unlinked(inFlight \ {r})
  /\ UNCHANGED current

FinishSingle(r) ==
  /\ r.pc = "streaming"
  /\ ~Chunked(r.upload)
  /\ \/ /\ CanStage(r, Source(r.upload))
        /\ staged' = [staged EXCEPT ![r.target] = Source(r.upload)]
        /\ \E ok \in BOOLEAN : Answer(r, ok)
     \/ Answer(r, FALSE) /\ UNCHANGED staged
  /\ inFlight' = inFlight \ {r}
  /\ UNCHANGED <<current, part>>

----------------------------------------------------------------------------
Next ==
  \/ \E u \in Uploads : Intent(u) \/ Send(u) \/ GiveUp(u)
  \/ \E r \in inFlight :
       \/ Vanish(r) \/ Refuse(r) \/ Open(r) \/ OpenSingle(r) \/ Write(r) \/ Break(r)
       \/ FinishChunk(r) \/ FinishLast(r) \/ FinishSingle(r)

Spec == Init /\ [][Next]_vars

----------------------------------------------------------------------------
(* A staging file that /complete would accept is the file the worker meant *)
(* to upload.  Its size is all that is compared, so the size must tell     *)
(* every file that retries, broken connections, late requests and a second *)
(* worker have put together wrongly (upload_proxy, the part file of a      *)
(* task, which no upload_intent resets).  It does so while at most two     *)
(* requests are under way and no worker uploads two files of one size: two *)
(* late first chunks can remove the part file of a third, which is         *)
(* answered all the same, and what they append to the new one can have     *)
(* the length of a chunk together.                                         *)
StagedIntact ==
  \A u \in Uploads :
    current = u /\ staged[u] # NoFile /\ Len(staged[u]) = Total[u]
      => staged[u] = Source(u)
=============================================================================
