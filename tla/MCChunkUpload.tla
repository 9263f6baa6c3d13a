--------------------------- MODULE MCChunkUpload ---------------------------
(* Small instances of ChunkUpload. *)
EXTENDS ChunkUpload, TLC

CONSTANTS u1, u2, u3, a, b

(* Two uploads of two chunks, the second of one piece, and one upload that *)
(* fits into a request.                                                    *)
Lengths == [u \in Uploads |-> IF u = u3 THEN 2 ELSE 3]

(* Two workers, whose encoders may disagree. *)
TwoWorkers == [u \in Uploads |-> IF u = u2 THEN b ELSE a]

OwnContent == [u \in Uploads |-> u]
============================================================================
