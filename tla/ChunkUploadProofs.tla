------------------------- MODULE ChunkUploadProofs -------------------------
(***************************************************************************)
(* Proofs about the chunked upload, for any uploads, sizes, length of a    *)
(* chunk and number of tries.                                              *)
(***************************************************************************)
EXTENDS ChunkUpload, FiniteSetTheorems, TLAPS

USE DEF Piece

----------------------------------------------------------------------------
(* Types.                                                                  *)

LEMMA SourceType == \A u \in Uploads : Source(u) \in Seq(Piece)
BY ChunkUploadAssumption DEF Source

LEMMA PartLenType ==
  ASSUME TypeOK
  PROVE  /\ PartLen \in Nat
         /\ part = NoFile => PartLen = 0
         /\ part # NoFile => part \in Seq(Piece) /\ PartLen = Len(part)
BY DEF TypeOK, PartLen

LEMMA RequestType ==
  ASSUME NEW r \in Request
  PROVE  /\ r.upload \in Uploads
         /\ r.start \in Nat
         /\ r.wrote \in Nat
         /\ r.linked \in BOOLEAN
         /\ r.pc \in {"sent", "streaming"}
BY DEF Request

(* What the answer to a request does to the clients.                       *)
LEMMA AnswerEffect ==
  ASSUME TypeOK, NEW r \in inFlight, NEW ok \in BOOLEAN, Answer(r, ok)
  PROVE  /\ client' \in [Uploads -> Client]
         /\ \A u \in Uploads :
              /\ client'[u].state = "none" <=> client[u].state = "none"
              /\ \/ client'[u].start = client[u].start
                 \/ /\ ok /\ u = r.upload /\ client[u].start = r.start
                    /\ ChunkEnd(u, r.start) < Total[u]
                    /\ client'[u].start = ChunkEnd(u, r.start)
<1> DEFINE v == r.upload
           c == client[v]
<1>1. v \in Uploads /\ c \in Client
  BY DEF TypeOK, Request
<1>2. CASE ~WaitsFor(v, r)
  BY <1>2 DEF Answer, TypeOK
<1>3. CASE WaitsFor(v, r)
  <2>1. c.state = "waiting" /\ c.start = r.start
    BY <1>3 DEF WaitsFor
  <2>2. ASSUME ok
        PROVE  /\ client' = [client EXCEPT ![v] = Acked(c, v)]
               /\ Acked(c, v) \in Client
               /\ Acked(c, v).state # "none"
               /\ \/ Acked(c, v).start = c.start
                  \/ /\ ChunkEnd(v, r.start) < Total[v]
                     /\ Acked(c, v).start = ChunkEnd(v, r.start)
    <3>1. client' = [client EXCEPT ![v] = Acked(c, v)]
      BY <1>3, <2>2 DEF Answer
    <3>2. ChunkEnd(v, c.start) \in Nat
      BY <1>1, ChunkUploadAssumption DEF ChunkEnd, Client
    <3>3. CASE Chunked(v) /\ ChunkEnd(v, c.start) < Total[v]
      <4>1. Acked(c, v) = [state |-> "sending", start |-> ChunkEnd(v, c.start),
                           tries |-> 0]
        BY <3>3 DEF Acked
      <4>2. Acked(c, v) \in Client
        BY <4>1, <3>2 DEF Client
      <4>3. QED
        BY <3>1, <3>3, <4>1, <4>2, <2>1
    <3>4. CASE ~(Chunked(v) /\ ChunkEnd(v, c.start) < Total[v])
      <4>1. Acked(c, v) = [c EXCEPT !.state = "done"]
        BY <3>4, Zenon DEF Acked
      <4>2. Acked(c, v) \in Client /\ Acked(c, v).start = c.start
            /\ Acked(c, v).state = "done"
        BY <4>1, <1>1 DEF Client
      <4>3. QED
        BY <3>1, <4>2
    <3>5. QED
      BY <3>3, <3>4
  <2>3. ASSUME ~ok
        PROVE  /\ client' = [client EXCEPT ![v] = Refused(c, v)]
               /\ Refused(c, v) \in Client
               /\ Refused(c, v).state # "none"
               /\ Refused(c, v).start = c.start
    BY <1>1, <1>3, <2>3 DEF Answer, Refused, Client
  <2>4. QED
    BY <1>1, <2>1, <2>2, <2>3 DEF TypeOK
<1>4. QED
  BY <1>2, <1>3

LEMMA UnlinkedRequests ==
  ASSUME NEW S \in SUBSET Request, NEW q \in Unlinked(S)
  PROVE  \E p \in S : /\ q = [p EXCEPT !.linked = FALSE]
                      /\ q \in Request
                      /\ q.upload = p.upload /\ q.start = p.start
                      /\ q.try = p.try /\ q.pc = p.pc /\ ~q.linked
                      /\ q.wrote = p.wrote /\ q.target = p.target
<1>1. PICK p \in S : q = [p EXCEPT !.linked = FALSE]
  BY DEF Unlinked
<1>2. p \in Request
  OBVIOUS
<1>3. QED
  BY <1>1, <1>2 DEF Request

(* A request that has been opened, and one that has written a piece.       *)
LEMMA OpensType ==
  ASSUME NEW r \in Request, NEW on \in BOOLEAN, current \in Uploads \cup {NoUpload}
  PROVE  /\ Opens(r, on) \in Request
         /\ Opens(r, on).upload = r.upload /\ Opens(r, on).start = r.start
         /\ Opens(r, on).pc = "streaming" /\ Opens(r, on).linked = on
         /\ Opens(r, on).wrote = r.wrote /\ Opens(r, on).target = current
BY ZenonT(30) DEF Opens, Request

LEMMA WritesType ==
  ASSUME NEW r \in Request, NEW n, n = [r EXCEPT !.wrote = r.wrote + 1]
  PROVE  /\ n \in Request
         /\ n.upload = r.upload /\ n.start = r.start /\ n.pc = r.pc
         /\ n.linked = r.linked /\ n.wrote = r.wrote + 1 /\ n.target = r.target
BY DEF Request

(* Who has blob.part open holds on to a file that is there.                *)
Held == \A r \in inFlight : r.linked => part # NoFile

TypeInv == TypeOK /\ Held

LEMMA TypeInvInit == Init => TypeInv
BY ChunkUploadAssumption DEF Init, TypeInv, Held, TypeOK, Client

LEMMA TypeInvStep ==
  ASSUME TypeInv, [Next]_vars
  PROVE  TypeInv'
<1>0. /\ inFlight \subseteq Request
      /\ client \in [Uploads -> Client]
      /\ current \in Uploads \cup {NoUpload}
      /\ staged \in [Uploads -> Seq(Piece) \cup {NoFile}]
      /\ part = NoFile \/ part \in Seq(Piece)
      /\ Held /\ TypeOK
  BY DEF TypeInv, TypeOK
<1>1. ASSUME NEW u \in Uploads, Intent(u)
      PROVE  TypeInv'
  <2>1. client' \in [Uploads -> Client]
    BY <1>0, <1>1 DEF Intent, Client
  <2>2. QED
    BY <1>0, <1>1, <2>1 DEF Intent, TypeInv, Held, TypeOK
<1>2. ASSUME NEW u \in Uploads, Send(u)
      PROVE  TypeInv'
  <2>1. client' \in [Uploads -> Client]
    BY <1>0, <1>2 DEF Send, Client
  <2>2. inFlight' \subseteq Request
    BY <1>0, <1>2 DEF Send, Request, Client
  <2>3. QED
    BY <1>0, <1>2, <2>1, <2>2 DEF Send, TypeInv, Held, TypeOK
<1>3. ASSUME NEW u \in Uploads, GiveUp(u)
      PROVE  TypeInv'
  <2>1. client' \in [Uploads -> Client]
    BY <1>0, <1>3 DEF GiveUp, Refused, Client
  <2>2. QED
    BY <1>0, <1>3, <2>1 DEF GiveUp, TypeInv, Held, TypeOK
<1>4. ASSUME NEW r \in inFlight, Vanish(r) \/ Break(r)
      PROVE  TypeInv'
  BY <1>0, <1>4 DEF Vanish, Break, TypeInv, Held, TypeOK
<1>5. ASSUME NEW r \in inFlight, Refuse(r) \/ FinishChunk(r)
      PROVE  TypeInv'
  <2>1. client' \in [Uploads -> Client]
    BY <1>0, <1>5, AnswerEffect DEF Refuse, FinishChunk
  <2>2. QED
    BY <1>0, <1>5, <2>1 DEF Refuse, FinishChunk, TypeInv, Held, TypeOK
<1>6. ASSUME NEW r \in inFlight, Open(r)
      PROVE  TypeInv'
  <2>1. Opens(r, TRUE) \in Request
    BY <1>0, OpensType
  <2>2. inFlight \ {r} \in SUBSET Request
    BY <1>0
  <2>3. Unlinked(inFlight \ {r}) \subseteq Request
    BY <2>2, UnlinkedRequests
  <2>4. inFlight' \subseteq Request
    BY <1>0, <1>6, <2>1, <2>3 DEF Open
  <2>5. part' \in Seq(Piece)
    <3>1. <<>> \in Seq(Piece)
      OBVIOUS
    <3>2. part' = <<>> \/ (part # NoFile /\ part' = part)
      BY <1>6, Zenon DEF Open
    <3>3. QED
      BY <1>0, <3>1, <3>2
  <2>6. QED
    BY <1>0, <1>6, <2>4, <2>5, NoFileAssumption DEF Open, TypeInv, Held, TypeOK
<1>7. ASSUME NEW r \in inFlight, OpenSingle(r)
      PROVE  TypeInv'
  <2>1. Opens(r, FALSE) \in Request /\ ~Opens(r, FALSE).linked
    BY <1>0, OpensType
  <2>2. QED
    BY <1>0, <1>7, <2>1 DEF OpenSingle, TypeInv, Held, TypeOK
<1>8. ASSUME NEW r \in inFlight, Write(r)
      PROVE  TypeInv'
  <2> DEFINE n == [r EXCEPT !.wrote = @ + 1]
  <2>1. n \in Request /\ n.linked = r.linked
    BY <1>0 DEF Request
  <2>2. inFlight' = (inFlight \ {r}) \cup {n}
    BY <1>8 DEF Write
  <2>3. CASE r.linked
    <3>1. part \in Seq(Piece)
      BY <1>0, <2>3 DEF Held
    <3>2. <<Content[r.upload], r.start + r.wrote + 1>> \in Piece
      BY <1>0, RequestType
    <3>3. part' \in Seq(Piece)
      BY <1>8, <2>3, <3>1, <3>2 DEF Write
    <3>4. QED
      BY <1>0, <1>8, <2>1, <2>2, <3>3, NoFileAssumption
         DEF Write, TypeInv, Held, TypeOK
  <2>4. CASE ~r.linked
    BY <1>0, <1>8, <2>1, <2>2, <2>4 DEF Write, TypeInv, Held, TypeOK
  <2>5. QED
    BY <2>3, <2>4
<1>9. ASSUME NEW r \in inFlight, FinishLast(r)
      PROVE  TypeInv'
  <2>1. client' \in [Uploads -> Client]
    BY <1>0, <1>9, AnswerEffect DEF FinishLast
  <2>2. inFlight \ {r} \in SUBSET Request
    BY <1>0
  <2>3. \A q \in inFlight' : q \in Request /\ ~q.linked
    BY <1>9, <2>2, UnlinkedRequests DEF FinishLast
  <2>4. staged' \in [Uploads -> Seq(Piece) \cup {NoFile}]
    BY <1>0, <1>9 DEF FinishLast
  <2>5. QED
    BY <1>0, <1>9, <2>1, <2>3, <2>4 DEF FinishLast, TypeInv, Held, TypeOK
<1>10. ASSUME NEW r \in inFlight, FinishSingle(r)
       PROVE  TypeInv'
  <2>1. client' \in [Uploads -> Client]
    BY <1>0, <1>10, AnswerEffect DEF FinishSingle
  <2>2. Source(r.upload) \in Seq(Piece)
    BY <1>0, RequestType, SourceType
  <2>3. staged' \in [Uploads -> Seq(Piece) \cup {NoFile}]
    BY <1>0, <1>10, <2>2 DEF FinishSingle
  <2>4. QED
    BY <1>0, <1>10, <2>1, <2>3 DEF FinishSingle, TypeInv, Held, TypeOK
<1>11. CASE UNCHANGED vars
  BY <1>0, <1>11 DEF vars, TypeInv, Held, TypeOK
<1>12. QED
  BY <1>1, <1>2, <1>3, <1>4, <1>5, <1>6, <1>7, <1>8, <1>9, <1>10, <1>11
     DEF Next

(* Every field keeps its type; in particular a part file and a staging     *)
(* file hold pieces of the uploads, and a request that still writes to     *)
(* blob.part never finds it removed: os.unlink and the rename take the     *)
(* name away from every request that has the file open.                    *)
THEOREM TypeCorrect == Spec => [](TypeOK /\ Held)
<1>1. TypeInv => TypeOK /\ Held
  BY DEF TypeInv
<1>2. QED
  BY <1>1, TypeInvInit, TypeInvStep, PTL DEF Spec

----------------------------------------------------------------------------
(* What the size of a staging file tells.                                  *)
(*                                                                         *)
(* blob.part need not be the beginning of any upload: a late request may   *)
(* still append to it what another one has appended already.  The argument *)
(* is that it is then too long.  Whoever has it open has put its own       *)
(* pieces there (Adds), so what is there beyond them makes it longer than  *)
(* the offset the request will reach; and a file that a late first chunk   *)
(* has started anew, behind the back of the request that is acknowledged,  *)
(* is the beginning of the upload as far as the worker has come (Cut).     *)

(* No worker uploads two files of one size.                                *)
TellsApart ==
  \A u, v \in Uploads : WorkerOf[u] = WorkerOf[v] /\ Total[u] = Total[v] => u = v

(* At most two requests are under way.                                     *)
Few == \A p, q, r \in inFlight : p = q \/ q = r \/ p = r

(* A request is for the chunk its client is at or for an earlier one, and  *)
(* the row it has read is that of its own upload, or of one that is over.  *)
Sound(r) ==
  /\ client[r.upload].state # "none"
  /\ r.start < Total[r.upload]
  /\ \/ r.start = client[r.upload].start
     \/ r.start + ChunkLen <= client[r.upload].start
  /\ Chunked(r.upload) => r.wrote <= Wanted(r)
  /\ r.pc = "sent" => r.wrote = 0
  /\ r.linked => r.pc = "streaming" /\ Chunked(r.upload)
  /\ r.pc = "streaming" =>
       /\ r.target \in Uploads
       /\ client[r.target].state # "none"
       /\ r.target = current => r.upload = current

Begun(u) ==
  /\ client[u].start < Total[u]
  /\ client[u].state = "none" => client[u].start = 0 /\ staged[u] = NoFile
  /\ client[u].state # "none" => current \in Uploads

Requests ==
  /\ Few
  /\ \A r \in inFlight : Sound(r)
  /\ \A u \in Uploads : Begun(u)

(* The first k pieces of an upload.                                        *)
Prefix(u, k) == [i \in 1 .. k |-> <<Content[u], i>>]

(* A request that has blob.part open has put its pieces there; if nothing  *)
(* else has been put there the file is the beginning of the upload.        *)
Adds(r) ==
  r.upload = current /\ r.linked =>
    /\ r.start + r.wrote <= PartLen
    /\ r.start + r.wrote = PartLen => part = Prefix(current, PartLen)

(* The beginning of the current upload, of at most k pieces, and who has   *)
(* it open continues it.                                                   *)
Tidy(k) ==
  \/ part = NoFile
  \/ /\ PartLen <= k
     /\ part = Prefix(current, PartLen)
     /\ \A r \in inFlight :
          r.linked => r.upload = current /\ r.start + r.wrote = PartLen

(* A request whose file has been unlinked: the new one is tidy.            *)
Cut(r) ==
  r.upload = current /\ r.pc = "streaming" /\ ~r.linked /\ Chunked(current)
    => Tidy(client[current].start + ChunkLen)

Kept == current \in Uploads => \A r \in inFlight : Adds(r) /\ Cut(r)

(* The client does not wait for it any more, and it can still do harm.     *)
Late(r) ==
  \/ r.upload = current /\ r.start < client[current].start
  \/ r.upload # current /\ r.linked

(* The client has been told that the first s pieces are there: they are,   *)
(* or the file is longer, or it is being written again from the beginning. *)
Told(s) ==
  /\ \/ part # NoFile /\ s < PartLen
     \/ part # NoFile /\ part = Prefix(current, s)
     \/ Tidy(s) /\ \A r \in inFlight : r.linked => Late(r)
  /\ \A p, q \in inFlight : Late(p) /\ Late(q) => p = q

Acknowledged ==
  current \in Uploads /\ client[current].start > 0 => Told(client[current].start)

ChunkInv ==
  /\ TypeInv
  /\ Requests
  /\ Kept
  /\ Acknowledged
  /\ StagedIntact

----------------------------------------------------------------------------

LEMMA PrefixProperties ==
  ASSUME NEW u \in Uploads, NEW k \in Nat
  PROVE  /\ Prefix(u, k) \in Seq(Piece)
         /\ Len(Prefix(u, k)) = k
         /\ Append(Prefix(u, k), <<Content[u], k + 1>>) = Prefix(u, k + 1)
         /\ Prefix(u, 0) = <<>>
         /\ Prefix(u, Total[u]) = Source(u)
<1>1. Prefix(u, k) \in Seq(Piece) /\ Len(Prefix(u, k)) = k
  BY DEF Prefix
<1>2. <<Content[u], k + 1>> \in Piece /\ Prefix(u, k + 1) \in Seq(Piece)
      /\ Len(Prefix(u, k + 1)) = k + 1
  BY DEF Prefix
<1>3. Append(Prefix(u, k), <<Content[u], k + 1>>) = Prefix(u, k + 1)
  <2>1. \A i \in 1 .. k + 1 :
          Append(Prefix(u, k), <<Content[u], k + 1>>)[i] = Prefix(u, k + 1)[i]
    BY <1>1, <1>2 DEF Prefix
  <2>2. QED
    BY <1>1, <1>2, <2>1
<1>4. Prefix(u, 0) = <<>>
  BY DEF Prefix
<1>5. Prefix(u, Total[u]) = Source(u)
  BY DEF Prefix, Source
<1>6. QED
  BY <1>1, <1>3, <1>4, <1>5

(* At most two requests: without one of them there is at most one.         *)
LEMMA OneOther ==
  ASSUME Few, NEW r \in inFlight
  PROVE  \A p, q \in inFlight \ {r} : p = q
BY DEF Few

LEMMA AtMostOne ==
  ASSUME NEW S, IsFiniteSet(S), Cardinality(S) < 2, NEW p \in S, NEW q \in S
  PROVE  p = q
<1>1. SUFFICES ASSUME p # q
               PROVE  FALSE
  OBVIOUS
<1>2. IsFiniteSet({p}) /\ Cardinality({p}) = 1
  BY FS_Singleton
<1>3. Cardinality({p} \cup {q}) = 2
  BY <1>1, <1>2, FS_AddElement
<1>4. {p} \cup {q} \subseteq S
  OBVIOUS
<1>5. Cardinality({p} \cup {q}) <= Cardinality(S)
  BY <1>4, FS_Subset
<1>6. Cardinality(S) \in Nat
  BY FS_CardinalityType
<1>7. QED
  BY <1>3, <1>5, <1>6

LEMMA FewFinite == Few => IsFiniteSet(inFlight)
<1>1. SUFFICES ASSUME Few
               PROVE  IsFiniteSet(inFlight)
  OBVIOUS
<1>2. CASE inFlight = {}
  BY <1>2, FS_EmptySet
<1>3. ASSUME NEW p \in inFlight
      PROVE  IsFiniteSet(inFlight)
  <2>1. CASE inFlight = {p}
    BY <2>1, FS_Singleton
  <2>2. ASSUME NEW q \in inFlight \ {p}
        PROVE  IsFiniteSet(inFlight)
    <3>1. inFlight = {p} \cup {q}
      BY <1>1, <2>2 DEF Few
    <3>2. QED
      BY <3>1, FS_Singleton, FS_AddElement
  <2>3. QED
    BY <1>3, <2>1, <2>2
<1>4. QED
  BY <1>2, <1>3

(* ChunkEnd, once and for all.                                             *)
LEMMA ChunkEndBounds ==
  ASSUME NEW u \in Uploads, NEW s \in Nat, s < Total[u]
  PROVE  /\ ChunkEnd(u, s) \in Nat
         /\ s < ChunkEnd(u, s) /\ ChunkEnd(u, s) <= s + ChunkLen
         /\ ChunkEnd(u, s) <= Total[u]
         /\ ChunkEnd(u, s) < Total[u] => ChunkEnd(u, s) = s + ChunkLen
BY ChunkUploadAssumption DEF ChunkEnd

LEMMA SizesType == ChunkLen \in Nat \ {0} /\ \A u \in Uploads : Total[u] \in Nat \ {0}
BY ChunkUploadAssumption

----------------------------------------------------------------------------
(* What the rest of the proof uses of the types.                           *)
LEMMA Facts ==
  ASSUME TypeOK
  PROVE  /\ \A r \in inFlight : /\ r.upload \in Uploads
                                /\ r.start \in Nat /\ r.wrote \in Nat
                                /\ r.pc \in {"sent", "streaming"}
         /\ \A u \in Uploads : client[u].start \in Nat /\ Total[u] \in Nat \ {0}
         /\ PartLen \in Nat
         /\ part = NoFile => PartLen = 0
         /\ part # NoFile => part \in Seq(Piece) /\ PartLen = Len(part)
         /\ ChunkLen \in Nat \ {0}
BY PartLenType, SizesType DEF TypeOK, Request, Client

(* Requests leave and no offset changes: lost, broken off, refused, and    *)
(* given up on.                                                            *)
LEMMA Fewer ==
  ASSUME TypeOK, Requests, Kept, Acknowledged,
         inFlight' \subseteq inFlight,
         UNCHANGED <<current, part>>,
         \A u \in Uploads :
           /\ client'[u].state = "none" <=> client[u].state = "none"
           /\ client'[u].start = client[u].start
           /\ client[u].state = "none" => staged'[u] = staged[u]
  PROVE  Requests' /\ Kept' /\ Acknowledged'
<1>0. \A r \in inFlight : r.upload \in Uploads
  BY Facts
<1>1. Requests'
  <2>1. Few'
    BY DEF Requests, Few
  <2>2. \A r \in inFlight' : Sound(r)'
    BY <1>0 DEF Requests, Sound
  <2>3. \A u \in Uploads : Begun(u)'
    BY DEF Requests, Begun
  <2>4. QED
    BY <2>1, <2>2, <2>3 DEF Requests
<1>2. ASSUME NEW k, Tidy(k)
      PROVE  Tidy(k)'
  BY <1>2 DEF Tidy, PartLen
<1>3. Kept'
  <2>1. SUFFICES ASSUME current' \in Uploads, NEW r \in inFlight'
                 PROVE  Adds(r)' /\ Cut(r)'
    BY DEF Kept
  <2>2. Adds(r) /\ Cut(r)
    BY <2>1 DEF Kept
  <2>3. QED
    BY <2>1, <2>2, <1>2 DEF Adds, Cut, PartLen
<1>4. Acknowledged'
  <2>1. SUFFICES ASSUME NEW s, s = client'[current'].start, s > 0,
                        current \in Uploads
                 PROVE  Told(s)'
    BY DEF Acknowledged
  <2>2. Told(s) /\ s = client[current].start
    BY <2>1 DEF Acknowledged
  <2>3. \A r : Late(r)' <=> Late(r)
    BY <2>1, <2>2 DEF Late
  <2>4. QED
    BY <2>1, <2>2, <2>3, <1>2 DEF Told, PartLen
<1>5. QED
  BY <1>1, <1>3, <1>4

LEMMA IntentStep ==
  ASSUME ChunkInv, NEW v \in Uploads, Intent(v)
  PROVE  Requests' /\ Kept' /\ Acknowledged' /\ StagedIntact'
<1>0. TypeOK /\ Requests
  BY DEF ChunkInv, TypeInv
<1>1. /\ client[v].state = "none" /\ client[v].start = 0 /\ staged[v] = NoFile
      /\ current' = v
      /\ UNCHANGED <<inFlight, part, staged>>
      /\ \A u \in Uploads : /\ client'[u].start = client[u].start
                            /\ u # v => client'[u] = client[u]
      /\ client'[v].state = "sending"
  BY <1>0 DEF Intent, Requests, Begun, TypeOK, Client
<1>2. \A r \in inFlight : /\ r.upload \in Uploads /\ r.upload # v
                          /\ r.pc = "streaming" => r.target # v
  BY <1>0, <1>1, Facts DEF Requests, Sound
<1>3. Requests'
  <2>1. Few'
    BY <1>0, <1>1 DEF Requests, Few
  <2>2. \A r \in inFlight' : Sound(r)'
    <3>1. SUFFICES ASSUME NEW r \in inFlight
                   PROVE  Sound(r)'
      BY <1>1
    <3>2. Sound(r) /\ r.upload \in Uploads /\ r.upload # v
      BY <1>0, <1>2 DEF Requests
    <3>3. QED
      BY <1>1, <1>2, <3>2 DEF Sound
  <2>3. \A u \in Uploads : Begun(u)'
    BY <1>0, <1>1 DEF Requests, Begun
  <2>4. QED
    BY <2>1, <2>2, <2>3 DEF Requests
<1>4. Kept'
  BY <1>1, <1>2 DEF Kept, Adds, Cut
<1>5. Acknowledged'
  BY <1>1 DEF Acknowledged
<1>6. StagedIntact'
  BY <1>1 DEF StagedIntact
<1>7. QED
  BY <1>3, <1>4, <1>5, <1>6

LEMMA SendStep ==
  ASSUME ChunkInv, MaxInFlight \in 0 .. 2, NEW v \in Uploads, Send(v)
  PROVE  Requests' /\ Kept' /\ Acknowledged' /\ StagedIntact'
<1>0. TypeOK /\ Requests /\ Kept /\ Acknowledged /\ StagedIntact
  BY DEF ChunkInv, TypeInv
<1>1. PICK n : /\ n.upload = v /\ n.start = client[v].start /\ n.pc = "sent"
               /\ ~n.linked /\ n.wrote = 0
               /\ inFlight' = inFlight \cup {n}
  BY DEF Send
<1>2. inFlight' = inFlight \cup {n}
  BY <1>1
<1>3. /\ client[v].state = "sending"
      /\ Cardinality(inFlight) < MaxInFlight
      /\ UNCHANGED <<current, part, staged>>
      /\ \A u \in Uploads :
           /\ client'[u].state = "none" <=> client[u].state = "none"
           /\ client'[u].start = client[u].start
  BY <1>0 DEF Send, TypeOK, Client
<1>4. current \in Uploads
  BY <1>0, <1>3 DEF Requests, Begun
<1>5. Requests'
  <2>1. Few'
    <3>1. IsFiniteSet(inFlight)
      BY <1>0, FewFinite DEF Requests
    <3>2. Cardinality(inFlight) < 2
      BY <1>3, <3>1, FS_CardinalityType
    <3>3. \A p, q \in inFlight : p = q
      BY <3>1, <3>2, AtMostOne
    <3>4. QED
      BY <1>2, <3>3 DEF Few
  <2>2. \A r \in inFlight' : Sound(r)'
    <3>1. ASSUME NEW r \in inFlight
          PROVE  Sound(r)'
      <4>1. Sound(r) /\ r.upload \in Uploads
        BY <1>0, Facts DEF Requests
      <4>2. QED
        BY <1>3, <4>1 DEF Sound
    <3>2. Sound(n)'
      BY <1>0, <1>1, <1>3, Facts, ChunkEndBounds DEF Sound, Requests, Begun, Wanted
    <3>3. QED
      BY <1>2, <3>1, <3>2
  <2>3. \A u \in Uploads : Begun(u)'
    BY <1>0, <1>3 DEF Requests, Begun
  <2>4. QED
    BY <2>1, <2>2, <2>3 DEF Requests
<1>6. ASSUME NEW k, Tidy(k)
      PROVE  Tidy(k)'
  BY <1>1, <1>2, <1>3, <1>6 DEF Tidy, PartLen
<1>7. \A r \in inFlight' : Late(r)' => r \in inFlight /\ Late(r)
  BY <1>0, <1>1, <1>2, <1>3, <1>4, Facts DEF Late
<1>8. Kept'
  <2>1. ASSUME NEW r \in inFlight
        PROVE  Adds(r)' /\ Cut(r)'
    BY <1>0, <1>3, <1>4, <1>6 DEF Kept, Adds, Cut, PartLen
  <2>2. Adds(n)' /\ Cut(n)'
    BY <1>1 DEF Adds, Cut
  <2>3. QED
    BY <1>2, <2>1, <2>2 DEF Kept
<1>9. Acknowledged'
  <2>1. SUFFICES ASSUME NEW s, s = client[current].start, s > 0
                 PROVE  Told(s)'
    BY <1>3, <1>4 DEF Acknowledged
  <2>2. Told(s)
    BY <1>0, <1>4, <2>1 DEF Acknowledged
  <2>3. \A r \in inFlight : Late(r) => Late(r)'
    BY <1>3, <1>4 DEF Late
  <2>4. QED
    BY <1>1, <1>2, <1>3, <1>6, <1>7, <2>2, <2>3 DEF Told, PartLen
<1>10. StagedIntact'
  BY <1>0, <1>3 DEF StagedIntact
<1>11. QED
  BY <1>5, <1>8, <1>9, <1>10

LEMMA FewReplaced ==
  ASSUME Few, NEW r \in inFlight, NEW n, inFlight' = (inFlight \ {r}) \cup {n}
  PROVE  Few'
<1>1. \A p, q \in inFlight \ {r} : p = q
  BY OneOther
<1>2. QED
  BY <1>1 DEF Few

(* A request goes on, and what it does to blob.part, if anything, is not   *)
(* seen: OpenSingle, and Write once the file has been unlinked.            *)
LEMMA Replaced ==
  ASSUME TypeOK, Requests, Kept, Acknowledged,
         UNCHANGED <<current, client, part, staged>>,
         NEW r \in inFlight, NEW n,
         inFlight' = (inFlight \ {r}) \cup {n},
         n.upload = r.upload, n.start = r.start, ~n.linked, ~r.linked,
         Sound(n), Cut(n)
  PROVE  Requests' /\ Kept' /\ Acknowledged'
<1>1. Requests'
  <2>1. Few'
    BY FewReplaced DEF Requests
  <2>2. \A q : Sound(q) => Sound(q)'
    BY DEF Sound
  <2>3. \A u \in Uploads : Begun(u)'
    BY DEF Requests, Begun
  <2>4. QED
    BY <2>1, <2>2, <2>3 DEF Requests
<1>2. ASSUME NEW k, Tidy(k)
      PROVE  Tidy(k)'
  BY <1>2 DEF Tidy, PartLen
<1>3. ASSUME NEW q, Adds(q), Cut(q)
      PROVE  Adds(q)' /\ Cut(q)'
  BY <1>2, <1>3 DEF Adds, Cut, PartLen
<1>4. Kept'
  <2>1. Adds(n)
    BY DEF Adds
  <2>2. QED
    BY <1>3, <2>1 DEF Kept
<1>5. Acknowledged'
  <2>1. SUFFICES ASSUME NEW s, s = client[current].start, s > 0,
                        current \in Uploads
                 PROVE  Told(s)'
    BY DEF Acknowledged
  <2>2. Told(s)
    BY <2>1 DEF Acknowledged
  <2>3. \A q : Late(q)' <=> Late(q)
    BY DEF Late
  <2>4. Late(n) <=> Late(r)
    BY DEF Late
  <2>5. \A p, q \in inFlight' : Late(p)' /\ Late(q)' => p = q
    BY <2>2, <2>3, <2>4 DEF Told
  <2>6. (\A q \in inFlight : q.linked => Late(q))
          => \A q \in inFlight' : q.linked => Late(q)'
    BY <2>3
  <2>7. QED
    BY <1>2, <2>2, <2>5, <2>6 DEF Told, PartLen
<1>6. QED
  BY <1>1, <1>4, <1>5

(* Who may write is who uploads.                                           *)
LEMMA AllowedIsCurrent ==
  ASSUME TellsApart, TypeOK, Requests, NEW r \in inFlight, Allowed(r)
  PROVE  /\ r.upload = current /\ current \in Uploads
         /\ client[current].state # "none"
<1>1. r.upload \in Uploads /\ client[r.upload].state # "none"
  BY Facts DEF Requests, Sound
<1>2. current \in Uploads
  BY <1>1 DEF Requests, Begun
<1>3. QED
  BY <1>1, <1>2 DEF Allowed, TellsApart

LEMMA OpenSingleStep ==
  ASSUME ChunkInv, TellsApart, NEW r \in inFlight, OpenSingle(r)
  PROVE  Requests' /\ Kept' /\ Acknowledged' /\ StagedIntact'
<1>0. TypeOK /\ Requests /\ Kept /\ Acknowledged /\ StagedIntact
  BY DEF ChunkInv, TypeInv
<1>1. /\ r.pc = "sent" /\ ~Chunked(r.upload)
      /\ inFlight' = (inFlight \ {r}) \cup {Opens(r, FALSE)}
      /\ UNCHANGED <<current, client, part, staged>>
      /\ r.upload = current /\ current \in Uploads
      /\ client[current].state # "none"
  BY <1>0, AllowedIsCurrent DEF OpenSingle
<1>2. PICK n : n = Opens(r, FALSE)
  OBVIOUS
<1>3. /\ n.upload = r.upload /\ n.start = r.start /\ n.pc = "streaming"
      /\ ~n.linked /\ n.wrote = r.wrote /\ n.target = current
  <2>1. r \in Request /\ current \in Uploads \cup {NoUpload}
    BY <1>0 DEF TypeOK
  <2>2. QED
    BY <1>2, <2>1, OpensType
<1>4. Sound(r) /\ ~r.linked
  BY <1>0, <1>1 DEF Requests, Sound
<1>5. Sound(n)
  BY <1>1, <1>3, <1>4 DEF Sound, Wanted
<1>6. Cut(n)
  BY <1>1, <1>3 DEF Cut
<1>7. StagedIntact'
  BY <1>0, <1>1 DEF StagedIntact
<1>8. QED
  BY <1>0, <1>1, <1>2, <1>3, <1>4, <1>5, <1>6, <1>7, Replaced

(* A piece for blob.part.  Another request that has it open has one piece  *)
(* too many from now on.                                                   *)
LEMMA WriteStep ==
  ASSUME ChunkInv, NEW r \in inFlight, Write(r)
  PROVE  Requests' /\ Kept' /\ Acknowledged' /\ StagedIntact'
<1>0. TypeOK /\ Requests /\ Kept /\ Acknowledged /\ StagedIntact
  BY DEF ChunkInv, TypeInv
<1>1. PICK n : /\ n = [r EXCEPT !.wrote = r.wrote + 1]
               /\ n.upload = r.upload /\ n.start = r.start /\ n.pc = r.pc
               /\ n.linked = r.linked /\ n.wrote = r.wrote + 1
               /\ n.target = r.target
  BY <1>0, WritesType DEF TypeOK
<1>2. /\ r.pc = "streaming" /\ Chunked(r.upload) /\ r.wrote < Wanted(r)
      /\ inFlight' = (inFlight \ {r}) \cup {n}
      /\ UNCHANGED <<current, client, staged>>
  BY <1>1 DEF Write
<1>3. Sound(r) /\ r.upload \in Uploads /\ r.start \in Nat /\ r.wrote \in Nat
  BY <1>0, Facts DEF Requests
<1>4. Wanted(r) \in Nat /\ r.start + Wanted(r) <= r.start + ChunkLen
  BY <1>3, ChunkEndBounds, SizesType DEF Wanted, Sound
<1>5. Sound(n)
  BY <1>1, <1>2, <1>3, <1>4 DEF Sound, Wanted
<1>6. StagedIntact'
  BY <1>0, <1>2 DEF StagedIntact
<1>7. CASE ~r.linked
  <2>1. UNCHANGED part
    BY <1>7 DEF Write
  <2>2. Cut(n)
    <3>1. CASE current \in Uploads
      BY <1>0, <1>1, <1>2, <1>7, <3>1 DEF Kept, Cut
    <3>2. CASE current \notin Uploads
      BY <1>1, <1>3, <3>2 DEF Cut
    <3>3. QED
      BY <3>1, <3>2
  <2>3. QED
    BY <1>0, <1>1, <1>2, <1>5, <1>6, <1>7, <2>1, <2>2, Replaced
<1>8. CASE r.linked
  <2>1. part # NoFile /\ part \in Seq(Piece) /\ PartLen = Len(part)
    BY <1>8, Facts DEF ChunkInv, TypeInv, Held
  <2>2. part' = Append(part, <<Content[r.upload], r.start + r.wrote + 1>>)
    BY <1>8 DEF Write
  <2>3. PartLen \in Nat /\ PartLen' = PartLen + 1 /\ part' # NoFile
    <3>1. <<Content[r.upload], r.start + r.wrote + 1>> \in Piece
      BY <1>3
    <3>2. part' \in Seq(Piece) /\ Len(part') = Len(part) + 1
      BY <2>1, <2>2, <3>1
    <3>3. QED
      BY <2>1, <3>2, NoFileAssumption DEF PartLen
  <2>4. Requests'
    <3>1. Few'
      BY <1>0, <1>2, FewReplaced DEF Requests
    <3>2. \A q : Sound(q) => Sound(q)'
      BY <1>2 DEF Sound
    <3>3. \A u \in Uploads : Begun(u)'
      BY <1>0, <1>2 DEF Requests, Begun
    <3>4. QED
      BY <1>0, <1>2, <1>5, <3>1, <3>2, <3>3 DEF Requests
  <2>5. ASSUME r.upload = current, current \in Uploads,
               r.start + r.wrote = PartLen, part = Prefix(current, PartLen)
        PROVE  part' = Prefix(current, PartLen')
    BY <2>2, <2>3, <2>5, PrefixProperties
  <2>6. ASSUME NEW k, k \in Nat, current \in Uploads, Tidy(k),
               r.start + ChunkLen <= k,
               \A q \in inFlight \ {r} : ~q.linked
        PROVE  Tidy(k)'
    <3>1. /\ part = Prefix(current, PartLen)
          /\ r.upload = current /\ r.start + r.wrote = PartLen
      BY <1>8, <2>1, <2>6 DEF Tidy
    <3>2. part' = Prefix(current, PartLen')
      BY <2>5, <2>6, <3>1
    <3>3. PartLen' <= k
      BY <1>2, <1>3, <1>4, <2>3, <2>6, <3>1, SizesType
    <3>4. \A q \in inFlight' :
            q.linked => q.upload = current /\ q.start + q.wrote = PartLen'
      <4>1. n.upload = current /\ n.start + n.wrote = PartLen'
        BY <1>1, <1>3, <2>3, <3>1
      <4>2. QED
        BY <1>2, <2>6, <4>1
    <3>5. QED
      BY <1>2, <3>2, <3>3, <3>4 DEF Tidy
  <2>7. Kept'
    <3>1. SUFFICES ASSUME current \in Uploads
                   PROVE  \A q \in inFlight' : Adds(q)' /\ Cut(q)'
      BY <1>2 DEF Kept
    <3>2. ASSUME NEW q \in inFlight \ {r}
          PROVE  Adds(q)'
      <4>1. Adds(q) /\ q.start \in Nat /\ q.wrote \in Nat
        BY <1>0, <3>1, Facts DEF Kept
      <4>2. QED
        BY <1>2, <2>3, <4>1 DEF Adds
    <3>3. ASSUME NEW q \in inFlight \ {r}
          PROVE  Cut(q)'
      <4>1. SUFFICES ASSUME q.upload = current, q.pc = "streaming", ~q.linked,
                            Chunked(current), NEW k, k = client[current].start + ChunkLen
                     PROVE  Tidy(k)'
        BY <1>2 DEF Cut
      <4>2. Tidy(k) /\ k \in Nat
        BY <1>0, <3>1, <4>1, Facts DEF Kept, Cut
      <4>3. \A p \in inFlight \ {r} : ~p.linked
        BY <1>0, <4>1, OneOther DEF Requests
      <4>4. r.upload = current
        BY <1>8, <2>1, <4>2 DEF Tidy
      <4>5. r.start + ChunkLen <= k
        BY <1>0, <1>3, <3>1, <4>1, <4>4, Facts DEF Sound
      <4>6. QED
        BY <2>6, <3>1, <4>2, <4>3, <4>5
    <3>4. Adds(n)' /\ Cut(n)'
      <4>1. Adds(r)
        BY <1>0, <3>1 DEF Kept
      <4>2. Adds(n)'
        BY <1>1, <1>2, <1>3, <1>8, <2>3, <2>5, <3>1, <4>1 DEF Adds
      <4>3. Cut(n)'
        BY <1>1, <1>8 DEF Cut
      <4>4. QED
        BY <4>2, <4>3
    <3>5. QED
      BY <1>2, <3>2, <3>3, <3>4
  <2>8. Acknowledged'
    <3>1. SUFFICES ASSUME NEW s, s = client[current].start, s > 0,
                          current \in Uploads
                   PROVE  Told(s)'
      BY <1>2 DEF Acknowledged
    <3>2. Told(s) /\ s \in Nat
      BY <1>0, <3>1, Facts DEF Acknowledged
    <3>3. \A q : Late(q)' <=> Late(q)
      BY <1>2 DEF Late
    <3>4. Late(n) <=> Late(r)
      BY <1>1 DEF Late
    <3>5. \A p, q \in inFlight' : Late(p)' /\ Late(q)' => p = q
      BY <1>2, <3>2, <3>3, <3>4 DEF Told
    <3>6. CASE s < PartLen
      BY <2>3, <3>2, <3>5, <3>6 DEF Told
    <3>7. CASE part = Prefix(current, s)
      <4>1. s = PartLen
        BY <2>1, <3>1, <3>2, <3>7, PrefixProperties
      <4>2. QED
        BY <2>3, <3>2, <3>5, <4>1 DEF Told
    <3>8. CASE Tidy(s) /\ \A q \in inFlight : q.linked => Late(q)
      <4>1. r.upload = current /\ Late(r)
        BY <1>8, <2>1, <3>8 DEF Tidy
      <4>2. r.start + ChunkLen <= s
        BY <1>3, <3>1, <3>2, <4>1 DEF Late, Sound
      <4>3. \A q \in inFlight \ {r} : ~q.linked
        BY <3>2, <3>8, <4>1 DEF Told
      <4>4. Tidy(s)'
        BY <2>6, <3>1, <3>2, <3>8, <4>2, <4>3
      <4>5. \A q \in inFlight' : q.linked => Late(q)'
        BY <1>2, <1>8, <3>3, <3>4, <3>8
      <4>6. QED
        BY <3>5, <4>4, <4>5 DEF Told
    <3>9. QED
      BY <2>1, <3>2, <3>6, <3>7, <3>8 DEF Told
  <2>9. QED
    BY <1>6, <2>4, <2>7, <2>8
<1>9. QED
  BY <1>7, <1>8

(* What happens to the other requests when blob.part is unlinked.          *)
LEMMA OthersUnlinked ==
  ASSUME TypeOK, Requests, NEW r \in inFlight
  PROVE  /\ \A q \in Unlinked(inFlight \ {r}) :
              \E p \in inFlight \ {r} :
                /\ q.upload = p.upload /\ q.start = p.start /\ q.wrote = p.wrote
                /\ q.pc = p.pc /\ q.target = p.target /\ ~q.linked
                /\ Sound(q)
                /\ Late(q) => Late(p)
         /\ \A p, q \in Unlinked(inFlight \ {r}) : p = q
<1>1. inFlight \ {r} \in SUBSET Request
  BY DEF TypeOK
<1>2. ASSUME NEW q \in Unlinked(inFlight \ {r})
      PROVE  \E p \in inFlight \ {r} :
                /\ q.upload = p.upload /\ q.start = p.start /\ q.wrote = p.wrote
                /\ q.pc = p.pc /\ q.target = p.target /\ ~q.linked
                /\ Sound(q)
                /\ Late(q) => Late(p)
  <2>1. PICK p \in inFlight \ {r} :
          /\ q.upload = p.upload /\ q.start = p.start /\ q.wrote = p.wrote
          /\ q.pc = p.pc /\ q.target = p.target /\ ~q.linked
    BY <1>1, UnlinkedRequests
  <2>2. Sound(p)
    BY DEF Requests
  <2>3. Sound(q)
    BY <2>1, <2>2 DEF Sound, Wanted
  <2>4. Late(q) => Late(p)
    BY <2>1 DEF Late
  <2>5. QED
    BY <2>1, <2>3, <2>4
<1>3. \A p, q \in inFlight \ {r} : p = q
  BY OneOther DEF Requests
<1>4. \A p, q \in Unlinked(inFlight \ {r}) : p = q
  BY <1>3 DEF Unlinked
<1>5. QED
  BY <1>2, <1>4

(* A first chunk that finds something starts blob.part anew.               *)
LEMMA RestartStep ==
  ASSUME ChunkInv, TellsApart, NEW r \in inFlight, Open(r),
         r.start = 0, PartLen # 0
  PROVE  Requests' /\ Kept' /\ Acknowledged' /\ StagedIntact'
<1>0. TypeOK /\ Requests /\ Kept /\ Acknowledged /\ StagedIntact
  BY DEF ChunkInv, TypeInv
<1>1. /\ r.pc = "sent" /\ Chunked(r.upload) /\ part' = <<>>
      /\ inFlight' = Unlinked(inFlight \ {r}) \cup {Opens(r, TRUE)}
      /\ UNCHANGED <<current, client, staged>>
      /\ r.upload = current /\ current \in Uploads
      /\ client[current].state # "none"
  BY <1>0, AllowedIsCurrent DEF Open
<1>2. PICK n : n = Opens(r, TRUE)
  OBVIOUS
<1>3. Sound(r) /\ ~r.linked /\ r.wrote = 0
  BY <1>0, <1>1 DEF Requests, Sound
<1>4. /\ n.upload = current /\ n.start = 0 /\ n.pc = "streaming"
      /\ n.linked /\ n.wrote = 0 /\ n.target = current
  <2>1. r \in Request /\ current \in Uploads \cup {NoUpload}
    BY <1>0 DEF TypeOK
  <2>2. QED
    BY <1>1, <1>2, <1>3, <2>1, OpensType
<1> DEFINE others == Unlinked(inFlight \ {r})
<1>5. /\ inFlight' = others \cup {n}
      /\ \A q \in others :
           \E p \in inFlight \ {r} : ~q.linked /\ Sound(q) /\ (Late(q) => Late(p))
      /\ \A p, q \in others : p = q
  BY <1>0, <1>1, <1>2, OthersUnlinked
<1> HIDE DEF others
<1>6. PartLen' = 0 /\ part' = Prefix(current, 0) /\ part' # NoFile
  <2>1. <<>> \in Seq(Piece) /\ Len(<<>>) = 0
    OBVIOUS
  <2>2. QED
    BY <1>1, <2>1, PrefixProperties, NoFileAssumption DEF PartLen
<1>7. Requests'
  <2>1. Few'
    BY <1>5 DEF Few
  <2>2. \A q : Sound(q) => Sound(q)'
    BY <1>1 DEF Sound
  <2>3. Sound(n)
    BY <1>1, <1>3, <1>4 DEF Sound, Wanted
  <2>4. \A u \in Uploads : Begun(u)'
    BY <1>0, <1>1 DEF Requests, Begun
  <2>5. QED
    BY <1>5, <2>1, <2>2, <2>3, <2>4 DEF Requests
<1>8. ASSUME NEW k \in Nat
      PROVE  Tidy(k)'
  <2>1. \A q \in inFlight' :
          q.linked => q.upload = current /\ q.start + q.wrote = PartLen'
    BY <1>4, <1>5, <1>6
  <2>2. PartLen' <= k /\ part' = Prefix(current', PartLen')
    BY <1>1, <1>6
  <2>3. QED
    BY <1>1, <2>1, <2>2 DEF Tidy
<1>9. client[current].start \in Nat /\ client[current].start + ChunkLen \in Nat
  BY <1>0, <1>1, Facts
<1>10. Kept'
  <2>1. \A q \in inFlight' : Cut(q)'
    BY <1>1, <1>8, <1>9 DEF Cut
  <2>2. Adds(n)'
    BY <1>1, <1>4, <1>6 DEF Adds
  <2>3. \A q \in others : Adds(q)'
    BY <1>5 DEF Adds
  <2>4. QED
    BY <1>5, <2>1, <2>2, <2>3 DEF Kept
<1>11. Acknowledged'
  <2>1. SUFFICES ASSUME NEW s, s = client[current].start, s > 0
                 PROVE  Told(s)'
    BY <1>1 DEF Acknowledged
  <2>2. Told(s) /\ s \in Nat
    BY <1>0, <1>1, <1>9, <2>1 DEF Acknowledged
  <2>3. \A q : Late(q)' <=> Late(q)
    BY <1>1 DEF Late
  <2>4. Late(n) /\ Late(r)
    BY <1>1, <1>4, <2>1, <2>2 DEF Late
  <2>5. \A q \in others : ~Late(q)
    BY <1>5, <2>2, <2>4 DEF Told
  <2>6. \A p, q \in inFlight' : Late(p)' /\ Late(q)' => p = q
    BY <1>5, <2>3, <2>5
  <2>7. \A q \in inFlight' : q.linked => Late(q)'
    BY <1>5, <2>3, <2>4
  <2>8. QED
    BY <1>8, <2>2, <2>6, <2>7 DEF Told
<1>12. StagedIntact'
  BY <1>0, <1>1 DEF StagedIntact
<1>13. QED
  BY <1>7, <1>10, <1>11, <1>12

(* Any other chunk continues blob.part where it ends: it is then the       *)
(* beginning of the upload, or it is longer than the client's offset.      *)
LEMMA ContinueStep ==
  ASSUME ChunkInv, TellsApart, NEW r \in inFlight, Open(r),
         ~(r.start = 0 /\ PartLen # 0)
  PROVE  Requests' /\ Kept' /\ Acknowledged' /\ StagedIntact'
<1>0. TypeOK /\ Requests /\ Kept /\ Acknowledged /\ StagedIntact
  BY DEF ChunkInv, TypeInv
<1>1. /\ r.pc = "sent" /\ Chunked(r.upload)
      /\ part' = IF part = NoFile THEN <<>> ELSE part
      /\ inFlight' = (inFlight \ {r}) \cup {Opens(r, TRUE)}
      /\ UNCHANGED <<current, client, staged>>
      /\ r.upload = current /\ current \in Uploads
      /\ client[current].state # "none"
      /\ r.start = PartLen
  BY <1>0, AllowedIsCurrent DEF Open, InOrder
<1>2. PICK n : n = Opens(r, TRUE)
  OBVIOUS
<1>3. Sound(r) /\ ~r.linked /\ r.wrote = 0
  BY <1>0, <1>1 DEF Requests, Sound
<1>4. /\ n.upload = current /\ n.start = PartLen /\ n.pc = "streaming"
      /\ n.linked /\ n.wrote = 0 /\ n.target = current
  <2>1. r \in Request /\ current \in Uploads \cup {NoUpload}
    BY <1>0 DEF TypeOK
  <2>2. QED
    BY <1>1, <1>2, <1>3, <2>1, OpensType
<1>5. inFlight' = (inFlight \ {r}) \cup {n}
  BY <1>1, <1>2
<1>6. /\ PartLen \in Nat /\ client[current].start \in Nat
      /\ part # NoFile => part \in Seq(Piece) /\ PartLen = Len(part)
      /\ part = NoFile => PartLen = 0
      /\ ChunkLen \in Nat \ {0}
  BY <1>0, <1>1, Facts
<1>7. PartLen' = PartLen /\ part' # NoFile /\ (part # NoFile => part' = part)
  <2>1. <<>> \in Seq(Piece) /\ Len(<<>>) = 0
    OBVIOUS
  <2>2. QED
    BY <1>1, <1>6, <2>1, NoFileAssumption DEF PartLen
<1>8. PartLen <= client[current].start
  BY <1>1, <1>3, <1>6 DEF Sound
<1>9. part' = Prefix(current, PartLen)
  <2>1. CASE PartLen = 0
    <3>1. part' = <<>>
      BY <1>1, <1>6, <2>1
    <3>2. QED
      BY <1>1, <2>1, <3>1, PrefixProperties
  <2>2. CASE PartLen # 0
    <3>1. part # NoFile /\ part' = part
      BY <1>6, <1>7, <2>2
    <3>2. Told(client[current].start)
      BY <1>0, <1>1, <1>6, <1>8, <2>2 DEF Acknowledged
    <3>3. CASE part = Prefix(current, client[current].start)
      <4>1. PartLen = client[current].start
        BY <1>1, <1>6, <3>1, <3>3, PrefixProperties
      <4>2. QED
        BY <3>1, <3>3, <4>1
    <3>4. CASE Tidy(client[current].start)
      BY <3>1, <3>4 DEF Tidy
    <3>5. QED
      BY <1>6, <1>8, <3>2, <3>3, <3>4 DEF Told
  <2>3. QED
    BY <2>1, <2>2
<1>10. Requests'
  <2>1. Few'
    BY <1>0, <1>5, FewReplaced DEF Requests
  <2>2. \A q : Sound(q) => Sound(q)'
    BY <1>1 DEF Sound
  <2>3. Sound(n)
    BY <1>1, <1>3, <1>4 DEF Sound, Wanted
  <2>4. \A u \in Uploads : Begun(u)'
    BY <1>0, <1>1 DEF Requests, Begun
  <2>5. QED
    BY <1>0, <1>5, <2>1, <2>2, <2>3, <2>4 DEF Requests
<1>11. ASSUME NEW k \in Nat, PartLen <= k, Tidy(k)
       PROVE  Tidy(k)'
  <2>1. \A q \in inFlight :
          q.linked => q.upload = current /\ q.start + q.wrote = PartLen
    BY <1>11 DEF Tidy, ChunkInv, TypeInv, Held
  <2>2. n.start + n.wrote = PartLen
    BY <1>4, <1>6
  <2>3. \A q \in inFlight' :
          q.linked => q.upload = current /\ q.start + q.wrote = PartLen'
    BY <1>4, <1>5, <1>7, <2>1, <2>2
  <2>4. QED
    BY <1>1, <1>7, <1>9, <1>11, <2>3 DEF Tidy
<1>12. Kept'
  <2>1. ASSUME NEW q \in inFlight \ {r}
        PROVE  Adds(q)'
    <3>1. Adds(q) /\ (q.linked => part # NoFile)
      BY <1>0, <1>1 DEF Kept, ChunkInv, TypeInv, Held
    <3>2. QED
      BY <1>1, <1>7, <3>1 DEF Adds
  <2>2. ASSUME NEW q \in inFlight \ {r}
        PROVE  Cut(q)'
    <3>1. SUFFICES ASSUME q.upload = current, q.pc = "streaming", ~q.linked,
                          Chunked(current), NEW k, k = client[current].start + ChunkLen
                   PROVE  Tidy(k)'
      BY <1>1 DEF Cut
    <3>2. Tidy(k)
      BY <1>0, <1>1, <3>1 DEF Kept, Cut
    <3>3. k \in Nat /\ PartLen <= k
      BY <1>6, <1>8, <3>1
    <3>4. QED
      BY <1>11, <3>2, <3>3
  <2>3. Adds(n)' /\ Cut(n)'
    BY <1>1, <1>4, <1>6, <1>7, <1>9 DEF Adds, Cut
  <2>4. QED
    BY <1>5, <2>1, <2>2, <2>3 DEF Kept
<1>13. Acknowledged'
  <2>1. SUFFICES ASSUME NEW s, s = client[current].start, s > 0
                 PROVE  Told(s)'
    BY <1>1 DEF Acknowledged
  <2>2. Told(s) /\ s \in Nat
    BY <1>0, <1>1, <1>6, <2>1 DEF Acknowledged
  <2>3. \A q : Late(q)' <=> Late(q)
    BY <1>1 DEF Late
  <2>4. Late(n) <=> Late(r)
    BY <1>1, <1>3, <1>4 DEF Late
  <2>5. \A p, q \in inFlight' : Late(p)' /\ Late(q)' => p = q
    BY <1>5, <2>2, <2>3, <2>4 DEF Told
  <2>6. CASE PartLen = s
    BY <1>1, <1>7, <1>9, <2>5, <2>6 DEF Told
  <2>7. CASE PartLen < s
    <3>1. Tidy(s) /\ \A q \in inFlight : q.linked => Late(q)
      <4>1. ~(part # NoFile /\ part = Prefix(current, s))
        BY <1>1, <1>6, <2>2, <2>7, PrefixProperties
      <4>2. QED
        BY <1>6, <2>2, <2>7, <4>1 DEF Told
    <3>2. Tidy(s)'
      BY <1>6, <1>11, <2>2, <2>7, <3>1
    <3>3. Late(n)
      BY <1>4, <2>1, <2>7 DEF Late
    <3>4. \A q \in inFlight' : q.linked => Late(q)'
      BY <1>5, <2>3, <3>1, <3>3
    <3>5. QED
      BY <2>5, <3>2, <3>4 DEF Told
  <2>8. QED
    BY <1>6, <1>8, <2>1, <2>2, <2>6, <2>7
<1>14. StagedIntact'
  BY <1>0, <1>1 DEF StagedIntact
<1>15. QED
  BY <1>10, <1>12, <1>13, <1>14

(* A chunk that is not the last one.                                       *)
LEMMA FinishChunkStep ==
  ASSUME ChunkInv, NEW r \in inFlight, FinishChunk(r)
  PROVE  Requests' /\ Kept' /\ Acknowledged' /\ StagedIntact'
<1>0. TypeOK /\ Requests /\ Kept /\ Acknowledged /\ StagedIntact
  BY DEF ChunkInv, TypeInv
<1> DEFINE v == r.upload
           e == ChunkEnd(v, r.start)
<1>1. /\ r.pc = "streaming" /\ Chunked(v) /\ r.wrote = Wanted(r) /\ e < Total[v]
      /\ inFlight' = inFlight \ {r}
      /\ UNCHANGED <<current, part, staged>>
      /\ Answer(r, TRUE)
  BY DEF FinishChunk
<1>2. /\ Sound(r) /\ v \in Uploads /\ r.start \in Nat /\ r.wrote \in Nat
      /\ ChunkLen \in Nat \ {0}
  BY <1>0, Facts DEF Requests
<1>3. e = r.start + ChunkLen /\ r.start + r.wrote = e
  BY <1>1, <1>2, ChunkEndBounds DEF Sound, Wanted
<1>4. \A u \in Uploads :
        /\ client'[u].state = "none" <=> client[u].state = "none"
        /\ \/ client'[u].start = client[u].start
           \/ u = v /\ client[u].start = r.start /\ client'[u].start = e
  BY <1>0, <1>1, AnswerEffect, ZenonT(30)
<1>5. StagedIntact'
  BY <1>0, <1>1 DEF StagedIntact
<1>6. CASE \A u \in Uploads : client'[u].start = client[u].start
  BY <1>0, <1>1, <1>4, <1>5, <1>6, Fewer
<1>7. CASE ~\A u \in Uploads : client'[u].start = client[u].start
  <2>1. client[v].start = r.start /\ client'[v].start = e
    BY <1>4, <1>7
  <2>2. \A u \in Uploads : u # v => client'[u].start = client[u].start
    BY <1>4
  <2>3. \A p, q \in inFlight' : p = q
    BY <1>0, <1>1, OneOther DEF Requests
  <2>4. current \in Uploads
    BY <1>0, <1>2 DEF Requests, Begun, Sound
  <2>5. Requests'
    <3>1. Few'
      BY <2>3 DEF Few
    <3>2. ASSUME NEW q \in inFlight'
          PROVE  Sound(q)'
      <4>1. q \in inFlight /\ Sound(q) /\ q.upload \in Uploads /\ q.start \in Nat
        BY <1>0, <1>1, Facts DEF Requests
      <4>2. \/ q.start = client'[q.upload].start
            \/ q.start + ChunkLen <= client'[q.upload].start
        BY <1>2, <1>3, <2>1, <2>2, <4>1 DEF Sound
      <4>3. QED
        BY <1>1, <1>4, <4>1, <4>2 DEF Sound
    <3>3. ASSUME NEW u \in Uploads
          PROVE  Begun(u)'
      <4>1. Begun(u)
        BY <1>0 DEF Requests
      <4>2. client[v].state # "none"
        BY <1>2 DEF Sound
      <4>3. QED
        BY <1>1, <1>4, <2>1, <2>2, <4>1, <4>2 DEF Begun
    <3>4. QED
      BY <3>1, <3>2, <3>3 DEF Requests
  <2>6. ASSUME NEW k \in Nat, NEW m \in Nat, k <= m, Tidy(k)
        PROVE  Tidy(m)'
    <3>1. PartLen \in Nat /\ PartLen' = PartLen
      BY <1>0, <1>1, Facts DEF PartLen
    <3>2. QED
      BY <1>1, <2>6, <3>1 DEF Tidy
  <2>7. /\ client[current].start \in Nat /\ client'[current].start \in Nat
        /\ client[current].start <= client'[current].start
    BY <1>0, <1>2, <1>3, <2>1, <2>2, <2>4, Facts
  <2>8. Kept'
    <3>1. ASSUME NEW q \in inFlight'
          PROVE  Adds(q)'
      <4>1. Adds(q)
        BY <1>0, <1>1, <2>4 DEF Kept
      <4>2. QED
        BY <1>1, <4>1 DEF Adds, PartLen
    <3>2. ASSUME NEW q \in inFlight'
          PROVE  Cut(q)'
      <4>1. SUFFICES ASSUME q.upload = current, q.pc = "streaming", ~q.linked,
                            Chunked(current),
                            NEW m, m = client'[current].start + ChunkLen
                     PROVE  Tidy(m)'
        BY <1>1 DEF Cut
      <4>2. Tidy(client[current].start + ChunkLen)
        BY <1>0, <1>1, <2>4, <4>1 DEF Kept, Cut
      <4>3. QED
        BY <1>2, <2>6, <2>7, <4>1, <4>2
    <3>3. QED
      BY <3>1, <3>2 DEF Kept
  <2>9. CASE v # current
    <3>1. client'[current].start = client[current].start
      BY <2>2, <2>4, <2>9
    <3>2. SUFFICES ASSUME NEW s, s = client[current].start, s > 0
                   PROVE  Told(s)'
      BY <1>1, <1>5, <2>4, <2>5, <2>8, <3>1 DEF Acknowledged
    <3>3. Told(s) /\ s \in Nat
      BY <1>0, <2>4, <2>7, <3>2 DEF Acknowledged
    <3>4. \A q \in inFlight : Late(q) => Late(q)'
      BY <1>1, <3>1 DEF Late
    <3>5. Tidy(s) => Tidy(s)'
      BY <2>6, <3>3
    <3>6. PartLen' = PartLen
      BY <1>1 DEF PartLen
    <3>7. QED
      BY <1>1, <2>3, <3>3, <3>4, <3>5, <3>6 DEF Told
  <2>10. CASE v = current
    <3>1. e \in Nat
      BY <1>2, <1>3
    <3>2. SUFFICES ASSUME NEW s, s = e
                   PROVE  Told(s)'
      BY <1>1, <1>5, <2>1, <2>5, <2>8, <2>10 DEF Acknowledged
    <3>3. PartLen \in Nat /\ PartLen' = PartLen
      BY <1>0, <1>1, Facts DEF PartLen
    <3>4. CASE r.linked
      <4>1. part # NoFile
        BY <3>4 DEF ChunkInv, TypeInv, Held
      <4>2. s <= PartLen /\ (s = PartLen => part = Prefix(current, s))
        BY <1>0, <1>3, <2>4, <2>10, <3>2, <3>4 DEF Kept, Adds
      <4>3. QED
        BY <1>1, <2>3, <3>1, <3>2, <3>3, <4>1, <4>2 DEF Told
    <3>5. CASE ~r.linked
      <4>1. Tidy(s)
        BY <1>0, <1>1, <1>3, <2>1, <2>4, <2>10, <3>2, <3>5 DEF Kept, Cut
      <4>2. Tidy(s)'
        BY <2>6, <3>1, <3>2, <4>1
      <4>3. ASSUME NEW q \in inFlight', q.linked
            PROVE  Late(q)'
        <5>1. q.upload = current
          BY <1>1, <4>1, <4>3 DEF Tidy, ChunkInv, TypeInv, Held
        <5>2. q.start <= client[current].start /\ q.start \in Nat
          BY <1>0, <1>1, <1>2, <2>7, <5>1, Facts DEF Requests, Sound
        <5>3. QED
          BY <1>1, <1>2, <1>3, <2>1, <2>10, <5>1, <5>2 DEF Late
      <4>4. QED
        BY <2>3, <4>2, <4>3 DEF Told
    <3>6. QED
      BY <3>4, <3>5
  <2>11. QED
    BY <2>9, <2>10
<1>8. QED
  BY <1>6, <1>7

(* The last chunk: blob.part becomes the staging file.                     *)
LEMMA FinishLastStep ==
  ASSUME ChunkInv, NEW r \in inFlight, FinishLast(r)
  PROVE  Requests' /\ Kept' /\ Acknowledged' /\ StagedIntact'
<1>0. TypeOK /\ Requests /\ Kept /\ Acknowledged /\ StagedIntact
  BY DEF ChunkInv, TypeInv
<1> DEFINE others == Unlinked(inFlight \ {r})
<1>1. /\ r.pc = "streaming" /\ Chunked(r.upload) /\ r.wrote = Wanted(r)
      /\ ChunkEnd(r.upload, r.start) = Total[r.upload]
      /\ part' = NoFile /\ inFlight' = others /\ current' = current
      /\ \/ staged' = staged
         \/ staged' = [staged EXCEPT ![r.target] = part]
  BY DEF FinishLast
<1>2. /\ \A q \in others :
           \E p \in inFlight \ {r} : ~q.linked /\ Sound(q) /\ (Late(q) => Late(p))
      /\ \A p, q \in others : p = q
      /\ \A q \in others : q.upload \in Uploads
  BY <1>0, OthersUnlinked, Facts
<1> HIDE DEF others
<1>3. \A u \in Uploads :
        /\ client'[u].state = "none" <=> client[u].state = "none"
        /\ client'[u].start = client[u].start
  <2>1. PICK ok \in BOOLEAN : Answer(r, ok)
    BY DEF FinishLast
  <2>2. Total[r.upload] \in Nat
    BY <1>0, Facts
  <2>3. QED
    BY <1>0, <1>1, <2>1, <2>2, AnswerEffect
<1>4. Sound(r) /\ r.upload \in Uploads /\ r.start \in Nat /\ r.wrote \in Nat
  BY <1>0, Facts DEF Requests
<1>5. r.start + r.wrote = Total[r.upload]
  BY <1>1, <1>4, ChunkEndBounds DEF Wanted, Sound
<1>6. r.target \in Uploads /\ client[r.target].state # "none"
      /\ (r.target = current => r.upload = current)
  BY <1>1, <1>4 DEF Sound
<1>7. \A u \in Uploads : u # r.target => staged'[u] = staged[u]
  BY <1>0, <1>1 DEF TypeOK
<1>8. Requests'
  <2>1. Few'
    BY <1>1, <1>2 DEF Few
  <2>2. \A q \in inFlight' : Sound(q)'
    BY <1>1, <1>2, <1>3 DEF Sound
  <2>3. \A u \in Uploads : Begun(u)'
    BY <1>0, <1>1, <1>3, <1>6, <1>7 DEF Requests, Begun
  <2>4. QED
    BY <2>1, <2>2, <2>3 DEF Requests
<1>9. \A k : Tidy(k)'
  BY <1>1 DEF Tidy
<1>10. Kept'
  BY <1>1, <1>2, <1>9 DEF Kept, Adds, Cut
<1>11. Acknowledged'
  BY <1>1, <1>2, <1>9 DEF Acknowledged, Told
<1>12. StagedIntact'
  <2>1. SUFFICES ASSUME NEW u \in Uploads, u = current, staged'[u] # NoFile,
                        Len(staged'[u]) = Total[u]
                 PROVE  staged'[u] = Source(u)
    BY <1>1 DEF StagedIntact
  <2>2. CASE staged'[u] = staged[u]
    BY <1>0, <2>1, <2>2 DEF StagedIntact
  <2>3. CASE staged'[u] # staged[u]
    <3>1. u = r.target /\ staged'[u] = part
      BY <1>0, <1>1, <1>7, <2>3 DEF TypeOK
    <3>2. r.upload = current /\ part # NoFile /\ PartLen = Total[u]
      BY <1>6, <2>1, <3>1 DEF PartLen
    <3>3. CASE r.linked
      <4>1. part = Prefix(current, PartLen)
        BY <1>0, <1>5, <2>1, <3>2, <3>3 DEF Kept, Adds
      <4>2. QED
        BY <2>1, <3>1, <3>2, <4>1, SizesType, PrefixProperties
    <3>4. CASE ~r.linked
      <4>1. Tidy(client[current].start + ChunkLen)
        BY <1>0, <1>1, <2>1, <3>2, <3>4 DEF Kept, Cut
      <4>2. part = Prefix(current, PartLen)
        BY <3>2, <4>1 DEF Tidy
      <4>3. QED
        BY <2>1, <3>1, <3>2, <4>2, SizesType, PrefixProperties
    <3>5. QED
      BY <3>3, <3>4
  <2>4. QED
    BY <2>2, <2>3
<1>13. QED
  BY <1>8, <1>10, <1>11, <1>12

(* A file of its own.                                                      *)
LEMMA FinishSingleStep ==
  ASSUME ChunkInv, NEW r \in inFlight, FinishSingle(r)
  PROVE  Requests' /\ Kept' /\ Acknowledged' /\ StagedIntact'
<1>0. TypeOK /\ Requests /\ Kept /\ Acknowledged /\ StagedIntact
  BY DEF ChunkInv, TypeInv
<1>1. /\ r.pc = "streaming" /\ ~Chunked(r.upload)
      /\ inFlight' = inFlight \ {r}
      /\ UNCHANGED <<current, part>>
      /\ \/ staged' = staged
         \/ staged' = [staged EXCEPT ![r.target] = Source(r.upload)]
  BY DEF FinishSingle
<1>2. Sound(r) /\ r.upload \in Uploads /\ r.start \in Nat
  BY <1>0, Facts DEF Requests
<1>3. r.target \in Uploads /\ client[r.target].state # "none"
      /\ (r.target = current => r.upload = current)
  BY <1>1, <1>2 DEF Sound
<1>4. \A u \in Uploads :
        /\ client'[u].state = "none" <=> client[u].state = "none"
        /\ client'[u].start = client[u].start
  <2>1. PICK ok \in BOOLEAN : Answer(r, ok)
    BY DEF FinishSingle
  <2>2. ~(ChunkEnd(r.upload, r.start) < Total[r.upload])
    BY <1>0, <1>1, <1>2, Facts DEF ChunkEnd, Chunked
  <2>3. QED
    BY <1>0, <2>1, <2>2, AnswerEffect
<1>5. \A u \in Uploads : u # r.target => staged'[u] = staged[u]
  BY <1>0, <1>1 DEF TypeOK
<1>6. Requests' /\ Kept' /\ Acknowledged'
  BY <1>0, <1>1, <1>3, <1>4, <1>5, Fewer
<1>7. StagedIntact'
  <2>1. SUFFICES ASSUME NEW u \in Uploads, u = current, staged'[u] # NoFile,
                        Len(staged'[u]) = Total[u]
                 PROVE  staged'[u] = Source(u)
    BY <1>1 DEF StagedIntact
  <2>2. CASE staged'[u] = staged[u]
    BY <1>0, <2>1, <2>2 DEF StagedIntact
  <2>3. CASE staged'[u] # staged[u]
    BY <1>0, <1>1, <1>3, <1>5, <2>1, <2>3 DEF TypeOK
  <2>4. QED
    BY <2>2, <2>3
<1>8. QED
  BY <1>6, <1>7

(* Lost, broken off, refused, given up on.                                 *)
LEMMA FailStep ==
  ASSUME ChunkInv,
         \/ \E u \in Uploads : GiveUp(u)
         \/ \E r \in inFlight : Vanish(r) \/ Break(r) \/ Refuse(r)
  PROVE  Requests' /\ Kept' /\ Acknowledged' /\ StagedIntact'
<1>0. TypeOK /\ Requests /\ Kept /\ Acknowledged /\ StagedIntact
  BY DEF ChunkInv, TypeInv
<1>1. UNCHANGED <<current, part, staged>> /\ inFlight' \subseteq inFlight
  BY DEF GiveUp, Vanish, Break, Refuse
<1>2. \A u \in Uploads :
        /\ client'[u].state = "none" <=> client[u].state = "none"
        /\ client'[u].start = client[u].start
  <2>1. ASSUME NEW v \in Uploads, GiveUp(v)
        PROVE  \A u \in Uploads :
                 /\ client'[u].state = "none" <=> client[u].state = "none"
                 /\ client'[u].start = client[u].start
    BY <1>0, <2>1 DEF GiveUp, Refused, TypeOK, Client
  <2>2. ASSUME NEW r \in inFlight, Vanish(r) \/ Break(r)
        PROVE  client' = client
    BY <2>2 DEF Vanish, Break
  <2>3. ASSUME NEW r \in inFlight, Refuse(r)
        PROVE  Answer(r, FALSE)
    BY <2>3 DEF Refuse
  <2>4. QED
    BY <1>0, <2>1, <2>2, <2>3, AnswerEffect
<1>3. StagedIntact'
  BY <1>0, <1>1 DEF StagedIntact
<1>4. QED
  BY <1>0, <1>1, <1>2, <1>3, Fewer

----------------------------------------------------------------------------

(* While at most two requests of a task are under way and no worker        *)
(* uploads two files of one size, a staging file that has the size         *)
(* /complete compares is the file the worker meant to upload, whatever     *)
(* was lost, sent again, answered too late or appended by two requests at  *)
(* once (upload_proxy).                                                    *)
THEOREM SizeTells ==
  MaxInFlight \in 0 .. 2 /\ TellsApart => (Spec => []StagedIntact)
<1> SUFFICES ASSUME MaxInFlight \in 0 .. 2, TellsApart
             PROVE  Spec => []StagedIntact
  OBVIOUS
<1>1. Init => ChunkInv
  <2>1. SUFFICES ASSUME Init
                 PROVE  Requests /\ Kept /\ Acknowledged /\ StagedIntact
    BY TypeInvInit DEF ChunkInv
  <2>2. Requests
    BY <2>1, SizesType DEF Init, Requests, Few, Begun
  <2>3. Kept /\ Acknowledged
    BY <2>1, ChunkUploadAssumption DEF Init, Kept, Acknowledged
  <2>4. StagedIntact
    BY <2>1 DEF Init, StagedIntact
  <2>5. QED
    BY <2>2, <2>3, <2>4
<1>2. ASSUME ChunkInv, [Next]_vars
      PROVE  ChunkInv'
  <2>1. TypeInv'
    BY <1>2, TypeInvStep DEF ChunkInv
  <2>2. SUFFICES Requests' /\ Kept' /\ Acknowledged' /\ StagedIntact'
    BY <2>1 DEF ChunkInv
  <2>3. ASSUME NEW u \in Uploads, Intent(u)
        PROVE  Requests' /\ Kept' /\ Acknowledged' /\ StagedIntact'
    BY <1>2, <2>3, IntentStep
  <2>4. ASSUME NEW u \in Uploads, Send(u)
        PROVE  Requests' /\ Kept' /\ Acknowledged' /\ StagedIntact'
    BY <1>2, <2>4, SendStep
  <2>5. CASE \/ \E u \in Uploads : GiveUp(u)
             \/ \E r \in inFlight : Vanish(r) \/ Break(r) \/ Refuse(r)
    BY <1>2, <2>5, FailStep
  <2>6. ASSUME NEW r \in inFlight, Open(r)
        PROVE  Requests' /\ Kept' /\ Acknowledged' /\ StagedIntact'
    BY <1>2, <2>6, RestartStep, ContinueStep
  <2>7. ASSUME NEW r \in inFlight, OpenSingle(r)
        PROVE  Requests' /\ Kept' /\ Acknowledged' /\ StagedIntact'
    BY <1>2, <2>7, OpenSingleStep
  <2>8. ASSUME NEW r \in inFlight, Write(r)
        PROVE  Requests' /\ Kept' /\ Acknowledged' /\ StagedIntact'
    BY <1>2, <2>8, WriteStep
  <2>9. ASSUME NEW r \in inFlight, FinishChunk(r)
        PROVE  Requests' /\ Kept' /\ Acknowledged' /\ StagedIntact'
    BY <1>2, <2>9, FinishChunkStep
  <2>10. ASSUME NEW r \in inFlight, FinishLast(r)
         PROVE  Requests' /\ Kept' /\ Acknowledged' /\ StagedIntact'
    BY <1>2, <2>10, FinishLastStep
  <2>11. ASSUME NEW r \in inFlight, FinishSingle(r)
         PROVE  Requests' /\ Kept' /\ Acknowledged' /\ StagedIntact'
    BY <1>2, <2>11, FinishSingleStep
  <2>12. CASE UNCHANGED vars
    BY <1>2, <2>12 DEF vars, ChunkInv, Requests, Few, Sound, Begun, Wanted, Kept,
       Adds, Cut, Tidy, PartLen, Acknowledged, Told, Late, StagedIntact
  <2>13. QED
    BY <1>2, <2>3, <2>4, <2>5, <2>6, <2>7, <2>8, <2>9, <2>10, <2>11, <2>12 DEF Next
<1>3. QED
  BY <1>1, <1>2, PTL DEF Spec, ChunkInv

=============================================================================
