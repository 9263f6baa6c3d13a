------------------------- MODULE RemoteUploadProofs -------------------------
(***************************************************************************)
(* Uploads to one directory of OpenList for any number of files, sizes,    *)
(* names OpenList adds, retries, failing calls and misleading looks, and   *)
(* whatever names the outputs are given: a larger file is never lost, and  *)
(* what is reported as uploaded is there, where the report says.           *)
(***************************************************************************)
EXTENDS RemoteUpload, FiniteSetTheorems, TLAPS

----------------------------------------------------------------------------
(* What the steps rely on, of types: the files, and the uploads.           *)
FilesOK(f) == \A p \in DOMAIN f : f[p].by \in folder \cup {Old} /\ f[p].size \in Nat \ {0}

Types ==
  /\ folder \subseteq Files
  /\ FilesOK(files) /\ FilesOK(seen)
  /\ DOMAIN up = folder
  /\ \A n \in folder : up[n] \in Upload(n)
  /\ misses \in Nat
  /\ faults \in Nat

(* The rest of the type invariant.                                         *)
Counts ==
  /\ planner \in Planners
  /\ DOMAIN plan = folder
  /\ faults \in 0 .. MaxFaults
  /\ misses \in 0 .. MaxMisses

(* The path of an output is what OpenList made of its name, or its name.   *)
Named ==
  \A n \in folder :
    /\ up[n].pc \in {"rename", "accept", "check"} => up[n].path \in Copies(up[n].name)
    /\ up[n].pc = "done" => up[n].path \in MayBe(n)

(* What is there is being cleared away, or uploaded over.                  *)
Clears(n) ==
  \/ up[n].pc \in {"remove", "relook"}
  \/ up[n].pc = "put" /\ up[n].over

Large(f, p) == p \in DOMAIN f /\ f[p].by = Old /\ f[p].size = Huge

(* Larger files are shown by every listing, and nothing that removes a     *)
(* file is about to be done to one.                                        *)
LargeSpared ==
  /\ \A p \in DOMAIN files :
       Large(files, p) => p \in DOMAIN seen /\ seen[p] = files[p]
  /\ \A n \in folder :
       /\ up[n].pc \in {"new", "look"} => ~up[n].over
       /\ Clears(n) => ~Large(files, up[n].name)
       /\ up[n].pc = "rename" => ~Large(files, up[n].path)

(* The output of n is in f, under one of the names it may have.            *)
Has(f, n) == \E p \in DOMAIN f : p \in MayBe(n) /\ f[p].size = SizeOf[n]

(* So little has gone wrong that what is there has not been lost.          *)
Few == misses = 0 \/ (misses = 1 /\ faults <= 2)

(* What is known of the files of an output whose names are its own.  A     *)
(* full file may be overwritten by a repeat only after two failing calls:  *)
(* the removal of what was there, and the upload that stored it.           *)
OwnTrue(n) ==
  /\ up[n].pc = "rename" => Size(files, up[n].path) = SizeOf[n]
  /\ up[n].pc = "check"  => Size(files, up[n].name) = SizeOf[n]
  /\ misses = 0 =>
       /\ up[n].pc = "done" => Size(files, up[n].path) = SizeOf[n]
       /\ Clears(n) => \/ Size(files, up[n].name) < SizeOf[n]
                       \/ up[n].pc = "put" /\ faults >= 2
       /\ up[n].pc = "relook" /\ Size(files, up[n].name) > 0 => faults >= 1
       /\ up[n].pc = "put" /\ up[n].over => faults >= 1
       /\ Has(seen, n) /\ faults <= 2 => Has(files, n)
  /\ up[n].pc = "done" /\ Few => Has(files, n)

Own == \A n \in folder : Apart(n) => OwnTrue(n)

----------------------------------------------------------------------------
(* What an upload of n may have made of f: files of n have come, under     *)
(* names that were free or that it was told to overwrite.                  *)
Adds(f, g, n) ==
  /\ DOMAIN f \subseteq DOMAIN g
  /\ \A q \in DOMAIN g :
       \/ q \in DOMAIN f /\ g[q] = f[q]
       \/ /\ q \in MayBe(n)
          /\ g[q].by = n /\ g[q].size \in {Partial, SizeOf[n]}
          /\ q \notin DOMAIN f \/ (q = up[n].name /\ up[n].over)

LEMMA NameMayBe ==
  ASSUME Types, NEW n \in folder
  PROVE  /\ up[n].name \in Outcomes(n)
         /\ up[n].name \in MayBe(n)
         /\ Copies(up[n].name) \subseteq MayBe(n)
  BY DEF Types, Upload, MayBe

LEMMA AddsStored ==
  ASSUME Types, NEW n \in folder, NEW f, NEW s \in {Partial, SizeOf[n]},
         NEW g \in Stored(f, n, s)
  PROVE  Adds(f, g, n)
<1> DEFINE file == [by |-> n, size |-> s]
<1>1. PICK q \in MayBe(n) :
        /\ g = With(f, q, file)
        /\ q \notin DOMAIN f \/ (q = up[n].name /\ up[n].over)
  BY NameMayBe DEF Stored
<1>2. file.by = n /\ file.size = s
  OBVIOUS
<1> HIDE DEF file
<1>3. /\ DOMAIN g = DOMAIN f \cup {q}
      /\ g[q] = file
      /\ \A r \in DOMAIN f \ {q} : g[r] = f[r]
  BY <1>1 DEF With
<1>4. QED
  BY <1>1, <1>2, <1>3 DEF Adds

LEMMA AddsPut ==
  ASSUME Types, NEW n \in folder, Put(n)
  PROVE  Adds(files, files', n)
<1>1. CASE files' \in Sent(n) \/ files' \in Stored(files, n, Partial)
  BY <1>1, AddsStored DEF Sent
<1>2. CASE files' = files
  BY <1>2 DEF Adds
<1>3. QED
  BY <1>1, <1>2 DEF Put, Lost

----------------------------------------------------------------------------
(* A look that shows what is there, and one that does not.                 *)
LEMMA LookShows ==
  ASSUME Types, NEW p, NEW s, Look(p, s)
  PROVE  /\ s \in Nat
         /\ \/ s = Size(files, p) /\ misses' = misses
            \/ s \in {Size(seen, p), 0} /\ misses' = misses + 1
  BY DEF Types, FilesOK, Look, Miss, Size

OnlyMoves(n) ==
  /\ DOMAIN up' = folder
  /\ \A m \in folder \ {n} : up'[m] = up[m]

(* Each step is of one output, and leaves listings alone or refreshes them. *)
LEMMA OthersStay ==
  ASSUME Types, NEW n \in folder, Step(n)
  PROVE  /\ folder' = folder /\ plan' = plan
         /\ OnlyMoves(n)
         /\ seen' = seen \/ (seen' = files /\ files' = files)
         /\ misses' = misses \/ misses' = misses + 1
         /\ faults' = faults \/ faults' = faults + 1
<1> USE DEF place, Types
<1>1. \A pc, p, r : Goes(n, pc) \/ Fails(n, r) \/ Done(n, p) => OnlyMoves(n)
  BY DEF Goes, Fails, Done, OnlyMoves
<1>2. NextLook(n) => OnlyMoves(n)
  BY <1>1 DEF NextLook, OnlyMoves
<1>3. /\ folder' = folder /\ plan' = plan
  BY DEF Step, Start, NotReady, LookFirst, Delete, LookAgain, Put, Verify, VerifyFails,
         Fix, Rename, Accept, Check
<1>4. OnlyMoves(n)
  <2>1. CASE Start(n)
    BY <2>1 DEF Start, OnlyMoves
  <2>2. CASE LookFirst(n)
    BY <2>2, <1>1 DEF LookFirst
  <2>3. CASE Delete(n)
    BY <2>3, <1>1 DEF Delete
  <2>4. CASE LookAgain(n)
    BY <2>4 DEF LookAgain, OnlyMoves
  <2>5. CASE Put(n)
    BY <2>5, <1>1 DEF Put
  <2>6. CASE Verify(n)
    BY <2>6, <1>1, <1>2 DEF Verify
  <2>7. CASE VerifyFails(n) \/ NotReady(n)
    BY <2>7, <1>1 DEF VerifyFails, NotReady
  <2>8. CASE Fix(n)
    BY <2>8, <1>1, <1>2 DEF Fix, OnlyMoves
  <2>9. CASE Rename(n)
    BY <2>9, <1>1 DEF Rename
  <2>10. CASE Accept(n)
    BY <2>10, <1>1, <1>2 DEF Accept
  <2>11. CASE Check(n)
    BY <2>11, <1>1, <1>2 DEF Check
  <2>12. QED
    BY <2>1, <2>2, <2>3, <2>4, <2>5, <2>6, <2>7, <2>8, <2>9, <2>10, <2>11 DEF Step
<1>5. seen' = seen \/ (seen' = files /\ files' = files)
  BY DEF Step, Start, NotReady, LookFirst, Delete, LookAgain, Put, Verify, VerifyFails,
         Fix, Rename, Accept, Check, Refresh
<1>6. misses' = misses \/ misses' = misses + 1
  BY DEF Step, Start, NotReady, LookFirst, Delete, LookAgain, Put, Verify, VerifyFails,
         Fix, Rename, Accept, Check, Look, Miss
<1>7. faults' = faults \/ faults' = faults + 1
  BY DEF Step, Start, NotReady, LookFirst, Delete, LookAgain, Put, Verify, VerifyFails,
         Fix, Rename, Accept, Check, Fault
<1>8. QED
  BY <1>3, <1>4, <1>5, <1>6, <1>7

----------------------------------------------------------------------------
(* Types.                                                                  *)
LEMMA FilesTyped ==
  ASSUME Types, NEW n \in folder, Step(n)
  PROVE  FilesOK(files)'
<1>1. folder' = folder
  BY OthersStay
<1>2. CASE files' = files
  BY <1>1, <1>2 DEF Types, FilesOK
<1>3. CASE Put(n)
  <2>1. Adds(files, files', n)
    BY <1>3, AddsPut
  <2>2. Partial \in Nat \ {0} /\ SizeOf[n] \in Nat \ {0}
    BY RemoteUploadAssumption DEF Types
  <2>3. QED
    BY <1>1, <2>1, <2>2 DEF Adds, Types, FilesOK
<1>4. CASE Delete(n) /\ files' = Without(files, up[n].name)
  BY <1>1, <1>4 DEF Types, FilesOK, Without
<1>5. CASE Rename(n) /\ files' # files
  <2>1. /\ up[n].path \in DOMAIN files
        /\ files' = With(Without(files, up[n].path), up[n].name, files[up[n].path])
    BY <1>5 DEF Rename
  <2>2. \A q \in DOMAIN files' : \E r \in DOMAIN files : files'[q] = files[r]
    BY <2>1 DEF With, Without
  <2>3. QED
    BY <1>1, <2>2 DEF Types, FilesOK
<1>6. QED
  BY <1>2, <1>3, <1>4, <1>5
     DEF Step, Start, NotReady, LookFirst, Delete, LookAgain, Verify, VerifyFails, Fix,
         Accept, Check

LEMMA NamedPath ==
  ASSUME Types, Named, NEW n \in folder, At(n, "accept") \/ At(n, "check")
  PROVE  up[n].path \in MayBe(n)
  BY NameMayBe DEF Named, At

LEMMA UpTyped ==
  ASSUME Types, Named, NEW n \in folder, Step(n)
  PROVE  up'[n] \in Upload(n)
<1> DEFINE u == up[n]
<1>1. /\ u \in Upload(n)
      /\ u.name \in Outcomes(n) /\ Copies(u.name) \subseteq MayBe(n)
  BY NameMayBe DEF Types
<1>2. \A r \in BOOLEAN : Fails(n, r) => up'[n] \in Upload(n)
  <2>1. \A t \in 0 .. Retries :
          [u EXCEPT !.pc = "look", !.over = FALSE, !.look = 1, !.try = t] \in Upload(n)
    <3>1. ASSUME NEW v \in Upload(n), NEW t \in 0 .. Retries
          PROVE  [v EXCEPT !.try = t] \in Upload(n)
      BY DEF Upload
    <3>2. \A v \in Upload(n) : [v EXCEPT !.over = FALSE] \in Upload(n)
      BY DEF Upload
    <3>3. \A v \in Upload(n) : [v EXCEPT !.pc = "look"] \in Upload(n)
      BY DEF Upload
    <3>4. \A v \in Upload(n) : [v EXCEPT !.look = 1] \in Upload(n)
      <4>1. 1 \in 1 .. 3
        OBVIOUS
      <4>2. QED
        BY <4>1 DEF Upload
    <3>5. \A t :
            [u EXCEPT !.pc = "look", !.over = FALSE, !.look = 1, !.try = t]
            = [[[[u EXCEPT !.pc = "look"] EXCEPT !.look = 1] EXCEPT !.over = FALSE]
                EXCEPT !.try = t]
      BY <1>1 DEF Upload
    <3>6. QED
      BY <1>1, <3>1, <3>2, <3>3, <3>4, <3>5
  <2>2. [u EXCEPT !.pc = "failed"] \in Upload(n)
    BY <1>1 DEF Upload
  <2>3. u.try < Retries => u.try + 1 \in 0 .. Retries
    BY <1>1, RemoteUploadAssumption DEF Upload
  <2>4. QED
    BY <2>1, <2>2, <2>3 DEF Fails, Types
<1>3. \A pc \in {"look", "remove", "relook", "put", "verify", "fix", "accept", "check"} :
        Goes(n, pc) => up'[n] \in Upload(n)
  BY <1>1 DEF Goes, Upload, Types
<1>4. \A p \in MayBe(n) : Done(n, p) => up'[n] \in Upload(n)
  <2>1. SUFFICES ASSUME NEW p \in MayBe(n), Done(n, p)
                 PROVE  up'[n] \in Upload(n)
    OBVIOUS
  <2>2. [u EXCEPT !.pc = "done", !.path = p] \in Upload(n)
    BY <1>1 DEF Upload
  <2>3. up'[n] = [u EXCEPT !.pc = "done", !.path = p]
    BY <2>1 DEF Done, Types
  <2>4. QED
    BY <2>2, <2>3
<1>5. NextLook(n) => up'[n] \in Upload(n)
  <2>1. CASE u.look < 3
    <3>1. u.look + 1 \in 1 .. 3
      BY <1>1, <2>1 DEF Upload
    <3>2. [u EXCEPT !.pc = "verify", !.look = @ + 1] \in Upload(n)
      BY <1>1, <3>1 DEF Upload
    <3>3. QED
      BY <2>1, <3>2 DEF NextLook, Types
  <2>2. CASE ~(u.look < 3)
    BY <1>2, <2>2 DEF NextLook
  <2>3. QED
    BY <2>1, <2>2
<1>6. CASE Start(n)
  <2>1. PICK p \in Outcomes(n) : up' = [up EXCEPT ![n].pc = "look", ![n].name = p]
    BY <1>6 DEF Start
  <2>2. QED
    BY <1>1, <2>1 DEF Upload, Types
<1>7. CASE LookFirst(n)
  BY <1>1, <1>2, <1>3, <1>4, <1>7, NameMayBe DEF LookFirst
<1>8. CASE Delete(n)
  BY <1>3, <1>8 DEF Delete
<1>9. CASE LookAgain(n)
  <2>1. PICK s : up' = [up EXCEPT ![n].pc = "put", ![n].over = s > 0]
    BY <1>9 DEF LookAgain
  <2>2. (s > 0) \in BOOLEAN
    OBVIOUS
  <2>3. \A b \in BOOLEAN : [u EXCEPT !.pc = "put", !.over = b] \in Upload(n)
    BY <1>1 DEF Upload
  <2>4. up'[n] = [u EXCEPT !.pc = "put", !.over = (s > 0)]
    BY <2>1 DEF Types
  <2>5. QED
    BY <2>2, <2>3, <2>4
<1>10. CASE Put(n)
  BY <1>2, <1>3, <1>10 DEF Put
<1>11. CASE Verify(n)
  BY <1>3, <1>4, <1>5, <1>11, NameMayBe DEF Verify
<1>12. CASE VerifyFails(n) \/ NotReady(n)
  BY <1>2, <1>12 DEF VerifyFails, NotReady
<1>13. CASE Fix(n)
  <2>1. ASSUME NEW c \in Candidates(n),
               up' = [up EXCEPT ![n].pc = "rename", ![n].path = c]
        PROVE  up'[n] \in Upload(n)
    <3>1. c \in MayBe(n)
      BY <1>1 DEF Candidates
    <3>2. QED
      BY <1>1, <2>1, <3>1 DEF Upload, Types
  <2>2. QED
    BY <1>4, <1>5, <1>13, <2>1, NameMayBe DEF Fix
<1>14. CASE Rename(n)
  BY <1>3, <1>14 DEF Rename
<1>15. ASSUME u.path \in MayBe(n), Accept(n) \/ Check(n)
       PROVE  up'[n] \in Upload(n)
  BY <1>4, <1>5, <1>15, NameMayBe DEF Accept, Check
<1>16. QED
  BY <1>6, <1>7, <1>8, <1>9, <1>10, <1>11, <1>12, <1>13, <1>14, <1>15, NamedPath
      DEF Step, Accept, Check

LEMMA TypesStep ==
  ASSUME Types, Named, NEW n \in folder, Step(n)
  PROVE  Types'
<1>1. folder' = folder /\ plan' = plan /\ OnlyMoves(n)
  BY OthersStay
<1>2. FilesOK(files)' /\ FilesOK(seen)'
  BY <1>1, OthersStay, FilesTyped DEF Types, FilesOK
<1>3. \A m \in folder : up'[m] \in Upload(m)
  BY <1>1, UpTyped DEF OnlyMoves, Types
<1>4. \A m : Upload(m)' = Upload(m)
  BY <1>1 DEF Upload, MayBe, Outcomes
<1>5. misses' \in Nat /\ faults' \in Nat
  BY OthersStay DEF Types
<1>6. QED
  BY <1>1, <1>2, <1>3, <1>4, <1>5 DEF OnlyMoves, Types

LEMMA CountsStep ==
  ASSUME Counts, NEW n \in folder, Step(n)
  PROVE  Counts'
<1>1. place' = place
  BY DEF Step, Start, NotReady, LookFirst, Delete, LookAgain, Put, Verify, VerifyFails,
         Fix, Rename, Accept, Check
<1>2. faults' \in {faults, faults + 1} /\ (faults' = faults \/ faults < MaxFaults)
  BY DEF Step, Start, NotReady, LookFirst, Delete, LookAgain, Put, Verify, VerifyFails,
         Fix, Rename, Accept, Check, Fault
<1>3. misses' \in {misses, misses + 1} /\ (misses' = misses \/ misses < MaxMisses)
  BY DEF Step, Start, NotReady, LookFirst, Delete, LookAgain, Put, Verify, VerifyFails,
         Fix, Rename, Accept, Check, Look, Miss
<1>4. QED
  BY <1>1, <1>2, <1>3, RemoteUploadAssumption DEF Counts, place

----------------------------------------------------------------------------
(* What becomes of an upload.  Idle: it is over, or begins again, or looks *)
(* for its result once more.                                               *)
Idle(n) ==
  /\ up'[n].pc \in {"verify", "look", "failed"}
  /\ up'[n].name = up[n].name
  /\ up'[n].pc = "look" => ~up'[n].over

LEMMA Becomes ==
  ASSUME Types, NEW n \in folder
  PROVE  /\ \A r : Fails(n, r) => Idle(n)
         /\ NextLook(n) => Idle(n)
         /\ \A pc : Goes(n, pc) =>
              /\ up'[n].pc = pc
              /\ up'[n].name = up[n].name /\ up'[n].path = up[n].path
              /\ up'[n].over = up[n].over
         /\ \A p : Done(n, p) =>
              up'[n].pc = "done" /\ up'[n].path = p /\ up'[n].name = up[n].name
<1>1. up[n] \in Upload(n)
  BY DEF Types
<1>2. \A r : Fails(n, r) => Idle(n)
  BY <1>1 DEF Types, Upload, Fails, Idle
<1>3. NextLook(n) => Idle(n)
  <2>1. CASE up[n].look < 3
    BY <1>1, <2>1 DEF Types, Upload, NextLook, Idle
  <2>2. CASE ~(up[n].look < 3)
    BY <1>2, <2>2 DEF NextLook
  <2>3. QED
    BY <2>1, <2>2
<1>4. \A pc : Goes(n, pc) =>
              /\ up'[n].pc = pc
              /\ up'[n].name = up[n].name /\ up'[n].path = up[n].path
              /\ up'[n].over = up[n].over
  BY <1>1 DEF Types, Upload, Goes
<1>5. \A p : Done(n, p) =>
              up'[n].pc = "done" /\ up'[n].path = p /\ up'[n].name = up[n].name
  BY <1>1 DEF Types, Upload, Done
<1>6. QED
  BY <1>2, <1>3, <1>4, <1>5

(* How the state of the upload of n follows from each step.                *)
LEMMA NamedStep ==
  ASSUME Types, Named, NEW n \in folder, Step(n)
  PROVE  Named'
<1>1. folder' = folder /\ plan' = plan /\ OnlyMoves(n)
  BY OthersStay
<1>2. \A m : MayBe(m)' = MayBe(m)
  BY <1>1 DEF MayBe, Outcomes
<1>3. /\ up'[n].pc \in {"rename", "accept", "check"} =>
           up'[n].path \in Copies(up'[n].name)
      /\ up'[n].pc = "done" => up'[n].path \in MayBe(n)
  <2>1. /\ \A r : Fails(n, r) => up'[n].pc \notin {"rename", "accept", "check", "done"}
        /\ NextLook(n) => up'[n].pc \notin {"rename", "accept", "check", "done"}
        /\ \A pc : Goes(n, pc) => /\ up'[n].pc = pc
                                 /\ up'[n].name = up[n].name
                                 /\ up'[n].path = up[n].path
        /\ \A p : Done(n, p) => up'[n].pc = "done" /\ up'[n].path = p
    BY Becomes DEF Idle
  <2>2. /\ up[n].name \in MayBe(n) /\ Copies(up[n].name) \subseteq MayBe(n)
        /\ up[n] \in Upload(n)
    BY NameMayBe DEF Types
  <2>3. CASE Start(n)
    BY <2>2, <2>3 DEF Start, Types, Upload
  <2>4. CASE LookFirst(n)
    <3>1. \/ Goes(n, "put") \/ Goes(n, "remove") \/ \E r : Fails(n, r)
          \/ Done(n, up[n].name)
      BY <2>4 DEF LookFirst
    <3>2. QED
      BY <2>1, <2>2, <3>1
  <2>5. CASE Delete(n)
    BY <2>1, <2>5 DEF Delete
  <2>6. CASE LookAgain(n)
    BY <2>2, <2>6 DEF LookAgain, Types, Upload
  <2>7. CASE Put(n)
    <3>1. Goes(n, "verify") \/ Goes(n, "put") \/ \E r : Fails(n, r)
      BY <2>7 DEF Put
    <3>2. QED
      BY <2>1, <3>1
  <2>8. CASE Verify(n)
    BY <2>1, <2>2, <2>8 DEF Verify
  <2>9. CASE VerifyFails(n) \/ NotReady(n)
    BY <2>1, <2>9 DEF VerifyFails, NotReady
  <2>10. CASE Fix(n)
    <3>1. ASSUME NEW c \in Candidates(n),
                 up' = [up EXCEPT ![n].pc = "rename", ![n].path = c]
          PROVE  up'[n].pc = "rename" /\ up'[n].path \in Copies(up'[n].name)
      BY <2>2, <3>1 DEF Candidates, Types, Upload
    <3>2. QED
      BY <2>1, <2>2, <2>10, <3>1 DEF Fix
  <2>11. CASE Rename(n)
    BY <2>1, <2>11 DEF Rename, Named, At
  <2>12. CASE Accept(n)
    BY <2>1, <2>2, <2>12 DEF Accept, Named, At
  <2>13. CASE Check(n)
    BY <2>1, <2>2, <2>13 DEF Check, Named, At
  <2>14. QED
    BY <2>3, <2>4, <2>5, <2>6, <2>7, <2>8, <2>9, <2>10, <2>11, <2>12, <2>13 DEF Step
<1>4. QED
  BY <1>1, <1>2, <1>3 DEF Named, OnlyMoves

----------------------------------------------------------------------------
(* An upload touches no file but under the names its output may have.      *)
LEMMA Elsewhere ==
  ASSUME Types, Named, NEW n \in folder, Step(n), NEW q, q \notin MayBe(n)
  PROVE  /\ q \in DOMAIN files' <=> q \in DOMAIN files
         /\ q \in DOMAIN files => files'[q] = files[q]
<1>1. up[n].name # q /\ q \notin Copies(up[n].name)
  BY NameMayBe
<1>2. CASE files' = files
  BY <1>2
<1>3. CASE Put(n)
  BY <1>3, AddsPut DEF Adds
<1>4. CASE Delete(n)
  BY <1>1, <1>4 DEF Delete, Without
<1>5. CASE Rename(n)
  <2>1. up[n].path # q
    BY <1>1, <1>5 DEF Named, Rename, At
  <2>2. QED
    BY <1>1, <1>2, <1>5, <2>1 DEF Rename, With, Without
<1>6. QED
  BY <1>2, <1>3, <1>4, <1>5
     DEF Step, Start, NotReady, LookFirst, LookAgain, Verify, VerifyFails, Fix, Accept, Check

----------------------------------------------------------------------------
(* Larger files: no step loses one, and none makes one.                    *)
LEMMA LargeStay ==
  ASSUME Types, Named, LargeSpared, NEW n \in folder, Step(n), NEW q
  PROVE  /\ Large(files, q) => q \in DOMAIN files' /\ files'[q] = files[q]
         /\ Large(files', q) => Large(files, q)
<1>1. n # Old
  BY OldAssumption DEF Types
<1>2. CASE files' = files
  BY <1>2 DEF Large
<1>3. CASE Put(n)
  <2>1. Adds(files, files', n)
    BY <1>3, AddsPut
  <2>2. up[n].over => ~Large(files, up[n].name)
    BY <1>3 DEF Put, At, LargeSpared, Clears
  <2>3. QED
    BY <1>1, <2>1, <2>2 DEF Adds, Large
<1>4. CASE Delete(n)
  <2>1. ~Large(files, up[n].name)
    BY <1>4 DEF Delete, At, LargeSpared, Clears
  <2>2. QED
    BY <1>2, <1>4, <2>1 DEF Delete, Without, Large
<1>5. CASE Rename(n) /\ files' # files
  <2>1. ~Large(files, up[n].path)
    BY <1>5 DEF Rename, At, LargeSpared
  <2>2. /\ up[n].path \in DOMAIN files /\ up[n].name \notin DOMAIN files
        /\ files' = With(Without(files, up[n].path), up[n].name, files[up[n].path])
    BY <1>5 DEF Rename
  <2>3. QED
    BY <2>1, <2>2 DEF With, Without, Large
<1>6. QED
  BY <1>2, <1>3, <1>4, <1>5
     DEF Step, Start, NotReady, LookFirst, LookAgain, Verify, VerifyFails, Fix, Rename,
         Accept, Check

(* What is taken for the remains of an upload is no larger file.           *)
LEMMA RemainsSmall ==
  ASSUME Types, LargeSpared, NEW n \in folder, NEW q, NEW s,
         Look(q, s), s > 0, s < SizeOf[n]
  PROVE  ~Large(files, q)
<1>1. SizeOf[n] < Huge /\ SizeOf[n] \in Nat /\ Huge \in Nat
  BY RemoteUploadAssumption DEF Types
<1>2. s \in Nat /\ s \in {Size(files, q), Size(seen, q), 0}
  BY LookShows
<1>3. Large(files, q) => Size(files, q) = Huge /\ Size(seen, q) = Huge
  BY DEF LargeSpared, Large, Size
<1>4. QED
  BY <1>1, <1>2, <1>3

LEMMA LargeStep ==
  ASSUME Types, Named, LargeSpared, NEW n \in folder, Step(n)
  PROVE  LargeSpared'
<1>1. folder' = folder /\ OnlyMoves(n)
  BY OthersStay
<1>2. \A q : /\ Large(files, q) => q \in DOMAIN files' /\ files'[q] = files[q]
             /\ Large(files', q) => Large(files, q)
  BY LargeStay
<1>3. ASSUME NEW q \in DOMAIN files', Large(files', q)
      PROVE  q \in DOMAIN seen' /\ seen'[q] = files'[q]
  <2>1. Large(files, q) /\ q \in DOMAIN files /\ files'[q] = files[q]
    BY <1>2, <1>3 DEF Large
  <2>2. q \in DOMAIN seen /\ seen[q] = files[q]
    BY <2>1 DEF LargeSpared
  <2>3. QED
    BY <2>1, <2>2, OthersStay
<1> DEFINE Spares ==
      /\ up'[n].pc \in {"new", "look"} => ~up'[n].over
      /\ Clears(n)' => ~Large(files, up'[n].name)
      /\ up'[n].pc = "rename" => ~Large(files, up'[n].path)
<1>4. Spares
  <2>1. /\ \A r : Fails(n, r) => Idle(n)
        /\ NextLook(n) => Idle(n)
        /\ \A pc : Goes(n, pc) => /\ up'[n].pc = pc
                                 /\ up'[n].name = up[n].name
                                 /\ up'[n].over = up[n].over
        /\ \A p : Done(n, p) => up'[n].pc = "done"
    BY Becomes
  <2>2. Idle(n) => Spares
    BY DEF Idle, Clears
  <2>3. \A pc \in {"verify", "fix", "accept", "check"} : Goes(n, pc) => Spares
    BY <2>1 DEF Clears
  <2>4. \A p : Done(n, p) => Spares
    BY <2>1 DEF Clears
  <2>5. /\ up[n] \in Upload(n) /\ DOMAIN up = folder
        /\ up[n].pc \in {"new", "look"} => ~up[n].over
        /\ Clears(n) => ~Large(files, up[n].name)
    BY DEF Types, LargeSpared
  <2>6. CASE Start(n)
    <3>1. /\ up'[n].pc = "look" /\ up'[n].over = up[n].over
          /\ up[n].pc = "new"
      BY <2>5, <2>6 DEF Start, Upload, At
    <3>2. QED
      BY <2>5, <3>1 DEF Clears
  <2>7. CASE LookFirst(n)
    <3>1. PICK t : /\ Look(up[n].name, t)
                   /\ \/ Goes(n, "put") \/ Done(n, up[n].name)
                      \/ \E r : Fails(n, r)
                      \/ t > 0 /\ t < SizeOf[n] /\ Goes(n, "remove")
      BY <2>7 DEF LookFirst
    <3>2. CASE Goes(n, "put")
      BY <2>1, <2>5, <2>7, <3>2 DEF LookFirst, At, Clears
    <3>3. CASE t > 0 /\ t < SizeOf[n] /\ Goes(n, "remove")
      BY <2>1, <3>1, <3>3, RemainsSmall
    <3>4. QED
      BY <2>1, <2>2, <2>4, <3>1, <3>2, <3>3
  <2>8. CASE Delete(n)
    BY <2>1, <2>5, <2>8 DEF Delete, At, Clears
  <2>9. CASE LookAgain(n)
    <3>1. /\ up'[n].pc = "put" /\ up'[n].name = up[n].name
          /\ up[n].pc = "relook"
      BY <2>5, <2>9 DEF LookAgain, Upload, At
    <3>2. QED
      BY <2>5, <3>1 DEF Clears
  <2>10. CASE Put(n)
    <3>1. Goes(n, "verify") \/ Goes(n, "put") \/ \E r : Fails(n, r)
      BY <2>10 DEF Put
    <3>2. CASE Goes(n, "put")
      BY <2>1, <2>5, <2>10, <3>2 DEF Put, At, Clears
    <3>3. QED
      BY <2>1, <2>2, <2>3, <3>1, <3>2
  <2>11. CASE Verify(n)
    <3>1. Goes(n, "fix") \/ Done(n, up[n].name) \/ NextLook(n)
      BY <2>11 DEF Verify
    <3>2. QED
      BY <2>1, <2>2, <2>3, <2>4, <3>1
  <2>12. CASE VerifyFails(n) \/ NotReady(n)
    BY <2>1, <2>2, <2>12 DEF VerifyFails, NotReady
  <2>13. CASE Fix(n)
    <3>1. ASSUME NEW c \in Candidates(n),
                 up' = [up EXCEPT ![n].pc = "rename", ![n].path = c]
          PROVE  Spares
      <4>1. up'[n].pc = "rename" /\ up'[n].path = c
        BY <2>5, <3>1 DEF Upload
      <4>2. files[c].size < Huge
        BY RemoteUploadAssumption DEF Candidates, Types
      <4>3. ~Large(files, c)
        BY <4>2, RemoteUploadAssumption DEF Large
      <4>4. QED
        BY <4>1, <4>3 DEF Clears
    <3>2. \/ NextLook(n) \/ Done(n, up[n].name)
          \/ \E c \in Candidates(n) :
               up' = [up EXCEPT ![n].pc = "rename", ![n].path = c]
      BY <2>13 DEF Fix
    <3>3. QED
      BY <2>1, <2>2, <2>4, <3>1, <3>2
  <2>14. CASE Rename(n)
    <3>1. Goes(n, "check") \/ Goes(n, "accept")
      BY <2>14 DEF Rename
    <3>2. QED
      BY <2>3, <3>1
  <2>15. CASE Accept(n) \/ Check(n)
    <3>1. (\E p : Done(n, p)) \/ NextLook(n)
      BY <2>15 DEF Accept, Check
    <3>2. QED
      BY <2>1, <2>2, <2>4, <3>1
  <2>16. QED
    BY <2>6, <2>7, <2>8, <2>9, <2>10, <2>11, <2>12, <2>13, <2>14, <2>15 DEF Step
<1>5. QED
  BY <1>1, <1>2, <1>3, <1>4 DEF LargeSpared, OnlyMoves, Clears

----------------------------------------------------------------------------
(* Outputs with names of their own: the other uploads change nothing.      *)
LEMMA PathMayBe ==
  ASSUME Types, Named, NEW n \in folder,
         up[n].pc \in {"rename", "accept", "check", "done"}
  PROVE  up[n].path \in MayBe(n)
  BY NameMayBe DEF Named

LEMMA OwnOther ==
  ASSUME Types, Named, NEW n \in folder, Apart(n), OwnTrue(n),
         NEW m \in folder \ {n}, Step(m)
  PROVE  OwnTrue(n)'
<1>1. ASSUME NEW q \in MayBe(n)
      PROVE  /\ q \in DOMAIN files' <=> q \in DOMAIN files
             /\ q \in DOMAIN files => files'[q] = files[q]
  <2>1. q \notin MayBe(m)
    BY DEF Apart
  <2>2. QED
    BY <2>1, Elsewhere
<1>2. \A q \in MayBe(n) : Size(files', q) = Size(files, q)
  BY <1>1 DEF Size
<1>3. Has(files, n) => Has(files', n)
  BY <1>1 DEF Has
<1>4. /\ up'[n] = up[n] /\ plan' = plan
      /\ seen' = seen \/ (seen' = files /\ files' = files)
      /\ misses \in Nat /\ faults \in Nat
      /\ misses' = misses \/ misses' = misses + 1
      /\ faults' = faults \/ faults' = faults + 1
  BY OthersStay DEF OnlyMoves, Types
<1>5. \A f : Has(f, n)' = Has(f', n)
  BY <1>4 DEF Has, MayBe, Outcomes
<1>6. misses' = 0 /\ faults' <= 2 /\ Has(seen', n) => Has(files', n)
  BY <1>3, <1>4 DEF OwnTrue
<1>7. up[n].name \in MayBe(n)
  BY NameMayBe
<1>8. QED
  BY <1>2, <1>3, <1>4, <1>5, <1>6, <1>7, PathMayBe DEF OwnTrue, Clears, Few

(* An upload of n costs n what it has only after three failing calls.      *)
LEMMA OwnKeeps ==
  ASSUME Types, Named, NEW n \in folder, OwnTrue(n), Step(n), misses = 0,
         faults' <= 2, Has(files, n)
  PROVE  Has(files', n)
<1>1. PICK q \in DOMAIN files : q \in MayBe(n) /\ files[q].size = SizeOf[n]
  BY DEF Has
<1>2. Clears(n) => q # up[n].name \/ (up[n].pc = "put" /\ faults >= 2)
  BY <1>1, RemoteUploadAssumption DEF OwnTrue, Size, Types
<1>3. CASE files' = files
  BY <1>3
<1>4. CASE Put(n)
  <2>1. up[n].over => Clears(n)
    BY <1>4 DEF Put, At, Clears
  <2>2. CASE q # up[n].name \/ ~up[n].over
    <3>1. q \in DOMAIN files' /\ files'[q] = files[q]
      BY <1>4, <2>2, AddsPut DEF Adds
    <3>2. QED
      BY <1>1, <3>1 DEF Has
  <2>3. CASE q = up[n].name /\ up[n].over
    <3>1. faults >= 2 /\ faults \in Nat
      BY <1>2, <2>1, <2>3 DEF Types
    <3>2. files' \in Sent(n)
      <4>1. Sent(n) # {}
        BY <2>3 DEF Sent, Stored
      <4>2. ~Fault
        BY <3>1 DEF Fault
      <4>3. QED
        BY <1>4, <4>1, <4>2 DEF Put
    <3>3. /\ up[n].name \in DOMAIN files'
          /\ files'[up[n].name].size = SizeOf[n]
      BY <2>3, <3>2 DEF Sent, Stored, With
    <3>4. QED
      BY <3>3, NameMayBe DEF Has
  <2>4. QED
    BY <2>2, <2>3
<1>5. CASE Delete(n)
  <2>1. Clears(n) /\ up[n].pc = "remove"
    BY <1>5 DEF Delete, At, Clears
  <2>2. q \in DOMAIN files' /\ files'[q] = files[q]
    BY <1>2, <1>5, <2>1 DEF Delete, Without
  <2>3. QED
    BY <1>1, <2>2 DEF Has
<1>6. CASE Rename(n) /\ files' # files
  <2>1. /\ up[n].path \in DOMAIN files /\ up[n].name \notin DOMAIN files
        /\ files' = With(Without(files, up[n].path), up[n].name, files[up[n].path])
    BY <1>6 DEF Rename
  <2>2. CASE q = up[n].path
    <3>1. up[n].name \in DOMAIN files' /\ files'[up[n].name] = files[q]
      BY <2>1, <2>2 DEF With
    <3>2. QED
      BY <1>1, <3>1, NameMayBe DEF Has
  <2>3. CASE q # up[n].path
    <3>1. q \in DOMAIN files' /\ files'[q] = files[q]
      BY <1>1, <2>1, <2>3 DEF With, Without
    <3>2. QED
      BY <1>1, <3>1 DEF Has
  <2>4. QED
    BY <2>2, <2>3
<1>7. QED
  BY <1>3, <1>4, <1>5, <1>6
     DEF Step, Start, NotReady, LookFirst, LookAgain, Verify, VerifyFails, Fix, Rename,
         Accept, Check

(* A look that shows the size of the output.                               *)
LEMMA LookedRight ==
  ASSUME Types, NEW n \in folder, OwnTrue(n), NEW p \in MayBe(n),
         Look(p, SizeOf[n])
  PROVE  /\ misses' = 0 => Size(files, p) = SizeOf[n]
         /\ misses' = 0 \/ (misses' = 1 /\ faults <= 2) => Has(files, n)
<1>1. SizeOf[n] \in Nat \ {0} /\ misses \in Nat
  BY RemoteUploadAssumption DEF Types
<1>2. CASE SizeOf[n] = Size(files, p) /\ misses' = misses
  BY <1>1, <1>2 DEF Has, Size
<1>3. CASE SizeOf[n] = Size(seen, p) /\ misses' = misses + 1
  <2>1. Has(seen, n)
    BY <1>1, <1>3 DEF Has, Size
  <2>2. misses' # 0 /\ (misses' = 1 => misses = 0)
    BY <1>1, <1>3
  <2>3. QED
    BY <1>1, <1>3, <2>1, <2>2 DEF OwnTrue
<1>4. QED
  BY <1>1, <1>2, <1>3, LookShows

LEMMA OwnSelf ==
  ASSUME Types, Named, LargeSpared, NEW n \in folder, OwnTrue(n), Step(n)
  PROVE  OwnTrue(n)'
<1> DEFINE True ==
      /\ up'[n].pc = "rename" => Size(files', up'[n].path) = SizeOf[n]
      /\ up'[n].pc = "check"  => Size(files', up'[n].name) = SizeOf[n]
      /\ misses' = 0 =>
           /\ up'[n].pc = "done" => Size(files', up'[n].path) = SizeOf[n]
           /\ Clears(n)' => \/ Size(files', up'[n].name) < SizeOf[n]
                            \/ up'[n].pc = "put" /\ faults' >= 2
           /\ up'[n].pc = "relook" /\ Size(files', up'[n].name) > 0 => faults' >= 1
           /\ up'[n].pc = "put" /\ up'[n].over => faults' >= 1
      /\ up'[n].pc = "done" /\ Few' => Has(files', n)
<1>1. /\ SizeOf[n] \in Nat \ {0} /\ misses \in Nat /\ faults \in Nat
      /\ misses' = misses \/ misses' = misses + 1
      /\ faults' = faults \/ faults' = faults + 1
      /\ plan' = plan
      /\ seen' = seen \/ (seen' = files /\ files' = files)
  BY RemoteUploadAssumption, OthersStay DEF Types
<1>2. misses' = 0 /\ faults' <= 2 /\ Has(seen', n) => Has(files', n)
  BY <1>1, OwnKeeps DEF OwnTrue
<1>3. /\ \A r : Fails(n, r) => Idle(n)
      /\ NextLook(n) => Idle(n)
      /\ \A pc : Goes(n, pc) => /\ up'[n].pc = pc
                               /\ up'[n].name = up[n].name
                               /\ up'[n].path = up[n].path
                               /\ up'[n].over = up[n].over
      /\ \A p : Done(n, p) => up'[n].pc = "done" /\ up'[n].path = p
  BY Becomes
<1>4. Idle(n) => True
  BY DEF Idle, Clears
<1>5. \A pc \in {"verify", "fix", "accept"} : Goes(n, pc) => True
  BY <1>3 DEF Clears
<1>6. ASSUME NEW p \in MayBe(n), Done(n, p), Look(p, SizeOf[n]), files' = files
      PROVE  True
  BY <1>1, <1>3, <1>6, LookedRight DEF Clears, Few
<1>7. /\ up[n] \in Upload(n) /\ DOMAIN up = folder
      /\ up[n].name \in MayBe(n) /\ Copies(up[n].name) \subseteq MayBe(n)
  BY NameMayBe DEF Types
<1>8. True
  <2>1. CASE Start(n)
    <3>1. up'[n].pc = "look"
      BY <1>7, <2>1 DEF Start, Upload
    <3>2. QED
      BY <3>1 DEF Clears
  <2>2. CASE LookFirst(n)
    <3>1. PICK t : /\ Look(up[n].name, t)
                   /\ \/ Goes(n, "put")
                      \/ t = SizeOf[n] /\ Done(n, up[n].name)
                      \/ Idle(n)
                      \/ t > 0 /\ t < SizeOf[n] /\ Goes(n, "remove")
      BY <1>3, <2>2 DEF LookFirst
    <3>2. files' = files /\ up[n].pc = "look"
      BY <2>2 DEF LookFirst, At
    <3>3. CASE Goes(n, "put")
      BY <1>3, <3>2, <3>3 DEF LargeSpared, Clears
    <3>4. CASE t > 0 /\ t < SizeOf[n] /\ Goes(n, "remove")
      BY <1>1, <1>3, <3>1, <3>2, <3>4, LookShows
    <3>5. QED
      BY <1>3, <1>4, <1>6, <1>7, <3>1, <3>2, <3>3, <3>4
  <2>3. CASE Delete(n)
    <3>1. Clears(n) /\ up'[n].pc = "relook" /\ up'[n].name = up[n].name
      BY <1>3, <2>3 DEF Delete, At, Clears
    <3>2. Size(files', up[n].name) \in {Size(files, up[n].name), 0}
      BY <2>3 DEF Delete, Without, Size
    <3>3. Size(files', up[n].name) = 0 \/ faults' >= 1
      BY <1>1, <2>3 DEF Delete, Without, Size, Fault
    <3>4. QED
      BY <1>1, <2>3, <3>1, <3>2, <3>3 DEF OwnTrue, Delete, At
  <2>4. CASE LookAgain(n)
    <3>1. PICK t : /\ Look(up[n].name, t)
                   /\ up' = [up EXCEPT ![n].pc = "put", ![n].over = t > 0]
      BY <2>4 DEF LookAgain
    <3>2. /\ up'[n].pc = "put" /\ up'[n].name = up[n].name
          /\ up'[n].over = (t > 0)
          /\ Clears(n) /\ up[n].pc = "relook" /\ files' = files
      BY <1>7, <2>4, <3>1 DEF LookAgain, Upload, At, Clears
    <3>3. misses' = 0 => t = Size(files, up[n].name)
      BY <1>1, <3>1, LookShows
    <3>4. CASE misses' = 0
      <4>1. misses = 0
        BY <1>1, <3>4
      <4>2. Size(files, up[n].name) < SizeOf[n]
        BY <3>2, <4>1 DEF OwnTrue
      <4>3. up'[n].over => faults' >= 1
        <5>1. Size(files, up[n].name) > 0 => faults >= 1
          BY <3>2, <4>1 DEF OwnTrue
        <5>2. up'[n].over => t > 0
          BY <3>2, Zenon
        <5>3. QED
          BY <1>1, <3>3, <3>4, <5>1, <5>2
      <4>4. /\ up'[n].pc = "put" /\ up'[n].name = up[n].name
            /\ files' = files
        BY <3>2
      <4>5. QED
        BY <4>2, <4>3, <4>4
    <3>5. QED
      BY <3>2, <3>4
  <2>5. CASE Put(n)
    <3>1. Goes(n, "verify") \/ (Goes(n, "put") /\ Fault) \/ \E r : Fails(n, r)
      BY <2>5 DEF Put
    <3>2. CASE Goes(n, "put") /\ Fault
      <4>1. /\ up[n].pc = "put" /\ faults' = faults + 1 /\ misses' = misses
            /\ up'[n].pc = "put" /\ up'[n].name = up[n].name
            /\ up'[n].over = up[n].over
        BY <1>3, <2>5, <3>2 DEF Put, At, Fault
      <4>2. up[n].over => Clears(n)
        BY <4>1 DEF Clears
      <4>3. misses = 0 /\ up[n].over => faults' >= 2
        BY <1>1, <4>1 DEF OwnTrue
      <4>4. QED
        BY <1>1, <4>1, <4>3 DEF Clears
    <3>3. QED
      BY <1>3, <1>4, <1>5, <3>1, <3>2
  <2>6. CASE Verify(n)
    <3>1. PICK t : /\ Look(up[n].name, t)
                   /\ \/ Goes(n, "fix") \/ NextLook(n)
                      \/ t = SizeOf[n] /\ Done(n, up[n].name)
      BY <2>6 DEF Verify
    <3>2. files' = files
      BY <2>6 DEF Verify
    <3>3. QED
      BY <1>3, <1>4, <1>5, <1>6, <1>7, <3>1, <3>2
  <2>7. CASE VerifyFails(n) \/ NotReady(n)
    BY <1>3, <1>4, <2>7 DEF VerifyFails, NotReady
  <2>8. CASE Fix(n)
    <3>1. files' = files
      BY <2>8 DEF Fix
    <3>2. ASSUME NEW c \in Candidates(n),
                 up' = [up EXCEPT ![n].pc = "rename", ![n].path = c]
          PROVE  True
      <4>1. up'[n].pc = "rename" /\ up'[n].path = c
        BY <1>7, <3>2 DEF Upload
      <4>2. Size(files, c) = SizeOf[n]
        BY DEF Candidates, Size
      <4>3. QED
        BY <3>1, <4>1, <4>2 DEF Clears
    <3>3. \/ NextLook(n)
          \/ Look(up[n].name, SizeOf[n]) /\ Done(n, up[n].name)
          \/ \E c \in Candidates(n) :
               up' = [up EXCEPT ![n].pc = "rename", ![n].path = c]
      BY <2>8 DEF Fix
    <3>4. QED
      BY <1>3, <1>4, <1>6, <1>7, <3>1, <3>2, <3>3
  <2>9. CASE Rename(n)
    <3>1. CASE Goes(n, "accept")
      BY <1>5, <3>1
    <3>2. CASE ~Goes(n, "accept")
      <4>1. /\ up[n].path \in DOMAIN files /\ up[n].pc = "rename"
            /\ files' = With(Without(files, up[n].path), up[n].name,
                             files[up[n].path])
            /\ Goes(n, "check")
        BY <2>9, <3>2 DEF Rename, At
      <4>2. Size(files', up[n].name) = SizeOf[n]
        BY <4>1 DEF OwnTrue, With, Size
      <4>3. QED
        BY <1>3, <4>1, <4>2 DEF Clears
    <3>3. QED
      BY <3>1, <3>2
  <2>10. CASE Accept(n)
    <3>1. /\ files' = files /\ up[n].path \in MayBe(n)
          /\ \/ Look(up[n].path, SizeOf[n]) /\ Done(n, up[n].path)
             \/ NextLook(n)
      BY <2>10, PathMayBe DEF Accept, At
    <3>2. QED
      BY <1>3, <1>4, <1>6, <3>1
  <2>11. CASE Check(n)
    <3>1. files' = files /\ Size(files, up[n].name) = SizeOf[n]
      BY <2>11 DEF Check, At, OwnTrue
    <3>2. Has(files, n)
      BY <1>1, <1>7, <3>1 DEF Has, Size
    <3>3. CASE Look(up[n].name, SizeOf[n]) /\ Done(n, up[n].name)
      BY <1>6, <1>7, <3>1, <3>3
    <3>4. CASE NextLook(n)
      BY <1>3, <1>4, <3>4
    <3>5. CASE /\ Done(n, up[n].path)
               /\ \E t : t # SizeOf[n] /\ Look(up[n].name, t)
      <4>1. misses' = misses + 1
        BY <3>1, <3>5, LookShows
      <4>2. QED
        BY <1>1, <1>3, <3>1, <3>2, <3>5, <4>1 DEF Clears
    <3>6. QED
      BY <2>11, <3>3, <3>4, <3>5 DEF Check
  <2>12. QED
    BY <2>1, <2>2, <2>3, <2>4, <2>5, <2>6, <2>7, <2>8, <2>9, <2>10, <2>11 DEF Step
<1>9. \A f : Has(f, n)' = Has(f', n)
  BY <1>1 DEF Has, MayBe, Outcomes
<1>10. QED
  BY <1>2, <1>8, <1>9 DEF OwnTrue

----------------------------------------------------------------------------
(* The inductive invariant.                                                *)
IInv == Types /\ Counts /\ Named /\ LargeSpared /\ Own

LEMMA IInvInit == Init => IInv
<1> SUFFICES ASSUME Init PROVE IInv
  OBVIOUS
<1>1. /\ folder \subseteq Files /\ seen = files /\ misses = 0 /\ faults = 0
      /\ up = [n \in folder |-> Fresh(n)]
  BY DEF Init
<1>2. FilesOK(files)
  <2>1. CASE files = <<>>
    BY <2>1 DEF FilesOK
  <2>2. CASE files # <<>>
    <3>1. PICK n \in folder : \E b \in Before(n) : files = b[1]
      BY <2>2 DEF Init
    <3>2. PICK q : \E s \in {Partial, SizeOf[n], Huge} :
                     files = With(<<>>, q, [by |-> Old, size |-> s])
      BY <2>2, <3>1 DEF Before
    <3>3. /\ DOMAIN files = {q} /\ files[q].by = Old
          /\ files[q].size \in {Partial, SizeOf[n], Huge}
      BY <3>2 DEF With
    <3>4. {Partial, SizeOf[n], Huge} \subseteq Nat \ {0}
      BY <1>1, RemoteUploadAssumption
    <3>5. QED
      BY <3>3, <3>4 DEF FilesOK
  <2>3. QED
    BY <2>1, <2>2
<1>3. \A n \in folder : /\ up[n] \in Upload(n)
                        /\ up[n].pc = "new" /\ up[n].over = FALSE
  BY <1>1, RemoteUploadAssumption DEF Fresh, Upload, Outcomes
<1>4. Types
  BY <1>1, <1>2, <1>3 DEF Types
<1>5. Named /\ LargeSpared /\ Own
  BY <1>1, <1>3 DEF Named, LargeSpared, Own, OwnTrue, Clears, Large, Few
<1>6. Counts
  BY <1>1, RemoteUploadAssumption DEF Counts, Init, TreeNames, ComicNames, OutNames
<1>7. QED
  BY <1>4, <1>5, <1>6 DEF IInv

LEMMA IInvNext == IInv /\ [Next]_vars => IInv'
<1> SUFFICES ASSUME IInv, [Next]_vars PROVE IInv'
  OBVIOUS
<1> USE DEF IInv
<1>1. ASSUME NEW n \in folder, Step(n)
      PROVE  IInv'
  <2>1. folder' = folder /\ plan' = plan
    BY <1>1, OthersStay
  <2>2. ASSUME NEW m \in folder, Apart(m) PROVE OwnTrue(m)'
    <3>1. OwnTrue(m)
      BY <2>2 DEF Own
    <3>2. QED
      BY <1>1, <2>2, <3>1, OwnSelf, OwnOther
  <2>3. \A m : Apart(m)' = Apart(m)
    BY <2>1 DEF Apart, MayBe, Outcomes
  <2>4. Own'
    BY <2>1, <2>2, <2>3 DEF Own
  <2>5. QED
    BY <1>1, <2>4, TypesStep, NamedStep, LargeStep, CountsStep
<1>2. ASSUME UNCHANGED <<folder, planner, plan, files, seen, up, faults, misses>>
      PROVE  IInv'
  BY <1>2 DEF Types, FilesOK, Upload, MayBe, Outcomes, Counts, Named, LargeSpared,
     Large, Clears, Own, Apart, OwnTrue, Has, Few
<1>3. QED
  BY <1>1, <1>2 DEF Next, Fade, place, vars

LEMMA IInvAlways == Spec => []IInv
  BY IInvInit, IInvNext, PTL DEF Spec

(* The files and the uploads keep their types, whatever happens.           *)
THEOREM TypeCorrect == Spec => []TypeOK
<1>1. IInv => TypeOK
  BY DEF IInv, Types, Counts, FilesOK, TypeOK
<1>2. QED
  BY <1>1, IInvAlways, PTL

(* A file of somebody else that is larger than the output is never         *)
(* removed, replaced or renamed, however many uploads run side by side,    *)
(* whatever listings show and calls that fail leave behind.                *)
THEOREM LargerKeptSafe == Spec => LargerKept
<1>1. IInv /\ [Next]_vars =>
        [\A p \in DOMAIN files :
           files[p].by = Old /\ files[p].size = Huge =>
             p \in DOMAIN files' /\ files'[p] = files[p]]_vars
  <2>1. SUFFICES ASSUME IInv, Next, NEW p \in DOMAIN files,
                        files[p].by = Old, files[p].size = Huge
                 PROVE  p \in DOMAIN files' /\ files'[p] = files[p]
    BY DEF vars
  <2>2. ASSUME NEW n \in folder, Step(n)
        PROVE  p \in DOMAIN files' /\ files'[p] = files[p]
    BY <2>1, <2>2, LargeStay DEF IInv, Large
  <2>3. QED
    BY <2>1, <2>2 DEF Next, Fade
<1>2. QED
  BY <1>1, IInvAlways, PTL DEF Spec, LargerKept

(* The path in the state entry of an uploaded output is where it is, as    *)
(* long as every look showed what was there.                               *)
THEOREM PathTrueSafe == Spec => []PathTrue
<1>1. IInv => PathTrue
  BY DEF IInv, Own, OwnTrue, PathTrue, At
<1>2. QED
  BY <1>1, IInvAlways, PTL

(* An output whose possible names no other upload of the directory shares  *)
(* is there when it is reported as uploaded, and stays there: if every     *)
(* look showed what was there, and also with one that did not as long as   *)
(* at most two calls have failed.                                          *)
THEOREM KeptSafe == Spec => []Kept
<1>1. IInv => Kept
  BY DEF IInv, Own, OwnTrue, Kept, Has, At, Few
<1>2. QED
  BY <1>1, IInvAlways, PTL



----------------------------------------------------------------------------
(* The names of the outputs, from here on.  The files that keep their      *)
(* default name, and those that have a name when the first k of Names have *)
(* been looked at.                                                         *)
Keepers(S, mode, walk) == Planned(S) \ Losers(S, mode, walk)

NamedBy(S, mode, walk, k) ==
  Keepers(S, mode, walk) \cup
  {n \in Losers(S, mode, walk) : \E j \in 1 .. k : Names[j] = n}

(* A set of natural numbers has a least element.                            *)
LEMMA Least ==
  ASSUME NEW T, T \subseteq Nat, T # {}
  PROVE  Min(T) \in T /\ \A k \in T : Min(T) <= k
<1> DEFINE R == {p \in Nat \X Nat : p[1] < p[2]}
<1>1. OpToRel(<, Nat) = R
  BY DEF OpToRel
<1>2. PICK x \in T : \A y \in T : ~ (<<y, x>> \in R)
  BY <1>1, NatLessThanWellFounded, WFMin
<1>3. ASSUME NEW y \in T
      PROVE  x <= y
  <2>1. y \in Nat /\ x \in Nat /\ <<y, x>> \notin R
    BY <1>2
  <2>2. QED
    BY <2>1
<1>4. QED
  BY <1>3 DEF Min

(* The loop that names one file after another: that there is a function    *)
(* that satisfies its recursive definition is shown by the least number of *)
(* rounds for which there would be none.                                   *)
LEMMA NamingSteps ==
  ASSUME NEW S, NEW mode, NEW walk
  PROVE  /\ Naming(S, mode, walk)[0] = Defaults(S, mode, walk)
         /\ \A k \in 1 .. Len(Names) :
              Naming(S, mode, walk)[k] =
                Replace(Losers(S, mode, walk), Names[k], Naming(S, mode, walk)[k - 1])
<1> DEFINE first      == Defaults(S, mode, walk)
           step(k, w) == Replace(Losers(S, mode, walk), Names[k], w)
           Rec(f, k)  == f = [j \in 0 .. k |-> IF j = 0 THEN first ELSE step(j, f[j - 1])]
<1>1. Len(Names) \in Nat
  BY OutputNamesAssumption
<1>2. Naming(S, mode, walk) = CHOOSE f : Rec(f, Len(Names))
  BY DEF Naming
<1> HIDE DEF first, step
<1>3. ASSUME NEW k \in Nat, NEW g, Rec(g, k)
      PROVE  \E f : Rec(f, k + 1)
  <2> DEFINE f == [j \in 0 .. k + 1 |-> IF j = k + 1 THEN step(k + 1, g[k]) ELSE g[j]]
  <2>1. \A j \in 0 .. k : f[j] = g[j]
    OBVIOUS
  <2>2. ASSUME NEW j \in 0 .. k + 1
        PROVE  f[j] = IF j = 0 THEN first ELSE step(j, f[j - 1])
    <3>1. CASE j = k + 1
      <4>1. f[j] = step(k + 1, g[k]) /\ f[j - 1] = g[k]
        BY <3>1, <2>1
      <4>2. QED
        BY <3>1, <4>1
    <3>2. CASE j # k + 1
      <4>1. j \in 0 .. k /\ f[j] = g[j]
        BY <3>2, <2>1
      <4>2. g[j] = IF j = 0 THEN first ELSE step(j, g[j - 1])
        BY <1>3, <4>1
      <4>3. j # 0 => f[j - 1] = g[j - 1]
        BY <4>1, <2>1
      <4>4. QED
        BY <4>1, <4>2, <4>3
    <3>3. QED
      BY <3>1, <3>2
  <2> HIDE DEF f
  <2>3. f = [j \in 0 .. k + 1 |-> f[j]]
    BY DEF f
  <2>4. Rec(f, k + 1)
    BY <2>2, <2>3
  <2>5. QED
    BY <2>4
<1>4. \E f : Rec(f, 0)
  <2>1. Rec([j \in 0 .. 0 |-> first], 0)
    OBVIOUS
  <2>2. QED
    BY <2>1
<1> HIDE DEF Rec
<1>5. ASSUME NEW n \in Nat
      PROVE  \E f : Rec(f, n)
  <2> DEFINE T == {k \in Nat : ~ \E f : Rec(f, k)}
  <2>1. SUFFICES ASSUME T # {} PROVE FALSE
    OBVIOUS
  <2>2. PICK m \in T : \A k \in T : m <= k
    BY <2>1, Least
  <2>3. m \in Nat /\ ~ \E f : Rec(f, m)
    OBVIOUS
  <2>4. m # 0
    BY <1>4, <2>3
  <2>5. m - 1 \in Nat /\ m = (m - 1) + 1 /\ ~ m <= m - 1
    BY <2>3, <2>4
  <2>6. m - 1 \notin T
    BY <2>2, <2>5
  <2>7. \E f : Rec(f, m - 1)
    BY <2>5, <2>6
  <2>8. \E f : Rec(f, m)
    BY <1>3, <2>5, <2>7
  <2>9. QED
    BY <2>3, <2>8
<1>6. Rec(Naming(S, mode, walk), Len(Names))
  BY <1>1, <1>2, <1>5
<1>7. QED
  BY <1>1, <1>6 DEF Rec, first, step

(* Names, extensions and stems are what they should be.                    *)
LEMMA NamesTyped ==
  /\ Files \subseteq [stem : Seq(STRING), ext : STRING]
  /\ IsFiniteSet(Files)
  /\ Len(Names) \in Nat /\ DOMAIN Names = 1 .. Len(Names)
<1>1. Len(Names) \in Nat /\ DOMAIN Names = 1 .. Len(Names)
  BY OutputNamesAssumption
<1>2. Files \subseteq [stem : Seq(STRING), ext : STRING]
  <2> DEFINE R == [stem : Seq(STRING), ext : STRING]
  <2>1. Names \in Seq(R)
    BY OutputNamesAssumption
  <2> HIDE DEF R
  <2>2. Files \subseteq R
    BY <1>1, <2>1 DEF Files
  <2>3. QED
    BY <2>2 DEF R
<1>3. Names \in Surjection(1 .. Len(Names), Files)
  <2>1. Names \in [1 .. Len(Names) -> Files]
    BY <1>1, OutputNamesAssumption DEF Files
  <2>2. \A n \in Files : \E k \in 1 .. Len(Names) : Names[k] = n
    BY <1>1 DEF Files
  <2>3. QED
    BY <2>1, <2>2 DEF Surjection
<1>4. IsFiniteSet(Files)
  <2>1. IsFiniteSet(1 .. Len(Names))
    BY <1>1, FS_Interval
  <2>2. QED
    BY <1>3, <2>1, FS_Surjection
<1>5. QED
  BY <1>1, <1>2, <1>4

(* No name is tried twice.                                                 *)
LEMMA CandidatesDiffer ==
  ASSUME NEW n \in Files, NEW ext \in STRING,
         NEW j \in 0 .. Len(Numbers), NEW k \in 0 .. Len(Numbers),
         Candidate(n, ext, j) = Candidate(n, ext, k)
  PROVE  j = k
<1> DEFINE s == Append(n.stem, Lower[n.ext])
<1>1. /\ n.stem \in Seq(STRING) /\ Lower[n.ext] \in STRING
      /\ Len(Numbers) \in Nat /\ DOMAIN Numbers = 1 .. Len(Numbers)
      /\ \A i \in 1 .. Len(Numbers) : Numbers[i] \in STRING
  BY NamesTyped, OutputNamesAssumption
<1>2. s \in Seq(STRING)
  BY <1>1
<1> DEFINE st(i) == IF i = 0 THEN s ELSE Append(s, Numbers[i])
<1>3. \A i \in 0 .. Len(Numbers) : Candidate(n, ext, i).stem = st(i)
  BY DEF Candidate, Suffixed
<1>4. st(j) = st(k)
  BY <1>3
<1>5. \A i \in 1 .. Len(Numbers) :
        /\ Len(Append(s, Numbers[i])) = Len(s) + 1
        /\ Append(s, Numbers[i])[Len(s) + 1] = Numbers[i]
  BY <1>1, <1>2
<1>6. Len(s) \in Nat
  BY <1>2
<1> HIDE DEF s
<1>7. CASE j = 0 \/ k = 0
  <2>1. \A i \in 1 .. Len(Numbers) : st(i) # s
    BY <1>5, <1>6
  <2>2. st(0) = s /\ \A i \in 0 .. Len(Numbers) : i = 0 \/ i \in 1 .. Len(Numbers)
    BY <1>1
  <2> HIDE DEF st
  <2>3. QED
    BY <1>4, <1>7, <2>1, <2>2
<1>8. CASE j # 0 /\ k # 0
  <2>1. Numbers[j] = Numbers[k]
    BY <1>4, <1>5, <1>8
  <2>2. QED
    BY <1>1, <1>8, <2>1, OutputNamesAssumption
<1>9. QED
  BY <1>7, <1>8

LEMMA CandidateExt ==
  ASSUME NEW n, NEW ext, NEW k
  PROVE  Candidate(n, ext, k).ext = ext
  BY DEF Candidate, Suffixed

(* The name _unique_collision_name finds is not taken, if there are more   *)
(* candidates than files that have a name.                                 *)
LEMMA UniqueFree ==
  ASSUME NEW n \in Files, NEW ext \in STRING, NEW G, NEW out,
         IsFiniteSet(G), Cardinality(G) <= Len(Numbers)
  PROVE  Unique(n, ext, {out[m] : m \in G}) \notin {out[m] : m \in G}
<1> DEFINE taken == {out[m] : m \in G}
           T     == 0 .. Len(Numbers)
           free  == {k \in T : Candidate(n, ext, k) \notin taken}
<1>1. Len(Numbers) \in Nat
  BY OutputNamesAssumption
<1>2. free # {}
  <2>1. SUFFICES ASSUME \A k \in T : Candidate(n, ext, k) \in taken PROVE FALSE
    OBVIOUS
  <2> DEFINE f == [k \in T |-> CHOOSE m \in G : out[m] = Candidate(n, ext, k)]
  <2>2. ASSUME NEW k \in T
        PROVE  f[k] \in G /\ out[f[k]] = Candidate(n, ext, k)
    <3>1. \E m \in G : out[m] = Candidate(n, ext, k)
      BY <2>1
    <3>2. QED
      BY <3>1
  <2> HIDE DEF f
  <2>3. f \in [T -> G]
    BY <2>2 DEF f
  <2>4. ASSUME NEW j \in T, NEW k \in T, f[j] = f[k]
        PROVE  j = k
    <3>1. Candidate(n, ext, j) = Candidate(n, ext, k)
      BY <2>2, <2>4
    <3>2. QED
      BY <3>1, CandidatesDiffer
  <2>5. IsFiniteSet(T) /\ Cardinality(T) = Len(Numbers) + 1
    BY <1>1, FS_Interval
  <2>6. Cardinality(G) \in Nat
    BY FS_CardinalityType
  <2>7. Cardinality(G) < Cardinality(T)
    BY <1>1, <2>5, <2>6
  <2>8. \E j, k \in T : j # k /\ f[j] = f[k]
    BY <2>3, <2>5, <2>7, FS_PigeonHole
  <2>9. QED
    BY <2>4, <2>8
<1>3. free \subseteq Nat
  <2>1. T \subseteq Nat
    BY <1>1
  <2> HIDE DEF T
  <2>2. QED
    BY <2>1
<1>4. Min(free) \in free
  BY <1>2, <1>3, Least
<1>5. Unique(n, ext, taken) = Candidate(n, ext, Min(free))
  BY <1>2 DEF Unique
<1>6. QED
  BY <1>4, <1>5

----------------------------------------------------------------------------
(* Two files that keep their default names do not share one.               *)
LEMMA KeepersDiffer ==
  ASSUME NEW S \in SUBSET Files, NEW mode, NEW walk,
         NEW m \in Keepers(S, mode, walk), NEW n \in Keepers(S, mode, walk),
         Default(m, mode) = Default(n, mode)
  PROVE  m = n
<1> SUFFICES ASSUME m # n PROVE FALSE
  OBVIOUS
<1> DEFINE out == Default(n, mode)
           all == Sharing(S, mode, out)
<1>1. m \in Planned(S) /\ n \in Planned(S)
  BY DEF Keepers
<1>2. m \in all /\ n \in all /\ all \subseteq Planned(S)
  BY <1>1 DEF Sharing
<1>3. IsFiniteSet(all) /\ Cardinality(all) \in Nat
  <2>1. all \subseteq Files
    BY <1>2 DEF Planned
  <2>2. QED
    BY <2>1, NamesTyped, FS_Subset, FS_CardinalityType
<1>4. Cardinality(all) > 1
  <2>1. IsFiniteSet({m, n}) /\ Cardinality({m, n}) = 2
    <3>1. IsFiniteSet({m}) /\ Cardinality({m}) = 1
      BY FS_Singleton
    <3>2. {m, n} = {m} \cup {n} /\ n \notin {m}
      OBVIOUS
    <3>3. /\ IsFiniteSet({m} \cup {n})
          /\ Cardinality({m} \cup {n}) = Cardinality({m}) + 1
      BY <3>1, <3>2, FS_AddElement
    <3>4. QED
      BY <3>1, <3>2, <3>3
  <2>2. Cardinality({m, n}) <= Cardinality(all)
    BY <1>2, <1>3, FS_Subset
  <2>3. QED
    BY <1>3, <2>1, <2>2
<1>5. /\ ~ Loses(S, mode, walk, m)
      /\ ~ Loses(S, mode, walk, n)
  BY <1>1 DEF Keepers, Losers
<1>6. n = out \/ (out \notin all /\ n = First(all))
  BY <1>4, <1>5 DEF Loses
<1>7. m = out \/ (out \notin all /\ m = First(all))
  BY <1>4, <1>5 DEF Loses
<1>8. QED
  BY <1>2, <1>6, <1>7

----------------------------------------------------------------------------
(* What is true of the names when the first k of Names have been looked at. *)
NamedTo(S, mode, walk, k) ==
  LET w     == Naming(S, mode, walk)[k]
      named == NamedBy(S, mode, walk, k)
  IN /\ DOMAIN w.out = S
     /\ w.taken = {w.out[n] : n \in named}
     /\ \A m, n \in named : w.out[m] = w.out[n] => m = n
     /\ \A n \in Keepers(S, mode, walk) : w.out[n] = Default(n, mode)
     /\ \A n \in named : w.out[n] = n \/ w.out[n].ext = Target(n)
     /\ \A n \in S \ Planned(S) : w.out[n] = n

LEMMA DefaultExt ==
  ASSUME NEW mode, NEW n \in Files
  PROVE  Default(n, mode) = n \/ Default(n, mode).ext = Target(n)
<1>1. n \in [stem : Seq(STRING), ext : STRING]
  BY NamesTyped
<1>2. QED
  BY <1>1 DEF Default, Suffixed

LEMMA NamedFirst ==
  ASSUME NEW S \in SUBSET Files, NEW mode, NEW walk
  PROVE  NamedTo(S, mode, walk, 0)
<1> DEFINE w     == Defaults(S, mode, walk)
           keeps == Keepers(S, mode, walk)
<1>1. NamedBy(S, mode, walk, 0) = keeps
  BY DEF NamedBy
<1>2. keeps \subseteq Planned(S) /\ Planned(S) \subseteq S
  BY DEF Keepers, Planned
<1>3. /\ w.out = [n \in S |-> IF n \in keeps THEN Default(n, mode) ELSE n]
      /\ w.taken = {Default(n, mode) : n \in keeps}
  BY DEF Defaults, Keepers
<1> HIDE DEF w, keeps
<1>4. /\ DOMAIN w.out = S
      /\ \A n \in keeps : w.out[n] = Default(n, mode)
      /\ \A n \in S \ Planned(S) : w.out[n] = n
  BY <1>2, <1>3
<1>5. w.taken = {w.out[n] : n \in keeps}
  BY <1>3, <1>4
<1>6. \A m, n \in keeps : w.out[m] = w.out[n] => m = n
  BY <1>4, KeepersDiffer DEF keeps
<1>7. \A n \in keeps : w.out[n] = n \/ w.out[n].ext = Target(n)
  BY <1>2, <1>4, DefaultExt
<1>8. Naming(S, mode, walk)[0] = w
  BY NamingSteps DEF w
<1>9. QED
  BY <1>1, <1>4, <1>5, <1>6, <1>7, <1>8 DEF NamedTo, keeps

(* One more file is looked at: if it loses its name, the one it is given   *)
(* is that of no other.                                                    *)
LEMMA NamedNext ==
  ASSUME NEW S \in SUBSET Files, EnoughNumbers(S), NEW mode, NEW walk,
         NEW k \in 1 .. Len(Names), NamedTo(S, mode, walk, k - 1)
  PROVE  NamedTo(S, mode, walk, k)
<1> DEFINE was    == Naming(S, mode, walk)[k - 1]
           now    == Naming(S, mode, walk)[k]
           losers == Losers(S, mode, walk)
           keeps  == Keepers(S, mode, walk)
           before == NamedBy(S, mode, walk, k - 1)
           after  == NamedBy(S, mode, walk, k)
           n      == Names[k]
           ext    == Target(n)
           u      == Unique(n, ext, was.taken)
<1>1. /\ DOMAIN was.out = S
      /\ was.taken = {was.out[m] : m \in before}
      /\ \A m, o \in before : was.out[m] = was.out[o] => m = o
      /\ \A m \in keeps : was.out[m] = Default(m, mode)
      /\ \A m \in before : was.out[m] = m \/ was.out[m].ext = Target(m)
      /\ \A m \in S \ Planned(S) : was.out[m] = m
  BY DEF NamedTo
<1>2. now = Replace(losers, n, was)
  BY NamingSteps
<1>3. k \in DOMAIN Names /\ k \in Nat /\ Len(Names) \in Nat
  BY NamesTyped
<1>4. after = before \cup {m \in losers : m = n}
  <2>1. 1 .. k = (1 .. (k - 1)) \cup {k}
    BY <1>3
  <2>2. QED
    BY <2>1 DEF NamedBy
<1>5. /\ losers \subseteq Planned(S) /\ keeps \subseteq Planned(S)
      /\ before \subseteq Planned(S) /\ Planned(S) \subseteq S
      /\ losers \cap keeps = {}
  BY DEF Losers, Keepers, NamedBy, Planned
<1>6. n \in losers => n \notin before
  <2>1. \A j \in 1 .. (k - 1) : j \in DOMAIN Names /\ j # k
    BY <1>3, NamesTyped
  <2>2. \A j \in 1 .. (k - 1) : Names[j] # n
    BY <1>3, <2>1, OutputNamesAssumption
  <2>3. QED
    BY <1>5, <2>2 DEF NamedBy
<1> HIDE DEF was, now, losers, keeps, before, after, n, ext
<1>7. CASE n \notin losers
  <2>1. after = before /\ now = was
    BY <1>2, <1>4, <1>7 DEF Replace
  <2>2. QED
    BY <1>1, <2>1 DEF NamedTo, was, now, keeps, before, after
<1>8. CASE n \in losers
  <2>1. /\ after = before \cup {n}
        /\ now.out = [was.out EXCEPT ![n] = u]
        /\ now.taken = was.taken \cup {u}
    BY <1>2, <1>4, <1>8 DEF Replace, ext
  <2>2. /\ n \in S /\ n \in Files /\ ext \in STRING
    <3>1. Lower[n.ext] \in DOMAIN TargetExt /\ n \in S
      BY <1>5, <1>8 DEF Planned
    <3>2. QED
      BY <3>1, OutputNamesAssumption DEF ext, Target
  <2>3. IsFiniteSet(before) /\ Cardinality(before) <= Len(Numbers)
    <3>1. IsFiniteSet(Planned(S))
      BY NamesTyped, FS_Subset DEF Planned
    <3>2. /\ IsFiniteSet(Planned(S) \ {n})
          /\ Cardinality(Planned(S) \ {n}) = Cardinality(Planned(S)) - 1
      BY <1>5, <1>8, <3>1, FS_RemoveElement
    <3>3. before \subseteq Planned(S) \ {n}
      BY <1>5, <1>6, <1>8
    <3>4. IsFiniteSet(before) /\ Cardinality(before) <= Cardinality(Planned(S) \ {n})
      BY <3>2, <3>3, FS_Subset
    <3>5. Cardinality(before) \in Nat /\ Cardinality(Planned(S)) \in Nat /\ Len(Numbers) \in Nat
      BY <3>1, <3>4, FS_CardinalityType, OutputNamesAssumption
    <3>6. QED
      BY <3>2, <3>4, <3>5 DEF EnoughNumbers
  <2>4. u \notin was.taken
    <3> DEFINE out == was.out
    <3>1. Unique(n, ext, {out[m] : m \in before}) \notin {out[m] : m \in before}
      <4> HIDE DEF out
      <4>1. QED
        BY <2>2, <2>3, UniqueFree
    <3>2. QED
      BY <1>1, <3>1
  <2>5. u.ext = ext
    BY CandidateExt DEF Unique
  <2> HIDE DEF u
  <2>6. /\ DOMAIN now.out = S
        /\ now.out[n] = u
        /\ \A m \in S \ {n} : now.out[m] = was.out[m]
    BY <1>1, <2>1, <2>2
  <2>7. \A m \in before : m \in S \ {n} /\ now.out[m] = was.out[m]
    BY <1>5, <1>6, <1>8, <2>6
  <2>8. now.taken = {now.out[m] : m \in after}
    BY <1>1, <2>1, <2>6, <2>7
  <2>9. \A m, o \in after : now.out[m] = now.out[o] => m = o
    BY <1>1, <2>1, <2>4, <2>6, <2>7
  <2>10. \A m \in keeps : now.out[m] = Default(m, mode)
    BY <1>1, <1>5, <1>8, <2>6
  <2>11. \A m \in after : now.out[m] = m \/ now.out[m].ext = Target(m)
    BY <1>1, <2>1, <2>5, <2>6, <2>7 DEF ext
  <2>12. \A m \in S \ Planned(S) : now.out[m] = m
    BY <1>1, <1>5, <1>8, <2>6
  <2>13. QED
    BY <2>6, <2>8, <2>9, <2>10, <2>11, <2>12 DEF NamedTo, now, keeps, after
<1>9. QED
  BY <1>7, <1>8

(* When all files have been looked at; by the least round after which it   *)
(* would not be so.                                                        *)
LEMMA NamedAll ==
  ASSUME NEW S \in SUBSET Files, EnoughNumbers(S), NEW mode, NEW walk
  PROVE  NamedTo(S, mode, walk, Len(Names))
<1> DEFINE T == {k \in 0 .. Len(Names) : ~ NamedTo(S, mode, walk, k)}
<1>1. Len(Names) \in Nat
  BY NamesTyped
<1>2. SUFFICES ASSUME T # {} PROVE FALSE
  BY <1>1
<1>3. T \subseteq Nat
  BY <1>1
<1>4. PICK m \in T : \A k \in T : m <= k
  BY <1>2, <1>3, Least
<1>5. m \in 0 .. Len(Names) /\ ~ NamedTo(S, mode, walk, m)
  OBVIOUS
<1>6. m # 0
  BY <1>5, NamedFirst
<1>7. /\ m \in 1 .. Len(Names) /\ m - 1 \in 0 .. Len(Names)
      /\ ~ m <= m - 1
  BY <1>1, <1>5, <1>6
<1>8. NamedTo(S, mode, walk, m - 1)
  BY <1>4, <1>7
<1>9. QED
  BY <1>5, <1>7, <1>8, NamedNext

(* No output is given the name of another, nor that of another file.       *)
LEMMA OutNamesDiffer ==
  ASSUME NEW S \in SUBSET Files, EnoughNumbers(S), TargetsKept(S),
         NEW mode, NEW walk,
         NEW m \in S, NEW n \in S, m # n
  PROVE  LET out == OutNames(S, mode, walk)
         IN  {out[m], m} \cap {out[n], n} = {}
<1> DEFINE out   == OutNames(S, mode, walk)
           keeps == Keepers(S, mode, walk)
           named == NamedBy(S, mode, walk, Len(Names))
<1>1. /\ \A a, b \in named : out[a] = out[b] => a = b
      /\ \A a \in keeps : out[a] = Default(a, mode)
      /\ \A a \in named : out[a] = a \/ out[a].ext = Target(a)
      /\ \A a \in S \ Planned(S) : out[a] = a
  <2> DEFINE w == Naming(S, mode, walk)[Len(Names)]
  <2>1. /\ \A a, b \in named : w.out[a] = w.out[b] => a = b
        /\ \A a \in keeps : w.out[a] = Default(a, mode)
        /\ \A a \in named : w.out[a] = a \/ w.out[a].ext = Target(a)
        /\ \A a \in S \ Planned(S) : w.out[a] = a
    BY NamedAll DEF NamedTo
  <2>2. \A a \in S : out[a] = w.out[a]
    BY DEF OutNames
  <2>3. named \subseteq S /\ keeps \subseteq S
    BY DEF NamedBy, Keepers, Losers, Planned
  <2> HIDE DEF w, out, named, keeps
  <2>4. QED
    BY <2>1, <2>2, <2>3
<1>2. named = Planned(S)
  <2>1. \A a \in S : \E j \in 1 .. Len(Names) : Names[j] = a
    BY NamesTyped DEF Files
  <2>2. QED
    BY <2>1 DEF NamedBy, Keepers, Losers, Planned
<1> HIDE DEF out, named
(* A file whose name is that of an output is not planned to get another.   *)
<1>3. ASSUME NEW a \in S, NEW b \in S, out[a] = b
      PROVE  a = b
  <2>1. CASE a \notin Planned(S)
    BY <1>1, <1>3, <2>1
  <2>2. CASE a \in Planned(S)
    <3> SUFFICES ASSUME b.ext = Target(a) PROVE a = b
      BY <1>1, <1>2, <1>3, <2>2
    <3>1. Lower[Target(a)] = Target(a)
      BY <2>2, OutputNamesAssumption DEF Planned, Target
    <3>2. b \in Planned(S) /\ Target(b) = b.ext
      BY <2>2 DEF TargetsKept
    <3>3. Default(b, mode) = b
      BY <3>1, <3>2 DEF Default
    <3>4. b \in keeps
      BY <3>2, <3>3 DEF Keepers, Losers, Loses
    <3>5. out[b] = b
      BY <1>1, <3>3, <3>4
    <3>6. QED
      BY <1>1, <1>2, <1>3, <2>2, <3>2, <3>5
  <2>3. QED
    BY <2>1, <2>2
<1>4. out[m] # out[n]
  <2>1. CASE m \in Planned(S) /\ n \in Planned(S)
    BY <1>1, <1>2, <2>1
  <2>2. CASE m \notin Planned(S)
    BY <1>1, <1>3, <2>2
  <2>3. CASE n \notin Planned(S)
    BY <1>1, <1>3, <2>3
  <2>4. QED
    BY <2>1, <2>2, <2>3
<1>5. QED
  BY <1>3, <1>4 DEF out

(* The plan of the directory is what the planners make of it.              *)
PlanMade ==
  /\ folder \in SUBSET Files
  /\ \E mode \in NameModes : plan = OutNames(folder, mode, planner)

(* No two files of a directory are given the same output name, and none    *)
(* the name under which another is copied when it cannot be encoded, for   *)
(* directories of any size for which there are numbers enough, both modes  *)
(* and both planners, if files with a target extension stay as they are.   *)
THEOREM NamesStayDistinct ==
  Spec => [](EnoughNumbers(folder) /\ TargetsKept(folder) => NamesDistinct)
<1>1. Init => PlanMade
  BY DEF Init, Planners, TreeNames, ComicNames, PlanMade
<1>2. PlanMade /\ [Next]_vars => PlanMade'
  <2>1. ASSUME Next PROVE UNCHANGED <<folder, planner, plan>>
    BY <2>1 DEF Next, Fade, Step, Start, NotReady, LookFirst, Delete, LookAgain, Put, Verify,
                VerifyFails, Fix, Rename, Accept, Check, place
  <2>2. QED
    BY <2>1 DEF vars, PlanMade
<1>3. PlanMade /\ EnoughNumbers(folder) /\ TargetsKept(folder) => NamesDistinct
  BY OutNamesDiffer DEF PlanMade, NamesDistinct, Outcomes
<1>4. QED
  BY <1>1, <1>2, <1>3, PTL DEF Spec

=============================================================================
