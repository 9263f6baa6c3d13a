----------------------------- MODULE RemoteUpload -----------------------------
(***************************************************************************)
(* Uploads of the outputs of one directory to OpenList, without            *)
(* --overwrite (shrink_media/upload.py upload_file_remote), by as many     *)
(* threads as the upload pool has.                                         *)
(*                                                                         *)
(* OpenList gives a file whose name is taken another one ("a 1.webp" for   *)
(* "a.webp"), shows listings that are behind, and repeats of a call whose  *)
(* answer was lost are uploads of their own.  upload_file_remote looks     *)
(* first, uploads, looks for the result, and renames a file of the right   *)
(* size that has such a name.                                              *)
(*                                                                         *)
(* Sizes are bytes plus one, so that 0 is left for a file that is missing  *)
(* and an empty one is among those that are smaller than an output.        *)
(***************************************************************************)
EXTENDS OutputNames

CONSTANTS
  SizeOf,      \* the size of the output of a file
  Partial,     \* the size of what a broken upload leaves
  Huge,        \* a size larger than that of any output
  Copied,      \* what OpenList adds to a stem: " 1", " 2", ...
  MaxFaults,   \* bound: calls that fail or whose answer is lost
  MaxMisses,   \* bound: looks that fail or show what was there before
  Retries,     \* --upload-idle-retries
  Uploading    \* bound: the directories whose upload is followed

ASSUME RemoteUploadAssumption ==
  /\ SizeOf \in [Files -> Nat]
  /\ Partial \in Nat \ {0}
  /\ Huge \in Nat
  /\ \A n \in Files : Partial < SizeOf[n] /\ SizeOf[n] < Huge
  /\ MaxFaults \in Nat
  /\ MaxMisses \in Nat
  /\ Retries \in Nat
  /\ Uploading \subseteq SUBSET Files

VARIABLES
  folder,   \* the files of the source directory
  planner,  \* what their names are for
  plan,     \* the name of the output of each of them
  files,    \* the files in the output directory
  seen,     \* what a cached listing of it shows
  ghosts,   \* names that are taken although no file is shown
  up,       \* what is being done with each output
  faults,   \* history: calls gone wrong so far
  misses    \* history: looks gone wrong so far

vars == <<folder, planner, plan, files, seen, ghosts, up, faults, misses>>

None == [stem |-> <<>>, ext |-> ""]
Old  == [stem |-> <<>>, ext |-> "old"]   \* the owner of what was there before

ASSUME OldAssumption == Old \notin Files

(* The output of a file, or a copy of the original where encoding failed   *)
(* or did not pay (processor.py): the two names an output may have.        *)
Outcomes(n) == {plan[n], n}

(* "<stem> N<ext>" *)
Copies(p) == {[p EXCEPT !.stem = Append(@, c)] : c \in Copied}

(* The names the file of an output may have. *)
MayBe(n) == Outcomes(n) \cup UNION {Copies(o) : o \in Outcomes(n)}

Size(f, p) == IF p \in DOMAIN f THEN f[p].size ELSE 0

(* A listing f with the file x under the name p, and without what is there. *)
With(f, p, x) == [q \in DOMAIN f \cup {p} |-> IF q = p THEN x ELSE f[q]]
Without(f, p) == [q \in DOMAIN f \ {p} |-> f[q]]

Upload(n) == [pc : {"new", "look", "remove", "relook", "put", "verify", "fix",
                    "rename", "accept", "check", "done", "failed"},
              name : Outcomes(n),
              over : BOOLEAN,        \* the argument overwrite
              look : 1 .. 3,         \* which verification
              try  : 0 .. Retries,
              path : {None} \cup MayBe(n)]

TypeOK ==
  /\ folder \subseteq Files
  /\ planner \in Planners
  /\ DOMAIN plan = folder
  /\ \A f \in {files, seen} : \A p \in DOMAIN f :
       f[p].by \in folder \cup {Old} /\ f[p].size \in Nat \ {0}
  /\ DOMAIN up = folder
  /\ \A n \in folder : up[n] \in Upload(n)
  /\ faults \in 0 .. MaxFaults
  /\ misses \in 0 .. MaxMisses

Fresh(n) == [pc |-> "new", name |-> n, over |-> FALSE, look |-> 1, try |-> 0,
             path |-> None]

(* Names of the output directory may be taken already: by the remains of   *)
(* an upload, an earlier upload, a file of somebody else, or a ghost.      *)
Before(n) ==
  {<< <<>>, {plan[n]}>>} \cup
  {<<With(<<>>, plan[n], [by |-> Old, size |-> s]), {}>> :
     s \in {Partial, SizeOf[n], Huge}} \cup
  {<<With(<<>>, c, [by |-> Old, size |-> Huge]), {plan[n]}>> : c \in Copies(plan[n])}

Init ==
  /\ folder \in SUBSET Files
  /\ planner \in Planners
  /\ \E mode \in NameModes :
       plan = IF planner = "tree" THEN TreeNames(folder, mode)
              ELSE ComicNames(folder, mode)
  /\ \/ files = <<>> /\ ghosts = {}
     \/ /\ folder \in Uploading /\ planner = "tree"
        /\ \E n \in folder : \E b \in Before(n) : files = b[1] /\ ghosts = b[2]
  /\ seen = files
  /\ up = [n \in folder |-> Fresh(n)]
  /\ faults = 0
  /\ misses = 0

----------------------------------------------------------------------------
At(n, pc) == n \in folder /\ up[n].pc = pc

Goes(n, pc) == up' = [up EXCEPT ![n].pc = pc]

Done(n, p) == up' = [up EXCEPT ![n].pc = "done", ![n].path = p]

(* upload_worker: an error for which a retry is due starts all over. *)
Fails(n, retryable) ==
  up' = [up EXCEPT ![n] =
           IF retryable /\ up[n].try < Retries
           THEN [@ EXCEPT !.pc = "look", !.over = FALSE, !.look = 1,
                          !.try = up[n].try + 1]
           ELSE [@ EXCEPT !.pc = "failed"]]

Fault == faults < MaxFaults /\ faults' = faults + 1
Miss  == misses < MaxMisses /\ misses' = misses + 1

(* _openlist_get_file_size(strict=False): the size s of the file p, 0 when *)
(* nothing is there or the call fails.  The answer may be an old one.      *)
Look(p, s) ==
  \/ s = Size(files, p) /\ UNCHANGED misses
  \/ s \in {Size(seen, p), 0} \ {Size(files, p)} /\ Miss

(* A listing with refresh. *)
Refresh == seen' = files

place == <<folder, planner, plan>>

(* The output is there, under one of its names. *)
Start(n) ==
  /\ At(n, "new")
  /\ folder \in Uploading /\ planner = "tree"
  /\ \E p \in Outcomes(n) :
       up' = [up EXCEPT ![n].pc = "look", ![n].name = p]
  /\ UNCHANGED <<place, ghosts, files, seen, faults, misses>>

(* Before the first look of every try: ensure_dir, and the size of the     *)
(* local file.                                                             *)
NotReady(n) ==
  /\ At(n, "look")
  /\ Fault
  /\ \E retryable \in BOOLEAN : Fails(n, retryable)
  /\ UNCHANGED <<place, ghosts, files, seen, misses>>

(* Defect: a file that is there is taken for the upload, whatever its size. *)
LookFirstAnySize(n) ==
  /\ At(n, "look")
  /\ LET p == up[n].name IN
       \E s \in {0} \cup {Size(f, p) : f \in {files, seen}} :
         /\ Look(p, s)
         /\ \/ s = 0 /\ Goes(n, "put")
            \/ s > SizeOf[n] /\ Fails(n, FALSE)
            \/ s > 0 /\ s <= SizeOf[n] /\ Done(n, p)
  /\ UNCHANGED <<place, ghosts, files, seen, faults>>

LookFirst(n) ==
  /\ At(n, "look")
  /\ LET p == up[n].name IN
       \E s \in {0} \cup {Size(f, p) : f \in {files, seen}} :
         /\ Look(p, s)
         /\ \/ s = 0 /\ Goes(n, "put")
            \/ s = SizeOf[n] /\ Done(n, p)
            \/ s > SizeOf[n] /\ Fails(n, FALSE)
            \/ s > 0 /\ s < SizeOf[n] /\ Goes(n, "remove")
  /\ UNCHANGED <<place, ghosts, files, seen, faults>>

(* remove() keeps its errors to itself.  The name may stay taken a while. *)
Delete(n) ==
  /\ At(n, "remove")
  /\ LET p == up[n].name IN
       \/ /\ files' = Without(files, p)
          /\ ghosts' \in {ghosts, ghosts \cup {p}}
          /\ UNCHANGED faults
       \/ UNCHANGED <<files, ghosts>> /\ Fault
  /\ Goes(n, "relook")
  /\ UNCHANGED <<place, seen, misses>>

(* The listing with refresh, and the second look. *)
LookAgain(n) ==
  /\ At(n, "relook")
  /\ \/ Refresh /\ UNCHANGED faults
     \/ UNCHANGED seen /\ Fault
  /\ \E s \in {0} \cup {Size(f, up[n].name) : f \in {files, seen}} :
       /\ Look(up[n].name, s)
       /\ up' = [up EXCEPT ![n].pc = "put", ![n].over = s > 0]
  /\ UNCHANGED <<place, ghosts, files>>

(* OpenList stores a file of size s: under its name, or under another. *)
Stored(f, n, s) ==
  LET p    == up[n].name
      free == {c \in Copies(p) : c \notin DOMAIN f \cup ghosts}
      file == [by |-> n, size |-> s]
  IN IF p \notin DOMAIN f \cup ghosts \/ up[n].over
     THEN {With(f, p, file)}
     ELSE {With(f, c, file) : c \in free}

(* upload_file, or direct_upload_if_available and upload_file after it. *)
Sent(n) == Stored(files, n, SizeOf[n])

(* A call that fails says nothing about what it has stored. *)
Lost(n) == {files} \cup Stored(files, n, Partial) \cup Sent(n)

(* _call_retry, and the fallback from the direct upload, repeat a call     *)
(* that failed, on top of what it has stored; or the error is passed on.   *)
Put(n) ==
  /\ At(n, "put")
  /\ \/ files' \in Sent(n) /\ Goes(n, "verify") /\ UNCHANGED faults
     \/ /\ Fault
        /\ files' \in Lost(n)
        /\ \/ Goes(n, "put")
           \/ \E retryable \in BOOLEAN : Fails(n, retryable)
     \/ /\ Sent(n) = {}
        /\ Fails(n, FALSE)
        /\ UNCHANGED <<files, faults>>
  /\ UNCHANGED <<place, ghosts, seen, misses>>

(* Defects: one verification more than there are; no limit. *)
NextLookOneMore(n) ==
  IF up[n].look <= 3
  THEN up' = [up EXCEPT ![n].pc = "verify", ![n].look = @ + 1]
  ELSE Fails(n, TRUE)

NextLookAlways(n) == Goes(n, "verify")

(* The next verification, or the end. *)
NextLook(n) ==
  IF up[n].look < 3
  THEN up' = [up EXCEPT ![n].pc = "verify", ![n].look = @ + 1]
  ELSE Fails(n, TRUE)

Verify(n) ==
  /\ At(n, "verify")
  /\ LET p == up[n].name IN
       \E s \in {0} \cup {Size(f, p) : f \in {files, seen}} :
         /\ Look(p, s)
         /\ \/ s = SizeOf[n] /\ Done(n, p) /\ UNCHANGED seen
            \/ s < SizeOf[n] /\ Goes(n, "fix") /\ UNCHANGED seen
            \/ s > SizeOf[n] /\ NextLook(n) /\ Refresh
  /\ UNCHANGED <<place, ghosts, files, faults>>

VerifyFails(n) ==
  /\ At(n, "verify")
  /\ Miss
  /\ \E retryable \in BOOLEAN : Fails(n, retryable)
  /\ UNCHANGED <<place, ghosts, files, seen, faults>>

(* Defect: any file with such a name is a candidate. *)
CandidatesAnySize(n) == {c \in Copies(up[n].name) : c \in DOMAIN files}

Candidates(n) ==
  {c \in Copies(up[n].name) : c \in DOMAIN files /\ files[c].size = SizeOf[n]}

(* _openlist_find_autorename_candidate and the look that follows it.  The  *)
(* newest candidate is taken; the times are left open.  When the listing   *)
(* fails the verification goes on without it.                              *)
Fix(n) ==
  /\ At(n, "fix")
  /\ Refresh
  /\ \/ Candidates(n) = {} /\ NextLook(n) /\ UNCHANGED <<faults, misses>>
     \/ NextLook(n) /\ Fault /\ UNCHANGED misses
     \/ \E c \in Candidates(n), s \in {Size(files, up[n].name), 0} :
          /\ Look(up[n].name, s)
          /\ IF s = SizeOf[n] THEN Done(n, up[n].name)
             ELSE up' = [up EXCEPT ![n].pc = "rename", ![n].path = c]
          /\ UNCHANGED faults
  /\ UNCHANGED <<place, ghosts, files>>

(* An error may hide a rename that has taken place. *)
Rename(n) ==
  /\ At(n, "rename")
  /\ LET p     == up[n].name
         c     == up[n].path
         moved == With(Without(files, c), p, files[c])
         can   == c \in DOMAIN files /\ p \notin DOMAIN files \cup ghosts
     IN \/ can /\ files' = moved /\ Goes(n, "check") /\ UNCHANGED faults
        \/ ~can /\ UNCHANGED <<files, faults>> /\ Goes(n, "accept")
        \/ can /\ Fault /\ files' \in {files, moved} /\ Goes(n, "accept")
  /\ UNCHANGED <<place, ghosts, seen, misses>>

(* Defect: a rename that failed is taken for one that did nothing. *)
AcceptBlindly(n) ==
  /\ At(n, "accept")
  /\ Done(n, up[n].path)
  /\ UNCHANGED <<place, ghosts, files, seen, faults, misses>>

(* The rename failed: the other name is accepted if the file is there. *)
Accept(n) ==
  /\ At(n, "accept")
  /\ \E s \in {0} \cup {Size(f, up[n].path) : f \in {files, seen}} :
       /\ Look(up[n].path, s)
       /\ IF s = SizeOf[n] THEN Done(n, up[n].path) /\ UNCHANGED seen
          ELSE NextLook(n) /\ Refresh
  /\ UNCHANGED <<place, ghosts, files, faults>>

(* It succeeded: the file is looked for under both names. *)
Check(n) ==
  /\ At(n, "check")
  /\ LET p == up[n].name
         c == up[n].path
     IN \/ Look(p, SizeOf[n]) /\ Done(n, p) /\ UNCHANGED seen
        \/ /\ \E s \in {0, Size(files, p), Size(seen, p)} :
                s # SizeOf[n] /\ Look(p, s)
           /\ \/ /\ SizeOf[n] \in {Size(files, c), Size(seen, c)}
                 /\ Done(n, c) /\ UNCHANGED seen
              \/ /\ Size(files, c) # SizeOf[n]
                 /\ NextLook(n) /\ Refresh
  /\ UNCHANGED <<place, ghosts, files, faults>>

Step(n) ==
  \/ Start(n) \/ NotReady(n) \/ LookFirst(n) \/ Delete(n) \/ LookAgain(n) \/ Put(n)
  \/ Verify(n) \/ VerifyFails(n) \/ Fix(n) \/ Rename(n) \/ Accept(n) \/ Check(n)

(* OpenList notices that a name is free. *)
Fade(p) ==
  /\ p \in ghosts
  /\ ghosts' = ghosts \ {p}
  /\ UNCHANGED <<place, files, seen, up, faults, misses>>

Next == (\E n \in folder : Step(n)) \/ (\E p \in ghosts : Fade(p))

Spec == Init /\ [][Next]_vars

(* Some thread that has a call to make makes it; nothing more is needed,   *)
(* because no output can be tried for ever.                                *)
FairSpec == Spec /\ WF_vars(Next)

----------------------------------------------------------------------------
(* No two files of a directory, or of a comic, are given the same output   *)
(* name, and none the name under which another is copied when it cannot    *)
(* be encoded: nothing that is written overwrites anything else.           *)
NamesDistinct ==
  \A m, n \in folder : m # n => Outcomes(m) \cap Outcomes(n) = {}

(* A file that is larger than what would replace it is never removed,      *)
(* replaced or renamed, whatever OpenList shows and however calls fail.    *)
LargerKept ==
  [][\A p \in DOMAIN files :
       files[p].by = Old /\ files[p].size = Huge =>
         p \in DOMAIN files' /\ files'[p] = files[p]]_vars

(* The name OpenList makes for one output may be that of another: then the *)
(* file is taken for remains and removed, or renamed after it has been     *)
(* replaced.  Outputs without such names are kept apart.                   *)
Apart(n) == \A m \in folder \ {n} : MayBe(m) \cap MayBe(n) = {}

(* An output that is reported as uploaded is in the output directory, and  *)
(* stays there while the others are uploaded, if it is one of those kept   *)
(* apart, and unless looks showed something else than what was there.  Two *)
(* of them cost it: the first has it replaced as the remains of an upload, *)
(* and after that upload has broken off the second shows what it replaced. *)
(* One may be enough when three calls have failed as well: an upload that  *)
(* overwrites is stored without an answer, and its repeat breaks off.      *)
Kept ==
  \A n \in folder :
    At(n, "done") /\ Apart(n) /\ (misses = 0 \/ (misses = 1 /\ faults <= 2)) =>
      \E p \in DOMAIN files :
        /\ p \in MayBe(n)
        /\ files[p].size = SizeOf[n]

(* It is where the state entry says, unless a look showed something else   *)
(* than what was there (upload.py:151 accepts the old name then).          *)
PathTrue ==
  \A n \in folder :
    At(n, "done") /\ Apart(n) /\ misses = 0 =>
      Size(files, up[n].path) = SizeOf[n]

(* Every upload comes to an end, reported as done or as failed. *)
Ends == <>[](\A n \in folder : up[n].pc \in {"new", "done", "failed"})
===============================================================================
