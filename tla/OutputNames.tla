----------------------------- MODULE OutputNames -----------------------------
(***************************************************************************)
(* The names that the files of one directory are given in the output       *)
(* directory (shrink_media/workitem.py): the default name, and the names   *)
(* that replace it when two files would share one.                         *)
(*                                                                         *)
(* A name is a stem and an extension, the stem a sequence of parts:        *)
(* "a__png__2.webp" is [stem |-> <<"a", "png", "2">>, ext |-> "webp"].     *)
(***************************************************************************)
EXTENDS Naturals, SequencesExt, TLC

CONSTANTS
  Names,      \* the files a directory may hold, as sorted() orders them
  Lower,      \* extensions in lower case: "png" of "PNG"
  TargetExt,  \* the extension that outputs of files with some extension get;
              \* files with another one keep their name
  Numbers     \* the suffixes tried last: "2" .. "9999" in the code

Files == {Names[k] : k \in DOMAIN Names}

(* A directory holds no name twice, and no number is tried twice.  Target  *)
(* extensions are in lower case.                                           *)
ASSUME OutputNamesAssumption ==
  /\ Names \in Seq([stem : Seq(STRING), ext : STRING])
  /\ \A j, k \in DOMAIN Names : Names[j] = Names[k] => j = k
  /\ Lower \in [DOMAIN Lower -> STRING]
  /\ \A n \in Files : n.ext \in DOMAIN Lower
  /\ TargetExt \in [DOMAIN TargetExt -> STRING]
  /\ \A e \in DOMAIN TargetExt :
       TargetExt[e] \in DOMAIN Lower /\ Lower[TargetExt[e]] = TargetExt[e]
  /\ Numbers \in Seq(STRING)
  /\ \A j, k \in DOMAIN Numbers : Numbers[j] = Numbers[k] => j = k

NameModes == {"suffix", "collision"}   \* --out-name-mode
Planners  == {"tree", "comic"}         \* the walk of a directory, or of a comic

First(S)   == Names[Min({k \in DOMAIN Names : Names[k] \in S})]
Planned(S) == {n \in S : Lower[n.ext] \in DOMAIN TargetExt}
Target(n)  == TargetExt[Lower[n.ext]]

(* build_suffixed_target_name *)
Suffixed(n, ext) == [stem |-> Append(n.stem, Lower[n.ext]), ext |-> ext]

(* make_default_out_name_of *)
Default(n, mode) ==
  IF Lower[n.ext] = Target(n) THEN n
  ELSE IF mode = "suffix" THEN Suffixed(n, Target(n))
       ELSE [n EXCEPT !.ext = Target(n)]

Sharing(S, mode, out) == {n \in Planned(S) : Default(n, mode) = out}

(* Which files lose their default name to another.  The one that has it    *)
(* already keeps it; else the first does in a tree, and none in a comic.   *)
Loses(S, mode, planner, n) ==
  LET out == Default(n, mode)
      all == Sharing(S, mode, out)
  IN /\ Cardinality(all) > 1
     /\ n # out
     /\ planner = "tree" => out \in all \/ n # First(all)

Losers(S, mode, planner) == {n \in Planned(S) : Loses(S, mode, planner, n)}

(* Defect: the names that are taken are not looked at. *)
UniqueUnchecked(n, ext, reserved) == Suffixed(n, ext)

(* What is tried: "a__png.webp", "a__png__2.webp", "a__png__3.webp", ... *)
Candidate(n, ext, k) ==
  IF k = 0 THEN Suffixed(n, ext)
  ELSE [Suffixed(n, ext) EXCEPT !.stem = Append(@, Numbers[k])]

(* _unique_collision_name: when all the numbers are used up the first name *)
(* is returned, taken or not.                                              *)
Unique(n, ext, reserved) ==
  LET free == {k \in 0 .. Len(Numbers) : Candidate(n, ext, k) \notin reserved}
  IN Candidate(n, ext, IF free = {} THEN 0 ELSE Min(free))

(* compute_output_name_overrides and compute_image_out_name_overrides: the *)
(* names of the files, and those that are taken.  First the default names  *)
(* of the files that keep them, ...                                        *)
Defaults(S, mode, planner) ==
  LET keeps == Planned(S) \ Losers(S, mode, planner) IN
  [out   |-> [n \in S |-> IF n \in keeps THEN Default(n, mode) ELSE n],
   taken |-> {Default(n, mode) : n \in keeps}]

(* ... then one loser after the other is given another.                    *)
Replace(losers, n, was) ==
  LET u == Unique(n, Target(n), was.taken) IN
  IF n \in losers
  THEN [out |-> [was.out EXCEPT ![n] = u], taken |-> was.taken \cup {u}]
  ELSE was

(* The names when the first k of Names have been looked at.                *)
Naming(S, mode, planner) ==
  LET named[k \in 0 .. Len(Names)] ==
        IF k = 0 THEN Defaults(S, mode, planner)
        ELSE Replace(Losers(S, mode, planner), Names[k], named[k - 1])
  IN named

(* The output name of every file, overridden or not. *)
OutNames(S, mode, planner) == [n \in S |-> Naming(S, mode, planner)[Len(Names)].out[n]]

(* Of a directory that is walked, and of a folder in a comic archive.  What *)
(* decides the extension of a video (its subtitles) is in TargetExt.        *)
TreeNames(S, mode)  == OutNames(S, mode, "tree")
ComicNames(S, mode) == OutNames(S, mode, "comic")

----------------------------------------------------------------------------
(* There are as many candidates for a name as files that may have taken    *)
(* one: 9999 in the code.                                                  *)
EnoughNumbers(S) == Cardinality(Planned(S)) <= Len(Numbers) + 1

(* A file whose extension is the one another is converted to stays as it   *)
(* is.  Not so a video without subtitles in a directory where one that has *)
(* some is made an .mkv: the first, an .mkv, is made an .mp4.              *)
TargetsKept(S) ==
  \A m \in S, n \in Planned(S) :
    m.ext = Target(n) => m \in Planned(S) /\ Target(m) = m.ext
==============================================================================
