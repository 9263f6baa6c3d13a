---------------------------- MODULE MCTaskServer ----------------------------
(* Small instances of TaskServer. *)
EXTENDS TaskServerInv, TLC

CONSTANTS t1, t2, p1, p2, d1

OneDir == [p \in Paths |-> d1]

AnyScope == [w \in Workers |-> Tasks]

(* The tasks are versions of the same source file and share its outputs;   *)
(* a second path is another out_ext.                                       *)
SharedOutPaths == [t \in Tasks |-> Paths]

(* Two source files of one directory, one with a choice of two outputs:    *)
(* the tasks share <dir>/blob and one final path, but not the other.       *)
OwnOutPaths == (t1 :> {p1}) @@ (t2 :> {p2})

(* Workers, nonces, threads and sizes are interchangeable; two source files *)
(* are when their outputs are exchanged with them.                          *)
Symmetry == Permutations(Workers) \cup Permutations(Nonces)
              \cup Permutations(Threads) \cup Permutations(Sizes)

SwapSources == (t1 :> t2) @@ (t2 :> t1) @@ (p1 :> p2) @@ (p2 :> p1)

SourceSymmetry == Symmetry \cup {SwapSources}
============================================================================
