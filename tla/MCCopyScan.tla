----------------------------- MODULE MCCopyScan -----------------------------
(* Two versions of one source, which have the same final path. *)
EXTENDS CopyScan

CONSTANTS v1, v2, f1, p1, srv

TwoVersions  == [t \in Tasks |-> f1]
OnePath      == [t \in Tasks |-> p1]
GrowingSizes == [t \in Tasks |-> IF t = v1 THEN 1 ELSE 2]
OneLeaseOrNone == {{}, {v1}}
=============================================================================
