--------------------------- MODULE MCRemoteUpload ----------------------------
(* Instances of RemoteUpload for TLC: a directory of pictures, among them   *)
(* names that look like a rename by OpenList or by the naming itself.       *)
EXTENDS RemoteUpload

Pic(stem, ext) == [stem |-> stem, ext |-> ext]
Pictures == << Pic(<<"a", " 1">>, "png"), Pic(<<"a">>, "PNG"), Pic(<<"a">>, "jpg"),
               Pic(<<"a">>, "png"), Pic(<<"a">>, "webp"),
               Pic(<<"a", "png">>, "webp"), Pic(<<"a", "png", "2">>, "webp") >>

TwoToSeven == <<"2", "3", "4", "5", "6", "7">>

Lowered == [e \in {"jpg", "png", "webp", "PNG"} |-> IF e = "PNG" THEN "png" ELSE e]

ToWebp == [e \in {"jpg", "png", "webp"} |-> "webp"]

Sizes2 == [n \in Files |-> IF n = Names[1] THEN 3 ELSE IF n = Names[3] THEN 4 ELSE 5]

(* What the theorem about names asks of a directory holds of all of these.   *)
ASSUME NamesConditions ==
  \A S \in SUBSET Files : EnoughNumbers(S) /\ TargetsKept(S)

(* The uploads of one output, and of two that are planned as one name;     *)
(* of two whose renamed files would have the same names.                   *)
Small == {{Names[4]}, {Names[3], Names[4]}}
Close == {{Names[1], Names[4]}}
==============================================================================
