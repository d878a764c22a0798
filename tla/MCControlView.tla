--------------------------- MODULE MCControlView ---------------------------
(***************************************************************************)
(* Two projects and two names.  Documents has one of each kind: neither    *)
(* saved, one saved, both with two names or with one; the rest differ in   *)
(* which project or which name it is.                                      *)
(***************************************************************************)
EXTENDS ControlView, TLC

CONSTANTS p1, p2, A, B

MCProject == {p1, p2}
MCName == {A, B}
MCDocuments == {p1 :> x @@ p2 :> y : <<x, y>> \in {<<A, A>>, <<A, B>>, <<A, None>>, <<None, None>>}}
=============================================================================
