--------------------------- MODULE MCApprovalGate ---------------------------
(* Instances of ApprovalGate for TLC. *)
EXTENDS ApprovalGate, TLC

CONSTANTS r1, r2, c1, c2, p1, p2

\* One call that needs two patterns: everything that can happen to one approval.
OneRunOf == c1 :> r1
OneNeeds == c1 :> {p1, p2}

OneNeedsP1 == c1 :> {p1}

\* Two calls in two runs that need the same grant.
TwoRunOf == c1 :> r1 @@ c2 :> r2
TwoNeeds == c1 :> {p1} @@ c2 :> {p1}

PressSymmetry == Permutations(Press)
=============================================================================
