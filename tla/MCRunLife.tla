------------------------------ MODULE MCRunLife ------------------------------
(* Instances of RunLife for TLC: two turns of one thread, or of two. *)
EXTENDS RunLife, TLC

CONSTANTS r1, r2, t1, t2

TheMeetings == {r1 :> t1 @@ r2 :> t1, r1 :> t1 @@ r2 :> t2}
TheSizes == {<<1, 1>>, <<2, 1>>, <<2, 2>>}
TheProse == r1 :> 0 @@ r2 :> 1
==============================================================================
