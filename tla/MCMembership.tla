---- MODULE MCMembership ----
(***************************************************************************)
(* An instance of ClientMembership: a phone and a laptop with a tab each.  *)
(***************************************************************************)
EXTENDS ClientMembership, TLC

CONSTANTS c1, c2, phone, laptop, t1, t2

ATabEach == (t1 :> phone) @@ (t2 :> laptop)
====
