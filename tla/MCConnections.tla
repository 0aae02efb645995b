---- MODULE MCConnections ----
(***************************************************************************)
(* Small instances of ConnectionCeremonies.                                *)
(***************************************************************************)
EXTENDS ConnectionCeremonies, TLC

CONSTANTS a1, a2, ag, g1, g2, g3, c1, c2, s1, s2

\* Two apps with a share each of one collection, and an agent with a collection
\* provisioned for it.
PartiesGrantee == (g1 :> a1) @@ (g2 :> a2) @@ (g3 :> ag)
PartiesTarget == (g1 :> c1) @@ (g2 :> c1) @@ (g3 :> c2)

\* The two apps stand for each other, each with its share.
Swapped ==
  {(a1 :> x) @@ (a2 :> y) @@ (g1 :> h) @@ (g2 :> k) :
     <<x, y, h, k>> \in {<<a1, a2, g1, g2>>, <<a2, a1, g2, g1>>}}

\* One app, one share.
SoloGrantee == g1 :> a1
SoloTarget == g1 :> c1

\* One tab keeps disconnecting; the other is under no fairness at all.
RetrySpec == Spec /\ \A p \in Apps : RetriesDisconnect(s1, p)
====
