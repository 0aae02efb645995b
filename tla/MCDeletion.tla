---- MODULE MCDeletion ----
(***************************************************************************)
(* AccountDeletion with a visit alone, over two siblings, and two          *)
(* failures; and with a visit beside an enrolled client's tab, over one    *)
(* sibling, and one failure.                                               *)
(***************************************************************************)
EXTENDS AccountDeletion

CONSTANTS t1, t2, c1, c2, me, acct, replica

VARIABLE scene

deletionVars == <<vars, scene>>
Taken(A) ==
  /\ A /\ UNCHANGED scene
  /\ IF scene = "alone" THEN session'[t2] = 0
     ELSE c2 \notin registry' /\ failures' < MaxFailures

DeletionInit ==
  /\ Init /\ scene \in {"alone", "beside"}
  /\ scene = "beside" => c2 \notin registry
Deletions ==
  /\ DeletionInit /\ [][Taken(Next)]_deletionVars
  /\ \A t \in Tabs :
       /\ WF_deletionVars(Taken(Walk(t))) /\ WF_deletionVars(Taken(Start(t)))
       /\ SF_deletionVars(Taken(Enter(t)))
  /\ \A c \in Credentials : WF_deletionVars(Taken(LoginDead(c)))
====
