---- MODULE MCKeys ----
(***************************************************************************)
(* How sessions come to a rotated user key, as one instance: a remembered  *)
(* session, whose one encounter is the registry seal; a transient one,     *)
(* which has no client-key record and meets stranded collections too; and  *)
(* the stranded collections of a transient session and their repair.  The  *)
(* three are checked side by side, never in one behaviour.                 *)
(***************************************************************************)
EXTENDS UserKeyAdoption

CONSTANTS c1, c2, seal, meet, o1, MaxFailures

VARIABLES part, broken, coll, view, stranded, reports, gate, rotating,
          running, dirty, seen, run, spent, met, failures

R == INSTANCE UserKeyAdoption WITH Remembered <- TRUE, Sites <- {seal}
S == INSTANCE StrandedCollections WITH MaxKey <- MaxEpoch

ASSUME StrandsAreBounded == S!StrandsAssumption

adoption == <<sealed, current, pin, record, cipher, marks, site, own>>
strands == <<broken, coll, view, stranded, reports, gate, rotating,
             running, dirty, seen, run, spent, met, failures>>
keysVars == <<vars, part, strands>>

\* The variables of the part that is not taken, as they start.
StrandsRest ==
  /\ broken = {} /\ coll = [c \in Collections |-> 1] /\ view = coll
  /\ stranded = {} /\ reports = FALSE /\ gate = FALSE /\ rotating = FALSE
  /\ running = FALSE /\ dirty = FALSE /\ seen = {}
  /\ run = S!NoRun /\ spent = FALSE /\ met = {} /\ failures = 0
AdoptionRests ==
  /\ sealed = 1 /\ current = [c \in Collections |-> 1] /\ pin = 1 /\ record = 1
  /\ cipher = [c \in Collections |-> 1] /\ marks = {}
  /\ site = [s \in Sites |-> IdleSite] /\ own = [o \in Ceremonies |-> IdleOwn]

Remembers(A) == part = "remembered" /\ A /\ UNCHANGED <<part, strands>>
Visits(A) == part = "transient" /\ A /\ UNCHANGED <<part, strands>>
Meets(A) == part = "strands" /\ A /\ UNCHANGED <<part, adoption>>

KeysInit ==
  \/ part \in {"remembered", "transient"} /\ Init /\ StrandsRest
  \/ part = "strands" /\ S!Init /\ AdoptionRests
KeysNext == Remembers(R!Next) \/ Visits(Next) \/ Meets(S!Next)

\* The fairness of the parts (FairSpec of each).
Keys ==
  /\ KeysInit /\ [][KeysNext]_keysVars
  /\ \A s \in Sites : WF_keysVars(Visits(Follow(s)))
  /\ WF_keysVars(Remembers(R!Follow(seal)))
  /\ \A o \in Ceremonies :
       /\ WF_keysVars(Visits(Rotate(o) /\ own[o].at # "idle"))
       /\ WF_keysVars(Remembers(R!Rotate(o) /\ own[o].at # "idle"))
  /\ WF_keysVars(Meets(S!Reported)) /\ WF_keysVars(Meets(S!OpenGate))
  /\ WF_keysVars(Meets(S!Repair)) /\ WF_keysVars(Meets(S!RotateLands))

\* A rotation settles.  The mark it sets is cleared however its ceremony ends;
\* every collection it strands is met by a run when it is first stranded,
\* whatever was running when it was reported and however often the runs before
\* it failed; and the binding comes to rest: its own rebuilds, which report the
\* strands again, do not keep it running for ever.  Meanwhile no collection's
\* generation goes back, and the variables of the strands keep their shape.
RotationsSettle ==
  /\ MarkIsCleared /\ S!CollectionsForward
  /\ part = "strands" => []S!TypeOK /\ S!StrandIsMet /\ S!ComesToRest
====
