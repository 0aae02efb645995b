---- MODULE UserKeyAdoption ----
(***************************************************************************)
(* How a live session moves onto a rotated user key: the in-band and the   *)
(* closing adoption of a rotation it drives itself, and the follower       *)
(* adoption of one another client drove, with the registry re-seal and its *)
(* repair.  A user key is the number of its epoch in the roster.           *)
(***************************************************************************)
EXTENDS Naturals, FiniteSets

CONSTANTS
  MaxEpoch,     \* bound: the epochs the roster may reach
  Collections,  \* the encrypted collections
  Sites,        \* the encounters that may find the session behind
  SealSites,    \* those that repair the registry's seal once it is current
  Ceremonies,   \* the rotating ceremonies the session may run at once
  Remembered,   \* whether the browser holds a client-key record
  HeldAdoption  \* whether a ceremony's closing adoption runs under its mark
                \* (a client or recovery-code revocation) or behind it (a
                \* credential's removal, a passphrase change)

ASSUME AdoptionAssumption ==
  /\ MaxEpoch \in Nat \ {0}
  /\ SealSites \subseteq Sites
  /\ Remembered \in BOOLEAN /\ HeldAdoption \in BOOLEAN

Epochs == 1..MaxEpoch
None == 0

VARIABLES
  roster,    \* the roster's current epoch
  sealed,    \* the key the unlock-methods registry is sealed to
  current,   \* the key each collection's current epoch names
  key,       \* the key the session operates under
  pin,       \* the visit's epoch pin
  record,    \* the key in the browser's client-key record
  cipher,    \* the epoch key each collection's cipher seals under, None when
             \* it refuses
  marks,     \* the ceremonies holding the own-rotation mark
  site,      \* each encounter: where it stands and the key it works with
  own,       \* each ceremony: where it stands and the key it minted
  disposed   \* whether the session was torn down

server == <<roster, sealed, current>>
local == <<key, pin, record, cipher>>
vars == <<roster, sealed, current, key, pin, record, cipher, marks, site, own,
          disposed>>

SiteSteps == {"idle", "read", "joined", "pinned", "writing", "recorded",
              "current", "repair"}
OwnSteps == {"idle", "join", "rotate", "reseal", "pin", "record", "hold",
             "fanOut", "adopt", "swap"}

TypeOK ==
  /\ roster \in Epochs /\ sealed \in Epochs
  /\ current \in [Collections -> Epochs]
  /\ key \in Epochs /\ pin \in Epochs /\ record \in Epochs
  /\ cipher \in [Collections -> Epochs \cup {None}]
  /\ marks \subseteq Ceremonies
  /\ site \in [Sites -> [at : SiteSteps, epoch : Epochs \cup {None}]]
  /\ own \in [Ceremonies -> [at : OwnSteps, epoch : Epochs \cup {None},
                             waits : SUBSET Sites, resealed : BOOLEAN]]
  /\ disposed \in BOOLEAN

IdleSite == [at |-> "idle", epoch |-> None]
IdleOwn == [at |-> "idle", epoch |-> None, waits |-> {}, resealed |-> FALSE]

Init ==
  /\ roster = 1 /\ sealed = 1
  /\ current = [c \in Collections |-> 1]
  /\ key = 1 /\ pin = 1 /\ record = 1
  /\ cipher = [c \in Collections |-> 1]
  /\ marks = {}
  /\ site = [s \in Sites |-> IdleSite]
  /\ own = [o \in Ceremonies |-> IdleOwn]
  /\ disposed = FALSE

(***************************************************************************)
(* The account's other clients.                                            *)
(***************************************************************************)
OtherRotates ==
  /\ roster < MaxEpoch
  /\ roster' = roster + 1
  /\ UNCHANGED <<sealed, current, local, marks, site, own, disposed>>

OtherReseals ==
  /\ sealed < roster
  /\ sealed' = roster
  /\ UNCHANGED <<roster, current, local, marks, site, own, disposed>>

OtherFansOut(c) ==
  /\ current[c] < roster
  /\ current' = [current EXCEPT ![c] = roster]
  /\ UNCHANGED <<roster, sealed, local, marks, site, own, disposed>>

(***************************************************************************)
(* The follower adoption, from an encounter's roster read to its end.      *)
(***************************************************************************)
\* userKeyRosterPosition: the session's key comes earlier in the read's list.
Behind(epoch) == key < epoch

\* The pin stands while it is not past the read's epoch.
PinStands(epoch) == pin <= epoch

Rest(s) == site' = [site EXCEPT ![s] = IdleSite]
Goes(s, at) == site' = [site EXCEPT ![s].at = at]

\* encounterRosterRead: the roster as it stands now.
ReadRoster(s) ==
  /\ site[s].at = "idle" /\ ~disposed
  /\ site' = [site EXCEPT ![s] = [at |-> "read", epoch |-> roster]]
  /\ UNCHANGED <<server, local, marks, own, disposed>>

\* An adoption asked for while a rotation of the session's own runs stands
\* down at once.
OwnsKey == marks # {}

\* The adoptions in flight: one a session and epoch.
Adopting(s) == site[s].at \in {"pinned", "writing", "recorded"}
InFlight(epoch) == \E s \in Sites : Adopting(s) /\ site[s].epoch = epoch

\* A session that is current goes on to the registry, or is done.
Current(s) ==
  IF s \in SealSites THEN site' = [site EXCEPT ![s] = [at |-> "current", epoch |-> key]]
  ELSE Rest(s)

AdoptNothing(s) ==
  /\ site[s].at = "read"
  /\ IF key = site[s].epoch THEN Current(s)
     ELSE /\ ~Behind(site[s].epoch) \/ OwnsKey \/ disposed
          /\ Rest(s)
  /\ UNCHANGED <<server, local, marks, own, disposed>>

\* A second call for an epoch waits for the first, then looks where the session
\* stands: a joiner never adopts itself.
AdoptJoins(s) ==
  /\ site[s].at = "read"
  /\ Behind(site[s].epoch) /\ ~OwnsKey
  /\ InFlight(site[s].epoch)
  /\ Goes(s, "joined")
  /\ UNCHANGED <<server, local, marks, own, disposed>>

JoinReturns(s) ==
  /\ site[s].at = "joined" /\ ~InFlight(site[s].epoch)
  /\ IF key = site[s].epoch THEN Current(s) ELSE Rest(s)
  /\ UNCHANGED <<server, local, marks, own, disposed>>

\* The pin advances first, forward only.
Advanced(epoch) == pin' = IF pin <= epoch THEN epoch ELSE pin

AdoptPin(s) ==
  /\ site[s].at = "read" /\ ~disposed
  /\ Behind(site[s].epoch) /\ ~OwnsKey /\ ~InFlight(site[s].epoch)
  /\ Advanced(site[s].epoch)
  /\ Goes(s, "pinned")
  /\ UNCHANGED <<server, key, record, cipher, marks, own, disposed>>

\* Mutant of StandsDown: only the teardown is looked at.
StandsDownDisposed(s) == disposed
StandsDown(s) ==
  \/ ~PinStands(site[s].epoch)
  \/ ~Behind(site[s].epoch)
  \/ disposed

AdoptStandsDown(s) ==
  /\ site[s].at \in {"pinned", "recorded"}
  /\ StandsDown(s)
  /\ IF key = site[s].epoch /\ ~disposed THEN Current(s) ELSE Rest(s)
  /\ UNCHANGED <<server, local, marks, own, disposed>>

\* The client-key record's write is issued here and lands, or fails, later.
AdoptWrites(s) ==
  /\ site[s].at = "pinned"
  /\ ~StandsDown(s)
  /\ Goes(s, IF Remembered THEN "writing" ELSE "recorded")
  /\ UNCHANGED <<server, local, marks, own, disposed>>

AdoptRecords(s) ==
  /\ site[s].at = "writing"
  /\ record' \in {site[s].epoch, record}
  /\ Goes(s, "recorded")
  /\ UNCHANGED <<server, key, pin, cipher, marks, own, disposed>>

\* What a cipher rebuild makes of the collections as they stand: a collection
\* that names no key the session holds refuses.
Rebuilt(k) == [c \in Collections |-> IF current[c] < k THEN None ELSE current[c]]

AdoptMoves(s) ==
  /\ site[s].at = "recorded"
  /\ ~StandsDown(s)
  /\ key' = site[s].epoch
  /\ cipher' = Rebuilt(site[s].epoch)
  /\ IF s \in SealSites THEN Goes(s, "current") ELSE Rest(s)
  /\ UNCHANGED <<server, pin, record, marks, own, disposed>>

\* repairStaleUnlockRegistrySeal: the key is taken when the repair starts, and
\* the registry is read, opened with an older generation and re-sealed later.
RepairStarts(s) ==
  /\ site[s].at = "current"
  /\ IF disposed THEN Rest(s)
     ELSE site' = [site EXCEPT ![s] = [at |-> "repair", epoch |-> key]]
  /\ UNCHANGED <<server, local, marks, own, disposed>>

Repairable(k) == sealed < k

Repair(s) ==
  /\ site[s].at = "repair"
  /\ sealed' \in {sealed} \cup {k \in {site[s].epoch} : Repairable(k)}
  /\ Rest(s)
  /\ UNCHANGED <<roster, current, local, marks, own, disposed>>

(***************************************************************************)
(* A rotating ceremony of the session's own.                               *)
(***************************************************************************)
Does(o, at) == own' = [own EXCEPT ![o].at = at]
Ends(o) == own' = [own EXCEPT ![o] = IdleOwn]

\* withOwnUserKeyRotation marks, then waits for the adoptions in flight.
OwnMarks(o) ==
  /\ own[o].at = "idle" /\ ~disposed
  /\ marks' = marks \cup {o}
  /\ own' = [own EXCEPT ![o].at = "join", ![o].waits = {s \in Sites : Adopting(s)}]
  /\ UNCHANGED <<server, local, site, disposed>>

\* Mutant of Joined: nobody is waited for.
JoinedAtOnce(o) == TRUE
Joined(o) == \A s \in own[o].waits : ~Adopting(s)

OwnJoins(o) ==
  /\ own[o].at = "join" /\ Joined(o)
  /\ own' = [own EXCEPT ![o].at = "rotate", ![o].waits = {}]
  /\ UNCHANGED <<server, local, marks, site, disposed>>

\* The ceremony's roster append: a compare-and-swap on the epoch it read.
OwnRotates(o) ==
  /\ own[o].at = "rotate" /\ roster < MaxEpoch
  /\ roster' = roster + 1
  /\ own' = [own EXCEPT ![o].at = "reseal", ![o].epoch = roster + 1]
  /\ UNCHANGED <<sealed, current, local, marks, site, disposed>>

\* A re-seal opens the registry with the session's key, or reports that it
\* did not.
OwnReseals(o) ==
  /\ own[o].at = "reseal"
  /\ \/ sealed = key /\ sealed' = own[o].epoch
        /\ own' = [own EXCEPT ![o].at = "pin", ![o].resealed = TRUE]
     \/ sealed' = sealed
        /\ own' = [own EXCEPT ![o].at = "pin", ![o].resealed = FALSE]
  /\ UNCHANGED <<roster, current, local, marks, site, disposed>>

OwnPins(o) ==
  /\ own[o].at = "pin"
  /\ Advanced(own[o].epoch)
  /\ Does(o, "record")
  /\ UNCHANGED <<server, key, record, cipher, marks, site, disposed>>

OwnRecords(o) ==
  /\ own[o].at = "record"
  /\ record' = IF Remembered THEN own[o].epoch ELSE record
  /\ Does(o, "hold")
  /\ UNCHANGED <<server, key, pin, cipher, marks, site, disposed>>

\* The session moves in band only with the registry.
OwnHolds(o) ==
  /\ own[o].at = "hold"
  /\ key' = IF own[o].resealed THEN own[o].epoch ELSE key
  /\ Does(o, "fanOut")
  /\ UNCHANGED <<server, pin, record, cipher, marks, site, disposed>>

OwnFansOut(o, c) ==
  /\ own[o].at = "fanOut" /\ current[c] < own[o].epoch
  /\ current' = [current EXCEPT ![c] = own[o].epoch]
  /\ UNCHANGED <<roster, sealed, local, marks, site, own, disposed>>

\* The fan-out ends with what it reached.  The mark goes with the ceremony's
\* body, which holds the closing adoption or does not.
OwnFannedOut(o) ==
  /\ own[o].at = "fanOut"
  /\ marks' = IF HeldAdoption THEN marks ELSE marks \ {o}
  /\ Does(o, "adopt")
  /\ UNCHANGED <<server, local, site, disposed>>

\* adoptRotatedUserKey: the re-seal again when the session is not on the key.
OwnAdopts(o) ==
  /\ own[o].at = "adopt"
  /\ sealed' \in {sealed} \cup
       {k \in {own[o].epoch} : key # own[o].epoch /\ sealed = key}
  /\ Does(o, "swap")
  /\ UNCHANGED <<roster, current, local, marks, site, disposed>>

\* swapSessionVaultKeys: the key moves, and the ciphers too unless a collection
\* the fan-out did not reach makes the rebuild throw.
OwnSwaps(o) ==
  /\ own[o].at = "swap"
  /\ key' = own[o].epoch
  /\ cipher' \in {cipher} \cup
       {Rebuilt(k) : k \in {n \in {own[o].epoch} : \A c \in Collections : current[c] >= n}}
  /\ marks' = marks \ {o}
  /\ Ends(o)
  /\ UNCHANGED <<server, pin, record, site, disposed>>

\* A call fails: the ceremony throws, and the mark is cleared however it ends.
OwnThrows(o) ==
  /\ own[o].at \in {"rotate", "record", "fanOut"}
  /\ marks' = marks \ {o}
  /\ Ends(o)
  /\ UNCHANGED <<server, local, site, disposed>>

\* disposeSession, at any await.
Dispose ==
  /\ ~disposed
  /\ disposed' = TRUE
  /\ UNCHANGED <<server, local, marks, site, own>>

Follow(s) ==
  \/ ReadRoster(s) \/ AdoptNothing(s) \/ AdoptJoins(s) \/ JoinReturns(s)
  \/ AdoptPin(s) \/ AdoptStandsDown(s) \/ AdoptWrites(s) \/ AdoptRecords(s)
  \/ AdoptMoves(s)
  \/ RepairStarts(s) \/ Repair(s)

Rotate(o) ==
  \/ OwnMarks(o) \/ OwnJoins(o) \/ OwnRotates(o) \/ OwnReseals(o)
  \/ OwnPins(o) \/ OwnRecords(o) \/ OwnHolds(o) \/ OwnFannedOut(o)
  \/ OwnAdopts(o) \/ OwnSwaps(o) \/ OwnThrows(o)
  \/ \E c \in Collections : OwnFansOut(o, c)

Others == OtherRotates \/ OtherReseals \/ \E c \in Collections : OtherFansOut(c)

Next ==
  \/ Others
  \/ Dispose
  \/ \E s \in Sites : Follow(s)
  \/ \E o \in Ceremonies : Rotate(o)

Spec == Init /\ [][Next]_vars

\* An encounter's and a ceremony's calls all return or fail.
FairSpec ==
  /\ Spec
  /\ \A s \in Sites : WF_vars(Follow(s))
  /\ \A o \in Ceremonies : WF_vars(Rotate(o) /\ own[o].at # "idle")

(***************************************************************************)
(* Properties.                                                             *)
(***************************************************************************)
\* While a rotating ceremony of the session runs, no follower adoption is in
\* flight: it waited out those it found and the mark keeps others from
\* starting (withOwnUserKeyRotation).
RotatesAlone ==
  \A o \in Ceremonies, s \in Sites :
    o \in marks /\ own[o].at # "join" => ~Adopting(s)

\* Nothing goes back to an older generation, whoever rotates and in whatever
\* order adoptions, repairs and ceremonies end: not the key the session is on,
\* not the one in the browser's client-key record, and not the registry's
\* seal, whose older generations a revoked party may hold.
KeysForward ==
  [][key' >= key /\ record' >= record /\ sealed' >= sealed]_vars

\* A session never seals a collection's writes under an epoch older than a
\* key it followed another client onto: what the rebuild cannot place refuses.
SealsForward ==
  [][\A s \in Sites :
       site[s].at = "recorded" /\ site'[s] # site[s] /\ key' # key
         => \A c \in Collections : cipher'[c] = None \/ cipher'[c] >= key']_vars

\* No live cipher, sealed registry or client-key record goes back to an older
\* key, though each write goes by a roster read that may be old by the time it
\* lands.
NothingGoesBack == KeysForward /\ SealsForward

\* Whatever way a ceremony ends, follower adoptions are possible again.
MarkIsCleared == \A o \in Ceremonies : o \in marks ~> o \notin marks
====
