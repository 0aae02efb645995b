---- MODULE ConnectionEntry ----
(***************************************************************************)
(* One entry of the account's `connections` directory, and the helpers     *)
(* that change it.                                                         *)
(*                                                                         *)
(* The helpers belong to the wallet-core library, which is not part of     *)
(* this repository.  They are modelled from how storageManager.ts,         *)
(* respond.ts, connectedApps.ts, inboxPass.ts and agentReconnect.ts use    *)
(* them, and from what those callers rely on.  Each helper is one read,    *)
(* one change and one compare-and-swap put, retried on a conflict, so a    *)
(* helper is one atomic change of one entry.                               *)
(*                                                                         *)
(* An entry is kept as                                                     *)
(*   state    "absent" (no Resource), "live", or "retired"                 *)
(*   grants   the capability ids it records                                *)
(*   seed     the pairwise seed toward an agent, named by the session that *)
(*            minted it, or NoSeed                                         *)
(*   channel  the channels back to the agent (`grantsReceived`)            *)
(*   outbox   the queued envelopes, each the set of grants it carries      *)
(*   declined whether the owner declined to restore the agent              *)
(***************************************************************************)

CONSTANT NoSeed

AbsentEntry ==
  [state |-> "absent", grants |-> {}, seed |-> NoSeed,
   channel |-> {}, outbox |-> {}, declined |-> FALSE]

IsListed(e) == e.state = "live"

\* Mutant of SeedAgrees: the merge overwrites whatever seed it finds.
AnySeed(e, seed) == TRUE

\* recordGrants refuses an entry that carries a different seed.
SeedAgrees(e, seed) == seed = NoSeed \/ e.seed \in {NoSeed, seed}

\* recordGrants: merge by capability id, un-retire, clear the decline marker,
\* and store the seed when the consent brings one.
RecordGrants(e, G, seed) ==
  [e EXCEPT !.state = "live",
            !.grants = @ \cup G,
            !.seed = IF seed = NoSeed THEN @ ELSE seed,
            !.declined = FALSE]

\* removeGrants: drop grants by capability id; an absent entry stays absent.
RemoveGrants(e, G) == [e EXCEPT !.grants = @ \ G]

\* retireConnection refuses an entry holding a grant the caller did not handle.
MayRetire(e, handled) == e.grants \subseteq handled

\* Mutant of RetireConnection: the marker alone, the authority left in place.
RetireMarkerOnly(e) ==
  IF e.state = "absent" THEN e ELSE [e EXCEPT !.state = "retired"]

\* retireConnection: empty the authority, keep the seed and the decline marker.
\* An absent entry writes nothing.
RetireConnection(e) ==
  IF e.state = "absent" THEN e
  ELSE [e EXCEPT !.state = "retired", !.grants = {},
                 !.channel = {}, !.outbox = {}]

\* clearReceivedGrants: the first write of an agent revoke.
ClearReceivedGrants(e) == [e EXCEPT !.channel = {}, !.outbox = {}]
====
