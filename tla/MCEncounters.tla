---- MODULE MCEncounters ----
(***************************************************************************)
(* An instance of EncounterRunner: the remembered login's block with its   *)
(* seed, a registry writer and a tail, and three calls over a repair that  *)
(* waits for the inbox pass, one that does not, and one refused.           *)
(***************************************************************************)
EXTENDS EncounterRunner

CONSTANTS c1, c2, c3, seed, sweep, annex, stranded, notices, settings

RememberedBlock == <<seed, sweep, annex>>
====
