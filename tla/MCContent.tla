---- MODULE MCContent ----
(***************************************************************************)
(* An instance of AccountImport: a credential and its Create, a contact    *)
(* with a revision, a revision whose head the bundle does not carry; and   *)
(* an app collection of a note and a photo stored in chunks.               *)
(***************************************************************************)
EXTENDS AccountImport, TLC

CONSTANTS vc, created, ann, annEdit, bob, bobEdit, t1, t2, note, photo

SmallBundle == <<vc, ann, annEdit, bobEdit, created>>
Kinds == (vc :> "credential") @@ (created :> "created") @@ (ann :> "contact")
         @@ (annEdit :> "revision") @@ (bob :> "contact") @@ (bobEdit :> "revision")
Subjects == (created :> vc) @@ (annEdit :> ann) @@ (bobEdit :> bob)

SmallArchive == <<note, photo>>
====
