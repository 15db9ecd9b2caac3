----------------------------- MODULE MCOnboarding -----------------------------
(***************************************************************************)
(* Small instances of Onboarding: two people of the same display name and  *)
(* address prefix, hence the same tenant name, and the demo tenant, which  *)
(* is there from the start.                                                *)
(***************************************************************************)
EXTENDS Onboarding, TLC

CONSTANTS kimA, kimB, mailA, mailB, kims, demo, s1, s2, s3

MCProfiles == {kimA, kimB}
MCEmailOf == kimA :> mailA @@ kimB :> mailB
MCNameOf == kimA :> kims @@ kimB :> kims
MCRegistered == << [name |-> demo, slug |-> s1] >>
===============================================================================
