---------------------------- MODULE MCRemediation ----------------------------
(***************************************************************************)
(* Values of Remediation's constants for TLC: the fix of the shipped       *)
(* scenario, on a device that holds the other side's lifetime, the right   *)
(* one, none at all, or one nobody may write.                              *)
(***************************************************************************)
EXTENDS Remediation

CONSTANT fw1

OneDevice     == {fw1}
HeldLifetimes == {3600, 28800, 2592000}
Turns         == 1 .. MaxTurns

Fix == [target |-> fw1, change_type |-> "ipsec_phase2_lifetime",
        profile |-> 1, seconds |-> 28800, dry_run |-> FALSE]
HostRequests == {[Fix EXCEPT !.dry_run = TRUE]} \cup {[Fix EXCEPT !.seconds = s] : s \in HeldLifetimes}

OneProfileTexts == {[p \in {1} |-> v] : v \in {Absent, Unset} \cup HeldLifetimes}
=============================================================================
