---------------------------- MODULE MCApplyChange ----------------------------
(***************************************************************************)
(* Values of ApplyChange's constants for TLC.  The lifetimes are those of  *)
(* the shipped scenario (3600 and 28800 seconds), and 2592000, which a     *)
(* device may hold and the writelist does not let anybody write.           *)
(***************************************************************************)
EXTENDS ApplyChange, TLC

CONSTANTS c1, c2, c3, fw1, fw2

OneDevice     == {fw1}
TwoDevices    == {fw1, fw2}
TwoCalls      == {c1, c2}
ThreeCalls    == {c1, c2, c3}
HeldLifetimes == {3600, 28800, 2592000}

TwoCallSymmetry   == Permutations(TwoCalls)
ThreeCallSymmetry == Permutations(ThreeCalls)

Change(p, s) == [target |-> fw1, change_type |-> "ipsec_phase2_lifetime",
                 profile |-> p, seconds |-> s, dry_run |-> FALSE]
DryRun(r) == [r EXCEPT !.dry_run = TRUE]

\* Requests every gate lets through.
GoodRequests(profiles, lifetimes) ==
    LET good == {Change(p, s) : p \in profiles, s \in lifetimes}
    IN  good \cup {DryRun(r) : r \in good}

\* One request for each gate that can turn a request down, and the two that
\* no except clause expects.
BadRequests ==
    LET r == Change(1, 3600)
    IN  {[r EXCEPT !.target = Missing],
         [r EXCEPT !.target = OffInventory],
         [r EXCEPT !.target = BadEntry],
         [r EXCEPT !.change_type = "reload_device"],
         [r EXCEPT !.profile = UnsafeName],
         [r EXCEPT !.seconds = NotANumber],
         [r EXCEPT !.seconds = 119],
         [r EXCEPT !.seconds = 2592000],
         [r EXCEPT !.seconds = Infinity]}

AnyLifetime == GoodRequests({1}, {3600, 28800})
Padded      == [Change(1, 3600) EXCEPT !.profile = PaddedName]
EveryGate   == GoodRequests({1, 2}, {3600}) \cup {Padded} \cup BadRequests
EveryDevice == EveryGate \cup {[Change(1, 28800) EXCEPT !.target = fw2]}
TwoProfiles == {Change(1, 3600), Change(2, 3600)}

\* The device has no IPsec profile, one without a lifetime, or one with; two
\* profiles differ in their lifetime, or one has none.
OneProfileTexts == {[p \in {1} |-> v] : v \in {Absent, Unset, 3600, 2592000}}
TwoProfileTexts == {<<28800, 3600>>, <<28800, Unset>>, <<Unset, 3600>>}
=============================================================================
