------------------------------ MODULE MCFixture ------------------------------
(***************************************************************************)
(* Values of Fixture's constants for TLC: one device with a configuration  *)
(* fixture and one without, and commands put together from heads, subjects *)
(* and tails, so that every check of the allowlist and every rule of the   *)
(* routing table decides some of them.                                     *)
(***************************************************************************)
EXTENDS Fixture, TLC

CONSTANTS c1, c2, fw1, fw2

TwoCalls      == {c1, c2}
TwoDevices    == {fw1, fw2}
HeldLifetimes == {3600, 28800}

CallSymmetry == Permutations(TwoCalls)

OneFixture == fw1 :> <<3600>>

Change(d, s) == [target |-> d, change_type |-> "ipsec_phase2_lifetime",
                 profile |-> 1, seconds |-> s, dry_run |-> FALSE]
DemoChanges ==
    LET good == {Change(fw1, 3600), Change(fw1, 28800)}
    IN  good \cup {[r EXCEPT !.dry_run = TRUE] : r \in good}
             \cup {Change(fw2, 3600), Change(BadEntry, 3600), [Change(fw1, 3600) EXCEPT !.seconds = 119],
                   [Change(fw1, 3600) EXCEPT !.seconds = Infinity]}

Pieces    == STRING
UpperCase == ("Show" :> "show") @@ ("RELOAD" :> "reload") @@ ("Include" :> "include")

Heads    == {<<>>, <<"show">>, <<"Show">>, <<" ", "\t", "display">>, <<"show", "run">>, <<"reload">>}
Subjects == {<<>>, <<" ">>,
             <<" ", "crypto", "\n", " ", "ipsec", " ", "sa">>,
             <<" ", "running-config">>,
             <<" ", "logging", ";">>,
             <<" ", "in", "format", "ion">>,
             <<"\t", "config", "\t", "t">>,
             <<" ", "bgp", " ", "neighbor", "s">>}
Tails    == {<<>>, <<" ", "\n">>, <<"|">>,
             <<" ", "|", " ", "Include", " ", "ike">>,
             <<"|", "include", "\n", "ipsec", "|", " ", "count">>,
             <<" ", "|", "\t", "tee", " ", "x">>,
             <<"|", " ", "save", " ", "x">>,
             <<" ", "|", " ", "include", " ", "RELOAD">>,
             <<" ", "|", " ", "include", "s", " ", "x">>,
             <<" ", "|", " ", "|", " ", "include", " ", "x">>}

AskedCommands == {h \o s : h \in Heads, s \in Subjects}
                 \cup {<<"show", " ", "run">> \o t \o u : t \in Tails, u \in Tails}

AskedOids ==
    {<<>>, <<<<1, 3, 6, 1, 2, 1>>>>, <<<<1, 3, 6, 1, 2, 1, 1, 3>>, <<1, 3, 6, 1, 4, 1>>>>,
     <<<<1, 3, 6, 1, 2, 10>>>>, [i \in 1 .. 64 |-> <<1, 3, 6, 1, 2, 1, i>>],
     [i \in 1 .. 65 |-> <<1, 3, 6, 1, 2, 1, i>>]}
=============================================================================
