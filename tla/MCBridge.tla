------------------------------ MODULE MCBridge ------------------------------
(***************************************************************************)
(* Values of Bridge's constants for TLC: three targets, an inventory that  *)
(* knows fw1 as a device and prom as an endpoint, one that knows another   *)
(* device and whose endpoints are no object, and one the other way round.  *)
(***************************************************************************)
EXTENDS Bridge, TLC

CONSTANTS c1, c2, c3, fw1, fw2, prom

TwoCalls     == {c1, c2}
ThreeCalls   == {c1, c2, c3}
ThreeTargets == {fw1, fw2, prom}

ThreeCallSymmetry == Permutations(ThreeCalls)

Knows(device, kind) ==
    [devices      |-> {device},
     devices_ok   |-> TRUE,
     endpoints    |-> [t \in ThreeTargets |-> IF t = prom THEN kind ELSE "none"],
     endpoints_ok |-> TRUE]
NoEndpoints == [Knows(fw2, "loki") EXCEPT !.endpoints_ok = FALSE]
NoDevices   == [Knows(fw2, "loki") EXCEPT !.devices_ok = FALSE]

TwoFiles   == {Knows(fw1, "prometheus"), NoEndpoints}
ThreeFiles == TwoFiles \cup {NoDevices}

Read(name, target) ==
    [authorized |-> TRUE, body |-> "object", method |-> "tools/call",
     name |-> name, target |-> target, valid |-> TRUE, allowed |-> TRUE, oids |-> 1]

Reads == {Read("ssh_show", fw1), Read("snmp_walk", fw2), Read("logs_query", prom)}
GetTwo == [Read("snmp_get", fw1) EXCEPT !.oids = 2]

\* One request for each way not to reach a device or an endpoint.
OddRequests ==
    LET r == Read("ssh_show", fw1)
    IN  {[r EXCEPT !.authorized = FALSE],
         [r EXCEPT !.body = "no_json"],
         [r EXCEPT !.body = "not_object"],
         [r EXCEPT !.method = "tools/list"],
         [r EXCEPT !.method = "other"],
         [r EXCEPT !.name = "unknown"],
         [r EXCEPT !.name = "unhashable"],
         [r EXCEPT !.valid = FALSE],
         [r EXCEPT !.allowed = FALSE],
         GetTwo,
         Read("prometheus_query", prom)}

ToolRequests == {r \in Reads \cup OddRequests :
                    r.authorized /\ r.body = "object" /\ r.method = "tools/call"}
AllRequests  == Reads \cup OddRequests
=============================================================================
