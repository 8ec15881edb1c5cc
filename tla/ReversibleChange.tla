--------------------------- MODULE ReversibleChange ---------------------------
(***************************************************************************)
(* What the bridge's write tool promises its host, seen from outside: a    *)
(* change is ONE atomic step on one device's setting, whose answer carries *)
(* the value the setting had just before that step (the rollback) and says *)
(* whether the device holds what was asked for at the time of the answer;  *)
(* a dry run changes nothing; an error says nothing of a way back          *)
(* (mcp.py:111-117, writelist.py:37-48 and 165-169, tools.py:168-171).     *)
(***************************************************************************)

CONSTANTS
    Calls,    \* the calls that may be made
    Devices,
    Values,   \* the lifetimes a setting may have
    Unset,    \* no lifetime, or no rollback
    Nothing,  \* a call that has not attempted a change
    Volatile  \* TRUE if the settings are the bridge's own and end with it

VARIABLES
    setting,  \* each device's setting
    stage,    \* how far each call is
    change,   \* the device and value of each call's attempted change
    undo,     \* each call's rollback
    verdict   \* 'validated' of each call's answer

vars == <<setting, stage, change, undo, verdict>>

Change == [device : Devices, value : Values]
Open   == {"waiting", "attempted"}
Closed == {"declined", "previewed", "reported", "failed", "lost"}

Init ==
    /\ setting \in [Devices -> Values \cup {Unset}]
    /\ stage = [c \in Calls |-> "waiting"]
    /\ change = [c \in Calls |-> Nothing]
    /\ undo = [c \in Calls |-> Unset]
    /\ verdict = [c \in Calls |-> FALSE]

\* The request is turned down, or the device cannot be read.
Decline(c) ==
    /\ stage[c] = "waiting"
    /\ stage' = [stage EXCEPT ![c] = "declined"]
    /\ UNCHANGED <<setting, change, undo, verdict>>

\* A dry run: the rollback is what some device holds now, and nothing changes.
Preview(c) ==
    /\ stage[c] = "waiting"
    /\ stage' = [stage EXCEPT ![c] = "previewed"]
    /\ \E d \in Devices : undo' = [undo EXCEPT ![c] = setting[d]]
    /\ UNCHANGED <<setting, change, verdict>>

\* Read, remember and write in one step; the device may ignore the write.
Attempt(c) ==
    /\ stage[c] = "waiting"
    /\ stage' = [stage EXCEPT ![c] = "attempted"]
    /\ \E w \in Change :
          /\ change' = [change EXCEPT ![c] = w]
          /\ undo' = [undo EXCEPT ![c] = setting[w.device]]
          /\ setting' \in {setting, [setting EXCEPT ![w.device] = w.value]}
    /\ UNCHANGED verdict

\* The answer, with the rollback of the attempt and a verdict that is true.
Report(c) ==
    /\ stage[c] = "attempted"
    /\ stage' = [stage EXCEPT ![c] = "reported"]
    /\ verdict' = [verdict EXCEPT ![c] = setting[change[c].device] = change[c].value]
    /\ UNCHANGED <<setting, change, undo>>

\* The attempt, whatever became of it, is answered with an error.
Fail(c) ==
    /\ stage[c] \in Open
    /\ stage' = [stage EXCEPT ![c] = "failed"]
    /\ change' = [change EXCEPT ![c] = Nothing]
    /\ undo' = [undo EXCEPT ![c] = Unset]
    /\ UNCHANGED <<setting, verdict>>

\* The bridge dies with some calls open; none of them is answered.  Settings
\* it kept itself are whatever its next process starts with.
Lose ==
    \E S \in SUBSET {c \in Calls : stage[c] \in Open} :
        /\ stage' = [c \in Calls |-> IF c \in S THEN "lost" ELSE stage[c]]
        /\ change' = [c \in Calls |-> IF c \in S THEN Nothing ELSE change[c]]
        /\ undo' = [c \in Calls |-> IF c \in S THEN Unset ELSE undo[c]]
        /\ setting' \in IF Volatile THEN [Devices -> Values \cup {Unset}] ELSE {setting}
        /\ UNCHANGED verdict

Next ==
    \/ \E c \in Calls : Decline(c) \/ Preview(c) \/ Attempt(c) \/ Report(c) \/ Fail(c)
    \/ Lose

Spec == Init /\ [][Next]_vars
=============================================================================
