----------------------------- MODULE Remediation -----------------------------
(***************************************************************************)
(* A host at work with the bridge's write tool, as the bridge asks it to:  *)
(* "Always plan a rollback; prefer dry_run first." (tools.py:168-171),     *)
(* behind an approval of its own (mcp.py:114-115), and in Mode 5 send the  *)
(* plan's rollback_request when a change is not validated (writelist.py:   *)
(* 45-48, mcp.py:164), with the target and the dry_run = FALSE that such a *)
(* request lacks.  The host is not part of this repository: one host, one  *)
(* change, one call after the other, over ApplyChange's bridge and device. *)
(*                                                                         *)
(* A call may be refused, fail, be lost with the bridge, or take longer    *)
(* than the host waits for; then its handler runs on, and its answer is    *)
(* not read.  The host retries, undoes, or hands over to an engineer.      *)
(***************************************************************************)
EXTENDS ApplyChange

CONSTANTS
    Goal,      \* the change to make
    MaxTurns   \* bound on the host's calls

ASSUME RemediationAssumption ==
    /\ MaxTurns \in Nat \ {0}
    /\ Call = 1 .. MaxTurns
    /\ Goal \in Requests
    /\ Admitted(Goal) /\ ~Goal.dry_run

VARIABLES
    host,       \* what the host is doing
    turn,       \* its last call
    impatient,  \* whether it has stopped waiting for that call
    kept,       \* the rollback of the plan it had approved
    original    \* the target's configuration when it began

hostvars == <<host, turn, impatient, kept, original>>
allvars  == <<vars, hostvars>>

Settled == {"declined", "fixed", "restored", "stuck"}
Waiting == {"planning", "applying", "undoing"}

\* What the host knows of its last call.
Outcome ==
    IF impatient THEN "lost"
    ELSE IF pc[turn] = "done" THEN reply[turn].status ELSE "none"

Unknown  == Outcome \in {"refused", "failed", "lost"}
Took     == Outcome = "applied" /\ reply[turn].validated
NotTaken == Outcome = "applied" /\ ~reply[turn].validated
-----------------------------------------------------------------------------
HostInit ==
    /\ Init
    /\ host = "idle"
    /\ turn = 0
    /\ impatient = FALSE
    /\ kept = Unset
    /\ original = running[Goal.target]

\* The next call, with arguments r.
Send(r) ==
    /\ turn < MaxTurns
    /\ turn' = turn + 1
    /\ impatient' = FALSE
    /\ Submit(turn + 1) /\ req'[turn + 1] = r

Plan ==
    /\ \/ host = "idle"
       \/ host = "planning" /\ Unknown
    /\ Send([Goal EXCEPT !.dry_run = TRUE])
    /\ host' = "planning"
    /\ UNCHANGED <<kept, original>>

Planned ==
    /\ host = "planning" /\ Outcome = "planned"
    /\ kept' = reply[turn].rollback
    /\ host' = "approval"
    /\ UNCHANGED <<vars, turn, impatient, original>>

\* Only a change whose way back is known is approved.
Approve ==
    /\ host = "approval" /\ kept # Unset
    /\ Send(Goal)
    /\ host' = "applying"
    /\ UNCHANGED <<kept, original>>

Decline ==
    /\ \/ host = "approval"
       \/ host = "planning" /\ Unknown
    /\ host' = "declined"
    /\ UNCHANGED <<vars, turn, impatient, kept, original>>

\* The retry's own before-state may already be the new one: the way back stays
\* that of the first plan.
Retry ==
    /\ host = "applying" /\ Unknown
    /\ Send(Goal)
    /\ UNCHANGED <<host, kept, original>>

\* The rollback_request of the plan it kept, addressed to the target again.
Undo ==
    /\ host \in {"applying", "undoing"}
    /\ Unknown \/ NotTaken
    /\ Send([Goal EXCEPT !.seconds = kept])
    /\ host' = "undoing"
    /\ UNCHANGED <<kept, original>>

\* The change took, or its undoing did, or the host has no call left and an
\* engineer takes over.
Conclude ==
    /\ \/ host = "applying" /\ Took /\ host' = "fixed"
       \/ host = "undoing" /\ Took /\ host' = "restored"
       \/ /\ host \in {"applying", "undoing"}
          /\ Unknown \/ NotTaken
          /\ turn = MaxTurns
          /\ host' = "stuck"
    /\ UNCHANGED <<vars, turn, impatient, kept, original>>

\* The host stops waiting for a call the bridge is at work on.
GiveUp ==
    /\ host \in Waiting
    /\ pc[turn] \in Inside
    /\ impatient' = TRUE
    /\ UNCHANGED <<vars, host, turn, kept, original>>

HostStep == Plan \/ Planned \/ Approve \/ Decline \/ Retry \/ Undo \/ Conclude

Around ==
    /\ \/ \E c \in Call : Handle(c)
       \/ Reload(Goal.target)
       \/ Restart
    /\ UNCHANGED hostvars

HostNext == HostStep \/ GiveUp \/ Around

\* The bridge's fairness, and a host that does what it has decided to do, once
\* it has begun.
HostSpec ==
    /\ HostInit
    /\ [][HostNext]_allvars
    /\ \A c \in Call : WF_allvars(Handle(c) /\ UNCHANGED hostvars)
    /\ WF_allvars(host # "idle" /\ HostStep)
-----------------------------------------------------------------------------
\* Until the change is approved, planning it has left no trace on the device,
\* however often it was retried or lost (tools.py:60-62, mcp.py:157).
UntouchedUntilApproved ==
    host \in {"idle", "planning", "approval", "declined"} =>
        running[Goal.target] = original /\ startup[Goal.target] = original

\* The way back the host keeps is the one to where it began.
KeptIsOriginal == kept # Unset => kept = lifetime_match(original)

\* A change the host has seen validated is on the device, saved, and stays:
\* no earlier call of its own, given up or retried, is still under way to
\* overwrite it, and no reload takes it back (mcp.py:161-176).
FixedIsDurable ==
    host = "fixed" =>
        /\ running[Goal.target][profile_name(Goal.profile)] = Goal.seconds
        /\ startup[Goal.target] = running[Goal.target]

\* A remediation undone has left the device as it was found, running and
\* saved: the rollback_request "restores the prior state" (writelist.py:45-48)
\* whatever came before it - failures, retries, a reload, a dead bridge,
\* calls the host had stopped waiting for.
RestoredIsOriginal ==
    host = "restored" =>
        running[Goal.target] = original /\ startup[Goal.target] = original

\* The host makes its calls one after the other, and does not begin one before
\* the bridge has taken up the one before: an earlier call is inside the
\* handler only in front of the last one.
OneAfterTheOther ==
    /\ turn \in 0 .. MaxTurns
    /\ turn = 0 <=> host = "idle"
    /\ \A c \in Call :
          /\ c > turn <=> pc[c] = "idle"
          /\ c < turn => pc[c] # "queued"
          /\ c < turn /\ pc[c] \in Inside => pc[turn] = "queued"
    /\ impatient => turn # 0 /\ pc[turn] \in Inside \cup {"done"}
    /\ host \in {"approval", "fixed", "restored"} => pc[turn] = "done"

\* What the host has asked for so far, last of all.
AskedFor ==
    /\ host \in {"idle", "planning", "approval", "declined"} =>
          \A c \in Call : pc[c] # "idle" => req[c].dry_run /\ req[c].target = Goal.target
    /\ host \in {"applying", "fixed"} => req[turn] = Goal
    /\ host \in {"undoing", "restored"} => req[turn] = [Goal EXCEPT !.seconds = kept]

\* The last plan is one of the original configuration.
PlannedIsOriginal ==
    host \in {"planning", "approval"} /\ pc[turn] = "done" /\ reply[turn].status = "planned" =>
        reply[turn].rollback = lifetime_match(original)

\* A last call answered 'validated' is on its device, and saved.
TookIsDurable ==
    turn # 0 /\ pc[turn] = "done" /\ reply[turn].validated =>
        /\ Current(turn)[profile_name(req[turn].profile)] = req[turn].seconds
        /\ startup[Target(turn)] = Current(turn)

\* What the host has concluded, it has seen.
ConcludedRightly ==
    /\ host \in {"fixed", "restored"} => reply[turn].validated
    /\ host \in {"applying", "undoing", "fixed", "restored"} => kept # Unset

\* The invariants of one host and the bridge that are inductive together.
HostIInv ==
    /\ IInv
    /\ host \in {"idle", "approval"} \cup Waiting \cup Settled
    /\ original \in Text
    /\ edits = 0
    /\ OneAfterTheOther
    /\ AskedFor
    /\ UntouchedUntilApproved
    /\ PlannedIsOriginal
    /\ KeptIsOriginal
    /\ TookIsDurable
    /\ ConcludedRightly

\* A remediation that has begun comes to an end.
RemediationSettles == host # "idle" ~> host \in Settled
=============================================================================
