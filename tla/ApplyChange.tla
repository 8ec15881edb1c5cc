----------------------------- MODULE ApplyChange -----------------------------
(***************************************************************************)
(* The write path of the bridge: mcp._handle_apply_change on a live source *)
(* (live.LiveSource), from the arrival of an apply_change call to its      *)
(* answer, against devices whose running and startup configuration it      *)
(* shares with everyone else.                                              *)
(*                                                                         *)
(* The handler is synchronous.  Behind service.mcp_endpoint it runs on the *)
(* event loop of one worker, so one call runs at a time (SingleLoop); as a *)
(* package (slimx_netops/__init__.py) it runs in whatever threads the host *)
(* calls it from, and several calls interleave (~SingleLoop).  Each SSH    *)
(* session, and each line of the configuration session, is a step.         *)
(***************************************************************************)
EXTENDS Writelist

CONSTANTS
    Call,             \* the apply_change calls that may be made
    NoCall,           \* nothing occupies the event loop
    Requests,         \* the arguments a call may carry
    NoRequest,        \* the arguments of a call not made yet
    SingleLoop,       \* TRUE as a service, FALSE as a package
    InitialTexts,     \* the configurations a device may start with
    MaxReloads,       \* bound on device reloads
    MaxConsoleEdits   \* bound on changes made from a device's own console

ASSUME ApplyChangeAssumption ==
    /\ NoCall \notin Call
    /\ Requests \subseteq Request
    /\ NoRequest \notin Requests
    /\ SingleLoop \in BOOLEAN
    /\ InitialTexts \subseteq Text
    /\ MaxReloads \in Nat
    /\ MaxConsoleEdits \in Nat

VARIABLES
    enable_write,  \* get_settings().enable_write, cached for the process
    loop,          \* the call running on the event loop, or NoCall
    pc,            \* what each call does next
    req,           \* each call's arguments
    before,        \* before_text of each call
    after,         \* the after-state each call has read
    reply,         \* what each call was answered
    running,       \* each device's running configuration
    startup,       \* each device's saved configuration
    strays,        \* the devices that took a line that is not of the change
    reloads,       \* device reloads so far
    edits          \* console edits so far

texts   == <<before, after>>
devices == <<running, startup, strays>>
bounds  == <<reloads, edits>>
vars    == <<enable_write, loop, pc, req, texts, reply, devices, bounds>>

Status == {"none",     \* not answered yet
           "refused",  \* isError, before anything was written
           "raised",   \* an exception left the handler
           "planned",  \* the envelope of a dry run
           "applied",  \* the envelope of a change, with 'validated'
           "failed",   \* isError "apply failed: ..."
           "lost"}     \* the bridge died with the call in flight

\* An answer: 'rollback' is the lifetime in its rollback_request, Unset when
\* rollback_known is false or the answer carries no plan.
Reply   == [status : Status, rollback : Lifetimes \cup {Unset}, validated : BOOLEAN]
NoReply == [status |-> "none", rollback |-> Unset, validated |-> FALSE]

PC == {"idle", "queued", "read_before", "enter", "set", "save", "broken",
       "read_after", "read_validate", "done"}

Blank == [p \in Profile |-> Absent]

\* The handler has passed its gates, and has not answered.
Inside == PC \ {"idle", "queued", "done"}
\* The configuration session is open: a reload of the device breaks it.
InSession == {"set", "save"}
\* The change is under way: something of it may be on the device.
Applying == {"enter", "set", "save", "broken", "read_after", "read_validate"}

Target(c) == req[c].target
Current(c) == running[Target(c)]
-----------------------------------------------------------------------------
Init ==
    /\ enable_write \in BOOLEAN
    /\ loop = NoCall
    /\ pc = [c \in Call |-> "idle"]
    /\ req = [c \in Call |-> NoRequest]
    /\ before = [c \in Call |-> Blank]
    /\ after = [c \in Call |-> Blank]
    /\ reply = [c \in Call |-> NoReply]
    /\ running \in [Device -> InitialTexts]
    /\ startup = running
    /\ strays = {}
    /\ reloads = 0
    /\ edits = 0

\* Mutant: the endpoint hands each call to a thread of its own.
LoopShared == TRUE

\* The event loop takes up a request only when no handler occupies it.
LoopFree == SingleLoop => loop = NoCall

GoTo(c, label) == pc' = [pc EXCEPT ![c] = label]

\* Mutant: an answer that does not give the event loop back.
AnswerKeepingLoop(c, status, rollback, validated) ==
    /\ GoTo(c, "done")
    /\ reply' = [reply EXCEPT ![c] = [status    |-> status,
                                      rollback  |-> rollback,
                                      validated |-> validated]]
    /\ UNCHANGED loop

\* The call is over, and gives the event loop back.
Answer(c, status, rollback, validated) ==
    /\ GoTo(c, "done")
    /\ reply' = [reply EXCEPT ![c] = [status    |-> status,
                                      rollback  |-> rollback,
                                      validated |-> validated]]
    /\ loop' = IF loop = c THEN NoCall ELSE loop

\* A tools/call for apply_change arrives.
Submit(c) ==
    /\ pc[c] = "idle"
    /\ \E r \in Requests : req' = [req EXCEPT ![c] = r]
    /\ GoTo(c, "queued")
    /\ UNCHANGED <<enable_write, loop, texts, reply, devices, bounds>>

\* Writes are off, or a layer turns the request down.
Refuse(c) ==
    /\ pc[c] = "queued"
    /\ LoopFree
    /\ enable_write => ~Admitted(req[c]) /\ ~Raises(req[c])
    /\ Answer(c, "refused", Unset, FALSE)
    /\ UNCHANGED <<enable_write, req, texts, devices, bounds>>

\* int() fails on the seconds or on the device's port, past every except clause.
Raise(c) ==
    /\ pc[c] = "queued"
    /\ LoopFree
    /\ enable_write
    /\ Raises(req[c])
    /\ Answer(c, "raised", Unset, FALSE)
    /\ UNCHANGED <<enable_write, req, texts, devices, bounds>>

\* Mutant: NETOPS_ENABLE_WRITE only hides the tool from tools/list.
AdmitThoughDisabled(c) ==
    /\ pc[c] = "queued"
    /\ LoopFree
    /\ Admitted(req[c])
    /\ GoTo(c, "read_before")
    /\ loop' = IF SingleLoop THEN c ELSE loop
    /\ UNCHANGED <<enable_write, req, texts, reply, devices, bounds>>

\* Every gate is passed; the handler goes on to read the before-state.
Admit(c) ==
    /\ pc[c] = "queued"
    /\ LoopFree
    /\ enable_write
    /\ Admitted(req[c])
    /\ GoTo(c, "read_before")
    /\ loop' = IF SingleLoop THEN c ELSE loop
    /\ UNCHANGED <<enable_write, req, texts, reply, devices, bounds>>

\* The before-state is read; a dry run ends with the plan built from it.
Preview(c) ==
    /\ pc[c] = "read_before"
    /\ req[c].dry_run
    /\ before' = [before EXCEPT ![c] = Current(c)]
    /\ Answer(c, "planned", lifetime_match(Current(c)), FALSE)
    /\ UNCHANGED <<enable_write, req, after, devices, bounds>>

\* Mutant: the before-state is the saved configuration.
ReadSavedBefore(c) ==
    /\ pc[c] = "read_before"
    /\ ~req[c].dry_run
    /\ before' = [before EXCEPT ![c] = startup[Target(c)]]
    /\ GoTo(c, "enter")
    /\ UNCHANGED <<enable_write, loop, req, after, reply, devices, bounds>>

\* Mutant: dry_run only changes the answer.
ReadBeforeAlways(c) ==
    /\ pc[c] = "read_before"
    /\ before' = [before EXCEPT ![c] = Current(c)]
    /\ GoTo(c, "enter")
    /\ UNCHANGED <<enable_write, loop, req, after, reply, devices, bounds>>

ReadBefore(c) ==
    /\ pc[c] = "read_before"
    /\ ~req[c].dry_run
    /\ before' = [before EXCEPT ![c] = Current(c)]
    /\ GoTo(c, "enter")
    /\ UNCHANGED <<enable_write, loop, req, after, reply, devices, bounds>>

\* No credentials, no connection, or no answer within the timeouts.
ReadBeforeFails(c) ==
    /\ pc[c] = "read_before"
    /\ Answer(c, "refused", Unset, FALSE)
    /\ UNCHANGED <<enable_write, req, texts, devices, bounds>>

\* The first line of apply_commands: the device makes the profile when it
\* has none of that name.
EnterProfile(c) ==
    /\ pc[c] = "enter"
    /\ req[c].profile \in Profile
    /\ running' = [running EXCEPT ![Target(c)][req[c].profile] =
                       IF @ = Absent THEN Unset ELSE @]
    /\ GoTo(c, "set")
    /\ UNCHANGED <<enable_write, loop, req, texts, reply, startup, strays, bounds>>

\* A line end inside that line makes two of it, the second one the name alone,
\* after which the lifetime has no profile to go to.  Of what a device makes of
\* such a line the model keeps only that it took one.
StrayLine(c) ==
    /\ pc[c] = "enter"
    /\ req[c].profile = PaddedName
    /\ strays' = strays \cup {Target(c)}
    /\ GoTo(c, "set")
    /\ UNCHANGED <<enable_write, loop, req, texts, reply, running, startup, bounds>>

\* The second line: the device takes the lifetime into its running
\* configuration ...
TakeLifetime(c) ==
    /\ pc[c] = "set"
    /\ req[c].profile \in Profile
    /\ req[c].seconds \in Lifetimes
    /\ Current(c)[req[c].profile] # Absent
    /\ running' = [running EXCEPT ![Target(c)][req[c].profile] = req[c].seconds]
    /\ GoTo(c, "save")
    /\ UNCHANGED <<enable_write, loop, req, texts, reply, startup, strays, bounds>>

\* ... or prints an error, which send_config_set does not look at.  The same
\* goes for the first line.
IgnoreLine(c) ==
    /\ \/ pc[c] = "enter" /\ GoTo(c, "set")
       \/ pc[c] = "set" /\ GoTo(c, "save")
    /\ UNCHANGED <<enable_write, loop, req, texts, reply, devices, bounds>>

\* Mutant: no save_config after send_config_set.
SkipSave(c) ==
    /\ pc[c] = "save"
    /\ GoTo(c, "read_after")
    /\ UNCHANGED <<enable_write, loop, req, texts, reply, devices, bounds>>

SaveConfig(c) ==
    /\ pc[c] = "save"
    /\ startup' = [startup EXCEPT ![Target(c)] = Current(c)]
    /\ GoTo(c, "read_after")
    /\ UNCHANGED <<enable_write, loop, req, texts, reply, running, strays, bounds>>

ReadAfter(c) ==
    /\ pc[c] = "read_after"
    /\ after' = [after EXCEPT ![c] = Current(c)]
    /\ GoTo(c, "read_validate")
    /\ UNCHANGED <<enable_write, loop, req, before, reply, devices, bounds>>

\* The validate read-back, judged, and the answer with the plan's way back.
ReadValidate(c) ==
    /\ pc[c] = "read_validate"
    /\ Answer(c, "applied", lifetime_match(before[c]),
              check_reflected(req[c], reads_text(Current(c), after[c])))
    /\ UNCHANGED <<enable_write, req, texts, devices, bounds>>

\* Mutant: a session the device has dropped is waited on for ever.
ApplyNeverTimesOut(c) ==
    /\ pc[c] \in Applying \ {"broken"}
    /\ Answer(c, "failed", Unset, FALSE)
    /\ UNCHANGED <<enable_write, req, texts, devices, bounds>>

\* A session cannot be opened, breaks or times out, at any point from the
\* configuration session to the last read-back: one except clause for all.
ApplyFails(c) ==
    /\ pc[c] \in Applying
    /\ Answer(c, "failed", Unset, FALSE)
    /\ UNCHANGED <<enable_write, req, texts, devices, bounds>>

Handle(c) ==
    \/ Refuse(c)
    \/ Raise(c)
    \/ Admit(c)
    \/ Preview(c)
    \/ ReadBefore(c)
    \/ ReadBeforeFails(c)
    \/ EnterProfile(c)
    \/ StrayLine(c)
    \/ TakeLifetime(c)
    \/ IgnoreLine(c)
    \/ SaveConfig(c)
    \/ ReadAfter(c)
    \/ ReadValidate(c)
    \/ ApplyFails(c)
-----------------------------------------------------------------------------
\* A device restarts from its saved configuration.
Reload(d) ==
    /\ reloads < MaxReloads
    /\ reloads' = reloads + 1
    /\ running' = [running EXCEPT ![d] = startup[d]]
    /\ pc' = [c \in Call |-> IF pc[c] \in InSession /\ Target(c) = d
                             THEN "broken" ELSE pc[c]]
    /\ UNCHANGED <<enable_write, loop, req, texts, reply, startup, strays, edits>>

\* An engineer changes one profile from the console, and saves.
ConsoleEdit(d) ==
    /\ edits < MaxConsoleEdits
    /\ edits' = edits + 1
    /\ \E p \in Profile, v \in Setting :
           running' = [running EXCEPT ![d][p] = v]
    /\ startup' = [startup EXCEPT ![d] = running'[d]]
    /\ UNCHANGED <<enable_write, loop, pc, req, texts, reply, strays, reloads>>

\* The bridge dies, and starts again with NETOPS_ENABLE_WRITE read anew.
Restart ==
    /\ enable_write' \in BOOLEAN
    /\ loop' = NoCall
    /\ pc' = [c \in Call |-> IF pc[c] = "idle" THEN "idle" ELSE "done"]
    /\ reply' = [c \in Call |-> IF pc[c] \in {"idle", "done"} THEN reply[c]
                                ELSE [NoReply EXCEPT !.status = "lost"]]
    /\ UNCHANGED <<req, texts, devices, bounds>>

Environment ==
    \/ \E c \in Call : Submit(c)
    \/ \E d \in Device : Reload(d) \/ ConsoleEdit(d)
    \/ Restart

Next == Environment \/ \E c \in Call : Handle(c)

\* A handler that can take a step takes it: every read and write of a session
\* has a timeout (conn_timeout, read_timeout), and the calls in front of a
\* queued one are finitely many and end.  Nobody has to call, restart, reload
\* or edit.
Fairness == \A c \in Call : WF_vars(Handle(c))

Spec == Init /\ [][Next]_vars /\ Fairness
-----------------------------------------------------------------------------
\* Every variable holds a value of its kind.
TypeOK ==
    /\ enable_write \in BOOLEAN
    /\ loop \in Call \cup {NoCall}
    /\ pc \in [Call -> PC]
    /\ req \in [Call -> Requests \cup {NoRequest}]
    /\ before \in [Call -> Text]
    /\ after \in [Call -> Text]
    /\ reply \in [Call -> Reply]
    /\ running \in [Device -> Text]
    /\ startup \in [Device -> Text]
    /\ strays \subseteq Device
    /\ reloads \in 0 .. MaxReloads
    /\ edits \in 0 .. MaxConsoleEdits

\* A call inside the handler was let in by every gate, on a bridge that still
\* has writes enabled, and one that applies is not a dry run.
GatesPassed ==
    \A c \in Call :
        /\ pc[c] # "idle" => req[c] \in Requests
        /\ pc[c] \in Inside => enable_write /\ Admitted(req[c])
        /\ pc[c] \in Applying => ~req[c].dry_run

\* In service mode a call inside the handler holds the event loop, so there is
\* at most one; as a package nothing holds it.
LoopHeld ==
    /\ SingleLoop => \A c \in Call : pc[c] \in Inside => loop = c
    /\ ~SingleLoop => loop = NoCall

\* Nobody but the bridge's own calls has touched a device so far.
Undisturbed == reloads = 0 /\ edits = 0

\* A step of call c's configuration session on d, let in by every gate.
WritesFor(c, d) ==
    /\ enable_write
    /\ pc[c] \in {"enter", "set"} /\ pc'[c] # pc[c]
    /\ req[c].target = d
    /\ Admitted(req[c]) /\ ~req[c].dry_run

\* The bridge reaches into a device only on behalf of a call that writes were
\* on for, that passed every gate of the writelist and is not a dry run.  It
\* changes the lifetime of no profile but the one that call names, to what it
\* asks for (or makes a profile without one), and of none at all with a line
\* that is not of the change.  Several steps and, as a package, several
\* calls lie between the gates (mcp.py:120-131) and the write (live.py:87).
WriteAsAdmitted ==
    [][\A d \in Device :
          /\ \A p \in Profile :
                running'[d][p] # running[d][p] /\ UNCHANGED bounds
                => \E c \in Call :
                      /\ WritesFor(c, d)
                      /\ req[c].profile = p
                      /\ running'[d][p] \in {Unset, req[c].seconds}
          /\ d \in strays' \ strays
                => /\ running' = running
                   /\ \E c \in Call : WritesFor(c, d) /\ req[c].profile = PaddedName]_vars

\* A configuration session "is bounded to the approved change" (live.py:62-63),
\* as it has no line but those two the writelist builds from checked parameters
\* (writelist.py:7-13 and 86-90).
SessionsAreBounded == strays = {}

\* As a service, the plan a call is about to carry out is the one its device
\* still calls for: no other call has changed the lifetime the rollback was
\* built from since it was read (mcp.py:129-131 against mcp.py:161).
PlanIsCurrent ==
    SingleLoop /\ Undisturbed =>
        \A c \in Call : pc[c] \in {"enter", "set"} =>
            lifetime_match(before[c]) = lifetime_match(Current(c))

\* A call has no answer before its end.
AnsweredAtEnd == \A c \in Call : pc[c] # "done" => reply[c] = NoReply

\* In service mode, with nobody at the console, a change that is being read
\* back is saved, and the after-state is what the device still says.
ReadBackIsSaved ==
    SingleLoop /\ edits = 0 =>
        \A c \in Call :
            /\ pc[c] \in {"read_after", "read_validate"} =>
                   startup[Target(c)] = Current(c)
            /\ pc[c] = "read_validate" => after[c] = Current(c)

\* The invariants above together are inductive: the proofs rest on this one.
IInv ==
    /\ TypeOK
    /\ GatesPassed
    /\ LoopHeld
    /\ PlanIsCurrent
    /\ AnsweredAtEnd
    /\ ReadBackIsSaved

\* The rollback a plan calls known restores the lifetime the profile had just
\* before the change was written over it (writelist.py:44-46 and 69).
RollbackRestoresPrior ==
    [][\A c \in Call :
          pc[c] = "set" /\ pc'[c] = "save" /\ rollback_known(before[c]) /\ Undisturbed
          => lifetime_match(before[c]) = Current(c)[profile_name(req[c].profile)]]_vars

\* A device whose running configuration differs from its saved one, so that
\* the next reload undoes the difference, has a configuration session open,
\* or a caller that was told its change failed or was never answered: an
\* "applied" answer never covers an unsaved change, and reading back is no
\* excuse for one (live.py:84-90, mcp.py:160-173).
UnsavedIsReported ==
    \A d \in Device : running[d] # startup[d] =>
        \E c \in Call :
            /\ pc[c] # "idle" /\ Target(c) = d
            /\ pc[c] \in InSession \cup {"broken"} \/ reply[c].status \in {"failed", "lost"}

\* A change answered with 'validated' true is on the device as asked for, in
\* the profile it names, and survives a reload (mcp.py:163-176): Mode 5 does
\* not roll back on the strength of it.
ValidatedMeansTook ==
    [][\A c \in Call :
          reply'[c].validated /\ ~reply[c].validated /\ edits = 0
          => /\ Current(c)[profile_name(req[c].profile)] = req[c].seconds
             /\ startup[Target(c)][profile_name(req[c].profile)] = req[c].seconds]_vars

\* A change answered with 'validated' false is not on the device: Mode 5 does
\* not roll back a change that took (mcp.py:166-176), as it is "reflected iff
\* the exact intended lifetime value is present" (writelist.py:139).
NoFalseAlarm ==
    [][\A c \in Call :
          /\ reply'[c].status = "applied" /\ reply[c].status # "applied"
          /\ ~reply'[c].validated
          => Current(c)[profile_name(req[c].profile)] # req[c].seconds]_vars

\* Every failure becomes an isError result (mcp.py:5-6): no exception leaves
\* the handler.
FailuresAreAnswered == \A c \in Call : reply[c].status # "raised"

\* A call that arrives is answered, or lost with the bridge: no outcome of an
\* earlier call keeps the event loop from it (service.py:100-102).
EveryCallEnds == \A c \in Call : pc[c] = "queued" ~> pc[c] = "done"
-----------------------------------------------------------------------------
\* Where each call stands between "waiting" and its answer, to its host.
StageOf(c) ==
    IF pc[c] # "done"
    THEN IF pc[c] \in {"idle", "queued", "read_before", "enter", "set"}
         THEN "waiting" ELSE "attempted"
    ELSE CASE reply[c].status \in {"refused", "raised"} -> "declined"
           [] reply[c].status = "planned"               -> "previewed"
           [] reply[c].status = "applied"               -> "reported"
           [] OTHER                                     -> reply[c].status

Attempted(c) == StageOf(c) \in {"attempted", "reported"}

Reversible == INSTANCE ReversibleChange WITH
    Calls   <- Call,
    Devices <- Device,
    Values  <- Lifetimes,
    Nothing <- NoRequest,
    Volatile <- FALSE,
    setting <- [d \in Device |-> lifetime_match(running[d])],
    stage   <- [c \in Call |-> StageOf(c)],
    change  <- [c \in Call |-> IF Attempted(c)
                               THEN [device |-> Target(c), value |-> req[c].seconds]
                               ELSE NoRequest],
    undo    <- [c \in Call |-> IF StageOf(c) = "previewed" THEN reply[c].rollback
                               ELSE IF Attempted(c) THEN lifetime_match(before[c])
                               ELSE Unset],
    verdict <- [c \in Call |-> reply[c].validated]

\* As a service, with one lifetime line per device and nobody else at the devices,
\* the four sessions of a change (mcp.py:129, 161, 162 and 169) look to the
\* host like one atomic, reversible, truthfully reported step.
ChangesAreReversible == Reversible!Spec

\* What the rollback of a plan asks for is something the bridge would let
\* through, once a host has addressed it: it "IS the same change type with the
\* restored param value" (writelist.py:46-47).
RollbackIsAdmitted ==
    \A c \in Call : reply[c].rollback # Unset =>
        Admitted(Addressed(rollback_request(req[c], before[c]), Target(c)))
=============================================================================
