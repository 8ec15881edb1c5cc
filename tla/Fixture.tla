------------------------------- MODULE Fixture -------------------------------
(***************************************************************************)
(* The bridge in fixture mode (clients.FixtureSource): canned texts chosen *)
(* by a routing table, and changes that are simulated by an override kept  *)
(* in the process.  The read tools that take a command or OIDs run through *)
(* the allowlist in front of the source; apply_change reads with the       *)
(* writelist's own command, straight from the source.                      *)
(*                                                                         *)
(* As a service: one handler at a time.  Nothing in it waits, so a read is *)
(* one step, and only a restart comes between the steps of a change.       *)
(***************************************************************************)
EXTENDS Writelist, Allowlist

CONSTANTS
    Call,          \* the apply_change calls that may be made
    Changes,       \* the arguments they may carry
    NoRequest,     \* the arguments of a call not made yet
    Commands,      \* what ssh_show may be asked to run
    OidLists,      \* what snmp_get may be asked to get
    FixtureTexts   \* the configuration fixture of each device that has one

ASSUME FixtureAssumption ==
    /\ Changes \subseteq Request
    /\ NoRequest \notin Changes
    /\ DOMAIN FixtureTexts \subseteq Device
    /\ \A d \in DOMAIN FixtureTexts : FixtureTexts[d] \in Text
    /\ Commands \subseteq Seq(Piece)
    /\ OidLists \subseteq Seq(Seq(Nat))

VARIABLES
    enable_write,             \* get_settings(), cached for the process
    fixture_simulate_writes,
    override,                 \* _FIXTURE_WRITE_STATE: a lifetime, or Unset
    pc,                       \* what each change does next
    req,                      \* its arguments
    before,                   \* its before_text
    reply,                    \* its answer
    handed                    \* what the last step handed the source to read

settings == <<enable_write, fixture_simulate_writes>>
vars     == <<settings, override, pc, req, before, reply, handed>>

Reply   == [status    : {"none", "refused", "raised", "planned", "applied", "lost"},
            rollback  : Lifetimes \cup {Unset},
            validated : BOOLEAN]
NoReply == [status |-> "none", rollback |-> Unset, validated |-> FALSE]

Inside == {"read_before", "apply", "read_back"}

\* What reaches a source: a line, a list of OIDs, or nothing.
Nothing == [tool |-> "none"]
Line(line) == [tool |-> "ssh_show", line |-> line]
Oids(oids) == [tool |-> "snmp_get", oids |-> oids]
-----------------------------------------------------------------------------
\* _SSH_RULES: the words a line must contain, and the fixture they lead to.
SSH_RULES == <<
    [needles |-> {"crypto", "ipsec", "sa"}, fixture |-> "crypto_ipsec_sa"],
    [needles |-> {"crypto", "session"},     fixture |-> "crypto_ipsec_sa"],
    [needles |-> {"bgp", "summary"},        fixture |-> "bgp_summary"],
    [needles |-> {"bgp", "neighbor"},       fixture |-> "bgp_neighbor_detail"],
    [needles |-> {"running-config"},        fixture |-> "config"],
    [needles |-> {"crypto", "ipsec"},       fixture |-> "config"],
    [needles |-> {"logging"},               fixture |-> "ike_rekey_logs"],
    [needles |-> {"ike"},                   fixture |-> "ike_rekey_logs"],
    [needles |-> {"ipsec"},                 fixture |-> "ike_rekey_logs"]>>

Matching(line) == {i \in DOMAIN SSH_RULES : SSH_RULES[i].needles \subseteq ToSet(lower(line))}

\* Mutant: the last rule that matches wins.
last_route(line) == IF Matching(line) = {} THEN "none" ELSE SSH_RULES[Max(Matching(line))].fixture

\* The first rule that matches wins.
route(line) == IF Matching(line) = {} THEN "none" ELSE SSH_RULES[Min(Matching(line))].fixture

\* The device's configuration, every lifetime of which an override replaces.
config(d) ==
    [p \in Profile |-> IF FixtureTexts[d][p] \in Lifetimes /\ override[d] # Unset
                       THEN override[d] ELSE FixtureTexts[d][p]]

\* No rule, or no configuration fixture for the device: a ToolError.
HasFixture(d, line) == route(line) # "none" /\ (route(line) = "config" => d \in DOMAIN FixtureTexts)

\* What a line's text says of the crypto profiles: the other fixtures list none.
ssh_show(d, line) == IF route(line) = "config" THEN config(d) ELSE [p \in Profile |-> Absent]

\* The command of both the before-state and the validate read-back.
READ_COMMAND == <<"show", " ", "running-config", " ", "|", " ", "section", " ", "crypto", " ", "ipsec">>

ASSUME ReadCommandAssumption ==
    /\ Range(READ_COMMAND) \subseteq Piece \ DOMAIN Capitals
    /\ Len(READ_COMMAND) <= MaxCommandLen
-----------------------------------------------------------------------------
Init ==
    /\ enable_write \in BOOLEAN
    /\ fixture_simulate_writes \in BOOLEAN
    /\ override = [d \in Device |-> Unset]
    /\ pc = [c \in Call |-> "idle"]
    /\ req = [c \in Call |-> NoRequest]
    /\ before = [c \in Call |-> [p \in Profile |-> Absent]]
    /\ reply = [c \in Call |-> NoReply]
    /\ handed = Nothing

\* Mutant: handlers run side by side.
loop_shared == TRUE

\* No handler is running.
LoopFree == \A c \in Call : pc[c] \notin Inside

\* The lines let through, worked out once.
Checked == [command \in Commands |-> validate_show_command(command)]

\* ssh_show: the device, the allowlist, then the source, which answers or has
\* no fixture.  Only what it was handed matters to anyone else.
Show(command) ==
    /\ LoopFree
    /\ handed' = IF Checked[command] = Rejected THEN Nothing ELSE Line(Checked[command])
    /\ UNCHANGED <<settings, override, pc, req, before, reply>>

\* snmp_get: the same with OIDs.
SnmpGet(oids) ==
    /\ LoopFree
    /\ handed' = IF validate_oids(oids) THEN Oids(oids) ELSE Nothing
    /\ UNCHANGED <<settings, override, pc, req, before, reply>>

GoTo(c, label) == pc' = [pc EXCEPT ![c] = label]

Answer(c, status, rollback, validated) ==
    /\ GoTo(c, "done")
    /\ reply' = [reply EXCEPT ![c] =
                     [status |-> status, rollback |-> rollback, validated |-> validated]]

\* An apply_change call arrives and goes through the gates at once.
Submit(c, r) ==
    /\ pc[c] = "idle"
    /\ LoopFree
    /\ req' = [req EXCEPT ![c] = r]
    /\ \/ enable_write /\ Admitted(r) /\ GoTo(c, "read_before") /\ UNCHANGED reply
       \/ enable_write /\ Raises(r) /\ Answer(c, "raised", Unset, FALSE)
       \/ /\ enable_write => ~Admitted(r) /\ ~Raises(r)
          /\ Answer(c, "refused", Unset, FALSE)
    /\ handed' = Nothing
    /\ UNCHANGED <<settings, override, before>>

\* The before-state, read past the allowlist; a dry run ends with its plan.
ReadBefore(c) ==
    /\ pc[c] = "read_before"
    /\ handed' = Line(READ_COMMAND)
    /\ LET d == req[c].target
           text == ssh_show(d, READ_COMMAND)
       IN  \/ ~HasFixture(d, READ_COMMAND)
              /\ Answer(c, "refused", Unset, FALSE)
              /\ UNCHANGED before
           \/ HasFixture(d, READ_COMMAND)
              /\ before' = [before EXCEPT ![c] = text]
              /\ IF req[c].dry_run
                 THEN Answer(c, "planned", lifetime_match(text), FALSE)
                 ELSE GoTo(c, "apply") /\ UNCHANGED reply
    /\ UNCHANGED <<settings, override, req>>

\* The change is simulated, unless the bridge is to play a device that
\* accepts the lines and does nothing.
apply_config(c) ==
    /\ pc[c] = "apply"
    /\ override' = IF fixture_simulate_writes
                   THEN [override EXCEPT ![req[c].target] = req[c].seconds]
                   ELSE override
    /\ GoTo(c, "read_back")
    /\ handed' = Nothing
    /\ UNCHANGED <<settings, req, before, reply>>

\* The after-state and the validate read-back, which find the fixture that
\* the before-state was read from, and the verdict.
ReadBack(c) ==
    /\ pc[c] = "read_back"
    /\ handed' = Line(READ_COMMAND)
    /\ LET text == ssh_show(req[c].target, READ_COMMAND)
       IN  Answer(c, "applied", lifetime_match(before[c]),
                  check_reflected(req[c], reads_text(text, text)))
    /\ UNCHANGED <<settings, override, req, before>>

\* The bridge ends, with what it simulated, and starts with new settings.
Restart ==
    /\ enable_write' \in BOOLEAN
    /\ fixture_simulate_writes' \in BOOLEAN
    /\ override' = [d \in Device |-> Unset]
    /\ pc' = [c \in Call |-> IF pc[c] \in Inside THEN "done" ELSE pc[c]]
    /\ reply' = [c \in Call |-> IF pc[c] \in Inside THEN [NoReply EXCEPT !.status = "lost"]
                                ELSE reply[c]]
    /\ handed' = Nothing
    /\ UNCHANGED <<req, before>>

Next ==
    \/ \E command \in Commands : Show(command)
    \/ \E oids \in OidLists : SnmpGet(oids)
    \/ \E c \in Call : (\E r \in Changes : Submit(c, r)) \/ ReadBefore(c) \/ apply_config(c) \/ ReadBack(c)
    \/ Restart

Spec == Init /\ [][Next]_vars
-----------------------------------------------------------------------------
\* Every variable holds a value of its kind.
TypeOK ==
    /\ settings \in BOOLEAN \X BOOLEAN
    /\ override \in [Device -> Lifetimes \cup {Unset}]
    /\ pc \in [Call -> Inside \cup {"idle", "done"}]
    /\ req \in [Call -> Changes \cup {NoRequest}]
    /\ before \in [Call -> Text]
    /\ reply \in [Call -> Reply]
    /\ \/ handed = Nothing
       \/ handed \in [tool : {"ssh_show"}, line : Range(Checked) \cup {READ_COMMAND}]
       \/ handed \in [tool : {"snmp_get"}, oids : OidLists]

\* "A source only ever receives a validated command/OID" (clients.py:8-10):
\* whatever line reaches it, the write path's own included, is one read verb
\* with a subject and read filters only, by a reading of the policy
\* (allowlist.py:8-16) that does not split the line, and whatever OIDs reach
\* it lie under mib-2.
SourceGetsOnlyReads ==
    /\ handed.tool = "ssh_show" => ReadOnlyLine(handed.line)
    /\ handed.tool = "snmp_get" =>
          /\ Len(handed.oids) \in 1 .. 64
          /\ \A oid \in Range(handed.oids) : IsPrefix(<<1, 3, 6, 1, 2, 1>>, oid)

\* What was checked is what runs (allowlist.py:74-79): a line the source is
\* handed passes the check again as it stands, and however its blanks are
\* widened the same line comes out, so the check never saw another command
\* than the device will.
CheckedIsWhatRuns ==
    handed.tool = "ssh_show" =>
        /\ validate_show_command(handed.line) = handed.line
        /\ validate_show_command(Respaced(handed.line)) = handed.line

\* A change being made has passed the gates, is no dry run, and its device has
\* a configuration fixture.
GatesPassed ==
    \A c \in Call :
        /\ pc[c] \in Inside => req[c] \in Changes /\ Admitted(req[c])
        /\ pc[c] \in {"apply", "read_back"} =>
               ~req[c].dry_run /\ HasFixture(req[c].target, READ_COMMAND)

\* Only one change is being made at a time.
LoopHeld == \A c, k \in Call : pc[c] \in Inside /\ pc[k] \in Inside => c = k

\* The before-state a change is about to be simulated on is the device's.
PlanIsCurrent ==
    \A c \in Call : pc[c] = "apply" =>
        before[c] = ssh_show(req[c].target, READ_COMMAND)

\* A call has no answer before its end.
AnsweredAtEnd == \A c \in Call : pc[c] # "done" => reply[c] = NoReply

\* The parts above together are inductive: what a demo says of the way back
\* rests on no other change having been simulated since the before-state was
\* read (mcp.py:129 against clients.py:158).
IInv == TypeOK /\ GatesPassed /\ LoopHeld /\ PlanIsCurrent /\ AnsweredAtEnd
-----------------------------------------------------------------------------
\* Where each call stands between "waiting" and its answer, to its host.
StageOf(c) ==
    IF pc[c] # "done"
    THEN IF pc[c] = "read_back" THEN "attempted" ELSE "waiting"
    ELSE CASE reply[c].status \in {"refused", "raised"} -> "declined"
           [] reply[c].status = "planned"               -> "previewed"
           [] reply[c].status = "applied"               -> "reported"
           [] OTHER                                     -> "lost"

Attempted(c) == StageOf(c) \in {"attempted", "reported"}

\* A device's setting is what its configuration fixture says just now.
DemoSetting(d) == IF d \in DOMAIN FixtureTexts THEN lifetime_match(config(d)) ELSE Unset

Demo == INSTANCE ReversibleChange WITH
    Calls    <- Call,
    Devices  <- Device,
    Values   <- Lifetimes,
    Nothing  <- NoRequest,
    Volatile <- TRUE,
    setting  <- [d \in Device |-> DemoSetting(d)],
    stage    <- [c \in Call |-> StageOf(c)],
    change   <- [c \in Call |-> IF Attempted(c)
                                THEN [device |-> req[c].target, value |-> req[c].seconds]
                                ELSE NoRequest],
    undo     <- [c \in Call |-> IF StageOf(c) = "previewed" THEN reply[c].rollback
                                ELSE IF Attempted(c) THEN lifetime_match(before[c])
                                ELSE Unset],
    verdict  <- [c \in Call |-> reply[c].validated]

\* "Mode 4/5 demos faithfully show before -> after -> rollback"
\* (clients.py:42-44), and the post-change validation of a device that does
\* not reflect a change fails (clients.py:151-153): the demo keeps the
\* promise of the live bridge, on settings that end with the process.
DemosAreReversible == Demo!Spec
=============================================================================
