# A verification project for slimx-NetOps

slimx-NetOps is a bridge between an LLM host (ControlRoom) and network devices:
an MCP tool server that reads telemetry (SSH show commands, SNMP, Prometheus,
Alertmanager, logs) and, when enabled, makes one kind of reversible device
change. These modules model its control: what is checked before a device is
touched, in which order, what can happen between two steps, and what the caller
is told. Paths such as `mcp.py:129` are relative to `src/slimx_netops/`.

## 1. The system: parts, state, operations, hard behaviour

| Part | State | Operations | Hard behaviour | What makes it correct |
| --- | --- | --- | --- | --- |
| `service.py` endpoint | the event loop of one uvicorn worker | `POST /mcp` (initialize, tools/list, tools/call), `GET /health` | one `await` (the body) between authorisation and the handler; the handler itself runs on the loop and blocks it | nobody is served unauthorised; no call keeps the loop |
| `mcp.py` read dispatch | none | `handle_tools_list`, `handle_tools_call`, `_dispatch` | order of checks; failures mapped to `isError`; code inside an `except` clause that can raise | only allowed commands to inventory targets; every failure answered |
| `mcp.py` apply_change | none of its own; the device's running and saved configuration | `_handle_apply_change`: gate, read, plan, dry run or configure, save, read back, judge | four SSH sessions per change; failure, crash, reload or another writer between any two; lines a device ignores silently | writes only as admitted; rollback restores; "validated" is true; nothing unsaved goes unreported |
| `writelist.py` | none | `validate_change_request`, `plan_change`, `check_reflected` | text searches that ignore the profile; bounds; `int()` | the plan's way back is the prior value, and usable |
| `inventory.py` | `lru_cache` of the file | `get_device`, `get_endpoint`, `known_targets`, `resolve_secret` | loads racing in threads; the file changing, missing or half written; malformed sections | only inventory targets are reached; failures not cached |
| `config.py` | `lru_cache` of the settings | `get_settings` | settings change only with a restart | writes off means off |
| `live.py` | none | `ssh_show`, `apply_config`, `snmp_*`, HTTP reads | timeouts, partial failure, truncation | errors surface as `ToolError` |
| `clients.py` fixture source | `_FIXTURE_WRITE_STATE` | the same reads, simulated `apply_config` | one override per device rewrites every profile; constant signals | before, after and rollback of a demo agree |
| `allowlist.py` | none | `validate_show_command`, `validate_oid(s)` | normalisation against matching | only read-only commands pass |
| `tools.py`, `results.py` | none | input models, schemas, envelopes | bounds in the schema that the models do not enforce | - |
| `__init__.py` | none | re-export for in-process hosts | the host's threads | as above, without the event loop |

Everything is called synchronously from `mcp_endpoint` (as a service) or from
the host (as a package): endpoint -> handler -> inventory, writelist or
allowlist -> source -> device. The shared state is the process's two caches and,
above all, the devices, which reload, are edited from their console, and ignore
lines.

`PROJECT.json` lists all parts with what is and is not modelled, and the hazards
at their lines.

## 2. Modules

| Module | Models |
| --- | --- |
| `Writelist` | `writelist.py` as operators. A device's `show running-config | section crypto ipsec` text is a function from the places of its lifetime lines, in listing order, to a lifetime, `Unset` or `Absent`. `profile_name` is what the check makes of a profile name, `rollback_request` the request as the code returns it. |
| `Allowlist` | `allowlist.py` as operators. A command is a sequence of pieces (words, fragments, blanks, separators), so that normalisation, the deny-list that matches inside words and the filter check that goes by word can disagree. `ReadOnlyLine` reads the policy (`allowlist.py:8-16`) without splitting the line. |
| `ApplyChange` | `_handle_apply_change` on `LiveSource` as a process per call: `Submit`, `Refuse`, `Raise`, `Admit`, `ReadBefore` / `Preview`, `EnterProfile` / `StrayLine`, `TakeLifetime` / `IgnoreLine`, `SaveConfig`, `ReadAfter`, `ReadValidate`, the two failure exits, and the environment: `Reload`, `ConsoleEdit`, `Restart`. |
| `ReversibleChange` | What the host is promised: one atomic read-modify-write with its rollback, truthfully reported. `ApplyChange` implements it (`ChangesAreReversible`) on settings that outlive the bridge, `Fixture` (`DemosAreReversible`) on settings that end with it (`Volatile`). |
| `Bridge` | `mcp_endpoint`, `handle_tools_call`, `_dispatch`, `_raw_inventory` and the reads of `LiveSource`: `Arrive`, `Authorize`, `Receive`, `Dispatch`, `Load`, `Store`, `Resolve`, then `ssh_show`, `SnmpRow` / `SnmpRows`, `HttpRead` or `ReadFails`, and `EditInventory`, `Restart`. |
| `Fixture` | The bridge in fixture mode: `clients.FixtureSource` with its routing table and simulated writes, behind the allowlist for `ssh_show` and `snmp_get` and behind the writelist for `apply_change`. |
| `Remediation` | A host that plans, asks for approval, applies, retries, undoes and gives up waiting, over `ApplyChange`'s bridge and device. |
| `WritelistProofs`, `AllowlistProofs`, `ApplyChangeProofs`, `ReversibleProofs`, `BridgeProofs`, `FixtureProofs`, `RemediationProofs` | The theorems. |
| `NaturalSets` | Lemmas about sets of naturals the proofs share: a first, a last element, and induction up to a number. |
| `MCApplyChange`, `MCBridge`, `MCFixture`, `MCRemediation` | Values of the constants for TLC. |

`ApplyChange` and `Fixture` EXTEND `Writelist`, `Fixture` also `Allowlist`;
both INSTANCE `ReversibleChange`; `Remediation` EXTENDS `ApplyChange`.
Definitions marked "Mutant" are plausible bugs of the definition after them;
they belong to no specification and show that each property can fail
(`PROJECT.json`, "mutants").

How state corresponds to the code: `pc[c]` is the line a call has reached;
`before[c]` is `before_text`, `after[c]` the after-state; `reply[c]` is the
result (`refused` and `failed` are `isError` results without and after a write
attempt, `raised` an exception out of the handler, `lost` a process that ended);
`loop` is the call whose handler occupies the event loop; `running` and
`startup` are the device's, `strays` the devices that took a line that is not of
the change; `cache` is `_raw_inventory`'s, `file` what the
inventory file holds and `since` all it has held since the process started;
`override` is `_FIXTURE_WRITE_STATE`; `handed` is what the last step gave the
source to read. `SingleLoop` picks the service (one handler at a time) or the
package (threads). 
What is called a profile is a place where a lifetime line may stand. A device's
global `crypto ipsec security-association lifetime` line, which the same section
shows and every search of the text meets, is one more such place that no request
names; "one profile" (`NumProfiles = 1`) therefore means one lifetime line. A
profile name is a number, an unsafe name, or `PaddedName`: the name of profile 1
with a line end in front of it, which the check strips (`writelist.py:75`) and
the command does not (line 88), so that one line becomes two (`StrayLine`).
Blanks around a name and a line end behind it change nothing on a device and are
left out. `LowerCase` are the devices that print the line in lower case: the
search for the prior lifetime ignores case, the one for the verdict does not
(`writelist.py:71` and `141`).

The external parts (a device's reaction to a line, a reload,
an engineer) are modelled from how the code uses them; a device may ignore any
line, because `send_config_set` is called without an error pattern
(`live.py:87`).

The host of `Remediation` is not part of the repository. It does what the tool's
description and the plan ask for (`tools.py:168-171`, `writelist.py:45-48`), one
call after the other, and three of its habits are assumptions of the results:

- It adds a target and `dry_run = FALSE` to the `rollback_request` it was given
  (`Addressed`): as the code returns it the request has neither
  (`writelist.py:118-121`) and is turned down.
- It keeps the rollback of the plan it had approved. The plan of a retry is no
  substitute: the first attempt may have taken before its answer was lost
  (`mcp.py:173`), and then the retry's before-state is the new value.
- It stops waiting only for a call the bridge is already at work on (`GiveUp`).
  A call still queued is taken up all the same, in any order: an apply carried
  out after the undo that was meant to follow it violates `RestoredIsOriginal`.
  Nothing in the repository tells a host how to avoid that.

## 3. Runs

| Run | Question | Bounds | Distinct states |
| --- | --- | --- | --- |
| `service_reversible` | Do the four sessions of a change look like one atomic, reversible, truthfully reported step (`ChangesAreReversible`, `RollbackRestoresPrior`, `PlanIsCurrent`)? | 3 calls, 1 device, 1 profile, no reload or edit; sessions fail and the bridge restarts anywhere | 184 003 |
| `service_faults` | What survives reloads, console edits and restarts (`UnsavedIsReported`, `ValidatedMeansTook`), does every call end (`EveryCallEnds`), and is `IInv` an invariant? | 2 calls, 1 device, 1 profile, 1 reload, 1 edit | 319 540 |
| `package_threads` | What holds when sessions interleave freely (`WriteAsAdmitted`, `NoFalseAlarm`, `UnsavedIsReported`, `EveryCallEnds`)? | 2 calls, 2 devices, 2 profiles, one request per gate, a padded name, 1 reload | 452 639 |
| `remediation` | Does a host's whole run - plan, approval, lost answers, retries, undo, a reload, restarts - end fixed for good or where it began (`FixedIsDurable`, `RestoredIsOriginal`, `UntouchedUntilApproved`), and does it end (`RemediationSettles`)? `HostIInv` is the invariant of its proof, `IInv` included. | 4 calls of one host, 5 initial configurations, 1 reload | 190 397 |
| `bridge_service` | Who is contacted, from which inventory (`ContactsAreAllowed`, `OneInventory`, `NoInventoryIsCurrent`), does an envelope cover what was asked for (`NoFakeSuccess`), and is the loop given back, unless an endpoint never ends its answer (`LoopIsGivenBack`)? `IInv` is the invariant of its proof. | 2 requests of every kind, 3 inventories, two of them with a section that is no object, 2 file changes, walks of 2 rows, 1 unit of output | 868 290 |
| `bridge_package` | Do racing loads settle the cache once (`CacheIsFrozen`)? | 3 threads, 2 inventories, 2 file changes | 3 752 400 |
| `fixture_bridge` | Does a source only get reads, the very line that was checked (`SourceGetsOnlyReads`, `CheckedIsWhatRuns`), and do the demos keep the live bridge's promise (`DemosAreReversible`)? `IInv` is the invariant of its proof. | 148 commands, 6 OID lists, 2 changes, a device with and one without a fixture | 19 499 |
| `rollback_of_other_profile` (violation) | Does a rollback restore the profile being changed, on a device with two? | 2 calls, 2 profiles | |
| `validated_by_other_profile` (violation) | Is a validated change in the profile it names? | 2 calls, 2 profiles | |
| `rollback_out_of_range` (violation) | Would the bridge let its own rollback request through, once a host has addressed it? | prior values up to 2592000 s | |
| `session_not_bounded` (violation) | Does a configuration session hold the approved change only? | one request per gate and a padded name | |
| `overflow_escapes` (violation) | Is every failure answered as an error? | one request per gate | |

Why the bounds are enough. Every property of `ApplyChange` relates at most two
calls on one device, or one call and one disturbance; the third call of
`service_reversible` can queue, fail and leave an unsaved change in front of the
two others. Three lifetimes tell requested, prior and out-of-range values apart;
two profiles are enough for "the first one is another one". Four calls give
`Remediation` a plan, an apply that is lost, a retry and an undo; five calls and
two reloads (3.3 million states) pass as well. In `Bridge` two file changes put
three versions of the inventory in front of a process, three threads can hold
all three at once; a walk of two rows can go on, end and be cut off; an output
can be empty, fit and be one unit over. `Fixture`'s commands are built from
heads, subjects and tails so that every check of the allowlist decides some of
them, as do the overlapping rules of the routing table; the state of a demo is
one lifetime per device, so two calls meet in every way. Symmetry is used among
calls only, and only in runs without liveness. Deadlock is checked
everywhere (a restart is always possible).

What the violations show. The plan's rollback and the verdict both search the
whole text for a lifetime, so on a device with several crypto profiles they can
be another profile's (`writelist.py:94`, `writelist.py:140`). A prior value
outside 120..86400 gives a rollback request that is refused
(`writelist.py:120`). An infinite `seconds`, or a port in the inventory that is
no number, leaves the write handler as an exception (`writelist.py:79`,
`inventory.py:88`): the read path has a clause for it, the write path none. A
profile name is checked stripped and written as it came, so a session can hold a
line that is not of the change (`writelist.py:88`): the model shows that the
line gets there, and leaves open what a device makes of it. Each finding in
`PROJECT.json` quotes the sentence it disagrees with.

Four more disagreements are in the definitions, without a run of their own:

- The `rollback_request` is no "ready-to-use apply_change call"
  (`writelist.py:45`): it has no target, and without `dry_run` it would only plan
  (`writelist.py:118-121`, `tools.py:64` and `67`).
- The verdict's search minds the case of the line (`writelist.py:141`), so on a
  device outside `LowerCase` a change that took is answered with `validated`
  false. `NoFalseAlarm` fails there, and is checked and proved for the others.
- A log answer is capped in lines only, and delivered whole and unflagged by
  `HttpRead` however long the lines (`live.py:171-172`), against the
  "CLI/log output cap" of `src/README.md:85`.
- The timeout of an HTTP read is one of each wait for more of it
  (`live.py:182-184`), not "per read" (`src/README.md:86`): the read need not end.

Fairness. On the write path each call's own steps are weakly fair: every read and
write of an SSH session has a timeout, the handler has no other wait, and
finitely many calls stand in front of a queued one, each of which ends. On the
read path the same holds of SSH and SNMP (a walk is broken off, `live.py:136`),
and not of HTTP: httpx's timeout bounds each wait on the socket and nothing
bounds the body, so `HttpRead` and its failure are not fair. `LoopIsGivenBack`
says what is left: if no endpoint goes on with its answer for ever, nothing else
keeps the event loop. Nobody is
obliged to call, to send the body it announced (`Receive` is not fair), to
reload, to edit or to restart anything. `HostSpec` adds that a host that has
begun does the next thing it can do; it need not give up waiting, and need not
begin. It ends `stuck` when its rollback is refused, on a bridge that has turned
writes off in between for example, and `RemediationSettles` counts that as an
end.

## 4. Proofs

For every number of calls, devices, profiles, lifetimes, targets, inventories,
fixtures and commands, from the named assumptions on the constants
(`WritelistAssumption`, `AllowlistAssumption`, `ApplyChangeAssumption`,
`RemediationAssumption`, `BridgeAssumption`, `FixtureAssumption`,
`ReadCommandAssumption`), which every run of the module evaluates, and from the
hypotheses a theorem states itself.

The write path (`ApplyChangeProofs`):

- `Invariance`: `Spec => []IInv`. `TypeOK` alone is not inductive: a call indexes
  the devices by its target, which only the gates bound to the inventory
  (`GatesPassed`); that a plan stays current (`PlanIsCurrent`) and that a
  change being read back is saved (`ReadBackIsSaved`) need that one call at a
  time is inside the handler (`LoopHeld`); `AnsweredAtEnd` says a reply is
  final. Each conjunct has a lemma with one step per action.
- `TypeCorrect`, `PlansStayCurrent` follow at once.
- `WritesAreAdmitted`: the action property `WriteAsAdmitted`, service or package.
  The lifetime that changes is that of the profile named as it came; a name with
  a line end in front of it changes none, and leaves a stray line.
- `CleanNamesBoundSessions`: if no call's name begins with a line end, no device
  takes a stray line. `session_not_bounded` refutes the conclusion without that
  hypothesis.
- `UnsavedChangesAreReported`: `UnsavedIsReported` is inductive relative to `IInv`.
- `RollbacksRestore` and `ValidatedChangesTook` assume `SingleLoop` and
  `NumProfiles = 1`, one lifetime line per device. Both assumptions are needed:
  the violation runs refute the conclusions with two.
- `WritelistProofs` shows that the search of a text returns the lifetime of its
  first profile with one (`LifetimeMatchIsFirst`, by well-founded minimality, no
  induction), and that listing a profile without a lifetime is invisible to it.
- `WaysBackAreAdmitted`: a rollback offered is a request the bridge lets through
  once a host has added its target and `dry_run = FALSE` (`RollbackIsAdmitted`),
  service or package and with any disturbance, if devices hold only lifetimes in
  120..86400. Both conditions are needed: the request as it is returned has no
  target and is never let through, and `rollback_out_of_range` refutes the
  conclusion without the hypothesis on the lifetimes. The invariant is
  `WayBackIsRead`: the rollback is the lifetime of the text the plan was built
  on, and goes only to a request that passed the gates.
- `NoAlarmIsFalse`: `NoFalseAlarm`, service or package and with any disturbance,
  because the verdict is judged on the device's own text, or on the after-state
  of a device that lists no profile at all. Devices have to print the lifetime
  line in lower case; with `LowerCase = {}` TLC refutes the property.

The write path as one step (`ReversibleProofs`): `ImplementsReversibleChange`
shows `Spec => ChangesAreReversible` with `SingleLoop`, one lifetime line, in
lower case, and no reload or edit. The second configuration line, taken or
ignored, is the abstract attempt; the rollback is the value at that moment because of `PlanIsCurrent`,
the verdict is true at the answer because of `ReadBackIsSaved`, and the first
line is invisible (`EnterProfileInvisible`, or a stray line that leaves the
lifetimes alone). A lifetime that may be asked for
has to be one a device can hold.

The host (`RemediationProofs`): `HostInvariance` shows `HostSpec => []HostIInv`
with `SingleLoop` and one lifetime line. The bridge's `IInv` carries over, since every
step of the host is one of `ApplyChange` or invisible to it
(`HostStepsAreSteps`). The heart is `OneAfterTheOther`: a call the host has
given up is inside the handler only while its last call is still queued, so the
last call is alone when it is carried out, and what it was told
(`TookIsDurable`) stays true. `PlanningLeavesNoTrace`, `FixesLast` and
`UndoneIsAsFound` follow, for any number of calls, reloads and restarts.

The read path (`BridgeProofs`):

- `Invariance`: `Spec => []IInv`. What each check has established is carried
  along (`ChecksPassed`), with where a call's inventory came from
  (`InventoriesAreReal`); `OneInventory` needs that a call between reading the
  file and storing it holds the event loop, with the cache still empty
  (`LoopHeld`), because another call might otherwise store its own reading
  first. `StepFrame` says once what a step of one call leaves alone.
- `OnlyAllowedContacts`, `InventoriesAgree`, `EnvelopesAreWhole`, `TypeCorrect`
  are invariants that follow from it.
- `CacheFreezes` and `NoInventoryTellsTheTruth` are action properties: the first
  holds with any number of racing threads, the second as a service.

The allowlist (`AllowlistProofs`), for every sequence of pieces:

- What normalisation does: the result begins and ends with a word and has single
  blanks between words (`Normal`), a normal line is left as it is
  (`NormalIsKept`), and widening the whitespace of a normal line is undone. From
  that, `CheckingIsStable`: what was let through is let through again as the same
  line, so the line that runs is the line that was checked.
- `OnlyReadsPass` and `CheckIsThePolicy`: the check splits a line at its bars and
  looks at the first word of each segment; `ReadOnlyLine` reads the whole line
  from left to right. On a normal line the two agree, in both directions: no
  filter hides behind a bar, and no read is refused for its spacing.
- `collapse` is a recursive function over the positions of a line. The prover
  cannot use the library's induction theorems, so `NaturalSets` states induction
  for a set (`InductionUpTo`), from well-foundedness, and each inductive fact is
  the set of numbers it holds for.

The fixture bridge (`FixtureProofs`):

- `SourceOnlyReads` and `CheckedLinesRun`: the invariant is `HandedIsChecked`, a
  source is handed nothing, a line the allowlist returned, OIDs it let through,
  or the writelist's own `READ_COMMAND`, which goes round the allowlist. Of that
  one command it is shown that it is in normal form and that the allowlist would
  let it through (`ReadCommandIsPermitted`).
- `FixtureInvariance`, `FixtureTypeCorrect`: `Spec => []IInv`. That the
  before-state is still the device's when the change is simulated
  (`PlanIsCurrent`) needs one change at a time (`LoopHeld`), and both need that
  a change has passed the gates and its device has a fixture (`GatesPassed`).
- `DemosImplementReversibleChange`: `Spec => DemosAreReversible`, step by step:
  a refusal is `Decline`, a dry run `Preview`, `apply_config` is `Attempt`
  whether it simulates or plays a device that ignores the lines, the answer is
  `Report`, a restart is `Lose`, and everything else is invisible. The routing
  table is part of the proof: the read command leads to the configuration,
  because the first rule that matches wins (`ReadCommandRoute`).

  The hypotheses: `AsksForLifetimes`, a value that may be asked for is a lifetime
  a device can hold (otherwise the override is none); `OneLifetimeEach`, a
  configuration fixture gives one lifetime, under however many profiles; and that
  it gives it in lower case. The shipped fixtures do. With two different ones, a
  change that was not simulated is validated by the lifetime of the other profile: TLC finds it in five states.

Only model-checked: the liveness properties `EveryCallEnds`, `LoopIsGivenBack`
and `RemediationSettles`, because the prover handles neither `ENABLED` nor
fairness. Every other property of a passing run is a theorem.

## 5. Not modelled, and the plan

Not modelled: credentials; formatting of envelopes and messages; parsing of
environment variables; the container image; fixture data other than the
configurations. And, with their reasons:

- Time. One `apply_change` may hold the event loop for four sessions of two
  timeouts of 20 s each, while `GET /health` is to answer within 3 s, five times
  out of five, every 15 s (`Dockerfile`). No state of the bridge depends on that
  answer, and the models have no clock. That the loop is given back at all is
  `EveryCallEnds` on the write path, and on the read path `LoopIsGivenBack` for
  as long as every endpoint ends its answers.
- What a device makes of a stray line: `strays` says that it took one.
- Matching inside words by the fixture source's routing table: `Fixture` looks
  for whole pieces of a command where `clients.py:58` looks for substrings.
- A before-state cut at `max_output_bytes` (`live.py:193`): texts are abstracted
  to settings, and a section of 256 000 bytes is one of thousands of profiles,
  where the rollback is another profile's already.
- The fixture source's signals, constants that do not follow a simulated change
  (`clients.py:71`), and devices with several profiles in fixture mode: an
  override rewrites all of them (`clients.py:130`). The shipped ones have one.
- Several hosts on one device, and a host that gives up on a queued call.

Next: the read path as an implementation of an abstract one (a request is either
turned down without a contact or is one contact of an inventory target, answered
in full or with an error), and the lemmas that needs.
