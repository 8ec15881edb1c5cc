-------------------------- MODULE RemediationProofs --------------------------
(***************************************************************************)
(* A host's run with the bridge, for any number of calls and reloads and   *)
(* any devices and lifetimes.  The bridge's IInv carries over, because     *)
(* every step of the host is one of the bridge or invisible to it.  What   *)
(* the host concludes is right because its last call is alone: the calls   *)
(* it has given up are over before the last one is taken up                *)
(* (OneAfterTheOther).                                                     *)
(***************************************************************************)
EXTENDS Remediation, ApplyChangeProofs

\* A call is sent: a step of the bridge's environment.
LEMMA SendFacts ==
    ASSUME TypeOK, turn \in 0 .. MaxTurns, NEW r, Send(r)
    PROVE  /\ turn + 1 \in Call /\ turn' = turn + 1 /\ impatient' = FALSE
           /\ Submit(turn + 1)
           /\ pc[turn + 1] = "idle" /\ pc' = [pc EXCEPT ![turn + 1] = "queued"]
           /\ req' = [req EXCEPT ![turn + 1] = r]
           /\ UNCHANGED <<reply, running, startup, edits>>
<1>1. turn + 1 \in Call
  BY RemediationAssumption DEF Send
<1> QED  BY <1>1 DEF Send, Submit, GoTo, TypeOK, devices, bounds

\* Every step of the host is one of the bridge, or invisible to it.
LEMMA HostStepsAreSteps ==
    ASSUME TypeOK, turn \in 0 .. MaxTurns, [HostNext]_allvars
    PROVE  [Next]_vars
<1>1. ASSUME NEW r, Send(r)  PROVE Next
  BY <1>1, SendFacts DEF Next, Environment
<1>2. CASE HostStep
  BY <1>1, <1>2 DEF HostStep, Plan, Planned, Approve, Decline, Retry, Undo, Conclude
<1>3. CASE GiveUp
  BY <1>3 DEF GiveUp
<1>4. CASE Around
  BY <1>4, RemediationAssumption DEF Around, Next, Environment, Admitted, InInventory
<1>5. CASE UNCHANGED allvars
  BY <1>5 DEF allvars
<1> QED  BY <1>2, <1>3, <1>4, <1>5 DEF HostNext

\* The initial states.
LEMMA InitHostIInv == HostInit => HostIInv
<1> SUFFICES ASSUME HostInit PROVE HostIInv
  OBVIOUS
<1>1. IInv
  BY InitIInv DEF HostInit
<1>2. original \in Text
  BY <1>1, RemediationAssumption DEF HostInit, IInv, TypeOK, Admitted, InInventory
<1>3. pc = [c \in Call |-> "idle"] /\ edits = 0 /\ startup = running
  BY DEF HostInit, Init
<1>4. OneAfterTheOther
  BY <1>3, RemediationAssumption DEF HostInit, OneAfterTheOther, Inside
<1>5. /\ AskedFor /\ UntouchedUntilApproved /\ PlannedIsOriginal
      /\ KeptIsOriginal /\ TookIsDurable /\ ConcludedRightly
  BY <1>3 DEF HostInit, AskedFor, UntouchedUntilApproved, PlannedIsOriginal,
       KeptIsOriginal, TookIsDurable, ConcludedRightly
<1> QED  BY <1>1, <1>2, <1>3, <1>4, <1>5 DEF HostInit, HostIInv

\* A host sends its next call when the one before is over, or given up.
LEMMA NotQueued ==
    ASSUME OneAfterTheOther, host # "idle", Unknown \/ NotTaken \/ host = "approval"
    PROVE  pc[turn] \in Inside \cup {"done"}
BY DEF OneAfterTheOther, Unknown, NotTaken, Outcome, Inside

\* A call sent after one that is not queued keeps the order.
LEMMA SendInOrder ==
    ASSUME HostIInv, NEW r, Send(r), turn = 0 \/ pc[turn] \in Inside \cup {"done"},
           host' \in {"planning", "applying", "undoing"}
    PROVE  OneAfterTheOther'
<1>1. /\ turn \in 0 .. MaxTurns
      /\ turn + 1 \in Call /\ turn' = turn + 1 /\ impatient' = FALSE
      /\ pc[turn + 1] = "idle" /\ pc' = [pc EXCEPT ![turn + 1] = "queued"]
      /\ pc \in [Call -> PC] /\ Call = 1 .. MaxTurns
  BY SendFacts, RemediationAssumption DEF HostIInv, IInv, TypeOK, OneAfterTheOther
<1>2. turn' \in 0 .. MaxTurns /\ turn' # 0 /\ pc'[turn'] = "queued"
  BY <1>1
<1>3. ASSUME NEW c \in Call
      PROVE  /\ c > turn' <=> pc'[c] = "idle"
             /\ c < turn' => pc'[c] # "queued"
  <2>1. CASE c = turn + 1
    BY <1>1, <2>1
  <2>2. CASE c # turn + 1
    <3>1. pc'[c] = pc[c]
      BY <1>1, <2>2
    <3>2. (c > turn <=> pc[c] = "idle") /\ (c < turn => pc[c] # "queued")
      BY DEF HostIInv, OneAfterTheOther
    <3>3. c = turn => pc[c] # "queued"
      BY <1>1 DEF Inside
    <3> QED  BY <1>1, <2>2, <3>1, <3>2, <3>3
  <2> QED  BY <2>1, <2>2
<1> QED  BY <1>1, <1>2, <1>3 DEF OneAfterTheOther

\* The host's own steps.
LEMMA HostStepHostIInv ==
    ASSUME HostIInv, IInv', HostStep
    PROVE  HostIInv'
<1>1. /\ TypeOK /\ turn \in 0 .. MaxTurns /\ OneAfterTheOther
      /\ pc \in [Call -> PC] /\ reply \in [Call -> Reply] /\ Call = 1 .. MaxTurns
  BY RemediationAssumption DEF HostIInv, IInv, TypeOK, OneAfterTheOther
<1>2. ASSUME NEW r, Send(r), turn = 0 \/ pc[turn] \in Inside \cup {"done"},
             host' \in {"planning", "applying", "undoing"}, UNCHANGED original
      PROVE  /\ OneAfterTheOther' /\ PlannedIsOriginal' /\ TookIsDurable'
             /\ req'[turn'] = r /\ (\A c \in Call : c # turn' => req'[c] = req[c])
             /\ turn' \in Call /\ edits' = 0 /\ original' \in Text
             /\ \A c \in Call : c # turn' => pc'[c] = pc[c]
             /\ UNCHANGED <<running, startup>>
  <2>1. /\ turn + 1 \in Call /\ turn' = turn + 1
        /\ pc' = [pc EXCEPT ![turn + 1] = "queued"]
        /\ req' = [req EXCEPT ![turn + 1] = r] /\ UNCHANGED <<running, startup, edits>>
    BY <1>1, <1>2, SendFacts
  <2>2. pc'[turn'] = "queued" /\ req'[turn'] = r
    BY <1>1, <2>1 DEF TypeOK
  <2>3. OneAfterTheOther'
    BY <1>2, SendInOrder
  <2> QED  BY <1>1, <1>2, <2>1, <2>2, <2>3 DEF PlannedIsOriginal, TookIsDurable, HostIInv, TypeOK
<1>3. CASE Plan
  <2> DEFINE r == [Goal EXCEPT !.dry_run = TRUE]
  <2>1. turn = 0 \/ pc[turn] \in Inside \cup {"done"}
    BY <1>1, <1>3, NotQueued DEF Plan, OneAfterTheOther
  <2>2. Send(r) /\ host' = "planning" /\ host \in {"idle", "planning"} /\ UNCHANGED <<kept, original>>
    BY <1>3 DEF Plan
  <2>3. r.dry_run /\ r.target = Goal.target
    BY RemediationAssumption, ApplyChangeAssumption DEF Request
  <2> HIDE DEF r
  <2>4. AskedFor'
    BY <1>2, <2>1, <2>2, <2>3 DEF HostIInv, AskedFor
  <2>5. UntouchedUntilApproved' /\ KeptIsOriginal' /\ ConcludedRightly'
    BY <1>2, <2>1, <2>2 DEF HostIInv, UntouchedUntilApproved, KeptIsOriginal, ConcludedRightly
  <2> QED  BY <1>2, <2>1, <2>2, <2>4, <2>5 DEF HostIInv, Waiting
<1>4. CASE Approve
  <2>1. pc[turn] \in Inside \cup {"done"}
    BY <1>1, <1>4, NotQueued DEF Approve
  <2>2. Send(Goal) /\ host' = "applying" /\ kept # Unset /\ UNCHANGED <<kept, original>>
    BY <1>4 DEF Approve
  <2>3. AskedFor' /\ UntouchedUntilApproved' /\ KeptIsOriginal' /\ ConcludedRightly'
    BY <1>2, <2>1, <2>2 DEF HostIInv, AskedFor, UntouchedUntilApproved, KeptIsOriginal,
         ConcludedRightly
  <2> QED  BY <1>2, <2>1, <2>2, <2>3 DEF HostIInv, Waiting
<1>5. CASE Retry
  <2>1. pc[turn] \in Inside \cup {"done"}
    BY <1>1, <1>5, NotQueued DEF Retry
  <2>2. Send(Goal) /\ host = "applying" /\ host' = "applying" /\ UNCHANGED <<kept, original>>
    BY <1>5 DEF Retry
  <2>3. AskedFor' /\ UntouchedUntilApproved' /\ KeptIsOriginal' /\ ConcludedRightly'
    BY <1>2, <2>1, <2>2 DEF HostIInv, AskedFor, UntouchedUntilApproved, KeptIsOriginal,
         ConcludedRightly
  <2> QED  BY <1>2, <2>1, <2>2, <2>3 DEF HostIInv, Waiting
<1>6. CASE Undo
  <2> DEFINE r == [Goal EXCEPT !.seconds = kept]
  <2>1. pc[turn] \in Inside \cup {"done"}
    BY <1>1, <1>6, NotQueued DEF Undo
  <2>2. /\ Send(r) /\ host \in {"applying", "undoing"} /\ host' = "undoing"
        /\ UNCHANGED <<kept, original>>
    BY <1>6 DEF Undo
  <2>3. req'[turn'] = [Goal EXCEPT !.seconds = kept']
    BY <1>2, <2>1, <2>2
  <2> HIDE DEF r
  <2>4. AskedFor' /\ UntouchedUntilApproved' /\ KeptIsOriginal' /\ ConcludedRightly'
    BY <1>2, <2>1, <2>2, <2>3 DEF HostIInv, AskedFor, UntouchedUntilApproved, KeptIsOriginal,
         ConcludedRightly
  <2> QED  BY <1>2, <2>1, <2>2, <2>4 DEF HostIInv, Waiting
<1>7. CASE Planned
  <2>1. /\ host = "planning" /\ host' = "approval" /\ kept' = reply[turn].rollback
        /\ ~impatient /\ pc[turn] = "done" /\ reply[turn].status = "planned"
        /\ UNCHANGED <<vars, turn, impatient, original>>
    BY <1>7 DEF Planned, Outcome
  <2>2. KeptIsOriginal'
    BY <2>1 DEF HostIInv, PlannedIsOriginal, KeptIsOriginal
  <2>3. OneAfterTheOther' /\ AskedFor' /\ UntouchedUntilApproved' /\ PlannedIsOriginal'
    BY <2>1 DEF HostIInv, OneAfterTheOther, AskedFor, UntouchedUntilApproved,
         PlannedIsOriginal, vars, devices
  <2>4. TookIsDurable' /\ ConcludedRightly'
    BY <2>1 DEF HostIInv, TookIsDurable, ConcludedRightly, vars, devices, Current, Target
  <2> QED  BY <2>1, <2>2, <2>3, <2>4 DEF HostIInv, vars, bounds
<1>8. CASE Decline \/ Conclude
  <2>1. /\ UNCHANGED <<vars, turn, impatient, kept, original>>
        /\ \/ host \in {"approval", "planning"} /\ host' = "declined"
           \/ /\ host \in {"applying", "undoing"} /\ host' \in {"fixed", "restored", "stuck"}
              /\ host' \in {"fixed", "restored"} => Took
              /\ host' = "fixed" => host = "applying"
              /\ host' = "restored" => host = "undoing"
    BY <1>8 DEF Decline, Conclude
  <2>2. OneAfterTheOther' /\ AskedFor' /\ UntouchedUntilApproved' /\ PlannedIsOriginal'
    BY <2>1 DEF HostIInv, OneAfterTheOther, AskedFor, UntouchedUntilApproved, Took, Outcome,
         PlannedIsOriginal, vars, devices
  <2>3. TookIsDurable' /\ ConcludedRightly' /\ KeptIsOriginal'
    BY <2>1 DEF HostIInv, TookIsDurable, ConcludedRightly, KeptIsOriginal, Took, vars,
         devices, Current, Target
  <2> QED  BY <2>1, <2>2, <2>3 DEF HostIInv, Settled, vars, bounds
<1> QED  BY <1>3, <1>4, <1>5, <1>6, <1>7, <1>8 DEF HostStep

\* The host stops waiting: nobody else notices.
LEMMA GiveUpHostIInv ==
    ASSUME HostIInv, IInv', GiveUp
    PROVE  HostIInv'
<1>1. /\ host \in Waiting /\ pc[turn] \in Inside /\ impatient'
      /\ UNCHANGED <<vars, host, turn, kept, original>>
  BY DEF GiveUp
<1>2. OneAfterTheOther' /\ AskedFor' /\ UntouchedUntilApproved' /\ PlannedIsOriginal'
  BY <1>1 DEF HostIInv, OneAfterTheOther, AskedFor, UntouchedUntilApproved,
       PlannedIsOriginal, vars, devices, Waiting
<1>3. TookIsDurable' /\ ConcludedRightly' /\ KeptIsOriginal'
  BY <1>1 DEF HostIInv, TookIsDurable, ConcludedRightly, KeptIsOriginal, vars, devices,
       Current, Target
<1> QED  BY <1>1, <1>2, <1>3 DEF HostIInv, vars, bounds

\* Of the host's calls only the last one, or one inside in front of it, moves.
LEMMA WhoMoves ==
    ASSUME HostIInv, SingleLoop, NEW k \in Call, Handle(k)
    PROVE  /\ turn \in Call
           /\ \/ /\ k = turn
                 /\ \A c \in Call : c < turn => pc[c] \notin Inside
              \/ k < turn /\ pc[k] \in Inside /\ pc[turn] = "queued"
<1>1. /\ TypeOK /\ LoopHeld /\ OneAfterTheOther /\ turn \in 0 .. MaxTurns
      /\ Call = 1 .. MaxTurns
  BY RemediationAssumption DEF HostIInv, IInv, OneAfterTheOther
<1>2. pc[k] \notin {"idle", "done"} /\ pc[k] \in PC
  BY <1>1, HandleFrame DEF TypeOK
<1>3. k <= turn /\ turn \in Call
  BY <1>1, <1>2 DEF OneAfterTheOther
<1>4. CASE k < turn
  BY <1>1, <1>2, <1>3, <1>4 DEF OneAfterTheOther, Inside
<1>5. CASE k = turn
  <2>1. ASSUME NEW c \in Call, c < turn, pc[c] \in Inside  PROVE FALSE
    <3>1. pc[turn] = "queued" /\ loop = c
      BY <1>1, <2>1 DEF OneAfterTheOther, LoopHeld
    <3>2. LoopFree
      BY <1>5, <3>1 DEF Handle, Refuse, Raise, Admit, Preview, ReadBefore, ReadBeforeFails,
           EnterProfile, StrayLine, TakeLifetime, IgnoreLine, SaveConfig, ReadAfter, ReadValidate,
           ApplyFails, Applying
    <3> QED  BY <3>1, <3>2, ApplyChangeAssumption DEF LoopFree
  <2> QED  BY <1>3, <1>5, <2>1
<1> QED  BY <1>1, <1>3, <1>4, <1>5

\* A dry run leaves the devices alone, and its plan is of what they hold.
LEMMA DryRunStep ==
    ASSUME IInv, NEW k \in Call, Handle(k), req[k].dry_run
    PROVE  /\ UNCHANGED devices
           /\ reply'[k].status = "planned" /\ reply[k].status # "planned" =>
                  reply'[k].rollback = lifetime_match(Current(k))
<1>1. pc[k] \notin Applying
  BY DEF IInv, GatesPassed
<1>2. \/ Refuse(k) \/ Raise(k) \/ Admit(k) \/ Preview(k) \/ ReadBefore(k) \/ ReadBeforeFails(k)
  BY <1>1 DEF Handle, EnterProfile, StrayLine, TakeLifetime, IgnoreLine, SaveConfig, ReadAfter,
       ReadValidate, ApplyFails, Applying
<1> QED  BY <1>2 DEF Refuse, Raise, Admit, Preview, ReadBefore, ReadBeforeFails, Answer,
            GoTo, IInv, TypeOK

LEMMA HandleHostIInv ==
    ASSUME HostIInv, IInv', SingleLoop, NumProfiles = 1,
           NEW k \in Call, Handle(k), UNCHANGED hostvars
    PROVE  HostIInv'
<1>1. /\ IInv /\ TypeOK /\ OneAfterTheOther /\ turn \in Call
      /\ Call = 1 .. MaxTurns /\ turn \in 0 .. MaxTurns
  BY WhoMoves, RemediationAssumption DEF HostIInv, IInv, OneAfterTheOther
<1>2. /\ req' = req /\ bounds' = bounds
      /\ pc' = [pc EXCEPT ![k] = pc'[k]] /\ reply' = [reply EXCEPT ![k] = reply'[k]]
      /\ pc[k] \notin {"idle", "done"} /\ pc'[k] \notin {"idle", "queued"}
      /\ pc \in [Call -> PC] /\ pc' \in [Call -> PC]
  BY <1>1, HandleFrame DEF TypeOK, IInv
<1>3. /\ UNCHANGED <<host, turn, impatient, kept, original>>
      /\ edits' = 0 /\ original' \in Text
  BY <1>2 DEF hostvars, bounds, HostIInv
<1>4. OneAfterTheOther'
  <2>1. ASSUME NEW c \in Call
        PROVE  /\ c > turn <=> pc'[c] = "idle"
               /\ c < turn => pc'[c] # "queued"
               /\ c < turn /\ pc'[c] \in Inside => pc'[turn] = "queued"
    BY <1>1, <1>2, WhoMoves DEF OneAfterTheOther, Inside
  <2>2. impatient => pc'[turn] \in Inside \cup {"done"}
    BY <1>1, <1>2 DEF OneAfterTheOther, Inside
  <2>3. host \in {"approval", "fixed", "restored"} => pc'[turn] = "done"
    BY <1>1, <1>2, WhoMoves DEF OneAfterTheOther
  <2> QED  BY <1>1, <1>3, <2>1, <2>2, <2>3 DEF OneAfterTheOther
<1>5. AskedFor'
  BY <1>2, <1>3 DEF HostIInv, AskedFor
<1>6. host \in {"idle", "planning", "approval", "declined"} => req[k].dry_run
  BY <1>2 DEF HostIInv, AskedFor
<1>7. UntouchedUntilApproved'
  BY <1>1, <1>3, <1>6, DryRunStep DEF HostIInv, UntouchedUntilApproved, devices
<1>8. PlannedIsOriginal'
  <2> SUFFICES ASSUME host \in {"planning", "approval"}, pc'[turn] = "done",
                      reply'[turn].status = "planned"
               PROVE  reply'[turn].rollback = lifetime_match(original)
    BY <1>3 DEF PlannedIsOriginal
  <2>1. k = turn
    BY <1>2, WhoMoves
  <2>2. reply[turn].status # "planned"
    BY <1>1, <1>2, <2>1 DEF IInv, AnsweredAtEnd, NoReply
  <2>3. reply'[turn].rollback = lifetime_match(Current(turn))
    BY <1>1, <1>6, <2>1, <2>2, DryRunStep
  <2>4. Current(turn) = original
    <3>1. req[turn].target = Goal.target
      BY <2>1, <1>1, <1>2 DEF HostIInv, AskedFor
    <3> QED  BY <3>1 DEF HostIInv, UntouchedUntilApproved, Current, Target
  <2> QED  BY <2>3, <2>4
<1>9. KeptIsOriginal'
  BY <1>3 DEF HostIInv, KeptIsOriginal
<1>10. TookIsDurable'
  <2> SUFFICES ASSUME pc'[turn] = "done", reply'[turn].validated
               PROVE  /\ (Current(turn)[profile_name(req[turn].profile)])' = req[turn].seconds
                      /\ startup'[Target(turn)'] = Current(turn)'
    BY <1>2, <1>3 DEF TookIsDurable
  <2>1. k = turn
    BY <1>2, WhoMoves
  <2>2. ~reply[turn].validated
    BY <1>1, <1>2, <2>1 DEF IInv, AnsweredAtEnd, NoReply
  <2>3. /\ Current(turn)[profile_name(req[turn].profile)] = req[turn].seconds
        /\ startup[Target(turn)] = Current(turn)
    BY <1>1, <2>1, <2>2, ValidatedTook DEF HostIInv, Next
  <2>4. UNCHANGED devices
    BY <1>1, <2>1, <2>2 DEF Handle, Refuse, Raise, Admit, Preview, ReadBefore,
         ReadBeforeFails, EnterProfile, StrayLine, TakeLifetime, IgnoreLine, SaveConfig,
         ReadAfter, ReadValidate, ApplyFails
  <2> QED  BY <1>2, <1>3, <2>3, <2>4 DEF Current, Target, devices
<1>11. ConcludedRightly'
  <2>1. host \in {"fixed", "restored"} => pc[turn] = "done"
    BY <1>1 DEF OneAfterTheOther
  <2>2. host \in {"fixed", "restored"} => reply'[turn] = reply[turn]
    BY <1>1, <1>2, <2>1 DEF TypeOK
  <2> QED  BY <1>3, <2>2 DEF HostIInv, ConcludedRightly
<1> QED  BY <1>3, <1>4, <1>5, <1>7, <1>8, <1>9, <1>10, <1>11 DEF HostIInv

\* A device reloads: a change that took is saved, and a device not touched yet
\* comes back as it was.
LEMMA ReloadHostIInv ==
    ASSUME HostIInv, IInv', Reload(Goal.target), UNCHANGED hostvars
    PROVE  HostIInv'
<1>1. TypeOK /\ OneAfterTheOther /\ Goal.target \in Device
      /\ turn \in 0 .. MaxTurns /\ Call = 1 .. MaxTurns
  BY RemediationAssumption DEF HostIInv, IInv, OneAfterTheOther, Admitted, InInventory
<1>2. /\ UNCHANGED <<req, reply, startup, edits, host, turn, impatient, kept, original>>
      /\ running' = [running EXCEPT ![Goal.target] = startup[Goal.target]]
      /\ \A c \in Call : \/ pc'[c] = pc[c]
                         \/ pc[c] \in InSession /\ pc'[c] = "broken"
  BY DEF Reload, hostvars
<1>3. /\ \A c \in Call : pc[c] \in Inside <=> pc'[c] \in Inside
      /\ \A c \in Call : pc[c] \notin Inside => pc'[c] = pc[c]
      /\ \A c \in Call : pc'[c] \notin Inside => pc'[c] = pc[c]
  BY <1>2 DEF Inside, InSession, PC
<1>4. OneAfterTheOther'
  <2>1. "idle" \notin Inside /\ "queued" \notin Inside /\ "done" \notin Inside
    BY DEF Inside
  <2>2. turn # 0 => turn \in Call
    BY <1>1
  <2> QED  BY <1>1, <1>2, <1>3, <2>1, <2>2 DEF OneAfterTheOther
<1>5. AskedFor'
  BY <1>2, <1>3 DEF HostIInv, AskedFor, Inside
<1>6. UntouchedUntilApproved' /\ KeptIsOriginal' /\ ConcludedRightly'
  BY <1>1, <1>2 DEF HostIInv, UntouchedUntilApproved, KeptIsOriginal, ConcludedRightly, TypeOK
<1>7. PlannedIsOriginal' /\ TookIsDurable'
  <2>1. turn # 0 /\ pc'[turn] = "done" => pc[turn] = "done"
    BY <1>1, <1>3 DEF Inside
  <2>2. ASSUME turn # 0, startup[Target(turn)] = Current(turn)
        PROVE  Current(turn)' = Current(turn)
    BY <1>1, <1>2, <2>2 DEF Current, Target, TypeOK
  <2>3. TookIsDurable'
    BY <1>2, <2>1, <2>2 DEF HostIInv, TookIsDurable, Target
  <2>4. host = "planning" \/ host = "approval" => turn # 0
    BY <1>1 DEF OneAfterTheOther
  <2> QED  BY <1>2, <2>1, <2>3, <2>4 DEF HostIInv, PlannedIsOriginal
<1> QED  BY <1>2, <1>4, <1>5, <1>6, <1>7 DEF HostIInv

\* The bridge restarts: what was in flight is over, the devices are as they
\* are.
LEMMA RestartHostIInv ==
    ASSUME HostIInv, IInv', Restart, UNCHANGED hostvars
    PROVE  HostIInv'
<1>1. TypeOK /\ OneAfterTheOther /\ turn \in 0 .. MaxTurns /\ Call = 1 .. MaxTurns
  BY RemediationAssumption DEF HostIInv, IInv, OneAfterTheOther
<1>2. /\ UNCHANGED <<req, running, startup, edits, host, turn, impatient, kept, original>>
      /\ \A c \in Call : pc'[c] = IF pc[c] = "idle" THEN "idle" ELSE "done"
      /\ \A c \in Call : \/ reply'[c] = reply[c] /\ pc[c] \in {"idle", "done"}
                         \/ reply'[c] = [NoReply EXCEPT !.status = "lost"]
  BY DEF Restart, hostvars, devices, bounds
<1>3. turn # 0 => turn \in Call /\ pc[turn] # "idle"
  BY <1>1 DEF OneAfterTheOther
<1>4. OneAfterTheOther'
  <2>1. ASSUME NEW c \in Call
        PROVE  /\ c > turn <=> pc'[c] = "idle"
               /\ pc'[c] # "queued" /\ pc'[c] \notin Inside
    BY <1>1, <1>2 DEF OneAfterTheOther, Inside
  <2>2. turn # 0 => pc'[turn] = "done"
    BY <1>2, <1>3
  <2>3. host \in {"approval", "fixed", "restored"} => turn # 0
    BY <1>1 DEF OneAfterTheOther
  <2> QED  BY <1>1, <1>2, <2>1, <2>2, <2>3 DEF OneAfterTheOther
<1>5. AskedFor' /\ UntouchedUntilApproved' /\ KeptIsOriginal'
  BY <1>2 DEF HostIInv, AskedFor, UntouchedUntilApproved, KeptIsOriginal
<1>6. turn # 0 /\ reply'[turn].status # "lost" => reply'[turn] = reply[turn] /\ pc[turn] = "done"
  BY <1>2, <1>3 DEF NoReply
<1>7. turn # 0 /\ reply'[turn].validated => reply'[turn] = reply[turn] /\ pc[turn] = "done"
  BY <1>2, <1>3 DEF NoReply
<1>8. host \notin {"idle"} => turn # 0
  BY <1>1 DEF OneAfterTheOther
<1>9. PlannedIsOriginal' /\ TookIsDurable'
  BY <1>2, <1>6, <1>7, <1>8 DEF HostIInv, PlannedIsOriginal, TookIsDurable, Current, Target
<1>10. ConcludedRightly'
  <2>1. host \in {"fixed", "restored"} => pc[turn] = "done" /\ turn \in Call
    BY <1>1, <1>3, <1>8 DEF OneAfterTheOther
  <2>2. host \in {"fixed", "restored"} => reply'[turn] = reply[turn]
    BY <2>1 DEF Restart
  <2> QED  BY <1>2, <2>2 DEF HostIInv, ConcludedRightly
<1> QED  BY <1>2, <1>4, <1>5, <1>9, <1>10 DEF HostIInv

LEMMA NextHostIInv ==
    ASSUME HostIInv, [HostNext]_allvars, SingleLoop, NumProfiles = 1
    PROVE  HostIInv'
<1>1. [Next]_vars
  BY HostStepsAreSteps DEF HostIInv, IInv, OneAfterTheOther
<1>2. IInv'
  BY <1>1, NextIInv DEF HostIInv
<1>3. CASE HostStep
  BY <1>2, <1>3, HostStepHostIInv
<1>4. CASE GiveUp
  BY <1>2, <1>4, GiveUpHostIInv
<1>5. CASE Around
  BY <1>2, <1>5, HandleHostIInv, ReloadHostIInv, RestartHostIInv DEF Around
<1>6. CASE UNCHANGED allvars
  BY <1>2, <1>6 DEF allvars, vars, hostvars, devices, bounds, HostIInv, OneAfterTheOther,
       AskedFor, UntouchedUntilApproved, PlannedIsOriginal, KeptIsOriginal,
       TookIsDurable, ConcludedRightly, Current, Target
<1> QED  BY <1>3, <1>4, <1>5, <1>6 DEF HostNext

\* As a service on devices of one lifetime line that nobody else writes to, for any
\* number of calls, reloads and restarts: the invariant of the host's run.
THEOREM HostInvariance ==
    ASSUME SingleLoop, NumProfiles = 1
    PROVE  HostSpec => []HostIInv
<1>1. HostIInv /\ [HostNext]_allvars => HostIInv'
  BY NextHostIInv
<1> QED  BY <1>1, InitHostIInv, PTL DEF HostSpec

\* Planning leaves no trace, however often it was retried or lost.
THEOREM PlanningLeavesNoTrace ==
    ASSUME SingleLoop, NumProfiles = 1
    PROVE  HostSpec => []UntouchedUntilApproved
<1>1. HostIInv => UntouchedUntilApproved
  BY DEF HostIInv
<1> QED  BY <1>1, HostInvariance, PTL

\* A change the host has seen validated stays: no call of its own it had given
\* up or retried comes after it, and no reload takes it back.
THEOREM FixesLast ==
    ASSUME SingleLoop, NumProfiles = 1
    PROVE  HostSpec => []FixedIsDurable
<1>1. HostIInv => FixedIsDurable
  <2> SUFFICES ASSUME HostIInv, host = "fixed" PROVE FixedIsDurable
    BY DEF FixedIsDurable
  <2>1. turn # 0 /\ pc[turn] = "done" /\ reply[turn].validated /\ req[turn] = Goal
    BY DEF HostIInv, OneAfterTheOther, ConcludedRightly, AskedFor
  <2> QED  BY <2>1 DEF HostIInv, TookIsDurable, FixedIsDurable, Current, Target
<1> QED  BY <1>1, HostInvariance, PTL

\* A remediation undone ends where it began, whatever came in between.
THEOREM UndoneIsAsFound ==
    ASSUME SingleLoop, NumProfiles = 1
    PROVE  HostSpec => []RestoredIsOriginal
<1>1. HostIInv => RestoredIsOriginal
  <2> SUFFICES ASSUME HostIInv, host = "restored"
               PROVE  running[Goal.target] = original /\ startup[Goal.target] = original
    BY DEF RestoredIsOriginal
  <2>1. /\ turn # 0 /\ pc[turn] = "done" /\ reply[turn].validated
        /\ req[turn] = [Goal EXCEPT !.seconds = kept] /\ kept # Unset
    BY DEF HostIInv, OneAfterTheOther, ConcludedRightly, AskedFor
  <2>2. /\ req[turn].target = Goal.target /\ req[turn].profile = Goal.profile
        /\ req[turn].seconds = kept
    BY <2>1, RemediationAssumption, ApplyChangeAssumption DEF Request
  <2>3. /\ running[Goal.target][profile_name(Goal.profile)] = kept
        /\ startup[Goal.target] = running[Goal.target]
    BY <2>1, <2>2 DEF HostIInv, TookIsDurable, Current, Target
  <2>4. kept = lifetime_match(original) /\ original \in Text
    BY <2>1 DEF HostIInv, KeptIsOriginal
  <2>5. profile_name(Goal.profile) \in Profile /\ Goal.target \in Device /\ Profile = {profile_name(Goal.profile)}
    BY RemediationAssumption, AdmittedRequest DEF Profile
  <2>6. original[profile_name(Goal.profile)] = kept
    BY <2>1, <2>4, <2>5, LifetimeMatchOfOnlyProfile
  <2>7. running[Goal.target] \in Text
    BY <2>5 DEF HostIInv, IInv, TypeOK
  <2>8. running[Goal.target] = original
    BY <2>3, <2>4, <2>5, <2>6, <2>7 DEF Text
  <2> QED  BY <2>3, <2>8
<1> QED  BY <1>1, HostInvariance, PTL
=============================================================================
