--------------------------- MODULE ReversibleProofs ---------------------------
(***************************************************************************)
(* ApplyChange implements ReversibleChange, for any number of calls,       *)
(* devices and lifetimes: as a service, with one lifetime line per device, *)
(* in lower case, and nobody else there.  The session's second line is     *)
(* the abstract attempt; everything before it is waiting, and what follows *)
(* up to the answer is invisible.  That the rollback is the value at the   *)
(* attempt is PlanIsCurrent, that the verdict is true at the answer is     *)
(* ReadBackIsSaved.                                                        *)
(***************************************************************************)
EXTENDS ApplyChangeProofs

\* The setting as the refinement mapping reads it, and what it says of a call.
SettingOf(d) == lifetime_match(running[d])
ChangeOf(c) ==
    IF Attempted(c) THEN [device |-> Target(c), value |-> req[c].seconds] ELSE NoRequest
UndoOf(c) ==
    IF StageOf(c) = "previewed" THEN reply[c].rollback
    ELSE IF Attempted(c) THEN lifetime_match(before[c]) ELSE Unset

Settings == [d \in Device |-> SettingOf(d)]
Stages   == [c \in Call |-> StageOf(c)]
Changes  == [c \in Call |-> ChangeOf(c)]
Undos    == [c \in Call |-> UndoOf(c)]
Verdicts == [c \in Call |-> reply[c].validated]

\* A step of one call is invisible in the others.
LEMMA OtherViews ==
    ASSUME TypeOK, NEW c \in Call, Handle(c), NEW k \in Call, k # c
    PROVE  /\ StageOf(k)' = StageOf(k) /\ ChangeOf(k)' = ChangeOf(k)
           /\ UndoOf(k)' = UndoOf(k) /\ reply'[k].validated = reply[k].validated
<1>1. req'[k] = req[k] /\ pc'[k] = pc[k] /\ reply'[k] = reply[k]
  BY HandleFrame DEF TypeOK
<1>2. before'[k] = before[k]
  BY DEF Handle, Refuse, Raise, Admit, Preview, ReadBefore, ReadBeforeFails,
       EnterProfile, StrayLine, TakeLifetime, IgnoreLine, SaveConfig, ReadAfter,
       ReadValidate, ApplyFails, TypeOK, texts
<1>3. StageOf(k)' = StageOf(k)
  BY <1>1 DEF StageOf
<1> QED  BY <1>1, <1>2, <1>3 DEF ChangeOf, UndoOf, Attempted, Target

\* So the view of all calls changes in the place of that call only.
LEMMA ViewFrame ==
    ASSUME TypeOK, NEW c \in Call, Handle(c)
    PROVE  /\ Stages' = [Stages EXCEPT ![c] = StageOf(c)']
           /\ Changes' = [Changes EXCEPT ![c] = ChangeOf(c)']
           /\ Undos' = [Undos EXCEPT ![c] = UndoOf(c)']
           /\ Verdicts' = [Verdicts EXCEPT ![c] = reply'[c].validated]
BY OtherViews DEF Stages, Changes, Undos, Verdicts

\* Before its end a call has no answer, no verdict in particular.
LEMMA NoVerdictYet ==
    ASSUME AnsweredAtEnd, NEW c \in Call, pc[c] # "done"
    PROVE  reply[c].validated = FALSE /\ reply[c].status = "none"
BY DEF AnsweredAtEnd, NoReply

\* The request is turned down: a step of ReversibleChange's Decline.
LEMMA DeclineStep ==
    ASSUME IInv, NEW c \in Call, Handle(c), Refuse(c) \/ Raise(c) \/ ReadBeforeFails(c)
    PROVE  Reversible!Decline(c)
<1> USE DEF IInv
<1>1. /\ pc[c] \in {"queued", "read_before"} /\ pc'[c] = "done"
      /\ reply'[c].status \in {"refused", "raised"} /\ reply'[c].validated = FALSE
      /\ UNCHANGED devices
  BY DEF Refuse, Raise, ReadBeforeFails, Answer, GoTo, TypeOK
<1>2. StageOf(c) = "waiting" /\ StageOf(c)' = "declined"
  BY <1>1 DEF StageOf
<1>3. ChangeOf(c)' = ChangeOf(c) /\ UndoOf(c)' = UndoOf(c)
  BY <1>2 DEF ChangeOf, UndoOf, Attempted
<1>4. reply[c].validated = reply'[c].validated
  BY <1>1, NoVerdictYet
<1>5. /\ Stages[c] = "waiting" /\ Stages' = [Stages EXCEPT ![c] = "declined"]
      /\ UNCHANGED <<Settings, Changes, Undos, Verdicts>>
  BY <1>1, <1>2, <1>3, <1>4, ViewFrame
     DEF Settings, SettingOf, devices, Stages, Changes, Undos, Verdicts
<1> QED  BY <1>5 DEF Reversible!Decline, Settings, SettingOf, Stages, Changes,
            ChangeOf, Undos, UndoOf, Verdicts

\* A dry run: a step of Preview.
LEMMA PreviewStep ==
    ASSUME IInv, NEW c \in Call, Handle(c), Preview(c)
    PROVE  Reversible!Preview(c)
<1> USE DEF IInv
<1>1. Target(c) \in Device
  BY InsideCall DEF Preview, Inside, PC
<1>2. /\ pc[c] = "read_before" /\ pc'[c] = "done"
      /\ reply'[c].status = "planned" /\ reply'[c].validated = FALSE
      /\ reply'[c].rollback = SettingOf(Target(c))
      /\ UNCHANGED devices
  BY DEF Preview, Answer, GoTo, TypeOK, SettingOf, Current
<1>3. StageOf(c) = "waiting" /\ StageOf(c)' = "previewed"
  BY <1>2 DEF StageOf
<1>4. ChangeOf(c)' = ChangeOf(c) /\ UndoOf(c)' = SettingOf(Target(c))
  BY <1>2, <1>3 DEF ChangeOf, UndoOf, Attempted
<1>5. reply[c].validated = reply'[c].validated
  BY <1>2, NoVerdictYet
<1>6. /\ Stages[c] = "waiting" /\ Stages' = [Stages EXCEPT ![c] = "previewed"]
      /\ Undos' = [Undos EXCEPT ![c] = Settings[Target(c)]]
      /\ UNCHANGED <<Settings, Changes, Verdicts>>
  BY <1>1, <1>2, <1>3, <1>4, <1>5, ViewFrame
     DEF Settings, SettingOf, devices, Stages, Changes, Undos, Verdicts
<1>7. \E d \in Device : Undos' = [Undos EXCEPT ![c] = Settings[d]]
  BY <1>1, <1>6
<1> QED  BY <1>6, <1>7 DEF Reversible!Preview, Settings, SettingOf, Stages, Changes,
            ChangeOf, Undos, UndoOf, Verdicts

\* A failure after the before-state was read: a step of Fail.
LEMMA FailStep ==
    ASSUME IInv, NEW c \in Call, Handle(c), ApplyFails(c)
    PROVE  Reversible!Fail(c)
<1> USE DEF IInv
<1>1. /\ pc[c] \in Applying /\ pc'[c] = "done"
      /\ reply'[c].status = "failed" /\ reply'[c].validated = FALSE
      /\ UNCHANGED devices
  BY DEF ApplyFails, Answer, GoTo, TypeOK
<1>2. StageOf(c) \in {"waiting", "attempted"} /\ StageOf(c)' = "failed"
  BY <1>1 DEF StageOf, Applying
<1>3. ChangeOf(c)' = NoRequest /\ UndoOf(c)' = Unset
  BY <1>2 DEF ChangeOf, UndoOf, Attempted
<1>4. reply[c].validated = reply'[c].validated
  BY <1>1, NoVerdictYet DEF Applying
<1>5. /\ Stages[c] \in Reversible!Open /\ Stages' = [Stages EXCEPT ![c] = "failed"]
      /\ Changes' = [Changes EXCEPT ![c] = NoRequest]
      /\ Undos' = [Undos EXCEPT ![c] = Unset]
      /\ UNCHANGED <<Settings, Verdicts>>
  BY <1>1, <1>2, <1>3, <1>4, ViewFrame
     DEF Settings, SettingOf, devices, Stages, Verdicts, Reversible!Open
<1> QED  BY <1>5 DEF Reversible!Fail, Settings, SettingOf, Stages, Changes,
            ChangeOf, Undos, UndoOf, Verdicts

\* With one profile, a device whose profile has the lifetime asked for is set
\* to it, and one that has another is not.
LEMMA SettingOfOnlyProfile ==
    ASSUME NumProfiles = 1, NEW text \in Text, NEW p \in Profile, NEW v \in Lifetimes
    PROVE  (lifetime_match(text) = v) <=> (text[p] = v)
<1>1. Unset \notin Lifetimes
  BY WritelistAssumption DEF Unset
<1> QED  BY <1>1, LifetimeMatchOfOnlyProfile

\* The second line of the configuration session, taken or ignored: a step of
\* Attempt.
LEMMA AttemptStep ==
    ASSUME IInv, SingleLoop, NumProfiles = 1, Undisturbed,
           \A r \in Requests : Admitted(r) => r.seconds \in Lifetimes,
           NEW c \in Call, Handle(c), pc[c] = "set", TakeLifetime(c) \/ IgnoreLine(c)
    PROVE  Reversible!Attempt(c)
<1> USE DEF IInv
<1> DEFINE w == [device |-> Target(c), value |-> req[c].seconds]
<1>1. /\ Target(c) \in Device /\ profile_name(req[c].profile) \in Profile
      /\ Current(c) \in Text /\ Current(c) = running[Target(c)]
      /\ req[c].seconds \in Lifetimes
  BY InsideCall DEF Inside, PC, GatesPassed, Current
<1>2. /\ pc'[c] = "save" /\ reply'[c] = reply[c] /\ before'[c] = before[c]
      /\ req'[c] = req[c]
  BY DEF TakeLifetime, IgnoreLine, GoTo, TypeOK, texts
<1>3. StageOf(c) = "waiting" /\ StageOf(c)' = "attempted"
  BY <1>2 DEF StageOf
<1>4. ChangeOf(c)' = w /\ UndoOf(c)' = lifetime_match(before[c])
  BY <1>2, <1>3 DEF ChangeOf, UndoOf, Attempted, Target
<1>5. lifetime_match(before[c]) = SettingOf(Target(c))
  BY <1>1 DEF PlanIsCurrent, SettingOf
<1>6. Settings' \in {Settings, [Settings EXCEPT ![Target(c)] = req[c].seconds]}
  <2>1. CASE IgnoreLine(c)
    BY <2>1 DEF IgnoreLine, devices, Settings, SettingOf
  <2>2. CASE TakeLifetime(c)
    <3>1. /\ running'[Target(c)] \in Text /\ req[c].profile \in Profile
          /\ running'[Target(c)][req[c].profile] = req[c].seconds
      BY <1>1, <2>2 DEF TakeLifetime, TypeOK, Text, Setting
    <3>2. SettingOf(Target(c))' = req[c].seconds
      <4>1. lifetime_match(running'[Target(c)]) = req[c].seconds
        BY <1>1, <3>1, SettingOfOnlyProfile
      <4> QED  BY <1>2, <4>1 DEF SettingOf, Target
    <3>3. \A d \in Device \ {Target(c)} : running'[d] = running[d]
      BY <1>1, <2>2 DEF TakeLifetime, TypeOK
    <3> QED  BY <1>1, <1>2, <3>2, <3>3 DEF Settings, SettingOf, Target
  <2> QED  BY <2>1, <2>2
<1>7. w \in Reversible!Change /\ w.device = Target(c) /\ w.value = req[c].seconds
  BY <1>1 DEF Reversible!Change
<1>8. /\ Stages[c] = "waiting" /\ Stages' = [Stages EXCEPT ![c] = "attempted"]
      /\ Changes' = [Changes EXCEPT ![c] = w]
      /\ Undos' = [Undos EXCEPT ![c] = Settings[w.device]]
      /\ Settings' \in {Settings, [Settings EXCEPT ![w.device] = w.value]}
      /\ UNCHANGED Verdicts
  BY <1>1, <1>2, <1>3, <1>4, <1>5, <1>6, <1>7, ViewFrame
     DEF Settings, SettingOf, Stages, Verdicts
<1> HIDE DEF w
<1> QED  BY <1>7, <1>8 DEF Reversible!Attempt, Settings, SettingOf, Stages, Changes,
            ChangeOf, Undos, UndoOf, Verdicts

\* The answer to a change: a step of Report.
LEMMA ReportStep ==
    ASSUME IInv, SingleLoop, NumProfiles = 1, Undisturbed,
           \A r \in Requests : Admitted(r) => r.seconds \in Lifetimes,
           Device \subseteq LowerCase,
           NEW c \in Call, Handle(c), ReadValidate(c)
    PROVE  Reversible!Report(c)
<1> USE DEF IInv
<1> DEFINE verdict == check_reflected(req[c], reads_text(Current(c), after[c]))
<1>1. /\ Target(c) \in Device /\ profile_name(req[c].profile) \in Profile
      /\ Current(c) \in Text /\ Current(c) = running[Target(c)]
      /\ req[c].seconds \in Lifetimes
  BY InsideCall DEF ReadValidate, Inside, PC, GatesPassed, Current
<1>2. /\ pc[c] = "read_validate" /\ pc'[c] = "done"
      /\ reply'[c].status = "applied" /\ reply'[c].validated = verdict
      /\ before'[c] = before[c] /\ req'[c] = req[c] /\ UNCHANGED devices
  BY DEF ReadValidate, Answer, GoTo, TypeOK, texts
<1>3. StageOf(c) = "attempted" /\ StageOf(c)' = "reported"
  BY <1>2 DEF StageOf
<1>4. ChangeOf(c)' = ChangeOf(c) /\ UndoOf(c)' = UndoOf(c)
  BY <1>2, <1>3 DEF ChangeOf, UndoOf, Attempted, Target
<1>5. verdict = (SettingOf(Target(c)) = req[c].seconds)
  <2>1. after[c] = Current(c)
    BY <1>2 DEF ReadBackIsSaved, Undisturbed
  <2>2. reads_text(Current(c), after[c]) = Current(c)
    BY <2>1 DEF reads_text
  <2>3. Profile = {profile_name(req[c].profile)} /\ req[c].target \in LowerCase
    BY <1>1 DEF Profile, Target
  <2>4. verdict <=> Current(c)[profile_name(req[c].profile)] = req[c].seconds
    BY <2>2, <2>3 DEF check_reflected
  <2>5. verdict \in BOOLEAN
    BY VerdictType
  <2> QED  BY <1>1, <2>4, <2>5, SettingOfOnlyProfile DEF SettingOf
<1> HIDE DEF verdict
<1>6. ChangeOf(c).device = Target(c) /\ ChangeOf(c).value = req[c].seconds
  BY <1>3 DEF ChangeOf, Attempted
<1>7. /\ Stages[c] = "attempted" /\ Stages' = [Stages EXCEPT ![c] = "reported"]
      /\ Verdicts' = [Verdicts EXCEPT ![c] = Settings[Changes[c].device] = Changes[c].value]
      /\ UNCHANGED <<Settings, Changes, Undos>>
  BY <1>1, <1>2, <1>3, <1>4, <1>5, <1>6, ViewFrame
     DEF Settings, SettingOf, devices, Stages, Changes, Undos
<1> QED  BY <1>7 DEF Reversible!Report, Settings, SettingOf, Stages, Changes,
            ChangeOf, Undos, UndoOf, Verdicts

\* The bridge dies with what is in flight: a step of Lose.
LEMMA LoseStep ==
    ASSUME IInv, Restart
    PROVE  Reversible!Lose
<1> USE DEF IInv
<1> DEFINE S == {c \in Call : pc[c] \notin {"idle", "done"}}
<1>1. ASSUME NEW c \in S
      PROVE  /\ StageOf(c) \in Reversible!Open /\ StageOf(c)' = "lost"
             /\ ChangeOf(c)' = NoRequest /\ UndoOf(c)' = Unset
             /\ reply'[c].validated = reply[c].validated
  <2>1. pc[c] \notin {"idle", "done"} /\ pc'[c] = "done" /\ reply'[c].status = "lost"
    BY DEF Restart, NoReply
  <2>2. StageOf(c) \in Reversible!Open /\ StageOf(c)' = "lost"
    BY <2>1 DEF StageOf, Reversible!Open
  <2>3. reply'[c].validated = FALSE /\ reply[c].validated = FALSE
    BY <2>1, NoVerdictYet DEF Restart, NoReply
  <2> QED  BY <2>2, <2>3 DEF ChangeOf, UndoOf, Attempted
<1>2. ASSUME NEW c \in Call \ S
      PROVE  /\ StageOf(c)' = StageOf(c) /\ ChangeOf(c)' = ChangeOf(c)
             /\ UndoOf(c)' = UndoOf(c) /\ reply'[c] = reply[c]
  <2>1. pc'[c] = pc[c] /\ reply'[c] = reply[c] /\ req'[c] = req[c] /\ before'[c] = before[c]
    BY DEF Restart, texts
  <2>2. StageOf(c)' = StageOf(c)
    BY <2>1 DEF StageOf
  <2> QED  BY <2>1, <2>2 DEF ChangeOf, UndoOf, Attempted, Target
<1>3. S \in SUBSET {c \in Call : Stages[c] \in Reversible!Open}
  BY <1>1 DEF Stages
<1>4. /\ Stages' = [c \in Call |-> IF c \in S THEN "lost" ELSE Stages[c]]
      /\ Changes' = [c \in Call |-> IF c \in S THEN NoRequest ELSE Changes[c]]
      /\ Undos' = [c \in Call |-> IF c \in S THEN Unset ELSE Undos[c]]
      /\ UNCHANGED <<Settings, Verdicts>>
  BY <1>1, <1>2 DEF Stages, Changes, Undos, Verdicts, Settings, SettingOf, Restart, devices
<1> HIDE DEF S
<1> QED  BY <1>3, <1>4 DEF Reversible!Lose, Settings, SettingOf, Stages, Changes,
            ChangeOf, Undos, UndoOf, Verdicts

\* Every other step of a call is invisible.
LEMMA HiddenStep ==
    ASSUME IInv, NEW c \in Call, Handle(c),
           \/ Admit(c) \/ ReadBefore(c) \/ EnterProfile(c) \/ SaveConfig(c) \/ ReadAfter(c)
           \/ StrayLine(c) \/ (pc[c] = "enter" /\ IgnoreLine(c))
    PROVE  UNCHANGED <<Settings, Stages, Changes, Undos, Verdicts>>
<1> USE DEF IInv
<1>1. /\ reply'[c] = reply[c] /\ req'[c] = req[c]
      /\ \/ pc[c] \in {"queued", "read_before", "enter"} /\ pc'[c] \in {"read_before", "enter", "set"}
         \/ /\ pc[c] \in {"save", "read_after"} /\ pc'[c] \in {"read_after", "read_validate"}
            /\ before'[c] = before[c]
  BY DEF Admit, ReadBefore, EnterProfile, StrayLine, SaveConfig, ReadAfter, IgnoreLine,
       GoTo, TypeOK, texts
<1>2. StageOf(c)' = StageOf(c)
  BY <1>1 DEF StageOf
<1>3. ChangeOf(c)' = ChangeOf(c)
  BY <1>1, <1>2 DEF ChangeOf, Attempted, Target
<1>4. UndoOf(c)' = UndoOf(c)
  <2>1. CASE Attempted(c)
    BY <1>1, <1>2, <2>1 DEF UndoOf, Attempted, StageOf
  <2>2. CASE ~Attempted(c)
    BY <1>1, <1>2, <2>2 DEF UndoOf, Attempted
  <2> QED  BY <2>1, <2>2
<1>5. UNCHANGED Settings
  <2>1. CASE EnterProfile(c)
    <3>1. Target(c) \in Device /\ Current(c)' = running'[Target(c)]
      BY <2>1, <1>1, InsideCall DEF EnterProfile, Inside, PC, Current, Target
    <3>2. SettingOf(Target(c))' = SettingOf(Target(c))
      <4>1. lifetime_match(running'[Target(c)]) = lifetime_match(running[Target(c)])
        BY <2>1, <3>1, EnterProfileInvisible DEF Current
      <4> QED  BY <1>1, <4>1 DEF SettingOf, Target
    <3>3. \A d \in Device \ {Target(c)} : running'[d] = running[d]
      BY <2>1, <3>1 DEF EnterProfile, TypeOK
    <3>4. ASSUME NEW d \in Device  PROVE SettingOf(d)' = SettingOf(d)
      <4>1. CASE d = Target(c)
        BY <3>2, <4>1, <1>1 DEF SettingOf, Target
      <4>2. CASE d # Target(c)
        BY <3>3, <4>2 DEF SettingOf
      <4> QED  BY <4>1, <4>2
    <3> QED  BY <3>4 DEF Settings
  <2>2. CASE ~EnterProfile(c)
    <3>1. running' = running
      BY <2>2 DEF Admit, ReadBefore, StrayLine, SaveConfig, ReadAfter, IgnoreLine, devices
    <3> QED  BY <3>1 DEF Settings, SettingOf
  <2> QED  BY <2>1, <2>2
<1> QED  BY <1>1, <1>2, <1>3, <1>4, <1>5, ViewFrame DEF Stages, Changes, Undos, Verdicts

\* A call that arrives is waiting as it was before.
LEMMA SubmitStep ==
    ASSUME IInv, NEW c \in Call, Submit(c)
    PROVE  UNCHANGED <<Settings, Stages, Changes, Undos, Verdicts>>
<1> USE DEF IInv
<1>1. /\ UNCHANGED <<reply, running, before>>
      /\ \A k \in Call \ {c} : pc'[k] = pc[k] /\ req'[k] = req[k]
      /\ pc[c] = "idle" /\ pc'[c] = "queued"
  BY DEF Submit, GoTo, TypeOK, texts, devices
<1>2. \A k \in Call : StageOf(k)' = StageOf(k)
  BY <1>1 DEF StageOf
<1>3. StageOf(c) = "waiting"
  BY <1>1 DEF StageOf
<1>4. \A k \in Call : ChangeOf(k)' = ChangeOf(k) /\ UndoOf(k)' = UndoOf(k)
  BY <1>1, <1>2, <1>3 DEF ChangeOf, UndoOf, Attempted, Target
<1> QED  BY <1>1, <1>2, <1>4 DEF Settings, SettingOf, Stages, Changes, Undos, Verdicts

\* Every step of the bridge is one of the abstract change, or invisible.
LEMMA EveryStep ==
    ASSUME IInv, [Next]_vars, SingleLoop, NumProfiles = 1,
           MaxReloads = 0, MaxConsoleEdits = 0, Device \subseteq LowerCase,
           \A r \in Requests : Admitted(r) => r.seconds \in Lifetimes
    PROVE  \/ Reversible!Next
           \/ UNCHANGED <<Settings, Stages, Changes, Undos, Verdicts>>
<1>1. Undisturbed
  BY DEF IInv, TypeOK, Undisturbed
<1>2. ASSUME NEW c \in Call, Handle(c)
      PROVE  \/ Reversible!Next
             \/ UNCHANGED <<Settings, Stages, Changes, Undos, Verdicts>>
  <2>1. CASE Refuse(c) \/ Raise(c) \/ ReadBeforeFails(c)
    BY <1>2, <2>1, DeclineStep DEF Reversible!Next
  <2>2. CASE Preview(c)
    BY <1>2, <2>2, PreviewStep DEF Reversible!Next
  <2>3. CASE pc[c] = "set" /\ (TakeLifetime(c) \/ IgnoreLine(c))
    BY <1>1, <1>2, <2>3, AttemptStep DEF Reversible!Next
  <2>4. CASE ReadValidate(c)
    BY <1>1, <1>2, <2>4, ReportStep DEF Reversible!Next
  <2>5. CASE ApplyFails(c)
    BY <1>2, <2>5, FailStep DEF Reversible!Next
  <2>6. CASE \/ Admit(c) \/ ReadBefore(c) \/ EnterProfile(c) \/ SaveConfig(c) \/ ReadAfter(c)
             \/ StrayLine(c) \/ (pc[c] = "enter" /\ IgnoreLine(c))
    BY <1>2, <2>6, HiddenStep
  <2> QED  BY <1>2, <2>1, <2>2, <2>3, <2>4, <2>5, <2>6 DEF Handle, TakeLifetime, IgnoreLine
<1>3. ASSUME NEW c \in Call, Submit(c)
      PROVE  UNCHANGED <<Settings, Stages, Changes, Undos, Verdicts>>
  BY <1>3, SubmitStep
<1>4. ASSUME NEW d \in Device, Reload(d) \/ ConsoleEdit(d)  PROVE FALSE
  BY <1>4 DEF Reload, ConsoleEdit, IInv, TypeOK
<1>5. CASE Restart
  BY <1>5, LoseStep DEF Reversible!Next
<1>6. CASE UNCHANGED vars
  BY <1>6 DEF vars, texts, devices, Settings, SettingOf, Stages, StageOf, Changes,
       ChangeOf, Undos, UndoOf, Attempted, Target, Verdicts
<1> QED  BY <1>2, <1>3, <1>4, <1>5, <1>6 DEF Next, Environment

\* The initial states are the abstract ones.
LEMMA InitImplements ==
    ASSUME Init
    PROVE  Reversible!Init
<1>1. \A c \in Call : StageOf(c) = "waiting" /\ reply[c].validated = FALSE
  BY DEF Init, StageOf, NoReply
<1>2. \A c \in Call : ChangeOf(c) = NoRequest /\ UndoOf(c) = Unset
  BY <1>1 DEF ChangeOf, UndoOf, Attempted
<1>3. \A d \in Device : SettingOf(d) \in Lifetimes \cup {Unset}
  BY ApplyChangeAssumption, LifetimeMatchType DEF Init, SettingOf
<1> QED  BY <1>1, <1>2, <1>3 DEF Reversible!Init, SettingOf, ChangeOf, UndoOf

\* As a service, with one lifetime line per device and nobody else there, the
\* four sessions of a change (mcp.py:129, 161, 162 and 169) are one atomic,
\* reversible, truthfully reported step: ApplyChange implements
\* ReversibleChange.  Every assumption is needed: a thread, a second lifetime
\* line, a reload or an engineer between the sessions shows through, so does a
\* device that prints the line in capitals (writelist.py:141), and a lifetime
\* that can be asked for has to be one a device can hold.
THEOREM ImplementsReversibleChange ==
    ASSUME SingleLoop, NumProfiles = 1, MaxReloads = 0, MaxConsoleEdits = 0,
           Device \subseteq LowerCase,
           \A r \in Requests : Admitted(r) => r.seconds \in Lifetimes
    PROVE  Spec => ChangesAreReversible
<1>1. Init => Reversible!Init
  BY InitImplements
<1>2. IInv /\ [Next]_vars => [Reversible!Next]_(Reversible!vars)
  <2> SUFFICES ASSUME IInv, [Next]_vars
               PROVE  [Reversible!Next]_(Reversible!vars)
    OBVIOUS
  <2>1. \/ Reversible!Next
        \/ UNCHANGED <<Settings, Stages, Changes, Undos, Verdicts>>
    BY EveryStep
  <2> QED  BY <2>1 DEF Reversible!vars, Settings, SettingOf, Stages, Changes,
              ChangeOf, Undos, UndoOf, Verdicts
<1> QED  BY <1>1, <1>2, Invariance, PTL DEF Spec, ChangesAreReversible, Reversible!Spec
=============================================================================
