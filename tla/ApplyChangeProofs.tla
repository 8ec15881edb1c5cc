-------------------------- MODULE ApplyChangeProofs --------------------------
(***************************************************************************)
(* What holds of the write path for any number of calls, devices, profiles *)
(* and lifetimes.  IInv is inductive: TypeOK and GatesPassed need each     *)
(* other (a call's target indexes the devices), PlanIsCurrent needs that   *)
(* no two calls are inside the handler at once (LoopHeld).                 *)
(***************************************************************************)
EXTENDS ApplyChange, WritelistProofs

\* A call inside the handler: its request, its device's text.
LEMMA InsideCall ==
    ASSUME TypeOK, GatesPassed, NEW c \in Call, pc[c] \in Inside
    PROVE  /\ req[c] \in Requests
           /\ Target(c) \in Device
           /\ profile_name(req[c].profile) \in Profile
           /\ Current(c) \in Text
           /\ Current(c) = running[req[c].target]
<1>1. pc[c] # "idle"
  BY DEF Inside
<1>2. req[c] \in Requests /\ Admitted(req[c])
  BY <1>1 DEF GatesPassed
<1>3. req[c].target \in Device /\ profile_name(req[c].profile) \in Profile
  BY <1>2, AdmittedRequest
<1> QED  BY <1>2, <1>3 DEF TypeOK, Target, Current

\* The initial states.
LEMMA InitIInv == Init => IInv
<1> SUFFICES ASSUME Init PROVE IInv
  OBVIOUS
<1>1. TypeOK
  <2>1. Blank \in Text
    BY DEF Blank, Text, Setting
  <2>2. NoReply \in Reply
    BY DEF NoReply, Reply, Status
  <2>3. running \in [Device -> Text]
    BY ApplyChangeAssumption DEF Init
  <2> QED  BY <2>1, <2>2, <2>3, ApplyChangeAssumption DEF Init, TypeOK, PC
<1>2. GatesPassed /\ LoopHeld /\ PlanIsCurrent
  BY DEF Init, GatesPassed, LoopHeld, PlanIsCurrent, Inside, Applying, PC
<1>3. AnsweredAtEnd /\ ReadBackIsSaved
  BY DEF Init, AnsweredAtEnd, ReadBackIsSaved
<1> QED  BY <1>1, <1>2, <1>3 DEF IInv

\* An answer is a step of its call to "done" that touches only replies and
\* the event loop.
LEMMA AnswerType ==
    ASSUME TypeOK, NEW c \in Call, NEW status \in Status,
           NEW rollback \in Lifetimes \cup {Unset}, NEW validated \in BOOLEAN,
           Answer(c, status, rollback, validated)
    PROVE  /\ pc' \in [Call -> PC]
           /\ reply' \in [Call -> Reply]
           /\ loop' \in Call \cup {NoCall}
<1>1. [status |-> status, rollback |-> rollback, validated |-> validated] \in Reply
  BY DEF Reply
<1> QED  BY <1>1 DEF TypeOK, Answer, GoTo, PC

LEMMA HandleTypeOK ==
    ASSUME TypeOK, GatesPassed, NEW c \in Call, Handle(c)
    PROVE  TypeOK'
<1> USE DEF texts, devices, bounds
<1>1. CASE Refuse(c)
  BY <1>1, AnswerType DEF Refuse, TypeOK, Status
<1>2. CASE Raise(c)
  BY <1>2, AnswerType DEF Raise, TypeOK, Status
<1>3. CASE Admit(c)
  BY <1>3 DEF Admit, GoTo, TypeOK, PC
<1>4. CASE Preview(c)
  <2>1. Current(c) \in Text
    BY <1>4, InsideCall DEF Preview, Inside, PC
  <2>2. before' \in [Call -> Text]
    BY <1>4, <2>1 DEF Preview, TypeOK
  <2>3. lifetime_match(Current(c)) \in Lifetimes \cup {Unset}
    BY <2>1, LifetimeMatchType
  <2> QED  BY <1>4, <2>2, <2>3, AnswerType DEF Preview, TypeOK, Status
<1>5. CASE ReadBefore(c)
  <2>1. Current(c) \in Text
    BY <1>5, InsideCall DEF ReadBefore, Inside, PC
  <2> QED  BY <1>5, <2>1 DEF ReadBefore, GoTo, TypeOK, PC
<1>6. CASE ReadBeforeFails(c)
  BY <1>6, AnswerType DEF ReadBeforeFails, TypeOK, Status
<1>7. CASE EnterProfile(c)
  <2>1. Target(c) \in Device /\ req[c].profile \in Profile
    BY <1>7, InsideCall DEF EnterProfile, Inside, PC
  <2>2. running' \in [Device -> Text]
    BY <1>7, <2>1 DEF EnterProfile, TypeOK, Text, Setting
  <2> QED  BY <1>7, <2>2 DEF EnterProfile, GoTo, TypeOK, PC
<1>8. CASE TakeLifetime(c)
  <2>1. Target(c) \in Device /\ req[c].profile \in Profile
    BY <1>8, InsideCall DEF TakeLifetime, Inside, PC
  <2>2. running' \in [Device -> Text]
    BY <1>8, <2>1 DEF TakeLifetime, TypeOK, Text, Setting
  <2> QED  BY <1>8, <2>2 DEF TakeLifetime, GoTo, TypeOK, PC
<1>14. CASE StrayLine(c)
  <2>1. Target(c) \in Device
    BY <1>14, InsideCall DEF StrayLine, Inside, PC
  <2> QED  BY <1>14, <2>1 DEF StrayLine, GoTo, TypeOK, PC
<1>9. CASE IgnoreLine(c)
  BY <1>9 DEF IgnoreLine, GoTo, TypeOK, PC
<1>10. CASE SaveConfig(c)
  <2>1. Current(c) \in Text
    BY <1>10, InsideCall DEF SaveConfig, Inside, PC
  <2> QED  BY <1>10, <2>1 DEF SaveConfig, GoTo, TypeOK, PC
<1>11. CASE ReadAfter(c)
  <2>1. Current(c) \in Text
    BY <1>11, InsideCall DEF ReadAfter, Inside, PC
  <2> QED  BY <1>11, <2>1 DEF ReadAfter, GoTo, TypeOK, PC
<1>12. CASE ReadValidate(c)
  <2>1. lifetime_match(before[c]) \in Lifetimes \cup {Unset}
    BY LifetimeMatchType DEF TypeOK
  <2>2. PICK validated \in BOOLEAN :
            Answer(c, "applied", lifetime_match(before[c]), validated)
    <3> DEFINE verdict == check_reflected(req[c], reads_text(Current(c), after[c]))
    <3>1. verdict \in BOOLEAN
      BY VerdictType
    <3>2. Answer(c, "applied", lifetime_match(before[c]), verdict)
      BY <1>12 DEF ReadValidate
    <3> HIDE DEF verdict
    <3> QED  BY <3>1, <3>2
  <2>3. /\ pc' \in [Call -> PC]
        /\ reply' \in [Call -> Reply]
        /\ loop' \in Call \cup {NoCall}
    <3>1. "applied" \in Status
      BY DEF Status
    <3> QED  BY <2>1, <2>2, <3>1, AnswerType
  <2>4. UNCHANGED <<enable_write, req, texts, devices, bounds>>
    BY <1>12 DEF ReadValidate
  <2> QED  BY <2>3, <2>4 DEF TypeOK
<1>13. CASE ApplyFails(c)
  BY <1>13, AnswerType DEF ApplyFails, TypeOK, Status
<1> QED  BY <1>1, <1>2, <1>3, <1>4, <1>5, <1>6, <1>7, <1>8, <1>9, <1>10,
            <1>11, <1>12, <1>13, <1>14 DEF Handle

LEMMA EnvironmentTypeOK ==
    ASSUME TypeOK, Environment
    PROVE  TypeOK'
<1> USE DEF texts, devices, bounds
<1>1. ASSUME NEW c \in Call, Submit(c)  PROVE TypeOK'
  BY <1>1 DEF Submit, GoTo, TypeOK, PC
<1>2. ASSUME NEW d \in Device, Reload(d)  PROVE TypeOK'
  <2>1. reloads' \in 0 .. MaxReloads
    BY <1>2, ApplyChangeAssumption DEF Reload, TypeOK
  <2>2. pc' \in [Call -> PC]
    BY <1>2 DEF Reload, TypeOK, PC
  <2>3. running' \in [Device -> Text]
    BY <1>2 DEF Reload, TypeOK
  <2> QED  BY <1>2, <2>1, <2>2, <2>3 DEF Reload, TypeOK
<1>3. ASSUME NEW d \in Device, ConsoleEdit(d)  PROVE TypeOK'
  <2>1. edits' \in 0 .. MaxConsoleEdits
    BY <1>3, ApplyChangeAssumption DEF ConsoleEdit, TypeOK
  <2>2. running' \in [Device -> Text]
    BY <1>3 DEF ConsoleEdit, TypeOK, Text
  <2>3. startup' \in [Device -> Text]
    BY <1>3, <2>2 DEF ConsoleEdit, TypeOK
  <2> QED  BY <1>3, <2>1, <2>2, <2>3 DEF ConsoleEdit, TypeOK
<1>4. CASE Restart
  <2>1. pc' \in [Call -> PC]
    BY <1>4 DEF Restart, TypeOK, PC
  <2>2. [NoReply EXCEPT !.status = "lost"] \in Reply
    BY DEF NoReply, Reply, Status
  <2>3. reply' \in [Call -> Reply]
    BY <1>4, <2>2 DEF Restart, TypeOK
  <2> QED  BY <1>4, <2>1, <2>3 DEF Restart, TypeOK
<1> QED  BY <1>1, <1>2, <1>3, <1>4 DEF Environment

\* What one call's step leaves alone: the other calls, and the gates.
LEMMA HandleFrame ==
    ASSUME TypeOK, NEW c \in Call, Handle(c)
    PROVE  /\ enable_write' = enable_write /\ req' = req /\ bounds' = bounds
           /\ pc' = [pc EXCEPT ![c] = pc'[c]] /\ reply' = [reply EXCEPT ![c] = reply'[c]]
           /\ pc[c] \notin {"idle", "done"} /\ pc'[c] \notin {"idle", "queued"}
BY DEF Handle, Refuse, Raise, Admit, Preview, ReadBefore, ReadBeforeFails,
       EnterProfile, StrayLine, TakeLifetime, IgnoreLine, SaveConfig, ReadAfter,
       ReadValidate, ApplyFails, Answer, GoTo, TypeOK, Applying, bounds

LEMMA GatesStep ==
    ASSUME TypeOK, GatesPassed, [Next]_vars
    PROVE  GatesPassed'
<1>1. ASSUME NEW c \in Call, Handle(c)  PROVE GatesPassed'
  <2>1. /\ enable_write' = enable_write /\ req' = req
        /\ pc' = [pc EXCEPT ![c] = pc'[c]] /\ pc[c] # "idle"
    BY <1>1, HandleFrame
  <2>2. pc'[c] \in Inside => enable_write /\ Admitted(req[c])
    BY <1>1 DEF Handle, Refuse, Raise, Admit, Preview, ReadBefore,
                ReadBeforeFails, EnterProfile, StrayLine, TakeLifetime, IgnoreLine,
                SaveConfig, ReadAfter, ReadValidate, ApplyFails, Answer, GoTo,
                TypeOK, GatesPassed, Inside, PC, Applying
  <2>3. pc'[c] \in Applying => ~req[c].dry_run
    BY <1>1 DEF Handle, Refuse, Raise, Admit, Preview, ReadBefore,
                ReadBeforeFails, EnterProfile, StrayLine, TakeLifetime, IgnoreLine,
                SaveConfig, ReadAfter, ReadValidate, ApplyFails, Answer, GoTo,
                TypeOK, GatesPassed, Applying
  <2> QED  BY <2>1, <2>2, <2>3 DEF GatesPassed, TypeOK
<1>2. ASSUME NEW c \in Call, Submit(c)  PROVE GatesPassed'
  BY <1>2 DEF Submit, GoTo, GatesPassed, TypeOK, Inside, Applying, PC
<1>3. ASSUME NEW d \in Device, Reload(d)  PROVE GatesPassed'
  BY <1>3 DEF Reload, GatesPassed, TypeOK, Inside, InSession, Applying, PC
<1>4. ASSUME NEW d \in Device, ConsoleEdit(d)  PROVE GatesPassed'
  BY <1>4 DEF ConsoleEdit, GatesPassed
<1>5. CASE Restart
  BY <1>5 DEF Restart, GatesPassed, Inside, Applying, PC
<1>6. CASE UNCHANGED vars
  BY <1>6 DEF vars, GatesPassed
<1> QED  BY <1>1, <1>2, <1>3, <1>4, <1>5, <1>6 DEF Next, Environment

LEMMA LoopStep ==
    ASSUME TypeOK, GatesPassed, LoopHeld, [Next]_vars
    PROVE  LoopHeld'
<1>1. ASSUME NEW c \in Call, Handle(c)  PROVE LoopHeld'
  <2>1. pc' = [pc EXCEPT ![c] = pc'[c]]
    BY <1>1, HandleFrame
  <2>2. CASE Admit(c)
    <3>1. CASE SingleLoop
      BY <2>1, <2>2, <3>1, ApplyChangeAssumption DEF Admit, LoopFree, LoopHeld, TypeOK
    <3>2. CASE ~SingleLoop
      BY <2>2, <3>2 DEF Admit, LoopHeld
    <3> QED  BY <3>1, <3>2
  <2>3. CASE pc'[c] = "done" /\ loop' = IF loop = c THEN NoCall ELSE loop
    BY <2>1, <2>3 DEF LoopHeld, TypeOK, Inside
  <2>4. CASE pc[c] \in Inside /\ loop' = loop
    BY <2>1, <2>4 DEF LoopHeld, TypeOK
  <2>5. \/ Admit(c)
        \/ pc'[c] = "done" /\ loop' = IF loop = c THEN NoCall ELSE loop
        \/ pc[c] \in Inside /\ loop' = loop
    BY <1>1 DEF Handle, Refuse, Raise, Preview, ReadBefore, ReadBeforeFails,
                EnterProfile, StrayLine, TakeLifetime, IgnoreLine, SaveConfig, ReadAfter,
                ReadValidate, ApplyFails, Answer, GoTo, TypeOK, Inside, PC
  <2> QED  BY <2>2, <2>3, <2>4, <2>5
<1>2. ASSUME NEW c \in Call, Submit(c)  PROVE LoopHeld'
  BY <1>2 DEF Submit, GoTo, LoopHeld, TypeOK, Inside
<1>3. ASSUME NEW d \in Device, Reload(d)  PROVE LoopHeld'
  BY <1>3 DEF Reload, LoopHeld, TypeOK, Inside, InSession, PC
<1>4. ASSUME NEW d \in Device, ConsoleEdit(d)  PROVE LoopHeld'
  BY <1>4 DEF ConsoleEdit, LoopHeld
<1>5. CASE Restart
  BY <1>5 DEF Restart, LoopHeld, Inside
<1>6. CASE UNCHANGED vars
  BY <1>6 DEF vars, LoopHeld
<1> QED  BY <1>1, <1>2, <1>3, <1>4, <1>5, <1>6 DEF Next, Environment

\* As a service, while one call is inside the handler the only steps of the
\* others are turned down, or wait.
LEMMA OthersStandStill ==
    ASSUME TypeOK, LoopHeld, SingleLoop,
           NEW k \in Call, NEW c \in Call, c # k, pc'[k] \in Inside, Handle(c)
    PROVE  /\ pc'[k] = pc[k] /\ req' = req /\ bounds' = bounds
           /\ UNCHANGED <<texts, devices>>
<1>1. pc[k] = pc'[k] /\ bounds' = bounds /\ req' = req
  BY HandleFrame DEF TypeOK
<1>2. pc[c] \notin Inside
  BY <1>1 DEF LoopHeld
<1>3. Refuse(c) \/ Raise(c) \/ Admit(c)
  BY <1>2 DEF Handle, Preview, ReadBefore, ReadBeforeFails, EnterProfile,
       StrayLine, TakeLifetime, IgnoreLine, SaveConfig, ReadAfter, ReadValidate,
       ApplyFails, Inside, PC, Applying
<1> QED  BY <1>1, <1>3 DEF Refuse, Raise, Admit

\* The first line of a change leaves what a plan can see of the device alone.
LEMMA EnterProfileInvisible ==
    ASSUME TypeOK, GatesPassed, NEW c \in Call, EnterProfile(c)
    PROVE  lifetime_match(Current(c)') = lifetime_match(Current(c))
<1> DEFINE p == req[c].profile
<1>1. /\ Target(c) \in Device /\ p \in Profile
      /\ Current(c) \in Text /\ Current(c) = running[Target(c)]
  BY InsideCall DEF EnterProfile, Inside, PC, Current
<1>2. Current(c)' = [Current(c) EXCEPT ![p] = IF @ = Absent THEN Unset ELSE @]
  BY <1>1 DEF EnterProfile, Current, Target, TypeOK
<1>3. CASE Current(c)[p] = Absent
  <2>1. Current(c)' = [Current(c) EXCEPT ![p] = Unset]
    BY <1>2, <1>3
  <2> QED  BY <1>1, <1>3, <2>1, LifetimeMatchIgnoresUnset
<1>4. CASE Current(c)[p] # Absent
  <2>1. Current(c)' = Current(c)
    BY <1>1, <1>2, <1>4 DEF Text
  <2> QED  BY <2>1
<1> QED  BY <1>3, <1>4

LEMMA PlanStep ==
    ASSUME IInv, [Next]_vars
    PROVE  PlanIsCurrent'
<1> SUFFICES ASSUME SingleLoop, Undisturbed', NEW k \in Call, pc'[k] \in {"enter", "set"}
             PROVE  lifetime_match(before'[k]) = lifetime_match(Current(k)')
  BY DEF PlanIsCurrent
<1> USE DEF IInv
<1> DEFINE Same == /\ before'[k] = before[k] /\ Current(k)' = Current(k)
                   /\ pc[k] = pc'[k] /\ Undisturbed
<1>1. Same => lifetime_match(before'[k]) = lifetime_match(Current(k)')
  BY DEF PlanIsCurrent
<1>2. ASSUME NEW c \in Call, Handle(c), c # k
      PROVE  Same
  <2>1. pc'[k] \in Inside
    BY DEF Inside, PC
  <2>2. pc'[k] = pc[k] /\ req' = req /\ bounds' = bounds /\ UNCHANGED <<texts, devices>>
    BY <1>2, <2>1, OthersStandStill
  <2> QED  BY <2>2 DEF texts, devices, bounds, Undisturbed, Current, Target
<1>3. ASSUME Handle(k)
      PROVE  lifetime_match(before'[k]) = lifetime_match(Current(k)')
  <2>1. \/ ReadBefore(k) \/ EnterProfile(k)
        \/ StrayLine(k) \/ (IgnoreLine(k) /\ pc[k] = "enter")
    BY <1>3 DEF Handle, Refuse, Raise, Admit, Preview, ReadBefore,
         ReadBeforeFails, TakeLifetime, IgnoreLine, SaveConfig, ReadAfter,
         ReadValidate, ApplyFails, Answer, GoTo, TypeOK
  <2>2. CASE ReadBefore(k)
    BY <2>2 DEF ReadBefore, devices, Current, Target, TypeOK
  <2>3. CASE EnterProfile(k)
    <3>1. lifetime_match(Current(k)') = lifetime_match(Current(k))
      BY <2>3, EnterProfileInvisible
    <3>2. before' = before /\ Undisturbed /\ pc[k] = "enter"
      BY <2>3 DEF EnterProfile, texts, bounds, Undisturbed
    <3> QED  BY <3>1, <3>2 DEF PlanIsCurrent
  <2>4. CASE IgnoreLine(k) /\ pc[k] = "enter"
    BY <2>4 DEF IgnoreLine, texts, devices, bounds, Undisturbed, Current,
         Target, PlanIsCurrent
  <2>5. CASE StrayLine(k)
    BY <2>5 DEF StrayLine, texts, bounds, Undisturbed, Current, Target, PlanIsCurrent
  <2> QED  BY <2>1, <2>2, <2>3, <2>4, <2>5
<1>4. ASSUME NEW c \in Call, Submit(c)  PROVE Same
  BY <1>4 DEF Submit, GoTo, TypeOK, texts, devices, bounds, Undisturbed, Current, Target
<1>5. ASSUME NEW d \in Device, Reload(d)  PROVE FALSE
  BY <1>5, ApplyChangeAssumption DEF Reload, Undisturbed, TypeOK
<1>6. ASSUME NEW d \in Device, ConsoleEdit(d)  PROVE FALSE
  BY <1>6, ApplyChangeAssumption DEF ConsoleEdit, Undisturbed, TypeOK
<1>7. CASE Restart
  BY <1>7 DEF Restart
<1>8. CASE UNCHANGED vars
  BY <1>1, <1>8 DEF vars, texts, devices, bounds, Undisturbed, Current, Target
<1> QED  BY <1>1, <1>2, <1>3, <1>4, <1>5, <1>6, <1>7, <1>8 DEF Next, Environment

LEMMA AnsweredStep ==
    ASSUME TypeOK, AnsweredAtEnd, [Next]_vars
    PROVE  AnsweredAtEnd'
<1>1. ASSUME NEW c \in Call, Handle(c)  PROVE AnsweredAtEnd'
  <2>1. pc' = [pc EXCEPT ![c] = pc'[c]] /\ pc[c] # "done"
    BY <1>1, HandleFrame
  <2>2. \/ reply' = reply
        \/ pc'[c] = "done" /\ reply' = [reply EXCEPT ![c] = reply'[c]]
    BY <1>1 DEF Handle, Refuse, Raise, Admit, Preview, ReadBefore,
         ReadBeforeFails, EnterProfile, StrayLine, TakeLifetime, IgnoreLine, SaveConfig,
         ReadAfter, ReadValidate, ApplyFails, Answer, GoTo, TypeOK
  <2> QED  BY <2>1, <2>2 DEF AnsweredAtEnd, TypeOK
<1>2. ASSUME NEW c \in Call, Submit(c)  PROVE AnsweredAtEnd'
  BY <1>2 DEF Submit, GoTo, AnsweredAtEnd, TypeOK
<1>3. ASSUME NEW d \in Device, Reload(d)  PROVE AnsweredAtEnd'
  BY <1>3 DEF Reload, InSession, AnsweredAtEnd
<1>4. ASSUME NEW d \in Device, ConsoleEdit(d)  PROVE AnsweredAtEnd'
  BY <1>4 DEF ConsoleEdit, AnsweredAtEnd
<1>5. CASE Restart
  BY <1>5 DEF Restart, AnsweredAtEnd
<1>6. CASE UNCHANGED vars
  BY <1>6 DEF vars, AnsweredAtEnd
<1> QED  BY <1>1, <1>2, <1>3, <1>4, <1>5, <1>6 DEF Next, Environment

LEMMA ReadBackStep ==
    ASSUME IInv, [Next]_vars
    PROVE  ReadBackIsSaved'
<1> USE DEF IInv
<1> DEFINE Saved(k) == startup[Target(k)] = Current(k)
<1> SUFFICES ASSUME SingleLoop, edits' = 0, NEW k \in Call,
                    pc'[k] \in {"read_after", "read_validate"}
             PROVE  Saved(k)' /\ (pc'[k] = "read_validate" => after'[k] = Current(k)')
  BY DEF ReadBackIsSaved
<1>1. pc'[k] \in Inside
  BY DEF Inside, PC
<1>2. ASSUME edits = 0, pc[k] = pc'[k], req'[k] = req[k], UNCHANGED <<texts, devices>>
      PROVE  Saved(k)' /\ (pc'[k] = "read_validate" => after'[k] = Current(k)')
  BY <1>2 DEF ReadBackIsSaved, texts, devices, Current, Target
<1>3. ASSUME NEW c \in Call, Handle(c), c # k
      PROVE  edits = 0 /\ pc[k] = pc'[k] /\ req' = req /\ UNCHANGED <<texts, devices>>
  BY <1>1, <1>3, OthersStandStill DEF bounds
<1>4. ASSUME Handle(k)
      PROVE  Saved(k)' /\ (pc'[k] = "read_validate" => after'[k] = Current(k)')
  <2>1. SaveConfig(k) \/ ReadAfter(k)
    BY <1>4 DEF Handle, Refuse, Raise, Admit, Preview, ReadBefore,
         ReadBeforeFails, EnterProfile, StrayLine, TakeLifetime, IgnoreLine, ReadValidate,
         ApplyFails, Answer, GoTo, TypeOK
  <2>2. CASE SaveConfig(k)
    <3>1. Target(k) \in Device
      BY <2>2, InsideCall DEF SaveConfig, Inside, PC
    <3> QED  BY <2>2, <3>1 DEF SaveConfig, GoTo, TypeOK, Current, Target
  <2>3. CASE ReadAfter(k)
    BY <2>3 DEF ReadAfter, GoTo, TypeOK, devices, bounds, Current, Target, ReadBackIsSaved
  <2> QED  BY <2>1, <2>2, <2>3
<1>5. ASSUME NEW c \in Call, Submit(c)
      PROVE  edits = 0 /\ pc[k] = pc'[k] /\ UNCHANGED <<texts, devices>> /\ req'[k] = req[k]
  BY <1>5 DEF Submit, GoTo, TypeOK, bounds
<1>6. ASSUME NEW d \in Device, Reload(d)
      PROVE  Saved(k)' /\ (pc'[k] = "read_validate" => after'[k] = Current(k)')
  <2>1. edits = 0 /\ pc[k] = pc'[k] /\ req' = req /\ startup' = startup /\ after' = after
    BY <1>6 DEF Reload, texts, TypeOK
  <2>2. Saved(k) /\ (pc[k] = "read_validate" => after[k] = Current(k))
    BY <2>1 DEF ReadBackIsSaved
  <2>3. Current(k)' = Current(k)
    <3>1. Target(k) \in Device
      BY <1>1, <2>1, InsideCall
    <3> QED  BY <1>6, <2>1, <2>2, <3>1 DEF Reload, Current, Target, TypeOK
  <2> QED  BY <2>1, <2>2, <2>3 DEF Target
<1>7. ASSUME NEW d \in Device, ConsoleEdit(d)  PROVE FALSE
  BY <1>7, ApplyChangeAssumption DEF ConsoleEdit, TypeOK
<1>8. CASE Restart
  BY <1>8 DEF Restart
<1>9. CASE UNCHANGED vars
  BY <1>2, <1>9 DEF vars, bounds
<1> QED  BY <1>2, <1>3, <1>4, <1>5, <1>6, <1>7, <1>8, <1>9 DEF Next, Environment

LEMMA NextIInv == IInv /\ [Next]_vars => IInv'
<1> SUFFICES ASSUME IInv, [Next]_vars  PROVE IInv'
  OBVIOUS
<1>1. TypeOK'
  <2>1. TypeOK /\ GatesPassed
    BY DEF IInv
  <2>2. ASSUME NEW c \in Call, Handle(c)  PROVE TypeOK'
    BY <2>1, <2>2, HandleTypeOK
  <2>3. CASE Environment
    BY <2>1, <2>3, EnvironmentTypeOK
  <2>4. CASE UNCHANGED vars
    BY <2>1, <2>4 DEF vars, texts, devices, bounds, TypeOK
  <2> QED  BY <2>2, <2>3, <2>4 DEF Next
<1>2. GatesPassed'
  BY GatesStep DEF IInv
<1>3. LoopHeld'
  BY LoopStep DEF IInv
<1>4. PlanIsCurrent'
  BY PlanStep
<1>5. AnsweredAtEnd'
  BY AnsweredStep DEF IInv
<1>6. ReadBackIsSaved'
  BY ReadBackStep
<1> QED  BY <1>1, <1>2, <1>3, <1>4, <1>5, <1>6 DEF IInv

\* The strengthened invariant holds of every behaviour of the write path.
THEOREM Invariance == Spec => []IInv
<1>1. Init => IInv
  BY InitIInv
<1>2. IInv /\ [Next]_vars => IInv'
  BY NextIInv
<1> QED  BY <1>1, <1>2, PTL DEF Spec

\* Every variable of the write path always holds a value of its kind: in
\* particular every rollback a plan offers (writelist.py:93-121) is a lifetime
\* that can be on a device, and only devices of the inventory are indexed.
THEOREM TypeCorrect == Spec => []TypeOK
<1>1. IInv => TypeOK
  BY DEF IInv
<1> QED  BY <1>1, Invariance, PTL

\* As a service, however many calls queue up, no other call changes what a
\* plan was built on between the read (mcp.py:129) and the write (mcp.py:161).
THEOREM PlansStayCurrent == Spec => []PlanIsCurrent
<1>1. IInv => PlanIsCurrent
  BY DEF IInv
<1> QED  BY <1>1, Invariance, PTL
-----------------------------------------------------------------------------
\* A call whose configuration session takes a step is one the gates let in.
LEMMA SessionStep ==
    ASSUME IInv, NEW c \in Call, EnterProfile(c) \/ StrayLine(c) \/ TakeLifetime(c)
    PROVE  WritesFor(c, Target(c)) /\ Target(c) \in Device
<1> USE DEF IInv
<1>1. pc[c] \in {"enter", "set"} /\ pc'[c] # pc[c]
  BY DEF EnterProfile, StrayLine, TakeLifetime, GoTo, TypeOK
<1>2. enable_write /\ Admitted(req[c]) /\ ~req[c].dry_run
  BY <1>1 DEF GatesPassed, Inside, PC, Applying
<1>3. Target(c) \in Device
  BY <1>1, InsideCall DEF Inside, PC
<1> QED  BY <1>1, <1>2, <1>3 DEF WritesFor, Target

\* One step of the bridge changes a lifetime only for a call the gates let in.
LEMMA WriteStep ==
    ASSUME IInv, [Next]_vars, NEW d \in Device, NEW p \in Profile,
           running'[d][p] # running[d][p], UNCHANGED bounds
    PROVE  \E c \in Call :
              /\ WritesFor(c, d)
              /\ req[c].profile = p
              /\ running'[d][p] \in {Unset, req[c].seconds}
<1> USE DEF IInv
<1>1. PICK c \in Call : EnterProfile(c) \/ TakeLifetime(c)
  <2>1. running' # running
    OBVIOUS
  <2>2. ~(\E e \in Device : Reload(e) \/ ConsoleEdit(e))
    BY DEF Reload, ConsoleEdit, bounds, TypeOK
  <2>3. ~Restart /\ ~(\E c \in Call : Submit(c)) /\ ~UNCHANGED vars
    BY <2>1 DEF Restart, Submit, devices, vars
  <2>4. PICK c \in Call : Handle(c)
    BY <2>2, <2>3 DEF Next, Environment
  <2>5. EnterProfile(c) \/ TakeLifetime(c)
    BY <2>1, <2>4 DEF Handle, Refuse, Raise, Admit, Preview, ReadBefore,
         ReadBeforeFails, StrayLine, IgnoreLine, SaveConfig, ReadAfter,
         ReadValidate, ApplyFails, devices
  <2> QED  BY <2>5
<1>2. WritesFor(c, Target(c)) /\ Target(c) \in Device
  BY <1>1, SessionStep
<1>3. req[c].profile \in Profile
  BY <1>1 DEF EnterProfile, TakeLifetime
<1>4. /\ Target(c) = d /\ req[c].profile = p
      /\ running'[d][p] \in {Unset, req[c].seconds}
  <2>1. running[Target(c)] \in [Profile -> Setting] /\ running \in [Device -> Text]
    BY <1>2 DEF TypeOK, Text
  <2>2. CASE EnterProfile(c)
    <3>1. running' = [running EXCEPT ![Target(c)][req[c].profile] =
                          IF @ = Absent THEN Unset ELSE @]
      BY <2>2 DEF EnterProfile
    <3> QED  BY <1>2, <1>3, <2>1, <3>1
  <2>3. CASE TakeLifetime(c)
    <3>1. running' = [running EXCEPT ![Target(c)][req[c].profile] = req[c].seconds]
      BY <2>3 DEF TakeLifetime
    <3> QED  BY <1>2, <1>3, <2>1, <3>1
  <2> QED  BY <1>1, <2>2, <2>3
<1> QED  BY <1>2, <1>4

\* One step of the bridge sends a line that is not of a change only for a call
\* the gates let in with a padded name.
LEMMA StrayStep ==
    ASSUME IInv, [Next]_vars, NEW d \in Device, d \in strays' \ strays
    PROVE  /\ running' = running
           /\ \E c \in Call : WritesFor(c, d) /\ req[c].profile = PaddedName
<1>1. PICK c \in Call : StrayLine(c)
  <2>1. strays' # strays
    OBVIOUS
  <2>2. PICK c \in Call : Handle(c)
    BY <2>1 DEF Next, Environment, Submit, Reload, ConsoleEdit, Restart, devices, vars
  <2> QED  BY <2>1, <2>2 DEF Handle, Refuse, Raise, Admit, Preview, ReadBefore,
              ReadBeforeFails, EnterProfile, TakeLifetime, IgnoreLine, SaveConfig,
              ReadAfter, ReadValidate, ApplyFails, devices
<1>2. WritesFor(c, Target(c))
  BY <1>1, SessionStep
<1>3. running' = running /\ d = Target(c) /\ req[c].profile = PaddedName
  BY <1>1 DEF StrayLine
<1> QED  BY <1>2, <1>3

\* However many calls, profiles and threads there are, the bridge reaches into a
\* device only as an admitted, non-dry-run call on a write-enabled bridge, and
\* changes no lifetime but that of the profile the call names.  It may send a
\* line that is not of the change, for one reason only: the check strips a name
\* that the commands are built from as it came (writelist.py:75 and 88).
THEOREM WritesAreAdmitted == Spec => WriteAsAdmitted
<1>1. IInv /\ [Next]_vars =>
        [\A d \in Device :
            /\ \A p \in Profile :
                  running'[d][p] # running[d][p] /\ UNCHANGED bounds
                  => \E c \in Call :
                        /\ WritesFor(c, d)
                        /\ req[c].profile = p
                        /\ running'[d][p] \in {Unset, req[c].seconds}
            /\ d \in strays' \ strays
                  => /\ running' = running
                     /\ \E c \in Call : WritesFor(c, d) /\ req[c].profile = PaddedName]_vars
  BY WriteStep, StrayStep
<1> QED  BY <1>1, Invariance, PTL DEF Spec, WriteAsAdmitted

\* So a session is bounded to the approved change (live.py:62-63) as long as no
\* name comes padded.  The run session_not_bounded refutes the conclusion
\* without that hypothesis.
THEOREM CleanNamesBoundSessions ==
    ASSUME \A r \in Requests : r.profile # PaddedName
    PROVE  Spec => []SessionsAreBounded
<1>1. Init => SessionsAreBounded
  BY DEF Init, SessionsAreBounded
<1>2. IInv /\ SessionsAreBounded /\ [Next]_vars => SessionsAreBounded'
  <2> SUFFICES ASSUME IInv, strays = {}, [Next]_vars, NEW d \in strays'
               PROVE  FALSE
    BY DEF SessionsAreBounded
  <2>1. strays' # strays
    OBVIOUS
  <2>2. PICK c \in Call : Handle(c)
    BY <2>1 DEF Next, Environment, Submit, Reload, ConsoleEdit, Restart, devices, vars
  <2>3. StrayLine(c)
    BY <2>1, <2>2 DEF Handle, Refuse, Raise, Admit, Preview, ReadBefore,
         ReadBeforeFails, EnterProfile, TakeLifetime, IgnoreLine, SaveConfig,
         ReadAfter, ReadValidate, ApplyFails, devices
  <2>4. req[c] \in Requests
    BY <2>3 DEF StrayLine, IInv, GatesPassed
  <2> QED  BY <2>3, <2>4 DEF StrayLine
<1> QED  BY <1>1, <1>2, Invariance, PTL DEF Spec
-----------------------------------------------------------------------------
\* As a service, on devices with one lifetime line each, the rollback a plan calls
\* known is the value the change is about to overwrite.  The assumption on
\* NumProfiles is needed: with two the property is false of the code.
THEOREM RollbacksRestore ==
    ASSUME SingleLoop, NumProfiles = 1
    PROVE  Spec => RollbackRestoresPrior
<1>1. ASSUME IInv, NEW c \in Call, pc[c] = "set", rollback_known(before[c]), Undisturbed
      PROVE  lifetime_match(before[c]) = Current(c)[profile_name(req[c].profile)]
  <2>1. lifetime_match(Current(c)) = lifetime_match(before[c])
    BY <1>1 DEF IInv, PlanIsCurrent
  <2>2. profile_name(req[c].profile) \in Profile /\ Current(c) \in Text
    BY <1>1, InsideCall DEF IInv, Inside, PC
  <2>3. lifetime_match(Current(c)) # Unset
    BY <1>1, <2>1 DEF rollback_known
  <2> QED  BY <2>1, <2>2, <2>3, LifetimeMatchOfOnlyProfile
<1>2. IInv /\ [Next]_vars =>
        [\A c \in Call :
            pc[c] = "set" /\ pc'[c] = "save" /\ rollback_known(before[c]) /\ Undisturbed
            => lifetime_match(before[c]) = Current(c)[profile_name(req[c].profile)]]_vars
  BY <1>1
<1> QED  BY <1>2, Invariance, PTL DEF Spec, RollbackRestoresPrior
-----------------------------------------------------------------------------
\* Why the running configuration of d may differ from its saved one.
Excuse(k, d) ==
    /\ pc[k] # "idle" /\ Target(k) = d
    /\ pc[k] \in InSession \cup {"broken"} \/ reply[k].status \in {"failed", "lost"}

LEMMA HandleUnsaved ==
    ASSUME IInv, UnsavedIsReported, NEW c \in Call, Handle(c),
           NEW d \in Device, running'[d] # startup'[d]
    PROVE  \E k \in Call : Excuse(k, d)'
<1> USE DEF IInv
<1>1. /\ req' = req /\ pc' = [pc EXCEPT ![c] = pc'[c]]
      /\ reply' = [reply EXCEPT ![c] = reply'[c]]
      /\ pc[c] \notin {"idle", "done"} /\ pc'[c] # "idle"
  BY HandleFrame
<1>2. pc \in [Call -> PC] /\ reply \in [Call -> Reply]
  BY DEF TypeOK
<1>3. ASSUME NEW k \in Call, k # c, Excuse(k, d)  PROVE Excuse(k, d)'
  BY <1>1, <1>2, <1>3 DEF Excuse, Target
<1>4. CASE running'[d] = running[d] /\ startup'[d] = startup[d]
  <2>1. PICK k \in Call : Excuse(k, d)
    BY <1>4 DEF UnsavedIsReported, Excuse
  <2>2. CASE k # c
    BY <1>3, <2>1, <2>2
  <2>3. CASE k = c
    <3>1. reply[c].status = "none"
      BY <1>1 DEF AnsweredAtEnd, NoReply
    <3>2. pc[c] \in {"set", "save", "broken"} /\ Target(c) = d
      BY <2>1, <2>3, <3>1 DEF Excuse, InSession
    <3>3. TakeLifetime(c) \/ IgnoreLine(c) \/ SaveConfig(c) \/ ApplyFails(c)
      BY <3>2 DEF Handle, Refuse, Raise, Admit, Preview, ReadBefore,
           ReadBeforeFails, EnterProfile, StrayLine, ReadAfter, ReadValidate
    <3>4. CASE TakeLifetime(c) \/ IgnoreLine(c)
      <4>1. pc'[c] \in InSession
        BY <1>2, <3>2, <3>4 DEF TakeLifetime, IgnoreLine, GoTo, InSession
      <4> QED  BY <1>1, <3>2, <4>1 DEF Excuse, Target
    <3>5. CASE SaveConfig(c)
      BY <1>4, <3>2, <3>5 DEF SaveConfig, Current, TypeOK
    <3>6. CASE ApplyFails(c)
      <4>1. reply'[c].status = "failed"
        BY <1>2, <3>6 DEF ApplyFails, Answer
      <4> QED  BY <1>1, <3>2, <4>1 DEF Excuse, Target
    <3> QED  BY <3>3, <3>4, <3>5, <3>6
  <2> QED  BY <2>2, <2>3
<1>5. CASE ~(running'[d] = running[d] /\ startup'[d] = startup[d])
  <2>1. EnterProfile(c) \/ TakeLifetime(c) \/ SaveConfig(c)
    BY <1>5 DEF Handle, Refuse, Raise, Admit, Preview, ReadBefore,
         ReadBeforeFails, StrayLine, IgnoreLine, ReadAfter, ReadValidate, ApplyFails, devices
  <2>2. Target(c) \in Device /\ Target(c) = d
    <3>1. Target(c) \in Device
      BY <2>1, InsideCall DEF EnterProfile, TakeLifetime, SaveConfig, Inside, PC
    <3> QED  BY <1>5, <2>1, <3>1 DEF EnterProfile, TakeLifetime, SaveConfig, TypeOK
  <2>3. CASE EnterProfile(c) \/ TakeLifetime(c)
    <3>1. pc'[c] \in InSession
      BY <1>2, <2>3 DEF EnterProfile, TakeLifetime, GoTo, InSession
    <3> QED  BY <1>1, <2>2, <3>1 DEF Excuse, Target
  <2>4. CASE SaveConfig(c)
    BY <2>2, <2>4 DEF SaveConfig, Current, TypeOK
  <2> QED  BY <2>1, <2>3, <2>4
<1> QED  BY <1>4, <1>5

LEMMA UnsavedStep ==
    ASSUME IInv, UnsavedIsReported, [Next]_vars
    PROVE  UnsavedIsReported'
<1> SUFFICES ASSUME NEW d \in Device, running'[d] # startup'[d]
             PROVE  \E k \in Call : Excuse(k, d)'
  BY DEF UnsavedIsReported, Excuse
<1> USE DEF IInv
<1>1. ASSUME NEW c \in Call, Handle(c)  PROVE \E k \in Call : Excuse(k, d)'
  BY <1>1, HandleUnsaved
<1>2. ASSUME running[d] # startup[d],
             \A k \in Call : Excuse(k, d) => Excuse(k, d)'
      PROVE  \E k \in Call : Excuse(k, d)'
  BY <1>2 DEF UnsavedIsReported, Excuse
<1>3. ASSUME NEW c \in Call, Submit(c)  PROVE \E k \in Call : Excuse(k, d)'
  <2>1. running[d] # startup[d]
    BY <1>3 DEF Submit, devices
  <2>2. \A k \in Call : Excuse(k, d) => Excuse(k, d)'
    <3>1. ASSUME Excuse(c, d)  PROVE FALSE
      BY <1>3, <3>1 DEF Submit, Excuse
    <3>2. ASSUME NEW k \in Call, k # c, Excuse(k, d)  PROVE Excuse(k, d)'
      BY <1>3, <3>2 DEF Submit, GoTo, Excuse, Target, TypeOK
    <3> QED  BY <3>1, <3>2
  <2> QED  BY <1>2, <2>1, <2>2
<1>4. ASSUME NEW e \in Device, Reload(e)  PROVE \E k \in Call : Excuse(k, d)'
  <2>1. running[d] # startup[d]
    BY <1>4 DEF Reload, TypeOK
  <2>2. \A k \in Call : Excuse(k, d) => Excuse(k, d)'
    BY <1>4 DEF Reload, Excuse, InSession, Target
  <2> QED  BY <1>2, <2>1, <2>2
<1>5. ASSUME NEW e \in Device, ConsoleEdit(e)  PROVE \E k \in Call : Excuse(k, d)'
  <2>1. running[d] # startup[d]
    BY <1>5 DEF ConsoleEdit, TypeOK
  <2>2. \A k \in Call : Excuse(k, d) => Excuse(k, d)'
    BY <1>5 DEF ConsoleEdit, Excuse, Target
  <2> QED  BY <1>2, <2>1, <2>2
<1>6. CASE Restart
  <2>1. running[d] # startup[d]
    BY <1>6 DEF Restart, devices
  <2>2. \A k \in Call : Excuse(k, d) => Excuse(k, d)'
    BY <1>6 DEF Restart, Excuse, Target, InSession, NoReply
  <2> QED  BY <1>2, <2>1, <2>2
<1>7. CASE UNCHANGED vars
  <2>1. \A k \in Call : Excuse(k, d) => Excuse(k, d)'
    BY <1>7 DEF vars, Excuse, Target
  <2> QED  BY <1>2, <1>7, <2>1 DEF vars, devices
<1> QED  BY <1>1, <1>3, <1>4, <1>5, <1>6, <1>7 DEF Next, Environment

\* Service or package, whatever reloads, restarts and sessions break: a device
\* left with an unsaved change has a caller that was not told "applied".
THEOREM UnsavedChangesAreReported == Spec => []UnsavedIsReported
<1>1. Init => UnsavedIsReported
  BY DEF Init, UnsavedIsReported
<1>2. IInv /\ UnsavedIsReported /\ [Next]_vars => UnsavedIsReported'
  BY UnsavedStep
<1> QED  BY <1>1, <1>2, Invariance, PTL DEF Spec
-----------------------------------------------------------------------------
\* A call is answered 'validated' by its last read-back, from a text that has
\* the value somewhere.
LEMMA ValidatedStep ==
    ASSUME IInv, [Next]_vars, NEW c \in Call, reply'[c].validated, ~reply[c].validated
    PROVE  /\ pc[c] = "read_validate"
           /\ check_reflected(req[c], reads_text(Current(c), after[c]))
<1> USE DEF IInv
<1>1. reply \in [Call -> Reply] /\ reply'[c] # reply[c]
  BY DEF TypeOK
<1>2. ~Restart
  BY <1>1 DEF Restart, NoReply
<1>3. Handle(c)
  <2>1. PICK k \in Call : Handle(k)
    BY <1>1, <1>2 DEF Next, Environment, Submit, Reload, ConsoleEdit, vars
  <2>2. reply' = [reply EXCEPT ![k] = reply'[k]]
    BY <2>1, HandleFrame
  <2> QED  BY <1>1, <2>1, <2>2
<1>4. ReadValidate(c)
  BY <1>1, <1>3 DEF Handle, Refuse, Raise, Admit, Preview, ReadBefore,
       ReadBeforeFails, EnterProfile, StrayLine, TakeLifetime, IgnoreLine, SaveConfig,
       ReadAfter, ApplyFails, Answer
<1> DEFINE verdict == check_reflected(req[c], reads_text(Current(c), after[c]))
<1>5. pc[c] = "read_validate" /\ reply'[c].validated = verdict
  BY <1>1, <1>4 DEF ReadValidate, Answer
<1> QED  BY <1>5

\* What the last read-back has found, as a service on devices with one lifetime line.
LEMMA ValidatedTook ==
    ASSUME IInv, [Next]_vars, SingleLoop, NumProfiles = 1, edits = 0,
           NEW c \in Call, reply'[c].validated, ~reply[c].validated
    PROVE  /\ Current(c)[profile_name(req[c].profile)] = req[c].seconds
           /\ startup[Target(c)] = Current(c)
<1>1. /\ pc[c] = "read_validate"
      /\ check_reflected(req[c], reads_text(Current(c), after[c]))
  BY ValidatedStep
<1>2. after[c] = Current(c) /\ startup[Target(c)] = Current(c)
  BY <1>1 DEF IInv, ReadBackIsSaved
<1>3. check_reflected(req[c], Current(c))
  BY <1>1, <1>2 DEF reads_text
<1>4. profile_name(req[c].profile) \in Profile /\ Profile = {1}
  BY <1>1, InsideCall DEF IInv, Inside, PC, Profile
<1> QED  BY <1>2, <1>3, <1>4 DEF check_reflected

\* As a service, on devices with one lifetime line each and nobody at the console, a
\* change answered 'validated' is in the running and in the saved
\* configuration.  The assumption on NumProfiles is needed here as well.
THEOREM ValidatedChangesTook ==
    ASSUME SingleLoop, NumProfiles = 1
    PROVE  Spec => ValidatedMeansTook
<1>1. IInv /\ [Next]_vars =>
        [\A c \in Call :
            reply'[c].validated /\ ~reply[c].validated /\ edits = 0
            => /\ Current(c)[profile_name(req[c].profile)] = req[c].seconds
               /\ startup[Target(c)][profile_name(req[c].profile)] = req[c].seconds]_vars
  BY ValidatedTook
<1> QED  BY <1>1, Invariance, PTL DEF Spec, ValidatedMeansTook

\* A change answered 'validated' false was judged on a text without its value:
\* on the device's own, or on a device that lists no profile at all.
LEMMA FalseVerdict ==
    ASSUME IInv, Device \subseteq LowerCase, NEW c \in Call, ReadValidate(c), ~reply'[c].validated
    PROVE  Current(c)[profile_name(req[c].profile)] # req[c].seconds
<1> USE DEF IInv
<1> DEFINE text == reads_text(Current(c), after[c])
<1>1. ~check_reflected(req[c], text)
  BY DEF ReadValidate, Answer, TypeOK
<1>2. /\ req[c].target \in Device /\ profile_name(req[c].profile) \in Profile
      /\ req[c].seconds \in MinSeconds .. MaxSeconds
  <2>1. pc[c] \in Inside
    BY DEF ReadValidate, Inside, PC
  <2> QED  BY <2>1, AdmittedRequest DEF GatesPassed
<1>3. CASE \A p \in Profile : Current(c)[p] = Absent
  <2>1. Current(c)[profile_name(req[c].profile)] = Absent
    BY <1>2, <1>3
  <2>2. \A n \in MinSeconds .. MaxSeconds : n # Absent
    BY DEF Absent, MinSeconds, MaxSeconds
  <2>3. req[c].seconds # Absent
    BY <1>2, <2>2
  <2> QED  BY <2>1, <2>3
<1>4. CASE ~\A p \in Profile : Current(c)[p] = Absent
  <2>1. text = Current(c)
    BY <1>4 DEF reads_text
  <2>2. req[c].target \in LowerCase
    BY <1>2
  <2> QED  BY <1>1, <1>2, <2>1, <2>2 DEF check_reflected
<1> QED  BY <1>3, <1>4

\* Service or package, whatever disturbs the devices: a host never undoes a
\* change that took on the strength of 'validated' false, where devices print
\* their lifetimes in lower case: the verdict's search minds the case
\* (writelist.py:141), the one for the prior lifetime does not (writelist.py:71).
THEOREM NoAlarmIsFalse ==
    ASSUME Device \subseteq LowerCase
    PROVE  Spec => NoFalseAlarm
<1>1. ASSUME IInv, [Next]_vars, NEW c \in Call,
             reply'[c].status = "applied", reply[c].status # "applied", ~reply'[c].validated
      PROVE  Current(c)[profile_name(req[c].profile)] # req[c].seconds
  <2>1. reply \in [Call -> Reply] /\ reply'[c] # reply[c]
    BY <1>1 DEF IInv, TypeOK
  <2>2. ~Restart
    BY <1>1, <2>1 DEF Restart, NoReply
  <2>3. PICK k \in Call : Handle(k)
    BY <1>1, <2>1, <2>2 DEF Next, Environment, Submit, Reload, ConsoleEdit, vars
  <2>4. k = c
    <3>1. reply' = [reply EXCEPT ![k] = reply'[k]]
      BY <1>1, <2>3, HandleFrame DEF IInv
    <3> QED  BY <2>1, <3>1
  <2>5. ReadValidate(c)
    BY <1>1, <2>1, <2>3, <2>4 DEF Handle, Refuse, Raise, Admit, Preview, ReadBefore,
         ReadBeforeFails, EnterProfile, StrayLine, TakeLifetime, IgnoreLine, SaveConfig,
         ReadAfter, ApplyFails, Answer
  <2> QED  BY <1>1, <2>5, FalseVerdict
<1>2. IInv /\ [Next]_vars =>
        [\A c \in Call :
            /\ reply'[c].status = "applied" /\ reply[c].status # "applied"
            /\ ~reply'[c].validated
            => Current(c)[profile_name(req[c].profile)] # req[c].seconds]_vars
  BY <1>1
<1> QED  BY <1>2, Invariance, PTL DEF Spec, NoFalseAlarm
-----------------------------------------------------------------------------
\* A way back is the lifetime of the text the plan was built on, and comes
\* with the answer to a request that passed the gates.
WayBackIsRead ==
    \A c \in Call : reply[c].rollback # Unset =>
        /\ pc[c] = "done"
        /\ req[c] \in Requests /\ Admitted(req[c])
        /\ reply[c].rollback = lifetime_match(before[c])

\* It stays that: nothing touches the text or the answer afterwards.
LEMMA WayBackStep ==
    ASSUME IInv, WayBackIsRead, [Next]_vars
    PROVE  WayBackIsRead'
<1> USE DEF IInv
<1> SUFFICES ASSUME NEW c \in Call, reply'[c].rollback # Unset
             PROVE  /\ pc'[c] = "done"
                    /\ req'[c] \in Requests /\ Admitted(req'[c])
                    /\ reply'[c].rollback = lifetime_match(before'[c])
  BY DEF WayBackIsRead
<1>1. CASE pc[c] = "done" /\ pc'[c] = pc[c] /\ req'[c] = req[c]
           /\ before'[c] = before[c] /\ reply'[c] = reply[c]
  BY <1>1 DEF WayBackIsRead
<1>2. ASSUME pc[c] # "done"  PROVE reply[c].rollback = Unset
  BY <1>2 DEF WayBackIsRead
<1>3. ASSUME Handle(c)
      PROVE  /\ pc'[c] = "done"
             /\ req'[c] \in Requests /\ Admitted(req'[c])
             /\ reply'[c].rollback = lifetime_match(before'[c])
  <2>1. pc[c] # "done" /\ reply[c].rollback = Unset /\ req'[c] = req[c]
    BY <1>2, <1>3, HandleFrame
  <2>2. Preview(c) \/ ReadValidate(c)
    BY <1>3, <2>1 DEF Handle, Refuse, Raise, Admit, ReadBefore, ReadBeforeFails,
         EnterProfile, StrayLine, TakeLifetime, IgnoreLine, SaveConfig, ReadAfter, ApplyFails,
         Answer, TypeOK
  <2>3. pc[c] \in Inside
    BY <2>2 DEF Preview, ReadValidate, Inside, PC
  <2>4. req[c] \in Requests /\ Admitted(req[c])
    BY <2>3 DEF GatesPassed, Inside
  <2>5. pc'[c] = "done" /\ reply'[c].rollback = lifetime_match(before'[c])
    BY <2>2 DEF Preview, ReadValidate, Answer, GoTo, TypeOK, texts
  <2> QED  BY <2>1, <2>4, <2>5
<1>4. ASSUME NEW k \in Call \ {c}, Handle(k)
      PROVE  /\ pc[c] = "done" /\ pc'[c] = pc[c] /\ req'[c] = req[c]
             /\ before'[c] = before[c] /\ reply'[c] = reply[c]
  <2>1. pc'[c] = pc[c] /\ req'[c] = req[c] /\ reply'[c] = reply[c]
    BY <1>4, HandleFrame DEF TypeOK
  <2>2. before'[c] = before[c]
    BY <1>4 DEF Handle, Refuse, Raise, Admit, Preview, ReadBefore, ReadBeforeFails,
         EnterProfile, StrayLine, TakeLifetime, IgnoreLine, SaveConfig, ReadAfter,
         ReadValidate, ApplyFails, TypeOK, texts
  <2> QED  BY <1>2, <2>1, <2>2
<1>5. CASE Restart
  <2>1. pc[c] = "done"
    BY <1>2, <1>5 DEF Restart, NoReply, TypeOK
  <2> QED  BY <1>1, <1>5, <2>1 DEF Restart, texts
<1>6. ASSUME NEW k \in Call, Submit(k)
      PROVE  /\ pc[c] = "done" /\ pc'[c] = pc[c] /\ req'[c] = req[c]
             /\ before'[c] = before[c] /\ reply'[c] = reply[c]
  <2>1. pc[c] = "done"
    BY <1>2, <1>6 DEF Submit
  <2> QED  BY <1>6, <2>1 DEF Submit, GoTo, TypeOK, texts
<1>7. ASSUME NEW d \in Device, Reload(d) \/ ConsoleEdit(d)
      PROVE  /\ pc[c] = "done" /\ pc'[c] = pc[c] /\ req'[c] = req[c]
             /\ before'[c] = before[c] /\ reply'[c] = reply[c]
  <2>1. pc[c] = "done"
    BY <1>2, <1>7 DEF Reload, ConsoleEdit
  <2> QED  BY <1>7, <2>1 DEF Reload, ConsoleEdit, InSession, TypeOK, texts
<1>8. CASE UNCHANGED vars
  BY <1>8 DEF vars, texts, WayBackIsRead
<1> QED  BY <1>1, <1>3, <1>4, <1>5, <1>6, <1>7, <1>8 DEF Next, Environment

\* Service or package, whatever disturbs the devices: what the way back of a plan
\* asks for is something the bridge lets through, once a host has added the
\* target and dry_run = FALSE (writelist.py:46-48), as long as devices hold only
\* lifetimes a request may ask for; run rollback_out_of_range has a device that
\* holds 2592000 seconds.  The request as it comes names no target, and the input
\* model turns it down (tools.py:64).
THEOREM WaysBackAreAdmitted ==
    ASSUME Lifetimes \subseteq MinSeconds .. MaxSeconds
    PROVE  Spec => []RollbackIsAdmitted
<1>1. Init => WayBackIsRead
  BY DEF Init, WayBackIsRead, NoReply
<1>2. IInv /\ WayBackIsRead /\ [Next]_vars => WayBackIsRead'
  BY WayBackStep
<1>3. IInv /\ WayBackIsRead => RollbackIsAdmitted
  <2> SUFFICES ASSUME IInv, WayBackIsRead, NEW c \in Call, reply[c].rollback # Unset
               PROVE  Admitted(Addressed(rollback_request(req[c], before[c]), Target(c)))
    BY DEF RollbackIsAdmitted
  <2> DEFINE back == Addressed(rollback_request(req[c], before[c]), Target(c))
  <2>1. req[c] \in Request /\ Admitted(req[c])
    BY ApplyChangeAssumption DEF WayBackIsRead
  <2>2. lifetime_match(before[c]) \in Lifetimes
    BY DEF WayBackIsRead, IInv, TypeOK, Reply
  <2>3. /\ back.target = req[c].target /\ back.change_type = req[c].change_type
        /\ back.profile = req[c].profile /\ back.seconds = lifetime_match(before[c])
    BY <2>1 DEF rollback_request, Addressed, Target, Request
  <2>4. \A n \in MinSeconds .. MaxSeconds : n \in Int
    BY DEF MinSeconds, MaxSeconds
  <2> HIDE DEF back
  <2>5. back.seconds \in MinSeconds .. MaxSeconds
    BY <2>2, <2>3
  <2>6. Admitted(back)
    BY <2>1, <2>3, <2>4, <2>5 DEF Admitted, WellFormed, InInventory, validate_change_request,
       KnownType, SafeProfile, Convertible, InRange
  <2> QED  BY <2>6 DEF back
<1> QED  BY <1>1, <1>2, <1>3, Invariance, PTL DEF Spec
=============================================================================
