---------------------------- MODULE BridgeProofs ----------------------------
(***************************************************************************)
(* What holds of the read path for any number of requests, targets and     *)
(* inventories.  IInv is inductive: ContactsAreAllowed follows from what   *)
(* each check has left behind (ChecksPassed) and from where a call's       *)
(* inventory came from (InventoriesAreReal); OneInventory needs the event  *)
(* loop (LoopHeld), since another call might store its own reading first.  *)
(***************************************************************************)
EXTENDS Bridge, TLAPS

\* A step of one call, whatever it is.
Step(c) == Arrive(c) \/ Receive(c) \/ Run(c)

\* The initial states.
LEMMA InitIInv == Init => IInv
<1> SUFFICES ASSUME Init PROVE IInv
  OBVIOUS
<1>1. TypeOK
  BY BridgeAssumption DEF Init, TypeOK, PC, Answers, Shown, Whole
<1>2. ChecksPassed /\ InventoriesAreReal /\ LoopHeld
  BY DEF Init, ChecksPassed, InventoriesAreReal, LoopHeld, Handling
<1>3. OneInventory /\ AnsweredAtEnd /\ NoFakeSuccess
  BY DEF Init, OneInventory, AnsweredAtEnd, NoFakeSuccess
<1> QED  BY <1>1, <1>2, <1>3 DEF IInv

\* What one call's step leaves alone: the other calls, and the file.
LEMMA StepFrame ==
    ASSUME TypeOK, NEW c \in Call, Step(c)
    PROVE  /\ UNCHANGED <<file, since, edits>>
           /\ pc[c] # "done" /\ pc'[c] # "idle"
           /\ pc' = [pc EXCEPT ![c] = pc'[c]]
           /\ req' = [req EXCEPT ![c] = req'[c]] /\ (pc[c] # "idle" => req'[c] = req[c])
           /\ reply' = [reply EXCEPT ![c] = reply'[c]]
           /\ inv' = [inv EXCEPT ![c] = inv'[c]]
           /\ rows' = [rows EXCEPT ![c] = rows'[c]]
           /\ shown' = [shown EXCEPT ![c] = shown'[c]]
BY DEF Step, Arrive, Receive, Run, Authorize, Dispatch, Load, Store, Resolve,
       ssh_show, SnmpRow, SnmpRows, HttpRead, ReadFails, Deliver, Querying,
       Answer, GoTo, TypeOK, reads, Inventories

LEMMA StepTypeOK ==
    ASSUME TypeOK, NEW c \in Call, Step(c)
    PROVE  TypeOK'
<1> USE DEF reads, Inventories
<1>1. ASSUME NEW answer \in Answers, Answer(c, answer)
      PROVE  /\ pc' \in [Call -> PC] /\ reply' \in [Call -> Answers]
             /\ loop' \in Call \cup {NoCall}
  BY <1>1 DEF Answer, GoTo, TypeOK, PC
<1>2. ASSUME NEW data \in Shown, Deliver(c, data)
      PROVE  TypeOK'
  <2>1. "envelope" \in Answers
    BY DEF Answers
  <2> QED  BY <1>1, <1>2, <2>1 DEF Deliver, TypeOK
<1>3. CASE Arrive(c)
  BY <1>3 DEF Arrive, GoTo, TypeOK, PC
<1>4. CASE Authorize(c)
  BY <1>1, <1>4 DEF Authorize, GoTo, TypeOK, PC, Answers
<1>5. CASE Receive(c)
  BY <1>1, <1>5 DEF Receive, GoTo, TypeOK, PC, Answers
<1>6. CASE Dispatch(c)
  BY <1>1, <1>6 DEF Dispatch, GoTo, TypeOK, PC, Answers
<1>7. CASE Load(c)
  BY <1>1, <1>7 DEF Load, GoTo, TypeOK, PC, Answers
<1>8. CASE Store(c)
  BY <1>8 DEF Store, GoTo, TypeOK, PC
<1>9. CASE Resolve(c)
  BY <1>1, <1>9 DEF Resolve, GoTo, TypeOK, PC, Answers
<1>10. CASE ssh_show(c)
  <2>1. PICK size \in Sizes : Deliver(c, cap_text(size))
    BY <1>10 DEF ssh_show
  <2>2. cap_text(size) \in Shown
    BY <2>1, BridgeAssumption DEF cap_text, Shown, Sizes
  <2> QED  BY <1>2, <2>1, <2>2
<1>11. CASE SnmpRow(c)
  BY <1>11 DEF SnmpRow, TypeOK
<1>12. CASE SnmpRows(c)
  <2>1. Whole(rows[c]) \in Shown
    BY DEF Whole, Shown, TypeOK
  <2> QED  BY <1>2, <1>12, <2>1 DEF SnmpRows
<1>13. CASE HttpRead(c)
  <2>1. PICK size \in Sizes : Deliver(c, Whole(size))
    BY <1>13 DEF HttpRead
  <2>2. Whole(size) \in Shown
    BY <2>1, BridgeAssumption DEF Whole, Shown, Sizes
  <2> QED  BY <1>2, <2>1, <2>2
<1>14. CASE ReadFails(c)
  BY <1>1, <1>14 DEF ReadFails, TypeOK, Answers
<1> QED  BY <1>3, <1>4, <1>5, <1>6, <1>7, <1>8, <1>9, <1>10, <1>11, <1>12,
            <1>13, <1>14 DEF Step, Run

LEMMA OtherTypeOK ==
    ASSUME TypeOK, EditInventory \/ Restart
    PROVE  TypeOK'
<1>1. CASE EditInventory
  BY <1>1, BridgeAssumption DEF EditInventory, TypeOK, reads
<1>2. CASE Restart
  BY <1>2 DEF Restart, TypeOK, reads, PC, Answers
<1> QED  BY <1>1, <1>2

\* What each step of a call leaves behind in its request's checks.
LEMMA ChecksStep ==
    ASSUME TypeOK, ChecksPassed, LoopHeld, NEW c \in Call, Step(c)
    PROVE  ChecksPassed'
<1>1. /\ pc' = [pc EXCEPT ![c] = pc'[c]] /\ req' = [req EXCEPT ![c] = req'[c]]
      /\ inv' = [inv EXCEPT ![c] = inv'[c]]
  BY StepFrame
<1>2. pc'[c] # "idle" => req'[c] \in Requests
  <2>1. CASE Arrive(c)
    BY <2>1 DEF Arrive, TypeOK
  <2>2. CASE pc[c] # "idle"
    <3>1. req'[c] = req[c]
      BY <2>2, StepFrame
    <3> QED  BY <2>2, <3>1 DEF ChecksPassed
  <2>3. pc[c] = "idle" => Arrive(c)
    BY DEF Step, Receive, Run, Authorize, Dispatch, Load, Store, Resolve, ssh_show,
           SnmpRow, SnmpRows, HttpRead, ReadFails, Querying
  <2> QED  BY <2>1, <2>2, <2>3
<1>3. pc'[c] \in {"body"} \cup Handling /\ SingleLoop => req'[c].authorized
  BY DEF Step, Arrive, Receive, Run, Authorize, Dispatch, Load, Store, Resolve,
         ssh_show, SnmpRow, SnmpRows, HttpRead, ReadFails, Deliver, Querying,
         Answer, GoTo, TypeOK, reads, Handling, ChecksPassed
<1>4. pc'[c] \in Handling \ {"dispatch"} => req'[c].name \in TOOL_NAMES /\ req'[c].valid
  BY DEF Step, Arrive, Receive, Run, Authorize, Dispatch, Load, Store, Resolve,
         ssh_show, SnmpRow, SnmpRows, HttpRead, ReadFails, Deliver, Querying,
         Answer, GoTo, TypeOK, reads, Handling, ChecksPassed
<1>5. pc'[c] = "query" => req'[c].allowed /\ Found(req'[c], inv'[c])
  <2>1. CASE Resolve(c)
    BY <2>1 DEF Resolve, Answer, GoTo, TypeOK, reads
  <2>2. CASE SnmpRow(c)
    BY <2>2 DEF SnmpRow, Querying, ChecksPassed
  <2> QED  BY <2>1, <2>2 DEF Step, Arrive, Receive, Run, Authorize, Dispatch,
              Load, Store, ssh_show, SnmpRows, HttpRead, ReadFails, Deliver,
              Answer, GoTo, TypeOK
<1> QED  BY <1>1, <1>2, <1>3, <1>4, <1>5 DEF ChecksPassed, TypeOK

\* The inventory of a call comes from the file or from the cache.
LEMMA InventoryStep ==
    ASSUME TypeOK, InventoriesAreReal, NEW c \in Call, Step(c)
    PROVE  InventoriesAreReal'
<1>1. /\ file' = file /\ since' = since
      /\ pc' = [pc EXCEPT ![c] = pc'[c]] /\ inv' = [inv EXCEPT ![c] = inv'[c]]
  BY StepFrame
<1>2. cache' # NotLoaded => cache' \in since \ {NoFile}
  BY DEF Step, Arrive, Receive, Run, Authorize, Dispatch, Load, Store, Resolve,
         ssh_show, SnmpRow, SnmpRows, HttpRead, ReadFails, Deliver, InventoriesAreReal
<1>3. pc'[c] \in {"store", "resolve", "query"} => inv'[c] \in since \ {NoFile}
  BY DEF Step, Arrive, Receive, Run, Authorize, Dispatch, Load, Store, Resolve,
         ssh_show, SnmpRow, SnmpRows, HttpRead, ReadFails, Deliver, Querying,
         Answer, GoTo, TypeOK, reads, InventoriesAreReal
<1> QED  BY <1>1, <1>2, <1>3 DEF InventoriesAreReal, TypeOK

\* Only a call that has the event loop, or is given it, is in its handler.
LEMMA LoopStep ==
    ASSUME TypeOK, LoopHeld, NEW c \in Call, Step(c)
    PROVE  LoopHeld'
<1>1. pc' = [pc EXCEPT ![c] = pc'[c]]
  BY StepFrame
<1>2. ~SingleLoop => pc'[c] \notin {"arrived", "body"}
  BY DEF Step, Arrive, Receive, Run, Authorize, Dispatch, Load, Store, Resolve,
         ssh_show, SnmpRow, SnmpRows, HttpRead, ReadFails, Deliver, Querying,
         Answer, GoTo, TypeOK, LoopHeld
<1>3. CASE ~SingleLoop
  BY <1>1, <1>2, <1>3 DEF LoopHeld, TypeOK
<1>4. CASE SingleLoop /\ pc[c] \notin Handling
  <2>1. \/ pc'[c] \notin Handling /\ loop' = IF loop = c THEN NoCall ELSE loop
        \/ pc'[c] \notin Handling /\ loop' = loop
        \/ pc'[c] = "dispatch" /\ loop = NoCall /\ loop' = c
    BY <1>4 DEF Step, Arrive, Receive, Run, Authorize, Dispatch, Load, Store,
         Resolve, ssh_show, SnmpRow, SnmpRows, HttpRead, ReadFails, Deliver,
         Querying, Answer, GoTo, TypeOK, Handling, LoopFree
  <2>2. cache' = cache
    BY <1>4 DEF Step, Arrive, Receive, Run, Authorize, Dispatch, Load, Store,
         Resolve, ssh_show, SnmpRow, SnmpRows, HttpRead, ReadFails, Deliver,
         Querying, Handling
  <2> QED  BY <1>1, <1>4, <2>1, <2>2, BridgeAssumption DEF LoopHeld, TypeOK, Handling
<1>5. CASE SingleLoop /\ pc[c] \in Handling
  <2>1. loop = c /\ \A k \in Call \ {c} : pc[k] \notin Handling
    BY <1>5 DEF LoopHeld
  <2>2. pc'[c] \in Handling => loop' = c
    BY <1>5, <2>1 DEF Step, Arrive, Receive, Run, Authorize, Dispatch, Load,
         Store, Resolve, ssh_show, SnmpRow, SnmpRows, HttpRead, ReadFails,
         Deliver, Querying, Answer, GoTo, TypeOK, Handling
  <2>3. pc'[c] \in {"load", "store"} => cache' = NotLoaded
    BY <1>5, <2>1 DEF Step, Arrive, Receive, Run, Authorize, Dispatch, Load,
         Store, Resolve, ssh_show, SnmpRow, SnmpRows, HttpRead, ReadFails,
         Deliver, Querying, Answer, GoTo, TypeOK, Handling, LoopHeld
  <2> QED  BY <1>1, <1>5, <2>1, <2>2, <2>3 DEF LoopHeld, TypeOK, Handling
<1> QED  BY <1>3, <1>4, <1>5

\* As a service no other call can store a reading of its own in between.
LEMMA OneInventoryStep ==
    ASSUME TypeOK, LoopHeld, OneInventory, NEW c \in Call, Step(c)
    PROVE  OneInventory'
<1> SUFFICES ASSUME SingleLoop, NEW k \in Call, pc'[k] \in {"resolve", "query"}
             PROVE  inv'[k] = cache'
  BY DEF OneInventory
<1>1. /\ pc' = [pc EXCEPT ![c] = pc'[c]] /\ inv' = [inv EXCEPT ![c] = inv'[c]]
  BY StepFrame
<1>2. CASE k = c
  BY <1>2 DEF Step, Arrive, Receive, Run, Authorize, Dispatch, Load, Store,
       Resolve, ssh_show, SnmpRow, SnmpRows, HttpRead, ReadFails, Deliver,
       Querying, Answer, GoTo, TypeOK, reads, OneInventory, LoopHeld
<1>3. CASE k # c
  <2>1. pc[k] = pc'[k] /\ inv'[k] = inv[k] /\ loop = k
    BY <1>1, <1>3 DEF TypeOK, LoopHeld, Handling
  <2>2. cache' = cache
    BY <1>3, <2>1 DEF Step, Arrive, Receive, Run, Authorize, Dispatch, Load,
         Store, Resolve, ssh_show, SnmpRow, SnmpRows, HttpRead, ReadFails,
         Deliver, Querying, LoopHeld, Handling
  <2> QED  BY <2>1, <2>2 DEF OneInventory
<1> QED  BY <1>2, <1>3

LEMMA AnsweredStep ==
    ASSUME TypeOK, AnsweredAtEnd, NEW c \in Call, Step(c)
    PROVE  AnsweredAtEnd'
<1>1. /\ pc' = [pc EXCEPT ![c] = pc'[c]] /\ reply' = [reply EXCEPT ![c] = reply'[c]]
      /\ pc[c] # "done"
  BY StepFrame
<1>2. pc'[c] = "done" \/ reply'[c] = reply[c]
  BY DEF Step, Arrive, Receive, Run, Authorize, Dispatch, Load, Store, Resolve,
         ssh_show, SnmpRow, SnmpRows, HttpRead, ReadFails, Deliver, Querying,
         Answer, GoTo, TypeOK
<1> QED  BY <1>1, <1>2 DEF AnsweredAtEnd, TypeOK

\* An snmp_get gets its envelope from SnmpRows, and from there only.
LEMMA NoFakeStep ==
    ASSUME TypeOK, AnsweredAtEnd, NoFakeSuccess, NEW c \in Call, Step(c)
    PROVE  NoFakeSuccess'
<1>1. /\ pc[c] # "done"
      /\ req' = [req EXCEPT ![c] = req'[c]] /\ reply' = [reply EXCEPT ![c] = reply'[c]]
      /\ shown' = [shown EXCEPT ![c] = shown'[c]]
  BY StepFrame
<1>2. reply[c] = "none"
  BY <1>1 DEF AnsweredAtEnd
<1>3. ASSUME reply'[c] = "envelope", req'[c].name = "snmp_get"
      PROVE  shown'[c].size = req'[c].oids
  <2>1. SnmpRows(c)
    BY <1>2, <1>3 DEF Step, Arrive, Receive, Run, Authorize, Dispatch, Load,
         Store, Resolve, ssh_show, SnmpRow, HttpRead, ReadFails, Deliver,
         Querying, EndpointTools, Answer, GoTo, TypeOK
  <2> QED  BY <1>3, <2>1 DEF SnmpRows, Deliver, Querying, Whole, TypeOK
<1> QED  BY <1>1, <1>3 DEF NoFakeSuccess, TypeOK

\* The two steps that are nobody's call.
LEMMA OtherIInv ==
    ASSUME IInv, EditInventory \/ Restart
    PROVE  IInv'
<1> USE DEF IInv
<1>1. CASE EditInventory
  <2>1. UNCHANGED <<loop, pc, req, reply, cache, inv, rows, shown>> /\ since' = since \cup {file'}
    BY <1>1 DEF EditInventory, reads
  <2>2. ChecksPassed' /\ LoopHeld' /\ OneInventory' /\ AnsweredAtEnd' /\ NoFakeSuccess'
    BY <2>1 DEF ChecksPassed, LoopHeld, OneInventory, AnsweredAtEnd, NoFakeSuccess
  <2>3. InventoriesAreReal'
    BY <2>1 DEF InventoriesAreReal
  <2> QED  BY <1>1, <2>2, <2>3, OtherTypeOK
<1>2. CASE Restart
  <2>1. \A c \in Call : pc'[c] \in {"idle", "done"} /\ (pc'[c] # "idle" => pc[c] # "idle")
    BY <1>2 DEF Restart
  <2>2. req' = req /\ shown' = shown /\ cache' = NotLoaded /\ since' = {file'}
    BY <1>2 DEF Restart, reads
  <2>3. ChecksPassed' /\ LoopHeld' /\ OneInventory' /\ InventoriesAreReal'
    BY <2>1, <2>2 DEF ChecksPassed, LoopHeld, OneInventory, InventoriesAreReal, Handling
  <2>4. AnsweredAtEnd' /\ NoFakeSuccess'
    BY <1>2, <2>2 DEF Restart, AnsweredAtEnd, NoFakeSuccess
  <2> QED  BY <1>2, <2>3, <2>4, OtherTypeOK
<1> QED  BY <1>1, <1>2

LEMMA NextIInv == IInv /\ [Next]_vars => IInv'
<1> SUFFICES ASSUME IInv, [Next]_vars  PROVE IInv'
  OBVIOUS
<1>1. ASSUME NEW c \in Call, Step(c)  PROVE IInv'
  BY <1>1, StepTypeOK, ChecksStep, InventoryStep, LoopStep, OneInventoryStep,
     AnsweredStep, NoFakeStep DEF IInv
<1>2. CASE EditInventory \/ Restart
  BY <1>2, OtherIInv
<1>3. CASE UNCHANGED vars
  BY <1>3 DEF vars, reads, IInv, TypeOK, ChecksPassed, InventoriesAreReal,
       LoopHeld, OneInventory, AnsweredAtEnd, NoFakeSuccess
<1> QED  BY <1>1, <1>2, <1>3 DEF Next, Step

\* The inductive invariant holds of every behaviour of the bridge
\* (service.mcp_endpoint, mcp._dispatch).
THEOREM Invariance == Spec => []IInv
<1>1. Init => IInv
  BY InitIInv
<1>2. IInv /\ [Next]_vars => IInv'
  BY NextIInv
<1> QED  BY <1>1, <1>2, PTL DEF Spec

\* Every variable keeps a value of its kind: an inventory that could not be
\* read is never cached (inventory.py:64-76).
THEOREM TypeCorrect == Spec => []TypeOK
<1>1. IInv => TypeOK
  BY DEF IInv
<1> QED  BY <1>1, Invariance, PTL

\* Whoever is contacted was asked for by an authorised request that passed
\* its checks, and is in an inventory of this process (mcp.py:65-106).
THEOREM OnlyAllowedContacts == Spec => []ContactsAreAllowed
<1>1. IInv => ContactsAreAllowed
  <2> SUFFICES ASSUME IInv, NEW c \in Call, pc[c] = "query"
               PROVE  /\ SingleLoop => req[c].authorized
                      /\ req[c].valid /\ req[c].allowed
                      /\ \E i \in since \ {NoFile} : Found(req[c], i)
    BY DEF ContactsAreAllowed
  <2>1. inv[c] \in since \ {NoFile} /\ Found(req[c], inv[c])
    BY DEF IInv, InventoriesAreReal, ChecksPassed
  <2> QED  BY <2>1 DEF IInv, ChecksPassed, Handling
<1> QED  BY <1>1, Invariance, PTL

\* As a service all calls of a process resolve their targets from one
\* inventory (inventory.py:64).
THEOREM InventoriesAgree == Spec => []OneInventory
<1>1. IInv => OneInventory
  BY DEF IInv
<1> QED  BY <1>1, Invariance, PTL

\* No snmp_get is answered with fewer rows than it asked for (live.py:97).
THEOREM EnvelopesAreWhole == Spec => []NoFakeSuccess
<1>1. IInv => NoFakeSuccess
  BY DEF IInv
<1> QED  BY <1>1, Invariance, PTL

\* However many threads load the inventory at once, the first stored reading
\* stays until the process ends (inventory.py:64).
THEOREM CacheFreezes == Spec => CacheIsFrozen
<1>1. [Next]_vars => (cache # NotLoaded /\ cache' # cache => cache' = NotLoaded /\ since' = {file})
  <2> SUFFICES ASSUME [Next]_vars, cache # NotLoaded, cache' # cache
               PROVE  cache' = NotLoaded /\ since' = {file}
    OBVIOUS
  <2>1. ASSUME NEW c \in Call, Step(c)  PROVE FALSE
    BY <2>1 DEF Step, Arrive, Receive, Run, Authorize, Dispatch, Load, Store,
         Resolve, ssh_show, SnmpRow, SnmpRows, HttpRead, ReadFails, Deliver
  <2>2. Restart
    BY <2>1 DEF Next, Step, EditInventory, vars
  <2> QED  BY <2>2 DEF Restart
<1> QED  BY <1>1, PTL DEF Spec, CacheIsFrozen

\* As a service, "no inventory" is only said by a process that has none, of a
\* file that is bad just then (inventory.py:64-76).
THEOREM NoInventoryTellsTheTruth == Spec => NoInventoryIsCurrent
<1>1. IInv /\ [Next]_vars =>
        \A c \in Call : reply'[c] = "no_inventory" /\ reply[c] # "no_inventory" /\ SingleLoop
                        => cache = NotLoaded /\ file = NoFile
  <2> SUFFICES ASSUME IInv, [Next]_vars, SingleLoop, NEW k \in Call,
                      reply'[k] = "no_inventory", reply[k] # "no_inventory"
               PROVE  cache = NotLoaded /\ file = NoFile
    OBVIOUS
  <2> USE DEF IInv
  <2>1. ASSUME NEW c \in Call, Step(c)  PROVE cache = NotLoaded /\ file = NoFile
    <3>1. reply' = [reply EXCEPT ![c] = reply'[c]]
      BY <2>1, StepFrame
    <3>2. k = c
      BY <3>1 DEF TypeOK
    <3>3. Load(c)
      BY <2>1, <3>2 DEF Step, Arrive, Receive, Run, Authorize, Dispatch, Store,
           Resolve, ssh_show, SnmpRow, SnmpRows, HttpRead, ReadFails, Deliver,
           Answer, GoTo, TypeOK
    <3>4. file = NoFile /\ pc[c] = "load"
      BY <3>2, <3>3 DEF Load, Answer, GoTo, TypeOK
    <3> QED  BY <3>4 DEF LoopHeld
  <2>2. ~Restart /\ ~EditInventory /\ ~UNCHANGED vars
    BY DEF Restart, EditInventory, vars
  <2> QED  BY <2>1, <2>2 DEF Next, Step
<1> QED  BY <1>1, Invariance, PTL DEF Spec, NoInventoryIsCurrent
=============================================================================
