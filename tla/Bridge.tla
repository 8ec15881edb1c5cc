------------------------------- MODULE Bridge -------------------------------
(***************************************************************************)
(* The read path of the bridge: service.mcp_endpoint, mcp.handle_tools_call*)
(* and mcp._dispatch for the six read tools, and the inventory             *)
(* (inventory._raw_inventory) they resolve every target from, which each   *)
(* process caches the first time it can read it.                           *)
(*                                                                         *)
(* The endpoint authorises a request, awaits its body, and runs the rest   *)
(* on the event loop without another await (SingleLoop).  As a package the *)
(* host calls handle_tools_call itself, from its own threads (~SingleLoop).*)
(* The write tool is ApplyChange's.                                        *)
(***************************************************************************)
EXTENDS Integers

CONSTANTS
    Call,               \* the requests that may be made
    NoCall,             \* nothing occupies the event loop
    Requests,           \* what a request may carry
    NoRequest,          \* a request not made yet
    SingleLoop,         \* TRUE as a service, FALSE as a package
    Target,             \* the ids an argument may name
    Files,              \* the inventories the file may hold
    NoFile,             \* a file that is missing, no JSON, or no object
    NotLoaded,          \* the cache before its first successful load
    MaxOutput,          \* max_output_bytes, in units of the outputs' sizes
    WalkCap,            \* the rows after which an SNMP walk is broken off
    MaxInventoryEdits   \* bound on changes to the file

\* The tools that open a session to a device check an allowlist first; the
\* others query an HTTP endpoint of a kind.
DeviceTools   == {"ssh_show", "snmp_get", "snmp_walk"}
EndpointTools == {"prometheus_query", "alertmanager_alerts", "logs_query"}
TOOL_NAMES    == DeviceTools \cup EndpointTools
EndpointKind  == {"prometheus", "alertmanager", "loki"}

\* logs_query asks for no kind; its live source then serves Loki only.
ExpectedKinds(tool) ==
    CASE tool = "prometheus_query"    -> {"prometheus"}
      [] tool = "alertmanager_alerts" -> {"alertmanager"}
      [] OTHER                        -> EndpointKind

\* A request: whether its bearer token is right, what its body is, which
\* method it calls, and for tools/call the tool's name ("unhashable" for a
\* JSON list or object), whether the arguments fit the tool's input model,
\* whether its allowlist lets the command or the OIDs through, and for
\* snmp_get how many OIDs it asks for.
Request == [authorized : BOOLEAN,
            body       : {"object", "not_object", "no_json"},
            method     : {"initialize", "tools/list", "tools/call", "other"},
            name       : TOOL_NAMES \cup {"unknown", "unhashable"},
            target     : Target,
            valid      : BOOLEAN,
            allowed    : BOOLEAN,
            oids       : Nat \ {0}]

\* An inventory: its devices, its endpoints by kind, and for each of the two
\* sections whether it is an object at all (or absent).
Inventory == [devices      : SUBSET Target,
              devices_ok   : BOOLEAN,
              endpoints    : [Target -> EndpointKind \cup {"none"}],
              endpoints_ok : BOOLEAN]

ASSUME BridgeAssumption ==
    /\ NoCall \notin Call
    /\ Requests \subseteq Request
    /\ NoRequest \notin Requests
    /\ SingleLoop \in BOOLEAN
    /\ Files \subseteq Inventory
    /\ NoFile \notin Files
    /\ NotLoaded \notin Files \cup {NoFile}
    /\ MaxOutput \in Nat
    /\ WalkCap \in Nat \ {0}
    /\ MaxInventoryEdits \in Nat

VARIABLES
    loop,     \* the request whose handler occupies the event loop, or NoCall
    pc,       \* what each request does next
    req,      \* each request
    reply,    \* what each request was answered
    file,     \* what the inventory file holds
    cache,    \* _raw_inventory's one cached result
    inv,      \* the inventory each call has been given
    rows,     \* the SNMP rows each call has read
    shown,    \* the data in each call's envelope
    since,    \* what the file has held since the process started
    edits     \* changes of the file so far

reads == <<rows, shown>>
vars  == <<loop, pc, req, reply, file, cache, inv, reads, since, edits>>

PC == {"idle", "arrived", "body", "dispatch", "load", "store", "resolve", "query", "done"}

\* "isError" is a tool result that reports a failure, "no_inventory" the one
\* whose message is InventoryError's; "raised" an exception past the handler.
Answers == {"none", "401", "400", "404", "result", "envelope",
            "isError", "no_inventory", "raised", "lost"}

\* An envelope's data: its size, or its rows, and its 'truncated' flag.
Shown == [size : Nat, truncated : BOOLEAN]
Whole(size) == [size |-> size, truncated |-> FALSE]

\* The handler is running, without an await.
Handling == {"dispatch", "load", "store", "resolve", "query"}
-----------------------------------------------------------------------------
\* get_device and get_endpoint on one inventory.  A section that is no object
\* fails the lookup itself, which is an unexpected error and not an unknown target.
Readable(r, i) == IF r.name \in DeviceTools THEN i.devices_ok ELSE i.endpoints_ok
Listed(r, i) ==
    IF r.name \in DeviceTools
    THEN r.target \in i.devices
    ELSE i.endpoints[r.target] \in ExpectedKinds(r.name)
Found(r, i) == Readable(r, i) /\ Listed(r, i)

\* The message for an unknown target names the known ones, out of the cached
\* inventory: either section of it may be no object, inside an except clause
\* that nothing guards.
ListingRaises(r, i, cached) ==
    /\ Readable(r, i) /\ ~Listed(r, i)
    /\ ~(cached.devices_ok /\ cached.endpoints_ok)

\* LiveSource.logs_query turns down what is not Loki.
Servable(r, i) == r.name = "logs_query" => i.endpoints[r.target] = "loki"

Init ==
    /\ loop = NoCall
    /\ pc = [c \in Call |-> "idle"]
    /\ req = [c \in Call |-> NoRequest]
    /\ reply = [c \in Call |-> "none"]
    /\ file \in Files \cup {NoFile}
    /\ cache = NotLoaded
    /\ inv = [c \in Call |-> NotLoaded]
    /\ rows = [c \in Call |-> 0]
    /\ shown = [c \in Call |-> Whole(0)]
    /\ since = {file}
    /\ edits = 0

LoopFree == SingleLoop => loop = NoCall
Inventories == <<file, since, edits>>

GoTo(c, label) == pc' = [pc EXCEPT ![c] = label]

Answer(c, answer) ==
    /\ GoTo(c, "done")
    /\ reply' = [reply EXCEPT ![c] = answer]
    /\ loop' = IF loop = c THEN NoCall ELSE loop

\* A request arrives; a host that uses the package is in the handler at once.
Arrive(c) ==
    /\ pc[c] = "idle"
    /\ \E r \in Requests : req' = [req EXCEPT ![c] = r]
    /\ GoTo(c, IF SingleLoop THEN "arrived" ELSE "dispatch")
    /\ UNCHANGED <<loop, reply, cache, inv, reads, Inventories>>

\* The bearer token is compared, then the body awaited: the event loop is free
\* for other requests in between.
Authorize(c) ==
    /\ pc[c] = "arrived"
    /\ LoopFree
    /\ IF req[c].authorized
       THEN GoTo(c, "body") /\ UNCHANGED <<loop, reply>>
       ELSE Answer(c, "401")
    /\ UNCHANGED <<req, cache, inv, reads, Inventories>>

\* The body is there: JSON-RPC by method.
Receive(c) ==
    /\ pc[c] = "body"
    /\ LoopFree
    /\ LET r == req[c] IN
       \/ r.body # "object" /\ Answer(c, "400")
       \/ r.body = "object" /\ r.method \in {"initialize", "tools/list"} /\ Answer(c, "result")
       \/ r.body = "object" /\ r.method = "other" /\ Answer(c, "404")
       \/ /\ r.body = "object" /\ r.method = "tools/call"
          /\ GoTo(c, "dispatch")
          /\ loop' = c
          /\ UNCHANGED reply
    /\ UNCHANGED <<req, cache, inv, reads, Inventories>>

\* Mutant: no lru_cache in front of the file.
DispatchUncached(c) ==
    /\ pc[c] = "dispatch"
    /\ req[c].name \in TOOL_NAMES /\ req[c].valid
    /\ GoTo(c, "load")
    /\ UNCHANGED <<loop, req, reply, cache, inv, reads, Inventories>>

\* The tool is looked up and the arguments fitted to its input model, before
\* the inventory is touched.
Dispatch(c) ==
    /\ pc[c] = "dispatch"
    /\ LET r == req[c] IN
       \/ r.name = "unhashable" /\ Answer(c, "raised") /\ UNCHANGED inv
       \/ /\ r.name = "unknown" \/ (r.name \in TOOL_NAMES /\ ~r.valid)
          /\ Answer(c, "isError") /\ UNCHANGED inv
       \/ /\ r.name \in TOOL_NAMES /\ r.valid
          /\ GoTo(c, IF cache = NotLoaded THEN "load" ELSE "resolve")
          /\ inv' = [inv EXCEPT ![c] = cache]
          /\ UNCHANGED <<loop, reply>>
    /\ UNCHANGED <<req, cache, reads, Inventories>>

\* Mutants: a file that cannot be read is taken as it is, or replaced by an
\* inventory shipped with the package.
LoadUnchecked(c) ==
    /\ pc[c] = "load"
    /\ GoTo(c, "store")
    /\ inv' = [inv EXCEPT ![c] = file]
    /\ UNCHANGED <<loop, req, reply, cache, reads, Inventories>>
LoadOrDefault(c) ==
    /\ pc[c] = "load"
    /\ GoTo(c, "store")
    /\ inv' = [inv EXCEPT ![c] = IF file = NoFile THEN CHOOSE i \in Files : TRUE ELSE file]
    /\ UNCHANGED <<loop, req, reply, cache, reads, Inventories>>

\* Nothing is cached: the file is read.  A failure is not cached either.
Load(c) ==
    /\ pc[c] = "load"
    /\ IF file = NoFile
       THEN Answer(c, "no_inventory") /\ UNCHANGED inv
       ELSE /\ GoTo(c, "store")
            /\ inv' = [inv EXCEPT ![c] = file]
            /\ UNCHANGED <<loop, reply>>
    /\ UNCHANGED <<req, cache, reads, Inventories>>

\* Mutants: what was loaded is not kept, or the last thread to load it wins.
StoreNothing(c) ==
    /\ pc[c] = "store"
    /\ GoTo(c, "resolve")
    /\ UNCHANGED <<loop, req, reply, cache, inv, reads, Inventories>>
StoreLast(c) ==
    /\ pc[c] = "store"
    /\ cache' = inv[c]
    /\ GoTo(c, "resolve")
    /\ UNCHANGED <<loop, req, reply, inv, reads, Inventories>>

\* lru_cache keeps the first result stored; a thread that read the file in the
\* meantime goes on with what it read itself.
Store(c) ==
    /\ pc[c] = "store"
    /\ cache' = IF cache = NotLoaded THEN inv[c] ELSE cache
    /\ GoTo(c, "resolve")
    /\ UNCHANGED <<loop, req, reply, inv, reads, Inventories>>

\* The target-egress boundary, then the allowlist, then the source.
Resolve(c) ==
    /\ pc[c] = "resolve"
    /\ LET r == req[c]
           i == inv[c]
       IN  \/ ~Found(r, i) /\ Answer(c, IF ListingRaises(r, i, cache) THEN "raised" ELSE "isError")
           \/ Found(r, i) /\ ~(r.allowed /\ Servable(r, i)) /\ Answer(c, "isError")
           \/ /\ Found(r, i) /\ r.allowed /\ Servable(r, i)
              /\ GoTo(c, "query") /\ UNCHANGED <<loop, reply>>
    /\ UNCHANGED <<req, cache, inv, reads, Inventories>>

Querying(c, tools) == pc[c] = "query" /\ req[c].name \in tools

\* The read is over, with data in its envelope.
Deliver(c, data) ==
    /\ Answer(c, "envelope")
    /\ shown' = [shown EXCEPT ![c] = data]
    /\ UNCHANGED <<req, cache, inv, rows, Inventories>>

\* The sizes an answer of a target may have: one is over the cap.
Sizes == 0 .. MaxOutput + 1

cap_text(size) == [size |-> IF size > MaxOutput THEN MaxOutput ELSE size,
                   truncated |-> size > MaxOutput]

\* One show command in a session of its own; what is over the cap is cut off.
ssh_show(c) ==
    /\ Querying(c, {"ssh_show"})
    /\ \E size \in Sizes : Deliver(c, cap_text(size))

\* Mutant: a subtree that goes on is read on.
SnmpRowForEver(c) ==
    /\ \/ Querying(c, {"snmp_get"}) /\ rows[c] < req[c].oids
       \/ Querying(c, {"snmp_walk"})
    /\ rows' = [rows EXCEPT ![c] = IF @ < WalkCap THEN @ + 1 ELSE 1]
    /\ UNCHANGED <<loop, pc, req, reply, cache, inv, shown, Inventories>>

\* One OID after the other, each to its answer.
SnmpRow(c) ==
    /\ \/ Querying(c, {"snmp_get"}) /\ rows[c] < req[c].oids
       \/ Querying(c, {"snmp_walk"}) /\ rows[c] < WalkCap
    /\ rows' = [rows EXCEPT ![c] = @ + 1]
    /\ UNCHANGED <<loop, pc, req, reply, cache, inv, shown, Inventories>>

\* All OIDs of a get are there; a walk has left its subtree, or is broken off.
SnmpRows(c) ==
    /\ \/ Querying(c, {"snmp_get"}) /\ rows[c] = req[c].oids
       \/ Querying(c, {"snmp_walk"})
    /\ Deliver(c, Whole(rows[c]))

\* An endpoint's JSON, as it comes: the timeout is one of each wait for more of
\* it, and nothing bounds how much more there is.
HttpRead(c) ==
    /\ Querying(c, EndpointTools)
    /\ \E size \in Sizes : Deliver(c, Whole(size))

\* Mutant: a read that fails half way is answered with what there is.
ReadFailsPartly(c) ==
    /\ pc[c] = "query"
    /\ Deliver(c, Whole(rows[c]))

\* No credentials, no connection, an error status or no answer in time, for
\* the read or for one of its rows: the rows so far go with it.
ReadFails(c) ==
    /\ pc[c] = "query"
    /\ Answer(c, "isError")
    /\ UNCHANGED <<req, cache, inv, reads, Inventories>>

\* The steps of a call, but for its body.
Run(c) ==
    \/ Authorize(c)
    \/ Dispatch(c)
    \/ Load(c)
    \/ Store(c)
    \/ Resolve(c)
    \/ ssh_show(c)
    \/ SnmpRow(c)
    \/ SnmpRows(c)
    \/ HttpRead(c)
    \/ ReadFails(c)

\* An operator changes the inventory file, or is half way through it (NoFile).
EditInventory ==
    /\ edits < MaxInventoryEdits
    /\ edits' = edits + 1
    /\ file' \in (Files \cup {NoFile}) \ {file}
    /\ since' = since \cup {file'}
    /\ UNCHANGED <<loop, pc, req, reply, cache, inv, reads>>

\* The bridge ends with its requests in flight and its cache, and starts anew.
Restart ==
    /\ loop' = NoCall
    /\ pc' = [c \in Call |-> IF pc[c] = "idle" THEN "idle" ELSE "done"]
    /\ reply' = [c \in Call |-> IF pc[c] \in {"idle", "done"} THEN reply[c] ELSE "lost"]
    /\ cache' = NotLoaded
    /\ since' = {file}
    /\ UNCHANGED <<req, file, inv, reads, edits>>

Next ==
    \/ \E c \in Call : Arrive(c) \/ Receive(c) \/ Run(c)
    \/ EditInventory
    \/ Restart

\* The bridge takes the steps it can take: timeouts end every wait on a device.
\* An endpoint need never end its answer, and a client never send the body it
\* announced.
Fairness == \A c \in Call : WF_vars(Run(c) /\ ~Querying(c, EndpointTools))

Spec == Init /\ [][Next]_vars /\ Fairness
-----------------------------------------------------------------------------
\* Every variable holds a value of its kind.
TypeOK ==
    /\ loop \in Call \cup {NoCall}
    /\ pc \in [Call -> PC]
    /\ req \in [Call -> Requests \cup {NoRequest}]
    /\ reply \in [Call -> Answers]
    /\ file \in Files \cup {NoFile}
    /\ cache \in Files \cup {NotLoaded}
    /\ inv \in [Call -> Files \cup {NotLoaded}]
    /\ rows \in [Call -> Nat]
    /\ shown \in [Call -> Shown]
    /\ since \subseteq Files \cup {NoFile}
    /\ edits \in 0 .. MaxInventoryEdits

\* A request past the token check was authorised, one past the dispatch names
\* a tool and fits it, and one being read passed the allowlist for a target
\* that its inventory has.
ChecksPassed ==
    \A c \in Call :
        /\ pc[c] # "idle" => req[c] \in Requests
        /\ pc[c] \in {"body"} \cup Handling /\ SingleLoop => req[c].authorized
        /\ pc[c] \in Handling \ {"dispatch"} => req[c].name \in TOOL_NAMES /\ req[c].valid
        /\ pc[c] = "query" => req[c].allowed /\ Found(req[c], inv[c])

\* What is cached, or was read by a call in its handler, the file has held
\* since the process started.
InventoriesAreReal ==
    /\ file \in since
    /\ cache # NotLoaded => cache \in since \ {NoFile}
    /\ \A c \in Call : pc[c] \in {"store", "resolve", "query"} => inv[c] \in since \ {NoFile}

\* In service mode a call in its handler holds the event loop, and the cache
\* is empty while it loads the inventory.  As a package there is no endpoint.
LoopHeld ==
    \A c \in Call :
        /\ SingleLoop /\ pc[c] \in Handling => loop = c
        /\ SingleLoop /\ pc[c] \in {"load", "store"} => cache = NotLoaded
        /\ ~SingleLoop => pc[c] \notin {"arrived", "body"}

\* A call has no answer before its end.
AnsweredAtEnd == \A c \in Call : pc[c] # "done" => reply[c] = "none"

\* A device or an endpoint is only ever contacted for a request that was
\* authorised (as a service), fits its tool, passed the allowlist, and names a
\* target of an inventory the file has held while this process ran: an entry
\* removed before the last restart is out of reach (service.py:70,
\* mcp.py:65-106, inventory.py:64-110).
ContactsAreAllowed ==
    \A c \in Call : pc[c] = "query" =>
        /\ SingleLoop => req[c].authorized
        /\ req[c].valid /\ req[c].allowed
        /\ \E i \in since \ {NoFile} : Found(req[c], i)

\* As a service, every call a process works on resolves its target from the
\* same inventory, however the file changes under it (inventory.py:64): the
\* calls of one host's run never disagree on what is known.
OneInventory ==
    SingleLoop => \A c \in Call : pc[c] \in {"resolve", "query"} => inv[c] = cache

\* What a process has once loaded stays for its life, even if several threads
\* load it at once (inventory.py:64).
CacheIsFrozen ==
    [][cache # NotLoaded /\ cache' # cache => cache' = NotLoaded /\ since' = {file}]_vars

\* A caller is told the inventory cannot be read only by a process that has
\* never read one: neither a failure nor a later bad file replaces what was
\* cached, and a failure is not cached itself (inventory.py:64-76).
NoInventoryIsCurrent ==
    [][\A c \in Call :
          reply'[c] = "no_inventory" /\ reply[c] # "no_inventory" /\ SingleLoop
          => cache = NotLoaded /\ file = NoFile]_vars

\* An envelope is "never a fake success" (mcp.py:5-6, README.md:44-45): an
\* snmp_get answered with one has a row for every OID it asked for, although
\* each row is a request of its own and the ones before a failing one were
\* read (live.py:97, 131-133).
NoFakeSuccess ==
    \A c \in Call : reply[c] = "envelope" /\ req[c].name = "snmp_get" =>
        shown[c].size = req[c].oids

\* The invariants above together are inductive: the proofs rest on this one.
IInv ==
    /\ TypeOK
    /\ ChecksPassed
    /\ InventoriesAreReal
    /\ LoopHeld
    /\ OneInventory
    /\ AnsweredAtEnd
    /\ NoFakeSuccess

\* One thing only keeps the event loop, an endpoint that goes on with its answer
\* (live.py:182-184).  Where none does for ever, a request is seen to whatever
\* the others do: a client that never sends its body, a device that is slow or
\* silent, a subtree without end, a call that raised (service.py:68-102,
\* live.py:136).
LoopIsGivenBack ==
    (\A c \in Call : []<>~Querying(c, EndpointTools)) =>
        \A c \in Call : pc[c] \in Handling \cup {"arrived"} ~> pc[c] \in {"body", "done"}
=============================================================================
