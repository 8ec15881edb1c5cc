----------------------------- MODULE FixtureProofs -----------------------------
(***************************************************************************)
(* What the fixture bridge promises, for any calls, devices, fixtures,     *)
(* commands and OIDs: a source is handed only reads, and of a line only    *)
(* what was checked; the invariant of the simulated changes; and the demo  *)
(* implements ReversibleChange.                                            *)
(*                                                                         *)
(* The read side rests on AllowlistProofs and on what is said here of the  *)
(* writelist's own READ_COMMAND, which goes round the allowlist: it is in  *)
(* normal form, the allowlist would let it through, and the routing table  *)
(* answers it with the configuration.  The write side rests on IInv.       *)
(***************************************************************************)
EXTENDS Fixture, WritelistProofs, AllowlistProofs

\* The writelist's own read command, piece by piece.
LEMMA ReadCommandIs ==
    /\ READ_COMMAND \in Seq(Piece) /\ Len(READ_COMMAND) = 11 /\ DOMAIN READ_COMMAND = 1 .. 11
    /\ READ_COMMAND[1] = "show" /\ READ_COMMAND[2] = Blank
    /\ READ_COMMAND[3] = "running-config" /\ READ_COMMAND[4] = Blank
    /\ READ_COMMAND[5] = Bar /\ READ_COMMAND[6] = Blank
    /\ READ_COMMAND[7] = "section" /\ READ_COMMAND[8] = Blank
    /\ READ_COMMAND[9] = "crypto" /\ READ_COMMAND[10] = Blank
    /\ READ_COMMAND[11] = "ipsec"
<1>1. Len(READ_COMMAND) = 11 /\ DOMAIN READ_COMMAND = 1 .. 11
  BY DEF READ_COMMAND
<1>2. /\ READ_COMMAND[1] = "show" /\ READ_COMMAND[2] = Blank
      /\ READ_COMMAND[3] = "running-config" /\ READ_COMMAND[4] = Blank
      /\ READ_COMMAND[5] = Bar /\ READ_COMMAND[6] = Blank
      /\ READ_COMMAND[7] = "section" /\ READ_COMMAND[8] = Blank
      /\ READ_COMMAND[9] = "crypto" /\ READ_COMMAND[10] = Blank
      /\ READ_COMMAND[11] = "ipsec"
  BY DEF READ_COMMAND, Blank, Bar
<1>3. READ_COMMAND = [i \in 1 .. 11 |-> READ_COMMAND[i]]
  BY DEF READ_COMMAND
<1>4. \A i \in 1 .. 11 : READ_COMMAND[i] \in Piece
  BY <1>1, ReadCommandAssumption DEF Range
<1>5. READ_COMMAND \in Seq(Piece)
  BY <1>3, <1>4
<1> QED  BY <1>1, <1>2, <1>5

\* Its words, and what stands between them.
LEMMA ReadCommandWords ==
    \A i \in 1 .. 11 :
        IF i \in {2, 4, 6, 8, 10} THEN READ_COMMAND[i] = Blank
        ELSE READ_COMMAND[i] \in {"show", "running-config", Bar, "section", "crypto", "ipsec"}
<1>1. \A i \in 1 .. 11 : i = 1 \/ i = 3 \/ i = 5 \/ i = 7 \/ i = 9 \/ i = 11 \/ i \in {2, 4, 6, 8, 10}
  OBVIOUS
<1> QED  BY <1>1, ReadCommandIs

\* It is all lower case.
LEMMA ReadCommandIsLower == lower(READ_COMMAND) = READ_COMMAND
<1>1. \A i \in 1 .. 11 : READ_COMMAND[i] \notin DOMAIN Capitals
  BY ReadCommandIs, ReadCommandAssumption DEF Range
<1>2. READ_COMMAND = [i \in 1 .. 11 |-> READ_COMMAND[i]]
  BY DEF READ_COMMAND
<1>3. DOMAIN READ_COMMAND = 1 .. 11
  BY ReadCommandIs
<1>4. lower(READ_COMMAND) = [i \in 1 .. 11 |-> READ_COMMAND[i]]
  BY <1>1, <1>3 DEF lower
<1> QED  BY <1>2, <1>4

\* It is in normal form.
LEMMA ReadCommandIsNormal == Normal(READ_COMMAND)
<1> DEFINE words == {"show", "running-config", Bar, "section", "crypto", "ipsec"}
<1>1. \A w \in words : w \notin Whitespace
  BY DEF Bar, Whitespace
<1>2. \A i \in 1 .. 11 : IF i \in {2, 4, 6, 8, 10} THEN READ_COMMAND[i] = Blank
                         ELSE READ_COMMAND[i] \in words
  BY ReadCommandWords
<1> HIDE DEF words
<1>3. \A i \in 1 .. 11 : i \notin {2, 4, 6, 8, 10} => READ_COMMAND[i] \notin Whitespace
  BY <1>1, <1>2
<1>4. Spaced(READ_COMMAND)
  <2>1. \A i \in 2 .. 11 : i \notin {2, 4, 6, 8, 10} \/ i - 1 \notin {2, 4, 6, 8, 10}
    OBVIOUS
  <2>2. \A i \in 2 .. 11 : i \in 1 .. 11 /\ i - 1 \in 1 .. 11
    OBVIOUS
  <2> QED  BY <1>3, <2>1, <2>2, ReadCommandIs DEF Spaced
<1>5. \A i \in 1 .. 11 : READ_COMMAND[i] \in Whitespace => READ_COMMAND[i] = Blank
  BY <1>2, <1>3
<1> QED  BY <1>3, <1>4, <1>5, ReadCommandIs DEF Normal

\* It is one read verb with a subject and one read filter.
LEMMA ReadCommandIsReadOnly == ReadOnlyLine(READ_COMMAND)
<1>1. WordIn(READ_COMMAND, 1, READ_VERBS) /\ WordIn(READ_COMMAND, 7, FILTER_KEYWORDS)
  <2>1. "show" \in READ_VERBS /\ "section" \in FILTER_KEYWORDS
    BY DEF READ_VERBS, FILTER_KEYWORDS
  <2>2. WordEnds(READ_COMMAND, 1) /\ WordEnds(READ_COMMAND, 7)
    <3>1. READ_COMMAND[1 + 1] = Blank /\ READ_COMMAND[7 + 1] = Blank
      BY ReadCommandIs
    <3> QED  BY <3>1 DEF WordEnds, Blank
  <2> QED  BY <2>1, <2>2, ReadCommandIs, ReadCommandIsLower DEF WordIn
<1>2. \A i \in DOMAIN READ_COMMAND : READ_COMMAND[i] \notin SHELL_METACHARS
  <2>1. \A w \in {Blank, "show", "running-config", Bar, "section", "crypto", "ipsec"} :
           w \notin SHELL_METACHARS
    BY DEF Blank, Bar, SHELL_METACHARS
  <2> QED  BY <2>1, ReadCommandIs, ReadCommandWords
<1>3. \A i \in 2 .. Len(READ_COMMAND) : READ_COMMAND[i] = Blank => READ_COMMAND[i - 1] # Blank
  BY ReadCommandIs, ReadCommandIsNormal, BlanksArePieces DEF Normal, Spaced
<1>4. Last(READ_COMMAND) # Blank
  BY ReadCommandIsNormal, BlanksArePieces DEF Normal, Last
<1>5. \A b \in Bars(READ_COMMAND) : b = 5
  <2>1. \A w \in {Blank, "show", "running-config", "section", "crypto", "ipsec"} : w # Bar
    BY DEF Blank, Bar
  <2>2. \A i \in 1 .. 11 : i \in {1, 2, 3, 4, 5, 6, 7, 8, 9, 10, 11}
    OBVIOUS
  <2>3. \A i \in 1 .. 11 : READ_COMMAND[i] = Bar => i = 5
    BY <2>1, <2>2, ReadCommandIs
  <2> QED  BY <2>3, ReadCommandIs DEF Bars
<1>6. READ_COMMAND[3] # Bar
  <2>1. 3 \in DOMAIN READ_COMMAND
    BY ReadCommandIs
  <2> QED  BY <1>5, <2>1 DEF Bars
<1>7. \A b \in Bars(READ_COMMAND) :
         READ_COMMAND[b + 1] = Blank /\ WordIn(READ_COMMAND, b + 2, FILTER_KEYWORDS)
  <2>1. 5 + 1 = 6 /\ 5 + 2 = 7
    OBVIOUS
  <2> QED  BY <1>1, <1>5, <2>1, ReadCommandIs
<1>8. Len(READ_COMMAND) >= 3 /\ READ_COMMAND[2] = Blank
  BY ReadCommandIs
<1> QED  BY <1>1, <1>2, <1>3, <1>4, <1>6, <1>7, <1>8 DEF ReadOnlyLine, Blank

\* A line that a deny-list entry occurs in has all pieces of the entry.
LEMMA OccursIn ==
    ASSUME NEW line \in Seq(Piece), NEW entry, Len(entry) \in Nat, Occurs(entry, line),
           NEW k \in 1 .. Len(entry)
    PROVE  \E i \in DOMAIN line : line[i] = entry[k]
<1>1. PICK i \in 1 .. Len(line) - Len(entry) + 1 : SubSeq(line, i, i + Len(entry) - 1) = entry
  BY DEF Occurs
<1>2. /\ Len(line) \in Nat /\ DOMAIN line = 1 .. Len(line)
      /\ i \in Int /\ i + Len(entry) - 1 \in Int
  BY LenProperties
<1>3. \A j \in i .. i + Len(entry) - 1 : line[j] \in Piece
  <2>1. \A j \in i .. i + Len(entry) - 1 : j \in 1 .. Len(line)
    BY <1>2
  <2> QED  BY <2>1, ElementOfSeq
<1>4. \A j \in 1 .. i + Len(entry) - 1 - i + 1 :
         SubSeq(line, i, i + Len(entry) - 1)[j] = line[i + j - 1]
  BY <1>2, <1>3, SubSeqProperties
<1>5. k \in 1 .. i + Len(entry) - 1 - i + 1 /\ i + k - 1 \in 1 .. Len(line)
  BY <1>2
<1>6. entry[k] = line[i + k - 1]
  BY <1>1, <1>4, <1>5
<1> QED  BY <1>2, <1>5, <1>6

\* Nothing in it is denied.
LEMMA ReadCommandIsNotDenied ==
    \A entry \in DENY_SUBSTRINGS : ~Occurs(entry, lower(READ_COMMAND))
<1> DEFINE denied == {"reload", "configure", "redirect", "format", "copy", "append", "save",
                      "tee", "config"}
<1>1. \A entry \in DENY_SUBSTRINGS :
         Len(entry) \in Nat /\ \E k \in 1 .. Len(entry) : entry[k] \in denied
  <2> SUFFICES ASSUME NEW entry \in DENY_SUBSTRINGS
               PROVE  Len(entry) \in Nat /\ \E k \in 1 .. Len(entry) : entry[k] \in denied
    OBVIOUS
  <2>1. CASE \E w \in denied : entry = <<w>>
    BY <2>1
  <2>2. CASE \E w \in denied : \E p : entry \in {<<w, p>>, <<p, w>>}
    BY <2>2
  <2>3. CASE \E w \in denied : \E p, q : entry \in {<<p, w, q>>, <<p, q, w>>, <<w, p, q>>}
    BY <2>3
  <2>4. \/ entry \in {<<"reload">>, <<"configure">>, <<"redirect">>, <<"format">>}
        \/ entry \in {<<"copy", " ">>, <<" ", "append">>, <<"|", "tee">>}
        \/ entry \in {<<" ", "save", " ">>, <<"|", " ", "tee">>, <<"config", " ", "t">>}
    BY DEF DENY_SUBSTRINGS
  <2> QED  BY <2>1, <2>2, <2>3, <2>4
<1>2. \A i \in DOMAIN READ_COMMAND : READ_COMMAND[i] \notin denied
  <2>1. \A w \in {Blank, "show", "running-config", Bar, "section", "crypto", "ipsec"} : w \notin denied
    BY DEF Blank, Bar
  <2> HIDE DEF denied
  <2> QED  BY <2>1, ReadCommandIs, ReadCommandWords
<1> HIDE DEF denied
<1>3. ASSUME NEW entry \in DENY_SUBSTRINGS, Occurs(entry, READ_COMMAND)  PROVE FALSE
  <2>1. PICK k \in 1 .. Len(entry) : entry[k] \in denied
    BY <1>1
  <2>2. \E i \in DOMAIN READ_COMMAND : READ_COMMAND[i] = entry[k]
    BY <1>1, <1>3, ReadCommandIs, OccursIn
  <2> QED  BY <1>2, <2>1, <2>2
<1> QED  BY <1>3, ReadCommandIsLower

\* So it would pass the check it is never put through.
LEMMA ReadCommandIsPermitted == permitted(READ_COMMAND)
<1>1. Len(READ_COMMAND) <= MaxCommandLen
  BY ReadCommandAssumption
<1> QED  BY <1>1, ReadCommandIsNormal, ReadCommandIsReadOnly, ReadCommandIsNotDenied, ReadOnlyIsPermitted
-----------------------------------------------------------------------------
\* Whatever a step hands the source has passed the check it is subject to, or
\* is the writelist's own command.
HandedIsChecked ==
    \/ handed = Nothing
    \/ handed = Line(READ_COMMAND)
    \/ \E command \in Commands :
          /\ validate_show_command(command) # Rejected
          /\ handed = Line(validate_show_command(command))
    \/ \E oids \in OidLists : validate_oids(oids) /\ handed = Oids(oids)

\* And that is an invariant, whatever the calls do.
LEMMA HandedInvariant == Spec => []HandedIsChecked
<1>1. Init => HandedIsChecked
  BY DEF Init, HandedIsChecked
<1>2. HandedIsChecked /\ [Next]_vars => HandedIsChecked'
  <2> SUFFICES ASSUME HandedIsChecked, [Next]_vars  PROVE HandedIsChecked'
    OBVIOUS
  <2>1. ASSUME NEW command \in Commands, Show(command)  PROVE HandedIsChecked'
    <3>1. Checked[command] = validate_show_command(command)
      BY DEF Checked
    <3>2. CASE Checked[command] = Rejected
      BY <2>1, <3>2 DEF Show, HandedIsChecked
    <3>3. CASE Checked[command] # Rejected
      BY <2>1, <3>1, <3>3 DEF Show, HandedIsChecked
    <3> QED  BY <3>2, <3>3
  <2>2. ASSUME NEW oids \in OidLists, SnmpGet(oids)  PROVE HandedIsChecked'
    <3>1. CASE validate_oids(oids)
      BY <2>2, <3>1 DEF SnmpGet, HandedIsChecked
    <3>2. CASE ~validate_oids(oids)
      BY <2>2, <3>2 DEF SnmpGet, HandedIsChecked
    <3> QED  BY <3>1, <3>2
  <2>3. ASSUME NEW c \in Call, NEW r \in Changes, Submit(c, r)  PROVE HandedIsChecked'
    BY <2>3 DEF Submit, HandedIsChecked
  <2>4. ASSUME NEW c \in Call, ReadBefore(c) \/ ReadBack(c)  PROVE HandedIsChecked'
    BY <2>4 DEF ReadBefore, ReadBack, HandedIsChecked
  <2>5. ASSUME NEW c \in Call, apply_config(c)  PROVE HandedIsChecked'
    BY <2>5 DEF apply_config, HandedIsChecked
  <2>6. CASE Restart
    BY <2>6 DEF Restart, HandedIsChecked
  <2>7. CASE UNCHANGED vars
    BY <2>7 DEF vars, HandedIsChecked
  <2> QED  BY <2>1, <2>2, <2>3, <2>4, <2>5, <2>6, <2>7 DEF Next
<1> QED  BY <1>1, <1>2, PTL DEF Spec

\* A line handed to a source is the write path's or passed the allowlist.
LEMMA HandedLine ==
    ASSUME HandedIsChecked, handed.tool = "ssh_show"
    PROVE  \/ handed.line = READ_COMMAND
           \/ \E command \in Commands :
                 /\ validate_show_command(command) # Rejected
                 /\ handed.line = validate_show_command(command)
BY DEF HandedIsChecked, Nothing, Line, Oids

\* A list of OIDs among them passed its check.
LEMMA HandedOids ==
    ASSUME HandedIsChecked, handed.tool = "snmp_get"
    PROVE  \E oids \in OidLists : validate_oids(oids) /\ handed.oids = oids
BY DEF HandedIsChecked, Nothing, Line, Oids

\* Whatever commands and OIDs are asked for, a source only ever receives what
\* reads (clients.py:8-10): SourceGetsOnlyReads.
THEOREM SourceOnlyReads == Spec => []SourceGetsOnlyReads
<1>1. HandedIsChecked => SourceGetsOnlyReads
  <2> SUFFICES ASSUME HandedIsChecked  PROVE SourceGetsOnlyReads
    OBVIOUS
  <2>1. ASSUME handed.tool = "ssh_show"  PROVE ReadOnlyLine(handed.line)
    <3>1. \A command \in Commands : command \in Seq(Piece)
      BY FixtureAssumption
    <3> QED  BY <2>1, <3>1, HandedLine, OnlyReadsPass, ReadCommandIsReadOnly
  <2>2. ASSUME handed.tool = "snmp_get"
        PROVE  /\ Len(handed.oids) \in 1 .. 64
               /\ \A oid \in Range(handed.oids) : IsPrefix(<<1, 3, 6, 1, 2, 1>>, oid)
    <3>1. PICK oids \in OidLists : validate_oids(oids) /\ handed.oids = oids
      BY <2>2, HandedOids
    <3>2. \A oid : validate_oid(oid) => IsPrefix(<<1, 3, 6, 1, 2, 1>>, oid)
      BY DEF validate_oid, ALLOWED_OID_ROOTS
    <3> QED  BY <3>1, <3>2 DEF validate_oids, MAX_OIDS_PER_CALL, Range
  <2> QED  BY <2>1, <2>2 DEF SourceGetsOnlyReads
<1> QED  BY <1>1, HandedInvariant, PTL

\* And a line it receives is the very line that was checked, whatever
\* whitespace the command was written with: CheckedIsWhatRuns.
THEOREM CheckedLinesRun == Spec => []CheckedIsWhatRuns
<1>1. HandedIsChecked => CheckedIsWhatRuns
  <2> SUFFICES ASSUME HandedIsChecked, handed.tool = "ssh_show"
               PROVE  /\ validate_show_command(handed.line) = handed.line
                      /\ validate_show_command(Respaced(handed.line)) = handed.line
    BY DEF CheckedIsWhatRuns
  <2>1. CASE handed.line = READ_COMMAND
    BY <2>1, NormalIsKept, ReadCommandIsNormal, ReadCommandIsPermitted
  <2>2. ASSUME NEW command \in Commands, validate_show_command(command) # Rejected,
               handed.line = validate_show_command(command)
        PROVE  /\ validate_show_command(handed.line) = handed.line
               /\ validate_show_command(Respaced(handed.line)) = handed.line
    <3>1. command \in Seq(Piece)
      BY FixtureAssumption
    <3> QED  BY <2>2, <3>1, CheckingIsStable
  <2> QED  BY <2>1, <2>2, HandedLine
<1> QED  BY <1>1, HandedInvariant, PTL
-----------------------------------------------------------------------------
\* A lifetime that may be asked for is one a device can hold.
AsksForLifetimes == \A r \in Changes : Admitted(r) => r.seconds \in Lifetimes

\* The writelist's read command is answered with the configuration.
LEMMA ReadCommandRoute == route(READ_COMMAND) = "config"
<1> DEFINE matching == Matching(READ_COMMAND)
<1>1. DOMAIN SSH_RULES = 1 .. 9
  BY DEF SSH_RULES
<1>2. \A w : w \in ToSet(lower(READ_COMMAND)) <=>
             w \in {Blank, "show", "running-config", Bar, "section", "crypto", "ipsec"}
  BY ReadCommandIs, ReadCommandIsLower, ReadCommandWords DEF ToSet
<1>3. \A w \in {"sa", "session", "bgp"} : w \notin ToSet(lower(READ_COMMAND))
  <2>1. \A w \in {"sa", "session", "bgp"} :
           w \notin {Blank, "show", "running-config", Bar, "section", "crypto", "ipsec"}
    BY DEF Blank, Bar
  <2> QED  BY <1>2, <2>1
<1>4. /\ "sa" \in SSH_RULES[1].needles /\ "session" \in SSH_RULES[2].needles
      /\ "bgp" \in SSH_RULES[3].needles /\ "bgp" \in SSH_RULES[4].needles
      /\ SSH_RULES[5].needles = {"running-config"} /\ SSH_RULES[5].fixture = "config"
  BY DEF SSH_RULES
<1>5. matching \subseteq 5 .. 9 /\ 5 \in matching
  <2>1. 1 \notin matching /\ 2 \notin matching /\ 3 \notin matching /\ 4 \notin matching
    BY <1>3, <1>4 DEF Matching
  <2>2. 5 \in matching
    BY <1>1, <1>2, <1>4 DEF Matching
  <2>3. matching \subseteq 1 .. 9
    BY <1>1 DEF Matching
  <2> HIDE DEF matching
  <2> QED  BY <2>1, <2>2, <2>3
<1>6. route(READ_COMMAND) = IF matching = {} THEN "none" ELSE SSH_RULES[Min(matching)].fixture
  BY DEF route
<1> HIDE DEF matching
<1>7. Min(matching) = 5
  <2>1. matching \subseteq 1 .. 9 /\ matching # {} /\ 9 \in Nat
    BY <1>5
  <2>2. Min(matching) \in matching /\ \A i \in matching : Min(matching) <= i
    BY <2>1, Ends
  <2>3. Min(matching) \in 5 .. 9 /\ Min(matching) <= 5
    BY <1>5, <2>2
  <2> QED  BY <2>3
<1> QED  BY <1>4, <1>5, <1>6, <1>7

\* So a device answers it just if it has a configuration fixture.
LEMMA ReadCommandAnswer ==
    \A d : /\ HasFixture(d, READ_COMMAND) <=> d \in DOMAIN FixtureTexts
           /\ ssh_show(d, READ_COMMAND) = config(d)
BY ReadCommandRoute DEF HasFixture, ssh_show

\* A configuration is one, overridden or not.
LEMMA ConfigType ==
    ASSUME override \in [Device -> Lifetimes \cup {Unset}], NEW d \in DOMAIN FixtureTexts
    PROVE  config(d) \in Text
<1>1. d \in Device /\ FixtureTexts[d] \in [Profile -> Setting]
  BY FixtureAssumption DEF Text
<1>2. \A p \in Profile :
         (IF FixtureTexts[d][p] \in Lifetimes /\ override[d] # Unset
          THEN override[d] ELSE FixtureTexts[d][p]) \in Setting
  BY <1>1 DEF Setting
<1> QED  BY <1>2 DEF config, Text

\* The invariant holds when the bridge starts.
LEMMA InitIInv == Init => IInv
<1> SUFFICES ASSUME Init  PROVE IInv
  OBVIOUS
<1>1. TypeOK
  <2>1. [p \in Profile |-> Absent] \in Text
    BY DEF Text, Setting
  <2> QED  BY <2>1 DEF Init, TypeOK, settings, Reply, NoReply, Nothing
<1> QED  BY <1>1 DEF Init, IInv, GatesPassed, LoopHeld, PlanIsCurrent, AnsweredAtEnd, Inside

\* What each kind of step leaves alone.
LEMMA ReadFrame ==
    ASSUME NEW command, NEW oids, Show(command) \/ SnmpGet(oids)
    PROVE  UNCHANGED <<enable_write, fixture_simulate_writes, override, pc, req, before, reply>>
BY DEF Show, SnmpGet, settings

\* A step of one call.
Step(c) == (\E r \in Changes : Submit(c, r)) \/ ReadBefore(c) \/ apply_config(c) \/ ReadBack(c)

\* It leaves the others where they are.
LEMMA StepFrame ==
    ASSUME TypeOK, NEW c \in Call, Step(c), NEW k \in Call, k # c
    PROVE  pc'[k] = pc[k] /\ req'[k] = req[k] /\ before'[k] = before[k] /\ reply'[k] = reply[k]
BY DEF TypeOK, Step, Submit, ReadBefore, apply_config, ReadBack, Answer, GoTo

\* TypeOK, but for what a source is handed.
StateTypeOK ==
    /\ settings \in BOOLEAN \X BOOLEAN
    /\ override \in [Device -> Lifetimes \cup {Unset}]
    /\ pc \in [Call -> Inside \cup {"idle", "done"}]
    /\ req \in [Call -> Changes \cup {NoRequest}]
    /\ before \in [Call -> Text]
    /\ reply \in [Call -> Reply]

\* It is preserved.
LEMMA NextType ==
    ASSUME IInv, [Next]_vars, AsksForLifetimes
    PROVE  StateTypeOK'
<1> USE DEF IInv
<1>1. StateTypeOK
  BY DEF TypeOK, StateTypeOK
<1>2. ASSUME NEW command, NEW oids, Show(command) \/ SnmpGet(oids)  PROVE StateTypeOK'
  BY <1>1, <1>2, ReadFrame DEF StateTypeOK, settings
<1>3. ASSUME NEW c \in Call, NEW r \in Changes, Submit(c, r)  PROVE StateTypeOK'
  <2>1. /\ UNCHANGED <<settings, override, before>> /\ req' = [req EXCEPT ![c] = r]
        /\ \/ pc' = [pc EXCEPT ![c] = "read_before"] /\ reply' = reply
           \/ /\ pc' = [pc EXCEPT ![c] = "done"]
              /\ \E status \in {"raised", "refused"} :
                    reply' = [reply EXCEPT ![c] = [status |-> status, rollback |-> Unset, validated |-> FALSE]]
    BY <1>3 DEF Submit, Answer, GoTo
  <2>2. \A status \in {"raised", "refused"} :
           [status |-> status, rollback |-> Unset, validated |-> FALSE] \in Reply
    BY DEF Reply
  <2> QED  BY <1>1, <2>1, <2>2 DEF StateTypeOK, Inside
<1>4. ASSUME NEW c \in Call, ReadBefore(c)  PROVE StateTypeOK'
  <2> DEFINE text == config(req[c].target)
  <2>1. CASE ~HasFixture(req[c].target, READ_COMMAND)
    <3>1. /\ UNCHANGED <<settings, override, req, before>>
          /\ pc' = [pc EXCEPT ![c] = "done"]
          /\ reply' = [reply EXCEPT ![c] = [status |-> "refused", rollback |-> Unset, validated |-> FALSE]]
      BY <1>4, <2>1 DEF ReadBefore, Answer, GoTo
    <3> QED  BY <1>1, <3>1 DEF StateTypeOK, Reply
  <2>2. CASE HasFixture(req[c].target, READ_COMMAND)
    <3>1. text \in Text /\ lifetime_match(text) \in Lifetimes \cup {Unset}
      BY <1>1, <2>2, ReadCommandAnswer, ConfigType, LifetimeMatchType DEF StateTypeOK
    <3>2. /\ UNCHANGED <<settings, override, req>>
          /\ before' = [before EXCEPT ![c] = text]
          /\ \/ /\ pc' = [pc EXCEPT ![c] = "done"]
                /\ reply' = [reply EXCEPT ![c] = [status |-> "planned", rollback |-> lifetime_match(text), validated |-> FALSE]]
             \/ pc' = [pc EXCEPT ![c] = "apply"] /\ reply' = reply
      BY <1>4, <2>2, ReadCommandAnswer DEF ReadBefore, Answer, GoTo
    <3> HIDE DEF text
    <3>3. [status |-> "planned", rollback |-> lifetime_match(text), validated |-> FALSE] \in Reply
      BY <3>1 DEF Reply
    <3> QED  BY <1>1, <3>1, <3>2, <3>3 DEF StateTypeOK, Inside
  <2> QED  BY <2>1, <2>2
<1>5. ASSUME NEW c \in Call, apply_config(c)  PROVE StateTypeOK'
  <2>1. req[c].target \in Device /\ req[c].seconds \in Lifetimes
    <3>1. pc[c] \in Inside
      BY <1>5 DEF apply_config, Inside
    <3> QED  BY <3>1, AdmittedRequest DEF GatesPassed, AsksForLifetimes
  <2>2. /\ UNCHANGED <<settings, req, before, reply>>
        /\ pc' = [pc EXCEPT ![c] = "read_back"]
        /\ override' \in {override, [override EXCEPT ![req[c].target] = req[c].seconds]}
    BY <1>5 DEF apply_config, GoTo
  <2> QED  BY <1>1, <2>1, <2>2 DEF StateTypeOK, Inside
<1>6. ASSUME NEW c \in Call, ReadBack(c)  PROVE StateTypeOK'
  <2> DEFINE text == ssh_show(req[c].target, READ_COMMAND)
             answer == [status |-> "applied", rollback |-> lifetime_match(before[c]),
                        validated |-> check_reflected(req[c], reads_text(text, text))]
  <2>1. answer \in Reply
    <3>1. lifetime_match(before[c]) \in Lifetimes \cup {Unset}
      BY <1>1, LifetimeMatchType DEF StateTypeOK
    <3> QED  BY <3>1, VerdictType DEF Reply
  <2>2. /\ UNCHANGED <<settings, override, req, before>>
        /\ pc' = [pc EXCEPT ![c] = "done"] /\ reply' = [reply EXCEPT ![c] = answer]
    BY <1>6 DEF ReadBack, Answer, GoTo
  <2> HIDE DEF answer
  <2> QED  BY <1>1, <2>1, <2>2 DEF StateTypeOK
<1>7. CASE Restart
  <2>1. [NoReply EXCEPT !.status = "lost"] \in Reply
    BY DEF NoReply, Reply
  <2>2. /\ enable_write' \in BOOLEAN /\ fixture_simulate_writes' \in BOOLEAN
        /\ override' \in [Device -> Lifetimes \cup {Unset}]
        /\ pc' \in [Call -> Inside \cup {"idle", "done"}]
        /\ reply' \in [Call -> Reply]
        /\ UNCHANGED <<req, before>>
    BY <1>1, <1>7, <2>1 DEF Restart, StateTypeOK
  <2> QED  BY <1>1, <2>2 DEF StateTypeOK, settings
<1>8. CASE UNCHANGED vars
  BY <1>1, <1>8 DEF vars, settings, StateTypeOK
<1> QED  BY <1>2, <1>3, <1>4, <1>5, <1>6, <1>7, <1>8 DEF Next

\* While a call makes a step no other is being handled.
LEMMA Alone ==
    ASSUME IInv, NEW c \in Call, Step(c), NEW k \in Call, k # c
    PROVE  pc[k] \notin Inside /\ pc'[k] \notin Inside
<1>1. pc[k] \notin Inside
  <2>1. CASE \E r \in Changes : Submit(c, r)
    BY <2>1 DEF Submit, LoopFree
  <2>2. CASE pc[c] \in Inside
    BY <2>2 DEF IInv, LoopHeld
  <2> QED  BY <2>1, <2>2 DEF Step, ReadBefore, apply_config, ReadBack, Inside
<1> QED  BY <1>1, StepFrame DEF IInv

\* The step itself: what it does to its own call.
LEMMA StepOfCall ==
    ASSUME TypeOK, NEW c \in Call
    PROVE  /\ \A r \in Changes : Submit(c, r) =>
                 /\ req'[c] = r /\ pc[c] = "idle"
                 /\ \/ pc'[c] = "read_before" /\ Admitted(r) /\ reply' = reply
                    \/ pc'[c] = "done" /\ ~Admitted(r)
                    \/ pc'[c] = "done" /\ ~enable_write
           /\ ReadBefore(c) =>
                 /\ pc[c] = "read_before" /\ req' = req /\ override' = override
                 /\ \/ pc'[c] = "done"
                    \/ /\ pc'[c] = "apply" /\ ~req[c].dry_run /\ reply' = reply
                       /\ HasFixture(req[c].target, READ_COMMAND)
                       /\ before'[c] = ssh_show(req[c].target, READ_COMMAND)
           /\ apply_config(c) =>
                 pc[c] = "apply" /\ pc'[c] = "read_back" /\ req' = req /\ reply' = reply
           /\ ReadBack(c) => pc[c] = "read_back" /\ pc'[c] = "done" /\ req' = req
<1>1. ASSUME NEW r \in Changes, Submit(c, r)
      PROVE  /\ req'[c] = r /\ pc[c] = "idle"
             /\ \/ pc'[c] = "read_before" /\ Admitted(r) /\ reply' = reply
                \/ pc'[c] = "done" /\ ~Admitted(r)
                \/ pc'[c] = "done" /\ ~enable_write
  <2>1. ~(Raises(r) /\ Admitted(r))
    BY WritelistAssumption DEF Raises, Admitted, InInventory, validate_change_request, Convertible
  <2> QED  BY <1>1, <2>1 DEF Submit, Answer, GoTo, TypeOK
<1>2. ASSUME ReadBefore(c)
      PROVE  /\ pc[c] = "read_before" /\ req' = req /\ override' = override
             /\ \/ pc'[c] = "done"
                \/ /\ pc'[c] = "apply" /\ ~req[c].dry_run /\ reply' = reply
                   /\ HasFixture(req[c].target, READ_COMMAND)
                   /\ before'[c] = ssh_show(req[c].target, READ_COMMAND)
  BY <1>2 DEF ReadBefore, Answer, GoTo, TypeOK
<1>3. ASSUME apply_config(c)
      PROVE  pc[c] = "apply" /\ pc'[c] = "read_back" /\ req' = req /\ reply' = reply
  BY <1>3 DEF apply_config, GoTo, TypeOK
<1>4. ASSUME ReadBack(c)  PROVE pc[c] = "read_back" /\ pc'[c] = "done" /\ req' = req
  BY <1>4 DEF ReadBack, Answer, GoTo, TypeOK
<1> QED  BY <1>1, <1>2, <1>3, <1>4

\* A step of a call keeps the other parts of the invariant.
LEMMA StepKeeps ==
    ASSUME IInv, NEW c \in Call, Step(c)
    PROVE  (GatesPassed /\ LoopHeld /\ PlanIsCurrent /\ AnsweredAtEnd)'
<1> USE DEF IInv
<1>1. \A k \in Call \ {c} :
         /\ pc[k] \notin Inside /\ pc'[k] \notin Inside
         /\ pc'[k] = pc[k] /\ req'[k] = req[k] /\ before'[k] = before[k] /\ reply'[k] = reply[k]
  BY Alone, StepFrame
<1>2. GatesPassed'
  <2>1. pc'[c] \in Inside => req'[c] \in Changes /\ Admitted(req'[c])
    <3>1. CASE \E r \in Changes : Submit(c, r)
      BY <3>1, StepOfCall DEF Inside
    <3>2. CASE ReadBefore(c) \/ apply_config(c) \/ ReadBack(c)
      <4>1. req'[c] = req[c] /\ pc[c] \in Inside
        BY <3>2, StepOfCall DEF Inside
      <4> QED  BY <4>1 DEF GatesPassed
    <3> QED  BY <3>1, <3>2 DEF Step
  <2>2. pc'[c] \in {"apply", "read_back"} =>
            ~req'[c].dry_run /\ HasFixture(req'[c].target, READ_COMMAND)
    <3>1. CASE \E r \in Changes : Submit(c, r)
      BY <3>1, StepOfCall
    <3>2. CASE ReadBefore(c)
      BY <3>2, StepOfCall
    <3>3. CASE apply_config(c)
      BY <3>3, StepOfCall DEF GatesPassed
    <3>4. CASE ReadBack(c)
      BY <3>4, StepOfCall
    <3> QED  BY <3>1, <3>2, <3>3, <3>4 DEF Step
  <2>3. \A k \in Call \ {c} : pc'[k] \notin {"apply", "read_back"}
    BY <1>1 DEF Inside
  <2> QED  BY <1>1, <2>1, <2>2, <2>3 DEF GatesPassed, HasFixture
<1>3. LoopHeld'
  BY <1>1 DEF LoopHeld
<1>4. PlanIsCurrent'
  <2>1. ASSUME pc'[c] = "apply"
        PROVE  (before[c] = ssh_show(req[c].target, READ_COMMAND))'
    <3>1. ReadBefore(c)
      BY <2>1, StepOfCall DEF Step
    <3>2. before'[c] = ssh_show(req[c].target, READ_COMMAND) /\ req' = req /\ override' = override
      BY <2>1, <3>1, StepOfCall
    <3> QED  BY <3>2 DEF ssh_show, config
  <2>2. \A k \in Call \ {c} : pc'[k] # "apply"
    BY <1>1 DEF Inside
  <2> QED  BY <2>1, <2>2 DEF PlanIsCurrent
<1>5. AnsweredAtEnd'
  <2>1. pc'[c] # "done" => reply'[c] = NoReply
    <3>1. pc'[c] # "done" => reply' = reply /\ pc[c] # "done"
      BY StepOfCall DEF Step
    <3> QED  BY <3>1 DEF AnsweredAtEnd
  <2> QED  BY <1>1, <2>1 DEF AnsweredAtEnd
<1> QED  BY <1>2, <1>3, <1>4, <1>5

\* So does every step.
LEMMA NextKeeps ==
    ASSUME IInv, [Next]_vars
    PROVE  (GatesPassed /\ LoopHeld /\ PlanIsCurrent /\ AnsweredAtEnd)'
<1> USE DEF IInv
<1>1. ASSUME UNCHANGED <<override, pc, req, before, reply>>
      PROVE  (GatesPassed /\ LoopHeld /\ PlanIsCurrent /\ AnsweredAtEnd)'
  BY <1>1 DEF GatesPassed, LoopHeld, PlanIsCurrent, AnsweredAtEnd, HasFixture, ssh_show, config
<1>2. ASSUME NEW command, NEW oids, Show(command) \/ SnmpGet(oids)
      PROVE  (GatesPassed /\ LoopHeld /\ PlanIsCurrent /\ AnsweredAtEnd)'
  BY <1>1, <1>2, ReadFrame
<1>3. ASSUME NEW c \in Call, Step(c)
      PROVE  (GatesPassed /\ LoopHeld /\ PlanIsCurrent /\ AnsweredAtEnd)'
  BY <1>3, StepKeeps
<1>4. CASE Restart
  <2>1. \A c \in Call : pc'[c] \notin Inside /\ (pc'[c] # "done" => pc'[c] = pc[c] /\ reply'[c] = reply[c])
    BY <1>4 DEF Restart, Inside
  <2>2. \A c \in Call : pc'[c] \notin {"apply", "read_back"}
    BY <2>1 DEF Inside
  <2> QED  BY <2>1, <2>2 DEF GatesPassed, LoopHeld, PlanIsCurrent, AnsweredAtEnd
<1>5. CASE UNCHANGED vars
  BY <1>1, <1>5 DEF vars
<1> QED  BY <1>2, <1>3, <1>4, <1>5 DEF Next, Step

\* The invariant of the fixture bridge, for any calls, devices, fixtures and
\* commands: IInv.
THEOREM FixtureInvariance ==
    ASSUME AsksForLifetimes
    PROVE  Spec => []IInv
<1>1. Init => IInv
  BY InitIInv
<1>2. IInv /\ HandedIsChecked' /\ [Next]_vars => IInv'
  <2> SUFFICES ASSUME IInv, HandedIsChecked', [Next]_vars  PROVE IInv'
    OBVIOUS
  <2>1. TypeOK'
    <3>1. StateTypeOK'
      BY NextType
    <3>2. \/ handed' = Nothing
          \/ handed' \in [tool : {"ssh_show"}, line : Range(Checked) \cup {READ_COMMAND}]
          \/ handed' \in [tool : {"snmp_get"}, oids : OidLists]
      <4>1. \A command \in Commands : validate_show_command(command) \in Range(Checked)
        BY DEF Checked, Range
      <4> QED  BY <4>1 DEF HandedIsChecked, Line, Oids
    <3> QED  BY <3>1, <3>2 DEF TypeOK, StateTypeOK, settings
  <2> QED  BY <2>1, NextKeeps DEF IInv
<1> QED  BY <1>1, <1>2, HandedInvariant, PTL DEF Spec

\* Every variable keeps its type: TypeOK.
THEOREM FixtureTypeCorrect ==
    ASSUME AsksForLifetimes
    PROVE  Spec => []TypeOK
<1>1. IInv => TypeOK
  BY DEF IInv
<1> QED  BY <1>1, FixtureInvariance, PTL
-----------------------------------------------------------------------------
\* A configuration fixture gives the same lifetime wherever it gives one, as
\* each of the shipped ones does, with one profile.
OneLifetimeEach ==
    \A d \in DOMAIN FixtureTexts : \A p, q \in WithLifetime(FixtureTexts[d]) :
        FixtureTexts[d][p] = FixtureTexts[d][q]

\* What the refinement mapping reads off a call, and off all of them.
ChangeOf(c) ==
    IF Attempted(c) THEN [device |-> req[c].target, value |-> req[c].seconds] ELSE NoRequest
UndoOf(c) ==
    IF StageOf(c) = "previewed" THEN reply[c].rollback
    ELSE IF Attempted(c) THEN lifetime_match(before[c]) ELSE Unset

SettingsSeen == [d \in Device |-> DemoSetting(d)]
StagesSeen   == [c \in Call |-> StageOf(c)]
ChangesSeen  == [c \in Call |-> ChangeOf(c)]
UndosSeen    == [c \in Call |-> UndoOf(c)]
VerdictsSeen == [c \in Call |-> reply[c].validated]
Seen    == <<SettingsSeen, StagesSeen, ChangesSeen, UndosSeen, VerdictsSeen>>

\* An override puts another lifetime in the place of a lifetime, and nothing
\* in the place of nothing.
LEMMA ConfigLifetimes ==
    ASSUME override \in [Device -> Lifetimes \cup {Unset}], NEW d \in DOMAIN FixtureTexts
    PROVE  /\ WithLifetime(config(d)) = WithLifetime(FixtureTexts[d])
           /\ \A p \in WithLifetime(config(d)) :
                 config(d)[p] = IF override[d] # Unset THEN override[d] ELSE FixtureTexts[d][p]
<1>1. d \in Device
  BY FixtureAssumption
<1>2. \A p \in Profile :
         config(d)[p] = IF FixtureTexts[d][p] \in Lifetimes /\ override[d] # Unset
                        THEN override[d] ELSE FixtureTexts[d][p]
  BY DEF config
<1> QED  BY <1>1, <1>2 DEF WithLifetime

\* A device's setting is a lifetime, or none.
LEMMA DemoSettingType ==
    ASSUME override \in [Device -> Lifetimes \cup {Unset}], NEW d \in Device
    PROVE  DemoSetting(d) \in Lifetimes \cup {Unset}
BY ConfigType, LifetimeMatchType DEF DemoSetting

\* A configuration reflects a change just if the search finds its value.
LEMMA ReflectedIsFound ==
    ASSUME override \in [Device -> Lifetimes \cup {Unset}], OneLifetimeEach,
           NEW d \in DOMAIN FixtureTexts, NEW v \in Lifetimes
    PROVE  (\E p \in Profile : config(d)[p] = v) <=> lifetime_match(config(d)) = v
<1>1. \A p, q \in WithLifetime(config(d)) : config(d)[p] = config(d)[q]
  BY ConfigLifetimes DEF OneLifetimeEach
<1> QED  BY <1>1, ConfigType, LifetimeMatchOfUniform

\* A simulated change sets a device that has a lifetime, and no other.
LEMMA SimulatedSetting ==
    ASSUME TypeOK, TypeOK', NEW t \in DOMAIN FixtureTexts, NEW v \in Lifetimes,
           override' \in {override, [override EXCEPT ![t] = v]}
    PROVE  SettingsSeen' \in {SettingsSeen, [SettingsSeen EXCEPT ![t] = v]}
<1>1. CASE override' = override
  BY <1>1 DEF SettingsSeen, DemoSetting, config
<1>2. CASE override' = [override EXCEPT ![t] = v]
  <2>1. t \in Device /\ v # Unset
    BY FixtureAssumption, WritelistAssumption DEF Unset
  <2>2. override'[t] = v /\ \A d \in Device \ {t} : override'[d] = override[d]
    BY <1>2, <2>1 DEF TypeOK
  <2>3. \A d \in Device \ {t} : DemoSetting(d)' = DemoSetting(d)
    BY <2>2 DEF DemoSetting, config
  <2>4. DemoSetting(t)' \in {DemoSetting(t), v}
    <3>1. WithLifetime(config(t)) = WithLifetime(FixtureTexts[t])
      BY ConfigLifetimes DEF TypeOK
    <3>2. /\ config(t)' \in Text
          /\ WithLifetime(config(t)') = WithLifetime(FixtureTexts[t])
          /\ \A p \in WithLifetime(config(t)') : config(t)'[p] = v
      <4>1. (override \in [Device -> Lifetimes \cup {Unset}])'
        BY DEF TypeOK
      <4>2. config(t)' = [p \in Profile |-> IF FixtureTexts[t][p] \in Lifetimes THEN v ELSE FixtureTexts[t][p]]
        BY <2>1, <2>2 DEF config
      <4>3. FixtureTexts[t] \in [Profile -> Setting]
        BY FixtureAssumption DEF Text
      <4> QED  BY <4>2, <4>3 DEF Text, Setting, WithLifetime
    <3>3. CASE WithLifetime(FixtureTexts[t]) = {}
      <4>1. lifetime_match(config(t)) = Unset
        BY <3>1, <3>3 DEF lifetime_match
      <4>2. lifetime_match(config(t)') = Unset
        BY <3>2, <3>3 DEF lifetime_match
      <4> QED  BY <4>1, <4>2 DEF DemoSetting
    <3>4. CASE WithLifetime(FixtureTexts[t]) # {}
      <4>1. lifetime_match(config(t)') = v
        BY <3>2, <3>4, LifetimeMatchIsFirst
      <4> QED  BY <4>1 DEF DemoSetting
    <3> QED  BY <3>3, <3>4
  <2>5. SettingsSeen' = [d \in Device |-> DemoSetting(d)']
    BY DEF SettingsSeen
  <2>6. SettingsSeen' = [SettingsSeen EXCEPT ![t] = DemoSetting(t)']
    BY <2>1, <2>3, <2>5 DEF SettingsSeen
  <2> QED  BY <2>1, <2>4, <2>6 DEF SettingsSeen
<1> QED  BY <1>1, <1>2

\* A step of one call is invisible in the others.
LEMMA DemoFrame ==
    ASSUME TypeOK, NEW c \in Call, Step(c)
    PROVE  /\ StagesSeen' = [StagesSeen EXCEPT ![c] = StageOf(c)']
           /\ ChangesSeen' = [ChangesSeen EXCEPT ![c] = ChangeOf(c)']
           /\ UndosSeen' = [UndosSeen EXCEPT ![c] = UndoOf(c)']
           /\ VerdictsSeen' = [VerdictsSeen EXCEPT ![c] = reply'[c].validated]
<1>1. ASSUME NEW k \in Call, k # c
      PROVE  /\ StageOf(k)' = StageOf(k) /\ ChangeOf(k)' = ChangeOf(k)
             /\ UndoOf(k)' = UndoOf(k) /\ reply'[k].validated = reply[k].validated
  <2>1. pc'[k] = pc[k] /\ req'[k] = req[k] /\ before'[k] = before[k] /\ reply'[k] = reply[k]
    BY <1>1, StepFrame
  <2>2. StageOf(k)' = StageOf(k)
    BY <2>1 DEF StageOf
  <2> QED  BY <2>1, <2>2 DEF ChangeOf, UndoOf, Attempted
<1> QED  BY <1>1 DEF StagesSeen, ChangesSeen, UndosSeen, VerdictsSeen

\* A call that has not ended has no verdict.
LEMMA NoVerdictYet ==
    ASSUME AnsweredAtEnd, NEW c \in Call, pc[c] # "done"
    PROVE  reply[c].validated = FALSE /\ reply[c].status = "none"
BY DEF AnsweredAtEnd, NoReply

\* A request turned down, or a device without a fixture: a step of Decline.
LEMMA DemoDecline ==
    ASSUME IInv, NEW c \in Call, Step(c), pc[c] \in {"idle", "read_before"}, pc'[c] = "done",
           reply'[c].status \in {"refused", "raised"}, reply'[c].validated = FALSE,
           override' = override
    PROVE  Demo!Decline(c)
<1> USE DEF IInv
<1>1. StageOf(c) = "waiting" /\ StageOf(c)' = "declined"
  BY DEF StageOf
<1>2. ChangeOf(c)' = ChangeOf(c) /\ UndoOf(c)' = UndoOf(c)
  BY <1>1 DEF ChangeOf, UndoOf, Attempted
<1>3. reply[c].validated = reply'[c].validated
  BY NoVerdictYet
<1>4. /\ StagesSeen[c] = "waiting" /\ StagesSeen' = [StagesSeen EXCEPT ![c] = "declined"]
      /\ UNCHANGED <<SettingsSeen, ChangesSeen, UndosSeen, VerdictsSeen>>
  BY <1>1, <1>2, <1>3, DemoFrame
     DEF SettingsSeen, DemoSetting, config, StagesSeen, ChangesSeen, UndosSeen, VerdictsSeen
<1> QED  BY <1>4 DEF Demo!Decline, SettingsSeen, StagesSeen, ChangesSeen,
            ChangeOf, UndosSeen, UndoOf, VerdictsSeen

\* A dry run: a step of Preview.
LEMMA DemoPreview ==
    ASSUME IInv, NEW c \in Call, ReadBefore(c),
           HasFixture(req[c].target, READ_COMMAND), req[c].dry_run
    PROVE  Demo!Preview(c)
<1> USE DEF IInv
<1> DEFINE t == req[c].target
<1>1. t \in Device /\ t \in DOMAIN FixtureTexts
  BY ReadCommandAnswer, FixtureAssumption
<1>2. /\ pc[c] = "read_before" /\ pc'[c] = "done" /\ override' = override
      /\ reply'[c].status = "planned" /\ reply'[c].validated = FALSE
      /\ reply'[c].rollback = DemoSetting(t)
  BY <1>1, ReadCommandAnswer DEF ReadBefore, Answer, GoTo, TypeOK, DemoSetting
<1>3. StageOf(c) = "waiting" /\ StageOf(c)' = "previewed"
  BY <1>2 DEF StageOf
<1>4. ChangeOf(c)' = ChangeOf(c) /\ UndoOf(c)' = DemoSetting(t)
  BY <1>2, <1>3 DEF ChangeOf, UndoOf, Attempted
<1>5. reply[c].validated = reply'[c].validated
  BY <1>2, NoVerdictYet
<1>6. /\ StagesSeen[c] = "waiting" /\ StagesSeen' = [StagesSeen EXCEPT ![c] = "previewed"]
      /\ UndosSeen' = [UndosSeen EXCEPT ![c] = SettingsSeen[t]]
      /\ UNCHANGED <<SettingsSeen, ChangesSeen, VerdictsSeen>>
  BY <1>1, <1>2, <1>3, <1>4, <1>5, DemoFrame
     DEF Step, SettingsSeen, DemoSetting, config, StagesSeen, ChangesSeen, UndosSeen, VerdictsSeen
<1>7. \E d \in Device : UndosSeen' = [UndosSeen EXCEPT ![c] = SettingsSeen[d]]
  BY <1>1, <1>6
<1> QED  BY <1>6, <1>7 DEF Demo!Preview, SettingsSeen, StagesSeen, ChangesSeen,
            ChangeOf, UndosSeen, UndoOf, VerdictsSeen

\* A change simulated, or not: a step of Attempt.
LEMMA DemoAttempt ==
    ASSUME IInv, TypeOK', AsksForLifetimes, NEW c \in Call, apply_config(c)
    PROVE  Demo!Attempt(c)
<1> USE DEF IInv
<1> DEFINE t == req[c].target
           w == [device |-> t, value |-> req[c].seconds]
<1>1. /\ t \in Device /\ t \in DOMAIN FixtureTexts /\ req[c].seconds \in Lifetimes
      /\ pc[c] = "apply" /\ pc'[c] = "read_back" /\ req' = req /\ before' = before
      /\ reply' = reply
  <2>1. pc[c] = "apply" /\ pc'[c] = "read_back" /\ req' = req /\ reply' = reply
    BY StepOfCall
  <2>2. HasFixture(t, READ_COMMAND) /\ Admitted(req[c]) /\ req[c] \in Changes
    BY <2>1 DEF GatesPassed, Inside
  <2> QED  BY <2>1, <2>2, ReadCommandAnswer, FixtureAssumption DEF AsksForLifetimes, apply_config
<1>2. StageOf(c) = "waiting" /\ StageOf(c)' = "attempted"
  BY <1>1 DEF StageOf
<1>3. ChangeOf(c)' = w /\ UndoOf(c)' = lifetime_match(before[c])
  BY <1>1, <1>2 DEF ChangeOf, UndoOf, Attempted
<1>4. lifetime_match(before[c]) = DemoSetting(t)
  BY <1>1, ReadCommandAnswer DEF PlanIsCurrent, DemoSetting
<1>5. SettingsSeen' \in {SettingsSeen, [SettingsSeen EXCEPT ![t] = req[c].seconds]}
  <2>1. override' \in {override, [override EXCEPT ![t] = req[c].seconds]}
    BY DEF apply_config
  <2> QED  BY <1>1, <2>1, SimulatedSetting
<1>6. w \in Demo!Change /\ w.device = t /\ w.value = req[c].seconds
  BY <1>1 DEF Demo!Change
<1>7. /\ StagesSeen[c] = "waiting" /\ StagesSeen' = [StagesSeen EXCEPT ![c] = "attempted"]
      /\ ChangesSeen' = [ChangesSeen EXCEPT ![c] = w]
      /\ UndosSeen' = [UndosSeen EXCEPT ![c] = SettingsSeen[w.device]]
      /\ SettingsSeen' \in {SettingsSeen, [SettingsSeen EXCEPT ![w.device] = w.value]}
      /\ UNCHANGED VerdictsSeen
  BY <1>1, <1>2, <1>3, <1>4, <1>5, <1>6, DemoFrame DEF Step, SettingsSeen, StagesSeen, VerdictsSeen
<1> HIDE DEF w
<1> QED  BY <1>6, <1>7 DEF Demo!Attempt, SettingsSeen, StagesSeen, ChangesSeen,
            ChangeOf, UndosSeen, UndoOf, VerdictsSeen

\* The answer to a change: a step of Report.
LEMMA DemoReport ==
    ASSUME IInv, AsksForLifetimes, OneLifetimeEach, DOMAIN FixtureTexts \subseteq LowerCase,
           NEW c \in Call, ReadBack(c)
    PROVE  Demo!Report(c)
<1> USE DEF IInv
<1> DEFINE t == req[c].target
           verdict == check_reflected(req[c], reads_text(config(t), config(t)))
<1>1. /\ t \in Device /\ t \in DOMAIN FixtureTexts /\ req[c].seconds \in Lifetimes
      /\ pc[c] = "read_back" /\ pc'[c] = "done" /\ req' = req
  <2>1. pc[c] = "read_back" /\ pc'[c] = "done" /\ req' = req
    BY StepOfCall
  <2>2. HasFixture(t, READ_COMMAND) /\ Admitted(req[c]) /\ req[c] \in Changes
    BY <2>1 DEF GatesPassed, Inside
  <2> QED  BY <2>1, <2>2, ReadCommandAnswer, FixtureAssumption DEF AsksForLifetimes
<1>2. /\ reply'[c].status = "applied" /\ reply'[c].validated = verdict
      /\ UNCHANGED <<before, override>>
  BY ReadCommandAnswer DEF ReadBack, Answer, GoTo, TypeOK
<1>3. StageOf(c) = "attempted" /\ StageOf(c)' = "reported"
  BY <1>1, <1>2 DEF StageOf
<1>4. ChangeOf(c)' = ChangeOf(c) /\ UndoOf(c)' = UndoOf(c)
  BY <1>1, <1>2, <1>3 DEF ChangeOf, UndoOf, Attempted
<1>5. verdict = (DemoSetting(t) = req[c].seconds)
  <2>1. reads_text(config(t), config(t)) = config(t)
    BY DEF reads_text
  <2>2. verdict <=> \E p \in Profile : config(t)[p] = req[c].seconds
    BY <1>1, <2>1 DEF check_reflected
  <2>3. verdict <=> lifetime_match(config(t)) = req[c].seconds
    BY <1>1, <2>2, ReflectedIsFound DEF TypeOK
  <2>4. verdict \in BOOLEAN
    BY VerdictType
  <2> QED  BY <1>1, <2>3, <2>4 DEF DemoSetting
<1> HIDE DEF verdict
<1>6. ChangeOf(c).device = t /\ ChangeOf(c).value = req[c].seconds
  BY <1>3 DEF ChangeOf, Attempted
<1>7. ChangesSeen[c].device = t /\ ChangesSeen[c].value = req[c].seconds /\ SettingsSeen[t] = DemoSetting(t)
  BY <1>1, <1>6 DEF ChangesSeen, SettingsSeen
<1>8. /\ StagesSeen[c] = "attempted" /\ StagesSeen' = [StagesSeen EXCEPT ![c] = "reported"]
      /\ UNCHANGED <<SettingsSeen, ChangesSeen, UndosSeen>>
  BY <1>2, <1>3, <1>4, DemoFrame
     DEF Step, SettingsSeen, DemoSetting, config, StagesSeen, ChangesSeen, UndosSeen
<1>9. VerdictsSeen' = [VerdictsSeen EXCEPT ![c] = SettingsSeen[ChangesSeen[c].device] = ChangesSeen[c].value]
  BY <1>2, <1>5, <1>7, DemoFrame DEF Step
<1> QED  BY <1>8, <1>9 DEF Demo!Report, SettingsSeen, StagesSeen, ChangesSeen,
            ChangeOf, UndosSeen, UndoOf, VerdictsSeen

\* The bridge ends, and with it what it simulated: a step of Lose.
LEMMA DemoLose ==
    ASSUME IInv, TypeOK', Restart
    PROVE  Demo!Lose
<1> USE DEF IInv
<1> DEFINE S == {c \in Call : pc[c] \in Inside}
<1>1. ASSUME NEW c \in S
      PROVE  /\ StageOf(c) \in Demo!Open /\ StageOf(c)' = "lost"
             /\ ChangeOf(c)' = NoRequest /\ UndoOf(c)' = Unset
             /\ reply'[c].validated = reply[c].validated
  <2>1. pc[c] \in Inside /\ pc'[c] = "done" /\ reply'[c].status = "lost"
    BY DEF Restart, NoReply
  <2>2. StageOf(c) \in Demo!Open /\ StageOf(c)' = "lost"
    BY <2>1 DEF StageOf, Demo!Open, Inside
  <2>3. reply'[c].validated = FALSE /\ reply[c].validated = FALSE
    BY <2>1, NoVerdictYet DEF Restart, NoReply, Inside
  <2> QED  BY <2>2, <2>3 DEF ChangeOf, UndoOf, Attempted
<1>2. ASSUME NEW c \in Call \ S
      PROVE  /\ StageOf(c)' = StageOf(c) /\ ChangeOf(c)' = ChangeOf(c)
             /\ UndoOf(c)' = UndoOf(c) /\ reply'[c] = reply[c]
  <2>1. pc'[c] = pc[c] /\ reply'[c] = reply[c] /\ req'[c] = req[c] /\ before'[c] = before[c]
    BY DEF Restart
  <2>2. StageOf(c)' = StageOf(c)
    BY <2>1 DEF StageOf
  <2> QED  BY <2>1, <2>2 DEF ChangeOf, UndoOf, Attempted
<1>3. S \in SUBSET {c \in Call : StagesSeen[c] \in Demo!Open}
  BY <1>1 DEF StagesSeen
<1>4. /\ StagesSeen' = [c \in Call |-> IF c \in S THEN "lost" ELSE StagesSeen[c]]
      /\ ChangesSeen' = [c \in Call |-> IF c \in S THEN NoRequest ELSE ChangesSeen[c]]
      /\ UndosSeen' = [c \in Call |-> IF c \in S THEN Unset ELSE UndosSeen[c]]
      /\ UNCHANGED VerdictsSeen
  BY <1>1, <1>2 DEF StagesSeen, ChangesSeen, UndosSeen, VerdictsSeen
<1>5. SettingsSeen' \in [Device -> Lifetimes \cup {Unset}]
  <2>1. ASSUME NEW d \in Device  PROVE DemoSetting(d)' \in Lifetimes \cup {Unset}
    <3>1. CASE d \in DOMAIN FixtureTexts
      <4>1. (override \in [Device -> Lifetimes \cup {Unset}])'
        BY DEF TypeOK
      <4>2. config(d)' \in Text
        BY <3>1, <4>1, FixtureAssumption DEF config, Text, Setting
      <4> QED  BY <3>1, <4>2, LifetimeMatchType DEF DemoSetting
    <3>2. CASE d \notin DOMAIN FixtureTexts
      BY <3>2 DEF DemoSetting
    <3> QED  BY <3>1, <3>2
  <2> QED  BY <2>1 DEF SettingsSeen
<1> HIDE DEF S
<1> QED  BY <1>3, <1>4, <1>5 DEF Demo!Lose, SettingsSeen, StagesSeen, ChangesSeen,
            ChangeOf, UndosSeen, UndoOf, VerdictsSeen

\* Requests admitted, before-states read for a change, and reads of others
\* show nothing.
LEMMA DemoHidden ==
    ASSUME IInv, NEW c \in Call, Step(c), override' = override,
           pc[c] \in {"idle", "read_before"}, pc'[c] \in {"read_before", "apply"},
           reply' = reply
    PROVE  UNCHANGED Seen
<1> USE DEF IInv
<1>1. StageOf(c) = "waiting" /\ StageOf(c)' = "waiting"
  BY DEF StageOf
<1>2. ChangeOf(c)' = ChangeOf(c) /\ UndoOf(c)' = UndoOf(c)
  BY <1>1 DEF ChangeOf, UndoOf, Attempted
<1>3. UNCHANGED <<SettingsSeen, StagesSeen, ChangesSeen, UndosSeen, VerdictsSeen>>
  BY <1>1, <1>2, DemoFrame
     DEF SettingsSeen, DemoSetting, config, StagesSeen, ChangesSeen, UndosSeen, VerdictsSeen
<1> QED  BY <1>3 DEF Seen

\* A step that leaves the changes alone shows nothing.
LEMMA DemoStutters ==
    ASSUME UNCHANGED <<override, pc, req, before, reply>>
    PROVE  UNCHANGED Seen
BY DEF Seen, SettingsSeen, DemoSetting, config, StagesSeen, StageOf, ChangesSeen, ChangeOf,
       UndosSeen, UndoOf, Attempted, VerdictsSeen

\* Every step of the demo is one of the abstract change, or invisible.
LEMMA EveryDemoStep ==
    ASSUME IInv, IInv', [Next]_vars, AsksForLifetimes, OneLifetimeEach,
           DOMAIN FixtureTexts \subseteq LowerCase
    PROVE  Demo!Next \/ UNCHANGED Seen
<1> USE DEF IInv
<1>1. ASSUME NEW command \in Commands, Show(command)  PROVE UNCHANGED Seen
  BY <1>1, DemoStutters DEF Show
<1>2. ASSUME NEW oids \in OidLists, SnmpGet(oids)  PROVE UNCHANGED Seen
  BY <1>2, DemoStutters DEF SnmpGet
<1>3. ASSUME NEW c \in Call, NEW r \in Changes, Submit(c, r)
      PROVE  Demo!Decline(c) \/ UNCHANGED Seen
  <2>1. Step(c) /\ pc[c] = "idle" /\ override' = override
    BY <1>3 DEF Submit, Step
  <2>2. CASE pc'[c] = "read_before" /\ reply' = reply
    BY <2>1, <2>2, DemoHidden
  <2>3. CASE pc'[c] = "done" /\ reply'[c].status \in {"refused", "raised"} /\ reply'[c].validated = FALSE
    BY <2>1, <2>3, DemoDecline
  <2>4. \/ GoTo(c, "read_before") /\ UNCHANGED reply
        \/ Answer(c, "raised", Unset, FALSE)
        \/ Answer(c, "refused", Unset, FALSE)
    BY <1>3 DEF Submit
  <2>5. \/ pc'[c] = "read_before" /\ reply' = reply
        \/ pc'[c] = "done" /\ reply'[c].status \in {"refused", "raised"} /\ reply'[c].validated = FALSE
    BY <2>4 DEF Answer, GoTo, TypeOK
  <2> QED  BY <2>2, <2>3, <2>5
<1>4. ASSUME NEW c \in Call, ReadBefore(c)
      PROVE  Demo!Decline(c) \/ Demo!Preview(c) \/ UNCHANGED Seen
  <2>1. Step(c) /\ pc[c] = "read_before" /\ override' = override
    BY <1>4 DEF ReadBefore, Step
  <2>2. CASE ~HasFixture(req[c].target, READ_COMMAND)
    <3>1. pc'[c] = "done" /\ reply'[c].status = "refused" /\ reply'[c].validated = FALSE
      BY <1>4, <2>2 DEF ReadBefore, Answer, GoTo, TypeOK
    <3> QED  BY <2>1, <3>1, DemoDecline
  <2>3. CASE HasFixture(req[c].target, READ_COMMAND) /\ req[c].dry_run
    BY <1>4, <2>3, DemoPreview
  <2>4. CASE HasFixture(req[c].target, READ_COMMAND) /\ ~req[c].dry_run
    <3>1. pc'[c] = "apply" /\ reply' = reply
      BY <1>4, <2>4 DEF ReadBefore, GoTo, TypeOK
    <3> QED  BY <2>1, <3>1, DemoHidden
  <2> QED  BY <2>2, <2>3, <2>4
<1>5. ASSUME NEW c \in Call, apply_config(c)  PROVE Demo!Attempt(c)
  BY <1>5, DemoAttempt
<1>6. ASSUME NEW c \in Call, ReadBack(c)  PROVE Demo!Report(c)
  BY <1>6, DemoReport
<1>7. CASE Restart
  BY <1>7, DemoLose DEF Demo!Next
<1>8. CASE UNCHANGED vars
  BY <1>8, DemoStutters DEF vars
<1> QED  BY <1>1, <1>2, <1>3, <1>4, <1>5, <1>6, <1>7, <1>8 DEF Next, Demo!Next

\* The initial states are the abstract ones.
LEMMA DemoInit ==
    ASSUME Init
    PROVE  Demo!Init
<1>1. \A c \in Call : StageOf(c) = "waiting" /\ reply[c].validated = FALSE
  BY DEF Init, StageOf, NoReply
<1>2. \A c \in Call : ChangeOf(c) = NoRequest /\ UndoOf(c) = Unset
  BY <1>1 DEF ChangeOf, UndoOf, Attempted
<1>3. \A d \in Device : DemoSetting(d) \in Lifetimes \cup {Unset}
  BY DemoSettingType DEF Init
<1> QED  BY <1>1, <1>2, <1>3 DEF Demo!Init, ChangeOf, UndoOf

\* The demo keeps the promise of the live bridge (clients.py:42-44 and
\* 151-153), for any number of calls and devices and any fixtures that give
\* one lifetime each, in lower case: FixtureSource implements ReversibleChange.
\* The hypotheses are needed.  A value the search finds under a device's second
\* lifetime would validate a change that was never simulated, one in capitals
\* is not found (writelist.py:140-144); and a value that can be asked for has
\* to be a lifetime.
THEOREM DemosImplementReversibleChange ==
    ASSUME AsksForLifetimes, OneLifetimeEach, DOMAIN FixtureTexts \subseteq LowerCase
    PROVE  Spec => DemosAreReversible
<1>1. Init => Demo!Init
  BY DemoInit
<1>2. IInv /\ IInv' /\ [Next]_vars => [Demo!Next]_(Demo!vars)
  <2> SUFFICES ASSUME IInv, IInv', [Next]_vars
               PROVE  [Demo!Next]_(Demo!vars)
    OBVIOUS
  <2>1. Demo!Next \/ UNCHANGED Seen
    BY EveryDemoStep
  <2> QED  BY <2>1 DEF Demo!vars, Seen, SettingsSeen, StagesSeen, ChangesSeen, ChangeOf,
              UndosSeen, UndoOf, VerdictsSeen
<1> QED  BY <1>1, <1>2, FixtureInvariance, PTL DEF Spec, DemosAreReversible, Demo!Spec
=============================================================================
