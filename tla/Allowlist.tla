------------------------------ MODULE Allowlist ------------------------------
(***************************************************************************)
(* The read safety layer (allowlist.py): which show commands and which     *)
(* SNMP objects may be read, and in which form they are handed on.         *)
(*                                                                         *)
(* A command is a sequence of pieces: whitespace characters, the pipe,     *)
(* metacharacters, and runs of other characters.  Pieces that touch form   *)
(* one word, so "showrun" is <<"show", "run">>; a deny-list entry matches  *)
(* pieces in a row wherever they stand, as a substring search does.        *)
(***************************************************************************)
EXTENDS Integers, SequencesExt

CONSTANTS
    Piece,          \* the pieces commands are made of
    Capitals,       \* a function from capitalised pieces to their lower case
    MaxCommandLen   \* MAX_COMMAND_LEN, counted in pieces

ASSUME AllowlistAssumption ==
    /\ {" ", "\t", "\n"} \subseteq Piece
    /\ DOMAIN Capitals \cap {" ", "\t", "\n", "|"} = {}
    /\ MaxCommandLen \in Nat

Whitespace == {" ", "\t", "\n"}
Bar        == "|"

READ_VERBS      == {"show", "display"}
FILTER_KEYWORDS == {"include", "i", "inc", "exclude", "e", "ex", "begin", "b", "beg",
                    "section", "sec", "count", "match", "except", "grep",
                    "no-more", "last", "trim", "find"}

\* ";" stands for the separators, redirections and expansions.
SHELL_METACHARS == {";", "\t", "\n"}

\* One entry for each way blanks and the pipe occur in the deny-list.
DENY_SUBSTRINGS ==
    {<<"reload">>, <<"configure">>, <<"redirect">>, <<"format">>,
     <<"copy", " ">>, <<" ", "append">>, <<" ", "save", " ">>,
     <<"|", "tee">>, <<"|", " ", "tee">>, <<"config", " ", "t">>}
-----------------------------------------------------------------------------
lower(line) == [i \in DOMAIN line |-> IF line[i] \in DOMAIN Capitals
                                      THEN Capitals[line[i]] ELSE line[i]]

strip(line) ==
    LET solid == {i \in DOMAIN line : line[i] \notin Whitespace}
    IN  IF solid = {} THEN <<>> ELSE SubSeq(line, Min(solid), Max(solid))

\* A line read so far, with its next piece, the n-th, taken in: whitespace
\* becomes a blank, unless it follows whitespace.
taken(line, n, done) ==
    IF line[n] \notin Whitespace THEN Append(done, line[n])
    ELSE IF n > 1 /\ line[n - 1] \in Whitespace THEN done
    ELSE Append(done, " ")

\* Every run of whitespace becomes one blank.
collapse(line) ==
    LET done[n \in 0 .. Len(line)] == IF n = 0 THEN <<>> ELSE taken(line, n, done[n - 1])
    IN  done[Len(line)]

\* Mutant: the command is only stripped.
strip_only(command) == strip(command)

normalize(command) == collapse(strip(command))

Occurs(entry, line) ==
    \E i \in 1 .. Len(line) - Len(entry) + 1 :
        SubSeq(line, i, i + Len(entry) - 1) = entry

\* The segment of a line that follows its bar at i, or the first one (i = 0).
Bars(line) == {i \in DOMAIN line : line[i] = Bar}
segment(line, i) ==
    LET next == Min({j \in Bars(line) : j > i} \cup {Len(line) + 1})
    IN  strip(SubSeq(line, i + 1, next - 1))

first_word(seg) ==
    SubSeq(seg, 1, Min({j \in DOMAIN seg : seg[j] = " "} \cup {Len(seg) + 1}) - 1)

StartsWith(seg, words) == \E w \in words : lower(first_word(seg)) = <<w>>

\* Mutant: the filters behind the pipes are left to the deny-list.
permitted_head(line) ==
    /\ line # <<>>
    /\ ToSet(line) \cap SHELL_METACHARS = {}
    /\ \A entry \in DENY_SUBSTRINGS : ~Occurs(entry, lower(line))
    /\ StartsWith(segment(line, 0), READ_VERBS)

\* The checks on a normalised command; every failed one raises AllowlistError.
permitted(line) ==
    /\ line # <<>>
    /\ Len(line) <= MaxCommandLen
    /\ ToSet(line) \cap SHELL_METACHARS = {}
    /\ \A entry \in DENY_SUBSTRINGS : ~Occurs(entry, lower(line))
    /\ StartsWith(segment(line, 0), READ_VERBS)
    /\ segment(line, 0) # first_word(segment(line, 0))
    /\ \A b \in Bars(line) : StartsWith(segment(line, b), FILTER_KEYWORDS)

\* The line a source is handed, or Rejected for an AllowlistError: a permitted
\* line is never empty.
Rejected == <<>>
validate_show_command(command) ==
    IF permitted(normalize(command)) THEN normalize(command) ELSE Rejected
-----------------------------------------------------------------------------
\* An OID is the sequence of its arcs, or Rejected if it is none.
ALLOWED_OID_ROOTS == {<<1, 3, 6, 1, 2, 1>>}
MAX_OIDS_PER_CALL == 64

validate_oid(oid) == \E root \in ALLOWED_OID_ROOTS : IsPrefix(root, oid)
validate_oids(oids) ==
    /\ Len(oids) \in 1 .. MAX_OIDS_PER_CALL
    /\ \A i \in DOMAIN oids : validate_oid(oids[i])
-----------------------------------------------------------------------------
\* The reference: what the policy of allowlist.py:8-12 asks of a line, read
\* off the line from left to right without splitting it.
WordEnds(line, i) == i = Len(line) \/ line[i + 1] \in {" ", Bar}
WordIn(line, i, words) ==
    /\ i \in DOMAIN line
    /\ lower(line)[i] \in words
    /\ WordEnds(line, i)

ReadOnlyLine(line) ==
    /\ WordIn(line, 1, READ_VERBS)
    /\ Len(line) >= 3 /\ line[2] = " " /\ line[3] # Bar
    /\ \A i \in DOMAIN line : line[i] \notin SHELL_METACHARS
    /\ \A i \in 2 .. Len(line) : line[i] = " " => line[i - 1] # " "
    /\ Last(line) # " "
    /\ \A b \in Bars(line) :
          \/ WordIn(line, b + 1, FILTER_KEYWORDS)
          \/ line[b + 1] = " " /\ WordIn(line, b + 2, FILTER_KEYWORDS)

\* The same words with other whitespace between and around them.
Respaced(line) ==
    <<"\t">> \o [i \in DOMAIN line |-> IF line[i] = " " THEN "\n" ELSE line[i]] \o <<" ", "\n">>
=============================================================================
