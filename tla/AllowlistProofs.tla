--------------------------- MODULE AllowlistProofs ---------------------------
(***************************************************************************)
(* What the allowlist does to a command, for every command: the form it is *)
(* brought into, that this form is stable, and that the check on it, which *)
(* splits the line at its bars and the segments at their blanks, lets pass *)
(* just what a reading of the policy from left to right allows.            *)
(*                                                                         *)
(* collapse is a recursive function; its equation comes from induction     *)
(* over a set of naturals (NaturalSets), and so does what it computes.     *)
(***************************************************************************)
EXTENDS Allowlist, NaturalSets, SequenceTheorems

\* The whitespace pieces, by name.
Blank   == " "
Tab     == "\t"
Newline == "\n"

\* A line with no two whitespace pieces in a row.
Spaced(line) ==
    \A i \in 2 .. Len(line) : line[i] \notin Whitespace \/ line[i - 1] \notin Whitespace

\* A line in normal form: it begins and ends with a word, and one blank is all
\* the whitespace between two words.
Normal(line) ==
    /\ line \in Seq(Piece)
    /\ Len(line) > 0
    /\ line[1] \notin Whitespace
    /\ line[Len(line)] \notin Whitespace
    /\ Spaced(line)
    /\ \A i \in 1 .. Len(line) : line[i] \in Whitespace => line[i] = Blank

\* What collapse makes of a piece it keeps.
blanked(p) == IF p \in Whitespace THEN Blank ELSE p

\* The recursion of collapse, up to n.
CollapsedUpTo(line, n, g) ==
    g = [k \in 0 .. n |-> IF k = 0 THEN <<>> ELSE taken(line, k, g[k - 1])]

\* The recursion of collapse has a solution.
LEMMA CollapseIsDefined ==
    ASSUME NEW line, NEW n \in Nat
    PROVE  \E g : CollapsedUpTo(line, n, g)
<1> DEFINE defined == {m \in Nat : \E g : CollapsedUpTo(line, m, g)}
<1>1. 0 \in defined
  <2>1. CollapsedUpTo(line, 0, [k \in 0 .. 0 |-> <<>>])
    BY DEF CollapsedUpTo
  <2> QED  BY <2>1
<1>2. ASSUME NEW m \in 0 .. n - 1, m \in defined  PROVE m + 1 \in defined
  <2>1. PICK g : CollapsedUpTo(line, m, g)
    BY <1>2
  <2> DEFINE h == [k \in 0 .. m + 1 |-> IF k <= m THEN g[k] ELSE taken(line, m + 1, g[m])]
  <2>2. \A k \in 0 .. m : g[k] = IF k = 0 THEN <<>> ELSE taken(line, k, g[k - 1])
    BY <2>1 DEF CollapsedUpTo
  <2>3. \A k \in 0 .. m + 1 : h[k] = IF k = 0 THEN <<>> ELSE taken(line, k, h[k - 1])
    BY <2>2
  <2>4. CollapsedUpTo(line, m + 1, h)
    BY <2>3 DEF CollapsedUpTo
  <2> QED  BY <2>4
<1> HIDE DEF defined
<1>3. n \in defined
  BY <1>1, <1>2, InductionUpTo
<1> QED  BY <1>3 DEF defined

\* Unfolded: collapse starts with nothing and takes in piece after piece.
LEMMA CollapseEquation ==
    ASSUME NEW line, Len(line) \in Nat
    PROVE  \E g : /\ g[0] = <<>>
                  /\ \A k \in 1 .. Len(line) : g[k] = taken(line, k, g[k - 1])
                  /\ collapse(line) = g[Len(line)]
<1> DEFINE g == CHOOSE f : f = [k \in 0 .. Len(line) |->
                                  IF k = 0 THEN <<>> ELSE taken(line, k, f[k - 1])]
<1>1. g = [k \in 0 .. Len(line) |-> IF k = 0 THEN <<>> ELSE taken(line, k, g[k - 1])]
  BY CollapseIsDefined DEF CollapsedUpTo
<1>2. collapse(line) = g[Len(line)]
  BY DEF collapse
<1> HIDE DEF g
<1> QED  BY <1>1, <1>2

\* The whitespace pieces are pieces.
LEMMA BlanksArePieces ==
    /\ Blank \in Piece /\ Tab \in Piece /\ Newline \in Piece
    /\ Blank \in Whitespace /\ Tab \in Whitespace /\ Newline \in Whitespace
<1>1. Blank \in Piece /\ Tab \in Piece /\ Newline \in Piece
  BY AllowlistAssumption DEF Blank, Tab, Newline
<1>2. Blank \in Whitespace /\ Tab \in Whitespace /\ Newline \in Whitespace
  BY DEF Blank, Tab, Newline, Whitespace
<1> QED  BY <1>1, <1>2

\* What the first n pieces of a line have been turned into.
Collapsed(line, n, done) ==
    /\ done \in Seq(Piece)
    /\ Spaced(done)
    /\ \A i \in 1 .. Len(done) : done[i] \in Whitespace => done[i] = Blank
    /\ n = 0 => done = <<>>
    /\ n > 0 => /\ Len(done) > 0
                /\ done[1] \in Whitespace <=> line[1] \in Whitespace
                /\ done[Len(done)] \in Whitespace <=> line[n] \in Whitespace

\* One more piece keeps it that way.
LEMMA TakenIsCollapsed ==
    ASSUME NEW line \in Seq(Piece), NEW n \in 1 .. Len(line), NEW done,
           Collapsed(line, n - 1, done)
    PROVE  Collapsed(line, n, taken(line, n, done))
<1>1. line[n] \in Piece /\ done \in Seq(Piece) /\ n \in Nat \ {0}
  BY ElementOfSeq DEF Collapsed
<1>2. PICK k \in Nat : Len(done) = k
  BY <1>1
<1>3. /\ n = 1 => k = 0
      /\ n > 1 => /\ k > 0
                  /\ done[1] \in Whitespace <=> line[1] \in Whitespace
                  /\ done[k] \in Whitespace <=> line[n - 1] \in Whitespace
  <2>1. n = 1 => n - 1 = 0
    OBVIOUS
  <2>2. n > 1 => n - 1 > 0
    BY <1>1
  <2> QED  BY <1>2, <2>1, <2>2, EmptySeq DEF Collapsed
<1>4. /\ \A i \in 1 .. k : done[i] \in Whitespace => done[i] = Blank
      /\ \A i \in 2 .. k : done[i] \notin Whitespace \/ done[i - 1] \notin Whitespace
  BY <1>2 DEF Collapsed, Spaced
<1>5. ASSUME NEW p \in Piece, NEW longer, longer = Append(done, p),
             p \in Whitespace => p = Blank,
             p \in Whitespace <=> line[n] \in Whitespace,
             n > 1 => p \notin Whitespace \/ line[n - 1] \notin Whitespace
      PROVE  Collapsed(line, n, longer)
  <2>1. /\ longer \in Seq(Piece)
        /\ Len(longer) = k + 1
        /\ \A i \in 1 .. k : longer[i] = done[i]
        /\ longer[k + 1] = p
    BY <1>1, <1>2, <1>5, AppendProperties
  <2>2. ASSUME NEW i \in 1 .. k + 1, longer[i] \in Whitespace  PROVE longer[i] = Blank
    <3>1. CASE i \in 1 .. k
      BY <1>2, <1>4, <2>1, <2>2, <3>1
    <3>2. CASE i = k + 1
      BY <1>2, <1>5, <2>1, <2>2, <3>2
    <3> QED  BY <1>2, <3>1, <3>2
  <2>3. ASSUME NEW i \in 2 .. k + 1
        PROVE  longer[i] \notin Whitespace \/ longer[i - 1] \notin Whitespace
    <3>1. CASE i \in 2 .. k
      <4>1. longer[i] = done[i] /\ longer[i - 1] = done[i - 1]
        BY <1>2, <2>1, <3>1
      <4> QED  BY <1>2, <1>4, <3>1, <4>1
    <3>2. CASE i = k + 1
      <4>1. k > 0 /\ n > 1
        BY <1>2, <1>1, <1>3, <3>2
      <4>2. longer[i] = p /\ longer[i - 1] = done[k]
        BY <1>2, <2>1, <3>2, <4>1
      <4> QED  BY <1>2, <1>3, <1>5, <4>1, <4>2
    <3> QED  BY <1>2, <3>1, <3>2
  <2>4. longer[1] \in Whitespace <=> line[1] \in Whitespace
    <3>1. CASE n = 1
      <4>1. longer[1] = p
        BY <1>2, <1>3, <2>1, <3>1
      <4> QED  BY <1>2, <1>5, <3>1, <4>1
    <3>2. CASE n > 1
      <4>1. longer[1] = done[1]
        BY <1>2, <1>3, <2>1, <3>2
      <4> QED  BY <1>2, <1>3, <3>2, <4>1
    <3> QED  BY <1>2, <1>1, <3>1, <3>2
  <2>5. longer[k + 1] \in Whitespace <=> line[n] \in Whitespace
    BY <1>2, <1>5, <2>1
  <2>6. Spaced(longer) /\ \A i \in 1 .. Len(longer) : longer[i] \in Whitespace => longer[i] = Blank
    BY <1>2, <2>1, <2>2, <2>3 DEF Spaced
  <2>7. Len(longer) > 0
    BY <1>2, <2>1
  <2> QED  BY <1>2, <1>1, <2>1, <2>4, <2>5, <2>6, <2>7 DEF Collapsed
<1>6. CASE line[n] \notin Whitespace
  <2>1. Collapsed(line, n, Append(done, line[n]))
    BY <1>1, <1>5, <1>6
  <2> QED  BY <1>6, <2>1 DEF taken
<1>7. CASE line[n] \in Whitespace /\ n > 1 /\ line[n - 1] \in Whitespace
  <2>1. Collapsed(line, n, done)
    BY <1>1, <1>2, <1>3, <1>4, <1>7 DEF Collapsed, Spaced
  <2> QED  BY <1>7, <2>1 DEF taken
<1>8. CASE line[n] \in Whitespace /\ ~(n > 1 /\ line[n - 1] \in Whitespace)
  <2>1. Collapsed(line, n, Append(done, Blank))
    BY <1>1, <1>5, <1>8, BlanksArePieces
  <2> QED  BY <1>8, <2>1 DEF taken, Blank
<1> QED  BY <1>6, <1>7, <1>8

\* What collapse makes of a line has one blank at most between two words, and
\* begins and ends with whitespace only if the line does.
LEMMA CollapseIsCollapsed ==
    ASSUME NEW line \in Seq(Piece)
    PROVE  Collapsed(line, Len(line), collapse(line))
<1>1. Len(line) \in Nat
  OBVIOUS
<1>2. PICK g : /\ g[0] = <<>>
               /\ \A k \in 1 .. Len(line) : g[k] = taken(line, k, g[k - 1])
               /\ collapse(line) = g[Len(line)]
  BY <1>1, CollapseEquation
<1> DEFINE good == {k \in 0 .. Len(line) : Collapsed(line, k, g[k])}
<1>3. 0 \in good
  <2>1. <<>> \in Seq(Piece) /\ Len(<<>>) = 0
    BY EmptySeq
  <2>2. Collapsed(line, 0, <<>>)
    BY <2>1 DEF Collapsed, Spaced
  <2> QED  BY <1>1, <1>2, <2>2
<1>4. ASSUME NEW k \in 0 .. Len(line) - 1, k \in good  PROVE k + 1 \in good
  <2>1. k + 1 \in 1 .. Len(line) /\ (k + 1) - 1 = k
    BY <1>1
  <2>2. Collapsed(line, k + 1, g[k + 1])
    BY <1>2, <1>4, <2>1, TakenIsCollapsed
  <2> QED  BY <2>1, <2>2
<1> HIDE DEF good
<1>5. Len(line) \in good
  <2>1. \A k \in 0 .. Len(line) : k \in good
    BY <1>1, <1>3, <1>4, InductionUpTo
  <2> QED  BY <1>1, <2>1
<1> QED  BY <1>2, <1>5 DEF good

\* A line without two whitespace pieces in a row keeps its length.
LEMMA CollapseOfSpaced ==
    ASSUME NEW line \in Seq(Piece), Spaced(line)
    PROVE  /\ collapse(line) \in Seq(Piece)
           /\ Len(collapse(line)) = Len(line)
           /\ \A i \in 1 .. Len(line) : collapse(line)[i] = blanked(line[i])
<1>1. Len(line) \in Nat
  OBVIOUS
<1>2. PICK g : /\ g[0] = <<>>
               /\ \A k \in 1 .. Len(line) : g[k] = taken(line, k, g[k - 1])
               /\ collapse(line) = g[Len(line)]
  BY <1>1, CollapseEquation
<1> DEFINE good == {k \in 0 .. Len(line) :
                      /\ g[k] \in Seq(Piece)
                      /\ Len(g[k]) = k
                      /\ \A i \in 1 .. k : g[k][i] = blanked(line[i])}
<1>3. 0 \in good
  <2>1. g[0] \in Seq(Piece) /\ Len(g[0]) = 0
    BY <1>2, EmptySeq
  <2> QED  BY <1>1, <2>1
<1>4. ASSUME NEW k \in 0 .. Len(line) - 1, k \in good  PROVE k + 1 \in good
  <2>1. k + 1 \in 1 .. Len(line) /\ (k + 1) - 1 = k /\ k \in Nat /\ line[k + 1] \in Piece
    BY <1>1
  <2>2. g[k + 1] = Append(g[k], blanked(line[k + 1]))
    <3>1. ~(line[k + 1] \in Whitespace /\ k + 1 > 1 /\ line[k] \in Whitespace)
      BY <2>1, <1>1 DEF Spaced
    <3>2. g[k + 1] = taken(line, k + 1, g[k])
      BY <1>2, <2>1
    <3> QED  BY <2>1, <3>1, <3>2 DEF taken, blanked, Blank
  <2>3. blanked(line[k + 1]) \in Piece
    BY <2>1, BlanksArePieces DEF blanked
  <2>4. /\ g[k + 1] \in Seq(Piece)
        /\ Len(g[k + 1]) = k + 1
        /\ \A i \in 1 .. k : g[k + 1][i] = g[k][i]
        /\ g[k + 1][k + 1] = blanked(line[k + 1])
    BY <1>4, <2>1, <2>2, <2>3, AppendProperties
  <2>5. \A i \in 1 .. k + 1 : g[k + 1][i] = blanked(line[i])
    BY <1>4, <2>1, <2>4
  <2> QED  BY <2>1, <2>4, <2>5
<1> HIDE DEF good
<1>5. Len(line) \in good
  <2>1. \A k \in 0 .. Len(line) : k \in good
    BY <1>1, <1>3, <1>4, InductionUpTo
  <2> QED  BY <1>1, <2>1
<1> QED  BY <1>2, <1>5 DEF good

-----------------------------------------------------------------------------
\* Of a set of positions that is not empty, Min and Max are the ends.
LEMMA Ends ==
    ASSUME NEW n \in Nat, NEW S, S \subseteq 1 .. n, S # {}
    PROVE  /\ Min(S) \in S /\ Max(S) \in S
           /\ \A i \in S : Min(S) <= i /\ i <= Max(S)
<1>0. S \subseteq Nat /\ \A x \in S : x <= n
  OBVIOUS
<1>1. \E x \in S : \A y \in S : x <= y
  BY <1>0, SmallestExists
<1>2. \E x \in S : \A y \in S : y <= x
  BY <1>0, LargestExists
<1>3. Min(S) \in S /\ \A i \in S : Min(S) <= i
  BY <1>1 DEF Min
<1>4. Max(S) \in S /\ \A i \in S : i <= Max(S)
  <2>1. \E x \in S : \A y \in S : x >= y
    BY <1>2
  <2>2. Max(S) \in S /\ \A i \in S : Max(S) >= i
    BY <2>1 DEF Max
  <2> QED  BY <2>2
<1> QED  BY <1>3, <1>4

\* strip cuts a line down to what lies between its first and its last piece
\* that are no whitespace.
LEMMA StripIsBetween ==
    ASSUME NEW line \in Seq(Piece),
           NEW a \in 1 .. Len(line), line[a] \notin Whitespace,
           NEW b \in 1 .. Len(line), line[b] \notin Whitespace,
           \A i \in 1 .. Len(line) : line[i] \notin Whitespace => a <= i /\ i <= b
    PROVE  strip(line) = SubSeq(line, a, b)
<1> DEFINE solid == {i \in DOMAIN line : line[i] \notin Whitespace}
<1>1. DOMAIN line = 1 .. Len(line) /\ Len(line) \in Nat
  BY LenProperties
<1>2. a \in solid /\ b \in solid /\ solid \subseteq 1 .. Len(line)
  BY <1>1
<1>3. \A i \in solid : a <= i /\ i <= b
  BY <1>1
<1>4. strip(line) = IF solid = {} THEN <<>> ELSE SubSeq(line, Min(solid), Max(solid))
  BY DEF strip
<1> HIDE DEF solid
<1>5. /\ Min(solid) \in solid /\ Max(solid) \in solid
      /\ \A i \in solid : Min(solid) <= i /\ i <= Max(solid)
  BY <1>1, <1>2, Ends
<1>6. Min(solid) = a /\ Max(solid) = b
  <2>1. /\ Min(solid) <= a /\ a <= Min(solid)
        /\ Max(solid) <= b /\ b <= Max(solid)
    BY <1>2, <1>3, <1>5
  <2>2. Min(solid) \in 1 .. Len(line) /\ Max(solid) \in 1 .. Len(line)
    BY <1>2, <1>5
  <2> QED  BY <1>1, <2>1, <2>2
<1> QED  BY <1>2, <1>4, <1>6

\* A line has such pieces, or nothing is left of it.
LEMMA StripCases ==
    ASSUME NEW line \in Seq(Piece)
    PROVE  \/ strip(line) = <<>> /\ \A i \in 1 .. Len(line) : line[i] \in Whitespace
           \/ \E a, b \in 1 .. Len(line) :
                 /\ line[a] \notin Whitespace /\ line[b] \notin Whitespace
                 /\ a <= b
                 /\ \A i \in 1 .. Len(line) : line[i] \notin Whitespace => a <= i /\ i <= b
                 /\ strip(line) = SubSeq(line, a, b)
<1> DEFINE solid == {i \in DOMAIN line : line[i] \notin Whitespace}
<1>1. DOMAIN line = 1 .. Len(line) /\ Len(line) \in Nat
  BY LenProperties
<1>2. strip(line) = IF solid = {} THEN <<>> ELSE SubSeq(line, Min(solid), Max(solid))
  BY DEF strip
<1>3. CASE solid = {}
  BY <1>1, <1>2, <1>3
<1>4. CASE solid # {}
  <2>1. solid \subseteq 1 .. Len(line)
    BY <1>1
  <2>2. /\ Min(solid) \in solid /\ Max(solid) \in solid
        /\ \A i \in solid : Min(solid) <= i /\ i <= Max(solid)
    <3> HIDE DEF solid
    <3> QED  BY <1>1, <1>4, <2>1, Ends
  <2>3. /\ Min(solid) \in 1 .. Len(line) /\ Max(solid) \in 1 .. Len(line)
        /\ line[Min(solid)] \notin Whitespace /\ line[Max(solid)] \notin Whitespace
        /\ Min(solid) <= Max(solid)
    BY <2>1, <2>2
  <2>4. \A i \in 1 .. Len(line) : line[i] \notin Whitespace => Min(solid) <= i /\ i <= Max(solid)
    BY <1>1, <2>2
  <2> HIDE DEF solid
  <2> QED  BY <1>2, <1>4, <2>3, <2>4
<1> QED  BY <1>3, <1>4

\* What is left begins and ends with no whitespace.
LEMMA StripType ==
    ASSUME NEW line \in Seq(Piece)
    PROVE  \/ strip(line) = <<>>
           \/ /\ strip(line) \in Seq(Piece)
              /\ Len(strip(line)) > 0
              /\ strip(line)[1] \notin Whitespace
              /\ strip(line)[Len(strip(line))] \notin Whitespace
<1>1. SUFFICES ASSUME NEW a \in 1 .. Len(line), NEW b \in 1 .. Len(line), a <= b,
                      line[a] \notin Whitespace, line[b] \notin Whitespace
               PROVE  /\ SubSeq(line, a, b) \in Seq(Piece)
                      /\ Len(SubSeq(line, a, b)) > 0
                      /\ SubSeq(line, a, b)[1] \notin Whitespace
                      /\ SubSeq(line, a, b)[Len(SubSeq(line, a, b))] \notin Whitespace
  BY StripCases
<1>2. Len(line) \in Nat /\ a \in Int /\ b \in Int
  BY LenProperties
<1>3. \A i \in a .. b : line[i] \in Piece
  BY <1>2, ElementOfSeq
<1>4. /\ SubSeq(line, a, b) \in Seq(Piece)
      /\ Len(SubSeq(line, a, b)) = b - a + 1
      /\ \A i \in 1 .. b - a + 1 : SubSeq(line, a, b)[i] = line[a + i - 1]
  BY <1>1, <1>2, <1>3, SubSeqProperties
<1>5. SubSeq(line, a, b)[1] = line[a] /\ SubSeq(line, a, b)[b - a + 1] = line[b]
  <2>1. 1 \in 1 .. b - a + 1 /\ b - a + 1 \in 1 .. b - a + 1
    BY <1>1, <1>2
  <2>2. a + 1 - 1 = a /\ a + (b - a + 1) - 1 = b
    BY <1>2
  <2> QED  BY <1>4, <2>1, <2>2
<1> QED  BY <1>1, <1>2, <1>4, <1>5

\* A command is rejected as empty or brought into normal form.
LEMMA NormalizeIsNormal ==
    ASSUME NEW command \in Seq(Piece)
    PROVE  normalize(command) = <<>> \/ Normal(normalize(command))
<1>1. CASE strip(command) = <<>>
  <2>1. <<>> \in Seq(Piece) /\ Len(<<>>) = 0
    BY EmptySeq
  <2>2. Collapsed(<<>>, 0, collapse(<<>>))
    BY <2>1, CollapseIsCollapsed
  <2> QED  BY <1>1, <2>2 DEF Collapsed, normalize
<1>2. CASE strip(command) # <<>>
  <2> DEFINE stripped == strip(command)
  <2>1. /\ stripped \in Seq(Piece) /\ Len(stripped) > 0
        /\ stripped[1] \notin Whitespace /\ stripped[Len(stripped)] \notin Whitespace
    BY <1>2, StripType
  <2> HIDE DEF stripped
  <2>2. Collapsed(stripped, Len(stripped), collapse(stripped))
    BY <2>1, CollapseIsCollapsed
  <2>3. Normal(collapse(stripped))
    BY <2>1, <2>2 DEF Collapsed, Normal
  <2> QED  BY <2>3 DEF normalize, stripped
<1> QED  BY <1>1, <1>2

\* A line in normal form stays as it is.
LEMMA NormalizeOfNormal ==
    ASSUME NEW line, Normal(line)
    PROVE  normalize(line) = line
<1>1. line \in Seq(Piece) /\ Len(line) \in Nat /\ Len(line) > 0
  BY LenProperties DEF Normal
<1>2. strip(line) = line
  <2>1. strip(line) = SubSeq(line, 1, Len(line))
    <3>1. 1 \in 1 .. Len(line) /\ Len(line) \in 1 .. Len(line)
      BY <1>1
    <3>2. line[1] \notin Whitespace /\ line[Len(line)] \notin Whitespace
      BY DEF Normal
    <3>3. \A i \in 1 .. Len(line) : 1 <= i /\ i <= Len(line)
      BY <1>1
    <3> QED  BY <1>1, <3>1, <3>2, <3>3, StripIsBetween
  <2> QED  BY <1>1, <2>1, SubSeqFull
<1>3. /\ collapse(line) \in Seq(Piece) /\ Len(collapse(line)) = Len(line)
      /\ \A i \in 1 .. Len(line) : collapse(line)[i] = blanked(line[i])
  BY <1>1, CollapseOfSpaced DEF Normal
<1>4. \A i \in 1 .. Len(line) : blanked(line[i]) = line[i]
  BY DEF Normal, blanked
<1>5. collapse(line) = line
  BY <1>1, <1>3, <1>4, SeqEqual
<1> QED  BY <1>2, <1>5 DEF normalize

\* Respaced widens a line by one piece at its start and two at its end.
LEMMA RespacedIs ==
    ASSUME NEW line, Normal(line)
    PROVE  /\ Respaced(line) \in Seq(Piece)
           /\ Len(Respaced(line)) = Len(line) + 3
           /\ Respaced(line)[1] = Tab
           /\ \A i \in 1 .. Len(line) : Respaced(line)[i + 1] = IF line[i] = Blank THEN Newline ELSE line[i]
           /\ Respaced(line)[Len(line) + 2] = Blank
           /\ Respaced(line)[Len(line) + 3] = Newline
<1> DEFINE middle == [i \in DOMAIN line |-> IF line[i] = Blank THEN Newline ELSE line[i]]
<1>1. Respaced(line) = <<Tab>> \o middle \o <<Blank, Newline>>
  BY DEF Respaced, Tab, Blank, Newline
<1>2. line \in Seq(Piece) /\ Len(line) \in Nat /\ DOMAIN line = 1 .. Len(line)
  BY LenProperties DEF Normal
<1>3. \A i \in 1 .. Len(line) : line[i] \in Piece
  BY <1>2, ElementOfSeq
<1>4. /\ middle \in Seq(Piece) /\ Len(middle) = Len(line)
      /\ \A i \in 1 .. Len(line) : middle[i] = IF line[i] = Blank THEN Newline ELSE line[i]
  BY <1>2, <1>3, BlanksArePieces
<1> HIDE DEF middle
<1>5. /\ <<Tab>> \in Seq(Piece) /\ Len(<<Tab>>) = 1 /\ <<Tab>>[1] = Tab
      /\ <<Blank, Newline>> \in Seq(Piece) /\ Len(<<Blank, Newline>>) = 2
      /\ <<Blank, Newline>>[1] = Blank /\ <<Blank, Newline>>[2] = Newline
  BY BlanksArePieces
<1> DEFINE front == <<Tab>> \o middle
<1>6. /\ front \in Seq(Piece) /\ Len(front) = Len(line) + 1
      /\ front[1] = Tab
      /\ \A i \in 1 .. Len(line) : front[i + 1] = middle[i]
  BY <1>2, <1>4, <1>5, ConcatProperties
<1> HIDE DEF front
<1>7. /\ front \o <<Blank, Newline>> \in Seq(Piece)
      /\ Len(front \o <<Blank, Newline>>) = Len(line) + 3
      /\ \A i \in 1 .. Len(line) + 1 : (front \o <<Blank, Newline>>)[i] = front[i]
      /\ (front \o <<Blank, Newline>>)[Len(line) + 2] = Blank
      /\ (front \o <<Blank, Newline>>)[Len(line) + 3] = Newline
  BY <1>2, <1>5, <1>6, ConcatProperties
<1>8. \A i \in 1 .. Len(line) : i + 1 \in 1 .. Len(line) + 1
  BY <1>2
<1> QED  BY <1>1, <1>2, <1>4, <1>6, <1>7, <1>8 DEF front

\* Whatever whitespace a line in normal form is given, it comes out the same.
LEMMA NormalizeOfRespaced ==
    ASSUME NEW line, Normal(line)
    PROVE  normalize(Respaced(line)) = line
<1> DEFINE wide == Respaced(line)
           between == SubSeq(wide, 2, Len(line) + 1)
<1>1. line \in Seq(Piece) /\ Len(line) \in Nat /\ Len(line) > 0
  BY LenProperties DEF Normal
<1>2. /\ wide \in Seq(Piece) /\ Len(wide) = Len(line) + 3
      /\ wide[1] \in Whitespace
      /\ \A i \in 1 .. Len(line) : wide[i + 1] = IF line[i] = Blank THEN Newline ELSE line[i]
      /\ wide[Len(line) + 2] \in Whitespace /\ wide[Len(line) + 3] \in Whitespace
  BY RespacedIs, BlanksArePieces
<1>3. \A i \in 1 .. Len(line) :
         /\ wide[i + 1] \in Whitespace <=> line[i] \in Whitespace
         /\ blanked(wide[i + 1]) = line[i]
  <2> SUFFICES ASSUME NEW i \in 1 .. Len(line)
               PROVE  /\ wide[i + 1] \in Whitespace <=> line[i] \in Whitespace
                      /\ blanked(wide[i + 1]) = line[i]
    OBVIOUS
  <2>1. wide[i + 1] = IF line[i] = Blank THEN Newline ELSE line[i]
    BY <1>2
  <2>2. line[i] \in Whitespace => line[i] = Blank
    BY DEF Normal
  <2> HIDE DEF wide
  <2> QED  BY <2>1, <2>2, BlanksArePieces DEF blanked
<1>4. strip(wide) = between
  <2>1. 2 \in 1 .. Len(wide) /\ Len(line) + 1 \in 1 .. Len(wide)
    BY <1>1, <1>2
  <2>2. wide[2] \notin Whitespace /\ wide[Len(line) + 1] \notin Whitespace
    <3>1. 1 \in 1 .. Len(line) /\ Len(line) \in 1 .. Len(line) /\ 1 + 1 = 2
      BY <1>1
    <3>2. line[1] \notin Whitespace /\ line[Len(line)] \notin Whitespace
      BY DEF Normal
    <3> HIDE DEF wide
    <3> QED  BY <1>3, <3>1, <3>2
  <2>3. ASSUME NEW i \in 1 .. Len(wide), wide[i] \notin Whitespace
        PROVE  2 <= i /\ i <= Len(line) + 1
    <3>1. i # 1 /\ i # Len(line) + 2 /\ i # Len(line) + 3
      BY <1>2, <2>3
    <3> HIDE DEF wide
    <3> QED  BY <1>1, <1>2, <3>1
  <2> HIDE DEF wide
  <2> QED  BY <1>2, <2>1, <2>2, <2>3, StripIsBetween
<1>5. /\ between \in Seq(Piece) /\ Len(between) = Len(line)
      /\ \A i \in 1 .. Len(line) : between[i] = wide[i + 1]
  <2> HIDE DEF wide
  <2>1. \A i \in 2 .. Len(line) + 1 : wide[i] \in Piece
    <3>1. \A i \in 2 .. Len(line) + 1 : i \in 1 .. Len(wide)
      BY <1>1, <1>2
    <3> QED  BY <1>2, <3>1, ElementOfSeq
  <2>2. /\ between \in Seq(Piece)
        /\ Len(between) = IF 2 <= Len(line) + 1 THEN Len(line) + 1 - 2 + 1 ELSE 0
        /\ \A i \in 1 .. Len(line) + 1 - 2 + 1 : between[i] = wide[2 + i - 1]
    BY <1>1, <2>1, SubSeqProperties
  <2>3. Len(line) + 1 - 2 + 1 = Len(line) /\ \A i \in 1 .. Len(line) : 2 + i - 1 = i + 1
    BY <1>1
  <2> HIDE DEF between
  <2> QED  BY <1>1, <2>2, <2>3
<1> HIDE DEF wide, between
<1>6. Spaced(between)
  <2>1. ASSUME NEW i \in 2 .. Len(line)
        PROVE  between[i] \notin Whitespace \/ between[i - 1] \notin Whitespace
    <3>1. i \in 1 .. Len(line) /\ i - 1 \in 1 .. Len(line)
      BY <1>1
    <3>2. line[i] \notin Whitespace \/ line[i - 1] \notin Whitespace
      BY DEF Normal, Spaced
    <3>3. \A j \in 1 .. Len(line) : between[j] \in Whitespace => line[j] \in Whitespace
      BY <1>3, <1>5
    <3> QED  BY <3>1, <3>2, <3>3
  <2> QED  BY <1>5, <2>1 DEF Spaced
<1>7. /\ collapse(between) \in Seq(Piece) /\ Len(collapse(between)) = Len(line)
      /\ \A i \in 1 .. Len(line) : collapse(between)[i] = blanked(between[i])
  BY <1>5, <1>6, CollapseOfSpaced
<1>8. \A i \in 1 .. Len(line) : blanked(between[i]) = line[i]
  BY <1>3, <1>5
<1>9. collapse(between) = line
  BY <1>1, <1>7, <1>8, SeqEqual
<1> QED  BY <1>4, <1>9 DEF normalize, wide
-----------------------------------------------------------------------------
\* One piece in lower case.
lowered(p) == IF p \in DOMAIN Capitals THEN Capitals[p] ELSE p

\* A line that is one word in lower case is one piece.
LEMMA LowerIsOneWord ==
    ASSUME NEW line \in Seq(Piece), NEW w, lower(line) = <<w>>
    PROVE  Len(line) = 1 /\ lowered(line[1]) = w
<1>1. DOMAIN line = 1 .. Len(line) /\ Len(line) \in Nat
  BY LenProperties
<1>2. lower(line) = [i \in 1 .. Len(line) |-> lowered(line[i])]
  BY <1>1 DEF lower, lowered
<1>3. 1 .. Len(line) = 1 .. 1
  <2>1. DOMAIN lower(line) = 1 .. Len(line)
    BY <1>2
  <2>2. DOMAIN <<w>> = 1 .. 1
    OBVIOUS
  <2> QED  BY <2>1, <2>2
<1>4. Len(line) = 1
  <2>1. 1 \in 1 .. Len(line)
    BY <1>3
  <2>2. Len(line) \in 1 .. Len(line)
    BY <1>1, <2>1
  <2> QED  BY <1>3, <2>2
<1>5. lower(line)[1] = lowered(line[1]) /\ <<w>>[1] = w
  BY <1>2, <1>4
<1> QED  BY <1>4, <1>5

\* A segment whose first word is one piece begins with that piece, and a blank
\* or nothing follows.
LEMMA FirstWordIs ==
    ASSUME NEW seg \in Seq(Piece), NEW w, lower(first_word(seg)) = <<w>>
    PROVE  /\ Len(seg) > 0
           /\ lowered(seg[1]) = w
           /\ Len(seg) = 1 => seg = first_word(seg)
           /\ Len(seg) > 1 => seg[2] = Blank
<1> DEFINE ends == {j \in DOMAIN seg : seg[j] = Blank} \cup {Len(seg) + 1}
           end  == Min(ends)
<1>1. DOMAIN seg = 1 .. Len(seg) /\ Len(seg) \in Nat
  BY LenProperties
<1>2. /\ end \in ends
      /\ \A j \in ends : end <= j
  <2>1. ends \subseteq 1 .. Len(seg) + 1 /\ ends # {} /\ Len(seg) + 1 \in Nat
    BY <1>1
  <2> HIDE DEF ends
  <2> QED  BY <2>1, Ends
<1>3. first_word(seg) = SubSeq(seg, 1, end - 1)
  BY DEF first_word, Blank
<1>4. end \in 1 .. Len(seg) + 1
  BY <1>1, <1>2
<1> HIDE DEF end
<1>5. /\ SubSeq(seg, 1, end - 1) \in Seq(Piece)
      /\ Len(SubSeq(seg, 1, end - 1)) = end - 1
      /\ \A i \in 1 .. end - 1 : SubSeq(seg, 1, end - 1)[i] = seg[i]
  <2>1. \A i \in 1 .. end - 1 : seg[i] \in Piece
    <3>1. \A i \in 1 .. end - 1 : i \in 1 .. Len(seg)
      BY <1>1, <1>4
    <3> QED  BY <3>1, ElementOfSeq
  <2>2. 1 \in Int /\ end - 1 \in Int
    BY <1>1, <1>4
  <2>3. /\ SubSeq(seg, 1, end - 1) \in Seq(Piece)
        /\ Len(SubSeq(seg, 1, end - 1)) = IF 1 <= end - 1 THEN end - 1 - 1 + 1 ELSE 0
        /\ \A i \in 1 .. end - 1 - 1 + 1 : SubSeq(seg, 1, end - 1)[i] = seg[1 + i - 1]
    BY <2>1, <2>2, SubSeqProperties
  <2>4. end - 1 - 1 + 1 = end - 1 /\ (~(1 <= end - 1) => end - 1 = 0)
        /\ \A i \in 1 .. end - 1 : 1 + i - 1 = i
    BY <1>1, <1>4
  <2> QED  BY <2>3, <2>4
<1>6. end = 2 /\ lowered(seg[1]) = w
  <2>1. end - 1 = 1 /\ lowered(SubSeq(seg, 1, end - 1)[1]) = w
    BY <1>3, <1>5, LowerIsOneWord
  <2> QED  BY <1>1, <1>4, <1>5, <2>1
<1>7. Len(seg) > 0
  BY <1>1, <1>4, <1>6
<1>8. ASSUME Len(seg) = 1  PROVE seg = first_word(seg)
  <2>1. first_word(seg) = SubSeq(seg, 1, Len(seg))
    BY <1>3, <1>6, <1>8
  <2> QED  BY <2>1, SubSeqFull
<1>9. ASSUME Len(seg) > 1  PROVE seg[2] = Blank
  BY <1>1, <1>2, <1>6, <1>9
<1> QED  BY <1>6, <1>7, <1>8, <1>9

\* The segment after i is what lies from a to b, without a bar: whitespace
\* stands before it, and after it up to the next bar or the end of the line.
SegmentLies(line, i, a, b) ==
    /\ a \in i + 1 .. Len(line) /\ b \in a .. Len(line)
    /\ segment(line, i) \in Seq(Piece)
    /\ Len(segment(line, i)) = b - a + 1
    /\ \A k \in 1 .. b - a + 1 : segment(line, i)[k] = line[a + k - 1]
    /\ line[a] \notin Whitespace /\ line[b] \notin Whitespace
    /\ \A j \in i + 1 .. a - 1 : line[j] \in Whitespace
    /\ \A j \in a .. b : line[j] # Bar
    /\ \A j \in b + 1 .. Len(line) :
          line[j] \notin Whitespace => \E k \in b + 1 .. j : line[k] = Bar

\* A segment that is not empty lies somewhere in the line, and one that is
\* has nothing but whitespace up to the next bar.
LEMMA SegmentIs ==
    ASSUME NEW line \in Seq(Piece), NEW i \in 0 .. Len(line)
    PROVE  \/ /\ segment(line, i) = <<>>
              /\ \A j \in i + 1 .. Len(line) :
                    line[j] \notin Whitespace => \E k \in i + 1 .. j : line[k] = Bar
           \/ \E a, b \in 1 .. Len(line) : SegmentLies(line, i, a, b)
<1> DEFINE later == {j \in Bars(line) : j > i} \cup {Len(line) + 1}
           next  == Min(later)
           part  == SubSeq(line, i + 1, next - 1)
<1>1. Len(line) \in Nat /\ i \in Nat /\ DOMAIN line = 1 .. Len(line)
  BY LenProperties
<1>2. /\ next \in later /\ \A j \in later : next <= j
      /\ next \in i + 1 .. Len(line) + 1
  <2>1. later \subseteq i + 1 .. Len(line) + 1 /\ later \subseteq 1 .. Len(line) + 1
    BY <1>1 DEF Bars
  <2>2. later # {} /\ Len(line) + 1 \in Nat
    BY <1>1
  <2> HIDE DEF later
  <2> QED  BY <2>1, <2>2, Ends
<1>3. /\ \A j \in i + 1 .. next - 1 : line[j] # Bar
      /\ next <= Len(line) => line[next] = Bar
  <2>1. ASSUME NEW j \in i + 1 .. next - 1, line[j] = Bar  PROVE FALSE
    <3>1. j \in 1 .. Len(line) /\ j > i /\ j < next
      BY <1>1, <1>2
    <3>2. j \in later
      BY <1>1, <2>1, <3>1 DEF Bars
    <3> HIDE DEF next, later
    <3> QED  BY <1>1, <1>2, <3>1, <3>2
  <2>2. ASSUME next <= Len(line)  PROVE line[next] = Bar
    <3>1. next # Len(line) + 1
      BY <1>1, <1>2, <2>2
    <3> QED  BY <1>2, <3>1 DEF Bars
  <2> QED  BY <2>1, <2>2
<1>4. segment(line, i) = strip(part)
  BY DEF segment
<1> HIDE DEF next, later
<1>5. /\ part \in Seq(Piece) /\ Len(part) = next - 1 - i
      /\ \A j \in 1 .. next - 1 - i : part[j] = line[i + j]
  <2>1. \A j \in i + 1 .. next - 1 : line[j] \in Piece
    <3>1. \A j \in i + 1 .. next - 1 : j \in 1 .. Len(line)
      BY <1>1, <1>2
    <3> QED  BY <3>1, ElementOfSeq
  <2>2. i + 1 \in Int /\ next - 1 \in Int
    BY <1>1, <1>2
  <2>3. /\ part \in Seq(Piece)
        /\ Len(part) = IF i + 1 <= next - 1 THEN next - 1 - (i + 1) + 1 ELSE 0
        /\ \A j \in 1 .. next - 1 - (i + 1) + 1 : part[j] = line[i + 1 + j - 1]
    BY <2>1, <2>2, SubSeqProperties
  <2>4. next - 1 - (i + 1) + 1 = next - 1 - i /\ (~(i + 1 <= next - 1) => next - 1 - i = 0)
        /\ \A j \in 1 .. next - 1 - i : i + 1 + j - 1 = i + j
    BY <1>1, <1>2
  <2> HIDE DEF part
  <2> QED  BY <2>3, <2>4
<1> HIDE DEF part
<1>6. ASSUME strip(part) = <<>>, \A j \in 1 .. Len(part) : part[j] \in Whitespace,
              NEW j \in i + 1 .. Len(line), line[j] \notin Whitespace
       PROVE  \E k \in i + 1 .. j : line[k] = Bar
  <2>1. ~(j <= next - 1)
    <3>1. SUFFICES ASSUME j <= next - 1  PROVE FALSE
      OBVIOUS
    <3>2. j - i \in 1 .. next - 1 - i /\ i + (j - i) = j
      BY <1>1, <1>2, <3>1
    <3> QED  BY <1>5, <1>6, <3>2
  <2>2. next \in i + 1 .. j /\ next <= Len(line)
    BY <1>1, <1>2, <2>1
  <2> QED  BY <1>3, <2>2
<1>7. SUFFICES ASSUME ~(strip(part) = <<>> /\ \A j \in 1 .. Len(part) : part[j] \in Whitespace)
                PROVE  \E a, b \in 1 .. Len(line) : SegmentLies(line, i, a, b)
  BY <1>4, <1>6
<1>8. PICK a, b \in 1 .. Len(part) :
         /\ part[a] \notin Whitespace /\ part[b] \notin Whitespace
         /\ a <= b
         /\ \A j \in 1 .. Len(part) : part[j] \notin Whitespace => a <= j /\ j <= b
         /\ strip(part) = SubSeq(part, a, b)
  BY <1>5, <1>7, StripCases
<1>9. /\ a \in Nat /\ b \in Nat /\ 1 <= a /\ a <= b /\ b <= next - 1 - i
      /\ next \in Nat /\ next - 1 <= Len(line)
  BY <1>1, <1>2, <1>5, <1>8
<1>10. /\ segment(line, i) \in Seq(Piece)
      /\ Len(segment(line, i)) = i + b - (i + a) + 1
      /\ \A k \in 1 .. i + b - (i + a) + 1 : segment(line, i)[k] = line[i + a + k - 1]
  <2>1. \A j \in a .. b : part[j] \in Piece
    <3>1. \A j \in a .. b : j \in 1 .. Len(part)
      BY <1>5, <1>9
    <3> QED  BY <1>5, <3>1, ElementOfSeq
  <2>2. /\ SubSeq(part, a, b) \in Seq(Piece)
        /\ Len(SubSeq(part, a, b)) = IF a <= b THEN b - a + 1 ELSE 0
        /\ \A k \in 1 .. b - a + 1 : SubSeq(part, a, b)[k] = part[a + k - 1]
    BY <1>9, <2>1, SubSeqProperties
  <2>3. i + b - (i + a) + 1 = b - a + 1
    BY <1>1, <1>9
  <2>4. ASSUME NEW k \in 1 .. b - a + 1
        PROVE  part[a + k - 1] = line[i + a + k - 1]
    <3>1. a + k - 1 \in 1 .. next - 1 - i /\ i + (a + k - 1) = i + a + k - 1
      BY <1>1, <1>9
    <3> QED  BY <1>5, <3>1
  <2> QED  BY <1>4, <1>8, <1>9, <2>2, <2>3, <2>4
<1>11. line[i + a] \notin Whitespace /\ line[i + b] \notin Whitespace
  BY <1>5, <1>8
<1>12. ASSUME NEW j \in i + 1 .. i + a - 1  PROVE line[j] \in Whitespace
  <2>1. j - i \in 1 .. next - 1 - i /\ i + (j - i) = j /\ ~(a <= j - i)
    BY <1>1, <1>9
  <2> QED  BY <1>5, <1>8, <2>1
<1>13. \A j \in i + a .. i + b : line[j] # Bar
  <2>1. \A j \in i + a .. i + b : j \in i + 1 .. next - 1
    BY <1>1, <1>9
  <2> QED  BY <1>3, <2>1
<1>14. ASSUME NEW j \in i + b + 1 .. Len(line), line[j] \notin Whitespace
       PROVE  \E k \in i + b + 1 .. j : line[k] = Bar
  <2>1. ~(j <= next - 1)
    <3>1. SUFFICES ASSUME j <= next - 1  PROVE FALSE
      OBVIOUS
    <3>2. j - i \in 1 .. next - 1 - i /\ i + (j - i) = j /\ ~(j - i <= b)
      BY <1>1, <1>9, <3>1
    <3> QED  BY <1>5, <1>8, <1>14, <3>2
  <2>2. next \in i + b + 1 .. j /\ next <= Len(line)
    BY <1>1, <1>9, <2>1
  <2> QED  BY <1>3, <2>2
<1>15. i + a \in i + 1 .. Len(line) /\ i + b \in i + a .. Len(line)
  BY <1>1, <1>9
<1>16. SegmentLies(line, i, i + a, i + b)
  BY <1>10, <1>11, <1>12, <1>13, <1>14, <1>15 DEF SegmentLies
<1>17. i + a \in 1 .. Len(line) /\ i + b \in 1 .. Len(line)
  BY <1>1, <1>9
<1> QED  BY <1>16, <1>17

\* The segment after position i of a line in normal form, when its first word
\* is one of words: the word stands at i + 1, or at i + 2 after a blank, it is
\* a whole word, and a blank follows it in the segment if anything does.
LEMMA SegmentStarts ==
    ASSUME NEW line, Normal(line), NEW i \in 0 .. Len(line), NEW words,
           StartsWith(segment(line, i), words)
    PROVE  \E a, b \in 1 .. Len(line) :
                     /\ SegmentLies(line, i, a, b)
                     /\ WordIn(line, a, words)
                     /\ a = i + 1 \/ (a = i + 2 /\ line[i + 1] = Blank)
                     /\ segment(line, i) # first_word(segment(line, i)) => b > a /\ line[a + 1] = Blank
<1> DEFINE seg == segment(line, i)
<1>1. line \in Seq(Piece) /\ Len(line) \in Nat /\ i \in Nat /\ DOMAIN line = 1 .. Len(line)
  BY LenProperties DEF Normal
<1>2. PICK w \in words : lower(first_word(seg)) = <<w>>
  BY DEF StartsWith
<1>3. seg # <<>>
  <2> HIDE DEF seg
  <2>1. ASSUME seg = <<>>  PROVE seg \in Seq(Piece) /\ Len(seg) = 0
    BY <2>1, EmptySeq
  <2>2. lower(first_word(seg)) = <<w>>
    BY <1>2 DEF seg
  <2>3. seg \in Seq(Piece) => Len(seg) > 0
    BY <2>2, FirstWordIs
  <2> QED  BY <2>1, <2>3
<1>4. PICK a, b \in 1 .. Len(line) : SegmentLies(line, i, a, b)
  BY <1>1, <1>3, SegmentIs
<1>5. /\ a \in Nat /\ b \in Nat /\ i + 1 <= a /\ a <= b /\ b <= Len(line)
      /\ seg \in Seq(Piece) /\ Len(seg) = b - a + 1
      /\ \A k \in 1 .. b - a + 1 : seg[k] = line[a + k - 1]
  BY <1>1, <1>4 DEF SegmentLies
<1> HIDE DEF seg
<1>6. /\ lowered(seg[1]) = w
      /\ Len(seg) = 1 => seg = first_word(seg)
      /\ Len(seg) > 1 => seg[2] = Blank
  BY <1>2, <1>5, FirstWordIs
<1>7. ASSUME b > a  PROVE line[a + 1] = Blank
  <2>1. 2 \in 1 .. b - a + 1 /\ a + 2 - 1 = a + 1 /\ Len(seg) > 1
    BY <1>5, <1>7
  <2> QED  BY <1>5, <1>6, <2>1
<1>8. lower(line)[a] \in words
  <2>1. 1 \in 1 .. b - a + 1 /\ a + 1 - 1 = a /\ a \in 1 .. Len(line)
    BY <1>1, <1>5
  <2>2. lower(line)[a] = lowered(line[a])
    BY <1>1, <2>1 DEF lower, lowered
  <2> QED  BY <1>2, <1>5, <1>6, <2>1, <2>2
<1>9. a = Len(line) \/ line[a + 1] = Blank \/ line[a + 1] = Bar
  <2>1. CASE b > a
    BY <1>7, <2>1
  <2>2. CASE b = a /\ b < Len(line)
    <3>1. a + 1 \in b + 1 .. Len(line) /\ a + 1 \in 1 .. Len(line)
      BY <1>1, <1>5, <2>2
    <3>2. line[a + 1] \in Whitespace \/ line[a + 1] = Bar
      <4>1. line[a + 1] \notin Whitespace => \E k \in b + 1 .. a + 1 : line[k] = Bar
        BY <1>4, <3>1 DEF SegmentLies
      <4>2. \A k \in b + 1 .. a + 1 : k = a + 1
        BY <1>5, <2>2
      <4> QED  BY <4>1, <4>2
    <3> QED  BY <3>1, <3>2 DEF Normal
  <2> QED  BY <1>1, <1>5, <2>1, <2>2
<1>10. WordIn(line, a, words)
  <2>1. WordEnds(line, a)
    BY <1>9 DEF WordEnds, Blank
  <2>2. a \in DOMAIN line
    BY <1>1, <1>5
  <2> QED  BY <1>8, <2>1, <2>2 DEF WordIn
<1>11. a = i + 1 \/ (a = i + 2 /\ line[i + 1] = Blank)
  <2>1. \A j \in i + 1 .. a - 1 : line[j] \in Whitespace
    BY <1>4 DEF SegmentLies
  <2>2. CASE a > i + 2
    <3>1. i + 1 \in i + 1 .. a - 1 /\ i + 2 \in i + 1 .. a - 1
      BY <1>1, <1>5, <2>2
    <3>2. i + 2 \in 2 .. Len(line) /\ (i + 2) - 1 = i + 1
      BY <1>1, <1>5, <2>2
    <3>3. line[i + 2] \notin Whitespace \/ line[i + 1] \notin Whitespace
      BY <3>2 DEF Normal, Spaced
    <3> QED  BY <2>1, <3>1, <3>3
  <2>3. CASE a = i + 2
    <3>1. i + 1 \in i + 1 .. a - 1 /\ i + 1 \in 1 .. Len(line)
      BY <1>1, <1>5, <2>3
    <3>2. line[i + 1] \in Whitespace
      BY <2>1, <3>1
    <3> QED  BY <2>3, <3>1, <3>2 DEF Normal
  <2> QED  BY <1>1, <1>5, <2>2, <2>3
<1>12. ASSUME seg # first_word(seg)  PROVE b > a
  BY <1>5, <1>6, <1>12
<1> QED  BY <1>4, <1>7, <1>10, <1>11, <1>12 DEF seg

\* The checks of validate_show_command, which split the line at its bars, let
\* through only what a reading of the policy from left to right allows.
LEMMA PermittedIsReadOnly ==
    ASSUME NEW line, Normal(line), permitted(line)
    PROVE  ReadOnlyLine(line)
<1>1. line \in Seq(Piece) /\ Len(line) \in Nat /\ Len(line) > 0 /\ DOMAIN line = 1 .. Len(line)
  BY LenProperties DEF Normal
<1>2. PICK a, b \in 1 .. Len(line) :
                  /\ SegmentLies(line, 0, a, b)
                  /\ WordIn(line, a, READ_VERBS)
                  /\ a = 0 + 1 \/ (a = 0 + 2 /\ line[0 + 1] = Blank)
                  /\ b > a /\ line[a + 1] = Blank
  <2>1. /\ StartsWith(segment(line, 0), READ_VERBS)
        /\ segment(line, 0) # first_word(segment(line, 0))
    BY DEF permitted
  <2>2. 0 \in 0 .. Len(line)
    BY <1>1
  <2> QED  BY <2>1, <2>2, SegmentStarts
<1>3. a = 1
  <2>1. line[1] # Blank
    BY BlanksArePieces DEF Normal
  <2> QED  BY <1>2, <2>1
<1>4. b \in 3 .. Len(line)
  <2>1. b \in 1 .. Len(line) /\ b > 1 /\ line[b] \notin Whitespace
    BY <1>2, <1>3 DEF SegmentLies
  <2>2. b # 2
    BY <1>2, <1>3, <2>1, BlanksArePieces
  <2> QED  BY <1>1, <2>1, <2>2
<1>5. /\ WordIn(line, 1, READ_VERBS)
      /\ Len(line) >= 3 /\ line[2] = Blank /\ line[3] # Bar
  <2>1. 3 \in a .. b
    BY <1>1, <1>3, <1>4
  <2>2. line[3] # Bar
    BY <1>2, <2>1 DEF SegmentLies
  <2> QED  BY <1>1, <1>2, <1>3, <1>4, <2>2
<1>6. \A i \in DOMAIN line : line[i] \notin SHELL_METACHARS
  <2>1. ToSet(line) \cap SHELL_METACHARS = {}
    BY DEF permitted
  <2> QED  BY <2>1 DEF ToSet
<1>7. ASSUME NEW i \in 2 .. Len(line), line[i] = Blank  PROVE line[i - 1] # Blank
  BY <1>7, BlanksArePieces DEF Normal, Spaced
<1>8. Last(line) # Blank
  BY BlanksArePieces DEF Normal, Last
<1>9. ASSUME NEW i \in Bars(line)
      PROVE  \/ WordIn(line, i + 1, FILTER_KEYWORDS)
             \/ line[i + 1] = Blank /\ WordIn(line, i + 2, FILTER_KEYWORDS)
  <2>1. StartsWith(segment(line, i), FILTER_KEYWORDS) /\ i \in 0 .. Len(line)
    BY <1>1 DEF permitted, Bars
  <2>2. PICK x : /\ WordIn(line, x, FILTER_KEYWORDS)
                 /\ x = i + 1 \/ (x = i + 2 /\ line[i + 1] = Blank)
    BY <2>1, SegmentStarts
  <2> QED  BY <2>2
<1> QED  BY <1>5, <1>6, <1>7, <1>8, <1>9 DEF ReadOnlyLine, Blank

\* Whatever command is asked for, the line a source is handed is one read verb
\* with a subject, and nothing but read filters behind its pipes
\* (allowlist.py:8-16).
THEOREM OnlyReadsPass ==
    \A command \in Seq(Piece) :
        \/ validate_show_command(command) = Rejected
        \/ ReadOnlyLine(validate_show_command(command))
<1> SUFFICES ASSUME NEW command \in Seq(Piece), permitted(normalize(command))
             PROVE  ReadOnlyLine(normalize(command))
  BY DEF validate_show_command
<1>1. normalize(command) # <<>>
  BY DEF permitted
<1> QED  BY <1>1, NormalizeIsNormal, PermittedIsReadOnly

\* A permitted line in normal form is handed on as it stands, and so it is
\* however the whitespace in it and around it is written.
LEMMA NormalIsKept ==
    ASSUME NEW line, Normal(line), permitted(line)
    PROVE  /\ validate_show_command(line) = line
           /\ validate_show_command(Respaced(line)) = line
<1>1. normalize(line) = line /\ normalize(Respaced(line)) = line
  BY NormalizeOfNormal, NormalizeOfRespaced
<1> QED  BY <1>1 DEF validate_show_command

\* What was checked is what runs (allowlist.py:74-79): checking a line again
\* that was let through changes nothing, and other whitespace between and
\* around its words gives the same line.
THEOREM CheckingIsStable ==
    \A command \in Seq(Piece) :
        LET line == validate_show_command(command)
        IN  line # Rejected => /\ validate_show_command(line) = line
                               /\ validate_show_command(Respaced(line)) = line
<1> SUFFICES ASSUME NEW command \in Seq(Piece), validate_show_command(command) # Rejected
             PROVE  /\ validate_show_command(validate_show_command(command)) = validate_show_command(command)
                    /\ validate_show_command(Respaced(validate_show_command(command))) = validate_show_command(command)
  OBVIOUS
<1>1. validate_show_command(command) = normalize(command) /\ permitted(normalize(command))
  BY DEF validate_show_command
<1>2. Normal(normalize(command))
  BY <1>1, NormalizeIsNormal DEF permitted
<1> QED  BY <1>1, <1>2, NormalIsKept

\* The pipe is neither whitespace nor a word of either list, and has no
\* lower case.
LEMMA BarIsNoWord ==
    /\ Bar \notin Whitespace
    /\ Bar \notin READ_VERBS /\ Bar \notin FILTER_KEYWORDS
    /\ lowered(Bar) = Bar
<1>1. Bar \notin Whitespace
  BY DEF Bar, Whitespace
<1>2. Bar \notin READ_VERBS /\ Bar \notin FILTER_KEYWORDS
  BY DEF Bar, READ_VERBS, FILTER_KEYWORDS
<1>3. Bar \notin DOMAIN Capitals
  BY AllowlistAssumption DEF Bar
<1> QED  BY <1>1, <1>2, <1>3 DEF lowered

\* Neither are the whitespace pieces words of the lists, in any case.
LEMMA BlankIsNoWord ==
    \A p \in Whitespace :
        lowered(p) = p /\ p \notin READ_VERBS /\ p \notin FILTER_KEYWORDS
<1>1. \A p \in Whitespace : p \notin READ_VERBS /\ p \notin FILTER_KEYWORDS
  BY DEF Whitespace, READ_VERBS, FILTER_KEYWORDS
<1>2. \A p \in Whitespace : p \notin DOMAIN Capitals
  BY AllowlistAssumption DEF Whitespace
<1> QED  BY <1>1, <1>2 DEF lowered

\* A whole word of words stands at i + 1, or at i + 2 after a blank.
WordFollows(line, i, a, words) ==
    /\ a = i + 1 \/ (a = i + 2 /\ line[i + 1] = Blank)
    /\ WordIn(line, a, words)
    /\ line[a] \notin Whitespace
    /\ line[a] # Bar

\* The converse of SegmentStarts: such a word is the first of the segment.
LEMMA WordStarts ==
    ASSUME NEW line, Normal(line), NEW i \in 0 .. Len(line), NEW words, NEW a \in 1 .. Len(line),
           WordFollows(line, i, a, words)
    PROVE  /\ StartsWith(segment(line, i), words)
           /\ (a + 2 \in DOMAIN line /\ line[a + 1] = Blank /\ line[a + 2] # Bar)
                 => segment(line, i) # first_word(segment(line, i))
<1> DEFINE seg == segment(line, i)
<1>1. line \in Seq(Piece) /\ Len(line) \in Nat /\ i \in Nat /\ DOMAIN line = 1 .. Len(line)
  BY LenProperties DEF Normal
<1>2. /\ a \in 1 .. Len(line) /\ a \in i + 1 .. Len(line)
      /\ lowered(line[a]) \in words
      /\ a = Len(line) \/ line[a + 1] = Blank \/ line[a + 1] = Bar
      /\ a = i + 1 \/ (a = i + 2 /\ line[i + 1] = Blank)
      /\ line[a] \notin Whitespace /\ line[a] # Bar
  <2>1. a \in 1 .. Len(line) /\ lower(line)[a] \in words /\ WordEnds(line, a)
    BY <1>1 DEF WordIn, WordFollows
  <2>2. lower(line)[a] = lowered(line[a])
    BY <1>1, <2>1 DEF lower, lowered
  <2>3. a = Len(line) \/ line[a + 1] = Blank \/ line[a + 1] = Bar
    BY <2>1 DEF WordEnds, Blank
  <2>4. a = i + 1 \/ (a = i + 2 /\ line[i + 1] = Blank)
    BY DEF WordFollows
  <2>5. a \in i + 1 .. Len(line)
    BY <1>1, <2>4
  <2> QED  BY <1>1, <2>1, <2>2, <2>3, <2>4, <2>5 DEF WordFollows
<1>3. PICK x, b \in 1 .. Len(line) : SegmentLies(line, i, x, b)
  <2>1. ASSUME NEW k \in i + 1 .. a  PROVE line[k] # Bar
    <3>1. k = i + 1 \/ k = i + 2
      <4>1. a = i + 1 \/ a = i + 2
        BY <1>2
      <4> QED  BY <1>1, <4>1
    <3>2. k = a \/ line[k] = Blank
      <4>1. k = a \/ (k = i + 1 /\ a = i + 2)
        <5>1. k <= a
          BY <1>1
        <5>2. a = i + 1 \/ a = i + 2
          BY <1>2
        <5> QED  BY <1>1, <3>1, <5>1, <5>2
      <4>2. a # i + 2 \/ line[i + 1] = Blank
        <5>1. a = i + 2 => a # i + 1
          BY <1>1
        <5> QED  BY <1>2, <5>1
      <4> QED  BY <4>1, <4>2
    <3> QED  BY <1>2, <3>2, BarIsNoWord, BlanksArePieces
  <2> QED  BY <1>1, <1>2, <2>1, SegmentIs
<1>4. /\ i \in Nat /\ a \in Nat /\ x \in Nat /\ b \in Nat /\ Len(line) \in Nat
      /\ i + 1 <= x /\ x <= b /\ b <= Len(line)
      /\ i + 1 <= a /\ a <= i + 2
  <2>1. x \in i + 1 .. Len(line) /\ b \in x .. Len(line)
    BY <1>3 DEF SegmentLies
  <2>2. a = i + 1 \/ a = i + 2
    BY <1>2
  <2> QED  BY <1>1, <2>1, <2>2
<1>5. /\ line[x] \notin Whitespace
      /\ \A j \in i + 1 .. x - 1 : line[j] \in Whitespace
      /\ \A j \in x .. b : line[j] # Bar
      /\ \A j \in b + 1 .. Len(line) :
            line[j] \notin Whitespace => \E k \in b + 1 .. j : line[k] = Bar
  BY <1>3 DEF SegmentLies
<1>6. x = a
  <2>1. ~(a < x)
    <3>1. a < x => a \in i + 1 .. x - 1
      BY <1>4
    <3> QED  BY <1>2, <1>5, <3>1
  <2>2. x # i + 1 \/ a = i + 1
    BY <1>2, <1>5, BlanksArePieces
  <2> QED  BY <1>4, <2>1, <2>2
<1>7. /\ seg \in Seq(Piece) /\ Len(seg) = b - a + 1 /\ DOMAIN seg = 1 .. b - a + 1
      /\ seg[1] = line[a]
      /\ b > a => line[a + 1] = Blank /\ seg[2] = Blank
  <2>1. /\ seg \in Seq(Piece) /\ Len(seg) = b - a + 1
        /\ \A k \in 1 .. b - a + 1 : seg[k] = line[a + k - 1]
    BY <1>3, <1>6 DEF SegmentLies
  <2> HIDE DEF seg
  <2>2. 1 \in 1 .. b - a + 1 /\ a + 1 - 1 = a
    BY <1>4, <1>6
  <2>3. seg[1] = line[a]
    BY <2>1, <2>2
  <2>4. ASSUME b > a  PROVE line[a + 1] = Blank /\ seg[2] = Blank
    <3>1. 2 \in 1 .. b - a + 1 /\ a + 2 - 1 = a + 1 /\ a + 1 \in a .. b /\ a # Len(line)
      BY <1>4, <1>6, <2>4
    <3>2. line[a + 1] = Blank
      BY <1>2, <1>5, <1>6, <3>1
    <3>3. seg[2] = line[a + 1]
      BY <2>1, <3>1
    <3> QED  BY <3>2, <3>3
  <2> QED  BY <2>1, <2>3, <2>4, LenProperties
<1> HIDE DEF seg
<1> DEFINE ends == {j \in DOMAIN seg : seg[j] = Blank} \cup {Len(seg) + 1}
           end  == Min(ends)
<1>8. end = 2
  <2>1. ends \subseteq 1 .. b - a + 2 /\ b - a + 2 \in Nat /\ 2 \in ends /\ 1 \notin ends
    <3>1. seg[1] # Blank
      BY <1>2, <1>7, BlanksArePieces
    <3>2. Len(seg) + 1 = b - a + 2 /\ b - a + 2 # 1
      BY <1>4, <1>6, <1>7
    <3>3. 2 \in ends
      <4>1. b > a \/ Len(seg) + 1 = 2
        BY <1>4, <1>6, <3>2
      <4>2. b > a => 2 \in 1 .. b - a + 1
        BY <1>4
      <4> QED  BY <1>7, <4>1, <4>2
    <3>4. ends \subseteq 1 .. b - a + 2
      BY <1>4, <1>6, <1>7, <3>2
    <3> QED  BY <1>4, <1>6, <3>1, <3>2, <3>3, <3>4
  <2> HIDE DEF ends
  <2>2. end \in ends /\ \A j \in ends : end <= j
    BY <2>1, Ends
  <2> HIDE DEF end
  <2> QED  BY <2>1, <2>2
<1>9. first_word(seg) = SubSeq(seg, 1, 1)
  <2>1. first_word(seg) = SubSeq(seg, 1, end - 1)
    BY DEF first_word, Blank
  <2> HIDE DEF end
  <2> QED  BY <1>8, <2>1
<1> HIDE DEF end
<1>10. /\ first_word(seg) \in Seq(Piece) /\ Len(first_word(seg)) = 1
       /\ first_word(seg)[1] = line[a]
  <2>1. \A j \in 1 .. 1 : seg[j] \in Piece
    <3>1. 1 \in 1 .. Len(seg)
      BY <1>4, <1>6, <1>7
    <3> QED  BY <1>7, <3>1, ElementOfSeq
  <2>2. /\ SubSeq(seg, 1, 1) \in Seq(Piece)
        /\ Len(SubSeq(seg, 1, 1)) = IF 1 <= 1 THEN 1 - 1 + 1 ELSE 0
        /\ \A j \in 1 .. 1 - 1 + 1 : SubSeq(seg, 1, 1)[j] = seg[1 + j - 1]
    BY <2>1, SubSeqProperties
  <2> QED  BY <1>7, <1>9, <2>2
<1>11. lower(first_word(seg)) = <<lowered(line[a])>>
  <2> DEFINE word == first_word(seg)
  <2> HIDE DEF word
  <2>1. DOMAIN word = {1} /\ word[1] = line[a]
    BY <1>10, LenProperties DEF word
  <2>2. lower(word) = [j \in {1} |-> lowered(word[j])]
    BY <2>1 DEF lower, lowered
  <2>3. lower(word) = <<lowered(line[a])>>
    BY <2>1, <2>2
  <2> QED  BY <2>3 DEF word
<1>12. ASSUME a + 2 \in DOMAIN line, line[a + 1] = Blank, line[a + 2] # Bar
       PROVE  seg # first_word(seg)
  <2>1. ASSUME b = a  PROVE FALSE
    <3>1. a + 2 \in b + 1 .. Len(line) /\ a + 2 \in 2 .. Len(line) /\ (a + 2) - 1 = a + 1
      BY <1>1, <1>2, <1>4, <1>12, <2>1
    <3>2. line[a + 2] \notin Whitespace
      BY <1>12, <3>1, BlanksArePieces DEF Normal, Spaced
    <3>3. PICK k \in b + 1 .. a + 2 : line[k] = Bar
      BY <1>5, <3>1, <3>2
    <3>4. k = a + 1 \/ k = a + 2
      BY <1>4, <2>1
    <3> QED  BY <1>12, <3>3, <3>4, BarIsNoWord, BlanksArePieces
  <2>2. Len(seg) # 1
    BY <1>4, <1>6, <1>7, <2>1
  <2> QED  BY <1>10, <2>2
<1> QED  BY <1>2, <1>11, <1>12 DEF StartsWith, seg

\* What the policy allows is permitted, unless it is too long or denied.
LEMMA ReadOnlyIsPermitted ==
    ASSUME NEW line, Normal(line), ReadOnlyLine(line), Len(line) <= MaxCommandLen,
           \A entry \in DENY_SUBSTRINGS : ~Occurs(entry, lower(line))
    PROVE  permitted(line)
<1>1. line \in Seq(Piece) /\ Len(line) \in Nat /\ Len(line) > 0 /\ DOMAIN line = 1 .. Len(line)
  BY LenProperties DEF Normal
<1>2. ToSet(line) \cap SHELL_METACHARS = {}
  BY DEF ReadOnlyLine, ToSet
<1>3. ASSUME NEW i \in 0 .. Len(line), NEW a, NEW words \in {READ_VERBS, FILTER_KEYWORDS},
             a = i + 1 \/ (a = i + 2 /\ line[i + 1] = Blank), WordIn(line, a, words)
      PROVE  a \in 1 .. Len(line) /\ WordFollows(line, i, a, words)
  <2>1. a \in 1 .. Len(line) /\ lower(line)[a] \in words
    BY <1>1, <1>3 DEF WordIn
  <2>2. lowered(line[a]) \in words
    BY <1>1, <2>1 DEF lower, lowered
  <2>3. line[a] \notin Whitespace /\ line[a] # Bar
    BY <1>3, <2>2, BarIsNoWord, BlankIsNoWord
  <2> QED  BY <1>3, <2>1, <2>3 DEF WordFollows
<1>4. StartsWith(segment(line, 0), READ_VERBS) /\ segment(line, 0) # first_word(segment(line, 0))
  <2>1. 0 \in 0 .. Len(line) /\ 1 = 0 + 1
    BY <1>1
  <2>2. WordIn(line, 1, READ_VERBS) /\ Len(line) >= 3 /\ line[2] = Blank /\ line[3] # Bar
    BY DEF ReadOnlyLine, Blank
  <2>3. 1 \in 1 .. Len(line) /\ WordFollows(line, 0, 1, READ_VERBS)
    BY <1>3, <2>1, <2>2
  <2>4. 1 + 2 \in DOMAIN line /\ line[1 + 1] = Blank /\ line[1 + 2] # Bar
    BY <1>1, <2>2
  <2> QED  BY <2>1, <2>3, <2>4, WordStarts
<1>5. ASSUME NEW b \in Bars(line)  PROVE StartsWith(segment(line, b), FILTER_KEYWORDS)
  <2>1. b \in 0 .. Len(line)
    BY <1>1 DEF Bars
  <2>2. \/ WordIn(line, b + 1, FILTER_KEYWORDS)
        \/ line[b + 1] = Blank /\ WordIn(line, b + 2, FILTER_KEYWORDS)
    BY DEF ReadOnlyLine, Blank
  <2>3. PICK a : /\ a = b + 1 \/ (a = b + 2 /\ line[b + 1] = Blank)
                 /\ WordIn(line, a, FILTER_KEYWORDS)
    BY <2>2
  <2>4. a \in 1 .. Len(line) /\ WordFollows(line, b, a, FILTER_KEYWORDS)
    BY <1>3, <2>1, <2>3
  <2> QED  BY <2>1, <2>4, WordStarts
<1>6. line # <<>>
  BY <1>1, EmptySeq
<1> QED  BY <1>2, <1>4, <1>5, <1>6 DEF permitted

\* The check is the policy, no laxer and no stricter: a command is let through
\* just if what it is normalised to is short enough, has nothing that is
\* denied, and reads from left to right as one read verb with a subject and
\* read filters (allowlist.py:8-16 against 74-119).
THEOREM CheckIsThePolicy ==
    \A command \in Seq(Piece) :
        LET line == normalize(command)
        IN  permitted(line) <=>
                /\ line # <<>>
                /\ Len(line) <= MaxCommandLen
                /\ \A entry \in DENY_SUBSTRINGS : ~Occurs(entry, lower(line))
                /\ ReadOnlyLine(line)
<1> SUFFICES ASSUME NEW command \in Seq(Piece), normalize(command) # <<>>
             PROVE  permitted(normalize(command)) <=>
                        /\ Len(normalize(command)) <= MaxCommandLen
                        /\ \A entry \in DENY_SUBSTRINGS : ~Occurs(entry, lower(normalize(command)))
                        /\ ReadOnlyLine(normalize(command))
  BY DEF permitted
<1>1. Normal(normalize(command))
  BY NormalizeIsNormal
<1>2. ASSUME permitted(normalize(command))
      PROVE  /\ Len(normalize(command)) <= MaxCommandLen
             /\ \A entry \in DENY_SUBSTRINGS : ~Occurs(entry, lower(normalize(command)))
             /\ ReadOnlyLine(normalize(command))
  BY <1>1, <1>2, PermittedIsReadOnly DEF permitted
<1> QED  BY <1>1, <1>2, ReadOnlyIsPermitted
=============================================================================
