--------------------------- MODULE WritelistProofs ---------------------------
(***************************************************************************)
(* What the writelist's operators return, for any devices, profiles and    *)
(* lifetimes.                                                              *)
(***************************************************************************)
EXTENDS Writelist, NaturalSets

\* Of a text that has a lifetime at all, the search finds the lifetime of the
\* first profile that has one (re.search scans from the start).
LEMMA LifetimeMatchIsFirst ==
    ASSUME NEW text \in Text, WithLifetime(text) # {}
    PROVE  \E p \in WithLifetime(text) :
              /\ \A q \in WithLifetime(text) : p <= q
              /\ lifetime_match(text) = text[p]
<1>1. \E p \in WithLifetime(text) : \A q \in WithLifetime(text) : p <= q
  <2>1. WithLifetime(text) \subseteq Nat
    BY WritelistAssumption DEF WithLifetime, Profile
  <2> QED  BY <2>1, SmallestExists
<1> QED  BY <1>1 DEF lifetime_match

\* The search returns a lifetime, or nothing.
LEMMA LifetimeMatchType ==
    ASSUME NEW text \in Text
    PROVE  lifetime_match(text) \in Lifetimes \cup {Unset}
<1>1. CASE WithLifetime(text) = {}
  BY <1>1 DEF lifetime_match
<1>2. CASE WithLifetime(text) # {}
  BY <1>2, LifetimeMatchIsFirst DEF WithLifetime
<1> QED  BY <1>1, <1>2

\* On a text with one profile the search finds that profile's lifetime.
LEMMA LifetimeMatchOfOnlyProfile ==
    ASSUME NumProfiles = 1, NEW text \in Text, NEW p \in Profile
    PROVE  lifetime_match(text) = IF text[p] \in Lifetimes THEN text[p] ELSE Unset
<1>1. Profile = {1} /\ p = 1
  BY DEF Profile
<1>2. CASE text[p] \in Lifetimes
  <2>1. WithLifetime(text) # {}
    BY <1>2 DEF WithLifetime
  <2> QED  BY <1>1, <1>2, <2>1, LifetimeMatchIsFirst DEF WithLifetime
<1>3. CASE text[p] \notin Lifetimes
  <2>1. WithLifetime(text) = {}
    BY <1>1, <1>3 DEF WithLifetime
  <2> QED  BY <1>3, <2>1 DEF lifetime_match
<1> QED  BY <1>2, <1>3

\* Listing a profile without giving it a lifetime changes nothing the search
\* can see: the first of the two lines of a change is invisible to a plan.
LEMMA LifetimeMatchIgnoresUnset ==
    ASSUME NEW text \in Text, NEW p \in Profile, text[p] = Absent
    PROVE  lifetime_match([text EXCEPT ![p] = Unset]) = lifetime_match(text)
<1> DEFINE entered == [text EXCEPT ![p] = Unset]
<1>1. Absent \notin Lifetimes /\ Unset \notin Lifetimes
  BY WritelistAssumption DEF Absent, Unset
<1>2. \A q \in Profile : entered[q] = IF q = p THEN Unset ELSE text[q]
  BY DEF Text
<1>3. WithLifetime(entered) = WithLifetime(text)
  BY <1>1, <1>2 DEF WithLifetime
<1>4. \A q \in WithLifetime(text) : entered[q] = text[q]
  BY <1>1, <1>2 DEF WithLifetime
<1>5. CASE WithLifetime(text) = {}
  BY <1>3, <1>5 DEF lifetime_match
<1>6. CASE WithLifetime(text) # {}
  <2> DEFINE first == CHOOSE q \in WithLifetime(text) : \A r \in WithLifetime(text) : q <= r
  <2>1. first \in WithLifetime(text)
    <3>1. \E q \in WithLifetime(text) : \A r \in WithLifetime(text) : q <= r
      BY <1>6, LifetimeMatchIsFirst
    <3> QED  BY <3>1
  <2>2. lifetime_match(text) = text[first]
    BY <1>6 DEF lifetime_match
  <2>3. lifetime_match(entered) = entered[first]
    BY <1>3, <1>6 DEF lifetime_match
  <2> QED  BY <1>4, <2>1, <2>2, <2>3
<1> QED  BY <1>5, <1>6

\* Of a text whose lifetimes are all the same, it is enough to look at the
\* one the search finds.
LEMMA LifetimeMatchOfUniform ==
    ASSUME NEW text \in Text, \A p, q \in WithLifetime(text) : text[p] = text[q],
           NEW v \in Lifetimes
    PROVE  (\E p \in Profile : text[p] = v) <=> lifetime_match(text) = v
<1>1. CASE WithLifetime(text) = {}
  <2>1. lifetime_match(text) = Unset /\ Unset \notin Lifetimes
    BY <1>1, WritelistAssumption DEF lifetime_match, Unset
  <2> QED  BY <1>1, <2>1 DEF WithLifetime
<1>2. CASE WithLifetime(text) # {}
  <2>1. PICK p \in WithLifetime(text) : lifetime_match(text) = text[p]
    BY <1>2, LifetimeMatchIsFirst
  <2> QED  BY <2>1 DEF WithLifetime
<1> QED  BY <1>1, <1>2

\* A text reflects a change or it does not.
LEMMA VerdictType ==
    ASSUME NEW r, NEW text
    PROVE  check_reflected(r, text) \in BOOLEAN
BY DEF check_reflected

\* A request the gates let through names a device of the inventory and, once
\* its name is stripped, a profile, and a number of seconds within the writelist's bounds.
LEMMA AdmittedRequest ==
    ASSUME NEW r, Admitted(r)
    PROVE  /\ r.target \in Device
           /\ profile_name(r.profile) \in Profile
           /\ r.seconds \in MinSeconds .. MaxSeconds
BY DEF Admitted, InInventory, validate_change_request, SafeProfile, InRange
=============================================================================
