------------------------------ MODULE Writelist ------------------------------
(***************************************************************************)
(* The write safety layer (writelist.py): which change requests are let    *)
(* through, what their plan says about the way back, and how the text read *)
(* back after a change is judged.  The one change type of the code sets    *)
(* the IPsec (phase 2) lifetime of one crypto profile of one device.       *)
(*                                                                         *)
(* A device's "show running-config | section crypto ipsec" text is the     *)
(* function from its crypto profiles to what each profile says of its      *)
(* lifetime.  Profiles are numbered in the order the text lists them,      *)
(* which is the order a regular-expression search meets them in.  What     *)
(* counts for a search is a place where a lifetime line may stand: a       *)
(* device's global "crypto ipsec security-association lifetime" line, also *)
(* in that section, is one more such place, that no request names.  So     *)
(* NumProfiles = 1 means one lifetime line.                                *)
(***************************************************************************)
EXTENDS Integers

CONSTANTS
    Device,        \* the ids of the devices in the inventory
    OffInventory,  \* a target the inventory has no entry for
    BadEntry,      \* a target whose entry has a port that is no number
    Missing,       \* a required field absent from the arguments, or ill-typed
    NumProfiles,   \* how many crypto profiles a device's text may list
    UnsafeName,    \* a profile name that _SAFE_NAME does not match
    PaddedName,    \* the name of profile 1 with a line end in front of it
    LowerCase,     \* the devices that print the lifetime line in lower case
    Lifetimes,     \* the lifetimes a device may hold, in seconds
    NotANumber,    \* a 'seconds' that int() rejects with Type- or ValueError
    Infinity       \* a 'seconds' of JSON 1e999, a float that int() cannot hold

Profile == 1 .. NumProfiles

\* What the text says of a profile: not listed, listed without a lifetime
\* line, or listed with a lifetime.
Absent  == -1
Unset   == 0
Setting == Lifetimes \cup {Absent, Unset}
Text    == [Profile -> Setting]

\* The arguments of one apply_change call (tools.ApplyChangeInput).
Request == [target      : Device \cup {OffInventory, BadEntry, Missing},
            change_type : STRING,
            profile     : Profile \cup {UnsafeName, PaddedName},
            seconds     : Int \cup {NotANumber, Infinity},
            dry_run     : BOOLEAN]

ASSUME WritelistAssumption ==
    /\ NumProfiles \in Nat \ {0}
    /\ Lifetimes \subseteq Nat \ {0}
    /\ OffInventory \notin Device
    /\ BadEntry \notin Device
    /\ Missing \notin Device
    /\ UnsafeName \notin Int
    /\ PaddedName \notin Int
    /\ PaddedName # UnsafeName
    /\ LowerCase \subseteq Device
    /\ NotANumber \notin Int
    /\ Infinity \notin Int
    /\ NotANumber # Infinity
-----------------------------------------------------------------------------
CHANGE_TYPES == {"ipsec_phase2_lifetime"}

MinSeconds == 120
MaxSeconds == 86400

\* Mutant: every profile is taken to have a lifetime.
lifetime_of_first(text) == text[1]

\* The lifetime a search of the whole text finds: the one of the first
\* profile that has one, whichever profile the request names.
WithLifetime(text) == {p \in Profile : text[p] \in Lifetimes}
lifetime_match(text) ==
    IF WithLifetime(text) = {}
    THEN Unset
    ELSE text[CHOOSE p \in WithLifetime(text) :
                \A q \in WithLifetime(text) : p <= q]

\* The plan's way back, built from the text read before the change.  Its
\* request names the one change type, the profile and the seconds; the input
\* model finds no target in it, and takes it for a dry run.
rollback_known(text) == lifetime_match(text) # Unset
rollback_request(req, text) ==
    [req EXCEPT !.target = Missing, !.seconds = lifetime_match(text), !.dry_run = TRUE]

\* What a host has to add before the bridge can carry such a request out.
Addressed(request, target) == [request EXCEPT !.target = target, !.dry_run = FALSE]

\* Mutant: the range has no lower end.
NotTooLong(req) == req.seconds \in Int /\ req.seconds <= MaxSeconds

\* Blanks around a name, or a line end after it, change nothing anywhere.  A line
\* end in front of it is stripped for the check, and only for the check: the
\* commands are built from the name as it came.
profile_name(name) == IF name = PaddedName THEN 1 ELSE name

\* The layers a request passes, in the order the handler applies them: the
\* input model, the inventory, the change types, the parameters.
WellFormed(req)  == req.target # Missing
InInventory(req) == req.target \in Device
KnownType(req)   == req.change_type \in CHANGE_TYPES
SafeProfile(req) == profile_name(req.profile) \in Profile
Convertible(req) == req.seconds \in Int
InRange(req)     == req.seconds \in MinSeconds .. MaxSeconds

validate_change_request(req) ==
    /\ KnownType(req)
    /\ SafeProfile(req)
    /\ Convertible(req)
    /\ InRange(req)

Admitted(req) == WellFormed(req) /\ InInventory(req) /\ validate_change_request(req)

\* int(inf) raises OverflowError, which neither the parameter check nor the
\* handler catches, and int() of an entry's port ValueError, which only the
\* read tools catch: neither admitted nor answered as an error.
Raises(req) ==
    /\ WellFormed(req)
    /\ \/ req.target = BadEntry
       \/ InInventory(req) /\ KnownType(req) /\ SafeProfile(req) /\ req.seconds = Infinity

\* The text the change is judged on: the read-backs of the plan's validate
\* collect, or the after-state where they say nothing at all.
reads_text(reads, after) == IF \A p \in Profile : reads[p] = Absent THEN after ELSE reads

\* Mutants: the read-back is judged on its having any lifetime at all, or on
\* its first lifetime only.
some_lifetime(req, text) == WithLifetime(text) # {}
first_lifetime(req, text) == lifetime_match(text) = req.seconds

\* The intended value is anywhere in the text, under whichever profile; unlike
\* the search for a lifetime, this one does not ignore case.
check_reflected(req, text) ==
    req.target \in LowerCase /\ \E p \in Profile : text[p] = req.seconds
=============================================================================
