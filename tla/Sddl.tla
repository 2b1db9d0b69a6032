---------------------------------- MODULE Sddl ----------------------------------
(***************************************************************************)
(* Which Windows access-control lists count as private: the classifiers of *)
(* src/path_security.rs over the text of a DACL, split at its brackets.    *)
(* An entry's rights are a set of two-letter tokens, a hexadecimal mask as *)
(* the set of its bits, or neither.  Letter case and the order of tokens   *)
(* are left out, and the object identifiers, which files do not have.      *)
(* A trustee is a text: an alias of two letters, or a SID.                 *)
(***************************************************************************)
EXTENDS Integers, Sequences

CONSTANTS
  Administrator,    \* the SID of the local administrator's account
  Guest             \* the SID of the local guest's account

Tokens(S) == [form |-> "tokens", of |-> S]

Mask(S) == [form |-> "hex", of |-> S]

Unreadable == [form |-> "other", of |-> {}]

(* An entry that parse_sddl_ace gives up on has the type "malformed". *)
Ace(type, flags, rights, trustee) ==
  [type |-> type, flags |-> flags, rights |-> rights, trustee |-> trustee]

LocalSystem == "S-1-5-18"

LocalService == "S-1-5-19"

NetworkService == "S-1-5-20"

Administrators == "S-1-5-32-544"

Everyone == "S-1-1-0"

AuthenticatedUsers == "S-1-5-11"

BuiltinUsers == "S-1-5-32-545"

-----------------------------------------------------------------------------
(* How Windows writes a SID in a list: by its alias, where it has one. *)
AliasText == {"SY", "LS", "NS", "LA", "LG", "BA", "WD", "AU", "BU"}

Denotes(t) ==
  CASE t = "SY" -> LocalSystem
    [] t = "LS" -> LocalService
    [] t = "NS" -> NetworkService
    [] t = "LA" -> Administrator
    [] t = "LG" -> Guest
    [] t = "BA" -> Administrators
    [] t = "WD" -> Everyone
    [] t = "AU" -> AuthenticatedUsers
    [] t = "BU" -> BuiltinUsers
    [] OTHER -> t

Rendered(sid) ==
  IF \E t \in AliasText : Denotes(t) = sid
  THEN CHOOSE t \in AliasText : Denotes(t) = sid
  ELSE sid

BroadSids == {Everyone, AuthenticatedUsers, BuiltinUsers}

WellKnown == BroadSids \cup {LocalSystem, LocalService, NetworkService, Administrators}

(* A SID that a process may run as. *)
UserSid(sid) == sid \notin AliasText /\ sid \notin BroadSids

ASSUME SidAssumption ==
  /\ Administrator # Guest
  /\ {Administrator, Guest} \cap (AliasText \cup WellKnown) = {}

-----------------------------------------------------------------------------
UserPrivate(trustee) ==
  [protected |-> TRUE, aces |-> <<Ace("A", {}, Tokens({"FA"}), trustee)>>]

(* The list that user_private_sddl stands for, as Windows writes it again. *)
Canonical(sid) == UserPrivate(Rendered(sid))

FileAll == (0 .. 8) \cup (16 .. 20)             \* 0x1f01ff

RightsAreFullControl(r) ==
  r \in {Tokens({"FA"}), Tokens({"GA"}), Mask(FileAll), Mask({28})}

TrusteeMatchesSid(t, sid) == t = sid \/ (t = "SY" /\ sid = LocalSystem)

TrusteeIsPrivilegedController(t) == t \in {"SY", "BA", "LA"}

TrusteeIsBroad(t) == t \in {"WD", "AU", "BU", "S-1-1-0", "S-1-5-11", "S-1-5-32-545"}

ModifyMask == {1, 2, 4, 6, 8, 16, 18, 19, 28, 30}

ReadTokens == {"FR", "FX", "GR", "GX", "RC", "LC", "RP", "LO"}

(* Mutant: GENERIC_WRITE is missing from the mask. *)
RightsCanModifySpecific(r) ==
  CASE r.form = "hex" -> r.of \cap (ModifyMask \ {30}) # {}
    [] r.form = "tokens" -> ~(r.of \subseteq ReadTokens)
    [] OTHER -> TRUE

(* What cannot be read may modify. *)
RightsCanModify(r) ==
  CASE r.form = "hex" -> r.of \cap ModifyMask # {}
    [] r.form = "tokens" -> ~(r.of \subseteq ReadTokens)
    [] OTHER -> TRUE

TrustedControl(a, sid) ==
  /\ a.type = "A"
  /\ TrusteeMatchesSid(a.trustee, sid) \/ TrusteeIsPrivilegedController(a.trustee)
  /\ RightsAreFullControl(a.rights)

(* An entry that does not end the loop of sddl_is_user_private. *)
Tolerable(a) ==
  \/ a.type = "D"
  \/ a.type = "A" /\ ~(TrusteeIsBroad(a.trustee) /\ RightsCanModify(a.rights))

SddlIsUserPrivate(aces, sid) ==
  /\ \A k \in DOMAIN aces : Tolerable(aces[k])
  /\ \E k \in DOMAIN aces : TrustedControl(aces[k], sid)

GrantsFullControlToSid(aces, sid) ==
  \E k \in DOMAIN aces :
     /\ aces[k].type = "A"
     /\ TrusteeMatchesSid(aces[k].trustee, sid)
     /\ RightsAreFullControl(aces[k].rights)

HasBroadAllowAce(aces) ==
  \E k \in DOMAIN aces : aces[k].type = "A" /\ TrusteeIsBroad(aces[k].trustee)

SddlIsProtectedUserPrivate(acl, sid) ==
  /\ acl.protected
  /\ SddlIsUserPrivate(acl.aces, sid)
  /\ GrantsFullControlToSid(acl.aces, sid)
  /\ ~HasBroadAllowAce(acl.aces)

(* Entry by entry and in full. *)
HasSameDaclAces(actual, expected) ==
  actual # <<>> /\ expected # <<>> /\ actual = expected

-----------------------------------------------------------------------------
(***************************************************************************)
(* What the lists mean to Windows, for comparison.  Every token of the     *)
(* language stands for bits of the access mask, and a generic bit for the  *)
(* rights that files map it to.  To modify is to use a right that writing  *)
(* needs and reading does not, or to delete, or to change list or owner.   *)
(* Deny entries only take away; an entry of another type, and rights that  *)
(* cannot be read, may allow anything.                                     *)
(***************************************************************************)
FileRead == {0, 3, 7, 17, 20}                   \* 0x120089

FileWrite == {1, 2, 4, 8, 17, 20}               \* 0x120116

FileExecute == {5, 7, 17, 20}                   \* 0x1200a0

Meaning ==
  [FA |-> FileAll, FR |-> FileRead, FW |-> FileWrite, FX |-> FileExecute,
   GA |-> {28}, GX |-> {29}, GW |-> {30}, GR |-> {31},
   CC |-> {0}, DC |-> {1}, LC |-> {2}, SW |-> {3}, RP |-> {4}, WP |-> {5},
   DT |-> {6}, LO |-> {7}, CR |-> {8},
   SD |-> {16}, RC |-> {17}, WD |-> {18}, WO |-> {19},
   KA |-> (0 .. 5) \cup (16 .. 19), KR |-> {0, 3, 4, 17}, KW |-> {1, 2, 17},
   KX |-> {0, 3, 4, 17}]

Rights ==
  [form: {"tokens"}, of: SUBSET DOMAIN Meaning] \cup [form: {"hex"}, of: SUBSET (0 .. 31)]
    \cup {Unreadable}

Bits(r) == IF r.form = "tokens" THEN UNION {Meaning[token] : token \in r.of} ELSE r.of

Mapped(bit) ==
  CASE bit = 28 -> FileAll
    [] bit = 29 -> FileExecute
    [] bit = 30 -> FileWrite
    [] bit = 31 -> FileRead
    [] OTHER -> {bit}

Access(r) == UNION {Mapped(bit) : bit \in Bits(r)}

Modifying == (FileWrite \ FileRead) \cup {6, 16, 18, 19}

Modifies(r) == r = Unreadable \/ Access(r) \cap Modifying # {}

(* Append data (or create a directory) and write extended attributes, given
   by the tokens LC and RP. *)
Overlooked(r) == r.form = "tokens" /\ Access(r) \cap Modifying \subseteq {2, 4}

LetsBroadModify(a) ==
  \/ a.type \notin {"A", "D"}
  \/ a.type = "A" /\ Denotes(a.trustee) \in BroadSids /\ Modifies(a.rights)

Controllers(sid) == {sid, LocalSystem, Administrators, Administrator}

Controls(aces, sids) ==
  \E k \in DOMAIN aces :
     /\ aces[k].type = "A" /\ Denotes(aces[k].trustee) \in sids
     /\ aces[k].rights # Unreadable /\ FileAll \subseteq Access(aces[k].rights)

MeansPrivate(aces, sid) ==
  /\ \A k \in DOMAIN aces : ~LetsBroadModify(aces[k])
  /\ Controls(aces, Controllers(sid))

(* Nothing is allowed to anybody but the one who has full control. *)
MeansExclusive(acl, sid) ==
  /\ acl.protected
  /\ \A k \in DOMAIN acl.aces :
        \/ acl.aces[k].type = "D"
        \/ acl.aces[k].type = "A" /\ Denotes(acl.aces[k].trustee) = sid
  /\ Controls(acl.aces, {sid})

=============================================================================
