--------------------------- MODULE WindowsOpenProofs ---------------------------
(***************************************************************************)
(* The classifiers of access-control lists for lists of any length and     *)
(* every token of the language, compared with what the lists mean; and     *)
(* what a Private opener of Windows ends with, however many others create  *)
(* and tighten the same directory and file.                                *)
(***************************************************************************)
EXTENDS WindowsOpen, TLAPS

(***************************************************************************)
(* Trustees                                                                *)
(***************************************************************************)

(* Windows writes a SID so that it reads the same SID again. *)
LEMMA RenderedDenotes ==
  ASSUME NEW sid, UserSid(sid)
  PROVE  Denotes(Rendered(sid)) = sid
<1>1. CASE \E t \in AliasText : Denotes(t) = sid
  <2>1. Rendered(sid) = CHOOSE t \in AliasText : Denotes(t) = sid
    BY <1>1 DEF Rendered
  <2>2. QED
    BY <1>1, <2>1
<1>2. CASE ~\E t \in AliasText : Denotes(t) = sid
  <2>1. Rendered(sid) = sid
    BY <1>2 DEF Rendered
  <2>2. sid \notin AliasText
    BY DEF UserSid
  <2>3. QED
    BY <2>1, <2>2 DEF Denotes, AliasText
<1>3. QED
  BY <1>1, <1>2

(* sddl_trustee_is_broad knows the broad groups under both their names. *)
LEMMA BroadByEitherName ==
  ASSUME NEW t
  PROVE  TrusteeIsBroad(t) <=> Denotes(t) \in BroadSids
<1>1. CASE t \in AliasText
  BY <1>1, SidAssumption
  DEF AliasText, Denotes, TrusteeIsBroad, BroadSids, WellKnown, LocalSystem, LocalService,
      NetworkService, Administrators, Everyone, AuthenticatedUsers, BuiltinUsers
<1>2. CASE t \notin AliasText
  <2>1. Denotes(t) = t
    BY <1>2 DEF AliasText, Denotes
  <2>2. QED
    BY <1>2, <2>1
    DEF AliasText, TrusteeIsBroad, BroadSids, Everyone, AuthenticatedUsers, BuiltinUsers
<1>3. QED
  BY <1>1, <1>2

LEMMA TrustedDenotes ==
  ASSUME NEW sid, UserSid(sid), NEW t,
         TrusteeMatchesSid(t, sid) \/ TrusteeIsPrivilegedController(t)
  PROVE  Denotes(t) \in Controllers(sid)
<1>1. CASE t = sid
  BY <1>1 DEF UserSid, AliasText, Denotes, Controllers
<1>2. CASE t \in {"SY", "BA", "LA"}
  BY <1>2 DEF Denotes, Controllers
<1>3. QED
  BY <1>1, <1>2 DEF TrusteeMatchesSid, TrusteeIsPrivilegedController

(* Those whose own name in a list the classifier does not know: Windows
   writes LS, NS and LG for them. *)
Unrecognised == {LocalService, NetworkService, Guest}

LEMMA RecognisedName ==
  ASSUME NEW sid, UserSid(sid)
  PROVE  \/ TrusteeMatchesSid(Rendered(sid), sid)
         \/ TrusteeIsPrivilegedController(Rendered(sid))
         <=> sid \notin Unrecognised
<1>1. Denotes(Rendered(sid)) = sid
  BY RenderedDenotes
<1>2. CASE Rendered(sid) \in AliasText
  <2>1. Rendered(sid) # sid
    BY <1>2 DEF UserSid
  <2>2. sid \notin BroadSids
    BY DEF UserSid
  <2>3. CASE Rendered(sid) \in {"SY", "BA", "LA"}
    BY <1>1, <2>3, SidAssumption
    DEF Denotes, TrusteeIsPrivilegedController, Unrecognised, WellKnown, LocalSystem,
        LocalService, NetworkService, Administrators
  <2>4. CASE Rendered(sid) \in {"LS", "NS", "LG"}
    BY <1>1, <2>1, <2>4
    DEF Denotes, TrusteeMatchesSid, TrusteeIsPrivilegedController, Unrecognised
  <2>5. CASE Rendered(sid) \in {"WD", "AU", "BU"}
    BY <1>1, <2>2, <2>5 DEF Denotes, BroadSids
  <2>6. QED
    BY <1>2, <2>3, <2>4, <2>5 DEF AliasText
<1>3. CASE Rendered(sid) \notin AliasText
  <2>1. ~\E t \in AliasText : Denotes(t) = sid
    BY <1>3 DEF Rendered
  <2>2. Rendered(sid) = sid
    BY <2>1 DEF Rendered
  <2>3. sid # Denotes("LS") /\ sid # Denotes("NS") /\ sid # Denotes("LG")
    BY <2>1 DEF AliasText
  <2>4. QED
    BY <2>2, <2>3 DEF Denotes, TrusteeMatchesSid, Unrecognised
<1>4. QED
  BY <1>2, <1>3

(***************************************************************************)
(* Rights                                                                  *)
(***************************************************************************)
LEMMA MappedModifies ==
  ASSUME NEW bit \in 0 .. 31
  PROVE  Mapped(bit) \cap Modifying # {} <=> bit \in ModifyMask
<1>1. Modifying = {1, 2, 4, 6, 8, 16, 18, 19}
  BY DEF Modifying, FileWrite, FileRead
<1>2. CASE bit = 28
  <2>1. 1 \in Mapped(bit) \cap Modifying
    BY <1>1, <1>2 DEF Mapped, FileAll
  <2>2. QED
    BY <1>2, <2>1 DEF ModifyMask
<1>3. CASE bit = 30
  <2>1. 1 \in Mapped(bit) \cap Modifying
    BY <1>1, <1>3 DEF Mapped, FileWrite
  <2>2. QED
    BY <1>3, <2>1 DEF ModifyMask
<1>4. CASE bit \in {29, 31}
  BY <1>1, <1>4 DEF Mapped, FileExecute, FileRead, ModifyMask
<1>5. CASE bit \notin 28 .. 31
  <2>1. Mapped(bit) = {bit}
    BY <1>5 DEF Mapped
  <2>2. bit \in ModifyMask <=> bit \in Modifying
    BY <1>1, <1>5 DEF ModifyMask
  <2>3. QED
    BY <2>1, <2>2
<1>6. QED
  BY <1>2, <1>3, <1>4, <1>5

(* The mask of sddl_rights_can_modify is right, generic bits included. *)
LEMMA MaskIsExact ==
  ASSUME NEW r, Bits(r) \subseteq 0 .. 31
  PROVE  Access(r) \cap Modifying # {} <=> Bits(r) \cap ModifyMask # {}
<1>1. ASSUME Access(r) \cap Modifying # {} PROVE Bits(r) \cap ModifyMask # {}
  <2>1. PICK bit \in Bits(r) : Mapped(bit) \cap Modifying # {}
    BY <1>1 DEF Access
  <2>2. bit \in ModifyMask
    BY <2>1, MappedModifies
  <2>3. QED
    BY <2>2
<1>2. ASSUME Bits(r) \cap ModifyMask # {} PROVE Access(r) \cap Modifying # {}
  <2>1. PICK bit \in Bits(r) : bit \in ModifyMask
    BY <1>2
  <2>2. Mapped(bit) \cap Modifying # {}
    BY <2>1, MappedModifies
  <2>3. Mapped(bit) \subseteq Access(r)
    BY DEF Access
  <2>4. QED
    BY <2>2, <2>3
<1>3. QED
  BY <1>1, <1>2

(* The tokens that do not let their holder modify, and what the two tables
   of the code and of Windows make of each token. *)
Harmless == {"FR", "FX", "GR", "GX", "RC", "LO", "CC", "SW", "WP"}

LEMMA TokenTable ==
  ASSUME NEW token \in DOMAIN Meaning
  PROVE  /\ Meaning[token] \subseteq 0 .. 31
         /\ Meaning[token] \cap ModifyMask = {} <=> token \in Harmless
<1>1. DOMAIN Meaning = {"FA", "FR", "FW", "FX", "GA", "GX", "GW", "GR", "CC", "DC", "LC",
                        "SW", "RP", "WP", "DT", "LO", "CR", "SD", "RC", "WD", "WO", "KA",
                        "KR", "KW", "KX"}
  BY DEF Meaning
<1>2. CASE token \in {"FA", "FR", "FW", "FX", "KA", "KR", "KW", "KX"}
  BY <1>2 DEF Meaning, FileAll, FileRead, FileWrite, FileExecute, ModifyMask, Harmless
<1>3. CASE token \in {"GA", "GX", "GW", "GR", "SD", "RC", "WD", "WO"}
  BY <1>3 DEF Meaning, ModifyMask, Harmless
<1>4. CASE token \in {"CC", "DC", "LC", "SW", "RP", "WP", "DT", "LO", "CR"}
  BY <1>4 DEF Meaning, ModifyMask, Harmless
<1>5. QED
  BY <1>1, <1>2, <1>3, <1>4

LEMMA TokensModify ==
  ASSUME NEW r \in [form: {"tokens"}, of: SUBSET DOMAIN Meaning]
  PROVE  Modifies(r) <=> ~(r.of \subseteq Harmless)
<1>1. /\ r.form = "tokens" /\ r.of \subseteq DOMAIN Meaning /\ r # Unreadable
  BY DEF Unreadable
<1>2. Bits(r) = UNION {Meaning[token] : token \in r.of}
  BY <1>1 DEF Bits
<1>3. Bits(r) \subseteq 0 .. 31
  BY <1>1, <1>2, TokenTable
<1>4. Bits(r) \cap ModifyMask = {} <=> \A token \in r.of : Meaning[token] \cap ModifyMask = {}
  BY <1>2
<1>5. Bits(r) \cap ModifyMask = {} <=> r.of \subseteq Harmless
  BY <1>1, <1>4, TokenTable
<1>6. QED
  BY <1>1, <1>3, <1>5, MaskIsExact DEF Modifies

LEMMA MaskModifies ==
  ASSUME NEW r \in [form: {"hex"}, of: SUBSET (0 .. 31)]
  PROVE  Modifies(r) <=> RightsCanModify(r)
<1>1. r.form = "hex" /\ r # Unreadable /\ Bits(r) = r.of /\ Bits(r) \subseteq 0 .. 31
  BY DEF Unreadable, Bits
<1>2. RightsCanModify(r) <=> r.of \cap ModifyMask # {}
  BY <1>1 DEF RightsCanModify
<1>3. QED
  BY <1>1, <1>2, MaskIsExact DEF Modifies

(* Where sddl_rights_can_modify errs, for every token of the language and
   every mask.  A hexadecimal mask it reads exactly, and it never errs on
   what it cannot read.  Of tokens it takes for reading what modifies just
   if all are among the eight it knows and one is LC or RP; and it takes for
   modifying what does not just if one is CC, SW or WP and the others are
   harmless. *)
THEOREM WhereCanModifyErrs ==
  ASSUME NEW r \in Rights
  PROVE  /\ r.form # "tokens" => (RightsCanModify(r) <=> Modifies(r))
         /\ ~RightsCanModify(r) /\ Modifies(r)
            <=> r.form = "tokens" /\ r.of \subseteq ReadTokens /\ r.of \cap {"LC", "RP"} # {}
         /\ RightsCanModify(r) /\ ~Modifies(r)
            <=> r.form = "tokens" /\ r.of \subseteq Harmless /\ r.of \cap {"CC", "SW", "WP"} # {}
<1>1. CASE r \in [form: {"tokens"}, of: SUBSET DOMAIN Meaning]
  <2>1. r.form = "tokens"
    BY <1>1
  <2>2. RightsCanModify(r) <=> ~(r.of \subseteq ReadTokens)
    BY <2>1 DEF RightsCanModify
  <2>3. Modifies(r) <=> ~(r.of \subseteq Harmless)
    BY <1>1, TokensModify
  <2>4. /\ r.of \subseteq ReadTokens =>
             (r.of \subseteq Harmless <=> r.of \cap {"LC", "RP"} = {})
        /\ r.of \subseteq Harmless =>
             (r.of \subseteq ReadTokens <=> r.of \cap {"CC", "SW", "WP"} = {})
    BY DEF ReadTokens, Harmless
  <2>5. QED
    BY <2>1, <2>2, <2>3, <2>4
<1>2. CASE r \in [form: {"hex"}, of: SUBSET (0 .. 31)]
  <2>1. r.form = "hex"
    BY <1>2
  <2>2. QED
    BY <1>2, <2>1, MaskModifies
<1>3. CASE r = Unreadable
  BY <1>3 DEF RightsCanModify, Modifies, Unreadable
<1>4. QED
  BY <1>1, <1>2, <1>3 DEF Rights

(* What is overlooked is no more than to append and to write attributes. *)
LEMMA OverlookedIsLittle ==
  ASSUME NEW r \in Rights, ~RightsCanModify(r), Modifies(r)
  PROVE  Overlooked(r)
<1>1. r.form = "tokens" /\ r.of \subseteq ReadTokens
  BY WhereCanModifyErrs
<1>2. Bits(r) = UNION {Meaning[token] : token \in r.of}
  BY <1>1 DEF Bits
<1>3. \A token \in ReadTokens : Meaning[token] \subseteq {0, 2, 3, 4, 5, 7, 17, 20, 29, 31}
  BY DEF ReadTokens, Meaning, FileRead, FileExecute
<1>4. Bits(r) \subseteq {0, 2, 3, 4, 5, 7, 17, 20, 29, 31}
  BY <1>1, <1>2, <1>3
<1>5. ASSUME NEW bit \in {0, 2, 3, 4, 5, 7, 17, 20, 29, 31}
      PROVE  Mapped(bit) \subseteq {0, 2, 3, 4, 5, 7, 17, 20}
  BY DEF Mapped, FileRead, FileExecute
<1>6. Access(r) \subseteq {0, 2, 3, 4, 5, 7, 17, 20}
  BY <1>4, <1>5 DEF Access
<1>7. Modifying = {1, 2, 4, 6, 8, 16, 18, 19}
  BY DEF Modifying, FileWrite, FileRead
<1>8. QED
  BY <1>1, <1>6, <1>7 DEF Overlooked

LEMMA FullControlIsAll ==
  ASSUME NEW r, RightsAreFullControl(r)
  PROVE  r # Unreadable /\ FileAll \subseteq Access(r)
<1>1. r # Unreadable
  BY DEF RightsAreFullControl, Tokens, Mask, Unreadable
<1>2. CASE r \in {Tokens({"GA"}), Mask({28})}
  <2>1. Meaning["GA"] = {28}
    BY DEF Meaning
  <2>2. Bits(r) = {28}
    BY <1>2, <2>1 DEF Bits, Tokens, Mask
  <2>3. Mapped(28) = FileAll
    BY DEF Mapped
  <2>4. QED
    BY <1>1, <2>2, <2>3 DEF Access
<1>3. CASE r \in {Tokens({"FA"}), Mask(FileAll)}
  <2>1. Meaning["FA"] = FileAll
    BY DEF Meaning
  <2>2. Bits(r) = FileAll
    BY <1>3, <2>1 DEF Bits, Tokens, Mask
  <2>3. \A bit \in FileAll : Mapped(bit) = {bit}
    BY DEF FileAll, Mapped
  <2>4. QED
    BY <1>1, <2>2, <2>3 DEF Access
<1>4. QED
  BY <1>2, <1>3 DEF RightsAreFullControl

(***************************************************************************)
(* Lists                                                                   *)
(***************************************************************************)
HaveRights(aces) == \A k \in DOMAIN aces : aces[k].rights \in Rights

(* A list of any length that sddl_is_user_private accepts gives a trusted
   controller full control, and lets no broad group modify but through LC
   and RP; where no entry has these tokens, it means private. *)
THEOREM ClassifierIsSound ==
  ASSUME NEW aces, NEW sid, UserSid(sid), HaveRights(aces), SddlIsUserPrivate(aces, sid)
  PROVE  /\ Controls(aces, Controllers(sid))
         /\ \A k \in DOMAIN aces :
               LetsBroadModify(aces[k]) => aces[k].type = "A" /\ Overlooked(aces[k].rights)
         /\ (\A k \in DOMAIN aces : aces[k].rights.of \cap {"LC", "RP"} = {})
               => MeansPrivate(aces, sid)
<1>1. Controls(aces, Controllers(sid))
  <2>1. PICK k \in DOMAIN aces : TrustedControl(aces[k], sid)
    BY DEF SddlIsUserPrivate
  <2>2. aces[k].type = "A" /\ Denotes(aces[k].trustee) \in Controllers(sid)
    BY <2>1, TrustedDenotes DEF TrustedControl
  <2>3. aces[k].rights # Unreadable /\ FileAll \subseteq Access(aces[k].rights)
    BY <2>1, FullControlIsAll DEF TrustedControl
  <2>4. QED
    BY <2>2, <2>3 DEF Controls
<1>2. ASSUME NEW k \in DOMAIN aces, LetsBroadModify(aces[k])
      PROVE  /\ aces[k].type = "A" /\ aces[k].rights \in Rights
             /\ ~RightsCanModify(aces[k].rights) /\ Modifies(aces[k].rights)
  <2>1. Tolerable(aces[k])
    BY DEF SddlIsUserPrivate
  <2>2. /\ aces[k].type = "A" /\ Denotes(aces[k].trustee) \in BroadSids
        /\ Modifies(aces[k].rights)
    BY <1>2, <2>1 DEF LetsBroadModify, Tolerable
  <2>3. TrusteeIsBroad(aces[k].trustee)
    BY <2>2, BroadByEitherName
  <2>4. QED
    BY <2>1, <2>2, <2>3 DEF Tolerable, HaveRights
<1>3. \A k \in DOMAIN aces :
         LetsBroadModify(aces[k]) => aces[k].type = "A" /\ Overlooked(aces[k].rights)
  BY <1>2, OverlookedIsLittle
<1>4. ASSUME \A k \in DOMAIN aces : aces[k].rights.of \cap {"LC", "RP"} = {},
             NEW k \in DOMAIN aces
      PROVE  ~LetsBroadModify(aces[k])
  BY <1>2, <1>4, WhereCanModifyErrs
<1>5. QED
  BY <1>1, <1>3, <1>4 DEF MeansPrivate

(* Two lists that mean the same: all authenticated users may create
   directories in what the system controls. *)
SpelledOut ==
  <<Ace("A", {}, Tokens({"FA"}), "SY"), Ace("A", {}, Tokens({"LC"}), "AU")>>

Masked ==
  <<Ace("A", {}, Tokens({"FA"}), "SY"), Ace("A", {}, Mask({2}), "AU")>>

(* The exception is real: sddl_is_user_private accepts a list by which a
   broad group may modify when the right is spelled LC, and refuses the same
   list when it is spelled 0x4. *)
THEOREM SpellingDecides ==
  ASSUME NEW sid
  PROVE  /\ ~MeansPrivate(SpelledOut, sid) /\ ~MeansPrivate(Masked, sid)
         /\ Bits(SpelledOut[2].rights) = Bits(Masked[2].rights)
         /\ SddlIsUserPrivate(SpelledOut, sid) /\ ~SddlIsUserPrivate(Masked, sid)
<1>1. /\ SpelledOut[1].type = "A" /\ SpelledOut[1].rights = Tokens({"FA"})
      /\ SpelledOut[1].trustee = "SY"
      /\ SpelledOut[2].type = "A" /\ SpelledOut[2].rights = Tokens({"LC"})
      /\ SpelledOut[2].trustee = "AU"
      /\ Masked[2].type = "A" /\ Masked[2].rights = Mask({2}) /\ Masked[2].trustee = "AU"
  BY DEF SpelledOut, Masked, Ace
<1>2. DOMAIN SpelledOut = {1, 2} /\ DOMAIN Masked = {1, 2}
  BY DEF SpelledOut, Masked
<1>3. Bits(Tokens({"LC"})) = {2} /\ Bits(Mask({2})) = {2}
  <2>1. Meaning["LC"] = {2}
    BY DEF Meaning
  <2>2. QED
    BY <2>1 DEF Bits, Tokens, Mask
<1>4. Modifies(Tokens({"LC"})) /\ Modifies(Mask({2}))
  <2>1. Access(Tokens({"LC"})) \cap Modifying # {} /\ Access(Mask({2})) \cap Modifying # {}
    BY <1>3, MaskIsExact DEF ModifyMask
  <2>2. QED
    BY <2>1 DEF Modifies
<1>5. ~MeansPrivate(SpelledOut, sid) /\ ~MeansPrivate(Masked, sid)
  <2>1. TrusteeIsBroad("AU")
    BY DEF TrusteeIsBroad
  <2>2. Denotes("AU") \in BroadSids
    BY <2>1, BroadByEitherName
  <2>3. QED
    BY <1>1, <1>2, <1>4, <2>2 DEF MeansPrivate, LetsBroadModify
<1>6. SddlIsUserPrivate(SpelledOut, sid)
  <2>1. ~RightsCanModify(Tokens({"LC"}))
    BY DEF RightsCanModify, Tokens, ReadTokens
  <2>2. ~TrusteeIsBroad("SY")
    BY DEF TrusteeIsBroad
  <2>3. TrustedControl(SpelledOut[1], sid)
    BY <1>1 DEF TrustedControl, TrusteeIsPrivilegedController, RightsAreFullControl
  <2>4. Tolerable(SpelledOut[1]) /\ Tolerable(SpelledOut[2])
    BY <1>1, <2>1, <2>2 DEF Tolerable
  <2>5. QED
    BY <1>2, <2>3, <2>4 DEF SddlIsUserPrivate
<1>7. ~SddlIsUserPrivate(Masked, sid)
  <2>1. RightsCanModify(Mask({2})) /\ TrusteeIsBroad("AU")
    BY DEF RightsCanModify, Mask, ModifyMask, TrusteeIsBroad
  <2>2. ~Tolerable(Masked[2])
    BY <1>1, <2>1 DEF Tolerable
  <2>3. QED
    BY <1>2, <2>2 DEF SddlIsUserPrivate
<1>8. QED
  BY <1>1, <1>3, <1>5, <1>6, <1>7

(* A list as Windows writes it: every trustee by its alias where it has one. *)
AsRendered(aces) ==
  \A k \in DOMAIN aces : UserSid(Denotes(aces[k].trustee)) =>
                            aces[k].trustee = Rendered(Denotes(aces[k].trustee))

(* Full control is spelled FA, GA, 0x1f01ff or 0x10000000 where it is given. *)
PlainlySpelled(aces) ==
  \A k \in DOMAIN aces :
     aces[k].rights # Unreadable /\ FileAll \subseteq Access(aces[k].rights)
        => RightsAreFullControl(aces[k].rights)

(* No harmless right is spelled CC, SW or WP. *)
NothingMistaken(aces) ==
  \A k \in DOMAIN aces : aces[k].rights.of \cap {"CC", "SW", "WP"} = {}

(* sddl_is_user_private refuses no list that means private, as Windows writes
   it, to a user whose name in it the classifier knows, unless full control
   is spelled in a fifth way or a harmless right CC, SW or WP. *)
THEOREM ClassifierIsComplete ==
  ASSUME NEW aces, NEW sid, UserSid(sid), sid \notin Unrecognised, HaveRights(aces),
         AsRendered(aces), PlainlySpelled(aces), NothingMistaken(aces),
         MeansPrivate(aces, sid)
  PROVE  SddlIsUserPrivate(aces, sid)
<1>1. ASSUME NEW k \in DOMAIN aces PROVE Tolerable(aces[k])
  <2>1. aces[k].type \in {"A", "D"}
    BY DEF MeansPrivate, LetsBroadModify
  <2>2. CASE aces[k].type = "A" /\ TrusteeIsBroad(aces[k].trustee)
    <3>1. ~Modifies(aces[k].rights)
      BY <2>2, BroadByEitherName DEF MeansPrivate, LetsBroadModify
    <3>2. ~RightsCanModify(aces[k].rights)
      BY <3>1, WhereCanModifyErrs DEF HaveRights, NothingMistaken
    <3>3. QED
      BY <2>2, <3>2 DEF Tolerable
  <2>3. QED
    BY <2>1, <2>2 DEF Tolerable
<1>2. PICK k \in DOMAIN aces :
         /\ aces[k].type = "A" /\ Denotes(aces[k].trustee) \in Controllers(sid)
         /\ aces[k].rights # Unreadable /\ FileAll \subseteq Access(aces[k].rights)
  BY DEF MeansPrivate, Controls
<1> DEFINE t == aces[k].trustee
<1>3. RightsAreFullControl(aces[k].rights)
  BY <1>2 DEF PlainlySpelled
<1>4. TrusteeMatchesSid(t, sid) \/ TrusteeIsPrivilegedController(t)
  <2>1. CASE Denotes(t) = sid
    <3>1. t = Rendered(sid)
      BY <2>1 DEF AsRendered
    <3>2. QED
      BY <3>1, RecognisedName
  <2>2. CASE Denotes(t) \in {LocalSystem, Administrators, Administrator}
    <3>1. UserSid(Denotes(t))
      BY <2>2, SidAssumption
      DEF UserSid, AliasText, BroadSids, WellKnown, LocalSystem, Administrators, Everyone,
          AuthenticatedUsers, BuiltinUsers
    <3>2. t = Rendered(Denotes(t))
      BY <3>1 DEF AsRendered
    <3>3. Denotes(t) \notin Unrecognised
      BY <2>2, SidAssumption
      DEF Unrecognised, WellKnown, LocalSystem, Administrators, LocalService, NetworkService
    <3>4. TrusteeMatchesSid(t, Denotes(t)) \/ TrusteeIsPrivilegedController(t)
      BY <3>1, <3>2, <3>3, RecognisedName
    <3>5. \E text \in {"SY", "BA", "LA"} : Denotes(text) = Denotes(t)
      <4>1. /\ Denotes("SY") = LocalSystem /\ Denotes("BA") = Administrators
            /\ Denotes("LA") = Administrator
        BY DEF Denotes
      <4>2. QED
        BY <2>2, <4>1
    <3>6. Rendered(Denotes(t)) \in AliasText
      BY <3>5 DEF Rendered, AliasText
    <3>7. t # Denotes(t)
      BY <3>1, <3>2, <3>6 DEF UserSid
    <3>8. QED
      BY <3>4, <3>7 DEF TrusteeMatchesSid, TrusteeIsPrivilegedController
  <2>3. QED
    BY <1>2, <2>1, <2>2 DEF Controllers
<1>5. TrustedControl(aces[k], sid)
  BY <1>2, <1>3, <1>4 DEF TrustedControl
<1>6. QED
  BY <1>1, <1>5 DEF SddlIsUserPrivate

LEMMA CanonicalEntry ==
  ASSUME NEW sid
  PROVE  /\ Canonical(sid).protected = TRUE
         /\ DOMAIN Canonical(sid).aces = {1} /\ Canonical(sid).aces # <<>>
         /\ Canonical(sid).aces[1].type = "A"
         /\ Canonical(sid).aces[1].rights = Tokens({"FA"})
         /\ Canonical(sid).aces[1].trustee = Rendered(sid)
  BY DEF Canonical, UserPrivate, Ace

LEMMA CanonicalMeans ==
  ASSUME NEW sid, UserSid(sid)
  PROVE  HaveRights(Canonical(sid).aces) /\ MeansExclusive(Canonical(sid), sid)
<1> DEFINE a == Canonical(sid).aces[1]
<1>1. a.rights \in Rights
  <2>1. "FA" \in DOMAIN Meaning
    BY DEF Meaning
  <2>2. Tokens({"FA"}) \in [form: {"tokens"}, of: SUBSET DOMAIN Meaning]
    BY <2>1 DEF Tokens
  <2>3. QED
    BY <2>2, CanonicalEntry DEF Rights
<1>2. Denotes(a.trustee) = sid
  BY CanonicalEntry, RenderedDenotes
<1>3. a.rights # Unreadable /\ FileAll \subseteq Access(a.rights)
  BY CanonicalEntry, FullControlIsAll DEF RightsAreFullControl
<1>4. QED
  BY <1>1, <1>2, <1>3, CanonicalEntry DEF HaveRights, MeansExclusive, Controls

(* sddl_is_user_private accepts the list that zed-lock itself applies for all
   users but LocalService, NetworkService and the guest, to whom a directory
   that it has just tightened is refused. *)
THEOREM OwnListAccepted ==
  ASSUME NEW sid, UserSid(sid)
  PROVE  SddlIsUserPrivate(Canonical(sid).aces, sid) <=> sid \notin Unrecognised
<1> DEFINE a == Canonical(sid).aces[1]
<1>1. TrustedControl(a, sid) <=> sid \notin Unrecognised
  BY CanonicalEntry, RecognisedName DEF TrustedControl, RightsAreFullControl
<1>2. ~TrusteeIsBroad(a.trustee)
  BY CanonicalEntry, RenderedDenotes, BroadByEitherName DEF UserSid
<1>3. Tolerable(a)
  BY <1>2, CanonicalEntry DEF Tolerable
<1>4. QED
  BY <1>1, <1>3, CanonicalEntry DEF SddlIsUserPrivate

(* What production requires of a descriptor that it has set (the control bit
   and the same entries) leaves the user alone with full control.  The strict
   classifier that only the tests call agrees just if Windows writes the
   user's SID in full or as SY: for a user that is written LA it refuses what
   production accepts. *)
THEOREM ProductionCheckIsExclusive ==
  ASSUME UserSid(user), NEW acl, ProtectedUserPrivate(acl)
  PROVE  /\ MeansExclusive(acl, user)
         /\ SddlIsProtectedUserPrivate(acl, user)
               <=> TrusteeMatchesSid(Rendered(user), user)
<1>1. acl.protected /\ acl.aces = Canonical(user).aces
  BY DEF ProtectedUserPrivate, HasSameDaclAces
<1>2. MeansExclusive(acl, user)
  BY <1>1, CanonicalMeans DEF MeansExclusive
<1> DEFINE a == Canonical(user).aces[1]
<1>3. GrantsFullControlToSid(acl.aces, user) <=> TrusteeMatchesSid(Rendered(user), user)
  BY <1>1, CanonicalEntry DEF GrantsFullControlToSid, RightsAreFullControl
<1>4. ~TrusteeIsBroad(a.trustee)
  BY CanonicalEntry, RenderedDenotes, BroadByEitherName DEF UserSid
<1>5. ~HasBroadAllowAce(acl.aces)
  BY <1>1, <1>4, CanonicalEntry DEF HasBroadAllowAce
<1>6. TrusteeMatchesSid(Rendered(user), user) => SddlIsUserPrivate(acl.aces, user)
  BY <1>1, RecognisedName, OwnListAccepted
<1>7. QED
  BY <1>1, <1>2, <1>3, <1>5, <1>6 DEF SddlIsProtectedUserPrivate

(***************************************************************************)
(* The inductive invariant                                                 *)
(*                                                                         *)
(* What a Private opener has validated cannot get worse.  The file is only *)
(* ever changed to the list that production requires.  So is the directory *)
(* after its creation, though that list need not pass sddl_is_user_private *)
(* (OwnListAccepted): what the directory must keep is what it means.       *)
(***************************************************************************)
DirectoryPasses ==
  resets = 0 => \A o \in Private : PastDirectory(o) =>
    dir = Canonical(user) \/ SddlIsUserPrivate(dir.aces, user)

FileIsUserPrivate ==
  resets = 0 => \A o \in Private : pc[o] \in {"require_file", "opened"} => file = Canonical(user)

(* The users whose own list passes, if what is inherited passes too. *)
NobodyRefused ==
  resets = 0 /\ user \notin Unrecognised /\ SddlIsUserPrivate(inherited.aces, user) =>
     /\ dir \in {Absent, inherited, Canonical(user)}
     /\ \A o \in Opener :
           /\ pc[o] # "failed"
           /\ pc[o] = "require_dir" => dir = Canonical(user)
           /\ pc[o] = "require_file" => file = Canonical(user)

IInv == TypeOK /\ DirectoryPasses /\ FileIsUserPrivate /\ NobodyRefused

LEMMA UserCanonical ==
  ASSUME user \in Users
  PROVE  /\ ProtectedUserPrivate(Canonical(user))
         /\ Canonical(user) # Absent
         /\ user \notin Unrecognised => SddlIsUserPrivate(Canonical(user).aces, user)
<1>1. UserSid(user)
  BY WindowsAssumption
<1>2. ProtectedUserPrivate(Canonical(user))
  BY CanonicalEntry DEF ProtectedUserPrivate, HasSameDaclAces
<1>3. QED
  BY <1>1, <1>2, AbsentAssumption, OwnListAccepted

LEMMA InitIInv == Init => IInv
<1> SUFFICES ASSUME Init PROVE IInv
  OBVIOUS
<1>1. inherited \in Dacl
  <2>1. PICK aces \in Lists : inherited = Unprotected(aces)
    BY DEF Init
  <2>2. QED
    BY <2>1 DEF Dacl, Unprotected
<1>2. /\ user \in Users /\ pc \in [Opener -> Phase] /\ resets \in 0 .. MaxResets
      /\ \A o \in Opener : pc[o] = "inspect"
  BY WindowsAssumption DEF Init, Phase
<1>3. dir \in {Absent, inherited} /\ file \in {Absent, inherited}
  BY DEF Init
<1>4. TypeOK
  BY <1>1, <1>2, <1>3 DEF TypeOK
<1>5. DirectoryPasses /\ FileIsUserPrivate /\ NobodyRefused
  BY <1>2, <1>3, WindowsAssumption
  DEF DirectoryPasses, FileIsUserPrivate, NobodyRefused, PastDirectory
<1>6. QED
  BY <1>4, <1>5 DEF IInv

LEMMA DirectoryStep ==
  ASSUME IInv, NEW o \in Opener,
         \/ Inspect(o) \/ CreateDirectory(o) \/ ApplyDirectory(o)
         \/ RequireDirectory(o) \/ ValidateDirectory(o)
  PROVE  IInv'
<1> USE WindowsAssumption, AbsentAssumption, UserCanonical
    DEF IInv, TypeOK, DirectoryPasses, FileIsUserPrivate, NobodyRefused, PastDirectory,
        Goto, Answer, Phase
<1>1. CASE Inspect(o)
  BY <1>1 DEF Inspect
<1>2. CASE CreateDirectory(o)
  BY <1>2 DEF CreateDirectory
<1>3. CASE ApplyDirectory(o)
  BY <1>3 DEF ApplyDirectory
<1>4. CASE RequireDirectory(o)
  BY <1>4 DEF RequireDirectory
<1>5. CASE ValidateDirectory(o)
  BY <1>5 DEF ValidateDirectory
<1>6. QED
  BY <1>1, <1>2, <1>3, <1>4, <1>5

LEMMA FileStep ==
  ASSUME IInv, NEW o \in Opener,
         \/ OpenExisting(o) \/ CreateExclusive(o) \/ TightenFile(o)
         \/ ValidateFile(o) \/ RequireFile(o)
  PROVE  IInv'
<1> USE WindowsAssumption, AbsentAssumption, UserCanonical
    DEF IInv, TypeOK, DirectoryPasses, FileIsUserPrivate, NobodyRefused, PastDirectory,
        Goto, Answer, Phase
<1>1. CASE OpenExisting(o)
  BY <1>1 DEF OpenExisting
<1>2. CASE CreateExclusive(o)
  BY <1>2 DEF CreateExclusive
<1>3. CASE TightenFile(o)
  BY <1>3 DEF TightenFile
<1>4. CASE ValidateFile(o)
  BY <1>4 DEF ValidateFile
<1>5. CASE RequireFile(o)
  BY <1>5 DEF RequireFile
<1>6. QED
  BY <1>1, <1>2, <1>3, <1>4, <1>5

LEMMA ResetStep ==
  ASSUME IInv, Reset
  PROVE  IInv'
<1>1. TypeOK'
  BY WindowsAssumption, AbsentAssumption DEF IInv, TypeOK, Reset
<1>2. resets' # 0
  BY DEF IInv, TypeOK, Reset
<1>3. QED
  BY <1>1, <1>2 DEF IInv, DirectoryPasses, FileIsUserPrivate, NobodyRefused

LEMMA NextIInv == IInv /\ [Next]_vars => IInv'
<1>1. CASE Next
  BY <1>1, DirectoryStep, FileStep, ResetStep DEF Next, OpenStep
<1>2. CASE UNCHANGED vars
  BY <1>2
  DEF vars, IInv, TypeOK, DirectoryPasses, FileIsUserPrivate, NobodyRefused, PastDirectory
<1>3. QED
  BY <1>1, <1>2

(* The inductive invariant of the Windows openers. *)
THEOREM IInvHolds == Spec => []IInv
  BY InitIInv, NextIInv, PTL DEF Spec

(* Every variable keeps its type, and what an opener has created or found
   is still there. *)
THEOREM TypeCorrect == Spec => []TypeOK
<1>1. IInv => TypeOK
  BY DEF IInv
<1>2. QED
  BY <1>1, IInvHolds, PTL

(* A Private opener goes on only in a directory whose list gives a trusted
   controller full control and lets no broad group modify but through LC and
   RP, and other openers' tightening keeps it so: for any lists of rights in
   the tokens and masks of the language. *)
THEOREM DirectoryMeansPrivateHolds == Spec => []DirectoryMeansPrivate
<1>1. IInv => DirectoryMeansPrivate
  <2> SUFFICES ASSUME IInv, resets = 0, NEW o \in Private, PastDirectory(o)
               PROVE  /\ Controls(dir.aces, Controllers(user))
                      /\ \A k \in DOMAIN dir.aces :
                            LetsBroadModify(dir.aces[k]) =>
                               dir.aces[k].type = "A" /\ Overlooked(dir.aces[k].rights)
    BY DEF DirectoryMeansPrivate
  <2>1. UserSid(user)
    BY WindowsAssumption DEF IInv, TypeOK
  <2>2. CASE dir = Canonical(user)
    <3>1. MeansExclusive(dir, user)
      BY <2>1, <2>2, CanonicalMeans
    <3>2. Controls(dir.aces, Controllers(user))
      BY <3>1 DEF MeansExclusive, Controls, Controllers
    <3>3. \A k \in DOMAIN dir.aces : ~LetsBroadModify(dir.aces[k])
      BY <2>1, <3>1 DEF MeansExclusive, LetsBroadModify, UserSid
    <3>4. QED
      BY <3>2, <3>3
  <2>3. CASE dir # Canonical(user)
    <3>1. SddlIsUserPrivate(dir.aces, user)
      BY <2>3 DEF IInv, DirectoryPasses
    <3>2. dir \in Dacl
      BY <2>3, WindowsAssumption DEF IInv, TypeOK, PastDirectory
    <3>3. HaveRights(dir.aces)
      BY <3>2, WindowsAssumption DEF Dacl, HaveRights
    <3>4. QED
      BY <2>1, <3>1, <3>3, ClassifierIsSound
  <2>4. QED
    BY <2>2, <2>3
<1>2. QED
  BY <1>1, IInvHolds, PTL

(* A Private opener ends with a protected file that means full control for
   the user and nothing for others, whoever tightens it again, and however
   Windows writes the user's SID. *)
THEOREM FileStaysProtectedHolds == Spec => []FileStaysProtected
<1>1. IInv => FileStaysProtected
  BY WindowsAssumption, CanonicalMeans DEF IInv, TypeOK, FileIsUserPrivate, FileStaysProtected
<1>2. QED
  BY <1>1, IInvHolds, PTL

(* No opener is refused what another or it itself has set, unless it runs as
   LocalService, NetworkService or the guest (for whom OwnListAccepted shows
   the refusal). *)
THEOREM NoSpuriousRefusalHolds ==
  ASSUME Users \cap Unrecognised = {}
  PROVE  Spec => []NoSpuriousRefusal
<1>1. IInv => NoSpuriousRefusal
  BY DEF IInv, TypeOK, NobodyRefused, NoSpuriousRefusal
<1>2. QED
  BY <1>1, IInvHolds, PTL

(***************************************************************************)
(* How many steps an opener takes                                          *)
(***************************************************************************)
Rank(o) ==
  IF pc[o] = "inspect" THEN 13
  ELSE IF pc[o] = "create_dir" THEN 12
  ELSE IF pc[o] = "apply_dir" THEN 11
  ELSE IF pc[o] = "require_dir" THEN 10
  ELSE IF pc[o] = "validate_dir" THEN 9
  ELSE IF pc[o] = "open" THEN IF file = Absent THEN 8 ELSE 4
  ELSE IF pc[o] = "create_file" THEN IF file = Absent THEN 6 ELSE 5
  ELSE IF pc[o] = "tighten_file" THEN 3
  ELSE IF pc[o] = "validate_file" THEN 2
  ELSE IF pc[o] = "require_file" THEN 1 ELSE 0

(* Each step of an opener brings it nearer to its answer, and nobody sets it
   back. *)
OpensAreShort ==
  [][\A o \in Opener : /\ Rank(o)' <= Rank(o)
                       /\ OpenStep(o) => Rank(o)' < Rank(o)]_vars

LEMMA RankStep ==
  ASSUME IInv, NEW o \in Opener, OpenStep(o), NEW u \in Opener
  PROVE  Rank(u)' <= Rank(u) /\ (u = o => Rank(u)' < Rank(u))
<1> USE AbsentAssumption DEF IInv, TypeOK, Phase, Goto, Answer, Rank
<1>1. CASE Inspect(o) \/ CreateDirectory(o) \/ ApplyDirectory(o)
  BY <1>1 DEF Inspect, CreateDirectory, ApplyDirectory
<1>2. CASE RequireDirectory(o) \/ ValidateDirectory(o)
  BY <1>2 DEF RequireDirectory, ValidateDirectory
<1>3. CASE OpenExisting(o) \/ CreateExclusive(o)
  BY <1>3 DEF OpenExisting, CreateExclusive
<1>4. CASE TightenFile(o) \/ ValidateFile(o) \/ RequireFile(o)
  BY <1>4 DEF TightenFile, ValidateFile, RequireFile
<1>5. QED
  BY <1>1, <1>2, <1>3, <1>4 DEF OpenStep

RankBounded == \A o \in Opener : Rank(o) \in 0 .. 13

(* An opener has its answer after at most thirteen of its own steps: the
   loop that alternates between opening and creating goes round once, and
   no other opener or program can keep it there. *)
THEOREM OpensAreShortHolds == Spec => OpensAreShort /\ []RankBounded
<1>1. IInv /\ [Next]_vars =>
         [\A o \in Opener : /\ Rank(o)' <= Rank(o)
                            /\ OpenStep(o) => Rank(o)' < Rank(o)]_vars
  <2> SUFFICES ASSUME IInv, Next, NEW u \in Opener
               PROVE  Rank(u)' <= Rank(u) /\ (OpenStep(u) => Rank(u)' < Rank(u))
    OBVIOUS
  <2>1. ASSUME NEW o \in Opener, OpenStep(o) PROVE Rank(u)' <= Rank(u)
    BY <2>1, RankStep
  <2>2. ASSUME Reset PROVE Rank(u)' <= Rank(u)
    BY <2>2, AbsentAssumption DEF Reset, Rank, IInv, TypeOK
  <2>3. QED
    BY <2>1, <2>2, RankStep DEF Next
<1>2. IInv => RankBounded
  BY DEF IInv, TypeOK, Phase, Rank, RankBounded
<1>3. QED
  BY <1>1, <1>2, IInvHolds, PTL DEF Spec, OpensAreShort

=============================================================================
