-------------------------- MODULE WaiterLimiterProofs --------------------------
(***************************************************************************)
(* The loop of WaiterLimiter::reserve for every limit and any number of    *)
(* requests: the counter counts, and the loop is as good as one step.      *)
(***************************************************************************)
EXTENDS WaiterLimiter, FiniteSetTheorems, TLAPS

LimiterInv == LimiterTypeOK /\ PermitsCounted

(* What the drop of a permit relies on: somebody has one. *)
LEMMA PermittedFinite ==
  /\ IsFiniteSet(Permitted)
  /\ Cardinality(Permitted) \in Nat
  /\ \A q \in Permitted : Cardinality(Permitted) >= 1
<1>1. IsFiniteSet(Permitted)
  BY FS_Subset, LimiterAssumption DEF Permitted
<1>2. Cardinality(Permitted) \in Nat
  BY <1>1, FS_CardinalityType
<1>3. ASSUME NEW q \in Permitted PROVE Cardinality(Permitted) >= 1
  <2>1. Cardinality(Permitted) # 0
    BY <1>1, <1>3, FS_EmptySet
  <2>2. QED
    BY <1>2, <2>1
<1>4. QED
  BY <1>1, <1>2, <1>3

LEMMA InitLimiterInv == LimiterInit => LimiterInv
<1> SUFFICES ASSUME LimiterInit PROVE LimiterInv
  OBVIOUS
<1>1. LimiterTypeOK
  BY LimiterAssumption DEF LimiterInit, LimiterTypeOK
<1>2. Permitted = {}
  BY DEF LimiterInit, Permitted
<1>3. QED
  BY <1>1, <1>2, FS_EmptySet, LimiterAssumption
  DEF LimiterInv, LimiterInit, PermitsCounted

(* How each step changes the set of permit holders. *)
LEMMA PermittedChanges ==
  ASSUME LimiterTypeOK, NEW q \in Request
  PROVE  /\ Load(q) \/ Refuse(q) \/ ExchangeFails(q) => Permitted' = Permitted
         /\ Exchange(q) => q \notin Permitted /\ Permitted' = Permitted \cup {q}
         /\ DropPermit(q) => q \in Permitted /\ Permitted' = Permitted \ {q}
<1> USE DEF LimiterTypeOK, Permitted
<1>1. Load(q) \/ Refuse(q) \/ ExchangeFails(q) => Permitted' = Permitted
  BY DEF Load, Refuse, ExchangeFails
<1>2. Exchange(q) => q \notin Permitted /\ Permitted' = Permitted \cup {q}
  BY DEF Exchange, Permit
<1>3. DropPermit(q) => q \in Permitted /\ Permitted' = Permitted \ {q}
  BY DEF DropPermit
<1>4. QED
  BY <1>1, <1>2, <1>3

LEMMA NextLimiterInv == LimiterInv /\ [LimiterNext]_limiter => LimiterInv'
<1> SUFFICES ASSUME LimiterInv, [LimiterNext]_limiter PROVE LimiterInv'
  OBVIOUS
<1> USE LimiterAssumption
<1>1. CASE UNCHANGED limiter
  BY <1>1 DEF limiter, LimiterInv, LimiterTypeOK, PermitsCounted, Permitted
<1>2. ASSUME NEW q \in Request, Load(q) \/ Refuse(q) \/ ExchangeFails(q) PROVE LimiterInv'
  <2>1. LimiterTypeOK'
    BY <1>2 DEF LimiterInv, LimiterTypeOK, Load, Refuse, ExchangeFails
  <2>2. active' = active /\ Permitted' = Permitted
    BY <1>2, PermittedChanges DEF LimiterInv, Load, Refuse, ExchangeFails
  <2>3. QED
    BY <2>1, <2>2 DEF LimiterInv, PermitsCounted
<1>3. ASSUME NEW q \in Request, Exchange(q) PROVE LimiterInv'
  <2>1. LimiterTypeOK'
    BY <1>3 DEF LimiterInv, LimiterTypeOK, Exchange, Permit
  <2>2. Cardinality(Permitted') = Cardinality(Permitted) + 1
    BY <1>3, PermittedChanges, PermittedFinite, FS_AddElement DEF LimiterInv
  <2>3. active' = active + 1 /\ active < Limit
    BY <1>3 DEF Exchange, Permit
  <2>4. QED
    BY <2>1, <2>2, <2>3 DEF LimiterInv, LimiterTypeOK, PermitsCounted
<1>4. ASSUME NEW q \in Request, DropPermit(q) PROVE LimiterInv'
  <2>1. Cardinality(Permitted') = Cardinality(Permitted) - 1 /\ Cardinality(Permitted) >= 1
    BY <1>4, PermittedChanges, PermittedFinite, FS_RemoveElement DEF LimiterInv
  <2>2. active' = active - 1
    BY <1>4 DEF DropPermit
  <2>3. active' \in 0..Limit /\ active' = Cardinality(Permitted')
    BY <2>1, <2>2 DEF LimiterInv, LimiterTypeOK, PermitsCounted
  <2>4. QED
    BY <1>4, <2>3 DEF LimiterInv, LimiterTypeOK, PermitsCounted, DropPermit
<1>5. QED
  BY <1>1, <1>2, <1>3, <1>4 DEF LimiterNext

LEMMA LimiterInvHolds == LimiterSpec => []LimiterInv
<1>1. QED
  BY InitLimiterInv, NextLimiterInv, PTL DEF LimiterSpec

(* The counter of the limiter stays in 0..Limit. *)
THEOREM LimiterTypeCorrect == LimiterSpec => []LimiterTypeOK
<1>1. LimiterInv => LimiterTypeOK
  BY DEF LimiterInv
<1>2. QED
  BY <1>1, LimiterInvHolds, PTL

(* WaiterLimiter::reserve and WaiterPermit::drop: the counter is the number
   of permits that exist, at most max_waiters. *)
THEOREM LimiterCounts == LimiterSpec => []PermitsCounted
<1>1. LimiterInv => PermitsCounted
  BY DEF LimiterInv
<1>2. QED
  BY <1>1, LimiterInvHolds, PTL

-----------------------------------------------------------------------------
(* The loop against one-step permits. *)

LEMMA SameCardinality == \A S : Ideal!Cardinality(S) = Cardinality(S)
  BY Zenon DEF Ideal!Cardinality, Cardinality

LEMMA InitPermits == LimiterInit => Ideal!Init
  BY LimiterAssumption DEF LimiterInit, Ideal!Init, Permitted, SeenFull

(* A request that is about to compare a value at the limit was turned away
   when it read that value. *)
LEMMA StepPermits ==
  ASSUME LimiterInv, [LimiterNext]_limiter
  PROVE  [Ideal!Next]_<<Permitted, SeenFull>>
<1> USE LimiterAssumption DEF LimiterInv
<1>1. CASE UNCHANGED limiter
  BY <1>1 DEF limiter, Permitted, SeenFull
<1>2. ASSUME NEW q \in Request, Load(q) \/ ExchangeFails(q)
      PROVE  Ideal!TurnAway(q) \/ UNCHANGED <<Permitted, SeenFull>>
  <2>1. Permitted' = Permitted
    BY <1>2, PermittedChanges
  <2>2. q \notin Permitted \cup SeenFull
    BY <1>2 DEF Load, ExchangeFails, Permitted, SeenFull, LimiterTypeOK
  <2>3. SeenFull' = IF active >= Limit THEN SeenFull \cup {q} ELSE SeenFull
    BY <1>2 DEF Load, ExchangeFails, SeenFull, LimiterTypeOK
  <2>4. active >= Limit => Cardinality(Permitted) = Limit
    BY DEF PermitsCounted, LimiterTypeOK
  <2>5. QED
    BY <2>1, <2>2, <2>3, <2>4, SameCardinality DEF Ideal!TurnAway, Ideal!Asking
<1>3. ASSUME NEW q \in Request, Refuse(q) PROVE Ideal!Tell(q)
  <2>1. Permitted' = Permitted
    BY <1>3, PermittedChanges
  <2>2. q \in SeenFull /\ SeenFull' = SeenFull \ {q}
    BY <1>3 DEF Refuse, SeenFull, LimiterTypeOK
  <2>3. QED
    BY <2>1, <2>2 DEF Ideal!Tell
<1>4. ASSUME NEW q \in Request, Exchange(q) PROVE Ideal!Grant(q)
  <2>1. q \notin Permitted /\ Permitted' = Permitted \cup {q}
    BY <1>4, PermittedChanges
  <2>2. q \notin SeenFull /\ SeenFull' = SeenFull
    BY <1>4 DEF Exchange, Permit, SeenFull, LimiterTypeOK
  <2>3. Cardinality(Permitted) < Limit
    BY <1>4 DEF Exchange, PermitsCounted
  <2>4. QED
    BY <2>1, <2>2, <2>3, SameCardinality DEF Ideal!Grant, Ideal!Asking
<1>5. ASSUME NEW q \in Request, DropPermit(q) PROVE Ideal!GiveBack(q)
  <2>1. q \in Permitted /\ Permitted' = Permitted \ {q}
    BY <1>5, PermittedChanges
  <2>2. SeenFull' = SeenFull
    BY <1>5 DEF DropPermit, SeenFull, LimiterTypeOK
  <2>3. QED
    BY <2>1, <2>2 DEF Ideal!GiveBack
<1>6. QED
  BY <1>1, <1>2, <1>3, <1>4, <1>5 DEF LimiterNext, Ideal!Next

(* The compare-exchange loop implements permits that are granted, refused
   and given back in whole steps: every refusal was due at a moment when
   max_waiters permits were out, however the loops interleave and fail. *)
THEOREM LimiterImplementsPermits == LimiterSpec => ImplementsPermits
<1>1. LimiterInit => Ideal!Init
  BY InitPermits
<1>2. LimiterInv /\ [LimiterNext]_limiter => [Ideal!Next]_<<Permitted, SeenFull>>
  BY StepPermits
<1>3. QED
  BY <1>1, <1>2, LimiterInvHolds, PTL DEF LimiterSpec, ImplementsPermits, Ideal!Spec

=============================================================================
