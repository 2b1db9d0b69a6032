----------------------------- MODULE WaiterLimiter -----------------------------
(***************************************************************************)
(* WaiterLimiter and WaiterPermit (src/lib.rs): an atomic counter, taken   *)
(* up by a loop of compare_exchange_weak and down by the drop of a permit. *)
(* Between its load and its exchange a request works with an old value.    *)
(***************************************************************************)
EXTENDS Integers, FiniteSets

CONSTANTS
  Request,          \* requests for a background acquisition
  Limit             \* max_waiters, which the builder raises to one at least

ASSUME LimiterAssumption == Limit \in Nat \ {0} /\ IsFiniteSet(Request)

VARIABLES
  active,           \* the counter
  stage,            \* "idle", "comparing" in the loop, "permitted" with a permit
  current           \* the local variable of the loop, 0 outside it

limiter == <<active, stage, current>>

LimiterInit ==
  /\ active = 0
  /\ stage = [q \in Request |-> "idle"]
  /\ current = [q \in Request |-> 0]

(* The first load. *)
Load(q) ==
  /\ stage[q] = "idle"
  /\ stage' = [stage EXCEPT ![q] = "comparing"]
  /\ current' = [current EXCEPT ![q] = active]
  /\ UNCHANGED active

(* "background lock waiter limit reached" *)
Refuse(q) ==
  /\ stage[q] = "comparing"
  /\ current[q] >= Limit
  /\ stage' = [stage EXCEPT ![q] = "idle"]
  /\ current' = [current EXCEPT ![q] = 0]
  /\ UNCHANGED active

Permit(q) ==
  /\ stage' = [stage EXCEPT ![q] = "permitted"]
  /\ current' = [current EXCEPT ![q] = 0]
  /\ active' = current[q] + 1

(* Mutant: a store instead of a compare_exchange. *)
ExchangeBlindly(q) ==
  /\ stage[q] = "comparing"
  /\ current[q] < Limit
  /\ Permit(q)

(* Mutant: the limit is looked at before the loop only. *)
ExchangeUnlimited(q) ==
  /\ stage[q] = "comparing"
  /\ current[q] = active
  /\ Permit(q)

(* The exchange succeeds, if the counter still has the value compared. *)
Exchange(q) ==
  /\ stage[q] = "comparing"
  /\ current[q] < Limit
  /\ current[q] = active
  /\ Permit(q)

(* It fails, and the loop goes on with the value observed: another one or,
   as the weak form may, the same. *)
ExchangeFails(q) ==
  /\ stage[q] = "comparing"
  /\ current[q] < Limit
  /\ current' = [current EXCEPT ![q] = active]
  /\ UNCHANGED <<active, stage>>

(* WaiterPermit::drop *)
DropPermit(q) ==
  /\ stage[q] = "permitted"
  /\ stage' = [stage EXCEPT ![q] = "idle"]
  /\ active' = active - 1
  /\ UNCHANGED current

LimiterNext ==
  \E q \in Request :
     Load(q) \/ Refuse(q) \/ Exchange(q) \/ ExchangeFails(q) \/ DropPermit(q)

LimiterSpec == LimiterInit /\ [][LimiterNext]_limiter

-----------------------------------------------------------------------------

LimiterTypeOK ==
  /\ active \in 0..Limit
  /\ stage \in [Request -> {"idle", "comparing", "permitted"}]
  /\ current \in [Request -> 0..Limit]

Permitted == {q \in Request : stage[q] = "permitted"}

(* The counter is the number of permits that exist, and never passes the
   limit, however many requests were between their load and their exchange:
   no slot is given out twice, and none is lost to a failed exchange. *)
PermitsCounted == active = Cardinality(Permitted) /\ active <= Limit

(* A request is turned away at the moment it sees the counter at the limit,
   not when it acts on what it saw. *)
SeenFull == {q \in Request : stage[q] = "comparing" /\ current[q] >= Limit}

Ideal == INSTANCE Permits WITH holders <- Permitted, turned_away <- SeenFull

(* The loop is as good as one step: a permit is granted while there is one
   to give, and a refusal means that the limit was reached at some moment
   during the call. *)
ImplementsPermits == Ideal!Spec

=============================================================================
