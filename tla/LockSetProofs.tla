----------------------------- MODULE LockSetProofs -----------------------------
(***************************************************************************)
(* Lock sets of any number of threads and locks: what the sort returns,    *)
(* that a set is a sequence of the manager's own steps, and that sets of   *)
(* Queue requests, which the manager's own theorems leave out, do not      *)
(* wait for each other in a ring either.                                   *)
(***************************************************************************)
EXTENDS LockSet, LockManagerProofs

(***************************************************************************)
(* The sort                                                                *)
(***************************************************************************)

LEMMA EntryNumbers ==
  ASSUME NEW r \in Requests
  PROVE  Entry(r)[1] \in Nat /\ PathKey[Entry(r)[2]] \in Nat
  BY ConstantsAssumption DEF Entry, RequestType

(* Follows(s, i, j): position j of the caller's list is sorted to where i is
   or before.  It is a total order on positions. *)
LEMMA FollowsIsTotal ==
  ASSUME NEW s \in Seq(Requests), NEW i \in DOMAIN s, NEW j \in DOMAIN s
  PROVE  /\ Follows(s, i, i)
         /\ Follows(s, i, j) \/ Follows(s, j, i)
         /\ Follows(s, i, j) /\ Follows(s, j, i) => i = j
         /\ \A k \in DOMAIN s : Follows(s, i, j) /\ Follows(s, j, k) => Follows(s, i, k)
         /\ Follows(s, i, j) => ~Before(Entry(s[i]), Entry(s[j]))
<1>1. \A k \in DOMAIN s : k \in Nat /\ s[k] \in Requests
  OBVIOUS
<1>2. \A k \in DOMAIN s : Entry(s[k])[1] \in Nat /\ PathKey[Entry(s[k])[2]] \in Nat
  BY <1>1, EntryNumbers
<1>3. QED
  BY <1>1, <1>2 DEF Follows, Before

(* Places are the positions of the sorted list, one each. *)
LEMMA PlaceIsPosition ==
  ASSUME NEW s \in Seq(Requests)
  PROVE  /\ \A i \in DOMAIN s : Place(s, i) \in DOMAIN s
         /\ \A i, j \in DOMAIN s : Place(s, i) < Place(s, j) => Follows(s, j, i)
         /\ \A i, j \in DOMAIN s : Place(s, i) = Place(s, j) => i = j
<1> DEFINE UpTo(i) == {j \in DOMAIN s : Follows(s, i, j)}
<1>1. IsFiniteSet(DOMAIN s) /\ Cardinality(DOMAIN s) = Len(s)
  <2>1. DOMAIN s = 1 .. Len(s) /\ Len(s) \in Nat
    OBVIOUS
  <2>2. QED
    BY <2>1, FS_Interval
<1>2. \A i \in DOMAIN s : /\ IsFiniteSet(UpTo(i)) /\ Cardinality(UpTo(i)) \in Nat
                          /\ Cardinality(UpTo(i)) <= Len(s)
  BY <1>1, FS_Subset, FS_CardinalityType
<1>3. \A i \in DOMAIN s : Place(s, i) = Cardinality(UpTo(i))
  BY DEF Place
<1>4. ASSUME NEW i \in DOMAIN s PROVE Place(s, i) \in DOMAIN s
  <2>1. i \in UpTo(i)
    BY FollowsIsTotal
  <2>2. Cardinality(UpTo(i)) # 0
    BY <1>2, <2>1, FS_EmptySet
  <2> HIDE DEF UpTo
  <2>3. QED
    BY <1>2, <1>3, <2>2
<1>5. ASSUME NEW i \in DOMAIN s, NEW j \in DOMAIN s, i # j, Follows(s, i, j)
      PROVE  Place(s, j) < Place(s, i)
  <2>1. UpTo(j) \in SUBSET UpTo(i)
    BY <1>5, FollowsIsTotal
  <2>2. i \in UpTo(i) /\ i \notin UpTo(j)
    BY <1>5, FollowsIsTotal
  <2> HIDE DEF UpTo
  <2>3. UpTo(i) # UpTo(j)
    BY <2>2
  <2>4. Cardinality(UpTo(j)) <= Cardinality(UpTo(i)) /\ Cardinality(UpTo(i)) # Cardinality(UpTo(j))
    BY <1>2, <2>1, <2>3, FS_Subset
  <2>5. QED
    BY <1>2, <1>3, <2>4
<1>6. \A i \in DOMAIN s : Place(s, i) \in Nat
  BY <1>2, <1>3
<1>7. \A i, j \in DOMAIN s : Follows(s, i, j) \/ Follows(s, j, i)
  BY FollowsIsTotal
<1>8. ASSUME NEW i \in DOMAIN s, NEW j \in DOMAIN s, Place(s, i) < Place(s, j)
      PROVE  Follows(s, j, i)
  <2>1. CASE i = j
    BY <1>6, <1>8, <2>1
  <2>2. CASE i # j /\ Follows(s, i, j)
    BY <1>5, <1>6, <1>8, <2>2
  <2>3. QED
    BY <1>7, <2>1, <2>2
<1>9. ASSUME NEW i \in DOMAIN s, NEW j \in DOMAIN s, Place(s, i) = Place(s, j)
      PROVE  i = j
  BY <1>5, <1>6, <1>7, <1>9
<1>10. QED
  BY <1>4, <1>8, <1>9

(* The sort of acquire_many_blocking rearranges the caller's list and
   leaves no request before one it should follow. *)
THEOREM SortedIsSorted ==
  ASSUME NEW s \in Seq(Requests)
  PROVE  /\ Sorted(s) \in Seq(Requests) /\ Len(Sorted(s)) = Len(s)
         /\ \E f \in Bijection(DOMAIN s, DOMAIN s) :
               \A k \in DOMAIN s : Sorted(s)[k] = s[f[k]]
         /\ \A j, k \in DOMAIN s :
               j < k => ~Before(Entry(Sorted(s)[k]), Entry(Sorted(s)[j]))
<1> DEFINE D == DOMAIN s
           g == [i \in D |-> Place(s, i)]
           At(k) == CHOOSE i \in D : Place(s, i) = k
           f == [k \in D |-> At(k)]
<1>1. D = 1 .. Len(s) /\ Len(s) \in Nat /\ IsFiniteSet(D)
  BY FS_Interval
<1>2. g \in Injection(D, D)
  BY PlaceIsPosition DEF Injection, IsInjective
<1>3. g \in Surjection(D, D)
  BY <1>1, <1>2, FS_Injection, Zenon
<1>4. ASSUME NEW k \in D PROVE At(k) \in D /\ Place(s, At(k)) = k
  <2>1. \E i \in D : Place(s, i) = k
    BY <1>3 DEF Surjection
  <2>2. QED
    BY <2>1
<1>5. ASSUME NEW i \in D PROVE \E k \in D : At(k) = i
  <2>1. Place(s, i) \in D /\ Place(s, At(Place(s, i))) = Place(s, i)
    BY <1>4, PlaceIsPosition
  <2>2. At(Place(s, i)) = i
    BY <1>4, <2>1, PlaceIsPosition
  <2>3. QED
    BY <2>1, <2>2
<1>6. f \in Bijection(D, D)
  <2>1. f \in [D -> D]
    BY <1>4
  <2>2. \A j, k \in D : f[j] = f[k] => j = k
    BY <1>4
  <2>3. \A i \in D : \E k \in D : f[k] = i
    BY <1>5
  <2> HIDE DEF f
  <2>4. QED
    BY <2>1, <2>2, <2>3 DEF Bijection, Injection, Surjection, IsInjective
<1>7. \A k \in D : Sorted(s)[k] = s[At(k)] /\ s[At(k)] \in Requests
  BY <1>4 DEF Sorted
<1>8. Sorted(s) \in Seq(Requests) /\ Len(Sorted(s)) = Len(s)
  <2>1. Sorted(s) = [k \in D |-> s[At(k)]]
    BY DEF Sorted
  <2>2. Sorted(s) \in [1 .. Len(s) -> Requests]
    BY <1>1, <1>7, <2>1
  <2>3. QED
    BY <1>1, <2>2
<1>9. ASSUME NEW j \in D, NEW k \in D, j < k
      PROVE  ~Before(Entry(Sorted(s)[k]), Entry(Sorted(s)[j]))
  <2>1. Follows(s, At(k), At(j))
    BY <1>4, <1>9, PlaceIsPosition
  <2>2. ~Before(Entry(s[At(k)]), Entry(s[At(j)]))
    BY <1>4, <2>1, FollowsIsTotal
  <2>3. QED
    BY <1>7, <2>2
<1>10. \A k \in D : Sorted(s)[k] = s[f[k]]
  BY <1>7
<1>11. QED
  BY <1>6, <1>8, <1>9, <1>10

(***************************************************************************)
(* Sets run the manager                                                    *)
(***************************************************************************)

SetShape ==
  /\ phase \in [Thread -> {"none", "acquiring", "unwinding", "owned"}]
  /\ todo \in [Thread -> Seq(Requests)]
  /\ guards \in [Thread -> Seq(Call)]

LEMMA InitSetShape == SetInit => SetShape
  BY DEF SetInit, SetShape

(* guards.push, guards.pop and the list of what is left. *)
LEMMA SequenceFacts ==
  ASSUME NEW S, NEW q \in Seq(S)
  PROVE  /\ q # <<>> => /\ Len(q) \in DOMAIN q /\ Last(q) = q[Len(q)]
                        /\ Front(q) \in Seq(S) /\ DOMAIN Front(q) = 1 .. Len(q) - 1
                        /\ \A k \in DOMAIN Front(q) : Front(q)[k] = q[k]
                        /\ Head(q) = q[1] /\ 1 \in DOMAIN q /\ Head(q) \in S
                        /\ Tail(q) \in Seq(S) /\ DOMAIN Tail(q) = 1 .. Len(q) - 1
                        /\ \A k \in DOMAIN Tail(q) : Tail(q)[k] = q[k + 1] /\ k + 1 \in DOMAIN q
         /\ \A x \in S : /\ Append(q, x) \in Seq(S)
                         /\ DOMAIN Append(q, x) = 1 .. Len(q) + 1
                         /\ \A k \in DOMAIN q : Append(q, x)[k] = q[k]
                         /\ Append(q, x)[Len(q) + 1] = x
         /\ DOMAIN q = 1 .. Len(q) /\ Len(q) \in Nat
<1>1. DOMAIN q = 1 .. Len(q) /\ Len(q) \in Nat
  OBVIOUS
<1>2. \A x \in S : /\ Append(q, x) \in Seq(S)
                   /\ DOMAIN Append(q, x) = 1 .. Len(q) + 1
                   /\ \A k \in DOMAIN q : Append(q, x)[k] = q[k]
                   /\ Append(q, x)[Len(q) + 1] = x
  OBVIOUS
<1>3. ASSUME q # <<>>
      PROVE  /\ Len(q) \in DOMAIN q /\ Last(q) = q[Len(q)]
             /\ Head(q) = q[1] /\ 1 \in DOMAIN q /\ Head(q) \in S
             /\ Tail(q) \in Seq(S) /\ DOMAIN Tail(q) = 1 .. Len(q) - 1
             /\ \A k \in DOMAIN Tail(q) : Tail(q)[k] = q[k + 1] /\ k + 1 \in DOMAIN q
  BY <1>3 DEF Last
<1>4. ASSUME q # <<>>
      PROVE  /\ Front(q) \in Seq(S) /\ DOMAIN Front(q) = 1 .. Len(q) - 1
             /\ \A k \in DOMAIN Front(q) : Front(q)[k] = q[k]
  <2>1. Len(q) - 1 \in Nat
    BY <1>1, <1>4
  <2>2. Front(q) = [k \in 1 .. Len(q) - 1 |-> q[k]]
    BY <2>1 DEF Front
  <2>3. QED
    BY <1>1, <2>1, <2>2
<1>5. QED
  BY <1>1, <1>2, <1>3, <1>4

LEMMA NextSetShape == SetShape /\ [SetNext]_allVars => SetShape'
<1> SUFFICES ASSUME SetShape, [SetNext]_allVars PROVE SetShape'
  OBVIOUS
<1> USE DEF SetShape, Goes, setVars
<1>1. ASSUME NEW t \in Thread, NEW s \in LockSets, AcquireMany(t, s) PROVE SetShape'
  <2>1. s \in Seq(Requests)
    BY LockSetAssumption
  <2>2. Sorted(s) \in Seq(Requests)
    BY <2>1, SortedIsSorted
  <2>3. QED
    BY <1>1, <2>2 DEF AcquireMany
<1>2. ASSUME NEW t \in Thread, StartMember(t) PROVE SetShape'
  BY <1>2 DEF StartMember
<1>3. ASSUME NEW t \in Thread, MemberRefused(t) PROVE SetShape'
  BY <1>3 DEF MemberRefused, GiveUp
<1>4. ASSUME NEW t \in Thread, ReleaseSet(t) PROVE SetShape'
  BY <1>4 DEF ReleaseSet
<1>5. ASSUME NEW t \in Thread, Pop(t) PROVE SetShape'
  <2>1. Front(guards[t]) \in Seq(Call)
    BY <1>5, SequenceFacts DEF Pop
  <2>2. QED
    BY <1>5, <2>1 DEF Pop
<1>6. ASSUME NEW c \in Call, KernelStep(c) PROVE SetShape'
  BY <1>6 DEF KernelStep
<1>7. ASSUME NEW c \in Call, MemberFails(c) PROVE SetShape'
  <2>1. phase' \in [Thread -> {"none", "acquiring", "unwinding", "owned"}]
    <3>1. \E x \in {"none", "unwinding"} : phase' = [phase EXCEPT ![thr[c]] = x]
      BY <1>7 DEF MemberFails, GiveUp
    <3>2. QED
      BY <3>1
  <2>2. todo' \in [Thread -> Seq(Requests)] /\ guards' = guards
    <3>1. <<>> \in Seq(Requests)
      OBVIOUS
    <3>2. todo' = [todo EXCEPT ![thr[c]] = <<>>] /\ guards' = guards
      BY <1>7 DEF MemberFails, GiveUp
    <3>3. QED
      BY <3>1, <3>2
  <2>3. QED
    BY <2>1, <2>2
<1>8. ASSUME NEW c \in Call, MemberAcquired(c) PROVE SetShape'
  <2>1. phase' \in [Thread -> {"none", "acquiring", "unwinding", "owned"}]
    BY <1>8 DEF MemberAcquired
  <2>2. \A t \in Thread : Append(guards[t], c) \in Seq(Call)
    OBVIOUS
  <2>3. guards' = [t \in Thread |-> IF t = thr[c] THEN Append(guards[t], c) ELSE guards[t]]
    BY <1>8 DEF MemberAcquired
  <2>4. guards' \in [Thread -> Seq(Call)]
    BY <2>2, <2>3
  <2>5. QED
    BY <1>8, <2>1, <2>4 DEF MemberAcquired
<1>9. ASSUME NEW c \in Call, Popped(c) PROVE SetShape'
  BY <1>9 DEF Popped
<1>10. ASSUME NEW p \in Process, CrashSets(p) PROVE SetShape'
  <2>1. phase' \in [Thread -> {"none", "acquiring", "unwinding", "owned"}]
    BY <1>10 DEF CrashSets
  <2>2. todo' \in [Thread -> Seq(Requests)]
    BY <1>10 DEF CrashSets
  <2>3. guards' \in [Thread -> Seq(Call)]
    BY <1>10 DEF CrashSets
  <2>4. QED
    BY <2>1, <2>2, <2>3
<1>11. CASE UNCHANGED allVars
  BY <1>11 DEF allVars
<1>12. QED
  BY <1>1, <1>2, <1>3, <1>4, <1>5, <1>6, <1>7, <1>8, <1>9, <1>10, <1>11
  DEF SetNext, SetStep, MemberStep

LEMMA StepIsManagerStep == ASSUME SetShape, [SetNext]_allVars PROVE [Next]_vars
<1>1. ASSUME NEW t \in Thread, NEW s \in LockSets, AcquireMany(t, s) PROVE UNCHANGED vars
  BY <1>1 DEF AcquireMany
<1>2. ASSUME NEW t \in Thread, StartMember(t) PROVE Next
  <2>1. todo[t] \in Seq(Requests) /\ guards[t] \in Seq(Call) /\ Slots[t] \in Seq(Call)
    BY LockSetAssumption DEF SetShape
  <2>2. Head(todo[t]) \in Requests
    BY <1>2, <2>1 DEF StartMember
  <2>3. Slots[t][Len(guards[t]) + 1] \in Call
    BY <1>2, <2>1 DEF StartMember
  <2>4. QED
    BY <1>2, <2>2, <2>3 DEF StartMember, Next
<1>3. ASSUME NEW t \in Thread, MemberRefused(t) \/ ReleaseSet(t) PROVE UNCHANGED vars
  BY <1>3 DEF MemberRefused, ReleaseSet
<1>4. ASSUME NEW t \in Thread, Pop(t) PROVE Next
  <2>1. guards[t] \in Seq(Call) /\ guards[t] # <<>>
    BY <1>4 DEF SetShape, Pop
  <2>2. Last(guards[t]) \in Call
    BY <2>1, SequenceFacts
  <2>3. QED
    BY <1>4, <2>2 DEF Pop, Next, CallStep
<1>5. ASSUME NEW c \in Call, KernelStep(c) \/ MemberStep(c) PROVE Next
  BY <1>5
  DEF KernelStep, MemberStep, MemberFails, MemberAcquired, Popped, Next, CallStep
<1>6. ASSUME NEW p \in Process, CrashSets(p) PROVE Next
  BY <1>6 DEF CrashSets, Next
<1>7. CASE UNCHANGED allVars
  BY <1>7 DEF allVars
<1>8. QED
  BY <1>1, <1>2, <1>3, <1>4, <1>5, <1>6, <1>7 DEF SetNext, SetStep

(* acquire_many_blocking does what its members do: every theorem about the
   manager holds of its lock sets. *)
THEOREM SetsRunTheManager == SetSpec => Spec
<1>1. SetInit => Init
  BY DEF SetInit
<1>2. QED
  BY <1>1, InitSetShape, NextSetShape, StepIsManagerStep, PTL DEF SetSpec, Spec

(***************************************************************************)
(* The members of a set                                                    *)
(***************************************************************************)

InFlight == {"blocking", "granted", "refused"}

(* A thread's calls are the guards of its set, and at most one member on
   its way in or out. *)
MemberInv(t) ==
  /\ \A k \in DOMAIN guards[t] : pc[guards[t][k]] = "held" /\ thr[guards[t][k]] = t
  /\ \A c \in Call : thr[c] = t =>
        /\ pc[c] \in InFlight \cup {"held", "unlocked"}
        /\ pc[c] = "held" => \E k \in DOMAIN guards[t] : guards[t][k] = c
        /\ pc[c] \in InFlight => phase[t] = "acquiring"
        /\ pc[c] = "unlocked" => phase[t] = "unwinding"
  /\ phase[t] = "none" => guards[t] = <<>>
  /\ phase[t] # "acquiring" => todo[t] = <<>>

(* Guards, the member under way and the members to come are of different
   identities, and in order. *)
Above(r, s) == r.id # s.id /\ ~Before(Entry(s), Entry(r))

LineInv(t) ==
  /\ \A j, k \in DOMAIN guards[t] : j < k => Above(req[guards[t][j]], req[guards[t][k]])
  /\ \A j, k \in DOMAIN todo[t] : j < k => Above(todo[t][j], todo[t][k])
  /\ \A j \in DOMAIN guards[t], k \in DOMAIN todo[t] : Above(req[guards[t][j]], todo[t][k])
  /\ \A c \in Call : thr[c] = t /\ pc[c] \in InFlight =>
        /\ \A j \in DOMAIN guards[t] : Above(req[guards[t][j]], req[c])
        /\ \A k \in DOMAIN todo[t] : Above(req[c], todo[t][k])

(* HELD_LOCK_ORDER has one entry for each guard of the set, and no other. *)
HasGuard(t, e) == \E k \in DOMAIN guards[t] : Entry(req[guards[t][k]]) = e

CountInv(t) == \A e \in Entries : order[t][e] = IF HasGuard(t, e) THEN 1 ELSE 0

ThreadInv(t) == MemberInv(t) /\ LineInv(t) /\ CountInv(t)

SetInv == OrderInv /\ SetShape /\ \A t \in Thread : ThreadInv(t)

LEMMA InitSetInv == SetInit => SetInv
<1> SUFFICES ASSUME SetInit PROVE SetInv
  OBVIOUS
<1>1. OrderInv /\ SetShape
  BY InitOrderInv, InitSetShape DEF SetInit
<1>2. ASSUME NEW t \in Thread PROVE ThreadInv(t)
  <2>1. guards[t] = <<>> /\ todo[t] = <<>> /\ phase[t] = "none" /\ \A c \in Call : thr[c] # t
    BY ConstantsAssumption DEF SetInit, Init
  <2>2. \A e \in Entries : order[t][e] = 0
    BY DEF SetInit, Init
  <2>3. QED
    BY <2>1, <2>2 DEF ThreadInv, MemberInv, LineInv, CountInv, HasGuard
<1>3. QED
  BY <1>1, <1>2 DEF SetInv

(* A step that leaves a thread's set alone, but for the kernel's answer to
   the member under way. *)
Untouched(u) ==
  /\ phase'[u] = phase[u] /\ todo'[u] = todo[u] /\ guards'[u] = guards[u]
  /\ order'[u] = order[u]
  /\ \A c \in Call :
        /\ thr'[c] = u <=> thr[c] = u
        /\ thr[c] = u => /\ req'[c] = req[c]
                         /\ \/ pc'[c] = pc[c]
                            \/ pc[c] \in InFlight /\ pc'[c] \in InFlight

LEMMA UntouchedInv ==
  ASSUME SetShape, NEW u \in Thread, ThreadInv(u), Untouched(u)
  PROVE  ThreadInv(u)'
<1>1. \A k \in DOMAIN guards[u] : guards[u][k] \in Call
  BY DEF SetShape
<1>2. \A k \in DOMAIN guards[u] :
         /\ pc'[guards[u][k]] = "held" /\ thr'[guards[u][k]] = u
         /\ req'[guards[u][k]] = req[guards[u][k]]
  BY <1>1 DEF Untouched, ThreadInv, MemberInv, InFlight
<1>3. MemberInv(u)'
  BY <1>2 DEF Untouched, ThreadInv, MemberInv, InFlight
<1>4. LineInv(u)'
  <2>1. \A j, k \in DOMAIN guards[u] : j < k => Above(req'[guards[u][j]], req'[guards[u][k]])
    BY <1>2 DEF ThreadInv, LineInv
  <2>2. \A j \in DOMAIN guards[u], k \in DOMAIN todo[u] : Above(req'[guards[u][j]], todo[u][k])
    BY <1>2 DEF ThreadInv, LineInv
  <2>3. ASSUME NEW c \in Call, thr'[c] = u, pc'[c] \in InFlight
        PROVE  /\ \A j \in DOMAIN guards[u] : Above(req'[guards[u][j]], req'[c])
               /\ \A k \in DOMAIN todo[u] : Above(req'[c], todo[u][k])
    <3>1. thr[c] = u /\ pc[c] \in InFlight /\ req'[c] = req[c]
      BY <2>3 DEF Untouched
    <3>2. QED
      BY <1>2, <3>1 DEF ThreadInv, LineInv
  <2>4. \A j, k \in DOMAIN todo[u] : j < k => Above(todo[u][j], todo[u][k])
    BY DEF ThreadInv, LineInv
  <2>5. guards'[u] = guards[u] /\ todo'[u] = todo[u]
    BY DEF Untouched
  <2>6. QED
    BY <2>1, <2>2, <2>3, <2>4, <2>5 DEF LineInv, Above
<1>5. CountInv(u)'
  BY <1>2 DEF Untouched, ThreadInv, CountInv, HasGuard
<1>6. QED
  BY <1>3, <1>4, <1>5 DEF ThreadInv

(* With phase "none" a thread has nothing. *)
LEMMA NoneIsNothing ==
  ASSUME NEW t \in Thread, ThreadInv(t), phase[t] = "none"
  PROVE  /\ guards[t] = <<>> /\ todo[t] = <<>>
         /\ \A c \in Call : thr[c] # t
         /\ \A e \in Entries : order[t][e] = 0
<1>1. guards[t] = <<>> /\ todo[t] = <<>> /\ DOMAIN guards[t] = {}
  BY DEF ThreadInv, MemberInv
<1>2. \A c \in Call : thr[c] # t
  BY <1>1 DEF ThreadInv, MemberInv
<1>3. \A e \in Entries : order[t][e] = 0
  BY <1>1 DEF ThreadInv, CountInv, HasGuard
<1>4. QED
  BY <1>1, <1>2, <1>3

(* The sorted list of a set without duplicates. *)
LEMMA SortedLine ==
  ASSUME NEW s \in Seq(Requests), ~Duplicates(s)
  PROVE  \A j, k \in DOMAIN Sorted(s) : j < k => Above(Sorted(s)[j], Sorted(s)[k])
<1>1. DOMAIN Sorted(s) = DOMAIN s
  BY SortedIsSorted DEF Sorted
<1>2. PICK f \in Bijection(DOMAIN s, DOMAIN s) : \A k \in DOMAIN s : Sorted(s)[k] = s[f[k]]
  BY SortedIsSorted
<1>3. ASSUME NEW j \in DOMAIN s, NEW k \in DOMAIN s, j < k
      PROVE  Above(Sorted(s)[j], Sorted(s)[k])
  <2>1. j # k
    BY <1>3
  <2>2. f[j] \in DOMAIN s /\ f[k] \in DOMAIN s /\ f[j] # f[k]
    BY <1>2, <2>1 DEF Bijection, Injection, IsInjective
  <2>3. Sorted(s)[j].id # Sorted(s)[k].id
    BY <1>2, <2>2 DEF Duplicates
  <2>4. ~Before(Entry(Sorted(s)[k]), Entry(Sorted(s)[j]))
    BY <1>3, SortedIsSorted
  <2>5. QED
    BY <2>3, <2>4 DEF Above
<1>4. QED
  BY <1>1, <1>3

LEMMA AcquireManyInv ==
  ASSUME SetInv, NEW t \in Thread, NEW s \in LockSets, AcquireMany(t, s), NEW u \in Thread
  PROVE  ThreadInv(u)'
<1>1. SetShape /\ ThreadInv(u) /\ ThreadInv(t)
  BY DEF SetInv
<1>2. CASE u # t
  <2>1. Untouched(u)
    BY <1>1, <1>2 DEF AcquireMany, vars, Goes, Untouched, SetShape
  <2>2. QED
    BY <1>1, <2>1, UntouchedInv
<1>3. CASE u = t
  <2>1. s \in Seq(Requests) /\ ~Duplicates(s)
    BY LockSetAssumption DEF AcquireMany
  <2>2. /\ guards' = guards /\ todo'[t] = Sorted(s)
        /\ pc' = pc /\ thr' = thr /\ req' = req /\ order' = order
        /\ phase'[t] = IF s = <<>> THEN "owned" ELSE "acquiring"
    BY <1>1 DEF AcquireMany, vars, Goes, SetShape
  <2>3. phase[t] = "none"
    BY DEF AcquireMany
  <2>4. guards[t] = <<>> /\ \A c \in Call : thr[c] # t
    BY <1>1, <2>3, NoneIsNothing
  <2>5. s = <<>> => Sorted(s) = <<>>
    <3>1. Sorted(s) \in Seq(Requests) /\ Len(Sorted(s)) = Len(s)
      BY <2>1, SortedIsSorted, Zenon
    <3>2. QED
      BY <3>1
  <2>6. MemberInv(t)'
    BY <2>2, <2>4, <2>5 DEF MemberInv
  <2>7. LineInv(t)'
    <3>1. \A j, k \in DOMAIN Sorted(s) : j < k => Above(Sorted(s)[j], Sorted(s)[k])
      BY <2>1, SortedLine
    <3>2. DOMAIN guards'[t] = {} /\ \A c \in Call : thr'[c] # t
      BY <2>2, <2>4
    <3>3. QED
      BY <2>2, <3>1, <3>2 DEF LineInv, Above
  <2>8. CountInv(t)'
    BY <1>1, <2>2 DEF ThreadInv, CountInv, HasGuard
  <2>9. QED
    BY <1>3, <2>6, <2>7, <2>8 DEF ThreadInv
<1>4. QED
  BY <1>2, <1>3

(* The thread of a call under way, and that it is in no other call. *)
LEMMA CallThread ==
  ASSUME SetInv, NEW c \in Call, pc[c] \notin Inactive
  PROVE  /\ thr[c] \in Thread /\ req[c] \in Requests /\ Entry(req[c]) \in Entries
         /\ pc[c] # "held" =>
               \A d \in Call : thr[d] = thr[c] /\ pc[d] \notin Inactive \cup {"held"} => d = c
<1>1. TypeOK /\ OneCallPerThread
  BY DEF SetInv, OrderInv, OrderFacts, Exclusion
<1>2. QED
  BY <1>1, EntryInEntries DEF TypeOK, OneCallPerThread, InCall

LEMMA StartMemberInv ==
  ASSUME SetInv, NEW t \in Thread, StartMember(t), NEW u \in Thread
  PROVE  ThreadInv(u)'
<1> DEFINE c == Slots[t][Len(guards[t]) + 1]
           r == Head(todo[t])
<1>0. SetShape /\ ThreadInv(u) /\ ThreadInv(t) /\ TypeOK
  BY DEF SetInv, OrderInv, Exclusion
<1>1. todo[t] \in Seq(Requests) /\ guards[t] \in Seq(Call) /\ Slots[t] \in Seq(Call)
  BY <1>0, LockSetAssumption DEF SetShape
<1>2. c \in Call
  BY <1>1 DEF StartMember
<1>3. todo[t] # <<>> /\ r \in Requests
  BY <1>1 DEF StartMember
<1> HIDE DEF c, r
<1>4. /\ pc[c] = "idle" /\ ~Busy(t) /\ phase[t] = "acquiring"
      /\ pc' = [pc EXCEPT ![c] = "blocking"] /\ thr' = [thr EXCEPT ![c] = t]
      /\ req' = [req EXCEPT ![c] = r] /\ order' = order
      /\ todo' = [todo EXCEPT ![t] = Tail(@)] /\ UNCHANGED <<phase, guards>>
  BY DEF StartMember, Acquiring, AcquireBlocking, Start, Goto, c, r
<1>5. \A v \in Thread : thr[c] # v
  <2>1. \A v \in Thread : thr[c] = v => pc[c] \in InFlight \cup {"held", "unlocked"}
    BY <1>2 DEF SetInv, ThreadInv, MemberInv
  <2>2. QED
    BY <1>4, <2>1 DEF InFlight
<1>6. \A d \in Call : d # c => pc'[d] = pc[d] /\ thr'[d] = thr[d] /\ req'[d] = req[d]
  BY <1>0, <1>2, <1>4 DEF TypeOK
<1>7. pc'[c] = "blocking" /\ thr'[c] = t /\ req'[c] = r
  BY <1>0, <1>2, <1>4 DEF TypeOK
<1>8. CASE u # t
  <2>1. Untouched(u)
    BY <1>0, <1>4, <1>5, <1>6, <1>7, <1>8 DEF Untouched, SetShape
  <2>2. QED
    BY <1>0, <2>1, UntouchedInv
<1>9. CASE u = t
  <2>1. \A d \in Call : thr[d] = t => pc[d] = "held"
    BY <1>0, <1>4 DEF Busy, Inactive, ThreadInv, MemberInv, InFlight
  <2>2. \A k \in DOMAIN guards[t] : /\ guards[t][k] \in Call /\ guards[t][k] # c
                                    /\ thr[guards[t][k]] = t /\ pc[guards[t][k]] = "held"
    BY <1>0, <1>1, <1>4 DEF ThreadInv, MemberInv
  <2>3. MemberInv(t)'
    <3>1. \A k \in DOMAIN guards[t] : pc'[guards[t][k]] = "held" /\ thr'[guards[t][k]] = t
      BY <1>6, <2>2
    <3>2. ASSUME NEW d \in Call, thr'[d] = t
          PROVE  /\ pc'[d] \in InFlight \cup {"held", "unlocked"}
                 /\ pc'[d] = "held" => \E k \in DOMAIN guards[t] : guards[t][k] = d
                 /\ pc'[d] = "unlocked" => phase[t] = "unwinding"
      BY <1>0, <1>6, <1>7, <2>1, <3>2 DEF ThreadInv, MemberInv, InFlight
    <3>3. QED
      BY <1>4, <3>1, <3>2 DEF MemberInv
  <2>4. /\ todo'[t] = Tail(todo[t])
        /\ \A k \in DOMAIN todo'[t] : /\ todo'[t][k] = todo[t][k + 1]
                                      /\ k + 1 \in DOMAIN todo[t] /\ k \in Nat /\ k >= 1
        /\ 1 \in DOMAIN todo[t] /\ r = todo[t][1]
    BY <1>0, <1>1, <1>3, <1>4, SequenceFacts DEF SetShape, r
  <2>5. LineInv(t)'
    <3>1. \A j, k \in DOMAIN guards[t] : j < k => Above(req'[guards[t][j]], req'[guards[t][k]])
      BY <1>0, <1>6, <2>2 DEF ThreadInv, LineInv
    <3>2. \A j, k \in DOMAIN todo'[t] : j < k => Above(todo'[t][j], todo'[t][k])
      BY <1>0, <2>4 DEF ThreadInv, LineInv
    <3>3. \A j \in DOMAIN guards[t], k \in DOMAIN todo'[t] : Above(req'[guards[t][j]], todo'[t][k])
      BY <1>0, <1>6, <2>2, <2>4 DEF ThreadInv, LineInv
    <3>4. \A j \in DOMAIN guards[t] : Above(req'[guards[t][j]], r)
      BY <1>0, <1>6, <2>2, <2>4 DEF ThreadInv, LineInv
    <3>5. \A k \in DOMAIN todo'[t] : Above(r, todo'[t][k])
      BY <1>0, <2>4 DEF ThreadInv, LineInv
    <3>6. \A d \in Call : thr'[d] = t /\ pc'[d] \in InFlight => d = c
      BY <1>6, <2>1 DEF InFlight
    <3>7. guards'[t] = guards[t]
      BY <1>4
    <3>8. QED
      BY <1>7, <3>1, <3>2, <3>3, <3>4, <3>5, <3>6, <3>7 DEF LineInv, Above
  <2>6. CountInv(t)'
    BY <1>0, <1>4, <1>6, <2>2 DEF ThreadInv, CountInv, HasGuard
  <2>7. QED
    BY <1>9, <2>3, <2>5, <2>6 DEF ThreadInv
<1>10. QED
  BY <1>8, <1>9

(* The members to come are dropped, and none is under way. *)
LEMMA GivenUpInv ==
  ASSUME SetShape, NEW t \in Thread, ThreadInv(t), GiveUp(t), order' = order,
         \A c \in Call : pc[c] = "held" /\ thr[c] = t =>
                            pc'[c] = "held" /\ thr'[c] = t /\ req'[c] = req[c],
         \A c \in Call : thr'[c] = t => pc'[c] = "held" /\ thr[c] = t /\ pc[c] = "held"
  PROVE  ThreadInv(t)'
<1>1. /\ guards'[t] = guards[t] /\ todo'[t] = <<>>
      /\ phase'[t] = IF guards[t] = <<>> THEN "none" ELSE "unwinding"
  BY DEF GiveUp, Goes, SetShape
<1>2. \A k \in DOMAIN guards[t] :
         /\ guards[t][k] \in Call
         /\ pc'[guards[t][k]] = "held" /\ thr'[guards[t][k]] = t
         /\ req'[guards[t][k]] = req[guards[t][k]]
  BY DEF SetShape, ThreadInv, MemberInv
<1>3. MemberInv(t)'
  BY <1>1, <1>2 DEF ThreadInv, MemberInv, InFlight
<1>4. LineInv(t)'
  <2>1. \A j, k \in DOMAIN guards[t] : j < k => Above(req'[guards[t][j]], req'[guards[t][k]])
    BY <1>2 DEF ThreadInv, LineInv
  <2>2. DOMAIN todo'[t] = {} /\ \A c \in Call : thr'[c] = t => pc'[c] \notin InFlight
    BY <1>1 DEF InFlight
  <2>3. QED
    BY <1>1, <2>1, <2>2 DEF LineInv, Above
<1>5. CountInv(t)'
  BY <1>1, <1>2 DEF ThreadInv, CountInv, HasGuard
<1>6. QED
  BY <1>3, <1>4, <1>5 DEF ThreadInv

LEMMA MemberRefusedInv ==
  ASSUME SetInv, NEW t \in Thread, MemberRefused(t), NEW u \in Thread
  PROVE  ThreadInv(u)'
<1>1. SetShape /\ ThreadInv(u) /\ ThreadInv(t)
  BY DEF SetInv
<1>2. GiveUp(t) /\ ~Busy(t) /\ pc' = pc /\ thr' = thr /\ req' = req /\ order' = order
  BY DEF MemberRefused, Acquiring, vars
<1>3. CASE u # t
  <2>1. Untouched(u)
    BY <1>1, <1>2, <1>3 DEF GiveUp, Goes, Untouched, SetShape
  <2>2. QED
    BY <1>1, <2>1, UntouchedInv
<1>4. CASE u = t
  <2>1. \A c \in Call : thr[c] = t => pc[c] = "held"
    BY <1>1, <1>2 DEF Busy, Inactive, ThreadInv, MemberInv, InFlight
  <2>2. QED
    BY <1>1, <1>2, <1>4, <2>1, GivenUpInv
<1>5. QED
  BY <1>3, <1>4

LEMMA ReleaseSetInv ==
  ASSUME SetInv, NEW t \in Thread, ReleaseSet(t), NEW u \in Thread
  PROVE  ThreadInv(u)'
<1>1. SetShape /\ ThreadInv(u)
  BY DEF SetInv
<1>2. /\ pc' = pc /\ thr' = thr /\ req' = req /\ order' = order
      /\ todo' = todo /\ guards' = guards
      /\ phase[t] = "owned"
      /\ phase' = [phase EXCEPT ![t] = IF guards[t] = <<>> THEN "none" ELSE "unwinding"]
  BY DEF ReleaseSet, vars, Goes
<1>3. CASE u # t
  <2>1. Untouched(u)
    BY <1>1, <1>2, <1>3 DEF Untouched, SetShape
  <2>2. QED
    BY <1>1, <2>1, UntouchedInv
<1>4. CASE u = t
  <2>1. MemberInv(t)'
    BY <1>1, <1>2, <1>4 DEF SetShape, ThreadInv, MemberInv, InFlight
  <2>2. LineInv(t)'
    BY <1>1, <1>2, <1>4 DEF ThreadInv, LineInv, Above
  <2>3. CountInv(t)'
    BY <1>1, <1>2, <1>4 DEF ThreadInv, CountInv, HasGuard
  <2>4. QED
    BY <1>4, <2>1, <2>2, <2>3 DEF ThreadInv
<1>5. QED
  BY <1>3, <1>4

LEMMA KernelStepInv ==
  ASSUME SetInv, NEW c \in Call, KernelStep(c), NEW u \in Thread
  PROVE  ThreadInv(u)'
<1>1. SetShape /\ ThreadInv(u) /\ TypeOK
  BY DEF SetInv, OrderInv, Exclusion
<1>2. /\ UNCHANGED <<thr, req, order, phase, todo, guards>>
      /\ pc[c] \in {"blocking", "trying"} /\ \A d \in Call : d # c => pc'[d] = pc[d]
      /\ pc'[c] \in InFlight
  BY <1>1 DEF KernelStep, KernelGrant, NativeError, Goto, setVars, TypeOK, InFlight
<1>3. thr[c] = u => pc[c] \in InFlight
  BY <1>1, <1>2 DEF ThreadInv, MemberInv, InFlight
<1>4. Untouched(u)
  BY <1>1, <1>2, <1>3 DEF Untouched
<1>5. QED
  BY <1>1, <1>4, UntouchedInv

LEMMA PopInv ==
  ASSUME SetInv, NEW t \in Thread, Pop(t), NEW u \in Thread
  PROVE  ThreadInv(u)'
<1>0. SetShape /\ ThreadInv(u) /\ ThreadInv(t) /\ TypeOK
  BY DEF SetInv, OrderInv, Exclusion
<1>a. PICK n \in Nat : n = Len(guards[t])
  BY <1>0 DEF SetShape
<1>b. /\ guards[t] \in Seq(Call) /\ guards[t] # <<>>
      /\ n \in DOMAIN guards[t] /\ DOMAIN guards[t] = 1 .. n
  BY <1>0, <1>a, SequenceFacts DEF SetShape, Pop
<1>c. PICK c \in Call : c = guards[t][n]
  BY <1>b
<1>d. c = Last(guards[t])
  BY <1>a, <1>b, <1>c, SequenceFacts
<1>1. n \in DOMAIN guards[t] /\ DOMAIN guards[t] = 1 .. n /\ guards[t][n] = c
  BY <1>b, <1>c
<1>2. /\ pc[c] = "held" /\ thr[c] = t /\ phase[t] = "unwinding" /\ ~Busy(t)
  BY <1>0, <1>1, <1>d DEF Pop, Release, ThreadInv, MemberInv
<1>3. /\ pc' = [pc EXCEPT ![c] = "unlocked"] /\ thr' = thr /\ req' = req
      /\ Unregister(t, Entry(req[c]))
      /\ guards' = [guards EXCEPT ![t] = Front(@)] /\ phase' = phase /\ todo' = todo
  BY <1>d, <1>2 DEF Pop, Release, Goto
<1>4. \A d \in Call : d # c => pc'[d] = pc[d]
  BY <1>0, <1>3 DEF TypeOK
<1>5. CASE u # t
  <2>1. order'[u] = order[u]
    BY <1>0, <1>3, <1>5 DEF Unregister, TypeOK
  <2>2. Untouched(u)
    BY <1>0, <1>2, <1>3, <1>4, <1>5, <2>1 DEF Untouched, SetShape
  <2>3. QED
    BY <1>0, <2>2, UntouchedInv
<1>6. CASE u = t
  <2>1. /\ DOMAIN guards'[t] = 1 .. n - 1
        /\ \A k \in DOMAIN guards'[t] : guards'[t][k] = guards[t][k] /\ k \in DOMAIN guards[t]
                                        /\ k < n
    <3>1. guards'[t] = Front(guards[t])
      BY <1>0, <1>3 DEF SetShape
    <3>2. /\ DOMAIN Front(guards[t]) = 1 .. n - 1
          /\ \A k \in DOMAIN Front(guards[t]) : Front(guards[t])[k] = guards[t][k]
      BY <1>a, <1>b, SequenceFacts
    <3>3. QED
      BY <1>1, <3>1, <3>2
  <2>2. \A k \in DOMAIN guards'[t] :
           /\ guards[t][k] \in Call /\ guards[t][k] # c
           /\ pc[guards[t][k]] = "held" /\ thr[guards[t][k]] = t
           /\ req[guards[t][k]].id # req[c].id
    <3>1. \A k \in DOMAIN guards'[t] : Above(req[guards[t][k]], req[c])
      BY <1>0, <1>1, <2>1 DEF ThreadInv, LineInv
    <3>2. \A k \in DOMAIN guards[t] :
             /\ guards[t][k] \in Call /\ pc[guards[t][k]] = "held" /\ thr[guards[t][k]] = t
      BY <1>0, <1>b DEF ThreadInv, MemberInv
    <3>3. QED
      BY <2>1, <3>1, <3>2 DEF Above
  <2>3. MemberInv(t)'
    <3>1. \A k \in DOMAIN guards'[t] : pc'[guards'[t][k]] = "held" /\ thr'[guards'[t][k]] = t
      BY <1>3, <1>4, <2>1, <2>2
    <3>2. ASSUME NEW d \in Call, thr'[d] = t
          PROVE  /\ pc'[d] \in InFlight \cup {"held", "unlocked"}
                 /\ pc'[d] = "held" => \E k \in DOMAIN guards'[t] : guards'[t][k] = d
                 /\ pc'[d] \notin InFlight
      <4>1. CASE d = c
        BY <1>0, <1>1, <1>3, <4>1 DEF TypeOK, InFlight
      <4>2. CASE d # c
        <5>1. thr[d] = t /\ pc'[d] = pc[d] /\ pc[d] \in {"held", "unlocked"}
          BY <1>0, <1>2, <1>3, <1>4, <3>2, <4>2 DEF ThreadInv, MemberInv, InFlight
        <5>2. pc[d] = "held" => \E k \in DOMAIN guards[t] : guards[t][k] = d
          BY <1>0, <5>1 DEF ThreadInv, MemberInv
        <5>3. pc[d] = "held" => \E k \in DOMAIN guards'[t] : guards'[t][k] = d
          BY <1>1, <2>1, <4>2, <5>2
        <5>4. QED
          BY <5>1, <5>3 DEF InFlight
      <4>3. QED
        BY <4>1, <4>2
    <3>3. phase'[t] = "unwinding" /\ todo'[t] = <<>>
      BY <1>0, <1>2, <1>3 DEF ThreadInv, MemberInv
    <3>4. QED
      BY <3>1, <3>2, <3>3 DEF MemberInv
  <2>4. LineInv(t)'
    <3>1. \A j, k \in DOMAIN guards'[t] : j < k => Above(req[guards'[t][j]], req[guards'[t][k]])
      BY <1>0, <2>1 DEF ThreadInv, LineInv
    <3>2. todo'[t] = <<>> /\ DOMAIN todo'[t] = {}
      BY <1>0, <1>2, <1>3 DEF ThreadInv, MemberInv
    <3>3. \A d \in Call : thr'[d] = t => pc'[d] \notin InFlight
      BY <2>3, <1>2, <1>3 DEF MemberInv
    <3>4. QED
      BY <1>3, <3>1, <3>2, <3>3 DEF LineInv, Above
  <2>5. CountInv(t)'
    <3>1. req[c] \in Requests /\ Entry(req[c]) \in Entries
      BY <1>1, <1>2, CallThread DEF Inactive
    <3>2. HasGuard(t, Entry(req[c]))
      BY <1>1 DEF HasGuard
    <3>3. order[t][Entry(req[c])] = 1
      BY <1>0, <3>1, <3>2 DEF ThreadInv, CountInv
    <3>4. order'[t][Entry(req[c])] = 0
      BY <1>0, <1>3, <3>1, <3>3 DEF Unregister, TypeOK
    <3>5. \A k \in DOMAIN guards'[t] : Entry(req'[guards'[t][k]]) # Entry(req[c])
      BY <1>3, <2>1, <2>2 DEF Entry
    <3>6. ASSUME NEW e \in Entries, e # Entry(req[c])
          PROVE  order'[t][e] = order[t][e] /\ (HasGuard(t, e)' <=> HasGuard(t, e))
      <4>1. order'[t][e] = order[t][e]
        BY <1>0, <1>3, <3>6 DEF Unregister, TypeOK
      <4>2. HasGuard(t, e)' => HasGuard(t, e)
        BY <1>3, <2>1 DEF HasGuard
      <4>3. ASSUME NEW k \in DOMAIN guards[t], Entry(req[guards[t][k]]) = e
            PROVE  k \in DOMAIN guards'[t] /\ Entry(req'[guards'[t][k]]) = e
        BY <1>1, <1>3, <2>1, <3>6, <4>3
      <4>4. QED
        BY <4>1, <4>2, <4>3 DEF HasGuard
    <3>7. QED
      BY <1>0, <3>4, <3>5, <3>6 DEF ThreadInv, CountInv, HasGuard
  <2>6. QED
    BY <1>6, <2>3, <2>4, <2>5 DEF ThreadInv
<1>7. QED
  BY <1>5, <1>6

(* A call that ends is no thread's any more. *)
LEMMA Finished ==
  ASSUME TypeOK, NEW c \in Call, Finish(c)
  PROVE  /\ \A v \in Thread : thr'[c] # v
         /\ \A d \in Call : d # c => pc'[d] = pc[d] /\ thr'[d] = thr[d] /\ req'[d] = req[d]
  BY ConstantsAssumption DEF Finish, Goto, TypeOK

LEMMA MemberFailsInv ==
  ASSUME SetInv, NEW c \in Call, MemberFails(c), NEW u \in Thread
  PROVE  ThreadInv(u)'
<1>0. SetShape /\ ThreadInv(u) /\ TypeOK
  BY DEF SetInv, OrderInv, Exclusion
<1>1. pc[c] = "refused" /\ Finish(c) /\ order' = order /\ GiveUp(thr[c])
  BY DEF MemberFails, AbandonAttempt
<1>2. /\ thr[c] \in Thread
      /\ \A d \in Call : thr[d] = thr[c] /\ pc[d] \notin Inactive \cup {"held"} => d = c
  BY <1>1, CallThread DEF Inactive
<1>3. /\ \A v \in Thread : thr'[c] # v
      /\ \A d \in Call : d # c => pc'[d] = pc[d] /\ thr'[d] = thr[d] /\ req'[d] = req[d]
  BY <1>0, <1>1, Finished
<1>4. CASE u # thr[c]
  <2>1. Untouched(u)
    BY <1>0, <1>1, <1>2, <1>3, <1>4 DEF GiveUp, Goes, Untouched, SetShape
  <2>2. QED
    BY <1>0, <2>1, UntouchedInv
<1>5. CASE u = thr[c]
  <2>1. \A d \in Call : pc[d] = "held" /\ thr[d] = u =>
                           pc'[d] = "held" /\ thr'[d] = u /\ req'[d] = req[d]
    BY <1>1, <1>3
  <2>2. \A d \in Call : thr'[d] = u => pc'[d] = "held" /\ thr[d] = u /\ pc[d] = "held"
    <3> SUFFICES ASSUME NEW d \in Call, thr'[d] = u
                 PROVE  pc'[d] = "held" /\ thr[d] = u /\ pc[d] = "held"
      OBVIOUS
    <3>1. d # c
      BY <1>3
    <3>2. thr[d] = u /\ pc'[d] = pc[d]
      BY <1>3, <3>1
    <3>3. pc[d] \in InFlight \cup {"held", "unlocked"}
      BY <1>0, <3>2 DEF ThreadInv, MemberInv
    <3>4. QED
      BY <1>2, <1>5, <3>1, <3>2, <3>3 DEF InFlight, Inactive
  <2>3. QED
    BY <1>0, <1>1, <1>5, <2>1, <2>2, GivenUpInv
<1>6. QED
  BY <1>4, <1>5

LEMMA PoppedInv ==
  ASSUME SetInv, NEW c \in Call, Popped(c), NEW u \in Thread
  PROVE  ThreadInv(u)'
<1>0. SetShape /\ ThreadInv(u) /\ TypeOK
  BY DEF SetInv, OrderInv, Exclusion
<1>1. /\ pc[c] = "unlocked" /\ Finish(c) /\ order' = order /\ todo' = todo /\ guards' = guards
      /\ IF guards[thr[c]] = <<>> THEN Goes(thr[c], "none") ELSE phase' = phase
  BY DEF Popped, FinishRelease
<1>2. /\ thr[c] \in Thread
      /\ \A d \in Call : thr[d] = thr[c] /\ pc[d] \notin Inactive \cup {"held"} => d = c
  BY <1>1, CallThread DEF Inactive
<1>3. /\ \A v \in Thread : thr'[c] # v
      /\ \A d \in Call : d # c => pc'[d] = pc[d] /\ thr'[d] = thr[d] /\ req'[d] = req[d]
  BY <1>0, <1>1, Finished
<1>4. CASE u # thr[c]
  <2>1. Untouched(u)
    BY <1>0, <1>1, <1>2, <1>3, <1>4 DEF Goes, Untouched, SetShape
  <2>2. QED
    BY <1>0, <2>1, UntouchedInv
<1>5. CASE u = thr[c]
  <2>1. phase[u] = "unwinding" /\ todo[u] = <<>>
    BY <1>0, <1>1, <1>5 DEF ThreadInv, MemberInv
  <2>2. phase'[u] = IF guards[u] = <<>> THEN "none" ELSE "unwinding"
    BY <1>0, <1>1, <1>2, <1>5, <2>1 DEF Goes, SetShape
  <2>3. \A d \in Call : thr'[d] = u => d # c /\ thr[d] = u /\ pc'[d] = "held" /\ pc[d] = "held"
    <3> SUFFICES ASSUME NEW d \in Call, thr'[d] = u
                 PROVE  d # c /\ thr[d] = u /\ pc'[d] = "held" /\ pc[d] = "held"
      OBVIOUS
    <3>1. d # c
      BY <1>3
    <3>2. thr[d] = u /\ pc'[d] = pc[d]
      BY <1>3, <3>1
    <3>3. pc[d] \in InFlight \cup {"held", "unlocked"}
      BY <1>0, <3>2 DEF ThreadInv, MemberInv
    <3>4. QED
      BY <1>2, <1>5, <3>1, <3>2, <3>3 DEF InFlight, Inactive
  <2>4. \A k \in DOMAIN guards[u] :
           /\ pc'[guards[u][k]] = "held" /\ thr'[guards[u][k]] = u
           /\ req'[guards[u][k]] = req[guards[u][k]]
    <3> SUFFICES ASSUME NEW k \in DOMAIN guards[u]
                 PROVE  /\ pc'[guards[u][k]] = "held" /\ thr'[guards[u][k]] = u
                        /\ req'[guards[u][k]] = req[guards[u][k]]
      OBVIOUS
    <3>1. guards[u][k] \in Call /\ pc[guards[u][k]] = "held" /\ thr[guards[u][k]] = u
      BY <1>0 DEF SetShape, ThreadInv, MemberInv
    <3>2. QED
      BY <1>1, <1>3, <3>1
  <2>5. MemberInv(u)'
    BY <1>0, <1>1, <2>1, <2>2, <2>3, <2>4 DEF ThreadInv, MemberInv, InFlight
  <2>6. LineInv(u)'
    <3>1. \A j, k \in DOMAIN guards[u] : j < k => Above(req'[guards[u][j]], req'[guards[u][k]])
      BY <1>0, <2>4 DEF ThreadInv, LineInv
    <3>2. DOMAIN todo'[u] = {} /\ guards'[u] = guards[u]
      BY <1>1, <2>1
    <3>3. \A d \in Call : thr'[d] = u => pc'[d] \notin InFlight
      BY <2>3 DEF InFlight
    <3>4. QED
      BY <3>1, <3>2, <3>3 DEF LineInv, Above
  <2>7. CountInv(u)'
    BY <1>0, <1>1, <2>4 DEF ThreadInv, CountInv, HasGuard
  <2>8. QED
    BY <2>5, <2>6, <2>7 DEF ThreadInv
<1>6. QED
  BY <1>4, <1>5

LEMMA MemberAcquiredInv ==
  ASSUME SetInv, NEW c \in Call, MemberAcquired(c), NEW u \in Thread
  PROVE  ThreadInv(u)'
<1>0. SetShape /\ ThreadInv(u) /\ TypeOK
  BY DEF SetInv, OrderInv, Exclusion
<1>1. /\ pc[c] = "granted" /\ pc' = [pc EXCEPT ![c] = "held"] /\ thr' = thr /\ req' = req
      /\ Register(thr[c], Entry(req[c]))
      /\ guards' = [guards EXCEPT ![thr[c]] = Append(@, c)] /\ todo' = todo
      /\ IF todo[thr[c]] = <<>> THEN Goes(thr[c], "owned") ELSE phase' = phase
  BY DEF MemberAcquired, ReturnGuard, Goto
<1>2. /\ thr[c] \in Thread /\ req[c] \in Requests /\ Entry(req[c]) \in Entries
      /\ \A d \in Call : thr[d] = thr[c] /\ pc[d] \notin Inactive \cup {"held"} => d = c
  BY <1>1, CallThread DEF Inactive
<1>3. pc'[c] = "held" /\ \A d \in Call : d # c => pc'[d] = pc[d]
  BY <1>0, <1>1 DEF TypeOK
<1>4. CASE u # thr[c]
  <2>1. order'[u] = order[u]
    BY <1>0, <1>1, <1>4 DEF Register, TypeOK
  <2>2. Untouched(u)
    BY <1>0, <1>1, <1>2, <1>3, <1>4, <2>1 DEF Goes, Untouched, SetShape
  <2>3. QED
    BY <1>0, <2>2, UntouchedInv
<1>5. CASE u = thr[c]
  <2>1. PICK n \in Nat : n = Len(guards[u])
    BY <1>0 DEF SetShape
  <2>2. /\ DOMAIN guards[u] = 1 .. n /\ DOMAIN guards'[u] = 1 .. n + 1
        /\ \A k \in DOMAIN guards[u] : guards'[u][k] = guards[u][k]
        /\ guards'[u][n + 1] = c
    <3>1. guards[u] \in Seq(Call) /\ guards'[u] = Append(guards[u], c)
      BY <1>0, <1>1, <1>5 DEF SetShape
    <3>2. QED
      BY <2>1, <3>1, SequenceFacts
  <2>3. \A k \in DOMAIN guards[u] :
           /\ guards[u][k] \in Call /\ guards[u][k] # c
           /\ pc[guards[u][k]] = "held" /\ thr[guards[u][k]] = u
           /\ Above(req[guards[u][k]], req[c])
    <3>1. \A k \in DOMAIN guards[u] : Above(req[guards[u][k]], req[c])
      BY <1>0, <1>1, <1>5 DEF ThreadInv, LineInv, InFlight
    <3>2. \A k \in DOMAIN guards[u] :
             /\ guards[u][k] \in Call /\ pc[guards[u][k]] = "held" /\ thr[guards[u][k]] = u
      BY <1>0 DEF SetShape, ThreadInv, MemberInv
    <3>3. QED
      BY <1>1, <3>1, <3>2
  <2>4. phase[u] = "acquiring"
    BY <1>0, <1>1, <1>5 DEF ThreadInv, MemberInv, InFlight
  <2>5. phase'[u] = IF todo[u] = <<>> THEN "owned" ELSE "acquiring"
    BY <1>0, <1>1, <1>5, <2>4 DEF Goes, SetShape
  <2>6. \A d \in Call : thr[d] = u => d = c \/ (pc[d] = "held" /\ pc'[d] = "held")
    BY <1>0, <1>2, <1>3, <1>5 DEF ThreadInv, MemberInv, InFlight, Inactive
  <2>7. MemberInv(u)'
    <3>1. \A k \in DOMAIN guards'[u] : pc'[guards'[u][k]] = "held" /\ thr'[guards'[u][k]] = u
      <4> TAKE k \in DOMAIN guards'[u]
      <4>1. CASE k \in DOMAIN guards[u]
        BY <1>1, <1>3, <2>2, <2>3, <4>1
      <4>2. CASE k = n + 1
        BY <1>1, <1>3, <1>5, <2>2, <4>2
      <4>3. QED
        BY <2>2, <4>1, <4>2
    <3>2. ASSUME NEW d \in Call, thr'[d] = u
          PROVE  pc'[d] = "held" /\ \E k \in DOMAIN guards'[u] : guards'[u][k] = d
      <4>1. CASE d = c
        BY <1>3, <2>2, <4>1
      <4>2. CASE d # c
        <5>1. thr[d] = u /\ pc[d] = "held" /\ pc'[d] = "held"
          BY <1>1, <2>6, <3>2, <4>2
        <5>2. PICK k \in DOMAIN guards[u] : guards[u][k] = d
          BY <1>0, <5>1 DEF ThreadInv, MemberInv
        <5>3. k \in DOMAIN guards'[u] /\ guards'[u][k] = d
          BY <2>2, <5>2
        <5>4. QED
          BY <5>1, <5>3
      <4>3. QED
        BY <4>1, <4>2
    <3>3. phase'[u] # "none" /\ (phase'[u] # "acquiring" => todo'[u] = <<>>)
      BY <1>1, <2>5
    <3>4. QED
      BY <3>1, <3>2, <3>3 DEF MemberInv, InFlight
  <2>8. LineInv(u)'
    <3>1. ASSUME NEW j \in DOMAIN guards'[u], NEW k \in DOMAIN guards'[u], j < k
          PROVE  Above(req[guards'[u][j]], req[guards'[u][k]])
      <4>1. j \in DOMAIN guards[u] /\ (k \in DOMAIN guards[u] \/ k = n + 1)
        BY <2>2, <3>1
      <4>2. CASE k \in DOMAIN guards[u]
        BY <1>0, <2>2, <3>1, <4>1, <4>2 DEF ThreadInv, LineInv
      <4>3. CASE k = n + 1
        BY <2>2, <2>3, <4>1, <4>3
      <4>4. QED
        BY <4>1, <4>2, <4>3
    <3>2. ASSUME NEW j \in DOMAIN guards'[u], NEW k \in DOMAIN todo[u]
          PROVE  Above(req[guards'[u][j]], todo[u][k])
      <4>1. CASE j \in DOMAIN guards[u]
        BY <1>0, <2>2, <4>1 DEF ThreadInv, LineInv
      <4>2. CASE j = n + 1
        BY <1>0, <1>1, <1>5, <2>2, <4>2 DEF ThreadInv, LineInv, InFlight
      <4>3. QED
        BY <2>2, <4>1, <4>2
    <3>3. \A j, k \in DOMAIN todo[u] : j < k => Above(todo[u][j], todo[u][k])
      BY <1>0 DEF ThreadInv, LineInv
    <3>4. \A d \in Call : thr'[d] = u => pc'[d] \notin InFlight
      BY <1>1, <1>3, <2>6 DEF InFlight
    <3>5. QED
      BY <1>1, <3>1, <3>2, <3>3, <3>4 DEF LineInv, Above
  <2>9. CountInv(u)'
    <3>1. \A k \in DOMAIN guards[u] : Entry(req[guards[u][k]]) # Entry(req[c])
      BY <2>3 DEF Above, Entry
    <3>2. order[u][Entry(req[c])] = 0
      BY <1>0, <1>2, <3>1 DEF ThreadInv, CountInv, HasGuard
    <3>3. order'[u][Entry(req[c])] = 1
      BY <1>0, <1>1, <1>2, <1>5, <3>2 DEF Register, TypeOK
    <3>4. Entry(req'[guards'[u][n + 1]]) = Entry(req[c]) /\ n + 1 \in DOMAIN guards'[u]
      BY <1>1, <2>2
    <3>5. ASSUME NEW e \in Entries, e # Entry(req[c])
          PROVE  order'[u][e] = order[u][e] /\ (HasGuard(u, e)' <=> HasGuard(u, e))
      <4>1. order'[u][e] = order[u][e]
        BY <1>0, <1>1, <1>2, <1>5, <3>5 DEF Register, TypeOK
      <4>2. ASSUME NEW k \in DOMAIN guards'[u], Entry(req'[guards'[u][k]]) = e
            PROVE  k \in DOMAIN guards[u] /\ Entry(req[guards[u][k]]) = e
        <5>1. k # n + 1
          BY <3>4, <3>5, <4>2
        <5>2. k \in DOMAIN guards[u]
          BY <2>2, <5>1
        <5>3. QED
          BY <1>1, <2>2, <4>2, <5>2
      <4>3. \A k \in DOMAIN guards[u] : k \in DOMAIN guards'[u] /\ guards'[u][k] = guards[u][k]
        BY <2>2
      <4>4. QED
        BY <1>1, <4>1, <4>2, <4>3 DEF HasGuard
    <3>6. QED
      BY <1>0, <3>3, <3>4, <3>5 DEF ThreadInv, CountInv, HasGuard
  <2>10. QED
    BY <2>7, <2>8, <2>9 DEF ThreadInv
<1>6. QED
  BY <1>4, <1>5

LEMMA CrashSetsInv ==
  ASSUME SetInv, NEW p \in Process, CrashSets(p), NEW u \in Thread
  PROVE  ThreadInv(u)'
<1>0. SetShape /\ ThreadInv(u) /\ TypeOK
  BY DEF SetInv, OrderInv, Exclusion
<1> DEFINE Dead(c) == pc[c] \notin Inactive /\ ThreadProcess[thr[c]] = p
<1>1. \A c \in Call : /\ Dead(c) => thr'[c] = NoThread
                      /\ ~Dead(c) => thr'[c] = thr[c] /\ pc'[c] = pc[c] /\ req'[c] = req[c]
  BY DEF CrashSets, Crash
<1>2. order'[u] = IF ThreadProcess[u] = p THEN [e \in Entries |-> 0] ELSE order[u]
  BY DEF CrashSets, Crash
<1>3. /\ phase'[u] = IF ThreadProcess[u] = p THEN "none" ELSE phase[u]
      /\ todo'[u] = IF ThreadProcess[u] = p THEN <<>> ELSE todo[u]
      /\ guards'[u] = IF ThreadProcess[u] = p THEN <<>> ELSE guards[u]
  BY DEF CrashSets
<1>4. \A c \in Call : thr[c] = u => pc[c] \notin Inactive
  BY <1>0 DEF ThreadInv, MemberInv, InFlight, Inactive
<1>5. CASE ThreadProcess[u] = p
  <2>1. \A c \in Call : thr'[c] # u
    BY <1>1, <1>4, <1>5, ConstantsAssumption
  <2>2. DOMAIN guards'[u] = {} /\ DOMAIN todo'[u] = {}
    BY <1>3, <1>5
  <2>3. MemberInv(u)' /\ LineInv(u)'
    BY <1>3, <1>5, <2>1, <2>2 DEF MemberInv, LineInv
  <2>4. CountInv(u)'
    BY <1>2, <1>5, <2>2 DEF CountInv, HasGuard
  <2>5. QED
    BY <2>3, <2>4 DEF ThreadInv
<1>6. CASE ThreadProcess[u] # p
  <2>1. \A c \in Call : thr[c] = u => ~Dead(c)
    BY <1>6
  <2>2. \A c \in Call : thr'[c] = u <=> thr[c] = u
    BY <1>1, <2>1, ConstantsAssumption
  <2>3. Untouched(u)
    BY <1>1, <1>2, <1>3, <1>6, <2>1, <2>2 DEF Untouched
  <2>4. QED
    BY <1>0, <2>3, UntouchedInv
<1>7. QED
  BY <1>5, <1>6

LEMMA NextSetInv == SetInv /\ [SetNext]_allVars => SetInv'
<1> SUFFICES ASSUME SetInv, [SetNext]_allVars PROVE SetInv'
  OBVIOUS
<1>1. OrderInv' /\ SetShape'
  BY NextOrderInv, NextSetShape, StepIsManagerStep DEF SetInv
<1>2. ASSUME NEW u \in Thread PROVE ThreadInv(u)'
  <2>1. CASE UNCHANGED allVars
    BY <2>1, UntouchedInv DEF SetInv, Untouched, allVars, vars, setVars
  <2>2. CASE SetNext
    BY <2>2, AcquireManyInv, StartMemberInv, MemberRefusedInv, ReleaseSetInv, PopInv,
       KernelStepInv, MemberFailsInv, MemberAcquiredInv, PoppedInv, CrashSetsInv
    DEF SetNext, SetStep, MemberStep
  <2>3. QED
    BY <2>1, <2>2
<1>3. QED
  BY <1>1, <1>2 DEF SetInv

(* The inductive invariant of lock sets. *)
THEOREM SetInvHolds == SetSpec => []SetInv
  BY InitSetInv, NextSetInv, PTL DEF SetSpec

(***************************************************************************)
(* The members that were asked for                                         *)
(***************************************************************************)

Wanted == {"acquiring", "owned"}

(* A member is held or under way, or still to come. *)
IsMember(t, r) ==
  \/ \E c \in Call : thr[c] = t /\ req[c] = r
  \/ \E k \in DOMAIN todo[t] : todo[t][k] = r

AskedInv(t) ==
  phase[t] \in Wanted => \A r \in Requests : r \in asked[t] <=> IsMember(t, r)

AllAskedInv == asked \in [Thread -> SUBSET Requests] /\ \A t \in Thread : AskedInv(t)

(* A step that neither adds a member nor takes one away. *)
SameMembers(u) ==
  /\ asked'[u] = asked[u] /\ todo'[u] = todo[u]
  /\ phase'[u] \in Wanted => phase[u] \in Wanted
  /\ \A c \in Call : (thr'[c] = u <=> thr[c] = u) /\ (thr[c] = u => req'[c] = req[c])

LEMMA SameMembersInv ==
  ASSUME NEW u \in Thread, AskedInv(u), SameMembers(u) \/ phase'[u] \notin Wanted
  PROVE  AskedInv(u)'
<1> SUFFICES ASSUME SameMembers(u), phase'[u] \in Wanted, NEW r \in Requests
             PROVE  r \in asked'[u] <=> IsMember(u, r)'
  BY DEF AskedInv
<1>1. r \in asked[u] <=> IsMember(u, r)
  BY DEF SameMembers, AskedInv
<1>2. asked'[u] = asked[u] /\ todo'[u] = todo[u]
  BY DEF SameMembers
<1>3. (\E c \in Call : thr[c] = u /\ req[c] = r) <=> \E c \in Call : thr'[c] = u /\ req'[c] = r
  BY DEF SameMembers
<1>4. QED
  BY <1>1, <1>2, <1>3 DEF IsMember

LEMMA AskedType ==
  ASSUME asked \in [Thread -> SUBSET Requests], [SetNext]_allVars
  PROVE  asked' \in [Thread -> SUBSET Requests]
<1>1. ASSUME NEW t \in Thread, NEW s \in LockSets, AcquireMany(t, s)
      PROVE  asked' \in [Thread -> SUBSET Requests]
  <2>1. s \in Seq(Requests)
    BY LockSetAssumption
  <2>2. ToSet(s) \in SUBSET Requests
    BY <2>1 DEF ToSet
  <2>3. QED
    BY <1>1, <2>2 DEF AcquireMany
<1>2. ASSUME NEW t \in Thread, GiveUp(t) \/ ReleaseSet(t)
      PROVE  asked' \in [Thread -> SUBSET Requests]
  BY <1>2 DEF GiveUp, ReleaseSet
<1>3. ASSUME NEW c \in Call, MemberFails(c) PROVE asked' \in [Thread -> SUBSET Requests]
  BY <1>3 DEF MemberFails, GiveUp
<1>4. ASSUME NEW p \in Process, CrashSets(p) PROVE asked' \in [Thread -> SUBSET Requests]
  BY <1>4 DEF CrashSets
<1>5. ASSUME NEW t \in Thread, StartMember(t) \/ Pop(t) PROVE asked' = asked
  BY <1>5 DEF StartMember, Pop
<1>6. ASSUME NEW c \in Call, KernelStep(c) \/ MemberAcquired(c) \/ Popped(c) PROVE asked' = asked
  BY <1>6 DEF KernelStep, MemberAcquired, Popped, setVars
<1>7. CASE UNCHANGED allVars
  BY <1>7 DEF allVars, setVars
<1>8. QED
  BY <1>1, <1>2, <1>3, <1>4, <1>5, <1>6, <1>7 DEF SetNext, SetStep, MemberStep, MemberRefused

(* The sort moves requests and loses none. *)
LEMMA SortedMembers ==
  ASSUME NEW s \in Seq(Requests), NEW r
  PROVE  r \in ToSet(s) <=> \E k \in DOMAIN Sorted(s) : Sorted(s)[k] = r
<1>1. DOMAIN Sorted(s) = DOMAIN s
  BY DEF Sorted
<1>2. PICK f \in Bijection(DOMAIN s, DOMAIN s) : \A k \in DOMAIN s : Sorted(s)[k] = s[f[k]]
  BY SortedIsSorted
<1>3. /\ \A k \in DOMAIN s : f[k] \in DOMAIN s
      /\ \A i \in DOMAIN s : \E k \in DOMAIN s : f[k] = i
  BY <1>2 DEF Bijection, Injection, Surjection
<1>4. r \in ToSet(s) <=> \E i \in DOMAIN s : s[i] = r
  BY DEF ToSet
<1>5. ASSUME NEW i \in DOMAIN s, s[i] = r PROVE \E k \in DOMAIN Sorted(s) : Sorted(s)[k] = r
  <2>1. PICK k \in DOMAIN s : f[k] = i
    BY <1>3
  <2>2. Sorted(s)[k] = r
    BY <1>2, <1>5, <2>1
  <2>3. QED
    BY <1>1, <2>2
<1>6. ASSUME NEW k \in DOMAIN Sorted(s), Sorted(s)[k] = r PROVE \E i \in DOMAIN s : s[i] = r
  <2>1. k \in DOMAIN s /\ s[f[k]] = r /\ f[k] \in DOMAIN s
    BY <1>1, <1>2, <1>3, <1>6
  <2>2. QED
    BY <2>1
<1>7. QED
  BY <1>4, <1>5, <1>6

LEMMA AcquireManyAsked ==
  ASSUME SetInv, AllAskedInv, NEW t \in Thread, NEW s \in LockSets, AcquireMany(t, s),
         NEW u \in Thread
  PROVE  AskedInv(u)'
<1>1. /\ phase' = [phase EXCEPT ![t] = IF s = <<>> THEN "owned" ELSE "acquiring"]
      /\ todo' = [todo EXCEPT ![t] = Sorted(s)]
      /\ asked' = [asked EXCEPT ![t] = ToSet(s)]
      /\ thr' = thr /\ req' = req /\ phase[t] = "none"
  BY DEF AcquireMany, Goes, vars
<1>2. SetShape /\ ThreadInv(t) /\ AskedInv(u) /\ asked \in [Thread -> SUBSET Requests]
  BY DEF SetInv, AllAskedInv
<1>3. CASE u # t
  BY <1>1, <1>2, <1>3, SameMembersInv DEF SameMembers, SetShape
<1>4. CASE u = t
  <2>1. \A c \in Call : thr'[c] # t
    BY <1>1, <1>2, NoneIsNothing
  <2>2. asked'[t] = ToSet(s) /\ todo'[t] = Sorted(s)
    BY <1>1, <1>2 DEF SetShape
  <2>3. s \in Seq(Requests)
    BY LockSetAssumption
  <2>4. \A r \in Requests : r \in ToSet(s) <=> \E k \in DOMAIN Sorted(s) : Sorted(s)[k] = r
    BY <2>3, SortedMembers
  <2>5. QED
    BY <1>4, <2>1, <2>2, <2>4 DEF AskedInv, IsMember
<1>5. QED
  BY <1>3, <1>4

LEMMA StartMemberAsked ==
  ASSUME SetInv, AllAskedInv, NEW t \in Thread, StartMember(t), NEW u \in Thread
  PROVE  AskedInv(u)'
<1> DEFINE c == Slots[t][Len(guards[t]) + 1]
<1>1. SetShape /\ TypeOK /\ AskedInv(u) /\ \A v \in Thread : ThreadInv(v)
  BY DEF SetInv, OrderInv, Exclusion, AllAskedInv
<1>2. /\ todo[t] \in Seq(Requests) /\ guards[t] \in Seq(Call) /\ Slots[t] \in Seq(Call)
      /\ todo[t] # <<>>
  BY <1>1, LockSetAssumption DEF SetShape, StartMember
<1>3. c \in Call
  BY <1>2 DEF StartMember
<1> HIDE DEF c
<1>4. /\ pc[c] = "idle" /\ thr' = [thr EXCEPT ![c] = t] /\ req' = [req EXCEPT ![c] = Head(todo[t])]
      /\ todo' = [todo EXCEPT ![t] = Tail(@)] /\ UNCHANGED <<phase, guards, asked>>
      /\ phase[t] = "acquiring"
  BY DEF StartMember, Acquiring, AcquireBlocking, Start, c
<1>5. \A v \in Thread : thr[c] # v
  BY <1>1, <1>3, <1>4 DEF ThreadInv, MemberInv, InFlight
<1>6. /\ \A d \in Call : d # c => thr'[d] = thr[d] /\ req'[d] = req[d]
      /\ thr'[c] = t /\ req'[c] = Head(todo[t])
  BY <1>1, <1>3, <1>4 DEF TypeOK
<1>7. CASE u # t
  BY <1>1, <1>3, <1>4, <1>5, <1>6, <1>7, SameMembersInv DEF SameMembers, SetShape
<1>8. CASE u = t
  <2>1. /\ todo'[t] = Tail(todo[t]) /\ Head(todo[t]) = todo[t][1] /\ 1 \in DOMAIN todo[t]
        /\ DOMAIN todo[t] = 1 .. Len(todo[t]) /\ Len(todo[t]) \in Nat
        /\ DOMAIN Tail(todo[t]) = 1 .. Len(todo[t]) - 1
        /\ \A k \in DOMAIN Tail(todo[t]) : Tail(todo[t])[k] = todo[t][k + 1]
    BY <1>1, <1>2, <1>4, SequenceFacts DEF SetShape
  <2>2. ASSUME NEW r \in Requests PROVE IsMember(t, r)' <=> IsMember(t, r)
    <3>1. ASSUME NEW k \in DOMAIN todo[t], todo[t][k] = r PROVE IsMember(t, r)'
      <4>1. CASE k = 1
        BY <1>3, <1>6, <2>1, <3>1, <4>1 DEF IsMember
      <4>2. CASE k # 1
        <5>1. k - 1 \in DOMAIN Tail(todo[t]) /\ Tail(todo[t])[k - 1] = r
          BY <2>1, <3>1, <4>2
        <5>2. QED
          BY <2>1, <5>1 DEF IsMember
      <4>3. QED
        BY <4>1, <4>2
    <3>2. ASSUME NEW k \in DOMAIN todo'[t], todo'[t][k] = r PROVE IsMember(t, r)
      <4>1. k + 1 \in DOMAIN todo[t] /\ todo[t][k + 1] = r
        BY <2>1, <3>2
      <4>2. QED
        BY <4>1 DEF IsMember
    <3>3. ASSUME NEW d \in Call, thr[d] = t, req[d] = r PROVE IsMember(t, r)'
      BY <1>5, <1>6, <3>3 DEF IsMember
    <3>4. ASSUME NEW d \in Call, thr'[d] = t, req'[d] = r PROVE IsMember(t, r)
      BY <1>6, <2>1, <3>4 DEF IsMember
    <3>5. QED
      BY <3>1, <3>2, <3>3, <3>4 DEF IsMember
  <2>3. QED
    BY <1>1, <1>4, <1>8, <2>2 DEF AskedInv
<1>9. QED
  BY <1>7, <1>8

LEMMA CallStepAsked ==
  ASSUME SetInv, AllAskedInv, NEW c \in Call, KernelStep(c) \/ MemberStep(c), NEW u \in Thread
  PROVE  AskedInv(u)'
<1>1. SetShape /\ TypeOK /\ AskedInv(u) /\ ThreadInv(u) /\ asked \in [Thread -> SUBSET Requests]
  BY DEF SetInv, OrderInv, Exclusion, AllAskedInv
<1>2. CASE KernelStep(c)
  BY <1>1, <1>2, SameMembersInv DEF KernelStep, KernelGrant, NativeError, setVars, SameMembers
<1>3. CASE MemberAcquired(c)
  <2>1. /\ thr' = thr /\ req' = req /\ todo' = todo /\ asked' = asked
        /\ IF todo[thr[c]] = <<>> THEN Goes(thr[c], "owned") ELSE phase' = phase
        /\ pc[c] = "granted"
    BY <1>3 DEF MemberAcquired, ReturnGuard
  <2>2. thr[c] = u => phase[u] = "acquiring"
    BY <1>1, <2>1 DEF ThreadInv, MemberInv, InFlight
  <2>3. thr[c] # u => phase'[u] = phase[u]
    BY <1>1, <2>1 DEF Goes, SetShape
  <2>4. QED
    BY <1>1, <2>1, <2>2, <2>3, SameMembersInv DEF SameMembers, Wanted
<1>4. CASE MemberFails(c) \/ Popped(c)
  <2>1. Finish(c) /\ pc[c] \in {"refused", "unlocked"}
    BY <1>4 DEF MemberFails, AbandonAttempt, Popped, FinishRelease
  <2>2. /\ \A v \in Thread : thr'[c] # v
        /\ \A d \in Call : d # c => thr'[d] = thr[d] /\ req'[d] = req[d]
    BY <1>1, <2>1, Finished
  <2>3. thr[c] \in Thread
    BY <2>1, CallThread DEF Inactive
  <2>4. CASE thr[c] = u
    <3>1. phase'[u] \notin Wanted
      <4>1. CASE MemberFails(c)
        BY <1>1, <2>4, <4>1 DEF MemberFails, GiveUp, Goes, SetShape, Wanted
      <4>2. CASE Popped(c)
        <5>1. phase[u] = "unwinding"
          BY <1>1, <2>4, <4>2 DEF Popped, FinishRelease, ThreadInv, MemberInv
        <5>2. QED
          BY <1>1, <2>4, <4>2, <5>1 DEF Popped, Goes, SetShape, Wanted
      <4>3. QED
        BY <1>4, <4>1, <4>2
    <3>2. QED
      BY <1>1, <3>1, SameMembersInv
  <2>5. CASE thr[c] # u
    <3>1. phase'[u] = phase[u] /\ todo'[u] = todo[u] /\ asked'[u] = asked[u]
      BY <1>1, <1>4, <2>3, <2>5 DEF MemberFails, Popped, GiveUp, Goes, SetShape
    <3>2. SameMembers(u)
      BY <2>2, <2>5, <3>1 DEF SameMembers
    <3>3. QED
      BY <1>1, <3>2, SameMembersInv
  <2>6. QED
    BY <2>4, <2>5
<1>5. QED
  BY <1>2, <1>3, <1>4 DEF MemberStep

LEMMA OtherAsked ==
  ASSUME SetInv, AllAskedInv, NEW t \in Thread, MemberRefused(t) \/ ReleaseSet(t) \/ Pop(t),
         NEW u \in Thread
  PROVE  AskedInv(u)'
<1>1. SetShape /\ AskedInv(u) /\ asked \in [Thread -> SUBSET Requests]
  BY DEF SetInv, AllAskedInv
<1>2. CASE MemberRefused(t) \/ ReleaseSet(t)
  <2>1. thr' = thr /\ req' = req
    BY <1>2 DEF MemberRefused, ReleaseSet, vars
  <2>2. phase'[t] \notin Wanted
    BY <1>1, <1>2 DEF MemberRefused, GiveUp, ReleaseSet, Goes, SetShape, Wanted
  <2>3. u # t => phase'[u] = phase[u] /\ todo'[u] = todo[u] /\ asked'[u] = asked[u]
    BY <1>1, <1>2 DEF MemberRefused, GiveUp, ReleaseSet, Goes, SetShape
  <2>4. QED
    BY <1>1, <2>1, <2>2, <2>3, SameMembersInv DEF SameMembers
<1>3. CASE Pop(t)
  BY <1>1, <1>3, SameMembersInv DEF Pop, Release, SameMembers
<1>4. QED
  BY <1>2, <1>3

LEMMA CrashAsked ==
  ASSUME SetInv, AllAskedInv, NEW p \in Process, CrashSets(p), NEW u \in Thread
  PROVE  AskedInv(u)'
<1>1. AskedInv(u) /\ ThreadInv(u)
  BY DEF SetInv, AllAskedInv
<1>2. CASE ThreadProcess[u] = p
  <2>1. phase'[u] = "none"
    BY <1>2 DEF CrashSets
  <2>2. QED
    BY <1>1, <2>1, SameMembersInv DEF Wanted
<1>3. CASE ThreadProcess[u] # p
  <2>1. phase'[u] = phase[u] /\ todo'[u] = todo[u] /\ asked'[u] = asked[u]
    BY <1>3 DEF CrashSets
  <2>2. ASSUME NEW c \in Call
        PROVE  (thr'[c] = u <=> thr[c] = u) /\ (thr[c] = u => req'[c] = req[c])
    BY <1>3, ConstantsAssumption DEF CrashSets, Crash
  <2>3. QED
    BY <1>1, <2>1, <2>2, SameMembersInv DEF SameMembers
<1>4. QED
  BY <1>2, <1>3

LEMMA NextAskedInv == SetInv /\ AllAskedInv /\ [SetNext]_allVars => AllAskedInv'
<1> SUFFICES ASSUME SetInv, AllAskedInv, [SetNext]_allVars PROVE AllAskedInv'
  OBVIOUS
<1>1. asked' \in [Thread -> SUBSET Requests]
  BY AskedType DEF AllAskedInv
<1>2. ASSUME NEW u \in Thread PROVE AskedInv(u)'
  <2>1. CASE UNCHANGED allVars
    BY <2>1, SameMembersInv DEF AllAskedInv, SameMembers, allVars, vars, setVars
  <2>2. CASE SetNext
    BY <2>2, AcquireManyAsked, StartMemberAsked, CallStepAsked, OtherAsked, CrashAsked
    DEF SetNext, SetStep
  <2>3. QED
    BY <2>1, <2>2
<1>3. QED
  BY <1>1, <1>2 DEF AllAskedInv

LEMMA AskedInvHolds == SetSpec => []AllAskedInv
<1>1. SetInit => AllAskedInv
  BY DEF SetInit, AllAskedInv, AskedInv, Wanted
<1>2. QED
  BY <1>1, SetInvHolds, NextAskedInv, PTL DEF SetSpec

(***************************************************************************)
(* What follows                                                            *)
(***************************************************************************)

(* Every variable of the composition has its type. *)
THEOREM SetTypeCorrect == SetSpec => []SetTypeOK
<1>1. SetInv /\ AllAskedInv => SetTypeOK
  <2> SUFFICES ASSUME SetInv, AllAskedInv PROVE SetTypeOK
    OBVIOUS
  <2>1. TypeOK /\ SetShape /\ asked \in [Thread -> SUBSET Requests]
    BY DEF SetInv, OrderInv, Exclusion, AllAskedInv
  <2>2. ASSUME NEW t \in Thread, NEW k \in DOMAIN guards[t]
        PROVE  /\ guards[t][k] \in Call /\ pc[guards[t][k]] = "held"
               /\ thr[guards[t][k]] = t
    BY <2>1 DEF SetInv, SetShape, ThreadInv, MemberInv
  <2>3. QED
    BY <2>1, <2>2 DEF SetShape, SetTypeOK
<1>2. QED
  BY <1>1, SetInvHolds, AskedInvHolds, PTL

(* acquire_many_blocking needs no care of its caller: no member ever fails
   check_lock_order. *)
THEOREM SetsPassOrderCheckHolds == SetSpec => []SetsPassOrderCheck
<1>1. SetInv => SetsPassOrderCheck
  <2> SUFFICES ASSUME SetInv, NEW t \in Thread, todo[t] # <<>>,
                      NEW e \in Entries, order[t][e] > 0, Before(Entry(Head(todo[t])), e)
               PROVE  FALSE
    BY DEF SetsPassOrderCheck, OrderInversion
  <2>1. PICK k \in DOMAIN guards[t] : Entry(req[guards[t][k]]) = e
    BY DEF SetInv, ThreadInv, CountInv, HasGuard
  <2>2. 1 \in DOMAIN todo[t] /\ Head(todo[t]) = todo[t][1]
    BY SequenceFacts DEF SetInv, SetShape
  <2>3. Above(req[guards[t][k]], todo[t][1])
    BY <2>2 DEF SetInv, ThreadInv, LineInv
  <2>4. QED
    BY <2>1, <2>2, <2>3 DEF Above
<1>2. QED
  BY <1>1, SetInvHolds, PTL

(* A lock that a thread owns is of a guard of its set, or of the member
   that is about to become one. *)
LEMMA OwnedLock ==
  ASSUME SetInv, NEW c \in locked
  PROVE  /\ c \in Call /\ thr[c] \in Thread /\ req[c] \in Requests
         /\ \/ pc[c] = "granted"
            \/ pc[c] = "held" /\ \E k \in DOMAIN guards[thr[c]] : guards[thr[c]][k] = c
<1>1. c \in Call /\ pc[c] \in {"granted", "held"}
  BY DEF SetInv, OrderInv, Exclusion, GuardsHoldTheirDescriptors, Locking
<1>2. thr[c] \in Thread /\ req[c] \in Requests
  BY <1>1, CallThread DEF Inactive
<1>3. QED
  BY <1>1, <1>2 DEF SetInv, ThreadInv, MemberInv

(* What a thread holds is below what it needs. *)
LEMMA HoldsBelowNeeds ==
  ASSUME SetInv, NEW t \in Thread, NEW i \in Identity, NEW j \in Identity,
         NeedsAndHolds(t, i, j)
  PROVE  \E r, s \in Requests : r.id = j /\ s.id = i /\ Above(r, s)
<1>0. SetShape /\ ThreadInv(t)
  BY DEF SetInv
<1>1. PICK c \in locked : thr[c] = t /\ req[c].id = j
  BY DEF NeedsAndHolds
<1>2. CASE \E k \in DOMAIN todo[t] : todo[t][k].id = i
  <2>1. PICK k \in DOMAIN todo[t] : todo[t][k].id = i
    BY <1>2
  <2>2. todo[t][k] \in Requests
    BY <1>0 DEF SetShape
  <2>3. Above(req[c], todo[t][k])
    BY <1>0, <1>1, OwnedLock DEF ThreadInv, LineInv, InFlight
  <2>4. QED
    BY <1>1, <2>1, <2>2, <2>3, OwnedLock
<1>3. CASE \E d \in Call : thr[d] = t /\ pc[d] = "blocking" /\ req[d].id = i
  <2>1. PICK d \in Call : thr[d] = t /\ pc[d] = "blocking" /\ req[d].id = i
    BY <1>3
  <2>2. req[d] \in Requests
    BY <2>1, CallThread DEF Inactive
  <2>3. pc[c] # "granted"
    BY <1>1, <2>1, OwnedLock, CallThread DEF Inactive
  <2>4. Above(req[c], req[d])
    BY <1>0, <1>1, <2>1, <2>3, OwnedLock DEF ThreadInv, LineInv, InFlight
  <2>5. QED
    BY <1>1, <2>1, <2>2, <2>4, OwnedLock
<1>4. QED
  BY <1>2, <1>3 DEF NeedsAndHolds

LEMMA AboveIsAfter ==
  ASSUME DistinctKeys, NEW r \in Requests, NEW s \in Requests, Above(r, s)
  PROVE  Before(Entry(r), Entry(s)) /\ ~Before(Entry(s), Entry(r))
<1>1. r.id \in Identity /\ s.id \in Identity /\ r.id # s.id
  BY ConstantsAssumption DEF RequestType, Above
<1>2. PathKey[r.id] # PathKey[s.id] /\ PathKey[r.id] \in Nat /\ PathKey[s.id] \in Nat
      /\ r.rank \in Nat /\ s.rank \in Nat
  BY <1>1, ConstantsAssumption DEF DistinctKeys, RequestType
<1>3. QED
  BY <1>2 DEF Above, Before, Entry

(* Sets take their locks in one order: given a class per identity and
   distinct keys, no two threads hold what the other needs.  (Keys that are
   lossy or fold case need not be distinct.) *)
THEOREM DeterministicOrderHolds ==
  ASSUME ClassPerIdentity, DistinctKeys PROVE SetSpec => []DeterministicOrder
<1>1. SetInv => DeterministicOrder
  <2> SUFFICES ASSUME SetInv, NEW t \in Thread, NEW u \in Thread,
                      NEW i \in Identity, NEW j \in Identity,
                      NeedsAndHolds(t, i, j), NeedsAndHolds(u, j, i)
               PROVE  FALSE
    BY DEF DeterministicOrder
  <2>1. PICK r, s \in Requests : r.id = j /\ s.id = i /\ Above(r, s)
    BY HoldsBelowNeeds
  <2>2. PICK v, w \in Requests : v.id = i /\ w.id = j /\ Above(v, w)
    BY HoldsBelowNeeds
  <2>3. Entry(v) = Entry(s) /\ Entry(w) = Entry(r)
    BY <2>1, <2>2 DEF ClassPerIdentity, Entry
  <2>4. QED
    BY <2>1, <2>2, <2>3, AboveIsAfter
<1>2. QED
  BY <1>1, SetInvHolds, PTL

(* LockSetGuard::release, its drop and the way out of a set that failed
   unlock the last lock first. *)
THEOREM ReleasedInReverseHolds == SetSpec => ReleasedInReverse
<1> DEFINE A == \A c \in locked \ locked' :
                   pc'[c] = "unlocked" =>
                      \A d \in locked' :
                         thr[d] = thr[c] => ~Before(Entry(req[c]), Entry(req[d]))
<1>1. SetInv /\ [SetNext]_allVars => [A]_allVars
  <2> SUFFICES ASSUME SetInv, SetNext,
                      NEW c \in locked \ locked', pc'[c] = "unlocked",
                      NEW d \in locked', thr[d] = thr[c]
               PROVE  ~Before(Entry(req[c]), Entry(req[d]))
    OBVIOUS
  <2>0. SetShape /\ TypeOK /\ locked \subseteq Call /\ c \in Call
    BY DEF SetInv, OrderInv, Exclusion, TypeOK
  <2>1. PICK t \in Thread : Pop(t)
    <3>1. ASSUME NEW t \in Thread, NEW s \in LockSets, AcquireMany(t, s) PROVE FALSE
      BY <3>1 DEF AcquireMany, vars
    <3>2. ASSUME NEW t \in Thread, StartMember(t) \/ MemberRefused(t) \/ ReleaseSet(t)
          PROVE  FALSE
      BY <3>2 DEF StartMember, AcquireBlocking, Start, MemberRefused, ReleaseSet, vars
    <3>3. ASSUME NEW b \in Call, KernelStep(b) \/ MemberStep(b) PROVE FALSE
      BY <3>3 DEF KernelStep, KernelGrant, NativeError, MemberStep, MemberFails, AbandonAttempt,
                  MemberAcquired, ReturnGuard, Popped, FinishRelease
    <3>4. ASSUME NEW p \in Process, CrashSets(p) PROVE FALSE
      BY <2>0, <3>4 DEF CrashSets, Crash, Rest, Inactive
    <3>5. QED
      BY <3>1, <3>2, <3>3, <3>4 DEF SetNext, SetStep
  <2>2. PICK n \in Nat : n = Len(guards[t])
    BY <2>0 DEF SetShape
  <2>3. /\ n \in DOMAIN guards[t] /\ DOMAIN guards[t] = 1 .. n
        /\ Last(guards[t]) = guards[t][n] /\ phase[t] = "unwinding"
    BY <2>0, <2>1, <2>2, SequenceFacts DEF SetShape, Pop
  <2>4. c = guards[t][n] /\ locked' = locked \ {c}
    BY <2>1, <2>3 DEF Pop, Release
  <2>5. thr[c] = t /\ d \in locked /\ d # c
    BY <2>3, <2>4 DEF SetInv, ThreadInv, MemberInv
  <2>6. pc[d] # "granted"
    BY <2>3, <2>5, OwnedLock DEF SetInv, ThreadInv, MemberInv, InFlight
  <2>7. PICK k \in DOMAIN guards[t] : guards[t][k] = d
    BY <2>5, <2>6, OwnedLock
  <2>8. k < n
    BY <2>3, <2>4, <2>5, <2>7
  <2>9. Above(req[d], req[c])
    BY <2>3, <2>4, <2>7, <2>8 DEF SetInv, ThreadInv, LineInv
  <2>10. QED
    BY <2>9 DEF Above
<1>2. QED
  BY <1>1, SetInvHolds, PTL DEF SetSpec, ReleasedInReverse

(* All or nothing: after a set has failed or was released, its thread has
   no lock, no registration and no reservation; and a set that is owned has
   the guards of exactly the members that were asked for. *)
THEOREM AllOrNothingHolds == ASSUME ~SinkMayPanic PROVE SetSpec => []AllOrNothing
<1>1. SetInv /\ AllAskedInv /\ ReservationInv => AllOrNothing
  <2> SUFFICES ASSUME SetInv, AllAskedInv, ReservationInv PROVE AllOrNothing
    OBVIOUS
  <2>1. ASSUME NEW t \in Thread, phase[t] = "none"
        PROVE  (\A c \in Call : thr[c] # t) /\ \A e \in Entries : order[t][e] = 0
    BY <2>1, NoneIsNothing DEF SetInv
  <2>2. ASSUME NEW m \in Manager, NEW i \in reserved[m],
               \A t \in Thread : ThreadProcess[t] = ManagerProcess[m] => phase[t] = "none"
        PROVE  FALSE
    <3>1. PICK c \in Call : Claim(c, m, i)
      BY DEF ReservationInv, NoLeak
    <3>2. pc[c] \notin Inactive /\ req[c].mgr = m
      BY <3>1 DEF Claim, Claims
    <3>3. thr[c] \in Thread /\ ThreadProcess[thr[c]] = ManagerProcess[m]
      BY <3>2, CallThread DEF ReservationInv, OwnManager
    <3>4. QED
      BY <2>1, <2>2, <3>3
  <2>3. ASSUME NEW t \in Thread, phase[t] = "owned"
        PROVE  ~Busy(t) /\ asked[t] = {req[guards[t][k]] : k \in DOMAIN guards[t]}
    <3>1. TypeOK /\ SetShape /\ ThreadInv(t) /\ AskedInv(t) /\ asked[t] \subseteq Requests
      BY DEF SetInv, OrderInv, Exclusion, AllAskedInv
    <3>2. todo[t] = <<>> /\ \A c \in Call : thr[c] = t => pc[c] = "held"
      BY <2>3, <3>1 DEF ThreadInv, MemberInv, InFlight
    <3>3. \A r \in Requests : r \in asked[t] <=> \E c \in Call : thr[c] = t /\ req[c] = r
      BY <2>3, <3>1, <3>2 DEF AskedInv, IsMember, Wanted
    <3>4. /\ \A k \in DOMAIN guards[t] : guards[t][k] \in Call /\ thr[guards[t][k]] = t
          /\ \A c \in Call : thr[c] = t => \E k \in DOMAIN guards[t] : guards[t][k] = c
      BY <3>1, <3>2 DEF SetShape, ThreadInv, MemberInv
    <3>5. \A k \in DOMAIN guards[t] : req[guards[t][k]] \in Requests
      BY <3>1, <3>4, CallThread, <3>2 DEF Inactive
    <3>6. QED
      BY <3>1, <3>2, <3>3, <3>4, <3>5 DEF Busy, Inactive
  <2>4. QED
    BY <2>1, <2>2, <2>3 DEF AllOrNothing
<1>2. SetSpec => []ReservationInv
  BY SetsRunTheManager, ReservationInvHolds
<1>3. QED
  BY <1>1, <1>2, SetInvHolds, AskedInvHolds, PTL

(* A thread asleep for a lock is asleep for one above all of its own, so
   that waits-for edges climb, with Queue requests too. *)
LEMMA SetWaitsForHigher ==
  ASSUME ClassPerIdentity, DistinctKeys, SetInv,
         NEW c \in Call, NEW d \in locked, NEW b \in Call,
         pc[c] = "blocking", pc[b] = "blocking", req[d].id = req[c].id, thr[b] = thr[d]
  PROVE  Before(Entry(req[c]), Entry(req[b]))
<1>1. /\ req[c] \in Requests /\ req[b] \in Requests /\ thr[b] \in Thread
      /\ \A a \in Call : thr[a] = thr[b] /\ pc[a] \notin Inactive \cup {"held"} => a = b
  BY CallThread DEF Inactive
<1>2. d \in Call /\ req[d] \in Requests /\ pc[d] # "granted"
  BY <1>1, OwnedLock DEF Inactive
<1>3. PICK k \in DOMAIN guards[thr[b]] : guards[thr[b]][k] = d
  BY <1>2, OwnedLock
<1>4. Above(req[d], req[b])
  BY <1>1, <1>3 DEF SetInv, ThreadInv, LineInv, InFlight
<1>5. Entry(req[d]) = Entry(req[c])
  BY <1>1, <1>2 DEF ClassPerIdentity, Entry
<1>6. QED
  BY <1>1, <1>2, <1>4, <1>5, AboveIsAfter

(* Lock sets of any number of threads and processes, Reject or Queue, never
   wait for each other in a ring, nor a set for itself: where each identity
   has one class and sort keys are distinct. *)
THEOREM SetsNeverWaitInARing ==
  ASSUME ClassPerIdentity, DistinctKeys, IsFiniteSet(Call)
  PROVE  SetSpec => []NoWaitCycle
<1>1. SetInv => NoWaitCycle
  <2> SUFFICES ASSUME SetInv, NEW S \in SUBSET Call, S # {}, Stuck(S)
               PROVE  FALSE
    BY DEF NoWaitCycle
  <2>1. \A c \in S : pc[c] = "blocking" /\ req[c] \in Requests
    BY CallThread DEF Stuck, Inactive
  <2>2. PICK c \in S, b \in S, d \in locked :
           Edge(c, d, b) /\ ~Before(Entry(req[c]), Entry(req[b]))
    BY <2>1, RingStopsClimbing
  <2>3. QED
    BY <2>1, <2>2, SetWaitsForHigher DEF Edge
<1>2. QED
  BY <1>1, SetInvHolds, PTL
(* The manager's promises, for lock sets: a lock has one owner, and what a
   client sees is ExclusiveLock. *)
THEOREM SetsImplementExclusiveLock ==
  SetSpec => ImplementsExclusiveLock /\ []MutualExclusion
  BY SetsRunTheManager, ManagerImplementsExclusiveLock, MutualExclusionHolds, PTL

(***************************************************************************)
(* Lock sets come to an end                                                *)
(***************************************************************************)

(* A set with no member left to start, or no guard left to pop, has one on
   its way: "acquiring" and "unwinding" end with their last member. *)
NeverIdle(t) ==
  /\ phase[t] = "acquiring" /\ todo[t] = <<>> => Busy(t)
  /\ phase[t] = "unwinding" /\ guards[t] = <<>> => Busy(t)

(* A step of other threads leaves a thread as busy as it was. *)
LEMMA NeverIdleOfOthers ==
  ASSUME NEW u \in Thread, NeverIdle(u),
         phase'[u] = phase[u], todo'[u] = todo[u], guards'[u] = guards[u],
         \A c \in Call : thr[c] = u /\ pc[c] \notin Inactive \cup {"held"} =>
                            thr'[c] = u /\ pc'[c] \notin Inactive \cup {"held"}
  PROVE  NeverIdle(u)'
  BY DEF NeverIdle, Busy

LEMMA NextNeverIdle ==
  ASSUME SetInv, SetNext, NEW u \in Thread, NeverIdle(u)
  PROVE  NeverIdle(u)'
<1>0. SetShape /\ ThreadInv(u) /\ TypeOK
  BY DEF SetInv, OrderInv, Exclusion
<1>1. ASSUME NEW t \in Thread, NEW s \in LockSets, AcquireMany(t, s) PROVE NeverIdle(u)'
  <2>1. /\ pc' = pc /\ thr' = thr /\ guards' = guards
        /\ phase' = [phase EXCEPT ![t] = IF s = <<>> THEN "owned" ELSE "acquiring"]
        /\ todo' = [todo EXCEPT ![t] = Sorted(s)]
    BY <1>1 DEF AcquireMany, vars, Goes
  <2>2. CASE u # t
    BY <1>0, <2>1, <2>2, NeverIdleOfOthers DEF SetShape
  <2>3. CASE u = t
    <3>1. s \in Seq(Requests) /\ Sorted(s) \in Seq(Requests) /\ Len(Sorted(s)) = Len(s)
      BY LockSetAssumption, SortedIsSorted, Zenon
    <3>2. s # <<>> => Sorted(s) # <<>>
      BY <3>1
    <3>3. QED
      BY <1>0, <2>1, <2>3, <3>2 DEF NeverIdle, SetShape
  <2>4. QED
    BY <2>2, <2>3
<1>2. ASSUME NEW t \in Thread, StartMember(t) PROVE NeverIdle(u)'
  <2> DEFINE c == Slots[t][Len(guards[t]) + 1]
  <2>1. Slots[t] \in Seq(Call) /\ guards[t] \in Seq(Call)
    BY <1>0, LockSetAssumption DEF SetShape
  <2>2. c \in Call
    BY <1>2, <2>1 DEF StartMember
  <2> HIDE DEF c
  <2>3. /\ pc[c] = "idle" /\ phase' = phase /\ guards' = guards
        /\ pc' = [pc EXCEPT ![c] = "blocking"] /\ thr' = [thr EXCEPT ![c] = t]
        /\ todo' = [todo EXCEPT ![t] = Tail(@)]
    BY <1>2 DEF StartMember, AcquireBlocking, Start, Goto, c
  <2>4. CASE u # t
    BY <1>0, <2>2, <2>3, <2>4, NeverIdleOfOthers DEF SetShape, TypeOK, Inactive
  <2>5. CASE u = t
    BY <1>0, <2>2, <2>3, <2>5 DEF NeverIdle, Busy, TypeOK, Inactive
  <2>6. QED
    BY <2>4, <2>5
<1>3. ASSUME NEW t \in Thread, MemberRefused(t) \/ ReleaseSet(t) PROVE NeverIdle(u)'
  <2>1. /\ pc' = pc /\ thr' = thr /\ guards' = guards
        /\ phase' = [phase EXCEPT ![t] = IF guards[t] = <<>> THEN "none" ELSE "unwinding"]
        /\ u # t => todo'[u] = todo[u]
    BY <1>0, <1>3 DEF MemberRefused, ReleaseSet, GiveUp, vars, Goes, SetShape
  <2>2. CASE u # t
    BY <1>0, <2>1, <2>2, NeverIdleOfOthers DEF SetShape
  <2>3. CASE u = t
    BY <1>0, <2>1, <2>3 DEF NeverIdle, SetShape
  <2>4. QED
    BY <2>2, <2>3
<1>4. ASSUME NEW t \in Thread, Pop(t) PROVE NeverIdle(u)'
  <2>1. PICK c \in Call : c = Last(guards[t])
    BY <1>0, <1>4, SequenceFacts DEF Pop, SetShape
  <2>2. pc[c] = "held" /\ thr[c] = t
    <3>1. \E k \in DOMAIN guards[t] : guards[t][k] = c
      BY <1>0, <1>4, <2>1, SequenceFacts DEF Pop, SetShape
    <3>2. QED
      BY <3>1 DEF SetInv, ThreadInv, MemberInv
  <2>3. /\ pc' = [pc EXCEPT ![c] = "unlocked"] /\ thr' = thr
        /\ guards' = [guards EXCEPT ![t] = Front(@)] /\ phase' = phase /\ todo' = todo
    BY <1>4, <2>1 DEF Pop, Release, Goto
  <2>4. CASE u # t
    BY <1>0, <2>3, <2>4, NeverIdleOfOthers DEF SetShape, TypeOK, Inactive
  <2>5. CASE u = t
    BY <1>0, <2>2, <2>3, <2>5 DEF NeverIdle, Busy, TypeOK, Inactive
  <2>6. QED
    BY <2>4, <2>5
<1>5. ASSUME NEW c \in Call, KernelStep(c) PROVE NeverIdle(u)'
  <2>1. /\ UNCHANGED <<thr, phase, todo, guards>>
        /\ \A d \in Call : pc'[d] = pc[d] \/ pc'[d] \in {"granted", "refused"}
    BY <1>0, <1>5 DEF KernelStep, KernelGrant, NativeError, Goto, setVars, TypeOK
  <2>2. QED
    BY <2>1, NeverIdleOfOthers DEF Inactive
<1>6. ASSUME NEW c \in Call, MemberFails(c) PROVE NeverIdle(u)'
  <2>1. pc[c] = "refused" /\ Finish(c) /\ GiveUp(thr[c]) /\ thr[c] \in Thread
    BY <1>6, CallThread DEF MemberFails, AbandonAttempt, Inactive
  <2>2. \A d \in Call : d # c => pc'[d] = pc[d] /\ thr'[d] = thr[d]
    BY <1>0, <2>1, Finished
  <2>3. CASE u # thr[c]
    BY <1>0, <2>1, <2>2, <2>3, NeverIdleOfOthers DEF GiveUp, Goes, SetShape
  <2>4. CASE u = thr[c]
    BY <1>0, <2>1, <2>4 DEF GiveUp, Goes, NeverIdle, SetShape
  <2>5. QED
    BY <2>3, <2>4
<1>7. ASSUME NEW c \in Call, MemberAcquired(c) PROVE NeverIdle(u)'
  <2>1. /\ pc[c] = "granted" /\ pc' = [pc EXCEPT ![c] = "held"] /\ thr' = thr /\ todo' = todo
        /\ guards' = [guards EXCEPT ![thr[c]] = Append(@, c)]
        /\ IF todo[thr[c]] = <<>> THEN Goes(thr[c], "owned") ELSE phase' = phase
    BY <1>7 DEF MemberAcquired, ReturnGuard, Goto
  <2>2. thr[c] \in Thread /\ phase[thr[c]] = "acquiring"
    BY <2>1, CallThread DEF SetInv, ThreadInv, MemberInv, InFlight, Inactive
  <2>3. CASE u # thr[c]
    BY <1>0, <2>1, <2>3, NeverIdleOfOthers DEF Goes, SetShape, TypeOK
  <2>4. CASE u = thr[c]
    BY <1>0, <2>1, <2>2, <2>4 DEF Goes, NeverIdle, SetShape
  <2>5. QED
    BY <2>3, <2>4
<1>8. ASSUME NEW c \in Call, Popped(c) PROVE NeverIdle(u)'
  <2>1. /\ pc[c] = "unlocked" /\ Finish(c) /\ todo' = todo /\ guards' = guards
        /\ IF guards[thr[c]] = <<>> THEN Goes(thr[c], "none") ELSE phase' = phase
    BY <1>8 DEF Popped, FinishRelease
  <2>2. thr[c] \in Thread /\ phase[thr[c]] = "unwinding"
    BY <2>1, CallThread DEF SetInv, ThreadInv, MemberInv, InFlight, Inactive
  <2>3. \A d \in Call : d # c => pc'[d] = pc[d] /\ thr'[d] = thr[d]
    BY <1>0, <2>1, Finished
  <2>4. CASE u # thr[c]
    BY <1>0, <2>1, <2>3, <2>4, NeverIdleOfOthers DEF Goes, SetShape
  <2>5. CASE u = thr[c]
    BY <1>0, <2>1, <2>2, <2>5 DEF Goes, NeverIdle, SetShape
  <2>6. QED
    BY <2>4, <2>5
<1>9. ASSUME NEW p \in Process, CrashSets(p) PROVE NeverIdle(u)'
  <2>1. CASE ThreadProcess[u] = p
    BY <1>9, <2>1 DEF CrashSets, NeverIdle
  <2>2. CASE ThreadProcess[u] # p
    <3>1. phase'[u] = phase[u] /\ todo'[u] = todo[u] /\ guards'[u] = guards[u]
      BY <1>9, <2>2 DEF CrashSets
    <3>2. \A c \in Call : thr[c] = u => thr'[c] = thr[c] /\ pc'[c] = pc[c]
      BY <1>9, <2>2 DEF CrashSets, Crash
    <3>3. QED
      BY <3>1, <3>2, NeverIdleOfOthers
  <2>3. QED
    BY <2>1, <2>2
<1>10. QED
  BY <1>1, <1>2, <1>3, <1>4, <1>5, <1>6, <1>7, <1>8, <1>9 DEF SetNext, SetStep, MemberStep

LEMMA NeverIdleHolds == SetSpec => [](\A t \in Thread : NeverIdle(t))
<1> DEFINE J == \A t \in Thread : NeverIdle(t)
<1>1. SetInit => J
  BY DEF SetInit, NeverIdle
<1>2. SetInv /\ J /\ [SetNext]_allVars => J'
  <2>1. UNCHANGED allVars /\ J => J'
    BY DEF allVars, vars, setVars, NeverIdle, Busy
  <2>2. QED
    BY <2>1, NextNeverIdle
<1>3. QED
  BY <1>1, <1>2, SetInvHolds, PTL DEF SetSpec

(* The thread can do the next thing its set has to do, whatever the others
   do: start a member, or turn round where it is refused; release; return
   from an answer of the kernel; or be answered. *)
SetCanGo(t) ==
  \/ Acquiring(t) /\ todo[t] # <<>>
  \/ phase[t] = "owned"
  \/ phase[t] = "unwinding" /\ guards[t] # <<>> /\ ~Busy(t)
  \/ \E c \in Call : /\ thr[c] = t
                     /\ \/ pc[c] \in {"granted", "refused", "unlocked"}
                        \/ pc[c] = "blocking" /\ KernelFree(req[c].id)

SetsNeverStuck == (\E t \in Thread : phase[t] # "none") => \E t \in Thread : SetCanGo(t)

(* Only a thread asleep in the kernel cannot go on. *)
LEMMA OnlySleepersWait ==
  ASSUME SetInv, NEW t \in Thread, NeverIdle(t), phase[t] # "none",
         \A c \in Call : thr[c] = t => pc[c] # "blocking"
  PROVE  SetCanGo(t)
<1>1. ThreadInv(t) /\ phase[t] \in {"acquiring", "unwinding", "owned"}
  BY DEF SetInv, SetShape
<1>2. CASE Busy(t)
  <2>1. PICK c \in Call : thr[c] = t /\ pc[c] \notin Inactive \cup {"held"}
    BY <1>2 DEF Busy
  <2>2. pc[c] \in {"granted", "refused", "unlocked"}
    BY <1>1, <2>1 DEF ThreadInv, MemberInv, InFlight
  <2>3. QED
    BY <2>1, <2>2 DEF SetCanGo
<1>3. CASE ~Busy(t)
  BY <1>1, <1>3 DEF NeverIdle, SetCanGo, Acquiring
<1>4. QED
  BY <1>2, <1>3

(* While any set is under way or owned, one of them can go on: sets of any
   number of threads and processes, Reject or Queue, never wait for each
   other for good. *)
THEOREM SetsNeverStuckHolds ==
  ASSUME ClassPerIdentity, DistinctKeys, IsFiniteSet(Call)
  PROVE  SetSpec => []SetsNeverStuck
<1> DEFINE J == \A t \in Thread : NeverIdle(t)
<1>1. SetInv /\ J /\ NoWaitCycle => SetsNeverStuck
  <2> SUFFICES ASSUME SetInv, J, NoWaitCycle, NEW t \in Thread, phase[t] # "none"
               PROVE  \E u \in Thread : SetCanGo(u)
    BY DEF SetsNeverStuck
  <2> DEFINE Asleep == {c \in Call : pc[c] = "blocking"}
  <2>1. CASE Asleep = {}
    BY <2>1, OnlySleepersWait
  <2>2. CASE Asleep # {}
    <3>1. ~Stuck(Asleep)
      BY <2>2 DEF NoWaitCycle
    <3>2. PICK c \in Asleep : \A d \in locked :
             req[d].id = req[c].id => \A b \in Asleep : thr[b] # thr[d]
      BY <3>1 DEF Stuck
    <3>3. thr[c] \in Thread
      BY CallThread DEF Inactive
    <3>4. CASE KernelFree(req[c].id)
      BY <3>3, <3>4 DEF SetCanGo
    <3>5. CASE ~KernelFree(req[c].id)
      <4>1. PICK d \in locked : req[d].id = req[c].id
        BY <3>5 DEF KernelFree
      <4>2. /\ thr[d] \in Thread /\ d \in Call
            /\ \A b \in Call : thr[b] = thr[d] => pc[b] # "blocking"
        BY <3>2, <4>1, OwnedLock
      <4>3. phase[thr[d]] # "none"
        BY <4>2, NoneIsNothing DEF SetInv
      <4>4. QED
        BY <4>2, <4>3, OnlySleepersWait
    <3>6. QED
      BY <3>4, <3>5
  <2>3. QED
    BY <2>1, <2>2
<1>2. QED
  BY <1>1, SetInvHolds, NeverIdleHolds, SetsNeverWaitInARing, PTL
(***************************************************************************)
(* How many steps a set takes                                              *)
(***************************************************************************)

Asleep(t) == \E c \in Call : thr[c] = t /\ pc[c] = "blocking"

(* The steps that a thread's set may still take: five for a member to come
   (its start, the kernel's answer, the return, and two to release it), two
   for a guard, and those of the member on its way in or out. *)
MemberSteps(t) == IF Asleep(t) THEN 4 ELSE IF Busy(t) THEN 3 ELSE 0

PhaseSteps(t) ==
  CASE phase[t] = "none" -> 0
    [] phase[t] = "owned" -> 1
    [] phase[t] = "unwinding" -> IF Busy(t) THEN 1 ELSE 0
    [] phase[t] = "acquiring" -> 2 + 5 * Len(todo[t]) + MemberSteps(t)

SetRank(t) == 2 * Len(guards[t]) + PhaseSteps(t)

Others(t) == \A u \in Thread \ {t} : SetRank(u)' = SetRank(u)

(* A step begins a set, ends a process, or uses up one of the steps of one
   thread's set; and it leaves the other threads' sets theirs. *)
SetRanksFall ==
  [][\/ \E t \in Thread, s \in LockSets :
           /\ AcquireMany(t, s)
           /\ SetRank(t)' <= 5 * Len(s) + 2
           /\ Others(t)
     \/ \E p \in Process :
           /\ CrashSets(p)
           /\ \A u \in Thread : SetRank(u)' = IF ThreadProcess[u] = p THEN 0 ELSE SetRank(u)
     \/ \E t \in Thread : SetRank(t)' < SetRank(t) /\ Others(t)]_allVars

LEMMA SameRank ==
  ASSUME NEW u \in Thread,
         phase'[u] = phase[u], todo'[u] = todo[u], guards'[u] = guards[u],
         \A c \in Call : /\ thr'[c] = u <=> thr[c] = u
                         /\ thr[c] = u => pc'[c] = pc[c]
  PROVE  SetRank(u)' = SetRank(u)
<1>1. Busy(u)' <=> Busy(u)
  BY DEF Busy
<1>2. Asleep(u)' <=> Asleep(u)
  BY DEF Asleep
<1>3. MemberSteps(u)' = MemberSteps(u)
  BY <1>1, <1>2 DEF MemberSteps
<1>4. PhaseSteps(u)' = PhaseSteps(u)
  BY <1>1, <1>3 DEF PhaseSteps
<1>5. QED
  BY <1>4 DEF SetRank

(* What Busy and Asleep are of a thread with the call c under way. *)
LEMMA UnderWay ==
  ASSUME SetInv, NEW c \in Call, pc[c] \in InFlight \cup {"unlocked"}
  PROVE  /\ thr[c] \in Thread /\ Busy(thr[c])
         /\ Asleep(thr[c]) <=> pc[c] = "blocking"
         /\ phase[thr[c]] = IF pc[c] = "unlocked" THEN "unwinding" ELSE "acquiring"
<1>1. thr[c] \in Thread
  BY CallThread DEF InFlight, Inactive
<1>2. \A d \in Call : thr[d] = thr[c] /\ pc[d] \notin Inactive \cup {"held"} => d = c
  BY CallThread DEF InFlight, Inactive
<1>3. Busy(thr[c])
  BY DEF Busy, InFlight, Inactive
<1>4. Asleep(thr[c]) <=> pc[c] = "blocking"
  BY <1>2 DEF Asleep, Inactive
<1>5. QED
  BY <1>1, <1>3, <1>4 DEF SetInv, ThreadInv, MemberInv, InFlight

(* A call that ends leaves its thread with no other. *)
LEMMA NotBusyAfter ==
  ASSUME SetInv, NEW c \in Call, pc[c] \in InFlight \cup {"unlocked"},
         \A d \in Call : d # c => pc'[d] = pc[d] /\ thr'[d] = thr[d],
         thr'[c] # thr[c] \/ pc'[c] = "held"
  PROVE  \A d \in Call : thr'[d] = thr[c] => pc'[d] \in Inactive \cup {"held"}
<1>1. \A d \in Call : thr[d] = thr[c] /\ pc[d] \notin Inactive \cup {"held"} => d = c
  BY CallThread DEF InFlight, Inactive
<1>2. QED
  BY <1>1

LEMMA SetSizes ==
  ASSUME SetShape, NEW t \in Thread
  PROVE  /\ Len(guards[t]) \in Nat /\ Len(todo[t]) \in Nat
         /\ guards[t] \in Seq(Call) /\ todo[t] \in Seq(Requests)
         /\ phase[t] \in {"none", "acquiring", "unwinding", "owned"}
  BY DEF SetShape

(* A step that leaves a thread its guards, changes the rank by what it does
   to the phase. *)
LEMMA SameGuards ==
  ASSUME SetShape, NEW t \in Thread, guards'[t] = guards[t]
  PROVE  \E n \in Nat : /\ SetRank(t) = n + PhaseSteps(t)
                        /\ SetRank(t)' = n + PhaseSteps(t)'
<1>1. PICK n \in Nat : n = 2 * Len(guards[t])
  BY SetSizes
<1>2. SetRank(t) = n + PhaseSteps(t) /\ SetRank(t)' = n + PhaseSteps(t)'
  BY <1>1 DEF SetRank
<1>3. QED
  BY <1>1, <1>2

(* Every step of a thread's set brings the set nearer to its end, and no
   other thread can set it back. *)
THEOREM SetRanksFallHolds == SetSpec => SetRanksFall
<1> DEFINE Begins == \E t \in Thread, s \in LockSets :
                        /\ AcquireMany(t, s)
                        /\ SetRank(t)' <= 5 * Len(s) + 2
                        /\ Others(t)
           Ends == \E p \in Process :
                      /\ CrashSets(p)
                      /\ \A u \in Thread :
                            SetRank(u)' = IF ThreadProcess[u] = p THEN 0 ELSE SetRank(u)
           Falls == \E t \in Thread : SetRank(t)' < SetRank(t) /\ Others(t)
<1>1. SetInv /\ SetNext => Begins \/ Ends \/ Falls
  <2> SUFFICES ASSUME SetInv, SetNext PROVE Begins \/ Ends \/ Falls
    OBVIOUS
  <2>0. SetShape /\ SetShape' /\ TypeOK
    BY NextSetShape DEF SetInv, OrderInv, Exclusion
  <2> HIDE DEF Begins, Ends, Falls
  <2>1. ASSUME NEW t \in Thread, NEW s \in LockSets, AcquireMany(t, s) PROVE Begins
    <3>1. /\ pc' = pc /\ thr' = thr /\ guards' = guards /\ phase[t] = "none"
          /\ phase' = [phase EXCEPT ![t] = IF s = <<>> THEN "owned" ELSE "acquiring"]
          /\ todo' = [todo EXCEPT ![t] = Sorted(s)]
      BY <2>1 DEF AcquireMany, vars, Goes
    <3>2. Others(t)
      BY <2>0, <3>1, SameRank DEF Others, SetShape
    <3>3. Len(Sorted(s)) = Len(s) /\ Len(s) \in Nat
      BY LockSetAssumption, SortedIsSorted
    <3>4. Len(guards'[t]) = 0 /\ \A c \in Call : thr'[c] # t
      BY <3>1, NoneIsNothing DEF SetInv
    <3>5. ~Busy(t)' /\ ~Asleep(t)'
      BY <3>4 DEF Busy, Asleep
    <3>6. todo'[t] = Sorted(s) /\ phase'[t] = IF s = <<>> THEN "owned" ELSE "acquiring"
      BY <2>0, <3>1 DEF SetShape
    <3>7. PhaseSteps(t)' = IF s = <<>> THEN 1 ELSE 2 + 5 * Len(s)
      BY <3>3, <3>5, <3>6 DEF PhaseSteps, MemberSteps
    <3>8. SetRank(t)' <= 5 * Len(s) + 2
      BY <3>3, <3>4, <3>7 DEF SetRank
    <3>9. QED
      BY <2>1, <3>2, <3>8 DEF Begins
  <2>2. ASSUME NEW t \in Thread, StartMember(t) PROVE Falls
    <3> DEFINE c == Slots[t][Len(guards[t]) + 1]
    <3>1. c \in Call
      BY <2>0, <2>2, LockSetAssumption, SetSizes DEF StartMember
    <3> HIDE DEF c
    <3>2. /\ pc[c] = "idle" /\ phase' = phase /\ guards' = guards
          /\ pc' = [pc EXCEPT ![c] = "blocking"] /\ thr' = [thr EXCEPT ![c] = t]
          /\ todo' = [todo EXCEPT ![t] = Tail(@)]
          /\ phase[t] = "acquiring" /\ ~Busy(t) /\ todo[t] # <<>>
      BY <2>2 DEF StartMember, Acquiring, AcquireBlocking, Start, Goto, c
    <3>3. \A v \in Thread : thr[c] # v
      BY <3>1, <3>2 DEF SetInv, ThreadInv, MemberInv, InFlight
    <3>4. \A d \in Call : d # c => pc'[d] = pc[d] /\ thr'[d] = thr[d]
      BY <2>0, <3>1, <3>2 DEF TypeOK
    <3>5. pc'[c] = "blocking" /\ thr'[c] = t
      BY <2>0, <3>1, <3>2 DEF TypeOK
    <3>6. Others(t)
      <4> SUFFICES ASSUME NEW u \in Thread \ {t} PROVE SetRank(u)' = SetRank(u)
        BY DEF Others
      <4>1. phase'[u] = phase[u] /\ todo'[u] = todo[u] /\ guards'[u] = guards[u]
        BY <2>0, <3>2 DEF SetShape
      <4>2. QED
        BY <3>3, <3>4, <3>5, <4>1, SameRank
    <3>7. Asleep(t)' /\ ~Asleep(t)
      BY <3>1, <3>2, <3>5 DEF Asleep, Busy, Inactive
    <3>8. Len(todo'[t]) = Len(todo[t]) - 1 /\ phase'[t] = "acquiring" /\ guards'[t] = guards[t]
      BY <2>0, <3>2, SetSizes DEF SetShape
    <3>9. MemberSteps(t) = 0 /\ MemberSteps(t)' = 4
      BY <3>2, <3>7 DEF MemberSteps
    <3>10. PICK m \in Nat : m = 5 * Len(todo[t])
      BY <2>0, SetSizes
    <3>11. PhaseSteps(t) = m + 2 /\ PhaseSteps(t)' = m + 1
      BY <2>0, <3>2, <3>8, <3>9, <3>10, SetSizes DEF PhaseSteps
    <3>12. PICK n \in Nat : /\ SetRank(t) = n + PhaseSteps(t)
                            /\ SetRank(t)' = n + PhaseSteps(t)'
      BY <2>0, <3>8, SameGuards
    <3>13. SetRank(t)' < SetRank(t)
      BY <3>10, <3>11, <3>12
    <3>14. QED
      BY <3>6, <3>13 DEF Falls
  <2>3. ASSUME NEW t \in Thread, MemberRefused(t) \/ ReleaseSet(t) PROVE Falls
    <3>1. /\ pc' = pc /\ thr' = thr /\ guards' = guards
          /\ phase[t] \in {"acquiring", "owned"} /\ ~Busy(t)
          /\ phase' = [phase EXCEPT ![t] = IF guards[t] = <<>> THEN "none" ELSE "unwinding"]
          /\ \A u \in Thread \ {t} : todo'[u] = todo[u]
      <4>1. CASE MemberRefused(t)
        BY <2>0, <4>1 DEF MemberRefused, Acquiring, GiveUp, vars, Goes, SetShape
      <4>2. CASE ReleaseSet(t)
        BY <2>0, <4>2 DEF ReleaseSet, vars, Goes, SetInv, ThreadInv, MemberInv, InFlight, Busy,
                          Inactive
      <4>3. QED
        BY <2>3, <4>1, <4>2
    <3>2. Others(t)
      BY <2>0, <3>1, SameRank DEF Others, SetShape
    <3>3. ~Busy(t)'
      BY <3>1 DEF Busy
    <3>4. phase'[t] \in {"none", "unwinding"} /\ guards'[t] = guards[t]
      BY <2>0, <3>1 DEF SetShape
    <3>5. MemberSteps(t) = 0
      BY <3>1 DEF MemberSteps, Asleep, Busy, Inactive
    <3>6. PhaseSteps(t) \in Nat \ {0} /\ PhaseSteps(t)' = 0
      BY <2>0, <3>1, <3>3, <3>4, <3>5, SetSizes DEF PhaseSteps
    <3>7. SetRank(t)' < SetRank(t)
      BY <2>0, <3>4, <3>6, SetSizes DEF SetRank
    <3>8. QED
      BY <3>2, <3>7 DEF Falls
  <2>4. ASSUME NEW t \in Thread, Pop(t) PROVE Falls
    <3>1. PICK c \in Call : c = Last(guards[t])
      BY <2>0, <2>4, SequenceFacts DEF Pop, SetShape
    <3>2. pc[c] = "held" /\ thr[c] = t
      <4>1. \E k \in DOMAIN guards[t] : guards[t][k] = c
        BY <2>0, <2>4, <3>1, SequenceFacts DEF Pop, SetShape
      <4>2. QED
        BY <4>1 DEF SetInv, ThreadInv, MemberInv
    <3>3. /\ pc' = [pc EXCEPT ![c] = "unlocked"] /\ thr' = thr
          /\ guards' = [guards EXCEPT ![t] = Front(@)] /\ phase' = phase /\ todo' = todo
          /\ phase[t] = "unwinding" /\ ~Busy(t) /\ guards[t] # <<>>
      BY <2>4, <3>1, <3>2 DEF Pop, Release, Goto
    <3>4. Others(t)
      BY <2>0, <3>2, <3>3, SameRank DEF Others, SetShape, TypeOK
    <3>5. Len(guards'[t]) = Len(guards[t]) - 1 /\ phase'[t] = "unwinding"
      <4>1. guards[t] \in Seq(Call) /\ guards'[t] = Front(guards[t]) /\ phase'[t] = "unwinding"
        BY <2>0, <3>3 DEF SetShape
      <4>2. /\ Front(guards[t]) \in Seq(Call) /\ Len(guards[t]) \in Nat
            /\ DOMAIN Front(guards[t]) = 1 .. Len(guards[t]) - 1 /\ Len(guards[t]) \in DOMAIN guards[t]
        BY <3>3, <4>1, SequenceFacts
      <4>3. QED
        BY <4>1, <4>2
    <3>6. PhaseSteps(t) = 0 /\ PhaseSteps(t)' \in {0, 1}
      BY <3>3, <3>5 DEF PhaseSteps
    <3>7. SetRank(t)' < SetRank(t)
      BY <2>0, <3>5, <3>6, SetSizes DEF SetRank
    <3>8. QED
      BY <3>4, <3>7 DEF Falls
  <2>5. ASSUME NEW c \in Call, KernelStep(c) PROVE Falls
    <3>1. /\ UNCHANGED <<thr, phase, todo, guards>>
          /\ pc[c] \in {"blocking", "trying"} /\ pc'[c] \in {"granted", "refused"}
          /\ \A d \in Call : d # c => pc'[d] = pc[d]
      BY <2>0, <2>5 DEF KernelStep, KernelGrant, NativeError, Goto, setVars, TypeOK
    <3>2. PICK t \in Thread : t = thr[c]
      BY <3>1, CallThread DEF Inactive
    <3>3. pc[c] = "blocking"
      BY <3>1, <3>2 DEF SetInv, ThreadInv, MemberInv, InFlight
    <3>4. phase[t] = "acquiring" /\ Asleep(t)
      BY <3>2, <3>3, UnderWay DEF InFlight
    <3>5. Others(t)
      BY <3>1, <3>2, SameRank DEF Others
    <3>6. ~Asleep(t)'
      BY <3>1, <3>2, <3>3, CallThread DEF Asleep, Inactive
    <3>7. MemberSteps(t) = 4 /\ MemberSteps(t)' \in {0, 3}
      BY <3>4, <3>6 DEF MemberSteps
    <3>8. phase'[t] = "acquiring" /\ guards'[t] = guards[t] /\ todo'[t] = todo[t]
      BY <3>1, <3>4
    <3>9. PICK m \in Nat : m = 5 * Len(todo[t])
      BY <2>0, SetSizes
    <3>10. PhaseSteps(t) = m + 6 /\ PhaseSteps(t)' \in {m + 2, m + 5}
      BY <3>4, <3>7, <3>8, <3>9 DEF PhaseSteps
    <3>11. PICK n \in Nat : /\ SetRank(t) = n + PhaseSteps(t)
                            /\ SetRank(t)' = n + PhaseSteps(t)'
      BY <2>0, <3>8, SameGuards
    <3>12. SetRank(t)' < SetRank(t)
      BY <3>9, <3>10, <3>11
    <3>13. QED
      BY <3>5, <3>12 DEF Falls
  <2>6. ASSUME NEW c \in Call, MemberFails(c) PROVE Falls
    <3>1. pc[c] = "refused" /\ Finish(c) /\ GiveUp(thr[c])
      BY <2>6 DEF MemberFails, AbandonAttempt
    <3>2. PICK t \in Thread : t = thr[c]
      BY <3>1, CallThread DEF Inactive
    <3>3. phase[t] = "acquiring" /\ Busy(t) /\ ~Asleep(t)
      BY <3>1, <3>2, UnderWay DEF InFlight
    <3>4. /\ \A v \in Thread : thr'[c] # v
          /\ \A d \in Call : d # c => pc'[d] = pc[d] /\ thr'[d] = thr[d]
      BY <2>0, <3>1, Finished
    <3>5. Others(t)
      BY <2>0, <3>1, <3>2, <3>4, SameRank DEF GiveUp, Goes, Others, SetShape
    <3>6. ~Busy(t)'
      BY <3>1, <3>2, <3>4, NotBusyAfter DEF InFlight, Busy
    <3>7. phase'[t] \in {"none", "unwinding"} /\ guards'[t] = guards[t]
      BY <2>0, <3>1, <3>2 DEF GiveUp, Goes, SetShape
    <3>8. MemberSteps(t) = 3
      BY <3>3 DEF MemberSteps
    <3>9. PICK m \in Nat : m = 5 * Len(todo[t])
      BY <2>0, SetSizes
    <3>10. PhaseSteps(t) = m + 5 /\ PhaseSteps(t)' = 0
      BY <3>3, <3>6, <3>7, <3>8, <3>9 DEF PhaseSteps
    <3>11. PICK n \in Nat : /\ SetRank(t) = n + PhaseSteps(t)
                            /\ SetRank(t)' = n + PhaseSteps(t)'
      BY <2>0, <3>7, SameGuards
    <3>12. SetRank(t)' < SetRank(t)
      BY <3>9, <3>10, <3>11
    <3>13. QED
      BY <3>5, <3>12 DEF Falls
  <2>7. ASSUME NEW c \in Call, MemberAcquired(c) PROVE Falls
    <3>1. /\ pc[c] = "granted" /\ pc' = [pc EXCEPT ![c] = "held"] /\ thr' = thr /\ todo' = todo
          /\ guards' = [guards EXCEPT ![thr[c]] = Append(@, c)]
          /\ IF todo[thr[c]] = <<>> THEN Goes(thr[c], "owned") ELSE phase' = phase
      BY <2>7 DEF MemberAcquired, ReturnGuard, Goto
    <3>2. PICK t \in Thread : t = thr[c]
      BY <3>1, CallThread DEF Inactive
    <3>3. phase[t] = "acquiring" /\ Busy(t) /\ ~Asleep(t)
      BY <3>1, <3>2, UnderWay DEF InFlight
    <3>4. pc'[c] = "held" /\ \A d \in Call : d # c => pc'[d] = pc[d]
      BY <2>0, <3>1 DEF TypeOK
    <3>5. Others(t)
      BY <2>0, <3>1, <3>2, <3>4, SameRank DEF Goes, Others, SetShape
    <3>6. ~Busy(t)' /\ ~Asleep(t)'
      <4>1. \A d \in Call : thr'[d] = t => pc'[d] \in Inactive \cup {"held"}
        BY <3>1, <3>2, <3>4, NotBusyAfter DEF InFlight
      <4>2. QED
        BY <4>1 DEF Busy, Asleep, Inactive
    <3>7. /\ guards[t] \in Seq(Call) /\ guards'[t] = Append(guards[t], c) /\ todo'[t] = todo[t]
          /\ phase'[t] = IF todo[t] = <<>> THEN "owned" ELSE "acquiring"
      BY <2>0, <3>1, <3>2, <3>3 DEF Goes, SetShape
    <3>8. Len(guards'[t]) = Len(guards[t]) + 1
      BY <3>7
    <3>9. MemberSteps(t) = 3 /\ MemberSteps(t)' = 0
      BY <3>3, <3>6 DEF MemberSteps
    <3>10. PICK m \in Nat : m = 5 * Len(todo[t])
      BY <2>0, SetSizes
    <3>11. PhaseSteps(t) = m + 5 /\ PhaseSteps(t)' \in {1, m + 2}
      BY <3>3, <3>7, <3>9, <3>10 DEF PhaseSteps
    <3>12. PICK n \in Nat : /\ SetRank(t) = n + PhaseSteps(t)
                            /\ SetRank(t)' = n + 2 + PhaseSteps(t)'
      <4>1. PICK n \in Nat : n = 2 * Len(guards[t])
        BY <2>0, SetSizes
      <4>2. 2 * Len(guards'[t]) = n + 2
        BY <2>0, <3>8, <4>1, SetSizes
      <4>3. QED
        BY <4>1, <4>2 DEF SetRank
    <3>13. SetRank(t)' < SetRank(t)
      BY <3>10, <3>11, <3>12
    <3>14. QED
      BY <3>5, <3>13 DEF Falls
  <2>8. ASSUME NEW c \in Call, Popped(c) PROVE Falls
    <3>1. /\ pc[c] = "unlocked" /\ Finish(c) /\ todo' = todo /\ guards' = guards
          /\ IF guards[thr[c]] = <<>> THEN Goes(thr[c], "none") ELSE phase' = phase
      BY <2>8 DEF Popped, FinishRelease
    <3>2. PICK t \in Thread : t = thr[c]
      BY <3>1, CallThread DEF Inactive
    <3>3. phase[t] = "unwinding" /\ Busy(t)
      BY <3>1, <3>2, UnderWay DEF InFlight
    <3>4. /\ \A v \in Thread : thr'[c] # v
          /\ \A d \in Call : d # c => pc'[d] = pc[d] /\ thr'[d] = thr[d]
      BY <2>0, <3>1, Finished
    <3>5. Others(t)
      BY <2>0, <3>1, <3>2, <3>4, SameRank DEF Goes, Others, SetShape
    <3>6. ~Busy(t)'
      BY <3>1, <3>2, <3>4, NotBusyAfter DEF InFlight, Busy
    <3>7. phase'[t] \in {"none", "unwinding"} /\ guards'[t] = guards[t]
      BY <2>0, <3>1, <3>2, <3>3 DEF Goes, SetShape
    <3>8. PhaseSteps(t) = 1 /\ PhaseSteps(t)' = 0
      BY <3>3, <3>6, <3>7 DEF PhaseSteps
    <3>9. SetRank(t)' < SetRank(t)
      BY <2>0, <3>7, <3>8, SetSizes DEF SetRank
    <3>10. QED
      BY <3>5, <3>9 DEF Falls
  <2>9. ASSUME NEW p \in Process, CrashSets(p) PROVE Ends
    <3>1. ASSUME NEW u \in Thread, ThreadProcess[u] = p PROVE SetRank(u)' = 0
      <4>1. phase'[u] = "none" /\ guards'[u] = <<>>
        BY <2>9, <3>1 DEF CrashSets
      <4>2. PhaseSteps(u)' = 0 /\ Len(guards'[u]) = 0
        BY <4>1 DEF PhaseSteps
      <4>3. QED
        BY <4>2 DEF SetRank
    <3>2. ASSUME NEW u \in Thread, ThreadProcess[u] # p PROVE SetRank(u)' = SetRank(u)
      <4>1. phase'[u] = phase[u] /\ todo'[u] = todo[u] /\ guards'[u] = guards[u]
        BY <2>9, <3>2 DEF CrashSets
      <4>2. \A c \in Call : thr[c] = u => thr'[c] = thr[c] /\ pc'[c] = pc[c]
        BY <2>9, <3>2 DEF CrashSets, Crash
      <4>3. \A c \in Call : thr'[c] = u => thr[c] = u
        BY <2>9, ConstantsAssumption DEF CrashSets, Crash
      <4>4. QED
        BY <4>1, <4>2, <4>3, SameRank
    <3>3. QED
      BY <2>9, <3>1, <3>2 DEF Ends
  <2>10. QED
    BY <2>1, <2>2, <2>3, <2>4, <2>5, <2>6, <2>7, <2>8, <2>9 DEF SetNext, SetStep, MemberStep
<1>2. QED
  BY <1>1, SetInvHolds, PTL DEF SetSpec, SetRanksFall

=============================================================================
