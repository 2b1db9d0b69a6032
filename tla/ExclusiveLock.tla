---------------------------- MODULE ExclusiveLock ----------------------------
(***************************************************************************)
(* What zed-lock promises its callers, with nothing of how: a client holds *)
(* at most one identity, takes it only while nobody holds it, gives it     *)
(* back, and loses it when its process ends.                               *)
(***************************************************************************)
CONSTANTS
  Client,           \* those who may own a lock
  Identity,         \* what can be owned
  NoIdentity        \* held by a client that owns nothing

VARIABLE hold       \* the identity each client owns

Init == hold = [c \in Client |-> NoIdentity]

Take(c, i) ==
  /\ hold[c] = NoIdentity
  /\ \A d \in Client : hold[d] # i
  /\ hold' = [hold EXCEPT ![c] = i]

GiveBack(c) ==
  /\ hold[c] # NoIdentity
  /\ hold' = [hold EXCEPT ![c] = NoIdentity]

(* The clients of an ending process lose what they own, together. *)
Die(D) == hold' = [c \in Client |-> IF c \in D THEN NoIdentity ELSE hold[c]]

Next ==
  \/ \E c \in Client, i \in Identity : Take(c, i)
  \/ \E c \in Client : GiveBack(c)
  \/ \E D \in SUBSET Client : Die(D)

Spec == Init /\ [][Next]_hold

(* One owner per identity. *)
Exclusive ==
  \A c, d \in Client : hold[c] = hold[d] /\ hold[c] # NoIdentity => c = d

=============================================================================
