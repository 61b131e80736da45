------------------------------- MODULE Account ------------------------------
(***************************************************************************)
(* What a user may rely on, with nothing about memos, payments or relayers: *)
(* an account runs only operations that its owner signed for, in the order  *)
(* of their nonces, and each of them once, however often it is ordered.      *)
(***************************************************************************)
EXTENDS Naturals

CONSTANT Owners

VARIABLES
    signed,   \* the orders each owner has signed: an operation, and what tells orders apart
    done,     \* the orders that each account has carried out
    next      \* the nonce each account accepts next

AccountInit ==
    /\ signed = [o \in Owners |-> {}]
    /\ done = [o \in Owners |-> {}]
    /\ next = [o \in Owners |-> 0]

\* An owner is only ever given operations of the owner's own account to sign.
Sign(o) ==
    /\ \E order \in signed'[o] : /\ order.op.sender = o
                                 /\ signed' = [signed EXCEPT ![o] = @ \cup {order}]
    /\ UNCHANGED <<done, next>>

CarryOut(o, order) ==
    /\ order.op.nonce = next[o]
    /\ \A past \in done[o] : past.op # order.op
    /\ done' = [done EXCEPT ![o] = @ \cup {order}]
    /\ next' = [next EXCEPT ![o] = @ + 1]
    /\ UNCHANGED signed

\* The owner skips nonces.
Skip(o) ==
    /\ next'[o] > next[o]
    /\ next' = [next EXCEPT ![o] = next'[o]]
    /\ UNCHANGED <<signed, done>>

AccountNext ==
    \E o \in Owners : Sign(o) \/ Skip(o) \/ \E order \in signed[o] : CarryOut(o, order)

AccountSpec == AccountInit /\ [][AccountNext]_<<signed, done, next>>

=============================================================================
