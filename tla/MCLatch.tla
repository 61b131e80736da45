------------------------------ MODULE MCLatch -------------------------------
(* Instances of Latch: two operations with their hashes, and one trigger of *)
(* each kind.                                                               *)
EXTENDS Latch

OneOp  == {"swap"}
TwoOps == {"swap", "stake"}

Hash == [o \in Ops |-> IF o = "swap" THEN "h(swap)" ELSE "h(stake)"]
Hashes == {Hash[o] : o \in Ops}

Rises == {[kind |-> "GTE", value |-> 2]}
Falls == {[kind |-> "LTE", value |-> 1]}
Due1  == {[kind |-> "TIME", value |-> 1]}

=============================================================================
