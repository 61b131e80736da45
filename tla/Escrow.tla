------------------------------- MODULE Escrow -------------------------------
(***************************************************************************)
(* What LATCH promises about the bytes it holds, with nothing about how: an *)
(* operation is sealed when it is armed; a sealed box is either opened or   *)
(* destroyed, once and for good; bytes leave only an open box.              *)
(***************************************************************************)
CONSTANT Boxes

VARIABLES
    box,   \* the life of each box
    out    \* boxes whose bytes have left the enclave

Sealed == {b \in Boxes : box[b] = "sealed"}

EscrowInit == box = [b \in Boxes |-> "empty"] /\ out = {}

Seal(b) ==
    /\ box[b] = "empty"
    /\ box' = [box EXCEPT ![b] = "sealed"]
    /\ UNCHANGED out

\* One evaluation of the triggers settles some sealed boxes together.
Settle(opened, destroyed) ==
    /\ opened \cap destroyed = {}
    /\ box' = [b \in Boxes |-> CASE b \in opened -> "open"
                                 [] b \in destroyed -> "destroyed"
                                 [] OTHER -> box[b]]
    /\ UNCHANGED out

Release(b) ==
    /\ box[b] = "open"
    /\ out' = out \cup {b}
    /\ UNCHANGED box

EscrowNext ==
    \/ \E b \in Boxes : Seal(b) \/ Release(b)
    \/ \E opened, destroyed \in SUBSET Sealed : Settle(opened, destroyed)

EscrowSpec == EscrowInit /\ [][EscrowNext]_<<box, out>>

=============================================================================
