------------------------------ MODULE MCIntake ------------------------------
(* Instances of Intake: two payments of registered users, or of one who paid *)
(* again, one of them behind a memo that is nobody's, and one of someone else *)
(* with another instruction.                                                  *)
EXTENDS Intake

TwoUsers == [p \in Payments |->
                CASE p = 11 -> <<Throws, EncodeExecuteCommitted(0, 0, "c1")>>
                  [] p = 12 -> <<EncodeExecuteCommitted(0, 0, "c2")>>
                  [] OTHER  -> <<EncodeIgnore(0, 0, "c1")>>]
TheirCommitments == [p \in Payments |->
                CASE p = 11 -> "c1" [] p = 12 -> "c2" [] OTHER -> Garbage]

PaidAgain == [p \in Payments |->
                CASE p = 11 -> <<Throws, EncodeExecuteCommitted(0, 0, "c1")>>
                  [] p = 12 -> <<EncodeExecuteCommitted(0, 0, "c1")>>
                  [] OTHER  -> <<EncodeIgnore(0, 0, "c1")>>]
ItsCommitment == [p \in Payments |-> IF p \in {11, 12} THEN "c1" ELSE Garbage]

=============================================================================
