-------------------------------- MODULE Memo --------------------------------
(***************************************************************************)
(* The memo codec of the SDK (packages/sdk/src/memo.ts): the seven          *)
(* instructions, as they are laid out in the memo of an XRPL payment.        *)
(*                                                                           *)
(* A memo is its length in bytes and the fields written into it, each at an  *)
(* offset and with a width: what is read back at an offset is the field that *)
(* was written there with that very width, and garbage anywhere else.        *)
(***************************************************************************)
EXTENDS Naturals

CONSTANTS
    FeeLimit,   \* values a fee field can hold: 2^64
    NonceLimit, \* values a nonce can have: 2^256
    Garbage     \* what the bytes of two fields, or of half a field, mean

ASSUME MemoAssumption == FeeLimit \in Nat \ {0} /\ NonceLimit \in Nat \ {0}

EXECUTE_INLINE      == "0xFF"
EXECUTE_COMMITTED   == "0xFE"
IGNORE_MEMO         == "0xE0"
SET_NONCE           == "0xE1"
SET_REPLACEMENT_FEE == "0xE2"
SET_EXECUTOR        == "0xD0"
REMOVE_EXECUTOR     == "0xD1"

HEADER_BYTES == 10
XRPL_MEMO_MAX_BYTES == 1024

\* The lengths the contract requires; only the inline form has none.
MEMO_LENGTH ==
    [op \in {EXECUTE_COMMITTED, IGNORE_MEMO, SET_NONCE, SET_REPLACEMENT_FEE,
             SET_EXECUTOR, REMOVE_EXECUTOR} |->
        CASE op = SET_REPLACEMENT_FEE -> 50
          [] op = SET_EXECUTOR        -> 30
          [] op = REMOVE_EXECUTOR     -> 10
          [] OTHER                    -> 42]

-----------------------------------------------------------------------------
(***************************************************************************)
(* Encoding.  Throws is the outcome of an encoder that throws.              *)
(***************************************************************************)

Throws == [len |-> 0, fields |-> {}]

Field(at, width, value) == [at |-> at, width |-> width, value |-> value]

\* Mutant of EncodeHeader: no range checks, so setBigUint64 keeps the low 64 bits.
EncodeHeaderUnchecked(opcode, walletId, fee) ==
    [len |-> HEADER_BYTES,
     fields |-> {Field(0, 1, opcode), Field(1, 1, walletId), Field(2, 8, fee % FeeLimit)}]

EncodeHeader(opcode, walletId, fee) ==
    IF walletId \in 0 .. 255 /\ fee \in 0 .. FeeLimit - 1
    THEN [len |-> HEADER_BYTES,
          fields |-> {Field(0, 1, opcode), Field(1, 1, walletId), Field(2, 8, fee)}]
    ELSE Throws

\* concat: the next part goes where the memo ends.
Concat(memo, width, value) ==
    IF memo = Throws THEN Throws
    ELSE [len |-> memo.len + width,
          fields |-> memo.fields \cup {Field(memo.len, width, value)}]

AssertLength(opcode, memo) == IF memo.len = MEMO_LENGTH[opcode] THEN memo ELSE Throws

EncodeExecuteCommitted(walletId, fee, userOpHash) ==
    AssertLength(EXECUTE_COMMITTED,
                 Concat(EncodeHeader(EXECUTE_COMMITTED, walletId, fee), 32, userOpHash))

\* The bytes themselves, up to XRPL's cap.
EncodeExecuteInline(walletId, fee, userOpData, bytes) ==
    LET memo == Concat(EncodeHeader(EXECUTE_INLINE, walletId, fee), bytes, userOpData)
    IN  IF memo.len > XRPL_MEMO_MAX_BYTES THEN Throws ELSE memo

\* ZeroAddress is refused: the contract reverts AddressZero().
ZeroAddress == "0x0"
EncodeSetExecutor(walletId, fee, executor) ==
    IF executor = ZeroAddress THEN Throws
    ELSE AssertLength(SET_EXECUTOR,
                      Concat(EncodeHeader(SET_EXECUTOR, walletId, fee), 20, executor))

EncodeRemoveExecutor(walletId, fee) ==
    AssertLength(REMOVE_EXECUTOR, EncodeHeader(REMOVE_EXECUTOR, walletId, fee))

EncodeIgnore(walletId, fee, targetTxId) ==
    AssertLength(IGNORE_MEMO, Concat(EncodeHeader(IGNORE_MEMO, walletId, fee), 32, targetTxId))

EncodeSetNonce(walletId, fee, newNonce) ==
    IF newNonce \notin 0 .. NonceLimit - 1 THEN Throws
    ELSE AssertLength(SET_NONCE, Concat(EncodeHeader(SET_NONCE, walletId, fee), 32, newNonce))

EncodeReplacementFee(walletId, fee, targetTxId, newFee) ==
    IF newFee \notin 0 .. FeeLimit - 1 THEN Throws
    ELSE AssertLength(SET_REPLACEMENT_FEE,
             Concat(Concat(EncodeHeader(SET_REPLACEMENT_FEE, walletId, fee), 32, targetTxId),
                    8, newFee))

-----------------------------------------------------------------------------
(***************************************************************************)
(* Decoding.                                                                *)
(***************************************************************************)

\* The value between two offsets.
Read(memo, at, width) ==
    IF \E f \in memo.fields : f.at = at /\ f.width = width
    THEN (CHOOSE f \in memo.fields : f.at = at /\ f.width = width).value
    ELSE Garbage

\* An instruction with its two operands; most have one or none.
Instruction(opcode, walletId, fee, operand, newFee) ==
    [opcode |-> opcode, walletId |-> walletId, executorFeeUBA |-> fee,
     operand |-> operand, newFeeUBA |-> newFee]

Malformed == Instruction("none", 0, 0, Garbage, 0)

Decode(memo) ==
    LET opcode == Read(memo, 0, 1)
        Decoded(operand, newFee) ==
            Instruction(opcode, Read(memo, 1, 1), Read(memo, 2, 8), operand, newFee)
    IN  IF memo.len < HEADER_BYTES \/ opcode \notin DOMAIN MEMO_LENGTH \cup {EXECUTE_INLINE}
        THEN Malformed
        ELSE IF opcode = EXECUTE_INLINE
        THEN Decoded(Read(memo, 10, memo.len - 10), 0)
        ELSE IF memo.len # MEMO_LENGTH[opcode] THEN Malformed
        ELSE CASE opcode = SET_REPLACEMENT_FEE -> Decoded(Read(memo, 10, 32), Read(memo, 42, 8))
               [] opcode = SET_EXECUTOR        -> Decoded(Read(memo, 10, 20), 0)
               [] opcode = REMOVE_EXECUTOR     -> Decoded(Garbage, 0)
               [] OTHER                        -> Decoded(Read(memo, 10, 32), 0)

\* commitmentFromMemos (executor/src/watcher.ts): the first memo of the payment that is
\* an 0xFE instruction, past those of others and malformed ones.
CommitmentFromMemos(memos) ==
    LET mine == {i \in DOMAIN memos : Decode(memos[i]).opcode = EXECUTE_COMMITTED}
    IN  IF mine = {} THEN Garbage
        ELSE Decode(memos[CHOOSE i \in mine : \A j \in mine : i <= j]).operand

=============================================================================
