----------------------------- MODULE CodecProofs -----------------------------
(***************************************************************************)
(* Theorems about the SDK's pure parts: a memo that an encoder returns      *)
(* decodes to what was encoded, for every operand, and a payment covers the *)
(* fees that it was computed from, for every amount.                         *)
(***************************************************************************)
EXTENDS Memo, Fees, TLAPS

\* The length that the contract requires of each instruction (memo.ts:39-46).
LEMMA Lengths ==
    /\ DOMAIN MEMO_LENGTH = {EXECUTE_COMMITTED, IGNORE_MEMO, SET_NONCE, SET_REPLACEMENT_FEE,
                             SET_EXECUTOR, REMOVE_EXECUTOR}
    /\ MEMO_LENGTH[EXECUTE_COMMITTED] = 42 /\ MEMO_LENGTH[IGNORE_MEMO] = 42
    /\ MEMO_LENGTH[SET_NONCE] = 42 /\ MEMO_LENGTH[SET_REPLACEMENT_FEE] = 50
    /\ MEMO_LENGTH[SET_EXECUTOR] = 30 /\ MEMO_LENGTH[REMOVE_EXECUTOR] = 10
  BY DEF MEMO_LENGTH, EXECUTE_COMMITTED, IGNORE_MEMO, SET_NONCE, SET_REPLACEMENT_FEE,
         SET_EXECUTOR, REMOVE_EXECUTOR

\* What is read where one field was written is that field (decodeMemo's slices).
LEMMA ReadIs ==
    ASSUME NEW memo, NEW at, NEW width, NEW value,
           Field(at, width, value) \in memo.fields,
           \A f \in memo.fields : f.at = at /\ f.width = width => f.value = value
    PROVE  Read(memo, at, width) = value
  BY DEF Read, Field

\* A header that is written is ten bytes with the fields at their offsets.
LEMMA Header ==
    ASSUME NEW opcode, NEW walletId, NEW fee, EncodeHeader(opcode, walletId, fee) # Throws
    PROVE  EncodeHeader(opcode, walletId, fee) =
             [len |-> 10, fields |-> {Field(0, 1, opcode), Field(1, 1, walletId),
                                      Field(2, 8, fee)}]
  BY DEF EncodeHeader, HEADER_BYTES

\* A header, and one operand after it, is read back field by field.
LEMMA OneOperand ==
    ASSUME NEW opcode, NEW walletId, NEW fee, NEW width, NEW value, NEW memo,
           memo = Concat(EncodeHeader(opcode, walletId, fee), width, value),
           memo # Throws
    PROVE  /\ memo.len = 10 + width
           /\ Read(memo, 0, 1) = opcode /\ Read(memo, 1, 1) = walletId
           /\ Read(memo, 2, 8) = fee /\ Read(memo, 10, width) = value
<1>1. EncodeHeader(opcode, walletId, fee) # Throws
  BY DEF Concat
<1>2. memo = [len |-> 10 + width,
              fields |-> {Field(0, 1, opcode), Field(1, 1, walletId), Field(2, 8, fee)}
                             \cup {Field(10, width, value)}]
  BY <1>1, Header DEF Concat
<1>3. memo.fields = {Field(0, 1, opcode), Field(1, 1, walletId), Field(2, 8, fee),
                     Field(10, width, value)}
  BY <1>2
<1>4. Read(memo, 0, 1) = opcode
  <2>1. \A f \in memo.fields : f.at = 0 /\ f.width = 1 => f.value = opcode
    BY <1>3 DEF Field
  <2> QED BY <1>3, <2>1, ReadIs
<1>5. Read(memo, 1, 1) = walletId
  <2>1. \A f \in memo.fields : f.at = 1 /\ f.width = 1 => f.value = walletId
    BY <1>3 DEF Field
  <2> QED BY <1>3, <2>1, ReadIs
<1>6. Read(memo, 2, 8) = fee
  <2>1. \A f \in memo.fields : f.at = 2 /\ f.width = 8 => f.value = fee
    BY <1>3 DEF Field
  <2> QED BY <1>3, <2>1, ReadIs
<1>7. Read(memo, 10, width) = value
  <2>1. \A f \in memo.fields : f.at = 10 /\ f.width = width => f.value = value
    BY <1>3 DEF Field
  <2> QED BY <1>3, <2>1, ReadIs
<1> QED BY <1>2, <1>4, <1>5, <1>6, <1>7

\* The opcodes differ (memo.ts:19-36).
LEMMA Opcodes ==
    /\ EXECUTE_COMMITTED \notin {EXECUTE_INLINE, IGNORE_MEMO, SET_NONCE, SET_REPLACEMENT_FEE,
                                 SET_EXECUTOR, REMOVE_EXECUTOR}
    /\ IGNORE_MEMO \notin {EXECUTE_INLINE, SET_NONCE, SET_REPLACEMENT_FEE, SET_EXECUTOR,
                           REMOVE_EXECUTOR}
    /\ SET_NONCE \notin {EXECUTE_INLINE, SET_REPLACEMENT_FEE, SET_EXECUTOR, REMOVE_EXECUTOR}
    /\ SET_REPLACEMENT_FEE \notin {EXECUTE_INLINE, SET_EXECUTOR, REMOVE_EXECUTOR}
    /\ SET_EXECUTOR \notin {EXECUTE_INLINE, REMOVE_EXECUTOR}
    /\ REMOVE_EXECUTOR # EXECUTE_INLINE
  BY DEF EXECUTE_INLINE, EXECUTE_COMMITTED, IGNORE_MEMO, SET_NONCE, SET_REPLACEMENT_FEE,
         SET_EXECUTOR, REMOVE_EXECUTOR

\* A memo of the right length is decoded by its opcode (decodeMemo's switch).
LEMMA DecodeFixed ==
    ASSUME NEW memo, NEW opcode, opcode \in DOMAIN MEMO_LENGTH,
           Read(memo, 0, 1) = opcode, memo.len = MEMO_LENGTH[opcode]
    PROVE  Decode(memo) =
             CASE opcode = SET_REPLACEMENT_FEE ->
                    Instruction(opcode, Read(memo, 1, 1), Read(memo, 2, 8),
                                Read(memo, 10, 32), Read(memo, 42, 8))
               [] opcode = SET_EXECUTOR ->
                    Instruction(opcode, Read(memo, 1, 1), Read(memo, 2, 8),
                                Read(memo, 10, 20), 0)
               [] opcode = REMOVE_EXECUTOR ->
                    Instruction(opcode, Read(memo, 1, 1), Read(memo, 2, 8), Garbage, 0)
               [] OTHER ->
                    Instruction(opcode, Read(memo, 1, 1), Read(memo, 2, 8),
                                Read(memo, 10, 32), 0)
<1>1. memo.len \in {10, 30, 42, 50}
  BY Lengths
<1>2. ~(memo.len < HEADER_BYTES)
  BY <1>1 DEF HEADER_BYTES
<1>3. opcode # EXECUTE_INLINE
  BY Lengths, Opcodes
<1> QED BY <1>2, <1>3 DEF Decode

\* encodeExecuteCommittedMemo: an 0xFE memo, if one comes out, says the wallet, the fee and the
\* hash it was given, to executors, contracts and gate1 alike.
THEOREM CommittedRoundTrip ==
    ASSUME NEW walletId, NEW fee, NEW hash, EncodeExecuteCommitted(walletId, fee, hash) # Throws
    PROVE  Decode(EncodeExecuteCommitted(walletId, fee, hash)) =
             Instruction(EXECUTE_COMMITTED, walletId, fee, hash, 0)
<1> DEFINE memo == EncodeExecuteCommitted(walletId, fee, hash)
<1>1. /\ memo = Concat(EncodeHeader(EXECUTE_COMMITTED, walletId, fee), 32, hash)
      /\ memo # Throws
  BY DEF EncodeExecuteCommitted, AssertLength
<1> HIDE DEF memo
<1>2. /\ memo.len = 42
      /\ Read(memo, 0, 1) = EXECUTE_COMMITTED /\ Read(memo, 1, 1) = walletId
      /\ Read(memo, 2, 8) = fee /\ Read(memo, 10, 32) = hash
  BY <1>1, OneOperand
<1>3. memo.len = MEMO_LENGTH[EXECUTE_COMMITTED] /\ EXECUTE_COMMITTED \in DOMAIN MEMO_LENGTH
  BY <1>2, Lengths
<1>4. Decode(memo) = Instruction(EXECUTE_COMMITTED, Read(memo, 1, 1), Read(memo, 2, 8),
                                 Read(memo, 10, 32), 0)
  BY <1>2, <1>3, DecodeFixed, Opcodes
<1>5. Decode(memo) = Instruction(EXECUTE_COMMITTED, walletId, fee, hash, 0)
  BY <1>2, <1>4
<1> QED BY <1>5 DEF memo

\* encodeIgnoreMemo: an 0xE0 memo names the payment to be skipped.
THEOREM IgnoreRoundTrip ==
    ASSUME NEW walletId, NEW fee, NEW target, EncodeIgnore(walletId, fee, target) # Throws
    PROVE  Decode(EncodeIgnore(walletId, fee, target)) =
             Instruction(IGNORE_MEMO, walletId, fee, target, 0)
<1> DEFINE memo == EncodeIgnore(walletId, fee, target)
<1>1. /\ memo = Concat(EncodeHeader(IGNORE_MEMO, walletId, fee), 32, target)
      /\ memo # Throws
  BY DEF EncodeIgnore, AssertLength
<1> HIDE DEF memo
<1>2. /\ memo.len = 42
      /\ Read(memo, 0, 1) = IGNORE_MEMO /\ Read(memo, 1, 1) = walletId
      /\ Read(memo, 2, 8) = fee /\ Read(memo, 10, 32) = target
  BY <1>1, OneOperand
<1>3. memo.len = MEMO_LENGTH[IGNORE_MEMO] /\ IGNORE_MEMO \in DOMAIN MEMO_LENGTH
  BY <1>2, Lengths
<1>4. Decode(memo) = Instruction(IGNORE_MEMO, Read(memo, 1, 1), Read(memo, 2, 8),
                                 Read(memo, 10, 32), 0)
  BY <1>2, <1>3, DecodeFixed, Opcodes
<1>5. Decode(memo) = Instruction(IGNORE_MEMO, walletId, fee, target, 0)
  BY <1>2, <1>4
<1> QED BY <1>5 DEF memo

\* encodeSetNonceMemo: an 0xE1 memo carries the new nonce.
THEOREM NonceRoundTrip ==
    ASSUME NEW walletId, NEW fee, NEW nonce, EncodeSetNonce(walletId, fee, nonce) # Throws
    PROVE  Decode(EncodeSetNonce(walletId, fee, nonce)) =
             Instruction(SET_NONCE, walletId, fee, nonce, 0)
<1> DEFINE memo == EncodeSetNonce(walletId, fee, nonce)
<1>1. /\ memo = Concat(EncodeHeader(SET_NONCE, walletId, fee), 32, nonce)
      /\ memo # Throws
  BY DEF EncodeSetNonce, AssertLength, Throws
<1> HIDE DEF memo
<1>2. /\ memo.len = 42
      /\ Read(memo, 0, 1) = SET_NONCE /\ Read(memo, 1, 1) = walletId
      /\ Read(memo, 2, 8) = fee /\ Read(memo, 10, 32) = nonce
  BY <1>1, OneOperand
<1>3. memo.len = MEMO_LENGTH[SET_NONCE] /\ SET_NONCE \in DOMAIN MEMO_LENGTH
  BY <1>2, Lengths
<1>4. Decode(memo) = Instruction(SET_NONCE, Read(memo, 1, 1), Read(memo, 2, 8),
                                 Read(memo, 10, 32), 0)
  BY <1>2, <1>3, DecodeFixed, Opcodes
<1>5. Decode(memo) = Instruction(SET_NONCE, walletId, fee, nonce, 0)
  BY <1>2, <1>4
<1> QED BY <1>5 DEF memo

\* encodeSetExecutorMemo: an 0xD0 memo carries the executor to pin.
THEOREM ExecutorRoundTrip ==
    ASSUME NEW walletId, NEW fee, NEW executor, EncodeSetExecutor(walletId, fee, executor) # Throws
    PROVE  Decode(EncodeSetExecutor(walletId, fee, executor)) =
             Instruction(SET_EXECUTOR, walletId, fee, executor, 0)
<1> DEFINE memo == EncodeSetExecutor(walletId, fee, executor)
<1>1. /\ memo = Concat(EncodeHeader(SET_EXECUTOR, walletId, fee), 20, executor)
      /\ memo # Throws
  BY DEF EncodeSetExecutor, AssertLength
<1> HIDE DEF memo
<1>2. /\ memo.len = 30
      /\ Read(memo, 0, 1) = SET_EXECUTOR /\ Read(memo, 1, 1) = walletId
      /\ Read(memo, 2, 8) = fee /\ Read(memo, 10, 20) = executor
  BY <1>1, OneOperand
<1>3. memo.len = MEMO_LENGTH[SET_EXECUTOR] /\ SET_EXECUTOR \in DOMAIN MEMO_LENGTH
  BY <1>2, Lengths
<1>4. Decode(memo) = Instruction(SET_EXECUTOR, Read(memo, 1, 1), Read(memo, 2, 8),
                                 Read(memo, 10, 20), 0)
  BY <1>2, <1>3, DecodeFixed, Opcodes
<1>5. Decode(memo) = Instruction(SET_EXECUTOR, walletId, fee, executor, 0)
  BY <1>2, <1>4
<1> QED BY <1>5 DEF memo

\* encodeRemoveExecutorMemo: an 0xD1 memo is a header alone.
THEOREM RemoveRoundTrip ==
    ASSUME NEW walletId, NEW fee, EncodeRemoveExecutor(walletId, fee) # Throws
    PROVE  Decode(EncodeRemoveExecutor(walletId, fee)) =
             Instruction(REMOVE_EXECUTOR, walletId, fee, Garbage, 0)
<1> DEFINE memo == EncodeRemoveExecutor(walletId, fee)
<1>1. memo = EncodeHeader(REMOVE_EXECUTOR, walletId, fee) /\ memo # Throws
  BY DEF EncodeRemoveExecutor, AssertLength
<1> HIDE DEF memo
<1>2. memo = [len |-> 10, fields |-> {Field(0, 1, REMOVE_EXECUTOR), Field(1, 1, walletId),
                                      Field(2, 8, fee)}]
  BY <1>1, Header
<1>3. Read(memo, 0, 1) = REMOVE_EXECUTOR
  <2>1. \A f \in memo.fields : f.at = 0 /\ f.width = 1 => f.value = REMOVE_EXECUTOR
    BY <1>2 DEF Field
  <2> QED BY <1>2, <2>1, ReadIs
<1>4. Read(memo, 1, 1) = walletId
  <2>1. \A f \in memo.fields : f.at = 1 /\ f.width = 1 => f.value = walletId
    BY <1>2 DEF Field
  <2> QED BY <1>2, <2>1, ReadIs
<1>5. Read(memo, 2, 8) = fee
  <2>1. \A f \in memo.fields : f.at = 2 /\ f.width = 8 => f.value = fee
    BY <1>2 DEF Field
  <2> QED BY <1>2, <2>1, ReadIs
<1>6. memo.len = MEMO_LENGTH[REMOVE_EXECUTOR] /\ REMOVE_EXECUTOR \in DOMAIN MEMO_LENGTH
  BY <1>2, Lengths
<1>7. Decode(memo) = Instruction(REMOVE_EXECUTOR, Read(memo, 1, 1), Read(memo, 2, 8), Garbage, 0)
  BY <1>3, <1>6, DecodeFixed, Opcodes
<1>8. Decode(memo) = Instruction(REMOVE_EXECUTOR, walletId, fee, Garbage, 0)
  BY <1>4, <1>5, <1>7
<1> QED BY <1>8 DEF memo

\* encodeExecuteInlineMemo: an 0xFF memo carries the operation, whatever its length.
THEOREM InlineRoundTrip ==
    ASSUME NEW walletId, NEW fee, NEW op, NEW bytes \in Nat,
           EncodeExecuteInline(walletId, fee, op, bytes) # Throws
    PROVE  Decode(EncodeExecuteInline(walletId, fee, op, bytes)) =
             Instruction(EXECUTE_INLINE, walletId, fee, op, 0)
<1> DEFINE memo == EncodeExecuteInline(walletId, fee, op, bytes)
<1>1. memo = Concat(EncodeHeader(EXECUTE_INLINE, walletId, fee), bytes, op) /\ memo # Throws
  BY DEF EncodeExecuteInline
<1> HIDE DEF memo
<1>2. /\ memo.len = 10 + bytes
      /\ Read(memo, 0, 1) = EXECUTE_INLINE /\ Read(memo, 1, 1) = walletId
      /\ Read(memo, 2, 8) = fee /\ Read(memo, 10, bytes) = op
  BY <1>1, OneOperand
<1>3. memo.len - 10 = bytes /\ ~(memo.len < HEADER_BYTES)
  BY <1>2 DEF HEADER_BYTES
<1>4. Decode(memo) = Instruction(EXECUTE_INLINE, Read(memo, 1, 1), Read(memo, 2, 8),
                                 Read(memo, 10, memo.len - 10), 0)
  BY <1>2, <1>3 DEF Decode
<1>5. Decode(memo) = Instruction(EXECUTE_INLINE, walletId, fee, op, 0)
  BY <1>2, <1>3, <1>4
<1> QED BY <1>5 DEF memo

\* encodeReplacementFeeMemo: an 0xE2 memo names a payment and the fee it is to have.
THEOREM ReplacementRoundTrip ==
    ASSUME NEW walletId, NEW fee, NEW target, NEW newFee,
           EncodeReplacementFee(walletId, fee, target, newFee) # Throws
    PROVE  Decode(EncodeReplacementFee(walletId, fee, target, newFee)) =
             Instruction(SET_REPLACEMENT_FEE, walletId, fee, target, newFee)
<1> DEFINE memo == EncodeReplacementFee(walletId, fee, target, newFee)
           first == Concat(EncodeHeader(SET_REPLACEMENT_FEE, walletId, fee), 32, target)
<1>1. memo = Concat(first, 8, newFee) /\ memo # Throws /\ first # Throws
  BY DEF EncodeReplacementFee, AssertLength, Concat
<1>2. EncodeHeader(SET_REPLACEMENT_FEE, walletId, fee) # Throws
  BY <1>1 DEF Concat
<1>3. first = [len |-> 42, fields |-> {Field(0, 1, SET_REPLACEMENT_FEE), Field(1, 1, walletId),
                                       Field(2, 8, fee)} \cup {Field(10, 32, target)}]
  BY <1>2, Header DEF Concat
<1> HIDE DEF first
<1>4. memo = [len |-> 50, fields |-> first.fields \cup {Field(42, 8, newFee)}]
  BY <1>1, <1>3 DEF Concat
<1> HIDE DEF memo
<1>5. memo.fields = {Field(0, 1, SET_REPLACEMENT_FEE), Field(1, 1, walletId), Field(2, 8, fee),
                     Field(10, 32, target), Field(42, 8, newFee)}
  BY <1>3, <1>4
<1>6. Read(memo, 0, 1) = SET_REPLACEMENT_FEE
  <2>1. \A f \in memo.fields : f.at = 0 /\ f.width = 1 => f.value = SET_REPLACEMENT_FEE
    BY <1>5 DEF Field
  <2> QED BY <1>5, <2>1, ReadIs
<1>7. Read(memo, 1, 1) = walletId
  <2>1. \A f \in memo.fields : f.at = 1 /\ f.width = 1 => f.value = walletId
    BY <1>5 DEF Field
  <2> QED BY <1>5, <2>1, ReadIs
<1>8. Read(memo, 2, 8) = fee
  <2>1. \A f \in memo.fields : f.at = 2 /\ f.width = 8 => f.value = fee
    BY <1>5 DEF Field
  <2> QED BY <1>5, <2>1, ReadIs
<1>9. Read(memo, 10, 32) = target
  <2>1. \A f \in memo.fields : f.at = 10 /\ f.width = 32 => f.value = target
    BY <1>5 DEF Field
  <2> QED BY <1>5, <2>1, ReadIs
<1>10. Read(memo, 42, 8) = newFee
  <2>1. \A f \in memo.fields : f.at = 42 /\ f.width = 8 => f.value = newFee
    BY <1>5 DEF Field
  <2> QED BY <1>5, <2>1, ReadIs
<1>11. /\ memo.len = MEMO_LENGTH[SET_REPLACEMENT_FEE]
       /\ SET_REPLACEMENT_FEE \in DOMAIN MEMO_LENGTH
  BY <1>4, Lengths
<1>12. Decode(memo) = Instruction(SET_REPLACEMENT_FEE, Read(memo, 1, 1), Read(memo, 2, 8),
                                  Read(memo, 10, 32), Read(memo, 42, 8))
  <2>1. Read(memo, 0, 1) \in DOMAIN MEMO_LENGTH /\ memo.len = MEMO_LENGTH[Read(memo, 0, 1)]
    BY <1>6, <1>11
  <2> QED BY <1>6, <2>1, DecodeFixed, Opcodes
<1>13. Decode(memo) = Instruction(SET_REPLACEMENT_FEE, walletId, fee, target, newFee)
  BY <1>7, <1>8, <1>9, <1>10, <1>12
<1> QED BY <1>13 DEF memo

-----------------------------------------------------------------------------

\* A fee of at most the whole is at most the whole, rounding included.
LEMMA ShareBounded ==
    ASSUME NEW uba \in Nat, NEW bips \in 0 .. BIPS
    PROVE  (uba * bips) \div BIPS \in Nat /\ (uba * bips) \div BIPS <= uba
<1>1. uba * bips \in Nat /\ uba * bips <= uba * 10000
  BY DEF BIPS
<1> DEFINE product == uba * bips
<1> HIDE DEF product
<1>2. product \in Nat /\ product <= uba * 10000
  BY <1>1 DEF product
<1>3. product \div 10000 \in Nat /\ product \div 10000 <= uba
  BY <1>2
<1> QED BY <1>3 DEF product, BIPS

\* computePaymentAmount: under the fees it was computed from, a payment covers the minting
\* fee, which the AssetManager takes of the whole payment and not of the net amount, if
\* that fee is not more than everything.
THEOREM PaymentCovers ==
    ASSUME NEW netMintUBA \in Nat, NEW fees \in DirectMintingFees, fees.feeBIPS <= BIPS
    PROVE  /\ ComputePaymentAmount(netMintUBA, fees) \in Nat
           /\ ComputePaymentAmount(netMintUBA, fees) >= netMintUBA
           /\ ComputePaymentAmount(netMintUBA, fees) >=
                MintingFee(ComputePaymentAmount(netMintUBA, fees), fees)
<1>1. /\ fees.feeBIPS \in 0 .. BIPS /\ fees.executorFeeUBA \in Nat
      /\ fees.minimumFeeUBA \in Nat
  <2>1. /\ fees.feeBIPS \in Nat /\ fees.executorFeeUBA \in Nat
        /\ fees.minimumFeeUBA \in Nat
    BY DEF DirectMintingFees
  <2> DEFINE bips == fees.feeBIPS
  <2>2. bips \in Nat /\ bips <= BIPS
    BY <2>1
  <2> HIDE DEF bips
  <2>3. bips \in 0 .. BIPS
    BY <2>2 DEF BIPS
  <2> QED BY <2>1, <2>3 DEF bips
<1>2. \A uba \in Nat : /\ MintingFee(uba, fees) \in Nat
                       /\ MintingFee(uba, fees) >= fees.minimumFeeUBA
                       /\ \/ MintingFee(uba, fees) <= uba
                          \/ MintingFee(uba, fees) = fees.minimumFeeUBA
  <2> SUFFICES ASSUME NEW uba \in Nat
               PROVE  /\ MintingFee(uba, fees) \in Nat
                      /\ MintingFee(uba, fees) >= fees.minimumFeeUBA
                      /\ \/ MintingFee(uba, fees) <= uba
                         \/ MintingFee(uba, fees) = fees.minimumFeeUBA
    OBVIOUS
  <2> DEFINE share == (uba * fees.feeBIPS) \div BIPS
  <2>1. share \in Nat /\ share <= uba
    BY <1>1, ShareBounded
  <2>2. MintingFee(uba, fees) = IF share > fees.minimumFeeUBA THEN share ELSE fees.minimumFeeUBA
    BY DEF MintingFee
  <2> HIDE DEF share
  <2> QED BY <1>1, <2>1, <2>2
<1> DEFINE amount == ComputePaymentAmount(netMintUBA, fees)
<1>3. amount = netMintUBA + MintingFee(netMintUBA, fees) + fees.executorFeeUBA
  BY DEF ComputePaymentAmount
<1> HIDE DEF amount
<1>4. amount \in Nat /\ amount >= netMintUBA /\ amount >= fees.minimumFeeUBA
  BY <1>1, <1>2, <1>3
<1>5. amount >= MintingFee(amount, fees)
  BY <1>1, <1>2, <1>4
<1> QED BY <1>4, <1>5 DEF amount

=============================================================================
