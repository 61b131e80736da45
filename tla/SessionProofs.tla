---------------------------- MODULE SessionProofs ---------------------------
(***************************************************************************)
(* Proofs about the sessions of Onesig: their types, that a demo which       *)
(* reports success was not deceived by another session's run, and under      *)
(* which conditions a recovery that goes on has set its flag.                *)
(***************************************************************************)
EXTENDS AccountProofs, FiniteSetTheorems, SequenceTheorems

-----------------------------------------------------------------------------
(***************************************************************************)
(* Types.                                                                   *)
(***************************************************************************)

Pcs == {"idle", "register", "sign", "submit", "poll", "watch", "flag", "retry", "passed",
        "failed"}
Session == [program : Programs, account : Accounts, pc : Pcs,
            target : Sessions \cup {Garbage}, before : Nat]
Statuses == {"none", "sent", "validated", "tec", "lapsed", "minted", "skipped", "swallowed"}
Payment == [status : Statuses, payer : Accounts \cup {Garbage}, sequence : Nat]

\* What session t names in its memo: the demos and gate1 an operation alone, recover-mint a
\* payment to ignore, the others an executor to pin.
Named(t) ==
    req[t].memo # Throws =>
        /\ sess[t].program \in {"xaman", "web", "deposit", "gate"} =>
               req[t].meant.opcode = EXECUTE_COMMITTED
        /\ req[t].meant.opcode = IGNORE_MEMO =>
               req[t].meant.operand \in Sessions /\ sess[t].program = "recover"
        /\ req[t].meant.opcode = SET_EXECUTOR => req[t].meant.operand \in Pins

\* The types hold of what Flare reads out of a memo because of what was written into it.
TypesInv == OrdersInv /\ OnesigTypeOK /\ \A t \in Sessions : Named(t)

\* What the contracts count is a number.
LEMMA EffectsAreNat ==
    ASSUME ran \in Seq(Sessions), NEW program, NEW a
    PROVE  Effects(program, a) \in Nat
<1>1. Len(ran) \in Nat /\ DOMAIN ran = 1 .. Len(ran)
  BY LenProperties
<1>2. IsFiniteSet(DOMAIN ran)
  BY <1>1, FS_Interval
<1>3. \A S \in SUBSET DOMAIN ran : Cardinality(S) \in Nat
  BY <1>2, FS_Subset, FS_CardinalityType
<1> QED BY <1>3 DEF Effects, Runs

\* A step that prepares nothing: it is enough to look at what it writes.
LEMMA StepTypes ==
    ASSUME TypesInv, OrdersInv', req' = req, crowded' = crowded,
           sess' \in [Sessions -> Session],
           \A t \in Sessions : sess'[t].program = sess[t].program,
           sign' \in [Sessions -> {"none", "open", "signed", "refused"}],
           job' \in [Sessions -> {"none", "live", "executed", "failed"}],
           pay' \in [Sessions -> Payment], sequence' \in [Accounts -> Nat \ {0}],
           pinned' \in [Accounts -> Pins \cup {ZeroAddress}],
           ignored' \subseteq Accounts \X Sessions,
           \A c \in registered' : DOMAIN c = {"keccak256"} /\ c.keccak256.sender \in Accounts
    PROVE  TypesInv'
<1>1. nonces' \in [Accounts -> Nat] /\ ran' \in Seq(Sessions) /\ raised' \in 0 .. Raises
  BY DEF OrdersInv, Inv, Shapes
<1>2. \A t \in Sessions : Named(t)'
  BY DEF TypesInv, Named
<1>3. OnesigTypeOK'
  BY <1>1 DEF TypesInv, OnesigTypeOK, Session, Pcs, Payment, Statuses
<1> QED BY <1>2, <1>3 DEF TypesInv

\* The state as those sets have it.
LEMMA TypesAre ==
    ASSUME TypesInv
    PROVE  /\ sess \in [Sessions -> Session]
           /\ sign \in [Sessions -> {"none", "open", "signed", "refused"}]
           /\ job \in [Sessions -> {"none", "live", "executed", "failed"}]
           /\ pay \in [Sessions -> Payment] /\ sequence \in [Accounts -> Nat \ {0}]
           /\ pinned \in [Accounts -> Pins \cup {ZeroAddress}]
           /\ ignored \subseteq Accounts \X Sessions
           /\ \A c \in registered : DOMAIN c = {"keccak256"} /\ c.keccak256.sender \in Accounts
  BY DEF TypesInv, OnesigTypeOK, Session, Pcs, Payment, Statuses

\* A session that goes on is still one.
LEMMA GoesTypes ==
    ASSUME TypesInv, NEW s \in Sessions, NEW pc \in Pcs, Goes(s, pc)
    PROVE  /\ sess' \in [Sessions -> Session]
           /\ \A t \in Sessions : sess'[t].program = sess[t].program
  BY TypesAre DEF Goes, Session

\* What it writes to when it prepares: never more than was asked for.
LEMMA BeginsTypes ==
    ASSUME TypesInv, OrdersInv', NEW s \in Sessions, NEW target \in Sessions \cup {Garbage},
           NEW op, NEW meant, NEW memo, NEW pc \in Pcs,
           Begins(s, target, op, meant, memo, pc),
           sign' = sign \/ sign' = [sign EXCEPT ![s] = "open"],
           sess[s].program \in {"xaman", "web", "deposit", "gate"} =>
               meant.opcode = EXECUTE_COMMITTED,
           meant.opcode = IGNORE_MEMO => meant.operand \in Sessions /\ sess[s].program = "recover",
           meant.opcode = SET_EXECUTOR => meant.operand \in Pins
    PROVE  TypesInv'
<1>1. UNCHANGED <<pinned, ignored, sequence, pay, registered, job>>
  BY DEF Begins, flareVars, xrplVars, execVars
<1>2. sign' \in [Sessions -> {"none", "open", "signed", "refused"}]
  BY TypesAre
<1>3. CASE Goes(s, "failed") /\ UNCHANGED <<req, crowded>>
  BY <1>1, <1>2, <1>3, TypesAre, GoesTypes, StepTypes DEF Pcs
<1>4. CASE /\ sess' = [sess EXCEPT ![s] =
                          [program |-> sess[s].program, account |-> sess[s].account,
                           pc |-> pc, target |-> target,
                           before |-> Effects(sess[s].program, sess[s].account)]]
           /\ req' = [req EXCEPT ![s] =
                         [memo |-> memo, op |-> op, meant |-> meant, fees |-> raised,
                          amount |-> ComputePaymentAmount(NetMint(sess[s].program),
                                                          Schedules[raised])]]
           /\ crowded' = IF Outstanding(sess[s].account) = {} THEN crowded
                         ELSE crowded \cup Outstanding(sess[s].account) \cup {s}
  <2>1. PICK before \in Nat : before = Effects(sess[s].program, sess[s].account)
    BY EffectsAreNat DEF TypesInv, OrdersInv
  <2>2. NetMint(sess[s].program) \in Nat
    BY DEF NetMint
  <2>3. Schedules[raised] \in DirectMintingFees /\ Schedules[raised].feeBIPS <= BIPS
    BY OnesigAssumption DEF OnesigAssumption, TypesInv, OnesigTypeOK
  <2>4. PICK amount : /\ amount = ComputePaymentAmount(NetMint(sess[s].program), Schedules[raised])
                      /\ amount >= NetMint(sess[s].program)
    BY <2>2, <2>3, PaymentCovers
  <2>5. sess' = [sess EXCEPT ![s] = [program |-> sess[s].program, account |-> sess[s].account,
                                     pc |-> pc, target |-> target, before |-> before]]
    BY <1>4, <2>1
  <2>6. /\ sess' \in [Sessions -> Session]
        /\ \A t \in Sessions : sess'[t].program = sess[t].program
    BY <2>5, TypesAre DEF Session
  <2>7. /\ \A t \in Sessions \ {s} : req'[t] = req[t]
        /\ req'[s].amount = amount /\ req'[s].memo = memo /\ req'[s].meant = meant
    BY <1>4, <2>4 DEF TypesInv, OrdersInv, Inv, Shapes, ReqShape
  <2>8. \A t \in Sessions : Named(t)'
    BY <2>6, <2>7 DEF TypesInv, Named
  <2>9. ASSUME NEW t \in Sessions
        PROVE  req'[t] = Unprepared \/ req'[t].amount >= NetMint(sess'[t].program)
    <3>1. sess'[t].program = sess[t].program
      BY <2>6
    <3>2. CASE t = s
      BY <2>4, <2>7, <3>1, <3>2
    <3>3. CASE t # s
      BY <2>7, <3>1, <3>3 DEF TypesInv, OnesigTypeOK
    <3> QED BY <3>2, <3>3
  <2>10. crowded' \subseteq Sessions
    BY <1>4 DEF TypesInv, OnesigTypeOK, Outstanding
  <2>11. nonces' \in [Accounts -> Nat] /\ ran' \in Seq(Sessions) /\ raised' \in 0 .. Raises
    BY DEF OrdersInv, Inv, Shapes
  <2>12. OnesigTypeOK'
    BY <1>1, <1>2, <2>6, <2>9, <2>10, <2>11
    DEF TypesInv, OnesigTypeOK, Session, Pcs
  <2> QED BY <2>8, <2>12 DEF TypesInv
<1> QED BY <1>3, <1>4 DEF Begins

\* All that the SDK prepares is such a memo.
LEMMA PreparesTypes ==
    ASSUME TypesInv, OrdersInv', NEW s \in Sessions,
           \/ \E fee \in OwnFees : Prepares(s, fee)
           \/ \E target \in Sessions : PreparesRecovery(s, target)
           \/ PreparesInstruction(s)
    PROVE  TypesInv'
<1> USE DEF Instruction, EXECUTE_COMMITTED, EXECUTE_INLINE, IGNORE_MEMO, SET_NONCE,
            SET_REPLACEMENT_FEE, SET_EXECUTOR, REMOVE_EXECUTOR
<1>1. ASSUME NEW fee, Prepares(s, fee)
      PROVE  TypesInv'
  <2>1. \E op, hash, memo : \E pc \in {"submit", "register"} :
            Begins(s, Garbage, op, Instruction(EXECUTE_COMMITTED, 0, fee, hash, 0), memo, pc)
    BY <1>1 DEF Prepares, PrepareWith
  <2>2. sign' = sign
    BY <1>1 DEF Prepares, PrepareWith
  <2> QED BY <2>1, <2>2, BeginsTypes DEF Pcs
<1>2. ASSUME NEW target \in Sessions, PreparesRecovery(s, target)
      PROVE  TypesInv'
  <2>1. /\ Begins(s, target, NoUserOp, Instruction(IGNORE_MEMO, 0, 0, target, 0),
                  EncodeIgnore(0, 0, target), "sign")
        /\ sess[s].program = "recover"
    BY <1>2 DEF PreparesRecovery
  <2>2. sign' = sign \/ sign' = [sign EXCEPT ![s] = "open"]
    BY <1>2, TypesAre DEF PreparesRecovery
  <2> QED BY <2>1, <2>2, BeginsTypes DEF Pcs
<1>3. ASSUME PreparesInstruction(s)
      PROVE  TypesInv'
  <2>1. sign' = sign /\ sess[s].program = "instruct"
    BY <1>3 DEF PreparesInstruction
  <2>2. ASSUME NEW opcode \in {SET_EXECUTOR, REMOVE_EXECUTOR, SET_NONCE, SET_REPLACEMENT_FEE,
                               EXECUTE_INLINE},
               NEW op, NEW operand, NEW newFee, NEW memo,
               Begins(s, Garbage, op, Instruction(opcode, 0, 0, operand, newFee), memo, "submit"),
               opcode = SET_EXECUTOR => operand \in Pins
        PROVE  TypesInv'
    <3>1. /\ Instruction(opcode, 0, 0, operand, newFee).opcode = opcode
          /\ Instruction(opcode, 0, 0, operand, newFee).operand = operand
      OBVIOUS
    <3> QED BY <2>1, <2>2, <3>1, BeginsTypes DEF Pcs
  <2>3. CASE \E e \in Pins : Begins(s, Garbage, NoUserOp, Instruction(SET_EXECUTOR, 0, 0, e, 0),
                                    EncodeSetExecutor(0, 0, e), "submit")
    BY <2>2, <2>3
  <2>4. CASE Begins(s, Garbage, NoUserOp, Instruction(REMOVE_EXECUTOR, 0, 0, Garbage, 0),
                    EncodeRemoveExecutor(0, 0), "submit")
    BY <2>2, <2>4
  <2>5. CASE \E n \in NewNonces : Begins(s, Garbage, NoUserOp, Instruction(SET_NONCE, 0, 0, n, 0),
                                         EncodeSetNonce(0, 0, n), "submit")
    BY <2>2, <2>5
  <2>6. CASE \E t \in Sessions, f \in OwnFees :
                Begins(s, Garbage, NoUserOp, Instruction(SET_REPLACEMENT_FEE, 0, 0, t, f),
                       EncodeReplacementFee(0, 0, t, f), "submit")
    BY <2>2, <2>6
  <2>7. CASE \E op, memo : Begins(s, Garbage, op, Instruction(EXECUTE_INLINE, 0, 0, op, 0),
                                  memo, "submit")
    BY <2>2, <2>7
  <2> QED BY <1>3, <2>3, <2>4, <2>5, <2>6, <2>7 DEF PreparesInstruction
<1> QED BY <1>1, <1>2, <1>3

\* The executor files bytes under the hash of an operation of somebody's.
LEMMA RegistersTypes ==
    ASSUME TypesInv, NEW s \in Sessions, Registers(s)
    PROVE  \A c \in registered' : DOMAIN c = {"keccak256"} /\ c.keccak256.sender \in Accounts
<1>1. /\ sess[s].program \in {"xaman", "web", "deposit", "gate"} /\ req[s].memo # Throws
      /\ Decode(req[s].memo) = req[s].meant
  BY DEF Registers, GoesOn, TypesInv, OrdersInv, Inv, SessionInv, Stage, Request
<1>2. Decode(req[s].memo).opcode = EXECUTE_COMMITTED
  BY <1>1 DEF TypesInv, Named
<1>3. /\ Decode(req[s].memo).operand = UserOpHash(req[s].op)
      /\ req[s].op.sender \in Accounts
  BY <1>1, <1>2 DEF TypesInv, OrdersInv, Order, Payer, ExecuteCodes
<1>4. Commitment(s) = Decode(req[s].memo).operand
  <2> DEFINE memos == <<req[s].memo>>
             mine == {i \in DOMAIN memos : Decode(memos[i]).opcode = EXECUTE_COMMITTED}
  <2>1. DOMAIN memos = {1} /\ memos[1] = req[s].memo
    OBVIOUS
  <2>2. mine = {1}
    BY <1>2, <2>1
  <2>3. (CHOOSE i \in mine : \A j \in mine : i <= j) = 1
    BY <2>2
  <2>4. CommitmentFromMemos(memos) =
            IF mine = {} THEN Garbage
            ELSE Decode(memos[CHOOSE i \in mine : \A j \in mine : i <= j]).operand
    BY DEF CommitmentFromMemos
  <2>5. Commitment(s) = CommitmentFromMemos(memos)
    BY DEF Commitment
  <2> HIDE DEF mine, memos
  <2> QED BY <2>1, <2>2, <2>3, <2>4, <2>5
<1>5. DOMAIN Commitment(s) = {"keccak256"} /\ Commitment(s).keccak256.sender \in Accounts
  BY <1>3, <1>4 DEF UserOpHash
<1> QED BY <1>5, TypesAre DEF Registers

\* What the memo of a payment that is out names, as Flare reads it.
LEMMA OperandTypes ==
    ASSUME TypesInv, NEW s \in Sessions, Paid(s)
    PROVE  /\ pay[s].payer \in Accounts /\ req[s].memo # Throws
           /\ Decode(req[s].memo).opcode = IGNORE_MEMO => Decode(req[s].memo).operand \in Sessions
           /\ Decode(req[s].memo).opcode = SET_EXECUTOR => Decode(req[s].memo).operand \in Pins
  BY DEF TypesInv, Named, OrdersInv, Payer, Inv, SessionInv, Stage, Request

\* A mint leaves Flare and the payment well-typed.
LEMMA MintTypes ==
    ASSUME TypesInv, NEW s \in Sessions, NEW e, Mintable(s, e), Mint(s)
    PROVE  /\ pay' \in [Sessions -> Payment]
           /\ pinned' \in [Accounts -> Pins \cup {ZeroAddress}]
           /\ ignored' \subseteq Accounts \X Sessions
<1>1. Paid(s) /\ pay \in [Sessions -> Payment]
  BY TypesAre DEF Mintable, Paid
<1>2. ASSUME NEW status \in Statuses, pay' = [pay EXCEPT ![s].status = status]
      PROVE  pay' \in [Sessions -> Payment]
  BY <1>1, <1>2 DEF Payment
<1>3. pay' \in [Sessions -> Payment]
  BY <1>2 DEF Mint, Statuses
<1>4. ASSUME Dispatch(s)
      PROVE  /\ pinned' \in [Accounts -> Pins \cup {ZeroAddress}]
             /\ ignored' \subseteq Accounts \X Sessions
  <2>1. pay[s].payer \in Accounts
    BY <1>1, OperandTypes
  <2>2. pinned' \in [Accounts -> Pins \cup {ZeroAddress}]
    BY <1>1, <1>4, <2>1, OperandTypes, TypesAre DEF Dispatch
  <2>3. ignored' \subseteq Accounts \X Sessions
    BY <1>1, <1>4, <2>1, OperandTypes, TypesAre DEF Dispatch
  <2> QED BY <2>2, <2>3
<1>5. CASE UNCHANGED <<pinned, ignored>> \/ (UNCHANGED pinned /\ ignored' \subseteq ignored)
  BY <1>3, <1>5, TypesAre
<1> QED BY <1>3, <1>4, <1>5 DEF Mint

\* A program goes on, or the user, or the executor: nothing changes on Flare or the XRPL.
LEMMA GoingOnTypes ==
    ASSUME TypesInv, OrdersInv', NEW s \in Sessions,
           \/ Registers(s) \/ SeesSignature(s) \/ SeesValidated(s) \/ Concludes(s)
           \/ FlagIsSet(s) \/ Recovers(s) \/ GivesUpAsking(s) \/ PollsRunOut(s)
           \/ FlagIsNotSet(s) \/ PhoneRefuses(s) \/ TakesOn(s) \/ Fails(s)
    PROVE  TypesInv'
<1> USE DEF flareVars, xrplVars, execVars, sessVars
<1>1. UNCHANGED <<pinned, ignored, sequence, pay, req, crowded>>
  BY DEF Registers, GoesOn, SeesSignature, SeesValidated, Concludes, FlagIsSet,
         Recovers, GivesUpAsking, PollsRunOut, FlagIsNotSet, PhoneRefuses, TakesOn, Fails
<1>2. sess' = sess \/ \E pc \in Pcs : Goes(s, pc)
  BY DEF Registers, GoesOn, SeesSignature, SeesValidated, Concludes, FlagIsSet,
         Recovers, GivesUpAsking, PollsRunOut, FlagIsNotSet, PhoneRefuses, TakesOn, Fails, Pcs
<1>3. \A t \in Sessions : sess'[t].program = sess[t].program
  BY <1>2, GoesTypes
<1>4. sess' \in [Sessions -> Session]
  BY <1>2, GoesTypes, TypesAre
<1>5. sign' \in [Sessions -> {"none", "open", "signed", "refused"}]
  <2>1. \/ sign' = sign \/ sign' = [sign EXCEPT ![s] = "open"]
        \/ sign' = [sign EXCEPT ![s] = "refused"]
    BY DEF Registers, GoesOn, SeesSignature, SeesValidated, Concludes, FlagIsSet,
           Recovers, GivesUpAsking, PollsRunOut, FlagIsNotSet, PhoneRefuses, TakesOn, Fails
  <2> QED BY <2>1, TypesAre
<1>6. job' \in [Sessions -> {"none", "live", "executed", "failed"}]
  <2>1. \/ job' = job
        \/ \E t, v : v \in {"live", "failed"} /\ job' = [job EXCEPT ![t] = v]
    BY DEF Registers, GoesOn, SeesSignature, SeesValidated, Concludes, FlagIsSet,
           Recovers, GivesUpAsking, PollsRunOut, FlagIsNotSet, PhoneRefuses, TakesOn, Fails
  <2> QED BY <2>1, TypesAre
<1>7. \A c \in registered' : DOMAIN c = {"keccak256"} /\ c.keccak256.sender \in Accounts
  <2>1. registered' = registered \/ Registers(s)
    BY DEF SeesSignature, SeesValidated, Concludes, FlagIsSet,
           Recovers, GivesUpAsking, PollsRunOut, FlagIsNotSet, PhoneRefuses, TakesOn, Fails
  <2> QED BY <2>1, RegistersTypes, TypesAre
<1> QED BY <1>1, <1>3, <1>4, <1>5, <1>6, <1>7, TypesAre, StepTypes

\* A payment goes out, or does not, or the XRPL decides on it.
LEMMA PayingTypes ==
    ASSUME TypesInv, OrdersInv', NEW s \in Sessions,
           \/ SubmitSends(s) \/ (\E lost \in BOOLEAN : SubmitThrows(s, lost))
           \/ (\E a \in Accounts : PhoneSigns(s, a))
           \/ Validates(s, "tes") \/ Validates(s, "tec") \/ Lapses(s)
    PROVE  TypesInv'
<1> USE DEF flareVars, xrplVars, execVars, sessVars
<1>1. UNCHANGED <<pinned, ignored, req, crowded, job, registered>>
  BY DEF SubmitSends, SubmitThrows, PhoneSigns, Validates, Lapses
<1>2. /\ sess' \in [Sessions -> Session]
      /\ \A t \in Sessions : sess'[t].program = sess[t].program
  <2>1. sess' = sess \/ \E pc \in Pcs : Goes(s, pc)
    BY DEF SubmitSends, SubmitThrows, PhoneSigns, Validates, Lapses, Pcs
  <2> QED BY <2>1, GoesTypes, TypesAre
<1>3. sign' \in [Sessions -> {"none", "open", "signed", "refused"}]
  <2>1. sign' = sign \/ sign' = [sign EXCEPT ![s] = "signed"]
    BY DEF SubmitSends, SubmitThrows, PhoneSigns, Validates, Lapses
  <2> QED BY <2>1, TypesAre
<1>4. /\ sess[s].account \in Accounts
      /\ pay \in [Sessions -> Payment] /\ sequence \in [Accounts -> Nat \ {0}]
  BY TypesAre DEF Session
<1>5. ASSUME NEW a \in Accounts, Broadcast(s, a, sequence[a])
      PROVE  pay' \in [Sessions -> Payment]
  BY <1>4, <1>5 DEF Broadcast, Payment, Statuses
<1>6. ASSUME NEW status \in Statuses, Closes(s, status)
      PROVE  pay' \in [Sessions -> Payment]
  BY <1>4, <1>6 DEF Closes, Payment
<1>7. pay' \in [Sessions -> Payment]
  <2>1. \/ pay' = pay \/ (\E a \in Accounts : Broadcast(s, a, sequence[a]))
        \/ (\E status \in Statuses : Closes(s, status))
    BY <1>4 DEF SubmitSends, SubmitThrows, PhoneSigns, Validates, Lapses, Signers, Statuses
  <2> QED BY <1>4, <1>5, <1>6, <2>1
<1>8. sequence' \in [Accounts -> Nat \ {0}]
  <2>1. CASE Validates(s, "tes") \/ Validates(s, "tec")
    BY <1>4, <2>1 DEF Validates
  <2>2. CASE ~(Validates(s, "tes") \/ Validates(s, "tec"))
    BY <1>4, <2>2 DEF SubmitSends, SubmitThrows, PhoneSigns, Lapses
  <2> QED BY <2>1, <2>2
<1> QED BY <1>1, <1>2, <1>3, <1>7, <1>8, TypesAre, StepTypes

\* So the types hold after every step.
LEMMA TypesNext ==
    ASSUME TypesInv, [Next]_vars
    PROVE  TypesInv'
<1> USE DEF flareVars, xrplVars, execVars, sessVars
<1>1. OrdersInv'
  BY OrdersNext DEF TypesInv
<1>2. ASSUME NEW s \in Sessions, RivalRelays(s) \/ Relays(s)
      PROVE  TypesInv'
  <2>1. /\ UNCHANGED <<sequence, sess, req, sign, crowded, registered>>
        /\ job' = job \/ job' = [job EXCEPT ![s] = "executed"]
    BY <1>2 DEF RivalRelays, Relays
  <2>2. \/ UNCHANGED <<pinned, ignored, pay>>
        \/ \E e : Mintable(s, e) /\ Mint(s)
    BY <1>2 DEF RivalRelays, Relays
  <2>3. /\ pay' \in [Sessions -> Payment]
        /\ pinned' \in [Accounts -> Pins \cup {ZeroAddress}]
        /\ ignored' \subseteq Accounts \X Sessions
    BY <2>2, MintTypes, TypesAre
  <2>4. job' \in [Sessions -> {"none", "live", "executed", "failed"}]
    BY <2>1, TypesAre
  <2> QED BY <1>1, <2>1, <2>3, <2>4, TypesAre, StepTypes
<1>3. CASE FeesChange \/ UNCHANGED vars
  <2>1. UNCHANGED <<pinned, ignored, sequence, pay, registered, job, sess, req, sign, crowded>>
    BY <1>3 DEF FeesChange, vars
  <2> QED BY <1>1, <2>1, TypesAre, StepTypes
<1>4. ASSUME NEW s \in Sessions, Script(s) \/ Mishap(s) \/ Executor(s)
      PROVE  TypesInv'
  BY <1>1, <1>2, <1>4, PreparesTypes, GoingOnTypes, PayingTypes DEF Script, Mishap, Executor
<1> QED BY <1>1, <1>2, <1>3, <1>4, PayingTypes DEF Next

\* And at first.
LEMMA TypesInit == Init => TypesInv
<1> SUFFICES ASSUME Init PROVE TypesInv
  OBVIOUS
<1>1. PICK cast \in Casts : sess = [s \in Sessions |-> Fresh(cast[s])]
  BY DEF Init
<1>2. sess \in [Sessions -> Session]
  BY <1>1, OnesigAssumption DEF OnesigAssumption, Fresh, Session, Pcs
<1>3. pay \in [Sessions -> Payment] /\ \A t \in Sessions : req[t] = Unprepared
  BY DEF Init, Unpaid, Payment, Statuses
<1>4. OrdersInv
  BY OrdersInit
<1>5. OnesigTypeOK
  BY <1>2, <1>3, <1>4
  DEF Init, OnesigTypeOK, OrdersInv, Inv, Shapes, Session, Pcs, Payment, Statuses
<1>6. \A t \in Sessions : Named(t)
  BY <1>3 DEF Named, Unprepared
<1> QED BY <1>4, <1>5, <1>6 DEF TypesInv

\* Whatever sessions do at once: only hashes of operations are filed with the executor, no
\* session pays less than it means to mint (fassets.ts), Flare pins executors and flags
\* payments that somebody named, and every count and nonce is a number.
THEOREM OnesigTypeCorrect == Spec => []OnesigTypeOK
<1>1. TypesInv /\ [Next]_vars => TypesInv'
  BY TypesNext
<1>2. TypesInv => OnesigTypeOK
  BY DEF TypesInv
<1> QED BY TypesInit, <1>1, <1>2, PTL DEF Spec

-----------------------------------------------------------------------------
(***************************************************************************)
(* What a demo or gate1 sees of the contracts.                              *)
(***************************************************************************)

Demos == {"xaman", "deposit", "gate"}

\* The runs that session t might take for its own: of its batch, by its account.
OfMine(t) ==
    {i \in Runs(Batch(sess[t].program)) : Operation(ran[i]).sender = sess[t].account}

\* The runs of a batch up to the i-th of all runs.
UpTo(batch, i) == {j \in Runs(batch) : j <= i}

\* Session t has not run, and what might deceive it is older than its first look.
NothingNew(t) ==
    IF sess[t].program = "gate"
    THEN \A i \in OfMine(t) : Cardinality(UpTo("increment", i)) <= sess[t].before
    ELSE Effects(sess[t].program, sess[t].account) <= sess[t].before

\* PassedMeansRan says nothing of a session that has yet to take its second look.
Looks(t) ==
    t \notin crowded /\ sess[t].program \in Demos =>
        /\ sess[t].pc \notin {"idle", "passed", "failed"} => t \in ToSet(ran) \/ NothingNew(t)
        /\ sess[t].pc = "passed" => t \in ToSet(ran)

LookInv == TypesInv /\ AloneInv /\ \A t \in Sessions : Looks(t)

\* What ran before is run, counted and ordered as before.
LEMMA RunsStay ==
    ASSUME OrdersInv, \A t \in Sessions : Keeps(t), NEW n \in Nat, n = Len(ran),
           DOMAIN ran \subseteq DOMAIN ran', \A i \in DOMAIN ran : ran'[i] = ran[i]
    PROVE  /\ DOMAIN ran = 1 .. n /\ ToSet(ran) \subseteq ToSet(ran)'
           /\ \A i \in DOMAIN ran : Operation(ran[i])' = Operation(ran[i])
           /\ \A batch : {i \in Runs(batch)' : i <= n} = Runs(batch)
<1>1. DOMAIN ran = 1 .. n /\ \A i \in DOMAIN ran : ran[i] \in Sessions
  BY LenProperties, ElementOfSeq DEF OrdersInv
<1>2. ASSUME NEW i \in DOMAIN ran
      PROVE  Operation(ran[i])' = Operation(ran[i])
  BY <1>2, RanStays DEF Operation
<1>3. ToSet(ran) \subseteq ToSet(ran)'
  BY DEF ToSet
<1>4. ASSUME NEW batch
      PROVE  {i \in Runs(batch)' : i <= n} = Runs(batch)
  BY <1>1, <1>2 DEF Runs
<1> QED BY <1>1, <1>2, <1>3, <1>4

\* The demos look at the sum of the runs of their own account, gate1 at all increments.
LEMMA EffectsAre ==
    ASSUME NEW t \in Sessions, sess[t].program \in Demos
    PROVE  Effects(sess[t].program, sess[t].account) =
               Cardinality(IF sess[t].program = "gate" THEN Runs("increment") ELSE OfMine(t))
<1>1. sess[t].program = "gate" => Batch(sess[t].program) = "increment"
  BY DEF Batch
<1>2. CASE sess[t].program = "gate"
  <2>1. {i \in Runs("increment") : sess[t].program = "gate" \/ Operation(ran[i]).sender = sess[t].account}
            = Runs("increment")
    BY <1>2
  <2> QED BY <1>1, <1>2, <2>1 DEF Effects
<1>3. CASE sess[t].program # "gate"
  <2>1. OfMine(t) = {i \in Runs(Batch(sess[t].program)) :
                        sess[t].program = "gate" \/ Operation(ran[i]).sender = sess[t].account}
    BY <1>3 DEF OfMine
  <2> QED BY <1>3, <2>1 DEF Effects
<1> QED BY <1>2, <1>3

\* A step that runs nothing the session might take for its own shows it nothing new.
LEMMA NothingNewStays ==
    ASSUME OrdersInv, ran' \in Seq(Sessions), \A u \in Sessions : Keeps(u), NEW t \in Sessions,
           sess[t].program \in Demos, NothingNew(t),
           sess'[t].program = sess[t].program, sess'[t].before = sess[t].before,
           DOMAIN ran \subseteq DOMAIN ran', \A i \in DOMAIN ran : ran'[i] = ran[i],
           \A i \in DOMAIN ran' : i \notin DOMAIN ran => Operation(ran[i])'.sender # sess[t].account
    PROVE  NothingNew(t)'
<1>1. PICK n \in Nat : n = Len(ran)
  BY LenProperties DEF OrdersInv
<1>2. /\ DOMAIN ran = 1 .. n
      /\ \A i \in DOMAIN ran : Operation(ran[i])' = Operation(ran[i])
      /\ \A batch : {i \in Runs(batch)' : i <= n} = Runs(batch)
  BY <1>1, RunsStay
<1>3. sess'[t].account = sess[t].account
  BY DEF Keeps
<1>4. OfMine(t)' = OfMine(t)
  BY <1>2, <1>3 DEF OfMine, Runs
<1>5. CASE sess[t].program = "gate"
  <2>1. ASSUME NEW i \in OfMine(t)
        PROVE  UpTo("increment", i)' = UpTo("increment", i)
    <3>1. i \in 1 .. n
      BY <1>2 DEF OfMine, Runs
    <3>2. \A j \in Runs("increment")' : j \in Nat
      BY LenProperties DEF Runs
    <3>3. \A j \in Runs("increment")' : j <= i <=> j <= i /\ j <= n
      BY <3>1, <3>2
    <3>4. \A j : j \in UpTo("increment", i)' <=> j \in UpTo("increment", i)
      BY <1>2, <3>3 DEF UpTo
    <3> QED BY <3>4 DEF UpTo
  <2> QED BY <1>4, <1>5, <2>1 DEF NothingNew
<1>6. CASE sess[t].program # "gate"
  <2>1. PICK p, a : p = sess[t].program /\ a = sess[t].account /\ p # "gate"
    BY <1>6
  <2>2. {i \in Runs(Batch(p))' : p = "gate" \/ Operation(ran[i])'.sender = a} = OfMine(t)'
    BY <1>3, <2>1 DEF OfMine
  <2>3. {i \in Runs(Batch(p)) : p = "gate" \/ Operation(ran[i]).sender = a} = OfMine(t)
    BY <2>1 DEF OfMine
  <2>4. Effects(p, a)' = Effects(p, a)
    BY <1>4, <2>2, <2>3 DEF Effects
  <2> QED BY <1>3, <2>1, <2>4 DEF NothingNew
<1> QED BY <1>5, <1>6

\* If it then sees something new, its payment has run.
LEMMA PassesRan ==
    ASSUME LookInv, NEW s \in Sessions, s \notin crowded, sess[s].program \in Demos,
           sess[s].pc \notin {"idle", "passed", "failed"}, Passes(s)
    PROVE  s \in ToSet(ran)
<1> SUFFICES ASSUME NothingNew(s) PROVE FALSE
  BY DEF LookInv, Looks
<1>1. PICK before \in Nat, now \in Nat :
         /\ before = sess[s].before
         /\ now = Effects(sess[s].program, sess[s].account)
  BY TypesAre, EffectsAreNat DEF LookInv, TypesInv, OrdersInv, Session
<1>2. CASE sess[s].program # "gate"
  BY <1>1, <1>2 DEF NothingNew, Passes, Demos
<1>3. CASE sess[s].program = "gate"
  <2>1. now = before + 1 /\ now = Cardinality(Runs("increment"))
    BY <1>1, <1>3, EffectsAre DEF Passes
  <2>2. PICK i \in Runs("increment") : /\ Operation(ran[i]).sender = sess[s].account
                                       /\ \A j \in Runs("increment") : j <= i
    BY <1>3 DEF Passes, LastCallerIs
  <2>3. i \in OfMine(s) /\ UpTo("increment", i) = Runs("increment")
    BY <1>3, <2>2 DEF OfMine, UpTo, Batch
  <2>4. now <= before
    BY <1>1, <1>3, <2>1, <2>3 DEF NothingNew
  <2> QED BY <1>1, <2>1, <2>4
<1> QED BY <1>2, <1>3

\* A step that runs nothing: only its own session can come to another look.
LEMMA TurnLooks ==
    ASSUME LookInv, TypesInv', AloneInv', NEW s \in Sessions,
           ran' = ran, crowded' = crowded, \A t \in Sessions : Keeps(t),
           \/ sess' = sess
           \/ \E pc : /\ Goes(s, pc) /\ sess[s].pc \notin {"idle", "passed", "failed"}
                      /\ pc = "passed" /\ sess[s].program \in Demos => Passes(s)
    PROVE  LookInv'
<1>0. OrdersInv /\ OrdersInv' /\ SessShape
  BY DEF LookInv, TypesInv, OrdersInv, Inv, Shapes
<1>1. ASSUME NEW t \in Sessions
      PROVE  sess'[t].program = sess[t].program /\ sess'[t].before = sess[t].before
  BY <1>0 DEF Goes, SessShape
<1>2. ASSUME NEW t \in Sessions, sess[t].program \in Demos, NothingNew(t)
      PROVE  NothingNew(t)'
  BY <1>0, <1>1, <1>2, NothingNewStays DEF OrdersInv
<1>3. ASSUME NEW t \in Sessions, sess'[t] = sess[t]
      PROVE  Looks(t)'
  BY <1>2, <1>3 DEF LookInv, Looks
<1>4. ASSUME NEW pc, Goes(s, pc), sess[s].pc \notin {"idle", "passed", "failed"},
             pc = "passed" /\ sess[s].program \in Demos => Passes(s)
      PROVE  Looks(s)'
  <2>1. sess'[s].program = sess[s].program /\ sess'[s].pc = pc
    BY <1>0, <1>4, OnlyThePc
  <2>2. s \notin crowded /\ sess[s].program \in Demos /\ pc = "passed" => s \in ToSet(ran)
    BY <1>4, PassesRan
  <2>3. s \notin crowded /\ sess[s].program \in Demos => s \in ToSet(ran) \/ NothingNew(s)
    BY <1>4 DEF LookInv, Looks
  <2> QED BY <1>2, <2>1, <2>2, <2>3 DEF Looks
<1>5. \A t \in Sessions : sess'[t] = sess[t] \/ t = s
  BY <1>0, OnlyThePc
<1>6. \A t \in Sessions : Looks(t)'
  BY <1>3, <1>4, <1>5
<1> QED BY <1>6 DEF LookInv

\* A session that starts takes what there is for its first look.
LEMMA BeginsLooks ==
    ASSUME LookInv, TypesInv', AloneInv', Quiet, NEW s \in Sessions, NEW target, NEW op,
           NEW meant, NEW memo, NEW pc, pc # "passed",
           Begins(s, target, op, meant, memo, pc)
    PROVE  LookInv'
<1>0. /\ OrdersInv /\ SessShape /\ ran \in Seq(Sessions) /\ ran' = ran
      /\ \A t \in Sessions : Keeps(t)
  BY DEF LookInv, TypesInv, OrdersInv, Inv, Shapes, Quiet
<1>1. PICK before : before = Effects(sess[s].program, sess[s].account)
  OBVIOUS
<1>2. \/ Goes(s, "failed") /\ crowded' = crowded
      \/ /\ sess' = [sess EXCEPT ![s] = [program |-> sess[s].program,
                                         account |-> sess[s].account, pc |-> pc,
                                         target |-> target, before |-> before]]
         /\ crowded \subseteq crowded'
  BY <1>1 DEF Begins
<1>3. ASSUME NEW t \in Sessions \ {s}
      PROVE  Looks(t)'
  <2>1. sess'[t] = sess[t] /\ (t \notin crowded' => t \notin crowded)
    BY <1>0, <1>2, OnlyThePc DEF SessShape
  <2>2. sess[t].program \in Demos /\ NothingNew(t) => NothingNew(t)'
    BY <1>0, <2>1, NothingNewStays
  <2> QED BY <1>0, <2>1, <2>2 DEF LookInv, Looks
<1>4. Looks(s)'
  <2>1. CASE Goes(s, "failed")
    <3>1. sess'[s].pc = "failed"
      BY <1>0, <2>1, OnlyThePc
    <3> QED BY <3>1 DEF Looks
  <2>2. CASE sess' = [sess EXCEPT ![s] = [program |-> sess[s].program,
                                          account |-> sess[s].account, pc |-> pc,
                                          target |-> target, before |-> before]]
    <3>1. /\ sess'[s].program = sess[s].program /\ sess'[s].account = sess[s].account
          /\ sess'[s].pc = pc /\ sess'[s].before = before
      BY <1>0, <2>2 DEF SessShape
    <3>2. PICK n \in Nat : n = Len(ran)
      BY <1>0, LenProperties
    <3>3. /\ DOMAIN ran = 1 .. n
          /\ \A i \in DOMAIN ran : Operation(ran[i])' = Operation(ran[i])
          /\ \A batch : {i \in Runs(batch)' : i <= n} = Runs(batch)
      BY <1>0, <3>2, RunsStay
    <3>4. \A batch : Runs(batch)' = Runs(batch)
      BY <1>0, <3>3 DEF Runs
    <3>5. CASE sess[s].program = "gate"
      <4>1. before = Cardinality(Runs("increment"))
        BY <1>1, <3>5, EffectsAre DEF Demos
      <4>2. IsFiniteSet(Runs("increment"))
        BY <3>3, FS_Interval, FS_Subset DEF Runs
      <4>3. ASSUME NEW i
            PROVE  Cardinality(UpTo("increment", i)) <= Cardinality(Runs("increment"))
        BY <4>2, FS_Subset DEF UpTo
      <4>4. \A i : UpTo("increment", i)' = UpTo("increment", i)
        BY <3>4 DEF UpTo
      <4> QED BY <3>1, <3>5, <4>1, <4>3, <4>4 DEF Looks, NothingNew
    <3>6. CASE sess[s].program \in Demos \ {"gate"}
      <4>1. PICK p, a : p = sess[s].program /\ a = sess[s].account
        OBVIOUS
      <4>2. Effects(p, a)' = Effects(p, a)
        BY <3>3, <3>4 DEF Effects, Runs
      <4>3. before \in Nat /\ before = Effects(p, a)
        BY <1>0, <1>1, <4>1, EffectsAreNat
      <4> QED BY <3>1, <3>6, <4>1, <4>2, <4>3 DEF Looks, NothingNew
    <3> QED BY <3>1, <3>5, <3>6 DEF Looks, Demos
  <2> QED BY <1>2, <2>1, <2>2
<1> QED BY <1>3, <1>4 DEF LookInv

\* The memo of session s is dispatched: a session alone with its account has nobody there
\* whose run it could take for its own.
LEMMA DispatchLooks ==
    ASSUME LookInv, TypesInv', AloneInv', NEW s \in Sessions, Dispatches(s), crowded' = crowded
    PROVE  LookInv'
<1>0. /\ OrdersInv /\ ran \in Seq(Sessions) /\ ran' \in Seq(Sessions) /\ sess' = sess
      /\ \A t \in Sessions : Keeps(t)
  BY DEF LookInv, TypesInv, OrdersInv, Dispatches
<1>1. CASE ran' = ran
  BY <1>0, <1>1, TurnLooks
<1>2. CASE Executes(s) /\ ran' = Append(ran, s)
  <2>1. PICK n \in Nat : n = Len(ran) /\ DOMAIN ran = 1 .. n
    BY <1>0, LenProperties
  <2>2. /\ DOMAIN ran' = 1 .. n + 1 /\ ran'[n + 1] = s
        /\ \A i \in DOMAIN ran : i \in DOMAIN ran' /\ ran'[i] = ran[i]
    BY <1>0, <1>2, <2>1, AppendProperties, LenProperties
  <2>3. ToSet(ran) \subseteq ToSet(ran)' /\ s \in ToSet(ran)'
    BY <2>1, <2>2 DEF ToSet
  <2>4. Paid(s) /\ pay[s].status = "validated" /\ req' = req
    BY DEF Dispatches, Paid
  <2>5. Operation(s).sender = sess[s].account /\ Operation(s)' = Operation(s)
    BY <1>0, <1>2, <2>4, OperationIsOrder DEF Operation
  <2>6. Alive(s)
    <3>1. req[s].memo # Throws
      BY <1>0, <2>4 DEF OrdersInv, Inv, SessionInv, Stage
    <3> QED BY <2>4, <3>1 DEF Alive, Unprepared
  <2>7. ASSUME NEW t \in Sessions, t # s, t \notin crowded, sess[t].program \in Demos,
               sess[t].pc \notin {"idle", "passed", "failed"}
        PROVE  sess[t].account # sess[s].account
    <3>1. req[t].memo # Throws
      BY <1>0, <2>7 DEF OrdersInv, Inv, SessionInv, Stage
    <3>2. Alive(t)
      BY <2>7, <3>1 DEF Alive, Unprepared
    <3> QED BY <2>6, <2>7, <3>2 DEF LookInv, AloneInv, Crowd
  <2>8. ASSUME NEW t \in Sessions, sess[t].account # sess[s].account,
               sess[t].program \in Demos, NothingNew(t)
        PROVE  NothingNew(t)'
    <3>1. \A i \in DOMAIN ran' : i \notin DOMAIN ran => i = n + 1
      BY <2>1, <2>2
    <3>2. \A i \in DOMAIN ran' : i \notin DOMAIN ran =>
                                     Operation(ran[i])'.sender # sess[t].account
      BY <2>2, <2>5, <2>8, <3>1 DEF Operation
    <3> QED BY <1>0, <2>2, <2>8, <3>2, NothingNewStays
  <2>9. ASSUME NEW t \in Sessions
        PROVE  Looks(t)'
    <3>1. CASE t = s
      BY <2>3, <3>1 DEF Looks
    <3>2. CASE t # s
      BY <1>0, <2>3, <2>7, <2>8, <3>2 DEF LookInv, Looks
    <3> QED BY <3>1, <3>2
  <2> QED BY <2>9 DEF LookInv
<1> QED BY <1>0, <1>1, <1>2, DispatchEffect

\* The XRPL and those who pay leave every session its account and its payment.
LEMMA KeptAcross ==
    ASSUME OrdersInv, NEW s \in Sessions,
           \/ SubmitSends(s) \/ (\E lost \in BOOLEAN : SubmitThrows(s, lost))
           \/ (\E a \in Accounts : PhoneSigns(s, a))
           \/ Validates(s, "tes") \/ Validates(s, "tec") \/ Lapses(s)
    PROVE  \A t \in Sessions : Keeps(t)
<1> USE DEF flareVars, xrplVars, execVars, sessVars
<1>1. CASE SubmitSends(s) \/ SubmitThrows(s, TRUE) \/ \E a \in Accounts : PhoneSigns(s, a)
  <2>1. GoesOut(s)
    BY <1>1, PayingGoesOut DEF SubmitSends, SubmitThrows, PhoneSigns, Signers
  <2> QED BY <2>1 DEF GoesOut
<1>2. CASE SubmitThrows(s, FALSE)
  BY <1>2, GoingOnIsQuiet DEF SubmitThrows, Quiet
<1>3. CASE Validates(s, "tes") \/ Validates(s, "tec") \/ Lapses(s)
  <2>1. Quiet
    BY <1>3, LandingIsQuiet DEF Validates, Lapses
  <2> QED BY <2>1 DEF Quiet
<1> QED BY <1>1, <1>2, <1>3

\* All steps keep it.
LEMMA LookNext ==
    ASSUME LookInv, [Next]_vars
    PROVE  LookInv'
<1> USE DEF flareVars, xrplVars, execVars, sessVars
<1>0. TypesInv' /\ AloneInv' /\ OrdersInv /\ Inv
  BY TypesNext, AloneNext DEF LookInv, AloneInv, OrdersInv
<1>1. ASSUME NEW s \in Sessions,
             \/ Registers(s) \/ SeesSignature(s) \/ SeesValidated(s) \/ Concludes(s)
             \/ FlagIsSet(s) \/ Recovers(s) \/ GivesUpAsking(s) \/ PollsRunOut(s)
             \/ FlagIsNotSet(s) \/ PhoneRefuses(s) \/ TakesOn(s) \/ Fails(s)
      PROVE  LookInv'
  <2>1. /\ req' = req /\ pay' = pay /\ nonces' = nonces /\ ran' = ran /\ crowded' = crowded
        /\ \/ sess' = sess
           \/ \E pc : Goes(s, pc) /\ sess[s].pc \notin {"idle", "passed", "failed"}
    BY <1>1 DEF Registers, GoesOn, SeesSignature, SeesValidated, Concludes, FlagIsSet,
                Recovers, GivesUpAsking, PollsRunOut, FlagIsNotSet, PhoneRefuses, TakesOn, Fails
  <2>2. \A t \in Sessions : Keeps(t)
    BY <1>0, <2>1, GoingOnIsQuiet DEF Quiet
  <2>3. sess[s].pc = "retry" => sess[s].program = "recover"
    BY <1>0 DEF Inv, SessionInv, Stage
  <2>4. \/ sess' = sess
        \/ \E pc : /\ Goes(s, pc) /\ sess[s].pc \notin {"idle", "passed", "failed"}
                   /\ pc = "passed" /\ sess[s].program \in Demos => Passes(s)
    <3>1. CASE Concludes(s)
      BY <3>1 DEF Concludes
    <3>2. CASE SeesValidated(s) \/ Recovers(s)
      BY <2>3, <3>2 DEF SeesValidated, Recovers, Demos
    <3>3. CASE \/ Registers(s) \/ SeesSignature(s) \/ FlagIsSet(s) \/ GivesUpAsking(s)
               \/ PollsRunOut(s) \/ FlagIsNotSet(s) \/ PhoneRefuses(s) \/ TakesOn(s) \/ Fails(s)
      <4>1. sess' = sess \/ \E pc : /\ Goes(s, pc) /\ pc # "passed"
                                    /\ sess[s].pc \notin {"idle", "passed", "failed"}
        BY <3>3 DEF Registers, GoesOn, SeesSignature, FlagIsSet, GivesUpAsking, PollsRunOut,
                    FlagIsNotSet, PhoneRefuses, TakesOn, Fails
      <4> QED BY <4>1
    <3> QED BY <1>1, <3>1, <3>2, <3>3
  <2> QED BY <1>0, <2>1, <2>2, <2>4, TurnLooks
<1>2. ASSUME NEW s \in Sessions,
             \/ SubmitSends(s) \/ (\E lost \in BOOLEAN : SubmitThrows(s, lost))
             \/ (\E a \in Accounts : PhoneSigns(s, a))
             \/ Validates(s, "tes") \/ Validates(s, "tec") \/ Lapses(s)
      PROVE  LookInv'
  <2>1. /\ ran' = ran /\ crowded' = crowded
        /\ \/ sess' = sess
           \/ \E pc : Goes(s, pc) /\ sess[s].pc = "submit" /\ pc # "passed"
    BY <1>2 DEF SubmitSends, SubmitThrows, PhoneSigns, Validates, Lapses
  <2>2. \A t \in Sessions : Keeps(t)
    BY <1>0, <1>2, KeptAcross
  <2>3. \/ sess' = sess
        \/ \E pc : /\ Goes(s, pc) /\ sess[s].pc \notin {"idle", "passed", "failed"}
                   /\ pc = "passed" /\ sess[s].program \in Demos => Passes(s)
    BY <2>1
  <2> QED BY <1>0, <2>1, <2>2, <2>3, TurnLooks
<1>3. ASSUME NEW s \in Sessions, Relays(s) \/ RivalRelays(s)
      PROVE  LookInv'
  <2>1. sess' = sess /\ crowded' = crowded /\ req' = req
    BY <1>3 DEF Relays, RivalRelays
  <2>2. (\E e : Mintable(s, e) /\ Mint(s)) \/ UNCHANGED <<nonces, ran, pay>>
    BY <1>3 DEF Relays, RivalRelays
  <2>3. Quiet \/ Dispatches(s)
    BY <1>0, <2>1, <2>2, MintIsSeenOrNot, GoingOnIsQuiet
  <2>4. CASE Quiet
    BY <1>0, <2>1, <2>4, TurnLooks DEF Quiet
  <2> QED BY <1>0, <2>1, <2>3, <2>4, DispatchLooks
<1>4. ASSUME NEW s \in Sessions,
             \/ \E fee \in OwnFees : Prepares(s, fee)
             \/ \E target \in Sessions : PreparesRecovery(s, target)
             \/ PreparesInstruction(s)
      PROVE  LookInv'
  <2>1. Quiet
    BY <1>0, <1>4, PreparingIsQuiet
  <2>2. \E target, op, meant, memo, pc : pc # "passed" /\ Begins(s, target, op, meant, memo, pc)
    <3>1. CASE \E fee \in OwnFees : Prepares(s, fee)
      BY <3>1 DEF Prepares, PrepareWith
    <3>2. CASE \E target \in Sessions : PreparesRecovery(s, target)
      BY <3>2 DEF PreparesRecovery
    <3>3. CASE PreparesInstruction(s)
      BY <3>3 DEF PreparesInstruction
    <3> QED BY <1>4, <3>1, <3>2, <3>3
  <2> QED BY <1>0, <2>1, <2>2, BeginsLooks
<1>5. CASE FeesChange \/ UNCHANGED vars
  <2>1. /\ sess' = sess /\ crowded' = crowded /\ req' = req /\ pay' = pay /\ ran' = ran
        /\ nonces' = nonces
    BY <1>5 DEF FeesChange, vars
  <2>2. \A t \in Sessions : Keeps(t)
    BY <2>1 DEF Keeps, Paid
  <2>3. ASSUME NEW s \in Sessions
        PROVE  LookInv'
    BY <1>0, <2>1, <2>2, TurnLooks
  <2>4. CASE Sessions = {}
    BY <1>0, <2>4 DEF LookInv
  <2> QED BY <2>3, <2>4
<1>6. ASSUME NEW s \in Sessions, Script(s) \/ Mishap(s) \/ Executor(s)
      PROVE  LookInv'
  BY <1>1, <1>2, <1>3, <1>4, <1>6 DEF Script, Mishap, Executor
<1> QED BY <1>2, <1>3, <1>5, <1>6 DEF Next

\* For any sessions of any programs that go on at once, whatever is lost, refused or
\* relayed by others: a demo script or gate1 that was alone with its account and reports
\* success (demo-deposit.ts, demo-xaman.ts, gate1.ts) saw its own payment run.  The
\* executor's page (public/index.html) does not look at the vault before it reports, and
\* is left out: TLC finds PageMeansRan violated.
THEOREM SuccessIsItsOwn == Spec => []PassedMeansRan
<1>1. Init => LookInv
  <2> SUFFICES ASSUME Init PROVE LookInv
    OBVIOUS
  <2>1. TypesInv
    BY TypesInit
  <2>2. AloneInv
    BY OrdersInit DEF Init, AloneInv, Crowd, Alone, Alive
  <2>3. \A s \in Sessions : sess[s].pc = "idle"
    BY DEF Init, Fresh
  <2> QED BY <2>1, <2>2, <2>3 DEF LookInv, Looks
<1>2. LookInv /\ [Next]_vars => LookInv'
  BY LookNext
<1>3. LookInv => PassedMeansRan
  BY DEF LookInv, Looks, PassedMeansRan, Demos
<1> QED BY <1>1, <1>2, <1>3, PTL DEF Spec

-----------------------------------------------------------------------------
(***************************************************************************)
(* Recovery: the flag of a stuck payment.                                   *)
(***************************************************************************)

\* recover-mint is run for one payment alone.
OneRecovery ==
    \A cast \in Casts : \A s, t \in Sessions :
        cast[s].program = "recover" /\ cast[t].program = "recover" => s = t

\* Who has minted a payment that sets a flag.
Ordered == \E r \in Sessions : sess[r].program = "recover" /\ pay[r].status = "minted"

\* A session stays what it was cast as, and no payment's memo is skipped, and no flag set,
\* but by a recovery that was minted.
FlagInv ==
    /\ TypesInv
    /\ \E cast \in Casts : \A s \in Sessions : sess[s].program = cast[s].program
    /\ ignored # {} \/ (\E s \in Sessions : pay[s].status = "skipped") => Ordered

\* No step changes what a session is.
LEMMA ProgramsStay ==
    ASSUME TypesInv, [Next]_vars, NEW t \in Sessions
    PROVE  sess'[t].program = sess[t].program
<1> USE DEF flareVars, xrplVars, execVars, sessVars
<1>0. SessShape
  BY DEF TypesInv, OrdersInv, Inv, Shapes
<1>1. ASSUME NEW s \in Sessions, NEW target, NEW op, NEW meant, NEW memo, NEW pc,
             Begins(s, target, op, meant, memo, pc)
      PROVE  sess'[t].program = sess[t].program
  <2>1. CASE Goes(s, "failed")
    BY <1>0, <2>1, OnlyThePc
  <2>2. CASE \E before : sess' = [sess EXCEPT ![s] =
                             [program |-> sess[s].program, account |-> sess[s].account,
                              pc |-> pc, target |-> target, before |-> before]]
    BY <1>0, <2>2 DEF SessShape
  <2> QED BY <1>1, <2>1, <2>2 DEF Begins
<1>2. ASSUME NEW s \in Sessions, (\E pc : Goes(s, pc)) \/ sess' = sess
      PROVE  sess'[t].program = sess[t].program
  BY <1>0, <1>2, OnlyThePc
<1>3. ASSUME NEW s \in Sessions,
             \/ \E fee \in OwnFees : Prepares(s, fee)
             \/ \E target \in Sessions : PreparesRecovery(s, target)
             \/ PreparesInstruction(s)
      PROVE  sess'[t].program = sess[t].program
  <2>1. \E target, op, meant, memo, pc : Begins(s, target, op, meant, memo, pc)
    <3>1. CASE \E fee \in OwnFees : Prepares(s, fee)
      BY <3>1 DEF Prepares, PrepareWith
    <3>2. CASE \E target \in Sessions : PreparesRecovery(s, target)
      BY <3>2 DEF PreparesRecovery
    <3>3. CASE PreparesInstruction(s)
      BY <3>3 DEF PreparesInstruction
    <3> QED BY <1>3, <3>1, <3>2, <3>3
  <2> QED BY <1>1, <2>1
<1>4. ASSUME NEW s \in Sessions,
             \/ Registers(s) \/ SeesSignature(s) \/ SubmitSends(s) \/ SeesValidated(s)
             \/ Concludes(s) \/ FlagIsSet(s) \/ Recovers(s)
             \/ Mishap(s) \/ Executor(s) \/ RivalRelays(s)
             \/ (\E a \in Accounts : PhoneSigns(s, a))
             \/ Validates(s, "tes") \/ Validates(s, "tec")
      PROVE  (\E pc : Goes(s, pc)) \/ sess' = sess
  <2>1. CASE \/ Registers(s) \/ SeesSignature(s) \/ SubmitSends(s) \/ SeesValidated(s)
             \/ Concludes(s) \/ FlagIsSet(s) \/ Recovers(s)
    BY <2>1 DEF Registers, GoesOn, SeesSignature, SubmitSends, SeesValidated, Concludes,
                FlagIsSet, Recovers
  <2>2. CASE Mishap(s)
    BY <2>2 DEF Mishap, GivesUpAsking, PhoneRefuses, PollsRunOut, FlagIsNotSet, SubmitThrows,
                Lapses
  <2>3. CASE \/ Executor(s) \/ RivalRelays(s) \/ (\E a \in Accounts : PhoneSigns(s, a))
             \/ Validates(s, "tes") \/ Validates(s, "tec")
    BY <2>3 DEF Executor, TakesOn, Relays, Fails, RivalRelays, PhoneSigns, Validates
  <2> QED BY <1>4, <2>1, <2>2, <2>3
<1>5. CASE FeesChange \/ UNCHANGED vars
  BY <1>5 DEF FeesChange, vars
<1> QED BY <1>2, <1>3, <1>4, <1>5 DEF Next, Script

\* A flag is set, or a memo skipped, by a step that mints a recovery or uses a flag.
LEMMA FlagsOrdered ==
    ASSUME TypesInv, [Next]_vars
    PROVE  \/ /\ ignored' \subseteq ignored
              /\ \A t \in Sessions : pay'[t].status = "skipped" =>
                                       pay[t].status = "skipped" \/ ignored # {}
           \/ \E r \in Sessions : sess[r].program = "recover" /\ pay'[r].status = "minted"
<1> DEFINE Unflagged == /\ ignored' \subseteq ignored
                        /\ \A t \in Sessions : pay'[t].status = "skipped" =>
                                                 pay[t].status = "skipped" \/ ignored # {}
<1> USE DEF flareVars, xrplVars, execVars, sessVars
<1>0. pay \in [Sessions -> Payment]
  BY TypesAre
<1>1. ASSUME NEW s \in Sessions, NEW e, Mintable(s, e), Mint(s)
      PROVE  Unflagged \/ (sess[s].program = "recover" /\ pay'[s].status = "minted")
  <2>1. CASE pay' = [pay EXCEPT ![s].status = "swallowed"] /\ ignored' = ignored
    BY <1>0, <2>1 DEF Payment
  <2>2. CASE ignored # {} /\ ignored' \subseteq ignored
    BY <2>2
  <2>3. CASE pay' = [pay EXCEPT ![s].status = "minted"] /\ Dispatch(s)
    <3>1. pay'[s].status = "minted" /\ \A t \in Sessions \ {s} : pay'[t] = pay[t]
      BY <1>0, <2>3 DEF Payment
    <3>2. Decode(req[s].memo).opcode = IGNORE_MEMO => sess[s].program = "recover"
      <4>1. Paid(s) /\ pay[s].status = "validated"
        BY <1>1 DEF Mintable, Paid
      <4>2. req[s].memo # Throws /\ Decode(req[s].memo) = req[s].meant
        BY <4>1 DEF TypesInv, OrdersInv, Inv, SessionInv, Stage, Request
      <4> QED BY <4>2 DEF TypesInv, Named
    <3>3. Decode(req[s].memo).opcode # IGNORE_MEMO => ignored' = ignored
      BY <2>3 DEF Dispatch
    <3> QED BY <3>1, <3>2, <3>3
  <2> QED BY <1>1, <2>1, <2>2, <2>3 DEF Mint
<1>2. ASSUME NEW s \in Sessions, Relays(s) \/ RivalRelays(s)
      PROVE  Unflagged \/ (sess[s].program = "recover" /\ pay'[s].status = "minted")
  <2>1. (\E e : Mintable(s, e) /\ Mint(s)) \/ UNCHANGED <<ignored, pay>>
    BY <1>2 DEF Relays, RivalRelays
  <2> QED BY <1>1, <2>1
<1>3. ASSUME NEW s \in Sessions, ignored' = ignored,
             \/ pay' = pay
             \/ \E v : v.status # "skipped" /\ pay' = [pay EXCEPT ![s] = v]
      PROVE  Unflagged
  BY <1>0, <1>3
<1>4. ASSUME NEW s \in Sessions,
             \/ Script(s) \/ Mishap(s) \/ TakesOn(s) \/ Fails(s)
             \/ (\E a \in Accounts : PhoneSigns(s, a))
             \/ Validates(s, "tes") \/ Validates(s, "tec")
      PROVE  Unflagged
  <2>1. CASE \/ \E fee \in OwnFees : Prepares(s, fee)
             \/ \E target \in Sessions : PreparesRecovery(s, target)
             \/ PreparesInstruction(s)
    <3>1. ignored' = ignored /\ pay' = pay
      BY <2>1 DEF Prepares, PrepareWith, PreparesRecovery, PreparesInstruction, Begins
    <3> QED BY <1>3, <3>1
  <2>2. ASSUME NEW payer, NEW number, Broadcast(s, payer, number)
        PROVE  \E v : v.status # "skipped" /\ pay' = [pay EXCEPT ![s] = v]
    BY <2>2 DEF Broadcast
  <2>3. ASSUME NEW status, status # "skipped", Closes(s, status)
        PROVE  \E v : v.status # "skipped" /\ pay' = [pay EXCEPT ![s] = v]
    BY <2>3 DEF Closes
  <2>4. CASE \/ SubmitSends(s) \/ (\E lost \in BOOLEAN : SubmitThrows(s, lost))
             \/ (\E a \in Accounts : PhoneSigns(s, a))
    <3>1. ignored' = ignored /\ (pay' = pay \/ \E payer, number : Broadcast(s, payer, number))
      BY <2>4 DEF SubmitSends, SubmitThrows, PhoneSigns
    <3> QED BY <1>3, <2>2, <3>1
  <2>5. CASE Lapses(s) \/ Validates(s, "tes") \/ Validates(s, "tec")
    <3>1. ignored' = ignored /\ \E status : status # "skipped" /\ Closes(s, status)
      BY <2>5 DEF Lapses, Validates
    <3> QED BY <1>3, <2>3, <3>1
  <2>6. CASE \/ Registers(s) \/ SeesSignature(s) \/ SeesValidated(s) \/ Concludes(s)
             \/ FlagIsSet(s) \/ Recovers(s) \/ GivesUpAsking(s) \/ PollsRunOut(s)
             \/ FlagIsNotSet(s) \/ PhoneRefuses(s) \/ TakesOn(s) \/ Fails(s)
    <3>1. ignored' = ignored /\ pay' = pay
      BY <2>6 DEF Registers, GoesOn, SeesSignature, SeesValidated, Concludes, FlagIsSet,
                  Recovers, GivesUpAsking, PollsRunOut, FlagIsNotSet, PhoneRefuses, TakesOn, Fails
    <3> QED BY <1>3, <3>1
  <2> QED BY <1>4, <2>1, <2>4, <2>5, <2>6 DEF Script, Mishap
<1>5. CASE FeesChange \/ UNCHANGED vars
  BY <1>5 DEF FeesChange, vars
<1> QED BY <1>2, <1>4, <1>5 DEF Next, Executor

\* So the recovery invariant holds after every step.
LEMMA FlagNext ==
    ASSUME FlagInv, [Next]_vars
    PROVE  FlagInv'
<1>1. TypesInv /\ TypesInv' /\ OrdersInv
  BY TypesNext DEF FlagInv, TypesInv
<1>2. \A t \in Sessions : sess'[t].program = sess[t].program
  BY <1>1, ProgramsStay
<1>3. \A t \in Sessions : Keeps(t)
  BY <1>1, ThreeKinds DEF Quiet, GoesOut, Dispatches
<1>4. Ordered => Ordered'
  BY <1>2, <1>3 DEF Ordered, Keeps, Paid
<1>5. (\E r \in Sessions : sess[r].program = "recover" /\ pay'[r].status = "minted") => Ordered'
  BY <1>2 DEF Ordered
<1>6. ignored' # {} \/ (\E s \in Sessions : pay'[s].status = "skipped") => Ordered'
  BY <1>1, <1>4, <1>5, FlagsOrdered DEF FlagInv
<1>7. \E cast \in Casts : \A s \in Sessions : sess'[s].program = cast[s].program
  BY <1>2 DEF FlagInv
<1> QED BY <1>1, <1>6, <1>7 DEF FlagInv

\* While the fees stay as they are and nobody recovers anything else, recover-mint restarts
\* a stuck mint only when its flag is set, used or overtaken (recover-mint.ts:127, :143),
\* whatever becomes of the payments, the relayers and the other programs.  Neither
\* hypothesis can go: TLC finds RetriedAfterFlag violated when the fees rise, which swallows
\* the recovery's own payment and leaves its job executed; and of two recoveries one may
\* be told to ignore the payment of the other.
THEOREM FlagBeforeRetry ==
    ASSUME Raises = 0, OneRecovery
    PROVE  Spec => []RetriedAfterFlag
<1>1. Init => FlagInv
  <2> SUFFICES ASSUME Init PROVE FlagInv
    OBVIOUS
  <2>1. PICK cast \in Casts : sess = [s \in Sessions |-> Fresh(cast[s])]
    BY DEF Init
  <2>2. \A s \in Sessions : sess[s].program = cast[s].program
    BY <2>1 DEF Fresh
  <2>3. ignored = {} /\ \A s \in Sessions : pay[s].status # "skipped"
    BY DEF Init, Unpaid
  <2> QED BY <2>2, <2>3, TypesInit DEF FlagInv
<1>2. FlagInv /\ [Next]_vars => FlagInv'
  BY FlagNext
<1>3. FlagInv => RetriedAfterFlag
  <2> SUFFICES ASSUME FlagInv, NEW s \in Sessions, sess[s].pc = "retry"
               PROVE  Flag(s)
    BY DEF RetriedAfterFlag, Flag
  <2>1. Inv /\ raised \in 0 .. Raises
    BY DEF FlagInv, TypesInv, OrdersInv, Inv, Shapes
  <2>2. Stage(s) /\ Request(s) /\ End(s)
    BY <2>1 DEF Inv, SessionInv
  <2>3. req[s].memo # Throws /\ sess[s].program = "recover"
    BY <2>2 DEF Stage
  <2>4. pay[s].status # "swallowed"
    BY <2>1, <2>2, <2>3 DEF Request, End
  <2>5. pay[s].status # "skipped"
    <3> SUFFICES ASSUME pay[s].status = "skipped" PROVE FALSE
      OBVIOUS
    <3>1. PICK r \in Sessions : sess[r].program = "recover" /\ pay[r].status = "minted"
      BY DEF FlagInv, Ordered
    <3>2. r = s
      BY <2>3, <3>1 DEF FlagInv, OneRecovery
    <3> QED BY <3>1, <3>2
  <2> QED BY <2>2, <2>4, <2>5 DEF End
<1> QED BY <1>1, <1>2, <1>3, PTL DEF Spec

=============================================================================
