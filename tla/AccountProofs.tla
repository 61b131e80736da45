---------------------------- MODULE AccountProofs ---------------------------
(***************************************************************************)
(* Onesig implements Account: for any accounts and any number of sessions of *)
(* any programs, an account runs what its owner signed, in the order of the  *)
(* nonces, and nothing twice.  And a session that is alone with its account  *)
(* never arrives with a used nonce.                                          *)
(***************************************************************************)
EXTENDS OnesigProofs

ExecuteCodes == {EXECUTE_COMMITTED, EXECUTE_INLINE}

\* What session t has prepared: an operation of its own account, with the memo that runs
\* it, or another instruction.
Order(t) ==
    req[t].memo # Throws =>
        /\ req[t].meant.opcode \in ExecuteCodes =>
               /\ req[t].op # NoUserOp
               /\ req[t].op.sender = sess[t].account /\ req[t].op.nonce \in Nat
               /\ req[t].meant.operand = IF req[t].meant.opcode = EXECUTE_COMMITTED
                                         THEN UserOpHash(req[t].op) ELSE req[t].op
        /\ req[t].meant.opcode \notin ExecuteCodes => req[t].op = NoUserOp
        /\ req[t].meant.opcode = SET_NONCE => req[t].meant.operand \in Nat

\* Whoever pays is the account of the session.
Payer(t) ==
    /\ sess[t].account \in Accounts
    /\ Paid(t) => pay[t].payer = sess[t].account

\* What ran was minted, and its nonce is used up.
Ran(s) ==
    /\ s \in Sessions /\ pay[s].status = "minted" /\ Executes(s)
    /\ Operation(s).nonce < nonces[pay[s].payer]

OrdersInv ==
    /\ Inv
    /\ nonces \in [Accounts -> Nat]
    /\ \A t \in Sessions : Order(t) /\ Payer(t)
    /\ \A i \in DOMAIN ran : Ran(ran[i])
    /\ ran \in Seq(Sessions)

-----------------------------------------------------------------------------
(***************************************************************************)
(* Three kinds of steps.                                                    *)
(***************************************************************************)

\* What no step does to session t: change whose it is, or a payment that is out.
Keeps(t) ==
    /\ sess'[t].account = sess[t].account
    /\ Paid(t) => /\ req'[t] = req[t] /\ pay'[t].payer = pay[t].payer /\ Paid(t)'
                  /\ pay[t].status = "minted" => pay'[t].status = "minted"

\* A step that the account sees nothing of.
Quiet ==
    /\ nonces' = nonces /\ ran' = ran
    /\ \A t \in Sessions : Keeps(t) /\ Order(t)' /\ (Paid(t)' => Paid(t))

\* The payment of session s goes out.
GoesOut(s) ==
    /\ nonces' = nonces /\ ran' = ran /\ req' = req
    /\ \A t \in Sessions : Keeps(t) /\ (t # s => (Paid(t)' => Paid(t)))
    /\ ~Paid(s) /\ Paid(s)' /\ pay'[s].payer = sess[s].account

\* Its memo is dispatched on Flare.
Dispatches(s) ==
    /\ pay[s].status = "validated" /\ Dispatchable(s) /\ Dispatch(s)
    /\ sess' = sess /\ req' = req
    /\ \A t \in Sessions : Keeps(t) /\ (Paid(t)' => Paid(t))
    /\ pay'[s].status = "minted"

\* A program goes on, or nothing of interest happens.
LEMMA GoingOnIsQuiet ==
    ASSUME OrdersInv, NEW s \in Sessions, NEW pc, Goes(s, pc) \/ sess' = sess,
           req' = req, pay' = pay, nonces' = nonces, ran' = ran
    PROVE  Quiet
<1>1. \A t \in Sessions : sess'[t].account = sess[t].account
  BY OnlyThePc DEF OrdersInv, Inv, Shapes, SessShape, Goes
<1> QED BY <1>1 DEF Quiet, Keeps, Order, OrdersInv, Paid

\* Preparing is not seen either, of an order for the session's own account.
LEMMA BeginningIsQuiet ==
    ASSUME OrdersInv, NEW s \in Sessions, NEW target, NEW op, NEW meant, NEW memo, NEW pc,
           Begins(s, target, op, meant, memo, pc),
           meant.opcode \in ExecuteCodes =>
               /\ op # NoUserOp
               /\ op.sender = sess[s].account /\ op.nonce \in Nat
               /\ meant.operand = IF meant.opcode = EXECUTE_COMMITTED
                                  THEN UserOpHash(op) ELSE op,
           meant.opcode \notin ExecuteCodes => op = NoUserOp,
           meant.opcode = SET_NONCE => meant.operand \in Nat
    PROVE  Quiet
<1>1. Shapes /\ SessionInv(s) /\ sess[s].pc = "idle" /\ ~Paid(s)
  BY DEF OrdersInv, Inv, Begins, SessionInv, Stage
<1>2. pay' = pay /\ nonces' = nonces /\ ran' = ran
  BY DEF Begins, flareVars, xrplVars
<1>3. CASE Goes(s, "failed") /\ req' = req
  BY <1>2, <1>3, GoingOnIsQuiet
<1>4. CASE /\ sess' = [sess EXCEPT ![s] =
                          [program |-> sess[s].program, account |-> sess[s].account,
                           pc |-> pc, target |-> target,
                           before |-> Effects(sess[s].program, sess[s].account)]]
           /\ req' = [req EXCEPT ![s] =
                         [memo |-> memo, op |-> op, meant |-> meant, fees |-> raised,
                          amount |-> ComputePaymentAmount(NetMint(sess[s].program),
                                                          Schedules[raised])]]
  <2> DEFINE before == Effects(sess[s].program, sess[s].account)
             amount == ComputePaymentAmount(NetMint(sess[s].program), Schedules[raised])
  <2> HIDE DEF before, amount
  <2>1. /\ sess' = [sess EXCEPT ![s] =
                       [program |-> sess[s].program, account |-> sess[s].account,
                        pc |-> pc, target |-> target, before |-> before]]
        /\ req' = [req EXCEPT ![s] = [memo |-> memo, op |-> op, meant |-> meant,
                                      fees |-> raised, amount |-> amount]]
    BY <1>4 DEF before, amount
  <2>2. \A t \in Sessions : sess'[t].account = sess[t].account
    BY <1>1, <2>1 DEF Shapes, SessShape
  <2>3. /\ \A t \in Sessions \ {s} : req'[t] = req[t]
        /\ req'[s].op = op /\ req'[s].meant = meant
    BY <1>1, <2>1 DEF Shapes, ReqShape
  <2>4. \A t \in Sessions \ {s} : Order(t)'
    BY <2>2, <2>3 DEF OrdersInv, Order
  <2>5. Order(s)'
    BY <2>2, <2>3 DEF Order
  <2> QED BY <1>1, <1>2, <2>2, <2>3, <2>4, <2>5 DEF Quiet, Keeps, Paid
<1> QED BY <1>3, <1>4 DEF Begins, Goes

\* Each of the SDK's callers does so.
LEMMA PreparingIsQuiet ==
    ASSUME OrdersInv, NEW s \in Sessions,
           \/ \E fee \in OwnFees : Prepares(s, fee)
           \/ \E target \in Sessions : PreparesRecovery(s, target)
           \/ PreparesInstruction(s)
    PROVE  Quiet
<1> USE DEF Instruction, ExecuteCodes, EXECUTE_COMMITTED, EXECUTE_INLINE, IGNORE_MEMO,
            SET_NONCE, SET_REPLACEMENT_FEE, SET_EXECUTOR, REMOVE_EXECUTOR
<1>0. sess[s].account \in Accounts /\ nonces[sess[s].account] \in Nat
  BY DEF OrdersInv, Payer
<1>1. ASSUME NEW batch \in {"deposit", "increment"},
             NEW n \in Nat
      PROVE  LET op == UserOp(sess[s].account, n, batch)
             IN  op # NoUserOp /\ op.sender = sess[s].account /\ op.nonce = n
  BY DEF UserOp, NoUserOp
<1>2. ASSUME NEW fee, Prepares(s, fee)
      PROVE  Quiet
  <2> DEFINE op == UserOp(sess[s].account, nonces[sess[s].account], Batch(sess[s].program))
  <2>1. \E memo, pc : Begins(s, Garbage, op,
                             Instruction(EXECUTE_COMMITTED, 0, fee, UserOpHash(op), 0), memo, pc)
    BY <1>2 DEF Prepares, PrepareWith
  <2>2. op # NoUserOp /\ op.sender = sess[s].account /\ op.nonce \in Nat
    BY <1>0, <1>1 DEF Batch
  <2> HIDE DEF op
  <2> QED BY <2>1, <2>2, BeginningIsQuiet
<1>3. ASSUME NEW target \in Sessions, PreparesRecovery(s, target)
      PROVE  Quiet
  <2>1. \E memo, pc : Begins(s, target, NoUserOp, Instruction(IGNORE_MEMO, 0, 0, target, 0),
                             memo, pc)
    BY <1>3 DEF PreparesRecovery
  <2> QED BY <2>1, BeginningIsQuiet
<1>4. ASSUME NEW opcode \in {SET_EXECUTOR, REMOVE_EXECUTOR, SET_NONCE, SET_REPLACEMENT_FEE},
             NEW operand, NEW newFee, NEW memo,
             Begins(s, Garbage, NoUserOp, Instruction(opcode, 0, 0, operand, newFee), memo,
                    "submit"),
             opcode = SET_NONCE => operand \in Nat
      PROVE  Quiet
  <2>1. /\ Instruction(opcode, 0, 0, operand, newFee).opcode = opcode
        /\ Instruction(opcode, 0, 0, operand, newFee).operand = operand
    OBVIOUS
  <2> QED BY <1>4, <2>1, BeginningIsQuiet
<1>5. ASSUME NEW batch \in {"deposit", "increment"}, NEW memo,
             Begins(s, Garbage, UserOp(sess[s].account, nonces[sess[s].account], batch),
                    Instruction(EXECUTE_INLINE, 0, 0,
                        UserOp(sess[s].account, nonces[sess[s].account], batch), 0),
                    memo, "submit")
      PROVE  Quiet
  <2> DEFINE op == UserOp(sess[s].account, nonces[sess[s].account], batch)
  <2>1. op # NoUserOp /\ op.sender = sess[s].account /\ op.nonce \in Nat
    BY <1>0, <1>1
  <2>2. Begins(s, Garbage, op, Instruction(EXECUTE_INLINE, 0, 0, op, 0), memo, "submit")
    BY <1>5
  <2> HIDE DEF op
  <2> QED BY <2>1, <2>2, BeginningIsQuiet
<1>6. ASSUME PreparesInstruction(s)
      PROVE  Quiet
  <2>1. CASE \E e \in Pins : Begins(s, Garbage, NoUserOp, Instruction(SET_EXECUTOR, 0, 0, e, 0),
                                    EncodeSetExecutor(0, 0, e), "submit")
    BY <1>4, <2>1
  <2>2. CASE Begins(s, Garbage, NoUserOp, Instruction(REMOVE_EXECUTOR, 0, 0, Garbage, 0),
                    EncodeRemoveExecutor(0, 0), "submit")
    BY <1>4, <2>2
  <2>3. CASE \E n \in NewNonces : Begins(s, Garbage, NoUserOp, Instruction(SET_NONCE, 0, 0, n, 0),
                                         EncodeSetNonce(0, 0, n), "submit")
    BY <1>4, <2>3, OnesigAssumption
  <2>4. CASE \E t \in Sessions, f \in OwnFees :
                Begins(s, Garbage, NoUserOp, Instruction(SET_REPLACEMENT_FEE, 0, 0, t, f),
                       EncodeReplacementFee(0, 0, t, f), "submit")
    BY <1>4, <2>4
  <2>5. CASE \E b \in {"deposit", "increment"} :
                LET op == UserOp(sess[s].account, nonces[sess[s].account], b) IN
                Begins(s, Garbage, op, Instruction(EXECUTE_INLINE, 0, 0, op, 0),
                       EncodeExecuteInline(0, 0, op, BatchBytes(b)), "submit")
    BY <1>5, <2>5
  <2> QED BY <1>6, <2>1, <2>2, <2>3, <2>4, <2>5 DEF PreparesInstruction
<1> QED BY <1>2, <1>3, <1>6

\* A mint is dispatched, or is not seen: its value went to fees, or its memo was ignored.
LEMMA MintIsSeenOrNot ==
    ASSUME OrdersInv, NEW s \in Sessions, NEW e, Mintable(s, e), Mint(s),
           sess' = sess, req' = req
    PROVE  Quiet \/ Dispatches(s)
<1>1. PayShape /\ pay[s].status = "validated" /\ Paid(s)
  BY DEF OrdersInv, Inv, Shapes, Mintable, Paid
<1>2. ASSUME NEW status \in {"swallowed", "skipped", "minted"},
             pay' = [pay EXCEPT ![s].status = status]
      PROVE  /\ \A t \in Sessions : Keeps(t) /\ (Paid(t)' => Paid(t))
             /\ pay'[s].status = status
  BY <1>1, <1>2 DEF PayShape, Keeps, Paid
<1>3. CASE \/ pay' = [pay EXCEPT ![s].status = "swallowed"] /\ UNCHANGED <<nonces, ran>>
           \/ pay' = [pay EXCEPT ![s].status = "skipped"] /\ UNCHANGED <<nonces, ran>>
  BY <1>2, <1>3 DEF Quiet, Order, OrdersInv
<1>4. CASE /\ Covered(s) /\ <<pay[s].payer, s>> \notin ignored
           /\ pay' = [pay EXCEPT ![s].status = "minted"] /\ Dispatch(s)
  BY <1>1, <1>2, <1>4 DEF Dispatches, Mintable
<1> QED BY <1>3, <1>4 DEF Mint

\* A payment goes out, paid for by the account of the session.
LEMMA PayingGoesOut ==
    ASSUME OrdersInv, NEW s \in Sessions, NEW number, Broadcast(s, sess[s].account, number),
           sess[s].pc = "submit" \/ sign[s] = "open", NEW pc, Goes(s, pc) \/ sess' = sess,
           req' = req, nonces' = nonces, ran' = ran
    PROVE  GoesOut(s)
<1>1. PayShape /\ ~Paid(s)
  BY DEF OrdersInv, Inv, Shapes, SessionInv, Stage
<1>2. \A t \in Sessions : sess'[t].account = sess[t].account
  BY OnlyThePc DEF OrdersInv, Inv, Shapes, SessShape, Goes
<1>3. /\ \A t \in Sessions \ {s} : pay'[t] = pay[t]
      /\ pay'[s].status = "sent" /\ pay'[s].payer = sess[s].account
  BY <1>1 DEF Broadcast, PayShape
<1> QED BY <1>1, <1>2, <1>3 DEF GoesOut, Keeps, Paid

\* The XRPL decides on a payment.
LEMMA LandingIsQuiet ==
    ASSUME OrdersInv, NEW s \in Sessions, NEW status, status # "none", Closes(s, status),
           pay[s].status = "sent", sess' = sess, req' = req, nonces' = nonces, ran' = ran
    PROVE  Quiet
<1>1. PayShape /\ Paid(s)
  BY DEF OrdersInv, Inv, Shapes, Paid
<1>2. /\ \A t \in Sessions \ {s} : pay'[t] = pay[t]
      /\ pay'[s].status = status /\ pay'[s].payer = pay[s].payer
  BY <1>1 DEF Closes, PayShape
<1> QED BY <1>1, <1>2 DEF Quiet, Keeps, Order, OrdersInv, Paid

\* There are no other kinds of steps.
LEMMA ThreeKinds ==
    ASSUME OrdersInv, [Next]_vars
    PROVE  Quiet \/ \E s \in Sessions : GoesOut(s) \/ Dispatches(s)
<1> USE DEF flareVars, xrplVars, execVars, sessVars
<1>1. ASSUME NEW s \in Sessions,
             \/ Registers(s) \/ SeesSignature(s) \/ SeesValidated(s) \/ Concludes(s)
             \/ FlagIsSet(s) \/ Recovers(s) \/ GivesUpAsking(s) \/ PollsRunOut(s)
             \/ FlagIsNotSet(s) \/ PhoneRefuses(s) \/ SubmitThrows(s, FALSE)
             \/ TakesOn(s) \/ Fails(s)
      PROVE  Quiet
  <2>1. /\ req' = req /\ pay' = pay /\ nonces' = nonces /\ ran' = ran
        /\ (\E pc : Goes(s, pc)) \/ sess' = sess
    BY <1>1 DEF Registers, GoesOn, SeesSignature, SeesValidated, Concludes, FlagIsSet,
                Recovers, GivesUpAsking, PollsRunOut, FlagIsNotSet, PhoneRefuses,
                SubmitThrows, TakesOn, Fails
  <2> QED BY <2>1, GoingOnIsQuiet
<1>2. ASSUME NEW s \in Sessions,
             SubmitSends(s) \/ SubmitThrows(s, TRUE) \/ \E a \in Accounts : PhoneSigns(s, a)
      PROVE  GoesOut(s)
  <2>1. CASE SubmitSends(s)
    BY <2>1, PayingGoesOut DEF SubmitSends
  <2>2. CASE SubmitThrows(s, TRUE)
    BY <2>2, PayingGoesOut DEF SubmitThrows
  <2>3. CASE \E a \in Accounts : PhoneSigns(s, a)
    BY <2>3, PayingGoesOut DEF PhoneSigns, Signers
  <2> QED BY <1>2, <2>1, <2>2, <2>3
<1>3. ASSUME NEW s \in Sessions, Validates(s, "tes") \/ Validates(s, "tec") \/ Lapses(s)
      PROVE  Quiet
  <2>1. \E status \in {"validated", "tec", "lapsed"} : Closes(s, status)
    BY <1>3 DEF Validates, Lapses
  <2> QED BY <1>3, <2>1, LandingIsQuiet DEF Validates, Lapses
<1>4. ASSUME NEW s \in Sessions, Relays(s) \/ RivalRelays(s)
      PROVE  Quiet \/ Dispatches(s)
  <2>1. CASE RivalRelays(s)
    BY <2>1, MintIsSeenOrNot DEF RivalRelays
  <2>2. CASE Relays(s) /\ Mintable(s, Us) /\ Mint(s)
    BY <2>2, MintIsSeenOrNot DEF Relays
  <2>3. CASE Relays(s) /\ Settled(s) /\ UNCHANGED <<nonces, pinned, ignored, ran, pay>>
    BY <2>3, GoingOnIsQuiet DEF Relays
  <2> QED BY <1>4, <2>1, <2>2, <2>3 DEF Relays
<1>5. CASE FeesChange \/ UNCHANGED vars
  BY <1>5 DEF FeesChange, vars, Quiet, Keeps, Order, OrdersInv, Paid
<1>6. ASSUME NEW s \in Sessions, Script(s)
      PROVE  Quiet \/ GoesOut(s)
  BY <1>1, <1>2, <1>6, PreparingIsQuiet DEF Script
<1>7. ASSUME NEW s \in Sessions, Mishap(s)
      PROVE  Quiet \/ GoesOut(s)
  BY <1>1, <1>2, <1>3, <1>7 DEF Mishap
<1>8. ASSUME NEW s \in Sessions, Executor(s)
      PROVE  Quiet \/ Dispatches(s)
  BY <1>1, <1>4, <1>8 DEF Executor
<1> QED BY <1>2, <1>3, <1>4, <1>5, <1>6, <1>7, <1>8 DEF Next

-----------------------------------------------------------------------------

\* What an operation is to Flare is what its session prepared.
LEMMA OperationIsOrder ==
    ASSUME OrdersInv, NEW s \in Sessions, Paid(s)
    PROVE  /\ Executes(s) => /\ Operation(s) = req[s].op /\ req[s].op # NoUserOp
                             /\ req[s].op.sender = sess[s].account /\ req[s].op.nonce \in Nat
           /\ Decode(req[s].memo).opcode = SET_NONCE => Decode(req[s].memo).operand \in Nat
<1>1. req[s].memo # Throws /\ Decode(req[s].memo) = req[s].meant /\ Order(s)
  BY DEF OrdersInv, Inv, SessionInv, Stage, Request
<1> QED BY <1>1 DEF Order, Executes, Operation, ExecuteCodes, UserOpHash

\* A dispatch runs the next operation of the payer, skips nonces, or leaves them alone.
LEMMA DispatchEffect ==
    ASSUME OrdersInv, NEW s \in Sessions, Dispatches(s)
    PROVE  LET a == sess[s].account IN
           /\ a \in Accounts /\ pay[s].payer = a /\ pay'[s].payer = a
           /\ \/ /\ Executes(s) /\ ran' = Append(ran, s)
                 /\ req[s].op.nonce = nonces[a] /\ nonces' = [nonces EXCEPT ![a] = @ + 1]
              \/ /\ ran' = ran
                 /\ \E n \in Nat : n > nonces[a] /\ nonces' = [nonces EXCEPT ![a] = n]
              \/ ran' = ran /\ nonces' = nonces
<1>1. Paid(s) /\ sess[s].account \in Accounts /\ pay[s].payer = sess[s].account
      /\ pay'[s].payer = sess[s].account
  BY DEF Dispatches, Paid, OrdersInv, Payer, Keeps
<1>2. CASE Executes(s)
  <2>0. Decode(req[s].memo).opcode # SET_NONCE
    BY <1>2 DEF Executes, SET_NONCE, EXECUTE_COMMITTED, EXECUTE_INLINE
  <2>1. Operation(s).nonce = nonces[pay[s].payer] /\ Operation(s) = req[s].op
    BY <1>1, <1>2, <2>0, OperationIsOrder DEF Dispatches, Dispatchable
  <2>2. nonces' = [nonces EXCEPT ![pay[s].payer] = @ + 1] /\ ran' = Append(ran, s)
    BY <1>2, <2>0 DEF Dispatches, Dispatch
  <2> QED BY <1>1, <1>2, <2>1, <2>2
<1>3. CASE ~Executes(s)
  <2>1. CASE Decode(req[s].memo).opcode = SET_NONCE
    <3>1. /\ Decode(req[s].memo).operand \in Nat
          /\ Decode(req[s].memo).operand > nonces[pay[s].payer]
      BY <1>1, <1>3, <2>1, OperationIsOrder DEF Dispatches, Dispatchable
    <3>2. nonces' = [nonces EXCEPT ![pay[s].payer] = Decode(req[s].memo).operand] /\ ran' = ran
      BY <1>3, <2>1 DEF Dispatches, Dispatch
    <3> QED BY <1>1, <3>1, <3>2
  <2>2. CASE Decode(req[s].memo).opcode # SET_NONCE
    BY <1>1, <1>3, <2>2 DEF Dispatches, Dispatch
  <2> QED BY <2>1, <2>2
<1> QED BY <1>1, <1>2, <1>3

\* What ran stays minted, with the same payer and memo.
LEMMA RanStays ==
    ASSUME OrdersInv, \A t \in Sessions : Keeps(t), NEW i \in DOMAIN ran
    PROVE  /\ ran[i] \in Sessions /\ pay'[ran[i]].status = "minted"
           /\ pay'[ran[i]].payer = pay[ran[i]].payer /\ pay[ran[i]].payer \in Accounts
           /\ Executes(ran[i]) /\ req'[ran[i]] = req[ran[i]]
           /\ Operation(ran[i]).nonce \in Nat
           /\ Operation(ran[i]).nonce < nonces[pay[ran[i]].payer]
<1>1. Ran(ran[i]) /\ Paid(ran[i]) /\ ran[i] \in Sessions
  BY DEF OrdersInv, Ran, Paid
<1>2. Keeps(ran[i]) /\ Payer(ran[i])
  BY <1>1 DEF OrdersInv
<1>3. Operation(ran[i]).nonce \in Nat
  BY <1>1, OperationIsOrder DEF Ran
<1> DEFINE r == ran[i]
<1>4. req'[r] = req[r] /\ pay'[r].payer = pay[r].payer /\ pay'[r].status = "minted"
  BY <1>1, <1>2 DEF Ran, Keeps
<1>5. Executes(r) /\ pay[r].payer \in Accounts /\ Operation(r).nonce < nonces[pay[r].payer]
  BY <1>1, <1>2 DEF Ran, Payer
<1> QED BY <1>1, <1>3, <1>4, <1>5

\* All three keep the invariant.
LEMMA OrdersNext ==
    ASSUME OrdersInv, [Next]_vars
    PROVE  OrdersInv'
<1>1. Inv'
  BY NextInv DEF OrdersInv
<1>2. ASSUME \A t \in Sessions : Keeps(t) /\ (Paid(t)' => Paid(t))
      PROVE  \A t \in Sessions : Payer(t)'
  BY <1>2 DEF OrdersInv, Payer, Keeps, Paid
<1>3. CASE Quiet
  <2>1. \A i \in DOMAIN ran' : Ran(ran[i])'
    BY <1>3, RanStays DEF Quiet, Ran, Executes, Operation
  <2> QED BY <1>1, <1>2, <1>3, <2>1 DEF Quiet, OrdersInv
<1>4. ASSUME NEW s \in Sessions, GoesOut(s)
      PROVE  OrdersInv'
  <2>1. \A i \in DOMAIN ran' : Ran(ran[i])'
    BY <1>4, RanStays DEF GoesOut, Ran, Executes, Operation
  <2>2. \A t \in Sessions : Payer(t)' /\ Order(t)'
    BY <1>4 DEF GoesOut, Keeps, OrdersInv, Payer, Order, Paid
  <2> QED BY <1>1, <1>4, <2>1, <2>2 DEF GoesOut, OrdersInv
<1>5. ASSUME NEW s \in Sessions, Dispatches(s)
      PROVE  OrdersInv'
  <2> DEFINE a == sess[s].account
  <2>1. \A t \in Sessions : Payer(t)' /\ Order(t)'
    BY <1>2, <1>5 DEF Dispatches, OrdersInv, Order
  <2>2. /\ nonces' \in [Accounts -> Nat] /\ \A b \in Accounts : nonces'[b] >= nonces[b]
        /\ \/ ran' = ran
           \/ /\ Executes(s) /\ ran' = Append(ran, s) /\ req[s].op.nonce \in Nat
              /\ nonces'[a] > req[s].op.nonce
    <3>1. nonces \in [Accounts -> Nat] /\ a \in Accounts /\ Paid(s)
      BY <1>5, DispatchEffect DEF OrdersInv, Dispatches, Paid
    <3>2. CASE /\ Executes(s) /\ ran' = Append(ran, s)
               /\ req[s].op.nonce = nonces[a] /\ nonces' = [nonces EXCEPT ![a] = @ + 1]
      BY <3>1, <3>2
    <3>3. CASE ran' = ran /\ \E n \in Nat : n > nonces[a] /\ nonces' = [nonces EXCEPT ![a] = n]
      BY <3>1, <3>3
    <3>4. CASE ran' = ran /\ nonces' = nonces
      BY <3>1, <3>4
    <3> QED BY <1>5, <3>2, <3>3, <3>4, DispatchEffect
  <2>3. ASSUME NEW i \in DOMAIN ran, ran'[i] = ran[i]
        PROVE  Ran(ran[i])'
    <3> DEFINE r == ran[i]
               b == pay[ran[i]].payer
    <3>1. /\ r \in Sessions /\ pay'[r].status = "minted" /\ pay'[r].payer = b
          /\ b \in Accounts /\ Executes(r) /\ Operation(r).nonce \in Nat
          /\ Operation(r).nonce < nonces[b]
      BY <1>5, RanStays DEF Dispatches
    <3>2. nonces[b] \in Nat /\ nonces'[b] \in Nat /\ nonces'[b] >= nonces[b]
      BY <2>2, <3>1 DEF OrdersInv
    <3>3. Executes(r)' /\ Operation(r).nonce < nonces'[b] /\ req' = req
      BY <1>5, <2>3, <3>1, <3>2 DEF Dispatches, Executes
    <3> QED BY <2>3, <3>1, <3>3 DEF Ran, Executes, Operation
  <2>4. Executes(s) /\ ran' = Append(ran, s) => Ran(s)'
    BY <1>5, <2>2, DispatchEffect, OperationIsOrder
    DEF Dispatches, Ran, Executes, Operation, Paid
  <2>5. (\A i \in DOMAIN ran' : Ran(ran[i])') /\ ran' \in Seq(Sessions)
    <3>1. CASE ran' = ran
      BY <2>3, <3>1 DEF OrdersInv
    <3>2. CASE Executes(s) /\ ran' = Append(ran, s)
      <4>1. \A i \in DOMAIN ran' : (i \in DOMAIN ran /\ ran'[i] = ran[i]) \/ ran'[i] = s
        BY <3>2 DEF OrdersInv
      <4>2. ran' \in Seq(Sessions)
        BY <3>2 DEF OrdersInv
      <4> QED BY <2>3, <2>4, <3>2, <4>1, <4>2 DEF Ran
    <3> QED BY <2>2, <3>1, <3>2
  <2> QED BY <1>1, <2>1, <2>2, <2>5 DEF OrdersInv
<1> QED BY <1>3, <1>4, <1>5, ThreeKinds

\* At first nothing has been prepared, paid or run.
LEMMA OrdersInit == Init => OrdersInv
<1> SUFFICES ASSUME Init PROVE OrdersInv
  OBVIOUS
<1>1. PICK cast \in Casts : sess = [s \in Sessions |-> Fresh(cast[s])]
  BY DEF Init
<1>2. \A s \in Sessions : sess[s].account \in Accounts
  BY <1>1, OnesigAssumption DEF Fresh
<1>3. /\ pay = [s \in Sessions |-> Unpaid] /\ req = [s \in Sessions |-> Unprepared]
      /\ nonces = [a \in Accounts |-> 0] /\ ran = <<>>
  BY DEF Init
<1> QED BY <1>2, <1>3, InitInv DEF OrdersInv, Order, Payer, Paid, Unpaid, Unprepared

\* So orders run in sequence, throughout.
THEOREM OrdersInvariance == Spec => []OrdersInv
<1>1. OrdersInv /\ [Next]_vars => OrdersInv'
  BY OrdersNext
<1> QED BY <1>1, OrdersInit, PTL DEF Spec

-----------------------------------------------------------------------------
(***************************************************************************)
(* What the abstract account sees of them.                                  *)
(***************************************************************************)

\* Sessions whose payments carry orders of account a.
Ordering(a) == {r \in Sessions : Paid(r) /\ pay[r].payer = a /\ req[r].op # NoUserOp}

\* A step that pays nothing signs nothing.
LEMMA SignedStays ==
    ASSUME OrdersInv, \A t \in Sessions : Keeps(t) /\ (Paid(t)' => Paid(t))
    PROVE  OrdersSigned' = OrdersSigned
<1>1. ASSUME NEW a \in Accounts
      PROVE  Ordering(a)' = Ordering(a) /\ \A r \in Ordering(a) : req'[r] = req[r]
  BY DEF Ordering, Keeps
<1>2. ASSUME NEW a \in Accounts
      PROVE  {[id |-> s, op |-> req'[s].op] : s \in Ordering(a)'}
                 = {[id |-> s, op |-> req[s].op] : s \in Ordering(a)}
  BY <1>1
<1> QED BY <1>2 DEF OrdersSigned, Ordering

\* What has run is not rewritten.
LEMMA DoneStays ==
    ASSUME OrdersInv, \A t \in Sessions : Keeps(t), NEW a \in Accounts
    PROVE  {[id |-> s, op |-> Operation(s)'] : s \in {r \in ToSet(ran) : pay'[r].payer = a}}
               = OrdersDone[a]
<1>1. \A r \in ToSet(ran) : /\ pay'[r].payer = pay[r].payer
                            /\ Operation(r)' = Operation(r)
  BY RanStays DEF ToSet, Operation
<1> QED BY <1>1 DEF OrdersDone

\* A quiet step is a stutter.
LEMMA QuietStutters ==
    ASSUME OrdersInv, Quiet
    PROVE  UNCHANGED <<OrdersSigned, OrdersDone, nonces>>
<1>1. OrdersSigned' = OrdersSigned
  BY SignedStays DEF Quiet
<1>2. OrdersDone' = [a \in Accounts |-> OrdersDone[a]]
  BY DoneStays DEF Quiet, OrdersDone
<1> QED BY <1>1, <1>2 DEF Quiet, OrdersDone

\* A payment that goes out with an operation in it is an order signed by its owner.
LEMMA GoingOutSigns ==
    ASSUME OrdersInv, OrdersInv', NEW s \in Sessions, GoesOut(s)
    PROVE  [A!AccountNext]_<<OrdersSigned, OrdersDone, nonces>>
<1> DEFINE a == sess[s].account
           order == [id |-> s, op |-> req[s].op]
<1>1. a \in Accounts /\ req' = req /\ nonces' = nonces /\ ran' = ran
  BY DEF OrdersInv, Payer, GoesOut
<1>2. OrdersDone' = OrdersDone
  <2>1. OrdersDone' = [b \in Accounts |-> OrdersDone[b]]
    BY <1>1, DoneStays DEF GoesOut, OrdersDone
  <2> QED BY <2>1 DEF OrdersDone
<1>3. \A b \in Accounts : Ordering(b)' =
          IF b = a /\ req[s].op # NoUserOp THEN Ordering(b) \cup {s} ELSE Ordering(b)
  BY <1>1 DEF Ordering, GoesOut, Keeps, Paid
<1>4. CASE req[s].op = NoUserOp
  <2>1. OrdersSigned' = OrdersSigned
    BY <1>1, <1>3, <1>4 DEF OrdersSigned, Ordering
  <2> QED BY <1>1, <1>2, <2>1
<1>5. CASE req[s].op # NoUserOp
  <2>1. order.op.sender = a
    <3>1. req[s].memo # Throws
      BY <1>1 DEF GoesOut, OrdersInv, Inv, SessionInv, Stage
    <3> QED BY <1>5, <3>1 DEF OrdersInv, Order
  <2>2. \A b \in Accounts : {[id |-> t, op |-> req'[t].op] : t \in Ordering(b)'} =
            IF b = a THEN {[id |-> t, op |-> req[t].op] : t \in Ordering(b)} \cup {order}
                     ELSE {[id |-> t, op |-> req[t].op] : t \in Ordering(b)}
    BY <1>1, <1>3, <1>5
  <2>3. OrdersSigned = [b \in Accounts |-> {[id |-> t, op |-> req[t].op] : t \in Ordering(b)}]
    BY DEF OrdersSigned, Ordering
  <2>4. OrdersSigned' =
            [b \in Accounts |-> {[id |-> t, op |-> req'[t].op] : t \in Ordering(b)'}]
    BY DEF OrdersSigned, Ordering
  <2>5. /\ OrdersSigned' = [OrdersSigned EXCEPT ![a] = @ \cup {order}]
        /\ order \in OrdersSigned'[a]
    BY <1>1, <2>2, <2>3, <2>4
  <2>6. A!Sign(a)
    BY <1>1, <1>2, <2>1, <2>5 DEF A!Sign
  <2> QED BY <1>1, <2>6 DEF A!AccountNext
<1> QED BY <1>4, <1>5

\* A dispatch carries the payer's order out, or skips nonces, or is not seen.
LEMMA DispatchingCarriesOut ==
    ASSUME OrdersInv, NEW s \in Sessions, Dispatches(s)
    PROVE  [A!AccountNext]_<<OrdersSigned, OrdersDone, nonces>>
<1> DEFINE a == sess[s].account
           order == [id |-> s, op |-> req[s].op]
<1>1. /\ a \in Accounts /\ pay[s].payer = a /\ pay'[s].payer = a /\ Paid(s)
      /\ req' = req /\ nonces \in [Accounts -> Nat]
  BY DispatchEffect DEF Dispatches, Paid, OrdersInv
<1>2. OrdersSigned' = OrdersSigned
  BY SignedStays DEF Dispatches
<1>3. ran' = ran => OrdersDone' = OrdersDone
  <2>1. ran' = ran => OrdersDone' = [b \in Accounts |-> OrdersDone[b]]
    BY DoneStays DEF Dispatches, OrdersDone
  <2> QED BY <2>1 DEF OrdersDone
<1>4. CASE ran' = ran /\ nonces' = nonces
  BY <1>2, <1>3, <1>4
<1>5. ASSUME NEW n \in Nat, n > nonces[a], nonces' = [nonces EXCEPT ![a] = n], ran' = ran
      PROVE  A!AccountNext
  <2>1. nonces'[a] = n
    BY <1>1, <1>5
  <2>2. A!Skip(a)
    BY <1>2, <1>3, <1>5, <2>1 DEF A!Skip
  <2> QED BY <1>1, <2>2 DEF A!AccountNext
<1>6. CASE /\ Executes(s) /\ ran' = Append(ran, s)
           /\ req[s].op.nonce = nonces[a] /\ nonces' = [nonces EXCEPT ![a] = @ + 1]
  <2>1. Operation(s) = req[s].op /\ Operation(s)' = Operation(s) /\ req[s].op # NoUserOp
    BY <1>1, <1>6, OperationIsOrder DEF Operation
  <2>2. order \in OrdersSigned[a]
    BY <1>1, <2>1 DEF OrdersSigned
  <2>3. \A past \in OrdersDone[a] : past.op # order.op
    <3> SUFFICES ASSUME NEW i \in DOMAIN ran, pay[ran[i]].payer = a
                 PROVE  Operation(ran[i]) # req[s].op
      BY <1>1 DEF OrdersDone, ToSet
    <3>1. Operation(ran[i]).nonce \in Nat /\ Operation(ran[i]).nonce < nonces[a]
      BY RanStays DEF Dispatches
    <3> QED BY <1>1, <1>6, <3>1
  <2>4. ToSet(ran') = ToSet(ran) \cup {s}
    BY <1>6 DEF OrdersInv, ToSet
  <2>5. \A b \in Accounts :
            {[id |-> r, op |-> Operation(r)'] : r \in {u \in ToSet(ran') : pay'[u].payer = b}} =
                IF b = a
                THEN {[id |-> r, op |-> Operation(r)'] :
                          r \in {u \in ToSet(ran) : pay'[u].payer = b}} \cup {order}
                ELSE {[id |-> r, op |-> Operation(r)'] :
                          r \in {u \in ToSet(ran) : pay'[u].payer = b}}
    BY <1>1, <2>1, <2>4
  <2>6. \A b \in Accounts :
            {[id |-> r, op |-> Operation(r)'] : r \in {u \in ToSet(ran') : pay'[u].payer = b}} =
                IF b = a THEN OrdersDone[b] \cup {order} ELSE OrdersDone[b]
    BY <2>5, DoneStays DEF Dispatches
  <2>7. OrdersDone' = [OrdersDone EXCEPT ![a] = @ \cup {order}]
    <3>1. OrdersDone' = [b \in Accounts |-> IF b = a THEN OrdersDone[b] \cup {order}
                                                     ELSE OrdersDone[b]]
      BY <2>6 DEF OrdersDone
    <3> QED BY <3>1 DEF OrdersDone
  <2>8. A!CarryOut(a, order)
    BY <1>2, <1>6, <2>3, <2>7 DEF A!CarryOut
  <2> QED BY <1>1, <2>2, <2>8 DEF A!AccountNext
<1> QED BY <1>4, <1>5, <1>6, DispatchEffect

\* Onesig implements Account, for any accounts and sessions: whatever is lost, lapses,
\* collides, is relayed by others or recovered, an account runs only what its owner signed,
\* in the order of its nonces, and nothing twice.
THEOREM OnesigImplementsAccount == Spec => ImplementsAccount
<1>1. Init => A!AccountInit
  <2> SUFFICES ASSUME Init PROVE A!AccountInit
    OBVIOUS
  <2>1. /\ \A s \in Sessions : ~Paid(s)
        /\ ran = <<>> /\ nonces = [a \in Accounts |-> 0]
    BY DEF Init, Paid, Unpaid
  <2>2. OrdersSigned = [a \in Accounts |-> {}]
    BY <2>1 DEF OrdersSigned
  <2>3. OrdersDone = [a \in Accounts |-> {}]
    BY <2>1 DEF OrdersDone, ToSet
  <2> QED BY <2>1, <2>2, <2>3 DEF A!AccountInit
<1>2. OrdersInv /\ [Next]_vars => [A!AccountNext]_<<OrdersSigned, OrdersDone, nonces>>
  BY ThreeKinds, OrdersNext, QuietStutters, GoingOutSigns, DispatchingCarriesOut
<1> QED BY <1>1, <1>2, OrdersInvariance, PTL DEF Spec, ImplementsAccount, A!AccountSpec

-----------------------------------------------------------------------------
(***************************************************************************)
(* Nonces, of sessions that are alone with their account.                   *)
(***************************************************************************)

\* Session t is still about, or its payment may still land: it is in Outstanding.
Alive(t) ==
    /\ req[t] # Unprepared
    /\ \/ sess[t].pc \notin {"passed", "failed"}
       \/ sign[t] = "open" \/ pay[t].status \in {"sent", "validated"}

Pending(t) == pay[t].status \in {"none", "sent", "validated"}

\* Two live sessions of an account know that they are not alone.
Crowd(t, u) ==
    t # u /\ sess[t].account = sess[u].account /\ Alive(t) /\ Alive(u) => t \in crowded

\* The nonce that a session alone with its account has prepared is still the next.
Alone(t) ==
    t \notin crowded /\ Alive(t) /\ Pending(t) /\ req[t].op # NoUserOp =>
        req[t].op.nonce = nonces[sess[t].account]

AloneInv ==
    /\ OrdersInv
    /\ \A t, u \in Sessions : Crowd(t, u)
    /\ \A t \in Sessions : Alone(t)

\* Session s has its turn, prepared as it is: nobody comes to life.
Turn(s) ==
    /\ req' = req /\ crowded' = crowded
    /\ \A t \in Sessions : sess'[t].account = sess[t].account
    /\ \A t \in Sessions \ {s} : sess'[t] = sess[t] /\ sign'[t] = sign[t] /\ pay'[t] = pay[t]
    /\ Pending(s)' => Pending(s)
    /\ Alive(s)' => Alive(s)

\* A turn that leaves the nonces alone, or is the dispatch of a memo, keeps the invariant.
LEMMA TurnAlone ==
    ASSUME AloneInv, OrdersInv', NEW s \in Sessions, Turn(s),
           nonces' = nonces \/ Dispatches(s)
    PROVE  AloneInv'
<1>1. \A t \in Sessions : /\ Alive(t)' => Alive(t)
                          /\ Pending(t)' => Pending(t)
  BY DEF Turn, Alive, Pending
<1>2. \A t, u \in Sessions : Crowd(t, u)'
  BY <1>1 DEF AloneInv, Crowd, Turn
<1>3. CASE nonces' = nonces
  <2>1. \A t \in Sessions : Alone(t)'
    BY <1>1, <1>3 DEF AloneInv, Alone, Turn
  <2> QED BY <1>2, <2>1 DEF AloneInv
<1>4. CASE Dispatches(s)
  <2>1. ~Pending(s)'
    BY <1>4 DEF Dispatches, Pending
  <2>2. Alive(s)
    <3>1. Paid(s) /\ pay[s].status = "validated"
      BY <1>4 DEF Dispatches, Paid
    <3>2. req[s].memo # Throws
      BY <3>1 DEF AloneInv, OrdersInv, Inv, SessionInv, Stage
    <3> QED BY <3>1, <3>2 DEF Alive, Unprepared
  <2>3. \A b \in Accounts : b # sess[s].account => nonces'[b] = nonces[b]
    BY <1>4, DispatchEffect DEF AloneInv, OrdersInv
  <2>4. ASSUME NEW t \in Sessions, t # s PROVE Alone(t)'
    <3>1. CASE sess[t].account = sess[s].account
      <4>1. Alive(t) => t \in crowded
        BY <2>2, <2>4, <3>1 DEF AloneInv, Crowd
      <4> QED BY <1>1, <4>1 DEF Alone, Turn
    <3>2. CASE sess[t].account # sess[s].account
      <4>1. nonces'[sess[t].account] = nonces[sess[t].account]
        BY <2>3, <2>4, <3>2 DEF AloneInv, OrdersInv, Payer
      <4> QED BY <1>1, <2>4, <4>1 DEF AloneInv, Alone, Turn
    <3> QED BY <3>1, <3>2
  <2> QED BY <1>2, <2>1, <2>4 DEF AloneInv, Alone
<1> QED BY <1>3, <1>4

\* A session that is alive goes on, or its payment, or nothing but a job: that is a turn.
LEMMA IsTurn ==
    ASSUME OrdersInv, NEW s \in Sessions, req' = req, crowded' = crowded,
           sess' = sess \/ \E pc : Goes(s, pc),
           sign' = sign \/ \E v : sign' = [sign EXCEPT ![s] = v],
           pay' = pay \/ (Pending(s) /\ \E v : pay' = [pay EXCEPT ![s] = v]),
           \/ sess[s].pc \notin {"passed", "failed"} \/ sign[s] = "open"
           \/ pay[s].status \in {"sent", "validated"}
           \/ sess' = sess /\ sign' = sign /\ pay' = pay
    PROVE  Turn(s)
<1>1. /\ \A t \in Sessions : sess'[t].account = sess[t].account
      /\ \A t \in Sessions \ {s} : sess'[t] = sess[t]
  BY OnlyThePc DEF OrdersInv, Inv, Shapes, SessShape, Goes
<1>2. \A t \in Sessions \ {s} : sign'[t] = sign[t] /\ pay'[t] = pay[t]
  BY DEF OrdersInv, Inv, Shapes, SignShape, PayShape
<1> QED BY <1>1, <1>2 DEF Turn, Alive, Pending

\* A session that starts knows the others, and takes the nonce as it is.
LEMMA BeginsAlone ==
    ASSUME AloneInv, OrdersInv', NEW s \in Sessions, NEW target, NEW op, NEW meant, NEW memo,
           NEW pc, Begins(s, target, op, meant, memo, pc),
           sign' = sign \/ \E v : sign' = [sign EXCEPT ![s] = v],
           op # NoUserOp => op.nonce = nonces[sess[s].account]
    PROVE  AloneInv'
<1>1. /\ SessShape /\ ReqShape /\ SignShape /\ sess[s].pc = "idle"
      /\ pay' = pay /\ nonces' = nonces
  BY DEF AloneInv, OrdersInv, Inv, Shapes, Begins, flareVars, xrplVars
<1>2. CASE Goes(s, "failed") /\ UNCHANGED <<req, crowded>>
  <2>1. Turn(s)
    BY <1>1, <1>2, IsTurn DEF AloneInv
  <2> QED BY <1>1, <2>1, TurnAlone
<1>3. CASE /\ sess' = [sess EXCEPT ![s] =
                          [program |-> sess[s].program, account |-> sess[s].account,
                           pc |-> pc, target |-> target,
                           before |-> Effects(sess[s].program, sess[s].account)]]
           /\ req' = [req EXCEPT ![s] =
                         [memo |-> memo, op |-> op, meant |-> meant, fees |-> raised,
                          amount |-> ComputePaymentAmount(NetMint(sess[s].program),
                                                          Schedules[raised])]]
           /\ crowded' = IF Outstanding(sess[s].account) = {} THEN crowded
                         ELSE crowded \cup Outstanding(sess[s].account) \cup {s}
  <2> DEFINE before == Effects(sess[s].program, sess[s].account)
             amount == ComputePaymentAmount(NetMint(sess[s].program), Schedules[raised])
             others == Outstanding(sess[s].account)
  <2> HIDE DEF before, amount, others
  <2>1. /\ sess' = [sess EXCEPT ![s] =
                       [program |-> sess[s].program, account |-> sess[s].account,
                        pc |-> pc, target |-> target, before |-> before]]
        /\ req' = [req EXCEPT ![s] = [memo |-> memo, op |-> op, meant |-> meant,
                                      fees |-> raised, amount |-> amount]]
        /\ crowded' = IF others = {} THEN crowded ELSE crowded \cup others \cup {s}
    BY <1>3 DEF before, amount, others
  <2>2. /\ \A t \in Sessions : sess'[t].account = sess[t].account
        /\ \A t \in Sessions \ {s} : sess'[t] = sess[t]
    BY <1>1, <2>1 DEF SessShape
  <2>3. req'[s].op = op /\ \A t \in Sessions \ {s} : req'[t] = req[t]
    BY <1>1, <2>1 DEF ReqShape
  <2>4. \A t \in Sessions \ {s} : (Alive(t)' <=> Alive(t)) /\ (Pending(t)' <=> Pending(t))
    BY <1>1, <2>2, <2>3 DEF Alive, Pending, SignShape
  <2>5. \A t \in Sessions : t \in others <=> Alive(t) /\ sess[t].account = sess[s].account
    BY DEF others, Outstanding, Alive
  <2>6. \A t, u \in Sessions : Crowd(t, u)'
    BY <2>1, <2>2, <2>4, <2>5 DEF AloneInv, Crowd
  <2>7. \A t \in Sessions : Alone(t)'
    BY <1>1, <2>1, <2>2, <2>3, <2>4 DEF AloneInv, Alone
  <2> QED BY <2>6, <2>7 DEF AloneInv
<1> QED BY <1>2, <1>3 DEF Begins

\* So do all that the SDK prepares.
LEMMA PreparingAlone ==
    ASSUME AloneInv, OrdersInv', NEW s \in Sessions,
           \/ \E fee \in OwnFees : Prepares(s, fee)
           \/ \E target \in Sessions : PreparesRecovery(s, target)
           \/ PreparesInstruction(s)
    PROVE  AloneInv'
<1>1. \E target, op, meant, memo, pc :
          /\ Begins(s, target, op, meant, memo, pc)
          /\ op # NoUserOp => op.nonce = nonces[sess[s].account]
  <2>1. CASE \E fee \in OwnFees : Prepares(s, fee)
    BY <2>1 DEF Prepares, PrepareWith, UserOp
  <2>2. CASE \E target \in Sessions : PreparesRecovery(s, target)
    BY <2>2 DEF PreparesRecovery
  <2>3. CASE PreparesInstruction(s)
    BY <2>3 DEF PreparesInstruction, UserOp
  <2> QED BY <2>1, <2>2, <2>3
<1>2. sign' = sign \/ \E v : sign' = [sign EXCEPT ![s] = v]
  BY DEF Prepares, PrepareWith, PreparesRecovery, PreparesInstruction
<1> QED BY <1>1, <1>2, BeginsAlone

\* Every other step is a turn.
LEMMA AloneNext ==
    ASSUME AloneInv, [Next]_vars
    PROVE  AloneInv'
<1> USE DEF flareVars, xrplVars, execVars, sessVars
<1>0. OrdersInv' /\ OrdersInv
  BY OrdersNext DEF AloneInv
<1>1. ASSUME NEW s \in Sessions,
             \/ Registers(s) \/ SeesSignature(s) \/ SeesValidated(s) \/ Concludes(s)
             \/ FlagIsSet(s) \/ Recovers(s) \/ GivesUpAsking(s) \/ PollsRunOut(s)
             \/ FlagIsNotSet(s) \/ PhoneRefuses(s) \/ SubmitThrows(s, FALSE)
             \/ TakesOn(s) \/ Fails(s)
      PROVE  AloneInv'
  <2>1. /\ req' = req /\ crowded' = crowded /\ pay' = pay /\ nonces' = nonces
        /\ sess' = sess \/ \E pc : Goes(s, pc)
        /\ sign' = sign \/ \E v : sign' = [sign EXCEPT ![s] = v]
    BY <1>1 DEF Registers, GoesOn, SeesSignature, SeesValidated, Concludes, FlagIsSet,
                Recovers, GivesUpAsking, PollsRunOut, FlagIsNotSet, PhoneRefuses,
                SubmitThrows, TakesOn, Fails
  <2>2. \/ sess[s].pc \notin {"passed", "failed"} \/ sign[s] = "open"
        \/ sess' = sess /\ sign' = sign
    BY <1>1 DEF Registers, GoesOn, SeesSignature, SeesValidated, Concludes, FlagIsSet,
                Recovers, GivesUpAsking, PollsRunOut, FlagIsNotSet, PhoneRefuses,
                SubmitThrows, TakesOn, Fails
  <2> QED BY <1>0, <2>1, <2>2, IsTurn, TurnAlone
<1>2. ASSUME NEW s \in Sessions,
             SubmitSends(s) \/ SubmitThrows(s, TRUE) \/ \E a \in Accounts : PhoneSigns(s, a)
      PROVE  AloneInv'
  <2>1. Pending(s)
    BY <1>0, <1>2
    DEF SubmitSends, SubmitThrows, PhoneSigns, OrdersInv, Inv, SessionInv, Stage, Paid, Pending
  <2>2. Turn(s) /\ nonces' = nonces
    BY <1>0, <1>2, <2>1, IsTurn DEF SubmitSends, SubmitThrows, PhoneSigns, Broadcast
  <2> QED BY <1>0, <2>2, TurnAlone
<1>3. ASSUME NEW s \in Sessions, Validates(s, "tes") \/ Validates(s, "tec") \/ Lapses(s)
      PROVE  AloneInv'
  <2>1. Turn(s) /\ nonces' = nonces
    BY <1>0, <1>3, IsTurn DEF Validates, Lapses, Closes, Pending
  <2> QED BY <1>0, <2>1, TurnAlone
<1>4. ASSUME NEW s \in Sessions, NEW e, Mintable(s, e), Mint(s), UNCHANGED sessVars
      PROVE  AloneInv'
  <2>1. pay[s].status = "validated" /\ \E v : pay' = [pay EXCEPT ![s] = v]
    BY <1>4 DEF Mintable, Mint
  <2>2. Turn(s)
    BY <1>0, <1>4, <2>1, IsTurn DEF Pending
  <2>3. nonces' = nonces \/ Dispatches(s)
    BY <1>0, <1>4, MintIsSeenOrNot DEF Quiet
  <2> QED BY <1>0, <2>2, <2>3, TurnAlone
<1>5. ASSUME NEW s \in Sessions, Relays(s) /\ Settled(s) /\ UNCHANGED <<nonces, pay>>
      PROVE  AloneInv'
  <2>1. Turn(s)
    BY <1>0, <1>5, IsTurn DEF Relays
  <2> QED BY <1>0, <1>5, <2>1, TurnAlone
<1>6. ASSUME NEW s \in Sessions, Relays(s) \/ RivalRelays(s)
      PROVE  AloneInv'
  BY <1>4, <1>5, <1>6 DEF Relays, RivalRelays
<1>7. CASE FeesChange \/ UNCHANGED vars
  BY <1>0, <1>7 DEF FeesChange, vars, AloneInv, Crowd, Alone, Alive, Pending
<1>8. ASSUME NEW s \in Sessions, Script(s)
      PROVE  AloneInv'
  BY <1>0, <1>1, <1>2, <1>8, PreparingAlone DEF Script
<1>9. ASSUME NEW s \in Sessions, Mishap(s)
      PROVE  AloneInv'
  BY <1>1, <1>2, <1>3, <1>9 DEF Mishap
<1>10. ASSUME NEW s \in Sessions, Executor(s)
      PROVE  AloneInv'
  BY <1>1, <1>6, <1>10 DEF Executor
<1> QED BY <1>2, <1>3, <1>6, <1>7, <1>8, <1>9, <1>10 DEF Next

\* For any accounts and sessions: a payment alone with its account arrives with the nonce
\* its account is at, however many others come and go before and after it.
THEOREM NoncesOfTheLone == Spec => []SerialisedNeverCollides
<1>1. Init => AloneInv
  BY OrdersInit DEF Init, AloneInv, Crowd, Alone, Alive
<1>2. AloneInv /\ [Next]_vars => AloneInv'
  BY AloneNext
<1>3. AloneInv => SerialisedNeverCollides
  <2> SUFFICES ASSUME AloneInv, NEW s \in Sessions,
                      pay[s].status = "validated" /\ s \notin crowded /\ Executes(s)
               PROVE  Operation(s).nonce = nonces[pay[s].payer]
    BY DEF SerialisedNeverCollides
  <2>1. Paid(s) /\ OrdersInv
    BY DEF Paid, AloneInv
  <2>2. req[s].memo # Throws /\ pay[s].payer = sess[s].account
    BY <2>1 DEF OrdersInv, Inv, SessionInv, Stage, Payer
  <2>3. Alive(s) /\ Pending(s)
    BY <2>2 DEF Alive, Pending, Unprepared
  <2>4. Operation(s) = req[s].op /\ req[s].op # NoUserOp
    BY <2>1, OperationIsOrder
  <2> QED BY <2>2, <2>3, <2>4 DEF AloneInv, Alone
<1> QED BY <1>1, <1>2, <1>3, PTL DEF Spec

=============================================================================
