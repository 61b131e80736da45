---------------------------- MODULE OnesigProofs ----------------------------
(***************************************************************************)
(* Proofs about Onesig, for any accounts, any number of sessions of any      *)
(* programs and any fees: what a payment says, who holds what it commits to, *)
(* and what becomes of its value.                                            *)
(***************************************************************************)
EXTENDS Onesig, CodecProofs

USE OnesigAssumption DEF OnesigAssumption

\* The functions and records of the state have the fields that the actions update.
SessShape ==
    sess = [s \in Sessions |->
               [program |-> sess[s].program, account |-> sess[s].account,
                pc |-> sess[s].pc, target |-> sess[s].target, before |-> sess[s].before]]
ReqShape ==
    req = [s \in Sessions |->
              [memo |-> req[s].memo, amount |-> req[s].amount, fees |-> req[s].fees,
               op |-> req[s].op, meant |-> req[s].meant]]
PayShape ==
    pay = [s \in Sessions |->
              [status |-> pay[s].status, payer |-> pay[s].payer,
               sequence |-> pay[s].sequence]]
SignShape == sign = [s \in Sessions |-> sign[s]]
JobShape == job = [s \in Sessions |-> job[s]]

Shapes == SessShape /\ ReqShape /\ PayShape /\ SignShape /\ JobShape /\ raised \in 0 .. Raises

\* How far session t may have got: nothing is paid, and no payment can be, twice.
Stage(t) ==
    /\ sign[t] = "open" \/ sess[t].pc \in {"idle", "register", "submit"} => ~Paid(t)
    /\ sign[t] = "open" => /\ sess[t].program \in {"xaman", "web", "recover"}
                           /\ sess[t].pc \notin {"idle", "register", "flag", "retry"}
    /\ sess[t].pc = "submit" => sess[t].program \notin {"xaman", "web", "recover"}
    /\ sess[t].pc = "register" => sess[t].program \in {"xaman", "web", "deposit"}
    /\ sess[t].pc \in {"flag", "retry"} => sess[t].program = "recover"
    /\ Paid(t) \/ sign[t] = "open" \/ sess[t].pc \notin {"idle", "failed"} =>
           req[t].memo # Throws

\* What session t has prepared.
Request(t) ==
    /\ Decode(req[t].memo) = req[t].meant
    /\ req[t].memo # Throws =>
           /\ req[t].fees \in 0 .. raised
           /\ req[t].amount =
                  ComputePaymentAmount(NetMint(sess[t].program), Schedules[req[t].fees])
    /\ req[t].memo # Throws /\ sess[t].program = "recover" =>
           /\ sess[t].target \in Sessions
           /\ req[t].meant = Instruction(IGNORE_MEMO, 0, 0, sess[t].target, 0)

\* Its bytes are held from the moment it may be paid.
Held(t) ==
    /\ sess[t].program \in {"xaman", "web", "deposit"}
    /\ Paid(t) \/ sign[t] = "open" \/ sess[t].pc \in {"sign", "submit"}
    => Commitment(t) \in registered

\* The flag of recovery t is set, or of no use any more.
Flag(t) == <<pay[t].payer, sess[t].target>> \in ignored \/ Settled(sess[t].target)

\* How its payment has ended.
End(t) ==
    /\ pay[t].status = "swallowed" => req[t].fees < raised
    /\ job[t] = "executed" => Settled(t)
    /\ sess[t].program = "recover" /\ pay[t].status = "minted" => Flag(t)
    /\ sess[t].pc = "retry" => Flag(t) \/ pay[t].status \in {"swallowed", "skipped"}

SessionInv(t) == Stage(t) /\ Request(t) /\ Held(t) /\ End(t)

Inv == Shapes /\ \A t \in Sessions : SessionInv(t)

\* What another session's step leaves of session t.
Left(t) ==
    /\ sess'[t] = sess[t] /\ req'[t] = req[t] /\ pay'[t] = pay[t] /\ sign'[t] = sign[t]
    /\ job'[t] = "executed" => job[t] = "executed"

\* A step that forgets no bytes or settlement, no flag but a used one, and lowers no fee.
Grows ==
    /\ registered \subseteq registered'
    /\ \A flag \in ignored : flag \in ignored' \/ Settled(flag[2])'
    /\ raised' >= raised /\ raised' \in 0 .. Raises
    /\ \A u \in Sessions : Settled(u) => Settled(u)'

\* Such a step leaves the invariant of another session alone.
LEMMA LeftAlone ==
    ASSUME Shapes, NEW t \in Sessions, SessionInv(t), Left(t), Grows
    PROVE  SessionInv(t)'
<1>1. Stage(t)'
  BY DEF SessionInv, Left, Stage, Paid
<1>2. Request(t)'
  BY DEF SessionInv, Left, Request, Grows, Shapes
<1>3. Held(t)'
  BY DEF SessionInv, Left, Held, Grows, Paid, Commitment
<1>4. End(t)'
  <2>1. (sess[t].program = "recover" /\ pay[t].status = "minted") \/ sess[t].pc = "retry" =>
            sess[t].target \in Sessions
    BY DEF SessionInv, Stage, Request, Paid
  <2>2. sess[t].target \in Sessions /\ Flag(t) => Flag(t)'
    BY DEF Left, Grows, Flag
  <2>3. req[t].memo # Throws => req[t].fees \in Nat
    BY DEF SessionInv, Request
  <2>4. pay'[t].status = "swallowed" => req'[t].fees < raised'
    BY <2>3 DEF SessionInv, Stage, End, Left, Grows, Paid, Shapes
  <2>5. job'[t] = "executed" => Settled(t)'
    BY DEF SessionInv, End, Left, Grows
  <2> QED BY <2>1, <2>2, <2>4, <2>5 DEF SessionInv, End, Left
<1> QED BY <1>1, <1>2, <1>3, <1>4 DEF SessionInv

\* So it is enough to look at the session whose step it is.
LEMMA OneMoves ==
    ASSUME Inv, Shapes', Grows, NEW s \in Sessions, SessionInv(s)',
           \A t \in Sessions \ {s} : Left(t)
    PROVE  Inv'
  BY LeftAlone DEF Inv

-----------------------------------------------------------------------------

\* A session that goes on is the same session.
LEMMA OnlyThePc ==
    ASSUME SessShape, NEW s \in Sessions, NEW pc, Goes(s, pc)
    PROVE  /\ SessShape' /\ \A t \in Sessions \ {s} : sess'[t] = sess[t]
           /\ sess'[s].program = sess[s].program /\ sess'[s].target = sess[s].target
           /\ sess'[s].account = sess[s].account /\ sess'[s].pc = pc
  BY DEF Goes, SessShape

\* The encoder throws, or prepare() returns: the memo says what was meant.
LEMMA BeginsInv ==
    ASSUME Inv, NEW s \in Sessions, NEW target, NEW op, NEW meant, NEW memo, NEW pc,
           Begins(s, target, op, meant, memo, pc),
           sign' = IF sess'[s].pc = "sign" THEN [sign EXCEPT ![s] = "open"] ELSE sign,
           memo # Throws => Decode(memo) = meant,
           \/ sess[s].program \in {"xaman", "web", "deposit"} /\ pc = "register"
           \/ sess[s].program \in {"gate", "instruct"} /\ pc = "submit"
           \/ /\ sess[s].program = "recover" /\ pc = "sign" /\ target \in Sessions
              /\ meant = Instruction(IGNORE_MEMO, 0, 0, target, 0)
    PROVE  Inv'
<1>1. Shapes /\ SessionInv(s) /\ sess[s].pc = "idle"
  BY DEF Inv, Begins
<1>2. ~Paid(s) /\ sign[s] # "open"
  BY <1>1 DEF SessionInv, Stage
<1>3. /\ pay' = pay /\ registered' = registered /\ ignored' = ignored /\ raised' = raised
      /\ job' = job
  BY DEF Begins, flareVars, xrplVars, execVars
<1>4. Grows
  BY <1>1, <1>3 DEF Grows, Shapes, Settled
<1>5. CASE sess' = [sess EXCEPT ![s].pc = "failed"] /\ req' = req
  <2>0. /\ SessShape' /\ \A t \in Sessions \ {s} : sess'[t] = sess[t]
        /\ sess'[s].program = sess[s].program /\ sess'[s].target = sess[s].target
        /\ sess'[s].pc = "failed"
    BY <1>1, <1>5, OnlyThePc DEF Goes, Shapes
  <2>1. sign' = sign
    BY <2>0
  <2>2. Shapes' /\ \A t \in Sessions \ {s} : Left(t)
    BY <1>1, <1>3, <1>5, <2>0, <2>1
    DEF Shapes, ReqShape, PayShape, SignShape, JobShape, Left
  <2>3. SessionInv(s)'
    BY <1>1, <1>2, <1>3, <1>5, <2>0, <2>1
    DEF SessionInv, Stage, Request, Held, End, Flag, Settled, Paid
  <2> QED BY <1>4, <2>2, <2>3, OneMoves
<1>6. CASE /\ memo # Throws
           /\ sess' = [sess EXCEPT ![s] =
                          [program |-> sess[s].program, account |-> sess[s].account,
                           pc |-> pc, target |-> target,
                           before |-> Effects(sess[s].program, sess[s].account)]]
           /\ req' = [req EXCEPT ![s] =
                         [memo |-> memo, op |-> op, meant |-> meant, fees |-> raised,
                          amount |-> ComputePaymentAmount(NetMint(sess[s].program),
                                                          Schedules[raised])]]
  <2> DEFINE before == Effects(sess[s].program, sess[s].account)
             amount == ComputePaymentAmount(NetMint(sess[s].program), Schedules[raised])
  <2> HIDE DEF before, amount
  <2>1. /\ sess' = [sess EXCEPT ![s] =
                       [program |-> sess[s].program, account |-> sess[s].account,
                        pc |-> pc, target |-> target, before |-> before]]
        /\ req' = [req EXCEPT ![s] = [memo |-> memo, op |-> op, meant |-> meant,
                                      fees |-> raised, amount |-> amount]]
    BY <1>6 DEF before, amount
  <2>3. /\ SessShape' /\ \A t \in Sessions \ {s} : sess'[t] = sess[t]
        /\ sess'[s].pc = pc /\ sess'[s].target = target
        /\ sess'[s].program = sess[s].program
    BY <1>1, <2>1 DEF Shapes, SessShape
  <2>8. /\ ReqShape' /\ \A t \in Sessions \ {s} : req'[t] = req[t]
        /\ req'[s] = [memo |-> memo, op |-> op, meant |-> meant, fees |-> raised,
                      amount |-> amount]
    BY <1>1, <2>1 DEF Shapes, ReqShape
  <2>9. SignShape' /\ \A t \in Sessions \ {s} : sign'[t] = sign[t]
    BY <1>1 DEF Shapes, SignShape
  <2>2. Shapes' /\ \A t \in Sessions \ {s} : Left(t)
    BY <1>1, <1>3, <2>3, <2>8, <2>9 DEF Shapes, PayShape, JobShape, Left
  <2>4. Stage(s)'
    BY <1>1, <1>2, <1>3, <1>6, <2>3, <2>8 DEF Stage, Paid
  <2>5. Request(s)'
    BY <1>1, <1>3, <1>6, <2>3, <2>8 DEF Request, Shapes, amount
  <2>6. Held(s)'
    BY <1>2, <1>3, <2>3, <2>8 DEF Held, Paid
  <2>7. End(s)'
    BY <1>1, <1>2, <1>3, <2>3, <2>8 DEF SessionInv, End, Settled, Paid
  <2> QED BY <1>4, <2>2, <2>4, <2>5, <2>6, <2>7, OneMoves DEF SessionInv
<1> QED BY <1>5, <1>6 DEF Begins, Goes

\* It is then at the end of prepare(), or failed.
LEMMA BeginsPc ==
    ASSUME SessShape, NEW s \in Sessions, NEW target, NEW op, NEW meant, NEW memo, NEW pc,
           Begins(s, target, op, meant, memo, pc)
    PROVE  sess'[s].pc \in {"failed", pc}
<1>1. CASE Goes(s, "failed")
  BY <1>1, OnlyThePc
<1>2. CASE sess' = [sess EXCEPT ![s] =
                       [program |-> sess[s].program, account |-> sess[s].account, pc |-> pc,
                        target |-> target,
                        before |-> Effects(sess[s].program, sess[s].account)]]
  <2> DEFINE before == Effects(sess[s].program, sess[s].account)
  <2> HIDE DEF before
  <2>1. sess' = [sess EXCEPT ![s] =
                    [program |-> sess[s].program, account |-> sess[s].account, pc |-> pc,
                     target |-> target, before |-> before]]
    BY <1>2 DEF before
  <2> QED BY <2>1 DEF SessShape
<1> QED BY <1>1, <1>2 DEF Begins

\* OneSigClient.prepare keeps the invariant, whatever the nonce.
LEMMA PrepareInv ==
    ASSUME Inv, NEW s \in Sessions, NEW fee, NEW nonce, PrepareWith(s, fee, nonce)
    PROVE  Inv'
<1> DEFINE program == sess[s].program
           op == UserOp(sess[s].account, nonce, Batch(program))
           hash == UserOpHash(op)
           memo == EncodeExecuteCommitted(0, fee, hash)
           meant == Instruction(EXECUTE_COMMITTED, 0, fee, hash, 0)
           pc == IF program = "gate" THEN "submit" ELSE "register"
<1>1. /\ Begins(s, Garbage, op, meant, memo, pc) /\ sign' = sign
      /\ program \in {"xaman", "web", "deposit", "gate"}
  BY DEF PrepareWith
<1>2. memo # Throws => Decode(memo) = meant
  BY CommittedRoundTrip
<1>3. sess'[s].pc # "sign"
  <2>1. sess'[s].pc \in {"failed", pc}
    <3> HIDE DEF op, meant, memo, pc
    <3> QED BY <1>1, BeginsPc DEF Inv, Shapes
  <2> QED BY <2>1
<1>4. \/ program \in {"xaman", "web", "deposit"} /\ pc = "register"
      \/ program \in {"gate", "instruct"} /\ pc = "submit"
  BY <1>1
<1> HIDE DEF op, meant, memo, pc
<1> QED BY <1>1, <1>2, <1>3, <1>4, BeginsInv

\* So does recover-mint's preparation.
LEMMA PrepareRecoveryInv ==
    ASSUME Inv, NEW s \in Sessions, NEW target \in Sessions, PreparesRecovery(s, target)
    PROVE  Inv'
<1> DEFINE memo == EncodeIgnore(0, 0, target)
           meant == Instruction(IGNORE_MEMO, 0, 0, target, 0)
<1>1. Begins(s, target, NoUserOp, meant, memo, "sign") /\ sess[s].program = "recover"
  BY DEF PreparesRecovery
<1>2. memo # Throws => Decode(memo) = meant
  BY IgnoreRoundTrip
<1>3. sign' = IF sess'[s].pc = "sign" THEN [sign EXCEPT ![s] = "open"] ELSE sign
  BY DEF PreparesRecovery, Inv, Shapes, SignShape
<1>4. meant = Instruction(IGNORE_MEMO, 0, 0, target, 0)
  OBVIOUS
<1> HIDE DEF memo, meant
<1> QED BY <1>1, <1>2, <1>3, <1>4, BeginsInv

\* And the preparation of any other instruction.
LEMMA PrepareInstructionInv ==
    ASSUME Inv, NEW s \in Sessions, PreparesInstruction(s)
    PROVE  Inv'
<1>1. sign' = sign /\ sess[s].program = "instruct"
  BY DEF PreparesInstruction
<1>2. ASSUME NEW op, NEW meant, NEW memo, Begins(s, Garbage, op, meant, memo, "submit"),
             memo # Throws => Decode(memo) = meant
      PROVE  Inv'
  <2>1. sess'[s].pc # "sign"
    <3>1. sess'[s].pc \in {"failed", "submit"}
      BY <1>2, BeginsPc DEF Inv, Shapes
    <3> QED BY <3>1
  <2> QED BY <1>1, <1>2, <2>1, BeginsInv
<1>3. ASSUME NEW e, Begins(s, Garbage, NoUserOp, Instruction(SET_EXECUTOR, 0, 0, e, 0),
                           EncodeSetExecutor(0, 0, e), "submit")
      PROVE  Inv'
  BY <1>2, <1>3, ExecutorRoundTrip
<1>4. ASSUME Begins(s, Garbage, NoUserOp, Instruction(REMOVE_EXECUTOR, 0, 0, Garbage, 0),
                    EncodeRemoveExecutor(0, 0), "submit")
      PROVE  Inv'
  BY <1>2, <1>4, RemoveRoundTrip
<1>5. ASSUME NEW n, Begins(s, Garbage, NoUserOp, Instruction(SET_NONCE, 0, 0, n, 0),
                           EncodeSetNonce(0, 0, n), "submit")
      PROVE  Inv'
  BY <1>2, <1>5, NonceRoundTrip
<1>6. ASSUME NEW t, NEW f,
             Begins(s, Garbage, NoUserOp, Instruction(SET_REPLACEMENT_FEE, 0, 0, t, f),
                    EncodeReplacementFee(0, 0, t, f), "submit")
      PROVE  Inv'
  BY <1>2, <1>6, ReplacementRoundTrip
<1>7. ASSUME NEW op, NEW b,
             Begins(s, Garbage, op, Instruction(EXECUTE_INLINE, 0, 0, op, 0),
                    EncodeExecuteInline(0, 0, op, BatchBytes(b)), "submit")
      PROVE  Inv'
  <2>1. BatchBytes(b) \in Nat
    BY DEF BatchBytes
  <2> QED BY <1>2, <1>7, <2>1, InlineRoundTrip
<1> QED BY <1>3, <1>4, <1>5, <1>6, <1>7 DEF PreparesInstruction

-----------------------------------------------------------------------------

\* A session goes on, without a payment: it is enough to look at where it gets to.
LEMMA GoesInv ==
    ASSUME Inv, NEW s \in Sessions, NEW pc, Goes(s, pc),
           req' = req, pay' = pay, ignored' = ignored, raised' = raised,
           registered \subseteq registered', SignShape', JobShape',
           \A t \in Sessions \ {s} : sign'[t] = sign[t],
           \A t \in Sessions : job'[t] = "executed" => job[t] = "executed",
           Stage(s)', Held(s)', pc = "retry" => Flag(s) \/ pay[s].status \in {"swallowed", "skipped"}
    PROVE  Inv'
<1>1. Shapes /\ SessionInv(s)
  BY DEF Inv
<1>2. /\ SessShape' /\ \A t \in Sessions \ {s} : sess'[t] = sess[t]
      /\ sess'[s].program = sess[s].program /\ sess'[s].target = sess[s].target
      /\ sess'[s].pc = pc
  BY <1>1, OnlyThePc DEF Shapes
<1>3. Shapes'
  BY <1>1, <1>2 DEF Shapes, ReqShape, PayShape
<1>4. Grows
  BY <1>1 DEF Grows, Shapes, Settled
<1>5. \A t \in Sessions \ {s} : Left(t)
  BY <1>2 DEF Left
<1>6. Request(s)'
  BY <1>1, <1>2 DEF SessionInv, Request
<1>7. Flag(s)' <=> Flag(s)
  BY <1>2 DEF Flag, Settled
<1>8. End(s)'
  BY <1>1, <1>2, <1>7 DEF SessionInv, End, Settled
<1> QED BY <1>3, <1>4, <1>5, <1>6, <1>8, OneMoves DEF SessionInv

\* A session ends, or starts to watch.
LEMMA EndsInv ==
    ASSUME Inv, NEW s \in Sessions, NEW pc \in {"failed", "passed", "watch"}, Goes(s, pc),
           sess[s].pc # "idle",
           req' = req, pay' = pay, ignored' = ignored, raised' = raised,
           registered' = registered, sign' = sign, JobShape',
           \A t \in Sessions : job'[t] = "executed" => job[t] = "executed",
           pc = "failed" \/ sess[s].pc # "failed"
    PROVE  Inv'
<1>1. Shapes /\ SessionInv(s)
  BY DEF Inv
<1>2. /\ sess'[s].program = sess[s].program /\ sess'[s].pc = pc
  BY <1>1, OnlyThePc DEF Shapes
<1>3. Stage(s)'
  BY <1>1, <1>2 DEF SessionInv, Stage, Paid
<1>4. Held(s)'
  BY <1>1, <1>2 DEF SessionInv, Held, Paid, Commitment
<1>5. SignShape'
  BY <1>1 DEF Shapes, SignShape
<1> QED BY <1>3, <1>4, <1>5, GoesInv

\* The bytes are registered before a signature is asked for.
LEMMA RegistersInv ==
    ASSUME Inv, NEW s \in Sessions, Registers(s)
    PROVE  Inv'
<1>1. Shapes /\ SessionInv(s)
  BY DEF Inv
<1>2. /\ registered' = registered \cup {Commitment(s)} /\ sess[s].pc = "register"
      /\ pay' = pay /\ ignored' = ignored /\ raised' = raised /\ job' = job /\ req' = req
  BY DEF Registers, GoesOn, flareVars, xrplVars
<1>3. ~Paid(s) /\ req[s].memo # Throws /\ sess[s].program \in {"xaman", "web", "deposit"}
  BY <1>1, <1>2 DEF SessionInv, Stage
<1>4. JobShape' /\ \A t \in Sessions : job'[t] = "executed" => job[t] = "executed"
  BY <1>1, <1>2 DEF Shapes, JobShape
<1>5. Held(s)'
  BY <1>2 DEF Held, Commitment
<1>6. CASE /\ sess[s].program \in {"xaman", "web"} /\ Goes(s, "sign")
           /\ sign' = [sign EXCEPT ![s] = "open"]
  <2>1. sess'[s].program = sess[s].program /\ sess'[s].pc = "sign"
    BY <1>1, <1>6, OnlyThePc DEF Shapes
  <2>2. SignShape' /\ \A t \in Sessions \ {s} : sign'[t] = sign[t]
    BY <1>1, <1>6 DEF Shapes, SignShape
  <2>3. Stage(s)'
    BY <1>2, <1>3, <1>6, <2>1 DEF Stage, Paid
  <2> QED BY <1>2, <1>4, <1>5, <1>6, <2>2, <2>3, GoesInv
<1>7. CASE sess[s].program \notin {"xaman", "web"} /\ Goes(s, "submit") /\ sign' = sign
  <2>1. sess'[s].program = sess[s].program /\ sess'[s].pc = "submit"
    BY <1>1, <1>7, OnlyThePc DEF Shapes
  <2>2. SignShape'
    BY <1>1, <1>7 DEF Shapes, SignShape
  <2>3. Stage(s)'
    BY <1>1, <1>2, <1>3, <1>7, <2>1 DEF SessionInv, Stage, Paid
  <2> QED BY <1>2, <1>4, <1>5, <1>7, <2>2, <2>3, GoesInv
<1> QED BY <1>2, <1>6, <1>7 DEF Registers, GoesOn

\* recover-mint goes on to its flag, to the retry, or fails.
LEMMA RecoveryInv ==
    ASSUME Inv, NEW s \in Sessions, NEW pc \in {"flag", "retry"}, Goes(s, pc),
           sess[s].program = "recover", sess[s].pc \in {"sign", "flag"}, sign[s] # "open",
           req' = req, pay' = pay, ignored' = ignored, raised' = raised,
           registered' = registered, sign' = sign, JobShape',
           \A t \in Sessions : job'[t] = "executed" => job[t] = "executed",
           pc = "retry" => job[s] = "executed"
    PROVE  Inv'
<1>1. Shapes /\ SessionInv(s)
  BY DEF Inv
<1>2. /\ sess'[s].program = sess[s].program /\ sess'[s].pc = pc
  BY <1>1, OnlyThePc DEF Shapes
<1>3. Stage(s)'
  BY <1>1, <1>2 DEF SessionInv, Stage, Paid
<1>4. Held(s)'
  BY <1>2 DEF Held
<1>5. SignShape'
  BY <1>1 DEF Shapes, SignShape
<1>6. pc = "retry" => Flag(s) \/ pay[s].status \in {"swallowed", "skipped"}
  BY <1>1 DEF SessionInv, End, Settled
<1> QED BY <1>3, <1>4, <1>5, <1>6, GoesInv

\* Every step of a script that sends no payment and prepares none.
LEMMA ScriptInv ==
    ASSUME Inv, NEW s \in Sessions,
           \/ Registers(s) \/ SeesSignature(s) \/ SeesValidated(s) \/ Concludes(s)
           \/ FlagIsSet(s) \/ Recovers(s) \/ GivesUpAsking(s) \/ PollsRunOut(s)
           \/ FlagIsNotSet(s)
    PROVE  Inv'
<1> USE DEF flareVars, xrplVars, execVars
<1>1. Shapes /\ SessionInv(s) /\ JobShape
  BY DEF Inv, Shapes
<1>2. CASE Registers(s)
  BY <1>2, RegistersInv
<1>3. CASE SeesSignature(s)
  <2>1. JobShape' /\ \A t \in Sessions : job'[t] = "executed" => job[t] = "executed"
    BY <1>1, <1>3 DEF SeesSignature, JobShape
  <2>2. CASE sess[s].program = "recover" /\ Goes(s, "flag")
    BY <1>3, <2>1, <2>2, RecoveryInv DEF SeesSignature
  <2>3. CASE Goes(s, "failed") \/ Goes(s, "watch")
    BY <1>3, <2>1, <2>3, EndsInv DEF SeesSignature
  <2> QED BY <1>3, <2>2, <2>3 DEF SeesSignature
<1>4. CASE SeesValidated(s)
  <2>1. JobShape' /\ \A t \in Sessions : job'[t] = "executed" => job[t] = "executed"
    BY <1>1, <1>4 DEF SeesValidated, JobShape
  <2> QED BY <1>4, <2>1, EndsInv DEF SeesValidated
<1>5. CASE Concludes(s)
  <2>1. JobShape' /\ job' = job
    BY <1>1, <1>5 DEF Concludes, JobShape
  <2> QED BY <1>5, <2>1, EndsInv DEF Concludes
<1>6. CASE FlagIsSet(s)
  <2>1. JobShape' /\ \A t \in Sessions : job'[t] = "executed" => job[t] = "executed"
    BY <1>1, <1>6 DEF FlagIsSet, JobShape
  <2>2. sess[s].program = "recover" /\ sign[s] # "open"
    BY <1>1, <1>6 DEF FlagIsSet, SessionInv, Stage
  <2>3. CASE Goes(s, "failed")
    BY <1>6, <2>1, <2>3, EndsInv DEF FlagIsSet
  <2>4. CASE Goes(s, "retry")
    BY <1>6, <2>1, <2>2, <2>4, RecoveryInv DEF FlagIsSet
  <2> QED BY <1>6, <2>3, <2>4 DEF FlagIsSet
<1>7. CASE Recovers(s) \/ GivesUpAsking(s) \/ PollsRunOut(s) \/ FlagIsNotSet(s)
  <2>1. JobShape' /\ job' = job
    BY <1>1, <1>7 DEF Recovers, GivesUpAsking, PollsRunOut, FlagIsNotSet, JobShape
  <2> QED BY <1>7, <2>1, EndsInv DEF Recovers, GivesUpAsking, PollsRunOut, FlagIsNotSet
<1> QED BY <1>2, <1>3, <1>4, <1>5, <1>6, <1>7

-----------------------------------------------------------------------------

\* A payment goes out: never a second one of its session.
LEMMA SentInv ==
    ASSUME Inv, NEW s \in Sessions, NEW payer, NEW number, Broadcast(s, payer, number),
           sess[s].pc = "submit" \/ sign[s] = "open",
           SessShape', \A t \in Sessions \ {s} : sess'[t] = sess[t],
           sess'[s].program = sess[s].program, sess'[s].target = sess[s].target,
           sess'[s].pc \notin {"idle", "register", "submit", "flag", "retry"},
           SignShape', \A t \in Sessions \ {s} : sign'[t] = sign[t], sign'[s] # "open",
           req' = req, registered' = registered, ignored' = ignored, raised' = raised,
           job' = job
    PROVE  Inv'
<1>1. Shapes /\ SessionInv(s)
  BY DEF Inv
<1>2. /\ PayShape' /\ \A t \in Sessions \ {s} : pay'[t] = pay[t]
      /\ pay'[s].status = "sent"
  BY <1>1 DEF Broadcast, Shapes, PayShape
<1>3. ~Paid(s) /\ ~Settled(s) /\ req[s].memo # Throws
  BY <1>1 DEF SessionInv, Stage, Paid, Settled
<1>4. Shapes' /\ \A t \in Sessions \ {s} : Left(t)
  BY <1>1, <1>2 DEF Shapes, ReqShape, JobShape, Left
<1>5. Grows
  BY <1>1, <1>2, <1>3 DEF Grows, Shapes, Settled
<1>6. Stage(s)'
  BY <1>3 DEF Stage
<1>7. Request(s)'
  BY <1>1 DEF SessionInv, Request
<1>8. Held(s)'
  BY <1>1 DEF SessionInv, Held, Commitment
<1>9. End(s)'
  BY <1>1, <1>2, <1>3 DEF SessionInv, End
<1> QED BY <1>4, <1>5, <1>6, <1>7, <1>8, <1>9, OneMoves DEF SessionInv

\* The user signs in the app, or a script submits, whether it hears of it or not.
LEMMA PaysInv ==
    ASSUME Inv, NEW s \in Sessions,
           \/ \E a \in Accounts : PhoneSigns(s, a)
           \/ SubmitSends(s) \/ \E lost \in BOOLEAN : SubmitThrows(s, lost)
    PROVE  Inv'
<1> USE DEF flareVars, execVars
<1>1. Shapes /\ SessionInv(s)
  BY DEF Inv
<1>2. ASSUME NEW a \in Accounts, PhoneSigns(s, a)
      PROVE  Inv'
  <2>1. SignShape' /\ (\A t \in Sessions \ {s} : sign'[t] = sign[t]) /\ sign'[s] # "open"
    BY <1>1, <1>2 DEF PhoneSigns, Shapes, SignShape
  <2>2. SessShape' /\ sess' = sess
    BY <1>1, <1>2 DEF PhoneSigns, Shapes, SessShape
  <2>3. sess[s].pc \notin {"idle", "register", "submit", "flag", "retry"}
    BY <1>1, <1>2 DEF PhoneSigns, SessionInv, Stage
  <2> QED BY <1>2, <2>1, <2>2, <2>3, SentInv DEF PhoneSigns
<1>3. ASSUME NEW pc \in {"poll", "failed"}, NEW a, NEW n, Broadcast(s, a, n), Goes(s, pc),
             sess[s].pc = "submit", req' = req, registered' = registered,
             ignored' = ignored, raised' = raised, job' = job, sign' = sign
      PROVE  Inv'
  <2>1. SignShape' /\ sign[s] # "open"
    BY <1>1, <1>3 DEF Shapes, SignShape, SessionInv, Stage
  <2>2. /\ SessShape' /\ \A t \in Sessions \ {s} : sess'[t] = sess[t]
        /\ sess'[s].program = sess[s].program /\ sess'[s].target = sess[s].target
        /\ sess'[s].pc = pc
    BY <1>1, <1>3, OnlyThePc DEF Shapes
  <2> QED BY <1>3, <2>1, <2>2, SentInv
<1>4. CASE SubmitSends(s)
  BY <1>3, <1>4 DEF SubmitSends
<1>5. ASSUME NEW lost \in BOOLEAN, SubmitThrows(s, lost)
      PROVE  Inv'
  <2>1. CASE lost
    BY <1>3, <1>5, <2>1 DEF SubmitThrows
  <2>2. CASE ~lost
    <3>1. JobShape' /\ pay' = pay
      BY <1>1, <1>5, <2>2 DEF SubmitThrows, Shapes, JobShape
    <3> QED BY <1>5, <3>1, EndsInv DEF SubmitThrows
  <2> QED BY <2>1, <2>2
<1> QED BY <1>2, <1>4, <1>5

\* A payment is validated, or never will be.
LEMMA LandsInv ==
    ASSUME Inv, NEW s \in Sessions, Validates(s, "tes") \/ Validates(s, "tec") \/ Lapses(s)
    PROVE  Inv'
<1> USE DEF flareVars, execVars, sessVars
<1>1. Shapes /\ SessionInv(s)
  BY DEF Inv
<1>2. /\ pay[s].status = "sent" /\ sess' = sess /\ req' = req /\ sign' = sign
      /\ registered' = registered /\ job' = job /\ ignored' = ignored /\ raised' = raised
  BY DEF Validates, Lapses
<1>3. /\ PayShape' /\ \A t \in Sessions \ {s} : pay'[t] = pay[t]
      /\ pay'[s].status \in {"validated", "tec", "lapsed"} /\ pay'[s].payer = pay[s].payer
  <2>1. ASSUME NEW status, Closes(s, status)
        PROVE  /\ PayShape' /\ \A t \in Sessions \ {s} : pay'[t] = pay[t]
               /\ pay'[s].status = status /\ pay'[s].payer = pay[s].payer
    BY <1>1, <2>1 DEF Closes, Shapes, PayShape
  <2>2. \E status \in {"validated", "tec", "lapsed"} : Closes(s, status)
    BY DEF Validates, Lapses
  <2> QED BY <2>1, <2>2
<1>4. Shapes' /\ \A t \in Sessions \ {s} : Left(t)
  BY <1>1, <1>2, <1>3 DEF Shapes, SessShape, ReqShape, SignShape, JobShape, Left
<1>5. Grows
  BY <1>1, <1>2, <1>3 DEF Grows, Shapes, Settled
<1>6. Stage(s)'
  BY <1>1, <1>2, <1>3 DEF SessionInv, Stage, Paid
<1>7. Request(s)'
  BY <1>1, <1>2 DEF SessionInv, Request
<1>8. Held(s)'
  BY <1>1, <1>2, <1>3 DEF SessionInv, Held, Paid, Commitment
<1>9. End(s)'
  <2>1. sess[s].pc = "retry" => Flag(s)'
    <3>1. sess[s].pc = "retry" => Flag(s) /\ sess[s].target \in Sessions
      BY <1>1, <1>2 DEF SessionInv, Stage, Request, End
    <3> QED BY <1>2, <1>3, <1>5, <3>1 DEF Flag, Grows
  <2>2. ~Settled(s)
    BY <1>2 DEF Settled
  <2> QED BY <1>1, <1>2, <1>3, <2>1, <2>2 DEF SessionInv, End
<1> QED BY <1>4, <1>5, <1>6, <1>7, <1>8, <1>9, OneMoves DEF SessionInv

-----------------------------------------------------------------------------

\* A payment that the current fees would take had been prepared under others.
LEMMA CoveredUnlessRaised ==
    ASSUME Inv, NEW s \in Sessions, Paid(s), ~Covered(s)
    PROVE  req[s].fees < raised
<1>1. /\ req[s].fees \in 0 .. raised /\ raised \in 0 .. Raises
      /\ req[s].amount = ComputePaymentAmount(NetMint(sess[s].program), Schedules[req[s].fees])
  BY DEF Inv, Shapes, SessionInv, Stage, Request
<1>2. ASSUME req[s].fees = raised PROVE FALSE
  <2> DEFINE net == NetMint(sess[s].program)
             fees == Schedules[raised]
  <2>1. net \in Nat
    BY DEF NetMint
  <2>2. fees \in DirectMintingFees /\ fees.feeBIPS <= BIPS
    BY <1>1
  <2>3. req[s].amount = ComputePaymentAmount(net, fees)
    BY <1>1, <1>2
  <2> HIDE DEF net, fees
  <2>4. req[s].amount >= MintingFee(req[s].amount, fees)
    BY <2>1, <2>2, <2>3, PaymentCovers
  <2> QED BY <2>4 DEF Covered, fees
<1> QED BY <1>1, <1>2

\* The mint: a fee taken, a flag used, or the memo dispatched, which sets the flag of a
\* recovery.
LEMMA MintInv ==
    ASSUME Inv, NEW s \in Sessions, pay[s].status = "validated", Mint(s),
           sess' = sess, req' = req, sign' = sign, registered' = registered,
           raised' = raised, JobShape', \A t \in Sessions \ {s} : job'[t] = job[t]
    PROVE  Inv'
<1>1. Shapes /\ SessionInv(s) /\ Paid(s) /\ ~Settled(s)
  BY DEF Inv, Paid, Settled
<1>2. /\ PayShape' /\ \A t \in Sessions \ {s} : pay'[t] = pay[t]
      /\ pay'[s].payer = pay[s].payer
      /\ pay'[s].status \in {"swallowed", "skipped", "minted"}
      /\ pay'[s].status = "swallowed" => ~Covered(s)
      /\ pay'[s].status = "minted" => Dispatch(s)
  <2>1. ASSUME NEW status, pay' = [pay EXCEPT ![s].status = status]
        PROVE  /\ PayShape' /\ \A t \in Sessions \ {s} : pay'[t] = pay[t]
               /\ pay'[s].payer = pay[s].payer /\ pay'[s].status = status
    BY <1>1, <2>1 DEF Shapes, PayShape
  <2>2. CASE pay' = [pay EXCEPT ![s].status = "swallowed"] /\ ~Covered(s)
    BY <2>1, <2>2
  <2>3. CASE pay' = [pay EXCEPT ![s].status = "skipped"]
    BY <2>1, <2>3
  <2>4. CASE pay' = [pay EXCEPT ![s].status = "minted"] /\ Dispatch(s)
    BY <2>1, <2>4
  <2> QED BY <2>2, <2>3, <2>4 DEF Mint
<1>3. \A flag \in ignored : flag \in ignored' \/ flag[2] = s
  BY DEF Mint, Dispatch
<1>4. Settled(s)'
  BY <1>2 DEF Settled
<1>5. Shapes' /\ \A t \in Sessions \ {s} : Left(t)
  BY <1>1, <1>2 DEF Shapes, SessShape, ReqShape, SignShape, Left
<1>6. Grows
  <2>1. \A u \in Sessions : Settled(u) => Settled(u)'
    BY <1>1, <1>2 DEF Settled
  <2> QED BY <1>1, <1>3, <1>4, <2>1 DEF Grows, Shapes
<1>7. Stage(s)'
  BY <1>1, <1>2 DEF SessionInv, Stage, Paid
<1>8. Request(s)'
  BY <1>1 DEF SessionInv, Request
<1>9. Held(s)'
  BY <1>1 DEF SessionInv, Held, Commitment
<1>10. sess[s].program = "recover" /\ pay'[s].status = "minted" => Flag(s)'
  <2> SUFFICES ASSUME sess[s].program = "recover", Dispatch(s)
               PROVE  Flag(s)'
    BY <1>2
  <2>1. Decode(req[s].memo) = Instruction(IGNORE_MEMO, 0, 0, sess[s].target, 0)
    BY <1>1 DEF SessionInv, Stage, Request
  <2>2. /\ Decode(req[s].memo).opcode = IGNORE_MEMO
        /\ Decode(req[s].memo).operand = sess[s].target
    BY <2>1 DEF Instruction
  <2>3. ignored' = ignored \cup {<<pay[s].payer, sess[s].target>>}
    BY <2>2 DEF Dispatch
  <2> QED BY <1>2, <2>3 DEF Flag
<1>11. sess[s].pc = "retry" => Flag(s)'
  <2>1. sess[s].pc = "retry" => Flag(s) /\ sess[s].target \in Sessions
    BY <1>1 DEF SessionInv, Stage, Request, End
  <2> QED BY <1>2, <1>6, <2>1 DEF Flag, Grows
<1>12. pay'[s].status = "swallowed" => req[s].fees < raised
  BY <1>1, <1>2, CoveredUnlessRaised
<1>13. End(s)'
  BY <1>4, <1>10, <1>11, <1>12 DEF End
<1> QED BY <1>5, <1>6, <1>7, <1>8, <1>9, <1>13, OneMoves DEF SessionInv

\* The executor and the other relayer.
LEMMA RelaysInv ==
    ASSUME Inv, NEW s \in Sessions,
           TakesOn(s) \/ Relays(s) \/ Fails(s) \/ RivalRelays(s)
    PROVE  Inv'
<1> USE DEF flareVars, xrplVars, sessVars
<1>1. Shapes /\ SessionInv(s) /\ JobShape
  BY DEF Inv, Shapes
<1>2. CASE RivalRelays(s)
  <2>1. JobShape' /\ job' = job /\ pay[s].status = "validated"
    BY <1>1, <1>2 DEF RivalRelays, Mintable, execVars, JobShape
  <2> QED BY <1>2, <2>1, MintInv DEF RivalRelays, execVars
<1>3. CASE Relays(s) /\ Mintable(s, Us) /\ Mint(s)
  <2>1. JobShape' /\ \A t \in Sessions \ {s} : job'[t] = job[t]
    BY <1>1, <1>3 DEF Relays, JobShape
  <2> QED BY <1>3, <2>1, MintInv DEF Relays, Mintable
<1>4. ASSUME NEW to \in {"live", "failed", "executed"}, job' = [job EXCEPT ![s] = to],
             to = "executed" => Settled(s), sess' = sess, req' = req, sign' = sign,
             registered' = registered, ignored' = ignored, raised' = raised, pay' = pay
      PROVE  Inv'
  <2>1. JobShape' /\ job'[s] = to /\ \A t \in Sessions \ {s} : job'[t] = job[t]
    BY <1>1, <1>4 DEF JobShape
  <2>2. Shapes' /\ \A t \in Sessions \ {s} : Left(t)
    BY <1>1, <1>4, <2>1 DEF Shapes, SessShape, ReqShape, PayShape, SignShape, Left
  <2>3. Grows
    BY <1>1, <1>4 DEF Grows, Shapes, Settled
  <2>4. SessionInv(s)'
    BY <1>1, <1>4, <2>1
    DEF SessionInv, Stage, Request, Held, End, Flag, Settled, Paid, Commitment
  <2> QED BY <2>2, <2>3, <2>4, OneMoves
<1>5. CASE TakesOn(s)
  BY <1>4, <1>5 DEF TakesOn
<1>6. CASE Fails(s)
  BY <1>4, <1>6 DEF Fails
<1>7. CASE Relays(s) /\ Settled(s) /\ UNCHANGED <<nonces, pinned, ignored, ran, pay>>
  BY <1>4, <1>7 DEF Relays
<1> QED BY <1>2, <1>3, <1>5, <1>6, <1>7 DEF Relays

\* The user lets a request go; the fees change; nothing happens.
LEMMA OthersInv ==
    ASSUME Inv, (\E s \in Sessions : PhoneRefuses(s)) \/ FeesChange \/ UNCHANGED vars
    PROVE  Inv'
<1> USE DEF flareVars, xrplVars, execVars, sessVars
<1>1. Shapes /\ \A t \in Sessions : SessionInv(t)
  BY DEF Inv
<1>2. ASSUME NEW s \in Sessions, PhoneRefuses(s)
      PROVE  Inv'
  <2>1. SignShape' /\ sign'[s] # "open" /\ \A t \in Sessions \ {s} : sign'[t] = sign[t]
    BY <1>1, <1>2 DEF PhoneRefuses, Shapes, SignShape
  <2>2. Shapes' /\ \A t \in Sessions \ {s} : Left(t)
    BY <1>1, <1>2, <2>1
    DEF PhoneRefuses, Shapes, SessShape, ReqShape, PayShape, JobShape, Left
  <2>3. Grows
    BY <1>1, <1>2 DEF PhoneRefuses, Grows, Shapes, Settled
  <2>4. SessionInv(s)'
    BY <1>1, <1>2, <2>1
    DEF PhoneRefuses, SessionInv, Stage, Request, Held, End, Flag, Settled, Paid, Commitment
  <2> QED BY <2>2, <2>3, <2>4, OneMoves
<1>3. CASE FeesChange \/ UNCHANGED vars
  <2>1. Shapes' /\ \A t \in Sessions : Left(t)
    BY <1>1, <1>3
    DEF FeesChange, vars, Shapes, SessShape, ReqShape, PayShape, SignShape, JobShape, Left
  <2>2. Grows
    BY <1>1, <1>3 DEF FeesChange, vars, Grows, Shapes, Settled
  <2> QED BY <1>1, <2>1, <2>2, LeftAlone DEF Inv
<1> QED BY <1>2, <1>3

-----------------------------------------------------------------------------

\* Every session starts with nothing prepared, paid or asked for.
LEMMA InitInv == Init => Inv
<1> SUFFICES ASSUME Init PROVE Inv
  OBVIOUS
<1>1. PICK cast \in Casts : sess = [s \in Sessions |-> Fresh(cast[s])]
  BY DEF Init
<1>2. /\ raised = 0 /\ pay = [s \in Sessions |-> Unpaid] /\ job = [s \in Sessions |-> "none"]
      /\ req = [s \in Sessions |-> Unprepared] /\ sign = [s \in Sessions |-> "none"]
  BY DEF Init
<1>3. SessShape /\ \A s \in Sessions : sess[s].pc = "idle"
  BY <1>1 DEF SessShape, Fresh
<1>4. Shapes
  BY <1>2, <1>3 DEF Shapes, ReqShape, PayShape, SignShape, JobShape, Unpaid, Unprepared
<1>5. Decode(Throws) = Malformed
  BY DEF Decode, Throws, HEADER_BYTES
<1>6. ASSUME NEW s \in Sessions PROVE SessionInv(s)
  BY <1>2, <1>3, <1>5, <1>6
  DEF SessionInv, Stage, Request, Held, End, Settled, Paid, Unpaid, Unprepared
<1> QED BY <1>4, <1>6 DEF Inv

\* Every step of Onesig keeps the invariant.
LEMMA NextInv ==
    ASSUME Inv, [Next]_vars
    PROVE  Inv'
<1>1. ASSUME NEW s \in Sessions, Script(s)
      PROVE  Inv'
  BY <1>1, PrepareInv, PrepareRecoveryInv, PrepareInstructionInv, ScriptInv, PaysInv
  DEF Script, Prepares
<1>2. ASSUME NEW s \in Sessions, Mishap(s)
      PROVE  Inv'
  BY <1>2, ScriptInv, PaysInv, LandsInv, OthersInv DEF Mishap
<1>3. ASSUME NEW s \in Sessions, Executor(s) \/ RivalRelays(s)
      PROVE  Inv'
  BY <1>3, RelaysInv DEF Executor
<1> QED BY <1>1, <1>2, <1>3, PaysInv, LandsInv, OthersInv DEF Next

\* So the invariant holds throughout.
THEOREM Invariance == Spec => []Inv
<1>1. Inv /\ [Next]_vars => Inv'
  BY NextInv
<1> QED BY <1>1, InitInv, PTL DEF Spec

\* What goes out on the XRPL says what its program meant, for every instruction, operand
\* and width of the fee field: by the round trips of the codec.
THEOREM WhatWasSigned == Spec => []MeansWhatWasSigned
<1>1. Inv => MeansWhatWasSigned
  BY DEF Inv, SessionInv, Request, MeansWhatWasSigned
<1> QED BY <1>1, Invariance, PTL

\* Whatever fails, nobody pays for a commitment whose bytes the executor does not hold.
THEOREM BytesHeld == Spec => []HeldBeforePaid
<1>1. Inv => HeldBeforePaid
  BY DEF Inv, SessionInv, Held, HeldBeforePaid
<1> QED BY <1>1, Invariance, PTL

\* Under any schedule of fees, a payment that the fees swallow was prepared before a rise.
THEOREM OnlyRaisesSwallow == Spec => []SwallowedOnlyIfRaised
<1>1. Inv => SwallowedOnlyIfRaised
  BY DEF Inv, SessionInv, End, SwallowedOnlyIfRaised
<1> QED BY <1>1, Invariance, PTL

=============================================================================
