------------------------------- MODULE Onesig -------------------------------
(***************************************************************************)
(* ONESIG from the user's side: the dApp prepares a payment (OneSigClient,   *)
(* packages/sdk), the user signs it in Xaman or with a key of the script's,  *)
(* it settles on the XRPL, an executor relays it, and the smart account on   *)
(* Flare runs what it commits to - or refuses it, and then it can only be    *)
(* recovered.  A session is one run of one of the programs that do this:     *)
(*   "xaman"    scripts/demo-xaman.ts                                        *)
(*   "web"      the executor's page and the routes that serve it             *)
(*   "deposit"  scripts/demo-deposit.ts                                      *)
(*   "gate"     scripts/gate1.ts, which brings its own pipeline              *)
(*   "recover"  scripts/recover-mint.ts                                      *)
(*   "instruct" any other use of the SDK's encoders                          *)
(* Each makes one payment at most, which is named by its session.            *)
(*                                                                           *)
(* How an executor finds a payment and proves it is Intake and Pipeline.     *)
(***************************************************************************)
EXTENDS Memo, Fees, SequencesExt

Programs == {"xaman", "web", "deposit", "gate", "recover", "instruct", "none"}

CONSTANTS
    Accounts,      \* XRPL accounts; each has one personal account on Flare
    Sessions,
    Casts,         \* what the sessions may be: runs of which programs, for which accounts
    OwnFees,       \* executor fees that a dApp may ask for in the memo header
    Raises,        \* bound: how often the AssetManager's fees change
    Schedules,     \* the fees before the first change, after it, ...
    Pins,          \* operands of 0xD0
    NewNonces      \* operands of 0xE1

ASSUME OnesigAssumption ==
    /\ Casts \subseteq [Sessions -> [program : Programs, account : Accounts]]
    /\ OwnFees \subseteq Nat /\ NewNonces \subseteq Nat
    /\ Raises \in Nat
    /\ Schedules \in [0 .. Raises -> DirectMintingFees]
    /\ \A n \in 0 .. Raises : Schedules[n].feeBIPS <= BIPS

VARIABLES
    \* Flare
    nonces,      \* MasterAccountController: the nonce of each personal account
    pinned,      \* the executor it accepts, ZeroAddress for any
    ignored,     \* ignoreMemo: pairs of a personal account and a payment
    raised,      \* the AssetManager's fees are Schedules[raised]
    ran,         \* the payments whose operation ran, in order: the demo contracts' state
    \* XRPL
    sequence,    \* the sequence number of each account
    pay,         \* the payment of each session
    \* the executor
    registered,  \* commitments in the pending store
    job,         \* the job of each payment
    \* sessions
    sess, req,
    sign,        \* the sign requests in Xaman
    crowded      \* history: sessions that were not alone with their account

flareVars == <<nonces, pinned, ignored, raised, ran>>
xrplVars  == <<sequence, pay>>
execVars  == <<registered, job>>
sessVars  == <<sess, req, sign, crowded>>
vars == <<flareVars, xrplVars, execVars, sessVars>>

Us == "us"

\* The batches of the demos.  ABI-encoded, approve + deposit is 1024 bytes.
Batch(program) == IF program \in {"gate", "instruct"} THEN "increment" ELSE "deposit"
BatchBytes(batch) == IF batch = "deposit" THEN 1024 ELSE 736

UserOp(sender, nonce, calls) == [sender |-> sender, nonce |-> nonce, calls |-> calls]
NoUserOp == UserOp(Garbage, 0, "none")
UserOpHash(op) == [keccak256 |-> op]

Unpaid == [status |-> "none", payer |-> Garbage, sequence |-> 0]
Unprepared == [memo |-> Throws, amount |-> 0, fees |-> 0, op |-> NoUserOp,
               meant |-> Malformed]
Fresh(role) == [program |-> role.program, account |-> role.account, pc |-> "idle",
                target |-> Garbage, before |-> 0]

Init ==
    /\ nonces = [a \in Accounts |-> 0]
    /\ pinned = [a \in Accounts |-> ZeroAddress]
    /\ ignored = {} /\ raised = 0 /\ ran = <<>>
    /\ sequence = [a \in Accounts |-> 1]
    /\ pay = [s \in Sessions |-> Unpaid]
    /\ registered = {} /\ job = [s \in Sessions |-> "none"]
    /\ \E cast \in Casts : sess = [s \in Sessions |-> Fresh(cast[s])]
    /\ req = [s \in Sessions |-> Unprepared]
    /\ sign = [s \in Sessions |-> "none"]
    /\ crowded = {}

\* Session s goes on.
Goes(s, pc) == sess' = [sess EXCEPT ![s].pc = pc]

Settled(s) == pay[s].status \in {"minted", "skipped", "swallowed"}

-----------------------------------------------------------------------------
(***************************************************************************)
(* Prepare.                                                                 *)
(***************************************************************************)

\* The operation a memo runs, given the bytes that the relayer holds.
Operation(s) ==
    LET d == Decode(req[s].memo) IN
    IF d.opcode = EXECUTE_COMMITTED THEN d.operand.keccak256 ELSE d.operand

\* What the demo contracts show of the batches run: the vault's balance of an account,
\* or the counter and its last caller.
Runs(batch) == {i \in DOMAIN ran : Operation(ran[i]).calls = batch}
Effects(program, a) ==
    Cardinality({i \in Runs(Batch(program)) : program = "gate" \/ Operation(ran[i]).sender = a})
LastCallerIs(a) ==
    \E i \in Runs("increment") :
        Operation(ran[i]).sender = a /\ \A j \in Runs("increment") : j <= i

NetMint(program) == IF program = "recover" THEN 100000 ELSE 1000000

\* Sessions for account a that still look at Flare, or whose payment may still land.
Outstanding(a) ==
    {s \in Sessions : /\ sess[s].account = a /\ req[s] # Unprepared
                      /\ \/ sess[s].pc \notin {"passed", "failed"}
                         \/ sign[s] = "open" \/ pay[s].status \in {"sent", "validated"}}

\* Session s starts and gets to the end of prepare(): the payment is computed from the
\* fees as they are now, and the memo is encoded, or the encoder throws, or (gate1) it
\* does not decode to the opcode and hash that it should.
Begins(s, target, op, meant, memo, pc) ==
    LET program == sess[s].program
        a == sess[s].account
        others == Outstanding(a)
        d == Decode(memo)
    IN
    /\ sess[s].pc = "idle"
    /\ IF \/ memo = Throws
          \/ program = "gate" /\ <<d.opcode, d.operand>> # <<meant.opcode, meant.operand>>
       THEN Goes(s, "failed") /\ UNCHANGED <<req, crowded>>
       ELSE /\ sess' = [sess EXCEPT ![s] =
                           [program |-> program, account |-> a, pc |-> pc,
                            target |-> target, before |-> Effects(program, a)]]
            /\ req' = [req EXCEPT ![s] =
                          [memo |-> memo, op |-> op, meant |-> meant, fees |-> raised,
                           amount |-> ComputePaymentAmount(NetMint(program), Schedules[raised])]]
            /\ crowded' = IF others = {} THEN crowded ELSE crowded \cup others \cup {s}
    /\ UNCHANGED <<flareVars, xrplVars, execVars>>

\* OneSigClient.prepare: an operation with a nonce, and its hash.
PrepareWith(s, fee, nonce) ==
    LET program == sess[s].program
        op == UserOp(sess[s].account, nonce, Batch(program))
        hash == UserOpHash(op)
    IN  /\ program \in {"xaman", "web", "deposit", "gate"}
        /\ Begins(s, Garbage, op, Instruction(EXECUTE_COMMITTED, 0, fee, hash, 0),
                  EncodeExecuteCommitted(0, fee, hash),
                  IF program = "gate" THEN "submit" ELSE "register")
        /\ UNCHANGED sign

\* Mutant of Prepares: the nonce is cached like the addresses.
PreparesCached(s, fee) == PrepareWith(s, fee, 0)

\* The nonce is read as it is now.
Prepares(s, fee) == PrepareWith(s, fee, nonces[sess[s].account])

\* recover-mint: an 0xE0 memo that names the payment it is given, which it checks neither
\* to be that account's nor to be stuck; and the sign request.
PreparesRecovery(s, target) ==
    /\ sess[s].program = "recover" /\ pay[target].status # "none"
    /\ Begins(s, target, NoUserOp, Instruction(IGNORE_MEMO, 0, 0, target, 0),
              EncodeIgnore(0, 0, target), "sign")
    /\ sign' = [sign EXCEPT ![s] = IF sess'[s].pc = "sign" THEN "open" ELSE @]

\* The SDK's other encoders.
PreparesInstruction(s) ==
    LET PaysFor(op, meant, memo) == Begins(s, Garbage, op, meant, memo, "submit")
        Pays(meant, memo) == PaysFor(NoUserOp, meant, memo)
        op(batch) == UserOp(sess[s].account, nonces[sess[s].account], batch)
    IN
    /\ sess[s].program = "instruct"
    /\ \/ \E e \in Pins :
             Pays(Instruction(SET_EXECUTOR, 0, 0, e, 0), EncodeSetExecutor(0, 0, e))
       \/ Pays(Instruction(REMOVE_EXECUTOR, 0, 0, Garbage, 0), EncodeRemoveExecutor(0, 0))
       \/ \E n \in NewNonces :
             Pays(Instruction(SET_NONCE, 0, 0, n, 0), EncodeSetNonce(0, 0, n))
       \/ \E t \in {u \in Sessions : job[u] = "failed"}, f \in OwnFees :
             Pays(Instruction(SET_REPLACEMENT_FEE, 0, 0, t, f), EncodeReplacementFee(0, 0, t, f))
       \/ \E b \in {"deposit", "increment"} :
             PaysFor(op(b), Instruction(EXECUTE_INLINE, 0, 0, op(b), 0),
                     EncodeExecuteInline(0, 0, op(b), BatchBytes(b)))
    /\ UNCHANGED sign

-----------------------------------------------------------------------------
(***************************************************************************)
(* Register and sign.                                                       *)
(***************************************************************************)

\* Mutant of Commitment: what was decoded, for the operand in it.
CommitmentDecoded(s) == Decode(req[s].memo)

\* What the executor files the bytes under, at /register and when it reads the payment.
Commitment(s) == CommitmentFromMemos(<<req[s].memo>>)

\* The script goes on: demo-xaman and the page to a sign request whose signers are the
\* identified account, the others to their own key.
GoesOn(s) ==
    /\ sess[s].pc = "register"
    /\ IF sess[s].program \in {"xaman", "web"}
       THEN Goes(s, "sign") /\ sign' = [sign EXCEPT ![s] = "open"]
       ELSE Goes(s, "submit") /\ UNCHANGED sign
    /\ UNCHANGED <<flareVars, xrplVars, job, req, crowded>>

\* Mutant of Registers: the script goes on whatever the executor answers.
RegistersOrNot(s) ==
    /\ \E held \in SUBSET {Commitment(s)} : registered' = registered \cup held
    /\ GoesOn(s)

\* POST /register, or the registration inside /prepare.
Registers(s) ==
    /\ registered' = registered \cup {Commitment(s)}
    /\ GoesOn(s)

\* A script gives up: the executor or Xaman does not answer, a balance is too low, or the
\* script's own deadline passes.  A sign request that is open stays open.
GivesUpAsking(s) ==
    /\ sess[s].pc \in {"register", "sign"}
    /\ Goes(s, "failed")
    /\ UNCHANGED <<flareVars, xrplVars, execVars, req, sign, crowded>>

Broadcast(s, payer, number) ==
    pay' = [pay EXCEPT ![s] = [status |-> "sent", payer |-> payer, sequence |-> number]]

\* Mutant of Signers: txjson.Account alone, which is advisory.
SignersAnyone(s) == Accounts

Signers(s) == {sess[s].account}

\* In the app: the user signs with one of the permitted accounts, Xaman submits;
PhoneSigns(s, a) ==
    /\ sign[s] = "open" /\ a \in Signers(s)
    /\ Broadcast(s, a, sequence[a])
    /\ sign' = [sign EXCEPT ![s] = "signed"]
    /\ UNCHANGED <<flareVars, sequence, execVars, sess, req, crowded>>

\* or rejects the request, or lets it expire.
PhoneRefuses(s) ==
    /\ sign[s] = "open"
    /\ sign' = [sign EXCEPT ![s] = "refused"]
    /\ UNCHANGED <<flareVars, xrplVars, execVars, sess, req, crowded>>

\* The script polls getSignRequest.  recover-mint then creates the job of its own payment.
SeesSignature(s) ==
    /\ sess[s].pc = "sign" /\ sign[s] # "open"
    /\ IF sign[s] = "refused" THEN Goes(s, "failed") /\ UNCHANGED job
       ELSE IF sess[s].program = "recover"
       THEN Goes(s, "flag") /\ job' = [job EXCEPT ![s] = "live"]
       ELSE Goes(s, "watch") /\ UNCHANGED job
    /\ UNCHANGED <<flareVars, xrplVars, registered, req, sign, crowded>>

-----------------------------------------------------------------------------
(***************************************************************************)
(* XrplHttpClient.submitPayment, with a key of the script's own.            *)
(***************************************************************************)

\* account_info and ledger_current; the payment is signed; submit answers tes or ter.
SubmitSends(s) ==
    /\ sess[s].pc = "submit"
    /\ Broadcast(s, sess[s].account, sequence[sess[s].account])
    /\ Goes(s, "poll")
    /\ UNCHANGED <<flareVars, sequence, execVars, req, sign, crowded>>

\* It throws.  The transaction may be out all the same, and its hash is lost with the
\* stack frame.
SubmitThrows(s, lost) ==
    /\ sess[s].pc = "submit"
    /\ IF lost THEN Broadcast(s, sess[s].account, sequence[sess[s].account])
       ELSE UNCHANGED pay
    /\ Goes(s, "failed")
    /\ UNCHANGED <<flareVars, sequence, execVars, req, sign, crowded>>

\* The transaction is validated; gate1 then creates the job of its payment.
SeesValidated(s) ==
    /\ sess[s].pc = "poll" /\ pay[s].status \notin {"sent", "lapsed", "tec"}
    /\ Goes(s, IF sess[s].program = "instruct" THEN "passed" ELSE "watch")
    /\ job' = IF sess[s].program = "gate" THEN [job EXCEPT ![s] = "live"] ELSE job
    /\ UNCHANGED <<flareVars, xrplVars, registered, req, sign, crowded>>

\* Thirty polls and no answer: validated: false, whatever becomes of the payment; or it
\* was validated with a tec.
PollsRunOut(s) ==
    /\ sess[s].pc = "poll"
    /\ Goes(s, "failed")
    /\ UNCHANGED <<flareVars, xrplVars, execVars, req, sign, crowded>>

\* The XRPL: a payment is validated if its sequence number is the account's next.  With a
\* tec result it has moved nothing and only used the number up.
Closes(s, status) ==
    pay' = [pay EXCEPT ![s] = [status |-> status, payer |-> pay[s].payer, sequence |-> 0]]

Validates(s, result) ==
    LET a == pay[s].payer IN
    /\ pay[s].status = "sent" /\ pay[s].sequence = sequence[a]
    /\ Closes(s, IF result = "tes" THEN "validated" ELSE "tec")
    /\ sequence' = [sequence EXCEPT ![a] = @ + 1]
    /\ UNCHANGED <<flareVars, execVars, sessVars>>

\* Past its LastLedgerSequence, or its number used up, it never is.
Lapses(s) ==
    /\ pay[s].status = "sent"
    /\ Closes(s, "lapsed")
    /\ UNCHANGED <<flareVars, sequence, execVars, sessVars>>

-----------------------------------------------------------------------------
(***************************************************************************)
(* Flare: executeDirectMinting and MemoInstructionsFacet.                   *)
(***************************************************************************)

\* The AssetManager changes its fees.
FeesChange ==
    /\ raised < Raises
    /\ raised' = raised + 1
    /\ UNCHANGED <<nonces, pinned, ignored, ran, xrplVars, execVars, sessVars>>

\* 0xD0 and 0xD1 bypass the check of the executor.
MayRelay(s, e) ==
    \/ pinned[pay[s].payer] \in {ZeroAddress, e}
    \/ Decode(req[s].memo).opcode \in {SET_EXECUTOR, REMOVE_EXECUTOR}

Executes(s) == Decode(req[s].memo).opcode \in {EXECUTE_COMMITTED, EXECUTE_INLINE}

\* The memo of s can be dispatched for its payer.
Dispatchable(s) ==
    LET a == pay[s].payer
        d == Decode(req[s].memo)
    IN  CASE Executes(s)            -> Operation(s).sender = a /\ Operation(s).nonce = nonces[a]
          [] d.opcode = SET_NONCE   -> d.operand > nonces[a]
          [] OTHER                  -> d # Malformed

Dispatch(s) ==
    LET a == pay[s].payer
        d == Decode(req[s].memo)
    IN  /\ nonces' = CASE Executes(s) -> [nonces EXCEPT ![a] = @ + 1]
                       [] d.opcode = SET_NONCE -> [nonces EXCEPT ![a] = d.operand]
                       [] OTHER -> nonces
        /\ ran' = IF Executes(s) THEN Append(ran, s) ELSE ran
        /\ pinned' = CASE d.opcode = SET_EXECUTOR -> [pinned EXCEPT ![a] = d.operand]
                       [] d.opcode = REMOVE_EXECUTOR -> [pinned EXCEPT ![a] = ZeroAddress]
                       [] OTHER -> pinned
        /\ ignored' = IF d.opcode = IGNORE_MEMO THEN ignored \cup {<<a, d.operand>>} ELSE ignored

\* What the payment does not cover goes to the fee receiver, all of it.
Covered(s) == req[s].amount >= MintingFee(req[s].amount, Schedules[raised])

Mintable(s, e) ==
    /\ pay[s].status = "validated"
    /\ \/ ~Covered(s)
       \/ MayRelay(s, e) /\ (<<pay[s].payer, s>> \in ignored \/ Dispatchable(s))

\* The mint: ignoreMemo is looked at before the memo, and deleted on use.
Mint(s) ==
    LET flag == <<pay[s].payer, s>> IN
    IF ~Covered(s)
    THEN /\ pay' = [pay EXCEPT ![s].status = "swallowed"]
         /\ UNCHANGED <<nonces, pinned, ignored, ran>>
    ELSE IF flag \in ignored
    THEN /\ pay' = [pay EXCEPT ![s].status = "skipped"]
         /\ ignored' = ignored \ {flag}
         /\ UNCHANGED <<nonces, pinned, ran>>
    ELSE pay' = [pay EXCEPT ![s].status = "minted"] /\ Dispatch(s)

\* Another relayer: it holds no bytes behind a commitment, and needs none for the rest.
RivalRelays(s) ==
    /\ Mintable(s, "rival")
    /\ \/ Decode(req[s].memo).opcode # EXECUTE_COMMITTED
       \/ ~Covered(s) \/ <<pay[s].payer, s>> \in ignored
    /\ Mint(s)
    /\ UNCHANGED <<raised, sequence, execVars, sessVars>>

-----------------------------------------------------------------------------
(***************************************************************************)
(* The executor.                                                            *)
(***************************************************************************)

\* The service takes on a payment whose bytes it holds, and does not look at its result:
\* no proof of a tec payment can be minted, and its job fails.
TakesOn(s) ==
    /\ pay[s].status \in {"validated", "tec"} /\ job[s] = "none"
    /\ Commitment(s) \in registered
    /\ job' = [job EXCEPT ![s] = "live"]
    /\ UNCHANGED <<flareVars, xrplVars, registered, sessVars>>

\* A job ends: the mint goes through, or the payment turns out to be consumed already.
Relays(s) ==
    /\ job[s] = "live"
    /\ \/ Mintable(s, Us) /\ Mint(s)
       \/ Settled(s) /\ UNCHANGED <<nonces, pinned, ignored, ran, pay>>
    /\ job' = [job EXCEPT ![s] = "executed"]
    /\ UNCHANGED <<raised, sequence, registered, sessVars>>

\* Or its attempts run out: the mint reverts, or the network fails it (Pipeline).
Fails(s) ==
    /\ job[s] = "live"
    /\ job' = [job EXCEPT ![s] = "failed"]
    /\ UNCHANGED <<flareVars, xrplVars, registered, sessVars>>

-----------------------------------------------------------------------------
(***************************************************************************)
(* How the programs end.                                                    *)
(***************************************************************************)

\* Mutant of Passes: the job is believed.
PassesExecuted(s) == job[s] = "executed"

\* The page polls /status, without a deadline, until the job has ended.
PageEnds(s) == job[s] \in {"executed", "failed"}

\* It shows the vault's balance, but looks at the job alone.
PagePasses(s) == job[s] = "executed"

\* The demo scripts look at the vault, whatever the job says; gate1 at the job and the
\* counter.
Passes(s) ==
    LET now == Effects(sess[s].program, sess[s].account) IN
    CASE sess[s].program = "gate" ->
            job[s] = "executed" /\ now = sess[s].before + 1 /\ LastCallerIs(sess[s].account)
      [] sess[s].program = "web" -> PagePasses(s)
      [] OTHER -> now > sess[s].before

\* /status says executed or failed, or twenty minutes are over.
Concludes(s) ==
    /\ sess[s].pc = "watch"
    /\ sess[s].program = "web" => PageEnds(s)
    /\ Goes(s, IF Passes(s) THEN "passed" ELSE "failed")
    /\ UNCHANGED <<flareVars, xrplVars, execVars, req, sign, crowded>>

\* recover-mint, step 2: its own job is executed, and it restarts the stuck one, if that
\* was ever taken on.
FlagIsSet(s) ==
    /\ sess[s].pc = "flag" /\ job[s] = "executed"
    /\ IF job[sess[s].target] = "none" THEN Goes(s, "failed") /\ UNCHANGED job
       ELSE Goes(s, "retry") /\ job' = [job EXCEPT ![sess[s].target] = "live"]
    /\ UNCHANGED <<flareVars, xrplVars, registered, req, sign, crowded>>

\* Step 2 fails or times out.
FlagIsNotSet(s) ==
    /\ sess[s].pc = "flag" /\ job[s] # "executed"
    /\ Goes(s, "failed")
    /\ UNCHANGED <<flareVars, xrplVars, execVars, req, sign, crowded>>

\* Step 3.
Recovers(s) ==
    /\ sess[s].pc = "retry" /\ job[sess[s].target] \in {"executed", "failed"}
    /\ Goes(s, IF job[sess[s].target] = "executed" THEN "passed" ELSE "failed")
    /\ UNCHANGED <<flareVars, xrplVars, execVars, req, sign, crowded>>

-----------------------------------------------------------------------------

Script(s) ==
    \/ \E fee \in OwnFees : Prepares(s, fee)
    \/ \E target \in Sessions : PreparesRecovery(s, target)
    \/ PreparesInstruction(s)
    \/ Registers(s) \/ SeesSignature(s) \/ SubmitSends(s) \/ SeesValidated(s)
    \/ Concludes(s) \/ FlagIsSet(s) \/ Recovers(s)

Mishap(s) ==
    \/ GivesUpAsking(s) \/ PhoneRefuses(s) \/ PollsRunOut(s) \/ FlagIsNotSet(s)
    \/ \E lost \in BOOLEAN : SubmitThrows(s, lost)
    \/ Lapses(s)

Executor(s) == TakesOn(s) \/ Relays(s) \/ Fails(s)

Next ==
    \/ \E s \in Sessions :
          \/ Script(s) \/ Mishap(s) \/ Executor(s)
          \/ \E a \in Accounts : PhoneSigns(s, a)
          \/ Validates(s, "tes") \/ Validates(s, "tec") \/ RivalRelays(s)
    \/ FeesChange

Spec == Init /\ [][Next]_vars

-----------------------------------------------------------------------------
(***************************************************************************)
(* Properties.                                                              *)
(***************************************************************************)

\* Type invariant.  An amount is never below what is to be minted, and commitments are
\* filed under the hash of an operation.
OnesigTypeOK ==
    /\ nonces \in [Accounts -> Nat]
    /\ pinned \in [Accounts -> Pins \cup {ZeroAddress}]
    /\ ignored \subseteq Accounts \X Sessions
    /\ raised \in 0 .. Raises /\ ran \in Seq(Sessions)
    /\ sequence \in [Accounts -> Nat \ {0}]
    /\ pay \in [Sessions -> [status : {"none", "sent", "validated", "tec", "lapsed", "minted",
                                        "skipped", "swallowed"},
                              payer : Accounts \cup {Garbage}, sequence : Nat]]
    /\ \A c \in registered : DOMAIN c = {"keccak256"} /\ c.keccak256.sender \in Accounts
    /\ job \in [Sessions -> {"none", "live", "executed", "failed"}]
    /\ sess \in [Sessions ->
          [program : Programs, account : Accounts,
           pc : {"idle", "register", "sign", "submit", "poll", "watch", "flag", "retry",
                 "passed", "failed"},
           target : Sessions \cup {Garbage}, before : Nat]]
    /\ sign \in [Sessions -> {"none", "open", "signed", "refused"}]
    /\ \A s \in Sessions :
          req[s] = Unprepared \/ req[s].amount >= NetMint(sess[s].program)
    /\ crowded \subseteq Sessions

Paid(s) == pay[s].status # "none"

\* A payment that goes out says on the XRPL what its program meant, to the last operand: an
\* encoder that cannot write a value down throws before anybody signs (memo.ts).
MeansWhatWasSigned == \A s \in Sessions : Paid(s) => Decode(req[s].memo) = req[s].meant

\* The bytes behind a commitment are with the executor before anybody pays for it: the
\* demos and the page register before they ask for a signature or submit (gate1 keeps its
\* own).
HeldBeforePaid ==
    \A s \in Sessions :
        Paid(s) /\ sess[s].program \in {"xaman", "web", "deposit"} =>
            Commitment(s) \in registered

\* The nonce in an operation is still its account's when the payment gets to Flare, unless
\* another payment of the account was on its way: prepare() reads the nonce anew, and a
\* payment that cannot land any more is in nobody's way.
SerialisedNeverCollides ==
    \A s \in Sessions :
        pay[s].status = "validated" /\ s \notin crowded /\ Executes(s) =>
            Operation(s).nonce = nonces[pay[s].payer]

\* A payment is lost to the fee receiver only if the fees rose after it was prepared:
\* computePaymentAmount adds the fees that hold to what is to be minted.
SwallowedOnlyIfRaised ==
    \A s \in Sessions : pay[s].status = "swallowed" => req[s].fees < raised

\* A demo script or gate1 that reports success, and was alone with its account, saw its own
\* payment run its operation; not another's, and not a job that is executed because the
\* payment was swallowed, skipped or relayed by another.
PassedMeansRan ==
    \A s \in Sessions :
        /\ sess[s].pc = "passed" /\ s \notin crowded
        /\ sess[s].program \in {"xaman", "deposit", "gate"}
        => s \in ToSet(ran)

\* index.html:502 and :511, "The operation ran on Flare" and "both ran, in order": a page
\* that says so, for an account with nothing else under way, saw its payment run.
PageMeansRan ==
    \A s \in Sessions :
        sess[s].pc = "passed" /\ s \notin crowded /\ sess[s].program = "web" => s \in ToSet(ran)

\* recover-mint.ts:127 and :143, "so the flag is actually set" and "ignoreMemo set": the
\* stuck mint is restarted only when the flag of its payment is set, or has been used or
\* overtaken by the mint of that payment.
RetriedAfterFlag ==
    \A s \in Sessions : sess[s].pc = "retry" =>
        \/ <<pay[s].payer, sess[s].target>> \in ignored
        \/ Settled(sess[s].target)

\* What the two programs that look at a job's state alone tell their user of an executed
\* job is so (index.html:502, :511, recover-mint.ts:127, :143).
ToldIsTrue == PageMeansRan /\ RetriedAfterFlag

\* Under the payments, the relayers, the repeated runs of programs and the recoveries,
\* there is the account of module Account.  An order is a payment that is out, signed for
\* what was prepared, and carried out as what Flare makes of it.
OrdersSigned ==
    [a \in Accounts |->
        {[id |-> s, op |-> req[s].op] : s \in {r \in Sessions :
            Paid(r) /\ pay[r].payer = a /\ req[r].op # NoUserOp}}]
OrdersDone ==
    [a \in Accounts |->
        {[id |-> s, op |-> Operation(s)] : s \in {r \in ToSet(ran) : pay[r].payer = a}}]

A == INSTANCE Account WITH
        Owners <- Accounts, signed <- OrdersSigned, done <- OrdersDone, next <- nonces

\* The abstract account is implemented: whatever happens to payments, an account runs only
\* what its own owner was asked to sign, in the order of the nonces, and nothing twice.
ImplementsAccount == A!AccountSpec

=============================================================================
