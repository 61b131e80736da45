# A TLA+ model of ONESIG and LATCH

ONESIG lets an XRPL payment run a batch of contract calls on Flare: the payment
carries a 32-byte commitment, an *executor* holds the bytes behind it, proves the
payment with the Flare Data Connector (FDC) and has the AssetManager mint FXRP and
run the batch. LATCH is a confidential executor that keeps the bytes until a
price or a time condition holds.

This directory models the parts of it in which order, concurrency and failure
decide the outcome, checks them with TLC on small instances and proves the main
safety properties with TLAPS for every instance. `PROJECT.json` maps every
definition to the lines it models and lists runs, mutants, findings and theorems.

## The system

| Component | State | Operations | Talks to | What is hard, and what makes it correct |
|---|---|---|---|---|
| Executor pipeline (`pipeline.ts`) | one `Job` object per payment, its file under `.executor-state` | `create`, `step`, `save`, `load`, `run` | FDC client, AssetManager, disk | awaits inside `step()`, retries, lost receipts, a delayed mint, torn files. Success is reported only for a consumed payment; money is not spent twice; the job is brought to an end |
| FDC client (`fdc.ts`) | none | `prepareRequest`, `submitRequest`, `isRoundFinalized`, `fetchProof` | verifier, FdcHub, Relay, DA layer | two external indexes that lag; a paid transaction whose receipt is lost |
| Service, drive loop (`service.ts`) | `#live` | `#tick`, `start` | pipeline, watcher | activations of `#tick` overlap; a restart |
| Service, HTTP API (`service.ts`) | none of its own | `/register`, `/prepare`, read-only routes | pending store, Xaman | the answer may come before or after the payment |
| Xaman client (`xaman.ts`), XRPL client (`xrpl.ts`) | sign requests at Xaman; none | `createSignRequest`, `getSignRequest`; `submitPayment` | the user's phone, XRPL | a payment may settle after its caller gave up on it, and a request may be signed after its script ended |
| Watcher (`watcher.ts`) | `#lastLedger`, `#seen` | `poll` | XRPL, pending store | a cursor over pages of a shared account, lagging servers. No payment with registered bytes is lost, none is begun twice |
| Pending store (`store.ts`) | `#memory`, one file per commitment | `register`, `get`, `list` | disk | memory and disk disagree after a failed write or a crash |
| Operator scripts (`scripts/`) | a copy of the job | `resume-job`, `recover-mint` | pipeline, the job's file | a second process on the same file; a recovery that is itself a payment with a job |
| Demo scripts (`demo-xaman`, `demo-deposit`, `gate1`, `run-executor`) | where they are, the balance before | prepare, register, pay, watch | SDK, service, Xaman, XRPL, Flare | bytes before payment; a verdict that other payments of the account can spoil |
| LATCH handlers and triggers (`handlers.ts`, `triggers.ts`) | the `Map` of intents | ARM, STATUS, CANCEL, COLLECT, `tick` | FTSO | `tick()` awaits and is not in the queue of the handlers. Bytes leave only after their condition held, and never after cancel or expiry |
| LATCH timer (`executor/src/latch.ts`) | the timer | `start`, `tickNow`, direct actions | handlers | overlapping activations |
| Extension server (`base/server.ts`) | the promise queue | `/action`, `/state` | handlers | makes a handler one step |
| `LatchInstructionSender` (Solidity) | `cancelledBy` | `cancelIntent`, `requestStatus`, `setExtensionId` | tee-node, handlers | the message it sends and the message the handler reads |
| SDK (`packages/sdk`) | none | memo codec, user operations, fees, `prepare` | Flare contracts | exact layouts and bounds; nonces and fees that are stale when the payment arrives |
| Web page (`public/index.html`) | what it has shown | sign in, `/prepare`, wait for the job | service, Xaman | a verdict read off the job's state alone |
| Demo contracts | registry, vault, token | `register`, `remove`, `deposit`, `withdraw` | | ownership; accounting |
| TEE registration tools (Go) | on-chain registration, a resume file | registration steps | Flare | resuming a sequence of transactions |

Everything runs on one Node.js event loop per process, so code between two awaits
is atomic and every await is a point of interleaving. That decides the grain of
the models. `Onesig` is coarser than the others: it interleaves whole programs, and
takes from `Pipeline` and `Intake` only that a job is taken on, ends well or fails.

## Modules

| Module | What it is |
|---|---|
| `Pipeline` | the job of one payment: `step()` with its drivers, disk, crashes, and the Flare contracts it talks to |
| `Intake` | how payments are taken on: store, watcher, the intake half of `#tick`, `create()` await by await |
| `Latch` | LATCH: handlers, `tick()`, the on-chain revocation |
| `Escrow` | the abstract specification LATCH implements |
| `Memo` | the SDK's memo codec: the seven encoders, `decodeMemo`, `commitmentFromMemos` |
| `Fees` | `computePaymentAmount` and the fee that is taken of it |
| `Onesig` | the programs around a payment, Xaman, the XRPL and the smart accounts; EXTENDS `Memo` and `Fees` |
| `Account` | the abstract specification Onesig implements |
| `MCPipeline`, `MCIntake`, `MCLatch`, `MCOnesig` | constants for TLC |
| `PipelineProofs`, `JobProofs` | theorems about `Pipeline`: types and success; fields, rounds, fees and the file |
| `IntakeProofs` | theorems about `Intake` |
| `LatchProofs` | theorems about `Latch`, and that it implements `Escrow` |
| `CodecProofs` | theorems about `Memo` and `Fees` |
| `OnesigProofs`, `AccountProofs`, `SessionProofs` | theorems about `Onesig`: payments; that it implements `Account`; types and verdicts |

### Pipeline

A *driver* calls `step()`: an activation of `#tick` (`Ticks`), all of which share
the service's Job object `job["service"]`, or a script, which has its own copy
`job[s]`. `drv[d].pc` says at which await the driver is, `drv[d].at` which `case`
it entered, `drv[d].arg` the round it passed or was given: these are the values
read *before* the await, while the assignments after it go to the job as it is by
then. `disk` is the file. A save is two steps (`SaveOpens` truncates, `SaveCloses`
writes), so that crashes and other writers can come between; what does not parse
is `Torn`, and `load()` takes it for no job.

`Advance` is the code after the switch, `Caught` the catch clause, `Returned` the
drive loop's treatment of the result. One action stands for each call's sending,
landing and return. `Faults` says what the environment may do: `lag` (verifier or
DA layer behind), `error` (any other failed call), `receipt` (a transaction is
broadcast, its receipt is not obtained; if it was not mined it becomes an
*orphan* that may still land), `revert` (the attestation request reverts), `read`
(`isTransactionIdUsed` fails), `disk`, `crash`, `rival` (another relayer).

`fresh` stands for what a restarted watcher can still see: `start()` begins at the
ledger *open* at whichever server of the public cluster answers, which is at or
before the payment's ledger only if that server lags.

`CreateJob` is one step here: nobody drives the job before `live.set`. `Intake`
has its awaits. `Intake` in turn knows a job only by its file and its place in
`#live`: `JobOpens`, `JobSaved` and `JobSaveFails` are the saves of a step, `JobEnds`
is the rest of what `Pipeline` does.

### Intake

`tk[t]` is a tick: `"poll"` (request out), `"page"` (answered), `"get"` and `"read"`
(awaiting the store for the head of `todo`, which had it in memory or reads its file),
`"found"`, `"load"`, `"save"`, `"write"` (in `create()`, its file truncated at the last).
`Scan` is the loop of `poll()` up to its next await, which moves the cursor over
everything it passes. `IsPage` is rippled: newest first, at most `Limit`
entries, and `XrplAnswers(t, lag)` lets the server be a ledger behind; what a full
page leaves out is remembered in `cut`, since `poll()` never follows the marker.
`Memos` are the memos of each payment, and `commitmentFromMemos` (module `Memo`)
finds a commitment in them; the constant `Commitment` is that function tabled, and an
assumption which TLC evaluates says so. `owed` are the payments validated while the
service runs, and registered before or after as long as the cursor is not past them
(`Ahead`).

Both kinds of file are rewritten in place: `stored` and `jobs` are the files that
parse, `RegisterOpens`, `CreateOpens` and `JobOpens` take a file out of them until it is
written, and a crash or an error in between leaves it out. A commitment may be
registered again at any time (`/prepare` or `/register` sent twice), which truncates a
record that was acknowledged; `torn` are the truncated records, and `ruined` counts
what happened to a payment's job file.

So the code has three ways of losing an owed payment, a full page (`cut`), a failed
`create()` (`dropped`), and a lookup that finds the record truncated (`unread`), and one
of beginning a payment again (`ruined`). They are the exceptions that
`CursorPassesNothing`, `OwedIsTakenOn` and `BegunOnce` name, and none can be left out: TLC
then finds each of them violated, `BegunOnce` by a crash inside a later `save()` and a
restart while the payment's ledger is still the open one, the other two by a crash
inside a second registration. Two registrations of one commitment are not in flight at
once, and the scripts that write job files are `Pipeline`'s, not `Intake`'s.

### Memo and Fees

A memo is a length and a set of fields, each with its offset and width; `Read`
returns a field only at the very offset and width it was written with, so a decoder
that reads one byte aside gets `Garbage`. Ranges, required lengths, the 1024-byte cap
and the refusal of the zero address are those of `memo.ts`; an encoder that throws
returns `Throws`. `FeeLimit` is the 2^64 of `setBigUint64`, `NonceLimit` the 2^256 of a
nonce. `Fees` computes on the
integers as the code does on bigints, the division rounded down.

### Onesig and Account

A *session* is one run of one program for one XRPL account: `demo-xaman`, the web page
with its routes (which differs from `demo-xaman` in when it stops waiting and in its
verdict: `PageEnds`, `PagePasses`), `demo-deposit`, `gate1`, `recover-mint`, or any other
use of an encoder. It makes at most one payment, which bears the session's name. `Casts`
says which programs run together.

- `Prepares` is `OneSigClient.prepare()`: nonce and fees as they are now go into
  `req[s]`, with `meant`, what the caller asked for, and the memo that the codec made
  of it. `PreparesRecovery` and `PreparesInstruction` are the other encoders' callers.
- `Registers`, `PhoneSigns`, `SubmitSends` and what can go wrong with them: a request
  refused or left open when its script is gone, an answer of `submit` lost, thirty
  polls without a validation. `sequence` is the XRPL's order of an account's payments;
  a payment is validated at its number, fails on the ledger (`tec`), or lapses.
- `Mint` is Flare: a payment that does not cover its fee is swallowed, one whose memo
  is to be ignored is minted without it, another's memo is dispatched. These contracts
  are not in the repository; they are modelled from how the SDK, its comments and the
  scripts use them, and are marked external in `PROJECT.json`. `RivalRelays` is any
  other executor, which can do all of this except produce the bytes behind a
  commitment.
- `TakesOn`, `Relays`, `Fails`: the executor, as `Intake` and `Pipeline` leave it.
  `watcher.ts` does not look at a transaction's result, so a payment that failed on the
  ledger is taken on too; it can never be minted, and its job fails.
- `Concludes`, `FlagIsSet`, `FlagIsNotSet`, `Recovers`: how the programs end.

Bytes are fields, a hash is a record around what was hashed, so equality of hashes is
equality of operations. Reading the balance before, the checks `gate1` makes of the
memo it built, and the reads inside `prepare()` are one step with `prepare()`, a
coarser grain than the code's: a mint falls before all of these reads or after them. `demo-deposit`'s and `gate1`'s submission is
three calls of which only the last has an effect.

`crowded` is a history variable: the sessions that began while another session of
their account was not over, and those others. The properties about what an account
sees are about sessions outside of it. For the rest a collision is what the code's own
comments expect; the payment then waits for its recovery.

`Account` is what an owner may rely on: an account carries out only orders its owner
signed, for its own operations, in the order of the nonces and never twice. The
mapping takes an order for signed when the payment is out, which is when nobody can
call it back, and for done when the operation ran.

### Latch and Escrow

Handlers are synchronous and queued, so each is one action; a refusal changes
nothing and is not an action. `tick()` keeps a reference to the intent *object*
across its await, and ARM may replace the object under a commitment; the model
therefore has a heap `obj`, and `intents` maps a commitment to an object. `slot`
is the Map's insertion order, in which `tick()` walks: a replaced entry keeps its
place and an entry added behind the walker is visited. `Scan` is a stretch of the
loop up to the next price read. `CheckReturns` fires the held object without
another look at its state, as the code does, and without another look at the clock:
`Due` compares the deadline with the time the activation started at. So a price read
that returns after the deadline still fires its intent, and COLLECT releases the bytes,
although `handlers.ts:45` says "After this the intent expires unfired". No property
here denies it; `latch_expired` shows the case in which another activation has expired
the intent meanwhile, and what does hold is `PassSettles`: an activation leaves nothing
armed behind it that was due when it started.

`firedTotal`, `armedAt` and `firedAt` are left out: nothing but STATUS reads them. The bytes are a name
(`userOpData`, `"0x"` once dropped) and `Keccak` is an injective function.

`Escrow` says what a caller may rely on: a box is sealed, then opened or
destroyed, once; bytes leave an open box only. The mapping (`EscrowBox`,
`EscrowOut`) calls an object open if it is fired or collected *and* still has its
bytes. The second half matters: an expired or cancelled intent may be marked
fired by an activation that was already out, and only because its bytes were
dropped in the same step is it still destroyed.

## Runs

All sizes are the largest that finish in a few minutes and still contain what the
run is about.

| Run | Instance | Shows |
|---|---|---|
| `pipeline_overlap` | two ticks (symmetric), one fault of seven kinds, two fees | `TypeOK`, `ExecutedMeansConsumed`, `FieldsBeforeUse` under overlap |
| `pipeline_operator` | one tick and one script, one fault (lag, error, receipt, crash), one script run, two attempts | with two copies of the job and one file: `ExecutedMeansConsumed`, `FeesPayForFaults`, `RoundIsFinal`, `PersistedBeforeReturn`, `NeverStepsBack`, and `FinishedUnlessKilled` under fairness |
| `intake` | one tick, pages of two, a payment made twice and a foreign one, one client, one fault | `CursorPassesNothing`, `BegunOnce`, and `OwedIsTakenOn` under fairness |
| `latch` | two operations, two activations, two armings, deadline 1 of 3 instants, one revocation | `OpenOnlyIfMet`, `ReleasedMatchesCommitment`, `PassSettles`, `ImplementsEscrow`, `NothingStaysArmed` |
| `onesig` | every pair of programs for one account, the pairs that meet for two, a gate beside another gate with a recovery, and the page beside a payment and a recovery; one rise of the fees | `MeansWhatWasSigned`, `HeldBeforePaid`, `SerialisedNeverCollides`, `SwallowedOnlyIfRaised`, `PassedMeansRan`, `ImplementsAccount` |

Seven runs show where the code and the repository's own words part. Each checks
one property and TLC finds a counterexample:

| Run | The repository says | The code does |
|---|---|---|
| `pipeline_restart` | "a restart resumes everything from disk" (`service.ts:12-14`) | `start()` loads no job |
| `pipeline_repay` | each transition is persisted, resubmitting costs another fee (`pipeline.ts:148-150`, `:7-8`) | two overlapping ticks both submit: two fees, no fault |
| `pipeline_giveup` | lag retries indefinitely, genuine errors give up after five attempts (`WHATS-NEW.md:47-48`) | lags count as attempts: four lags and one error give up |
| `intake_retry` | "watcher error (will retry)" (`service.ts:290`, `README.md:296`) | payments are marked seen before `create()`: a failed write loses them |
| `latch_expired` | "an expired intent cannot later fire" (`latch.test.ts:181`) | an activation that was out marks it fired |
| `latch_revoke` | "Publicly revoke an armed intent" (`InstructionSender.sol:81`) | it sends ABI bytes, the handler reads JSON and refuses |
| `onesig_told` | "The operation ran on Flare", "both ran, in order" (`index.html:502`, `:511`) | said of every executed job, one whose payment was swallowed included; `recover-mint` likewise takes its job for the flag ("so the flag is actually set", "ignoreMemo set for", `recover-mint.ts:127`, `:143`) |

What lies behind the last is that a job is `executed` as soon as its payment is
consumed, also when its value was swallowed or its memo ignored. `demo-xaman`,
`demo-deposit` and `gate1` look at the vault or the counter as well, and for them
`PassedMeansRan` holds; its mutant `PassesExecuted`, which believes the job, is what the
page does. `ToldIsTrue` has two parts, `PageMeansRan` and `RetriedAfterFlag`, and TLC
finds either one violated by itself; the trace of the run is the shorter one, the page's.
In the other, the fees rise after `recover-mint` has prepared its payment, which is
swallowed: no flag is set, and the stuck mint is restarted to revert once more.
`RetriedAfterFlag` holds where this cannot happen (theorem `FlagBeforeRetry`): when fees do
not change and nobody recovers anything else. Both conditions are needed: of two
recoveries one may be told to ignore the payment of the other, which is then minted
without setting its flag.

Some things the modelling met are not stated as properties:

- `xrpl.ts:11-13` calls a payment recoverable by its hash, but when `submit` throws,
  `submitPayment` throws too and the hash it computed is gone (`SubmitThrows`).
- `recover-mint` checks neither that the payment it is given belongs to the account
  it asks to sign nor that it is stuck: the flag is then set for the wrong account, or
  never used. It also stops after paying, when no job of that payment is on disk.
- LATCH's container (`main.ts`) starts no trigger loop: with `Tickers = {}` TLC finds
  `NothingStaysArmed` violated, although `config.ts:43-44` bounds every intent's time.

### Bounds

`MaxFees`, `MaxFaults`, `MaxRuns` (Pipeline), `MaxLedger`, `MaxFaults` (Intake),
`MaxArms`, `MaxClock`, `MaxRevocations` (Latch), `Raises` (Onesig) cap counters and
appear in guards only. In `pipeline_operator`, `MaxFees` is one more than the
fault and the script run there may cost, so that it never hides a fee too many; in
`pipeline_overlap` it is the two fees that two ticks race for.
`MaxAttempts` is the code's 5 in `pipeline_giveup`; elsewhere it is smaller, so that
giving up happens with the faults there are. Voting rounds are not told apart
unless a request of ours is in them (`RoundEnds`), which keeps the state finite
without a bound. Prices take two values, one on each side of the threshold; three
instants let an activation begin before a deadline and end after it. In
`latch_revoke` there is one ticker. `CHECK_DEADLOCK FALSE` is set for Pipeline, whose
payment is finished in the end, and for Onesig, whose programs are.

In `intake`, one client and two payments with its memo, as when a script is run again,
make every way of losing or repeating a payment possible, and leave a graph small enough
for the temporal check. `Limit` is 2 of the code's 30: three payments in a ledger make a page
overflow. Three ledgers are one before, one with and one after a payment, the cursor
being able to stand on each side of it.

In `onesig`, two accounts are enough for one to interfere with the other, and they
are paired where they meet: in the gate's counter, or in the job that a recovery is
given. A pair of sessions contains every race between two programs, and the one chain
of three that the code has, two payments that collide and the recovery of the one that
lost, is a cast of its own. `Swapped` exchanges the first two sessions, which only
their roles tell apart: no definition and no property names one. `FeeLimit` is 4, so the header fee 5 is beyond it and 0 is not.
`Pins` are another relayer and the zero address the encoder refuses, `NewNonces` one
nonce ahead of what two sessions reach by running and one, at `NonceLimit`, that the
encoder refuses. The fees are Coston2's, and after
the one rise the minimum exceeds what the earlier payment set aside for it.

`intake` has one tick. With two, TLC finds `BegunOnce` violated: both polls pass
the `#seen` test before either is back from the store. It is listed among the
hazards, as one that no run covers; `CursorPassesNothing` is proved for any number.

### Fairness

- Pipeline: each tick makes progress (`setInterval` starts `#tick` again whatever
  became of the last one, viem and `fetch` calls return or throw), reported payments
  are taken on, the process is restarted, rounds end and are finalised, the
  rate limit ends. No fault, rival or operator is assumed to act.
- Intake: the same for `#tick`; of the servers that answer a poll repeated for
  ever not all lag (strong fairness of the up-to-date answer).
- Onesig states none and checks no liveness: users, rivals and the expiry of a
  payment owe nobody anything, and that a job taken on is ended is `Intake`'s and
  `Pipeline`'s.
- Latch: time passes and activations go on; `readFeed` has an 8 s timeout and turns
  every failure into `null`. COLLECT, CANCEL and the chain are not assumed to act.

## Proofs

Every safety property that a passing run checks is also a theorem, for every value of
the constants that satisfies the modules' assumptions. Where a property holds only
under a condition, the theorem states the condition; they are collected below.

- `TypeCorrect` (`PipelineProofs`): `TypeOK` is inductive; one lemma each for the two
  ways of leaving `step()`, for a driver's own steps, for its mishaps and for the
  surroundings.
- `ExecutedIsConsumed`: `ExecutedMeansConsumed` is not inductive, since a driver with
  a receipt in hand (`pc = "minted"`) is about to write `executed`. `ExecutedInv` adds
  that the payment is consumed by then. `consumed` is never taken back, and no
  other step produces `executed` but the confirmation on chain.
- `NoFieldMissing` (`JobProofs`): a driver reads the job at the switch, awaits, and then
  assigns to the job *as it is by then*, so `FieldsBeforeUse` alone is not inductive.
  `FieldsInv` adds that a driver inside a case finds in its copy the request or the
  round that the case dereferenced, and that bytes on their way to the file have their
  fields too. It rests on `PlacesInv`, which says by which case a driver came to an
  await and that no tick is under way while the service has no job: a job is never
  exchanged under a driver's feet. This one needs no condition: any number of ticks and
  scripts included.
- `RoundOfTheOne`, `OnlyForward` (`OneTick`): with one tick, what a driver read before
  its await is still so after it (`SoloInv`), since a script has a process and a copy of
  its own. Then the round whose finality was awaited is the copy's (`RoundInv`), and the
  state assigned is the successor of the state there.
- `FeesAreEarned` (`OneTick`): the bound on the fees is kept because it counts ahead.
  `FeeInv` says that the processes that may still pay (`Spenders`) are no more than
  `Credit`, what faults and operators have allowed and neither a fee nor an orphan has
  used. Each step moves at most one process into or out of the set, and the lemma
  `Account` does the arithmetic for all of them: whoever joins brings a fault or a
  script run, whoever pays leaves.
- `ReturnedIsPersisted` (`OneTick`, no script, no disk fault): `SaveInv` follows the file
  through `save()`, where it is torn while the bytes are on their way, and `LiveInv`
  says that what is driven is a job.
- `IntakeTypeCorrect`, `NothingIsPassed` (`IntakeProofs`) follow from `IntakeInv`, for any
  number of ticks. `CursorPassesNothing` speaks of payments below the cursor; what makes
  it hold is a fact about pages that have yet to move it. `PageWhole`: a page on its way
  to the loop has everything that lies between the cursor *as it is now* and the page's
  newest entry, or it was cut off, and that stays so when another tick moves the cursor
  meanwhile, because while ticks are out the cursor only moves up (`PlaceOK` keeps each tick's `min` below
  it). A server that lags answers with an older newest entry, which then moves the
  cursor less. The loop of `poll()` is reasoned about once (`ScanMoves`).
  A lookup in vain is harmless unless the record was acknowledged: `IntakeInv` keeps what
  is acknowledged in a file that parses or one that is truncated, so that a payment that
  is owed and finds neither memory nor file is in `unread`.
- `OneJobForEach` (`OneTick`): `OnceInv` adds that what was begun and not ruined is on
  disk or on its way there, and that a tick about to save found none.
- `LatchTypeCorrect`, `CollectableWasMet`, `ReleaseIsBound`, `PassesSettle`
  (`LatchProofs`) follow from one inductive invariant, `LatchInv` (theorem
  `LatchInvariant`). Besides the two properties of states it says: an object's key is the
  hash of its bytes while it has them; objects are allocated in order; an object that
  an activation holds is allocated; cancelled and expired objects have no bytes.
  `PassesSettle` needs to know what the walk has left behind it: `OrderOK`, the places in
  the Map are those of distinct commitments, and `BehindOK`, an entry before the walker's
  place is not armed, or its deadline lies after the start of the activation. A handler
  may arm an object behind the walker, but only with a deadline that is yet to come,
  and time has not gone back since the activation started. `Scan` is reasoned about once
  (`ScanEffect`, `ScanInv`, `ScanPasses`), for any heap that is `Sound`, because the loop
  goes on from the heap in which the held object has just been fired.
- `LatchImplementsEscrow`: every step of `Latch` maps to a step of `Escrow` or a
  stutter. `tick()` may open one box and destroy several in one step, which is why
  `Escrow` has `Settle`.

- `CodecProofs`: what each encoder returns decodes to what it was given, for all
  operands (`CommittedRoundTrip`, `InlineRoundTrip`, `IgnoreRoundTrip`,
  `NonceRoundTrip`, `ReplacementRoundTrip`, `ExecutorRoundTrip`, `RemoveRoundTrip`), as
  no two fields of a memo have both offset and width in common. `PaymentCovers`: the
  total of `computePaymentAmount` is at least the net amount, and at least the minting
  fee of that *total*, so the payment is not swallowed. The code computes the fee of
  the net amount, which is less; what is added on top is enough all the same, for every
  proportional fee up to 100%, because a rounded-down share is bounded by the whole
  (`ShareBounded`) and the minimum is part of the total.
- `WhatWasSigned`, `BytesHeld`, `OnlyRaisesSwallow` (`OnesigProofs`) follow from one
  inductive invariant (`Invariance`), a conjunction over the sessions of its parts.
  `Stage`: where a session may be while its payment is not out, so that nothing is paid
  twice. `Request`: the memo decodes to what was meant and the amount is the one computed
  from the fees read at the time. `Held`: the bytes are registered from the moment a
  payment becomes possible. `End`: a job is executed only for a settled payment, and only
  a rise of the fees swallows one. The
  properties alone are not inductive: who pays next, and what a later mint makes of it,
  depends on all of them. `LeftAlone` shows once and for all that a step leaves the part
  of every *other* session alone; after it each action is looked at for its own session
  only.
- `FlagBeforeRetry` (`SessionProofs`; `Raises = 0`, `OneRecovery`): `End` leaves two ways in
  which a recovery goes on without its flag, and the hypotheses close them. Its payment
  is not swallowed, for the fees are those it was prepared with; and it is not skipped,
  for `FlagInv` says that no flag is set and no memo skipped but by a recovery that was
  minted, and the only recovery there is would have to be both.
- `OnesigImplementsAccount` (`AccountProofs`): for a refinement it matters little which
  of the thirty actions was taken. `ThreeKinds` shows that each is quiet, sends a
  payment out, or dispatches a memo; the abstract account stutters, signs, and carries
  out or skips. Strengthening (`OrdersInv`): the operation in a memo is for the account
  that pays, and what ran is minted with its nonce used up, which is why no order is
  carried out twice.
- `NoncesOfTheLone` (`AccountProofs`): `SerialisedNeverCollides` says nothing of a
  payment that is not validated yet, so it is not inductive. `AloneInv` speaks of every
  session that is about or whose payment may land (`Alive`): two of one account both
  know it (`Crowd`), and one that is alone has the account's nonce (`Alone`). Nobody
  comes to life but by preparing (`Turn`), and the dispatch that moves a nonce belongs
  to somebody alive.

- `OnesigTypeCorrect` (`SessionProofs`): what Flare pins and flags comes out of memos, so
  its type depends on what was written into them. `TypesInv` adds `Named`: which
  operand a session's program gives its encoder, which the round trips of `CodecProofs`
  carry to the dispatch.
- `SuccessIsItsOwn` (`SessionProofs`): `PassedMeansRan` says nothing of a session that has
  yet to take its second look, and nothing of the page, which takes none. `Looks` says that, between its two looks, a session that
  is alone with its account either ran or sees nothing new: the vault's balance, or for
  `gate1` the runs of the counter up to the last one of its own account, are what they
  were at the first look (`NothingNew`). `gate1` needs the second form because other
  accounts may increment meanwhile: it compares `lastCaller` too. That nobody else can
  make the account run is `AloneInv`.

What the theorems assume of the constants: sets of ticks and scripts are disjoint,
bounds are natural numbers, `Keccak` is injective on the operations, triggers and prices
are numbers, `Commitment` is what the memos carry; no schedule of fees takes more than
100% of a payment, fees and nonces fit in a field of at least one value.

`OneTick`, a hypothesis of five theorems, says that activations of `#tick` do not
overlap, which `setInterval` does not guarantee when a tick outlasts the interval. It
cannot be dropped. With two ticks, `pipeline_repay` is a counterexample to
`FeesPayForFaults`; the second submission's round arrives in a job that has moved on,
against `RoundIsFinal`; the slower tick writes a state the job has left, against
`NeverStepsBack`; both find no job and both save, against `BegunOnce`. That
`pipeline_operator` and `intake` have one tick is this hypothesis. `ReturnedIsPersisted`
assumes more: a script writes the same file (nothing locks it), and a failed `save()`
leaves the file behind the job that `#live` keeps. No theorem bounds the faults, the
scripts or the size of a page.

Only model-checked: what needs fairness (`FinishedUnlessKilled`, `OwedIsTakenOn`,
`NothingStaysArmed`), which is out of the prover's reach.

## Not modelled

- The Go tools that register a TEE: a sequence of on-chain transactions with a resume
  file.
- Of the demo contracts the registry, withdrawals and the token: no part of the flow
  uses them. `Onesig` has what `increment` and `deposit` show.
- Of the extension server HTTP, hexadecimal and the node's signing API; of
  `LatchInstructionSender` `setExtensionId` and `requestStatus`.
- Two Job objects for one payment (the overlapping polls above): `Pipeline` has one
  object per process.
- `executionAllowedAt` on several clocks, the value that the mint forwards
  (`totalCallValue`): data that no property tells apart. What 0xE2 does to the fee of
  a stuck payment: Flare keeps it, and nothing in the repository reads it.
- Wording, logging, the HTTP layer, what the web page shows besides its verdict, hexadecimal and ABI encoding, the
  verification scripts, the read-only deployment checks, the Go and Python templates
  that LATCH does not use.

## Plan

In this order:

1. `Executor`: `Intake` and one `Pipeline` job per payment composed over one disk, for
   the overlapping polls; the abstract relay (each payment is consumed at most once
   and reported only then) that it implements.
2. `Registration` (Go, resumable steps), the extension server's queue and the
   extension id of `LatchInstructionSender`, withdrawals of the vault.
3. Proofs about these: the refinement of the relay by the composition first, from
   `ExecutedInv` and `OnceInv`.
