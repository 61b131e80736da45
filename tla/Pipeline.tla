------------------------------ MODULE Pipeline ------------------------------
(***************************************************************************)
(* The executor's job for ONE XRPL payment: ExecutorPipeline.step and the   *)
(* drivers that call it (packages/executor/src/pipeline.ts, fdc.ts, the     *)
(* drive loop of service.ts, scripts/resume-job.ts, scripts/recover-mint.ts)*)
(* beside the parts of Flare it talks to: FdcHub, Relay, the DA layer and   *)
(* the AssetManager.                                                        *)
(*                                                                          *)
(* step() is an async function over a shared mutable Job.  It reads         *)
(* job.state, awaits a call, and only then assigns; every await is a point  *)
(* where another driver runs.  A driver is an activation of #tick (the      *)
(* service starts one per interval and never waits for the last one) or an  *)
(* operator's script, which has its own copy of the job.                    *)
(***************************************************************************)
EXTENDS Naturals

CONSTANTS
    Ticks,        \* activations of ExecutorService.#tick that may overlap
    Scripts,      \* runs of resume-job / recover-mint, one process each
    MaxAttempts,  \* the 5 of step()'s catch clause
    MaxFees,      \* bound: attestation requests that may reach FdcHub
    Faults,       \* kinds of fault the environment may inject
    MaxFaults,    \* bound: faults injected in one behaviour
    MaxRuns       \* bound: times an operator starts a script

FaultKinds == {"lag", "error", "receipt", "revert", "read", "disk", "crash", "rival"}

ASSUME ConstantsAssumption ==
    /\ MaxAttempts \in Nat \ {0}
    /\ MaxFees \in Nat
    /\ MaxFaults \in Nat
    /\ MaxRuns \in Nat
    /\ Faults \subseteq FaultKinds
    /\ Ticks \cap Scripts = {}
    /\ "service" \notin Scripts

Drivers == Ticks \cup Scripts
Procs == {"service"} \cup Scripts
Owner(d) == IF d \in Ticks THEN "service" ELSE d

JobState == {"observed", "request_prepared", "request_submitted", "round_finalized",
             "proof_fetched", "delayed", "executed", "failed"}

\* A job as some process or the state file holds it.  "absent" is no job and no
\* file; "torn" is a file that does not parse, which load() treats as no file.
Copy == [state    : JobState \cup {"absent", "torn"},
         request  : BOOLEAN,            \* abiEncodedRequest is set
         round    : Nat,                \* roundId, 0 while undefined
         attempts : 0 .. MaxAttempts]   \* saturates: only ">= 5" is tested

Absent   == [state |-> "absent",   request |-> FALSE, round |-> 0, attempts |-> 0]
Torn     == [state |-> "torn",     request |-> FALSE, round |-> 0, attempts |-> 0]
FreshJob == [state |-> "observed", request |-> FALSE, round |-> 0, attempts |-> 0]

\* The states whose case dereferences abiEncodedRequest!, and those that also
\* dereference roundId! (or whose successor does).
Submitted == {"request_submitted", "round_finalized", "proof_fetched", "delayed"}
Prepared == Submitted \cup {"request_prepared"}

Terminal(j) == j.state \in {"executed", "failed"}
IsJob(j) == j.state \in JobState

\* Where a driver is inside step().  "await": the switch is done and the first
\* call is out; "sent": a transaction is broadcast; "landed": requestAttestation
\* is mined; "minted", "held", "bounced": executeDirectMintingWithData is mined
\* and executed, was delayed, or reverted; "confirm": awaiting isTransactionIdUsed;
\* "save": before writeFile opens the file; "write": between its open and close.
PC == {"idle", "await", "sent", "landed", "minted", "held", "bounced",
       "confirm", "save", "write"}

Driver == [pc   : PC,
           at   : JobState \cup {"none"},  \* the case of the switch it took
           arg  : Nat,                     \* the round it passed or was given
           snap : Copy]                    \* the JSON being written

Idle   == [pc |-> "idle", at |-> "none", arg |-> 0, snap |-> Absent]
Saving == [Idle EXCEPT !.pc = "save"]

VARIABLES
    job,       \* the Job object of each process
    drv,       \* each driver's place in step()
    disk,      \* the job's file under .executor-state
    up,        \* the service process is running
    live,      \* the job is in ExecutorService.#live
    watch,     \* the running watcher has yet to report the payment
    fresh,     \* a watcher started now would begin at the payment's ledger or before
    now,       \* current voting round
    final,     \* last round the Relay finalised
    requests,  \* rounds that hold our attestation request
    fees,      \* attestation fees paid to FdcHub
    consumed,  \* who had the AssetManager consume the payment
    delay,     \* the AssetManager's rate limit on the payment
    orphans,   \* broadcast transactions nobody waits for any more
    faults,    \* history: faults injected so far
    errors,    \* history: non-retryable errors caught, saturating
    runs       \* history: scripts started so far

svcVars   == <<up, live, watch, fresh>>
fdcVars   == <<now, final, requests, fees>>
mintVars  == <<consumed, delay>>
chainVars == <<fdcVars, mintVars, orphans>>
vars == <<job, drv, disk, svcVars, chainVars, faults, errors, runs>>

TypeOK ==
    /\ job \in [Procs -> Copy]
    /\ drv \in [Drivers -> Driver]
    /\ disk \in Copy
    /\ up \in BOOLEAN /\ live \in BOOLEAN /\ watch \in BOOLEAN /\ fresh \in BOOLEAN
    /\ now \in Nat /\ final \in Nat /\ fees \in Nat
    /\ requests \subseteq Nat
    /\ consumed \in {"no", "us", "other"}
    /\ delay \in {"none", "pending", "over"}
    /\ orphans \subseteq {"submit", "mint"}
    /\ faults \in Nat
    /\ errors \in 0 .. MaxAttempts
    /\ runs \in Nat

\* The service is up, the payment is validated on the XRPL and its user
\* operation is registered; the watcher is about to report it.
Init ==
    /\ job = [p \in Procs |-> Absent]
    /\ drv = [d \in Drivers |-> Idle]
    /\ disk = Absent
    /\ up = TRUE /\ live = FALSE /\ watch = TRUE /\ fresh = TRUE
    /\ now = 1 /\ final = 0 /\ requests = {} /\ fees = 0
    /\ consumed = "no" /\ delay = "none"
    /\ orphans = {}
    /\ faults = 0 /\ errors = 0 /\ runs = 0

-----------------------------------------------------------------------------
(***************************************************************************)
(* How a driver leaves step().                                              *)
(***************************************************************************)

Inject(kind) == kind \in Faults /\ faults < MaxFaults /\ faults' = faults + 1

Bump(n) == IF n < MaxAttempts THEN n + 1 ELSE n

\* Mutant of Advance: the trailing save() is forgotten.
AdvanceUnsaved(d, j) ==
    /\ job' = [job EXCEPT ![Owner(d)] = [j EXCEPT !.attempts = 0]]
    /\ drv' = [drv EXCEPT ![d] = Idle]
    /\ UNCHANGED errors

\* The code after the switch: attempts = 0, delete lastError, save.
Advance(d, j) ==
    /\ job' = [job EXCEPT ![Owner(d)] = [j EXCEPT !.attempts = 0]]
    /\ drv' = [drv EXCEPT ![d] = Saving]
    /\ UNCHANGED errors

\* Mutant of Caught: an error starts the job over.
CaughtStartsOver(d, retryable) ==
    /\ job' = [job EXCEPT ![Owner(d)].state = "observed"]
    /\ drv' = [drv EXCEPT ![d] = Saving]
    /\ errors' = IF retryable THEN errors ELSE Bump(errors)

\* The tail of the catch clause.  Every error counts as an attempt, the retryable
\* ones too; "failed" overwrites whatever state the job is in by now.
Caught(d, retryable) ==
    LET j == job[Owner(d)]
        a == Bump(j.attempts)
        gaveUp == ~retryable /\ a >= MaxAttempts
    IN  /\ job' = [job EXCEPT ![Owner(d)] =
                      [j EXCEPT !.attempts = a,
                                !.state = IF gaveUp THEN "failed" ELSE @]]
        /\ drv' = [drv EXCEPT ![d] = Saving]
        /\ errors' = IF retryable THEN errors ELSE Bump(errors)

\* Mutant of Returned: the job leaves #live after every step.
ReturnedDrops(d) == live' = IF d \in Ticks THEN FALSE ELSE live

\* The drive loop after step() returns: live.set, then live.delete if terminal.
Returned(d) ==
    live' = IF d \in Ticks THEN ~Terminal(job["service"]) ELSE live

At(d, case) == drv[d].pc = "await" /\ drv[d].at = case

-----------------------------------------------------------------------------
(***************************************************************************)
(* Entering step(): the switch on job.state.                                *)
(***************************************************************************)

MayStep(d) ==
    /\ drv[d].pc = "idle"
    /\ d \in Ticks => up /\ live
    /\ IsJob(job[Owner(d)])

\* The cases that start with a call: the state and the round are read now, the
\* assignments happen when the call has returned.
StepBegins(d) ==
    LET j == job[Owner(d)] IN
    /\ MayStep(d)
    /\ ~Terminal(j) /\ j.state # "delayed"
    /\ drv' = [drv EXCEPT ![d] = [Idle EXCEPT !.pc = "await", !.at = j.state,
                                              !.arg = j.round]]
    /\ UNCHANGED <<job, disk, svcVars, chainVars, faults, errors, runs>>

\* Mutant of StepDelayed: back to a state no case of the switch knows.
StepDelayedUnknown(d) ==
    LET j == job[Owner(d)] IN
    /\ MayStep(d)
    /\ j.state = "delayed"
    /\ delay # "pending"
    /\ Advance(d, [j EXCEPT !.state = "proof_ready"])
    /\ UNCHANGED <<disk, svcVars, chainVars, faults, runs>>

\* case "delayed": returns unchanged until executionAllowedAt has passed.
StepDelayed(d) ==
    LET j == job[Owner(d)] IN
    /\ MayStep(d)
    /\ j.state = "delayed"
    /\ delay # "pending"
    /\ Advance(d, [j EXCEPT !.state = "proof_fetched"])
    /\ UNCHANGED <<disk, svcVars, chainVars, faults, runs>>

\* cases "executed" and "failed": step() returns and the loop drops the job
\* (create() handed over a finished job, or another driver finished it).
StepTerminal(d) ==
    /\ MayStep(d) /\ d \in Ticks
    /\ Terminal(job["service"])
    /\ Returned(d)
    /\ UNCHANGED <<job, drv, disk, up, watch, fresh, chainVars, faults, errors, runs>>

-----------------------------------------------------------------------------
(***************************************************************************)
(* The calls of step(), each with its failures.                             *)
(***************************************************************************)

\* observed: FdcClient.prepareRequest.
PrepareReturns(d) ==
    /\ At(d, "observed")
    /\ Advance(d, [job[Owner(d)] EXCEPT !.request = TRUE, !.state = "request_prepared"])
    /\ UNCHANGED <<disk, svcVars, chainVars, faults, runs>>

\* VerifierNotReadyError or DaLayerNotReadyError: an index behind its chain.
CallLags(d) ==
    /\ Inject("lag")
    /\ \E case \in {"observed", "round_finalized", "proof_fetched"} : At(d, case)
    /\ Caught(d, TRUE)
    /\ UNCHANGED <<disk, svcVars, chainVars, runs>>

\* Any other error of the awaited call, before a transaction is broadcast.
CallFails(d) ==
    /\ Inject("error")
    /\ drv[d].pc = "await"
    /\ Caught(d, FALSE)
    /\ UNCHANGED <<disk, svcVars, chainVars, runs>>

\* request_prepared: FdcClient.submitRequest broadcasts requestAttestation ...
SubmitSends(d) ==
    /\ At(d, "request_prepared")
    /\ drv' = [drv EXCEPT ![d].pc = "sent"]
    /\ UNCHANGED <<job, disk, svcVars, chainVars, faults, errors, runs>>

\* ... which is mined in the current voting round and takes the fee,
SubmitLands(d) ==
    /\ drv[d].pc = "sent" /\ drv[d].at = "request_prepared"
    /\ fees < MaxFees
    /\ fees' = fees + 1
    /\ requests' = requests \cup {now}
    /\ drv' = [drv EXCEPT ![d].pc = "landed", ![d].arg = now]
    /\ UNCHANGED <<job, disk, svcVars, now, final, mintVars, orphans, faults, errors, runs>>

\* or is mined and reverts: submitRequest does not look at receipt.status.
SubmitReverts(d) ==
    /\ Inject("revert")
    /\ drv[d].pc = "sent" /\ drv[d].at = "request_prepared"
    /\ drv' = [drv EXCEPT ![d].pc = "landed", ![d].arg = now]
    /\ UNCHANGED <<job, disk, svcVars, chainVars, errors, runs>>

\* Mutant of SubmitReturns: roundId is not stored.
SubmitReturnsNoRound(d) ==
    /\ drv[d].pc = "landed"
    /\ Advance(d, [job[Owner(d)] EXCEPT !.state = "request_submitted"])
    /\ UNCHANGED <<disk, svcVars, chainVars, faults, runs>>

SubmitReturns(d) ==
    /\ drv[d].pc = "landed"
    /\ Advance(d, [job[Owner(d)] EXCEPT !.round = drv[d].arg, !.state = "request_submitted"])
    /\ UNCHANGED <<disk, svcVars, chainVars, faults, runs>>

\* Mutants of FinalityReturns: the answer is ignored; "not yet" submits again.
FinalityIgnored(d) ==
    /\ At(d, "request_submitted")
    /\ Advance(d, [job[Owner(d)] EXCEPT !.state = "round_finalized"])
    /\ UNCHANGED <<disk, svcVars, chainVars, faults, runs>>

FinalityResubmits(d) ==
    /\ At(d, "request_submitted")
    /\ Advance(d, [job[Owner(d)] EXCEPT !.state =
                     IF drv[d].arg <= final THEN "round_finalized" ELSE "request_prepared"])
    /\ UNCHANGED <<disk, svcVars, chainVars, faults, runs>>

\* request_submitted: FdcClient.isRoundFinalized of the round read at the switch.
\* "Not yet" returns without saving.
FinalityReturns(d) ==
    /\ At(d, "request_submitted")
    /\ \/ /\ drv[d].arg <= final
          /\ Advance(d, [job[Owner(d)] EXCEPT !.state = "round_finalized"])
          /\ UNCHANGED live
       \/ /\ drv[d].arg > final
          /\ drv' = [drv EXCEPT ![d] = Idle]
          /\ Returned(d)
          /\ UNCHANGED <<job, errors>>
    /\ UNCHANGED <<disk, up, watch, fresh, chainVars, faults, runs>>

\* The DA layer serves a proof for a round that is final and holds our request.
ProofAvailable(round) == round <= final /\ round \in requests

\* round_finalized: FdcClient.fetchProof.
ProofReturns(d) ==
    /\ At(d, "round_finalized")
    /\ IF ProofAvailable(drv[d].arg)
       THEN Advance(d, [job[Owner(d)] EXCEPT !.state = "proof_fetched"])
       ELSE Caught(d, TRUE)
    /\ UNCHANGED <<disk, svcVars, chainVars, faults, runs>>

\* proof_fetched: fetchProof again; then executeDirectMintingWithData is estimated
\* and broadcast.  Estimation fails if the payment is consumed (with the selector of
\* PaymentAlreadyConfirmed) or still rate-limited.
MintSends(d) ==
    /\ At(d, "proof_fetched")
    /\ ProofAvailable(drv[d].arg)
    /\ consumed = "no" /\ delay # "pending"
    /\ drv' = [drv EXCEPT ![d].pc = "sent"]
    /\ UNCHANGED <<job, disk, svcVars, chainVars, faults, errors, runs>>

MintRefused(d) ==
    /\ At(d, "proof_fetched")
    /\ \/ /\ ~ProofAvailable(drv[d].arg)
          /\ Caught(d, TRUE)
       \/ /\ ProofAvailable(drv[d].arg)
          /\ consumed = "no" /\ delay = "pending"
          /\ Caught(d, FALSE)
       \/ /\ ProofAvailable(drv[d].arg)
          /\ consumed # "no"
          /\ job[Owner(d)].state # "proof_fetched"
          /\ Caught(d, FALSE)
       \/ /\ ProofAvailable(drv[d].arg)
          /\ consumed # "no"
          /\ job[Owner(d)].state = "proof_fetched"
          /\ drv' = [drv EXCEPT ![d].pc = "confirm"]
          /\ UNCHANGED <<job, errors>>
    /\ UNCHANGED <<disk, svcVars, chainVars, faults, runs>>

\* The AssetManager runs the transaction: it reverts if someone was faster, and
\* otherwise mints, or starts a rate-limit delay (once) and emits its event.
AssetManagerRuns(executed, delayed, reverted) ==
    \/ consumed = "no" /\ delay # "pending" /\ consumed' = "us" /\ delay' = delay /\ executed
    \/ consumed = "no" /\ delay = "none" /\ delay' = "pending" /\ consumed' = consumed /\ delayed
    \/ (consumed # "no" \/ delay = "pending") /\ UNCHANGED mintVars /\ reverted

MintLands(d) ==
    LET mined(pc) == drv' = [drv EXCEPT ![d].pc = pc] IN
    /\ drv[d].pc = "sent" /\ drv[d].at = "proof_fetched"
    /\ AssetManagerRuns(mined("minted"), mined("held"), mined("bounced"))
    /\ UNCHANGED <<job, disk, svcVars, fdcVars, orphans, faults, errors, runs>>

\* Mutant of MintReturns: the delay event is not looked for.
MintReturnsUndelayed(d) ==
    LET j == job[Owner(d)] IN
    /\ \/ drv[d].pc \in {"minted", "held"} /\ Advance(d, [j EXCEPT !.state = "executed"])
       \/ drv[d].pc = "bounced" /\ Caught(d, FALSE)
    /\ UNCHANGED <<disk, svcVars, chainVars, faults, runs>>

\* The receipt: reverted throws, a delay event parks the job, else it is executed.
MintReturns(d) ==
    LET j == job[Owner(d)] IN
    /\ \/ drv[d].pc = "minted"  /\ Advance(d, [j EXCEPT !.state = "executed"])
       \/ drv[d].pc = "held"    /\ Advance(d, [j EXCEPT !.state = "delayed"])
       \/ drv[d].pc = "bounced" /\ Caught(d, FALSE)
    /\ UNCHANGED <<disk, svcVars, chainVars, faults, runs>>

\* A call after the broadcast fails (waitForTransactionReceipt times out, getBlock or
\* a read throws).  A transaction not mined by then may still be mined later.
ReceiptLost(d) ==
    /\ Inject("receipt")
    /\ drv[d].pc \in {"sent", "landed", "minted", "held", "bounced"}
    /\ orphans' = IF drv[d].pc # "sent" THEN orphans
                  ELSE orphans \cup {IF drv[d].at = "proof_fetched" THEN "mint" ELSE "submit"}
    /\ Caught(d, FALSE)
    /\ UNCHANGED <<disk, svcVars, fdcVars, mintVars, runs>>

\* #isTransactionUsed: true makes the job executed, attempts untouched; false or a
\* failed read falls through to the tail of the catch clause.
ConfirmReturns(d) ==
    /\ drv[d].pc = "confirm"
    /\ \/ /\ consumed # "no"
          /\ job' = [job EXCEPT ![Owner(d)].state = "executed"]
          /\ drv' = [drv EXCEPT ![d] = Saving]
          /\ UNCHANGED <<faults, errors>>
       \/ /\ Inject("read")
          /\ Caught(d, FALSE)
    /\ UNCHANGED <<disk, svcVars, chainVars, runs>>

-----------------------------------------------------------------------------
(***************************************************************************)
(* save(): mkdir, then writeFile, which truncates, writes and closes.       *)
(***************************************************************************)

SaveOpens(d) ==
    /\ drv[d].pc = "save"
    /\ disk' = Torn
    /\ drv' = [drv EXCEPT ![d] = [Idle EXCEPT !.pc = "write", !.snap = job[Owner(d)]]]
    /\ UNCHANGED <<job, svcVars, chainVars, faults, errors, runs>>

\* A writer that finds another's bytes in the file it truncated overwrites them
\* from the start: the longer tail of the other may remain.
SaveCloses(d) ==
    /\ drv[d].pc = "write"
    /\ \/ disk' = drv[d].snap
       \/ IsJob(disk) /\ disk' = Torn
    /\ drv' = [drv EXCEPT ![d] = Idle]
    /\ Returned(d)
    /\ UNCHANGED <<job, up, watch, fresh, chainVars, faults, errors, runs>>

\* mkdir or writeFile rejects: step() throws.  The drive loop logs and goes on with
\* the job in memory; a script dies with its copy.
SaveFails(d) ==
    /\ Inject("disk")
    /\ drv[d].pc \in {"save", "write"}
    /\ drv' = [drv EXCEPT ![d] = Idle]
    /\ job' = IF d \in Ticks THEN job ELSE [job EXCEPT ![d] = Absent]
    /\ UNCHANGED <<disk, svcVars, chainVars, errors, runs>>

-----------------------------------------------------------------------------
(***************************************************************************)
(* The service's intake and its crashes; the operator's scripts.            *)
(***************************************************************************)

\* #tick's first half for the payment: load() what the disk has, else write a
\* fresh job; then live.set.  Until then no tick has the job, so it is one step here;
\* Intake takes its awaits one by one.
CreateJob ==
    LET j == IF IsJob(disk) THEN disk ELSE FreshJob IN
    /\ up /\ watch
    /\ watch' = FALSE
    /\ job' = [job EXCEPT !["service"] = j]
    /\ disk' = j
    /\ live' = TRUE
    /\ UNCHANGED <<drv, up, fresh, chainVars, faults, errors, runs>>

\* create() fails on the disk: the watcher has already marked the payment seen.
CreateFails ==
    /\ Inject("disk")
    /\ up /\ watch /\ ~IsJob(disk)
    /\ watch' = FALSE
    /\ disk' \in {disk, Torn}
    /\ UNCHANGED <<job, drv, up, live, fresh, chainVars, errors, runs>>

\* A crash loses the Job object, #live and the watcher; the file stays as it is.
Crash ==
    LET sent(case) == \E d \in Ticks : drv[d].pc = "sent" /\ drv[d].at = case IN
    /\ Inject("crash")
    /\ up
    /\ up' = FALSE /\ live' = FALSE /\ watch' = FALSE
    /\ job' = [job EXCEPT !["service"] = Absent]
    /\ drv' = [d \in Drivers |-> IF d \in Ticks THEN Idle ELSE drv[d]]
    /\ orphans' = orphans \cup (IF sent("request_prepared") THEN {"submit"} ELSE {})
                          \cup (IF sent("proof_fetched") THEN {"mint"} ELSE {})
    /\ UNCHANGED <<disk, fresh, fdcVars, mintVars, errors, runs>>

\* start(): #live is empty and the watcher only looks forward from the ledger that is
\* open at the server that answers.  No persisted job is loaded.
Restart ==
    /\ ~up
    /\ up' = TRUE /\ watch' = fresh
    /\ UNCHANGED <<job, drv, disk, live, fresh, chainVars, faults, errors, runs>>

\* resume-job.ts: load the job, reset a failed one to "observed" and save it,
\* then run().
ResumeStarts(s) ==
    /\ runs < MaxRuns /\ runs' = runs + 1
    /\ ~IsJob(job[s]) /\ drv[s].pc = "idle"
    /\ IsJob(disk)
    /\ IF disk.state = "failed"
       THEN /\ job' = [job EXCEPT ![s] = [disk EXCEPT !.state = "observed", !.attempts = 0]]
            /\ drv' = [drv EXCEPT ![s] = Saving]
       ELSE /\ job' = [job EXCEPT ![s] = disk]
            /\ UNCHANGED drv
    /\ UNCHANGED <<disk, svcVars, chainVars, faults, errors>>

\* recover-mint.ts resets the stuck job whatever its state.
RecoverStarts(s) ==
    /\ runs < MaxRuns /\ runs' = runs + 1
    /\ ~IsJob(job[s]) /\ drv[s].pc = "idle"
    /\ IsJob(disk)
    /\ job' = [job EXCEPT ![s] = [disk EXCEPT !.state = "observed", !.attempts = 0]]
    /\ drv' = [drv EXCEPT ![s] = Saving]
    /\ UNCHANGED <<disk, svcVars, chainVars, faults, errors>>

\* run() stops when the job is terminal or its deadline has passed.
ScriptExits(s) ==
    /\ IsJob(job[s]) /\ drv[s].pc = "idle"
    /\ job' = [job EXCEPT ![s] = Absent]
    /\ UNCHANGED <<drv, disk, svcVars, chainVars, faults, errors, runs>>

-----------------------------------------------------------------------------
(***************************************************************************)
(* Flare and the XRPL: rounds, the rate limit, other relayers, late blocks. *)
(***************************************************************************)

\* Rounds that hold no request of ours are not told apart.
RoundEnds ==
    /\ \/ now \in requests
       \/ \E d \in Drivers : drv[d].pc = "landed" /\ drv[d].arg = now
       \/ \E p \in Procs : job[p].round = now
    /\ now' = now + 1
    /\ UNCHANGED <<job, drv, disk, svcVars, final, requests, fees, mintVars, orphans, faults, errors, runs>>

RelayFinalizes ==
    /\ final + 1 < now
    /\ final' = final + 1
    /\ UNCHANGED <<job, drv, disk, svcVars, now, requests, fees, mintVars, orphans, faults, errors, runs>>

DelayEnds ==
    /\ delay = "pending"
    /\ delay' = "over"
    /\ UNCHANGED <<job, drv, disk, svcVars, fdcVars, consumed, orphans, faults, errors, runs>>

\* Another relayer finalises the payment with a proof of its own.
RivalMints ==
    /\ "rival" \in Faults
    /\ consumed = "no" /\ delay # "pending"
    /\ consumed' = "other"
    /\ UNCHANGED <<job, drv, disk, svcVars, fdcVars, delay, orphans, faults, errors, runs>>

OrphanLands ==
    /\ \/ /\ "submit" \in orphans /\ fees < MaxFees
          /\ orphans' = orphans \ {"submit"}
          /\ fees' = fees + 1 /\ requests' = requests \cup {now}
          /\ UNCHANGED mintVars
       \/ /\ "mint" \in orphans
          /\ orphans' = orphans \ {"mint"}
          /\ AssetManagerRuns(TRUE, TRUE, TRUE)
          /\ UNCHANGED <<fees, requests>>
    /\ UNCHANGED <<job, drv, disk, svcVars, now, final, faults, errors, runs>>

\* Every server's open ledger is beyond the payment's.
LedgerCloses ==
    /\ fresh
    /\ fresh' = FALSE
    /\ UNCHANGED <<job, drv, disk, up, live, watch, chainVars, faults, errors, runs>>

-----------------------------------------------------------------------------

\* What a driver does when nothing goes wrong ...
Progress(d) ==
    \/ StepBegins(d) \/ StepDelayed(d) \/ StepTerminal(d)
    \/ PrepareReturns(d)
    \/ SubmitSends(d) \/ SubmitLands(d) \/ SubmitReturns(d)
    \/ FinalityReturns(d) \/ ProofReturns(d)
    \/ MintSends(d) \/ MintRefused(d) \/ MintLands(d) \/ MintReturns(d)
    \/ ConfirmReturns(d)
    \/ SaveOpens(d) \/ SaveCloses(d)

\* ... and what its environment may do to it.
Mishap(d) ==
    CallLags(d) \/ CallFails(d) \/ SubmitReverts(d) \/ ReceiptLost(d) \/ SaveFails(d)

Script(s) == ResumeStarts(s) \/ RecoverStarts(s) \/ ScriptExits(s)

Service == CreateJob \/ CreateFails \/ Crash \/ Restart

Flare == RoundEnds \/ RelayFinalizes \/ DelayEnds \/ RivalMints \/ OrphanLands \/ LedgerCloses

Next ==
    \/ \E d \in Drivers : Progress(d) \/ Mishap(d)
    \/ \E s \in Scripts : Script(s)
    \/ Service
    \/ Flare

Spec == Init /\ [][Next]_vars

\* The interval timer keeps calling step(); pending calls and transactions return;
\* a supervisor restarts the service; rounds end and are finalised.  No fault, no
\* rival and no operator is assumed to act.
Fairness ==
    /\ \A d \in Ticks : WF_vars(Progress(d))
    /\ WF_vars(CreateJob) /\ WF_vars(Restart)
    /\ WF_vars(RoundEnds) /\ WF_vars(RelayFinalizes) /\ WF_vars(DelayEnds)

FairSpec == Spec /\ Fairness

-----------------------------------------------------------------------------
(***************************************************************************)
(* Properties.                                                              *)
(***************************************************************************)

Copies == {job[p] : p \in Procs} \cup {disk} \cup {drv[d].snap : d \in Drivers}

\* Wherever a job says "executed" - in memory, in the file, or in bytes on their way
\* to the file - the AssetManager has consumed the payment: step() reports success
\* only from a receipt without a delay event or from isTransactionIdUsed, under every
\* overlap of ticks and scripts, lost receipt and crash.
ExecutedMeansConsumed ==
    \A c \in Copies : c.state = "executed" => consumed # "no"

\* The non-null assertions of step() (job.abiEncodedRequest!, job.roundId!) hold: no
\* copy is in a state that dereferences a field it does not have, even when drivers
\* overwrite each other or a script rewinds the job.
FieldsBeforeUse ==
    \A c \in Copies :
        /\ c.state \in Prepared => c.request
        /\ c.state \in Submitted => c.round # 0

\* Every attestation fee after the first is the price of a fault or of an operator's
\* script: without a lost receipt, a failed save, a crash or a second process the
\* payment is attested once (pipeline.ts:7-8, "resubmitting costs another fee and
\* another round").
FeesPayForFaults == fees <= 1 + faults + runs

\* A job past "request_submitted" carries a round the Relay has finalised, so that
\* the proof it is about to ask for belongs to the request it paid for.
RoundIsFinal ==
    \A c \in Copies :
        c.state \in {"round_finalized", "proof_fetched", "delayed"} => c.round <= final

\* pipeline.ts:148-150, "Each transition is persisted before returning": when no
\* driver is inside step(), the file holds the job in memory, for as long as no operator's
\* script was started on the same file.
PersistedBeforeReturn ==
    (runs = 0 /\ live /\ \A d \in Drivers : drv[d].pc = "idle") => disk = job["service"]

\* docs/WHATS-NEW.md:47-48, "Verifier lag and DA-layer lag retry indefinitely; genuine
\* errors give up after five attempts": a job that gave up met MaxAttempts of them.
GivesUpAfterFiveErrors ==
    \A c \in Copies : c.state = "failed" => errors >= MaxAttempts

Rank(s) ==
    CASE s = "observed" -> 1 [] s = "request_prepared" -> 2 [] s = "request_submitted" -> 3
      [] s = "round_finalized" -> 4 [] s \in {"proof_fetched", "delayed"} -> 5
      [] s \in {"executed", "failed"} -> 6

\* The service's job only moves forward, and a finished job stays finished, until the
\* process dies (pipeline.ts:148-150, "the next call resumes exactly where this one
\* stopped").
NeverStepsBack ==
    [][LET old == job["service"]
           new == job'["service"]
       IN  IsJob(old) /\ IsJob(new) =>
              /\ Rank(old.state) <= Rank(new.state)
              /\ Terminal(old) => new.state = old.state]_vars

\* Every state of a job is left again (pipeline.ts:152-246), after lags, errors, lost
\* receipts and failed mints, and beside an operator's copy of the job that writes the
\* same file: unless it dies, the service brings a job it drives to an end.
FinishedUnlessKilled ==
    live ~> (consumed # "no" \/ Terminal(job["service"]) \/ ~up)

\* service.ts:12-14, "a restart resumes everything from disk": a payment the service
\* has taken on is driven to the end.
TakenOnIsFinished == IsJob(disk) ~> (consumed # "no" \/ Terminal(disk))

=============================================================================
