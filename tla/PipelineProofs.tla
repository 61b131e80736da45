--------------------------- MODULE PipelineProofs ---------------------------
(***************************************************************************)
(* Proofs about Pipeline, for every set of ticks and scripts, every kind    *)
(* and number of faults and every value of the bounds.                      *)
(***************************************************************************)
EXTENDS Pipeline, TLAPS

USE ConstantsAssumption DEF ConstantsAssumption

\* The process whose Job object a driver works on is one of the processes.
LEMMA OwnerIsProc == \A d \in Drivers : Owner(d) \in Procs
  BY DEF Drivers, Procs, Owner

\* The job create() starts with, the absent and torn files and the resting places
\* of a driver have their types.
LEMMA ConstantRecords ==
  /\ Absent \in Copy /\ Torn \in Copy /\ FreshJob \in Copy
  /\ Idle \in Driver /\ Saving \in Driver
  <1>1. Absent \in Copy /\ Torn \in Copy /\ FreshJob \in Copy
    BY DEF Absent, Torn, FreshJob, Copy, JobState
  <1>2. Idle \in Driver
    BY <1>1 DEF Idle, Driver, PC
  <1>3. Saving \in Driver
    BY <1>2 DEF Saving, Driver, PC
  <1> QED
    BY <1>1, <1>2, <1>3

\* The saturating attempts counter stays within its range.
LEMMA BumpType == \A n \in 0 .. MaxAttempts : Bump(n) \in 0 .. MaxAttempts
  BY DEF Bump

\* The fault counter stays a natural number.
LEMMA InjectType ==
  ASSUME TypeOK, NEW kind, Inject(kind)
  PROVE  faults' \in Nat
  BY DEF Inject, TypeOK

\* A job that a script rewinds to "observed" is still a job.
LEMMA RewoundType ==
  ASSUME NEW j \in Copy
  PROVE  [j EXCEPT !.state = "observed", !.attempts = 0] \in Copy
  <1>1. 0 \in 0 .. MaxAttempts
    OBVIOUS
  <1> QED
    BY <1>1 DEF Copy, JobState

\* The tail of a successful step() keeps the types.
LEMMA AdvanceType ==
  ASSUME TypeOK, NEW d \in Drivers, NEW j \in Copy, Advance(d, j)
  PROVE  /\ job' \in [Procs -> Copy]
         /\ drv' \in [Drivers -> Driver]
         /\ errors' \in 0 .. MaxAttempts
  <1>1. [j EXCEPT !.attempts = 0] \in Copy
    BY DEF Copy
  <1> QED
    BY <1>1, ConstantRecords, OwnerIsProc DEF Advance, TypeOK

\* The tail of the catch clause keeps the types.
LEMMA CaughtType ==
  ASSUME TypeOK, NEW d \in Drivers, NEW r \in BOOLEAN, Caught(d, r)
  PROVE  /\ job' \in [Procs -> Copy]
         /\ drv' \in [Drivers -> Driver]
         /\ errors' \in 0 .. MaxAttempts
  <1> DEFINE j == job[Owner(d)]
             a == Bump(j.attempts)
             k == [j EXCEPT !.attempts = a,
                            !.state = IF ~r /\ a >= MaxAttempts THEN "failed" ELSE @]
  <1>1. j \in Copy
    BY OwnerIsProc DEF TypeOK
  <1>2. a \in 0 .. MaxAttempts
    BY <1>1, BumpType DEF Copy
  <1>3. k \in Copy
    BY <1>1, <1>2 DEF Copy, JobState
  <1>4. errors' \in 0 .. MaxAttempts
    BY BumpType DEF Caught, TypeOK
  <1>5. job' = [job EXCEPT ![Owner(d)] = k] /\ drv' = [drv EXCEPT ![d] = Saving]
    BY DEF Caught
  <1> QED
    BY <1>3, <1>4, <1>5, ConstantRecords, OwnerIsProc DEF TypeOK

-----------------------------------------------------------------------------
(***************************************************************************)
(* Type correctness.                                                        *)
(***************************************************************************)

\* A driver's own step keeps the types.
LEMMA ProgressType ==
  ASSUME TypeOK, NEW d \in Drivers, Progress(d)
  PROVE  TypeOK'
  <1> DEFINE o == Owner(d)
  <1> USE DEF TypeOK, svcVars, chainVars, fdcVars, mintVars
  <1>j. job[o] \in Copy /\ drv[d] \in Driver
    BY OwnerIsProc
  <1>1. CASE StepBegins(d)
    <2>1. [Idle EXCEPT !.pc = "await", !.at = job[o].state, !.arg = job[o].round] \in Driver
      <3>1. job[o].state \in JobState
        BY <1>1 DEF StepBegins, MayStep, IsJob
      <3> QED
        BY <1>j, <3>1, ConstantRecords DEF Copy, Driver, PC
    <2> QED
      BY <1>1, <2>1 DEF StepBegins
  <1>2. CASE StepDelayed(d)
    <2>1. [job[o] EXCEPT !.state = "proof_fetched"] \in Copy
      BY <1>j DEF Copy, JobState
    <2> QED
      BY <1>2, <2>1, AdvanceType DEF StepDelayed
  <1>3. CASE StepTerminal(d)
    BY <1>3 DEF StepTerminal, Returned
  <1>4. CASE PrepareReturns(d)
    <2>1. [job[o] EXCEPT !.request = TRUE, !.state = "request_prepared"] \in Copy
      BY <1>j DEF Copy, JobState
    <2> QED
      BY <1>4, <2>1, AdvanceType DEF PrepareReturns
  <1>5. CASE SubmitSends(d)
    <2>1. [drv[d] EXCEPT !.pc = "sent"] \in Driver
      BY <1>j DEF Driver, PC
    <2> QED
      BY <1>5, <2>1 DEF SubmitSends
  <1>6. CASE SubmitLands(d)
    <2>1. [drv[d] EXCEPT !.pc = "landed", !.arg = now] \in Driver
      BY <1>j DEF Driver, PC
    <2>2. drv' = [drv EXCEPT ![d] = [drv[d] EXCEPT !.pc = "landed", !.arg = now]]
      BY <1>6 DEF SubmitLands
    <2> QED
      BY <1>6, <2>1, <2>2 DEF SubmitLands
  <1>7. CASE SubmitReturns(d)
    <2>1. [job[o] EXCEPT !.round = drv[d].arg, !.state = "request_submitted"] \in Copy
      BY <1>j DEF Copy, JobState, Driver
    <2> QED
      BY <1>7, <2>1, AdvanceType DEF SubmitReturns
  <1>8. CASE FinalityReturns(d)
    <2>1. [job[o] EXCEPT !.state = "round_finalized"] \in Copy
      BY <1>j DEF Copy, JobState
    <2>2. CASE Advance(d, [job[o] EXCEPT !.state = "round_finalized"]) /\ UNCHANGED live
      BY <1>8, <2>1, <2>2, AdvanceType DEF FinalityReturns
    <2>3. CASE drv' = [drv EXCEPT ![d] = Idle] /\ Returned(d) /\ UNCHANGED <<job, errors>>
      BY <1>8, <2>3, ConstantRecords DEF FinalityReturns, Returned
    <2> QED
      BY <1>8, <2>2, <2>3 DEF FinalityReturns
  <1>9. CASE ProofReturns(d)
    <2>1. [job[o] EXCEPT !.state = "proof_fetched"] \in Copy
      BY <1>j DEF Copy, JobState
    <2>2. CASE Advance(d, [job[o] EXCEPT !.state = "proof_fetched"])
      BY <1>9, <2>1, <2>2, AdvanceType DEF ProofReturns
    <2>3. CASE Caught(d, TRUE)
      BY <1>9, <2>3, CaughtType DEF ProofReturns
    <2> QED
      BY <1>9, <2>2, <2>3 DEF ProofReturns
  <1>10. CASE MintSends(d)
    <2>1. [drv[d] EXCEPT !.pc = "sent"] \in Driver
      BY <1>j DEF Driver, PC
    <2> QED
      BY <1>10, <2>1 DEF MintSends
  <1>11. CASE MintRefused(d)
    <2>1. [drv[d] EXCEPT !.pc = "confirm"] \in Driver
      BY <1>j DEF Driver, PC
    <2>2. CASE Caught(d, TRUE)
      BY <1>11, <2>2, CaughtType DEF MintRefused
    <2>3. CASE Caught(d, FALSE)
      BY <1>11, <2>3, CaughtType DEF MintRefused
    <2>4. CASE drv' = [drv EXCEPT ![d].pc = "confirm"] /\ UNCHANGED <<job, errors>>
      BY <1>11, <2>1, <2>4 DEF MintRefused
    <2> QED
      BY <1>11, <2>2, <2>3, <2>4 DEF MintRefused
  <1>12. CASE MintLands(d)
    <2>1. \A pc \in PC : [drv[d] EXCEPT !.pc = pc] \in Driver
      BY <1>j DEF Driver
    <2>2. /\ consumed' \in {"no", "us", "other"} /\ delay' \in {"none", "pending", "over"}
          /\ \E pc \in PC : drv' = [drv EXCEPT ![d] = [drv[d] EXCEPT !.pc = pc]]
      BY <1>12 DEF MintLands, AssetManagerRuns, PC
    <2> QED
      BY <1>12, <2>1, <2>2 DEF MintLands
  <1>13. CASE MintReturns(d)
    <2>1. /\ [job[o] EXCEPT !.state = "executed"] \in Copy
          /\ [job[o] EXCEPT !.state = "delayed"] \in Copy
      BY <1>j DEF Copy, JobState
    <2>2. CASE Advance(d, [job[o] EXCEPT !.state = "executed"])
      BY <1>13, <2>1, <2>2, AdvanceType DEF MintReturns
    <2>3. CASE Advance(d, [job[o] EXCEPT !.state = "delayed"])
      BY <1>13, <2>1, <2>3, AdvanceType DEF MintReturns
    <2>4. CASE Caught(d, FALSE)
      BY <1>13, <2>4, CaughtType DEF MintReturns
    <2> QED
      BY <1>13, <2>2, <2>3, <2>4 DEF MintReturns
  <1>14. CASE ConfirmReturns(d)
    <2>1. [job[o] EXCEPT !.state = "executed"] \in Copy
      BY <1>j DEF Copy, JobState
    <2>2. CASE /\ job' = [job EXCEPT ![o] = [job[o] EXCEPT !.state = "executed"]]
               /\ drv' = [drv EXCEPT ![d] = Saving]
               /\ UNCHANGED <<faults, errors>>
      BY <1>14, <2>1, <2>2, ConstantRecords, OwnerIsProc DEF ConfirmReturns
    <2>3. CASE Inject("read") /\ Caught(d, FALSE)
      <3>1. job' \in [Procs -> Copy] /\ drv' \in [Drivers -> Driver] /\ errors' \in 0 .. MaxAttempts
        BY <2>3, CaughtType
      <3>2. faults' \in Nat
        BY <2>3, InjectType
      <3> QED
        BY <1>14, <3>1, <3>2 DEF ConfirmReturns
    <2> QED
      BY <1>14, <2>2, <2>3 DEF ConfirmReturns
  <1>15. CASE SaveOpens(d)
    <2>1. [Idle EXCEPT !.pc = "write", !.snap = job[o]] \in Driver
      BY <1>j, ConstantRecords DEF Driver, PC
    <2> QED
      BY <1>15, <2>1, ConstantRecords DEF SaveOpens
  <1>16. CASE SaveCloses(d)
    <2>1. disk' \in Copy
      BY <1>16, <1>j, ConstantRecords DEF SaveCloses, Driver
    <2>2. live' \in BOOLEAN
      BY <1>16 DEF SaveCloses, Returned
    <2> QED
      BY <1>16, <2>1, <2>2, ConstantRecords DEF SaveCloses
  <1> QED
    BY <1>1, <1>2, <1>3, <1>4, <1>5, <1>6, <1>7, <1>8, <1>9, <1>10, <1>11, <1>12,
       <1>13, <1>14, <1>15, <1>16 DEF Progress

\* So does what the environment does to a driver.
LEMMA MishapType ==
  ASSUME TypeOK, NEW d \in Drivers, Mishap(d)
  PROVE  TypeOK'
  <1> USE DEF TypeOK, svcVars, chainVars, fdcVars, mintVars
  <1>j. job[Owner(d)] \in Copy /\ drv[d] \in Driver
    BY OwnerIsProc
  <1>1. CASE CallLags(d)
    <2>1. job' \in [Procs -> Copy] /\ drv' \in [Drivers -> Driver] /\ errors' \in 0 .. MaxAttempts
      BY <1>1, CaughtType DEF CallLags
    <2>2. faults' \in Nat
      BY <1>1, InjectType DEF CallLags
    <2> QED
      BY <1>1, <2>1, <2>2 DEF CallLags
  <1>2. CASE CallFails(d)
    <2>1. job' \in [Procs -> Copy] /\ drv' \in [Drivers -> Driver] /\ errors' \in 0 .. MaxAttempts
      BY <1>2, CaughtType DEF CallFails
    <2>2. faults' \in Nat
      BY <1>2, InjectType DEF CallFails
    <2> QED
      BY <1>2, <2>1, <2>2 DEF CallFails
  <1>3. CASE SubmitReverts(d)
    <2>1. [drv[d] EXCEPT !.pc = "landed", !.arg = now] \in Driver
      BY <1>j DEF Driver, PC
    <2>2. drv' = [drv EXCEPT ![d] = [drv[d] EXCEPT !.pc = "landed", !.arg = now]]
      BY <1>3 DEF SubmitReverts
    <2>3. faults' \in Nat
      BY <1>3, InjectType DEF SubmitReverts
    <2> QED
      BY <1>3, <2>1, <2>2, <2>3 DEF SubmitReverts
  <1>4. CASE ReceiptLost(d)
    <2>1. orphans' \subseteq {"submit", "mint"}
      BY <1>4 DEF ReceiptLost
    <2>2. job' \in [Procs -> Copy] /\ drv' \in [Drivers -> Driver] /\ errors' \in 0 .. MaxAttempts
      BY <1>4, CaughtType DEF ReceiptLost
    <2>3. faults' \in Nat
      BY <1>4, InjectType DEF ReceiptLost
    <2> QED
      BY <1>4, <2>1, <2>2, <2>3 DEF ReceiptLost
  <1>5. CASE SaveFails(d)
    <2>1. job' \in [Procs -> Copy]
      BY <1>5, ConstantRecords DEF SaveFails
    <2>2. faults' \in Nat
      BY <1>5, InjectType DEF SaveFails
    <2> QED
      BY <1>5, <2>1, <2>2, ConstantRecords DEF SaveFails
  <1> QED
    BY <1>1, <1>2, <1>3, <1>4, <1>5 DEF Mishap

\* So do the operator's scripts, the service's intake and crashes, and Flare.
LEMMA SurroundingsType ==
  ASSUME TypeOK, (\E s \in Scripts : Script(s)) \/ Service \/ Flare
  PROVE  TypeOK'
  <1> USE DEF TypeOK, svcVars, chainVars, fdcVars, mintVars
  <1>1. ASSUME NEW s \in Scripts, ResumeStarts(s) \/ RecoverStarts(s)
        PROVE  TypeOK'
    <2>1. [disk EXCEPT !.state = "observed", !.attempts = 0] \in Copy
      BY RewoundType
    <2>2. job' \in [Procs -> Copy]
      BY <1>1, <2>1 DEF ResumeStarts, RecoverStarts, Procs
    <2>3. drv' \in [Drivers -> Driver] /\ runs' \in Nat
      BY <1>1, ConstantRecords DEF ResumeStarts, RecoverStarts
    <2> QED
      BY <1>1, <2>2, <2>3 DEF ResumeStarts, RecoverStarts
  <1>2. ASSUME NEW s \in Scripts, ScriptExits(s)
        PROVE  TypeOK'
    BY <1>2, ConstantRecords DEF ScriptExits
  <1>3. CASE CreateJob
    <2>1. (IF IsJob(disk) THEN disk ELSE FreshJob) \in Copy
      BY ConstantRecords
    <2> QED
      BY <1>3, <2>1 DEF CreateJob, Procs
  <1>4. CASE CreateFails
    <2>1. faults' \in Nat
      BY <1>4, InjectType DEF CreateFails
    <2> QED
      BY <1>4, <2>1, ConstantRecords DEF CreateFails
  <1>5. CASE Crash
    <2>1. drv' \in [Drivers -> Driver] /\ job' \in [Procs -> Copy]
      BY <1>5, ConstantRecords DEF Crash
    <2>2. orphans' \subseteq {"submit", "mint"}
      BY <1>5 DEF Crash
    <2>3. faults' \in Nat
      BY <1>5, InjectType DEF Crash
    <2> QED
      BY <1>5, <2>1, <2>2, <2>3 DEF Crash
  <1>6. CASE Restart
    BY <1>6 DEF Restart
  <1>7. CASE RoundEnds
    BY <1>7 DEF RoundEnds
  <1>8. CASE RelayFinalizes
    BY <1>8 DEF RelayFinalizes
  <1>9. CASE DelayEnds
    BY <1>9 DEF DelayEnds
  <1>10. CASE RivalMints
    BY <1>10 DEF RivalMints
  <1>11. CASE OrphanLands
    <2>1. orphans' \subseteq {"submit", "mint"} /\ fees' \in Nat /\ requests' \subseteq Nat
      <3>1. orphans' \subseteq {"submit", "mint"}
        BY <1>11 DEF OrphanLands
      <3>2. fees' \in Nat
        <4>1. fees' = fees + 1 \/ fees' = fees
          BY <1>11 DEF OrphanLands
        <4> QED
          BY <4>1
      <3>3. requests' \subseteq Nat
        <4>1. requests' = requests \cup {now} \/ requests' = requests
          BY <1>11 DEF OrphanLands
        <4> QED
          BY <4>1
      <3> QED
        BY <3>1, <3>2, <3>3
    <2>2. consumed' \in {"no", "us", "other"} /\ delay' \in {"none", "pending", "over"}
      BY <1>11 DEF OrphanLands, AssetManagerRuns
    <2> QED
      BY <1>11, <2>1, <2>2 DEF OrphanLands
  <1>12. CASE LedgerCloses
    BY <1>12 DEF LedgerCloses
  <1> QED
    BY <1>1, <1>2, <1>3, <1>4, <1>5, <1>6, <1>7, <1>8, <1>9, <1>10, <1>11, <1>12
       DEF Script, Service, Flare

\* Every reachable state of the executor, its file and the chain is well typed.
THEOREM TypeCorrect == Spec => []TypeOK
  <1>1. Init => TypeOK
    <2> SUFFICES ASSUME Init
                 PROVE  TypeOK
      OBVIOUS
    <2>1. job \in [Procs -> Copy] /\ drv \in [Drivers -> Driver] /\ disk \in Copy
      BY ConstantRecords DEF Init
    <2>2. /\ now \in Nat /\ final \in Nat /\ fees \in Nat /\ requests \subseteq Nat
          /\ faults \in Nat /\ errors \in 0 .. MaxAttempts /\ runs \in Nat
      BY DEF Init
    <2> QED
      BY <2>1, <2>2 DEF Init, TypeOK
  <1>2. TypeOK /\ [Next]_vars => TypeOK'
    <2> SUFFICES ASSUME TypeOK, [Next]_vars
                 PROVE  TypeOK'
      OBVIOUS
    <2>1. CASE \E d \in Drivers : Progress(d) \/ Mishap(d)
      BY <2>1, ProgressType, MishapType
    <2>2. CASE (\E s \in Scripts : Script(s)) \/ Service \/ Flare
      BY <2>2, SurroundingsType
    <2>3. CASE UNCHANGED vars
      BY <2>3 DEF vars, svcVars, chainVars, fdcVars, mintVars, TypeOK
    <2> QED
      BY <2>1, <2>2, <2>3 DEF Next
  <1> QED
    BY <1>1, <1>2, PTL DEF Spec

-----------------------------------------------------------------------------
(***************************************************************************)
(* A job reported executed is a consumed payment.                           *)
(***************************************************************************)

\* ExecutedMeansConsumed is not inductive: a driver whose receipt says "minted" is
\* about to write "executed", so the payment must be consumed by then already.
ExecutedInv ==
    /\ \A p \in Procs : job[p].state = "executed" => consumed # "no"
    /\ disk.state = "executed" => consumed # "no"
    /\ \A d \in Drivers : /\ drv[d].snap.state = "executed" => consumed # "no"
                          /\ drv[d].pc = "minted" => consumed # "no"

\* Finishing a step keeps it if the state assigned is justified.
LEMMA AdvanceExecuted ==
  ASSUME TypeOK, ExecutedInv, NEW d \in Drivers, NEW j \in Copy,
         j.state = "executed" => consumed # "no",
         Advance(d, j), disk' = disk, consumed' = consumed
  PROVE  ExecutedInv'
  <1>1. \A p \in Procs : job'[p].state = "executed" => consumed # "no"
    BY OwnerIsProc DEF Advance, TypeOK, ExecutedInv, Copy
  <1>2. \A e \in Drivers : /\ drv'[e].snap.state = "executed" => consumed # "no"
                           /\ drv'[e].pc = "minted" => consumed # "no"
    BY DEF Advance, TypeOK, ExecutedInv, Saving, Idle, Absent
  <1> QED
    BY <1>1, <1>2 DEF ExecutedInv

\* An error never makes a job executed.
LEMMA CaughtExecuted ==
  ASSUME TypeOK, ExecutedInv, NEW d \in Drivers, NEW r \in BOOLEAN,
         Caught(d, r), disk' = disk, consumed' = consumed
  PROVE  ExecutedInv'
  <1>1. \A p \in Procs : job'[p].state = "executed" => consumed # "no"
    BY OwnerIsProc DEF Caught, TypeOK, ExecutedInv, Copy
  <1>2. \A e \in Drivers : /\ drv'[e].snap.state = "executed" => consumed # "no"
                           /\ drv'[e].pc = "minted" => consumed # "no"
    BY DEF Caught, TypeOK, ExecutedInv, Saving, Idle, Absent
  <1> QED
    BY <1>1, <1>2 DEF ExecutedInv

\* A driver that only moves to another pc keeps it, unless it arrives at "minted".
LEMMA MoveExecuted ==
  ASSUME TypeOK, ExecutedInv, NEW d \in Drivers, NEW e \in Driver,
         e.snap.state = "executed" => consumed # "no",
         e.pc = "minted" => consumed' # "no",
         drv' = [drv EXCEPT ![d] = e], job' = job, disk' = disk,
         consumed # "no" => consumed' # "no"
  PROVE  ExecutedInv'
  BY DEF TypeOK, ExecutedInv

\* A driver's own step makes a job executed only when the payment is consumed.
LEMMA ProgressExecuted ==
  ASSUME TypeOK, ExecutedInv, NEW d \in Drivers, Progress(d)
  PROVE  ExecutedInv'
  <1> DEFINE o == Owner(d)
  <1> USE DEF svcVars, chainVars, fdcVars, mintVars
  <1>j. job[o] \in Copy /\ drv[d] \in Driver
    BY OwnerIsProc DEF TypeOK
  <1>k. /\ job[o].state = "executed" => consumed # "no"
        /\ drv[d].snap.state = "executed" => consumed # "no"
    BY OwnerIsProc DEF ExecutedInv
  <1>1. CASE StepBegins(d)
    <2> DEFINE e == [Idle EXCEPT !.pc = "await", !.at = job[o].state, !.arg = job[o].round]
    <2>1. job[o].state \in JobState
      BY <1>1 DEF StepBegins, MayStep, IsJob
    <2>2. e \in Driver
      BY <1>j, <2>1, ConstantRecords DEF Copy, Driver, PC
    <2>3. e.snap.state # "executed" /\ e.pc # "minted"
      BY DEF Idle, Absent
    <2>4. drv' = [drv EXCEPT ![d] = e] /\ job' = job /\ disk' = disk /\ consumed' = consumed
      BY <1>1 DEF StepBegins
    <2> HIDE DEF e
    <2> QED
      BY <2>2, <2>3, <2>4, MoveExecuted
  <1>2. CASE StepDelayed(d)
    <2>1. [job[o] EXCEPT !.state = "proof_fetched"] \in Copy
      BY <1>j DEF Copy, JobState
    <2> QED
      BY <1>2, <1>j, <2>1, AdvanceExecuted DEF StepDelayed, Copy
  <1>3. CASE StepTerminal(d)
    BY <1>3 DEF StepTerminal, ExecutedInv
  <1>4. CASE PrepareReturns(d)
    <2>1. [job[o] EXCEPT !.request = TRUE, !.state = "request_prepared"] \in Copy
      BY <1>j DEF Copy, JobState
    <2> QED
      BY <1>4, <1>j, <2>1, AdvanceExecuted DEF PrepareReturns, Copy
  <1>5. CASE SubmitSends(d) \/ MintSends(d)
    <2> DEFINE e == [drv[d] EXCEPT !.pc = "sent"]
    <2>1. e \in Driver /\ e.snap = drv[d].snap /\ e.pc # "minted"
      BY <1>j DEF Driver, PC
    <2>2. drv' = [drv EXCEPT ![d] = e] /\ job' = job /\ disk' = disk /\ consumed' = consumed
      BY <1>5 DEF SubmitSends, MintSends
    <2> HIDE DEF e
    <2> QED
      BY <1>k, <2>1, <2>2, MoveExecuted
  <1>6. CASE SubmitLands(d)
    <2> DEFINE e == [drv[d] EXCEPT !.pc = "landed", !.arg = now]
    <2>1. e \in Driver /\ e.snap = drv[d].snap /\ e.pc # "minted"
      BY <1>j DEF Driver, PC, TypeOK
    <2>2. drv' = [drv EXCEPT ![d] = e] /\ job' = job /\ disk' = disk /\ consumed' = consumed
      BY <1>6 DEF SubmitLands
    <2> HIDE DEF e
    <2> QED
      BY <1>k, <2>1, <2>2, MoveExecuted
  <1>7. CASE SubmitReturns(d)
    <2>1. [job[o] EXCEPT !.round = drv[d].arg, !.state = "request_submitted"] \in Copy
      BY <1>j DEF Copy, JobState, Driver
    <2> QED
      BY <1>7, <1>j, <2>1, AdvanceExecuted DEF SubmitReturns, Copy
  <1>8. CASE FinalityReturns(d)
    <2>1. [job[o] EXCEPT !.state = "round_finalized"] \in Copy
      BY <1>j DEF Copy, JobState
    <2>2. CASE Advance(d, [job[o] EXCEPT !.state = "round_finalized"])
      BY <1>8, <1>j, <2>1, <2>2, AdvanceExecuted DEF FinalityReturns, Copy
    <2>3. CASE drv' = [drv EXCEPT ![d] = Idle] /\ job' = job
      <3>1. Idle.snap.state # "executed" /\ Idle.pc # "minted"
        BY DEF Idle, Absent
      <3>2. disk' = disk /\ consumed' = consumed
        BY <1>8 DEF FinalityReturns
      <3> QED
        BY <2>3, <3>1, <3>2, ConstantRecords, MoveExecuted
    <2> QED
      BY <1>8, <2>2, <2>3 DEF FinalityReturns
  <1>9. CASE ProofReturns(d)
    <2>1. [job[o] EXCEPT !.state = "proof_fetched"] \in Copy
      BY <1>j DEF Copy, JobState
    <2>2. CASE Advance(d, [job[o] EXCEPT !.state = "proof_fetched"])
      BY <1>9, <1>j, <2>1, <2>2, AdvanceExecuted DEF ProofReturns, Copy
    <2>3. CASE Caught(d, TRUE)
      BY <1>9, <2>3, CaughtExecuted DEF ProofReturns
    <2> QED
      BY <1>9, <2>2, <2>3 DEF ProofReturns
  <1>10. CASE MintRefused(d)
    <2>0. disk' = disk /\ consumed' = consumed
      BY <1>10 DEF MintRefused
    <2>1. CASE Caught(d, TRUE) \/ Caught(d, FALSE)
      BY <2>0, <2>1, CaughtExecuted
    <2>2. CASE drv' = [drv EXCEPT ![d].pc = "confirm"] /\ UNCHANGED <<job, errors>>
      <3> DEFINE e == [drv[d] EXCEPT !.pc = "confirm"]
      <3>1. e \in Driver /\ e.snap = drv[d].snap /\ e.pc # "minted"
        BY <1>j DEF Driver, PC
      <3>2. drv' = [drv EXCEPT ![d] = e] /\ job' = job
        BY <2>2
      <3> HIDE DEF e
      <3> QED
        BY <1>k, <2>0, <3>1, <3>2, MoveExecuted
    <2> QED
      BY <1>10, <2>1, <2>2 DEF MintRefused
  <1>11. CASE MintLands(d)
    <2>1. PICK pc \in PC : /\ drv' = [drv EXCEPT ![d] = [drv[d] EXCEPT !.pc = pc]]
                           /\ pc = "minted" => consumed' # "no"
      BY <1>11 DEF MintLands, AssetManagerRuns, PC
    <2> DEFINE e == [drv[d] EXCEPT !.pc = pc]
    <2>2. e \in Driver /\ e.snap = drv[d].snap /\ e.pc = pc
      BY <1>j DEF Driver
    <2>3. job' = job /\ disk' = disk /\ (consumed # "no" => consumed' # "no")
      BY <1>11 DEF MintLands, AssetManagerRuns
    <2> HIDE DEF e
    <2> QED
      BY <1>k, <2>1, <2>2, <2>3, MoveExecuted DEF e
  <1>12. CASE MintReturns(d)
    <2>0. disk' = disk /\ consumed' = consumed
      BY <1>12 DEF MintReturns
    <2>1. /\ [job[o] EXCEPT !.state = "executed"] \in Copy
          /\ [job[o] EXCEPT !.state = "delayed"] \in Copy
          /\ [job[o] EXCEPT !.state = "delayed"].state # "executed"
      BY <1>j DEF Copy, JobState
    <2>2. CASE drv[d].pc = "minted" /\ Advance(d, [job[o] EXCEPT !.state = "executed"])
      <3>1. consumed # "no"
        BY <2>2 DEF ExecutedInv
      <3> QED
        BY <2>0, <2>1, <2>2, <3>1, AdvanceExecuted
    <2>3. CASE Advance(d, [job[o] EXCEPT !.state = "delayed"])
      BY <2>0, <2>1, <2>3, AdvanceExecuted
    <2>4. CASE Caught(d, FALSE)
      BY <2>0, <2>4, CaughtExecuted
    <2> QED
      BY <1>12, <2>2, <2>3, <2>4 DEF MintReturns
  <1>13. CASE ConfirmReturns(d)
    <2>0. disk' = disk /\ consumed' = consumed
      BY <1>13 DEF ConfirmReturns
    <2>1. CASE /\ consumed # "no"
               /\ job' = [job EXCEPT ![o].state = "executed"]
               /\ drv' = [drv EXCEPT ![d] = Saving]
      BY <2>0, <2>1 DEF ExecutedInv
    <2>2. CASE Caught(d, FALSE)
      BY <2>0, <2>2, CaughtExecuted
    <2> QED
      BY <1>13, <2>1, <2>2 DEF ConfirmReturns
  <1>14. CASE SaveOpens(d)
    <2>1. \A e \in Drivers : /\ drv'[e].snap.state = "executed" => consumed # "no"
                             /\ drv'[e].pc = "minted" => consumed # "no"
      BY <1>14, <1>k DEF SaveOpens, Idle, ExecutedInv, TypeOK
    <2> QED
      BY <1>14, <2>1 DEF SaveOpens, Torn, ExecutedInv
  <1>15. CASE SaveCloses(d)
    <2>1. \A e \in Drivers : /\ drv'[e].snap.state = "executed" => consumed # "no"
                             /\ drv'[e].pc = "minted" => consumed # "no"
      BY <1>15, <1>k DEF SaveCloses, Idle, Absent, ExecutedInv, TypeOK
    <2> QED
      BY <1>15, <1>k, <2>1 DEF SaveCloses, Torn, ExecutedInv
  <1> QED
    BY <1>1, <1>2, <1>3, <1>4, <1>5, <1>6, <1>7, <1>8, <1>9, <1>10, <1>11, <1>12,
       <1>13, <1>14, <1>15 DEF Progress

\* No error, lost receipt, reverted request or failed save makes a job executed.
LEMMA MishapExecuted ==
  ASSUME TypeOK, ExecutedInv, NEW d \in Drivers, Mishap(d)
  PROVE  ExecutedInv'
  <1> USE DEF svcVars, chainVars, fdcVars, mintVars
  <1>1. CASE CallLags(d) \/ CallFails(d) \/ ReceiptLost(d)
    BY <1>1, CaughtExecuted DEF CallLags, CallFails, ReceiptLost
  <1>2. CASE SubmitReverts(d)
    <2> DEFINE e == [drv[d] EXCEPT !.pc = "landed", !.arg = now]
    <2>1. e \in Driver /\ e.snap = drv[d].snap /\ e.pc # "minted"
      BY DEF Driver, PC, TypeOK
    <2>2. drv' = [drv EXCEPT ![d] = e] /\ job' = job /\ disk' = disk /\ consumed' = consumed
      BY <1>2 DEF SubmitReverts
    <2>3. drv[d].snap.state = "executed" => consumed # "no"
      BY DEF ExecutedInv
    <2> HIDE DEF e
    <2> QED
      BY <2>1, <2>2, <2>3, MoveExecuted
  <1>3. CASE SaveFails(d)
    BY <1>3 DEF SaveFails, Idle, Absent, ExecutedInv, TypeOK
  <1> QED
    BY <1>1, <1>2, <1>3 DEF Mishap

\* Nor do the scripts, the service's crashes and restarts, or Flare.
LEMMA SurroundingsExecuted ==
  ASSUME TypeOK, ExecutedInv, (\E s \in Scripts : Script(s)) \/ Service \/ Flare
  PROVE  ExecutedInv'
  <1> USE DEF svcVars, chainVars, fdcVars, mintVars
  <1>1. ASSUME NEW s \in Scripts, ResumeStarts(s) \/ RecoverStarts(s)
        PROVE  ExecutedInv'
    <2>1. \A p \in Procs : job'[p].state = "executed" => consumed # "no"
      <3> DEFINE rewound == [disk EXCEPT !.state = "observed", !.attempts = 0]
      <3>1. rewound.state # "executed"
        BY DEF TypeOK, Copy
      <3>2. job' = [job EXCEPT ![s] = rewound] \/ job' = [job EXCEPT ![s] = disk]
        BY <1>1 DEF ResumeStarts, RecoverStarts
      <3> HIDE DEF rewound
      <3> QED
        BY <3>1, <3>2 DEF ExecutedInv, TypeOK
    <2>2. \A e \in Drivers : /\ drv'[e].snap.state = "executed" => consumed # "no"
                             /\ drv'[e].pc = "minted" => consumed # "no"
      BY <1>1 DEF ResumeStarts, RecoverStarts, ExecutedInv, TypeOK, Saving, Idle, Absent
    <2> QED
      BY <1>1, <2>1, <2>2 DEF ResumeStarts, RecoverStarts, ExecutedInv
  <1>2. ASSUME NEW s \in Scripts, ScriptExits(s)
        PROVE  ExecutedInv'
    BY <1>2 DEF ScriptExits, Absent, ExecutedInv, TypeOK
  <1>3. CASE CreateJob
    BY <1>3 DEF CreateJob, FreshJob, ExecutedInv, TypeOK
  <1>4. CASE CreateFails
    BY <1>4 DEF CreateFails, Torn, ExecutedInv
  <1>5. CASE Crash
    <2>1. \A p \in Procs : job'[p].state = "executed" => consumed # "no"
      BY <1>5 DEF Crash, Absent, ExecutedInv, TypeOK
    <2>2. \A e \in Drivers : /\ drv'[e].snap.state = "executed" => consumed # "no"
                             /\ drv'[e].pc = "minted" => consumed # "no"
      BY <1>5 DEF Crash, Idle, Absent, ExecutedInv
    <2> QED
      BY <1>5, <2>1, <2>2 DEF Crash, ExecutedInv
  <1>6. CASE Restart \/ RoundEnds \/ RelayFinalizes \/ DelayEnds \/ LedgerCloses
    BY <1>6 DEF Restart, RoundEnds, RelayFinalizes, DelayEnds, LedgerCloses, ExecutedInv
  <1>7. CASE RivalMints \/ OrphanLands
    BY <1>7 DEF RivalMints, OrphanLands, AssetManagerRuns, ExecutedInv
  <1> QED
    BY <1>1, <1>2, <1>3, <1>4, <1>5, <1>6, <1>7 DEF Script, Service, Flare

\* Under every overlap of ticks and scripts, every fault and every crash, a job that
\* says "executed" - in memory, on disk or half written - is a payment the
\* AssetManager has consumed.
THEOREM ExecutedIsConsumed == Spec => []ExecutedMeansConsumed
  <1>1. Init => ExecutedInv
    BY DEF Init, ExecutedInv, Absent, Idle
  <1>2. TypeOK /\ ExecutedInv /\ [Next]_vars => ExecutedInv'
    <2> SUFFICES ASSUME TypeOK, ExecutedInv, [Next]_vars
                 PROVE  ExecutedInv'
      OBVIOUS
    <2>1. CASE \E d \in Drivers : Progress(d) \/ Mishap(d)
      BY <2>1, ProgressExecuted, MishapExecuted
    <2>2. CASE (\E s \in Scripts : Script(s)) \/ Service \/ Flare
      BY <2>2, SurroundingsExecuted
    <2>3. CASE UNCHANGED vars
      BY <2>3 DEF vars, svcVars, chainVars, mintVars, ExecutedInv
    <2> QED
      BY <2>1, <2>2, <2>3 DEF Next
  <1>3. ExecutedInv => ExecutedMeansConsumed
    BY DEF ExecutedInv, ExecutedMeansConsumed, Copies
  <1> QED
    BY <1>1, <1>2, <1>3, TypeCorrect, PTL DEF Spec

=============================================================================
