------------------------------ MODULE JobProofs ------------------------------
(***************************************************************************)
(* More proofs about Pipeline: that no field of a job is used before it is   *)
(* there, whoever drives it, and what a job's one driver may rely on - its   *)
(* state never goes back, its round is final, its fees are accounted for and *)
(* its file is up to date.                                                   *)
(***************************************************************************)
EXTENDS PipelineProofs, FiniteSetTheorems

USE ConstantsAssumption DEF ConstantsAssumption

-----------------------------------------------------------------------------
(***************************************************************************)
(* What a driver's step does, field by field.                               *)
(***************************************************************************)

\* Driver d is inside a call of step(), before its save().
Busy(d) == drv[d].pc \notin {"idle", "save", "write"}

\* The fields that a change of state leaves alone.
SameFields(j, k) == j.request = k.request /\ j.round = k.round

\* What only a driver's fellows, the service, the operator and Flare change.
Around(d) ==
    /\ UNCHANGED <<up, watch, fresh, now, final, runs>>
    /\ live' => live \/ d \in Ticks

\* Nothing but driver d and its process moves.
Alone(d) ==
    /\ \A f \in Drivers : f # d => drv'[f] = drv[f]
    /\ \A p \in Procs : p # Owner(d) => job'[p] = job[p]

\* and the file, the fees and the faults are as they were.
Quiet == UNCHANGED <<disk, fees, orphans, faults>>

\* It takes a case of the switch,
Enters(d) ==
    LET J == job[Owner(d)] IN
    /\ drv[d].pc = "idle" /\ drv'[d].pc = "await"
    /\ d \in Ticks => up /\ live
    /\ J.state \in JobState \ {"delayed", "executed", "failed"}
    /\ drv'[d].at = J.state /\ drv'[d].arg = J.round /\ drv'[d].snap = Absent
    /\ job'[Owner(d)] = J
    /\ Quiet

\* goes from one await to the next,
Waits(d) ==
    /\ Busy(d) /\ drv'[d].at = drv[d].at /\ drv'[d].snap = drv[d].snap
    /\ job'[Owner(d)] = job[Owner(d)]
    /\ UNCHANGED <<disk, orphans>>
    /\ \/ /\ drv[d].pc = "await" /\ drv'[d].pc = "sent"
          /\ drv[d].at \in {"request_prepared", "proof_fetched"}
          /\ UNCHANGED <<fees, faults>>
       \/ /\ drv[d].pc = "sent" /\ drv[d].at = "request_prepared"
          /\ drv'[d].pc = "landed" /\ drv'[d].arg = now
          /\ \/ fees' = fees + 1 /\ faults' = faults
             \/ fees' = fees /\ faults' = faults + 1
       \/ /\ drv[d].pc \in {"sent", "await"} /\ drv[d].at = "proof_fetched"
          /\ drv'[d].pc \in {"minted", "held", "bounced", "confirm"}
          /\ UNCHANGED <<fees, faults>>

\* moves the job on,
Finishes(d) ==
    LET D == drv[d]
        J == job[Owner(d)]
        K == job'[Owner(d)]
    IN
    /\ drv'[d].pc = "save" /\ drv'[d].snap = Absent
    /\ Quiet
    /\ \/ /\ D.pc = "idle" /\ (d \in Ticks => up /\ live)
          /\ J.state = "delayed" /\ K.state = "proof_fetched" /\ SameFields(J, K)
       \/ /\ D.pc = "await" /\ D.at = "observed"
          /\ K.state = "request_prepared" /\ K.request /\ K.round = J.round
       \/ /\ D.pc = "landed"
          /\ K.state = "request_submitted" /\ K.request = J.request /\ K.round = D.arg
       \/ /\ D.pc = "await" /\ D.at = "request_submitted" /\ D.arg <= final
          /\ K.state = "round_finalized" /\ SameFields(J, K)
       \/ /\ D.pc = "await" /\ D.at = "round_finalized"
          /\ K.state = "proof_fetched" /\ SameFields(J, K)
       \/ D.pc = "held" /\ K.state = "delayed" /\ SameFields(J, K)
       \/ D.pc \in {"minted", "confirm"} /\ K.state = "executed" /\ SameFields(J, K)

\* runs into the catch clause,
Errs(d) ==
    /\ Busy(d) /\ drv'[d].pc = "save" /\ drv'[d].snap = Absent
    /\ job'[Owner(d)].state \in {job[Owner(d)].state, "failed"}
    /\ SameFields(job[Owner(d)], job'[Owner(d)])
    /\ UNCHANGED <<disk, fees>>
    /\ faults' \in {faults, faults + 1}
    /\ drv[d].pc = "landed" => faults' = faults + 1
    /\ orphans \subseteq orphans'
    /\ "submit" \in orphans' \ orphans =>
           drv[d].pc = "sent" /\ drv[d].at # "proof_fetched" /\ faults' = faults + 1

\* saves the job, or fails to,
Saves(d) ==
    LET J == job[Owner(d)] IN
    /\ UNCHANGED <<fees, orphans>>
    /\ \/ /\ drv[d].pc = "save" /\ drv'[d].pc = "write" /\ drv'[d].snap = J
          /\ job'[Owner(d)] = J /\ disk' = Torn /\ faults' = faults
       \/ /\ drv[d].pc = "write" /\ drv'[d].pc = "idle" /\ drv'[d].snap = Absent
          /\ job'[Owner(d)] = J /\ faults' = faults
          /\ disk' = drv[d].snap \/ (IsJob(disk) /\ disk' = Torn)
       \/ /\ drv[d].pc \in {"save", "write"} /\ drv'[d].pc = "idle" /\ drv'[d].snap = Absent
          /\ job'[Owner(d)] = (IF d \in Ticks THEN J ELSE Absent)
          /\ disk' = disk /\ faults' = faults + 1 /\ "disk" \in Faults

\* or returns with nothing to save.
Rests(d) ==
    /\ job'[Owner(d)] = job[Owner(d)]
    /\ \/ drv[d].pc = "idle" /\ drv'[d] = drv[d] /\ live
       \/ drv[d].pc = "await" /\ drv'[d].pc = "idle" /\ drv'[d].snap = Absent
    /\ Quiet

\* All that Progress and Mishap let a driver do, as the proofs look at it.
Steps(d) == Enters(d) \/ Waits(d) \/ Finishes(d) \/ Errs(d) \/ Saves(d) \/ Rests(d)

\* The states and the fields a copy has once a successful step() is done with it.
LEMMA AdvanceFields ==
  ASSUME TypeOK, NEW d \in Drivers, NEW j \in Copy, Advance(d, j)
  PROVE  /\ Alone(d)
         /\ drv'[d].pc = "save" /\ drv'[d].snap = Absent
         /\ job'[Owner(d)].state = j.state /\ SameFields(j, job'[Owner(d)])
  BY OwnerIsProc DEF Advance, TypeOK, Alone, SameFields, Saving, Idle, Copy

\* The same for the tail of the catch clause.
LEMMA CaughtFields ==
  ASSUME TypeOK, NEW d \in Drivers, NEW r \in BOOLEAN, Caught(d, r)
  PROVE  /\ Alone(d)
         /\ drv'[d].pc = "save" /\ drv'[d].snap = Absent
         /\ job'[Owner(d)].state \in {job[Owner(d)].state, "failed"}
         /\ SameFields(job[Owner(d)], job'[Owner(d)])
  <1>1. job[Owner(d)] \in Copy
    BY OwnerIsProc DEF TypeOK
  <1> QED
    BY <1>1, OwnerIsProc DEF Caught, TypeOK, Alone, SameFields, Saving, Idle, Copy

\* Every step of a driver is one of the six, and leaves the rest alone.
LEMMA DriverSteps ==
  ASSUME TypeOK, NEW d \in Drivers, Progress(d) \/ Mishap(d)
  PROVE  Steps(d) /\ Alone(d) /\ Around(d)
  <1> DEFINE o == Owner(d)
  <1> USE DEF svcVars, chainVars, fdcVars, mintVars
  <1>j. job[o] \in Copy /\ drv[d] \in Driver
    BY OwnerIsProc DEF TypeOK
  <1>k. job[o].state \in JobState \cup {"absent", "torn"}
    BY <1>j DEF Copy
  <1>1. CASE StepBegins(d)
    BY <1>1 DEF StepBegins, MayStep, IsJob, Terminal, Idle, TypeOK,
                Steps, Enters, Quiet, Alone, Around
  <1>2. CASE StepDelayed(d)
    <2>1. [job[o] EXCEPT !.state = "proof_fetched"] \in Copy
      BY <1>j DEF Copy, JobState
    <2>2. drv[d].pc = "idle" /\ (d \in Ticks => up /\ live) /\ job[o].state = "delayed"
      BY <1>2 DEF StepDelayed, MayStep
    <2>3. Quiet /\ Around(d)
      BY <1>2 DEF StepDelayed, Quiet, Around
    <2> QED
      BY <1>2, <1>j, <2>1, <2>2, <2>3, AdvanceFields
         DEF StepDelayed, SameFields, Copy, Steps, Finishes
  <1>3. CASE StepTerminal(d)
    BY <1>3 DEF StepTerminal, MayStep, Steps, Rests, Quiet, Alone, Around
  <1>4. CASE PrepareReturns(d)
    <2>1. [job[o] EXCEPT !.request = TRUE, !.state = "request_prepared"] \in Copy
      BY <1>j DEF Copy, JobState
    <2>2. Quiet /\ Around(d)
      BY <1>4 DEF PrepareReturns, Quiet, Around
    <2> QED
      BY <1>4, <1>j, <2>1, <2>2, AdvanceFields
         DEF PrepareReturns, At, SameFields, Copy, Steps, Finishes
  <1>5. CASE SubmitSends(d) \/ MintSends(d)
    BY <1>5, <1>j DEF SubmitSends, MintSends, At, Driver, TypeOK,
                      Steps, Waits, Busy, Alone, Around
  <1>6. CASE SubmitLands(d) \/ SubmitReverts(d)
    BY <1>6, <1>j DEF SubmitLands, SubmitReverts, Inject, Driver, TypeOK,
                      Steps, Waits, Busy, Alone, Around
  <1>7. CASE SubmitReturns(d)
    <2>1. [job[o] EXCEPT !.round = drv[d].arg, !.state = "request_submitted"] \in Copy
      BY <1>j DEF Copy, JobState, Driver
    <2>2. Quiet /\ Around(d)
      BY <1>7 DEF SubmitReturns, Quiet, Around
    <2> QED
      BY <1>7, <1>j, <2>1, <2>2, AdvanceFields
         DEF SubmitReturns, SameFields, Copy, Steps, Finishes
  <1>8. CASE FinalityReturns(d)
    <2>1. [job[o] EXCEPT !.state = "round_finalized"] \in Copy
      BY <1>j DEF Copy, JobState
    <2>2. Quiet /\ Around(d)
      BY <1>8 DEF FinalityReturns, Returned, Quiet, Around
    <2>3. CASE drv[d].arg <= final /\ Advance(d, [job[o] EXCEPT !.state = "round_finalized"])
      BY <1>8, <1>j, <2>1, <2>2, <2>3, AdvanceFields
         DEF FinalityReturns, At, SameFields, Copy, Steps, Finishes
    <2>4. CASE drv' = [drv EXCEPT ![d] = Idle] /\ UNCHANGED <<job, errors>>
      BY <1>8, <2>2, <2>4 DEF FinalityReturns, At, Idle, TypeOK, Steps, Rests, Alone
    <2> QED
      BY <1>8, <2>3, <2>4 DEF FinalityReturns
  <1>9. CASE ProofReturns(d)
    <2>1. [job[o] EXCEPT !.state = "proof_fetched"] \in Copy
      BY <1>j DEF Copy, JobState
    <2>2. Quiet /\ Around(d) /\ drv[d].pc = "await" /\ drv[d].at = "round_finalized"
      BY <1>9 DEF ProofReturns, At, Quiet, Around
    <2>3. CASE Advance(d, [job[o] EXCEPT !.state = "proof_fetched"])
      BY <1>j, <2>1, <2>2, <2>3, AdvanceFields DEF SameFields, Copy, Steps, Finishes
    <2>4. CASE Caught(d, TRUE)
      BY <2>2, <2>4, CaughtFields DEF Steps, Errs, Busy, Quiet
    <2> QED
      BY <1>9, <2>3, <2>4 DEF ProofReturns
  <1>10. CASE MintRefused(d)
    <2>1. Around(d) /\ UNCHANGED <<disk, fees, orphans, faults>>
          /\ drv[d].pc = "await" /\ drv[d].at = "proof_fetched"
      BY <1>10 DEF MintRefused, At, Around
    <2>2. CASE Caught(d, TRUE) \/ Caught(d, FALSE)
      BY <2>1, <2>2, CaughtFields DEF Steps, Errs, Busy
    <2>3. CASE drv' = [drv EXCEPT ![d].pc = "confirm"] /\ UNCHANGED <<job, errors>>
      BY <1>j, <2>1, <2>3 DEF Driver, TypeOK, Steps, Waits, Busy, Alone
    <2> QED
      BY <1>10, <2>2, <2>3 DEF MintRefused
  <1>11. CASE MintLands(d)
    <2>1. PICK pc \in {"minted", "held", "bounced"} : drv' = [drv EXCEPT ![d].pc = pc]
      BY <1>11 DEF MintLands, AssetManagerRuns
    <2> QED
      BY <1>11, <1>j, <2>1 DEF MintLands, Driver, TypeOK, Steps, Waits, Busy, Alone, Around
  <1>12. CASE MintReturns(d)
    <2>1. /\ [job[o] EXCEPT !.state = "executed"] \in Copy
          /\ [job[o] EXCEPT !.state = "delayed"] \in Copy
      BY <1>j DEF Copy, JobState
    <2>2. Quiet /\ Around(d)
      BY <1>12 DEF MintReturns, Quiet, Around
    <2>3. CASE drv[d].pc = "minted" /\ Advance(d, [job[o] EXCEPT !.state = "executed"])
      BY <1>j, <2>1, <2>2, <2>3, AdvanceFields DEF SameFields, Copy, Steps, Finishes
    <2>4. CASE drv[d].pc = "held" /\ Advance(d, [job[o] EXCEPT !.state = "delayed"])
      BY <1>j, <2>1, <2>2, <2>4, AdvanceFields DEF SameFields, Copy, Steps, Finishes
    <2>5. CASE drv[d].pc = "bounced" /\ Caught(d, FALSE)
      BY <2>2, <2>5, CaughtFields DEF Steps, Errs, Busy, Quiet
    <2> QED
      BY <1>12, <2>3, <2>4, <2>5 DEF MintReturns
  <1>13. CASE ConfirmReturns(d)
    <2>1. Around(d) /\ UNCHANGED <<disk, fees, orphans>> /\ drv[d].pc = "confirm"
      BY <1>13 DEF ConfirmReturns, Around
    <2>2. CASE /\ job' = [job EXCEPT ![o].state = "executed"]
               /\ drv' = [drv EXCEPT ![d] = Saving]
               /\ UNCHANGED <<faults, errors>>
      BY <1>j, <2>1, <2>2, OwnerIsProc
         DEF Copy, TypeOK, Saving, Idle, SameFields, Quiet, Steps, Finishes, Alone
    <2>3. CASE Inject("read") /\ Caught(d, FALSE)
      BY <2>1, <2>3, CaughtFields DEF Inject, Steps, Errs, Busy
    <2> QED
      BY <1>13, <2>2, <2>3 DEF ConfirmReturns
  <1>14. CASE SaveOpens(d)
    BY <1>14 DEF SaveOpens, Idle, TypeOK, Steps, Saves, Alone, Around
  <1>15. CASE SaveCloses(d)
    BY <1>15 DEF SaveCloses, Returned, Idle, TypeOK, Steps, Saves, Alone, Around
  <1>16. CASE SaveFails(d)
    <2>1. \A p \in Procs : job'[p] = IF p = o /\ d \notin Ticks THEN Absent ELSE job[p]
      BY <1>16 DEF SaveFails, Owner, TypeOK
    <2> QED
      BY <1>16, <2>1, OwnerIsProc
         DEF SaveFails, Inject, Idle, TypeOK, Steps, Saves, Alone, Around
  <1>17. CASE CallLags(d)
    <2>1. Around(d) /\ UNCHANGED <<disk, fees, orphans>> /\ faults' = faults + 1
      BY <1>17 DEF CallLags, Inject, Around
    <2>2. drv[d].pc = "await"
      BY <1>17 DEF CallLags, At
    <2> QED
      BY <1>17, <2>1, <2>2, CaughtFields DEF CallLags, Steps, Errs, Busy
  <1>18. CASE ReceiptLost(d)
    <2>1. Around(d) /\ UNCHANGED <<disk, fees>> /\ faults' = faults + 1 /\ Caught(d, FALSE)
          /\ drv[d].pc \in {"sent", "landed", "minted", "held", "bounced"}
      BY <1>18 DEF ReceiptLost, Inject, Around
    <2>2. /\ orphans \subseteq orphans'
          /\ "submit" \in orphans' \ orphans =>
                 drv[d].pc = "sent" /\ drv[d].at # "proof_fetched"
      BY <1>18 DEF ReceiptLost
    <2> QED
      BY <2>1, <2>2, CaughtFields DEF Steps, Errs, Busy
  <1>19. CASE CallFails(d)
    <2>1. Around(d) /\ UNCHANGED <<disk, fees, orphans>> /\ faults' = faults + 1
      BY <1>19 DEF CallFails, Inject, Around
    <2> QED
      BY <1>19, <2>1, CaughtFields DEF CallFails, Steps, Errs, Busy
  <1> QED
    BY <1>1, <1>2, <1>3, <1>4, <1>5, <1>6, <1>7, <1>8, <1>9, <1>10, <1>11, <1>12, <1>13,
       <1>14, <1>15, <1>16, <1>17, <1>18, <1>19 DEF Progress, Mishap

\* A script that starts has loaded the file, rewound or as it is.
Starts(s) ==
    /\ drv[s].pc = "idle" /\ drv'[s].pc \in {"idle", "save"}
    /\ drv'[s] = drv[s] \/ drv'[s].snap = Absent
    /\ IsJob(disk) /\ SameFields(disk, job'[s])
    /\ job'[s].state \in {disk.state, "observed"}
    /\ \A f \in Drivers : f # s => drv'[f] = drv[f]
    /\ \A p \in Procs : p # s => job'[p] = job[p]
    /\ runs' = runs + 1
    /\ UNCHANGED <<disk, up, live, watch, now, final, fees, orphans, faults>>

\* resume-job and recover-mint start with what load() returned.
LEMMA StartSteps ==
  ASSUME TypeOK, NEW s \in Scripts, ResumeStarts(s) \/ RecoverStarts(s)
  PROVE  Starts(s)
  <1> USE DEF svcVars, chainVars, fdcVars, mintVars
  <1> DEFINE rewound == [disk EXCEPT !.state = "observed", !.attempts = 0]
  <1>1. rewound.state = "observed" /\ SameFields(disk, rewound)
    BY DEF TypeOK, Copy, SameFields
  <1>2. s \in Procs /\ s \in Drivers
    BY DEF Procs, Drivers
  <1>3. /\ drv[s].pc = "idle" /\ IsJob(disk) /\ runs' = runs + 1
        /\ UNCHANGED <<disk, up, live, watch, now, final, fees, orphans, faults>>
    BY DEF ResumeStarts, RecoverStarts
  <1>4. /\ job' = [job EXCEPT ![s] = rewound] \/ job' = [job EXCEPT ![s] = disk]
        /\ drv' = [drv EXCEPT ![s] = Saving] \/ drv' = drv
    BY DEF ResumeStarts, RecoverStarts
  <1> HIDE DEF rewound
  <1> QED
    BY <1>1, <1>2, <1>3, <1>4 DEF Starts, SameFields, Saving, Idle, TypeOK

\* What Flare does to the fields that the proofs below are about.
FlareMoves ==
    /\ UNCHANGED <<job, drv, disk, up, live, watch, faults, runs>>
    /\ now' \in {now, now + 1} /\ final' \in {final, final + 1}
    /\ \/ fees' = fees /\ ("submit" \in orphans' => "submit" \in orphans)
       \/ fees' = fees + 1 /\ "submit" \in orphans /\ "submit" \notin orphans'

\* Flare touches no copy and no driver; only an orphan that lands can cost a fee.
LEMMA FlareSteps == ASSUME TypeOK, Flare PROVE FlareMoves
  <1> USE DEF svcVars, chainVars, fdcVars, mintVars, FlareMoves
  <1>1. CASE RoundEnds \/ RelayFinalizes \/ DelayEnds
    BY <1>1 DEF RoundEnds, RelayFinalizes, DelayEnds
  <1>2. CASE RivalMints \/ LedgerCloses
    BY <1>2 DEF RivalMints, LedgerCloses
  <1>3. CASE OrphanLands
    <2>1. UNCHANGED <<job, drv, disk, up, live, watch, faults, runs, now, final>>
      BY <1>3 DEF OrphanLands
    <2>2. \/ fees' = fees /\ orphans' = orphans \ {"mint"}
          \/ fees' = fees + 1 /\ "submit" \in orphans /\ orphans' = orphans \ {"submit"}
      BY <1>3 DEF OrphanLands
    <2> QED
      BY <2>1, <2>2
  <1> QED
    BY <1>1, <1>2, <1>3 DEF Flare

-----------------------------------------------------------------------------
(***************************************************************************)
(* Where a driver is, and when the service's job may be replaced.           *)
(***************************************************************************)

\* A driver has reached an await by the way of its case.  While the payment is still to
\* be reported, or the service is down, there is no job in it and no tick under way: that
\* is why a job is never exchanged under a driver's feet.
PlacesInv ==
    /\ now > 0
    /\ \A d \in Drivers :
          /\ drv[d].pc = "landed" => drv[d].at = "request_prepared" /\ drv[d].arg # 0
          /\ drv[d].pc = "sent" => drv[d].at \in {"request_prepared", "proof_fetched"}
          /\ drv[d].pc \in {"minted", "held", "bounced", "confirm"} =>
                 drv[d].at = "proof_fetched"
          /\ Busy(d) => drv[d].at \in JobState \ {"delayed", "executed", "failed"}
    /\ watch \/ ~up => /\ job["service"] = Absent
                       /\ \A t \in Ticks : drv[t].pc = "idle"

\* A driver's own step keeps the places: it ends idle when the job it drives is let go.
LEMMA DriverPlaces ==
  ASSUME TypeOK, PlacesInv, NEW d \in Drivers, Steps(d), Alone(d), Around(d)
  PROVE  PlacesInv'
  <1>1. now' > 0
    BY DEF Around, PlacesInv
  <1>2. \A f \in Drivers :
          /\ drv'[f].pc = "landed" => drv'[f].at = "request_prepared" /\ drv'[f].arg # 0
          /\ drv'[f].pc = "sent" => drv'[f].at \in {"request_prepared", "proof_fetched"}
          /\ drv'[f].pc \in {"minted", "held", "bounced", "confirm"} =>
                 drv'[f].at = "proof_fetched"
          /\ Busy(f)' => drv'[f].at \in JobState \ {"delayed", "executed", "failed"}
    BY DEF Steps, Enters, Waits, Finishes, Errs, Saves, Rests, Alone, PlacesInv, TypeOK, Busy
  <1>3. ASSUME watch \/ ~up
        PROVE  /\ job'["service"] = Absent
               /\ \A t \in Ticks : drv'[t].pc = "idle"
    <2>1. job["service"] = Absent /\ \A t \in Ticks : drv[t].pc = "idle"
      BY <1>3 DEF PlacesInv
    <2>2. CASE d \in Scripts
      <3>1. Owner(d) = d /\ d # "service" /\ \A t \in Ticks : t # d
        BY <2>2 DEF Owner
      <3> QED
        BY <2>1, <3>1 DEF Alone, Procs, Drivers
    <2>3. CASE d \in Ticks
      <3>1. drv[d].pc = "idle" /\ job[Owner(d)] = Absent
        BY <2>1, <2>3 DEF Owner
      <3>2. Rests(d)
        BY <3>1 DEF Steps, Enters, Waits, Finishes, Errs, Saves, Busy, Absent, JobState
      <3> QED
        BY <2>1, <2>3, <3>1, <3>2 DEF Rests, Alone, Owner, Drivers
    <2> QED
      BY <2>2, <2>3 DEF Drivers
  <1> QED
    BY <1>1, <1>2, <1>3 DEF PlacesInv, Around

\* So does every step.
LEMMA PlacesNext == TypeOK /\ PlacesInv /\ [Next]_vars => PlacesInv'
  <1> SUFFICES ASSUME TypeOK, PlacesInv, [Next]_vars
               PROVE  PlacesInv'
    OBVIOUS
  <1> USE DEF PlacesInv, Busy, svcVars, chainVars, fdcVars, mintVars
  <1>1. ASSUME NEW d \in Drivers, Progress(d) \/ Mishap(d)
        PROVE  PlacesInv'
    BY <1>1, DriverSteps, DriverPlaces
  <1>2. ASSUME NEW s \in Scripts, ResumeStarts(s) \/ RecoverStarts(s)
        PROVE  PlacesInv'
    BY <1>2, StartSteps DEF Starts, Procs, Drivers
  <1>3. ASSUME NEW s \in Scripts, ScriptExits(s)
        PROVE  PlacesInv'
    BY <1>3 DEF ScriptExits, TypeOK, Procs
  <1>4. CASE CreateJob
    BY <1>4 DEF CreateJob
  <1>5. CASE CreateFails
    BY <1>5 DEF CreateFails
  <1>6. CASE Crash
    <2>1. /\ job'["service"] = Absent /\ now' = now
          /\ \A d \in Drivers : drv'[d] = IF d \in Ticks THEN Idle ELSE drv[d]
      BY <1>6 DEF Crash, TypeOK, Procs
    <2> QED
      BY <2>1 DEF Idle, Drivers
  <1>7. CASE Restart
    BY <1>7 DEF Restart
  <1>8. CASE Flare
    BY <1>8, FlareSteps DEF FlareMoves, TypeOK
  <1>9. CASE UNCHANGED vars
    BY <1>9 DEF vars
  <1> QED
    BY <1>1, <1>2, <1>3, <1>4, <1>5, <1>6, <1>7, <1>8, <1>9 DEF Next, Script, Service

\* Types and places hold in every reachable state; all that follows builds on it.
LEMMA Placed == Spec => [](TypeOK /\ PlacesInv)
  <1>1. Init => PlacesInv
    BY DEF Init, PlacesInv, Busy, Idle, Procs, Drivers
  <1> QED
    BY <1>1, PlacesNext, TypeCorrect, PTL DEF Spec

\* The service's job or a script's is replaced by another one only while nobody drives
\* it; every other copy, and whoever is busy, stays as it is.
LEMMA NobodyDriving ==
  ASSUME TypeOK, PlacesInv,
         (\E s \in Scripts : Script(s)) \/ Service \/ Flare \/ UNCHANGED vars,
         NEW d \in Drivers, Busy(d)'
  PROVE  drv'[d] = drv[d] /\ job'[Owner(d)] = job[Owner(d)]
  <1> USE DEF svcVars, chainVars, fdcVars, mintVars
  <1>o. Owner(d) \in Procs /\ \A s \in Scripts : s \in Procs /\ (Owner(d) = s => d = s)
    BY OwnerIsProc DEF Owner, Drivers, Procs
  <1>1. ASSUME NEW s \in Scripts, ResumeStarts(s) \/ RecoverStarts(s)
        PROVE  drv'[d] = drv[d] /\ job'[Owner(d)] = job[Owner(d)]
    <2>1. Starts(s)
      BY <1>1, StartSteps
    <2>2. d # s
      BY <2>1 DEF Starts, Busy
    <2> QED
      BY <1>o, <2>1, <2>2 DEF Starts
  <1>2. ASSUME NEW s \in Scripts, ScriptExits(s)
        PROVE  drv'[d] = drv[d] /\ job'[Owner(d)] = job[Owner(d)]
    <2>1. d # s /\ drv' = drv /\ job' = [job EXCEPT ![s] = Absent]
      BY <1>2 DEF ScriptExits, Busy
    <2> QED
      BY <1>o, <2>1 DEF TypeOK
  <1>3. CASE CreateJob
    <2>1. d \notin Ticks /\ drv' = drv
      BY <1>3 DEF CreateJob, PlacesInv, Busy
    <2> QED
      BY <1>3, <1>o, <2>1 DEF CreateJob, TypeOK, Owner, Drivers
  <1>4. CASE Crash
    <2>1. d \notin Ticks /\ drv'[d] = drv[d]
      BY <1>4 DEF Crash, Idle, Busy
    <2> QED
      BY <1>4, <1>o, <2>1 DEF Crash, TypeOK, Owner, Drivers
  <1>5. CASE CreateFails \/ Restart \/ UNCHANGED vars
    BY <1>5 DEF CreateFails, Restart, vars
  <1>6. CASE Flare
    BY <1>6, FlareSteps DEF FlareMoves
  <1> QED
    BY <1>1, <1>2, <1>3, <1>4, <1>5, <1>6 DEF Script, Service

\* What they leave in a job is a new one, none, or what is in the file, rewound perhaps.
LEMMA CopiesFrom ==
  ASSUME TypeOK, (\E s \in Scripts : Script(s)) \/ Service \/ Flare \/ UNCHANGED vars
  PROVE  /\ \A p \in Procs :
               \/ job'[p] \in {job[p], disk, Absent, FreshJob}
               \/ job'[p].state \in {disk.state, "observed"} /\ SameFields(disk, job'[p])
         /\ disk' \in {disk, Torn, FreshJob}
         /\ \A d \in Drivers : drv'[d].snap \in {drv[d].snap, Absent}
  <1> USE DEF svcVars, chainVars, fdcVars, mintVars
  <1>1. ASSUME NEW s \in Scripts, ResumeStarts(s) \/ RecoverStarts(s)
        PROVE  /\ disk' = disk /\ \A d \in Drivers : drv'[d].snap \in {drv[d].snap, Absent}
               /\ \A p \in Procs :
                     \/ job'[p] = job[p]
                     \/ job'[p].state \in {disk.state, "observed"} /\ SameFields(disk, job'[p])
    BY <1>1, StartSteps DEF Starts
  <1>2. ASSUME NEW s \in Scripts, ScriptExits(s)
        PROVE  /\ disk' = disk /\ drv' = drv
               /\ \A p \in Procs : job'[p] \in {job[p], Absent}
    BY <1>2 DEF ScriptExits, TypeOK
  <1>3. CASE CreateJob
    BY <1>3 DEF CreateJob, TypeOK
  <1>4. CASE CreateFails
    BY <1>4 DEF CreateFails
  <1>5. CASE Crash
    BY <1>5 DEF Crash, TypeOK, Idle
  <1>6. CASE Restart \/ UNCHANGED vars
    BY <1>6 DEF Restart, vars
  <1>7. CASE Flare
    BY <1>7, FlareSteps DEF FlareMoves
  <1> QED
    BY <1>1, <1>2, <1>3, <1>4, <1>5, <1>6, <1>7 DEF Script, Service

-----------------------------------------------------------------------------
(***************************************************************************)
(* No field is used before it is there.                                     *)
(***************************************************************************)

\* FieldsBeforeUse is not inductive: a driver assigns the state after its await, to the
\* job as it is by then.  The fields its case needs were there when it took the case, and
\* no one takes a field back.
Fields(c) == (c.state \in Prepared => c.request) /\ (c.state \in Submitted => c.round # 0)

\* FieldsBeforeUse, and what a driver that entered a case goes on to assume after its await:
\* the request or the round it dereferenced is in the copy it will write to.
FieldsInv ==
    /\ \A p \in Procs : Fields(job[p])
    /\ Fields(disk)
    /\ \A d \in Drivers :
          /\ Fields(drv[d].snap)
          /\ Busy(d) => /\ drv[d].at \in Prepared => job[Owner(d)].request
                        /\ drv[d].at \in Submitted => job[Owner(d)].round # 0

\* A driver's own step keeps the fields: each case stores its field with the state.
LEMMA DriverFields ==
  ASSUME TypeOK, PlacesInv, FieldsInv, NEW d \in Drivers, Steps(d), Alone(d)
  PROVE  FieldsInv'
  <1> DEFINE o == Owner(d)
  <1>o. o \in Procs /\ job[o] \in Copy /\ drv[d] \in Driver
    BY OwnerIsProc DEF TypeOK
  <1>f. /\ Fields(job[o]) /\ Fields(disk) /\ Fields(drv[d].snap)
        /\ Fields(Absent) /\ Fields(Torn)
    BY <1>o DEF FieldsInv, Fields, Absent, Torn, Prepared, Submitted
  <1>1. Fields(job'[o])
    <2>1. CASE Finishes(d)
      <3>1. drv[d].pc # "idle" =>
               /\ Busy(d) => /\ drv[d].at \in Prepared => job[o].request
                             /\ drv[d].at \in Submitted => job[o].round # 0
        BY DEF FieldsInv
      <3>2. PlacesInv
        OBVIOUS
      <3> QED
        BY <1>f, <2>1, <3>1, <3>2
           DEF Finishes, Fields, SameFields, Busy, Prepared, Submitted, PlacesInv
    <2>2. CASE Errs(d)
      BY <1>f, <2>2 DEF Errs, Fields, SameFields, Prepared, Submitted
    <2>3. CASE Enters(d) \/ Waits(d) \/ Saves(d) \/ Rests(d)
      BY <1>f, <2>3 DEF Enters, Waits, Saves, Rests
    <2> QED
      BY <2>1, <2>2, <2>3 DEF Steps
  <1>2. Fields(disk')
    BY <1>f DEF Steps, Enters, Waits, Finishes, Errs, Saves, Rests, Quiet
  <1>3. Fields(drv'[d].snap)
    BY <1>f DEF Steps, Enters, Waits, Finishes, Errs, Saves, Rests
  <1>4. Busy(d)' => /\ drv'[d].at \in Prepared => job'[o].request
                    /\ drv'[d].at \in Submitted => job'[o].round # 0
    BY <1>f DEF Steps, Enters, Waits, Finishes, Errs, Saves, Rests, Busy, Fields, FieldsInv
  <1>5. ASSUME NEW f \in Drivers, f # d
        PROVE  /\ Fields(drv'[f].snap)
               /\ Busy(f)' => /\ drv'[f].at \in Prepared => job'[Owner(f)].request
                              /\ drv'[f].at \in Submitted => job'[Owner(f)].round # 0
    <2>1. drv'[f] = drv[f] /\ Fields(drv[f].snap)
      BY <1>5 DEF Alone, FieldsInv
    <2>2. CASE Owner(f) # o
      <3>1. job'[Owner(f)] = job[Owner(f)]
        BY <2>2, OwnerIsProc DEF Alone
      <3> QED
        BY <2>1, <3>1 DEF FieldsInv, Busy
    <2>3. CASE Owner(f) = o
      <3>1. f \in Ticks /\ d \in Ticks
        BY <1>5, <2>3 DEF Owner, Drivers
      <3>2. /\ job[o].request => job'[o].request
            /\ job[o].round # 0 => job'[o].round # 0
        BY <3>1 DEF Steps, Enters, Waits, Finishes, Errs, Saves, Rests, SameFields, PlacesInv
      <3> QED
        BY <2>1, <2>3, <3>2 DEF FieldsInv, Busy
    <2> QED
      BY <2>2, <2>3
  <1>6. \A p \in Procs : Fields(job'[p])
    BY <1>1 DEF Alone, FieldsInv
  <1> QED
    BY <1>2, <1>3, <1>4, <1>5, <1>6 DEF FieldsInv

\* So does every step: a script that rewinds a job keeps its fields.
LEMMA FieldsNext == TypeOK /\ PlacesInv /\ FieldsInv /\ [Next]_vars => FieldsInv'
  <1> SUFFICES ASSUME TypeOK, PlacesInv, FieldsInv, [Next]_vars
               PROVE  FieldsInv'
    OBVIOUS
  <1>1. ASSUME NEW d \in Drivers, Progress(d) \/ Mishap(d)
        PROVE  FieldsInv'
    BY <1>1, DriverSteps, DriverFields
  <1>2. CASE (\E s \in Scripts : Script(s)) \/ Service \/ Flare \/ UNCHANGED vars
    <2>1. Fields(Absent) /\ Fields(Torn) /\ Fields(FreshJob) /\ Fields(disk)
      BY DEF FieldsInv, Fields, Absent, Torn, FreshJob, Prepared, Submitted
    <2>2. ASSUME NEW p \in Procs
          PROVE  Fields(job'[p])
      <3>1. CASE job'[p].state \in {disk.state, "observed"} /\ SameFields(disk, job'[p])
        BY <2>1, <3>1 DEF Fields, SameFields, Prepared, Submitted
      <3>2. CASE job'[p] \in {job[p], disk, Absent, FreshJob}
        BY <2>1, <3>2 DEF FieldsInv
      <3> QED
        BY <1>2, <3>1, <3>2, CopiesFrom
    <2>3. Fields(disk') /\ \A d \in Drivers : Fields(drv'[d].snap)
      BY <1>2, <2>1, CopiesFrom DEF FieldsInv
    <2>4. ASSUME NEW d \in Drivers, Busy(d)'
          PROVE  /\ drv'[d].at \in Prepared => job'[Owner(d)].request
                 /\ drv'[d].at \in Submitted => job'[Owner(d)].round # 0
      BY <1>2, <2>4, NobodyDriving DEF FieldsInv, Busy
    <2> QED
      BY <2>2, <2>3, <2>4 DEF FieldsInv
  <1> QED
    BY <1>1, <1>2 DEF Next

\* abiEncodedRequest! and roundId! are never undefined where step() dereferences them:
\* not in memory, not in the file, and not in bytes on their way there, however many
\* ticks and scripts drive the job, rewind it, or lose it in a crash.
THEOREM NoFieldMissing == Spec => []FieldsBeforeUse
  <1>1. Init => FieldsInv
    BY DEF Init, FieldsInv, Fields, Idle, Absent, Prepared, Submitted, Busy
  <1>2. FieldsInv => FieldsBeforeUse
    BY DEF FieldsInv, Fields, FieldsBeforeUse, Copies
  <1> QED
    BY <1>1, <1>2, FieldsNext, Placed, PTL DEF Spec

-----------------------------------------------------------------------------
(***************************************************************************)
(* What a job's only driver may rely on.                                    *)
(***************************************************************************)

\* No two activations of #tick overlap.  There may be scripts beside the service: each
\* has a process, and so a Job object, of its own.
OneTick == \A t, u \in Ticks : t = u

\* Then what a driver read at the switch is still so when its call returns.
SoloInv ==
    \A d \in Drivers : Busy(d) =>
        /\ drv[d].at = job[Owner(d)].state
        /\ drv[d].pc = "await" => drv[d].arg = job[Owner(d)].round

\* With one tick, two drivers of one copy are the same driver.
LEMMA OneDriver ==
  ASSUME OneTick, NEW d \in Drivers, NEW f \in Drivers, Owner(d) = Owner(f)
  PROVE  d = f
  BY DEF OneTick, Owner, Drivers

\* Another driver, and the job it drives, are as they were.
LEMMA OthersKeep ==
  ASSUME OneTick, NEW d \in Drivers, Alone(d), NEW f \in Drivers, f # d
  PROVE  drv'[f] = drv[f] /\ job'[Owner(f)] = job[Owner(f)]
  BY OneDriver, OwnerIsProc DEF Alone

\* Nobody else writes to the copy of a driver that awaits.
LEMMA SoloNext == OneTick /\ TypeOK /\ PlacesInv /\ SoloInv /\ [Next]_vars => SoloInv'
  <1> SUFFICES ASSUME OneTick, TypeOK, PlacesInv, SoloInv, [Next]_vars,
                      NEW f \in Drivers, Busy(f)'
               PROVE  /\ drv'[f].at = job'[Owner(f)].state
                      /\ drv'[f].pc = "await" => drv'[f].arg = job'[Owner(f)].round
    BY DEF SoloInv
  <1>1. ASSUME NEW d \in Drivers, Progress(d) \/ Mishap(d)
        PROVE  /\ drv'[f].at = job'[Owner(f)].state
               /\ drv'[f].pc = "await" => drv'[f].arg = job'[Owner(f)].round
    <2>1. Steps(d) /\ Alone(d)
      BY <1>1, DriverSteps
    <2>2. CASE f = d
      BY <2>1, <2>2 DEF Steps, Enters, Waits, Finishes, Errs, Saves, Rests, Busy, SoloInv
    <2>3. CASE f # d
      BY <2>1, <2>3, OthersKeep DEF SoloInv, Busy
    <2> QED
      BY <2>2, <2>3
  <1>2. CASE (\E s \in Scripts : Script(s)) \/ Service \/ Flare \/ UNCHANGED vars
    BY <1>2, NobodyDriving DEF SoloInv, Busy
  <1> QED
    BY <1>1, <1>2 DEF Next

\* With one tick, what a driver read before its await is still so after it.
LEMMA Solo == OneTick => (Spec => []SoloInv)
  <1> SUFFICES ASSUME OneTick
               PROVE  Spec => []SoloInv
    OBVIOUS
  <1>1. Init => SoloInv
    BY DEF Init, SoloInv, Idle, Busy
  <1>2. TypeOK /\ PlacesInv /\ SoloInv /\ [Next]_vars => SoloInv'
    BY SoloNext
  <1> QED
    BY <1>1, <1>2, Placed, PTL DEF Spec

\* The states past the round.
Late == {"round_finalized", "proof_fetched", "delayed"}

\* A copy that no longer waits for its round has one that the Relay has finalised.
RoundReached(c) == c.state \in Late => c.round <= final

\* RoundIsFinal, of copies that are only on their way to the file too.
RoundInv ==
    /\ \A p \in Procs : RoundReached(job[p])
    /\ RoundReached(disk)
    /\ \A d \in Drivers : RoundReached(drv[d].snap)

\* A driver's own step keeps it: waitForFinalization was asked about the copy's round.
LEMMA DriverRound ==
  ASSUME TypeOK, PlacesInv, SoloInv, RoundInv,
         NEW d \in Drivers, Steps(d), Alone(d), Around(d)
  PROVE  RoundInv'
  <1> DEFINE o == Owner(d)
  <1>f. /\ RoundReached(job[o]) /\ RoundReached(disk) /\ RoundReached(drv[d].snap)
        /\ RoundReached(Absent) /\ RoundReached(Torn) /\ final' = final
    BY OwnerIsProc DEF RoundInv, RoundReached, Absent, Torn, Late, Around
  <1>1. RoundReached(job'[o])
    <2>1. CASE Finishes(d)
      BY <1>f, <2>1 DEF Finishes, RoundReached, SameFields, Busy, Late, SoloInv, PlacesInv
    <2>2. CASE Errs(d)
      BY <1>f, <2>2 DEF Errs, RoundReached, SameFields, Late
    <2>3. CASE Enters(d) \/ Waits(d) \/ Saves(d) \/ Rests(d)
      BY <1>f, <2>3 DEF Enters, Waits, Saves, Rests
    <2> QED
      BY <2>1, <2>2, <2>3 DEF Steps
  <1>2. RoundReached(disk') /\ RoundReached(drv'[d].snap)
    BY <1>f DEF Steps, Enters, Waits, Finishes, Errs, Saves, Rests, Quiet
  <1>3. \A p \in Procs : p # o => RoundReached(job'[p])
    BY <1>f DEF Alone, RoundInv
  <1>4. \A f \in Drivers : f # d => RoundReached(drv'[f].snap)
    BY <1>f DEF Alone, RoundInv
  <1> QED
    BY <1>f, <1>1, <1>2, <1>3, <1>4 DEF RoundInv, RoundReached

\* Without overlapping ticks a job past "request_submitted" has a round that the Relay has
\* finalised, whatever scripts rewind the job beside the service and whatever fails.  (With
\* them, a second submission's round may arrive in a job that has moved on.)
THEOREM RoundOfTheOne == OneTick => (Spec => []RoundIsFinal)
  <1> SUFFICES ASSUME OneTick
               PROVE  Spec => []RoundIsFinal
    OBVIOUS
  <1>1. Init => RoundInv
    BY DEF Init, RoundInv, RoundReached, Idle, Absent, Late
  <1>2. TypeOK /\ PlacesInv /\ SoloInv /\ RoundInv /\ [Next]_vars => RoundInv'
    <2> SUFFICES ASSUME TypeOK, PlacesInv, SoloInv, RoundInv, [Next]_vars
                 PROVE  RoundInv'
      OBVIOUS
    <2>1. ASSUME NEW d \in Drivers, Progress(d) \/ Mishap(d)
          PROVE  RoundInv'
      BY <2>1, DriverSteps, DriverRound
    <2>2. CASE (\E s \in Scripts : Script(s)) \/ Service \/ Flare \/ UNCHANGED vars
      <3> DEFINE Reached(c) == c.state \in Late => c.round <= final'
      <3>1. final' \in {final, final + 1}
        BY <2>2, FlareSteps
           DEF FlareMoves, Script, ResumeStarts, RecoverStarts, ScriptExits, Service,
               CreateJob, CreateFails, Crash, Restart, vars, chainVars, fdcVars
      <3>2. ASSUME NEW c \in Copy, RoundReached(c)
            PROVE  Reached(c)
        BY <3>1, <3>2 DEF RoundReached, TypeOK, Copy
      <3>3. Reached(disk) /\ Reached(Absent) /\ Reached(Torn) /\ Reached(FreshJob)
        BY <3>2 DEF RoundInv, TypeOK, Absent, Torn, FreshJob, Late
      <3>4. /\ \A p \in Procs : Reached(job[p])
            /\ \A d \in Drivers : Reached(drv[d].snap)
        BY <3>2 DEF RoundInv, TypeOK, Driver
      <3>5. ASSUME NEW p \in Procs
            PROVE  Reached(job'[p])
        <4>1. CASE job'[p].state \in {disk.state, "observed"} /\ SameFields(disk, job'[p])
          BY <3>3, <4>1 DEF SameFields, Late
        <4>2. CASE job'[p] \in {job[p], disk, Absent, FreshJob}
          BY <3>3, <3>4, <4>2
        <4> QED
          BY <2>2, <4>1, <4>2, CopiesFrom
      <3>6. Reached(disk') /\ \A d \in Drivers : Reached(drv'[d].snap)
        BY <2>2, <3>3, <3>4, CopiesFrom
      <3> QED
        BY <3>5, <3>6 DEF RoundInv, RoundReached
    <2> QED
      BY <2>1, <2>2 DEF Next
  <1>3. RoundInv => RoundIsFinal
    BY DEF RoundInv, RoundReached, RoundIsFinal, Copies, Late
  <1> QED
    BY <1>1, <1>2, <1>3, Solo, Placed, PTL DEF Spec

\* Without overlapping ticks the service's job only moves forward until the process dies,
\* and ends once, whatever scripts do to its file meanwhile.
THEOREM OnlyForward == OneTick => (Spec => NeverStepsBack)
  <1> SUFFICES ASSUME OneTick
               PROVE  Spec => NeverStepsBack
    OBVIOUS
  <1> DEFINE Forward ==
        LET old == job["service"]
            new == job'["service"]
        IN  IsJob(old) /\ IsJob(new) =>
               /\ Rank(old.state) <= Rank(new.state)
               /\ Terminal(old) => new.state = old.state
  <1>1. TypeOK /\ PlacesInv /\ SoloInv /\ [Next]_vars => [Forward]_vars
    <2> SUFFICES ASSUME TypeOK, PlacesInv, SoloInv, Next,
                        IsJob(job["service"]), IsJob(job'["service"])
                 PROVE  Forward
      OBVIOUS
    <2>1. CASE job'["service"] = job["service"]
      BY <2>1 DEF Rank, IsJob, JobState
    <2>2. ASSUME NEW d \in Drivers, Progress(d) \/ Mishap(d),
                 job'["service"] # job["service"]
          PROVE  Forward
      <3>1. Steps(d) /\ Alone(d)
        BY <2>2, DriverSteps
      <3>2. Owner(d) = "service"
        BY <2>2, <3>1 DEF Alone, Procs
      <3>3. CASE Finishes(d)
        BY <3>2, <3>3 DEF Finishes, SoloInv, PlacesInv, Busy, Rank, Terminal
      <3>4. CASE Errs(d)
        <4>1. job["service"].state \notin {"executed", "failed"}
          BY <3>2, <3>4 DEF Errs, SoloInv, PlacesInv
        <4> QED
          BY <3>2, <3>4, <4>1 DEF Errs, Rank, Terminal, IsJob, JobState
      <3>5. CASE Enters(d) \/ Waits(d) \/ Saves(d) \/ Rests(d)
        BY <2>2, <3>2, <3>5 DEF Enters, Waits, Saves, Rests, Absent, IsJob, JobState
      <3> QED
        BY <3>1, <3>3, <3>4, <3>5 DEF Steps
    <2>3. ASSUME (\E s \in Scripts : Script(s)) \/ Service \/ Flare
          PROVE  job'["service"] = job["service"]
      <3> USE DEF svcVars, chainVars, fdcVars, mintVars
      <3>1. ASSUME NEW s \in Scripts, Script(s)
            PROVE  job'["service"] = job["service"]
        BY <3>1, StartSteps DEF Script, Starts, ScriptExits, TypeOK, Procs
      <3>2. ~ watch /\ up
        BY DEF PlacesInv, Absent, IsJob, JobState
      <3>3. ~ Crash
        BY DEF Crash, Absent, IsJob, JobState, TypeOK, Procs
      <3>4. CASE Service
        BY <3>2, <3>3, <3>4 DEF Service, CreateJob, CreateFails, Restart
      <3>5. CASE Flare
        BY <3>5, FlareSteps DEF FlareMoves
      <3> QED
        BY <2>3, <3>1, <3>4, <3>5
    <2> QED
      BY <2>1, <2>2, <2>3 DEF Next
  <1>2. [](TypeOK /\ PlacesInv) /\ []SoloInv /\ [][Next]_vars => [][Forward]_vars
    BY <1>1, PTL
  <1> QED
    BY <1>2, Solo, Placed, PTL DEF Spec, NeverStepsBack

-----------------------------------------------------------------------------
(***************************************************************************)
(* Where the attestation fees go.                                           *)
(***************************************************************************)

\* Process p has, or may be given, a job whose request it has yet to pay for.
MaySpend(p) ==
    \/ p = "service" /\ (watch \/ ~up)
    \/ /\ job[p].state \in {"observed", "request_prepared"}
       /\ \A d \in Drivers : Owner(d) = p => drv[d].pc # "landed"

\* The copies that may still pay.
Spenders == {p \in Procs : MaySpend(p)}

\* A request on its way that nobody waits for.
Loose == IF "submit" \in orphans THEN 1 ELSE 0

\* What the faults and the operators have paid for and nobody has spent.
Credit == 1 + faults + runs - fees - Loose

\* The bound on the fees is kept because it counts ahead: a fee is reserved for each
\* process that is on its way to a submission, and for a request that may yet be mined.
FeeInv == IsFiniteSet(Spenders) /\ Cardinality(Spenders) <= Credit

\* A step keeps it if whoever joins the spenders brings a credit, and whoever takes one
\* leaves them.
LEMMA Account ==
  ASSUME TypeOK, FeeInv, NEW p \in Procs, NEW c \in {-1, 0, 1}, Credit' = Credit + c,
         \/ c >= 0 /\ Spenders' \subseteq Spenders
         \/ c = 1 /\ Spenders' \subseteq Spenders \cup {p}
         \/ c = -1 /\ p \in Spenders /\ Spenders' \subseteq Spenders \ {p}
  PROVE  FeeInv'
  <1> DEFINE C == Cardinality(Spenders)
             D == Cardinality(Spenders')
  <1>1. IsFiniteSet(Spenders) /\ C \in Nat /\ Credit \in Int
    BY FS_CardinalityType DEF FeeInv, Credit, Loose, TypeOK
  <1>2. IsFiniteSet(Spenders') /\ D \in Nat /\ D <= C + c
    <2>1. CASE c >= 0 /\ Spenders' \subseteq Spenders
      BY <1>1, <2>1, FS_Subset, FS_CardinalityType
    <2>2. CASE c = 1 /\ Spenders' \subseteq Spenders \cup {p}
      <3>1. /\ IsFiniteSet(Spenders \cup {p})
            /\ Cardinality(Spenders \cup {p}) \in {C, C + 1}
        BY <1>1, FS_AddElement
      <3>2. IsFiniteSet(Spenders') /\ D \in Nat /\ D <= Cardinality(Spenders \cup {p})
        BY <2>2, <3>1, FS_Subset, FS_CardinalityType
      <3> QED
        BY <1>1, <2>2, <3>1, <3>2
    <2>3. CASE c = -1 /\ p \in Spenders /\ Spenders' \subseteq Spenders \ {p}
      <3>1. IsFiniteSet(Spenders \ {p}) /\ Cardinality(Spenders \ {p}) = C - 1
        BY <1>1, <2>3, FS_RemoveElement
      <3>2. IsFiniteSet(Spenders') /\ D \in Nat /\ D <= Cardinality(Spenders \ {p})
        BY <2>3, <3>1, FS_Subset, FS_CardinalityType
      <3> QED
        BY <1>1, <2>3, <3>1, <3>2
    <2> QED
      BY <2>1, <2>2, <2>3
  <1>3. D <= Credit + c
    BY <1>1, <1>2 DEF FeeInv
  <1> QED
    BY <1>2, <1>3 DEF FeeInv

\* A driver reserves nothing new but by losing the receipt of a mined request, which is
\* a fault; and it is a spender until its request is mined.
LEMMA DriverFees ==
  ASSUME OneTick, TypeOK, PlacesInv, SoloInv, FeeInv,
         NEW d \in Drivers, Steps(d), Alone(d), Around(d)
  PROVE  FeeInv'
  <1> DEFINE o == Owner(d)
  <1>o. o \in Procs /\ job[o] \in Copy /\ drv[d] \in Driver
    BY OwnerIsProc DEF TypeOK
  <1>1. \A p \in Procs : p # o /\ MaySpend(p)' => MaySpend(p)
    BY DEF Alone, Around, MaySpend
  <1>2. ASSUME MaySpend(o)'
        PROVE  MaySpend(o) \/ (drv[d].pc = "landed" /\ Errs(d))
    <2>1. CASE o = "service" /\ (watch \/ ~up)
      BY <2>1 DEF MaySpend
    <2>2. CASE job'[o].state \in {"observed", "request_prepared"} /\ drv'[d].pc # "landed"
      <3>1. job[o].state \in {"observed", "request_prepared"}
        BY <2>2 DEF Steps, Enters, Waits, Finishes, Errs, Saves, Rests, SoloInv, PlacesInv,
                    Busy, Absent
      <3>2. drv[d].pc # "landed" \/ Errs(d)
        BY <2>2 DEF Steps, Enters, Waits, Finishes, Errs, Saves, Rests, SoloInv, PlacesInv, Busy
      <3> QED
        BY <3>1, <3>2, OneDriver DEF MaySpend
    <2> QED
      BY <1>2, <2>1, <2>2 DEF MaySpend, Around
  <1>3. runs' = runs
    BY DEF Around
  <1>4. CASE Waits(d) /\ drv'[d].pc = "landed" /\ fees' = fees + 1
    <2>1. /\ drv[d].pc = "sent" /\ drv[d].at = "request_prepared"
          /\ orphans' = orphans /\ faults' = faults
      BY <1>4, <1>o DEF Waits, TypeOK
    <2>2. job[o].state = "request_prepared"
      BY <2>1 DEF SoloInv, Busy
    <2>3. MaySpend(o)
      BY <2>1, <2>2, OneDriver DEF MaySpend
    <2>4. ~(o = "service" /\ (watch \/ ~up))
      BY <2>2 DEF PlacesInv, Absent
    <2>5. ~MaySpend(o)'
      BY <1>4, <2>4 DEF MaySpend, Around
    <2>6. o \in Spenders /\ Spenders' \subseteq Spenders \ {o}
      BY <1>1, <1>o, <2>3, <2>5 DEF Spenders
    <2>7. Credit' = Credit + (-1)
      BY <1>3, <1>4, <2>1 DEF Credit, Loose, TypeOK
    <2> QED
      BY <1>o, <2>6, <2>7, Account
  <1>5. CASE drv[d].pc = "landed" /\ Errs(d)
    <2>1. Spenders' \subseteq Spenders \cup {o}
      BY <1>1 DEF Spenders
    <2>2. Credit' = Credit + 1
      BY <1>3, <1>5 DEF Errs, Credit, Loose, TypeOK
    <2> QED
      BY <1>o, <2>1, <2>2, Account
  <1>6. CASE ~(drv[d].pc = "landed" /\ Errs(d)) /\ ~(Waits(d) /\ drv'[d].pc = "landed" /\ fees' = fees + 1)
    <2>1. Spenders' \subseteq Spenders
      BY <1>1, <1>2, <1>6 DEF Spenders
    <2>2. Credit' \in {Credit, Credit + 1}
      BY <1>3, <1>6 DEF Steps, Enters, Waits, Finishes, Errs, Saves, Rests, Quiet, Credit, Loose, TypeOK
    <2>3. PICK c \in {0, 1} : Credit' = Credit + c
      BY <2>2 DEF Credit, Loose, TypeOK
    <2> QED
      BY <1>o, <2>1, <2>3, Account
  <1> QED
    BY <1>4, <1>5, <1>6

\* The rest: a script and a crash may add a spender, and are counted; the service's is
\* there already when a job is created; an orphan's fee was reserved.
LEMMA FeeNext == OneTick /\ TypeOK /\ PlacesInv /\ SoloInv /\ FeeInv /\ [Next]_vars => FeeInv'
  <1> SUFFICES ASSUME OneTick, TypeOK, PlacesInv, SoloInv, FeeInv, [Next]_vars
               PROVE  FeeInv'
    OBVIOUS
  <1> USE DEF svcVars, chainVars, fdcVars, mintVars
  <1>p. "service" \in Procs /\ \A s \in Scripts : s \in Procs /\ s # "service"
    BY DEF Procs
  <1>1. ASSUME NEW d \in Drivers, Progress(d) \/ Mishap(d)
        PROVE  FeeInv'
    BY <1>1, DriverSteps, DriverFees
  <1>2. ASSUME NEW s \in Scripts, ResumeStarts(s) \/ RecoverStarts(s)
        PROVE  FeeInv'
    <2>1. Starts(s)
      BY <1>2, StartSteps
    <2>2. ASSUME NEW p \in Procs, p # s, MaySpend(p)'
          PROVE  MaySpend(p)
      BY <2>1, <2>2 DEF Starts, MaySpend, Owner
    <2>3. Spenders' \subseteq Spenders \cup {s}
      BY <2>2 DEF Spenders
    <2>4. Credit' = Credit + 1
      BY <2>1 DEF Starts, Credit, Loose, TypeOK
    <2> QED
      BY <1>p, <2>3, <2>4, Account
  <1>3. ASSUME NEW s \in Scripts, ScriptExits(s)
        PROVE  FeeInv'
    <2>1. \A p \in Procs : MaySpend(p)' => MaySpend(p)
      BY <1>3 DEF ScriptExits, MaySpend, Absent, TypeOK
    <2>2. Spenders' \subseteq Spenders
      BY <2>1 DEF Spenders
    <2>3. Credit' = Credit + 0
      BY <1>3 DEF ScriptExits, Credit, Loose, TypeOK
    <2> QED
      BY <1>p, <2>2, <2>3, Account
  <1>4. CASE CreateJob \/ CreateFails \/ Restart
    <2>1. \A p \in Procs : p # "service" => job'[p] = job[p]
      BY <1>4 DEF CreateJob, CreateFails, Restart, TypeOK
    <2>2. drv' = drv /\ (watch \/ ~up)
      BY <1>4 DEF CreateJob, CreateFails, Restart
    <2>3. \A p \in Procs : MaySpend(p)' => MaySpend(p)
      BY <2>1, <2>2 DEF MaySpend
    <2>4. Spenders' \subseteq Spenders
      BY <2>3 DEF Spenders
    <2>5. Credit' \in {Credit, Credit + 1}
      BY <1>4 DEF CreateJob, CreateFails, Restart, Inject, Credit, Loose, TypeOK
    <2>6. PICK c \in {0, 1} : Credit' = Credit + c
      BY <2>5 DEF Credit, Loose, TypeOK
    <2> QED
      BY <1>p, <2>4, <2>6, Account
  <1>5. CASE Crash
    <2>1. ASSUME NEW p \in Procs, p # "service", MaySpend(p)'
          PROVE  MaySpend(p)
      <3>1. job'[p] = job[p] /\ \A d \in Drivers : Owner(d) = p => drv'[d] = drv[d]
        BY <1>5, <2>1 DEF Crash, TypeOK, Owner
      <3> QED
        BY <2>1, <3>1 DEF MaySpend
    <2>2. /\ runs' = runs /\ fees' = fees /\ faults' = faults + 1 /\ orphans \subseteq orphans'
          /\ "submit" \in orphans' \ orphans =>
                \E t \in Ticks : drv[t].pc = "sent" /\ drv[t].at = "request_prepared"
      BY <1>5 DEF Crash, Inject
    <2>3. CASE "submit" \in orphans' \ orphans
      <3>1. PICK t \in Ticks : drv[t].pc = "sent" /\ drv[t].at = "request_prepared"
        BY <2>2, <2>3
      <3>2. t \in Drivers /\ Owner(t) = "service"
        BY DEF Drivers, Owner
      <3>3. MaySpend("service")
        BY <3>1, <3>2, OneDriver DEF MaySpend, SoloInv, Busy
      <3>4. Spenders' \subseteq Spenders
        BY <1>p, <2>1, <3>3 DEF Spenders
      <3>5. Credit' = Credit + 0
        BY <2>2, <2>3 DEF Credit, Loose, TypeOK
      <3> QED
        BY <1>p, <3>4, <3>5, Account
    <2>4. CASE "submit" \notin orphans' \ orphans
      <3>1. Spenders' \subseteq Spenders \cup {"service"}
        BY <2>1 DEF Spenders
      <3>2. Credit' = Credit + 1
        BY <2>2, <2>4 DEF Credit, Loose, TypeOK
      <3> QED
        BY <1>p, <3>1, <3>2, Account
    <2> QED
      BY <2>3, <2>4
  <1>6. CASE Flare
    <2>1. FlareMoves
      BY <1>6, FlareSteps
    <2>2. Spenders' \subseteq Spenders
      BY <2>1 DEF FlareMoves, Spenders, MaySpend
    <2>3. Credit' \in {Credit, Credit + 1}
      BY <2>1 DEF FlareMoves, Credit, Loose, TypeOK
    <2>4. PICK c \in {0, 1} : Credit' = Credit + c
      BY <2>3 DEF Credit, Loose, TypeOK
    <2> QED
      BY <1>p, <2>2, <2>4, Account
  <1>7. CASE UNCHANGED vars
    BY <1>7 DEF vars, FeeInv, Credit, Loose, Spenders, MaySpend
  <1> QED
    BY <1>1, <1>2, <1>3, <1>4, <1>5, <1>6, <1>7 DEF Next, Script, Service

\* Without overlapping ticks the payment is attested once, and once more at the most for
\* each fault and for each script an operator started: restarts, receipts that come late
\* and scripts beside the service included.  (Two ticks that overlap pay twice with no
\* fault at all.)
THEOREM FeesAreEarned == OneTick => (Spec => []FeesPayForFaults)
  <1> SUFFICES ASSUME OneTick
               PROVE  Spec => []FeesPayForFaults
    OBVIOUS
  <1>1. Init => FeeInv
    <2> SUFFICES ASSUME Init
                 PROVE  FeeInv
      OBVIOUS
    <2>1. Spenders = {"service"}
      BY DEF Init, Spenders, MaySpend, Absent, Procs
    <2>2. IsFiniteSet(Spenders) /\ Cardinality(Spenders) = 1
      BY <2>1, FS_Singleton
    <2> QED
      BY <2>2 DEF Init, FeeInv, Credit, Loose
  <1>2. TypeOK /\ FeeInv => FeesPayForFaults
    BY FS_CardinalityType DEF FeeInv, Credit, Loose, TypeOK, FeesPayForFaults
  <1>3. TypeOK /\ PlacesInv /\ SoloInv /\ FeeInv /\ [Next]_vars => FeeInv'
    BY FeeNext
  <1> QED
    BY <1>1, <1>2, <1>3, Solo, Placed, PTL DEF Spec

-----------------------------------------------------------------------------
(***************************************************************************)
(* The file, when one tick is all there is.                                 *)
(***************************************************************************)

\* Whatever is driven, or waits to be, is a job.
LiveInv == (live \/ \E t \in Ticks : drv[t].pc # "idle") => IsJob(job["service"])

\* The file holds the job but while step() is on its way to save it, or is saving it.
SaveInv ==
    IsJob(job["service"]) =>
        /\ disk = job["service"] \/ \E t \in Ticks : drv[t].pc \notin {"idle", "await"}
        /\ \A t \in Ticks : drv[t].pc = "write" => disk = Torn /\ drv[t].snap = job["service"]

\* Every step keeps it.
LEMMA LiveNext == TypeOK /\ PlacesInv /\ LiveInv /\ [Next]_vars => LiveInv'
  <1> SUFFICES ASSUME TypeOK, PlacesInv, LiveInv, [Next]_vars
               PROVE  LiveInv'
    OBVIOUS
  <1> USE DEF svcVars, chainVars, fdcVars, mintVars
  <1>1. ASSUME NEW d \in Drivers, Progress(d) \/ Mishap(d)
        PROVE  LiveInv'
    <2>1. Steps(d) /\ Alone(d) /\ Around(d)
      BY <1>1, DriverSteps
    <2>2. CASE d \in Scripts
      <3>1. Owner(d) # "service" /\ d \notin Ticks
        BY <2>2 DEF Owner
      <3>2. live' = live \/ ~live'
        BY <2>1, <3>1 DEF Around, TypeOK
      <3> QED
        BY <2>1, <3>1, <3>2 DEF Alone, LiveInv, Procs, Drivers
    <2>3. CASE d \in Ticks
      <3>1. Owner(d) = "service"
        BY <2>3 DEF Owner
      <3>2. CASE IsJob(job["service"])
        BY <2>1, <2>3, <3>1, <3>2
           DEF Steps, Enters, Waits, Finishes, Errs, Saves, Rests, LiveInv, IsJob, JobState
      <3>3. CASE ~IsJob(job["service"])
        BY <2>1, <2>3, <3>1, <3>3
           DEF Steps, Enters, Waits, Finishes, Errs, Saves, Rests, Busy, LiveInv, IsJob, JobState
      <3> QED
        BY <3>2, <3>3
    <2> QED
      BY <2>2, <2>3 DEF Drivers
  <1>2. ASSUME NEW s \in Scripts, Script(s)
        PROVE  LiveInv'
    <2>1. job'["service"] = job["service"] /\ live' = live
      BY <1>2, StartSteps DEF Script, Starts, ScriptExits, TypeOK, Procs
    <2>2. \A t \in Ticks : drv'[t] = drv[t]
      BY <1>2, StartSteps DEF Script, Starts, ScriptExits, Drivers
    <2> QED
      BY <2>1, <2>2 DEF LiveInv
  <1>3. CASE CreateJob
    BY <1>3 DEF CreateJob, LiveInv, IsJob, FreshJob, JobState, TypeOK, Procs
  <1>4. CASE Crash
    BY <1>4 DEF Crash, LiveInv, Idle, Drivers
  <1>5. CASE CreateFails \/ Restart \/ UNCHANGED vars
    BY <1>5 DEF CreateFails, Restart, vars, LiveInv
  <1>6. CASE Flare
    BY <1>6, FlareSteps DEF FlareMoves, LiveInv
  <1> QED
    BY <1>1, <1>2, <1>3, <1>4, <1>5, <1>6 DEF Next, Service

\* Every step keeps it when nobody else writes the file: a save that is opened is closed,
\* or the process dies and the copy is gone.
LEMMA SaveNext ==
  ASSUME OneTick, Scripts = {}, "disk" \notin Faults,
         TypeOK, PlacesInv, SaveInv, [Next]_vars
  PROVE  SaveInv'
  <1> USE DEF svcVars, chainVars, fdcVars, mintVars
  <1>1. ASSUME NEW d \in Drivers, Progress(d) \/ Mishap(d)
        PROVE  SaveInv'
    <2>1. Steps(d) /\ Alone(d)
      BY <1>1, DriverSteps
    <2>2. d \in Ticks /\ Owner(d) = "service" /\ \A t \in Ticks : t = d
      BY DEF Drivers, Owner, OneTick
    <2>3. CASE Finishes(d) \/ Errs(d)
      BY <2>2, <2>3 DEF Finishes, Errs, SaveInv
    <2>4. CASE Enters(d) \/ Waits(d) \/ Rests(d)
      BY <2>2, <2>4 DEF Enters, Waits, Rests, Quiet, Busy, SaveInv
    <2>5. CASE Saves(d)
      BY <2>2, <2>5 DEF Saves, SaveInv, IsJob, Torn, JobState
    <2> QED
      BY <2>1, <2>3, <2>4, <2>5 DEF Steps
  <1>2. CASE CreateJob
    BY <1>2 DEF CreateJob, SaveInv, PlacesInv, TypeOK, Procs
  <1>3. CASE Crash
    BY <1>3 DEF Crash, SaveInv, IsJob, Absent, JobState, TypeOK, Procs
  <1>4. ~CreateFails
    BY DEF CreateFails, Inject
  <1>5. CASE Restart \/ UNCHANGED vars
    BY <1>5 DEF Restart, vars, SaveInv
  <1>6. CASE Flare
    BY <1>6, FlareSteps DEF FlareMoves, SaveInv
  <1> QED
    BY <1>1, <1>2, <1>3, <1>4, <1>5, <1>6 DEF Next, Service

\* "Each transition is persisted before returning" holds of a service whose ticks do not
\* overlap, beside which no script runs and whose disk does not fail - in spite of crashes,
\* failed calls, lost receipts and reverts: outside step() the file is the job in memory.
THEOREM ReturnedIsPersisted ==
    OneTick /\ Scripts = {} /\ "disk" \notin Faults => (Spec => []PersistedBeforeReturn)
  <1> SUFFICES ASSUME OneTick, Scripts = {}, "disk" \notin Faults
               PROVE  Spec => []PersistedBeforeReturn
    OBVIOUS
  <1>1. Init => LiveInv /\ SaveInv
    BY DEF Init, LiveInv, SaveInv, Idle, IsJob, Absent, JobState, Procs, Drivers
  <1>2. TypeOK /\ PlacesInv /\ SaveInv /\ [Next]_vars => SaveInv'
    BY SaveNext
  <1>3. LiveInv /\ SaveInv => PersistedBeforeReturn
    BY DEF LiveInv, SaveInv, PersistedBeforeReturn, Drivers
  <1> QED
    BY <1>1, <1>2, <1>3, LiveNext, Placed, PTL DEF Spec

=============================================================================
