------------------------------- MODULE Intake -------------------------------
(***************************************************************************)
(* How the executor service takes payments on: the pending store            *)
(* (packages/executor/src/store.ts), the Core Vault watcher (watcher.ts) and *)
(* the first half of ExecutorService.#tick with ExecutorPipeline.create      *)
(* (service.ts, pipeline.ts).  What happens to a job afterwards is Pipeline. *)
(*                                                                           *)
(* A tick awaits the XRPL, then the store for each entry of the answer, then *)
(* the store and the disk for each payment it found; other ticks, HTTP       *)
(* requests and ledgers go on meanwhile.  writeFile truncates a file before  *)
(* it writes: a crash or an error between the two leaves one that does not   *)
(* parse, which get() and load() take for none.                              *)
(***************************************************************************)
EXTENDS Naturals, Sequences, SequencesExt, Memo

CONSTANTS
    Payments,   \* payments to the Core Vault, numbered as they settle in a ledger
    Memos,      \* the memos of each payment, in order
    Commitment, \* what commitmentFromMemos finds in them, Garbage for null
    Clients,    \* commitments that dApps register
    Ticks,      \* activations of #tick that may overlap
    Limit,      \* the page size of account_tx
    Faults,     \* kinds of fault: "disk", "rpc", "crash"
    MaxFaults,  \* bound: faults in one behaviour
    MaxLedger   \* bound: validated ledgers

ASSUME IntakeAssumption ==
    /\ Payments \subseteq Nat /\ DOMAIN Memos = Payments
    /\ Commitment = [p \in Payments |-> CommitmentFromMemos(Memos[p])]
    /\ Garbage \notin Clients
    /\ Limit \in Nat \ {0}
    /\ MaxFaults \in Nat /\ MaxLedger \in Nat
    /\ Faults \subseteq {"disk", "rpc", "crash"}

VARIABLES
    at,        \* the ledger each payment is validated in, 0 while it is not
    tip,       \* last validated ledger
    memory,    \* PendingStore.#memory
    stored,    \* commitments with a file in .executor-state/pending that parses
    torn,      \* commitments whose file there is truncated
    writing,   \* registrations on their way to their file, one at a time for a commitment
    acked,     \* registrations answered with 200
    up,        \* the service runs
    last,      \* Watcher.#lastLedger
    seen,      \* Watcher.#seen
    tk,        \* the ticks
    live,      \* the keys of ExecutorService.#live
    jobs,      \* payments with a job file that parses
    saving,    \* live jobs whose file step() is rewriting, truncated meanwhile
    faults,    \* history: faults so far
    begun,     \* history: fresh jobs begun for each payment
    ruined,    \* history: job files that a crash or an error left truncated
    dropped,   \* history: payments thrown away by a failed create()
    cut,       \* history: payments that a full page of account_tx left out
    unread,    \* history: payments looked up in vain, their acknowledged record truncated
    owed       \* history: payments validated from the watcher's start on, in this run of
               \* the service, and registered before its cursor was past them

ledgerVars == <<at, tip>>
storeVars  == <<memory, stored, torn, writing, acked>>
watchVars  == <<last, seen>>
jobVars    == <<live, jobs, saving, begun, ruined>>
histVars   == <<dropped, cut, unread, owed>>
vars == <<ledgerVars, storeVars, up, watchVars, tk, jobVars, faults, histVars>>

\* Where a tick is.  "poll": account_tx is out; "page": its answer is in; "get", "read":
\* awaiting the store for the head of todo, which had it in memory or reads its file;
\* "found": about to take on the head of found; "load", "save", "write": inside create()
\* for it, "write" while the file is truncated.
Tick == [pc : {"idle", "poll", "page", "get", "read", "found", "load", "save", "write"},
         min : Nat, todo : Seq(Payments), found : Seq(Payments)]

Idle == [pc |-> "idle", min |-> 0, todo |-> <<>>, found |-> <<>>]

IntakeTypeOK ==
    /\ at \in [Payments -> Nat] /\ tip \in Nat
    /\ memory \subseteq Clients /\ stored \subseteq Clients /\ torn \subseteq Clients
    /\ writing \subseteq Clients /\ acked \subseteq Clients
    /\ up \in BOOLEAN
    /\ last \in Nat /\ seen \subseteq Payments
    /\ tk \in [Ticks -> Tick]
    /\ live \subseteq Payments /\ jobs \subseteq Payments /\ saving \subseteq Payments
    /\ begun \in [Payments -> Nat] /\ ruined \in [Payments -> Nat]
    /\ faults \in Nat
    /\ owed \subseteq Payments /\ dropped \subseteq Payments
    /\ cut \subseteq Payments /\ unread \subseteq Payments

\* A service that has just started on an empty disk.
Init ==
    /\ at = [p \in Payments |-> 0] /\ tip = 1
    /\ memory = {} /\ stored = {} /\ torn = {} /\ writing = {} /\ acked = {}
    /\ up = TRUE
    /\ last = 2 /\ seen = {}
    /\ tk = [t \in Ticks |-> Idle]
    /\ live = {} /\ jobs = {} /\ saving = {}
    /\ begun = [p \in Payments |-> 0] /\ ruined = [p \in Payments |-> 0]
    /\ faults = 0 /\ owed = {} /\ dropped = {} /\ cut = {} /\ unread = {}

Inject(kind) == kind \in Faults /\ faults < MaxFaults /\ faults' = faults + 1

-----------------------------------------------------------------------------
(***************************************************************************)
(* POST /register and /prepare: PendingStore.register.                      *)
(***************************************************************************)

\* The commitment is recomputed and matches; the record is in memory at once, whether or
\* not it was registered before.
Register(c) ==
    /\ up /\ c \notin writing
    /\ memory' = memory \cup {c}
    /\ writing' = writing \cup {c}
    /\ UNCHANGED <<ledgerVars, stored, torn, acked, up, watchVars, tk, jobVars, faults, histVars>>

\* The directory is there and writeFile opens the file, which is empty from now on.
RegisterOpens(c) ==
    /\ up /\ c \in writing \ torn
    /\ stored' = stored \ {c}
    /\ torn' = torn \cup {c}
    /\ UNCHANGED <<ledgerVars, memory, writing, acked, up, watchVars, tk, jobVars, faults, histVars>>

\* Payments of commitment c that the next poll still asks for.
Ahead(c) == {p \in Payments : Commitment[p] = c /\ at[p] # 0 /\ at[p] >= last}

\* The file is written and the request answered.
Registered(c) ==
    /\ up /\ c \in writing \cap torn
    /\ writing' = writing \ {c}
    /\ stored' = stored \cup {c}
    /\ torn' = torn \ {c}
    /\ acked' = acked \cup {c}
    /\ owed' = owed \cup Ahead(c)
    /\ UNCHANGED <<ledgerVars, memory, up, watchVars, tk, jobVars, faults, dropped, cut, unread>>

\* The write fails: 500, but the record stays in memory, and the file as it is.
RegisterFails(c) ==
    /\ Inject("disk")
    /\ up /\ c \in writing
    /\ writing' = writing \ {c}
    /\ UNCHANGED <<ledgerVars, memory, stored, torn, acked, up, watchVars, tk, jobVars, histVars>>

-----------------------------------------------------------------------------
(***************************************************************************)
(* Watcher.poll.                                                            *)
(***************************************************************************)

PollSends(t) ==
    /\ up /\ tk[t].pc = "idle"
    /\ tk' = [tk EXCEPT ![t] = [Idle EXCEPT !.pc = "poll", !.min = last]]
    /\ UNCHANGED <<ledgerVars, storeVars, up, watchVars, jobVars, faults, histVars>>

Newer(p, q) == at[p] > at[q] \/ (at[p] = at[q] /\ p > q)

\* The validated payments from ledger min to ledger max.
Window(min, max) == {p \in Payments : at[p] # 0 /\ min <= at[p] /\ at[p] <= max}

\* account_tx: the newest Limit transactions of the window, newest first.
IsPage(page, window) ==
    /\ \A i, j \in DOMAIN page : i < j => Newer(page[i], page[j])
    /\ \A i \in DOMAIN page, p \in window \ Range(page) : Newer(page[i], p)
    /\ Len(page) < Limit => window \subseteq Range(page)

\* Up to the last ledger validated by the server that answers: those of the cluster may
\* be a ledger behind.
XrplAnswers(t, lag) ==
    LET window == Window(tk[t].min, tip - lag) IN
    /\ tk[t].pc = "poll"
    /\ \E page \in SeqOf(window, Limit) :
          /\ IsPage(page, window)
          /\ tk' = [tk EXCEPT ![t].pc = "page", ![t].todo = page]
          /\ cut' = cut \cup (window \ Range(page))
    /\ UNCHANGED <<ledgerVars, storeVars, up, watchVars, jobVars, faults, dropped, unread, owed>>

\* poll() throws: the tick logs it and goes on to its drive loop.
PollFails(t) ==
    /\ Inject("rpc")
    /\ tk[t].pc = "poll"
    /\ tk' = [tk EXCEPT ![t] = Idle]
    /\ UNCHANGED <<ledgerVars, storeVars, up, watchVars, jobVars, histVars>>

\* Mutant of Cursor: the cursor jumps to the ledger the chain is at.
CursorAtTip(passed) == IF tip > last THEN tip ELSE last

\* #lastLedger after some entries: the highest ledger among them, if it is higher.
Cursor(passed) ==
    LET higher == {at[p] : p \in {q \in passed : at[q] > last}}
    IN  IF higher = {} THEN last ELSE CHOOSE l \in higher : \A m \in higher : m <= l

\* The loop up to its next await: entries that were reported or carry no commitment
\* are passed over; the first other one is looked up in the store.
Scan(t, todo, found, done) ==
    LET Asks(p) == p \notin done /\ Commitment[p] # Garbage IN
    \E stop \in 1 .. Len(todo) + 1 :
        /\ \A i \in 1 .. stop - 1 : ~Asks(todo[i])
        /\ stop <= Len(todo) => Asks(todo[stop])
        /\ seen' = done
        /\ last' = Cursor({todo[i] : i \in {j \in DOMAIN todo : j <= stop}})
        /\ tk' = [tk EXCEPT ![t].pc = IF stop > Len(todo) THEN "found"
                                       ELSE IF Commitment[todo[stop]] \in memory THEN "get"
                                       ELSE "read",
                            ![t].todo = SubSeq(todo, stop, Len(todo)),
                            ![t].found = found]

PageArrives(t) ==
    /\ tk[t].pc = "page"
    /\ Scan(t, tk[t].todo, <<>>, seen)
    /\ UNCHANGED <<ledgerVars, storeVars, up, jobVars, faults, histVars>>

\* PendingStore.get for the head of todo: what was in memory, else what its file has now.
Answers(t) == tk[t].pc = "get" \/ Commitment[Head(tk[t].todo)] \in stored

\* Mutant of GetReturns: ledgerIndex is reported in place of the transaction.
GetReturnsLedger(t) ==
    LET p == Head(tk[t].todo) IN
    /\ tk[t].pc \in {"get", "read"}
    /\ Answers(t)
    /\ Scan(t, Tail(tk[t].todo), Append(tk[t].found, at[p]), seen \cup {p})
    /\ UNCHANGED <<ledgerVars, storeVars, up, jobVars, faults, histVars>>

\* Mutant of GetReturns: the payment is marked seen before the store has answered.
GetReturnsSeen(t) ==
    LET p == Head(tk[t].todo) IN
    /\ tk[t].pc \in {"get", "read"}
    /\ Scan(t, Tail(tk[t].todo), IF Answers(t) THEN Append(tk[t].found, p) ELSE tk[t].found,
            seen \cup {p})
    /\ UNCHANGED <<ledgerVars, storeVars, up, jobVars, faults, histVars>>

\* The store answers; a payment whose bytes we hold is marked seen and reported.
GetReturns(t) ==
    LET p == Head(tk[t].todo) IN
    /\ tk[t].pc \in {"get", "read"}
    /\ IF Answers(t)
       THEN /\ Scan(t, Tail(tk[t].todo), Append(tk[t].found, p), seen \cup {p})
            /\ memory' = memory \cup {Commitment[p]}
            /\ UNCHANGED unread
       ELSE /\ Scan(t, Tail(tk[t].todo), tk[t].found, seen)
            /\ unread' = IF Commitment[p] \in acked \cap torn THEN unread \cup {p} ELSE unread
            /\ UNCHANGED memory
    /\ UNCHANGED <<ledgerVars, stored, torn, writing, acked, up, jobVars, faults, dropped, cut, owed>>

-----------------------------------------------------------------------------
(***************************************************************************)
(* The rest of #tick for what the watcher found.                            *)
(***************************************************************************)

\* A payment already live is skipped; for another, create() asks the disk.  After the
\* last one the tick drives the live jobs and ends.
TakeOn(t) ==
    /\ tk[t].pc = "found"
    /\ IF tk[t].found = <<>> THEN tk' = [tk EXCEPT ![t] = Idle]
       ELSE IF Head(tk[t].found) \in live THEN tk' = [tk EXCEPT ![t].found = Tail(@)]
       ELSE tk' = [tk EXCEPT ![t].pc = "load"]
    /\ UNCHANGED <<ledgerVars, storeVars, up, watchVars, jobVars, faults, histVars>>

\* Mutant of CreateLoads: create() never looks at the disk.
CreateLoadsNothing(t) ==
    /\ tk[t].pc = "load"
    /\ tk' = [tk EXCEPT ![t].pc = "save"]
    /\ UNCHANGED <<ledgerVars, storeVars, up, watchVars, jobVars, faults, histVars>>

\* create(): an existing job is handed back,
CreateLoads(t) ==
    LET p == Head(tk[t].found) IN
    /\ tk[t].pc = "load"
    /\ IF p \in jobs
       THEN /\ live' = live \cup {p}
            /\ tk' = [tk EXCEPT ![t].pc = "found", ![t].found = Tail(@)]
       ELSE /\ tk' = [tk EXCEPT ![t].pc = "save"]
            /\ UNCHANGED live
    /\ UNCHANGED <<ledgerVars, storeVars, up, watchVars, jobs, saving, begun, ruined, faults, histVars>>

\* else save() opens the file of a fresh one,
CreateOpens(t) ==
    /\ tk[t].pc = "save"
    /\ jobs' = jobs \ {Head(tk[t].found)}
    /\ tk' = [tk EXCEPT ![t].pc = "write"]
    /\ UNCHANGED <<ledgerVars, storeVars, up, watchVars, live, saving, begun, ruined, faults, histVars>>

\* and writes it; then live.set.
CreateSaves(t) ==
    LET p == Head(tk[t].found) IN
    /\ tk[t].pc = "write"
    /\ jobs' = jobs \cup {p}
    /\ live' = live \cup {p}
    /\ begun' = [begun EXCEPT ![p] = @ + 1]
    /\ tk' = [tk EXCEPT ![t].pc = "found", ![t].found = Tail(@)]
    /\ UNCHANGED <<ledgerVars, storeVars, up, watchVars, saving, ruined, faults, histVars>>

\* save() throws out of the whole intake loop: the payments found with it are dropped
\* too, and the watcher has marked all of them seen.
CreateFails(t) ==
    /\ Inject("disk")
    /\ tk[t].pc \in {"save", "write"}
    /\ tk' = [tk EXCEPT ![t] = Idle]
    /\ dropped' = dropped \cup Range(tk[t].found)
    /\ UNCHANGED <<ledgerVars, storeVars, up, watchVars, jobVars, cut, unread, owed>>

-----------------------------------------------------------------------------
(***************************************************************************)
(* What Pipeline does to the file of a live job.                            *)
(***************************************************************************)

\* A step of the drive loop ends in save(), which opens the file
JobOpens(p) ==
    /\ up /\ p \in live \ saving
    /\ saving' = saving \cup {p}
    /\ jobs' = jobs \ {p}
    /\ UNCHANGED <<ledgerVars, storeVars, up, watchVars, tk, live, begun, ruined, faults, histVars>>

\* and writes it,
JobSaved(p) ==
    /\ up /\ p \in saving
    /\ saving' = saving \ {p}
    /\ jobs' = jobs \cup {p}
    /\ UNCHANGED <<ledgerVars, storeVars, up, watchVars, tk, live, begun, ruined, faults, histVars>>

\* or throws: the drive loop logs it, and the job stays live.
JobSaveFails(p) ==
    /\ Inject("disk")
    /\ up /\ p \in saving
    /\ saving' = saving \ {p}
    /\ ruined' = [ruined EXCEPT ![p] = @ + 1]
    /\ UNCHANGED <<ledgerVars, storeVars, up, watchVars, tk, live, jobs, begun, histVars>>

\* Pipeline brings a job to its end and the drive loop drops it from #live.
JobEnds(p) ==
    /\ up /\ p \in live \ saving
    /\ live' = live \ {p}
    /\ UNCHANGED <<ledgerVars, storeVars, up, watchVars, tk, jobs, saving, begun, ruined, faults, histVars>>

-----------------------------------------------------------------------------

\* The process dies; the files it had open stay truncated.
Crash ==
    /\ Inject("crash")
    /\ up
    /\ up' = FALSE
    /\ memory' = {} /\ writing' = {} /\ seen' = {} /\ live' = {} /\ saving' = {}
    /\ tk' = [t \in Ticks |-> Idle]
    /\ ruined' = [p \in Payments |-> IF p \in saving THEN ruined[p] + 1 ELSE ruined[p]]
    /\ owed' = {}
    /\ UNCHANGED <<ledgerVars, stored, torn, acked, last, jobs, begun, dropped, cut, unread>>

\* start(): the watcher begins at the open ledger of whichever server answers.
Restart ==
    /\ ~up
    /\ up' = TRUE
    /\ last' \in {tip, tip + 1}
    /\ UNCHANGED <<ledgerVars, storeVars, seen, tk, jobVars, faults, histVars>>

\* The next ledger is validated with some payments in it.
LedgerCloses(new) ==
    /\ tip < MaxLedger
    /\ tip' = tip + 1
    /\ \A p \in new : at[p] = 0
    /\ at' = [p \in Payments |-> IF p \in new THEN tip + 1 ELSE at[p]]
    /\ owed' = owed \cup {p \in new : up /\ Commitment[p] \in acked}
    /\ UNCHANGED <<storeVars, up, watchVars, tk, jobVars, faults, dropped, cut, unread>>

Poll(t) == PollSends(t) \/ (\E lag \in {0, 1} : XrplAnswers(t, lag)) \/ PageArrives(t) \/ GetReturns(t)
TakesOn(t) == TakeOn(t) \/ CreateLoads(t) \/ CreateOpens(t) \/ CreateSaves(t)
Advances(t) == Poll(t) \/ TakesOn(t)

Next ==
    \/ \E t \in Ticks : Advances(t) \/ PollFails(t) \/ CreateFails(t)
    \/ \E c \in Clients : Register(c) \/ RegisterOpens(c) \/ Registered(c) \/ RegisterFails(c)
    \/ \E p \in Payments : JobOpens(p) \/ JobSaved(p) \/ JobSaveFails(p) \/ JobEnds(p)
    \/ \E new \in SUBSET Payments : LedgerCloses(new)
    \/ Crash \/ Restart

Spec == Init /\ [][Next]_vars

\* The interval timer keeps starting ticks and the calls of a tick return; a poll that
\* is repeated for ever is not always answered by a server that lags.
FairSpec ==
    /\ Spec
    /\ \A t \in Ticks : WF_vars(Advances(t)) /\ SF_vars(XrplAnswers(t, 0))

-----------------------------------------------------------------------------
(***************************************************************************)
(* Properties.                                                              *)
(***************************************************************************)

InHand(p) == \E t \in Ticks : p \in Range(tk[t].todo) \cup Range(tk[t].found)

\* The watcher's cursor never passes a payment it owes an answer for: what lies below
\* #lastLedger was reported, or is in the hands of a tick (watcher.ts:63-66), or a page
\* of account_tx was too small for it: poll() asks for no second one; or its record was
\* truncated when it was looked up (store.ts:75-81): while the same commitment is being
\* registered again, or since that failed or the process died in it (store.ts:65-67).
CursorPassesNothing ==
    \A p \in owed : at[p] < last => p \in seen \/ InHand(p) \/ p \in cut \/ p \in unread

\* A payment is begun once, however often it is reported again, and once more at the most
\* for each time that a crash or an error has left its job file truncated: but for these
\* create() finds the job on disk, after a restart too (pipeline.ts:121-126).  A second
\* fresh job pays for a second attestation.
BegunOnce == \A p \in Payments : begun[p] <= 1 + ruined[p]

\* A job was begun for it: it is live or on disk, or a fault has truncated its file.
HasJob(p) == p \in live \cup jobs \/ ruined[p] # 0

\* A payment whose registration is acknowledged while the watcher's cursor is not past it,
\* before it arrives or after, is taken on, across RPC errors and servers that lag, unless
\* the service goes down, a create() fails, a full page leaves it out, or its record is
\* truncated when it is looked up.
OwedIsTakenOn ==
    \A p \in Payments : p \in owed ~> (HasJob(p) \/ p \in dropped \cup cut \cup unread \/ ~up)

\* service.ts:290, "watcher error (will retry)": an error of the intake loop costs no
\* payment its job.
ErrorsAreRetried == \A p \in Payments : p \in owed ~> (HasJob(p) \/ ~up)

=============================================================================
