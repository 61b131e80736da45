------------------------------- MODULE Latch --------------------------------
(***************************************************************************)
(* LATCH, the confidential executor: the handlers and the trigger loop of   *)
(* extension/typescript/src/app (handlers.ts, triggers.ts), the timer that  *)
(* drives it (packages/executor/src/latch.ts) and the on-chain revocation   *)
(* of extension/contracts/InstructionSender.sol.                            *)
(*                                                                          *)
(* A handler is synchronous and the server queues them, so each is one      *)
(* step.  tick() is not in that queue and awaits a price read for every     *)
(* armed intent: handlers, and other activations of tick(), run meanwhile.  *)
(* What it holds across the await is the intent OBJECT, which the Map may   *)
(* since have replaced; objects are therefore a heap, numbered in the order *)
(* they are armed.                                                          *)
(***************************************************************************)
EXTENDS Naturals, FiniteSets

CONSTANTS
    Ops,          \* user operations (userOpData)
    Commitments,  \* 32-byte hashes
    Keccak,       \* keccak256, collision-free
    Triggers,     \* the triggers callers ask for
    Prices,       \* values the FTSO feed takes
    Tickers,      \* activations of tick() that may overlap
    MaxDeadline,  \* MAX_DEADLINE_MS
    MaxArms,      \* bound: intents armed in one behaviour
    MaxClock,     \* bound: the clock
    MaxRevocations \* bound: commitments revoked on chain

Trigger == [kind : {"TIME", "GTE", "LTE"}, value : Nat]

ASSUME LatchAssumption ==
    /\ "0x" \notin Ops
    /\ "none" \notin Commitments
    /\ Keccak \in [Ops -> Commitments]
    /\ \A a, b \in Ops : Keccak[a] = Keccak[b] => a = b
    /\ Triggers \subseteq Trigger
    /\ Prices \subseteq Nat
    /\ MaxDeadline \in Nat /\ MaxArms \in Nat /\ MaxClock \in Nat
    /\ MaxRevocations \in Nat

Ids == 1 .. MaxArms

IntentState == {"armed", "fired", "collected", "cancelled", "expired"}

\* State "none" is an object not yet allocated; armedAt and firedAt are for STATUS alone.
Intent == [userOpData : Ops \cup {"0x"}, trigger : Trigger, deadline : Nat,
           state : IntentState \cup {"none"}]

Unallocated == [userOpData |-> "0x", trigger |-> [kind |-> "TIME", value |-> 0],
                deadline |-> 0, state |-> "none"]

\* An activation of tick(): "check" while isTriggered is out for the object it holds.
\* A reading commutes with everything up to its continuation but the price, so it is
\* taken in the step of the continuation.
Ticker == [pc : {"idle", "check"}, now : Nat, pos : Nat, held : {0} \cup Ids]

Resting == [pc |-> "idle", now |-> 0, pos |-> 0, held |-> 0]

VARIABLES
    intents,      \* the Map: the object under each commitment, 0 for none
    slot,         \* the Map's insertion order: the first object under each key, or 0
    obj,          \* the intent objects
    armedTotal,   \* (firedTotal is a statistic that nothing reads)
    tk,           \* the activations of tick()
    clock,        \* Date.now()
    price,        \* what FtsoV2.getFeedById would answer
    cancelledBy,  \* InstructionSender: commitments revoked on chain
    inbox,        \* instructions on their way to the enclave
    released,     \* history: what COLLECT has answered
    met,          \* history: objects whose condition held when it was evaluated
    revoked       \* history: objects armed when an on-chain CANCEL was delivered

mapVars   == <<intents, slot, armedTotal>>
chainVars == <<cancelledBy, inbox>>
histVars  == <<released, met, revoked>>
vars == <<mapVars, obj, tk, clock, price, chainVars, histVars>>

Message == [encoding : {"json", "abi"}, commitment : Commitments]
Answer == [commitment : Commitments, id : Ids, userOpData : Ops \cup {"0x"}]

LatchTypeOK ==
    /\ intents \in [Commitments -> {0} \cup Ids]
    /\ slot \in [Commitments -> Nat]
    /\ obj \in [Ids -> Intent]
    /\ armedTotal \in 0 .. MaxArms
    /\ tk \in [Tickers -> Ticker]
    /\ clock \in Nat
    /\ price \in Prices
    /\ cancelledBy \subseteq Commitments
    /\ inbox \subseteq Message
    /\ released \subseteq Answer
    /\ met \subseteq Ids /\ revoked \subseteq Ids

Init ==
    /\ intents = [c \in Commitments |-> 0]
    /\ slot = [c \in Commitments |-> 0]
    /\ obj = [i \in Ids |-> Unallocated]
    /\ armedTotal = 0
    /\ tk = [t \in Tickers |-> Resting]
    /\ clock = 1
    /\ price \in Prices
    /\ cancelledBy = {} /\ inbox = {}
    /\ released = {} /\ met = {} /\ revoked = {}

-----------------------------------------------------------------------------
(***************************************************************************)
(* The handlers.  A refusal changes nothing and is not an action.           *)
(***************************************************************************)

Armed(c) == intents[c] # 0 /\ obj[intents[c]].state = "armed"

\* A fresh object under c; an entry that exists keeps its place in the Map.
Put(c, intent) ==
    /\ armedTotal < MaxArms
    /\ armedTotal' = armedTotal + 1
    /\ intents' = [intents EXCEPT ![c] = armedTotal + 1]
    /\ slot' = IF slot[c] # 0 THEN slot ELSE [slot EXCEPT ![c] = armedTotal + 1]
    /\ obj' = [obj EXCEPT ![armedTotal + 1] = intent]

\* Mutant of NewIntent: the hash is stored in place of the bytes.
NewIntentOfHash(op, trigger, deadline) ==
    [userOpData |-> Keccak[op], trigger |-> trigger, deadline |-> deadline,
     state |-> "armed"]

NewIntent(op, trigger, deadline) ==
    [userOpData |-> op, trigger |-> trigger, deadline |-> deadline,
     state |-> "armed"]

\* Mutant of HandleArm: the caller's claim is trusted.
HandleArmTrusting(op, claimed, trigger, deadline) ==
    LET c == IF claimed = "none" THEN Keccak[op] ELSE claimed IN
    /\ clock < deadline /\ deadline <= clock + MaxDeadline
    /\ ~Armed(c)
    /\ Put(c, NewIntent(op, trigger, deadline))
    /\ UNCHANGED <<tk, clock, price, chainVars, histVars>>

\* ARM: the commitment is recomputed and a different claim refused.  Arming what is
\* already armed answers alreadyArmed and keeps the trigger and deadline it has.
HandleArm(op, claimed, trigger, deadline) ==
    LET c == Keccak[op] IN
    /\ claimed \in {"none", c}
    /\ clock < deadline /\ deadline <= clock + MaxDeadline
    /\ ~Armed(c)
    /\ Put(c, NewIntent(op, trigger, deadline))
    /\ UNCHANGED <<tk, clock, price, chainVars, histVars>>

\* decodeJson: 32 bytes of ABI encoding are not a JSON object.
DecodeJson(msg) == msg.encoding = "json"

Cancels(msg) == DecodeJson(msg) /\ Armed(msg.commitment)

\* Mutant of Cancelled: the bytes are kept.
CancelledKeepsBytes(i) == [obj EXCEPT ![i].state = "cancelled"]

\* CANCEL drops the bytes with the intent.
Cancelled(i) == [obj EXCEPT ![i].state = "cancelled", ![i].userOpData = "0x"]

\* A direct action, in the JSON of packages/executor/src/latch.ts.
HandleCancel(c) ==
    /\ Cancels([encoding |-> "json", commitment |-> c])
    /\ obj' = Cancelled(intents[c])
    /\ UNCHANGED <<mapVars, tk, clock, price, chainVars, histVars>>

\* COLLECT: any state but armed, cancelled and expired gives the bytes there are.
HandleCollect(c) ==
    LET i == intents[c] IN
    /\ i # 0 /\ obj[i].state \in {"fired", "collected"}
    /\ obj' = [obj EXCEPT ![i].state = "collected"]
    /\ released' = released \cup {[commitment |-> c, id |-> i, userOpData |-> obj[i].userOpData]}
    /\ UNCHANGED <<mapVars, tk, clock, price, chainVars, met, revoked>>

-----------------------------------------------------------------------------
(***************************************************************************)
(* The on-chain exit: cancelIntent records the revocation and sends it.     *)
(***************************************************************************)

CancelIntent(c) ==
    /\ Cardinality(cancelledBy) < MaxRevocations
    /\ c \notin cancelledBy
    /\ cancelledBy' = cancelledBy \cup {c}
    /\ inbox' = inbox \cup {[encoding |-> "abi", commitment |-> c]}
    /\ UNCHANGED <<mapVars, obj, tk, clock, price, histVars>>

\* The proxy and tee-node hand the message to handleCancel.
DeliverInstruction(msg) ==
    /\ msg \in inbox
    /\ inbox' = inbox \ {msg}
    /\ revoked' = revoked \cup (IF Armed(msg.commitment) THEN {intents[msg.commitment]} ELSE {})
    /\ obj' = IF Cancels(msg) THEN Cancelled(intents[msg.commitment]) ELSE obj
    /\ UNCHANGED <<mapVars, tk, clock, price, cancelledBy, released, met>>

-----------------------------------------------------------------------------
(***************************************************************************)
(* tick().                                                                  *)
(***************************************************************************)

Holds(trigger, now, value) ==
    CASE trigger.kind = "TIME" -> now >= trigger.value
      [] trigger.kind = "GTE"  -> value >= trigger.value
      [] trigger.kind = "LTE"  -> value <= trigger.value

\* The entries of the Map beyond a position that are armed in a heap.
Ahead(heap, pos) ==
    {c \in Commitments : slot[c] > pos /\ intents[c] # 0 /\ heap[intents[c]].state = "armed"}

\* An intent that expires loses its bytes.
Lapsed(intent) == [intent EXCEPT !.state = "expired", !.userOpData = "0x"]

Expire(heap, cs) ==
    [i \in Ids |-> IF \E c \in cs : intents[c] = i THEN Lapsed(heap[i]) ELSE heap[i]]

\* Mutant of Due: off by one at the deadline.
DueLate(heap, c, now) == now > heap[intents[c]].deadline

\* An intent past its deadline, by the time this activation started at.
Due(heap, c, now) == now >= heap[intents[c]].deadline

\* Mutant of Scan: the first entry that is not armed ends the loop.
ScanStops(t, heap, pos, now) ==
    LET first == {c \in Ahead(heap, pos) : \A d \in Commitments : slot[d] > pos => slot[c] <= slot[d]}
        wait  == {c \in first : ~Due(heap, c, now)}
    IN  /\ obj' = Expire(heap, first \ wait)
        /\ \/ \E c \in wait :
                 tk' = [tk EXCEPT ![t] = [pc |-> "check", now |-> now, pos |-> slot[c],
                                          held |-> intents[c]]]
           \/ wait = {} /\ tk' = [tk EXCEPT ![t] = Resting]

\* The loop from the entry after pos to its next await, or to its end: intents that
\* are due expire on the way; the first that is not is held for its check.
Scan(t, heap, pos, now) ==
    LET ahead == Ahead(heap, pos)
        wait  == {c \in ahead : ~Due(heap, c, now)}
    IN  \/ \E c \in wait :
              /\ \A d \in wait : slot[c] <= slot[d]
              /\ obj' = Expire(heap, {d \in ahead \ wait : slot[d] < slot[c]})
              /\ tk' = [tk EXCEPT ![t] = [pc |-> "check", now |-> now, pos |-> slot[c],
                                          held |-> intents[c]]]
        \/ /\ wait = {}
           /\ obj' = Expire(heap, ahead)
           /\ tk' = [tk EXCEPT ![t] = Resting]

\* The timer fires; an earlier activation may still be out.
TickStarts(t) ==
    /\ tk[t].pc = "idle"
    /\ Scan(t, obj, 0, clock)
    /\ UNCHANGED <<mapVars, clock, price, chainVars, histVars>>

\* Mutant of Verdict: a feed that cannot be read fires.
VerdictFailsOpen(trigger, now, answered) ==
    (trigger.kind # "TIME" /\ ~answered) \/ Holds(trigger, now, price)

\* isTriggered: a price that readFeed could not get (null) never fires.
Verdict(trigger, now, answered) ==
    (trigger.kind # "TIME" => answered) /\ Holds(trigger, now, price)

\* The check returns (readFeed turns every failure and its timeout into null).  The
\* continuation fires the object it holds, without another look at its state, and
\* goes on with the loop.
CheckReturns(t) ==
    LET k == tk[t]
        trigger == obj[k.held].trigger
        shot == [obj EXCEPT ![k.held].state = "fired"]
    IN  /\ k.pc = "check"
        /\ \E answered \in BOOLEAN :
              Scan(t, IF Verdict(trigger, k.now, answered) THEN shot ELSE obj, k.pos, k.now)
        /\ met' = IF Holds(trigger, clock, price) THEN met \cup {k.held} ELSE met
        /\ UNCHANGED <<mapVars, clock, price, chainVars, released, revoked>>

-----------------------------------------------------------------------------

ClockTicks ==
    /\ clock < MaxClock
    /\ clock' = clock + 1
    /\ UNCHANGED <<mapVars, obj, tk, price, chainVars, histVars>>

PriceMoves ==
    /\ price' \in Prices \ {price}
    /\ UNCHANGED <<mapVars, obj, tk, clock, chainVars, histVars>>

Handlers ==
    \/ \E op \in Ops, claimed \in Commitments \cup {"none"},
          trigger \in Triggers, deadline \in 1 .. MaxClock :
             HandleArm(op, claimed, trigger, deadline)
    \/ \E c \in Commitments : HandleCancel(c) \/ HandleCollect(c)

OnChain ==
    \/ \E c \in Commitments : CancelIntent(c)
    \/ \E msg \in inbox : DeliverInstruction(msg)

Tick(t) == TickStarts(t) \/ CheckReturns(t)

Next == Handlers \/ OnChain \/ (\E t \in Tickers : Tick(t)) \/ ClockTicks \/ PriceMoves

Spec == Init /\ [][Next]_vars

\* setInterval keeps starting activations and a read ends within its 8 s timeout.
FairSpec == Spec /\ WF_vars(ClockTicks) /\ \A t \in Tickers : WF_vars(Tick(t))

-----------------------------------------------------------------------------
(***************************************************************************)
(* Properties.                                                              *)
(***************************************************************************)

Bytes(i) == obj[i].userOpData # "0x"

\* "Bytes come out only after the trigger has fired" (handlers.ts:231): whatever ticks
\* and handlers overlap, an operation that may be collected is one whose condition
\* held in the world - not in a failed read - when it was evaluated.
OpenOnlyIfMet ==
    \A i \in Ids : obj[i].state \in {"fired", "collected"} /\ Bytes(i) => i \in met

\* Bytes released under a commitment hash to it: ARM recomputes the key, so nobody can
\* have operation A released under the commitment published for B (handlers.ts:120-123).
ReleasedMatchesCommitment ==
    \A r \in released : r.userOpData # "0x" => Keccak[r.userOpData] = r.commitment

\* An activation settles every intent it finds due (handlers.ts:265-273): when its last
\* check has returned nothing is left armed whose deadline had passed when it started,
\* whatever was armed anew, cancelled or settled by others during its awaits.
PassSettles ==
    [][\A t \in Tickers : tk[t].pc = "check" /\ tk'[t].pc = "idle" =>
          \A c \in Commitments : Armed(c)' => tk[t].now < obj'[intents'[c]].deadline]_vars

\* The promise a caller sees in each object.
EscrowBox == [i \in Ids |->
    IF obj[i].state = "none" THEN "empty"
    ELSE IF obj[i].state = "armed" THEN "sealed"
    ELSE IF obj[i].state \in {"fired", "collected"} /\ Bytes(i) THEN "open"
    ELSE "destroyed"]

EscrowOut == {r.id : r \in {r \in released : r.userOpData # "0x"}}

E == INSTANCE Escrow WITH Boxes <- Ids, box <- EscrowBox, out <- EscrowOut

\* LATCH implements Escrow: bytes of a cancelled or expired intent are gone for good,
\* even when a tick that was already out later marks the intent fired.
ImplementsEscrow == E!EscrowSpec

\* config.ts:43-44, "Every intent carries a deadline": no intent stays armed for ever.
NothingStaysArmed == \A i \in Ids : obj[i].state = "armed" ~> obj[i].state # "armed"

\* handlers.ts:45, "After this the intent expires unfired and the user reclaims", and
\* latch.test.ts:181, "an expired intent cannot later fire".
ExpiredNeverFires ==
    [][\A i \in Ids : obj[i].state = "expired" => obj'[i].state = "expired"]_vars

\* InstructionSender.sol:81, "Publicly revoke an armed intent": an intent that was armed
\* when the enclave received its on-chain revocation is not released.
RevocationStops == \A r \in released : r.id \notin revoked

=============================================================================
