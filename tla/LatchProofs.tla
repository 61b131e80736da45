---------------------------- MODULE LatchProofs -----------------------------
(***************************************************************************)
(* Proofs about Latch, for every set of operations, triggers and overlapping *)
(* ticks: its type, what may be collected and released, what a pass leaves   *)
(* armed, and that it implements Escrow.                                     *)
(***************************************************************************)
EXTENDS Latch, TLAPS

USE LatchAssumption DEF LatchAssumption

\* What an activation of tick() relies on across its await: the object it holds is
\* allocated, was not due when it started, and it did not start in the future.
HeldOK ==
    \A t \in Tickers : tk[t].pc = "check" =>
        /\ tk[t].held \in Ids
        /\ obj[tk[t].held].state # "none"
        /\ tk[t].now < obj[tk[t].held].deadline
        /\ tk[t].now <= clock

\* Objects are allocated in order and the Map points at allocated ones.
HeapOK ==
    /\ \A i \in Ids : i > armedTotal => obj[i].state = "none"
    /\ \A c \in Commitments : intents[c] <= armedTotal

\* The Map's order: every entry has a place, and no two the same.
OrderOK ==
    /\ \A c \in Commitments : slot[c] <= armedTotal /\ (intents[c] # 0 => slot[c] # 0)
    /\ \A c, d \in Commitments : slot[c] = slot[d] /\ slot[c] # 0 => c = d

\* What is armed up to where an activation stands was not due when it started.
BehindOK ==
    \A t \in Tickers : tk[t].pc = "check" =>
        /\ tk[t].pos <= armedTotal
        /\ \A c \in Commitments :
              slot[c] <= tk[t].pos /\ Armed(c) => tk[t].now < obj[intents[c]].deadline

\* The bytes under a commitment hash to it.
KeyedByHash ==
    \A c \in Commitments : intents[c] # 0 =>
        LET op == obj[intents[c]].userOpData IN op # "0x" => Keccak[op] = c

\* A cancelled or expired intent has lost its bytes.
BytesDropped ==
    \A i \in Ids : obj[i].state \in {"cancelled", "expired"} => obj[i].userOpData = "0x"

LatchInv ==
    /\ LatchTypeOK /\ HeldOK /\ HeapOK /\ OrderOK /\ BehindOK
    /\ KeyedByHash /\ BytesDropped /\ OpenOnlyIfMet /\ ReleasedMatchesCommitment

-----------------------------------------------------------------------------

\* What expiring does to an intent.
LEMMA LapsedFields ==
  \A j \in Intent :
    /\ Lapsed(j) \in Intent
    /\ Lapsed(j).state = "expired" /\ Lapsed(j).userOpData = "0x"
    /\ Lapsed(j).deadline = j.deadline /\ Lapsed(j).trigger = j.trigger
  BY DEF Lapsed, Intent, IntentState

\* A stretch of the loop: objects are as in the heap it starts from, or were armed there
\* and expired; the activation rests or holds an armed object that is not due.
LEMMA ScanEffect ==
  ASSUME LatchTypeOK, NEW t \in Tickers, NEW heap \in [Ids -> Intent],
         NEW pos \in Nat, NEW now \in Nat, Scan(t, heap, pos, now)
  PROVE  /\ obj' \in [Ids -> Intent]
         /\ \A i \in Ids :
              \/ obj'[i] = heap[i]
              \/ /\ heap[i].state = "armed"
                 /\ obj'[i] = Lapsed(heap[i])
         /\ \/ tk' = [tk EXCEPT ![t] = Resting]
            \/ \E h \in Ids, p \in Nat :
                 /\ heap[h].state = "armed"
                 /\ now < heap[h].deadline
                 /\ tk' = [tk EXCEPT ![t] = [pc |-> "check", now |-> now, pos |-> p, held |-> h]]
  <1> DEFINE ahead == Ahead(heap, pos)
             wait == {c \in ahead : ~Due(heap, c, now)}
  <1>1. \A c \in ahead : intents[c] \in Ids /\ heap[intents[c]].state = "armed"
    BY DEF Ahead, LatchTypeOK
  <1>2. ASSUME NEW cs \in SUBSET ahead, obj' = Expire(heap, cs)
        PROVE  /\ obj' \in [Ids -> Intent]
               /\ \A i \in Ids :
                    \/ obj'[i] = heap[i]
                    \/ /\ heap[i].state = "armed"
                       /\ obj'[i] = Lapsed(heap[i])
    <2>1. \A i \in Ids : (\E c \in cs : intents[c] = i) => heap[i].state = "armed"
      BY <1>1, <1>2
    <2> QED
      BY <1>2, <2>1, LapsedFields DEF Expire
  <1>3. CASE wait = {} /\ obj' = Expire(heap, ahead) /\ tk' = [tk EXCEPT ![t] = Resting]
    BY <1>2, <1>3
  <1>4. CASE \E c \in wait :
              /\ obj' = Expire(heap, {d \in ahead \ wait : slot[d] < slot[c]})
              /\ tk' = [tk EXCEPT ![t] = [pc |-> "check", now |-> now, pos |-> slot[c],
                                          held |-> intents[c]]]
    <2>1. PICK c \in wait :
              /\ obj' = Expire(heap, {d \in ahead \ wait : slot[d] < slot[c]})
              /\ tk' = [tk EXCEPT ![t] = [pc |-> "check", now |-> now, pos |-> slot[c],
                                          held |-> intents[c]]]
      BY <1>4
    <2>2. c \in Commitments /\ c \in ahead
      BY <2>1 DEF Ahead
    <2>3. intents[c] \in Ids /\ slot[c] \in Nat /\ heap[intents[c]] \in Intent
      BY <1>1, <2>2 DEF LatchTypeOK
    <2>4. now < heap[intents[c]].deadline
      BY <2>1, <2>3 DEF Due, Intent
    <2>5. {d \in ahead \ wait : slot[d] < slot[c]} \in SUBSET ahead
      OBVIOUS
    <2> HIDE DEF ahead, wait
    <2> QED
      BY <1>1, <1>2, <2>1, <2>2, <2>3, <2>4, <2>5
  <1>5. \/ wait = {} /\ obj' = Expire(heap, ahead) /\ tk' = [tk EXCEPT ![t] = Resting]
        \/ \E c \in wait :
              /\ obj' = Expire(heap, {d \in ahead \ wait : slot[d] < slot[c]})
              /\ tk' = [tk EXCEPT ![t] = [pc |-> "check", now |-> now, pos |-> slot[c],
                                          held |-> intents[c]]]
    BY DEF Scan
  <1> QED
    BY <1>3, <1>4, <1>5

\* A stretch passes by nothing that is due: an entry between where it starts and where
\* it holds (or the end of the Map) that is still armed has its deadline ahead.
LEMMA ScanPasses ==
  ASSUME LatchTypeOK, OrderOK, NEW t \in Tickers, NEW heap \in [Ids -> Intent],
         NEW pos \in Nat, NEW now \in Nat, Scan(t, heap, pos, now)
  PROVE  /\ tk'[t].pc = "check" =>
              /\ tk'[t].pos <= armedTotal /\ tk'[t].now = now
              /\ \A c \in Commitments :
                    /\ pos < slot[c] /\ slot[c] <= tk'[t].pos
                    /\ intents[c] # 0 /\ obj'[intents[c]].state = "armed"
                    => now < obj'[intents[c]].deadline
         /\ tk'[t].pc = "idle" =>
              \A c \in Commitments :
                  pos < slot[c] /\ intents[c] # 0 => obj'[intents[c]].state # "armed"
  <1> DEFINE ahead == Ahead(heap, pos)
             wait == {c \in ahead : ~Due(heap, c, now)}
  <1>1. ASSUME NEW c \in Commitments, pos < slot[c], intents[c] # 0,
               NEW cs \in SUBSET ahead, obj' = Expire(heap, cs),
               obj'[intents[c]].state = "armed"
        PROVE  /\ c \in ahead /\ c \notin cs
               /\ obj'[intents[c]] = heap[intents[c]] /\ heap[intents[c]] \in Intent
    <2>1. intents[c] \in Ids /\ heap[intents[c]] \in Intent /\ slot[c] \in Nat
      BY <1>1 DEF LatchTypeOK
    <2>2. (\E d \in cs : intents[d] = intents[c]) => obj'[intents[c]] = Lapsed(heap[intents[c]])
      BY <1>1, <2>1 DEF Expire
    <2>3. ~ \E d \in cs : intents[d] = intents[c]
      BY <1>1, <2>1, <2>2, LapsedFields
    <2>4. obj'[intents[c]] = heap[intents[c]]
      BY <1>1, <2>1, <2>3 DEF Expire
    <2> QED
      BY <1>1, <2>1, <2>3, <2>4 DEF Ahead
  <1>2. CASE wait = {} /\ obj' = Expire(heap, ahead) /\ tk' = [tk EXCEPT ![t] = Resting]
    <2>1. tk'[t].pc = "idle"
      BY <1>2 DEF LatchTypeOK, Resting
    <2>2. ahead \in SUBSET ahead
      OBVIOUS
    <2>3. ASSUME NEW c \in Commitments, pos < slot[c], intents[c] # 0,
                 obj'[intents[c]].state = "armed"
          PROVE  FALSE
      <3> HIDE DEF ahead, wait
      <3> QED
        BY <1>1, <1>2, <2>2, <2>3
    <2> QED
      BY <2>1, <2>3
  <1>3. CASE \E c \in wait :
              /\ \A d \in wait : slot[c] <= slot[d]
              /\ obj' = Expire(heap, {d \in ahead \ wait : slot[d] < slot[c]})
              /\ tk' = [tk EXCEPT ![t] = [pc |-> "check", now |-> now, pos |-> slot[c],
                                          held |-> intents[c]]]
    <2>1. PICK h \in wait :
              /\ \A d \in wait : slot[h] <= slot[d]
              /\ obj' = Expire(heap, {d \in ahead \ wait : slot[d] < slot[h]})
              /\ tk' = [tk EXCEPT ![t] = [pc |-> "check", now |-> now, pos |-> slot[h],
                                          held |-> intents[h]]]
      BY <1>3
    <2>2. h \in Commitments /\ slot[h] \in Nat /\ slot[h] <= armedTotal /\ slot[h] > pos
      BY <2>1 DEF Ahead, LatchTypeOK, OrderOK
    <2>3. tk'[t].pc = "check" /\ tk'[t].pos = slot[h] /\ tk'[t].now = now
      BY <2>1 DEF LatchTypeOK
    <2>4. ASSUME NEW c \in Commitments, pos < slot[c], slot[c] <= slot[h],
                 intents[c] # 0, obj'[intents[c]].state = "armed"
          PROVE  now < obj'[intents[c]].deadline
      <3> DEFINE gone == {d \in ahead \ wait : slot[d] < slot[h]}
      <3>1. gone \in SUBSET ahead
        OBVIOUS
      <3>2. /\ c \in ahead /\ c \notin gone
            /\ obj'[intents[c]] = heap[intents[c]] /\ heap[intents[c]] \in Intent
        <4>1. obj' = Expire(heap, gone)
          BY <2>1
        <4> HIDE DEF ahead, gone
        <4> QED
          BY <1>1, <2>4, <3>1, <4>1
      <3>3. slot[c] \in Nat
        BY DEF LatchTypeOK
      <3>4. c \in wait
        <4>1. CASE slot[c] = slot[h]
          <5>1. c = h
            BY <2>2, <2>4, <4>1 DEF OrderOK
          <5> QED
            BY <2>1, <5>1
        <4>2. CASE slot[c] < slot[h]
          <5> HIDE DEF ahead, wait
          <5> QED
            BY <3>2, <4>2
        <4> QED
          BY <2>2, <2>4, <3>3, <4>1, <4>2
      <3>5. ~Due(heap, c, now)
        BY <3>4
      <3> QED
        BY <3>2, <3>5 DEF Due, Intent
    <2> QED
      BY <2>2, <2>3, <2>4
  <1>4. \/ wait = {} /\ obj' = Expire(heap, ahead) /\ tk' = [tk EXCEPT ![t] = Resting]
        \/ \E c \in wait :
              /\ \A d \in wait : slot[c] <= slot[d]
              /\ obj' = Expire(heap, {d \in ahead \ wait : slot[d] < slot[c]})
              /\ tk' = [tk EXCEPT ![t] = [pc |-> "check", now |-> now, pos |-> slot[c],
                                          held |-> intents[c]]]
    BY DEF Scan
  <1> QED
    BY <1>2, <1>3, <1>4

-----------------------------------------------------------------------------

\* A heap a stretch of the loop may start from: the objects as they are, but for a
\* shot at one whose condition was met.
Sound(heap) ==
    /\ heap \in [Ids -> Intent]
    /\ \A i \in Ids :
         /\ heap[i].userOpData = obj[i].userOpData
         /\ heap[i].deadline = obj[i].deadline
         /\ heap[i].state = "none" <=> obj[i].state = "none"
         /\ heap[i].state = "armed" => obj[i].state = "armed"
         /\ heap[i].state \in {"fired", "collected"} /\ heap[i].userOpData # "0x" => i \in met'
         /\ heap[i].state \in {"cancelled", "expired"} => heap[i].userOpData = "0x"

\* A stretch of the loop from such a heap keeps the invariant.
LEMMA ScanInv ==
  ASSUME LatchInv, NEW t \in Tickers, NEW heap, Sound(heap),
         NEW pos \in Nat, NEW now \in Nat, now <= clock, Scan(t, heap, pos, now),
         \A c \in Commitments : slot[c] <= pos /\ Armed(c) => now < obj[intents[c]].deadline,
         met' \subseteq Ids,
         UNCHANGED <<mapVars, clock, price, chainVars, released, revoked>>
  PROVE  LatchInv'
  <1> USE DEF mapVars, chainVars
  <1>0. LatchTypeOK /\ heap \in [Ids -> Intent]
    BY DEF LatchInv, Sound
  <1>1. /\ obj' \in [Ids -> Intent]
        /\ \A i \in Ids : obj'[i] = heap[i] \/ (heap[i].state = "armed" /\ obj'[i] = Lapsed(heap[i]))
    BY <1>0, ScanEffect
  <1>2. \/ tk' = [tk EXCEPT ![t] = Resting]
        \/ \E h \in Ids, p \in Nat :
             /\ heap[h].state = "armed"
             /\ now < heap[h].deadline
             /\ tk' = [tk EXCEPT ![t] = [pc |-> "check", now |-> now, pos |-> p, held |-> h]]
    BY <1>0, ScanEffect
  <1>3. \A i \in Ids :
          /\ obj'[i] \in Intent
          /\ obj'[i].userOpData \in {obj[i].userOpData, "0x"}
          /\ obj'[i].deadline = obj[i].deadline
          /\ obj'[i].state = "none" <=> obj[i].state = "none"
          /\ obj'[i].state = "armed" => obj[i].state = "armed"
          /\ obj'[i].state \in {"fired", "collected"} /\ obj'[i].userOpData # "0x" => i \in met'
          /\ obj'[i].state \in {"cancelled", "expired"} => obj'[i].userOpData = "0x"
    <2> SUFFICES ASSUME NEW i \in Ids
                 PROVE  /\ obj'[i] \in Intent
                        /\ obj'[i].userOpData \in {obj[i].userOpData, "0x"}
                        /\ obj'[i].deadline = obj[i].deadline
                        /\ obj'[i].state = "none" <=> obj[i].state = "none"
                        /\ obj'[i].state = "armed" => obj[i].state = "armed"
                        /\ obj'[i].state \in {"fired", "collected"} /\ obj'[i].userOpData # "0x"
                             => i \in met'
                        /\ obj'[i].state \in {"cancelled", "expired"} => obj'[i].userOpData = "0x"
      OBVIOUS
    <2>1. heap[i] \in Intent
      BY <1>0
    <2>2. CASE obj'[i] = heap[i]
      BY <2>1, <2>2 DEF Sound
    <2>3. CASE heap[i].state = "armed" /\ obj'[i] = Lapsed(heap[i])
      BY <2>1, <2>3, LapsedFields DEF Sound
    <2> QED
      BY <1>1, <2>2, <2>3
  <1>4. LatchTypeOK'
    <2>1. tk' \in [Tickers -> Ticker]
      BY <1>0, <1>2 DEF LatchTypeOK, Ticker, Resting
    <2> QED
      BY <1>0, <1>1, <2>1 DEF LatchTypeOK
  <1>5. HeldOK'
    <2> SUFFICES ASSUME NEW u \in Tickers, tk'[u].pc = "check"
                 PROVE  /\ tk'[u].held \in Ids
                        /\ obj'[tk'[u].held].state # "none"
                        /\ tk'[u].now < obj'[tk'[u].held].deadline
                        /\ tk'[u].now <= clock'
      BY DEF HeldOK
    <2>1. CASE u # t
      <3>1. tk'[u] = tk[u]
        BY <1>0, <1>2, <2>1 DEF LatchTypeOK
      <3> QED
        BY <1>3, <3>1 DEF LatchInv, HeldOK
    <2>2. CASE u = t
      <3>1. PICK h \in Ids, p \in Nat :
             /\ heap[h].state = "armed"
             /\ now < heap[h].deadline
             /\ tk'[u] = [pc |-> "check", now |-> now, pos |-> p, held |-> h]
        BY <1>0, <1>2, <2>2 DEF LatchTypeOK, Resting
      <3>2. heap[h].deadline = obj[h].deadline /\ obj[h].state # "none"
        BY <3>1 DEF Sound
      <3> QED
        BY <1>3, <3>1, <3>2
    <2> QED
      BY <2>1, <2>2
  <1>6. HeapOK'
    BY <1>3, <1>0 DEF LatchInv, HeapOK
  <1>7. KeyedByHash'
    BY <1>0, <1>3 DEF LatchInv, KeyedByHash, LatchTypeOK
  <1>8. OpenOnlyIfMet' /\ BytesDropped'
    BY <1>3 DEF OpenOnlyIfMet, BytesDropped, Bytes
  <1>9. ReleasedMatchesCommitment'
    BY DEF LatchInv, ReleasedMatchesCommitment
  <1>10. OrderOK'
    BY DEF LatchInv, OrderOK
  <1>11. BehindOK'
    <2> SUFFICES ASSUME NEW u \in Tickers, tk'[u].pc = "check"
                 PROVE  /\ tk'[u].pos <= armedTotal'
                        /\ \A c \in Commitments :
                              slot'[c] <= tk'[u].pos /\ Armed(c)'
                                => tk'[u].now < obj'[intents'[c]].deadline
      BY DEF BehindOK
    <2>1. \A c \in Commitments : Armed(c)' =>
            /\ intents[c] \in Ids /\ Armed(c)
            /\ obj'[intents[c]].deadline = obj[intents[c]].deadline
      BY <1>0, <1>3 DEF Armed, LatchTypeOK
    <2>2. CASE u # t
      <3>1. tk'[u] = tk[u]
        BY <1>0, <1>2, <2>2 DEF LatchTypeOK
      <3> QED
        BY <2>1, <3>1 DEF LatchInv, BehindOK
    <2>3. CASE u = t
      <3>1. LatchTypeOK /\ OrderOK
        BY DEF LatchInv
      <3>2. /\ tk'[t].pos <= armedTotal /\ tk'[t].now = now
            /\ \A c \in Commitments :
                  /\ pos < slot[c] /\ slot[c] <= tk'[t].pos
                  /\ intents[c] # 0 /\ obj'[intents[c]].state = "armed"
                  => now < obj'[intents[c]].deadline
        BY <1>0, <2>3, <3>1, ScanPasses
      <3>3. \A c \in Commitments : slot[c] \in Nat /\ (slot[c] <= pos \/ pos < slot[c])
        BY <3>1 DEF LatchTypeOK
      <3> QED
        BY <2>1, <2>3, <3>2, <3>3 DEF Armed
    <2> QED
      BY <2>2, <2>3
  <1> QED
    BY <1>4, <1>5, <1>6, <1>7, <1>8, <1>9, <1>10, <1>11 DEF LatchInv

\* The objects as they are: what an activation starts from.
LEMMA ObjSound == ASSUME LatchInv, met \subseteq met' PROVE Sound(obj)
  BY DEF LatchInv, LatchTypeOK, OpenOnlyIfMet, BytesDropped, Bytes, Sound

\* The heap after the check of activation t: the shot, if there is one, is at an
\* allocated object with its condition met.
LEMMA ShotSound ==
  ASSUME LatchInv, NEW t \in Tickers, tk[t].pc = "check", NEW answered \in BOOLEAN,
         Verdict(obj[tk[t].held].trigger, tk[t].now, answered),
         met' = IF Holds(obj[tk[t].held].trigger, clock, price)
                THEN met \cup {tk[t].held} ELSE met
  PROVE  Sound([obj EXCEPT ![tk[t].held].state = "fired"])
  <1> DEFINE h == tk[t].held
             shot == [obj EXCEPT ![h].state = "fired"]
  <1>1. /\ h \in Ids /\ obj \in [Ids -> Intent] /\ tk[t].now \in Nat /\ clock \in Nat
        /\ price \in Nat
        /\ obj[h].state # "none" /\ tk[t].now <= clock
    BY DEF LatchInv, LatchTypeOK, HeldOK, Ticker
  <1>2. obj[h].trigger \in Trigger
    BY <1>1 DEF Intent
  <1>3. h \in met'
    <2>1. Holds(obj[h].trigger, tk[t].now, price)
      BY DEF Verdict
    <2>2. \A tr \in Trigger : Holds(tr, tk[t].now, price) => Holds(tr, clock, price)
      <3> SUFFICES ASSUME NEW tr \in Trigger, Holds(tr, tk[t].now, price)
                   PROVE  Holds(tr, clock, price)
        OBVIOUS
      <3>1. tr.kind \in {"TIME", "GTE", "LTE"} /\ tr.value \in Nat
        BY DEF Trigger
      <3>2. CASE tr.kind = "TIME"
        <4>1. tk[t].now >= tr.value
          BY <3>2 DEF Holds
        <4>2. clock >= tr.value
          BY <1>1, <3>1, <4>1
        <4> QED
          BY <3>2, <4>2 DEF Holds
      <3>3. CASE tr.kind = "GTE"
        BY <3>3 DEF Holds
      <3>4. CASE tr.kind = "LTE"
        BY <3>4 DEF Holds
      <3> QED
        BY <3>1, <3>2, <3>3, <3>4
    <2>3. Holds(obj[h].trigger, clock, price)
      BY <1>2, <2>1, <2>2
    <2> QED
      BY <2>3
  <1>4. /\ shot[h].state = "fired"
        /\ shot[h].userOpData = obj[h].userOpData /\ shot[h].deadline = obj[h].deadline
        /\ shot[h] \in Intent
    BY <1>1 DEF Intent, IntentState
  <1>5. \A i \in Ids : i # h => shot[i] = obj[i]
    BY <1>1
  <1>6. shot \in [Ids -> Intent]
    BY <1>1, <1>4, <1>5
  <1>7. met \subseteq met'
    OBVIOUS
  <1>8. \A i \in Ids : obj[i].state \in {"fired", "collected"} /\ obj[i].userOpData # "0x" => i \in met'
    BY <1>7 DEF LatchInv, OpenOnlyIfMet, Bytes
  <1>9. \A i \in Ids : obj[i].state \in {"cancelled", "expired"} => obj[i].userOpData = "0x"
    BY DEF LatchInv, BytesDropped
  <1> HIDE DEF shot, h
  <1> QED
    <2>1. Sound(shot)
      BY <1>1, <1>3, <1>4, <1>5, <1>6, <1>8, <1>9 DEF Sound
    <2> QED
      BY <2>1 DEF shot, h

\* A step that arms nothing and leaves the Map and the activations alone.
LEMMA BehindKept ==
  ASSUME LatchTypeOK, BehindOK, UNCHANGED <<intents, slot, armedTotal, tk>>,
         \A i \in Ids : obj'[i].state = "armed" => obj'[i] = obj[i]
  PROVE  BehindOK'
  <1>1. \A c \in Commitments : Armed(c)' =>
          Armed(c) /\ obj'[intents'[c]].deadline = obj[intents[c]].deadline
    BY DEF Armed, LatchTypeOK
  <1> QED
    BY <1>1 DEF BehindOK

\* Every handler, every on-chain step and every stretch of tick() keeps the invariant.
LEMMA StepInv ==
  ASSUME LatchInv, [Next]_vars
  PROVE  LatchInv'
  <1> USE DEF mapVars, chainVars, histVars
  <1>0. LatchTypeOK /\ HeldOK /\ HeapOK /\ OrderOK /\ BehindOK /\ KeyedByHash
        /\ BytesDropped /\ OpenOnlyIfMet /\ ReleasedMatchesCommitment
    BY DEF LatchInv
  <1>1. ASSUME NEW op \in Ops, NEW claimed, NEW trigger \in Triggers,
               NEW deadline \in 1 .. MaxClock, HandleArm(op, claimed, trigger, deadline)
        PROVE  LatchInv'
    <2> DEFINE c == Keccak[op]
               n == armedTotal + 1
               new == NewIntent(op, trigger, deadline)
    <2>1. /\ n \in Ids /\ c \in Commitments /\ armedTotal \in Nat
          /\ armedTotal' = n
          /\ intents' = [intents EXCEPT ![c] = n]
          /\ obj' = [obj EXCEPT ![n] = new]
          /\ slot' = (IF slot[c] # 0 THEN slot ELSE [slot EXCEPT ![c] = n])
          /\ slot' \in [Commitments -> Nat] /\ clock < deadline
          /\ UNCHANGED <<tk, clock, price, chainVars, histVars>>
      BY <1>0, <1>1 DEF HandleArm, Put, LatchTypeOK, Ids
    <2>2. /\ new \in Intent /\ new.state = "armed" /\ new.userOpData = op
          /\ new.deadline = deadline
      BY DEF NewIntent, Intent, IntentState
    <2>3. obj'[n] = new /\ \A i \in Ids : i # n => obj'[i] = obj[i]
      BY <1>0, <2>1 DEF LatchTypeOK
    <2>4. obj[n].state = "none"
      BY <1>0, <2>1 DEF HeapOK
    <2> HIDE DEF c, n, new
    <2>5. LatchTypeOK'
      BY <1>0, <2>1, <2>2 DEF LatchTypeOK, Ids
    <2>6. HeldOK'
      <3> SUFFICES ASSUME NEW u \in Tickers, tk[u].pc = "check"
                   PROVE  /\ tk[u].held \in Ids
                          /\ obj'[tk[u].held].state # "none"
                          /\ tk[u].now < obj'[tk[u].held].deadline
                          /\ tk[u].now <= clock
        BY <2>1 DEF HeldOK
      <3> QED
        BY <1>0, <2>3, <2>4 DEF HeldOK
    <2>7. HeapOK'
      <3>1. \A i \in Ids : i > armedTotal' => obj'[i].state = "none"
        BY <1>0, <2>1, <2>3 DEF HeapOK, Ids, n
      <3>2. \A d \in Commitments : intents'[d] <= armedTotal'
        <4> TAKE d \in Commitments
        <4>1. intents[d] \in Nat /\ intents[d] <= armedTotal
          BY <1>0 DEF HeapOK, LatchTypeOK, Ids
        <4>2. intents'[d] = n \/ intents'[d] = intents[d]
          BY <1>0, <2>1 DEF LatchTypeOK
        <4> QED
          BY <2>1, <4>1, <4>2 DEF n
      <3> QED
        BY <3>1, <3>2 DEF HeapOK
    <2>8. KeyedByHash'
      <3> SUFFICES ASSUME NEW d \in Commitments, intents'[d] # 0,
                          obj'[intents'[d]].userOpData # "0x"
                   PROVE  Keccak[obj'[intents'[d]].userOpData] = d
        BY DEF KeyedByHash
      <3>1. CASE d = c
        BY <1>0, <2>1, <2>2, <2>3, <3>1 DEF LatchTypeOK, c
      <3>2. CASE d # c
        <4>1. intents'[d] = intents[d] /\ intents[d] \in Ids /\ intents[d] # n
          BY <1>0, <2>1, <3>2 DEF LatchTypeOK, HeapOK, Ids, n
        <4> QED
          BY <1>0, <2>3, <4>1 DEF KeyedByHash
      <3> QED
        BY <3>1, <3>2
    <2>9. OpenOnlyIfMet' /\ BytesDropped'
      BY <1>0, <2>1, <2>2, <2>3 DEF OpenOnlyIfMet, BytesDropped, Bytes
    <2>10. ReleasedMatchesCommitment'
      BY <1>0, <2>1 DEF ReleasedMatchesCommitment
    <2>11. OrderOK'
      <3>1. \A d \in Commitments :
              /\ slot[d] \in Nat /\ slot[d] <= armedTotal
              /\ slot'[d] = slot[d] \/ (d = c /\ slot[c] = 0 /\ slot'[d] = n)
              /\ slot[c] # 0 => slot'[d] = slot[d]
              /\ slot[c] = 0 => slot'[c] = n
              /\ intents'[d] = intents[d] \/ d = c
        BY <1>0, <2>1 DEF LatchTypeOK, OrderOK
      <3>2. n = armedTotal + 1
        BY DEF n
      <3>3. \A d \in Commitments : slot'[d] <= armedTotal' /\ (intents'[d] # 0 => slot'[d] # 0)
        BY <1>0, <2>1, <3>1, <3>2 DEF OrderOK
      <3>4. \A d, e \in Commitments : slot'[d] = slot'[e] /\ slot'[d] # 0 => d = e
        BY <1>0, <2>1, <3>1, <3>2 DEF OrderOK
      <3> QED
        BY <3>3, <3>4 DEF OrderOK
    <2>12. BehindOK'
      <3> SUFFICES ASSUME NEW u \in Tickers, tk[u].pc = "check"
                   PROVE  /\ tk[u].pos <= armedTotal'
                          /\ \A d \in Commitments :
                                slot'[d] <= tk[u].pos /\ Armed(d)'
                                  => tk[u].now < obj'[intents'[d]].deadline
        BY <2>1 DEF BehindOK
      <3>1. /\ tk[u].pos \in Nat /\ tk[u].pos <= armedTotal
            /\ tk[u].now \in Nat /\ tk[u].now <= clock /\ clock \in Nat
        BY <1>0 DEF LatchTypeOK, Ticker, HeldOK, BehindOK
      <3>2. ASSUME NEW d \in Commitments, slot'[d] <= tk[u].pos, Armed(d)'
            PROVE  tk[u].now < obj'[intents'[d]].deadline
        <4>1. CASE d = c
          <5>1. obj'[intents'[d]].deadline = deadline
            BY <1>0, <2>1, <2>2, <2>3, <4>1 DEF LatchTypeOK
          <5> QED
            BY <2>1, <3>1, <5>1
        <4>2. CASE d # c
          <5>1. intents'[d] = intents[d] /\ slot'[d] = slot[d]
            BY <1>0, <2>1, <4>2 DEF LatchTypeOK
          <5>2. intents[d] \in Ids /\ intents[d] # n
            BY <1>0, <2>1, <3>2, <5>1 DEF LatchTypeOK, HeapOK, Armed, Ids, n
          <5>3. obj'[intents'[d]] = obj[intents[d]]
            BY <2>3, <5>1, <5>2
          <5>4. Armed(d)
            BY <3>2, <5>1, <5>3 DEF Armed
          <5> QED
            BY <1>0, <3>2, <5>1, <5>3, <5>4 DEF BehindOK
        <4> QED
          BY <4>1, <4>2
      <3> QED
        BY <2>1, <3>1, <3>2 DEF n
    <2> QED
      BY <2>5, <2>6, <2>7, <2>8, <2>9, <2>10, <2>11, <2>12 DEF LatchInv
  <1>2. ASSUME NEW c \in Commitments, Armed(c), obj' = Cancelled(intents[c]),
               revoked' \subseteq Ids, inbox' \subseteq Message,
               UNCHANGED <<mapVars, tk, clock, price, cancelledBy, released, met>>
        PROVE  LatchInv'
    <2> DEFINE i == intents[c]
    <2>1. i \in Ids /\ obj[i] \in Intent /\ obj[i].state = "armed"
      BY <1>0, <1>2 DEF Armed, LatchTypeOK
    <2>2. /\ obj'[i] \in Intent
          /\ obj'[i].state = "cancelled" /\ obj'[i].userOpData = "0x"
          /\ obj'[i].deadline = obj[i].deadline
          /\ \A k \in Ids : k # i => obj'[k] = obj[k]
          /\ obj' \in [Ids -> Intent]
      BY <1>0, <1>2, <2>1 DEF Cancelled, LatchTypeOK, Intent, IntentState
    <2> HIDE DEF i
    <2>3. LatchTypeOK'
      BY <1>0, <1>2, <2>2 DEF LatchTypeOK
    <2>4. HeldOK'
      BY <1>0, <1>2, <2>1, <2>2 DEF HeldOK
    <2>5. HeapOK'
      BY <1>0, <1>2, <2>1, <2>2 DEF HeapOK
    <2>6. KeyedByHash'
      BY <1>0, <1>2, <2>1, <2>2 DEF KeyedByHash, LatchTypeOK
    <2>7. OpenOnlyIfMet' /\ BytesDropped'
      BY <1>0, <1>2, <2>1, <2>2 DEF OpenOnlyIfMet, BytesDropped, Bytes
    <2>8. ReleasedMatchesCommitment'
      BY <1>0, <1>2 DEF ReleasedMatchesCommitment
    <2>9. OrderOK' /\ BehindOK'
      BY <1>0, <1>2, <2>2, BehindKept DEF OrderOK
    <2> QED
      BY <2>3, <2>4, <2>5, <2>6, <2>7, <2>8, <2>9 DEF LatchInv
  <1>3. ASSUME NEW c \in Commitments, HandleCancel(c)
        PROVE  LatchInv'
    BY <1>0, <1>2, <1>3 DEF HandleCancel, Cancels, LatchTypeOK
  <1>4. ASSUME NEW c \in Commitments, HandleCollect(c)
        PROVE  LatchInv'
    <2> DEFINE i == intents[c]
    <2>1. i \in Ids /\ obj[i] \in Intent /\ obj[i].state \in {"fired", "collected"}
      BY <1>0, <1>4 DEF HandleCollect, LatchTypeOK
    <2>2. /\ obj'[i] \in Intent
          /\ obj'[i].state = "collected" /\ obj'[i].userOpData = obj[i].userOpData
          /\ obj'[i].deadline = obj[i].deadline
          /\ \A k \in Ids : k # i => obj'[k] = obj[k]
          /\ obj' \in [Ids -> Intent]
      BY <1>0, <1>4, <2>1 DEF HandleCollect, LatchTypeOK, Intent, IntentState
    <2>3. /\ released' = released \cup {[commitment |-> c, id |-> i, userOpData |-> obj[i].userOpData]}
          /\ UNCHANGED <<mapVars, tk, clock, price, chainVars, met, revoked>>
      BY <1>4 DEF HandleCollect
    <2>4. obj[i].userOpData # "0x" => Keccak[obj[i].userOpData] = c
      BY <1>0, <1>4 DEF HandleCollect, KeyedByHash
    <2>5. [commitment |-> c, id |-> i, userOpData |-> obj[i].userOpData] \in Answer
      BY <2>1 DEF Answer, Intent
    <2> HIDE DEF i
    <2>6. LatchTypeOK'
      BY <1>0, <2>2, <2>3, <2>5 DEF LatchTypeOK
    <2>7. HeldOK'
      BY <1>0, <2>1, <2>2, <2>3 DEF HeldOK
    <2>8. HeapOK'
      BY <1>0, <2>1, <2>2, <2>3 DEF HeapOK
    <2>9. KeyedByHash'
      BY <1>0, <2>1, <2>2, <2>3 DEF KeyedByHash, LatchTypeOK
    <2>10. OpenOnlyIfMet' /\ BytesDropped'
      BY <1>0, <2>1, <2>2, <2>3 DEF OpenOnlyIfMet, BytesDropped, Bytes
    <2>11. ReleasedMatchesCommitment'
      BY <1>0, <2>3, <2>4 DEF ReleasedMatchesCommitment
    <2>12. OrderOK' /\ BehindOK'
      BY <1>0, <2>2, <2>3, BehindKept DEF OrderOK
    <2> QED
      BY <2>6, <2>7, <2>8, <2>9, <2>10, <2>11, <2>12 DEF LatchInv
  <1>5. ASSUME UNCHANGED <<mapVars, obj, tk, released, met>>,
               clock' \in Nat, clock <= clock', price' \in Prices,
               cancelledBy' \subseteq Commitments, inbox' \subseteq Message,
               revoked' \subseteq Ids
        PROVE  LatchInv'
    <2>1. LatchTypeOK'
      BY <1>0, <1>5 DEF LatchTypeOK
    <2>2. HeldOK'
      <3> SUFFICES ASSUME NEW u \in Tickers, tk[u].pc = "check"
                   PROVE  tk[u].now <= clock'
        BY <1>0, <1>5 DEF HeldOK
      <3> QED
        BY <1>0, <1>5 DEF HeldOK, LatchTypeOK, Ticker
    <2>3. HeapOK' /\ KeyedByHash' /\ OpenOnlyIfMet' /\ BytesDropped'
      BY <1>0, <1>5 DEF HeapOK, KeyedByHash, OpenOnlyIfMet, BytesDropped, Bytes
    <2>4. ReleasedMatchesCommitment'
      BY <1>0, <1>5 DEF ReleasedMatchesCommitment
    <2>5. OrderOK' /\ BehindOK'
      BY <1>0, <1>5, BehindKept DEF OrderOK
    <2> QED
      BY <2>1, <2>2, <2>3, <2>4, <2>5 DEF LatchInv
  <1>6. ASSUME NEW c \in Commitments, CancelIntent(c)
        PROVE  LatchInv'
    BY <1>0, <1>5, <1>6 DEF CancelIntent, LatchTypeOK, Message
  <1>7. ASSUME NEW msg \in inbox, DeliverInstruction(msg)
        PROVE  LatchInv'
    <2>1. msg.commitment \in Commitments /\ inbox' \subseteq Message
      BY <1>0, <1>7 DEF DeliverInstruction, LatchTypeOK, Message
    <2>2. revoked' \subseteq Ids
      BY <1>0, <1>7, <2>1 DEF DeliverInstruction, LatchTypeOK, Armed
    <2>3. CASE Cancels(msg)
      BY <1>0, <1>2, <1>7, <2>1, <2>2, <2>3 DEF DeliverInstruction, Cancels
    <2>4. CASE ~Cancels(msg)
      BY <1>0, <1>5, <1>7, <2>1, <2>2, <2>4 DEF DeliverInstruction, LatchTypeOK
    <2> QED
      BY <2>3, <2>4
  <1>8. ASSUME NEW t \in Tickers, TickStarts(t)
        PROVE  LatchInv'
    <2>1. Sound(obj)
      BY <1>8, ObjSound DEF TickStarts
    <2>2. clock \in Nat /\ clock <= clock /\ met' \subseteq Ids
      BY <1>0, <1>8 DEF TickStarts, LatchTypeOK
    <2>3. \A c \in Commitments : slot[c] <= 0 /\ Armed(c) => clock < obj[intents[c]].deadline
      BY <1>0 DEF OrderOK, Armed, LatchTypeOK
    <2> QED
      BY <1>8, <2>1, <2>2, <2>3, ScanInv DEF TickStarts
  <1>9. ASSUME NEW t \in Tickers, CheckReturns(t)
        PROVE  LatchInv'
    <2> DEFINE k == tk[t]
               trigger == obj[k.held].trigger
               shot == [obj EXCEPT ![k.held].state = "fired"]
    <2>1. PICK answered \in BOOLEAN :
            Scan(t, IF Verdict(trigger, k.now, answered) THEN shot ELSE obj, k.pos, k.now)
      BY <1>9 DEF CheckReturns
    <2>2. /\ k.pc = "check"
          /\ met' = IF Holds(trigger, clock, price) THEN met \cup {k.held} ELSE met
          /\ UNCHANGED <<mapVars, clock, price, chainVars, released, revoked>>
      BY <1>9 DEF CheckReturns
    <2>3. k.pos \in Nat /\ k.now \in Nat /\ k.now <= clock /\ k.held \in Ids
      BY <1>0, <2>2 DEF LatchTypeOK, Ticker, HeldOK
    <2>4. met' \subseteq Ids /\ met \subseteq met'
      BY <1>0, <2>2, <2>3 DEF LatchTypeOK
    <2>7. \A c \in Commitments : slot[c] <= k.pos /\ Armed(c) => k.now < obj[intents[c]].deadline
      BY <1>0, <2>2 DEF BehindOK
    <2>5. CASE Verdict(trigger, k.now, answered)
      <3>1. Sound(shot)
        BY <2>2, <2>5, ShotSound
      <3>2. Scan(t, shot, k.pos, k.now)
        BY <2>1, <2>5
      <3> HIDE DEF shot, k
      <3> QED
        BY <2>2, <2>3, <2>4, <2>7, <3>1, <3>2, ScanInv
    <2>6. CASE ~Verdict(trigger, k.now, answered)
      <3>1. Sound(obj)
        BY <2>4, ObjSound
      <3>2. Scan(t, obj, k.pos, k.now)
        BY <2>1, <2>6
      <3> HIDE DEF k
      <3> QED
        BY <2>2, <2>3, <2>4, <2>7, <3>1, <3>2, ScanInv
    <2> QED
      BY <2>5, <2>6
  <1>10. ASSUME ClockTicks \/ PriceMoves \/ UNCHANGED vars
         PROVE  LatchInv'
    BY <1>0, <1>5, <1>10 DEF ClockTicks, PriceMoves, vars, LatchTypeOK
  <1> QED
    BY <1>1, <1>3, <1>4, <1>6, <1>7, <1>8, <1>9, <1>10 DEF Next, Handlers, OnChain, Tick

-----------------------------------------------------------------------------

\* Nothing is armed, held or released at the start.
LEMMA InitInv == Init => LatchInv
  <1> SUFFICES ASSUME Init PROVE LatchInv
    OBVIOUS
  <1>1. Unallocated \in Intent
    BY DEF Unallocated, Intent, Trigger, IntentState
  <1>2. \A i \in Ids : obj[i].state = "none"
    BY DEF Init, Unallocated
  <1>3. LatchTypeOK
    BY <1>1 DEF Init, LatchTypeOK, Ticker, Resting, Ids
  <1>4. HeldOK /\ KeyedByHash /\ ReleasedMatchesCommitment
    BY DEF Init, HeldOK, KeyedByHash, ReleasedMatchesCommitment, Resting
  <1>5. HeapOK /\ OrderOK /\ BehindOK /\ OpenOnlyIfMet /\ BytesDropped
    BY <1>2 DEF Init, HeapOK, OrderOK, BehindOK, OpenOnlyIfMet, BytesDropped, Resting
  <1> QED
    BY <1>3, <1>4, <1>5 DEF LatchInv

\* LATCH's inductive invariant.
THEOREM LatchInvariant == Spec => []LatchInv
  <1>1. LatchInv /\ [Next]_vars => LatchInv'
    BY StepInv
  <1> QED
    BY InitInv, <1>1, PTL DEF Spec

\* The types of LATCH's state, for every number of operations, ticks and armings.
THEOREM LatchTypeCorrect == Spec => []LatchTypeOK
  <1>1. LatchInv => LatchTypeOK
    BY DEF LatchInv
  <1> QED
    BY LatchInvariant, <1>1, PTL

\* Only an operation whose condition held when it was evaluated can be collected,
\* whatever activations of tick() and handlers overlap.
THEOREM CollectableWasMet == Spec => []OpenOnlyIfMet
  <1>1. LatchInv => OpenOnlyIfMet
    BY DEF LatchInv
  <1> QED
    BY LatchInvariant, <1>1, PTL

\* The bytes COLLECT answers under a commitment hash to it.
THEOREM ReleaseIsBound == Spec => []ReleasedMatchesCommitment
  <1>1. LatchInv => ReleasedMatchesCommitment
    BY DEF LatchInv
  <1> QED
    BY LatchInvariant, <1>1, PTL

\* An activation that ends leaves nothing armed that was due when it started, whatever
\* handlers and other activations did to the Map and its objects during its awaits.
THEOREM PassesSettle == Spec => PassSettles
  <1>1. ASSUME LatchInv, [Next]_vars, NEW t \in Tickers, tk[t].pc = "check", tk'[t].pc = "idle",
               NEW c \in Commitments, Armed(c)'
        PROVE  tk[t].now < obj'[intents'[c]].deadline
    <2>0. LatchTypeOK /\ HeldOK /\ OrderOK /\ BehindOK
      BY <1>1 DEF LatchInv
    <2>1. CASE CheckReturns(t)
      <3> DEFINE k == tk[t]
                 shot == [obj EXCEPT ![k.held].state = "fired"]
      <3>1. /\ k.pos \in Nat /\ k.now \in Nat /\ k.held \in Ids
            /\ obj \in [Ids -> Intent]
            /\ UNCHANGED <<intents, slot, armedTotal>>
        BY <1>1, <2>0, <2>1 DEF CheckReturns, LatchTypeOK, Ticker, HeldOK, mapVars
      <3>2. shot \in [Ids -> Intent] /\ shot[k.held].state = "fired"
        BY <3>1 DEF Intent, IntentState
      <3>3. Scan(t, shot, k.pos, k.now) \/ Scan(t, obj, k.pos, k.now)
        BY <2>1 DEF CheckReturns
      <3>4. \A i \in Ids : shot[i].state = "armed" => shot[i] = obj[i]
        BY <3>1, <3>2
      <3> HIDE DEF shot, k
      <3>5. PICK heap \in [Ids -> Intent] :
              /\ Scan(t, heap, k.pos, k.now)
              /\ \A i \in Ids : heap[i].state = "armed" => heap[i] = obj[i]
        BY <3>1, <3>2, <3>3, <3>4
      <3>6. /\ intents[c] \in Ids /\ intents[c] # 0 /\ slot[c] \in Nat
            /\ obj'[intents[c]].state = "armed"
        BY <1>1, <2>0, <3>1 DEF Armed, LatchTypeOK
      <3>7. slot[c] <= k.pos
        <4>1. ~(k.pos < slot[c])
          BY <1>1, <2>0, <3>1, <3>5, <3>6, ScanPasses
        <4> QED
          BY <3>1, <3>6, <4>1
      <3>8. obj'[intents[c]] = obj[intents[c]]
        <4>1. \/ obj'[intents[c]] = heap[intents[c]]
              \/ obj'[intents[c]] = Lapsed(heap[intents[c]])
          BY <2>0, <3>1, <3>5, <3>6, ScanEffect
        <4>2. heap[intents[c]] \in Intent
          BY <3>5, <3>6
        <4>3. obj'[intents[c]] = heap[intents[c]]
          BY <3>6, <4>1, <4>2, LapsedFields
        <4> QED
          BY <3>5, <3>6, <4>3
      <3> QED
        BY <1>1, <2>0, <3>1, <3>6, <3>7, <3>8 DEF BehindOK, Armed, k
    <2>2. CASE ~CheckReturns(t)
      <3>1. tk'[t] = tk[t]
        <4>1. ASSUME NEW u \in Tickers, Tick(u)
              PROVE  tk'[t] = tk[t]
          <5>1. u # t
            BY <1>1, <2>2, <4>1 DEF Tick, TickStarts
          <5>2. \E r : tk' = [tk EXCEPT ![u] = r]
            <6>1. \E heap, pos, now : Scan(u, heap, pos, now)
              BY <4>1 DEF Tick, TickStarts, CheckReturns
            <6> QED
              BY <6>1 DEF Scan
          <5> QED
            BY <2>0, <5>1, <5>2 DEF LatchTypeOK
        <4> QED
          BY <1>1, <4>1 DEF Next, Handlers, OnChain, HandleArm, HandleCancel, HandleCollect,
               CancelIntent, DeliverInstruction, ClockTicks, PriceMoves, vars
      <3> QED
        BY <1>1, <3>1
    <2> QED
      BY <2>1, <2>2
  <1>2. LatchInv /\ [Next]_vars =>
          [\A t \in Tickers : tk[t].pc = "check" /\ tk'[t].pc = "idle" =>
              \A c \in Commitments : Armed(c)' => tk[t].now < obj'[intents'[c]].deadline]_vars
    BY <1>1
  <1> QED
    BY LatchInvariant, <1>2, PTL DEF Spec, PassSettles

-----------------------------------------------------------------------------

\* A step in which boxes stay as they are or sealed ones are settled, and nothing
\* leaves, is a step of Escrow.
LEMMA SettleStep ==
  ASSUME EscrowOut' = EscrowOut,
         \A i \in Ids : \/ EscrowBox'[i] = EscrowBox[i]
                        \/ EscrowBox[i] = "sealed" /\ EscrowBox'[i] \in {"open", "destroyed"}
  PROVE  E!EscrowNext
  <1> DEFINE opened == {i \in Ids : EscrowBox[i] = "sealed" /\ EscrowBox'[i] = "open"}
             gone == {i \in Ids : EscrowBox[i] = "sealed" /\ EscrowBox'[i] = "destroyed"}
  <1>1. opened \in SUBSET E!Sealed /\ gone \in SUBSET E!Sealed
    BY DEF E!Sealed
  <1>2. opened \cap gone = {}
    OBVIOUS
  <1>3. EscrowBox' = [i \in Ids |-> EscrowBox'[i]]
    BY DEF EscrowBox
  <1>4. \A i \in Ids : EscrowBox'[i] = CASE i \in opened -> "open"
                                         [] i \in gone -> "destroyed"
                                         [] OTHER -> EscrowBox[i]
    OBVIOUS
  <1>5. EscrowBox' = [i \in Ids |-> CASE i \in opened -> "open"
                                      [] i \in gone -> "destroyed"
                                      [] OTHER -> EscrowBox[i]]
    BY <1>3, <1>4
  <1> HIDE DEF opened, gone
  <1>6. E!Settle(opened, gone)
    BY <1>2, <1>5 DEF E!Settle
  <1> QED
    BY <1>1, <1>6 DEF E!EscrowNext

\* The box of an object, field by field.
LEMMA BoxOf ==
  \A i \in Ids :
    /\ obj[i].state = "none" => EscrowBox[i] = "empty"
    /\ obj[i].state = "armed" => EscrowBox[i] = "sealed"
    /\ obj[i].state \in {"fired", "collected"} =>
         EscrowBox[i] = IF obj[i].userOpData # "0x" THEN "open" ELSE "destroyed"
    /\ obj[i].state \in {"cancelled", "expired"} => EscrowBox[i] = "destroyed"
  BY DEF EscrowBox, Bytes

\* The same after a step.
LEMMA BoxOfNext ==
  \A i \in Ids :
    /\ obj'[i].state = "none" => EscrowBox'[i] = "empty"
    /\ obj'[i].state = "armed" => EscrowBox'[i] = "sealed"
    /\ obj'[i].state \in {"fired", "collected"} =>
         EscrowBox'[i] = IF obj'[i].userOpData # "0x" THEN "open" ELSE "destroyed"
    /\ obj'[i].state \in {"cancelled", "expired"} => EscrowBox'[i] = "destroyed"
  BY DEF EscrowBox, Bytes

\* A stretch of the loop settles sealed boxes: whatever became of the object a tick
\* holds, the shot opens only a box that is still sealed.
LEMMA ScanSettles ==
  ASSUME LatchTypeOK, NEW t \in Tickers, NEW heap \in [Ids -> Intent],
         NEW pos \in Nat, NEW now \in Nat, Scan(t, heap, pos, now),
         \A i \in Ids :
            \/ heap[i] = obj[i]
            \/ /\ obj[i].state # "none" /\ heap[i].state = "fired"
               /\ heap[i].userOpData = obj[i].userOpData
               /\ obj[i].state \in {"cancelled", "expired"} => obj[i].userOpData = "0x",
         UNCHANGED released
  PROVE  E!EscrowNext
  <1>1. \A i \in Ids : obj'[i] = heap[i] \/ (heap[i].state = "armed" /\ obj'[i] = Lapsed(heap[i]))
    BY ScanEffect
  <1>2. EscrowOut' = EscrowOut
    BY DEF EscrowOut
  <1>3. ASSUME NEW i \in Ids
        PROVE  \/ EscrowBox'[i] = EscrowBox[i]
               \/ EscrowBox[i] = "sealed" /\ EscrowBox'[i] \in {"open", "destroyed"}
    <2>1. obj[i] \in Intent /\ heap[i] \in Intent
      BY DEF LatchTypeOK
    <2>2. CASE obj'[i] = heap[i] /\ heap[i] = obj[i]
      BY <2>1, <2>2, BoxOf, BoxOfNext DEF Intent, IntentState
    <2>3. CASE heap[i].state = "armed" /\ obj'[i] = Lapsed(heap[i])
      <3>1. heap[i] = obj[i]
        BY <2>3
      <3> QED
        BY <2>1, <2>3, <3>1, LapsedFields, BoxOf, BoxOfNext
    <2>4. CASE obj'[i] = heap[i] /\ heap[i] # obj[i]
      BY <2>1, <2>4, BoxOf, BoxOfNext DEF Intent, IntentState
    <2> QED
      BY <1>1, <2>2, <2>3, <2>4
  <1> QED
    BY <1>2, <1>3, SettleStep

\* Arming seals a box that was empty.
LEMMA ArmSeals ==
  ASSUME LatchInv, NEW op \in Ops, NEW claimed, NEW trigger \in Triggers,
         NEW deadline \in 1 .. MaxClock, HandleArm(op, claimed, trigger, deadline)
  PROVE  E!EscrowNext
  <1> DEFINE n == armedTotal + 1
             new == NewIntent(op, trigger, deadline)
  <1>1. /\ n \in Ids
        /\ obj' = [obj EXCEPT ![n] = new]
        /\ obj \in [Ids -> Intent]
        /\ UNCHANGED released
    BY DEF HandleArm, Put, LatchInv, LatchTypeOK, Ids, histVars
  <1>2. obj[n].state = "none"
    BY <1>1 DEF LatchInv, HeapOK, LatchTypeOK
  <1>3. obj'[n].state = "armed" /\ \A i \in Ids : i # n => obj'[i] = obj[i]
    BY <1>1 DEF NewIntent
  <1> HIDE DEF n, new
  <1>4. EscrowBox[n] = "empty" /\ EscrowBox'[n] = "sealed"
    BY <1>1, <1>2, <1>3, BoxOf, BoxOfNext
  <1>5. \A i \in Ids : i # n => EscrowBox'[i] = EscrowBox[i]
    BY <1>3 DEF EscrowBox, Bytes
  <1>6. EscrowBox' = [EscrowBox EXCEPT ![n] = "sealed"]
    <2>1. EscrowBox' = [i \in Ids |-> EscrowBox'[i]] /\ EscrowBox = [i \in Ids |-> EscrowBox[i]]
      BY DEF EscrowBox
    <2> QED
      BY <1>1, <1>4, <1>5, <2>1
  <1>7. EscrowOut' = EscrowOut
    BY <1>1 DEF EscrowOut
  <1> QED
    BY <1>1, <1>4, <1>6, <1>7 DEF E!EscrowNext, E!Seal

\* Collecting releases from an open box, or answers with bytes that are gone.
LEMMA CollectReleases ==
  ASSUME LatchInv, NEW c \in Commitments, HandleCollect(c)
  PROVE  E!EscrowNext \/ (EscrowBox' = EscrowBox /\ EscrowOut' = EscrowOut)
  <1> DEFINE i == intents[c]
             r == [commitment |-> c, id |-> i, userOpData |-> obj[i].userOpData]
  <1>1. /\ i \in Ids /\ obj[i] \in Intent /\ obj[i].state \in {"fired", "collected"}
        /\ obj' = [obj EXCEPT ![i].state = "collected"]
        /\ released' = released \cup {r}
        /\ obj \in [Ids -> Intent]
    BY DEF HandleCollect, LatchInv, LatchTypeOK
  <1>2. /\ obj'[i].state = "collected" /\ obj'[i].userOpData = obj[i].userOpData
        /\ \A k \in Ids : k # i => obj'[k] = obj[k]
    BY <1>1 DEF Intent
  <1>3. r.id = i /\ r.userOpData = obj[i].userOpData
    OBVIOUS
  <1> HIDE DEF i, r
  <1>4. EscrowBox' = EscrowBox
    <2>1. \A k \in Ids : EscrowBox'[k] = EscrowBox[k]
      <3> TAKE k \in Ids
      <3>1. CASE k = i
        BY <1>1, <1>2, <3>1, BoxOf, BoxOfNext
      <3>2. CASE k # i
        BY <1>2, <3>2 DEF EscrowBox, Bytes
      <3> QED
        BY <3>1, <3>2
    <2>2. EscrowBox' = [k \in Ids |-> EscrowBox'[k]] /\ EscrowBox = [k \in Ids |-> EscrowBox[k]]
      BY DEF EscrowBox
    <2> QED
      BY <2>1, <2>2
  <1>5. CASE obj[i].userOpData = "0x"
    <2>1. EscrowOut' = EscrowOut
      BY <1>1, <1>3, <1>5 DEF EscrowOut
    <2> QED
      BY <1>4, <2>1
  <1>6. CASE obj[i].userOpData # "0x"
    <2>1. EscrowBox[i] = "open"
      BY <1>1, <1>6, BoxOf
    <2>2. EscrowOut' = EscrowOut \cup {i}
      BY <1>1, <1>3, <1>6 DEF EscrowOut
    <2> QED
      BY <1>1, <1>4, <2>1, <2>2 DEF E!EscrowNext, E!Release
  <1> QED
    BY <1>5, <1>6

\* Every step of LATCH is a step of Escrow or leaves its boxes alone.
LEMMA StepRefines ==
  ASSUME LatchInv, [Next]_vars
  PROVE  [E!EscrowNext]_<<EscrowBox, EscrowOut>>
  <1> USE DEF mapVars, chainVars, histVars
  <1>0. LatchTypeOK /\ HeldOK /\ BytesDropped
    BY DEF LatchInv
  <1>1. ASSUME UNCHANGED <<obj, released>>
        PROVE  EscrowBox' = EscrowBox /\ EscrowOut' = EscrowOut
    BY <1>1 DEF EscrowBox, EscrowOut, Bytes
  <1>2. ASSUME NEW c \in Commitments, Armed(c), obj' = Cancelled(intents[c]),
               UNCHANGED released
        PROVE  E!EscrowNext
    <2> DEFINE i == intents[c]
    <2>1. i \in Ids /\ obj \in [Ids -> Intent] /\ obj[i].state = "armed"
      BY <1>0, <1>2 DEF Armed, LatchTypeOK
    <2>2. obj'[i].state = "cancelled" /\ \A k \in Ids : k # i => obj'[k] = obj[k]
      BY <1>2, <2>1 DEF Cancelled, Intent
    <2> HIDE DEF i
    <2>3. EscrowBox[i] = "sealed" /\ EscrowBox'[i] = "destroyed"
      BY <2>1, <2>2, BoxOf, BoxOfNext
    <2>4. \A k \in Ids : k # i => EscrowBox'[k] = EscrowBox[k]
      BY <2>2 DEF EscrowBox, Bytes
    <2>5. EscrowOut' = EscrowOut
      BY <1>2 DEF EscrowOut
    <2> QED
      BY <2>3, <2>4, <2>5, SettleStep
  <1>3. ASSUME NEW t \in Tickers, TickStarts(t)
        PROVE  E!EscrowNext
    <2>1. obj \in [Ids -> Intent] /\ clock \in Nat
      BY <1>0 DEF LatchTypeOK
    <2> QED
      BY <1>0, <1>3, <2>1, ScanSettles DEF TickStarts
  <1>4. ASSUME NEW t \in Tickers, CheckReturns(t)
        PROVE  E!EscrowNext
    <2> DEFINE k == tk[t]
               shot == [obj EXCEPT ![k.held].state = "fired"]
    <2>1. PICK answered \in BOOLEAN :
            Scan(t, IF Verdict(obj[k.held].trigger, k.now, answered) THEN shot ELSE obj,
                 k.pos, k.now)
      BY <1>4 DEF CheckReturns
    <2>2. /\ k.pc = "check" /\ UNCHANGED released
          /\ k.pos \in Nat /\ k.now \in Nat /\ k.held \in Ids
          /\ obj \in [Ids -> Intent] /\ obj[k.held].state # "none"
      BY <1>0, <1>4 DEF CheckReturns, LatchTypeOK, Ticker, HeldOK
    <2>3. /\ shot \in [Ids -> Intent]
          /\ shot[k.held].state = "fired"
          /\ shot[k.held].userOpData = obj[k.held].userOpData
          /\ \A i \in Ids : i # k.held => shot[i] = obj[i]
      BY <2>2 DEF Intent, IntentState
    <2> HIDE DEF k, shot
    <2>4. \A i \in Ids :
            \/ shot[i] = obj[i]
            \/ /\ obj[i].state # "none" /\ shot[i].state = "fired"
               /\ shot[i].userOpData = obj[i].userOpData
               /\ obj[i].state \in {"cancelled", "expired"} => obj[i].userOpData = "0x"
      BY <1>0, <2>2, <2>3 DEF BytesDropped
    <2>5. CASE Scan(t, shot, k.pos, k.now)
      BY <1>0, <2>2, <2>3, <2>4, <2>5, ScanSettles
    <2>6. CASE Scan(t, obj, k.pos, k.now)
      BY <1>0, <2>2, <2>6, ScanSettles
    <2> QED
      BY <2>1, <2>5, <2>6
  <1>5. ASSUME NEW c \in Commitments, HandleCancel(c)
        PROVE  E!EscrowNext
    BY <1>2, <1>5 DEF HandleCancel, Cancels
  <1>6. ASSUME NEW msg \in inbox, DeliverInstruction(msg)
        PROVE  E!EscrowNext \/ (EscrowBox' = EscrowBox /\ EscrowOut' = EscrowOut)
    <2>1. msg.commitment \in Commitments
      BY <1>0 DEF LatchTypeOK, Message
    <2>2. CASE Cancels(msg)
      BY <1>2, <1>6, <2>1, <2>2 DEF DeliverInstruction, Cancels
    <2>3. CASE ~Cancels(msg)
      BY <1>1, <1>6, <2>3 DEF DeliverInstruction
    <2> QED
      BY <2>2, <2>3
  <1>7. ASSUME \/ \E c \in Commitments : CancelIntent(c)
               \/ ClockTicks \/ PriceMoves \/ UNCHANGED vars
        PROVE  EscrowBox' = EscrowBox /\ EscrowOut' = EscrowOut
    BY <1>1, <1>7 DEF CancelIntent, ClockTicks, PriceMoves, vars
  <1> QED
    BY <1>3, <1>4, <1>5, <1>6, <1>7, ArmSeals, CollectReleases
       DEF Next, Handlers, OnChain, Tick

\* LATCH implements Escrow for every number of operations and overlapping ticks: the
\* bytes of a cancelled or expired intent never come out, and no others leave unfired.
THEOREM LatchImplementsEscrow == Spec => ImplementsEscrow
  <1>1. Init => E!EscrowInit
    <2> SUFFICES ASSUME Init PROVE E!EscrowInit
      OBVIOUS
    <2>1. \A i \in Ids : obj[i].state = "none"
      BY DEF Init, Unallocated
    <2>2. EscrowBox = [i \in Ids |-> "empty"]
      BY <2>1 DEF EscrowBox
    <2>3. EscrowOut = {}
      BY DEF Init, EscrowOut
    <2> QED
      BY <2>2, <2>3 DEF E!EscrowInit
  <1>2. LatchInv /\ [Next]_vars => [E!EscrowNext]_<<EscrowBox, EscrowOut>>
    BY StepRefines
  <1> QED
    BY <1>1, <1>2, LatchInvariant, PTL DEF Spec, ImplementsEscrow, E!EscrowSpec

=============================================================================
