---------------------------- MODULE IntakeProofs ----------------------------
(***************************************************************************)
(* Proofs about Intake: its types, that the watcher's cursor passes no       *)
(* payment it owes an answer for however many ticks poll at once, and that a *)
(* payment is begun once if ticks do not overlap and no fault truncates the  *)
(* file of its job.                                                          *)
(***************************************************************************)
EXTENDS Intake, SequenceTheorems, TLAPS

-----------------------------------------------------------------------------
(***************************************************************************)
(* What the loop of poll() does to an answer of account_tx.                 *)
(***************************************************************************)

\* What is left of a sequence from its m-th element on.
LEMMA RestOf ==
  ASSUME NEW S, NEW s \in Seq(S), NEW m \in 1 .. Len(s) + 1
  PROVE  LET r == SubSeq(s, m, Len(s)) IN
         /\ r \in Seq(S) /\ Len(r) \in Nat /\ Len(r) = Len(s) - m + 1 /\ DOMAIN r = 1 .. Len(r)
         /\ \A i \in DOMAIN r : m + i - 1 \in DOMAIN s /\ r[i] = s[m + i - 1]
         /\ \A j \in DOMAIN s : m <= j => j - m + 1 \in DOMAIN r /\ r[j - m + 1] = s[j]
  <1> DEFINE r == SubSeq(s, m, Len(s))
  <1>1. Len(s) \in Nat /\ DOMAIN s = 1 .. Len(s) /\ \A i \in DOMAIN s : s[i] \in S
    BY LenProperties, ElementOfSeq
  <1>2. /\ r \in Seq(S)
        /\ Len(r) = IF m <= Len(s) THEN Len(s) - m + 1 ELSE 0
        /\ \A i \in 1 .. Len(s) - m + 1 : r[i] = s[m + i - 1]
    BY <1>1, SubSeqProperties
  <1> HIDE DEF r
  <1>3. Len(r) \in Nat /\ DOMAIN r = 1 .. Len(r)
    BY <1>2, LenProperties
  <1>4. Len(r) = Len(s) - m + 1
    BY <1>1, <1>2
  <1>5. ASSUME NEW i \in DOMAIN r
        PROVE  m + i - 1 \in DOMAIN s /\ r[i] = s[m + i - 1]
    BY <1>1, <1>2, <1>3, <1>4
  <1>6. ASSUME NEW j \in DOMAIN s, m <= j
        PROVE  j - m + 1 \in DOMAIN r /\ r[j - m + 1] = s[j]
    <2>1. j - m + 1 \in 1 .. Len(s) - m + 1 /\ m + (j - m + 1) - 1 = j
      BY <1>1, <1>6
    <2>2. r[j - m + 1] = s[m + (j - m + 1) - 1]
      BY <1>2, <2>1
    <2> QED
      BY <1>3, <1>4, <2>1, <2>2
  <1> QED
    BY <1>2, <1>3, <1>4, <1>5, <1>6 DEF r

\* The entries of an answer are validated, and none is newer than one before it.
NewestFirst(todo) ==
    \A i, j \in DOMAIN todo : at[todo[i]] # 0 /\ (i <= j => at[todo[j]] <= at[todo[i]])

\* The first entry is all the cursor looks at: the others are no newer.
LEMMA CursorOfPage ==
  ASSUME IntakeTypeOK, NEW todo \in Seq(Payments), NewestFirst(todo),
         NEW stop \in 1 .. Len(todo) + 1
  PROVE  Cursor({todo[i] : i \in {j \in DOMAIN todo : j <= stop}}) =
            IF todo # <<>> /\ at[todo[1]] > last THEN at[todo[1]] ELSE last
  <1> DEFINE passed == {todo[i] : i \in {j \in DOMAIN todo : j <= stop}}
             higher == {at[p] : p \in {q \in passed : at[q] > last}}
  <1>1. Len(todo) \in Nat /\ DOMAIN todo = 1 .. Len(todo) /\ \A i \in DOMAIN todo : todo[i] \in Payments
    BY LenProperties, ElementOfSeq
  <1>2. last \in Nat /\ \A p \in Payments : at[p] \in Nat
    BY DEF IntakeTypeOK
  <1>3. Cursor(passed) = IF higher = {} THEN last ELSE CHOOSE l \in higher : \A m \in higher : m <= l
    BY DEF Cursor
  <1>4. CASE todo = <<>> \/ at[todo[1]] <= last
    <2>1. ASSUME NEW j \in DOMAIN todo
          PROVE  ~(at[todo[j]] > last)
      <3>1. j \in Nat /\ 1 <= j /\ 1 \in DOMAIN todo /\ todo # <<>>
        BY <1>1, EmptySeq
      <3>2. at[todo[j]] <= at[todo[1]] /\ at[todo[1]] <= last
        BY <1>4, <3>1 DEF NewestFirst
      <3> QED
        BY <1>1, <1>2, <3>1, <3>2
    <2>2. higher = {}
      BY <2>1
    <2>3. ~(todo # <<>> /\ at[todo[1]] > last)
      <3>1. todo # <<>> => 1 \in DOMAIN todo
        BY <1>1, EmptySeq
      <3> QED
        BY <1>4, <2>1, <3>1
    <2> QED
      BY <1>3, <2>2, <2>3
  <1>5. CASE todo # <<>> /\ at[todo[1]] > last
    <2>1. 1 \in DOMAIN todo /\ 1 <= stop
      BY <1>1, <1>5, EmptySeq
    <2>2. at[todo[1]] \in higher
      BY <1>5, <2>1
    <2>3. \A m \in higher : m \in Nat /\ m <= at[todo[1]]
      BY <1>1, <1>2, <2>1 DEF NewestFirst
    <2>4. (CHOOSE l \in higher : \A m \in higher : m <= l) = at[todo[1]]
      <3> HIDE DEF higher
      <3>1. PICK top \in higher : top = (CHOOSE l \in higher : \A m \in higher : m <= l)
                                  /\ \A m \in higher : m <= top
        BY <2>2, <2>3
      <3>2. /\ top <= at[todo[1]] /\ at[todo[1]] <= top
            /\ top \in Nat /\ at[todo[1]] \in Nat
        BY <2>2, <2>3, <3>1
      <3> QED
        BY <3>1, <3>2
    <2>5. higher # {}
      BY <2>2
    <2> QED
      BY <1>3, <1>5, <2>4, <2>5
  <1>6. at[todo[1]] > last \/ todo = <<>> \/ at[todo[1]] <= last
    <2>1. todo # <<>> => todo[1] \in Payments
      BY <1>1, EmptySeq
    <2> QED
      BY <1>2, <2>1
  <1> QED
    BY <1>4, <1>5, <1>6

\* The tick t is left at k by the loop over todo: the entries that are gone were reported
\* or carry no commitment, and the cursor is past none but those of the page.
Scanned(t, todo, found, done, k) ==
    /\ tk' = [tk EXCEPT ![t] = k]
    /\ seen' = done
    /\ last' = IF todo # <<>> /\ at[todo[1]] > last THEN at[todo[1]] ELSE last
    /\ k.min = tk[t].min /\ k.found = found
    /\ \/ k.pc = "found" /\ k.todo = <<>>
       \/ k.pc \in {"get", "read"} /\ k.todo # <<>> /\ todo # <<>> /\ at[k.todo[1]] <= at[todo[1]]
    /\ k.pc = "get" => Commitment[k.todo[1]] \in Clients
    /\ NewestFirst(k.todo)
    /\ Range(k.todo) \subseteq Range(todo)
    /\ \A p \in Range(todo) \ Range(k.todo) : p \in done \/ Commitment[p] = Garbage

\* The loop of poll() stops at a payment with a commitment or at the end of its page, and
\* has then passed only payments that were seen before or that carry none.
LEMMA ScanMoves ==
  ASSUME IntakeTypeOK, NEW t \in Ticks,
         NEW todo \in Seq(Payments), NEW found \in Seq(Payments), NEW done,
         NewestFirst(todo), Scan(t, todo, found, done)
  PROVE  \E k \in Tick : Scanned(t, todo, found, done, k)
  <1>1. /\ Len(todo) \in Nat /\ DOMAIN todo = 1 .. Len(todo)
        /\ \A i \in DOMAIN todo : todo[i] \in Payments
    BY LenProperties, ElementOfSeq
  <1> DEFINE Asks(p) == p \notin done /\ Commitment[p] # Garbage
  <1>2. PICK stop \in 1 .. Len(todo) + 1 :
           /\ \A i \in 1 .. stop - 1 : ~Asks(todo[i])
           /\ seen' = done
           /\ last' = Cursor({todo[i] : i \in {j \in DOMAIN todo : j <= stop}})
           /\ tk' = [tk EXCEPT ![t].pc = IF stop > Len(todo) THEN "found"
                                          ELSE IF Commitment[todo[stop]] \in memory THEN "get"
                                          ELSE "read",
                               ![t].todo = SubSeq(todo, stop, Len(todo)),
                               ![t].found = found]
    BY DEF Scan
  <1> DEFINE rest == SubSeq(todo, stop, Len(todo))
             pc == IF stop > Len(todo) THEN "found"
                   ELSE IF Commitment[todo[stop]] \in memory THEN "get" ELSE "read"
             k == [tk[t] EXCEPT !.pc = pc, !.todo = rest, !.found = found]
  <1>3. /\ rest \in Seq(Payments) /\ Len(rest) \in Nat /\ Len(rest) = Len(todo) - stop + 1
        /\ DOMAIN rest = 1 .. Len(rest)
        /\ \A i \in DOMAIN rest : stop + i - 1 \in DOMAIN todo /\ rest[i] = todo[stop + i - 1]
        /\ \A j \in DOMAIN todo : stop <= j =>
               j - stop + 1 \in DOMAIN rest /\ rest[j - stop + 1] = todo[j]
    BY RestOf
  <1>4. tk[t] \in Tick
    BY DEF IntakeTypeOK
  <1>5. tk' = [tk EXCEPT ![t] = k]
    BY <1>2
  <1> HIDE DEF rest
  <1>6. /\ k \in Tick
        /\ k.pc = pc /\ k.min = tk[t].min /\ k.todo = rest /\ k.found = found
    BY <1>3, <1>4 DEF Tick
  <1> HIDE DEF k
  <1>7. last' = IF todo # <<>> /\ at[todo[1]] > last THEN at[todo[1]] ELSE last
    BY <1>2, CursorOfPage
  <1>8. NewestFirst(rest)
    <2> SUFFICES ASSUME NEW i \in DOMAIN rest, NEW j \in DOMAIN rest
                 PROVE  at[rest[i]] # 0 /\ (i <= j => at[rest[j]] <= at[rest[i]])
      BY DEF NewestFirst
    <2>1. i <= j => stop + i - 1 <= stop + j - 1
      BY <1>1, <1>3
    <2> QED
      BY <1>3, <2>1 DEF NewestFirst
  <1>9. Range(rest) \subseteq Range(todo)
    BY <1>3 DEF Range
  <1>10. ASSUME NEW p \in Range(todo) \ Range(rest)
         PROVE  p \in done \/ Commitment[p] = Garbage
    <2>1. PICK i \in DOMAIN todo : p = todo[i]
      BY DEF Range
    <2>2. ~(stop <= i)
      BY <1>3, <2>1 DEF Range
    <2> QED
      BY <1>1, <1>2, <2>1, <2>2
  <1>11. \/ k.pc = "found" /\ k.todo = <<>>
         \/ k.pc \in {"get", "read"} /\ k.todo # <<>> /\ todo # <<>> /\ at[k.todo[1]] <= at[todo[1]]
    <2>1. CASE stop > Len(todo)
      BY <1>1, <1>3, <1>6, <2>1, EmptySeq
    <2>2. CASE stop <= Len(todo)
      <3>1. 1 \in DOMAIN rest /\ 1 \in DOMAIN todo /\ rest # <<>> /\ todo # <<>>
        BY <1>1, <1>3, <2>2, EmptySeq
      <3>2. stop + 1 - 1 \in DOMAIN todo /\ rest[1] = todo[stop + 1 - 1] /\ 1 <= stop + 1 - 1
        BY <1>1, <1>3, <3>1
      <3>3. at[rest[1]] <= at[todo[1]]
        BY <3>1, <3>2 DEF NewestFirst
      <3> QED
        BY <1>1, <1>6, <2>2, <3>1, <3>3
    <2> QED
      BY <1>1, <2>1, <2>2
  <1>12. k.pc = "get" => Commitment[k.todo[1]] \in Clients
    <2> SUFFICES ASSUME k.pc = "get"
                 PROVE  Commitment[k.todo[1]] \in Clients
      OBVIOUS
    <2>1. stop <= Len(todo) /\ Commitment[todo[stop]] \in memory
      BY <1>1, <1>6
    <2>2. stop \in DOMAIN todo /\ stop <= stop /\ stop - stop + 1 = 1
      BY <1>1, <2>1
    <2>3. rest[1] = todo[stop]
      BY <1>3, <2>2
    <2> QED
      BY <1>6, <2>1, <2>3 DEF IntakeTypeOK
  <1> QED
    BY <1>2, <1>5, <1>6, <1>7, <1>8, <1>9, <1>10, <1>11, <1>12 DEF Scanned

-----------------------------------------------------------------------------
(***************************************************************************)
(* The inductive invariant.                                                 *)
(***************************************************************************)

\* What a tick has in its hands, by where it is: payments it found are marked seen, and
\* the cursor is at the newest entry of the page from the first await of the loop on.
PlaceOK(k) ==
    /\ k.pc \in {"idle", "poll", "found", "load", "save", "write"} => k.todo = <<>>
    /\ k.pc \in {"idle", "poll", "page"} => k.found = <<>>
    /\ k.pc \in {"load", "save", "write"} => k.found # <<>>
    /\ k.pc \in {"get", "read"} => k.todo # <<>> /\ at[k.todo[1]] <= last
    /\ k.pc = "get" => Commitment[k.todo[1]] \in Clients
    /\ k.pc # "idle" => k.min <= last
    /\ Range(k.found) \subseteq seen
    /\ NewestFirst(k.todo)

\* A page on its way to the loop has all that the cursor is about to pass, whatever other
\* ticks did to the cursor meanwhile, but for what a full page has cut off.
PageWhole(k) ==
    k.pc = "page" /\ k.todo # <<>> =>
        \A p \in Payments : at[p] # 0 /\ last <= at[p] /\ at[p] < at[k.todo[1]] =>
                                p \in Range(k.todo) \cup cut

\* The payments a tick has in its hands.
HeldBy(k) == Range(k.todo) \cup Range(k.found)

\* CursorPassesNothing says nothing of a page that has yet to move the cursor, of what
\* the ledger is at, or of the file that an acknowledged registration has, truncated or not.
IntakeInv ==
    /\ tip > 0 /\ last <= tip + 1
    /\ \A p \in Payments : at[p] <= tip
    /\ acked \subseteq stored \cup torn
    /\ \A p \in owed : at[p] # 0 /\ Commitment[p] \in acked
    /\ ~up => owed = {} /\ \A t \in Ticks : tk[t] = Idle
    /\ \A t \in Ticks : PlaceOK(tk[t]) /\ PageWhole(tk[t])
    /\ CursorPassesNothing

\* The head of a sequence and what is behind it.
LEMMA HeadAndTail ==
  ASSUME NEW S, NEW s \in Seq(S), s # <<>>
  PROVE  /\ Head(s) \in S /\ Head(s) = s[1] /\ 1 \in DOMAIN s
         /\ Tail(s) \in Seq(S)
         /\ \A i \in DOMAIN Tail(s) : i \in Nat /\ i + 1 \in DOMAIN s /\ Tail(s)[i] = s[i + 1]
         /\ Range(s) = {Head(s)} \cup Range(Tail(s))
  <1>1. /\ Head(s) \in S /\ Tail(s) \in Seq(S) /\ Len(Tail(s)) = Len(s) - 1
        /\ \A i \in 1 .. Len(Tail(s)) : Tail(s)[i] = s[i + 1]
    BY HeadTailProperties
  <1>2. /\ Len(s) \in Nat \ {0} /\ DOMAIN s = 1 .. Len(s)
        /\ DOMAIN Tail(s) = 1 .. Len(Tail(s))
    BY <1>1, EmptySeq, LenProperties
  <1>3. Head(s) = s[1] /\ 1 \in DOMAIN s
    BY <1>2
  <1>4. ASSUME NEW i \in DOMAIN Tail(s)
        PROVE  i \in Nat /\ i + 1 \in DOMAIN s /\ Tail(s)[i] = s[i + 1]
    BY <1>1, <1>2
  <1>5. ASSUME NEW j \in DOMAIN s, j # 1
        PROVE  j - 1 \in DOMAIN Tail(s) /\ Tail(s)[j - 1] = s[j]
    <2>1. j - 1 \in 1 .. Len(Tail(s)) /\ (j - 1) + 1 = j
      BY <1>1, <1>2, <1>5
    <2>2. Tail(s)[j - 1] = s[(j - 1) + 1]
      BY <1>1, <2>1
    <2> QED
      BY <1>2, <2>1, <2>2
  <1>6. Range(s) = {Head(s)} \cup Range(Tail(s))
    <2>1. \A x \in Range(s) : x = Head(s) \/ x \in Range(Tail(s))
      BY <1>3, <1>5 DEF Range
    <2>2. \A x \in Range(Tail(s)) : x \in Range(s)
      BY <1>4 DEF Range
    <2> QED
      BY <1>3, <2>1, <2>2 DEF Range
  <1> QED
    BY <1>1, <1>3, <1>4, <1>6

\* What a sequence grows by.
LEMMA AppendRange ==
  ASSUME NEW S, NEW s \in Seq(S), NEW e \in S
  PROVE  Append(s, e) \in Seq(S) /\ Range(Append(s, e)) = Range(s) \cup {e}
  <1>1. /\ Append(s, e) \in Seq(S) /\ Len(Append(s, e)) = Len(s) + 1
        /\ \A i \in 1 .. Len(s) : Append(s, e)[i] = s[i]
        /\ Append(s, e)[Len(s) + 1] = e
    BY AppendProperties
  <1>2. /\ Len(s) \in Nat /\ DOMAIN s = 1 .. Len(s)
        /\ DOMAIN Append(s, e) = 1 .. Len(s) + 1
    BY <1>1, LenProperties
  <1>3. DOMAIN Append(s, e) = DOMAIN s \cup {Len(s) + 1}
    BY <1>2
  <1> QED
    BY <1>1, <1>2, <1>3 DEF Range

\* A step of one tick, given what it leaves the tick with and that the payments it lets
\* go of, and those the cursor moves past, are accounted for.
LEMMA TickStep ==
  ASSUME IntakeTypeOK, IntakeInv, NEW t \in Ticks, NEW k \in Tick, NEW l \in Nat,
         UNCHANGED <<at, tip, stored, torn, acked, owed, up>>, up,
         tk' = [tk EXCEPT ![t] = k],
         last' = l, last <= l, l <= tip + 1,
         seen \subseteq seen', cut \subseteq cut', unread \subseteq unread',
         PlaceOK(k)', PageWhole(k)',
         \A p \in owed : at[p] < l =>
             \/ p \in seen' \cup cut' \cup unread' \cup HeldBy(k)
             \/ \E u \in Ticks : u # t /\ p \in HeldBy(tk[u])
  PROVE  IntakeInv'
  <1>1. tk'[t] = k /\ \A u \in Ticks : u # t => tk'[u] = tk[u]
    BY DEF IntakeTypeOK
  <1>2. ASSUME NEW u \in Ticks, u # t
        PROVE  PlaceOK(tk[u])' /\ PageWhole(tk[u])'
    <2>1. tk'[u] = tk[u] /\ tk[u] \in Tick /\ PlaceOK(tk[u]) /\ PageWhole(tk[u])
      BY <1>1, <1>2 DEF IntakeInv, IntakeTypeOK
    <2>2. /\ last \in Nat /\ tk[u].min \in Nat
          /\ \A p \in Payments : at[p] \in Nat
      BY <2>1 DEF IntakeTypeOK, Tick
    <2>3. tk[u].todo # <<>> => tk[u].todo[1] \in Payments
      BY <2>1, HeadAndTail DEF Tick
    <2>4. PlaceOK(tk[u])'
      BY <2>1, <2>2, <2>3 DEF PlaceOK, NewestFirst
    <2>5. PageWhole(tk[u])'
      BY <2>1, <2>2, <2>3 DEF PageWhole
    <2> QED
      BY <2>4, <2>5
  <1>3. ASSUME NEW p \in owed, at[p] < l
        PROVE  p \in seen' \/ InHand(p)' \/ p \in cut' \/ p \in unread'
    BY <1>1, <1>3 DEF InHand, HeldBy
  <1>4. CursorPassesNothing'
    BY <1>3 DEF CursorPassesNothing
  <1>5. ASSUME NEW u \in Ticks
        PROVE  PlaceOK(tk[u])' /\ PageWhole(tk[u])'
    <2>1. CASE u = t
      BY <1>1, <2>1 DEF PlaceOK, PageWhole, NewestFirst
    <2> QED
      BY <1>2, <2>1
  <1>6. (tip > 0 /\ last <= tip + 1)' /\ (\A p \in Payments : at[p] <= tip)'
    BY DEF IntakeInv
  <1>7. (acked \subseteq stored \cup torn)' /\ (\A p \in owed : at[p] # 0 /\ Commitment[p] \in acked)'
    BY DEF IntakeInv
  <1> QED
    BY <1>4, <1>5, <1>6, <1>7 DEF IntakeInv

\* The same for a step that moves neither the cursor nor what was reported.
LEMMA QuietStep ==
  ASSUME IntakeTypeOK, IntakeInv, NEW t \in Ticks, NEW k \in Tick,
         UNCHANGED <<at, tip, stored, torn, acked, owed, up, last, seen, unread>>, up,
         tk' = [tk EXCEPT ![t] = k],
         cut \subseteq cut',
         PlaceOK(k), PageWhole(k)',
         HeldBy(tk[t]) \subseteq HeldBy(k) \cup seen
  PROVE  IntakeInv'
  <1>1. PlaceOK(k)'
    BY DEF PlaceOK, NewestFirst
  <1>2. last \in Nat /\ last <= last /\ last <= tip + 1
    BY DEF IntakeInv, IntakeTypeOK
  <1>3. ASSUME NEW p \in owed, at[p] < last
        PROVE  \/ p \in seen' \cup cut' \cup unread' \cup HeldBy(k)
               \/ \E u \in Ticks : u # t /\ p \in HeldBy(tk[u])
    <2>1. p \in seen \/ p \in cut \/ p \in unread \/ \E u \in Ticks : p \in HeldBy(tk[u])
      BY <1>3 DEF IntakeInv, CursorPassesNothing, InHand, HeldBy
    <2> QED
      BY <2>1
  <1> QED
    BY <1>1, <1>2, <1>3, TickStep

\* A tick that moves, or has something in hand, belongs to a service that runs.
LEMMA BusyIsUp ==
  ASSUME IntakeInv, NEW t \in Ticks, tk[t].pc # "idle"
  PROVE  up
  BY DEF IntakeInv, Idle

\* A tick that asks for a page asks from the cursor on.
LEMMA PollSendsKeeps ==
  ASSUME IntakeTypeOK, IntakeInv, NEW t \in Ticks, PollSends(t)
  PROVE  IntakeTypeOK' /\ IntakeInv'
  <1> USE DEF ledgerVars, storeVars, watchVars, jobVars, histVars
  <1>1. PICK k \in Tick : /\ tk' = [tk EXCEPT ![t] = k]
                          /\ k.pc = "poll" /\ k.min = last /\ k.todo = <<>> /\ k.found = <<>>
    <2> DEFINE new == [Idle EXCEPT !.pc = "poll", !.min = last]
    <2>1. /\ new \in Tick
          /\ new.pc = "poll" /\ new.min = last /\ new.todo = <<>> /\ new.found = <<>>
      BY EmptySeq DEF Idle, Tick, IntakeTypeOK
    <2>2. tk' = [tk EXCEPT ![t] = new]
      BY DEF PollSends
    <2> HIDE DEF new
    <2> QED
      BY <2>1, <2>2
  <1>2. up /\ tk[t].pc = "idle"
    BY DEF PollSends
  <1>3. UNCHANGED <<at, tip, memory, stored, torn, writing, acked, up, last, seen, jobVars,
                    faults, dropped, cut, unread, owed>>
    BY DEF PollSends
  <1>4. Range(<<>>) = {} /\ NewestFirst(<<>>) /\ last <= last
    BY DEF Range, NewestFirst, IntakeTypeOK
  <1>5. PlaceOK(k) /\ PageWhole(k)'
    BY <1>1, <1>4 DEF PlaceOK, PageWhole
  <1>6. HeldBy(tk[t]) = {}
    BY <1>2, <1>4 DEF IntakeInv, PlaceOK, HeldBy
  <1>7. IntakeInv'
    BY <1>1, <1>2, <1>3, <1>5, <1>6, QuietStep
  <1>8. IntakeTypeOK'
    BY <1>1, <1>2, <1>3 DEF IntakeTypeOK
  <1> QED
    BY <1>7, <1>8

\* What account_tx may answer.
LEMMA PageOfWindow ==
  ASSUME IntakeTypeOK, NEW min \in Nat, NEW max \in Nat,
         NEW page \in SeqOf(Window(min, max), Limit), IsPage(page, Window(min, max))
  PROVE  /\ page \in Seq(Payments) /\ NewestFirst(page)
         /\ Range(page) \subseteq Window(min, max)
  <1> DEFINE W == Window(min, max)
  <1>1. PICK m \in 0 .. Limit : page \in [1 .. m -> W]
    BY DEF SeqOf
  <1>2. m \in Nat
    OBVIOUS
  <1>3. page \in Seq(W) /\ DOMAIN page = 1 .. m
    BY <1>1, <1>2, SeqDef
  <1>4. W \subseteq Payments
    BY DEF Window
  <1>5. page \in Seq(Payments)
    BY <1>3, <1>4, SeqMonotonic
  <1>6. \A i \in DOMAIN page : page[i] \in W
    BY <1>1
  <1>7. NewestFirst(page)
    <2> SUFFICES ASSUME NEW i \in DOMAIN page, NEW j \in DOMAIN page
                 PROVE  at[page[i]] # 0 /\ (i <= j => at[page[j]] <= at[page[i]])
      BY DEF NewestFirst
    <2>1. at[page[i]] \in Nat \ {0} /\ at[page[j]] \in Nat /\ page[i] \in Payments
      BY <1>6 DEF Window, IntakeTypeOK
    <2>2. CASE i < j
      BY <2>1, <2>2 DEF IsPage, Newer
    <2>3. CASE ~(i < j)
      <3>1. i <= j => i = j
        BY <1>2, <1>3, <2>3
      <3> QED
        BY <2>1, <3>1
    <2> QED
      BY <2>2, <2>3
  <1> QED
    BY <1>5, <1>6, <1>7 DEF Range

\* The page has every payment that the cursor is about to pass, or remembers it as cut.
LEMMA XrplAnswersKeeps ==
  ASSUME IntakeTypeOK, IntakeInv, NEW t \in Ticks, NEW lag \in {0, 1}, XrplAnswers(t, lag)
  PROVE  IntakeTypeOK' /\ IntakeInv'
  <1> USE DEF ledgerVars, storeVars, watchVars, jobVars, histVars
  <1>1. /\ tk[t] \in Tick /\ tk[t].pc = "poll" /\ up
        /\ tk[t].todo = <<>> /\ tk[t].found = <<>> /\ tk[t].min <= last
    BY BusyIsUp DEF XrplAnswers, IntakeTypeOK, IntakeInv, PlaceOK
  <1>2. PICK min \in Nat, max \in Nat : min = tk[t].min /\ max = tip - lag
    BY <1>1 DEF Tick, IntakeTypeOK, IntakeInv
  <1>3. PICK page \in SeqOf(Window(min, max), Limit) :
           /\ IsPage(page, Window(min, max))
           /\ tk' = [tk EXCEPT ![t].pc = "page", ![t].todo = page]
           /\ cut' = cut \cup (Window(min, max) \ Range(page))
    BY <1>2 DEF XrplAnswers
  <1>4. page \in Seq(Payments) /\ NewestFirst(page) /\ Range(page) \subseteq Window(min, max)
    BY <1>3, PageOfWindow
  <1>5. PICK k \in Tick : /\ tk' = [tk EXCEPT ![t] = k]
                          /\ k.pc = "page" /\ k.min = min /\ k.todo = page /\ k.found = <<>>
    <2> DEFINE new == [tk[t] EXCEPT !.pc = "page", !.todo = page]
    <2>1. /\ new \in Tick
          /\ new.pc = "page" /\ new.min = min /\ new.todo = page /\ new.found = <<>>
      BY <1>1, <1>2, <1>4 DEF Tick
    <2>2. tk' = [tk EXCEPT ![t] = new]
      BY <1>3
    <2> HIDE DEF new
    <2> QED
      BY <2>1, <2>2
  <1>6. UNCHANGED <<at, tip, memory, stored, torn, writing, acked, up, last, seen, jobVars,
                    faults, dropped, unread, owed>>
    BY DEF XrplAnswers
  <1>7. PlaceOK(k)
    BY <1>1, <1>2, <1>4, <1>5 DEF PlaceOK, Range
  <1>8. PageWhole(k)'
    <2> SUFFICES ASSUME page # <<>>, NEW p \in Payments,
                        at[p] # 0, last <= at[p], at[p] < at[page[1]]
                 PROVE  p \in Range(page) \/ p \in cut'
      BY <1>5, <1>6 DEF PageWhole
    <2>1. page[1] \in Window(min, max)
      BY <1>4, HeadAndTail DEF Range
    <2>2. /\ at[page[1]] \in Nat /\ at[page[1]] <= max
          /\ last \in Nat /\ min <= last /\ at[p] \in Nat
      BY <1>1, <1>2, <2>1 DEF Window, IntakeTypeOK
    <2>3. p \in Window(min, max)
      BY <2>2 DEF Window
    <2> QED
      BY <1>3, <2>3
  <1>9. cut \subseteq cut' /\ cut' \subseteq Payments
    BY <1>3 DEF Window, IntakeTypeOK
  <1>10. HeldBy(tk[t]) \subseteq HeldBy(k) \cup seen
    BY <1>1 DEF HeldBy, Range
  <1>11. IntakeInv'
    BY <1>1, <1>5, <1>6, <1>7, <1>8, <1>9, <1>10, QuietStep
  <1>12. IntakeTypeOK'
    BY <1>5, <1>6, <1>9 DEF IntakeTypeOK
  <1> QED
    BY <1>11, <1>12

\* Past the loop a tick only has what it found, all of it marked seen.
LEMMA TakingOn ==
  ASSUME IntakeTypeOK, IntakeInv, NEW t \in Ticks, NEW k \in Tick,
         tk[t].pc \in {"poll", "found", "load", "save", "write"},
         UNCHANGED <<ledgerVars, storeVars, watchVars, up, cut, unread, owed>>,
         tk' = [tk EXCEPT ![t] = k],
         k.pc \in {"idle", "found", "load", "save", "write"},
         k.todo = <<>>, k.pc = "idle" \/ k.min = tk[t].min,
         Range(k.found) \subseteq Range(tk[t].found),
         k.pc = "idle" => k.found = <<>>,
         k.pc \in {"load", "save", "write"} => k.found # <<>>
  PROVE  IntakeInv'
  <1> USE DEF ledgerVars, storeVars, watchVars
  <1>1. PlaceOK(tk[t]) /\ up
    BY BusyIsUp DEF IntakeInv
  <1>2. PlaceOK(k)
    BY <1>1 DEF PlaceOK, NewestFirst
  <1>3. PageWhole(k)'
    BY DEF PageWhole
  <1>4. HeldBy(tk[t]) \subseteq HeldBy(k) \cup seen
    BY <1>1 DEF PlaceOK, HeldBy, Range
  <1> QED
    BY <1>1, <1>2, <1>3, <1>4, QuietStep

\* poll() has thrown, or create() has: the tick is over.
LEMMA FailsKeeps ==
  ASSUME IntakeTypeOK, IntakeInv, NEW t \in Ticks, PollFails(t) \/ CreateFails(t)
  PROVE  IntakeTypeOK' /\ IntakeInv'
  <1> USE DEF ledgerVars, storeVars, watchVars, jobVars, histVars
  <1>1. Idle \in Tick /\ Idle.pc = "idle" /\ Idle.todo = <<>> /\ Idle.found = <<>>
    BY EmptySeq DEF Idle, Tick
  <1>2. /\ tk' = [tk EXCEPT ![t] = Idle] /\ tk[t].pc \in {"poll", "save", "write"}
        /\ UNCHANGED <<ledgerVars, storeVars, watchVars, up, cut, unread, owed, jobVars>>
        /\ faults' = faults + 1
        /\ dropped' \in {dropped, dropped \cup Range(tk[t].found)}
    BY DEF PollFails, CreateFails, Inject
  <1>3. Range(tk[t].found) \subseteq Payments
    BY RangeOfSeq DEF IntakeTypeOK, Tick
  <1>4. IntakeInv'
    <2>1. Range(Idle.found) \subseteq Range(tk[t].found)
      BY <1>1 DEF Range
    <2>2. tk[t].pc \in {"poll", "found", "load", "save", "write"}
      BY <1>2
    <2>3. UNCHANGED <<ledgerVars, storeVars, watchVars, up, cut, unread, owed>>
      BY <1>2
    <2> QED
      BY <1>1, <1>2, <2>1, <2>2, <2>3, TakingOn
  <1>5. IntakeTypeOK'
    BY <1>1, <1>2, <1>3 DEF IntakeTypeOK
  <1> QED
    BY <1>4, <1>5

\* The steps of create() take a payment from the tick to #live, or lose it by a fault.
LEMMA TakesOnKeeps ==
  ASSUME IntakeTypeOK, IntakeInv, NEW t \in Ticks, TakesOn(t)
  PROVE  IntakeTypeOK' /\ IntakeInv'
  <1> USE DEF ledgerVars, storeVars, watchVars, jobVars, histVars
  <1> DEFINE D == tk[t]
  <1>1. /\ D \in Tick /\ D.pc \in {"found", "load", "save", "write"} /\ D.todo = <<>>
        /\ D.found \in Seq(Payments)
        /\ D.pc # "found" => D.found # <<>>
    BY DEF TakesOn, TakeOn, CreateLoads, CreateOpens, CreateSaves, IntakeTypeOK, IntakeInv, PlaceOK, Tick
  <1>2. D.found # <<>> => /\ Head(D.found) \in Payments /\ Tail(D.found) \in Seq(Payments)
                          /\ Range(Tail(D.found)) \subseteq Range(D.found)
    BY <1>1, HeadAndTail
  <1>3. PICK k \in Tick :
           /\ tk' = [tk EXCEPT ![t] = k]
           /\ k.pc \in {"idle", "found", "load", "save", "write"}
           /\ k.todo = <<>> /\ (k.pc = "idle" \/ k.min = D.min)
           /\ Range(k.found) \subseteq Range(D.found)
           /\ k.pc = "idle" => k.found = <<>>
           /\ k.pc \in {"load", "save", "write"} => k.found # <<>>
    <2>1. Idle \in Tick /\ Idle.pc = "idle" /\ Idle.todo = <<>> /\ Idle.found = <<>>
      BY EmptySeq DEF Idle, Tick
    <2>2. ASSUME NEW pc \in {"load", "save", "write"}
          PROVE  LET k == [D EXCEPT !.pc = pc] IN
                 k \in Tick /\ k.pc = pc /\ k.todo = <<>> /\ k.min = D.min /\ k.found = D.found
      BY <1>1 DEF Tick
    <2>3. ASSUME D.found # <<>>
          PROVE  LET k == [D EXCEPT !.pc = "found", !.found = Tail(@)] IN
                 /\ k \in Tick /\ k.pc = "found" /\ k.todo = <<>> /\ k.min = D.min
                 /\ k.found = Tail(D.found)
      BY <1>1, <1>2, <2>3 DEF Tick
    <2>4. ASSUME D.found # <<>>, D.pc = "found"
          PROVE  LET k == [D EXCEPT !.found = Tail(@)] IN
                 /\ k \in Tick /\ k.pc = "found" /\ k.todo = <<>> /\ k.min = D.min
                 /\ k.found = Tail(D.found)
      BY <1>1, <1>2, <2>4 DEF Tick
    <2>5. CASE TakeOn(t) /\ D.found = <<>>
      BY <2>1, <2>5 DEF TakeOn, Range
    <2>6. CASE TakeOn(t) /\ D.found # <<>> /\ Head(D.found) \in live
      BY <1>2, <2>4, <2>6 DEF TakeOn
    <2>7. CASE TakeOn(t) /\ D.found # <<>> /\ Head(D.found) \notin live
      BY <2>2, <2>7 DEF TakeOn
    <2>8. CASE CreateLoads(t) /\ Head(D.found) \notin jobs
      BY <1>1, <2>2, <2>8 DEF CreateLoads
    <2>9. CASE (CreateLoads(t) /\ Head(D.found) \in jobs) \/ CreateSaves(t)
      BY <1>1, <1>2, <2>3, <2>9 DEF CreateLoads, CreateSaves
    <2>10. CASE CreateOpens(t)
      BY <1>1, <2>2, <2>10 DEF CreateOpens
    <2> QED
      BY <2>5, <2>6, <2>7, <2>8, <2>9, <2>10 DEF TakesOn
  <1>4. /\ UNCHANGED <<ledgerVars, storeVars, watchVars, up, cut, unread, owed, dropped, faults,
                       saving, ruined>>
        /\ live' \subseteq Payments /\ jobs' \subseteq Payments /\ begun' \in [Payments -> Nat]
    <2>1. CASE TakeOn(t) \/ CreateOpens(t)
      BY <2>1 DEF TakeOn, CreateOpens, IntakeTypeOK
    <2>2. CASE CreateLoads(t)
      BY <1>1, <1>2, <2>2 DEF CreateLoads, IntakeTypeOK
    <2>3. CASE CreateSaves(t)
      <3>1. Head(D.found) \in Payments
        BY <1>1, <1>2, <2>3 DEF CreateSaves
      <3>2. begun' = [begun EXCEPT ![Head(D.found)] = @ + 1] /\ begun \in [Payments -> Nat]
        BY <2>3 DEF CreateSaves, IntakeTypeOK
      <3>3. begun' \in [Payments -> Nat]
        BY <3>1, <3>2
      <3> QED
        BY <2>3, <3>1, <3>3 DEF CreateSaves, IntakeTypeOK
    <2> QED
      BY <2>1, <2>2, <2>3 DEF TakesOn
  <1>5. IntakeInv'
    BY <1>1, <1>3, <1>4, TakingOn
  <1>6. IntakeTypeOK'
    BY <1>3, <1>4 DEF IntakeTypeOK
  <1> QED
    BY <1>5, <1>6

\* The loop keeps the invariant if what it moves the cursor past is in the page it has, or
\* was cut off, and what it has let go of is of no user.
LEMMA ScanKeeps ==
  ASSUME IntakeTypeOK, IntakeInv, NEW t \in Ticks, up, tk[t].min <= last,
         NEW todo \in Seq(Payments), NEW found \in Seq(Payments), NEW done \in SUBSET Payments,
         NewestFirst(todo), Range(found) \subseteq done, seen \subseteq done,
         Scan(t, todo, found, done),
         UNCHANGED <<at, tip, stored, torn, acked, owed, up, cut>>, unread \subseteq unread',
         \A p \in owed \cap HeldBy(tk[t]) : p \in Range(todo) \cup Range(found) \cup done \cup unread',
         todo # <<>> => \A p \in owed : last <= at[p] /\ at[p] < at[todo[1]] =>
                                            p \in Range(todo) \cup cut
  PROVE  /\ IntakeInv'
         /\ tk' \in [Ticks -> Tick] /\ last' \in Nat /\ seen' \subseteq Payments
  <1>1. PICK k \in Tick : Scanned(t, todo, found, done, k)
    BY ScanMoves
  <1>2. /\ last \in Nat /\ tip \in Nat /\ last <= tip + 1
        /\ \A p \in Payments : at[p] \in Nat /\ at[p] <= tip
        /\ owed \subseteq Payments
    BY DEF IntakeTypeOK, IntakeInv
  <1>3. todo # <<>> => todo[1] \in Payments /\ at[todo[1]] \in Nat /\ at[todo[1]] <= tip
    BY <1>2, HeadAndTail
  <1>4. k.todo # <<>> => k.todo[1] \in Payments /\ at[k.todo[1]] \in Nat
    BY <1>2, HeadAndTail DEF Tick
  <1>5. PICK l \in Nat : /\ l = (IF todo # <<>> /\ at[todo[1]] > last THEN at[todo[1]] ELSE last)
                         /\ last <= l /\ l <= tip + 1
    BY <1>2, <1>3
  <1>6. /\ last' = l /\ seen' = done /\ tk' = [tk EXCEPT ![t] = k]
        /\ k.min = tk[t].min /\ k.found = found
    BY <1>1, <1>5 DEF Scanned
  <1>7. PlaceOK(k)'
    <2>1. k.pc \in {"get", "read"} => at[k.todo[1]] <= l
      <3>1. k.pc \in {"get", "read"} => todo # <<>> /\ k.todo # <<>> /\ at[k.todo[1]] <= at[todo[1]]
        BY <1>1 DEF Scanned
      <3>2. todo # <<>> => at[todo[1]] <= l
        BY <1>2, <1>3, <1>5
      <3> QED
        BY <1>3, <1>4, <3>1, <3>2
    <2>2. k.min <= l /\ Range(k.found) \subseteq done
      BY <1>2, <1>5, <1>6 DEF Tick
    <2>3. NewestFirst(k.todo)'
      BY <1>1 DEF Scanned, NewestFirst
    <2>4. /\ k.pc \in {"found", "get", "read"} /\ (k.pc = "found" => k.todo = <<>>)
          /\ k.pc \in {"get", "read"} => k.todo # <<>>
          /\ k.pc = "get" => Commitment[k.todo[1]] \in Clients
      BY <1>1 DEF Scanned
    <2> QED
      BY <1>6, <2>1, <2>2, <2>3, <2>4 DEF PlaceOK
  <1>8. PageWhole(k)'
    BY <1>1 DEF Scanned, PageWhole
  <1>9. ASSUME NEW p \in owed, at[p] < l
        PROVE  \/ p \in seen' \cup cut' \cup unread' \cup HeldBy(k)
               \/ \E u \in Ticks : u # t /\ p \in HeldBy(tk[u])
    <2>1. p \in Range(todo) \cup Range(found) => p \in done \cup HeldBy(k)
      <3>1. Commitment[p] # Garbage
        BY IntakeAssumption DEF IntakeAssumption, IntakeInv, IntakeTypeOK
      <3> QED
        BY <1>1, <1>6, <3>1 DEF Scanned, HeldBy
    <2>2. CASE at[p] < last
      <3>1. p \in seen \/ p \in cut \/ p \in unread \/ \E u \in Ticks : p \in HeldBy(tk[u])
        BY <2>2 DEF IntakeInv, CursorPassesNothing, InHand, HeldBy
      <3>2. p \in HeldBy(tk[t]) => p \in Range(todo) \cup Range(found) \cup done \cup unread'
        OBVIOUS
      <3> QED
        BY <1>6, <2>1, <3>1, <3>2
    <2>3. CASE ~(at[p] < last)
      <3>1. last <= at[p] /\ todo # <<>> /\ at[p] < at[todo[1]]
        BY <1>2, <1>5, <1>9, <2>3
      <3>2. p \in Range(todo) \cup cut
        BY <3>1
      <3> QED
        BY <1>6, <2>1, <3>2
    <2> QED
      BY <2>2, <2>3
  <1>10. IntakeInv'
    BY <1>5, <1>6, <1>7, <1>8, <1>9, TickStep
  <1>11. tk' \in [Ticks -> Tick]
    BY <1>6 DEF IntakeTypeOK
  <1> QED
    BY <1>5, <1>6, <1>10, <1>11

\* The cursor moves over the page, which the tick holds from then on.
LEMMA PageArrivesKeeps ==
  ASSUME IntakeTypeOK, IntakeInv, NEW t \in Ticks, PageArrives(t)
  PROVE  IntakeTypeOK' /\ IntakeInv'
  <1> USE DEF ledgerVars, storeVars, watchVars, jobVars, histVars
  <1>1. /\ tk[t] \in Tick /\ tk[t].pc = "page" /\ up
        /\ tk[t].todo \in Seq(Payments) /\ NewestFirst(tk[t].todo)
        /\ tk[t].found = <<>> /\ tk[t].min <= last /\ PageWhole(tk[t])
    BY BusyIsUp DEF PageArrives, IntakeTypeOK, IntakeInv, PlaceOK, Tick
  <1>2. PICK todo \in Seq(Payments) : todo = tk[t].todo
    BY <1>1
  <1>3. PICK done \in SUBSET Payments : done = seen
    BY DEF IntakeTypeOK
  <1>4. Scan(t, todo, <<>>, done)
    BY <1>2, <1>3 DEF PageArrives
  <1>5. UNCHANGED <<at, tip, memory, stored, torn, writing, acked, up, jobVars,
                    faults, dropped, cut, unread, owed>>
    BY DEF PageArrives
  <1>6. <<>> \in Seq(Payments) /\ Range(<<>>) = {}
    BY EmptySeq DEF Range
  <1>7. \A p \in owed \cap HeldBy(tk[t]) : p \in Range(todo) \cup Range(<<>>) \cup done \cup unread'
    BY <1>1, <1>2 DEF HeldBy
  <1>8. todo # <<>> => \A p \in owed : last <= at[p] /\ at[p] < at[todo[1]] =>
                                           p \in Range(todo) \cup cut
    BY <1>1, <1>2 DEF PageWhole, IntakeInv, IntakeTypeOK
  <1>9. /\ IntakeInv'
        /\ tk' \in [Ticks -> Tick] /\ last' \in Nat /\ seen' \subseteq Payments
    BY <1>1, <1>2, <1>3, <1>4, <1>5, <1>6, <1>7, <1>8, ScanKeeps
  <1>10. IntakeTypeOK'
    BY <1>5, <1>9 DEF IntakeTypeOK
  <1> QED
    BY <1>9, <1>10

\* The store's answer puts the payment among the found or drops one it knows nothing of.
LEMMA GetReturnsKeeps ==
  ASSUME IntakeTypeOK, IntakeInv, NEW t \in Ticks, GetReturns(t)
  PROVE  IntakeTypeOK' /\ IntakeInv'
  <1> USE DEF ledgerVars, storeVars, watchVars, jobVars, histVars
  <1>1. /\ tk[t] \in Tick /\ tk[t].pc \in {"get", "read"} /\ up
        /\ tk[t].pc = "get" => Commitment[tk[t].todo[1]] \in Clients
        /\ tk[t].todo \in Seq(Payments) /\ tk[t].todo # <<>> /\ NewestFirst(tk[t].todo)
        /\ tk[t].found \in Seq(Payments) /\ Range(tk[t].found) \subseteq seen
        /\ tk[t].min <= last /\ at[tk[t].todo[1]] <= last
    BY BusyIsUp DEF GetReturns, IntakeTypeOK, IntakeInv, PlaceOK, Tick
  <1>2. PICK p \in Payments, todo \in Seq(Payments) : p = Head(tk[t].todo) /\ todo = Tail(tk[t].todo)
    BY <1>1, HeadAndTail
  <1>3. /\ p = tk[t].todo[1] /\ 1 \in DOMAIN tk[t].todo
        /\ \A i \in DOMAIN todo : i \in Nat /\ i + 1 \in DOMAIN tk[t].todo
                                  /\ todo[i] = tk[t].todo[i + 1]
        /\ Range(tk[t].todo) = {p} \cup Range(todo)
    BY <1>1, <1>2, HeadAndTail
  <1>4. /\ UNCHANGED <<at, tip, stored, torn, writing, acked, up, jobVars,
                       faults, dropped, cut, owed>>
        /\ unread \subseteq unread' /\ unread' \subseteq unread \cup {p}
    BY <1>2 DEF GetReturns
  <1>5. NewestFirst(todo)
    <2> SUFFICES ASSUME NEW i \in DOMAIN todo, NEW j \in DOMAIN todo
                 PROVE  at[todo[i]] # 0 /\ (i <= j => at[todo[j]] <= at[todo[i]])
      BY DEF NewestFirst
    <2>1. i + 1 \in DOMAIN tk[t].todo /\ j + 1 \in DOMAIN tk[t].todo /\ (i <= j => i + 1 <= j + 1)
      BY <1>3
    <2> QED
      BY <1>1, <1>3, <2>1 DEF NewestFirst
  <1>6. todo # <<>> => at[todo[1]] <= last
    <2> SUFFICES ASSUME todo # <<>>
                 PROVE  at[todo[1]] <= last
      OBVIOUS
    <2>1. 1 \in DOMAIN todo /\ todo[1] \in Payments
      BY HeadAndTail
    <2>2. 1 + 1 \in DOMAIN tk[t].todo /\ todo[1] = tk[t].todo[1 + 1] /\ 1 <= 1 + 1
      BY <1>3, <2>1
    <2>3. at[todo[1]] <= at[p]
      BY <1>1, <1>3, <2>2 DEF NewestFirst
    <2>4. at[todo[1]] \in Nat /\ at[p] \in Nat /\ last \in Nat
      BY <2>1 DEF IntakeTypeOK
    <2> QED
      BY <1>1, <1>3, <2>3, <2>4
  <1>7. todo # <<>> => \A q \in owed : last <= at[q] /\ at[q] < at[todo[1]] =>
                                           q \in Range(todo) \cup cut
    <2> SUFFICES ASSUME todo # <<>>, NEW q \in owed, last <= at[q], at[q] < at[todo[1]]
                 PROVE  FALSE
      OBVIOUS
    <2>1. at[todo[1]] \in Nat /\ at[q] \in Nat /\ last \in Nat
      BY HeadAndTail DEF IntakeTypeOK
    <2> QED
      BY <1>6, <2>1
  <1>8. CASE Answers(t)
    <2>1. PICK found \in Seq(Payments), done \in SUBSET Payments :
             found = Append(tk[t].found, p) /\ done = seen \cup {p}
      BY <1>1, AppendRange DEF IntakeTypeOK
    <2>2. Range(found) = Range(tk[t].found) \cup {p}
      BY <1>1, <2>1, AppendRange
    <2>3. Scan(t, todo, found, done) /\ memory' = memory \cup {Commitment[p]}
      BY <1>2, <1>8, <2>1 DEF GetReturns
    <2>4. \A q \in owed \cap HeldBy(tk[t]) : q \in Range(todo) \cup Range(found) \cup done \cup unread'
      BY <1>3, <2>1, <2>2 DEF HeldBy
    <2>5. Range(found) \subseteq done /\ seen \subseteq done
      BY <1>1, <2>1, <2>2
    <2>6. /\ IntakeInv'
          /\ tk' \in [Ticks -> Tick] /\ last' \in Nat /\ seen' \subseteq Payments
      BY <1>1, <1>4, <1>5, <1>7, <2>3, <2>4, <2>5, ScanKeeps
    <2>7. memory' \subseteq Clients
      BY <1>1, <1>2, <1>3, <1>8, <2>3 DEF Answers, IntakeTypeOK
    <2>8. unread' \subseteq Payments
      BY <1>4 DEF IntakeTypeOK
    <2> QED
      BY <1>4, <2>6, <2>7, <2>8 DEF IntakeTypeOK
  <1>9. CASE ~Answers(t)
    <2>1. PICK found \in Seq(Payments), done \in SUBSET Payments : found = tk[t].found /\ done = seen
      BY <1>1 DEF IntakeTypeOK
    <2>2. Scan(t, todo, found, done) /\ memory' = memory
      BY <1>2, <1>9, <2>1 DEF GetReturns
    <2>3. p \in owed => p \in unread'
      <3>1. p \in owed => Commitment[p] \in acked \cap torn
        BY <1>2, <1>9 DEF Answers, IntakeInv
      <3> QED
        BY <1>2, <1>9, <3>1 DEF GetReturns
    <2>4. \A q \in owed \cap HeldBy(tk[t]) : q \in Range(todo) \cup Range(found) \cup done \cup unread'
      BY <1>3, <2>1, <2>3 DEF HeldBy
    <2>5. /\ IntakeInv'
          /\ tk' \in [Ticks -> Tick] /\ last' \in Nat /\ seen' \subseteq Payments
      BY <1>1, <1>4, <1>5, <1>7, <2>1, <2>2, <2>4, ScanKeeps
    <2>6. unread' \subseteq Payments
      BY <1>4 DEF IntakeTypeOK
    <2> QED
      BY <1>4, <2>2, <2>5, <2>6 DEF IntakeTypeOK
  <1> QED
    BY <1>8, <1>9

\* Nothing that the invariant says of a tick moves.
LEMMA TicksRest ==
  ASSUME IntakeInv, UNCHANGED <<at, last, seen, cut, tk>>
  PROVE  \A t \in Ticks : PlaceOK(tk[t])' /\ PageWhole(tk[t])'
  BY DEF IntakeInv, PlaceOK, PageWhole, NewestFirst

\* A tick that is idle has nothing in hand, wherever the cursor and the ledger are.
LEMMA IdleIsOK == PlaceOK(Idle) /\ PageWhole(Idle) /\ PlaceOK(Idle)' /\ PageWhole(Idle)'
  <1>1. Range(<<>>) = {} /\ NewestFirst(<<>>) /\ NewestFirst(<<>>)'
    BY DEF Range, NewestFirst
  <1> QED
    BY <1>1 DEF PlaceOK, PageWhole, Idle

\* What happens around the ticks in the store, and in the files of the live jobs.
StoreStep == \E c \in Clients : Register(c) \/ RegisterOpens(c) \/ Registered(c) \/ RegisterFails(c)
FileStep  == \E p \in Payments : JobOpens(p) \/ JobSaved(p) \/ JobSaveFails(p) \/ JobEnds(p)

\* The store and the jobs change around the ticks.
LEMMA StoreKeeps ==
  ASSUME IntakeTypeOK, IntakeInv, StoreStep \/ FileStep
  PROVE  IntakeTypeOK' /\ IntakeInv'
  <1> USE DEF ledgerVars, storeVars, watchVars, jobVars, histVars
  <1>1. UNCHANGED <<at, tip, last, seen, cut, unread, tk, up, begun, dropped>>
    BY DEF StoreStep, FileStep, Register, RegisterOpens, Registered, RegisterFails,
           JobOpens, JobSaved, JobSaveFails, JobEnds
  <1>2. \A t \in Ticks : PlaceOK(tk[t])' /\ PageWhole(tk[t])'
    BY <1>1, TicksRest
  <1>3. /\ acked' \subseteq stored' \cup torn' /\ acked \subseteq acked'
        /\ up \/ owed' = owed
        /\ owed' \subseteq Payments
        /\ \A p \in owed' : p \in owed \/ (at[p] # 0 /\ at[p] >= last /\ Commitment[p] \in acked')
        /\ faults' \in {faults, faults + 1}
        /\ memory' \subseteq Clients /\ stored' \subseteq Clients /\ torn' \subseteq Clients
        /\ writing' \subseteq Clients /\ acked' \subseteq Clients
        /\ live' \subseteq Payments /\ jobs' \subseteq Payments /\ saving' \subseteq Payments
        /\ ruined' \in [Payments -> Nat]
    <2>1. CASE StoreStep
      BY <2>1 DEF StoreStep, Register, RegisterOpens, Registered, RegisterFails, Inject, Ahead,
                  IntakeTypeOK, IntakeInv
    <2>2. CASE FileStep
      BY <2>2 DEF FileStep, JobOpens, JobSaved, JobSaveFails, JobEnds, Inject,
                  IntakeTypeOK, IntakeInv
    <2> QED
      BY <2>1, <2>2
  <1>4. ASSUME NEW p \in owed', at[p] < last
        PROVE  p \in seen' \/ InHand(p)' \/ p \in cut' \/ p \in unread'
    <2>1. p \in owed
      BY <1>3, <1>4 DEF IntakeTypeOK
    <2> QED
      BY <1>1, <1>4, <2>1 DEF IntakeInv, CursorPassesNothing, InHand
  <1>5. CursorPassesNothing'
    BY <1>1, <1>4 DEF CursorPassesNothing
  <1>6. IntakeInv'
    BY <1>1, <1>2, <1>3, <1>5 DEF IntakeInv
  <1>7. IntakeTypeOK'
    BY <1>1, <1>3 DEF IntakeTypeOK
  <1> QED
    BY <1>6, <1>7

\* The payments of the ledger that closes are newer than any page.
LEMMA LedgerKeeps ==
  ASSUME IntakeTypeOK, IntakeInv, NEW new \in SUBSET Payments, LedgerCloses(new)
  PROVE  IntakeTypeOK' /\ IntakeInv'
  <1> USE DEF ledgerVars, storeVars, watchVars, jobVars, histVars
  <1>1. /\ UNCHANGED <<memory, stored, torn, writing, acked, up, last, seen, tk, jobVars,
                       faults, dropped, cut, unread>>
        /\ tip' = tip + 1
        /\ owed' = owed \cup {p \in new : up /\ Commitment[p] \in acked}
    BY DEF LedgerCloses
  <1>2. /\ tip \in Nat /\ last \in Nat /\ last <= tip + 1
        /\ \A p \in Payments : at[p] \in Nat /\ at[p] <= tip
    BY DEF IntakeTypeOK, IntakeInv
  <1>3. \A p \in Payments : /\ at'[p] = IF p \in new THEN tip + 1 ELSE at[p]
                            /\ at[p] # 0 => at'[p] = at[p]
    BY DEF LedgerCloses
  <1>4. at' \in [Payments -> Nat]
    BY <1>2 DEF LedgerCloses
  <1>5. ASSUME NEW t \in Ticks
        PROVE  PlaceOK(tk[t])' /\ PageWhole(tk[t])'
    <2>1. PlaceOK(tk[t]) /\ PageWhole(tk[t]) /\ tk[t].todo \in Seq(Payments)
      BY DEF IntakeInv, IntakeTypeOK, Tick
    <2>2. \A i \in DOMAIN tk[t].todo : /\ tk[t].todo[i] \in Payments
                                       /\ at'[tk[t].todo[i]] = at[tk[t].todo[i]]
      BY <1>3, <2>1, LenProperties, ElementOfSeq DEF PlaceOK, NewestFirst
    <2>3. tk[t].todo # <<>> => 1 \in DOMAIN tk[t].todo
      BY <2>1, HeadAndTail
    <2>4. NewestFirst(tk[t].todo)'
      BY <1>1, <2>1, <2>2 DEF PlaceOK, NewestFirst
    <2>5. PlaceOK(tk[t])'
      BY <1>1, <2>1, <2>2, <2>3, <2>4 DEF PlaceOK
    <2>6. PageWhole(tk[t])'
      <3> SUFFICES ASSUME tk[t].pc = "page", tk[t].todo # <<>>, NEW p \in Payments,
                          at'[p] # 0, last <= at'[p], at'[p] < at[tk[t].todo[1]]
                   PROVE  p \in Range(tk[t].todo) \cup cut
        BY <1>1, <2>2, <2>3 DEF PageWhole
      <3>1. at[tk[t].todo[1]] \in Nat /\ at[tk[t].todo[1]] <= tip
        BY <1>2, <2>2, <2>3
      <3>2. at'[p] = at[p]
        BY <1>2, <1>3, <3>1
      <3> QED
        BY <2>1, <3>2 DEF PageWhole
    <2> QED
      BY <2>5, <2>6
  <1>6. ASSUME NEW p \in owed', at'[p] < last
        PROVE  p \in seen \/ InHand(p) \/ p \in cut \/ p \in unread
    <2>1. p \in Payments /\ at'[p] # tip + 1
      BY <1>1, <1>2, <1>6 DEF IntakeTypeOK
    <2>2. p \in owed /\ at'[p] = at[p]
      BY <1>1, <1>3, <2>1
    <2> QED
      BY <1>6, <2>2 DEF IntakeInv, CursorPassesNothing
  <1>7. CursorPassesNothing'
    BY <1>1, <1>6 DEF CursorPassesNothing, InHand
  <1>8. \A p \in owed' : at'[p] # 0 /\ Commitment[p] \in acked'
    BY <1>1, <1>2, <1>3 DEF IntakeInv, IntakeTypeOK
  <1>9. (\A p \in Payments : at[p] <= tip)' /\ (tip > 0 /\ last <= tip + 1)'
    BY <1>1, <1>2, <1>3
  <1>10. IntakeInv'
    BY <1>1, <1>5, <1>7, <1>8, <1>9 DEF IntakeInv
  <1>11. IntakeTypeOK'
    BY <1>1, <1>2, <1>4 DEF IntakeTypeOK
  <1> QED
    BY <1>10, <1>11

\* A crash leaves nothing owed, and a restart nothing in hand.
LEMMA CrashKeeps ==
  ASSUME IntakeTypeOK, IntakeInv, Crash \/ Restart
  PROVE  IntakeTypeOK' /\ IntakeInv'
  <1> USE DEF ledgerVars, storeVars, watchVars, jobVars, histVars
  <1>1. /\ UNCHANGED <<at, tip, stored, torn, acked, jobs, begun, dropped, cut, unread>>
        /\ owed' = {} /\ \A t \in Ticks : tk'[t] = Idle
        /\ tip \in Nat /\ last \in Nat /\ last <= tip + 1
        /\ last' \in {last, tip, tip + 1}
        /\ faults' \in {faults, faults + 1}
    BY DEF Crash, Restart, Inject, IntakeInv, IntakeTypeOK
  <1>2. ASSUME NEW t \in Ticks
        PROVE  PlaceOK(tk[t])' /\ PageWhole(tk[t])'
    BY <1>1, IdleIsOK DEF PlaceOK, PageWhole, NewestFirst
  <1>3. CursorPassesNothing'
    BY <1>1 DEF CursorPassesNothing
  <1>4. (tip > 0 /\ last <= tip + 1)'
    BY <1>1 DEF IntakeInv
  <1>5. IntakeInv'
    BY <1>1, <1>2, <1>3, <1>4 DEF IntakeInv
  <1>6. Idle \in Tick
    BY EmptySeq DEF Idle, Tick
  <1>7. /\ tk' \in [Ticks -> Tick] /\ up' \in BOOLEAN
        /\ memory' \subseteq Clients /\ writing' \subseteq Clients
        /\ seen' \subseteq Payments /\ live' \subseteq Payments
        /\ saving' \subseteq Payments /\ ruined' \in [Payments -> Nat]
    <2>1. CASE Crash
      <3>1. ruined' = [p \in Payments |-> IF p \in saving THEN ruined[p] + 1 ELSE ruined[p]]
        BY <2>1 DEF Crash
      <3>2. \A p \in Payments : ruined[p] \in Nat
        BY DEF IntakeTypeOK
      <3>3. ruined' \in [Payments -> Nat]
        BY <3>1, <3>2
      <3> QED
        BY <1>6, <2>1, <3>3 DEF Crash, IntakeTypeOK
    <2>2. CASE Restart
      BY <2>2 DEF Restart, IntakeTypeOK
    <2> QED
      BY <2>1, <2>2
  <1>8. IntakeTypeOK'
    <2>1. faults' \in Nat
      BY <1>1 DEF IntakeTypeOK
    <2>2. last' \in Nat
      BY <1>1
    <2> QED
      BY <1>1, <1>7, <2>1, <2>2 DEF IntakeTypeOK
  <1> QED
    BY <1>5, <1>8

-----------------------------------------------------------------------------
(***************************************************************************)
(* However many ticks poll at once.                                         *)
(***************************************************************************)

\* Every step of the service keeps the types and the invariant.
LEMMA IntakeNext ==
  IntakeTypeOK /\ IntakeInv /\ [Next]_vars => IntakeTypeOK' /\ IntakeInv'
  <1> SUFFICES ASSUME IntakeTypeOK, IntakeInv, [Next]_vars
               PROVE  IntakeTypeOK' /\ IntakeInv'
    OBVIOUS
  <1>1. ASSUME NEW t \in Ticks, Poll(t)
        PROVE  IntakeTypeOK' /\ IntakeInv'
    BY <1>1, PollSendsKeeps, XrplAnswersKeeps, PageArrivesKeeps, GetReturnsKeeps DEF Poll
  <1>2. ASSUME NEW t \in Ticks, TakesOn(t)
        PROVE  IntakeTypeOK' /\ IntakeInv'
    BY <1>2, TakesOnKeeps
  <1>3. ASSUME NEW t \in Ticks, PollFails(t) \/ CreateFails(t)
        PROVE  IntakeTypeOK' /\ IntakeInv'
    BY <1>3, FailsKeeps
  <1>4. CASE StoreStep \/ FileStep
    BY <1>4, StoreKeeps
  <1>5. CASE \E new \in SUBSET Payments : LedgerCloses(new)
    BY <1>5, LedgerKeeps
  <1>6. CASE Crash \/ Restart
    BY <1>6, CrashKeeps
  <1>7. CASE UNCHANGED vars
    <2> USE <1>7 DEF vars, ledgerVars, storeVars, watchVars, jobVars, histVars
    <2>1. \A t \in Ticks : PlaceOK(tk[t])' /\ PageWhole(tk[t])'
      BY TicksRest
    <2>2. CursorPassesNothing'
      BY DEF IntakeInv, CursorPassesNothing, InHand
    <2>3. IntakeInv'
      BY <2>1, <2>2 DEF IntakeInv
    <2> QED
      BY <2>3 DEF IntakeTypeOK
  <1> QED
    BY <1>1, <1>2, <1>3, <1>4, <1>5, <1>6, <1>7 DEF Next, Advances, StoreStep, FileStep

\* A service that has just started owes nothing and its ticks are idle.
LEMMA IntakeStarts == Init => IntakeTypeOK /\ IntakeInv
  <1> SUFFICES ASSUME Init
               PROVE  IntakeTypeOK /\ IntakeInv
    OBVIOUS
  <1>1. Idle \in Tick
    BY EmptySeq DEF Idle, Tick
  <1>2. IntakeTypeOK
    BY <1>1 DEF Init, IntakeTypeOK
  <1>3. \A t \in Ticks : tk[t] = Idle /\ PlaceOK(tk[t]) /\ PageWhole(tk[t])
    BY IdleIsOK DEF Init
  <1>4. tip > 0 /\ last <= tip + 1 /\ \A p \in Payments : at[p] <= tip
    BY DEF Init
  <1>5. acked \subseteq stored \cup torn /\ owed = {} /\ CursorPassesNothing
    BY DEF Init, CursorPassesNothing
  <1> QED
    BY <1>2, <1>3, <1>4, <1>5 DEF IntakeInv

\* The intake keeps its types: whatever overlaps, fails or starts again, a tick is at one
\* of its awaits with sequences of payments in its hands, the store has registrations of
\* clients alone, and cursor and ledger stay numbers (watcher.ts, store.ts, service.ts).
THEOREM IntakeTypeCorrect == Spec => []IntakeTypeOK
  <1>1. IntakeTypeOK /\ IntakeInv /\ [Next]_vars => IntakeTypeOK' /\ IntakeInv'
    BY IntakeNext
  <1> QED
    BY IntakeStarts, <1>1, PTL DEF Spec

\* A payment that is owed an answer and lies below #lastLedger was reported by some poll,
\* is in the hands of a tick, was left out by a full page, or was looked up while its
\* acknowledged record was truncated (watcher.ts:53-78, store.ts:65-67): for any number of
\* ticks that poll at once, whose answers come from servers a ledger apart, and across
\* failed polls, failed writes, repeated registrations, crashes and restarts.
THEOREM NothingIsPassed == Spec => []CursorPassesNothing
  <1>1. IntakeTypeOK /\ IntakeInv /\ [Next]_vars => IntakeTypeOK' /\ IntakeInv'
    BY IntakeNext
  <1>2. IntakeInv => CursorPassesNothing
    BY DEF IntakeInv
  <1> QED
    BY IntakeStarts, <1>1, <1>2, PTL DEF Spec

-----------------------------------------------------------------------------
(***************************************************************************)
(* With ticks that do not overlap.                                          *)
(***************************************************************************)

\* The interval of the service outlasts a tick (service.ts starts one whether or not the
\* last has ended).
OneTick == \A t, u \in Ticks : t = u

\* BegunOnce does not say that the job of a payment that was begun is there to be found:
\* it is, or step() is rewriting its file, or a fault has left the file truncated once more
\* than fresh jobs were begun.  What create() found on the disk is still so when it saves.
OnceInv ==
    /\ saving \subseteq live
    /\ \A p \in Payments : /\ begun[p] <= ruined[p] + 1
                           /\ begun[p] <= ruined[p] \/ p \in jobs \cup saving
    /\ \A t \in Ticks : tk[t].pc \in {"load", "save", "write"} => Head(tk[t].found) \notin live
    /\ \A t \in Ticks : tk[t].pc \in {"save", "write"} =>
                            begun[Head(tk[t].found)] <= ruined[Head(tk[t].found)]

\* The steps that touch neither a job nor a tick inside create().
Aside ==
    \/ \E t \in Ticks : Poll(t) \/ PollFails(t) \/ CreateFails(t)
    \/ StoreStep
    \/ \E new \in SUBSET Payments : LedgerCloses(new)
    \/ Restart

\* They leave both as they are.
LEMMA JobsRest ==
  ASSUME IntakeTypeOK, Aside
  PROVE  /\ UNCHANGED jobVars
         /\ \A u \in Ticks : tk'[u].pc \in {"load", "save", "write"} => tk'[u] = tk[u]
  <1> USE DEF ledgerVars, storeVars, watchVars, histVars
  <1>1. Idle.pc = "idle"
    BY DEF Idle
  <1>2. ASSUME NEW t \in Ticks, Poll(t) \/ PollFails(t) \/ CreateFails(t)
        PROVE  /\ UNCHANGED jobVars
               /\ \A u \in Ticks : tk'[u].pc \in {"load", "save", "write"} => tk'[u] = tk[u]
    <2>1. tk \in [Ticks -> Tick] /\ tk[t] \in Tick
      BY DEF IntakeTypeOK
    <2>2. CASE PollSends(t) \/ PollFails(t) \/ CreateFails(t)
      BY <1>1, <2>1, <2>2 DEF PollSends, PollFails, CreateFails, Idle, Tick
    <2>3. CASE PageArrives(t) \/ GetReturns(t) \/ \E lag \in {0, 1} : XrplAnswers(t, lag)
      <3>1. UNCHANGED jobVars
        BY <2>3 DEF PageArrives, GetReturns, XrplAnswers
      <3>2. ASSUME NEW page, tk' = [tk EXCEPT ![t].pc = "page", ![t].todo = page]
            PROVE  tk'[t].pc = "page" /\ \A u \in Ticks : u # t => tk'[u] = tk[u]
        BY <2>1, <3>2 DEF Tick
      <3>3. ASSUME NEW todo, NEW found, NEW done, Scan(t, todo, found, done)
            PROVE  /\ tk'[t].pc \notin {"load", "save", "write"}
                   /\ \A u \in Ticks : u # t => tk'[u] = tk[u]
        <4>1. PICK pc \in {"found", "get", "read"} : \E rest :
                 tk' = [tk EXCEPT ![t].pc = pc, ![t].todo = rest, ![t].found = found]
          BY <3>3, Zenon DEF Scan
        <4> QED
          BY <2>1, <4>1 DEF Tick
      <3>4. /\ tk'[t].pc \notin {"load", "save", "write"}
            /\ \A u \in Ticks : u # t => tk'[u] = tk[u]
        BY <2>3, <3>2, <3>3 DEF PageArrives, GetReturns, XrplAnswers
      <3> QED
        BY <3>1, <3>4
    <2> QED
      BY <1>2, <2>2, <2>3 DEF Poll
  <1>3. CASE StoreStep \/ Restart \/ \E new \in SUBSET Payments : LedgerCloses(new)
    BY <1>1, <1>3 DEF StoreStep, Register, RegisterOpens, Registered, RegisterFails,
                      LedgerCloses, Restart
  <1> QED
    BY <1>2, <1>3 DEF Aside

\* The steps of a tick inside create() keep it, if there is no other tick.
LEMMA CreateKeeps ==
  ASSUME OneTick, IntakeTypeOK, IntakeInv, OnceInv, NEW t \in Ticks, TakesOn(t)
  PROVE  OnceInv'
  <1>1. tk[t] \in Tick /\ \A u \in Ticks : u = t
    BY DEF IntakeTypeOK, OneTick
  <1>2. \A p \in Payments : begun[p] \in Nat /\ ruined[p] \in Nat
    BY DEF IntakeTypeOK
  <1>3. tk[t].found # <<>> => Head(tk[t].found) \in Payments
    BY <1>1, HeadAndTail DEF Tick
  <1>4. tk[t].pc \in {"load", "save", "write"} => tk[t].found # <<>>
    BY DEF IntakeInv, PlaceOK
  <1>5. CASE TakeOn(t)
    <2>1. UNCHANGED jobVars
      BY <1>5 DEF TakeOn
    <2>2. /\ tk'[t].pc \notin {"save", "write"}
          /\ tk'[t].pc = "load" => tk'[t].found = tk[t].found /\ Head(tk[t].found) \notin live
      BY <1>1, <1>5 DEF TakeOn, Idle, Tick, IntakeTypeOK
    <2> QED
      BY <1>1, <2>1, <2>2 DEF OnceInv, jobVars
  <1>6. CASE CreateLoads(t)
    <2>1. UNCHANGED <<jobs, saving, begun, ruined>> /\ live \subseteq live' /\ tk[t].pc = "load"
      BY <1>6 DEF CreateLoads
    <2>2. CASE Head(tk[t].found) \in jobs
      <3>1. tk'[t].pc = "found"
        BY <1>1, <1>6, <2>2 DEF CreateLoads, IntakeTypeOK, Tick
      <3> QED
        BY <1>1, <2>1, <3>1 DEF OnceInv
    <2>3. CASE Head(tk[t].found) \notin jobs
      <3>1. tk' = [tk EXCEPT ![t].pc = "save"] /\ live' = live
        BY <1>6, <2>3 DEF CreateLoads
      <3>2. tk'[t].found = tk[t].found
        BY <1>1, <3>1 DEF IntakeTypeOK, Tick
      <3>3. Head(tk[t].found) \in Payments /\ Head(tk[t].found) \notin live
        BY <1>3, <1>4, <2>1 DEF OnceInv
      <3>4. begun[Head(tk[t].found)] <= ruined[Head(tk[t].found)]
        BY <2>3, <3>3 DEF OnceInv
      <3> QED
        BY <1>1, <2>1, <3>1, <3>2, <3>3, <3>4 DEF OnceInv
    <2> QED
      BY <2>2, <2>3
  <1>7. CASE CreateOpens(t)
    <2>1. PICK p \in Payments : p = Head(tk[t].found)
      BY <1>3, <1>4, <1>7 DEF CreateOpens
    <2>2. /\ UNCHANGED <<live, saving, begun, ruined>> /\ jobs' = jobs \ {p}
          /\ tk[t].pc = "save" /\ tk' = [tk EXCEPT ![t].pc = "write"]
      BY <1>7, <2>1 DEF CreateOpens
    <2>3. tk'[t].found = tk[t].found
      BY <1>1, <2>2 DEF IntakeTypeOK, Tick
    <2>4. begun[p] <= ruined[p] /\ p \notin live
      BY <2>1, <2>2 DEF OnceInv
    <2> QED
      BY <1>1, <2>1, <2>2, <2>3, <2>4 DEF OnceInv
  <1>8. CASE CreateSaves(t)
    <2>1. PICK p \in Payments : p = Head(tk[t].found)
      BY <1>3, <1>4, <1>8 DEF CreateSaves
    <2>2. /\ UNCHANGED <<saving, ruined>> /\ jobs' = jobs \cup {p} /\ live' = live \cup {p}
          /\ begun' = [begun EXCEPT ![p] = begun[p] + 1] /\ tk[t].pc = "write"
      BY <1>8, <2>1 DEF CreateSaves
    <2>3. tk'[t].pc = "found"
      BY <1>1, <1>8 DEF CreateSaves, IntakeTypeOK, Tick
    <2>4. begun[p] <= ruined[p] /\ begun \in [Payments -> Nat]
      BY <2>1, <2>2 DEF OnceInv, IntakeTypeOK
    <2>5. \A q \in Payments : /\ begun'[q] <= ruined'[q] + 1
                              /\ begun'[q] <= ruined'[q] \/ q \in jobs' \cup saving'
      BY <1>2, <2>2, <2>4 DEF OnceInv
    <2> QED
      BY <1>1, <2>2, <2>3, <2>5 DEF OnceInv
  <1> QED
    BY <1>5, <1>6, <1>7, <1>8 DEF TakesOn

\* What step() does to the files of the live jobs, and the crash that may catch it there.
LEMMA FilesKeep ==
  ASSUME IntakeTypeOK, IntakeInv, OnceInv, FileStep \/ Crash
  PROVE  OnceInv'
  <1>1. \A p \in Payments : begun[p] \in Nat /\ ruined[p] \in Nat
    BY DEF IntakeTypeOK
  <1>2. CASE Crash
    <2>1. /\ UNCHANGED <<jobs, begun>> /\ saving' = {} /\ \A t \in Ticks : tk'[t].pc = "idle"
          /\ \A p \in Payments : ruined'[p] = IF p \in saving THEN ruined[p] + 1 ELSE ruined[p]
      BY <1>2 DEF Crash, Idle
    <2> QED
      BY <1>1, <2>1 DEF OnceInv
  <1>3. CASE FileStep
    <2>1. PICK p \in Payments : JobOpens(p) \/ JobSaved(p) \/ JobSaveFails(p) \/ JobEnds(p)
      BY <1>3 DEF FileStep
    <2>2. UNCHANGED <<begun, tk>> /\ live' \subseteq live
      BY <2>1 DEF JobOpens, JobSaved, JobSaveFails, JobEnds
    <2>3. \A q \in Payments : ruined'[q] \in Nat /\ ruined[q] <= ruined'[q]
      BY <1>1, <2>1 DEF JobOpens, JobSaved, JobSaveFails, JobEnds, IntakeTypeOK
    <2>4. saving' \subseteq live'
      BY <2>1 DEF JobOpens, JobSaved, JobSaveFails, JobEnds, OnceInv
    <2>5. ASSUME NEW q \in Payments
          PROVE  begun[q] <= ruined'[q] \/ q \in jobs' \cup saving'
      <3>1. CASE JobSaveFails(p) /\ q = p
        <4>1. ruined'[q] = ruined[q] + 1
          BY <3>1 DEF JobSaveFails, IntakeTypeOK
        <4> QED
          BY <1>1, <4>1 DEF OnceInv
      <3>2. CASE ~(JobSaveFails(p) /\ q = p)
        <4>1. q \in jobs \cup saving => q \in jobs' \cup saving'
          BY <2>1, <3>2 DEF JobOpens, JobSaved, JobSaveFails, JobEnds
        <4> QED
          BY <1>1, <2>3, <4>1 DEF OnceInv
      <3> QED
        BY <3>1, <3>2
    <2>6. \A q \in Payments : begun[q] <= ruined'[q] + 1
      BY <1>1, <2>3 DEF OnceInv
    <2>7. ASSUME NEW t \in Ticks, tk[t].pc \in {"save", "write"}
          PROVE  begun[Head(tk[t].found)] <= ruined'[Head(tk[t].found)]
      <3>1. tk[t].found \in Seq(Payments) /\ tk[t].found # <<>>
        BY <2>7 DEF IntakeTypeOK, IntakeInv, PlaceOK, Tick
      <3>2. Head(tk[t].found) \in Payments
        BY <3>1, HeadAndTail
      <3>3. begun[Head(tk[t].found)] <= ruined[Head(tk[t].found)]
        BY <2>7 DEF OnceInv
      <3> QED
        BY <1>1, <2>3, <3>2, <3>3
    <2> QED
      BY <2>2, <2>4, <2>5, <2>6, <2>7 DEF OnceInv
  <1> QED
    BY <1>2, <1>3

\* Every step keeps it.
LEMMA OnceNext ==
  OneTick /\ IntakeTypeOK /\ IntakeInv /\ OnceInv /\ [Next]_vars => OnceInv'
  <1> SUFFICES ASSUME OneTick, IntakeTypeOK, IntakeInv, OnceInv, [Next]_vars
               PROVE  OnceInv'
    OBVIOUS
  <1>1. CASE Aside
    BY <1>1, JobsRest DEF OnceInv, jobVars
  <1>2. CASE \E t \in Ticks : TakesOn(t)
    BY <1>2, CreateKeeps
  <1>3. CASE FileStep \/ Crash
    BY <1>3, FilesKeep
  <1>4. CASE UNCHANGED vars
    BY <1>4 DEF vars, jobVars, OnceInv
  <1> QED
    BY <1>1, <1>2, <1>3, <1>4 DEF Next, Advances, Aside, StoreStep, FileStep

\* While ticks do not overlap, and no operator's script writes the same file, a payment is
\* begun once, however often polls report it: create() finds the job it has saved
\* (pipeline.ts:121-126), unless a crash or an error in a later save() (pipeline.ts:118)
\* has left the file truncated, and then once more for each time.  Two ticks may both find
\* nothing and both save: create() awaits between the two.
THEOREM OneJobForEach == OneTick => (Spec => []BegunOnce)
  <1> SUFFICES ASSUME OneTick
               PROVE  Spec => []BegunOnce
    OBVIOUS
  <1>1. Init => OnceInv
    BY DEF Init, OnceInv, Idle
  <1>2. IntakeTypeOK /\ IntakeInv /\ [Next]_vars => IntakeTypeOK' /\ IntakeInv'
    BY IntakeNext
  <1>3. IntakeTypeOK /\ IntakeInv /\ OnceInv /\ [Next]_vars => OnceInv'
    BY OnceNext
  <1>4. IntakeTypeOK /\ OnceInv => BegunOnce
    BY DEF OnceInv, BegunOnce, IntakeTypeOK
  <1> QED
    BY IntakeStarts, <1>1, <1>2, <1>3, <1>4, PTL DEF Spec

=============================================================================
