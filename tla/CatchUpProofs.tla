--------------------------- MODULE CatchUpProofs ---------------------------
(***************************************************************************)
(* Proofs about CatchUp.tla, for every journal length, batch size, number  *)
(* of faults and choice of faults, with one producer that takes its turns  *)
(* (Alone; with two, the run catchup_order shows NothingLost violated) and *)
(* Close called in the live phase (CloseIn).                               *)
(*                                                                         *)
(* The inductive invariant, CatchInv, says that the journal is in the      *)
(* order of the ULIDs; that checkpoint, cursor and watermark cover handled *)
(* events only; that the batch of a replay is what the journal holds after *)
(* the handled prefix; and that in the live phase everything is handled    *)
(* but the one event the bus is still to offer.  Its conjuncts are         *)
(* operators of the state they speak of, so that a step's proof says which *)
(* of them its new values satisfy.  From it: the watermark is honest,      *)
(* nothing is lost, delivery is in order, and CatchUp implements Delivery. *)
(***************************************************************************)
EXTENDS CatchUp, TLAPS

-----------------------------------------------------------------------------
(* Sequences *)

\* A sequence is a function on the positions up to its length.
LEMMA SeqShape ==
  ASSUME NEW S, NEW s \in Seq(S)
  PROVE  /\ Len(s) \in Nat /\ DOMAIN s = 1..Len(s) /\ s \in [1..Len(s) -> S]
         /\ \A i \in 1..Len(s) : s[i] \in S
OBVIOUS

\* A sequence is empty when its length is zero.
LEMMA EmptyIsNil ==
  ASSUME NEW S, NEW s \in Seq(S)
  PROVE  Len(s) = 0 <=> s = <<>>
OBVIOUS

\* The types of CatchUp.tla; what the journal holds is said by Minting below.
CatchType ==
  /\ journal \in Seq(Event) /\ minted \in Id
  /\ prod \in [Producer -> [pc : {"idle", "save", "publish", "wait"}, e : Id]]
  /\ bus \in [closed : BOOLEAN, leak : BOOLEAN, offer : Id, owed : SUBSET {"sub", "leak"}]
  /\ sub \in Sub
  /\ out \in Seq([e : Event, live : BOOLEAN])
  /\ reply \in {"none", "ack", "nack"}
  /\ cp \in Id /\ handled \subseteq Event /\ closed \in BOOLEAN

\* The goroutine has returned.
Over(s, t) ==
  /\ t \in Sub /\ t.pc = "off" /\ t.cursor = 0 /\ t.batch = <<>> /\ t.mark = 0
  /\ t.last = 0 /\ t.live = FALSE /\ t.reg = s.reg /\ t.ctx = s.ctx

\* The first events and ids.
LEMMA Bounds ==
  /\ MaxEvents \in Nat /\ 0 \in Id /\ Id \subseteq Nat /\ Event \subseteq Nat
  /\ Event \subseteq Id /\ 0 \notin Event /\ \A e \in Id : e # 0 => e \in Event
  /\ \A S : <<>> \in Seq(S)
BY CatchUpAssumption DEF Id, Event

\* End.
LEMMA EndFields ==
  ASSUME NEW s \in Sub
  PROVE  Over(s, End(s))
BY Bounds, Zenon DEF End, Over, Sub

\* Forwarding.
LEMMA ForwardFields ==
  ASSUME NEW s \in Sub, NEW e \in Event
  PROVE  LET t == [s EXCEPT !.pc = "await", !.last = e] IN
         /\ t \in Sub /\ t.pc = "await" /\ t.last = e
         /\ t.cursor = s.cursor /\ t.batch = s.batch /\ t.full = s.full /\ t.mark = s.mark
         /\ t.live = s.live /\ t.ctx = s.ctx /\ t.reg = s.reg
BY Bounds, Zenon DEF Sub

\* The next step of a replay whose event was acked: its watermark is that event.
LEMMA NextFields ==
  ASSUME NEW s \in Sub, s.batch # <<>>
  PROVE  LET t == NextReplay(s)  e == Head(s.batch) IN
         /\ t \in Sub /\ t.mark = e /\ t.last = s.last /\ t.batch = Tail(s.batch)
         /\ t.ctx = s.ctx /\ t.reg = s.reg /\ t.full = s.full
         /\ \/ t.batch # <<>> /\ t.pc = "event" /\ t.live = s.live /\ t.cursor = s.cursor
            \/ /\ t.batch = <<>> /\ s.full /\ t.pc = "read" /\ t.live = s.live
               /\ t.cursor = e
            \/ /\ t.batch = <<>> /\ ~s.full /\ t.pc = "live" /\ t.live = TRUE
               /\ t.cursor = s.cursor
<1> DEFINE e == Head(s.batch)
           b == Tail(s.batch)
           t == [s EXCEPT !.mark = e, !.batch = b]
<1>0. s.batch \in Seq(Event)
  BY Zenon DEF Sub
<1>1. e \in Event /\ e \in Id /\ b \in Seq(Event)
  <2>1. Head(s.batch) \in Event /\ Tail(s.batch) \in Seq(Event)
    BY <1>0
  <2> QED
    BY <2>1, Bounds, Zenon
<1>2. NextReplay(s) = IF t.batch # <<>> THEN [t EXCEPT !.pc = "event"]
                      ELSE IF s.full THEN [t EXCEPT !.pc = "read", !.cursor = e]
                      ELSE [t EXCEPT !.pc = "live", !.live = TRUE]
  BY Zenon DEF NextReplay
<1> HIDE DEF e, b
<1>3. /\ t \in Sub /\ t.mark = e /\ t.last = s.last /\ t.batch = b
      /\ t.ctx = s.ctx /\ t.reg = s.reg /\ t.full = s.full /\ t.live = s.live
      /\ t.cursor = s.cursor
  BY <1>1, Zenon DEF Sub
<1> HIDE DEF t
<1>4. CASE b # <<>>
  BY <1>2, <1>3, <1>4, ZenonT(40) DEF Sub, e, b
<1>5. CASE b = <<>> /\ s.full
  <2> DEFINE u == [t EXCEPT !.pc = "read", !.cursor = e]
  <2>1. /\ u \in Sub /\ u.mark = e /\ u.last = s.last /\ u.batch = b /\ u.pc = "read"
        /\ u.ctx = s.ctx /\ u.reg = s.reg /\ u.full = s.full /\ u.live = s.live
        /\ u.cursor = e
    BY <1>1, <1>3, Zenon DEF Sub
  <2>2. NextReplay(s) = u
    BY <1>2, <1>3, <1>5, Zenon
  <2> HIDE DEF u
  <2> QED
    BY <1>5, <2>1, <2>2, Zenon DEF e, b
<1>6. CASE b = <<>> /\ ~s.full
  BY <1>2, <1>3, <1>6, ZenonT(40) DEF Sub, e, b
<1> QED
  BY <1>4, <1>5, <1>6, Zenon DEF Sub

-----------------------------------------------------------------------------
(* The invariant *)

\* Producers take turns: there is one of them.
Alone == \A p, q \in Producer : p = q

Sorted(j) == \A i, k \in 1..Len(j) : i < k => j[i] < j[k]

\* v is no event, or one of the journal.
Known(j, v) == v = 0 \/ \E i \in 1..Len(j) : j[i] = v

\* What the journal holds up to v, or before v, is handled.
Handled(j, h, v) == \A i \in 1..Len(j) : j[i] <= v => j[i] \in h
Before(j, h, v) == \A i \in 1..Len(j) : j[i] < v => j[i] \in h

\* A producer that has not saved yet has the newest ULID; one that has, the
\* newest event of the journal.
Producing(x, j, m) ==
  /\ x.pc = "save" => x.e = m /\ m # 0 /\ \A i \in 1..Len(j) : j[i] < m
  /\ x.pc \in {"publish", "wait"} => Len(j) > 0 /\ x.e = j[Len(j)]

Minting(j, m, pr) ==
  /\ Sorted(j) /\ \A i \in 1..Len(j) : j[i] <= m
  /\ \A p \in Producer : Producing(pr[p], j, m)

\* The bus is still to ask the subscription for e.
Owed(pr, b, e) ==
  \E p \in Producer :
    pr[p].e = e /\ (pr[p].pc = "publish" \/ (pr[p].pc = "wait" /\ "sub" \in b.owed))

\* The bus waits for the subscription's answer to e.
Waits(pr, b, e) ==
  "sub" \in b.owed /\ \E p \in Producer : pr[p].pc = "wait" /\ pr[p].e = e

\* The output channel holds at most the message that is awaited.
Channel(s, o, r, j) ==
  /\ s.live => s.pc \in {"await", "live"}
  /\ s.pc = "live" => s.live
  /\ s.pc # "await" => r = "none"
  /\ s.pc \notin {"off", "await"} => o = <<>>
  /\ s.pc = "await" /\ r # "none" => o = <<>>
  /\ s.pc = "await" /\ r = "none" =>
       Len(o) = 1 /\ o[1].e = s.last /\ o[1].live = s.live
  /\ Len(o) <= 1
  /\ \A i \in 1..Len(o) : Known(j, o[i].e)

\* Close comes in the live phase.
Closes(s, b, cl) == (cl => s.live \/ s.pc = "off") /\ (b.closed => cl)

\* What the bus offers, and what of it the consumer has, is being published.
Offers(s, b, o, pr) ==
  /\ b.offer # 0 => s.reg /\ Waits(pr, b, b.offer)
  /\ o # <<>> /\ o[1].live =>
       b.offer = 0 /\ (s.reg /\ ~b.closed => Waits(pr, b, o[1].e))

\* Checkpoint, cursor and watermark cover handled events only.
Marks(s, j, h, c) ==
  /\ Known(j, c) /\ Known(j, s.mark) /\ Known(j, s.cursor) /\ Known(j, s.last)
  /\ Handled(j, h, c) /\ Handled(j, h, s.mark) /\ Handled(j, h, s.cursor)
  /\ s.pc \in {"off", "subscribe", "load"} => s.mark = 0
  /\ s.pc = "read" => c <= s.cursor /\ s.mark <= s.cursor
  /\ ~s.live /\ s.pc # "await" => s.last = s.mark

\* Everything before the message that is awaited is handled.
Awaits(s, j, h, c, r) ==
  s.pc = "await" =>
    Before(j, h, s.last) /\ s.last # 0 /\ c <= s.last /\ (r = "ack" => s.last \in h)

\* The batch of a replay is what the journal holds after position k; after it
\* comes, if the batch was not full, at most what the bus is still to offer.
BatchAt(s, j, h, c, b, pr, k) ==
  /\ s.batch # <<>> /\ k + Len(s.batch) <= Len(j)
  /\ \A i \in 1..Len(s.batch) : s.batch[i] = j[k + i]
  /\ \A i \in 1..k : j[i] \in h
  /\ \A i \in (k + 1)..Len(j) : j[i] > c /\ j[i] > s.mark
  /\ s.reg /\ ~s.full => \A i \in (k + Len(s.batch) + 1)..Len(j) : Owed(pr, b, j[i])

Replays(s, j, h, c, b, pr) ==
  s.pc \in {"event", "await"} /\ ~s.live =>
    /\ \E k \in Nat : BatchAt(s, j, h, c, b, pr, k)
    /\ s.pc = "await" => s.last = Head(s.batch)

\* In the live phase everything is handled but what the bus is still to offer,
\* and what it offers is newer than what was delivered, or covered.
Lives(s, j, h, b, pr) ==
  s.live =>
    /\ s.reg /\ (~b.closed \/ b.offer # 0) =>
         \A i \in 1..Len(j) : j[i] \in h \/ Owed(pr, b, j[i])
    /\ b.offer # 0 => s.last < b.offer \/ s.last <= s.mark
    /\ \A p \in Producer : pr[p].pc = "publish" => s.last < pr[p].e \/ s.last <= s.mark

\* The inductive invariant.
CatchInv ==
  /\ CatchType
  /\ Minting(journal, minted, prod)
  /\ Channel(sub, out, reply, journal)
  /\ Closes(sub, bus, closed)
  /\ Offers(sub, bus, out, prod)
  /\ Marks(sub, journal, handled, cp)
  /\ Awaits(sub, journal, handled, cp, reply)
  /\ Replays(sub, journal, handled, cp, bus, prod)
  /\ Lives(sub, journal, handled, bus, prod)

\* The journal is not touched, nor who is publishing; sub, out and reply still
\* fit each other when the goroutine has returned.
LEMMA Ends ==
  ASSUME CatchInv, NEW t, Over(sub, t), sub' = t, reply' = "none",
         UNCHANGED <<journal, minted, prod, out, cp, handled, closed>>,
         bus' = bus \/ bus' = [bus EXCEPT !.offer = 0]
  PROVE  CatchInv'
<1> DEFINE b == bus'
<1>0. /\ journal \in Seq(Event) /\ out' = out /\ sub' = t /\ reply' = "none"
      /\ bus \in [closed : BOOLEAN, leak : BOOLEAN, offer : Id, owed : SUBSET {"sub", "leak"}]
  BY Zenon DEF CatchInv, CatchType
<1>1. /\ b \in [closed : BOOLEAN, leak : BOOLEAN, offer : Id, owed : SUBSET {"sub", "leak"}]
      /\ b.closed = bus.closed /\ b.owed = bus.owed /\ b.offer \in {0, bus.offer}
  BY <1>0, Bounds, Zenon
<1> HIDE DEF b
<1>2. CatchType'
  BY <1>1, Zenon DEF CatchInv, CatchType, Over, b
<1>3. Minting(journal, minted, prod)'
  BY Zenon DEF CatchInv, Minting
<1>4. Channel(t, out, "none", journal)
  BY Zenon DEF CatchInv, Channel, Over
<1>5. Closes(t, b, closed)
  BY <1>1, Zenon DEF CatchInv, Closes, Over
<1>6. Offers(t, b, out, prod)
  <2>1. Offers(sub, bus, out, prod)
    BY Zenon DEF CatchInv
  <2>2. \A e : Waits(prod, bus, e) => Waits(prod, b, e)
    BY <1>1, Zenon DEF Waits
  <2> QED
    BY <1>1, <2>1, <2>2, Zenon DEF Offers, Over
<1>7. Marks(t, journal, handled, cp)
  <2>1. Handled(journal, handled, 0)
    <3>1. \A i \in 1..Len(journal) : journal[i] \in Event
      BY <1>0, SeqShape, Zenon
    <3>2. \A e \in Event : ~(e <= 0)
      BY DEF Event
    <3> QED
      BY <3>1, <3>2, Zenon DEF Handled
  <2> QED
    BY <2>1, Zenon DEF CatchInv, Marks, Over, Known
<1>8. /\ Awaits(t, journal, handled, cp, "none")
      /\ Replays(t, journal, handled, cp, b, prod)
      /\ Lives(t, journal, handled, b, prod)
  BY Zenon DEF Awaits, Replays, Lives, Over
<1>9. UNCHANGED <<journal, minted, prod, out, cp, handled, closed>>
  OBVIOUS
<1> QED
  BY <1>0, <1>2, <1>3, <1>4, <1>5, <1>6, <1>7, <1>8, <1>9, Zenon DEF CatchInv, b

-----------------------------------------------------------------------------
(* The producer's steps *)

\* The elements of the journal are events; what is known of it is not newer
\* than its last event, nor than the newest ULID.
LEMMA JournalFacts ==
  ASSUME CatchInv
  PROVE  /\ journal \in Seq(Event) /\ Len(journal) \in Nat
         /\ \A i \in 1..Len(journal) : journal[i] \in Event /\ journal[i] \in Nat /\ journal[i] > 0
         /\ \A i \in 1..Len(journal) : journal[i] <= journal[Len(journal)]
         /\ \A v : Known(journal, v) => v \in Nat
         /\ \A v : Known(journal, v) /\ Len(journal) > 0 => v <= journal[Len(journal)]
         /\ minted \in Nat /\ sub \in Sub
<1>1. journal \in Seq(Event) /\ Len(journal) \in Nat /\ minted \in Nat /\ sub \in Sub
  BY Bounds, SeqShape, Zenon DEF CatchInv, CatchType
<1>2. \A i \in 1..Len(journal) : journal[i] \in Event
  BY <1>1, SeqShape, Zenon
<1>3. \A e \in Event : e \in Nat /\ e > 0
  BY DEF Event
<1>4. \A i \in 1..Len(journal) : journal[i] <= journal[Len(journal)]
  <2> SUFFICES ASSUME NEW i \in 1..Len(journal) PROVE journal[i] <= journal[Len(journal)]
    OBVIOUS
  <2>1. Len(journal) \in 1..Len(journal) /\ (i < Len(journal) \/ i = Len(journal))
    BY <1>1
  <2>2. i < Len(journal) => journal[i] < journal[Len(journal)]
    BY <2>1, Zenon DEF CatchInv, Minting, Sorted
  <2>3. journal[i] \in Nat /\ journal[Len(journal)] \in Nat
    BY <1>2, <1>3, <2>1, Zenon
  <2> QED
    BY <2>1, <2>2, <2>3
<1>5. ASSUME NEW v, Known(journal, v)
      PROVE  v \in Nat /\ (Len(journal) > 0 => v <= journal[Len(journal)])
  <2>1. CASE v = 0
    BY <1>1, <1>2, <1>3, <2>1
  <2>2. CASE \E i \in 1..Len(journal) : journal[i] = v
    BY <1>2, <1>3, <1>4, <2>2, Zenon
  <2> QED
    BY <1>5, <2>1, <2>2, Zenon DEF Known
<1> QED
  BY <1>1, <1>2, <1>3, <1>4, <1>5, Zenon

\* What the fields of producer, bus and subscription hold.
LEMMA Fields ==
  ASSUME CatchInv
  PROVE  /\ \A p \in Producer :
              prod[p].e \in Id /\ prod[p].pc \in {"idle", "save", "publish", "wait"}
         /\ prod \in [Producer -> [pc : {"idle", "save", "publish", "wait"}, e : Id]]
         /\ bus \in [closed : BOOLEAN, leak : BOOLEAN, offer : Id, owed : SUBSET {"sub", "leak"}]
         /\ bus.offer \in Id /\ bus.closed \in BOOLEAN /\ bus.owed \subseteq {"sub", "leak"}
         /\ sub \in Sub /\ sub.batch \in Seq(Event) /\ sub.last \in Nat /\ sub.mark \in Nat
         /\ sub.cursor \in Nat /\ cp \in Nat
BY Bounds, Zenon DEF CatchInv, CatchType, Sub

\* With one producer, nothing is owed unless it is about to publish or waits.
LEMMA NothingOwed ==
  ASSUME Alone, NEW pr, NEW b, NEW p \in Producer
  PROVE  /\ pr[p].pc \notin {"publish", "wait"} => \A e : ~Owed(pr, b, e)
         /\ pr[p].pc # "wait" => \A e : ~Waits(pr, b, e)
         /\ \A e : Owed(pr, b, e) => pr[p].e = e
         /\ \A e : Waits(pr, b, e) => pr[p].e = e /\ pr[p].pc = "wait" /\ "sub" \in b.owed
         /\ \A e : Waits(pr, b, e) => Owed(pr, b, e)
BY Zenon DEF Alone, Owed, Waits

\* Mint.
LEMMA MintInv ==
  ASSUME CatchInv, Alone, NEW p \in Producer, Mint(p)
  PROVE  CatchInv'
<1> DEFINE x == [pc |-> "save", e |-> minted + 1]
           q == [prod EXCEPT ![p] = x]
<1>0. /\ UNCHANGED <<journal, bus, sub, out, reply, cp, handled, closed>>
      /\ minted' = minted + 1 /\ prod' = q /\ prod[p].pc = "idle" /\ minted < MaxEvents
  BY Zenon DEF Mint
<1>1. minted \in Nat /\ minted + 1 \in Id /\ minted + 1 # 0
  BY <1>0, JournalFacts, Bounds DEF Id
<1>2. x \in [pc : {"idle", "save", "publish", "wait"}, e : Id] /\ x.pc = "save" /\ x.e = minted + 1
  BY <1>1, Zenon
<1> HIDE DEF x
<1>3. q[p] = x /\ q \in [Producer -> [pc : {"idle", "save", "publish", "wait"}, e : Id]]
  BY <1>2, Fields, Zenon
<1>4. \A r \in Producer : q[r] = x
  BY <1>3, Zenon DEF Alone
<1> HIDE DEF q
<1>5. CatchType'
  BY <1>0, <1>1, <1>3, Zenon DEF CatchInv, CatchType
<1>6. Minting(journal, minted + 1, q)
  <2>1. \A i \in 1..Len(journal) : journal[i] < minted + 1 /\ journal[i] <= minted + 1
    BY <1>1, JournalFacts DEF CatchInv, Minting
  <2>2. Producing(x, journal, minted + 1)
    BY <1>1, <1>2, <2>1, Zenon DEF Producing
  <2> QED
    BY <1>4, <2>1, <2>2, Zenon DEF CatchInv, Minting
<1>7. /\ \A e : ~Owed(prod, bus, e) /\ ~Waits(prod, bus, e)
      /\ \A r \in Producer : q[r].pc # "publish"
  BY <1>0, <1>2, <1>4, NothingOwed, Zenon
<1>8. Offers(sub, bus, out, q)
  BY <1>7, Zenon DEF CatchInv, Offers
<1>9. Replays(sub, journal, handled, cp, bus, q)
  BY <1>7, Zenon DEF CatchInv, Replays, BatchAt
<1>10. Lives(sub, journal, handled, bus, q)
  BY <1>7, Zenon DEF CatchInv, Lives
<1> QED
  BY <1>0, <1>5, <1>6, <1>8, <1>9, <1>10, Zenon DEF CatchInv

\* The journal grows by an event that is newer than all it held.
LEMMA Grows ==
  ASSUME NEW j \in Seq(Event), NEW e \in Event, \A i \in 1..Len(j) : j[i] < e
  PROVE  LET n == Append(j, e) IN
         /\ n \in Seq(Event) /\ Len(n) = Len(j) + 1 /\ n[Len(n)] = e
         /\ \A i \in 1..Len(j) : i \in 1..Len(n) /\ n[i] = j[i]
         /\ \A i \in 1..Len(n) : i \in 1..Len(j) \/ i = Len(j) + 1
         /\ \A v : Known(j, v) => Known(n, v) /\ v < e
         /\ \A v, h : Known(j, v) /\ Handled(j, h, v) => Handled(n, h, v)
         /\ \A v, h : Known(j, v) /\ Before(j, h, v) => Before(n, h, v)
         /\ Sorted(j) => Sorted(n)
<1> DEFINE n == Append(j, e)
<1>0. /\ Len(j) \in Nat /\ e \in Nat /\ e > 0 /\ ~(e <= 0)
      /\ \A i \in 1..Len(j) : j[i] \in Nat
  <2>1. \A i \in 1..Len(j) : j[i] \in Event
    BY SeqShape, Zenon
  <2>2. \A d \in Event : d \in Nat /\ d > 0 /\ ~(d <= 0)
    BY DEF Event
  <2> QED
    BY <2>1, <2>2, SeqShape, Zenon
<1>1. /\ n \in Seq(Event) /\ Len(n) = Len(j) + 1 /\ n[Len(j) + 1] = e
      /\ \A i \in 1..Len(j) : n[i] = j[i]
  OBVIOUS
<1> HIDE DEF n
<1>2. /\ n[Len(n)] = e
      /\ \A i \in 1..Len(j) : i \in 1..Len(n) /\ n[i] = j[i]
      /\ \A i \in 1..Len(n) : i \in 1..Len(j) \/ i = Len(j) + 1
  BY <1>0, <1>1
<1>3. ASSUME NEW v, Known(j, v) PROVE Known(n, v) /\ v < e /\ v \in Nat
  <2>1. CASE v = 0
    BY <1>0, <2>1, Zenon DEF Known
  <2>2. CASE \E i \in 1..Len(j) : j[i] = v
    BY <1>0, <1>2, <2>2, Zenon DEF Known
  <2> QED
    BY <1>3, <2>1, <2>2, Zenon DEF Known
<1>4. ASSUME NEW v, NEW h, Known(j, v)
      PROVE  /\ Handled(j, h, v) => Handled(n, h, v)
             /\ Before(j, h, v) => Before(n, h, v)
  <2>1. ~(e <= v) /\ ~(e < v)
    BY <1>0, <1>3, <1>4
  <2>2. n[Len(j) + 1] = e
    BY <1>1, Zenon
  <2> QED
    BY <1>2, <2>1, <2>2, Zenon DEF Handled, Before
<1>5. Sorted(j) => Sorted(n)
  <2> SUFFICES ASSUME Sorted(j), NEW i \in 1..Len(n), NEW k \in 1..Len(n), i < k
               PROVE  n[i] < n[k]
    BY Zenon DEF Sorted
  <2>1. i \in 1..Len(j)
    BY <1>0, <1>1
  <2>2. CASE k \in 1..Len(j)
    BY <1>2, <2>1, <2>2, Zenon DEF Sorted
  <2>3. CASE k = Len(j) + 1
    BY <1>1, <1>2, <2>1, <2>3, Zenon
  <2> QED
    BY <1>2, <2>2, <2>3, Zenon
<1> QED
  BY <1>1, <1>2, <1>3, <1>4, <1>5, Zenon DEF n

\* Save.
LEMMA SaveInv ==
  ASSUME CatchInv, Alone, NEW p \in Producer, Save(p)
  PROVE  CatchInv'
<1> DEFINE e == prod[p].e
           q == [prod EXCEPT ![p].pc = "publish"]
           n == Append(journal, e)
<1>0. /\ UNCHANGED <<minted, bus, sub, out, reply, cp, handled, closed>>
      /\ journal' = n /\ prod' = q /\ prod[p].pc = "save"
  BY Zenon DEF Save
<1>1. /\ e \in Event /\ e = minted /\ journal \in Seq(Event) /\ Len(journal) \in Nat
      /\ minted \in Nat /\ \A i \in 1..Len(journal) : journal[i] < e
  <2>1. Producing(prod[p], journal, minted)
    BY Zenon DEF CatchInv, Minting
  <2> QED
    BY <1>0, <2>1, Fields, JournalFacts, Bounds, SMTT(30) DEF Producing
<1>2. /\ q \in [Producer -> [pc : {"idle", "save", "publish", "wait"}, e : Id]]
      /\ q[p].pc = "publish" /\ q[p].e = e
  BY Fields, Zenon
<1>3. \A r \in Producer : q[r].pc = "publish" /\ q[r].e = e
  BY <1>2, Zenon DEF Alone
<1> HIDE DEF q, e
<1>4. /\ n \in Seq(Event) /\ Len(n) = Len(journal) + 1 /\ n[Len(n)] = e
      /\ \A i \in 1..Len(journal) : i \in 1..Len(n) /\ n[i] = journal[i]
      /\ \A i \in 1..Len(n) : i \in 1..Len(journal) \/ i = Len(journal) + 1
      /\ \A v : Known(journal, v) => Known(n, v) /\ v < e
      /\ \A v, h : Known(journal, v) /\ Handled(journal, h, v) => Handled(n, h, v)
      /\ \A v, h : Known(journal, v) /\ Before(journal, h, v) => Before(n, h, v)
      /\ Sorted(journal) => Sorted(n)
  BY <1>1, Grows, Zenon
<1> HIDE DEF n
<1>5. CatchType'
  BY <1>0, <1>2, <1>4, Zenon DEF CatchInv, CatchType
<1>6. Minting(n, minted, q)
  <2>1. \A i \in 1..Len(n) : n[i] <= minted
    <3>1. \A i \in 1..Len(journal) : n[i] <= minted
      BY <1>4, Zenon DEF CatchInv, Minting
    <3>2. n[Len(journal) + 1] <= minted
      BY <1>1, <1>4
    <3> QED
      BY <1>4, <3>1, <3>2, Zenon
  <2>2. \A r \in Producer : Producing(q[r], n, minted)
    BY <1>1, <1>3, <1>4 DEF Producing
  <2> QED
    BY <1>4, <2>1, <2>2, Zenon DEF CatchInv, Minting
<1>7. /\ \A d : ~Owed(prod, bus, d) /\ ~Waits(prod, bus, d)
      /\ Owed(q, bus, e) /\ p \in Producer
  <2>1. Owed(q, bus, e)
    BY <1>2, Zenon DEF Owed
  <2> QED
    BY <1>0, <2>1, NothingOwed, Zenon
<1>8. Channel(sub, out, reply, n)
  BY <1>4, Zenon DEF CatchInv, Channel
<1>9. Offers(sub, bus, out, q)
  BY <1>7, Zenon DEF CatchInv, Offers
<1>10. Marks(sub, n, handled, cp)
  BY <1>4, Zenon DEF CatchInv, Marks
<1>11. Awaits(sub, n, handled, cp, reply)
  <2>1. Known(journal, sub.last)
    BY Zenon DEF CatchInv, Marks
  <2> QED
    BY <1>4, <2>1, Zenon DEF CatchInv, Awaits
<1>12. Replays(sub, n, handled, cp, bus, q)
  <2> SUFFICES ASSUME sub.pc \in {"event", "await"} /\ ~sub.live
               PROVE  /\ \E k \in Nat : BatchAt(sub, n, handled, cp, bus, q, k)
                      /\ sub.pc = "await" => sub.last = Head(sub.batch)
    BY Zenon DEF Replays
  <2>1. PICK k \in Nat : BatchAt(sub, journal, handled, cp, bus, prod, k)
    BY Zenon DEF CatchInv, Replays
  <2>2. Len(sub.batch) \in Nat
    BY Fields, SeqShape, Zenon
  <2>3. k + Len(sub.batch) <= Len(journal)
    BY <2>1, Zenon DEF BatchAt
  <2>4. ASSUME NEW i \in 1..Len(sub.batch) PROVE sub.batch[i] = n[k + i]
    <3>1. k + i \in 1..Len(journal)
      BY <1>1, <2>2, <2>3
    <3> QED
      BY <1>4, <2>1, <3>1, Zenon DEF BatchAt
  <2>5. ASSUME NEW i \in 1..k PROVE n[i] \in handled
    <3>1. i \in 1..Len(journal)
      BY <1>1, <2>2, <2>3
    <3> QED
      BY <1>4, <2>1, <3>1, Zenon DEF BatchAt
  <2>6. ASSUME NEW i \in (k + 1)..Len(n) PROVE n[i] > cp /\ n[i] > sub.mark
    <3>1. Known(journal, cp) /\ Known(journal, sub.mark)
      BY Zenon DEF CatchInv, Marks
    <3>2. cp < e /\ sub.mark < e /\ cp \in Nat /\ sub.mark \in Nat /\ e \in Nat
      BY <1>1, <1>4, <3>1, Fields, Zenon
    <3>3. i = Len(n) \/ i \in (k + 1)..Len(journal)
      BY <1>1, <1>4
    <3>4. i \in (k + 1)..Len(journal) => i \in 1..Len(journal)
      BY <1>1
    <3> QED
      BY <1>4, <2>1, <3>2, <3>3, <3>4, Zenon DEF BatchAt
  <2>7. ASSUME sub.reg /\ ~sub.full, NEW i \in (k + Len(sub.batch) + 1)..Len(n)
        PROVE  Owed(q, bus, n[i])
    <3>1. i = Len(n) \/ i \in (k + Len(sub.batch) + 1)..Len(journal)
      BY <1>1, <1>4, <2>2
    <3> QED
      BY <1>4, <1>7, <2>1, <2>7, <3>1, Zenon DEF BatchAt
  <2>8. k + Len(sub.batch) <= Len(n) /\ sub.batch # <<>>
    BY <1>1, <1>4, <2>1, <2>2 DEF BatchAt
  <2>9. BatchAt(sub, n, handled, cp, bus, q, k)
    BY <2>4, <2>5, <2>6, <2>7, <2>8, Zenon DEF BatchAt
  <2> QED
    BY <2>9, Zenon DEF CatchInv, Replays
<1>13. Lives(sub, n, handled, bus, q)
  <2> SUFFICES ASSUME sub.live PROVE Lives(sub, n, handled, bus, q)
    BY Zenon DEF Lives
  <2>1. Known(journal, sub.last) /\ bus.offer = 0
    BY <1>7, Zenon DEF CatchInv, Marks, Offers
  <2>2. sub.last < e
    BY <1>4, <2>1, Zenon
  <2>3. ASSUME sub.reg /\ ~bus.closed, NEW i \in 1..Len(n)
        PROVE  n[i] \in handled \/ Owed(q, bus, n[i])
    <3>1. CASE i \in 1..Len(journal)
      BY <1>4, <1>7, <2>3, <3>1, Zenon DEF CatchInv, Lives
    <3>2. CASE i = Len(journal) + 1
      BY <1>4, <1>7, <3>2, Zenon
    <3> QED
      BY <1>4, <3>1, <3>2, Zenon
  <2> QED
    BY <1>3, <2>1, <2>2, <2>3, Zenon DEF Lives
<1> QED
  BY <1>0, <1>5, <1>6, <1>8, <1>9, <1>10, <1>11, <1>12, <1>13, Zenon DEF CatchInv

\* What a registered subscription is owed stays owed.
LEMMA ReplaysKept ==
  ASSUME NEW s, NEW j, NEW h, NEW c, NEW b, NEW pr, NEW d, NEW q, NEW t, NEW g,
         Replays(s, j, h, c, b, pr),
         t.pc = s.pc, t.live = s.live, t.batch = s.batch, t.mark = s.mark,
         t.last = s.last, t.full = s.full, t.reg => s.reg,
         h \subseteq g,
         t.reg => \A e : Owed(pr, b, e) => Owed(q, d, e)
  PROVE  Replays(t, j, g, c, d, q)
<1> SUFFICES ASSUME t.pc \in {"event", "await"} /\ ~t.live
             PROVE  /\ \E k \in Nat : BatchAt(t, j, g, c, d, q, k)
                    /\ t.pc = "await" => t.last = Head(t.batch)
  BY Zenon DEF Replays
<1>1. PICK k \in Nat : BatchAt(s, j, h, c, b, pr, k)
  BY Zenon DEF Replays
<1>2. BatchAt(t, j, g, c, d, q, k)
  BY <1>1, Zenon DEF BatchAt
<1> QED
  BY <1>2, Zenon DEF Replays

\* Publish.
LEMMA PublishInv ==
  ASSUME CatchInv, Alone, NEW p \in Producer, Publish(p)
  PROVE  CatchInv'
<1> DEFINE e == prod[p].e
<1>0. /\ UNCHANGED <<journal, minted, sub, out, reply, cp, handled, closed>>
      /\ prod[p].pc = "publish"
      /\ prod \in [Producer -> [pc : {"idle", "save", "publish", "wait"}, e : Id]]
      /\ bus \in [closed : BOOLEAN, leak : BOOLEAN, offer : Id, owed : SUBSET {"sub", "leak"}]
      /\ bus.closed \in BOOLEAN /\ e \in Id
  BY Fields, Zenon DEF Publish
<1>1. /\ \A d : ~Waits(prod, bus, d)
      /\ \A d : Owed(prod, bus, d) => d = e
  BY <1>0, NothingOwed, Zenon
<1>2. bus.offer = 0 /\ (out # <<>> /\ out[1].live => ~(sub.reg /\ ~bus.closed))
  BY <1>1, Zenon DEF CatchInv, Offers
<1>3. Producing(prod[p], journal, minted)
  BY DEF CatchInv, Minting
<1>4. CASE bus.closed
  <2> DEFINE q == [prod EXCEPT ![p] = Idle]
  <2>1. prod' = q /\ bus' = bus
    BY <1>4, Zenon DEF Publish
  <2>2. Idle \in [pc : {"idle", "save", "publish", "wait"}, e : Id] /\ Idle.pc = "idle"
    BY Bounds, Zenon DEF Idle
  <2>3. q \in [Producer -> [pc : {"idle", "save", "publish", "wait"}, e : Id]] /\ q[p].pc = "idle"
    BY <1>0, <2>2, Zenon
  <2>4. \A r \in Producer : q[r].pc = "idle"
    BY <2>3, Zenon DEF Alone
  <2> HIDE DEF q
  <2>5. CatchType'
    BY <1>0, <2>1, <2>3, Zenon DEF CatchInv, CatchType
  <2>6. Minting(journal, minted, q)
    BY <2>4, Zenon DEF CatchInv, Minting, Producing
  <2>7. Offers(sub, bus, out, q)
    BY <1>2, <1>4, Zenon DEF Offers
  <2>8. sub.live \/ sub.pc = "off"
    BY <1>4, Zenon DEF CatchInv, Closes
  <2>9. Replays(sub, journal, handled, cp, bus, q)
    BY <2>8, Zenon DEF Replays
  <2>10. Lives(sub, journal, handled, bus, q)
    BY <1>2, <1>4, <2>4, Zenon DEF Lives
  <2> QED
    BY <1>0, <2>1, <2>5, <2>6, <2>7, <2>9, <2>10, Zenon DEF CatchInv
<1>5. CASE ~bus.closed
  <2> DEFINE q == [prod EXCEPT ![p].pc = "wait"]
             o == IF sub.reg THEN e ELSE 0
             w == {x \in {"sub", "leak"} : IF x = "sub" THEN sub.reg ELSE bus.leak}
             b == [bus EXCEPT !.offer = o, !.owed = w]
  <2>1. prod' = q /\ bus' = b
    BY <1>5, Zenon DEF Publish
  <2>2. o \in Id /\ w \in SUBSET {"sub", "leak"} /\ (sub.reg => "sub" \in w)
    BY <1>0, Bounds, Zenon
  <2>3. /\ q \in [Producer -> [pc : {"idle", "save", "publish", "wait"}, e : Id]]
        /\ q[p].pc = "wait" /\ q[p].e = e
    BY <1>0, Zenon
  <2>4. \A r \in Producer : q[r].pc = "wait" /\ q[r].e = e
    BY <2>3, Zenon DEF Alone
  <2> HIDE DEF o, w
  <2>5. /\ b \in [closed : BOOLEAN, leak : BOOLEAN, offer : Id, owed : SUBSET {"sub", "leak"}]
        /\ b.offer = o /\ b.owed = w /\ b.closed = bus.closed
    BY <1>0, <2>2, Zenon
  <2> HIDE DEF q, b
  <2>6. CatchType'
    BY <1>0, <2>1, <2>3, <2>5, Zenon DEF CatchInv, CatchType
  <2>7. Minting(journal, minted, q)
    <3>1. Producing(q[p], journal, minted)
      BY <1>0, <1>3, <2>4, Zenon DEF Producing
    <3>2. \A r \in Producer : Producing(q[r], journal, minted)
      BY <3>1, Zenon DEF Alone
    <3> QED
      BY <3>2, Zenon DEF CatchInv, Minting
  <2>8. sub.reg => Waits(q, b, e) /\ Owed(q, b, e)
    BY <2>2, <2>3, <2>5, Zenon DEF Waits, Owed
  <2>9. sub.reg => \A d : Owed(prod, bus, d) => Owed(q, b, d)
    BY <1>1, <2>8, Zenon
  <2>10. Closes(sub, b, closed)
    BY <2>5, Zenon DEF CatchInv, Closes
  <2>11. Offers(sub, b, out, q)
    <3>1. b.offer # 0 => sub.reg /\ b.offer = e
      BY <2>5, Zenon DEF o
    <3>2. out # <<>> /\ out[1].live => ~sub.reg /\ b.offer = 0
      BY <1>2, <1>5, <3>1, Zenon
    <3> QED
      BY <2>8, <3>1, <3>2, Zenon DEF Offers
  <2>12. Replays(sub, journal, handled, cp, b, q)
    <3>1. Replays(sub, journal, handled, cp, bus, prod)
      BY Zenon DEF CatchInv
    <3> QED
      BY <2>9, <3>1, ReplaysKept, Zenon
  <2>13. Lives(sub, journal, handled, b, q)
    <3> SUFFICES ASSUME sub.live PROVE Lives(sub, journal, handled, b, q)
      BY Zenon DEF Lives
    <3>1. sub.last < e \/ sub.last <= sub.mark
      BY <1>0, Zenon DEF CatchInv, Lives
    <3>2. sub.reg => \A i \in 1..Len(journal) : journal[i] \in handled \/ Owed(q, b, journal[i])
      BY <1>5, <2>9, Zenon DEF CatchInv, Lives
    <3>3. b.offer # 0 => b.offer = e
      BY <2>5, Zenon DEF o
    <3> QED
      BY <2>4, <3>1, <3>2, <3>3, Zenon DEF Lives
  <2> QED
    BY <1>0, <2>1, <2>6, <2>7, <2>10, <2>11, <2>12, <2>13, Zenon DEF CatchInv
<1> QED
  BY <1>0, <1>4, <1>5, Zenon

\* Published.
LEMMA PublishedInv ==
  ASSUME CatchInv, Alone, NEW p \in Producer, Published(p)
  PROVE  CatchInv'
<1> DEFINE q == [prod EXCEPT ![p] = Idle]
           b == [bus EXCEPT !.offer = 0, !.owed = {}]
<1>0. /\ UNCHANGED <<journal, minted, sub, out, reply, cp, handled, closed>>
      /\ prod' = q /\ bus' = b /\ (bus.owed = {} \/ bus.closed)
      /\ prod \in [Producer -> [pc : {"idle", "save", "publish", "wait"}, e : Id]]
      /\ bus \in [closed : BOOLEAN, leak : BOOLEAN, offer : Id, owed : SUBSET {"sub", "leak"}]
      /\ prod[p].pc = "wait"
  BY Fields, Zenon DEF Published
<1>1. Idle \in [pc : {"idle", "save", "publish", "wait"}, e : Id] /\ Idle.pc = "idle"
  BY Bounds DEF Idle
<1>2. q \in [Producer -> [pc : {"idle", "save", "publish", "wait"}, e : Id]] /\ q[p].pc = "idle"
  BY <1>0, <1>1, Zenon
<1>3. \A r \in Producer : q[r].pc = "idle"
  BY <1>2 DEF Alone
<1>4. /\ b \in [closed : BOOLEAN, leak : BOOLEAN, offer : Id, owed : SUBSET {"sub", "leak"}]
      /\ b.offer = 0 /\ b.owed = {} /\ b.closed = bus.closed
  BY <1>0, Bounds, Zenon
<1> HIDE DEF q, b
<1>5. CatchType'
  BY <1>0, <1>2, <1>4, Zenon DEF CatchInv, CatchType
<1>6. Minting(journal, minted, q)
  BY <1>3 DEF CatchInv, Minting, Producing
<1>7. Closes(sub, b, closed)
  BY <1>4, Zenon DEF CatchInv, Closes
<1>8. ~bus.closed => \A d : ~Waits(prod, bus, d) /\ ~Owed(prod, bus, d)
  <2>1. ~bus.closed => "sub" \notin bus.owed
    BY <1>0, Zenon
  <2>2. \A r \in Producer : prod[r].pc = "wait"
    BY <1>0, Zenon DEF Alone
  <2> QED
    BY <2>1, <2>2, Zenon DEF Waits, Owed
<1>9. Offers(sub, b, out, q)
  BY <1>4, <1>8, Zenon DEF CatchInv, Offers
<1>10. Replays(sub, journal, handled, cp, b, q)
  <2>1. CASE bus.closed
    <3>1. sub.live \/ sub.pc = "off"
      BY <2>1 DEF CatchInv, Closes
    <3> QED
      BY <3>1, Zenon DEF Replays
  <2>2. CASE ~bus.closed
    <3>1. Replays(sub, journal, handled, cp, bus, prod)
      BY DEF CatchInv
    <3> QED
      BY <1>8, <2>2, <3>1, ReplaysKept, Zenon
  <2> QED
    BY <2>1, <2>2, Zenon
<1>11. Lives(sub, journal, handled, b, q)
  BY <1>3, <1>4, <1>8, Zenon DEF CatchInv, Lives
<1> QED
  BY <1>0, <1>5, <1>6, <1>7, <1>9, <1>10, <1>11, Zenon DEF CatchInv

-----------------------------------------------------------------------------
(* The steps of the goroutine *)

\* s and t differ in context and registration at most; a registration is not
\* made.
Alike(s, t) ==
  /\ t \in Sub /\ t.pc = s.pc /\ t.cursor = s.cursor /\ t.batch = s.batch
  /\ t.full = s.full /\ t.mark = s.mark /\ t.last = s.last /\ t.live = s.live
  /\ (t.reg => s.reg)

\* A step that keeps the message offered, or withdraws it with the registration.
LEMMA AlikeInv ==
  ASSUME CatchInv, NEW t, Alike(sub, t), sub' = t,
         UNCHANGED <<journal, minted, prod, out, reply, cp, handled>>,
         bus' \in [closed : BOOLEAN, leak : BOOLEAN, offer : Id, owed : SUBSET {"sub", "leak"}],
         closed' \in BOOLEAN, Closes(t, bus', closed'),
         bus.closed => bus'.closed,
         \/ bus'.offer = bus.offer /\ bus'.owed = bus.owed /\ t.reg = sub.reg
         \/ bus'.offer = 0 /\ ~t.reg
  PROVE  CatchInv'
<1> DEFINE b == bus'
<1>0. /\ UNCHANGED <<journal, minted, prod, out, reply, cp, handled>> /\ sub' = t
      /\ (\/ b.offer = bus.offer /\ b.owed = bus.owed /\ t.reg = sub.reg
          \/ b.offer = 0 /\ ~t.reg)
      /\ bus.closed => b.closed
  OBVIOUS
<1>1. CatchType'
  BY Zenon DEF CatchInv, CatchType, Alike
<1>2. Closes(t, b, closed')
  OBVIOUS
<1> HIDE DEF b
<1>3. t.reg => \A e : (Waits(prod, bus, e) => Waits(prod, b, e)) /\ (Owed(prod, bus, e) => Owed(prod, b, e))
  BY <1>0, Zenon DEF Waits, Owed
<1>4. Minting(journal, minted, prod)
  BY Zenon DEF CatchInv
<1>5. Channel(t, out, reply, journal)
  BY Zenon DEF CatchInv, Channel, Alike
<1>6. Offers(t, b, out, prod)
  BY <1>0, <1>3, Zenon DEF CatchInv, Offers
<1>7. Marks(t, journal, handled, cp)
  BY Zenon DEF CatchInv, Marks, Alike
<1>8. Awaits(t, journal, handled, cp, reply)
  BY Zenon DEF CatchInv, Awaits, Alike
<1>9. Replays(t, journal, handled, cp, b, prod)
  <2>1. Replays(sub, journal, handled, cp, bus, prod)
    BY Zenon DEF CatchInv
  <2> QED
    BY <1>3, <2>1, ReplaysKept, Zenon DEF Alike
<1>10. Lives(t, journal, handled, b, prod)
  BY <1>0, <1>3, Zenon DEF CatchInv, Lives, Alike
<1> QED
  BY <1>0, <1>1, <1>2, <1>4, <1>5, <1>6, <1>7, <1>8, <1>9, <1>10, Zenon DEF CatchInv, b

\* The steps that change context, registration and the signal of Close only.
LEMMA SignalInv ==
  ASSUME CatchInv, CloseIn \subseteq {"live"},
         Unregister \/ Release \/ Cancel \/ Close \/ CloseRest
  PROVE  CatchInv'
<1> DEFINE c == [sub EXCEPT !.ctx = TRUE]
           r == [sub EXCEPT !.reg = FALSE]
<1>0. /\ bus \in [closed : BOOLEAN, leak : BOOLEAN, offer : Id, owed : SUBSET {"sub", "leak"}]
      /\ sub \in Sub /\ closed \in BOOLEAN /\ Closes(sub, bus, closed)
  BY Zenon DEF CatchInv, CatchType
<1>1. Alike(sub, sub) /\ Alike(sub, c) /\ c.reg = sub.reg /\ Alike(sub, r) /\ ~r.reg
  BY <1>0, Zenon DEF Alike, Sub
<1> HIDE DEF c, r
<1>2. \A cl, b : Closes(sub, b, cl) => Closes(c, b, cl) /\ Closes(r, b, cl)
  BY <1>1, Zenon DEF Alike, Closes
<1>3. CASE Unregister
  <2> DEFINE b == [bus EXCEPT !.offer = 0, !.owed = @ \ {"sub"}]
  <2>1. /\ b \in [closed : BOOLEAN, leak : BOOLEAN, offer : Id, owed : SUBSET {"sub", "leak"}]
        /\ b.offer = 0 /\ b.closed = bus.closed
    BY <1>0, Bounds, Zenon
  <2>2. /\ sub' = r /\ bus' = b /\ closed' = closed
        /\ UNCHANGED <<journal, minted, prod, out, reply, cp, handled>>
    BY <1>3, Zenon DEF Unregister, r
  <2> HIDE DEF b
  <2>3. Closes(sub, b, closed)
    BY <1>0, <2>1, Zenon DEF Closes
  <2> QED
    BY <1>0, <1>1, <1>2, <2>1, <2>2, <2>3, AlikeInv, Zenon
<1>4. CASE Release \/ Cancel
  <2>1. /\ sub' = c /\ bus' = bus /\ closed' = closed
        /\ UNCHANGED <<journal, minted, prod, out, reply, cp, handled>>
    BY <1>4, Zenon DEF Release, Cancel, c
  <2> QED
    BY <1>0, <1>1, <1>2, <2>1, AlikeInv, Zenon
<1>5. CASE Close
  <2>1. /\ sub' = sub /\ bus' = bus /\ closed' = TRUE /\ sub.live
        /\ UNCHANGED <<journal, minted, prod, out, reply, cp, handled>>
    BY <1>5, Zenon DEF Close
  <2>2. Closes(sub, bus, TRUE)
    BY <2>1, Zenon DEF Closes
  <2> QED
    BY <1>0, <1>1, <2>1, <2>2, AlikeInv, Zenon
<1>6. CASE CloseRest
  <2> DEFINE b == [bus EXCEPT !.closed = TRUE]
  <2>1. /\ b \in [closed : BOOLEAN, leak : BOOLEAN, offer : Id, owed : SUBSET {"sub", "leak"}]
        /\ b.offer = bus.offer /\ b.owed = bus.owed /\ b.closed
    BY <1>0, Zenon
  <2>2. /\ sub' = c /\ bus' = b /\ closed' = closed /\ closed
        /\ UNCHANGED <<journal, minted, prod, out, reply, cp, handled>>
    BY <1>6, Zenon DEF CloseRest, c
  <2> HIDE DEF b
  <2>3. Closes(sub, b, closed)
    BY <1>0, <2>2, Zenon DEF Closes
  <2> QED
    BY <1>0, <1>1, <1>2, <2>1, <2>2, <2>3, AlikeInv, Zenon
<1> QED
  BY <1>3, <1>4, <1>5, <1>6, Zenon

\* A fresh process.
LEMMA FreshInv ==
  ASSUME CatchInv, Fresh
  PROVE  CatchInv'
<1>0. /\ prod' = [p \in Producer |-> Idle] /\ bus' = OpenBus /\ sub' = NoSub /\ out' = <<>>
      /\ reply' = "none" /\ closed' = FALSE /\ UNCHANGED <<journal, minted, cp, handled>>
  BY Zenon DEF Fresh
<1>1. /\ NoSub \in Sub /\ NoSub.pc = "off" /\ NoSub.mark = 0 /\ NoSub.last = 0
      /\ NoSub.cursor = 0 /\ NoSub.live = FALSE
  BY Bounds, Zenon DEF NoSub, Sub
<1>2. /\ OpenBus \in [closed : BOOLEAN, leak : BOOLEAN, offer : Id, owed : SUBSET {"sub", "leak"}]
      /\ OpenBus.offer = 0 /\ OpenBus.closed = FALSE
  BY Bounds, Zenon DEF OpenBus
<1>3. Idle \in [pc : {"idle", "save", "publish", "wait"}, e : Id] /\ Idle.pc = "idle"
  BY Bounds, Zenon DEF Idle
<1>4. CatchType'
  BY <1>0, <1>1, <1>2, <1>3, Bounds, Zenon DEF CatchInv, CatchType
<1>5. Minting(journal, minted, [p \in Producer |-> Idle])
  BY <1>3, Zenon DEF CatchInv, Minting, Producing
<1>6. Channel(NoSub, <<>>, "none", journal)
  BY <1>1 DEF Channel
<1>7. Closes(NoSub, OpenBus, FALSE)
  BY <1>1, <1>2, Zenon DEF Closes
<1>8. Offers(NoSub, OpenBus, <<>>, [p \in Producer |-> Idle])
  BY <1>2, Zenon DEF Offers
<1>9. Marks(NoSub, journal, handled, cp)
  <2>1. Handled(journal, handled, 0)
    BY JournalFacts DEF Handled
  <2> QED
    BY <1>1, <2>1, Zenon DEF CatchInv, Marks, Known
<1>10. /\ Awaits(NoSub, journal, handled, cp, "none")
       /\ Replays(NoSub, journal, handled, cp, OpenBus, [p \in Producer |-> Idle])
       /\ Lives(NoSub, journal, handled, OpenBus, [p \in Producer |-> Idle])
  BY <1>1, Zenon DEF Awaits, Replays, Lives
<1> QED
  BY <1>0, <1>4, <1>5, <1>6, <1>7, <1>8, <1>9, <1>10, Zenon DEF CatchInv

\* Subscribe, SubscribeLive and LoadCheckpoint.
LEMMA BeginInv ==
  ASSUME CatchInv, Subscribe \/ SubscribeLive \/ LoadCheckpoint
  PROVE  CatchInv'
<1>0. /\ bus \in [closed : BOOLEAN, leak : BOOLEAN, offer : Id, owed : SUBSET {"sub", "leak"}]
      /\ sub \in Sub /\ closed \in BOOLEAN /\ Closes(sub, bus, closed) /\ cp \in Id
      /\ Channel(sub, out, reply, journal) /\ Marks(sub, journal, handled, cp)
      /\ Offers(sub, bus, out, prod)
      /\ UNCHANGED <<journal, minted, prod, out, reply, cp, handled, closed>>
  BY Zenon DEF CatchInv, CatchType, Subscribe, SubscribeLive, LoadCheckpoint
<1>1. Handled(journal, handled, 0) /\ Known(journal, 0)
  BY JournalFacts DEF Handled, Known
<1>2. ASSUME NEW t \in Sub, t.pc \in {"subscribe", "load", "read"}, ~t.live,
             t.mark = 0, t.last = 0, t.cursor \in {0, cp, sub.cursor},
             t.pc = "read" => t.cursor = cp, sub' = t,
             out = <<>>, reply = "none", ~closed,
             bus' \in [closed : BOOLEAN, leak : BOOLEAN, offer : Id, owed : SUBSET {"sub", "leak"}],
             bus'.closed = bus.closed,
             bus'.offer # 0 => t.reg /\ Waits(prod, bus', bus'.offer)
      PROVE  CatchInv'
  <2>1. CatchType'
    BY <1>0, <1>2, Zenon DEF CatchInv, CatchType
  <2>2. Channel(t, out, reply, journal)
    BY <1>2, SMTT(30) DEF Channel
  <2>3. Closes(t, bus', closed)
    BY <1>0, <1>2, Zenon DEF Closes
  <2>4. Offers(t, bus', out, prod)
    BY <1>2, Zenon DEF Offers
  <2>5. Marks(t, journal, handled, cp)
    <3>1. cp \in Nat /\ 0 <= cp /\ cp <= cp
      BY <1>0, Bounds
    <3> QED
      BY <1>0, <1>1, <1>2, <3>1, Zenon DEF Marks
  <2>6. /\ Awaits(t, journal, handled, cp, reply)
        /\ Replays(t, journal, handled, cp, bus', prod)
        /\ Lives(t, journal, handled, bus', prod)
    BY <1>2, Zenon DEF Awaits, Replays, Lives
  <2>7. Minting(journal, minted, prod)
    BY Zenon DEF CatchInv
  <2>8. sub' = t
    BY <1>2, Zenon
  <2> QED
    BY <1>0, <2>1, <2>2, <2>3, <2>4, <2>5, <2>6, <2>7, <2>8, Zenon DEF CatchInv
<1>3. CASE Subscribe
  <2> DEFINE t == [NoSub EXCEPT !.pc = "subscribe"]
             w == IF "sub" \in bus.owed THEN {"leak"} ELSE bus.owed
             b == [bus EXCEPT !.leak = TRUE, !.offer = 0, !.owed = w]
  <2>1. sub' = t /\ sub.pc = "off" /\ ~closed /\ out = <<>>
        /\ bus' = IF sub.reg THEN b ELSE bus
    BY <1>3, Zenon DEF Subscribe
  <2>2. /\ t \in Sub /\ t.pc = "subscribe" /\ ~t.live /\ t.mark = 0 /\ t.last = 0
        /\ t.cursor = 0
    BY Bounds, Zenon DEF NoSub, Sub
  <2>3. w \in SUBSET {"sub", "leak"}
    BY <1>0, Zenon
  <2> HIDE DEF w, t
  <2>4. /\ b \in [closed : BOOLEAN, leak : BOOLEAN, offer : Id, owed : SUBSET {"sub", "leak"}]
        /\ b.offer = 0 /\ b.closed = bus.closed
    BY <1>0, <2>3, Bounds, Zenon
  <2> HIDE DEF b
  <2>5. ~sub.reg => bus.offer = 0
    BY <1>0, Zenon DEF Offers
  <2>6. reply = "none"
    BY <1>0, <2>1, Zenon DEF Channel
  <2>7. /\ bus' \in [closed : BOOLEAN, leak : BOOLEAN, offer : Id, owed : SUBSET {"sub", "leak"}]
        /\ bus'.offer = 0 /\ bus'.closed = bus.closed
    BY <1>0, <2>1, <2>4, <2>5, Zenon
  <2> QED
    BY <1>2, <2>1, <2>2, <2>6, <2>7, Zenon
<1>4. ASSUME sub' = End(sub), bus' = bus, sub.pc # "await" PROVE CatchInv'
  <2>1. reply' = "none"
    BY <1>0, <1>4, Zenon DEF Channel
  <2> QED
    BY <1>0, <1>4, <2>1, EndFields, Ends, Zenon
<1>5. CASE SubscribeLive
  <2>1. bus' = bus /\ sub.pc = "subscribe"
    BY <1>5, Zenon DEF SubscribeLive
  <2> DEFINE t == [sub EXCEPT !.pc = "load", !.reg = TRUE]
  <2>2. sub' = t \/ sub' = End(sub)
    BY <1>5, Zenon DEF SubscribeLive
  <2>3. /\ t \in Sub /\ t.pc = "load" /\ t.live = sub.live /\ t.mark = sub.mark
        /\ t.last = sub.last /\ t.cursor = sub.cursor /\ t.reg
    BY <1>0, Zenon DEF Sub
  <2> HIDE DEF t
  <2>4. /\ ~sub.live /\ sub.mark = 0 /\ sub.last = 0 /\ out = <<>> /\ reply = "none" /\ ~closed
    BY <1>0, <2>1, Zenon DEF Channel, Marks, Closes
  <2>5. bus.offer # 0 => Waits(prod, bus, bus.offer)
    BY <1>0, Zenon DEF Offers
  <2> QED
    BY <1>0, <1>2, <1>4, <2>1, <2>2, <2>3, <2>4, <2>5, Zenon
<1>6. CASE LoadCheckpoint
  <2>1. bus' = bus /\ sub.pc = "load"
    BY <1>6, Zenon DEF LoadCheckpoint
  <2> DEFINE t == [sub EXCEPT !.cursor = cp, !.pc = "read"]
  <2>2. sub' = t \/ sub' = End(sub)
    BY <1>6, Zenon DEF LoadCheckpoint
  <2>3. /\ t \in Sub /\ t.pc = "read" /\ t.live = sub.live /\ t.mark = sub.mark
        /\ t.last = sub.last /\ t.cursor = cp /\ t.reg = sub.reg
    BY <1>0, Zenon DEF Sub
  <2> HIDE DEF t
  <2>4. /\ ~sub.live /\ sub.mark = 0 /\ sub.last = 0 /\ out = <<>> /\ reply = "none" /\ ~closed
    BY <1>0, <2>1, Zenon DEF Channel, Marks, Closes
  <2>5. bus.offer # 0 => sub.reg /\ Waits(prod, bus, bus.offer)
    BY <1>0, Zenon DEF Offers
  <2> QED
    BY <1>0, <1>2, <1>4, <2>1, <2>2, <2>3, <2>4, <2>5, Zenon
<1> QED
  BY <1>3, <1>5, <1>6, Zenon

\* Nothing but the goroutine's variables, the channel and the checkpoint moves.
LEMMA MovesInv ==
  ASSUME CatchInv, NEW t \in Sub, sub' = t,
         UNCHANGED <<journal, minted, prod, bus, handled, closed>>,
         out' \in Seq([e : Event, live : BOOLEAN]), reply' \in {"none", "ack", "nack"},
         cp' \in Id, t.reg = sub.reg, closed => t.live,
         Channel(t, out', reply', journal), Offers(t, bus, out', prod),
         Marks(t, journal, handled, cp'), Awaits(t, journal, handled, cp', reply'),
         Replays(t, journal, handled, cp', bus, prod), Lives(t, journal, handled, bus, prod)
  PROVE  CatchInv'
<1>0. UNCHANGED <<journal, minted, prod, bus, handled, closed>> /\ sub' = t
  BY Zenon
<1>1. CatchType'
  BY <1>0, Zenon DEF CatchInv, CatchType
<1>2. Closes(t, bus, closed)
  BY Zenon DEF CatchInv, Closes
<1>3. Minting(journal, minted, prod)
  BY Zenon DEF CatchInv
<1> QED
  BY <1>0, <1>1, <1>2, <1>3, Zenon DEF CatchInv

\* Where the journal goes on after a known id.
LEMMA PosFacts ==
  ASSUME CatchInv, NEW v, Known(journal, v)
  PROVE  /\ Pos(v) \in Nat /\ Pos(v) <= Len(journal)
         /\ \A i \in 1..Pos(v) : i \in 1..Len(journal) /\ journal[i] <= v
         /\ \A i \in (Pos(v) + 1)..Len(journal) : i \in 1..Len(journal) /\ journal[i] > v
<1>0. /\ Len(journal) \in Nat /\ Sorted(journal)
      /\ \A i \in 1..Len(journal) : journal[i] \in Nat /\ journal[i] > 0
  BY JournalFacts, Zenon DEF CatchInv, Minting
<1>1. CASE v = 0
  <2>1. Pos(v) = 0
    BY <1>1, Zenon DEF Pos
  <2> QED
    BY <1>0, <1>1, <2>1
<1>2. CASE v # 0
  <2>1. \E i \in 1..Len(journal) : journal[i] = v
    BY <1>2, Zenon DEF Known
  <2>2. Pos(v) \in 1..Len(journal) /\ journal[Pos(v)] = v
    BY <1>2, <2>1, Zenon DEF Pos
  <2>3. ASSUME NEW i \in 1..Pos(v) PROVE i \in 1..Len(journal) /\ journal[i] <= v
    <3>1. i \in 1..Len(journal) /\ (i < Pos(v) \/ i = Pos(v))
      BY <1>0, <2>2
    <3>2. i < Pos(v) => journal[i] < journal[Pos(v)]
      BY <1>0, <2>2, <3>1, Zenon DEF Sorted
    <3> QED
      BY <1>0, <2>2, <3>1, <3>2
  <2>4. ASSUME NEW i \in (Pos(v) + 1)..Len(journal)
        PROVE  i \in 1..Len(journal) /\ journal[i] > v
    <3>1. i \in 1..Len(journal) /\ Pos(v) < i
      BY <1>0, <2>2
    <3>2. journal[Pos(v)] < journal[i]
      BY <1>0, <2>2, <3>1, Zenon DEF Sorted
    <3> QED
      BY <1>0, <2>2, <3>1, <3>2, Zenon
  <2> QED
    BY <1>0, <2>2, <2>3, <2>4
<1> QED
  BY <1>1, <1>2, Zenon

\* ReadFrom returns the batch that follows the cursor.
LEMMA BatchFacts ==
  ASSUME NEW j \in Seq(Event), NEW k \in Nat, k <= Len(j)
  PROVE  LET all == SubSeq(j, k + 1, Len(j))
             batch == IF Len(all) > BatchSize THEN SubSeq(all, 1, BatchSize) ELSE all IN
         /\ batch \in Seq(Event) /\ Len(batch) \in Nat /\ k + Len(batch) <= Len(j)
         /\ \A i \in 1..Len(batch) : batch[i] = j[k + i]
         /\ Len(batch) # BatchSize => k + Len(batch) = Len(j)
<1> DEFINE all == SubSeq(j, k + 1, Len(j))
           batch == IF Len(all) > BatchSize THEN SubSeq(all, 1, BatchSize) ELSE all
<1>0. Len(j) \in Nat /\ BatchSize \in Nat \ {0}
  BY SeqShape, CatchUpAssumption, Zenon
<1>1. /\ all \in Seq(Event) /\ Len(all) = Len(j) - k
      /\ \A i \in 1..(Len(j) - k) : all[i] = j[k + i]
  BY <1>0, SeqShape
<1> HIDE DEF all
<1>2. CASE Len(all) > BatchSize
  <2>1. batch = SubSeq(all, 1, BatchSize)
    BY <1>2, Zenon
  <2>2. /\ batch \in Seq(Event) /\ Len(batch) = BatchSize
        /\ \A i \in 1..BatchSize : batch[i] = all[i]
    BY <1>0, <1>1, <1>2, <2>1, SeqShape
  <2>3. ASSUME NEW i \in 1..BatchSize PROVE batch[i] = j[k + i]
    <3>1. i \in 1..(Len(j) - k)
      BY <1>0, <1>1, <1>2
    <3> QED
      BY <1>1, <2>2, <3>1, Zenon
  <2> QED
    BY <1>0, <1>1, <1>2, <2>2, <2>3, SMTT(30) DEF all
<1>3. CASE ~(Len(all) > BatchSize)
  <2>1. batch = all
    BY <1>3, Zenon
  <2> QED
    BY <1>0, <1>1, <2>1 DEF all
<1> QED
  BY <1>2, <1>3, Zenon

-----------------------------------------------------------------------------
(* The replay, the live phase and the consumer *)

\* Ending the subscription from a state that is not awaiting an answer.
LEMMA EndInv ==
  ASSUME CatchInv, sub' = End(sub), reply' = "none" \/ (sub.pc # "await" /\ reply' = reply),
         UNCHANGED <<journal, minted, prod, out, cp, handled, closed>>,
         bus' = bus \/ bus' = [bus EXCEPT !.offer = 0]
  PROVE  CatchInv'
<1>1. reply' = "none" /\ sub \in Sub
  BY Zenon DEF CatchInv, Channel, CatchType
<1> QED
  BY <1>1, EndFields, Ends, Zenon

\* A replay does not meet the closed channel.
LEMMA ReplayOpen ==
  ASSUME CatchInv, sub.pc # "off", ~sub.live
  PROVE  ~closed
BY Zenon DEF CatchInv, Closes

\* ReadBatch.
LEMMA ReadInv ==
  ASSUME CatchInv, ReadBatch
  PROVE  CatchInv'
<1> DEFINE k == Pos(sub.cursor)
           all == SubSeq(journal, k + 1, Len(journal))
           batch == IF Len(all) > BatchSize THEN SubSeq(all, 1, BatchSize) ELSE all
           f == Len(batch) = BatchSize
           l == [sub EXCEPT !.pc = "live", !.live = TRUE]
           t == [sub EXCEPT !.pc = "event", !.batch = batch, !.full = f]
<1>0. /\ UNCHANGED <<journal, minted, prod, bus, out, reply, cp, handled, closed>>
      /\ sub.pc = "read" /\ sub \in Sub /\ journal \in Seq(Event)
      /\ Channel(sub, out, reply, journal) /\ Marks(sub, journal, handled, cp)
      /\ Offers(sub, bus, out, prod) /\ out = <<>> /\ reply = "none" /\ ~sub.live
      /\ cp \in Id
  BY Zenon DEF ReadBatch, CatchInv, CatchType, Channel
<1>1. ~closed
  BY <1>0, ReplayOpen, Zenon
<1>2. \/ sub' = End(sub)
      \/ batch = <<>> /\ sub' = l
      \/ batch # <<>> /\ sub' = t
  BY <1>1, Zenon DEF ReadBatch, StopReplay
<1>3. /\ Known(journal, sub.cursor) /\ Handled(journal, handled, sub.cursor)
      /\ cp <= sub.cursor /\ sub.mark <= sub.cursor /\ sub.last = sub.mark
      /\ sub.cursor \in Nat /\ cp \in Nat /\ sub.mark \in Nat
  BY <1>0, Fields, Zenon DEF Marks
<1>4. /\ k \in Nat /\ k <= Len(journal)
      /\ \A i \in 1..k : i \in 1..Len(journal) /\ journal[i] <= sub.cursor
      /\ \A i \in (k + 1)..Len(journal) : i \in 1..Len(journal) /\ journal[i] > sub.cursor
  BY <1>3, PosFacts, Zenon
<1>5. /\ batch \in Seq(Event) /\ Len(batch) \in Nat /\ k + Len(batch) <= Len(journal)
      /\ \A i \in 1..Len(batch) : batch[i] = journal[k + i]
      /\ Len(batch) # BatchSize => k + Len(batch) = Len(journal)
  BY <1>0, <1>4, BatchFacts, Zenon
<1>6. \A i \in 1..k : journal[i] \in handled
  BY <1>3, <1>4, Zenon DEF Handled
<1>7. \A i \in (k + 1)..Len(journal) : journal[i] > cp /\ journal[i] > sub.mark
  <2>1. \A i \in 1..Len(journal) : journal[i] \in Nat
    BY JournalFacts, Zenon
  <2> QED
    BY <1>3, <1>4, <2>1
<1> HIDE DEF batch, k
<1>8. CASE batch = <<>> /\ sub' = l
  <2>1. Len(batch) = 0 /\ BatchSize # 0 /\ Len(journal) \in Nat
    BY <1>8, CatchUpAssumption, JournalFacts, Zenon
  <2>2. k = Len(journal)
    BY <1>4, <1>5, <2>1
  <2>3. /\ l \in Sub /\ l.pc = "live" /\ l.live = TRUE /\ l.mark = sub.mark /\ l.last = sub.last
        /\ l.cursor = sub.cursor /\ l.reg = sub.reg
    BY <1>0, Zenon DEF Sub
  <2> HIDE DEF l
  <2>4. Channel(l, out, reply, journal)
    BY <1>0, <2>3, Zenon DEF Channel
  <2>5. Offers(l, bus, out, prod)
    BY <1>0, <2>3, Zenon DEF Offers
  <2>6. Marks(l, journal, handled, cp)
    BY <1>0, <2>3, Zenon DEF Marks
  <2>7. Awaits(l, journal, handled, cp, reply) /\ Replays(l, journal, handled, cp, bus, prod)
    BY <2>3, Zenon DEF Awaits, Replays
  <2>8. Lives(l, journal, handled, bus, prod)
    <3>1. \A i \in 1..Len(journal) : journal[i] \in handled
      BY <1>6, <2>2, Zenon
    <3>2. l.last <= l.mark
      BY <1>3, <2>3
    <3> QED
      BY <3>1, <3>2, Zenon DEF Lives
  <2>9. /\ out' \in Seq([e : Event, live : BOOLEAN]) /\ reply' \in {"none", "ack", "nack"}
        /\ cp' \in Id
    BY <1>0, Bounds, Zenon
  <2> QED
    BY <1>0, <1>1, <1>8, <2>3, <2>4, <2>5, <2>6, <2>7, <2>8, <2>9, MovesInv, Zenon
<1>9. CASE batch # <<>> /\ sub' = t
  <2>0. f \in BOOLEAN
    OBVIOUS
  <2>1. ~f => k + Len(batch) = Len(journal)
    BY <1>5, Zenon
  <2> HIDE DEF f
  <2>3. /\ t \in Sub /\ t.pc = "event" /\ t.live = sub.live /\ t.mark = sub.mark
        /\ t.last = sub.last /\ t.cursor = sub.cursor /\ t.reg = sub.reg /\ t.batch = batch
        /\ t.full = f
    BY <1>0, <1>5, <2>0, Zenon DEF Sub
  <2> HIDE DEF t
  <2>4. Channel(t, out, reply, journal)
    BY <1>0, <2>3, Zenon DEF Channel
  <2>5. Offers(t, bus, out, prod)
    BY <1>0, <2>3, Zenon DEF Offers
  <2>6. Marks(t, journal, handled, cp)
    BY <1>0, <1>3, <2>3, Zenon DEF Marks
  <2>7. Awaits(t, journal, handled, cp, reply) /\ Lives(t, journal, handled, bus, prod)
    BY <1>0, <2>3, Zenon DEF Awaits, Lives
  <2>8. BatchAt(t, journal, handled, cp, bus, prod, k)
    <3>1. ~f => \A i \in (k + Len(batch) + 1)..Len(journal) : FALSE
      BY <1>4, <1>5, <2>1
    <3> QED
      BY <1>5, <1>6, <1>7, <1>9, <2>3, <3>1, Zenon DEF BatchAt
  <2>9. Replays(t, journal, handled, cp, bus, prod)
    BY <1>4, <2>3, <2>8, Zenon DEF Replays
  <2>10. /\ out' \in Seq([e : Event, live : BOOLEAN]) /\ reply' \in {"none", "ack", "nack"}
         /\ cp' \in Id
    BY <1>0, Bounds
  <2> QED
    BY <1>0, <1>1, <1>9, <2>3, <2>4, <2>5, <2>6, <2>7, <2>9, <2>10, MovesInv, Zenon
<1>10. CASE sub' = End(sub)
  BY <1>0, <1>10, EndInv, Zenon
<1> QED
  BY <1>2, <1>8, <1>9, <1>10, Zenon

\* What the consumer finds in the channel.
LEMMA MessageFacts ==
  ASSUME NEW e \in Event, NEW v \in BOOLEAN
  PROVE  LET o == Append(<<>>, [e |-> e, live |-> v]) IN
         /\ o \in Seq([e : Event, live : BOOLEAN]) /\ Len(o) = 1
         /\ o[1].e = e /\ o[1].live = v /\ o # <<>>
<1> DEFINE m == [e |-> e, live |-> v]
<1>1. m \in [e : Event, live : BOOLEAN] /\ m.e = e /\ m.live = v
  OBVIOUS
<1> HIDE DEF m
<1>2. <<>> \in Seq([e : Event, live : BOOLEAN]) /\ Len(<<>>) = 0
  OBVIOUS
<1>3. /\ Append(<<>>, m) \in Seq([e : Event, live : BOOLEAN])
      /\ Len(Append(<<>>, m)) = 0 + 1 /\ Append(<<>>, m)[0 + 1] = m
  BY <1>1, <1>2
<1>4. Append(<<>>, m) # <<>>
  BY <1>2, <1>3
<1> QED
  BY <1>1, <1>3, <1>4 DEF m

\* ReplayEvent.
LEMMA ReplayInv ==
  ASSUME CatchInv, ReplayEvent
  PROVE  CatchInv'
<1> DEFINE e == Head(sub.batch)
           t == [sub EXCEPT !.pc = "await", !.last = e]
           o == Append(<<>>, [e |-> e, live |-> FALSE])
<1>0. /\ UNCHANGED <<journal, minted, prod, bus, cp, handled, closed>>
      /\ sub.pc = "event" /\ sub \in Sub /\ journal \in Seq(Event)
      /\ Channel(sub, out, reply, journal) /\ Marks(sub, journal, handled, cp)
      /\ Offers(sub, bus, out, prod) /\ out = <<>> /\ reply = "none" /\ ~sub.live
      /\ cp \in Id /\ sub.live \in BOOLEAN
  BY Zenon DEF ReplayEvent, CatchInv, CatchType, Channel, Sub
<1>1. ~closed
  BY <1>0, ReplayOpen, Zenon
<1>2. PICK k \in Nat : BatchAt(sub, journal, handled, cp, bus, prod, k)
  BY <1>0, Zenon DEF CatchInv, Replays
<1>3. /\ sub.batch \in Seq(Event) /\ sub.batch # <<>> /\ e \in Event /\ e = sub.batch[1]
      /\ Len(sub.batch) \in Nat /\ Len(sub.batch) > 0
  <2>1. sub.batch \in Seq(Event) /\ sub.batch # <<>>
    BY <1>2, Fields, Zenon DEF BatchAt
  <2>2. Len(sub.batch) \in Nat /\ Len(sub.batch) > 0
    BY <2>1, SeqShape
  <2>3. e \in Event /\ e = sub.batch[1]
    BY <2>1
  <2> QED
    BY <2>1, <2>2, <2>3, Zenon
<1>4. \/ sub' = End(sub) /\ UNCHANGED <<out, reply>>
      \/ sub' = t /\ out' = o /\ reply' = "none"
  BY <1>0, <1>1, Zenon DEF ReplayEvent, StopReplay, Forward
<1>5. /\ t \in Sub /\ t.pc = "await" /\ t.last = e
      /\ t.cursor = sub.cursor /\ t.batch = sub.batch /\ t.full = sub.full /\ t.mark = sub.mark
      /\ t.live = sub.live /\ t.ctx = sub.ctx /\ t.reg = sub.reg
  BY <1>0, <1>3, ForwardFields, Zenon
<1>6. /\ o \in Seq([e : Event, live : BOOLEAN]) /\ Len(o) = 1
      /\ o[1].e = e /\ o[1].live = FALSE /\ o # <<>>
  BY <1>3, MessageFacts, Zenon
<1>7. /\ k + 1 \in 1..Len(journal) /\ journal[k + 1] = e /\ Len(journal) \in Nat
      /\ k + Len(sub.batch) <= Len(journal)
  <2>1. k + Len(sub.batch) <= Len(journal) /\ sub.batch[1] = journal[k + 1]
    BY <1>2, <1>3 DEF BatchAt
  <2> QED
    BY <1>3, <2>1, JournalFacts
<1>8. Known(journal, e) /\ e \in Nat /\ e # 0
  BY <1>3, <1>7, Bounds, Zenon DEF Known
<1>9. CASE sub' = t /\ out' = o /\ reply' = "none"
  <2> HIDE DEF t, o, e
  <2>1. Channel(t, o, "none", journal)
    <3>1. sub.live = FALSE
      BY <1>0, Zenon
    <3>2. \A i \in 1..Len(o) : i = 1
      BY <1>6
    <3>3. \A i \in 1..Len(o) : Known(journal, o[i].e)
      BY <1>6, <1>8, <3>2, Zenon
    <3>4. Len(o) <= 1
      BY <1>6
    <3>5. o[1].live = t.live /\ ~t.live
      BY <1>5, <1>6, <3>1, Zenon
    <3> QED
      BY <1>5, <1>6, <3>3, <3>4, <3>5, Zenon DEF Channel
  <2>2. Offers(t, bus, o, prod)
    BY <1>0, <1>5, <1>6, Zenon DEF Offers
  <2>3. Marks(t, journal, handled, cp)
    BY <1>0, <1>5, <1>8, Zenon DEF Marks
  <2>4. Before(journal, handled, e)
    <3> SUFFICES ASSUME NEW i \in 1..Len(journal), journal[i] < e PROVE journal[i] \in handled
      BY Zenon DEF Before
    <3>1. i \in 1..k
      <4>1. ~(k + 1 < i) /\ i # k + 1
        <5>1. k + 1 < i => e < journal[i]
          BY <1>7, Zenon DEF CatchInv, Minting, Sorted
        <5>2. journal[i] \in Nat
          BY JournalFacts, Zenon
        <5> QED
          BY <1>7, <1>8, <5>1, <5>2
      <4> QED
        BY <4>1
    <3> QED
      BY <1>2, <3>1, Zenon DEF BatchAt
  <2>5. cp <= e
    <3>1. k + 1 \in (k + 1)..Len(journal)
      BY <1>7
    <3>2. e > cp /\ cp \in Nat
      BY <1>2, <1>7, <3>1, Fields, Zenon DEF BatchAt
    <3> QED
      BY <1>8, <3>2
  <2>6. Awaits(t, journal, handled, cp, "none")
    BY <1>5, <1>8, <2>4, <2>5, Zenon DEF Awaits
  <2>7. BatchAt(t, journal, handled, cp, bus, prod, k)
    BY <1>2, <1>5, Zenon DEF BatchAt
  <2>8. Replays(t, journal, handled, cp, bus, prod)
    BY <1>5, <2>7, Zenon DEF Replays, e
  <2>9. Lives(t, journal, handled, bus, prod)
    BY <1>0, <1>5, Zenon DEF Lives
  <2>10. out' = o /\ reply' = "none" /\ cp' = cp /\ sub' = t
    BY <1>0, <1>9, Zenon
  <2> QED
    BY <1>0, <1>1, <1>5, <1>6, <2>1, <2>2, <2>3, <2>6, <2>8, <2>9, <2>10, MovesInv, Zenon
<1>10. CASE sub' = End(sub) /\ UNCHANGED <<out, reply>>
  BY <1>0, <1>10, EndInv, Zenon
<1> QED
  BY <1>4, <1>9, <1>10, Zenon

\* What was awaited and acked is covered: nothing before it is left.
LEMMA AckedCovers ==
  ASSUME CatchInv, sub.pc = "await", reply = "ack"
  PROVE  /\ Handled(journal, handled, sub.last) /\ Known(journal, sub.last)
         /\ sub.last # 0 /\ cp <= sub.last
<1>1. /\ Before(journal, handled, sub.last) /\ sub.last \in handled /\ sub.last # 0
      /\ cp <= sub.last /\ Known(journal, sub.last)
  BY Zenon DEF CatchInv, Awaits, Marks
<1>2. \A i \in 1..Len(journal) : journal[i] \in Nat
  BY JournalFacts, Zenon
<1>3. sub.last \in Nat
  BY Fields, Zenon
<1>4. \A i \in 1..Len(journal) : journal[i] <= sub.last => journal[i] < sub.last \/ journal[i] = sub.last
  BY <1>2, <1>3
<1> QED
  BY <1>1, <1>4, Zenon DEF Handled, Before

\* Acked.
LEMMA AckedInv ==
  ASSUME CatchInv, Acked
  PROVE  CatchInv'
<1>0. /\ UNCHANGED <<journal, minted, prod, bus, out, handled, closed>>
      /\ sub.pc = "await" /\ reply = "ack" /\ reply' = "none" /\ sub \in Sub
      /\ Channel(sub, out, reply, journal) /\ Marks(sub, journal, handled, cp)
      /\ Offers(sub, bus, out, prod) /\ out = <<>>
      /\ cp \in Id /\ sub.last \in Id /\ sub.last \in Nat /\ cp \in Nat
      /\ (cp' = sub.last \/ cp' = cp)
  BY Fields, Zenon DEF Acked, CatchInv, CatchType, Channel, Sub
<1>1. /\ Handled(journal, handled, sub.last) /\ Known(journal, sub.last)
      /\ sub.last # 0 /\ cp <= sub.last
  BY <1>0, AckedCovers, Zenon
<1>2. cp' \in Id /\ cp' \in Nat /\ cp' <= sub.last /\ Known(journal, cp') /\ Handled(journal, handled, cp')
  BY <1>0, <1>1 DEF Marks
<1>3. out' \in Seq([e : Event, live : BOOLEAN]) /\ out' = <<>>
  BY <1>0, Bounds, Zenon
<1>4. CASE sub.live
  <2> DEFINE t == [sub EXCEPT !.pc = "live"]
  <2>1. sub' = t
    BY <1>4, Zenon DEF Acked
  <2>2. /\ t \in Sub /\ t.pc = "live" /\ t.live = sub.live /\ t.mark = sub.mark
        /\ t.last = sub.last /\ t.cursor = sub.cursor /\ t.reg = sub.reg
    BY <1>0, Zenon DEF Sub
  <2> HIDE DEF t
  <2>3. Channel(t, <<>>, "none", journal)
    BY <1>0, <1>4, <2>2, Zenon DEF Channel
  <2>4. Offers(t, bus, <<>>, prod)
    BY <1>0, <2>2, Zenon DEF Offers
  <2>5. Marks(t, journal, handled, cp')
    BY <1>0, <1>2, <1>4, <2>2, Zenon DEF Marks
  <2>6. Awaits(t, journal, handled, cp', "none") /\ Replays(t, journal, handled, cp', bus, prod)
    BY <2>2, Zenon DEF Awaits, Replays
  <2>7. Lives(t, journal, handled, bus, prod)
    BY <2>2, Zenon DEF CatchInv, Lives
  <2> QED
    BY <1>0, <1>2, <1>3, <1>4, <2>1, <2>2, <2>3, <2>4, <2>5, <2>6, <2>7, MovesInv, Zenon
<1>5. CASE ~sub.live
  <2> DEFINE t == NextReplay(sub)
             e == Head(sub.batch)
  <2>0. sub' = t
    BY <1>5, Zenon DEF Acked
  <2>1. ~closed
    BY <1>0, <1>5, ReplayOpen, Zenon
  <2>2. /\ \E k \in Nat : BatchAt(sub, journal, handled, cp, bus, prod, k)
        /\ sub.last = e
    BY <1>0, <1>5, Zenon DEF CatchInv, Replays
  <2>3. PICK k \in Nat : BatchAt(sub, journal, handled, cp, bus, prod, k)
    BY <2>2, Zenon
  <2>4. /\ sub.batch \in Seq(Event) /\ sub.batch # <<>> /\ e = sub.batch[1]
        /\ Tail(sub.batch) \in Seq(Event) /\ Len(Tail(sub.batch)) = Len(sub.batch) - 1
        /\ \A i \in 1..Len(Tail(sub.batch)) : Tail(sub.batch)[i] = sub.batch[i + 1]
        /\ Len(sub.batch) \in Nat /\ Len(sub.batch) > 0
    <3>1. sub.batch \in Seq(Event) /\ sub.batch # <<>>
      BY <2>3, Fields DEF BatchAt
    <3>2. Len(sub.batch) \in Nat /\ Len(sub.batch) > 0
      BY <3>1, SeqShape
    <3> QED
      BY <3>1, <3>2
  <2>5. /\ t \in Sub /\ t.mark = e /\ t.last = sub.last /\ t.batch = Tail(sub.batch)
        /\ t.ctx = sub.ctx /\ t.reg = sub.reg /\ t.full = sub.full
        /\ \/ t.batch # <<>> /\ t.pc = "event" /\ t.live = sub.live /\ t.cursor = sub.cursor
           \/ /\ t.batch = <<>> /\ sub.full /\ t.pc = "read" /\ t.live = sub.live
              /\ t.cursor = e
           \/ /\ t.batch = <<>> /\ ~sub.full /\ t.pc = "live" /\ t.live = TRUE
              /\ t.cursor = sub.cursor
    BY <1>0, <2>4, NextFields, Zenon
  <2>6. /\ k + 1 \in 1..Len(journal) /\ journal[k + 1] = e /\ Len(journal) \in Nat
        /\ k + Len(sub.batch) <= Len(journal)
    <3>1. k + Len(sub.batch) <= Len(journal) /\ sub.batch[1] = journal[k + 1]
      BY <2>3, <2>4, SMTT(30) DEF BatchAt
    <3> QED
      BY <2>4, <3>1, JournalFacts
  <2> HIDE DEF t, e
  <2>7. Channel(t, <<>>, "none", journal)
    BY <1>0, <1>5, <2>5, Zenon DEF Channel
  <2>8. Offers(t, bus, <<>>, prod)
    BY <1>0, <2>5, Zenon DEF Offers
  <2>9. Marks(t, journal, handled, cp')
    <3>1. cp' <= e /\ e <= e
      BY <1>0, <1>2, <2>2
    <3> QED
      BY <1>0, <1>1, <1>2, <2>2, <2>5, <3>1, Zenon DEF Marks
  <2>10. Awaits(t, journal, handled, cp', "none")
    BY <2>5, Zenon DEF Awaits
  <2>11. \A i \in 1..(k + 1) : journal[i] \in handled
    <3>1. \A i \in 1..k : journal[i] \in handled
      BY <2>3, Zenon DEF BatchAt
    <3>2. journal[k + 1] \in handled
      BY <1>0, <2>2, <2>6, Zenon DEF CatchInv, Awaits
    <3> QED
      BY <3>1, <3>2
  <2>12. \A i \in (k + 2)..Len(journal) : journal[i] > cp' /\ journal[i] > e
    <3> SUFFICES ASSUME NEW i \in (k + 2)..Len(journal)
                 PROVE  journal[i] > cp' /\ journal[i] > e
      OBVIOUS
    <3>1. i \in 1..Len(journal) /\ k + 1 < i
      BY <2>6
    <3>2. journal[k + 1] < journal[i] /\ journal[i] \in Nat
      BY <2>6, <3>1, JournalFacts, Zenon DEF CatchInv, Minting, Sorted
    <3> QED
      BY <1>0, <1>2, <2>2, <2>6, <3>2
  <2>13. sub.reg /\ ~sub.full =>
           \A i \in (k + Len(sub.batch) + 1)..Len(journal) : Owed(prod, bus, journal[i])
    BY <2>3, Zenon DEF BatchAt
  <2>14. Replays(t, journal, handled, cp', bus, prod)
    <3> SUFFICES ASSUME t.pc = "event"
                 PROVE  BatchAt(t, journal, handled, cp', bus, prod, k + 1)
      <4>1. k + 1 \in Nat
        OBVIOUS
      <4>2. t.pc \in {"event", "await"} => t.pc = "event" /\ t.pc # "await"
        <5>1. t.pc = "event" \/ t.pc = "read" \/ t.pc = "live"
          BY <2>5, Zenon
        <5> QED
          BY <5>1, Zenon
      <4> QED
        BY <4>1, <4>2, Zenon DEF Replays
    <3>0. t.batch # <<>> /\ t.batch = Tail(sub.batch)
      <4>1. t.pc # "read" /\ t.pc # "live"
        OBVIOUS
      <4> QED
        BY <2>5, <4>1, Zenon
    <3>1. t.batch # <<>> /\ (k + 1) + Len(t.batch) = k + Len(sub.batch)
      <4>1. Len(t.batch) = Len(sub.batch) - 1 /\ Len(sub.batch) \in Nat
        BY <2>4, <3>0, Zenon
      <4>2. \A n \in Nat : (k + 1) + (n - 1) = k + n
        OBVIOUS
      <4>3. (k + 1) + Len(t.batch) = k + Len(sub.batch)
        BY <4>1, <4>2, Zenon
      <4> QED
        BY <3>0, <4>3, Zenon
    <3>2. ASSUME NEW i \in 1..Len(t.batch) PROVE t.batch[i] = journal[(k + 1) + i]
      <4>1. i + 1 \in 1..Len(sub.batch) /\ k + (i + 1) = (k + 1) + i
        BY <2>4, <2>5
      <4>2. sub.batch[i + 1] = journal[k + (i + 1)]
        BY <2>3, <4>1, Zenon DEF BatchAt
      <4> QED
        BY <2>4, <2>5, <4>1, <4>2, Zenon
    <3>3. (k + 1) + 1 = k + 2
      OBVIOUS
    <3> QED
      BY <2>5, <2>6, <2>11, <2>12, <2>13, <3>1, <3>2, <3>3, Zenon DEF BatchAt
  <2>15. Lives(t, journal, handled, bus, prod)
    <3> SUFFICES ASSUME t.live PROVE Lives(t, journal, handled, bus, prod)
      BY Zenon DEF Lives
    <3>1. t.batch = <<>> /\ ~sub.full
      BY <1>5, <2>5, Zenon
    <3>2. Len(sub.batch) = 1
      <4>0. Tail(sub.batch) = <<>>
        BY <2>5, <3>1, Zenon
      <4>1. Len(<<>>) = 0
        OBVIOUS
      <4>2. 0 = Len(sub.batch) - 1
        BY <2>4, <4>0, <4>1, Zenon
      <4> QED
        BY <2>4, <4>2
    <3>3. \A i \in 1..Len(journal) : i \in 1..(k + 1) \/ i \in (k + Len(sub.batch) + 1)..Len(journal)
      BY <2>6, <3>2
    <3>4. sub.reg => \A i \in 1..Len(journal) : journal[i] \in handled \/ Owed(prod, bus, journal[i])
      BY <2>11, <2>13, <3>1, <3>3, Zenon
    <3>5. t.last <= t.mark
      BY <1>0, <2>2, <2>5
    <3> QED
      BY <2>5, <3>4, <3>5, Zenon DEF Lives
  <2> QED
    BY <1>0, <1>2, <1>3, <2>0, <2>1, <2>5, <2>7, <2>8, <2>9, <2>10, <2>14, <2>15, MovesInv, Zenon
<1> QED
  BY <1>4, <1>5, Zenon

\* A step that leaves the journal, the producers and the checkpoint alone.
LEMMA WholeInv ==
  ASSUME CatchInv, NEW t \in Sub, NEW o \in Seq([e : Event, live : BOOLEAN]),
         NEW b \in [closed : BOOLEAN, leak : BOOLEAN, offer : Id, owed : SUBSET {"sub", "leak"}],
         NEW h, NEW r \in {"none", "ack", "nack"}, h \subseteq Event,
         sub' = t, bus' = b, out' = o, reply' = r, handled' = h,
         UNCHANGED <<journal, minted, prod, cp, closed>>,
         Channel(t, o, r, journal), Closes(t, b, closed), Offers(t, b, o, prod),
         Marks(t, journal, h, cp), Awaits(t, journal, h, cp, r),
         Replays(t, journal, h, cp, b, prod), Lives(t, journal, h, b, prod)
  PROVE  CatchInv'
<1>0. UNCHANGED <<journal, minted, prod, cp, closed>>
  OBVIOUS
<1>1. CatchType'
  BY <1>0, Zenon DEF CatchInv, CatchType
<1>2. Minting(journal, minted, prod)
  BY Zenon DEF CatchInv
<1> QED
  BY <1>0, <1>1, <1>2, Zenon DEF CatchInv

\* Nacked, Interrupted and StopLive: the goroutine returns.
LEMMA StopInv ==
  ASSUME CatchInv, Nacked \/ Interrupted \/ StopLive
  PROVE  CatchInv'
<1>1. CASE Nacked
  BY <1>1, EndInv, Zenon DEF Nacked
<1>2. CASE Interrupted
  <2>1. ~sub.live => ~closed
    BY <1>2, ReplayOpen, Zenon DEF Interrupted
  <2>2. sub' = End(sub)
    BY <1>2, <2>1, Zenon DEF Interrupted, StopReplay
  <2> QED
    BY <1>2, <2>2, EndInv, Zenon DEF Interrupted
<1>3. CASE StopLive
  BY <1>3, EndInv, Zenon DEF StopLive
<1> QED
  BY <1>1, <1>2, <1>3

\* What the bus offers is the newest event, and the only one not yet handled.
LEMMA OfferFacts ==
  ASSUME CatchInv, Alone, sub.pc = "live", bus.offer # 0
  PROVE  /\ Len(journal) \in 1..Len(journal) /\ bus.offer = journal[Len(journal)]
         /\ bus.offer \in Event /\ bus.offer \in Nat
         /\ sub.reg /\ Waits(prod, bus, bus.offer) /\ sub.live = TRUE
         /\ \A i \in 1..Len(journal) : journal[i] \in handled \/ journal[i] = bus.offer
         /\ \A p \in Producer : prod[p].pc = "wait"
         /\ cp <= bus.offer /\ out = <<>> /\ reply = "none"
<1>1. /\ sub.reg /\ Waits(prod, bus, bus.offer) /\ sub.live /\ out = <<>> /\ reply = "none"
      /\ bus.offer \in Id /\ sub.live \in BOOLEAN
  BY Fields, Zenon DEF CatchInv, Offers, Channel, Sub
<1>2. PICK p \in Producer : prod[p].pc = "wait" /\ prod[p].e = bus.offer
  BY <1>1, Zenon DEF Waits
<1>3. Len(journal) > 0 /\ bus.offer = journal[Len(journal)]
  BY <1>2, Zenon DEF CatchInv, Minting, Producing
<1>4. Len(journal) \in 1..Len(journal)
  BY <1>3, JournalFacts
<1>5. \A i \in 1..Len(journal) : journal[i] \in handled \/ Owed(prod, bus, journal[i])
  BY <1>1, Zenon DEF CatchInv, Lives
<1>6. \A i \in 1..Len(journal) : journal[i] \in handled \/ journal[i] = bus.offer
  BY <1>2, <1>5, NothingOwed, ZenonT(40)
<1>7. \A q \in Producer : prod[q].pc = "wait"
  BY <1>2, Zenon DEF Alone
<1>8. cp <= bus.offer
  BY <1>3, JournalFacts, Zenon DEF CatchInv, Marks
<1>9. bus.offer \in Event /\ bus.offer \in Nat
  BY <1>3, <1>4, JournalFacts, Zenon
<1>10. sub.live = TRUE
  BY <1>1, Zenon
<1> QED
  BY <1>1, <1>3, <1>4, <1>6, <1>7, <1>8, <1>9, <1>10, Zenon

\* ReceiveLive drops the message the watermark covers.
LEMMA SuppressInv ==
  ASSUME CatchInv, Alone, sub.pc = "live", bus.offer # 0, Suppressed(bus.offer),
         bus' = [bus EXCEPT !.offer = 0, !.owed = @ \ {"sub"}],
         UNCHANGED <<journal, minted, prod, sub, out, reply, cp, handled, closed>>
  PROVE  CatchInv'
<1> DEFINE b == [bus EXCEPT !.offer = 0, !.owed = @ \ {"sub"}]
<1>1. /\ b \in [closed : BOOLEAN, leak : BOOLEAN, offer : Id, owed : SUBSET {"sub", "leak"}]
      /\ b.offer = 0 /\ b.closed = bus.closed
  BY Fields, Bounds, Zenon
<1>2. bus' = b
  OBVIOUS
<1> HIDE DEF b
<1>3. /\ sub \in Sub /\ out \in Seq([e : Event, live : BOOLEAN]) /\ handled \subseteq Event
      /\ reply \in {"none", "ack", "nack"}
  BY Zenon DEF CatchInv, CatchType
<1>4. journal[Len(journal)] \in handled
  BY OfferFacts, Zenon DEF CatchInv, Marks, Handled, Suppressed
<1>5. \A i \in 1..Len(journal) : journal[i] \in handled
  BY <1>4, OfferFacts, Zenon
<1>6. /\ Channel(sub, out, reply, journal) /\ Marks(sub, journal, handled, cp)
      /\ Awaits(sub, journal, handled, cp, reply)
  BY Zenon DEF CatchInv
<1>7. Closes(sub, b, closed)
  BY <1>1, Zenon DEF CatchInv, Closes
<1>8. Offers(sub, b, out, prod)
  BY <1>1, OfferFacts, Zenon DEF Offers
<1>9. Replays(sub, journal, handled, cp, b, prod)
  BY OfferFacts, Zenon DEF Replays
<1>10. Lives(sub, journal, handled, b, prod)
  BY <1>1, <1>5, OfferFacts, Zenon DEF Lives
<1> QED
  BY <1>1, <1>2, <1>3, <1>6, <1>7, <1>8, <1>9, <1>10, WholeInv, Zenon

\* ReceiveLive forwards a message.
LEMMA LiveInv ==
  ASSUME CatchInv, Alone, sub.pc = "live", bus.offer # 0, Forward(sub, bus.offer, TRUE),
         bus' = [bus EXCEPT !.offer = 0],
         UNCHANGED <<journal, minted, prod, cp, handled, closed>>
  PROVE  CatchInv'
<1>0. PICK e : e = bus.offer
  OBVIOUS
<1> DEFINE b == [bus EXCEPT !.offer = 0]
           t == [sub EXCEPT !.pc = "await", !.last = e]
           o == Append(<<>>, [e |-> e, live |-> TRUE])
<1>1. /\ b \in [closed : BOOLEAN, leak : BOOLEAN, offer : Id, owed : SUBSET {"sub", "leak"}]
      /\ b.offer = 0 /\ b.closed = bus.closed /\ b.owed = bus.owed
  BY Fields, Bounds, Zenon
<1>2. /\ Len(journal) \in 1..Len(journal) /\ e = journal[Len(journal)]
      /\ e \in Event /\ e \in Nat /\ e # 0 /\ cp <= e
      /\ sub.reg /\ Waits(prod, bus, e) /\ sub.live = TRUE /\ out = <<>>
      /\ \A i \in 1..Len(journal) : journal[i] \in handled \/ journal[i] = e
      /\ \A p \in Producer : prod[p].pc = "wait"
  BY <1>0, OfferFacts, Zenon
<1>20. sub \in Sub /\ e \in Event
  BY <1>2, Fields, Zenon
<1>3. bus' = b /\ sub' = t /\ out' = o /\ reply' = "none"
  BY <1>0, <1>2, Zenon DEF Forward
<1>4. /\ t \in Sub /\ t.pc = "await" /\ t.last = e /\ t.mark = sub.mark
      /\ t.cursor = sub.cursor /\ t.live = sub.live /\ t.reg = sub.reg
  BY <1>20, ForwardFields, Zenon
<1>5. /\ o \in Seq([e : Event, live : BOOLEAN]) /\ Len(o) = 1
      /\ o[1].e = e /\ o[1].live = TRUE /\ o # <<>>
  BY <1>2, MessageFacts, Zenon
<1> HIDE DEF b, t, o
<1>6. handled \subseteq Event /\ handled' = handled /\ Known(journal, e)
  BY <1>2, Zenon DEF CatchInv, CatchType, Known
<1>7. Channel(t, o, "none", journal)
  <2>1. \A i \in 1..Len(o) : i = 1
    BY <1>5
  <2>2. \A i \in 1..Len(o) : Known(journal, o[i].e)
    BY <1>5, <1>6, <2>1, Zenon
  <2>3. Len(o) <= 1
    BY <1>5
  <2>4. o[1].live = t.live /\ o[1].e = t.last
    BY <1>2, <1>4, <1>5, Zenon
  <2>5. t.pc \in {"await", "live"} /\ t.pc # "live"
    BY <1>4, Zenon
  <2> QED
    BY <1>4, <1>5, <2>2, <2>3, <2>4, <2>5, Zenon DEF Channel
<1>8. Closes(t, b, closed)
  BY <1>1, <1>2, <1>4, Zenon DEF CatchInv, Closes
<1>9. Waits(prod, b, e)
  BY <1>1, <1>2, Zenon DEF Waits
<1>10. Offers(t, b, o, prod)
  BY <1>1, <1>5, <1>9, Zenon DEF Offers
<1>11. Marks(t, journal, handled, cp)
  BY <1>2, <1>4, <1>6, Zenon DEF CatchInv, Marks
<1>12. Before(journal, handled, e)
  BY <1>2 DEF Before
<1>13. Awaits(t, journal, handled, cp, "none")
  BY <1>2, <1>4, <1>12, Zenon DEF Awaits
<1>14. Replays(t, journal, handled, cp, b, prod)
  BY <1>2, <1>4, Zenon DEF Replays
<1>15. Lives(t, journal, handled, b, prod)
  <2>1. Owed(prod, b, e)
    BY <1>9, Zenon DEF Waits, Owed
  <2>2. \A i \in 1..Len(journal) : journal[i] \in handled \/ Owed(prod, b, journal[i])
    BY <1>2, <2>1, Zenon
  <2> QED
    BY <1>1, <1>2, <2>2, Zenon DEF Lives
<1> QED
  BY <1>1, <1>3, <1>4, <1>5, <1>6, <1>7, <1>8, <1>10, <1>11, <1>13, <1>14, <1>15, WholeInv, Zenon

\* ReceiveLive.
LEMMA ReceiveInv ==
  ASSUME CatchInv, Alone, ReceiveLive
  PROVE  CatchInv'
<1>1. /\ sub.pc = "live" /\ bus.offer # 0
      /\ UNCHANGED <<journal, minted, prod, cp, handled, closed>>
  BY Zenon DEF ReceiveLive
<1>2. CASE /\ Suppressed(bus.offer) /\ UNCHANGED <<sub, out, reply>>
           /\ bus' = [bus EXCEPT !.offer = 0, !.owed = @ \ {"sub"}]
  BY <1>1, <1>2, SuppressInv, Zenon
<1>3. CASE bus' = [bus EXCEPT !.offer = 0] /\ Forward(sub, bus.offer, TRUE)
  BY <1>1, <1>3, LiveInv, Zenon
<1>4. CASE bus' = [bus EXCEPT !.offer = 0] /\ sub' = End(sub) /\ UNCHANGED <<out, reply>>
  BY <1>1, <1>4, EndInv, Zenon
<1> QED
  BY <1>2, <1>3, <1>4, Zenon DEF ReceiveLive

-----------------------------------------------------------------------------
(* The consumer's steps *)

\* Handling more events uncovers nothing.
LEMMA Monotone ==
  ASSUME NEW j, NEW h, NEW g, h \subseteq g, NEW s, NEW c, NEW b, NEW pr
  PROVE  /\ \A v : Handled(j, h, v) => Handled(j, g, v)
         /\ \A v : Before(j, h, v) => Before(j, g, v)
         /\ Marks(s, j, h, c) => Marks(s, j, g, c)
         /\ Replays(s, j, h, c, b, pr) => Replays(s, j, g, c, b, pr)
<1>1. \A v : Handled(j, h, v) => Handled(j, g, v)
  BY Zenon DEF Handled
<1>2. \A v : Before(j, h, v) => Before(j, g, v)
  BY Zenon DEF Before
<1>3. Marks(s, j, h, c) => Marks(s, j, g, c)
  BY <1>1, Zenon DEF Marks
<1>4. \A k \in Nat : BatchAt(s, j, h, c, b, pr, k) => BatchAt(s, j, g, c, b, pr, k)
  BY Zenon DEF BatchAt
<1>5. Replays(s, j, h, c, b, pr) => Replays(s, j, g, c, b, pr)
  BY <1>4, Zenon DEF Replays
<1> QED
  BY <1>1, <1>2, <1>3, <1>5, Zenon

\* The consumer has one message; the goroutine awaits its answer, or is gone.
LEMMA OutFacts ==
  ASSUME CatchInv, out # <<>>
  PROVE  /\ Len(out) = 1 /\ Head(out) = out[1] /\ Tail(out) = <<>>
         /\ out[1].e \in Event /\ Known(journal, out[1].e) /\ out[1].live \in BOOLEAN
         /\ sub.pc \in {"off", "await"} /\ reply = "none" /\ (sub.live => sub.pc = "await")
         /\ sub.pc = "await" => out[1].e = sub.last /\ out[1].live = sub.live
         /\ sub.live \in BOOLEAN
<1>1. out \in Seq([e : Event, live : BOOLEAN]) /\ sub \in Sub /\ reply \in {"none", "ack", "nack"}
  BY Zenon DEF CatchInv, CatchType
<1>2. Channel(sub, out, reply, journal)
  BY Zenon DEF CatchInv
<1>3. Len(out) \in Nat /\ Len(out) > 0
  BY <1>1, SeqShape
<1>4. Len(out) = 1
  <2>1. Len(out) <= 1
    BY <1>2, Zenon DEF Channel
  <2>2. \A n \in Nat : n > 0 /\ n <= 1 => n = 1
    OBVIOUS
  <2> QED
    BY <1>3, <2>1, <2>2, Zenon
<1>5. Head(out) = out[1] /\ Tail(out) \in Seq([e : Event, live : BOOLEAN]) /\ Len(Tail(out)) = 0
  <2>1. Head(out) = out[1] /\ Tail(out) \in Seq([e : Event, live : BOOLEAN])
    BY <1>1
  <2>2. Len(Tail(out)) = Len(out) - 1
    BY <1>1
  <2> QED
    BY <1>4, <2>1, <2>2
<1>6. Tail(out) = <<>>
  BY <1>5, EmptyIsNil, Zenon
<1>7. out[1] \in [e : Event, live : BOOLEAN]
  <2>1. 1 \in 1..Len(out)
    BY <1>4
  <2> QED
    BY <1>1, <2>1, SeqShape, Zenon
<1>8. Known(journal, out[1].e)
  BY <1>2, <1>4 DEF Channel
<1>9. /\ sub.pc \in {"off", "await"} /\ reply = "none" /\ (sub.live => sub.pc = "await")
      /\ sub.pc = "await" => out[1].e = sub.last /\ out[1].live = sub.live
  BY <1>1, <1>2, Zenon DEF Channel, Sub
<1>10. sub.live \in BOOLEAN
  BY <1>1, Zenon DEF Sub
<1>11. out[1].e \in Event /\ out[1].live \in BOOLEAN
  BY <1>7, Zenon
<1> QED
  BY <1>4, <1>5, <1>6, <1>8, <1>9, <1>10, <1>11, Zenon

\* ConsumerAck.
LEMMA ConsumerAckInv ==
  ASSUME CatchInv, Alone, ConsumerAck
  PROVE  CatchInv'
<1>0. out # <<>>
  BY Zenon DEF ConsumerAck
<1>1. PICK m : m = out[1]
  OBVIOUS
<1> DEFINE h == handled \cup {m.e}
           r == IF sub.pc = "await" THEN "ack" ELSE "none"
           b == IF m.live THEN [bus EXCEPT !.owed = @ \ {"sub"}] ELSE bus
<1>2. /\ m.e \in Event /\ m.live \in BOOLEAN /\ sub.pc \in {"off", "await"}
      /\ (sub.live => sub.pc = "await") /\ sub.live \in BOOLEAN
      /\ sub.pc = "await" => m.e = sub.last /\ m.live = sub.live
      /\ Len(out) = 1 /\ Head(out) = m /\ Tail(out) = <<>> /\ reply = "none"
  BY <1>0, <1>1, OutFacts, Zenon
<1>3. /\ UNCHANGED <<journal, minted, prod, sub, cp, closed>>
      /\ handled' = h /\ out' = <<>> /\ reply' = r /\ bus' = b
  BY <1>2, Zenon DEF ConsumerAck, Awaited
<1>4. /\ b \in [closed : BOOLEAN, leak : BOOLEAN, offer : Id, owed : SUBSET {"sub", "leak"}]
      /\ b.offer = bus.offer /\ b.closed = bus.closed /\ (~m.live => b = bus)
  BY Fields, Zenon
<1>5. r \in {"none", "ack", "nack"} /\ (sub.pc # "await" => r = "none") /\ (sub.pc = "await" => r = "ack")
  OBVIOUS
<1>6. /\ sub \in Sub /\ <<>> \in Seq([e : Event, live : BOOLEAN]) /\ handled \subseteq h
      /\ h \subseteq Event /\ m.e \in h
  BY <1>2, Bounds, Fields, Zenon DEF CatchInv, CatchType
<1> HIDE DEF h, r, b
<1>7. Channel(sub, <<>>, r, journal)
  <2>1. Channel(sub, out, reply, journal)
    BY Zenon DEF CatchInv
  <2>2. Len(<<>>) = 0 /\ Len(<<>>) <= 1
    OBVIOUS
  <2>3. r # "none" => sub.pc = "await"
    BY <1>5, Zenon
  <2>4. \A i \in 1..Len(<<>>) : FALSE
    OBVIOUS
  <2>5. sub.pc = "await" => r # "none"
    BY <1>5, Zenon
  <2> QED
    BY <1>5, <2>1, <2>2, <2>4, <2>5, Zenon DEF Channel
<1>8. Closes(sub, b, closed)
  BY <1>4, Zenon DEF CatchInv, Closes
<1>9. /\ m.live => bus.offer = 0 /\ (sub.reg /\ ~bus.closed => Waits(prod, bus, m.e))
      /\ Offers(sub, bus, out, prod)
  BY <1>0, <1>1, Zenon DEF CatchInv, Offers
<1>10. Offers(sub, b, <<>>, prod)
  BY <1>4, <1>9, Zenon DEF Offers
<1>11. Marks(sub, journal, h, cp)
  BY <1>6, Monotone, Zenon DEF CatchInv
<1>12. Awaits(sub, journal, h, cp, r)
  <2>1. Before(journal, handled, sub.last) => Before(journal, h, sub.last)
    BY <1>6, Monotone, Zenon
  <2>2. sub.pc = "await" => sub.last \in h
    BY <1>2, <1>6, Zenon
  <2> QED
    BY <2>1, <2>2, Zenon DEF CatchInv, Awaits
<1>13. Replays(sub, journal, h, cp, b, prod)
  <2>1. Replays(sub, journal, h, cp, bus, prod)
    BY <1>6, Monotone, Zenon DEF CatchInv
  <2>2. CASE m.live
    <3>1. ~(sub.pc \in {"event", "await"} /\ ~sub.live)
      BY <1>2, <2>2, Zenon
    <3> QED
      BY <3>1, Zenon DEF Replays
  <2>3. CASE ~m.live
    BY <1>4, <2>1, <2>3, Zenon
  <2> QED
    BY <2>2, <2>3, Zenon
<1>14. Lives(sub, journal, h, b, prod)
  <2> SUFFICES ASSUME sub.live PROVE Lives(sub, journal, h, b, prod)
    BY Zenon DEF Lives
  <2>1. m.live /\ b.offer = 0
    BY <1>2, <1>4, <1>9, Zenon
  <2>2. /\ sub.reg /\ ~bus.closed =>
             \A i \in 1..Len(journal) : journal[i] \in handled \/ Owed(prod, bus, journal[i])
        /\ \A p \in Producer : prod[p].pc = "publish" => sub.last < prod[p].e \/ sub.last <= sub.mark
    BY Zenon DEF CatchInv, Lives
  <2>3. ASSUME sub.reg, ~bus.closed, NEW i \in 1..Len(journal) PROVE journal[i] \in h
    <3>1. PICK p \in Producer : prod[p].e = m.e
      BY <1>9, <2>1, <2>3, Zenon DEF Waits
    <3>2. Owed(prod, bus, journal[i]) => journal[i] = m.e
      BY <3>1, NothingOwed, Zenon
    <3> QED
      BY <1>6, <2>2, <2>3, <3>2, Zenon
  <2> QED
    BY <1>4, <2>1, <2>2, <2>3, Zenon DEF Lives
<1> QED
  BY <1>3, <1>4, <1>5, <1>6, <1>7, <1>8, <1>10, <1>11, <1>12, <1>13, <1>14, WholeInv, Zenon

\* ConsumerNack.
LEMMA ConsumerNackInv ==
  ASSUME CatchInv, ConsumerNack
  PROVE  CatchInv'
<1> DEFINE r == IF sub.pc = "await" THEN "nack" ELSE "none"
<1>0. out # <<>>
  BY Zenon DEF ConsumerNack
<1>1. /\ sub.pc \in {"off", "await"} /\ Len(out) = 1 /\ Tail(out) = <<>> /\ reply = "none"
      /\ (sub.live => sub.pc = "await")
  BY <1>0, OutFacts, Zenon
<1>2. UNCHANGED <<journal, minted, prod, bus, sub, cp, handled, closed>> /\ out' = <<>> /\ reply' = r
  BY <1>1, Zenon DEF ConsumerNack, Awaited
<1>3. /\ r \in {"none", "ack", "nack"} /\ (sub.pc # "await" => r = "none")
      /\ (sub.pc = "await" => r # "none") /\ r # "ack"
  OBVIOUS
<1>4. /\ sub \in Sub /\ <<>> \in Seq([e : Event, live : BOOLEAN]) /\ handled \subseteq Event
      /\ bus \in [closed : BOOLEAN, leak : BOOLEAN, offer : Id, owed : SUBSET {"sub", "leak"}]
  BY Bounds, Zenon DEF CatchInv, CatchType
<1> HIDE DEF r
<1>5. Channel(sub, <<>>, r, journal)
  <2>1. Channel(sub, out, reply, journal)
    BY Zenon DEF CatchInv
  <2>2. Len(<<>>) <= 1 /\ \A i \in 1..Len(<<>>) : FALSE
    OBVIOUS
  <2> QED
    BY <1>3, <2>1, <2>2, Zenon DEF Channel
<1>6. Offers(sub, bus, <<>>, prod)
  BY Zenon DEF CatchInv, Offers
<1>7. Awaits(sub, journal, handled, cp, r)
  BY <1>3, Zenon DEF CatchInv, Awaits
<1>8. /\ Closes(sub, bus, closed) /\ Marks(sub, journal, handled, cp)
      /\ Replays(sub, journal, handled, cp, bus, prod) /\ Lives(sub, journal, handled, bus, prod)
  BY Zenon DEF CatchInv
<1> QED
  BY <1>2, <1>3, <1>4, <1>5, <1>6, <1>7, <1>8, WholeInv, Zenon

-----------------------------------------------------------------------------
(* The invariant holds *)

\* The first state.
LEMMA InitInv ==
  ASSUME Init
  PROVE  CatchInv
<1> DEFINE q == [p \in Producer |-> Idle]
<1>0. /\ journal = <<>> /\ minted = 0 /\ prod = q /\ bus = OpenBus /\ sub = NoSub
      /\ out = <<>> /\ reply = "none" /\ cp = 0 /\ handled = {} /\ closed = FALSE
  BY Zenon DEF Init
<1>1. /\ NoSub \in Sub /\ NoSub.pc = "off" /\ NoSub.mark = 0 /\ NoSub.last = 0
      /\ NoSub.cursor = 0 /\ NoSub.live = FALSE
  BY Bounds, Zenon DEF NoSub, Sub
<1>2. /\ OpenBus \in [closed : BOOLEAN, leak : BOOLEAN, offer : Id, owed : SUBSET {"sub", "leak"}]
      /\ OpenBus.offer = 0 /\ OpenBus.closed = FALSE
  BY Bounds, Zenon DEF OpenBus
<1>3. Idle \in [pc : {"idle", "save", "publish", "wait"}, e : Id] /\ Idle.pc = "idle"
  BY Bounds, Zenon DEF Idle
<1>4. /\ q \in [Producer -> [pc : {"idle", "save", "publish", "wait"}, e : Id]]
      /\ \A p \in Producer : q[p].pc = "idle"
  BY <1>3, Zenon
<1> HIDE DEF q
<1>5. CatchType
  BY <1>0, <1>1, <1>2, <1>4, Bounds, Zenon DEF CatchType
<1>6. \A i \in 1..Len(<<>>) : FALSE
  OBVIOUS
<1>7. Minting(<<>>, 0, q)
  BY <1>4, <1>6, Zenon DEF Minting, Producing, Sorted
<1>8. Channel(NoSub, <<>>, "none", <<>>)
  BY <1>1 DEF Channel
<1>9. Closes(NoSub, OpenBus, FALSE) /\ Offers(NoSub, OpenBus, <<>>, q)
  BY <1>1, <1>2, Zenon DEF Closes, Offers
<1>10. Marks(NoSub, <<>>, {}, 0)
  BY <1>1, <1>6, Zenon DEF Marks, Known, Handled
<1>11. /\ Awaits(NoSub, <<>>, {}, 0, "none") /\ Replays(NoSub, <<>>, {}, 0, OpenBus, q)
       /\ Lives(NoSub, <<>>, {}, OpenBus, q)
  BY <1>1, Zenon DEF Awaits, Replays, Lives
<1> QED
  BY <1>0, <1>5, <1>7, <1>8, <1>9, <1>10, <1>11, Zenon DEF CatchInv

\* Every step keeps it.
LEMMA StepInv ==
  ASSUME CatchInv, Alone, CloseIn \subseteq {"live"}, [Next]_vars
  PROVE  CatchInv'
<1>1. ASSUME NEW p \in Producer, Mint(p) \/ Produce(p) PROVE CatchInv'
  BY <1>1, MintInv, SaveInv, PublishInv, PublishedInv, Zenon DEF Produce
<1>2. CASE Goroutine
  BY <1>2, BeginInv, ReadInv, ReplayInv, AckedInv, StopInv, ReceiveInv, Zenon DEF Goroutine
<1>3. CASE Unregister \/ Release \/ Cancel \/ Close \/ CloseRest
  BY <1>3, SignalInv, Zenon
<1>4. CASE ConsumerAck \/ ConsumerNack
  BY <1>4, ConsumerAckInv, ConsumerNackInv, Zenon
<1>5. CASE Subscribe
  BY <1>5, BeginInv, Zenon
<1>6. CASE Restart \/ Crash
  BY <1>6, FreshInv, Zenon DEF Restart, Crash
<1>7. CASE UNCHANGED vars
  <2>1. UNCHANGED <<journal, minted, prod, bus, sub, out, reply, cp, handled, closed>>
    BY <1>7, Zenon DEF vars
  <2>2. CatchType'
    BY <2>1, Zenon DEF CatchInv, CatchType
  <2> QED
    BY <2>1, <2>2, Zenon DEF CatchInv
<1> QED
  BY <1>1, <1>2, <1>3, <1>4, <1>5, <1>6, <1>7, Zenon DEF Next, Application

\* In every reachable state.
LEMMA CatchHolds ==
  ASSUME Alone, CloseIn \subseteq {"live"}
  PROVE  Spec => []CatchInv
<1>1. Init => CatchInv
  BY InitInv, Zenon
<1>2. CatchInv /\ [Next]_vars => CatchInv'
  BY StepInv, Zenon
<1> QED
  BY <1>1, <1>2, PTL DEF Spec

\* WatermarkCovers: what drainLive drops as covered by the replay was processed.
THEOREM WatermarkIsHonest ==
  ASSUME Alone, CloseIn \subseteq {"live"}
  PROVE  Spec => []WatermarkCovers
<1>1. CatchInv => WatermarkCovers
  BY Zenon DEF CatchInv, Marks, Handled, WatermarkCovers
<1> QED
  BY <1>1, CatchHolds, PTL

\* NothingLost: what a restart does not replay was processed, or is yet to be
\* published.
THEOREM NothingIsLost ==
  ASSUME Alone, CloseIn \subseteq {"live"}
  PROVE  Spec => []NothingLost
<1>1. CatchInv => NothingLost
  <2> SUFFICES ASSUME CatchInv, NEW i \in 1..Len(journal), ~(i > Pos(cp))
               PROVE  journal[i] \in handled
    BY Zenon DEF NothingLost
  <2>1. Known(journal, cp) /\ Handled(journal, handled, cp)
    BY Zenon DEF CatchInv, Marks
  <2>2. Pos(cp) \in Nat /\ \A n \in 1..Pos(cp) : journal[n] <= cp
    BY <2>1, PosFacts, Zenon
  <2>3. i \in 1..Pos(cp)
    BY <2>2
  <2> QED
    BY <2>1, <2>2, <2>3, Zenon DEF Handled
<1> QED
  BY <1>1, CatchHolds, PTL

\* A step that begins to await an answer forwards a newer event.
LEMMA NewerForwarded ==
  ASSUME CatchInv, Alone, Next, sub.pc # "await", sub'.pc = "await"
  PROVE  sub'.last > sub.last
<1>0. sub \in Sub /\ sub.last \in Nat /\ sub.mark \in Nat
  BY Fields, Zenon
<1>1. End(sub).pc = "off" /\ NoSub.pc = "off"
  BY <1>0, EndFields, Zenon DEF Over, NoSub
<1>2. CASE ReplayEvent
  <2>1. sub.pc = "event" /\ ~sub.live
    BY <1>2, Zenon DEF ReplayEvent, CatchInv, Channel
  <2>2. PICK k \in Nat : BatchAt(sub, journal, handled, cp, bus, prod, k)
    BY <2>1, Zenon DEF CatchInv, Replays
  <2>3. sub.batch \in Seq(Event) /\ sub.batch # <<>>
    BY <2>2, Fields, Zenon DEF BatchAt
  <2>4. Len(sub.batch) \in Nat /\ Len(sub.batch) > 0 /\ Head(sub.batch) = sub.batch[1]
        /\ Head(sub.batch) \in Event
    BY <2>3, SeqShape
  <2>5. k + Len(sub.batch) <= Len(journal) /\ sub.batch[1] = journal[k + 1]
    BY <2>2, <2>4 DEF BatchAt
  <2>6. k + 1 \in (k + 1)..Len(journal)
    BY <2>4, <2>5, JournalFacts
  <2>7. Head(sub.batch) > sub.mark
    BY <2>2, <2>4, <2>5, <2>6, Zenon DEF BatchAt
  <2>8. sub.last = sub.mark
    BY <2>1, Zenon DEF CatchInv, Marks
  <2>9. ~closed
    BY <2>1, ReplayOpen, Zenon
  <2>10. sub' = [sub EXCEPT !.pc = "await", !.last = Head(sub.batch)]
    BY <1>1, <1>2, <2>9, Zenon DEF ReplayEvent, StopReplay, Forward
  <2>11. sub'.last = Head(sub.batch)
    BY <1>0, <2>4, <2>10, ForwardFields, Zenon
  <2> QED
    BY <2>7, <2>8, <2>11, Zenon
<1>3. CASE ReceiveLive
  <2>1. sub.pc = "live" /\ bus.offer # 0
    BY <1>3, Zenon DEF ReceiveLive
  <2>2. bus.offer \in Event /\ bus.offer \in Nat /\ sub.live
    BY <2>1, OfferFacts, Zenon
  <2>3. sub.last < bus.offer \/ sub.last <= sub.mark
    BY <2>1, <2>2, Zenon DEF CatchInv, Lives
  <2>4. ~Suppressed(bus.offer) /\ sub' = [sub EXCEPT !.pc = "await", !.last = bus.offer]
    BY <1>1, <1>3, Zenon DEF ReceiveLive, Forward
  <2>5. sub'.last = bus.offer
    BY <1>0, <2>2, <2>4, ForwardFields, Zenon
  <2>6. sub.mark = 0 \/ ~(bus.offer <= sub.mark)
    BY <2>4, Zenon DEF Suppressed
  <2>7. sub.last < bus.offer
    BY <1>0, <2>1, <2>2, <2>3, <2>6
  <2> QED
    BY <2>5, <2>7, Zenon
<1>4. CASE ReadBatch
  <2> DEFINE a == SubSeq(journal, Pos(sub.cursor) + 1, Len(journal))
             c == IF Len(a) > BatchSize THEN SubSeq(a, 1, BatchSize) ELSE a
  <2>1. \/ sub' = End(sub)
        \/ sub' = [sub EXCEPT !.pc = "live", !.live = TRUE, !.batch = <<>>]
        \/ sub' = [sub EXCEPT !.pc = "live", !.live = TRUE]
        \/ sub' = [sub EXCEPT !.pc = "event", !.batch = c, !.full = Len(c) = BatchSize]
    BY <1>4, Zenon DEF ReadBatch, StopReplay
  <2> HIDE DEF a, c
  <2> QED
    BY <1>0, <1>1, <2>1, Zenon DEF Sub
<1>5. CASE SubscribeLive \/ LoadCheckpoint
  BY <1>0, <1>1, <1>5, Zenon DEF SubscribeLive, LoadCheckpoint, Sub
<1>6. CASE Acked \/ Nacked \/ Interrupted \/ StopLive
  BY <1>1, <1>6, Zenon DEF Acked, Nacked, Interrupted, StopLive
<1>7. CASE Unregister \/ Release \/ Cancel \/ CloseRest
  BY <1>0, <1>7, Zenon DEF Unregister, Release, Cancel, CloseRest, Sub
<1>8. CASE Close \/ ConsumerAck \/ ConsumerNack \/ \E p \in Producer : Mint(p) \/ Produce(p)
  BY <1>8, Zenon DEF Close, ConsumerAck, ConsumerNack, Mint, Produce, Save, Publish, Published
<1>9. CASE Restart \/ Crash
  BY <1>1, <1>9, Zenon DEF Restart, Crash, Fresh
<1>10. CASE Subscribe
  BY <1>10, Zenon DEF Subscribe, NoSub
<1> QED
  BY <1>2, <1>3, <1>4, <1>5, <1>6, <1>7, <1>8, <1>9, <1>10, Zenon DEF Next, Goroutine, Application

\* DeliveredInOrder: one subscription forwards every event once, in order, over
\* the handoff from the replay to the bus.
THEOREM InOrder ==
  ASSUME Alone, CloseIn \subseteq {"live"}
  PROVE  Spec => DeliveredInOrder
<1>1. CatchInv /\ [Next]_vars =>
        [sub.pc # "await" /\ sub'.pc = "await" => sub'.last > sub.last]_vars
  BY NewerForwarded, Zenon
<1> QED
  BY <1>1, CatchHolds, PTL DEF Spec, DeliveredInOrder

-----------------------------------------------------------------------------
(* The promise of the checkpoint *)

\* Positions in an ordered journal are unique.
LEMMA Unique ==
  ASSUME NEW j, Len(j) \in Nat, Sorted(j), \A n \in 1..Len(j) : j[n] \in Nat,
         NEW i \in 1..Len(j)
  PROVE  (CHOOSE n \in 1..Len(j) : j[n] = j[i]) = i
<1> DEFINE c == CHOOSE n \in 1..Len(j) : j[n] = j[i]
<1>1. c \in 1..Len(j) /\ j[c] = j[i]
  OBVIOUS
<1> HIDE DEF c
<1>2. ~(c < i) /\ ~(i < c)
  BY <1>1 DEF Sorted
<1>3. c = i
  BY <1>1, <1>2
<1> QED
  BY <1>3, Zenon DEF c

\* Save: the position of the checkpoint stays.
LEMMA PutStep ==
  ASSUME CatchInv, CatchInv', NEW p \in Producer, Save(p)
  PROVE  Promise!Put
<1>0. journal' = Append(journal, prod[p].e) /\ cp' = cp /\ handled' = handled
  BY Zenon DEF Save
<1>1. /\ journal \in Seq(Event) /\ journal' \in Seq(Event) /\ prod[p].e \in Id
      /\ Len(journal) \in Nat
  BY JournalFacts, Fields, Zenon DEF CatchInv, CatchType
<1>2. prod[p].e \in Event
  <2>1. prod[p].e # 0
    BY Zenon DEF CatchInv, Minting, Producing, Save
  <2> QED
    BY <1>1, <2>1, Bounds, Zenon
<1>3. /\ Len(journal') = Len(journal) + 1 /\ Len(journal') \in Nat
      /\ \A i \in 1..Len(journal) : journal'[i] = journal[i] /\ i \in 1..Len(journal')
  BY <1>0, <1>1, <1>2
<1>4. Sorted(journal) /\ Sorted(journal')
  BY Zenon DEF CatchInv, Minting
<1>5. /\ \A n \in 1..Len(journal) : journal[n] \in Nat
      /\ \A n \in 1..Len(journal') : journal'[n] \in Nat
  BY <1>1, SeqShape, Bounds, Zenon
<1>6. Pos(cp)' = Pos(cp)
  <2>1. CASE cp = 0
    BY <1>0, <2>1, Zenon DEF Pos
  <2>2. CASE cp # 0
    <3>1. PICK i \in 1..Len(journal) : journal[i] = cp
      BY <2>2, Zenon DEF CatchInv, Marks, Known
    <3>2. Pos(cp) = i
      BY <1>1, <1>4, <1>5, <2>2, <3>1, Unique DEF Pos
    <3>3. journal'[i] = cp' /\ i \in 1..Len(journal')
      BY <1>0, <1>3, <3>1, Zenon
    <3>4. (CHOOSE n \in 1..Len(journal') : journal'[n] = journal'[i]) = i
      BY <1>3, <1>4, <1>5, <3>3, Unique, Zenon
    <3>5. Pos(cp)' = i
      BY <1>0, <2>2, <3>3, <3>4, Zenon DEF Pos
    <3> QED
      BY <3>2, <3>5, Zenon
  <2> QED
    BY <2>1, <2>2, Zenon
<1> QED
  BY <1>0, <1>2, <1>6, Zenon DEF Promise!Put

\* ConsumerAck: the event is one of the journal.
LEMMA ProcessStep ==
  ASSUME CatchInv, ConsumerAck
  PROVE  Promise!Process
<1>0. out # <<>> /\ UNCHANGED <<journal, cp>> /\ handled' = handled \cup {Head(out).e}
  BY Zenon DEF ConsumerAck
<1>1. Head(out) = out[1] /\ Known(journal, out[1].e) /\ out[1].e \in Event
  BY <1>0, OutFacts, Zenon
<1>2. PICK i \in 1..Len(journal) : journal[i] = out[1].e
  BY <1>1, Bounds, Zenon DEF Known
<1>3. Pos(cp)' = Pos(cp)
  BY <1>0 DEF Pos
<1>4. handled' = handled \cup {journal[i]}
  BY <1>0, <1>1, <1>2, Zenon
<1> QED
  BY <1>0, <1>3, <1>4, Zenon DEF Promise!Process

\* Acked: the checkpoint moves forward, over handled events.
LEMMA AdvanceStep ==
  ASSUME CatchInv, Acked
  PROVE  Promise!Advance \/ UNCHANGED Promise!dvars
<1>0. UNCHANGED <<journal, handled>> /\ (cp' = sub.last \/ cp' = cp)
      /\ sub.pc = "await" /\ reply = "ack"
  BY Zenon DEF Acked
<1>1. CASE cp' = cp
  BY <1>0, <1>1 DEF Promise!dvars, Pos
<1>2. CASE cp' = sub.last
  <2>1. /\ Handled(journal, handled, sub.last) /\ Known(journal, sub.last) /\ cp <= sub.last
        /\ Known(journal, cp)
    BY <1>0, AckedCovers, Zenon DEF CatchInv, Marks
  <2>2. Pos(cp)' = Pos(sub.last)
    BY <1>0, <1>2 DEF Pos
  <2>3. PICK a, b : a = Pos(cp) /\ b = Pos(sub.last)
    OBVIOUS
  <2>4. /\ a \in Nat /\ a <= Len(journal) /\ \A i \in 1..a : journal[i] <= cp
        /\ b \in Nat /\ b <= Len(journal) /\ \A i \in 1..b : i \in 1..Len(journal) /\ journal[i] <= sub.last
        /\ \A i \in (b + 1)..Len(journal) : i \in 1..Len(journal) /\ journal[i] > sub.last
    BY <2>1, <2>3, PosFacts, Zenon
  <2>5. a <= b
    <3> SUFFICES ASSUME b < a PROVE FALSE
      BY <2>4
    <3>1. a \in 1..a /\ a \in (b + 1)..Len(journal)
      BY <2>4, JournalFacts
    <3>2. journal[a] <= cp /\ journal[a] > sub.last /\ journal[a] \in Nat
      BY <2>4, <3>1, JournalFacts, Zenon
    <3> QED
      BY <2>1, <3>2, Fields
  <2>6. \A i \in 1..b : journal[i] \in handled
    BY <2>1, <2>4, Zenon DEF Handled
  <2>7. b \in a..Len(journal)
    BY <2>4, <2>5, JournalFacts
  <2> QED
    BY <1>0, <2>2, <2>3, <2>6, <2>7, Zenon DEF Promise!Advance
<1> QED
  BY <1>0, <1>1, <1>2, Zenon

\* Every step is one of Delivery.tla, or changes nothing it speaks of.
LEMMA DeliveryStep ==
  ASSUME CatchInv, CatchInv', [Next]_vars
  PROVE  [Promise!DNext]_(Promise!dvars)
<1>1. ASSUME UNCHANGED <<journal, cp, handled>> PROVE UNCHANGED Promise!dvars
  BY <1>1 DEF Promise!dvars, Pos
<1>2. ASSUME NEW p \in Producer, Mint(p) \/ Produce(p) PROVE [Promise!DNext]_(Promise!dvars)
  <2>1. CASE Save(p)
    BY <2>1, PutStep, Zenon DEF Promise!DNext
  <2>2. CASE Mint(p) \/ Publish(p) \/ Published(p)
    BY <1>1, <2>2, Zenon DEF Mint, Publish, Published
  <2> QED
    BY <1>2, <2>1, <2>2, Zenon DEF Produce
<1>3. CASE Acked
  BY <1>3, AdvanceStep, Zenon DEF Promise!DNext
<1>4. CASE ConsumerAck
  BY <1>4, ProcessStep, Zenon DEF Promise!DNext
<1>5. CASE SubscribeLive \/ LoadCheckpoint \/ ReadBatch \/ ReplayEvent
  BY <1>1, <1>5, Zenon DEF SubscribeLive, LoadCheckpoint, ReadBatch, ReplayEvent
<1>6. CASE Nacked \/ Interrupted \/ ReceiveLive \/ StopLive
  BY <1>1, <1>6, Zenon DEF Nacked, Interrupted, ReceiveLive, StopLive
<1>7. CASE Unregister \/ ConsumerNack \/ Subscribe \/ Release \/ CloseRest \/ Cancel \/ Close
  BY <1>1, <1>7, Zenon DEF Unregister, ConsumerNack, Subscribe, Release, CloseRest, Cancel, Close
<1>8. CASE Restart \/ Crash
  BY <1>1, <1>8, Zenon DEF Restart, Crash, Fresh
<1>9. CASE UNCHANGED vars
  BY <1>1, <1>9, Zenon DEF vars
<1> QED
  BY <1>2, <1>3, <1>4, <1>5, <1>6, <1>7, <1>8, <1>9, Zenon DEF Next, Goroutine, Application

\* ImplementsDelivery: the subscription implements Delivery.tla, with the
\* position of the checkpoint for its mark: at-least-once, whatever ends it.
THEOREM Refinement ==
  ASSUME Alone, CloseIn \subseteq {"live"}
  PROVE  Spec => ImplementsDelivery
<1>1. Init => Promise!DInit
  BY Zenon DEF Init, Promise!DInit, Pos
<1>2. CatchInv /\ CatchInv' /\ [Next]_vars => [Promise!DNext]_(Promise!dvars)
  BY DeliveryStep, Zenon
<1> QED
  BY <1>1, <1>2, CatchHolds, PTL DEF Spec, ImplementsDelivery, Promise!DSpec
=============================================================================
