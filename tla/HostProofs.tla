----------------------------- MODULE HostProofs -----------------------------
(***************************************************************************)
(* What the projection host promises, for any journal, batch size, dedup   *)
(* ring, number of restarts and of generations: types, one call of Handle  *)
(* at a time from the catch-up drain on, and, without a subscriber, no     *)
(* event skipped and no checkpoint ahead of what was done.                 *)
(*                                                                         *)
(* Every step of the worker goroutine is one of seven moves (WorkMoves),   *)
(* every step of the live handler a service (LiveMoves); the invariants    *)
(* are shown against those, not against the actions.                       *)
(***************************************************************************)
EXTENDS ProjectionHost, TLAPS

\* y has the registrations and the callbacks of x.
Handler(x, y) ==
  y.next = x.next /\ y.called = x.called /\ y.cb = x.cb /\ y.cbPC = x.cbPC

\* And the dedup ring.
Kept(x, y) == y \in Worker /\ y.seen = x.seen /\ Handler(x, y)

\* Ending run keeps what the live handler uses.
LEMMA ExitFields ==
  ASSUME NEW x \in Worker
  PROVE  /\ Kept(x, Exit(x)) /\ Exit(x).pc = "flush" /\ Exit(x).pend = x.pend
         /\ Exit(x).after = 0 /\ Exit(x).until = 0 /\ Exit(x).catchUp = x.catchUp
<1>1. /\ Returned(x) \in Worker /\ Kept(x, Returned(x)) /\ Returned(x).pend = x.pend
      /\ Returned(x).after = 0 /\ Returned(x).until = 0 /\ Returned(x).catchUp = x.catchUp
  BY Zenon DEF Returned, Worker, Kept, Handler
<1> DEFINE r == Returned(x)
<1> HIDE DEF r
<1>2. Exit(x) = [r EXCEPT !.pc = "flush",
                          !.status = IF r.status = "failed" THEN r.status ELSE "stopped"]
  BY Zenon DEF Exit, r
<1>3. r \in Worker
  BY <1>1, Zenon DEF r
<1>4. (IF r.status = "failed" THEN r.status ELSE "stopped") \in Status /\ "flush" \in PC
  BY <1>3, Zenon DEF Status, PC, Worker
<1>5. /\ Exit(x) \in Worker /\ Kept(r, Exit(x)) /\ Exit(x).pend = r.pend
      /\ Exit(x).after = r.after /\ Exit(x).until = r.until
      /\ Exit(x).catchUp = r.catchUp /\ Exit(x).pc = "flush"
  BY <1>2, <1>3, <1>4, ZenonT(40) DEF Worker, Kept, Handler
<1> QED
  BY <1>1, <1>5, Zenon DEF Kept, Handler, r

\* So does a failure, which ends run or begins a backoff.
LEMMA BrokenFields ==
  ASSUME NEW x \in Worker
  PROVE  /\ Kept(x, Broken(x)) /\ Broken(x).pc \in {"flush", "backoff"}
         /\ Broken(x).pend = x.pend
         /\ Broken(x).after = 0 /\ Broken(x).until = 0 /\ Broken(x).catchUp = x.catchUp
<1> DEFINE r == Returned(x)
           n == IF MaxRestarts >= 0 THEN r.restarts + 1 ELSE 1
           y == [r EXCEPT !.restarts = n]
           f == [y EXCEPT !.status = "failed"]
           b == [y EXCEPT !.status = "backoff", !.pc = "backoff"]
<1>1. /\ r \in Worker /\ Kept(x, r) /\ r.pend = x.pend
      /\ r.after = 0 /\ r.until = 0 /\ r.catchUp = x.catchUp
  BY Zenon DEF Returned, Worker, Kept, Handler
<1>0. Broken(x) = Exit([y EXCEPT !.status = "failed"])
        \/ Broken(x) = [y EXCEPT !.status = "backoff", !.pc = "backoff"]
  BY Zenon DEF Broken
<1> HIDE DEF r
<1>a. n \in Nat
  <2>1. r.restarts \in Nat
    BY <1>1, Zenon DEF Worker
  <2> QED
    BY <2>1
<1> HIDE DEF n
<1>2. /\ y \in Worker /\ Kept(x, y) /\ y.pend = x.pend
      /\ y.after = 0 /\ y.until = 0 /\ y.catchUp = x.catchUp
  BY <1>1, <1>a, Zenon DEF Worker, Kept, Handler
<1> HIDE DEF y
<1>3. "failed" \in Status /\ "backoff" \in Status /\ "backoff" \in PC
  BY Zenon DEF Status, PC
<1>4. /\ f \in Worker /\ Kept(x, f) /\ f.pend = x.pend
      /\ f.after = 0 /\ f.until = 0 /\ f.catchUp = x.catchUp
  BY <1>2, <1>3, Zenon DEF Worker, Kept, Handler
<1>5. /\ b \in Worker /\ Kept(x, b) /\ b.pend = x.pend /\ b.pc = "backoff"
      /\ b.after = 0 /\ b.until = 0 /\ b.catchUp = x.catchUp
  BY <1>2, <1>3, Zenon DEF Worker, Kept, Handler
<1>6. Broken(x) = Exit(f) \/ Broken(x) = b
  BY <1>0, Zenon
<1> HIDE DEF f, b
<1>7. /\ Kept(f, Exit(f)) /\ Exit(f).pc = "flush" /\ Exit(f).pend = f.pend
      /\ Exit(f).after = 0 /\ Exit(f).until = 0 /\ Exit(f).catchUp = f.catchUp
  BY <1>4, ExitFields, Zenon
<1> QED
  BY <1>4, <1>5, <1>6, <1>7, Zenon DEF Kept, Handler

\* y is x, but for the dedup ring, to which e may have been added, and what it
\* evicted: it keeps its capacity.
Marked(x, y, e) ==
  /\ y \in Worker /\ Handler(x, y)
  /\ y.pc = x.pc /\ y.after = x.after /\ y.until = x.until /\ y.catchUp = x.catchUp
  /\ y.pend = x.pend
  /\ Len(y.seen) <= RingCap
  /\ \A i \in 1..Len(y.seen) : y.seen[i] = e \/ Seen(x, y.seen[i])

\* Ring.Add.
LEMMA MarkFields ==
  ASSUME NEW x \in Worker, Len(x.seen) <= RingCap, NEW e \in Event
  PROVE  Marked(x, MarkSeen(x, e), e)
<1>0. x.seen \in Seq(Event) /\ Len(x.seen) \in Nat /\ RingCap \in Nat \ {0}
  BY ProjectionHostAssumption DEF Worker
<1>1. \A i \in 1..Len(x.seen) : Seen(x, x.seen[i])
  BY Zenon DEF Seen
<1>2. CASE Seen(x, e)
  <2>1. MarkSeen(x, e) = x
    BY <1>2, Zenon DEF MarkSeen
  <2> QED
    BY <1>1, <2>1, Zenon DEF Marked, Handler
<1>3. CASE ~Seen(x, e)
  <2> DEFINE q == IF Len(x.seen) = RingCap THEN Tail(x.seen) ELSE x.seen
             a == Append(q, e)
             d == (IF Len(x.seen) = RingCap THEN x.redo \cup {Head(x.seen)} ELSE x.redo) \ {e}
  <2>0. d \in SUBSET Event
    <3>1. x.redo \in SUBSET Event
      BY Zenon DEF Worker
    <3>2. Len(x.seen) = RingCap => Head(x.seen) \in Event
      BY <1>0
    <3> QED
      BY <3>1, <3>2, Zenon
  <2>1. /\ q \in Seq(Event) /\ Len(q) \in Nat /\ Len(q) + 1 <= RingCap
        /\ \A i \in 1..Len(q) : Seen(x, q[i])
    <3>1. CASE Len(x.seen) = RingCap
      <4>1. x.seen # <<>>
        BY <1>0, <3>1, Zenon
      <4>2. /\ Tail(x.seen) \in Seq(Event) /\ Len(Tail(x.seen)) = Len(x.seen) - 1
            /\ \A i \in 1..Len(Tail(x.seen)) : Tail(x.seen)[i] = x.seen[i + 1]
        BY <1>0, <4>1
      <4>3. ASSUME NEW i \in 1..Len(Tail(x.seen)) PROVE Seen(x, Tail(x.seen)[i])
        <5>1. i + 1 \in 1..Len(x.seen)
          BY <1>0, <3>1, <4>2
        <5> QED
          BY <1>1, <4>2, <5>1, Zenon
      <4>4. q = Tail(x.seen)
        BY <3>1, Zenon
      <4> QED
        BY <1>0, <3>1, <4>2, <4>3, <4>4
    <3>2. CASE Len(x.seen) # RingCap
      BY <1>0, <1>1, <3>2
    <3> QED
      BY <3>1, <3>2, Zenon
  <2>2. MarkSeen(x, e) = [x EXCEPT !.seen = a, !.redo = d]
    BY <1>3, Zenon DEF MarkSeen
  <2> HIDE DEF q, d
  <2>3. /\ a \in Seq(Event) /\ Len(a) = Len(q) + 1 /\ a[Len(q) + 1] = e
        /\ \A i \in 1..Len(q) : a[i] = q[i]
    BY <2>1
  <2> HIDE DEF a
  <2>4. \A i \in 1..Len(a) : a[i] = e \/ Seen(x, a[i])
    BY <2>1, <2>3
  <2>5. MarkSeen(x, e) \in Worker /\ MarkSeen(x, e).seen = a /\ Handler(x, MarkSeen(x, e))
    BY <2>0, <2>2, <2>3, ZenonT(40) DEF Worker, Handler
  <2>6. LET y == MarkSeen(x, e) IN
        /\ y.pc = x.pc /\ y.after = x.after /\ y.until = x.until /\ y.catchUp = x.catchUp
        /\ y.pend = x.pend
    BY <2>2, Zenon DEF Worker
  <2> QED
    BY <2>1, <2>3, <2>4, <2>5, <2>6, Zenon DEF Marked
<1> QED
  BY <1>2, <1>3, Zenon

-----------------------------------------------------------------------------
(* The moves of a worker *)

\* A worker in a journal of n events: its positions and what its callbacks
\* were given are in the journal, and it is in Handle with the next event of
\* its batch.
Sound(x, n) ==
  /\ x \in Worker /\ Len(x.seen) <= RingCap
  /\ x.after <= n /\ x.until <= n /\ x.pend <= n /\ x.cb <= n
  /\ x.called \subseteq 1..n
  /\ x.pc = "event" => x.after <= x.until
  /\ x.pc = "handle" => x.after < x.until
  /\ x.cbPC # "none" => x.cb # 0

\* The inductive type invariant.
HostType ==
  /\ journal \in 0..MaxEvents /\ cp \in 0..journal
  /\ applied \subseteq 1..journal /\ dlq \subseteq 1..journal
  /\ worker \in [Gen -> Worker] /\ \A g \in Gen : Sound(worker[g], journal)
  /\ gen \in Gen
  /\ host \in [started : BOOLEAN, stopped : BOOLEAN, was : Status,
               op : {"none", "stop", "mark", "await", "force", "reset", "purge"}]
  /\ replay \in [g : Gen, todo : SUBSET Event, now : 0..MaxEvents]
  /\ replay.todo \subseteq 1..journal /\ replay.now <= journal

\* The worker gives up its position: run goes round, ends, or has ended.
Leaves(x, y) ==
  /\ Kept(x, y) /\ y.catchUp = x.catchUp /\ y.pend \in {0, x.pend}
  /\ y.pc \in {"top", "load", "flush", "backoff", "done"}
  /\ y.after \in {0, x.after} /\ y.until \in {0, x.until}
  /\ x.pc \notin {"new", "done", "gone"}

\* It resumes after the checkpoint.
Resumes(x, y) ==
  /\ Kept(x, y) /\ ~y.catchUp /\ y.pend = x.pend
  /\ x.pc = "load" /\ y.pc = "read" /\ y.after = cp /\ y.until = x.until

\* It has read the next batch.
Opens(x, y) ==
  /\ Kept(x, y) /\ y.catchUp = x.catchUp /\ y.pend = x.pend
  /\ x.pc = "read" /\ y.pc = "event" /\ y.after = x.after
  /\ x.after < y.until /\ y.until <= journal

\* It calls Handle with the next event.
Calls(g, x, y) ==
  /\ Kept(x, y) /\ y.catchUp = x.catchUp /\ y.pend = x.pend
  /\ x.pc = "event" /\ y.pc = "handle" /\ y.after = x.after /\ y.until = x.until
  /\ x.after < x.until /\ (x.catchUp => Unlocked(g))

\* It passes the next event of the batch: an event it has seen, one that is
\* not its business, or one that Handle or the dead letters have taken.
Passes(x, y) ==
  /\ y \in Worker /\ Handler(x, y) /\ y.catchUp = x.catchUp /\ y.pend = x.pend
  /\ x.pc \in {"event", "handle"} /\ y.pc = "event"
  /\ x.after < x.until /\ y.after = x.after + 1 /\ y.until = x.until
  /\ Len(y.seen) <= RingCap
  /\ \A i \in 1..Len(y.seen) : y.seen[i] = x.after + 1 \/ Seen(x, y.seen[i])
  /\ \/ Seen(x, x.after + 1)
     \/ x.after + 1 \in Ignored
     \/ x.after + 1 \in applied' \cup dlq'

\* It goes on with its position: to the save, to the next batch, to the live
\* phase.
Goes(x, y) ==
  /\ Kept(x, y) /\ y.catchUp = x.catchUp /\ y.pend = x.pend
  /\ x.pc \in {"event", "save", "read", "blocked"} /\ y.pc \in {"save", "read", "subscribe"}
  /\ (y.pc = "subscribe" => Subscriber)
  /\ y.after = x.after /\ y.until \in {0, x.until}

\* It registers the live handler and begins the catch-up drain.
Registers(x, y) ==
  /\ y \in Worker /\ y.seen = x.seen /\ y.called = x.called
  /\ y.cb = x.cb /\ y.cbPC = x.cbPC /\ y.pend = x.pend
  /\ x.pc = "subscribe" /\ y.pc \in {"read", "blocked"}
  /\ y.after = x.after /\ y.until = x.until

Move(g, x, y) ==
  \/ Leaves(x, y) \/ Resumes(x, y) \/ Opens(x, y) \/ Calls(g, x, y)
  \/ Passes(x, y) \/ Goes(x, y) \/ Registers(x, y)

\* A step of worker g moves it, leaves the others alone, adds to applied and
\* dead letters at most the event it passes, and saves at most the position it
\* has or the checkpoint it staged.
Moved(g) ==
  /\ \E y \in Worker : Set(g, y) /\ Move(g, worker[g], y)
  /\ UNCHANGED <<journal, gen, host, replay>>
  /\ applied \subseteq applied' /\ dlq \subseteq dlq'
  /\ applied' \cup dlq' \subseteq applied \cup dlq \cup {worker[g].after + 1}
  /\ applied' \cup dlq' # applied \cup dlq => worker[g].pc = "handle"
  /\ \/ cp' = cp
     \/ cp' = worker[g].pend /\ worker[g].pend # 0
     \/ cp' = worker[g].after /\ worker[g].pc = "save"

\* The numbers of a worker and its bounds.
LEMMA Numbers ==
  ASSUME HostType, NEW g \in Gen
  PROVE  LET x == worker[g] IN
         /\ x \in Worker /\ x.after \in Nat /\ x.until \in Nat /\ x.pend \in Nat
         /\ x.cb \in Nat /\ Len(x.seen) <= RingCap
         /\ x.after <= journal /\ x.until <= journal /\ x.pend <= journal /\ x.cb <= journal
         /\ journal \in Nat /\ cp \in Nat /\ journal <= MaxEvents /\ MaxEvents \in Nat
         /\ BatchSize \in Nat \ {0}
<1>1. worker[g] \in Worker /\ Sound(worker[g], journal)
  BY Zenon DEF HostType
<1>2. MaxEvents \in Nat /\ BatchSize \in Nat \ {0}
  BY ProjectionHostAssumption, Zenon
<1>3. journal \in Nat /\ cp \in Nat /\ journal <= MaxEvents
  BY <1>2 DEF HostType
<1> QED
  BY <1>1, <1>2, <1>3, Zenon DEF Sound, Worker

\* The steps that leave checkpoint, read model and dead letters alone.
LEMMA QuietMove ==
  ASSUME NEW g \in Gen, NEW y \in Worker, Set(g, y), Move(g, worker[g], y),
         UNCHANGED <<journal, cp, applied, dlq, gen, host, replay>>
  PROVE  Moved(g)
BY Zenon DEF Moved

\* run ends or fails.
LEMMA LeavesMove ==
  ASSUME NEW x \in Worker, x.pc \notin {"new", "done", "gone"}
  PROVE  /\ Exit(x) \in Worker /\ Leaves(x, Exit(x))
         /\ Broken(x) \in Worker /\ Leaves(x, Broken(x))
BY ExitFields, BrokenFields, Zenon DEF Leaves, Kept

\* What follows a drain.
LEMMA DrainedFields ==
  ASSUME NEW x \in Worker, NEW y \in Worker, Kept(x, y), y.after = x.after,
         y.until \in {0, x.until}, y.catchUp = x.catchUp, y.pend = x.pend,
         x.pc \in {"save", "read"}, y.pc = x.pc
  PROVE  Drained(y) \in Worker /\ (Leaves(x, Drained(y)) \/ Goes(x, Drained(y)))
<1>1. CASE Subscriber /\ ~y.catchUp
  <2> DEFINE d == [y EXCEPT !.pc = "subscribe", !.status = "live"]
  <2>1. Drained(y) = d
    BY <1>1, Zenon DEF Drained
  <2>2. "subscribe" \in PC /\ "live" \in Status
    BY Zenon DEF PC, Status
  <2>3. /\ d \in Worker /\ Kept(y, d) /\ d.pc = "subscribe" /\ d.after = y.after
        /\ d.until = y.until /\ d.catchUp = y.catchUp /\ d.pend = y.pend
    BY <2>2, Zenon DEF Worker, Kept, Handler
  <2> HIDE DEF d
  <2>4. Kept(x, d)
    BY <2>3, Zenon DEF Kept, Handler
  <2> QED
    BY <1>1, <2>1, <2>3, <2>4, Zenon DEF Goes
<1>2. CASE ~(Subscriber /\ ~y.catchUp)
  <2>1. Drained(y) = Exit(y)
    BY <1>2, Zenon DEF Drained
  <2>2. /\ Kept(y, Exit(y)) /\ Exit(y).pc = "flush" /\ Exit(y).pend = y.pend
        /\ Exit(y).after = 0 /\ Exit(y).until = 0 /\ Exit(y).catchUp = y.catchUp
    BY ExitFields, Zenon
  <2>3. Kept(x, Exit(y))
    BY <2>2, Zenon DEF Kept, Handler
  <2> QED
    BY <2>1, <2>2, <2>3, Zenon DEF Leaves, Kept
<1> QED
  BY <1>1, <1>2, Zenon

\* run and process until the first batch is read.
LEMMA FirstMoves ==
  ASSUME HostType, NEW g \in Gen, Top(g) \/ LoadCheckpoint(g) \/ Backoff(g)
  PROVE  Moved(g)
<1> DEFINE x == worker[g]
<1>1. /\ x \in Worker /\ cp \in Nat /\ UNCHANGED <<journal, cp, applied, dlq, gen, host, replay>>
      /\ x.pc \in {"top", "load", "backoff"}
  BY DEF HostType, Top, LoadCheckpoint, Backoff
<1>2. x.pc \notin {"new", "done", "gone"}
  BY <1>1, Zenon
<1>3. /\ Exit(x) \in Worker /\ Leaves(x, Exit(x))
      /\ Broken(x) \in Worker /\ Leaves(x, Broken(x))
  BY <1>1, <1>2, LeavesMove, Zenon
<1>4. Set(g, Exit(x)) \/ Set(g, Broken(x)) => Moved(g)
  BY <1>1, <1>3, QuietMove, Zenon DEF Move
<1>5. CASE Top(g)
  <2> DEFINE y == [x EXCEPT !.status = "running", !.pc = "load"]
  <2>1. Set(g, Exit(x)) \/ Set(g, y)
    BY <1>5, Zenon DEF Top
  <2>2. y \in Worker /\ Leaves(x, y)
    BY <1>1, <1>2, Zenon DEF Leaves, Kept, Handler, Worker, PC, Status
  <2> QED
    BY <1>1, <1>4, <2>1, <2>2, QuietMove, Zenon DEF Move
<1>6. CASE LoadCheckpoint(g)
  <2> DEFINE y == [x EXCEPT !.after = cp, !.catchUp = FALSE, !.pc = "read"]
  <2>1. Set(g, Exit(x)) \/ Set(g, Broken(x)) \/ Set(g, y)
    BY <1>6, Zenon DEF LoadCheckpoint, Cancelled
  <2>2. x.pc = "load"
    BY <1>6, Zenon DEF LoadCheckpoint
  <2>3. y \in Worker /\ Resumes(x, y)
    BY <1>1, <2>2, Zenon DEF Resumes, Kept, Handler, Worker, PC
  <2> QED
    BY <1>1, <1>4, <2>1, <2>3, QuietMove, Zenon DEF Move
<1>7. CASE Backoff(g)
  <2> DEFINE y == [x EXCEPT !.pc = "top"]
  <2>1. Set(g, Exit(x)) \/ Set(g, y)
    BY <1>7, Zenon DEF Backoff
  <2>2. y \in Worker /\ Leaves(x, y)
    BY <1>1, <1>2, Zenon DEF Leaves, Kept, Handler, Worker, PC
  <2> QED
    BY <1>1, <1>4, <2>1, <2>2, QuietMove, Zenon DEF Move
<1> QED
  BY <1>5, <1>6, <1>7, Zenon

\* Reading a batch.
LEMMA ReadMoves ==
  ASSUME HostType, NEW g \in Gen, Read(g)
  PROVE  Moved(g)
<1> DEFINE x == worker[g]
           end == IF x.after + BatchSize < journal THEN x.after + BatchSize ELSE journal
           y == [x EXCEPT !.until = end, !.full = end - x.after = BatchSize, !.pc = "event"]
<1>1. /\ x \in Worker /\ UNCHANGED <<journal, cp, applied, dlq, gen, host, replay>>
      /\ x.pc = "read" /\ x.after \in Nat /\ journal \in Nat /\ BatchSize \in Nat \ {0}
  BY Numbers, Zenon DEF Read
<1>2. x.pc \notin {"new", "done", "gone"}
  BY <1>1, Zenon
<1>3. /\ Exit(x) \in Worker /\ Leaves(x, Exit(x))
      /\ Broken(x) \in Worker /\ Leaves(x, Broken(x))
  BY <1>1, <1>2, LeavesMove, Zenon
<1>4. Set(g, Exit(x)) \/ Set(g, Broken(x)) => Moved(g)
  BY <1>1, <1>3, QuietMove, Zenon DEF Move
<1>5. CASE Set(g, Exit(x)) \/ Set(g, Broken(x))
  BY <1>4, <1>5, Zenon
<1>6. CASE x.after >= journal /\ Set(g, Drained(x))
  <2>1. Drained(x) \in Worker /\ (Leaves(x, Drained(x)) \/ Goes(x, Drained(x)))
    <3>1. Kept(x, x)
      BY <1>1, Zenon DEF Kept, Handler
    <3> QED
      BY <1>1, <3>1, DrainedFields, Zenon
  <2> QED
    BY <1>1, <1>6, <2>1, QuietMove, Zenon DEF Move
<1>7. CASE x.after < journal /\ Set(g, y)
  <2>1. end \in Nat /\ x.after < end /\ end <= journal
    BY <1>1, <1>7
  <2> HIDE DEF end
  <2>2. y \in Worker /\ Opens(x, y)
    BY <1>1, <2>1, Zenon DEF Opens, Kept, Handler, Worker, PC
  <2> QED
    BY <1>1, <1>7, <2>2, QuietMove, Zenon DEF Move
<1>8. \/ Set(g, Exit(x)) \/ Set(g, Broken(x))
      \/ Set(g, IF x.after >= journal THEN Drained(x) ELSE y)
  BY Zenon DEF Read, Cancelled
<1>9. x.after >= journal \/ x.after < journal
  BY <1>1
<1>10. x.after >= journal => ~(x.after < journal)
  BY <1>1
<1> HIDE DEF x, y, end
<1> QED
  BY <1>5, <1>6, <1>7, <1>8, <1>9, <1>10, Zenon

\* The loop over the batch.
LEMMA EventMoves ==
  ASSUME HostType, NEW g \in Gen, NextEvent(g)
  PROVE  Moved(g)
<1> DEFINE x == worker[g]
           e == x.after + 1
           s == [x EXCEPT !.pc = "save"]
           p == [x EXCEPT !.after = e]
           c == [x EXCEPT !.pc = "handle"]
<1>1. /\ x \in Worker /\ UNCHANGED <<journal, cp, applied, dlq, gen, host, replay>>
      /\ x.pc = "event" /\ x.after \in Nat /\ x.until \in Nat /\ journal \in Nat
      /\ Len(x.seen) <= RingCap /\ x.until <= journal /\ journal <= MaxEvents
      /\ MaxEvents \in Nat
  BY Numbers, Zenon DEF NextEvent
<1>2. CASE Set(g, Exit(x))
  <2>1. Exit(x) \in Worker /\ Leaves(x, Exit(x))
    BY <1>1, LeavesMove, Zenon
  <2> QED
    BY <1>1, <1>2, <2>1, QuietMove, Zenon DEF Move
<1>3. CASE x.after = x.until /\ Set(g, s)
  <2>1. s \in Worker /\ Goes(x, s)
    BY <1>1, Zenon DEF Goes, Kept, Handler, Worker, PC
  <2> QED
    BY <1>1, <1>3, <2>1, QuietMove, Zenon DEF Move
<1>4. CASE x.after < x.until /\ Seen(x, e) /\ Set(g, p)
  <2>0. e \in Nat
    BY <1>1
  <2>1. p \in Worker /\ p.seen = x.seen
    <3> HIDE DEF e
    <3> QED
      BY <1>1, <2>0, Zenon DEF Worker
  <2>2. \A i \in 1..Len(x.seen) : Seen(x, x.seen[i])
    BY Zenon DEF Seen
  <2>3. Handler(x, p) /\ p.catchUp = x.catchUp /\ p.pend = x.pend /\ p.pc = "event"
        /\ p.after = x.after + 1 /\ p.until = x.until
    BY <1>1, <2>0, <2>1, Zenon DEF Worker, Handler
  <2>4. Passes(x, p)
    <3> HIDE DEF x, p
    <3> QED
      BY <1>1, <1>4, <2>1, <2>2, <2>3, Zenon DEF Passes
  <2> QED
    BY <1>1, <1>4, <2>1, <2>4, QuietMove, Zenon DEF Move
<1>5. CASE x.after < x.until /\ e \in Ignored /\ Set(g, MarkSeen(p, e))
  <2>0. e \in Nat /\ e \in Event
    BY <1>1, <1>5 DEF Event
  <2>1. p \in Worker /\ p.seen = x.seen
    <3> HIDE DEF e
    <3> QED
      BY <1>1, <2>0, Zenon DEF Worker
  <2>2. Handler(x, p) /\ p.catchUp = x.catchUp /\ p.pend = x.pend /\ p.pc = "event"
        /\ p.after = x.after + 1 /\ p.until = x.until
    BY <1>1, <2>0, <2>1, Zenon DEF Worker, Handler
  <2> HIDE DEF p, x
  <2>3. Marked(p, MarkSeen(p, e), e)
    BY <1>1, <2>0, <2>1, MarkFields, Zenon
  <2> DEFINE m == MarkSeen(p, e)
  <2>4. \A v : Seen(p, v) => Seen(x, v)
    BY <2>1, Zenon DEF Seen
  <2> HIDE DEF m
  <2>5. m \in Worker /\ Passes(x, m)
    BY <1>1, <1>5, <2>2, <2>3, <2>4, Zenon DEF Passes, Marked, Handler, m
  <2> QED
    BY <1>1, <1>5, <2>5, QuietMove, Zenon DEF Move, m, x
<1>6. CASE x.after < x.until /\ (x.catchUp => Unlocked(g)) /\ Set(g, c)
  <2>1. c \in Worker /\ Calls(g, x, c)
    BY <1>1, <1>6, Zenon DEF Calls, Kept, Handler, Worker, PC
  <2> QED
    BY <1>1, <1>6, <2>1, QuietMove, Zenon DEF Move
<1>7. \/ x.after = x.until /\ Set(g, s)
      \/ Set(g, Exit(x))
      \/ /\ x.after < x.until /\ (x.catchUp => Unlocked(g))
         /\ Set(g, IF Seen(x, e) THEN p ELSE IF e \in Ignored THEN MarkSeen(p, e) ELSE c)
  BY Zenon DEF NextEvent, Cancelled
<1> HIDE DEF x, e, s, p, c
<1> QED
  BY <1>2, <1>3, <1>4, <1>5, <1>6, <1>7, Zenon

\* The return of Handle.
LEMMA HandledMoves ==
  ASSUME HostType, NEW g \in Gen, Handled(g)
  PROVE  Moved(g)
<1> DEFINE x == worker[g]
           e == x.after + 1
           p == [x EXCEPT !.after = e, !.pc = "event"]
           m == MarkSeen(p, e)
<1>1. /\ x \in Worker /\ UNCHANGED <<journal, cp, gen, host, replay>>
      /\ x.pc = "handle" /\ x.after \in Nat /\ x.until \in Nat /\ journal \in Nat
      /\ Len(x.seen) <= RingCap /\ x.until <= journal /\ journal <= MaxEvents
      /\ MaxEvents \in Nat
  BY Numbers, Zenon DEF Handled
<1>2. x.after < x.until
  BY <1>1, Zenon DEF HostType, Sound
<1>3. e \in Nat /\ e \in Event
  BY <1>1, <1>2 DEF Event
<1>4. ASSUME UNCHANGED <<applied, dlq>>, Set(g, Exit(x)) \/ Set(g, Broken(x)) PROVE Moved(g)
  <2>1. /\ Exit(x) \in Worker /\ Leaves(x, Exit(x))
        /\ Broken(x) \in Worker /\ Leaves(x, Broken(x))
    BY <1>1, LeavesMove, Zenon
  <2> QED
    BY <1>1, <1>4, <2>1, QuietMove, Zenon DEF Move
<1>5. /\ p \in Worker /\ p.seen = x.seen /\ Handler(x, p) /\ p.catchUp = x.catchUp
      /\ p.pend = x.pend /\ p.pc = "event" /\ p.after = e /\ p.until = x.until
  <2>1. "event" \in PC
    BY Zenon DEF PC
  <2> HIDE DEF e
  <2> QED
    BY <1>1, <1>3, <2>1, Zenon DEF Worker, Handler
<1>6. ASSUME e \in applied' \cup dlq' PROVE m \in Worker /\ Passes(x, m)
  <2> HIDE DEF p, x
  <2>1. Marked(p, m, e)
    BY <1>1, <1>3, <1>5, MarkFields, Zenon
  <2>2. \A v : Seen(p, v) => Seen(x, v)
    BY <1>5, Zenon DEF Seen
  <2> HIDE DEF m
  <2> QED
    BY <1>1, <1>2, <1>5, <1>6, <2>1, <2>2, Zenon DEF Passes, Marked, Handler
<1>7. ASSUME Set(g, m), \/ applied' = applied \cup {e} /\ UNCHANGED dlq
                        \/ dlq' = dlq \cup {e} /\ UNCHANGED applied
      PROVE  Moved(g)
  <2>1. /\ e \in applied' \cup dlq' /\ applied \subseteq applied' /\ dlq \subseteq dlq'
        /\ applied' \cup dlq' \subseteq applied \cup dlq \cup {e}
    BY <1>7, Zenon
  <2>2. m \in Worker /\ Passes(x, m)
    BY <1>6, <2>1, Zenon
  <2> QED
    BY <1>1, <1>7, <2>1, <2>2, Zenon DEF Moved, Move
<1>8. \/ UNCHANGED <<applied, dlq>> /\ (Set(g, Exit(x)) \/ Set(g, Broken(x)))
      \/ /\ Set(g, m)
         /\ \/ applied' = applied \cup {e} /\ UNCHANGED dlq
            \/ dlq' = dlq \cup {e} /\ UNCHANGED applied
  BY Zenon DEF Handled, Cancelled
<1> HIDE DEF x, e, m
<1> QED
  BY <1>4, <1>7, <1>8, Zenon

\* The save after a batch.
LEMMA SaveMoves ==
  ASSUME HostType, NEW g \in Gen, SaveCheckpoint(g)
  PROVE  Moved(g)
<1> DEFINE x == worker[g]
           r == [x EXCEPT !.until = 0, !.full = FALSE, !.pc = "read"]
           u == [x EXCEPT !.until = 0]
<1>1. /\ x \in Worker /\ UNCHANGED <<journal, applied, dlq, gen, host, replay>>
      /\ x.pc = "save"
  BY Numbers, Zenon DEF SaveCheckpoint
<1>2. CASE UNCHANGED cp /\ (Set(g, Exit(x)) \/ Set(g, Broken(x)))
  <2>1. /\ Exit(x) \in Worker /\ Leaves(x, Exit(x))
        /\ Broken(x) \in Worker /\ Leaves(x, Broken(x))
    BY <1>1, LeavesMove, Zenon
  <2> QED
    BY <1>1, <1>2, <2>1, QuietMove, Zenon DEF Move
<1>3. r \in Worker /\ Goes(x, r)
  BY <1>1, Zenon DEF Goes, Kept, Handler, Worker, PC
<1>4. Drained(u) \in Worker /\ (Leaves(x, Drained(u)) \/ Goes(x, Drained(u)))
  <2>1. /\ u \in Worker /\ Kept(x, u) /\ u.after = x.after /\ u.until = 0
        /\ u.catchUp = x.catchUp /\ u.pend = x.pend /\ u.pc = x.pc
    BY <1>1, Zenon DEF Kept, Handler, Worker
  <2> HIDE DEF u, x
  <2> QED
    BY <1>1, <2>1, DrainedFields, Zenon
<1>5. \/ UNCHANGED cp /\ (Set(g, Exit(x)) \/ Set(g, Broken(x)))
      \/ cp' = x.after /\ (Set(g, r) \/ Set(g, Drained(u)))
  BY Zenon DEF SaveCheckpoint, Cancelled
<1>6. ASSUME NEW y \in Worker, Set(g, y), Leaves(x, y) \/ Goes(x, y), cp' = x.after
      PROVE  Moved(g)
  BY <1>1, <1>6, Zenon DEF Moved, Move
<1> HIDE DEF x, r, u
<1> QED
  BY <1>2, <1>3, <1>4, <1>5, <1>6, Zenon

\* The registration of the live handler, the end of a blocking one, and the
\* flush at the end of run.
LEMMA LastMoves ==
  ASSUME HostType, NEW g \in Gen, Subscribe(g) \/ Unblock(g) \/ Flush(g)
  PROVE  Moved(g)
<1> DEFINE x == worker[g]
<1>1. /\ x \in Worker /\ UNCHANGED <<journal, applied, dlq, gen, host, replay>>
      /\ x.pc \in {"subscribe", "blocked", "flush"}
  BY Numbers, Zenon DEF Subscribe, Unblock, Flush
<1>2. CASE Subscribe(g)
  <2> DEFINE y == [x EXCEPT !.next = Append(@, journal + 1), !.from = journal,
                            !.catchUp = TRUE]
             r == [y EXCEPT !.pc = "read"]
             b == [y EXCEPT !.pc = "blocked"]
  <2>0. x.pc = "subscribe" /\ UNCHANGED cp
    BY <1>2, Zenon DEF Subscribe
  <2>1. Set(g, r) \/ Set(g, b) \/ Set(g, Broken(x))
    BY <1>2, Zenon DEF Subscribe
  <2>2. Append(x.next, journal + 1) \in Seq(Nat) /\ journal \in Nat
    <3>1. x.next \in Seq(Nat) /\ journal + 1 \in Nat /\ journal \in Nat
      BY <1>1, Numbers DEF Worker
    <3> QED
      BY <3>1
  <2>3. /\ y \in Worker /\ y.seen = x.seen /\ y.called = x.called /\ y.cb = x.cb
        /\ y.cbPC = x.cbPC /\ y.pend = x.pend /\ y.after = x.after /\ y.until = x.until
    BY <1>1, <2>2, Zenon DEF Worker
  <2> HIDE DEF y, x
  <2>4. r \in Worker /\ Registers(x, r)
    BY <2>0, <2>3, Zenon DEF Registers, Worker, PC
  <2>5. b \in Worker /\ Registers(x, b)
    BY <2>0, <2>3, Zenon DEF Registers, Worker, PC
  <2>6. Broken(x) \in Worker /\ Leaves(x, Broken(x))
    BY <1>1, <2>0, LeavesMove, Zenon
  <2> QED
    BY <1>1, <2>0, <2>1, <2>4, <2>5, <2>6, QuietMove, Zenon DEF Move, x
<1>3. CASE Unblock(g)
  <2> DEFINE y == [x EXCEPT !.pc = "read"]
  <2>0. x.pc = "blocked" /\ UNCHANGED cp /\ Set(g, y)
    BY <1>3, Zenon DEF Unblock
  <2>1. y \in Worker /\ Goes(x, y)
    BY <1>1, <2>0, Zenon DEF Goes, Kept, Handler, Worker, PC
  <2> QED
    BY <1>1, <2>0, <2>1, QuietMove, Zenon DEF Move
<1>4. CASE Flush(g)
  <2> DEFINE d == [x EXCEPT !.pc = "done"]
             f == [Flushed(x) EXCEPT !.pc = "done"]
  <2>0. x.pc = "flush"
    BY <1>4, Zenon DEF Flush
  <2>1. d \in Worker /\ Leaves(x, d)
    BY <1>1, <2>0, Zenon DEF Leaves, Kept, Handler, Worker, PC
  <2>2. /\ Flushed(x) \in Worker /\ Kept(x, Flushed(x)) /\ Flushed(x).pend = 0
        /\ Flushed(x).catchUp = x.catchUp /\ Flushed(x).after = x.after
        /\ Flushed(x).until = x.until
    BY <1>1, Zenon DEF Flushed, Kept, Handler, Worker
  <2>3. f \in Worker /\ Leaves(x, f)
    <3> DEFINE h == Flushed(x)
    <3> HIDE DEF h, x
    <3>1. f = [h EXCEPT !.pc = "done"]
      BY Zenon DEF h
    <3>2. /\ f \in Worker /\ Kept(h, f) /\ f.pc = "done" /\ f.after = h.after
          /\ f.until = h.until /\ f.catchUp = h.catchUp /\ f.pend = h.pend
      BY <2>2, <3>1, Zenon DEF h, Worker, Kept, Handler, PC
    <3> QED
      BY <2>0, <2>2, <3>2, Zenon DEF h, Leaves, Kept, Handler
  <2>4. \/ Set(g, d) /\ UNCHANGED cp
        \/ x.pend # 0 /\ Set(g, f) /\ cp' = x.pend
    BY <1>4, Zenon DEF Flush
  <2> HIDE DEF d, f, x
  <2> QED
    BY <1>1, <2>1, <2>3, <2>4, QuietMove, Zenon DEF Moved, Move, x
<1> QED
  BY <1>2, <1>3, <1>4

\* Every step of the worker goroutine is one of the moves.
LEMMA WorkMoves ==
  ASSUME HostType, NEW g \in Gen, Work(g) \/ Unblock(g)
  PROVE  Moved(g)
BY FirstMoves, ReadMoves, EventMoves, HandledMoves, SaveMoves, LastMoves, Zenon DEF Work

-----------------------------------------------------------------------------
(* The moves of the live handler *)

\* y has the position of x.
Place(x, y) ==
  y.pc = x.pc /\ y.after = x.after /\ y.until = x.until /\ y.catchUp = x.catchUp

\* A delivery, or a step of a callback: the position stays, handleMu is taken
\* only when it is free, and what the callbacks hold is in the journal.
Served(g, x, y) ==
  /\ y \in Worker /\ Place(x, y) /\ Len(y.seen) <= RingCap
  /\ y.pend \in {0, x.pend, x.cb}
  /\ y.called \subseteq 1..journal
  /\ \/ y.cb = x.cb /\ y.cbPC # "none" /\ x.cbPC # "none"
     \/ y.cb = x.cb /\ y.cbPC = x.cbPC
     \/ y.cb = 0 /\ y.cbPC = "none"
     \/ y.cb \in x.called /\ Unlocked(g)

\* A step of the live handler of g serves one callback; it adds to the read
\* model and the dead letters at most the event of that callback, and saves at
\* most that event as the checkpoint.
LiveMoved(g) ==
  /\ worker[g].next # <<>> \/ worker[g].called # {} \/ worker[g].cbPC # "none"
  /\ \E y \in Worker : Set(g, y) /\ Served(g, worker[g], y)
  /\ UNCHANGED <<journal, gen, host, replay>>
  /\ applied' \cup dlq' \subseteq applied \cup dlq \cup {worker[g].cb}
  /\ applied' \cup dlq' # applied \cup dlq => worker[g].cbPC # "none"
  /\ cp' = cp \/ (cp' = worker[g].cb /\ worker[g].cbPC # "none")

\* The delivery by the bus.
LEMMA DeliverServes ==
  ASSUME HostType, NEW g \in Gen, NEW e \in Event, Deliver(g, e)
  PROVE  LiveMoved(g)
<1> DEFINE x == worker[g]
<1>1. /\ x \in Worker /\ UNCHANGED <<journal, cp, applied, dlq, gen, host, replay>>
      /\ Len(x.seen) <= RingCap /\ x.called \subseteq 1..journal /\ e <= journal
      /\ journal \in Nat /\ MaxEvents \in Nat /\ x.next \in Seq(Nat)
  BY Numbers, Zenon DEF Deliver, HostType, Sound, Worker
<1>2. PICK i \in 1..Len(x.next) :
        Set(g, [x EXCEPT !.next[i] = e + 1, !.called = IF x.stop THEN @ ELSE @ \cup {e}])
  BY Zenon DEF Deliver
<1> DEFINE n == [x.next EXCEPT ![i] = e + 1]
           c == IF x.stop THEN x.called ELSE x.called \cup {e}
           y == [x EXCEPT !.next = n, !.called = c]
<1>3. n \in Seq(Nat) /\ x.next # <<>>
  <2>1. e + 1 \in Nat
    BY DEF Event
  <2>2. n \in Seq(Nat)
    BY <1>1, <2>1
  <2>3. x.next # <<>>
    BY <1>1, <1>2
  <2> QED
    BY <2>2, <2>3, Zenon
<1>4. c \subseteq 1..journal /\ c \subseteq Event
  <2>1. e \in 1..journal
    BY <1>1 DEF Event
  <2>2. x.called \subseteq Event
    BY <1>1, Zenon DEF Worker
  <2> QED
    BY <1>1, <2>1, <2>2, Zenon
<1>5. Set(g, y)
  BY <1>2, Zenon
<1> HIDE DEF n, c
<1>6. /\ y \in Worker /\ Place(x, y) /\ y.seen = x.seen /\ y.pend = x.pend /\ y.cb = x.cb
      /\ y.cbPC = x.cbPC /\ y.called = c
  BY <1>1, <1>3, <1>4, Zenon DEF Worker, Place
<1>7. Served(g, x, y)
  <2> HIDE DEF y, x
  <2> QED
    BY <1>1, <1>4, <1>6, Zenon DEF Served
<1> QED
  BY <1>1, <1>3, <1>5, <1>6, <1>7, Zenon DEF LiveMoved

\* A callback takes handleMu.
LEMMA CallbackServes ==
  ASSUME HostType, NEW g \in Gen, NEW e \in Event, Callback(g, e)
  PROVE  LiveMoved(g)
<1> DEFINE x == worker[g]
           y == [x EXCEPT !.called = @ \ {e}]
           h == [y EXCEPT !.cb = e, !.cbPC = "handle"]
<1>1. /\ x \in Worker /\ UNCHANGED <<journal, cp, applied, dlq, gen, host, replay>>
      /\ Len(x.seen) <= RingCap /\ x.called \subseteq 1..journal /\ e \in x.called
      /\ Unlocked(g) /\ e \in Nat
  BY Numbers DEF Callback, HostType, Sound, Event
<1>2. /\ y \in Worker /\ Place(x, y) /\ y.seen = x.seen /\ y.pend = x.pend /\ y.cb = x.cb
      /\ y.cbPC = x.cbPC /\ y.called = x.called \ {e}
  BY <1>1, Zenon DEF Worker, Place
<1>3. Set(g, y) \/ Set(g, MarkSeen(y, e)) \/ Set(g, h)
  BY Zenon DEF Callback
<1> HIDE DEF x, y
<1>4. Served(g, x, y)
  BY <1>1, <1>2, Zenon DEF Served
<1>5. MarkSeen(y, e) \in Worker /\ Served(g, x, MarkSeen(y, e))
  <2> DEFINE m == MarkSeen(y, e)
  <2>1. Marked(y, m, e)
    BY <1>1, <1>2, MarkFields, Zenon
  <2> HIDE DEF m
  <2>2. m \in Worker /\ Served(g, x, m)
    BY <1>1, <1>2, <2>1, Zenon DEF Served, Place, Marked, Handler
  <2> QED
    BY <2>2, Zenon DEF m
<1>6. h \in Worker /\ Served(g, x, h)
  <2>1. /\ h \in Worker /\ Place(y, h) /\ h.seen = y.seen /\ h.pend = y.pend
        /\ h.called = y.called /\ h.cb = e
    BY <1>1, <1>2, Zenon DEF Worker, Place
  <2> HIDE DEF h
  <2> QED
    BY <1>1, <1>2, <2>1, Zenon DEF Served, Place
<1>7. x.called # {}
  BY <1>1, Zenon
<1> QED
  BY <1>1, <1>2, <1>3, <1>4, <1>5, <1>6, <1>7, Zenon DEF LiveMoved, x

\* The rest of a callback: the return of Handle, the checkpoint, the ring.
LEMMA CallbackMoves ==
  ASSUME HostType, NEW g \in Gen, CallbackHandled(g) \/ CallbackSave(g)
  PROVE  LiveMoved(g)
<1> DEFINE x == worker[g]
<1>0. /\ x \in Worker /\ UNCHANGED <<journal, gen, host, replay>>
      /\ Len(x.seen) <= RingCap /\ x.called \subseteq 1..journal /\ x.cbPC # "none"
      /\ x.cb \in Nat /\ x.cb <= journal /\ journal \in Nat /\ journal <= MaxEvents
      /\ MaxEvents \in Nat
  BY Numbers, Zenon DEF CallbackHandled, CallbackSave, HostType, Sound
<1>a. x.cb \in Event
  <2>1. x.cb # 0
    BY <1>0, Zenon DEF HostType, Sound
  <2> QED
    BY <1>0, <2>1 DEF Event
<1>1. ASSUME NEW w \in Worker, Place(x, w), Len(w.seen) <= RingCap,
             w.pend \in {0, x.pend, x.cb}, w.called = x.called
      PROVE  CallbackEnd(w) \in Worker /\ Served(g, x, CallbackEnd(w))
  <2>1. LET y == CallbackEnd(w) IN
        /\ y \in Worker /\ Place(w, y) /\ y.seen = w.seen /\ y.pend = w.pend
        /\ y.called = w.called /\ y.cb = 0 /\ y.cbPC = "none"
    BY <1>1, Zenon DEF CallbackEnd, Worker, Place
  <2> DEFINE y == CallbackEnd(w)
  <2> HIDE DEF y, x
  <2>2. y \in Worker /\ Served(g, x, y)
    BY <1>0, <1>1, <2>1, Zenon DEF Served, Place, y
  <2> QED
    BY <2>2, Zenon DEF y
<1>2. Place(x, x)
  BY Zenon DEF Place
<1>3. CASE CallbackHandled(g)
  <2> DEFINE s == [x EXCEPT !.cbPC = "save"]
  <2>1. s \in Worker /\ Served(g, x, s)
    BY <1>0, Zenon DEF Served, Place, Worker
  <2>2. CallbackEnd(x) \in Worker /\ Served(g, x, CallbackEnd(x))
    BY <1>0, <1>1, <1>2, Zenon
  <2>3. /\ Set(g, s) \/ Set(g, CallbackEnd(x))
        /\ UNCHANGED cp
        /\ \/ UNCHANGED <<applied, dlq>>
           \/ applied' = applied \cup {x.cb} /\ UNCHANGED dlq
           \/ dlq' = dlq \cup {x.cb} /\ UNCHANGED applied
    BY <1>3, Zenon DEF CallbackHandled
  <2>4. applied' \cup dlq' \subseteq applied \cup dlq \cup {x.cb}
    BY <2>3, Zenon
  <2> HIDE DEF s
  <2> QED
    BY <1>0, <2>1, <2>2, <2>3, <2>4, Zenon DEF LiveMoved
<1>4. CASE CallbackSave(g)
  <2> DEFINE f == Flushed(x)
             t == [x EXCEPT !.pend = x.cb, !.since = @ + 1]
             d == [t EXCEPT !.redo = @ \cup {x.cb}]
  <2>1. /\ f \in Worker /\ Place(x, f) /\ f.seen = x.seen /\ f.pend = 0
        /\ f.called = x.called
    BY <1>0, Zenon DEF Flushed, Worker, Place
  <2>2. /\ t \in Worker /\ Place(x, t) /\ t.seen = x.seen /\ t.pend = x.cb
        /\ t.called = x.called
    <3>1. x.since + 1 \in Nat
      BY <1>0 DEF Worker
    <3> QED
      BY <1>0, <3>1, Zenon DEF Worker, Place
  <2>0. /\ \/ Set(g, CallbackEnd(MarkSeen(f, x.cb)))
           \/ Set(g, CallbackEnd(MarkSeen(t, x.cb)))
           \/ Set(g, CallbackEnd(d))
        /\ cp' = cp \/ cp' = x.cb
        /\ UNCHANGED <<applied, dlq>>
    BY <1>4, Zenon DEF CallbackSave
  <2> HIDE DEF f, t
  <2>3. ASSUME NEW w \in Worker, Place(x, w), w.seen = x.seen, w.pend \in {0, x.cb},
               w.called = x.called
        PROVE  /\ CallbackEnd(MarkSeen(w, x.cb)) \in Worker
               /\ Served(g, x, CallbackEnd(MarkSeen(w, x.cb)))
    <3> DEFINE m == MarkSeen(w, x.cb)
    <3> HIDE DEF x
    <3>1. Marked(w, m, x.cb)
      BY <1>0, <1>a, <2>3, MarkFields, Zenon
    <3> HIDE DEF m
    <3>2. /\ m \in Worker /\ Place(x, m) /\ Len(m.seen) <= RingCap
          /\ m.pend \in {0, x.pend, x.cb} /\ m.called = x.called
      BY <2>3, <3>1, Zenon DEF Marked, Place, Handler
    <3>3. CallbackEnd(m) \in Worker /\ Served(g, x, CallbackEnd(m))
      BY <1>1, <3>2, Zenon
    <3> QED
      BY <3>3, Zenon DEF m
  <2>4. CallbackEnd(d) \in Worker /\ Served(g, x, CallbackEnd(d))
    <3>0. t.redo \cup {x.cb} \in SUBSET Event
      BY <1>a, <2>2, Zenon DEF Worker
    <3>1. /\ d \in Worker /\ Place(t, d) /\ d.seen = t.seen /\ d.pend = t.pend
          /\ d.called = t.called
      BY <2>2, <3>0, Zenon DEF Worker, Place
    <3> HIDE DEF d, x
    <3>2. /\ Place(x, d) /\ Len(d.seen) <= RingCap /\ d.pend \in {0, x.pend, x.cb}
          /\ d.called = x.called
      BY <1>0, <2>2, <3>1, Zenon DEF Place
    <3> QED
      BY <1>1, <3>1, <3>2, Zenon
  <2> HIDE DEF d
  <2>5. CallbackEnd(MarkSeen(f, x.cb)) \in Worker
        /\ Served(g, x, CallbackEnd(MarkSeen(f, x.cb)))
    BY <2>1, <2>3, Zenon
  <2>6. CallbackEnd(MarkSeen(t, x.cb)) \in Worker
        /\ Served(g, x, CallbackEnd(MarkSeen(t, x.cb)))
    BY <2>2, <2>3, Zenon
  <2> QED
    BY <1>0, <2>0, <2>4, <2>5, <2>6, Zenon DEF LiveMoved
<1> QED
  BY <1>3, <1>4, Zenon

\* Every step of the live handler serves it.
LEMMA LiveMoves ==
  ASSUME HostType, NEW g \in Gen, Live(g)
  PROVE  LiveMoved(g)
BY DeliverServes, CallbackServes, CallbackMoves, Zenon DEF Live

-----------------------------------------------------------------------------
(* Types *)

\* A fresh worker, however far run has come.
LEMMA NewSound ==
  ASSUME NEW n \in Nat, NEW pc \in {"new", "top", "gone"}
  PROVE  [NewWorker EXCEPT !.pc = pc] \in Worker /\ Sound([NewWorker EXCEPT !.pc = pc], n)
<1>1. RingCap \in Nat \ {0}
  BY ProjectionHostAssumption, Zenon
<1>2. <<>> \in Seq(Event) /\ <<>> \in Seq(Nat) /\ Len(<<>>) = 0
  OBVIOUS
<1> DEFINE w == [NewWorker EXCEPT !.pc = pc]
<1>3. /\ w \in Worker /\ w.pc = pc /\ w.seen = <<>> /\ w.after = 0 /\ w.until = 0
      /\ w.pend = 0 /\ w.cb = 0 /\ w.called = {} /\ w.cbPC = "none"
  BY <1>2, Zenon DEF NewWorker, Worker, PC, Status
<1> HIDE DEF w
<1>4. Sound(w, n)
  BY <1>1, <1>2, <1>3 DEF Sound
<1> QED
  BY <1>3, <1>4, Zenon DEF w

\* Cancelling the worker and marking its status change nothing else.
LEMMA StatusSound ==
  ASSUME NEW x \in Worker, NEW n, Sound(x, n), NEW st \in Status
  PROVE  /\ [x EXCEPT !.stop = TRUE] \in Worker /\ Sound([x EXCEPT !.stop = TRUE], n)
         /\ [x EXCEPT !.status = st] \in Worker /\ Sound([x EXCEPT !.status = st], n)
         /\ Flushed(x) \in Worker
<1>1. Flushed(x) \in Worker
  BY Zenon DEF Flushed, Worker
<1> DEFINE y == [x EXCEPT !.stop = TRUE]
           z == [x EXCEPT !.status = st]
<1>2. /\ y \in Worker /\ Kept(x, y) /\ y.pc = x.pc /\ y.after = x.after
      /\ y.until = x.until /\ y.pend = x.pend
  BY Zenon DEF Kept, Handler, Worker
<1>3. /\ z \in Worker /\ Kept(x, z) /\ z.pc = x.pc /\ z.after = x.after
      /\ z.until = x.until /\ z.pend = x.pend
  BY Zenon DEF Kept, Handler, Worker
<1> HIDE DEF y, z
<1>4. Sound(y, n) /\ Sound(z, n)
  BY <1>2, <1>3, Zenon DEF Sound, Kept, Handler
<1> QED
  BY <1>1, <1>2, <1>3, <1>4, Zenon DEF y, z

\* A worker stays sound in a longer journal.
LEMMA SoundLonger ==
  ASSUME NEW x, NEW n \in Nat, NEW m \in Nat, n <= m, Sound(x, n)
  PROVE  Sound(x, m)
<1>1. x.after \in Nat /\ x.until \in Nat /\ x.pend \in Nat /\ x.cb \in Nat
  BY Zenon DEF Sound, Worker
<1>2. x.called \subseteq 1..m
  BY DEF Sound
<1> QED
  BY <1>1, <1>2 DEF Sound

\* A moved worker is sound.
LEMMA MoveSound ==
  ASSUME HostType, NEW g \in Gen, NEW y \in Worker, Move(g, worker[g], y)
  PROVE  Sound(y, journal)
<1> DEFINE x == worker[g]
<1>1. /\ x \in Worker /\ Sound(x, journal) /\ x.after \in Nat /\ x.until \in Nat
      /\ x.after <= journal /\ x.until <= journal /\ journal \in Nat /\ cp \in Nat
      /\ cp <= journal /\ x.pend \in Nat
  BY Numbers DEF HostType
<1>2. y.after \in Nat /\ y.until \in Nat /\ y.pend \in Nat
  BY Zenon DEF Worker
<1> HIDE DEF x
<1>3. CASE Leaves(x, y)
  BY <1>1, <1>3, SMTT(30) DEF Leaves, Kept, Handler, Sound
<1>4. CASE Resumes(x, y)
  BY <1>1, <1>4, Zenon DEF Resumes, Kept, Handler, Sound
<1>5. CASE Opens(x, y)
  BY <1>1, <1>2, <1>5 DEF Opens, Kept, Handler, Sound
<1>6. CASE Calls(g, x, y)
  BY <1>1, <1>6, Zenon DEF Calls, Kept, Handler, Sound
<1>7. CASE Passes(x, y)
  BY <1>1, <1>2, <1>7, SMTT(30) DEF Passes, Handler, Sound
<1>8. CASE Goes(x, y)
  BY <1>1, <1>8 DEF Goes, Kept, Handler, Sound
<1>9. CASE Registers(x, y)
  BY <1>1, <1>9, Zenon DEF Registers, Sound
<1> QED
  BY <1>3, <1>4, <1>5, <1>6, <1>7, <1>8, <1>9, Zenon DEF Move, x

\* So is one whose live handler was served.
LEMMA ServedSound ==
  ASSUME HostType, NEW g \in Gen, NEW y \in Worker, Served(g, worker[g], y)
  PROVE  Sound(y, journal)
<1> DEFINE x == worker[g]
<1>1. /\ x \in Worker /\ Sound(x, journal) /\ x.after \in Nat /\ x.until \in Nat
      /\ x.cb \in Nat /\ x.cb <= journal /\ journal \in Nat /\ x.pend \in Nat
      /\ x.pend <= journal /\ x.called \subseteq 1..journal
  BY Numbers, Zenon DEF HostType, Sound
<1>2. y.pend \in Nat /\ y.pend <= journal
  BY <1>1, SMTT(30) DEF Served
<1>3. y.cb <= journal /\ (y.cbPC # "none" => y.cb # 0)
  BY <1>1, SMTT(30) DEF Served, Sound
<1> HIDE DEF x
<1>4. /\ y.pc = x.pc /\ y.after = x.after /\ y.until = x.until
      /\ Len(y.seen) <= RingCap /\ y.called \subseteq 1..journal
  BY Zenon DEF Served, Place, x
<1> QED
  BY <1>1, <1>2, <1>3, <1>4, Zenon DEF Sound

\* The two halves of HostType: all but the workers, and the workers.
Around ==
  /\ journal \in 0..MaxEvents /\ cp \in 0..journal
  /\ applied \subseteq 1..journal /\ dlq \subseteq 1..journal
  /\ gen \in Gen
  /\ host \in [started : BOOLEAN, stopped : BOOLEAN, was : Status,
               op : {"none", "stop", "mark", "await", "force", "reset", "purge"}]
  /\ replay \in [g : Gen, todo : SUBSET Event, now : 0..MaxEvents]
  /\ replay.todo \subseteq 1..journal /\ replay.now <= journal

Workers == worker \in [Gen -> Worker] /\ \A g \in Gen : Sound(worker[g], journal)

\* Setting a worker to a sound one.
LEMMA SetSound ==
  ASSUME HostType, NEW g \in Gen, NEW y \in Worker, Sound(y, journal), Set(g, y),
         journal' = journal
  PROVE  Workers'
BY Zenon DEF HostType, Set, Workers

\* The steps of workers and live handlers.
LEMMA WorkTyped ==
  ASSUME HostType, NEW g \in Gen, Work(g) \/ Unblock(g) \/ Live(g)
  PROVE  HostType'
<1> DEFINE x == worker[g]
<1>1. /\ x \in Worker /\ x.after \in Nat /\ x.cb \in Nat /\ x.pend \in Nat /\ x.until \in Nat
      /\ x.after <= journal /\ x.cb <= journal /\ x.pend <= journal /\ x.until <= journal
      /\ journal \in Nat /\ cp \in Nat /\ cp <= journal
      /\ x.pc = "handle" => x.after < x.until
      /\ x.cbPC # "none" => x.cb # 0
  BY Numbers, SMTT(30) DEF HostType, Sound
<1>2. ASSUME Moved(g) PROVE HostType'
  <2>1. PICK y \in Worker : Set(g, y) /\ Move(g, x, y)
    BY <1>2, Zenon DEF Moved
  <2>2. Workers'
    BY <1>2, <2>1, MoveSound, SetSound, Zenon DEF Moved
  <2>3. cp' \in 0..journal
    BY <1>1, <1>2, SMTT(30) DEF Moved
  <2>4. applied' \cup dlq' \subseteq 1..journal
    <3>1. CASE applied' \cup dlq' = applied \cup dlq
      BY <3>1, Zenon DEF HostType
    <3>2. CASE x.pc = "handle"
      <4>1. x.after + 1 \in 1..journal
        BY <1>1, <3>2
      <4> QED
        BY <1>2, <4>1, Zenon DEF Moved, HostType
    <3> QED
      BY <1>2, <3>1, <3>2, Zenon DEF Moved
  <2>5. UNCHANGED <<journal, gen, host, replay>>
    BY <1>2, Zenon DEF Moved
  <2> QED
    BY <2>2, <2>3, <2>4, <2>5, Zenon DEF HostType, Workers
<1>3. ASSUME LiveMoved(g) PROVE HostType'
  <2>1. PICK y \in Worker : Set(g, y) /\ Served(g, x, y)
    BY <1>3, Zenon DEF LiveMoved
  <2>2. Workers'
    BY <1>3, <2>1, ServedSound, SetSound, Zenon DEF LiveMoved
  <2>3. cp' \in 0..journal
    BY <1>1, <1>3, SMTT(30) DEF LiveMoved
  <2>4. applied' \cup dlq' \subseteq 1..journal
    <3>1. CASE applied' \cup dlq' = applied \cup dlq
      BY <3>1, Zenon DEF HostType
    <3>2. CASE x.cbPC # "none"
      <4>1. x.cb \in 1..journal
        BY <1>1, <3>2
      <4> QED
        BY <1>3, <4>1, Zenon DEF LiveMoved, HostType
    <3> QED
      BY <1>3, <3>1, <3>2, Zenon DEF LiveMoved
  <2>5. UNCHANGED <<journal, gen, host, replay>>
    BY <1>3, Zenon DEF LiveMoved
  <2> QED
    BY <2>2, <2>3, <2>4, <2>5 DEF HostType, Workers
<1> QED
  BY <1>2, <1>3, WorkMoves, LiveMoves, Zenon

\* The operator's steps.
LEMMA OperateTyped ==
  ASSUME HostType, Operate
  PROVE  HostType'
<1> DEFINE x == worker[gen]
<1>0. Workers /\ Around /\ gen \in Gen /\ x \in Worker /\ Sound(x, journal)
  BY Zenon DEF HostType, Workers, Around
<1>1. /\ journal \in Nat /\ cp \in Nat /\ cp <= journal /\ x.pend \in Nat
      /\ x.pend <= journal /\ journal' = journal /\ replay' = replay
  <2>1. journal' = journal /\ replay' = replay
    BY Zenon DEF Operate, Start, Stop, StopRead, StopMark, ForceStop, Await, AwaitTimeout,
       ResetCheckpoint, ResetModel, ResetPurge
  <2> QED
    BY <1>0, <2>1, Numbers, SMTT(30) DEF HostType
<1>2. HostType' <=> Around' /\ Workers'
  BY Zenon DEF HostType, Around, Workers
<1>3. ASSUME UNCHANGED worker PROVE Workers'
  BY <1>0, <1>1, <1>3, Zenon DEF Workers
<1>4. CASE Start
  <2>1. gen' \in Gen
    BY <1>0, <1>4, ProjectionHostAssumption DEF Start, Gen
  <2> DEFINE w == [NewWorker EXCEPT !.pc = "top"]
  <2>2. w \in Worker /\ Sound(w, journal)
    BY <1>1, NewSound, Zenon
  <2> HIDE DEF w
  <2>3. worker' = [worker EXCEPT ![gen'] = w]
    BY <1>4, Zenon DEF Start, w
  <2>4. Workers'
    BY <1>0, <1>1, <2>1, <2>2, <2>3, Zenon DEF Workers
  <2>5. Around'
    BY <1>0, <1>1, <1>4, <2>1, Zenon DEF Around, Start
  <2> QED
    BY <1>2, <2>4, <2>5, Zenon
<1>5. CASE Stop \/ ForceStop
  <2>1. Set(gen, [x EXCEPT !.stop = TRUE])
    BY <1>5, Zenon DEF Stop, ForceStop
  <2>2. "idle" \in Status
    BY Zenon DEF Status
  <2>3. Workers'
    BY <1>0, <1>1, <2>1, <2>2, StatusSound, SetSound, Zenon
  <2>4. Around'
    BY <1>0, <1>1, <1>5, ZenonT(40), Zenon DEF Around, Stop, ForceStop
  <2> QED
    BY <1>2, <2>3, <2>4
<1>6. CASE StopRead
  <2>1. x.status \in Status
    BY <1>0, Zenon DEF Worker
  <2>2. Around'
    BY <1>0, <1>1, <1>6, <2>1, Zenon DEF Around, StopRead
  <2> QED
    BY <1>2, <1>3, <1>6, <2>2, Zenon DEF StopRead
<1>7. CASE StopMark
  <2> DEFINE st == IF host.was \in {"running", "live", "backoff"} THEN "draining"
                   ELSE x.status
  <2>1. st \in Status /\ "idle" \in Status
    BY <1>0, Zenon DEF Worker, Status
  <2>2. Set(gen, [x EXCEPT !.status = st])
    BY <1>7, Zenon DEF StopMark
  <2> HIDE DEF st
  <2>3. Workers'
    BY <1>0, <1>1, <2>1, <2>2, StatusSound, SetSound, Zenon
  <2>4. Around'
    BY <1>0, <1>1, <1>7, <2>1, Zenon DEF Around, StopMark
  <2> QED
    BY <1>2, <2>3, <2>4
<1>8. CASE Await
  <2>1. Around'
    BY <1>0, <1>1, <1>8 DEF Around, Await
  <2>2. UNCHANGED worker \/ Set(gen, Flushed(x))
    BY <1>8, Zenon DEF Await
  <2>3. Flushed(x) \in Worker /\ Sound(Flushed(x), journal)
    <3> DEFINE f == Flushed(x)
    <3>1. /\ f \in Worker /\ Kept(x, f) /\ f.pc = x.pc /\ f.after = x.after
          /\ f.until = x.until /\ f.pend = 0
      BY <1>0, Zenon DEF Flushed, Kept, Handler, Worker
    <3> HIDE DEF f, x
    <3>2. Sound(f, journal)
      BY <1>0, <1>1, <3>1 DEF Sound, Kept, Handler
    <3> QED
      BY <3>1, <3>2, Zenon DEF f
  <2>4. Workers'
    BY <1>0, <1>1, <1>3, <2>2, <2>3, SetSound, Zenon
  <2> QED
    BY <1>2, <2>1, <2>4, Zenon
<1>9. CASE AwaitTimeout
  BY <1>0, <1>1, <1>2, <1>3, <1>9, Zenon DEF Around, AwaitTimeout
<1>10. CASE ResetCheckpoint
  BY <1>0, <1>1, <1>2, <1>3, <1>10 DEF Around, ResetCheckpoint
<1>11. CASE ResetModel
  BY <1>0, <1>1, <1>2, <1>3, <1>11, Zenon DEF Around, ResetModel
<1>12. CASE ResetPurge
  BY <1>0, <1>1, <1>2, <1>3, <1>12, Zenon DEF Around, ResetPurge
<1> QED
  BY <1>4, <1>5, <1>6, <1>7, <1>8, <1>9, <1>10, <1>11, <1>12, Zenon DEF Operate

\* A replay of dead letters, an event saved, and a crash.
LEMMA OutsideTyped ==
  ASSUME HostType, Replay \/ AppendEvent \/ Crash
  PROVE  HostType'
<1>0. Workers /\ Around /\ gen \in Gen /\ journal \in Nat /\ MaxEvents \in Nat
  BY Numbers, Zenon DEF HostType, Workers, Around
<1>1. HostType' <=> Around' /\ Workers'
  BY Zenon DEF HostType, Around, Workers
<1>2. CASE Replay
  <2>1. worker' = worker /\ journal' = journal
    BY <1>2, Zenon DEF Replay, ReplayStart, ReplayHandled, ReplayHandle, DeleteReplayed
  <2>2. Workers'
    BY <1>0, <2>1, Zenon DEF Workers
  <2>3. CASE ReplayStart
    <3>1. dlq \subseteq Event
      BY <1>0 DEF Around, Event
    <3>2. replay' = [g |-> gen, todo |-> dlq, now |-> 0]
      BY <2>3, Zenon DEF ReplayStart
    <3> QED
      BY <1>0, <1>1, <2>2, <2>3, <3>1, <3>2 DEF Around, ReplayStart
  <2>4. CASE ReplayHandled
    <3>1. replay.now \in 1..journal
      BY <1>0, <2>4 DEF Around, ReplayHandled
    <3> QED
      BY <1>0, <1>1, <2>2, <2>4, <3>1 DEF Around, ReplayHandled
  <2>5. ASSUME NEW e \in Event, ReplayHandle(e) PROVE Around'
    <3>1. e \in 1..journal /\ e <= journal /\ e \in 0..MaxEvents
      BY <1>0, <2>5 DEF Around, ReplayHandle
    <3> QED
      BY <1>0, <2>5, <3>1, Zenon DEF Around, ReplayHandle
  <2>6. ASSUME NEW e \in Event, DeleteReplayed(e) PROVE Around'
    BY <1>0, <2>6, Zenon DEF Around, DeleteReplayed
  <2> QED
    BY <1>1, <1>2, <2>2, <2>3, <2>4, <2>5, <2>6, Zenon DEF Replay
<1>3. CASE AppendEvent
  <2>1. journal' = journal + 1 /\ journal' \in 0..MaxEvents
    BY <1>0, <1>3 DEF AppendEvent
  <2>2. \A g \in Gen : Sound(worker[g], journal')
    BY <1>0, <2>1, SoundLonger DEF Workers
  <2>3. Workers'
    BY <1>0, <1>3, <2>2, Zenon DEF Workers, AppendEvent
  <2>4. UNCHANGED <<cp, applied, dlq, gen, host, replay>>
    BY <1>3, Zenon DEF AppendEvent
  <2>5. Around'
    BY <1>0, <2>1, <2>4 DEF Around
  <2> QED
    BY <1>1, <2>3, <2>5, Zenon
<1>4. CASE Crash
  <2> DEFINE w == [NewWorker EXCEPT !.pc = "gone"]
  <2>1. w \in Worker /\ Sound(w, journal)
    BY <1>0, NewSound, Zenon
  <2> HIDE DEF w
  <2>2. worker' = [g \in Gen |-> IF g <= gen THEN w ELSE worker[g]]
    BY <1>4, Zenon DEF Crash, w
  <2>3. journal' = journal
    BY <1>4, Zenon DEF Crash
  <2>4. Workers'
    BY <1>0, <2>1, <2>2, <2>3, Zenon DEF Workers
  <2>5. gen' \in Gen /\ 1 \in Gen
    BY <1>0, <1>4, ProjectionHostAssumption DEF Crash, Gen
  <2>6. Around'
    BY <1>0, <1>4, <2>5 DEF Around, Crash, Host0, NoReplay, Status
  <2> QED
    BY <1>1, <2>4, <2>6
<1> QED
  BY <1>2, <1>3, <1>4, Zenon

\* The first state.
LEMMA HostInit ==
  Init => HostType
<1> SUFFICES ASSUME Init PROVE HostType
  OBVIOUS
<1>1. NewWorker = [NewWorker EXCEPT !.pc = "new"]
  BY DEF NewWorker
<1>2. NewWorker \in Worker /\ Sound(NewWorker, 0)
  BY <1>1, NewSound, Zenon
<1>3. 1 \in Gen /\ MaxEvents \in Nat
  BY ProjectionHostAssumption DEF Gen
<1>4. Workers
  BY <1>2, Zenon DEF Init, Workers
<1>5. Around
  BY <1>3, SMTT(30) DEF Init, Around, Host0, NoReplay, Status
<1> QED
  BY <1>4, <1>5, Zenon DEF HostType, Workers, Around

\* Every step keeps the types.
LEMMA HostStep ==
  HostType /\ [Next]_vars => HostType'
<1> SUFFICES ASSUME HostType, [Next]_vars PROVE HostType'
  OBVIOUS
<1>1. CASE UNCHANGED vars
  BY <1>1, Zenon DEF HostType, vars
<1>2. CASE Next
  BY <1>2, WorkTyped, OperateTyped, OutsideTyped, Zenon DEF Next
<1> QED
  BY <1>1, <1>2, Zenon

\* The types are an invariant.
LEMMA HostTypeHolds ==
  Spec => []HostType
BY HostInit, HostStep, PTL DEF Spec

\* projectionhost/host.go, worker.go, worker_drain.go: the checkpoint and every
\* worker's position stay inside the journal, what is applied or parked is of
\* the journal, and the dedup ring never exceeds its capacity (TypeOK), for any
\* journal, batch size, ring and number of generations.
THEOREM TypeCorrect ==
  Spec => []TypeOK
<1>1. HostType => TypeOK
  BY Zenon DEF HostType, TypeOK, Sound
<1> QED
  BY <1>1, HostTypeHolds, PTL

-----------------------------------------------------------------------------
(* One call of Handle at a time *)

\* handleMu of g is with a replay.
Replays(g) == replay.now # 0 /\ replay.g = g

\* The lock of x, if r says that a replay has it, has one holder.
Locked(x, r) ==
  /\ x.cbPC # "none" => ~r
  /\ x.pc = "handle" /\ x.catchUp => x.cbPC = "none" /\ ~r

\* The inductive invariant: callback, catch-up drain and replay exclude each
\* other on handleMu.  It does not speak of the initial drain, which does not
\* take the lock.
LockInv == \A g \in Gen : Locked(worker[g], Replays(g))

\* A worker or its live handler moves.
LEMMA LockWork ==
  ASSUME HostType, LockInv, NEW g \in Gen, Work(g) \/ Unblock(g) \/ Live(g)
  PROVE  LockInv'
<1> DEFINE x == worker[g]
<1>0. worker \in [Gen -> Worker] /\ Locked(x, Replays(g))
  BY Zenon DEF HostType, LockInv
<1>1. ASSUME NEW y \in Worker, Set(g, y), replay' = replay, Locked(y, Replays(g))
      PROVE  LockInv'
  BY <1>0, <1>1, Zenon DEF LockInv, Set, Replays
<1>2. CASE Moved(g)
  <2>1. PICK y \in Worker : Set(g, y) /\ Move(g, x, y)
    BY <1>2, Zenon DEF Moved
  <2>2. Locked(y, Replays(g))
    <3>1. CASE Calls(g, x, y)
      BY <1>0, <3>1, Zenon DEF Calls, Kept, Handler, Locked, Unlocked, Replays
    <3>2. CASE ~Calls(g, x, y)
      <4>1. y.pc # "handle" /\ y.cbPC = x.cbPC
        BY <2>1, <3>2, Zenon DEF Move, Leaves, Resumes, Opens, Passes, Goes, Registers, Kept,
           Handler
      <4> QED
        BY <1>0, <4>1, Zenon DEF Locked
    <3> QED
      BY <3>1, <3>2, Zenon
  <2> QED
    BY <1>1, <1>2, <2>1, <2>2, Zenon DEF Moved
<1>3. CASE LiveMoved(g)
  <2>1. PICK y \in Worker : Set(g, y) /\ Served(g, x, y)
    BY <1>3, Zenon DEF LiveMoved
  <2>2. y.pc = x.pc /\ y.catchUp = x.catchUp
    BY <2>1, Zenon DEF Served, Place
  <2>3. y.cbPC = "none" \/ x.cbPC # "none" \/ Unlocked(g)
    BY <2>1, Zenon DEF Served
  <2>4. Locked(y, Replays(g))
    BY <1>0, <2>2, <2>3, Zenon DEF Locked, Unlocked, Replays
  <2> QED
    BY <1>1, <1>3, <2>1, <2>4, Zenon DEF LiveMoved
<1> QED
  BY <1>2, <1>3, WorkMoves, LiveMoves, Zenon

\* The operator, a replay, a save or a crash.
LEMMA LockOther ==
  ASSUME HostType, LockInv, Operate \/ Replay \/ AppendEvent \/ Crash
  PROVE  LockInv'
<1>0. worker \in [Gen -> Worker] /\ gen \in Gen /\ worker[gen] \in Worker
      /\ \A g \in Gen : Locked(worker[g], Replays(g))
  BY Zenon DEF HostType, LockInv
<1>1. ASSUME NEW g \in Gen, NEW y \in Worker, worker' = [worker EXCEPT ![g] = y],
             replay' = replay, Locked(y, Replays(g))
      PROVE  LockInv'
  BY <1>0, <1>1, Zenon DEF LockInv, Replays
<1>2. ASSUME NEW pc \in {"top", "gone"}, NEW r \in BOOLEAN
      PROVE  /\ [NewWorker EXCEPT !.pc = pc] \in Worker
             /\ Locked([NewWorker EXCEPT !.pc = pc], r)
  <2>1. [NewWorker EXCEPT !.pc = pc] \in Worker
    BY NewSound, Zenon
  <2> QED
    BY <2>1, Zenon DEF Locked, NewWorker
<1>3. CASE Start
  <2>1. gen' \in Gen /\ replay' = replay
    BY <1>0, <1>3, ProjectionHostAssumption DEF Start, Gen
  <2> DEFINE w == [NewWorker EXCEPT !.pc = "top"]
  <2>2. w \in Worker /\ Locked(w, Replays(gen'))
    BY <1>2, Zenon DEF Replays
  <2>3. worker' = [worker EXCEPT ![gen'] = w]
    BY <1>3, Zenon DEF Start
  <2> HIDE DEF w
  <2> QED
    BY <1>1, <2>1, <2>2, <2>3, Zenon
<1>4. ASSUME replay' = replay, worker' = worker PROVE LockInv'
  BY <1>0, <1>4, Zenon DEF LockInv, Replays
<1>5. CASE Stop \/ StopMark \/ ForceStop \/ Await
  <2>1. \/ worker' = worker
        \/ \E y \in Worker :
             /\ worker' = [worker EXCEPT ![gen] = y]
             /\ y.pc = worker[gen].pc /\ y.catchUp = worker[gen].catchUp
             /\ y.cbPC = worker[gen].cbPC
    <3>1. CASE Stop \/ ForceStop
      <4> DEFINE y == [worker[gen] EXCEPT !.stop = TRUE]
      <4>1. y \in Worker /\ y.pc = worker[gen].pc /\ y.catchUp = worker[gen].catchUp
            /\ y.cbPC = worker[gen].cbPC
        BY <1>0, Zenon DEF Worker
      <4>2. worker' = [worker EXCEPT ![gen] = y]
        BY <3>1, Zenon DEF Stop, ForceStop, Set
      <4> HIDE DEF y
      <4> QED
        BY <4>1, <4>2, Zenon
    <3>2. CASE StopMark
      <4> DEFINE s == IF host.was \in {"running", "live", "backoff"} THEN "draining"
                      ELSE worker[gen].status
                 y == [worker[gen] EXCEPT !.status = s]
      <4>1. s \in Status
        BY <1>0, Zenon DEF Worker, Status
      <4>2. worker' = [worker EXCEPT ![gen] = y]
        BY <3>2, Zenon DEF StopMark, Set
      <4> HIDE DEF s
      <4>3. y \in Worker /\ y.pc = worker[gen].pc /\ y.catchUp = worker[gen].catchUp
            /\ y.cbPC = worker[gen].cbPC
        BY <1>0, <4>1, Zenon DEF Worker
      <4> HIDE DEF y
      <4> QED
        BY <4>2, <4>3, Zenon
    <3>3. CASE Await
      <4> DEFINE y == Flushed(worker[gen])
      <4>1. y \in Worker /\ y.pc = worker[gen].pc /\ y.catchUp = worker[gen].catchUp
            /\ y.cbPC = worker[gen].cbPC
        BY <1>0, Zenon DEF Flushed, Worker
      <4>2. worker' = worker \/ worker' = [worker EXCEPT ![gen] = y]
        BY <3>3, Zenon DEF Await, Set
      <4> HIDE DEF y
      <4> QED
        BY <4>1, <4>2, Zenon
    <3> QED
      BY <1>5, <3>1, <3>2, <3>3, Zenon
  <2>2. replay' = replay
    BY <1>5, Zenon DEF Stop, StopMark, ForceStop, Await
  <2>3. \A y : y.pc = worker[gen].pc /\ y.catchUp = worker[gen].catchUp
               /\ y.cbPC = worker[gen].cbPC => Locked(y, Replays(gen))
    BY <1>0, Zenon DEF Locked
  <2> QED
    BY <1>0, <1>1, <1>4, <2>1, <2>2, <2>3, Zenon
<1>6. CASE \/ StopRead \/ AwaitTimeout \/ ResetCheckpoint \/ ResetModel \/ ResetPurge
           \/ AppendEvent
  BY <1>4, <1>6, Zenon DEF StopRead, AwaitTimeout, ResetCheckpoint, ResetModel, ResetPurge,
     AppendEvent
<1>7. CASE ReplayStart \/ ReplayHandled
  <2>1. worker' = worker /\ replay'.now = 0
    BY <1>7 DEF ReplayStart, ReplayHandled, HostType
  <2> QED
    BY <1>0, <2>1, Zenon DEF LockInv, Replays, Locked
<1>8. ASSUME NEW e \in Event, ReplayHandle(e) PROVE LockInv'
  <2>1. worker' = worker /\ replay'.g = replay.g /\ Unlocked(replay.g)
    BY <1>8, Zenon DEF ReplayHandle, HostType
  <2>2. ASSUME NEW g \in Gen PROVE Locked(worker[g], Replays(g)')
    <3>1. CASE g = replay.g
      BY <2>1, <3>1, Zenon DEF Unlocked, Locked
    <3>2. CASE g # replay.g
      <4>1. ~Replays(g)' /\ ~Replays(g)
        BY <2>1, <3>2, Zenon DEF Replays
      <4> QED
        BY <1>0, <4>1, Zenon DEF Locked
    <3> QED
      BY <3>1, <3>2, Zenon
  <2> QED
    BY <2>1, <2>2, Zenon DEF LockInv
<1>9. ASSUME NEW e \in Event, DeleteReplayed(e) PROVE LockInv'
  BY <1>4, <1>9, Zenon DEF DeleteReplayed
<1>10. CASE Crash
  <2> DEFINE w == [NewWorker EXCEPT !.pc = "gone"]
  <2>1. worker' = [g \in Gen |-> IF g <= gen THEN w ELSE worker[g]] /\ replay'.now = 0
    BY <1>10, Zenon DEF Crash, NoReplay
  <2>2. Locked(w, FALSE)
    BY <1>2, Zenon
  <2>3. \A g \in Gen : Locked(worker[g], FALSE)
    BY <1>0, Zenon DEF Locked
  <2> HIDE DEF w
  <2>4. \A g \in Gen : Replays(g)' = FALSE
    BY <2>1, Zenon DEF Replays
  <2>5. \A g \in Gen : Locked(worker'[g], FALSE)
    BY <2>1, <2>2, <2>3, Zenon
  <2> QED
    BY <2>4, <2>5, Zenon DEF LockInv
<1> QED
  BY <1>3, <1>5, <1>6, <1>7, <1>8, <1>9, <1>10, Zenon DEF Operate, Replay

\* handleMu has one holder, always.
LEMMA LockHolds ==
  Spec => []LockInv
<1>1. Init => LockInv
  BY SMTT(30) DEF Init, LockInv, Locked, NewWorker
<1>2. HostType /\ LockInv /\ [Next]_vars => LockInv'
  <2> SUFFICES ASSUME HostType, LockInv, [Next]_vars PROVE LockInv'
    OBVIOUS
  <2>1. CASE UNCHANGED vars
    BY <2>1, Zenon DEF LockInv, Replays, vars
  <2>2. CASE Next
    BY <2>2, LockWork, LockOther, Zenon DEF Next
  <2> QED
    BY <2>1, <2>2, Zenon
<1> QED
  BY <1>1, <1>2, HostTypeHolds, PTL DEF Spec

\* worker_drain.go, host_replay.go: from the catch-up drain on, the projection
\* is never in two calls of Handle at once, whether drain, callbacks of the bus
\* (of any number of registrations) or a replay of dead letters call it
\* (OneHandleAtATime).
THEOREM HandleExclusive ==
  Spec => []OneHandleAtATime
<1>1. ASSUME LockInv, NEW g \in Gen, worker[g].catchUp
      PROVE  \A i, j \in InHandle(g) : i = j
  BY <1>1, Zenon DEF LockInv, Locked, Replays, InHandle
<1>2. LockInv => OneHandleAtATime
  BY <1>1, Zenon DEF OneHandleAtATime
<1> QED
  BY <1>2, LockHolds, PTL

-----------------------------------------------------------------------------
(* No event is skipped *)

\* Where no goroutine runs.
Ended == {"new", "done", "gone"}

\* x has no live phase.
Drains(x) ==
  /\ x.next = <<>> /\ x.called = {} /\ x.cbPC = "none" /\ x.pend = 0
  /\ x.pc \notin {"subscribe", "blocked"}

\* What x passed is done, and so is what its ring would let it pass.
PassedDone(x) ==
  /\ x.pc \in Positioned => \A e \in 1..x.after : Done(e)
  /\ x.pc \notin Ended => \A i \in 1..Len(x.seen) : Done(x.seen[i])

\* The calls of the operator that need the host to be stopped.
AtRest == host.op \in {"reset", "purge"} \/ (host.op = "none" /\ ~Running)

\* The inductive invariant of a host without a subscriber: a Reset meets no
\* goroutine that remembers what it forgets.
DrainInv ==
  /\ \A g \in Gen :
       /\ Drains(worker[g]) /\ PassedDone(worker[g])
       /\ g > gen => worker[g].pc = "new"
  /\ AtRest => \A g \in Gen : worker[g].pc \in Ended
  /\ host.op \in {"reset", "purge"} => cp = 0
  /\ CheckpointCoversDone

\* A step of a worker.
LEMMA DrainWork ==
  ASSUME HostType, DrainInv, ~Subscriber, NEW g \in Gen,
         Work(g) \/ Unblock(g) \/ Live(g)
  PROVE  DrainInv'
<1> DEFINE x == worker[g]
<1>0. worker \in [Gen -> Worker] /\ x \in Worker /\ x.after \in Nat /\ cp \in Nat
  BY Numbers, Zenon DEF HostType
<1>1. Drains(x) /\ PassedDone(x)
  BY Zenon DEF DrainInv
<1>2. ~LiveMoved(g)
  BY <1>1, Zenon DEF LiveMoved, Drains
<1>3. Moved(g)
  BY <1>2, WorkMoves, LiveMoves, Zenon
<1>4. PICK y \in Worker : Set(g, y) /\ Move(g, x, y)
  BY <1>3, Zenon DEF Moved
<1>5. \A e : Done(e) => Done(e)'
  BY <1>3, Zenon DEF Moved, Done
<1>6. x.pc \notin Ended
  BY <1>4, Zenon DEF Move, Leaves, Resumes, Opens, Calls, Passes, Goes, Registers, Ended
<1>7. ~AtRest
  BY <1>6, Zenon DEF DrainInv
<1>8. UNCHANGED <<gen, host>> /\ (cp' = cp \/ (cp' = x.after /\ x.pc = "save"))
  BY <1>1, <1>3, Zenon DEF Moved, Drains
<1>9. CheckpointCoversDone'
  <2>1. \A e \in 1..cp : Done(e)
    BY Zenon DEF DrainInv, CheckpointCoversDone
  <2>2. x.pc = "save" => \A e \in 1..x.after : Done(e)
    BY <1>1, Zenon DEF PassedDone, Positioned
  <2> QED
    BY <1>5, <1>8, <2>1, <2>2, Zenon DEF CheckpointCoversDone
<1>10. Drains(y)
  <2>1. x.pc # "subscribe" /\ x.pc # "blocked"
    BY <1>1, Zenon DEF Drains
  <2> QED
    BY <1>1, <1>4, <2>1, Zenon DEF Move, Leaves, Resumes, Opens, Calls, Passes, Goes, Registers,
       Kept, Handler, Drains
<1>11. PassedDone(y)'
  <2>1. \A i \in 1..Len(x.seen) : Done(x.seen[i])
    BY <1>1, <1>6, Zenon DEF PassedDone
  <2>2. \A e : Seen(x, e) => Done(e)
    BY <2>1, Zenon DEF Seen
  <2>3. CASE Passes(x, y)
    <3>0. PICK n : n = x.after
      OBVIOUS
    <3>1. \A e : e = n + 1 => Done(e)'
      BY <1>5, <2>2, <2>3, <3>0, Zenon DEF Passes, Done
    <3>2. \A e \in 1..n : Done(e)'
      BY <1>1, <1>5, <2>3, <3>0, Zenon DEF PassedDone, Passes, Positioned
    <3>3. \A e \in 1..(n + 1) : Done(e)'
      <4>1. \A e \in 1..(n + 1) : e \in 1..n \/ e = n + 1
        BY <1>0, <3>0
      <4> QED
        BY <3>1, <3>2, <4>1, Zenon
    <3>4. \A i \in 1..Len(y.seen) : y.seen[i] = n + 1 \/ Done(y.seen[i])
      BY <2>2, <2>3, <3>0, Zenon DEF Passes
    <3>5. \A i \in 1..Len(y.seen) : Done(y.seen[i])'
      BY <1>5, <3>1, <3>4, Zenon
    <3> QED
      BY <2>3, <3>0, <3>3, <3>5, Zenon DEF Passes, PassedDone
  <2>4. CASE ~Passes(x, y)
    <3>1. y.seen = x.seen
      BY <1>4, <2>4, Zenon DEF Move, Leaves, Resumes, Opens, Calls, Goes, Registers, Kept
    <3>2. \/ y.pc \notin Positioned \/ (y.pc = "read" /\ y.after = cp)
          \/ (y.after = x.after /\ x.pc \in Positioned)
      BY <1>4, <2>4, Zenon DEF Move, Leaves, Resumes, Opens, Calls, Goes, Registers, Positioned
    <3>3. y.pc \in Positioned => \A e \in 1..y.after : Done(e)
      BY <1>1, <3>2, Zenon DEF PassedDone, DrainInv, CheckpointCoversDone
    <3> QED
      BY <1>5, <2>1, <3>1, <3>3, Zenon DEF PassedDone
  <2> QED
    BY <2>3, <2>4, Zenon
<1>12. ASSUME NEW h \in Gen
       PROVE  /\ Drains(worker'[h]) /\ PassedDone(worker[h])'
              /\ h > gen' => worker'[h].pc = "new"
  <2>1. CASE h = g
    <3>1. worker'[h] = y
      BY <1>0, <1>4, <2>1, Zenon DEF Set
    <3>2. ~(g > gen)
      BY <1>6, Zenon DEF DrainInv, Ended
    <3> QED
      BY <1>8, <1>10, <1>11, <2>1, <3>1, <3>2, Zenon DEF PassedDone
  <2>2. CASE h # g
    <3>1. worker'[h] = worker[h]
      BY <1>0, <1>4, <2>2, Zenon DEF Set
    <3>2. Drains(worker[h]) /\ PassedDone(worker[h]) /\ (h > gen => worker[h].pc = "new")
      BY Zenon DEF DrainInv
    <3> QED
      BY <1>5, <1>8, <3>1, <3>2, Zenon DEF PassedDone
  <2> QED
    BY <2>1, <2>2, Zenon
<1>13. ~AtRest'
  BY <1>7, <1>8, Zenon DEF AtRest, Running
<1> QED
  BY <1>9, <1>12, <1>13, Zenon DEF DrainInv, AtRest

\* x and y agree on what DrainInv says of a worker.
Alike(x, y) ==
  /\ Handler(x, y) /\ y.pc = x.pc /\ y.after = x.after /\ y.pend = x.pend /\ y.seen = x.seen

\* The workers stay as they are, and so does what is done.
LEMMA DrainKept ==
  ASSUME DrainInv, UNCHANGED <<gen, cp>>,
         \A g \in Gen : Alike(worker[g], worker'[g]),
         \A e : Done(e) => Done(e)',
         AtRest' => \A g \in Gen : worker[g].pc \in Ended,
         host'.op \in {"reset", "purge"} => cp = 0
  PROVE  DrainInv'
<1>1. ASSUME NEW g \in Gen
      PROVE  /\ Drains(worker'[g]) /\ PassedDone(worker[g])'
             /\ g > gen' => worker'[g].pc = "new"
             /\ worker'[g].pc = worker[g].pc
  <2>1. PICK x : x = worker[g]
    OBVIOUS
  <2>2. PICK y : y = worker'[g]
    OBVIOUS
  <2>3. Alike(x, y) /\ Drains(x) /\ PassedDone(x) /\ (g > gen => x.pc = "new")
    BY <2>1, <2>2, Zenon DEF DrainInv
  <2>4. Drains(y) /\ y.pc = x.pc
    BY <2>3, Zenon DEF Alike, Handler, Drains
  <2>5. PassedDone(y)'
    BY <2>3, Zenon DEF Alike, PassedDone
  <2> QED
    BY <2>1, <2>2, <2>3, <2>4, <2>5, Zenon
<1>2. CheckpointCoversDone'
  BY Zenon DEF DrainInv, CheckpointCoversDone
<1> QED
  BY <1>1, <1>2, Zenon DEF DrainInv

\* The operator starts and stops the host.
LEMMA DrainOperate ==
  ASSUME HostType, DrainInv, Start \/ Stop \/ StopRead \/ StopMark \/ ForceStop \/ Await
  PROVE  DrainInv'
<1> DEFINE x == worker[gen]
<1>0. /\ worker \in [Gen -> Worker] /\ gen \in Gen /\ x \in Worker
      /\ host \in [started : BOOLEAN, stopped : BOOLEAN, was : Status,
                   op : {"none", "stop", "mark", "await", "force", "reset", "purge"}]
  BY Zenon DEF HostType
<1>1. \A e : Done(e) => Done(e)'
  BY Zenon DEF Start, Stop, StopRead, StopMark, ForceStop, Await, Done
<1>2. CASE Start
  <2>1. /\ gen' \in Gen /\ gen' >= gen /\ cp' = cp
        /\ \A g \in Gen : g > gen' => g > gen
    BY <1>0, <1>2, ProjectionHostAssumption DEF Start, Gen
  <2>2. PICK w : w = [NewWorker EXCEPT !.pc = "top"]
    BY Zenon
  <2>3. w.pc = "top" /\ w.seen = <<>> /\ Drains(w)
    BY <2>2, Zenon DEF NewWorker, Drains
  <2>4. PassedDone(w)'
    BY <2>3 DEF PassedDone, Positioned
  <2>5. worker' = [worker EXCEPT ![gen'] = w]
    BY <1>2, <2>2, Zenon DEF Start
  <2>6. ASSUME NEW g \in Gen
        PROVE  /\ Drains(worker'[g]) /\ PassedDone(worker[g])'
               /\ g > gen' => worker'[g].pc = "new"
    <3>1. CASE g = gen'
      <4>1. worker'[g] = w /\ ~(g > gen')
        BY <1>0, <2>1, <2>5, <3>1 DEF Gen
      <4> QED
        BY <2>3, <2>4, <4>1, Zenon DEF PassedDone
    <3>2. CASE g # gen'
      <4>1. worker'[g] = worker[g]
        BY <1>0, <2>1, <2>5, <3>2, Zenon
      <4>2. Drains(worker[g]) /\ PassedDone(worker[g]) /\ (g > gen => worker[g].pc = "new")
        BY Zenon DEF DrainInv
      <4> QED
        BY <1>1, <2>1, <4>1, <4>2, Zenon DEF PassedDone
    <3> QED
      BY <3>1, <3>2, Zenon
  <2>7. ~AtRest'
    BY <1>0, <1>2, Zenon DEF Start, AtRest, Running
  <2>8. CheckpointCoversDone'
    BY <1>1, <2>1, Zenon DEF DrainInv, CheckpointCoversDone
  <2> QED
    BY <2>6, <2>7, <2>8, Zenon DEF DrainInv, AtRest
<1>3. ASSUME NEW y, Alike(x, y), worker' = [worker EXCEPT ![gen] = y]
      PROVE  \A g \in Gen : Alike(worker[g], worker'[g])
  BY <1>0, <1>3, Zenon DEF Alike, Handler
<1>4. CASE Stop \/ ForceStop
  <2> DEFINE y == [x EXCEPT !.stop = TRUE]
  <2>1. Alike(x, y)
    BY <1>0, Zenon DEF Alike, Handler, Worker
  <2>2. worker' = [worker EXCEPT ![gen] = y]
    BY <1>4, Zenon DEF Stop, ForceStop, Set
  <2> HIDE DEF y
  <2>3. \A g \in Gen : Alike(worker[g], worker'[g])
    BY <1>3, <2>1, <2>2, Zenon
  <2>4. ~AtRest' /\ UNCHANGED <<gen, cp>>
    BY <1>0, <1>4, Zenon DEF Stop, ForceStop, AtRest
  <2> QED
    BY <1>1, <2>3, <2>4, DrainKept, Zenon DEF AtRest
<1>5. CASE StopMark
  <2> DEFINE s == IF host.was \in {"running", "live", "backoff"} THEN "draining" ELSE x.status
             y == [x EXCEPT !.status = s]
  <2>1. worker' = [worker EXCEPT ![gen] = y]
    BY <1>5, Zenon DEF StopMark, Set
  <2> HIDE DEF s
  <2>2. Alike(x, y)
    BY <1>0, Zenon DEF Alike, Handler, Worker
  <2> HIDE DEF y
  <2>3. \A g \in Gen : Alike(worker[g], worker'[g])
    BY <1>3, <2>1, <2>2, Zenon
  <2>4. ~AtRest' /\ UNCHANGED <<gen, cp>>
    BY <1>0, <1>5, Zenon DEF StopMark, AtRest
  <2> QED
    BY <1>1, <2>3, <2>4, DrainKept DEF AtRest
<1>6. CASE StopRead
  <2>1. ~AtRest' /\ UNCHANGED <<gen, cp, worker>>
    BY <1>0, <1>6, Zenon DEF StopRead, AtRest
  <2>2. \A g \in Gen : Alike(worker[g], worker'[g])
    BY <2>1, Zenon DEF Alike, Handler
  <2> QED
    BY <1>1, <2>1, <2>2, DrainKept, Zenon DEF AtRest
<1>7. CASE Await
  <2>1. x.pend = 0
    BY <1>0, Zenon DEF DrainInv, Drains
  <2>2. UNCHANGED <<gen, cp, worker>> /\ \A g \in Gen : worker[g].pc \in Ended
    BY <1>7, <2>1, Zenon DEF Await, Ended
  <2>3. \A g \in Gen : Alike(worker[g], worker'[g])
    BY <2>2, Zenon DEF Alike, Handler
  <2>4. host'.op = "none"
    BY <1>0, <1>7, Zenon DEF Await
  <2> QED
    BY <1>1, <2>2, <2>3, <2>4, DrainKept, Zenon
<1> QED
  BY <1>2, <1>4, <1>5, <1>6, <1>7, Zenon

\* Everything has ended, and nothing is covered by the checkpoint.
LEMMA DrainReset ==
  ASSUME HostType, DrainInv, ResetCheckpoint \/ ResetModel \/ ResetPurge
  PROVE  DrainInv'
<1>0. host \in [started : BOOLEAN, stopped : BOOLEAN, was : Status,
                op : {"none", "stop", "mark", "await", "force", "reset", "purge"}]
  BY Zenon DEF HostType
<1>1. AtRest
  BY Zenon DEF ResetCheckpoint, ResetModel, ResetPurge, AtRest
<1>2. \A g \in Gen : worker[g].pc \in Ended
  BY <1>1, Zenon DEF DrainInv
<1>3. UNCHANGED <<worker, gen>>
  BY Zenon DEF ResetCheckpoint, ResetModel, ResetPurge
<1>4. \A g \in Gen : PassedDone(worker[g])'
  BY <1>2, <1>3, Zenon DEF PassedDone, Ended, Positioned
<1>5. \A g \in Gen : Drains(worker[g])' /\ (g > gen => worker[g].pc = "new")'
  BY <1>3, Zenon DEF DrainInv, Drains
<1>6. \/ cp' = 0
      \/ cp' = cp /\ UNCHANGED <<applied, dlq, host>>
  BY Zenon DEF ResetCheckpoint, ResetModel, ResetPurge, DrainInv
<1>7. CheckpointCoversDone' /\ (host'.op \in {"reset", "purge"} => cp' = 0)
  <2>1. CASE cp' = 0
    BY <2>1 DEF CheckpointCoversDone
  <2>2. CASE cp' = cp /\ UNCHANGED <<applied, dlq, host>>
    BY <2>2, Zenon DEF CheckpointCoversDone, Done, DrainInv
  <2> QED
    BY <1>6, <2>1, <2>2, Zenon
<1> QED
  BY <1>2, <1>3, <1>4, <1>5, <1>7, Zenon DEF DrainInv

\* A replay of dead letters, an event saved, and a crash.
LEMMA DrainOutside ==
  ASSUME HostType, DrainInv, Replay \/ AppendEvent \/ Crash
  PROVE  DrainInv'
<1>0. worker \in [Gen -> Worker] /\ gen \in Gen
  BY Zenon DEF HostType
<1>1. \A e : Done(e) => Done(e)'
  BY Zenon DEF Replay, ReplayStart, ReplayHandled, ReplayHandle, DeleteReplayed, AppendEvent,
     Crash, Done
<1>2. CASE Replay \/ AppendEvent
  <2>1. UNCHANGED <<gen, cp, worker, host>>
    BY <1>2, Zenon DEF Replay, ReplayStart, ReplayHandled, ReplayHandle, DeleteReplayed, AppendEvent
  <2>2. \A g \in Gen : Alike(worker[g], worker'[g])
    BY <2>1, Zenon DEF Alike, Handler
  <2>3. AtRest' <=> AtRest
    BY <2>1, Zenon DEF AtRest, Running
  <2> QED
    BY <1>1, <2>1, <2>2, <2>3, DrainKept, Zenon DEF DrainInv
<1>3. CASE Crash
  <2>1. PICK w : w = [NewWorker EXCEPT !.pc = "gone"]
    BY Zenon
  <2>2. w.pc = "gone" /\ Drains(w)
    BY <2>1, Zenon DEF NewWorker, Drains
  <2>3. worker' = [g \in Gen |-> IF g <= gen THEN w ELSE worker[g]]
    BY <1>3, <2>1, Zenon DEF Crash
  <2>4. gen' = gen + 1 /\ cp' = cp /\ host'.op = "none"
    BY <1>3, Zenon DEF Crash, Host0
  <2>5. ASSUME NEW g \in Gen
        PROVE  /\ worker'[g].pc \in Ended /\ Drains(worker'[g])
               /\ g > gen' => worker'[g].pc = "new"
    <3>1. CASE g <= gen
      <4>1. worker'[g] = w /\ ~(g > gen')
        BY <1>0, <2>3, <2>4, <3>1 DEF Gen
      <4> QED
        BY <2>2, <4>1, Zenon DEF Ended
    <3>2. CASE ~(g <= gen)
      <4>1. worker'[g] = worker[g] /\ g > gen
        BY <1>0, <2>3, <3>2 DEF Gen
      <4> QED
        BY <4>1, Zenon DEF DrainInv, Ended
    <3> QED
      BY <3>1, <3>2, Zenon
  <2>6. \A g \in Gen : PassedDone(worker[g])'
    BY <2>5, Zenon DEF PassedDone, Ended, Positioned
  <2>7. CheckpointCoversDone'
    BY <1>1, <2>4, Zenon DEF CheckpointCoversDone, DrainInv
  <2> QED
    BY <2>4, <2>5, <2>6, <2>7, Zenon DEF DrainInv
<1> QED
  BY <1>2, <1>3, Zenon

\* Every step of such a host keeps the invariant.
LEMMA DrainStep ==
  ASSUME HostType, DrainInv, ~Subscriber, "await" \notin Fails, [Next]_vars
  PROVE  DrainInv'
<1>1. CASE UNCHANGED vars
  BY <1>1, Zenon DEF DrainInv, Drains, PassedDone, AtRest, Running, CheckpointCoversDone, Done, vars
<1>2. CASE \E g \in Gen : Work(g) \/ Unblock(g) \/ Live(g)
  BY <1>2, DrainWork, Zenon
<1>3. CASE Operate
  <2>1. ~AwaitTimeout
    BY Zenon DEF AwaitTimeout
  <2> QED
    BY <1>3, <2>1, DrainOperate, DrainReset, Zenon DEF Operate
<1>4. CASE Replay \/ AppendEvent \/ Crash
  BY <1>4, DrainOutside, Zenon
<1> QED
  BY <1>1, <1>2, <1>3, <1>4, Zenon DEF Next

\* The first state.
LEMMA DrainInit ==
  Init => DrainInv
BY SMTT(30) DEF Init, DrainInv, Drains, PassedDone, NewWorker, Positioned, Ended, Host0,
   CheckpointCoversDone

\* DrainInv is an invariant of such a host.
LEMMA DrainHolds ==
  ASSUME ~Subscriber, "await" \notin Fails
  PROVE  Spec => []DrainInv
<1>1. HostType /\ DrainInv /\ [Next]_vars => DrainInv'
  BY DrainStep, Zenon
<1> QED
  BY <1>1, DrainInit, HostTypeHolds, PTL DEF Spec

\* worker_drain.go, host_reset.go: the worker of a host without a subscriber, whose
\* Stop is not given up waiting for, never leaves an event behind that was
\* neither applied nor parked (NoEventSkipped): whatever calls fail, wherever it
\* crashes, is stopped, is reset or replays dead letters.
THEOREM NothingSkipped ==
  ASSUME ~Subscriber, "await" \notin Fails
  PROVE  Spec => []NoEventSkipped
<1>1. DrainInv => NoEventSkipped
  BY Zenon DEF DrainInv, PassedDone, NoEventSkipped
<1> QED
  BY <1>1, DrainHolds, PTL

\* worker_drain.go, host_reset.go: and the checkpoint it saves, which is all
\* that a restart knows, never covers such an event (CheckpointCoversDone).
THEOREM CheckpointIsHonest ==
  ASSUME ~Subscriber, "await" \notin Fails
  PROVE  Spec => []CheckpointCoversDone
<1>1. DrainInv => CheckpointCoversDone
  BY Zenon DEF DrainInv
<1> QED
  BY <1>1, DrainHolds, PTL
=============================================================================
