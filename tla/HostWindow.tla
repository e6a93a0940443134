----------------------------- MODULE HostWindow -----------------------------
(***************************************************************************)
(* The first run of a worker that goes live, in a host that is started     *)
(* once: the catch-up drain closes the window before the registration      *)
(* (WindowClosed), and the dedup ring keeps drain and callbacks from       *)
(* handling an event twice that it has not evicted (OverlapDeduplicated).  *)
(***************************************************************************)
EXTENDS HostProofs

\* x has no live handler.
Unsubscribed(x) == x.next = <<>> /\ x.called = {} /\ x.cbPC = "none" /\ x.pend = 0

\* A run that has not failed is registered in its catch-up drain and after.
FirstRun(x) ==
  /\ ~x.catchUp => Unsubscribed(x)
  /\ x.pc \in {"new", "top", "load"} => ~x.catchUp
  /\ x.pc # "backoff"

\* The events that went through Handle, or that a replay will hand to it.
Touched == applied \cup dlq \cup replay.todo \cup ({replay.now} \ {0})

\* A host that is started once: before, there is nothing to remember; after,
\* a worker that was not told to stop is running.
Once ==
  /\ ~host.started => /\ \A g \in Gen : worker[g].pc = "new" /\ Unsubscribed(worker[g])
                      /\ Touched = {} /\ cp = 0
  /\ \A g \in Gen : worker[g].restarts = 0 =>
       /\ FirstRun(worker[g])
       /\ host.started /\ ~worker[g].stop => ~host.stopped /\ host.op = "none"

-----------------------------------------------------------------------------
(* The dedup ring *)

\* The ring of y is that of x with e; y remembers what it evicted, and what x
\* could not keep from Handle.
Adds(x, y, e) ==
  /\ \A d : Seen(y, d) => Seen(x, d) \/ d = e
  /\ Seen(y, e)
  /\ \A d : Seen(x, d) \/ d \in x.redo => Seen(y, d) \/ d \in y.redo

\* The sequence a has e, and what s has but for the head of a full s.
Keeps(s, full, a, e) ==
  /\ \E k \in 1..Len(a) : a[k] = e
  /\ \A i \in 1..Len(s) : (full /\ s[i] = Head(s)) \/ \E k \in 1..Len(a) : a[k] = s[i]

\* A full sequence that gives up its head for e has all its other elements.
LEMMA Pushed ==
  ASSUME NEW s \in Seq(Event), NEW e \in Event, NEW full, full => s # <<>>,
         NEW a, full => a = Append(Tail(s), e), ~full => a = Append(s, e)
  PROVE  Keeps(s, full, a, e)
<1>0. PICK q : (full => q = Tail(s)) /\ (~full => q = s) /\ a = Append(q, e)
  <2>1. CASE full
    BY <2>1, Zenon
  <2>2. CASE ~full
    BY <2>2, Zenon
  <2> QED
    BY <2>1, <2>2, Zenon
<1>1. q \in Seq(Event)
  <2>1. full => Tail(s) \in Seq(Event)
    <3>1. s # <<>> => Tail(s) \in Seq(Event)
      OBVIOUS
    <3> QED
      BY <3>1, Zenon
  <2> QED
    BY <1>0, <2>1, Zenon
<1>2. \A i \in 1..Len(s) : (full /\ s[i] = Head(s)) \/ \E k \in 1..Len(q) : q[k] = s[i]
  <2>1. CASE ~full
    BY <1>0, <2>1, Zenon
  <2>2. CASE full
    <3>0. s # <<>> /\ q = Tail(s)
      BY <1>0, <2>2, Zenon
    <3>1. /\ Len(s) \in Nat /\ Len(Tail(s)) = Len(s) - 1 /\ Head(s) = s[1]
          /\ \A k \in 1..Len(Tail(s)) : Tail(s)[k] = s[k + 1]
      BY <3>0
    <3>2. ASSUME NEW i \in 1..Len(s), i # 1
          PROVE  i - 1 \in 1..Len(Tail(s)) /\ Tail(s)[i - 1] = s[i]
      BY <3>1, <3>2
    <3> QED
      BY <3>0, <2>2, <3>1, <3>2, Zenon
  <2> QED
    BY <2>1, <2>2, Zenon
<1>3. /\ Len(q) + 1 \in 1..Len(a) /\ a[Len(q) + 1] = e
      /\ \A k \in 1..Len(q) : k \in 1..Len(a) /\ a[k] = q[k]
  <2>1. a = Append(q, e)
    BY <1>0, Zenon
  <2> QED
    BY <1>1, <2>1
<1> QED
  BY <1>2, <1>3, Zenon DEF Keeps

\* Ring.Add, of a worker with the ring of x.
LEMMA MarkAdds ==
  ASSUME NEW x \in Worker, Len(x.seen) <= RingCap, NEW w \in Worker, w.seen = x.seen,
         w.redo = x.redo, NEW e \in Event
  PROVE  Adds(x, MarkSeen(w, e), e)
<1> DEFINE y == MarkSeen(w, e)
           full == Len(x.seen) = RingCap
           a == Append(IF full THEN Tail(x.seen) ELSE x.seen, e)
           r == (IF full THEN x.redo \cup {Head(x.seen)} ELSE x.redo) \ {e}
<1>0. x.seen \in Seq(Event) /\ (full => x.seen # <<>>)
  <2>1. x.seen \in Seq(Event)
    BY Zenon DEF Worker
  <2>2. RingCap # 0
    BY ProjectionHostAssumption
  <2>3. x.seen = <<>> => Len(x.seen) = 0
    OBVIOUS
  <2> QED
    BY <2>1, <2>2, <2>3, Zenon
<1>1. \A d : Seen(w, d) <=> Seen(x, d)
  BY Zenon DEF Seen
<1>2. \A d : Seen(y, d) => Seen(x, d) \/ d = e
  <2>1. Marked(w, y, e)
    BY MarkFields, Zenon
  <2> QED
    BY <1>1, <2>1, ZenonT(40) DEF Marked, Seen
<1>3. CASE Seen(x, e)
  <2>1. y = w
    BY <1>1, <1>3, Zenon DEF MarkSeen
  <2> QED
    BY <1>1, <1>3, <2>1, Zenon DEF Adds
<1>4. CASE ~Seen(x, e)
  <2>1. y = [w EXCEPT !.seen = a, !.redo = r]
    BY <1>1, <1>4, Zenon DEF MarkSeen
  <2>2. y.seen = a /\ y.redo = r
    BY <2>1, Zenon DEF Worker
  <2>3. /\ \E k \in 1..Len(a) : a[k] = e
        /\ \A i \in 1..Len(x.seen) :
             (full /\ x.seen[i] = Head(x.seen)) \/ \E k \in 1..Len(a) : a[k] = x.seen[i]
    <3>1. (full => a = Append(Tail(x.seen), e)) /\ (~full => a = Append(x.seen, e))
      BY Zenon
    <3> HIDE DEF full, a
    <3>2. Keeps(x.seen, full, a, e)
      BY <1>0, <3>1, Pushed, Zenon
    <3> QED
      BY <3>2, Zenon DEF Keeps
  <2>4. \A d : d \in x.redo \/ (full /\ d = Head(x.seen)) => d \in r \/ d = e
    BY Zenon
  <2> HIDE DEF y, full, a, r
  <2>5. Seen(y, e)
    BY <2>2, <2>3, Zenon DEF Seen
  <2>6. \A d : Seen(x, d) => Seen(y, d) \/ (full /\ d = Head(x.seen))
    BY <2>2, <2>3, Zenon DEF Seen
  <2> QED
    BY <1>2, <2>2, <2>4, <2>5, <2>6, Zenon DEF Adds, y
<1> QED
  BY <1>3, <1>4, Zenon

-----------------------------------------------------------------------------
(* The steps of a first run *)

\* y has what x has, but for its place, its status, its ring and what that missed.
Most(x, y) ==
  /\ y.restarts = x.restarts /\ y.stop = x.stop /\ y.catchUp = x.catchUp /\ y.from = x.from
  /\ y.next = x.next /\ y.called = x.called /\ y.cb = x.cb /\ y.cbPC = x.cbPC
  /\ y.pend \in {0, x.pend}

\* But for its place, its status and its ring.
Same(x, y) == Most(x, y) /\ y.redo = x.redo

\* And the ring.
Still(x, y) == Same(x, y) /\ y.seen = x.seen /\ UNCHANGED <<applied, dlq>>

\* run ends: stopped, at the end of the journal, or after its flush.
Ends(x, y) ==
  /\ Still(x, y) /\ y.pc \in {"flush", "done"}
  /\ \/ x.stop
     \/ x.pc = "flush"
     \/ x.pc = "read" /\ journal <= x.after
     \/ x.pc = "save" /\ ~x.full

\* It begins, and resumes after the checkpoint.
Begins(x, y) ==
  /\ Still(x, y)
  /\ \/ x.pc = "top" /\ y.pc = "load"
     \/ x.pc = "load" /\ y.pc = "read" /\ y.after = cp

\* It goes on with its position; a batch that is not full ends the journal.
Continues(x, y) ==
  /\ Still(x, y) /\ y.after = x.after /\ x.pc \in Positioned
  /\ \/ x.pc = "read" /\ y.pc = "event" /\ (~y.full => y.until = journal)
     \/ /\ x.pc = "event" /\ y.pc = "save" /\ x.after = x.until
        /\ y.until = x.until /\ y.full = x.full
     \/ y.pc \in {"read", "subscribe"}

\* It calls Handle with an event it has not seen.
Enters(g, x, y) ==
  /\ Still(x, y) /\ y.after = x.after /\ y.until = x.until /\ y.full = x.full
  /\ x.pc = "event" /\ y.pc = "handle"
  /\ ~Seen(x, x.after + 1) /\ (x.catchUp => Unlocked(g))

\* It passes the next event, which joins its ring.
Skips(g, x, y) ==
  /\ Most(x, y) /\ Adds(x, y, x.after + 1)
  /\ y.after = x.after + 1 /\ y.until = x.until /\ y.full = x.full /\ y.pc = "event"
  /\ \/ x.pc = "handle" /\ x.after + 1 \in applied' \cup dlq'
     \/ /\ x.pc = "event" /\ (x.catchUp => Unlocked(g)) /\ UNCHANGED <<applied, dlq>>
        /\ Seen(x, x.after + 1) \/ x.after + 1 \in Ignored

\* It registers the live handler.
Joins(x, y) ==
  /\ y.restarts = x.restarts /\ y.stop = x.stop /\ y.catchUp /\ y.from = journal
  /\ y.called = x.called /\ y.cb = x.cb /\ y.cbPC = x.cbPC
  /\ y.seen = x.seen /\ y.redo = x.redo /\ UNCHANGED <<applied, dlq>>
  /\ x.pc = "subscribe" /\ y.pc \in {"read", "blocked"} /\ y.after = x.after

\* What a step of run does to its worker.
Runs(g) ==
  \E y \in Worker :
    /\ Set(g, y)
    /\ \/ y.restarts # 0
       \/ Ends(worker[g], y) \/ Begins(worker[g], y) \/ Continues(worker[g], y)
       \/ Enters(g, worker[g], y) \/ Skips(g, worker[g], y) \/ Joins(worker[g], y)

\* Exit, and a failure.
LEMMA LastFields ==
  ASSUME NEW x \in Worker
  PROVE  /\ Exit(x) \in Worker /\ Same(x, Exit(x)) /\ Exit(x).seen = x.seen
         /\ Exit(x).pc = "flush"
         /\ Broken(x) \in Worker /\ Broken(x).restarts # 0
<1> DEFINE r == Returned(x)
           n == IF MaxRestarts >= 0 THEN r.restarts + 1 ELSE 1
           y == [r EXCEPT !.restarts = n]
           b == [y EXCEPT !.status = "backoff", !.pc = "backoff"]
           f == [y EXCEPT !.status = "failed"]
<1>1. Exit(x) \in Worker /\ Broken(x) \in Worker /\ Exit(x).pc = "flush"
  BY ExitFields, BrokenFields, Zenon DEF Kept
<1>2. r \in Worker /\ Same(x, r) /\ r.seen = x.seen
  BY Zenon DEF Returned, Worker, Same, Most
<1>3. ASSUME NEW w \in Worker
      PROVE  Same(w, Exit(w)) /\ Exit(w).seen = w.seen
  <2> DEFINE v == Returned(w)
  <2>1. v \in Worker /\ Same(w, v) /\ v.seen = w.seen
    BY Zenon DEF Returned, Worker, Same, Most
  <2>2. Exit(w) = [v EXCEPT !.pc = "flush",
                            !.status = IF v.status = "failed" THEN v.status ELSE "stopped"]
    BY Zenon DEF Exit
  <2> HIDE DEF v
  <2>3. Same(v, Exit(w)) /\ Exit(w).seen = v.seen
    BY <2>1, <2>2, Zenon DEF Worker, Same, Most
  <2> QED
    BY <2>1, <2>3, Zenon DEF Same, Most
<1> HIDE DEF r
<1>4. n \in Nat /\ n # 0
  <2>1. r.restarts \in Nat
    BY <1>2, Zenon DEF Worker
  <2> QED
    BY <2>1
<1>6. Broken(x) = Exit(f) \/ Broken(x) = b
  BY Zenon DEF Broken, r
<1> HIDE DEF n
<1>5. y \in Worker /\ y.restarts = n
  BY <1>2, <1>4, Zenon DEF Worker
<1> HIDE DEF y
<1>7. b.restarts = y.restarts /\ f.restarts = y.restarts /\ f \in Worker
  BY <1>5, Zenon DEF Worker, Status
<1> HIDE DEF b, f
<1>8. Exit(f).restarts = f.restarts
  BY <1>3, <1>7, Zenon DEF Same, Most
<1>9. Broken(x).restarts # 0
  BY <1>4, <1>5, <1>6, <1>7, <1>8, Zenon
<1> QED
  BY <1>1, <1>3, <1>9, Zenon

\* run ends or fails, with what Handle has not touched.
LEMMA LastRuns ==
  ASSUME NEW g \in Gen, worker[g] \in Worker, UNCHANGED <<applied, dlq>>,
         \/ Cancelled(g)
         \/ Set(g, Broken(worker[g]))
  PROVE  Runs(g)
<1> DEFINE x == worker[g]
<1>1. /\ Exit(x) \in Worker /\ Same(x, Exit(x)) /\ Exit(x).seen = x.seen
      /\ Exit(x).pc = "flush"
      /\ Broken(x) \in Worker /\ Broken(x).restarts # 0
  BY LastFields, Zenon
<1>2. CASE Cancelled(g)
  <2>1. x.stop /\ Set(g, Exit(x))
    BY <1>2, Zenon DEF Cancelled
  <2>2. Ends(x, Exit(x))
    BY <1>1, <2>1, Zenon DEF Ends, Still
  <2> QED
    BY <1>1, <2>1, <2>2, Zenon DEF Runs
<1>3. CASE Set(g, Broken(x))
  BY <1>1, <1>3, Zenon DEF Runs
<1> QED
  BY <1>2, <1>3, Zenon

\* run and process until the first batch is read.
LEMMA FirstRuns ==
  ASSUME HostType, NEW g \in Gen, worker[g].restarts = 0 => FirstRun(worker[g]),
         Top(g) \/ LoadCheckpoint(g) \/ Backoff(g)
  PROVE  Runs(g)
<1> DEFINE x == worker[g]
<1>1. /\ x \in Worker /\ cp \in Nat /\ UNCHANGED <<applied, dlq>>
  BY DEF HostType, Top, LoadCheckpoint, Backoff
<1>2. CASE Top(g)
  <2> DEFINE y == [x EXCEPT !.status = "running", !.pc = "load"]
  <2>1. x.pc = "top" /\ (Cancelled(g) \/ Set(g, y))
    BY <1>2, Zenon DEF Top, Cancelled
  <2>2. y \in Worker /\ Same(x, y) /\ y.seen = x.seen /\ y.pc = "load"
    BY <1>1, Zenon DEF Same, Most, Worker, PC, Status
  <2>3. Begins(x, y)
    BY <1>1, <2>1, <2>2, Zenon DEF Begins, Still
  <2> QED
    BY <1>1, <2>1, <2>2, <2>3, LastRuns, Zenon DEF Runs
<1>3. CASE LoadCheckpoint(g)
  <2> DEFINE y == [x EXCEPT !.after = cp, !.catchUp = FALSE, !.pc = "read"]
  <2>1. x.pc = "load" /\ (Cancelled(g) \/ Set(g, Broken(x)) \/ Set(g, y))
    BY <1>3, Zenon DEF LoadCheckpoint
  <2>2. y \in Worker /\ y.restarts = x.restarts
    BY <1>1, Zenon DEF Worker, PC
  <2>3. CASE x.restarts = 0
    <3>1. x.catchUp = FALSE
      BY <1>1, <2>1, <2>3, Zenon DEF FirstRun, Worker
    <3>2. Same(x, y) /\ y.seen = x.seen /\ y.pc = "read" /\ y.after = cp
      BY <1>1, <3>1, Zenon DEF Same, Most, Worker, PC
    <3>3. Begins(x, y)
      BY <1>1, <2>1, <3>2, Zenon DEF Begins, Still
    <3> QED
      BY <1>1, <2>1, <2>2, <3>3, LastRuns, Zenon DEF Runs
  <2> QED
    BY <1>1, <2>1, <2>2, <2>3, LastRuns, Zenon DEF Runs
<1>4. CASE Backoff(g)
  <2> DEFINE y == [x EXCEPT !.pc = "top"]
  <2>1. x.restarts # 0 /\ (Cancelled(g) \/ Set(g, y))
    BY <1>4, Zenon DEF Backoff, Cancelled, FirstRun
  <2>2. y \in Worker /\ y.restarts = x.restarts
    BY <1>1, Zenon DEF Worker, PC
  <2> QED
    BY <1>1, <2>1, <2>2, LastRuns, Zenon DEF Runs
<1> QED
  BY <1>2, <1>3, <1>4, Zenon

\* What follows a drain.
LEMMA DrainedRuns ==
  ASSUME NEW g \in Gen, worker[g] \in Worker, UNCHANGED <<applied, dlq>>,
         NEW w \in Worker, Same(worker[g], w), w.seen = worker[g].seen,
         w.after = worker[g].after, Set(g, Drained(w)),
         \/ worker[g].pc = "read" /\ journal <= worker[g].after
         \/ worker[g].pc = "save" /\ ~worker[g].full
  PROVE  Runs(g)
<1> DEFINE x == worker[g]
           d == Drained(w)
<1>1. CASE Subscriber /\ ~w.catchUp
  <2>1. d = [w EXCEPT !.pc = "subscribe", !.status = "live"]
    BY <1>1, Zenon DEF Drained
  <2>2. /\ d \in Worker /\ Same(w, d) /\ d.seen = w.seen /\ d.pc = "subscribe"
        /\ d.after = w.after
    BY <2>1, ZenonT(40) DEF Worker, Same, Most, PC, Status
  <2> HIDE DEF d
  <2>3. Continues(x, d)
    BY <2>2, Zenon DEF Continues, Still, Same, Most, Positioned
  <2> QED
    BY <2>2, <2>3, Zenon DEF Runs, d
<1>2. CASE ~(Subscriber /\ ~w.catchUp)
  <2>1. d = Exit(w)
    BY <1>2, Zenon DEF Drained
  <2>2. d \in Worker /\ Same(w, d) /\ d.seen = w.seen /\ d.pc = "flush"
    BY <2>1, LastFields, Zenon
  <2> HIDE DEF d
  <2>3. Ends(x, d)
    BY <2>2, Zenon DEF Ends, Still, Same, Most
  <2> QED
    BY <2>2, <2>3, Zenon DEF Runs, d
<1> QED
  BY <1>1, <1>2, Zenon

\* Reading a batch: one that is not full ends where the journal does.
LEMMA ReadRuns ==
  ASSUME HostType, NEW g \in Gen, Read(g)
  PROVE  Runs(g)
<1> DEFINE x == worker[g]
           end == IF x.after + BatchSize < journal THEN x.after + BatchSize ELSE journal
           y == [x EXCEPT !.until = end, !.full = end - x.after = BatchSize, !.pc = "event"]
<1>1. /\ x \in Worker /\ UNCHANGED <<applied, dlq>>
      /\ x.pc = "read" /\ x.after \in Nat /\ journal \in Nat /\ BatchSize \in Nat \ {0}
  BY Numbers, Zenon DEF Read
<1>2. \/ Cancelled(g) \/ Set(g, Broken(x))
      \/ Set(g, IF x.after >= journal THEN Drained(x) ELSE y)
  BY Zenon DEF Read
<1>3. CASE x.after >= journal /\ Set(g, Drained(x))
  <2>1. Same(x, x) /\ journal <= x.after
    BY <1>1, <1>3, Zenon DEF Same, Most
  <2> QED
    BY <1>1, <1>3, <2>1, DrainedRuns, Zenon
<1>4. CASE Set(g, y)
  <2>1. end \in Nat /\ (end - x.after # BatchSize => end = journal)
    BY <1>1
  <2> HIDE DEF end
  <2>2. /\ y \in Worker /\ Same(x, y) /\ y.seen = x.seen /\ y.pc = "event"
        /\ y.after = x.after /\ y.until = end /\ y.full = (end - x.after = BatchSize)
    BY <1>1, <2>1, Zenon DEF Worker, Same, Most, PC
  <2> HIDE DEF y, x
  <2>3. Continues(x, y)
    BY <1>1, <2>1, <2>2, Zenon DEF Continues, Still, Positioned, x
  <2> QED
    BY <1>4, <2>2, <2>3, Zenon DEF Runs, x
<1> HIDE DEF y
<1> QED
  BY <1>1, <1>2, <1>3, <1>4, LastRuns, Zenon

\* A passed event joins the ring.
LEMMA SkipsRing ==
  ASSUME NEW x \in Worker, Len(x.seen) <= RingCap, NEW w \in Worker, Same(x, w),
         w.seen = x.seen, w.until = x.until, w.full = x.full, NEW e \in Event
  PROVE  LET y == MarkSeen(w, e) IN
         /\ y \in Worker /\ Most(x, y) /\ Adds(x, y, e)
         /\ y.pc = w.pc /\ y.after = w.after /\ y.until = x.until /\ y.full = x.full
<1> DEFINE y == MarkSeen(w, e)
           full == Len(w.seen) = RingCap
           a == Append(IF full THEN Tail(w.seen) ELSE w.seen, e)
           r == (IF full THEN w.redo \cup {Head(w.seen)} ELSE w.redo) \ {e}
<1>1. y \in Worker /\ Adds(x, y, e)
  BY MarkAdds, MarkFields, Zenon DEF Marked, Same
<1>2. y = w \/ y = [w EXCEPT !.seen = a, !.redo = r]
  BY Zenon DEF MarkSeen
<1> HIDE DEF a, r
<1>3. /\ Most(w, y) /\ y.pc = w.pc /\ y.after = w.after /\ y.until = w.until
      /\ y.full = w.full
  <2>1. CASE y = w
    BY <2>1, Zenon DEF Same, Most
  <2>2. CASE y = [w EXCEPT !.seen = a, !.redo = r]
    BY <2>2, Zenon DEF Worker, Same, Most
  <2> QED
    BY <1>2, <2>1, <2>2, Zenon
<1> HIDE DEF y
<1> QED
  BY <1>1, <1>3, Zenon DEF Same, Most, y

\* The loop over the batch.
LEMMA EventRuns ==
  ASSUME HostType, NEW g \in Gen, NextEvent(g)
  PROVE  Runs(g)
<1> DEFINE x == worker[g]
           e == x.after + 1
           s == [x EXCEPT !.pc = "save"]
           p == [x EXCEPT !.after = e]
           c == [x EXCEPT !.pc = "handle"]
<1>1. /\ x \in Worker /\ UNCHANGED <<applied, dlq>>
      /\ x.pc = "event" /\ x.after \in Nat /\ x.until \in Nat /\ journal \in Nat
      /\ Len(x.seen) <= RingCap /\ x.until <= journal /\ journal <= MaxEvents
      /\ MaxEvents \in Nat
  BY Numbers, Zenon DEF NextEvent
<1>2. \/ x.after = x.until /\ Set(g, s)
      \/ Cancelled(g)
      \/ /\ x.after < x.until /\ (x.catchUp => Unlocked(g))
         /\ Set(g, IF Seen(x, e) THEN p ELSE IF e \in Ignored THEN MarkSeen(p, e) ELSE c)
  BY Zenon DEF NextEvent
<1>3. CASE x.after = x.until /\ Set(g, s)
  <2>1. /\ s \in Worker /\ Same(x, s) /\ s.seen = x.seen /\ s.pc = "save"
        /\ s.after = x.after /\ s.until = x.until /\ s.full = x.full
    BY <1>1, Zenon DEF Worker, Same, Most, PC
  <2> HIDE DEF s, x
  <2>2. Continues(x, s)
    BY <1>1, <1>3, <2>1, Zenon DEF Continues, Still, Positioned, x
  <2> QED
    BY <1>3, <2>1, <2>2, Zenon DEF Runs, x
<1>4. CASE x.after < x.until /\ (x.catchUp => Unlocked(g))
           /\ \/ Seen(x, e) /\ Set(g, p)
              \/ e \in Ignored /\ Set(g, MarkSeen(p, e))
  <2>0. e \in Nat /\ e \in Event
    BY <1>1, <1>4 DEF Event
  <2>1. /\ p \in Worker /\ Same(x, p) /\ p.seen = x.seen /\ p.after = e
        /\ p.until = x.until /\ p.full = x.full /\ p.pc = "event"
    <3> HIDE DEF e
    <3> QED
      BY <1>1, <2>0, Zenon DEF Worker, Same, Most
  <2> DEFINE m == MarkSeen(p, e)
  <2> HIDE DEF p
  <2>2. /\ m \in Worker /\ Most(x, m) /\ Adds(x, m, e)
        /\ m.pc = "event" /\ m.after = e /\ m.until = x.until /\ m.full = x.full
    BY <1>1, <2>0, <2>1, SkipsRing, Zenon
  <2>3. Seen(x, e) => m = p
    BY <2>1, Zenon DEF MarkSeen, Seen
  <2> HIDE DEF m
  <2>4. Skips(g, x, m)
    BY <1>1, <1>4, <2>2, Zenon DEF Skips
  <2>5. Set(g, m)
    BY <1>4, <2>3, Zenon DEF m
  <2> QED
    BY <2>2, <2>4, <2>5, Zenon DEF Runs
<1>5. CASE ~Seen(x, e) /\ (x.catchUp => Unlocked(g)) /\ Set(g, c)
  <2>1. /\ c \in Worker /\ Same(x, c) /\ c.seen = x.seen /\ c.pc = "handle"
        /\ c.after = x.after /\ c.until = x.until /\ c.full = x.full
    BY <1>1, Zenon DEF Worker, Same, Most, PC
  <2> HIDE DEF c, x
  <2>2. Enters(g, x, c)
    BY <1>1, <1>5, <2>1, Zenon DEF Enters, Still, x
  <2> QED
    BY <1>5, <2>1, <2>2, Zenon DEF Runs, x
<1> HIDE DEF e, s, p, c
<1> QED
  BY <1>1, <1>2, <1>3, <1>4, <1>5, LastRuns, Zenon

\* The return of Handle.
LEMMA HandledRuns ==
  ASSUME HostType, NEW g \in Gen, Handled(g)
  PROVE  Runs(g)
<1> DEFINE x == worker[g]
           e == x.after + 1
           p == [x EXCEPT !.after = e, !.pc = "event"]
           m == MarkSeen(p, e)
<1>1. /\ x \in Worker /\ x.pc = "handle" /\ x.after \in Nat /\ x.until \in Nat
      /\ journal \in Nat /\ Len(x.seen) <= RingCap /\ x.until <= journal
      /\ journal <= MaxEvents /\ MaxEvents \in Nat
  BY Numbers, Zenon DEF Handled
<1>2. x.after < x.until
  BY <1>1, Zenon DEF HostType, Sound
<1>3. e \in Nat /\ e \in Event
  BY <1>1, <1>2 DEF Event
<1>4. \/ UNCHANGED <<applied, dlq>> /\ (Cancelled(g) \/ Set(g, Broken(x)))
      \/ /\ Set(g, m)
         /\ \/ applied' = applied \cup {e} /\ UNCHANGED dlq
            \/ dlq' = dlq \cup {e} /\ UNCHANGED applied
  BY Zenon DEF Handled
<1>5. CASE Set(g, m) /\ e \in applied' \cup dlq'
  <2>1. /\ p \in Worker /\ Same(x, p) /\ p.seen = x.seen /\ p.after = e
        /\ p.until = x.until /\ p.full = x.full /\ p.pc = "event"
    <3> HIDE DEF e
    <3> QED
      BY <1>1, <1>3, Zenon DEF Worker, Same, Most, PC
  <2> HIDE DEF p
  <2>2. /\ m \in Worker /\ Most(x, m) /\ Adds(x, m, e)
        /\ m.pc = "event" /\ m.after = e /\ m.until = x.until /\ m.full = x.full
    BY <1>1, <1>3, <2>1, SkipsRing, Zenon
  <2> HIDE DEF m
  <2>3. Skips(g, x, m)
    BY <1>1, <1>5, <2>2, Zenon DEF Skips
  <2> QED
    BY <1>5, <2>2, <2>3, Zenon DEF Runs
<1> HIDE DEF e, m
<1> QED
  BY <1>1, <1>4, <1>5, LastRuns, Zenon

\* The save after a batch.
LEMMA SaveRuns ==
  ASSUME HostType, NEW g \in Gen, SaveCheckpoint(g)
  PROVE  Runs(g)
<1> DEFINE x == worker[g]
           r == [x EXCEPT !.until = 0, !.full = FALSE, !.pc = "read"]
           u == [x EXCEPT !.until = 0]
<1>1. x \in Worker /\ UNCHANGED <<applied, dlq>> /\ x.pc = "save"
  BY Numbers, Zenon DEF SaveCheckpoint
<1>2. \/ Cancelled(g) \/ Set(g, Broken(x))
      \/ Set(g, r)
      \/ ~x.full /\ Set(g, Drained(u))
  BY Zenon DEF SaveCheckpoint
<1>3. CASE Set(g, r)
  <2>1. /\ r \in Worker /\ Same(x, r) /\ r.seen = x.seen /\ r.pc = "read"
        /\ r.after = x.after
    BY <1>1, Zenon DEF Worker, Same, Most, PC
  <2> HIDE DEF r, x
  <2>2. Continues(x, r)
    BY <1>1, <2>1, Zenon DEF Continues, Still, Positioned, x
  <2> QED
    BY <1>3, <2>1, <2>2, Zenon DEF Runs, x
<1>4. CASE ~x.full /\ Set(g, Drained(u))
  <2>1. u \in Worker /\ Same(x, u) /\ u.seen = x.seen /\ u.after = x.after
    BY <1>1, Zenon DEF Worker, Same, Most
  <2> HIDE DEF u
  <2> QED
    BY <1>1, <1>4, <2>1, DrainedRuns, Zenon
<1> HIDE DEF r, u
<1> QED
  BY <1>1, <1>2, <1>3, <1>4, LastRuns, Zenon

\* The registration of the live handler.
LEMMA SubscribeRuns ==
  ASSUME HostType, NEW g \in Gen, Subscribe(g)
  PROVE  Runs(g)
<1> DEFINE x == worker[g]
           y == [x EXCEPT !.next = Append(@, journal + 1), !.from = journal,
                          !.catchUp = TRUE]
           r == [y EXCEPT !.pc = "read"]
           b == [y EXCEPT !.pc = "blocked"]
<1>1. /\ x \in Worker /\ UNCHANGED <<applied, dlq>> /\ x.pc = "subscribe"
      /\ Set(g, r) \/ Set(g, b) \/ Set(g, Broken(x))
  BY Numbers, Zenon DEF Subscribe
<1>2. Append(x.next, journal + 1) \in Seq(Nat) /\ journal \in Nat
  <2>1. x.next \in Seq(Nat)
    BY <1>1, Zenon DEF Worker
  <2>2. journal \in Nat
    BY Numbers, Zenon
  <2> QED
    BY <2>1, <2>2
<1>3. /\ y \in Worker /\ y.restarts = x.restarts /\ y.stop = x.stop /\ y.catchUp
      /\ y.from = journal /\ y.called = x.called /\ y.cb = x.cb /\ y.cbPC = x.cbPC
      /\ y.seen = x.seen /\ y.redo = x.redo /\ y.after = x.after
  BY <1>1, <1>2, Zenon DEF Worker
<1> HIDE DEF y
<1>4. /\ r \in Worker /\ r.restarts = y.restarts /\ r.stop = y.stop /\ r.catchUp = y.catchUp
      /\ r.from = y.from /\ r.called = y.called /\ r.cb = y.cb /\ r.cbPC = y.cbPC
      /\ r.seen = y.seen /\ r.redo = y.redo /\ r.after = y.after /\ r.pc = "read"
  BY <1>3, Zenon DEF Worker, PC
<1>5. /\ b \in Worker /\ b.restarts = y.restarts /\ b.stop = y.stop /\ b.catchUp = y.catchUp
      /\ b.from = y.from /\ b.called = y.called /\ b.cb = y.cb /\ b.cbPC = y.cbPC
      /\ b.seen = y.seen /\ b.redo = y.redo /\ b.after = y.after /\ b.pc = "blocked"
  BY <1>3, Zenon DEF Worker, PC
<1> HIDE DEF r, b
<1>6. Joins(x, r) /\ Joins(x, b)
  BY <1>1, <1>3, <1>4, <1>5, Zenon DEF Joins
<1> QED
  BY <1>1, <1>4, <1>5, <1>6, LastRuns, Zenon DEF Runs

\* The end of a blocking subscription, and the flush at the end of run.
LEMMA EndRuns ==
  ASSUME HostType, NEW g \in Gen, Unblock(g) \/ Flush(g)
  PROVE  Runs(g)
<1> DEFINE x == worker[g]
<1>1. x \in Worker /\ UNCHANGED <<applied, dlq>>
  BY Numbers, Zenon DEF Unblock, Flush
<1>2. CASE Unblock(g)
  <2> DEFINE y == [x EXCEPT !.pc = "read"]
  <2>1. x.pc = "blocked" /\ Set(g, y)
    BY <1>2, Zenon DEF Unblock
  <2>2. /\ y \in Worker /\ Same(x, y) /\ y.seen = x.seen /\ y.pc = "read"
        /\ y.after = x.after
    BY <1>1, Zenon DEF Worker, Same, Most, PC
  <2> HIDE DEF y
  <2>3. Continues(x, y)
    BY <1>1, <2>1, <2>2, Zenon DEF Continues, Still, Positioned
  <2> QED
    BY <2>1, <2>2, <2>3, Zenon DEF Runs
<1>3. CASE Flush(g)
  <2> DEFINE d == [x EXCEPT !.pc = "done"]
             h == Flushed(x)
             f == [h EXCEPT !.pc = "done"]
  <2>1. x.pc = "flush" /\ (Set(g, d) \/ Set(g, f))
    BY <1>3, Zenon DEF Flush
  <2>2. d \in Worker /\ Same(x, d) /\ d.seen = x.seen /\ d.pc = "done"
    BY <1>1, Zenon DEF Worker, Same, Most, PC
  <2>3. h \in Worker /\ Same(x, h) /\ h.seen = x.seen
    BY <1>1, Zenon DEF Flushed, Worker, Same, Most
  <2> HIDE DEF h
  <2>4. f \in Worker /\ Same(h, f) /\ f.seen = h.seen /\ f.pc = "done"
    BY <2>3, Zenon DEF Worker, Same, Most, PC
  <2> HIDE DEF d, f
  <2>5. Ends(x, d) /\ Ends(x, f)
    BY <1>1, <2>1, <2>2, <2>3, <2>4, Zenon DEF Ends, Still, Same, Most
  <2> QED
    BY <2>1, <2>2, <2>4, <2>5, Zenon DEF Runs
<1> QED
  BY <1>2, <1>3, Zenon

\* Every step of the worker goroutine.
LEMMA WorkRuns ==
  ASSUME HostType, NEW g \in Gen, worker[g].restarts = 0 => FirstRun(worker[g]),
         Work(g) \/ Unblock(g)
  PROVE  Runs(g)
BY FirstRuns, ReadRuns, EventRuns, HandledRuns, SaveRuns, SubscribeRuns, EndRuns, Zenon
   DEF Work

-----------------------------------------------------------------------------
(* The steps of the live handler *)

\* y has the place of x, and what a run is told from outside.
Beside(x, y) ==
  Place(x, y) /\ y.full = x.full /\ y.from = x.from /\ y.restarts = x.restarts /\ y.stop = x.stop

\* A delivery, a duplicate, or an error that goes back to the bus.
Quiet(x, y) ==
  /\ y.seen = x.seen /\ y.redo = x.redo /\ UNCHANGED <<applied, dlq>>
  /\ \/ y.cb = x.cb /\ y.cbPC = x.cbPC
     \/ x.cbPC = "handle" /\ y.cbPC = "none"

\* An event that is not the projection's business joins the ring.
Marks(g, x, y) ==
  /\ Unlocked(g) /\ (\E e \in Ignored : Adds(x, y, e))
  /\ y.cb = x.cb /\ y.cbPC = x.cbPC /\ UNCHANGED <<applied, dlq>>

\* A callback calls Handle with an event its worker has not seen.
Takes(g, x, y) ==
  /\ Unlocked(g) /\ ~Seen(x, y.cb) /\ y.cbPC = "handle"
  /\ y.seen = x.seen /\ y.redo = x.redo /\ UNCHANGED <<applied, dlq>>

\* Handle, or the dead letters, took the event.
Gives(x, y) ==
  /\ x.cbPC = "handle" /\ y.cbPC = "save" /\ y.cb = x.cb
  /\ y.seen = x.seen /\ y.redo = x.redo
  /\ x.cb \in applied' \cup dlq' /\ applied \subseteq applied' /\ dlq \subseteq dlq'

\* The event joins the ring, or the ones that are handled again.
Settles(x, y) ==
  /\ x.cbPC = "save" /\ y.cbPC = "none" /\ UNCHANGED <<applied, dlq>>
  /\ \/ Adds(x, y, x.cb)
     \/ y.seen = x.seen /\ y.redo = x.redo \cup {x.cb}

\* What a step of the live handler does to its worker.
Serves(g) ==
  \E y \in Worker :
    /\ Set(g, y) /\ Beside(worker[g], y)
    /\ \/ Quiet(worker[g], y) \/ Marks(g, worker[g], y) \/ Takes(g, worker[g], y)
       \/ Gives(worker[g], y) \/ Settles(worker[g], y)

\* The delivery by the bus.
LEMMA DeliverRuns ==
  ASSUME HostType, NEW g \in Gen, NEW e \in Event, Deliver(g, e)
  PROVE  Serves(g)
<1> DEFINE x == worker[g]
<1>1. /\ x \in Worker /\ UNCHANGED <<applied, dlq>> /\ x.next \in Seq(Nat)
      /\ x.called \subseteq Event
  BY Numbers, Zenon DEF Deliver, Worker
<1>2. PICK i \in 1..Len(x.next) :
        Set(g, [x EXCEPT !.next[i] = e + 1, !.called = IF x.stop THEN @ ELSE @ \cup {e}])
  BY Zenon DEF Deliver
<1> DEFINE n == [x.next EXCEPT ![i] = e + 1]
           c == IF x.stop THEN x.called ELSE x.called \cup {e}
           y == [x EXCEPT !.next = n, !.called = c]
<1>3. n \in Seq(Nat)
  <2>1. e + 1 \in Nat
    BY DEF Event
  <2> QED
    BY <1>1, <2>1
<1>4. c \subseteq Event
  BY <1>1, Zenon
<1>5. Set(g, y)
  BY <1>2, Zenon
<1> HIDE DEF n, c
<1>6. /\ y \in Worker /\ Beside(x, y) /\ y.seen = x.seen /\ y.redo = x.redo /\ y.cb = x.cb
      /\ y.cbPC = x.cbPC
  BY <1>1, <1>3, <1>4, Zenon DEF Worker, Place, Beside
<1> HIDE DEF y
<1>7. Quiet(x, y)
  BY <1>1, <1>6, Zenon DEF Quiet
<1> QED
  BY <1>5, <1>6, <1>7, Zenon DEF Serves

\* Ring.Add leaves the run and the callback of the worker alone.
LEMMA MarkBeside ==
  ASSUME NEW w \in Worker, Len(w.seen) <= RingCap, NEW e \in Event
  PROVE  LET y == MarkSeen(w, e) IN
         y \in Worker /\ Beside(w, y) /\ y.cb = w.cb /\ y.cbPC = w.cbPC
<1> DEFINE y == MarkSeen(w, e)
           full == Len(w.seen) = RingCap
           a == Append(IF full THEN Tail(w.seen) ELSE w.seen, e)
           r == (IF full THEN w.redo \cup {Head(w.seen)} ELSE w.redo) \ {e}
<1>1. y \in Worker
  BY MarkFields, Zenon DEF Marked
<1>2. y = w \/ y = [w EXCEPT !.seen = a, !.redo = r]
  BY Zenon DEF MarkSeen
<1> HIDE DEF a, r
<1>3. CASE y = w
  BY <1>1, <1>3, Zenon DEF Beside, Place
<1>4. CASE y = [w EXCEPT !.seen = a, !.redo = r]
  BY <1>1, <1>4, Zenon DEF Beside, Place, Worker
<1> HIDE DEF y
<1> QED
  BY <1>2, <1>3, <1>4, Zenon DEF y

\* A callback takes handleMu.
LEMMA CallbackRuns ==
  ASSUME HostType, NEW g \in Gen, NEW e \in Event, Callback(g, e)
  PROVE  Serves(g)
<1> DEFINE x == worker[g]
           y == [x EXCEPT !.called = @ \ {e}]
           h == [y EXCEPT !.cb = e, !.cbPC = "handle"]
           m == MarkSeen(y, e)
<1>1. /\ x \in Worker /\ UNCHANGED <<applied, dlq>> /\ Len(x.seen) <= RingCap
      /\ Unlocked(g) /\ e \in Nat
  BY Numbers DEF Callback, Event
<1>2. /\ y \in Worker /\ Beside(x, y) /\ y.seen = x.seen /\ y.redo = x.redo /\ y.cb = x.cb
      /\ y.cbPC = x.cbPC
  BY <1>1, Zenon DEF Worker, Place, Beside
<1>3. \/ Set(g, y)
      \/ e \in Ignored /\ Set(g, m)
      \/ ~Seen(x, e) /\ Set(g, h)
  BY Zenon DEF Callback
<1> HIDE DEF y
<1>4. CASE Set(g, y)
  <2>1. Quiet(x, y)
    BY <1>1, <1>2, Zenon DEF Quiet
  <2> QED
    BY <1>2, <1>4, <2>1, Zenon DEF Serves
<1>5. CASE e \in Ignored /\ Set(g, m)
  <2>1. m \in Worker /\ Beside(y, m) /\ m.cb = y.cb /\ m.cbPC = y.cbPC
    BY <1>1, <1>2, MarkBeside, Zenon
  <2>2. Adds(x, m, e)
    BY <1>1, <1>2, MarkAdds, Zenon
  <2> HIDE DEF m
  <2>3. Beside(x, m) /\ Marks(g, x, m)
    BY <1>1, <1>2, <1>5, <2>1, <2>2, Zenon DEF Marks, Beside, Place
  <2> QED
    BY <1>5, <2>1, <2>3, Zenon DEF Serves
<1>6. CASE ~Seen(x, e) /\ Set(g, h)
  <2>1. /\ h \in Worker /\ Beside(y, h) /\ h.seen = y.seen /\ h.redo = y.redo
        /\ h.cb = e /\ h.cbPC = "handle"
    BY <1>1, <1>2, Zenon DEF Worker, Place, Beside
  <2> HIDE DEF h
  <2>2. Beside(x, h) /\ Takes(g, x, h)
    BY <1>1, <1>2, <1>6, <2>1, Zenon DEF Takes, Beside, Place
  <2> QED
    BY <1>6, <2>1, <2>2, Zenon DEF Serves
<1> QED
  BY <1>3, <1>4, <1>5, <1>6, Zenon

\* Handle returned to a callback.
LEMMA CallbackHandledRuns ==
  ASSUME HostType, NEW g \in Gen, CallbackHandled(g)
  PROVE  Serves(g)
<1> DEFINE x == worker[g]
           s == [x EXCEPT !.cbPC = "save"]
           n == CallbackEnd(x)
<1>1. x \in Worker /\ x.cbPC = "handle"
  BY Numbers, Zenon DEF CallbackHandled
<1>2. \/ /\ Set(g, s)
         /\ \/ applied' = applied \cup {x.cb} /\ UNCHANGED dlq
            \/ dlq' = dlq \cup {x.cb} /\ UNCHANGED applied
      \/ Set(g, n) /\ UNCHANGED <<applied, dlq>>
  BY Zenon DEF CallbackHandled
<1>3. /\ s \in Worker /\ Beside(x, s) /\ s.seen = x.seen /\ s.redo = x.redo
      /\ s.cb = x.cb /\ s.cbPC = "save"
  BY <1>1, Zenon DEF Worker, Place, Beside
<1>4. /\ n \in Worker /\ Beside(x, n) /\ n.seen = x.seen /\ n.redo = x.redo
      /\ n.cbPC = "none"
  BY <1>1, Zenon DEF CallbackEnd, Worker, Place, Beside
<1> HIDE DEF s, n
<1>5. CASE /\ Set(g, s)
           /\ \/ applied' = applied \cup {x.cb} /\ UNCHANGED dlq
              \/ dlq' = dlq \cup {x.cb} /\ UNCHANGED applied
  <2>1. Gives(x, s)
    BY <1>1, <1>3, <1>5, Zenon DEF Gives
  <2> QED
    BY <1>3, <1>5, <2>1, Zenon DEF Serves
<1>6. CASE Set(g, n) /\ UNCHANGED <<applied, dlq>>
  <2>1. Quiet(x, n)
    BY <1>1, <1>4, <1>6, Zenon DEF Quiet
  <2> QED
    BY <1>4, <1>6, <2>1, Zenon DEF Serves
<1> QED
  BY <1>2, <1>5, <1>6, Zenon

\* A callback returns.
LEMMA EndBeside ==
  ASSUME NEW w \in Worker
  PROVE  LET y == CallbackEnd(w) IN
         /\ y \in Worker /\ Beside(w, y) /\ y.seen = w.seen /\ y.redo = w.redo
         /\ y.cbPC = "none"
BY Zenon DEF CallbackEnd, Worker, Place, Beside

\* The checkpoint of a callback.
LEMMA CallbackSaveRuns ==
  ASSUME HostType, NEW g \in Gen, CallbackSave(g)
  PROVE  Serves(g)
<1> DEFINE x == worker[g]
           f == Flushed(x)
           s == [x EXCEPT !.pend = x.cb, !.since = @ + 1]
           r == [s EXCEPT !.redo = @ \cup {x.cb}]
<1>1. /\ x \in Worker /\ x.cbPC = "save" /\ UNCHANGED <<applied, dlq>>
      /\ Len(x.seen) <= RingCap /\ x.cb \in Nat /\ x.cb <= journal /\ journal \in Nat
      /\ journal <= MaxEvents /\ MaxEvents \in Nat
  BY Numbers, Zenon DEF CallbackSave
<1>2. x.cb \in Event
  <2>1. x.cb # 0
    BY <1>1, Zenon DEF HostType, Sound
  <2> QED
    BY <1>1, <2>1 DEF Event
<1>3. \/ Set(g, CallbackEnd(MarkSeen(f, x.cb)))
      \/ Set(g, CallbackEnd(MarkSeen(s, x.cb)))
      \/ Set(g, CallbackEnd(r))
  BY Zenon DEF CallbackSave
<1>4. /\ f \in Worker /\ Beside(x, f) /\ f.seen = x.seen /\ f.redo = x.redo
  BY <1>1, Zenon DEF Flushed, Worker, Place, Beside
<1>5. /\ s \in Worker /\ Beside(x, s) /\ s.seen = x.seen /\ s.redo = x.redo
  <2>1. x.since + 1 \in Nat
    <3>1. x.since \in Nat
      BY <1>1, Zenon DEF Worker
    <3> QED
      BY <3>1
  <2> QED
    BY <1>1, <2>1, Zenon DEF Worker, Place, Beside
<1> HIDE DEF f, s
<1>6. ASSUME NEW w \in Worker, Beside(x, w), w.seen = x.seen, w.redo = x.redo,
             Set(g, CallbackEnd(MarkSeen(w, x.cb)))
      PROVE  Serves(g)
  <2> DEFINE m == MarkSeen(w, x.cb)
             y == CallbackEnd(m)
  <2>1. m \in Worker /\ Beside(w, m)
    BY <1>1, <1>2, <1>6, MarkBeside, Zenon
  <2>2. Adds(x, m, x.cb)
    BY <1>1, <1>2, <1>6, MarkAdds, Zenon
  <2> HIDE DEF m
  <2>3. /\ y \in Worker /\ Beside(m, y) /\ y.seen = m.seen /\ y.redo = m.redo
        /\ y.cbPC = "none"
    BY <2>1, EndBeside, Zenon
  <2>4. Set(g, y)
    BY <1>6, Zenon DEF m
  <2> HIDE DEF y
  <2>5. Adds(x, y, x.cb)
    BY <2>2, <2>3, Zenon DEF Adds, Seen
  <2>6. Beside(x, y) /\ Settles(x, y)
    BY <1>1, <1>6, <2>1, <2>3, <2>5, Zenon DEF Settles, Beside, Place
  <2> QED
    BY <2>3, <2>4, <2>6, Zenon DEF Serves
<1>7. CASE Set(g, CallbackEnd(r))
  <2> DEFINE y == CallbackEnd(r)
  <2>1. r \in Worker /\ Beside(s, r) /\ r.seen = s.seen /\ r.redo = s.redo \cup {x.cb}
    <3>1. s.redo \cup {x.cb} \in SUBSET Event
      <4>1. s.redo \in SUBSET Event
        BY <1>5, Zenon DEF Worker
      <4> QED
        BY <1>2, <4>1, Zenon
    <3> QED
      BY <1>5, <3>1, Zenon DEF Worker, Place, Beside
  <2> HIDE DEF r
  <2>2. /\ y \in Worker /\ Beside(r, y) /\ y.seen = r.seen /\ y.redo = r.redo
        /\ y.cbPC = "none"
    BY <2>1, EndBeside, Zenon
  <2>3. Set(g, y)
    BY <1>7, Zenon
  <2> HIDE DEF y
  <2>4. Beside(x, y) /\ Settles(x, y)
    BY <1>1, <1>5, <2>1, <2>2, Zenon DEF Settles, Beside, Place
  <2> QED
    BY <2>2, <2>3, <2>4, Zenon DEF Serves
<1> QED
  BY <1>3, <1>4, <1>5, <1>6, <1>7, Zenon

\* Every step of the live handler.
LEMMA LiveServes ==
  ASSUME HostType, NEW g \in Gen, Live(g)
  PROVE  Serves(g)
BY DeliverRuns, CallbackRuns, CallbackHandledRuns, CallbackSaveRuns, Zenon DEF Live

-----------------------------------------------------------------------------
(* A host that is started once *)

\* Where one worker is built, a step that sets one sets them all.
LEMMA OnlyOne ==
  ASSUME MaxGen = 1, HostType, NEW g \in Gen, NEW y \in Worker, Set(g, y)
  PROVE  \A h \in Gen : h = g /\ worker'[h] = y
<1>1. \A h \in Gen : h = g
  BY DEF Gen
<1> QED
  BY <1>1, Zenon DEF HostType, Set

\* Before it fails, a worker is served in its catch-up drain and after.
LEMMA LiveCatchUp ==
  ASSUME HostType, Once, NEW g \in Gen, Live(g), worker[g].restarts = 0
  PROVE  worker[g].catchUp
<1>1. ~Unsubscribed(worker[g])
  BY LiveMoves, Zenon DEF LiveMoved, Unsubscribed
<1> QED
  BY <1>1, Zenon DEF Once, FirstRun

\* A step of the worker or its live handler begins in a started host, leaves
\* the host alone, and keeps the order of a first run.
LEMMA OnceWork ==
  ASSUME MaxGen = 1, HostType, Once, NEW g \in Gen, Work(g) \/ Unblock(g) \/ Live(g)
  PROVE  Once' /\ host.started
<1> DEFINE x == worker[g]
<1>0. x \in Worker /\ x.restarts = 0 => FirstRun(x)
  BY Zenon DEF Once
<1>1. CASE Work(g) \/ Unblock(g)
  <2>1. Moved(g) /\ Runs(g)
    BY <1>0, <1>1, WorkMoves, WorkRuns, Numbers, Zenon
  <2>2. x.pc # "new"
    BY <2>1, Zenon DEF Moved, Move, Leaves, Resumes, Opens, Calls, Passes, Goes, Registers
  <2>3. host.started /\ host' = host
    BY <2>1, <2>2, Zenon DEF Once, Moved
  <2>4. PICK y \in Worker :
          /\ Set(g, y)
          /\ \/ y.restarts # 0
             \/ Ends(x, y) \/ Begins(x, y) \/ Continues(x, y)
             \/ Enters(g, x, y) \/ Skips(g, x, y) \/ Joins(x, y)
    BY <2>1, Zenon DEF Runs
  <2>5. ASSUME y.restarts = 0 PROVE x.restarts = 0 /\ y.stop = x.stop /\ FirstRun(y)
    <3>1. \/ Joins(x, y)
          \/ /\ Most(x, y) /\ y.pc \notin {"new", "top", "backoff"}
             /\ y.pc = "load" => x.pc = "top"
      BY <2>4, <2>5, Zenon DEF Ends, Begins, Continues, Enters, Skips, Still, Same
    <3>2. x.restarts = 0 /\ y.stop = x.stop
      BY <2>5, <3>1, Zenon DEF Joins, Most
    <3>3. FirstRun(x)
      BY <3>2, Zenon DEF Once
    <3>4. CASE Joins(x, y)
      BY <3>2, <3>4, Zenon DEF Joins, FirstRun
    <3>5. CASE /\ Most(x, y) /\ y.pc \notin {"new", "top", "backoff"}
               /\ y.pc = "load" => x.pc = "top"
      BY <3>2, <3>3, <3>5, Zenon DEF Most, FirstRun, Unsubscribed
    <3> QED
      BY <3>1, <3>2, <3>4, <3>5, Zenon
  <2>6. \A h \in Gen : h = g /\ worker'[h] = y
    BY <2>4, OnlyOne, Zenon
  <2>7. ASSUME NEW h \in Gen, worker'[h].restarts = 0
        PROVE  /\ FirstRun(worker'[h])
               /\ host'.started /\ ~worker'[h].stop => ~host'.stopped /\ host'.op = "none"
    BY <2>3, <2>5, <2>6, <2>7, Zenon DEF Once
  <2>8. Once'
    BY <2>3, <2>7, Zenon DEF Once
  <2> QED
    BY <2>3, <2>8, Zenon
<1>2. CASE Live(g)
  <2>1. LiveMoved(g) /\ Serves(g)
    BY <1>2, LiveMoves, LiveServes, Zenon
  <2>2. ~Unsubscribed(x)
    BY <2>1, Zenon DEF LiveMoved, Unsubscribed
  <2>3. host.started /\ host' = host
    BY <2>1, <2>2, Zenon DEF Once, LiveMoved
  <2>4. PICK y \in Worker : Set(g, y) /\ Beside(x, y)
    BY <2>1, Zenon DEF Serves
  <2>5. x.restarts = 0 => x.catchUp
    BY <1>2, LiveCatchUp, Zenon
  <2>6. \A h \in Gen : h = g /\ worker'[h] = y
    BY <2>4, OnlyOne, Zenon
  <2>7. y.restarts = 0 => x.restarts = 0 /\ y.stop = x.stop /\ FirstRun(y)
    <3>1. /\ y.restarts = x.restarts /\ y.stop = x.stop /\ y.pc = x.pc
          /\ y.catchUp = x.catchUp
      BY <2>4, Zenon DEF Beside, Place
    <3>2. x.restarts = 0 => FirstRun(x)
      BY Zenon DEF Once
    <3> QED
      BY <2>5, <3>1, <3>2, Zenon DEF FirstRun
  <2>8. ASSUME NEW h \in Gen, worker'[h].restarts = 0
        PROVE  /\ FirstRun(worker'[h])
               /\ host'.started /\ ~worker'[h].stop => ~host'.stopped /\ host'.op = "none"
    BY <2>3, <2>6, <2>7, <2>8, Zenon DEF Once
  <2>9. Once'
    BY <2>3, <2>8 DEF Once
  <2> QED
    BY <2>3, <2>9
<1> QED
  BY <1>1, <1>2, Zenon

\* What operator, replay and repository may change of a worker: its status, its
\* stop flag, and the staged checkpoint it has no more.
Told(x, y) ==
  /\ Place(x, y) /\ y.full = x.full /\ y.from = x.from /\ y.restarts = x.restarts
  /\ y.seen = x.seen /\ y.redo = x.redo /\ y.next = x.next /\ y.called = x.called
  /\ y.cb = x.cb /\ y.cbPC = x.cbPC /\ y.pend \in {0, x.pend} /\ (x.stop => y.stop)

\* And of the rest: the journal grows, nothing new reaches Handle, and a worker
\* in its first run that is not told to stop meets no Reset.
Outside ==
  /\ \A g \in Gen : Told(worker[g], worker'[g])
  /\ Touched' \subseteq Touched /\ journal <= journal'
  /\ host'.started = host.started /\ (~host.started => cp' = 0)
  /\ \A g \in Gen : worker[g].restarts = 0 /\ host.started /\ ~worker'[g].stop =>
       /\ ~host'.stopped /\ host'.op = "none"
       /\ cp' = cp /\ applied \cup dlq \subseteq applied' \cup dlq'

\* The operator's calls that set the worker.
LEMMA ToldSteps ==
  ASSUME MaxGen = 1, HostType, Stop \/ ForceStop \/ StopMark \/ Await
  PROVE  /\ \A g \in Gen : Told(worker[g], worker'[g])
         /\ Stop \/ ForceStop => \A g \in Gen : worker'[g].stop
<1> DEFINE x == worker[gen]
<1>0. gen \in Gen /\ x \in Worker /\ \A g \in Gen : worker[g] \in Worker
  BY Zenon DEF HostType
<1>1. \A w \in Worker : Told(w, w)
  BY Zenon DEF Told, Place
<1>2. ASSUME NEW y \in Worker, Set(gen, y), Told(x, y)
      PROVE  \A g \in Gen : Told(worker[g], worker'[g]) /\ worker'[g] = y
  BY <1>0, <1>2, OnlyOne, Zenon
<1>3. CASE Stop \/ ForceStop
  <2> DEFINE y == [x EXCEPT !.stop = TRUE]
  <2>1. y \in Worker /\ Told(x, y) /\ y.stop
    BY <1>0, Zenon DEF Worker, Told, Place
  <2>2. Set(gen, y)
    BY <1>3, Zenon DEF Stop, ForceStop
  <2> HIDE DEF y
  <2> QED
    BY <1>2, <2>1, <2>2, Zenon
<1>4. CASE StopMark
  <2> DEFINE s == IF host.was \in {"running", "live", "backoff"} THEN "draining"
                  ELSE x.status
             y == [x EXCEPT !.status = s]
  <2>1. s \in Status
    BY <1>0, Zenon DEF Worker, Status
  <2>2. Set(gen, y)
    BY <1>4, Zenon DEF StopMark
  <2> HIDE DEF s
  <2>3. y \in Worker /\ Told(x, y)
    BY <1>0, <2>1, Zenon DEF Worker, Told, Place
  <2>4. ~Stop /\ ~ForceStop
    BY <1>4, Zenon DEF StopMark, Stop, ForceStop
  <2> HIDE DEF y
  <2> QED
    BY <1>2, <2>2, <2>3, <2>4, Zenon
<1>5. CASE Await
  <2> DEFINE y == Flushed(x)
  <2>1. y \in Worker /\ Told(x, y)
    BY <1>0, Zenon DEF Flushed, Worker, Told, Place
  <2>2. worker' = worker \/ Set(gen, y)
    BY <1>5, Zenon DEF Await
  <2>3. ~Stop /\ ~ForceStop
    BY <1>5, Zenon DEF Await, Stop, ForceStop
  <2> HIDE DEF y
  <2> QED
    BY <1>0, <1>1, <1>2, <2>1, <2>2, <2>3, Zenon
<1> QED
  BY <1>3, <1>4, <1>5, Zenon

\* The calls of the operator.
LEMMA OperateOutside ==
  ASSUME MaxGen = 1, HostType, Once, Operate, ~Start
  PROVE  Outside
<1>0. /\ \A g \in Gen : worker[g] \in Worker
      /\ gen \in Gen /\ journal \in Nat
      /\ host \in [started : BOOLEAN, stopped : BOOLEAN, was : Status,
                   op : {"none", "stop", "mark", "await", "force", "reset", "purge"}]
  BY ProjectionHostAssumption DEF HostType
<1>1. \A w \in Worker : Told(w, w)
  BY Zenon DEF Told, Place
<1>2. \A g \in Gen : worker[g].restarts = 0 /\ host.started /\ ~worker[g].stop =>
        Running /\ host.op = "none"
  BY Zenon DEF Once, Running
<1>3. CASE Stop \/ ForceStop
  <2>1. /\ \A g \in Gen : Told(worker[g], worker'[g]) /\ worker'[g].stop
        /\ UNCHANGED <<journal, cp, applied, dlq, replay>> /\ host'.started = host.started
        /\ host.started
    BY <1>0, <1>3, ToldSteps, Zenon DEF Stop, ForceStop, Running
  <2> QED
    BY <1>0, <2>1 DEF Outside, Touched
<1>4. ASSUME \A g \in Gen : Told(worker[g], worker'[g]),
             host'.started = host.started, journal' = journal,
             Touched' \subseteq Touched, ~host.started => cp' = 0,
             ~(Running /\ host.op = "none")
      PROVE  Outside
  <2>1. \A g \in Gen : ~worker'[g].stop => ~worker[g].stop
    BY <1>4, Zenon DEF Told
  <2>2. \A g \in Gen : ~(worker[g].restarts = 0 /\ host.started /\ ~worker'[g].stop)
    BY <1>2, <1>4, <2>1, Zenon
  <2>3. journal <= journal'
    BY <1>0, <1>4
  <2> QED
    BY <1>4, <2>2, <2>3, Zenon DEF Outside
<1>5. CASE StopMark \/ Await
  <2>1. /\ UNCHANGED <<journal, applied, dlq, replay>> /\ host'.started = host.started
        /\ host.op # "none"
    BY <1>0, <1>5, Zenon DEF StopMark, Await
  <2>2. ~host.started => cp' = 0
    <3> SUFFICES ASSUME ~host.started PROVE cp' = 0
      OBVIOUS
    <3>1. cp = 0 /\ worker[gen].pend = 0
      BY <1>0, Zenon DEF Once, Unsubscribed
    <3> QED
      BY <1>5, <3>1, Zenon DEF StopMark, Await
  <2> QED
    BY <1>4, <1>5, <2>1, <2>2, ToldSteps, Zenon DEF Touched
<1>6. CASE StopRead \/ AwaitTimeout \/ ResetCheckpoint \/ ResetModel \/ ResetPurge
  <2>1. /\ UNCHANGED <<journal, worker, replay>> /\ host'.started = host.started
        /\ ~(Running /\ host.op = "none")
    BY <1>0, <1>6, Zenon DEF StopRead, AwaitTimeout, ResetCheckpoint, ResetModel, ResetPurge
  <2>2. applied' \subseteq applied /\ dlq' \subseteq dlq /\ cp' \in {0, cp}
    BY <1>6, Zenon DEF StopRead, AwaitTimeout, ResetCheckpoint, ResetModel, ResetPurge
  <2>3. Touched' \subseteq Touched
    BY <2>1, <2>2, Zenon DEF Touched
  <2>4. ~host.started => cp' = 0
    BY <2>2, Zenon DEF Once
  <2> QED
    BY <1>0, <1>1, <1>4, <2>1, <2>3, <2>4, Zenon
<1> QED
  BY <1>3, <1>5, <1>6, Zenon DEF Operate

\* A replay of dead letters, and a save of the repository.
LEMMA ReplayOutside ==
  ASSUME HostType, Once, Replay \/ AppendEvent
  PROVE  Outside
<1>0. /\ \A g \in Gen : worker[g] \in Worker
      /\ journal \in Nat
      /\ replay \in [g : Gen, todo : SUBSET Event, now : 0..MaxEvents]
  BY ProjectionHostAssumption DEF HostType
<1>1. \A w \in Worker : Told(w, w)
  BY Zenon DEF Told, Place
<1>2. ASSUME UNCHANGED <<cp, worker, host>>, journal <= journal',
             applied \cup dlq \subseteq applied' \cup dlq', Touched' \subseteq Touched
      PROVE  Outside
  BY <1>0, <1>1, <1>2, Zenon DEF Outside, Once
<1>3. journal <= journal
  BY <1>0
<1>4. CASE ReplayStart
  <2>1. /\ UNCHANGED <<cp, worker, host, applied, dlq, journal>>
        /\ replay'.todo = dlq /\ replay'.now = 0
    BY <1>4, Zenon DEF ReplayStart
  <2>2. Touched' \subseteq Touched
    BY <2>1, Zenon DEF Touched
  <2> QED
    BY <1>2, <1>3, <2>1, <2>2, Zenon
<1>5. CASE ReplayHandled
  <2>1. /\ UNCHANGED <<cp, worker, host, dlq, journal>> /\ replay.now # 0
        /\ replay'.todo = replay.todo /\ replay'.now = 0
        /\ applied' = applied \cup {replay.now} \/ applied' = applied
    BY <1>0, <1>5, Zenon DEF ReplayHandled
  <2>2. Touched' \subseteq Touched
    BY <2>1, Zenon DEF Touched
  <2> QED
    BY <1>2, <1>3, <2>1, <2>2, Zenon
<1>6. ASSUME NEW e \in Event, ReplayHandle(e) PROVE Outside
  <2>1. /\ UNCHANGED <<cp, worker, host, applied, dlq, journal>> /\ e \in replay.todo
        /\ replay'.todo = replay.todo \ {e} /\ replay'.now = e /\ e # 0
    BY <1>0, <1>6 DEF ReplayHandle, Event
  <2>2. Touched' \subseteq Touched
    BY <2>1, Zenon DEF Touched
  <2> QED
    BY <1>2, <1>3, <2>1, <2>2, Zenon
<1>7. ASSUME NEW e \in Event, DeleteReplayed(e) PROVE Outside
  <2>1. /\ UNCHANGED <<cp, worker, host, applied, journal, replay>>
        /\ e \in applied /\ dlq' = dlq \ {e}
    BY <1>7, Zenon DEF DeleteReplayed
  <2>2. Touched' \subseteq Touched
    BY <2>1, Zenon DEF Touched
  <2> QED
    BY <1>2, <1>3, <2>1, <2>2, Zenon
<1>8. CASE AppendEvent
  <2>1. UNCHANGED <<cp, worker, host, applied, dlq, replay>> /\ journal' = journal + 1
    BY <1>8, Zenon DEF AppendEvent
  <2>2. Touched' \subseteq Touched /\ journal <= journal'
    BY <1>0, <2>1 DEF Touched
  <2> QED
    BY <1>2, <2>1, <2>2, Zenon
<1> QED
  BY <1>4, <1>5, <1>6, <1>7, <1>8, Zenon DEF Replay

\* Start, once: a fresh worker, and nothing to remember.
Fresh ==
  /\ ~host.started /\ Touched' = {} /\ cp' = 0
  /\ \A g \in Gen : worker'[g] = [NewWorker EXCEPT !.pc = "top"]

\* The Start of a host that has one generation is such a start.
LEMMA StartFresh ==
  ASSUME MaxGen = 1, HostType, Once, Start
  PROVE  Fresh /\ host'.started /\ ~host'.stopped /\ host'.op = "none"
<1>0. /\ gen = 1 /\ \A g \in Gen : g = 1
      /\ host \in [started : BOOLEAN, stopped : BOOLEAN, was : Status,
                   op : {"none", "stop", "mark", "await", "force", "reset", "purge"}]
      /\ worker \in [Gen -> Worker]
  BY DEF HostType, Gen
<1>1. ~host.started /\ gen' = gen
  BY <1>0 DEF Start
<1>2. /\ Touched = {} /\ cp = 0
  BY <1>1, Zenon DEF Once
<1>3. Touched' = {} /\ cp' = 0
  BY <1>2, Zenon DEF Start, Touched
<1>4. \A g \in Gen : worker'[g] = [NewWorker EXCEPT !.pc = "top"]
  BY <1>0, <1>1, Zenon DEF Start
<1>5. host'.started /\ ~host'.stopped /\ host'.op = "none"
  BY <1>0, Zenon DEF Start
<1> QED
  BY <1>1, <1>3, <1>4, <1>5, Zenon DEF Fresh

\* The fields of a fresh worker.
LEMMA FreshFields ==
  LET w == [NewWorker EXCEPT !.pc = "top"] IN
  /\ w.pc = "top" /\ w.seen = <<>> /\ w.catchUp = FALSE /\ w.cbPC = "none" /\ w.restarts = 0
  /\ w.from = 0 /\ Unsubscribed(w)
BY Zenon DEF NewWorker, Unsubscribed

\* A step of anyone else.
LEMMA OnceOther ==
  ASSUME MaxGen = 1, HostType, Once, Operate \/ Replay \/ AppendEvent \/ Crash
  PROVE  Once' /\ (Fresh \/ Outside)
<1>1. CASE Start
  <2>1. Fresh /\ host'.started /\ ~host'.stopped /\ host'.op = "none"
    BY <1>1, StartFresh, Zenon
  <2>2. \A g \in Gen : FirstRun(worker'[g])
    BY <2>1, FreshFields, Zenon DEF Fresh, FirstRun
  <2> QED
    BY <2>1, <2>2, Zenon DEF Once
<1>2. CASE Outside
  <2>1. ASSUME NEW g \in Gen
        PROVE  /\ worker'[g].restarts = worker[g].restarts
               /\ FirstRun(worker[g]) => FirstRun(worker'[g])
               /\ Unsubscribed(worker[g]) => Unsubscribed(worker'[g])
               /\ worker'[g].pc = worker[g].pc
    <3>1. Told(worker[g], worker'[g])
      BY <1>2, Zenon DEF Outside
    <3> QED
      BY <3>1, Zenon DEF Told, Place, FirstRun, Unsubscribed
  <2>2. ~host'.started => Touched' = {} /\ cp' = 0
                          /\ \A g \in Gen : worker'[g].pc = "new" /\ Unsubscribed(worker'[g])
    BY <1>2, <2>1, Zenon DEF Outside, Once
  <2>3. \A g \in Gen : worker'[g].restarts = 0 =>
          /\ FirstRun(worker'[g])
          /\ host'.started /\ ~worker'[g].stop => ~host'.stopped /\ host'.op = "none"
    BY <1>2, <2>1, Zenon DEF Outside, Once
  <2> QED
    BY <1>2, <2>2, <2>3, Zenon DEF Once
<1>3. ~Crash
  BY DEF Crash, HostType, Gen
<1> QED
  BY <1>1, <1>2, <1>3, OperateOutside, ReplayOutside, Zenon

-----------------------------------------------------------------------------
(* No event is handled twice *)

\* A worker keeps e from Handle, evicted it, or the save of its live checkpoint
\* failed.
Known(x, e) == Seen(x, e) \/ e \in x.redo \/ (x.cbPC = "save" /\ x.cb = e)

\* A worker knows what went through Handle, and calls it with something else.
Overlaps(x) ==
  /\ x.pc = "handle" => ~Seen(x, x.after + 1)
  /\ x.cbPC = "handle" => ~Seen(x, x.cb)
  /\ \A e \in Touched : Known(x, e)

\* The inductive invariant, beside Once.
OverInv == \A g \in Gen : worker[g].restarts = 0 => Overlaps(worker[g])

\* A step of the worker goroutine.
LEMMA OverWork ==
  ASSUME MaxGen = 1, HostType, LockInv, Once, OverInv, NEW g \in Gen, Work(g) \/ Unblock(g)
  PROVE  OverInv'
<1> DEFINE x == worker[g]
<1>1. Moved(g) /\ Runs(g)
  BY WorkMoves, WorkRuns, Zenon DEF Once
<1>2. PICK y \in Worker :
        /\ Set(g, y)
        /\ \/ y.restarts # 0
           \/ Ends(x, y) \/ Begins(x, y) \/ Continues(x, y)
           \/ Enters(g, x, y) \/ Skips(g, x, y) \/ Joins(x, y)
  BY <1>1, Zenon DEF Runs
<1>3. \A h \in Gen : h = g /\ worker'[h] = y
  BY <1>2, OnlyOne, Zenon
<1>4. ASSUME y.restarts = 0
      PROVE  /\ y.pc = "handle" => ~Seen(y, y.after + 1)
             /\ y.cbPC = "handle" => ~Seen(y, y.cb)
             /\ \A e \in Touched' : Known(y, e)
  <2>1. x.restarts = 0
    BY <1>2, <1>4, Zenon DEF Ends, Begins, Continues, Enters, Skips, Still, Same, Most, Joins
  <2>2. Overlaps(x) /\ FirstRun(x) /\ Locked(x, Replays(g))
    BY <2>1, Zenon DEF OverInv, Once, LockInv
  <2>3. /\ replay' = replay
        /\ applied' \cup dlq' \subseteq applied \cup dlq \cup {x.after + 1}
    BY <1>1, Zenon DEF Moved
  <2>4. CASE Skips(g, x, y)
    <3>1. x.cbPC = "none"
      BY <2>2, <2>4, Zenon DEF Skips, Locked, Unlocked, FirstRun, Unsubscribed
    <3>2. /\ Seen(y, x.after + 1)
          /\ \A d : Seen(x, d) \/ d \in x.redo => Seen(y, d) \/ d \in y.redo
      BY <2>4, Zenon DEF Skips, Adds
    <3>3. y.cbPC = "none" /\ y.pc = "event"
      BY <2>4, <3>1, Zenon DEF Skips, Same, Most
    <3>4. \A e \in Touched' : e \in Touched \/ e = x.after + 1
      BY <2>3, Zenon DEF Touched
    <3>5. \A e \in Touched' : Known(y, e)
      BY <2>2, <3>1, <3>2, <3>3, <3>4, Zenon DEF Known, Overlaps
    <3> QED
      BY <3>3, <3>5, Zenon
  <2>5. CASE ~Skips(g, x, y)
    <3>1. /\ y.seen = x.seen /\ y.cb = x.cb /\ y.cbPC = x.cbPC /\ y.redo = x.redo
          /\ UNCHANGED <<applied, dlq>>
      BY <1>2, <1>4, <2>5, Zenon DEF Ends, Begins, Continues, Enters, Still, Same, Most, Joins
    <3>2. y.pc = "handle" => ~Seen(x, x.after + 1) /\ y.after = x.after
      BY <1>2, <1>4, <2>5, Zenon DEF Ends, Begins, Continues, Enters, Still, Same, Most, Joins
    <3>3. \A d : Seen(y, d) <=> Seen(x, d)
      BY <3>1, Zenon DEF Seen
    <3>4. Touched' = Touched
      BY <2>3, <3>1, Zenon DEF Touched
    <3>5. \A e \in Touched' : Known(y, e)
      BY <2>2, <3>1, <3>3, <3>4, Zenon DEF Known, Overlaps
    <3>6. y.cbPC = "handle" => ~Seen(y, y.cb)
      BY <2>2, <3>1, <3>3, Zenon DEF Overlaps
    <3> QED
      BY <3>2, <3>3, <3>5, <3>6, Zenon
  <2> QED
    BY <2>4, <2>5, Zenon
<1> QED
  BY <1>3, <1>4, Zenon DEF OverInv, Overlaps

\* A step of the live handler.
LEMMA OverLive ==
  ASSUME MaxGen = 1, HostType, LockInv, Once, OverInv, NEW g \in Gen, Live(g)
  PROVE  OverInv'
<1> DEFINE x == worker[g]
<1>1. LiveMoved(g) /\ Serves(g)
  BY LiveMoves, LiveServes, Zenon
<1>2. PICK y \in Worker :
        /\ Set(g, y) /\ Beside(x, y)
        /\ \/ Quiet(x, y) \/ Marks(g, x, y) \/ Takes(g, x, y) \/ Gives(x, y) \/ Settles(x, y)
  BY <1>1, Zenon DEF Serves
<1>3. \A h \in Gen : h = g /\ worker'[h] = y
  BY <1>2, OnlyOne, Zenon
<1>4. ASSUME y.restarts = 0
      PROVE  /\ y.pc = "handle" => ~Seen(y, y.after + 1)
             /\ y.cbPC = "handle" => ~Seen(y, y.cb)
             /\ \A e \in Touched' : Known(y, e)
  <2>1. x.restarts = 0 /\ y.pc = x.pc /\ y.after = x.after
    BY <1>2, <1>4, Zenon DEF Beside, Place
  <2>2. Overlaps(x) /\ x.catchUp /\ Locked(x, Replays(g))
    BY <2>1, LiveCatchUp, Zenon DEF OverInv, LockInv
  <2>3. /\ replay' = replay
        /\ applied' \cup dlq' \subseteq applied \cup dlq \cup {x.cb}
    BY <1>1, Zenon DEF LiveMoved
  <2>4. CASE Quiet(x, y) \/ Gives(x, y)
    <3>1. /\ y.seen = x.seen /\ y.redo = x.redo
          /\ y.cbPC = "handle" => x.cbPC = "handle" /\ y.cb = x.cb
          /\ x.cbPC = "save" => y.cbPC = "save" /\ y.cb = x.cb
      BY <2>4, Zenon DEF Quiet, Gives
    <3>2. \A d : Seen(y, d) <=> Seen(x, d)
      BY <3>1, Zenon DEF Seen
    <3>3. \A e \in Touched' : e \in Touched \/ (y.cbPC = "save" /\ y.cb = e)
      BY <2>3, <2>4, Zenon DEF Touched, Quiet, Gives
    <3>4. \A e \in Touched' : Known(y, e)
      BY <2>2, <3>1, <3>2, <3>3, Zenon DEF Known, Overlaps
    <3> QED
      BY <2>1, <2>2, <3>1, <3>2, <3>4, Zenon DEF Overlaps
  <2>5. CASE Marks(g, x, y) \/ Takes(g, x, y) \/ Settles(x, y)
    <3>1. x.pc # "handle" /\ UNCHANGED <<applied, dlq>>
      BY <2>2, <2>5, Zenon DEF Marks, Takes, Settles, Unlocked, Locked
    <3>2. \A d : Seen(x, d) \/ d \in x.redo => Seen(y, d) \/ d \in y.redo
      BY <2>5, Zenon DEF Marks, Takes, Settles, Adds, Seen
    <3>3. x.cbPC = "save" => Seen(y, x.cb) \/ x.cb \in y.redo
      BY <2>5, Zenon DEF Marks, Takes, Settles, Adds, Unlocked
    <3>4. y.cbPC = "handle" => ~Seen(y, y.cb)
      BY <2>5, Zenon DEF Marks, Takes, Settles, Unlocked, Seen
    <3>5. Touched' = Touched
      BY <2>3, <3>1, Zenon DEF Touched
    <3>6. \A e \in Touched' : Known(y, e)
      BY <2>2, <3>2, <3>3, <3>5, Zenon DEF Known, Overlaps
    <3> QED
      BY <2>1, <3>1, <3>4, <3>6, Zenon
  <2> QED
    BY <1>2, <2>4, <2>5, Zenon
<1> QED
  BY <1>3, <1>4, Zenon DEF OverInv, Overlaps

\* A step of anyone else.
LEMMA OverOther ==
  ASSUME OverInv, Fresh \/ Outside
  PROVE  OverInv'
<1>1. CASE Fresh
  <2>1. \A g \in Gen : /\ worker'[g].seen = <<>> /\ worker'[g].pc = "top"
                       /\ worker'[g].cbPC = "none"
    BY <1>1, FreshFields, Zenon DEF Fresh
  <2>2. Len(<<>>) = 0 /\ Touched' = {}
    BY <1>1, Zenon DEF Fresh
  <2> QED
    BY <2>1, <2>2, Zenon DEF OverInv, Overlaps, Seen
<1>2. CASE Outside
  <2>1. ASSUME NEW g \in Gen, worker'[g].restarts = 0
        PROVE  /\ worker'[g].pc = "handle" => ~Seen(worker'[g], worker'[g].after + 1)
               /\ worker'[g].cbPC = "handle" => ~Seen(worker'[g], worker'[g].cb)
               /\ \A e \in Touched' : Known(worker'[g], e)
    <3>1. Told(worker[g], worker'[g]) /\ Touched' \subseteq Touched
      BY <1>2, Zenon DEF Outside
    <3>2. Overlaps(worker[g])
      BY <2>1, <3>1, Zenon DEF Told, OverInv
    <3> QED
      BY <3>1, <3>2 DEF Told, Place, Overlaps, Seen, Known
  <2> QED
    BY <2>1, Zenon DEF OverInv, Overlaps
<1> QED
  BY <1>1, <1>2, Zenon

\* worker_drain.go, dedup.Ring: in a host that is started once, no event goes
\* through Handle again in a worker that has not failed, by catch-up drain or
\* live callback, whatever the bus repeats or reorders and however small the
\* ring is, unless the ring evicted it or the save of its live checkpoint failed
\* (OverlapDeduplicated).
THEOREM OverlapIsDeduplicated ==
  ASSUME MaxGen = 1
  PROVE  Spec => []OverlapDeduplicated
<1>1. Init => Once /\ OverInv
  <2> SUFFICES ASSUME Init PROVE Once /\ OverInv
    OBVIOUS
  <2>1. /\ \A g \in Gen : worker[g] = NewWorker
        /\ ~host.started /\ Touched = {} /\ cp = 0
    BY Zenon DEF Init, Touched, Host0, NoReplay
  <2>2. /\ NewWorker.pc = "new" /\ NewWorker.seen = <<>> /\ NewWorker.cbPC = "none"
        /\ NewWorker.catchUp = FALSE /\ Unsubscribed(NewWorker)
    BY Zenon DEF NewWorker, Unsubscribed
  <2>3. Once
    BY <2>1, <2>2, Zenon DEF Once, FirstRun
  <2>4. OverInv
    BY <2>1, <2>2, Zenon DEF OverInv, Overlaps, Seen
  <2> QED
    BY <2>3, <2>4, Zenon
<1>2. HostType /\ LockInv /\ Once /\ OverInv /\ [Next]_vars => Once' /\ OverInv'
  <2> SUFFICES ASSUME HostType, LockInv, Once, OverInv, [Next]_vars
               PROVE  Once' /\ OverInv'
    OBVIOUS
  <2>1. CASE UNCHANGED vars
    BY <2>1, Zenon DEF Once, OverInv, Overlaps, Touched, vars
  <2>2. ASSUME NEW g \in Gen, Work(g) \/ Unblock(g) \/ Live(g) PROVE Once' /\ OverInv'
    BY <2>2, OnceWork, OverWork, OverLive, Zenon
  <2>3. CASE Operate \/ Replay \/ AppendEvent \/ Crash
    BY <2>3, OnceOther, OverOther, Zenon
  <2> QED
    BY <2>1, <2>2, <2>3, Zenon DEF Next
<1>3. HostType /\ LockInv /\ Once /\ OverInv => OverlapDeduplicated
  <2> SUFFICES ASSUME LockInv, Once, OverInv, NEW g \in Gen, worker[g].restarts = 0
               PROVE  LET x == worker[g] IN
                 /\ x.pc = "handle" /\ x.after + 1 \in applied => x.after + 1 \in x.redo
                 /\ x.cbPC = "handle" /\ x.cb \in applied => x.cb \in x.redo
    BY Zenon DEF OverlapDeduplicated
  <2> DEFINE x == worker[g]
  <2>1. Overlaps(x) /\ FirstRun(x) /\ Locked(x, Replays(g))
    BY Zenon DEF OverInv, Once, LockInv
  <2>2. \A e \in applied : Known(x, e)
    BY <2>1, Zenon DEF Overlaps, Touched
  <2>3. x.pc = "handle" => x.cbPC = "none"
    BY <2>1, Zenon DEF FirstRun, Unsubscribed, Locked
  <2> QED
    BY <2>1, <2>2, <2>3, Zenon DEF Overlaps, Known
<1> QED
  BY <1>1, <1>2, <1>3, HostTypeHolds, LockHolds, PTL DEF Spec

-----------------------------------------------------------------------------
(* The window before the registration is closed *)

\* What a worker passed, and what its ring or its callback would let it pass, is
\* done; the catch-up drain ends at the registration or later.
Closes(x) ==
  /\ x.pc \in {"top", "load"} => cp = 0
  /\ x.pc \in Positioned => \A e \in 1..x.after : Done(e)
  /\ \A i \in 1..Len(x.seen) : Done(x.seen[i])
  /\ x.cbPC = "save" => Done(x.cb)
  /\ x.from <= journal
  /\ x.pc = "save" => x.after = x.until
  /\ x.catchUp /\ x.pc \in {"event", "handle", "save"} /\ ~x.full => x.from <= x.until
  /\ x.catchUp /\ x.pc \in {"flush", "done"} => \A e \in 1..x.from : Done(e)

\* The inductive invariant, beside Once.
WinInv ==
  \A g \in Gen : LET x == worker[g] IN
    x.restarts = 0 /\ ~x.stop /\ x.pc # "new" => Closes(x)

\* A step that sets the worker.
LEMMA WinSet ==
  ASSUME MaxGen = 1, HostType, NEW g \in Gen, NEW y \in Worker, Set(g, y),
         y.restarts = 0 /\ ~y.stop /\ y.pc # "new" => Closes(y)'
  PROVE  WinInv'
<1>1. \A h \in Gen : worker'[h] = y
  BY OnlyOne, Zenon
<1> QED
  BY <1>1, Zenon DEF WinInv, Closes, Done

\* A step of the worker goroutine.
LEMMA WinWork ==
  ASSUME MaxGen = 1, HostType, Once, WinInv, NEW g \in Gen, Work(g) \/ Unblock(g)
  PROVE  WinInv'
<1> DEFINE x == worker[g]
<1>1. Moved(g) /\ Runs(g)
  BY WorkMoves, WorkRuns, Zenon DEF Once
<1>2. PICK y \in Worker :
        /\ Set(g, y)
        /\ \/ y.restarts # 0
           \/ Ends(x, y) \/ Begins(x, y) \/ Continues(x, y)
           \/ Enters(g, x, y) \/ Skips(g, x, y) \/ Joins(x, y)
  BY <1>1, Zenon DEF Runs
<1>3. ASSUME y.restarts = 0, ~y.stop PROVE Closes(y)'
  <2>1. x.restarts = 0 /\ ~x.stop
    BY <1>2, <1>3, Zenon DEF Ends, Begins, Continues, Enters, Skips, Still, Same, Most, Joins
  <2>2. x.pc # "new"
    BY <1>1, Zenon DEF Moved, Move, Leaves, Resumes, Opens, Calls, Passes, Goes, Registers
  <2>3. Closes(x) /\ FirstRun(x)
    BY <2>1, <2>2, Zenon DEF WinInv, Once
  <2>4. /\ journal' = journal /\ journal \in Nat /\ x.after \in Nat /\ x.until \in Nat
        /\ x.from \in Nat /\ x.pend \in Nat
    BY <1>1, Numbers, Zenon DEF Moved, Worker
  <2> DEFINE done == applied' \cup dlq' \cup Ignored
  <2>5. \A e : Done(e) => e \in done
    BY <1>1, Zenon DEF Moved, Done
  <2>6. x.pc \in {"top", "load"} => cp' = 0 /\ cp = 0
    BY <1>1, <2>3, Zenon DEF Moved, Closes, FirstRun, Unsubscribed
  <2>7. /\ y.cbPC = x.cbPC /\ y.cb = x.cb
        /\ \A e : Seen(y, e) => Seen(x, e) \/ (e = x.after + 1 /\ Skips(g, x, y))
    BY <1>2, <1>3, Zenon DEF Ends, Begins, Continues, Enters, Skips, Still, Same, Most, Joins, Adds, Seen
  <2>8. \A e : Seen(x, e) => Done(e)
    BY <2>3, Zenon DEF Closes, Seen
  <2>9. Skips(g, x, y) => x.after + 1 \in done
    BY <2>5, <2>8, Zenon DEF Skips
  <2>10. /\ \A i \in 1..Len(y.seen) : y.seen[i] \in done
         /\ y.cbPC = "save" => y.cb \in done
    <3>1. \A i \in 1..Len(y.seen) : Seen(y, y.seen[i])
      BY Zenon DEF Seen
    <3> HIDE DEF done
    <3> QED
      BY <2>3, <2>5, <2>7, <2>8, <2>9, <3>1, Zenon DEF Closes
  <2> SUFFICES /\ y.pc \in {"top", "load"} => cp' = 0
               /\ y.pc \in Positioned => \A e \in 1..y.after : e \in done
               /\ y.from <= journal
               /\ y.pc = "save" => y.after = y.until
               /\ y.catchUp /\ y.pc \in {"event", "handle", "save"} /\ ~y.full =>
                    y.from <= y.until
               /\ y.catchUp /\ y.pc \in {"flush", "done"} =>
                    \A e \in 1..y.from : e \in done
    BY <2>4, <2>10, Zenon DEF Closes, Done
  <2> HIDE DEF done
  <2>11. x.pc \in Positioned => \A e \in 1..x.after : e \in done
    BY <2>3, <2>5, Zenon DEF Closes
  <2>12. CASE Ends(x, y)
    <3>1. y.pc \in {"flush", "done"} /\ y.catchUp = x.catchUp /\ y.from = x.from
      BY <2>12, Zenon DEF Ends, Still, Same, Most
    <3>2. ASSUME x.catchUp PROVE \A e \in 1..x.from : e \in done
      <4>1. CASE x.pc = "flush"
        BY <2>3, <2>5, <3>2, <4>1, Zenon DEF Closes
      <4>2. CASE x.pc = "read" /\ journal <= x.after
        <5>1. x.from <= journal
          BY <2>3, Zenon DEF Closes
        <5>2. \A e \in 1..x.from : e \in 1..x.after
          BY <2>4, <4>2, <5>1
        <5> QED
          BY <2>11, <4>2, <5>2, Zenon DEF Positioned
      <4>3. CASE x.pc = "save" /\ ~x.full
        BY <2>3, <2>4, <2>11, <3>2, <4>3 DEF Closes, Positioned
      <4> QED
        BY <2>1, <2>12, <4>1, <4>2, <4>3, Zenon DEF Ends
    <3> QED
      BY <2>3, <3>1, <3>2, Zenon DEF Positioned, Closes
  <2>13. CASE Begins(x, y)
    <3>1. /\ y.catchUp = x.catchUp /\ ~x.catchUp /\ y.from = x.from
          /\ y.pc = "load" \/ (y.pc = "read" /\ y.after = 0)
          /\ cp' = 0
      BY <2>3, <2>6, <2>13, Zenon DEF Begins, Still, Same, Most, FirstRun
    <3>2. y.pc \in Positioned => \A e \in 1..y.after : e \in done
      BY <3>1 DEF Positioned
    <3> QED
      BY <2>3, <3>1, <3>2, Zenon DEF Closes
  <2>14. CASE Continues(x, y)
    <3>1. y.catchUp = x.catchUp /\ y.from = x.from
      BY <2>14, Zenon DEF Continues, Still, Same, Most
    <3> QED
      BY <2>3, <2>4, <2>11, <2>14, <3>1, Zenon DEF Continues, Closes
  <2>15. CASE Enters(g, x, y)
    <3>1. y.catchUp = x.catchUp /\ y.from = x.from
      BY <2>15, Zenon DEF Enters, Still, Same, Most
    <3> QED
      BY <2>3, <2>11, <2>15, <3>1, Zenon DEF Enters, Closes, Positioned
  <2>16. CASE Skips(g, x, y)
    <3>1. y.catchUp = x.catchUp /\ y.from = x.from
      BY <2>16, Zenon DEF Skips, Same, Most
    <3>2. \A e \in 1..y.after : e \in done
      <4>1. x.pc \in Positioned /\ y.after = x.after + 1
        BY <2>16, Zenon DEF Skips, Positioned
      <4>2. \A e \in 1..(x.after + 1) : e \in 1..x.after \/ e = x.after + 1
        BY <2>4
      <4> QED
        BY <2>9, <2>11, <2>16, <4>1, <4>2, Zenon
    <3> QED
      BY <2>3, <2>16, <3>1, <3>2, Zenon DEF Skips, Closes
  <2>17. CASE Joins(x, y)
    BY <2>4, <2>11, <2>17 DEF Joins, Positioned
  <2> QED
    BY <1>2, <1>3, <2>12, <2>13, <2>14, <2>15, <2>16, <2>17, Zenon
<1> QED
  BY <1>2, <1>3, WinSet, Zenon

\* A step of the live handler.
LEMMA WinLive ==
  ASSUME MaxGen = 1, HostType, Once, WinInv, NEW g \in Gen, Live(g)
  PROVE  WinInv'
<1> DEFINE x == worker[g]
           done == applied' \cup dlq' \cup Ignored
<1>1. LiveMoved(g) /\ Serves(g)
  BY LiveMoves, LiveServes, Zenon
<1>2. PICK y \in Worker :
        /\ Set(g, y) /\ Beside(x, y)
        /\ \/ Quiet(x, y) \/ Marks(g, x, y) \/ Takes(g, x, y) \/ Gives(x, y) \/ Settles(x, y)
  BY <1>1, Zenon DEF Serves
<1>3. ASSUME y.restarts = 0, ~y.stop, y.pc # "new" PROVE Closes(y)'
  <2>1. /\ y.restarts = x.restarts /\ y.stop = x.stop /\ y.pc = x.pc /\ y.after = x.after
        /\ y.until = x.until /\ y.full = x.full /\ y.from = x.from /\ y.catchUp = x.catchUp
    BY <1>2, Zenon DEF Beside, Place
  <2>2. Closes(x) /\ x.catchUp /\ FirstRun(x)
    BY <1>3, <2>1, LiveCatchUp, Zenon DEF WinInv, Once
  <2>3. journal' = journal /\ x.pc \notin {"top", "load"}
    BY <1>1, <2>2, Zenon DEF LiveMoved, FirstRun
  <2>4. applied \subseteq applied' /\ dlq \subseteq dlq'
    BY <1>2, Zenon DEF Quiet, Marks, Takes, Gives, Settles
  <2>5. \A e : Done(e) => e \in done
    BY <2>4, Zenon DEF Done
  <2>6. \A e : Seen(x, e) => e \in done
    BY <2>2, <2>5, Zenon DEF Closes, Seen
  <2>7. x.cbPC = "save" => x.cb \in done
    BY <2>2, <2>5, Zenon DEF Closes
  <2>8. Gives(x, y) => x.cb \in done
    BY Zenon DEF Gives
  <2>9. \A e \in Ignored : e \in done
    OBVIOUS
  <2> HIDE DEF done
  <2>10. \A i \in 1..Len(y.seen) : y.seen[i] \in done
    <3>1. \A i \in 1..Len(y.seen) : Seen(y, y.seen[i])
      BY Zenon DEF Seen
    <3>2. \A e : Seen(y, e) => e \in done
      <4>1. CASE Quiet(x, y) \/ Takes(g, x, y) \/ Gives(x, y)
        BY <2>6, <4>1, Zenon DEF Quiet, Takes, Gives, Seen
      <4>2. CASE Marks(g, x, y)
        BY <2>6, <2>9, <4>2, Zenon DEF Marks, Adds
      <4>3. CASE Settles(x, y)
        <5>1. CASE Adds(x, y, x.cb)
          BY <2>6, <2>7, <4>3, <5>1, Zenon DEF Settles, Adds
        <5>2. CASE y.seen = x.seen
          BY <2>6, <5>2, Zenon DEF Seen
        <5> QED
          BY <4>3, <5>1, <5>2, Zenon DEF Settles
      <4> QED
        BY <1>2, <4>1, <4>2, <4>3, Zenon
    <3> QED
      BY <3>1, <3>2, Zenon
  <2>11. y.cbPC = "save" => y.cb \in done
    BY <1>2, <2>7, <2>8, Zenon DEF Quiet, Marks, Takes, Gives, Settles
  <2>12. /\ x.pc \in Positioned => \A e \in 1..x.after : e \in done
         /\ x.pc \in {"flush", "done"} => \A e \in 1..x.from : e \in done
    BY <2>2, <2>5, Zenon DEF Closes
  <2> QED
    BY <2>1, <2>2, <2>3, <2>10, <2>11, <2>12, Zenon DEF Closes, Done, done
<1> QED
  BY <1>2, <1>3, WinSet, Zenon

\* A step of anyone else.
LEMMA WinOther ==
  ASSUME HostType, HostType', Once, WinInv, Fresh \/ Outside
  PROVE  WinInv'
<1> DEFINE done == applied' \cup dlq' \cup Ignored
<1>0. journal \in Nat /\ journal' \in Nat
  BY ProjectionHostAssumption DEF HostType
<1>1. CASE Fresh
  <2>1. \A g \in Gen : /\ worker'[g].seen = <<>> /\ worker'[g].pc = "top"
                       /\ worker'[g].cbPC = "none" /\ worker'[g].from = 0
    BY <1>1, FreshFields, Zenon DEF Fresh
  <2>2. Len(<<>>) = 0 /\ cp' = 0
    BY <1>1, Zenon DEF Fresh
  <2>3. 0 <= journal'
    BY <1>0
  <2> QED
    BY <2>1, <2>2, <2>3 DEF WinInv, Closes, Positioned
<1>2. CASE Outside
  <2>1. ASSUME NEW g \in Gen, worker'[g].restarts = 0, ~worker'[g].stop,
               worker'[g].pc # "new"
        PROVE  Closes(worker[g])'
    <3> DEFINE x == worker[g]
               y == worker'[g]
    <3>1. Told(x, y) /\ journal <= journal'
      BY <1>2, Zenon DEF Outside
    <3>2. /\ y.restarts = x.restarts /\ y.pc = x.pc /\ y.after = x.after
          /\ y.until = x.until /\ y.full = x.full /\ y.from = x.from /\ y.catchUp = x.catchUp
          /\ y.seen = x.seen /\ y.cb = x.cb /\ y.cbPC = x.cbPC /\ ~x.stop
      BY <2>1, <3>1, Zenon DEF Told, Place
    <3>3. Closes(x) /\ host.started
      BY <2>1, <3>2, Zenon DEF WinInv, Once
    <3>4. cp' = cp /\ applied \cup dlq \subseteq applied' \cup dlq'
      BY <1>2, <2>1, <3>2, <3>3, Zenon DEF Outside
    <3>5. \A e : Done(e) => e \in done
      BY <3>4, Zenon DEF Done
    <3>6. x.from <= journal'
      <4>1. x.from \in Nat
        BY Numbers, Zenon DEF Worker
      <4> QED
        BY <1>0, <3>1, <3>3, <4>1 DEF Closes
    <3> HIDE DEF done, x
    <3>7. /\ x.pc \in Positioned => \A e \in 1..x.after : e \in done
          /\ x.catchUp /\ x.pc \in {"flush", "done"} => \A e \in 1..x.from : e \in done
          /\ \A i \in 1..Len(x.seen) : x.seen[i] \in done
          /\ x.cbPC = "save" => x.cb \in done
      BY <3>3, <3>5, Zenon DEF Closes
    <3> QED
      BY <3>2, <3>3, <3>4, <3>6, <3>7, Zenon DEF Closes, Done, done
  <2> QED
    BY <2>1, Zenon DEF WinInv
<1> QED
  BY <1>1, <1>2, Zenon

\* worker_drain.go, worker_live.go: in a host that is started once, a worker
\* that went live without a failure or a stop leaves nothing behind of what was
\* in the journal when it registered, whatever bus, callbacks and replays did
\* next to its drain (WindowClosed).
THEOREM WindowIsClosed ==
  ASSUME MaxGen = 1
  PROVE  Spec => []WindowClosed
<1>1. Init => Once /\ WinInv
  <2> SUFFICES ASSUME Init PROVE Once /\ WinInv
    OBVIOUS
  <2>1. /\ \A g \in Gen : worker[g] = NewWorker
        /\ ~host.started /\ Touched = {} /\ cp = 0
    BY Zenon DEF Init, Touched, Host0, NoReplay
  <2>2. /\ NewWorker.pc = "new" /\ NewWorker.catchUp = FALSE /\ Unsubscribed(NewWorker)
    BY Zenon DEF NewWorker, Unsubscribed
  <2> QED
    BY <2>1, <2>2, Zenon DEF Once, FirstRun, WinInv
<1>2. HostType /\ HostType' /\ Once /\ WinInv /\ [Next]_vars => Once' /\ WinInv'
  <2> SUFFICES ASSUME HostType, HostType', Once, WinInv, [Next]_vars
               PROVE  Once' /\ WinInv'
    OBVIOUS
  <2>1. CASE UNCHANGED vars
    BY <2>1, Zenon DEF Once, Touched, WinInv, Closes, Done, vars
  <2>2. ASSUME NEW g \in Gen, Work(g) \/ Unblock(g) \/ Live(g) PROVE Once' /\ WinInv'
    BY <2>2, OnceWork, WinWork, WinLive, Zenon
  <2>3. CASE Operate \/ Replay \/ AppendEvent \/ Crash
    BY <2>3, OnceOther, WinOther, Zenon
  <2> QED
    BY <2>1, <2>2, <2>3, Zenon DEF Next
<1>3. Once /\ WinInv => WindowClosed
  <2> SUFFICES ASSUME Once, WinInv, NEW g \in Gen, worker[g].pc = "done",
                      worker[g].next # <<>>, ~worker[g].stop, worker[g].restarts = 0
               PROVE  \A e \in 1..worker[g].from : Done(e)
    BY Zenon DEF WindowClosed
  <2>1. worker[g].catchUp
    BY Zenon DEF Once, FirstRun, Unsubscribed
  <2> QED
    BY <2>1, Zenon DEF WinInv, Closes
<1> QED
  BY <1>1, <1>2, <1>3, HostTypeHolds, PTL DEF Spec

=============================================================================
