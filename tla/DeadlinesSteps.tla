--------------------------- MODULE DeadlinesSteps ---------------------------
(***************************************************************************)
(* What the steps of Deadlines.tla do, for every number of timers,         *)
(* processes, generations and faults: the types, and that the ticks only   *)
(* hold generations that exist (TickInv).  DeadlinesProofs proves the      *)
(* properties from it.                                                     *)
(***************************************************************************)
EXTENDS Deadlines, TLAPS

-----------------------------------------------------------------------------
(* Sequences *)

\* A sequence is a function on the positions up to its length.
LEMMA SeqShape ==
  ASSUME NEW S, NEW s \in Seq(S)
  PROVE  /\ Len(s) \in Nat /\ DOMAIN s = 1..Len(s) /\ s \in [1..Len(s) -> S]
         /\ \A i \in 1..Len(s) : s[i] \in S
OBVIOUS

\* A sequence is empty when its length is zero.
LEMMA EmptyIsNil ==
  ASSUME NEW S, NEW s \in Seq(S)
  PROVE  Len(s) = 0 <=> s = <<>>
OBVIOUS

Busy == {"dispatch", "handle", "mark", "delete"}

\* The handler ran to its end.
Late == {"mark", "delete"}

\* Rows and ticks agree with the generations; a tick that works holds a timer.
TickInv ==
  /\ TypeOK
  /\ \A t \in Timer : row[t].g # 0 => row[t].due = gens[row[t].g].due
  /\ \A p \in Proc : \A i \in 1..Len(sched[p].todo) :
       /\ sched[p].todo[i].g \in 1..Len(gens)
       /\ gens[sched[p].todo[i].g].t = sched[p].todo[i].t
  /\ \A p \in Proc : /\ sched[p].pc \in Busy => sched[p].todo # <<>>
                     /\ sched[p].pc = "idle" => sched[p].todo = <<>>

\* The generations are numbered from 1.
LEMMA GensShape ==
  ASSUME TickInv
  PROVE  /\ gens \in Seq(Generation) /\ Len(gens) \in Nat /\ DOMAIN gens = 1..Len(gens)
         /\ \A g \in 1..Len(gens) : gens[g] \in Generation
BY SeqShape, Zenon DEF TickInv, TypeOK

-----------------------------------------------------------------------------
(* The claims of a Due *)

\* The bounds are numbers.
LEMMA Bounds ==
  /\ Limit \in Nat /\ Limit > 0 /\ MaxRetries \in Nat /\ MaxRetries > 0
  /\ MaxDue \in Nat /\ MaxGen \in Nat /\ MaxFaults \in Nat
BY DeadlinesAssumption

\* A function on 1..n is a sequence.
LEMMA FunctionIsSeq ==
  ASSUME NEW S, NEW n \in Nat, NEW f \in [1..n -> S]
  PROVE  f \in Seq(S) /\ Len(f) = n
<1>1. f \in Seq(S)
  OBVIOUS
<1> QED
  BY <1>1, SeqShape

\* A batch: different timers, all claimable.
LEMMA BatchType ==
  ASSUME TypeOK, NEW p \in Proc, NEW b \in Batches(p)
  PROVE  /\ b \in Seq(Timer) /\ DOMAIN b = 1..Len(b)
         /\ \A i \in 1..Len(b) : b[i] \in Claimable(p)
         /\ \A i, j \in 1..Len(b) : b[i] = b[j] => i = j
<1> DEFINE all == Claimable(p)
<1>1. all \subseteq Timer
  BY Zenon DEF Claimable
<1>2. PICK n \in 0..Limit : b \in [1..n -> all]
  BY Zenon DEF Batches
<1>3. n \in Nat
  BY <1>2, Bounds
<1>4. b \in [1..n -> all] /\ \A i, j \in 1..n : b[i] = b[j] => i = j
  BY <1>2, Zenon DEF Batches
<1> HIDE DEF all
<1>5. b \in Seq(all) /\ Len(b) = n
  BY <1>3, <1>4, FunctionIsSeq, Zenon
<1>6. b \in [1..n -> Timer]
  BY <1>1, <1>4, Zenon
<1>7. b \in Seq(Timer) /\ DOMAIN b = 1..Len(b)
  BY <1>3, <1>5, <1>6, FunctionIsSeq, Zenon
<1> QED
  BY <1>4, <1>5, <1>7, Zenon DEF all

\* What Due returns of a batch: its first timers, with their generations.
LEMMA DecodedType ==
  ASSUME TypeOK, NEW p \in Proc, NEW b \in Batches(p), NEW good \in Decoded(b)
  PROVE  /\ good \in Seq(Claimed) /\ Len(good) <= Len(b) /\ DOMAIN good = 1..Len(good)
         /\ \A i \in 1..Len(good) : good[i].t = b[i] /\ good[i].g = row[b[i]].g
<1>1. PICK m \in 0..Len(b) : good = [i \in 1..m |-> [t |-> b[i], g |-> row[b[i]].g]]
  BY Zenon DEF Decoded
<1>2. b \in Seq(Timer) /\ Len(b) \in Nat /\ \A i \in 1..Len(b) : b[i] \in Claimable(p)
  BY BatchType
<1>3. ASSUME NEW i \in 1..m PROVE [t |-> b[i], g |-> row[b[i]].g] \in Claimed
  <2>1. i \in 1..Len(b)
    BY <1>2
  <2>2. b[i] \in Timer /\ row[b[i]].g # 0 /\ row[b[i]] \in Row
    BY <1>2, <2>1, Zenon DEF Claimable, TypeOK
  <2>3. row[b[i]].g \in 0..MaxGen
    BY <2>2, Zenon DEF Row
  <2>4. row[b[i]].g \in Gen
    BY <2>2, <2>3, Bounds DEF Gen
  <2> QED
    BY <2>2, <2>4, Zenon DEF Claimed
<1>4. m \in Nat /\ m <= Len(b)
  BY <1>2
<1>5. good \in [1..m -> Claimed]
  BY <1>1, <1>3, Zenon
<1>6. good \in Seq(Claimed) /\ Len(good) = m
  BY <1>4, <1>5, FunctionIsSeq, Zenon
<1> QED
  BY <1>1, <1>4, <1>5, <1>6, Zenon

\* The elements of sequence s come first in s \o g, then those of g.
Joined(s, g) ==
  /\ \A i \in 1..Len(s) : (s \o g)[i] = s[i]
  /\ \A i \in 1..Len(g) : (s \o g)[Len(s) + i] = g[i]
  /\ \A k \in 1..Len(s \o g) :
       \/ k \in 1..Len(s)
       \/ \E i \in 1..Len(g) : k = Len(s) + i

\* The todo list after a batch.
LEMMA ConcatHolds ==
  ASSUME NEW S, NEW s \in Seq(S), NEW g \in Seq(S)
  PROVE  Joined(s, g)
<1>1. Len(s) \in Nat /\ Len(g) \in Nat
  OBVIOUS
<1>2. /\ s \o g \in Seq(S) /\ Len(s \o g) = Len(s) + Len(g)
      /\ \A k \in 1..(Len(s) + Len(g)) :
           (s \o g)[k] = IF k <= Len(s) THEN s[k] ELSE g[k - Len(s)]
  OBVIOUS
<1>3. ASSUME NEW i \in 1..Len(s) PROVE (s \o g)[i] = s[i]
  BY <1>1, <1>2
<1>4. ASSUME NEW i \in 1..Len(g) PROVE (s \o g)[Len(s) + i] = g[i]
  <2>1. /\ Len(s) + i \in 1..(Len(s) + Len(g)) /\ ~(Len(s) + i <= Len(s))
        /\ Len(s) + i - Len(s) = i
    BY <1>1
  <2> QED
    BY <1>2, <2>1
<1>5. ASSUME NEW k \in 1..Len(s \o g), k \notin 1..Len(s)
      PROVE  \E i \in 1..Len(g) : k = Len(s) + i
  <2>1. k - Len(s) \in 1..Len(g) /\ k = Len(s) + (k - Len(s))
    BY <1>1, <1>2, <1>5
  <2> QED
    BY <2>1, Zenon
<1> QED
  BY <1>3, <1>4, <1>5, Zenon DEF Joined

-----------------------------------------------------------------------------
(* The kinds of steps *)

\* Nothing the properties speak of changes.
Quiet == UNCHANGED <<row, gens, epochs, sched, seen>>

\* tick gives the timer at its head up, or is done with it.
Skip(p) ==
  /\ sched[p].pc \in Busy /\ sched' = [sched EXCEPT ![p] = NextTimer(sched[p])]
  /\ UNCHANGED <<row, gens, epochs, seen>>

\* It tries it again.
Again(p) ==
  /\ sched[p].pc \in {"dispatch", "handle"} /\ sched[p].tries + 1 < MaxRetries
  /\ sched' = [sched EXCEPT ![p] =
       [sched[p] EXCEPT !.tries = sched[p].tries + 1, !.pc = "dispatch"]]
  /\ UNCHANGED <<row, gens, epochs, seen>>

\* The handler is entered, past the idempotency middleware.
Enter(p) ==
  /\ sched[p].pc = "dispatch"
  /\ sched' = [sched EXCEPT ![p] = [sched[p] EXCEPT !.pc = "handle"]]
  /\ LET g == Head(sched[p].todo).g IN
     \/ g \notin Keyed /\ seen' = seen
     \/ g \in Keyed /\ g \notin seen /\ seen' = seen \cup {g}
  /\ UNCHANGED <<row, gens, epochs>>

\* It runs to its end.
Fire(p) ==
  LET g == Head(sched[p].todo).g IN
  /\ sched[p].pc = "handle"
  /\ sched' = [sched EXCEPT ![p] = [sched[p] EXCEPT !.pc = "mark", !.tries = 0]]
  /\ gens' = [gens EXCEPT ![g] =
       [gens[g] EXCEPT !.fired = IF gens[g].fired = 0 THEN 1 ELSE 2]]
  /\ UNCHANGED <<row, epochs, seen>>

\* MarkFired takes the epoch ...
Mark(p) ==
  LET t == Head(sched[p].todo).t IN
  /\ sched[p].pc = "mark" /\ epochs[p][t] # 0
  /\ epochs' = [epochs EXCEPT ![p] = [epochs[p] EXCEPT ![t] = 0]]
  /\ sched' = [sched EXCEPT ![p] =
       [sched[p] EXCEPT !.pc = "delete", !.epoch = epochs[p][t]]]
  /\ UNCHANGED <<row, gens, seen>>

\* ... and deletes the row.
Remove(p) ==
  LET t == Head(sched[p].todo).t IN
  /\ sched[p].pc = "delete" /\ row[t].g # 0 /\ row[t].due = sched[p].epoch
  /\ row' = [row EXCEPT ![t] = NoRow]
  /\ sched' = [sched EXCEPT ![p] = NextTimer(sched[p])]
  /\ UNCHANGED <<gens, epochs, seen>>

\* Due claims a batch, or ends with what it has.
Take(p, b, good) ==
  /\ sched[p].pc \in {"idle", "due"}
  /\ row' = [t \in Timer |-> IF \E i \in DOMAIN b : b[i] = t
                               THEN [row[t] EXCEPT !.leased = TRUE] ELSE row[t]]
  /\ epochs' = [epochs EXCEPT ![p] = [t \in Timer |->
       IF \E i \in DOMAIN good : good[i].t = t THEN row[t].due ELSE epochs[p][t]]]
  /\ \E y \in Tick :
       /\ y.todo = sched[p].todo \o good /\ y.pc \in {"idle", "due", "dispatch"}
       /\ y.pc \in Busy => y.todo # <<>>
       /\ y.pc = "idle" => y.todo = <<>>
       /\ sched' = [sched EXCEPT ![p] = y]
  /\ gens' = [g \in DOMAIN gens |->
       [gens[g] EXCEPT !.twin = gens[g].twin \/ Twin(p, good, g)]]
  /\ UNCHANGED seen

GiveUp(p) ==
  /\ sched[p].pc \in {"idle", "due"}
  /\ \E y \in Tick :
       /\ y.todo = sched[p].todo /\ y.pc \in {"idle", "dispatch"}
       /\ y.pc \in Busy => y.todo # <<>>
       /\ y.pc = "idle" => y.todo = <<>>
       /\ sched' = [sched EXCEPT ![p] = y]
  /\ UNCHANGED <<row, gens, epochs, seen>>

\* Cancel takes the epoch, and deletes the row that is there.
Forget(p, t) ==
  /\ epochs' = [epochs EXCEPT ![p] = [epochs[p] EXCEPT ![t] = 0]]
  /\ UNCHANGED <<row, gens, sched, seen>>

Withdraw(t) ==
  /\ row' = [row EXCEPT ![t] = NoRow]
  /\ gens' = [g \in DOMAIN gens |->
       IF g = row[t].g THEN [gens[g] EXCEPT !.cancelled = TRUE] ELSE gens[g]]
  /\ UNCHANGED <<epochs, sched, seen>>

Die(p) ==
  /\ sched' = [sched EXCEPT ![p] = Idle]
  /\ epochs' = [epochs EXCEPT ![p] = [t \in Timer |-> 0]]
  /\ UNCHANGED <<row, gens, seen>>

Kind ==
  \/ Quiet \/ \E g \in Gen : Expire(g)
  \/ \E t \in Timer : Lapse(t) \/ Withdraw(t) \/ \E due \in Instant : Schedule(t, due)
  \/ \E p \in Proc :
       \/ Skip(p) \/ Again(p) \/ Enter(p) \/ Fire(p) \/ Mark(p) \/ Remove(p)
       \/ GiveUp(p) \/ Die(p)
       \/ \E t \in Timer : Forget(p, t)
       \/ \E b \in Batches(p) : \E good \in Decoded(b) : Take(p, b, good)

\* What a tick becomes when it goes on to the next timer.
LEMMA NextTimerType ==
  ASSUME NEW x \in Tick, x.todo # <<>>
  PROVE  /\ NextTimer(x) \in Tick /\ NextTimer(x).todo = Tail(x.todo)
         /\ NextTimer(x).pc \in {"idle", "dispatch"}
         /\ NextTimer(x).pc = "dispatch" => Tail(x.todo) # <<>>
         /\ NextTimer(x).pc = "idle" => Tail(x.todo) = <<>>
<1>1. /\ x.todo \in Seq(Claimed) /\ Len(x.todo) \in Nat /\ 0 \in 0..MaxRetries
      /\ 0 \in 0..MaxDue
  BY Bounds DEF Tick
<1>2. Tail(x.todo) \in Seq(Claimed) /\ Len(Tail(x.todo)) = Len(x.todo) - 1
  BY <1>1
<1>3. Len(x.todo) = 1 <=> Tail(x.todo) = <<>>
  <2>1. Tail(x.todo) = <<>> <=> Len(Tail(x.todo)) = 0
    BY <1>2, EmptyIsNil, Zenon
  <2>2. Len(x.todo) = 1 <=> Len(x.todo) - 1 = 0
    BY <1>1
  <2> QED
    BY <1>2, <2>1, <2>2, Zenon
<1>4. /\ NextTimer(x).todo = Tail(x.todo)
      /\ NextTimer(x).pc = IF Len(x.todo) = 1 THEN "idle" ELSE "dispatch"
  BY Zenon DEF NextTimer, Tick
<1>5. NextTimer(x) \in Tick
  <2>1. (IF Len(x.todo) = 1 THEN "idle" ELSE "dispatch") \in {"idle", "dispatch"}
    OBVIOUS
  <2> QED
    BY <1>1, <1>2, <2>1, Zenon DEF NextTimer, Tick
<1> QED
  BY <1>3, <1>4, <1>5, Zenon

\* What a tick becomes when Due returns.
LEMMA GotType ==
  ASSUME NEW x \in Tick
  PROVE  /\ Got(x) \in Tick /\ Got(x).todo = x.todo /\ Got(x).pc \in {"idle", "dispatch"}
         /\ Got(x).pc \in Busy => x.todo # <<>>
         /\ Got(x).pc = "idle" => x.todo = <<>>
<1> DEFINE c == IF x.todo = <<>> THEN "idle" ELSE "dispatch"
<1>1. c \in {"idle", "dispatch"} /\ (c \in Busy => x.todo # <<>>)
      /\ (c = "idle" => x.todo = <<>>)
  BY Zenon DEF Busy
<1>2. 0 \in 0..MaxDue
  BY Bounds
<1> HIDE DEF c
<1>3. Got(x) = [x EXCEPT !.pc = c, !.now = 0]
  BY Zenon DEF Got, c
<1>4. Got(x) \in Tick /\ Got(x).todo = x.todo /\ Got(x).pc = c
  BY <1>1, <1>2, <1>3, Zenon DEF Tick
<1> QED
  BY <1>1, <1>4, Zenon

\* The successful ClaimDue of ClaimDue(p), on one batch.
Claims(p, b, good) ==
  LET x == [sched[p] EXCEPT !.todo = sched[p].todo \o good] IN
  /\ row' = [t \in Timer |-> IF \E i \in DOMAIN b : b[i] = t
                               THEN [row[t] EXCEPT !.leased = TRUE] ELSE row[t]]
  /\ epochs' = [epochs EXCEPT ![p] = [t \in Timer |->
       IF \E i \in DOMAIN good : good[i].t = t THEN row[t].due ELSE epochs[p][t]]]
  /\ sched' = [sched EXCEPT ![p] =
       IF Len(good) < Limit THEN Got(x)
       ELSE [x EXCEPT !.pc = "due", !.now = Now(sched[p])]]
  /\ gens' = [g \in DOMAIN gens |->
       [gens[g] EXCEPT !.twin = gens[g].twin \/ Twin(p, good, g)]]
  /\ UNCHANGED seen

\* Due.
LEMMA TakeKind ==
  ASSUME TickInv, NEW p \in Proc, ClaimDue(p)
  PROVE  GiveUp(p) \/ \E b \in Batches(p) : \E good \in Decoded(b) : Take(p, b, good)
<1>1. sched[p] \in Tick /\ sched[p].pc \in {"idle", "due"}
  BY Zenon DEF ClaimDue, TickInv, TypeOK
<1>2. CASE sched' = [sched EXCEPT ![p] = Got(sched[p])] /\ UNCHANGED <<row, gens, epochs, seen>>
  BY <1>1, <1>2, GotType, Zenon DEF GiveUp
<1>3. ASSUME NEW b \in Batches(p), NEW good \in Decoded(b), Claims(p, b, good)
      PROVE  Take(p, b, good)
  <2> DEFINE x == [sched[p] EXCEPT !.todo = sched[p].todo \o good]
             y == IF Len(good) < Limit THEN Got(x)
                  ELSE [x EXCEPT !.pc = "due", !.now = Now(sched[p])]
  <2>1. good \in Seq(Claimed) /\ sched[p].todo \in Seq(Claimed)
    BY <1>1, DecodedType, Zenon DEF TickInv, Tick
  <2>2. sched[p].todo \o good \in Seq(Claimed)
    BY <2>1
  <2>3. x \in Tick /\ x.todo = sched[p].todo \o good
    BY <1>1, <2>2, Zenon DEF Tick
  <2>4. Now(sched[p]) \in 0..MaxDue
    BY <1>1, Zenon DEF Now, TickInv, TypeOK, Tick
  <2> HIDE DEF x
  <2>5. CASE Len(good) < Limit
    <3>1. y = Got(x)
      BY <2>5, Zenon
    <3> HIDE DEF y
    <3>2. /\ y \in Tick /\ y.todo = sched[p].todo \o good /\ y.pc \in {"idle", "due", "dispatch"}
          /\ (y.pc \in Busy => y.todo # <<>>) /\ (y.pc = "idle" => y.todo = <<>>)
      BY <2>3, <3>1, GotType, Zenon
    <3>3. sched' = [sched EXCEPT ![p] = y]
      BY <1>3, Zenon DEF Claims, x, y
    <3> QED
      BY <1>1, <1>3, <3>2, <3>3, Zenon DEF Take, Claims
  <2>6. CASE ~(Len(good) < Limit)
    <3>1. y = [x EXCEPT !.pc = "due", !.now = Now(sched[p])]
      BY <2>6, Zenon
    <3> HIDE DEF y
    <3>2. y \in Tick /\ y.todo = sched[p].todo \o good /\ y.pc = "due"
      BY <2>3, <2>4, <3>1, Zenon DEF Tick
    <3>3. sched' = [sched EXCEPT ![p] = y]
      BY <1>3 DEF Claims, x, y
    <3>4. "due" \notin Busy
      BY Zenon DEF Busy
    <3> QED
      BY <1>1, <1>3, <3>2, <3>3, <3>4, Zenon DEF Take, Claims
  <2> QED
    BY <2>5, <2>6, Zenon
<1>4. \/ sched' = [sched EXCEPT ![p] = Got(sched[p])] /\ UNCHANGED <<row, gens, epochs, seen>>
      \/ \E b \in Batches(p) : \E good \in Decoded(b) : Claims(p, b, good)
  BY Zenon DEF ClaimDue, Claims, TickInv, TypeOK
<1> QED
  BY <1>2, <1>3, <1>4, Zenon

\* tick, dispatchWithRetry and MarkFired.
LEMMA WorkKind ==
  ASSUME TickInv, NEW p \in Proc, Dispatch(p) \/ Handle(p) \/ MarkFired(p) \/ Delete(p)
  PROVE  Skip(p) \/ Again(p) \/ Enter(p) \/ Fire(p) \/ Mark(p) \/ Remove(p)
<1> DEFINE x == sched[p]
           g == Head(x.todo).g
           t == Head(x.todo).t
<1>1. x \in Tick /\ p \in DOMAIN sched
  BY Zenon DEF TickInv, TypeOK
\* A failed dispatch is tried again or given up.
<1>2. ASSUME x.pc \in {"dispatch", "handle"}, sched' = [sched EXCEPT ![p] = Failed(x)],
             UNCHANGED <<row, gens, epochs, seen>>
      PROVE  Skip(p) \/ Again(p)
  BY <1>2, Zenon DEF Failed, Skip, Again, Busy
<1>3. ASSUME Dispatch(p) PROVE Skip(p) \/ Again(p) \/ Enter(p)
  <2>1. x.pc = "dispatch" /\ UNCHANGED <<row, gens, epochs>>
    BY <1>3, Zenon DEF Dispatch
  <2>2. \/ /\ \/ g \notin Keyed /\ UNCHANGED seen
              \/ g \in Keyed /\ g \notin seen /\ seen' = seen \cup {g}
           /\ sched' = [sched EXCEPT ![p].pc = "handle"]
        \/ sched' = [sched EXCEPT ![p] = NextTimer(x)] /\ UNCHANGED seen
        \/ sched' = [sched EXCEPT ![p] = Failed(x)] /\ UNCHANGED seen
    BY <1>3, Zenon DEF Dispatch
  <2>3. CASE /\ \/ g \notin Keyed /\ UNCHANGED seen
                \/ g \in Keyed /\ g \notin seen /\ seen' = seen \cup {g}
             /\ sched' = [sched EXCEPT ![p].pc = "handle"]
    <3>1. sched' = [sched EXCEPT ![p] = [sched[p] EXCEPT !.pc = "handle"]]
      BY <2>3, Zenon
    <3> QED
      BY <2>1, <2>3, <3>1, Zenon DEF Enter
  <2>4. CASE sched' = [sched EXCEPT ![p] = NextTimer(x)] /\ UNCHANGED seen
    BY <2>1, <2>4, Zenon DEF Skip, Busy
  <2>5. CASE sched' = [sched EXCEPT ![p] = Failed(x)] /\ UNCHANGED seen
    BY <1>2, <2>1, <2>5, Zenon
  <2> QED
    BY <2>2, <2>3, <2>4, <2>5, Zenon
<1>4. ASSUME Handle(p) PROVE Skip(p) \/ Again(p) \/ Fire(p)
  <2>1. x.pc = "handle" /\ UNCHANGED <<row, epochs, seen>>
    BY <1>4, Zenon DEF Handle
  <2>2. \/ /\ gens' = [gens EXCEPT ![g].fired = IF @ = 0 THEN 1 ELSE 2]
           /\ sched' = [sched EXCEPT ![p] = [x EXCEPT !.pc = "mark", !.tries = 0]]
        \/ sched' = [sched EXCEPT ![p] = Failed(x)] /\ UNCHANGED gens
        \/ sched' = [sched EXCEPT ![p] = NextTimer(x)] /\ UNCHANGED gens
    BY <1>4, Zenon DEF Handle
  <2>3. CASE /\ gens' = [gens EXCEPT ![g].fired = IF @ = 0 THEN 1 ELSE 2]
             /\ sched' = [sched EXCEPT ![p] = [x EXCEPT !.pc = "mark", !.tries = 0]]
    BY <2>1, <2>3, Zenon DEF Fire
  <2>4. CASE sched' = [sched EXCEPT ![p] = Failed(x)] /\ UNCHANGED gens
    BY <1>2, <2>1, <2>4, Zenon
  <2>5. CASE sched' = [sched EXCEPT ![p] = NextTimer(x)] /\ UNCHANGED gens
    BY <2>1, <2>5, Zenon DEF Skip, Busy
  <2> QED
    BY <2>2, <2>3, <2>4, <2>5, Zenon
<1>5. ASSUME MarkFired(p) PROVE Skip(p) \/ Mark(p)
  <2>1. x.pc = "mark" /\ UNCHANGED <<row, gens, seen>>
    BY <1>5, Zenon DEF MarkFired
  <2>2. CASE epochs[p][t] = 0
    <3>1. epochs' = [epochs EXCEPT ![p][t] = 0] /\ sched' = [sched EXCEPT ![p] = NextTimer(x)]
      BY <1>5, <2>2, Zenon DEF MarkFired
    <3>2. epochs \in [Proc -> [Timer -> 0..MaxDue]]
      BY Zenon DEF TickInv, TypeOK
    <3>3. [epochs[p] EXCEPT ![t] = 0] = epochs[p]
      BY <2>2, <3>2, Zenon
    <3>4. epochs' = epochs
      BY <3>1, <3>2, <3>3, Zenon
    <3> QED
      BY <2>1, <3>1, <3>4, Zenon DEF Skip, Busy
  <2>3. CASE epochs[p][t] # 0
    <3>1. /\ epochs' = [epochs EXCEPT ![p][t] = 0]
          /\ sched' = [sched EXCEPT ![p] = [x EXCEPT !.pc = "delete", !.epoch = epochs[p][t]]]
      BY <1>5, <2>3, Zenon DEF MarkFired
    <3> QED
      BY <2>1, <2>3, <3>1, Zenon DEF Mark
  <2> QED
    BY <2>2, <2>3, Zenon
<1>6. ASSUME Delete(p) PROVE Skip(p) \/ Remove(p)
  <2>1. x.pc = "delete" /\ UNCHANGED <<gens, epochs, seen>>
        /\ sched' = [sched EXCEPT ![p] = NextTimer(x)]
    BY <1>6, Zenon DEF Delete
  <2>2. \/ UNCHANGED row
        \/ row[t].g # 0 /\ row[t].due = x.epoch /\ row' = [row EXCEPT ![t] = NoRow]
    BY <1>6, Zenon DEF Delete, Stale
  <2> QED
    BY <2>1, <2>2, Zenon DEF Skip, Remove, Busy
<1> QED
  BY <1>3, <1>4, <1>5, <1>6, Zenon

\* Every step is of one of the kinds.
LEMMA StepKinds ==
  ASSUME TickInv, [Next]_vars
  PROVE  Kind
<1>1. ASSUME NEW t \in Timer, Lapse(t) \/ \E due \in Instant : Schedule(t, due) PROVE Kind
  BY <1>1, Zenon DEF Kind
<1>2. ASSUME NEW p \in Proc, Scheduler(p) PROVE Kind
  BY <1>2, TakeKind, WorkKind, Zenon DEF Scheduler, Kind
<1>3. ASSUME NEW p \in Proc, Crash(p) PROVE Kind
  BY <1>3, Zenon DEF Crash, Die, Kind
<1>4. ASSUME NEW p \in Proc, CancelDelete(p) PROVE Kind
  <2>1. cancel[p] \in Timer
    BY <1>4, Zenon DEF CancelDelete, TickInv, TypeOK
  <2>2. Quiet \/ Withdraw(cancel[p])
    BY <1>4, Zenon DEF CancelDelete, Quiet, Withdraw
  <2> QED
    BY <2>1, <2>2, Zenon DEF Kind
<1>5. ASSUME NEW p \in Proc, NEW t \in Timer, Cancel(p, t) PROVE Kind
  <2>1. epochs \in [Proc -> [Timer -> 0..MaxDue]]
    BY Zenon DEF TickInv, TypeOK
  <2>2. Forget(p, t)
    BY <1>5, <2>1, Zenon DEF Cancel, Forget
  <2> QED
    BY <2>2, Zenon DEF Kind
<1>6. CASE Clock \/ UNCHANGED vars
  BY <1>6, Zenon DEF Clock, vars, Quiet, Kind
<1>7. ASSUME NEW g \in Gen, Expire(g) PROVE Kind
  BY <1>7, Zenon DEF Kind
<1> QED
  BY <1>1, <1>2, <1>3, <1>4, <1>5, <1>6, <1>7, Zenon DEF Next

-----------------------------------------------------------------------------
(* The generations *)

\* What no step takes back from a generation.
Keeps(a, b) ==
  /\ b.t = a.t /\ b.due = a.due /\ a.fired <= b.fired
  /\ a.cancelled => b.cancelled
  /\ a.lapsed => b.lapsed
  /\ a.expired => b.expired
  /\ a.twin => b.twin

GensKept ==
  /\ gens' \in Seq(Generation) /\ Len(gens) <= Len(gens')
  /\ \A g \in 1..Len(gens) : Keeps(gens[g], gens'[g])

\* The generations stay the same in number.
LEMMA SameGens ==
  ASSUME TypeOK, gens' = [g \in DOMAIN gens |-> gens'[g]],
         \A g \in 1..Len(gens) : gens'[g] \in Generation /\ Keeps(gens[g], gens'[g])
  PROVE  GensKept /\ Len(gens') = Len(gens)
<1>1. Len(gens) \in Nat /\ DOMAIN gens = 1..Len(gens)
  BY SeqShape, Zenon DEF TypeOK
<1>2. gens' \in [1..Len(gens) -> Generation]
  BY <1>1, Zenon
<1>3. gens' \in Seq(Generation) /\ Len(gens') = Len(gens)
  BY <1>1, <1>2, FunctionIsSeq, Zenon
<1> QED
  BY <1>1, <1>3 DEF GensKept

\* A generation is kept by doing nothing to it.
LEMMA KeepsSelf ==
  ASSUME NEW a \in Generation PROVE Keeps(a, a)
<1>1. a.fired \in 0..2
  BY Zenon DEF Generation
<1>2. a.fired <= a.fired
  BY <1>1
<1> QED
  BY <1>2, Zenon DEF Keeps

\* The head of a todo list.
LEMMA HeadHeld ==
  ASSUME TickInv, NEW p \in Proc, sched[p].pc \in Busy
  PROVE  /\ sched[p] \in Tick /\ sched[p].todo \in Seq(Claimed) /\ sched[p].todo # <<>>
         /\ 1 \in 1..Len(sched[p].todo) /\ Head(sched[p].todo) = sched[p].todo[1]
         /\ Head(sched[p].todo) \in Claimed
         /\ Head(sched[p].todo).g \in 1..Len(gens) /\ Head(sched[p].todo).g \in Gen
         /\ Head(sched[p].todo).t \in Timer
         /\ gens[Head(sched[p].todo).g].t = Head(sched[p].todo).t
<1>1. sched[p] \in Tick /\ sched[p].todo # <<>>
  BY Zenon DEF TickInv, TypeOK
<1>2. sched[p].todo \in Seq(Claimed)
  BY <1>1, Zenon DEF Tick
<1>3. Len(sched[p].todo) \in Nat \ {0}
  BY <1>1, <1>2
<1>4. 1 \in 1..Len(sched[p].todo)
  BY <1>3
<1>5. Head(sched[p].todo) = sched[p].todo[1]
  BY <1>2
<1>6. Head(sched[p].todo) \in Claimed
  BY <1>2, <1>4, <1>5, SeqShape
<1>7. Head(sched[p].todo).g \in Gen /\ Head(sched[p].todo).t \in Timer
  BY <1>6, Zenon DEF Claimed
<1>8. /\ sched[p].todo[1].g \in 1..Len(gens)
      /\ gens[sched[p].todo[1].g].t = sched[p].todo[1].t
  BY <1>4, Zenon DEF TickInv
<1> QED
  BY <1>1, <1>2, <1>4, <1>5, <1>6, <1>7, <1>8, Zenon

\* No step takes anything back from a generation.
LEMMA GensStep ==
  ASSUME TickInv, Kind
  PROVE  GensKept
<1>0. /\ TypeOK /\ gens \in Seq(Generation) /\ Len(gens) \in Nat
      /\ gens = [g \in DOMAIN gens |-> gens[g]] /\ DOMAIN gens = 1..Len(gens)
      /\ \A g \in 1..Len(gens) : gens[g] \in Generation
  BY SeqShape, Zenon DEF TickInv, TypeOK
<1>1. CASE UNCHANGED gens
  BY <1>0, <1>1, KeepsSelf DEF GensKept
\* One generation changes.
<1>2. ASSUME NEW k, NEW e, gens' = [gens EXCEPT ![k] = e],
             k \in 1..Len(gens) => e \in Generation /\ Keeps(gens[k], e)
      PROVE  GensKept
  <2>1. \A g \in 1..Len(gens) : gens'[g] = IF g = k THEN e ELSE gens[g]
    BY <1>0, <1>2, Zenon
  <2>2. gens' = [g \in DOMAIN gens |-> gens'[g]]
    BY <1>0, <1>2, Zenon
  <2>3. \A g \in 1..Len(gens) : gens'[g] \in Generation /\ Keeps(gens[g], gens'[g])
    BY <1>0, <1>2, <2>1, KeepsSelf, Zenon
  <2> QED
    BY <1>0, <2>2, <2>3, SameGens, Zenon
<1>3. ASSUME NEW t \in Timer, NEW due \in Instant, Schedule(t, due) PROVE GensKept
  <2> DEFINE e == [t |-> t, due |-> due, fired |-> 0, cancelled |-> FALSE,
                   lapsed |-> FALSE, expired |-> FALSE, twin |-> FALSE]
  <2>1. e \in Generation
    BY DEF Generation
  <2>2. gens' = Append(gens, e)
    BY <1>3, Zenon DEF Schedule
  <2> HIDE DEF e
  <2>3. /\ gens' \in Seq(Generation) /\ Len(gens') = Len(gens) + 1
        /\ \A g \in 1..Len(gens) : gens'[g] = gens[g]
    BY <1>0, <2>1, <2>2
  <2>4. Len(gens) <= Len(gens')
    BY <1>0, <2>3
  <2> QED
    BY <1>0, <2>3, <2>4, KeepsSelf, Zenon DEF GensKept
<1>4. ASSUME NEW t \in Timer, Lapse(t) PROVE GensKept
  <2> DEFINE k == row[t].g
             e == [gens[k] EXCEPT !.lapsed = TRUE]
  <2>1. gens' = [gens EXCEPT ![k] = e]
    BY <1>4, Zenon DEF Lapse
  <2>2. ASSUME k \in 1..Len(gens) PROVE e \in Generation /\ Keeps(gens[k], e)
    <3>1. gens[k] \in Generation
      BY <1>0, <2>2, Zenon
    <3>2. /\ e \in Generation /\ e.t = gens[k].t /\ e.due = gens[k].due
          /\ e.fired = gens[k].fired /\ e.cancelled = gens[k].cancelled /\ e.lapsed
          /\ e.expired = gens[k].expired /\ e.twin = gens[k].twin
      BY <3>1, Zenon DEF Generation
    <3> QED
      BY <3>1, <3>2, KeepsSelf, Zenon DEF Keeps
  <2> QED
    BY <1>2, <2>1, <2>2, Zenon
<1>5. ASSUME NEW p \in Proc, Fire(p) PROVE GensKept
  <2> DEFINE k == Head(sched[p].todo).g
             n == IF gens[k].fired = 0 THEN 1 ELSE 2
             e == [gens[k] EXCEPT !.fired = n]
  <2>1. gens' = [gens EXCEPT ![k] = e]
    BY <1>5, Zenon DEF Fire
  <2>2. k \in 1..Len(gens)
    BY <1>5, HeadHeld, Zenon DEF Fire, Busy
  <2>3. gens[k] \in Generation
    BY <1>0, <2>2, Zenon
  <2>4. gens[k].fired \in 0..2
    BY <2>3, Zenon DEF Generation
  <2>5. n \in 0..2 /\ gens[k].fired <= n
    BY <2>4, SMTT(30)
  <2> HIDE DEF n
  <2>6. /\ e \in Generation /\ e.t = gens[k].t /\ e.due = gens[k].due
        /\ e.fired = n /\ e.cancelled = gens[k].cancelled /\ e.lapsed = gens[k].lapsed
        /\ e.expired = gens[k].expired /\ e.twin = gens[k].twin
    BY <2>3, <2>5, Zenon DEF Generation
  <2>7. Keeps(gens[k], e)
    BY <2>5, <2>6, Zenon DEF Keeps
  <2> QED
    BY <1>2, <2>1, <2>6, <2>7, Zenon
<1>6. ASSUME NEW t \in Timer, Withdraw(t) PROVE GensKept
  <2>1. gens' = [g \in DOMAIN gens |->
          IF g = row[t].g THEN [gens[g] EXCEPT !.cancelled = TRUE] ELSE gens[g]]
    BY <1>6, Zenon DEF Withdraw
  <2>2. ASSUME NEW g \in 1..Len(gens)
        PROVE  gens'[g] \in Generation /\ Keeps(gens[g], gens'[g])
    <3> DEFINE e == [gens[g] EXCEPT !.cancelled = TRUE]
    <3>1. gens[g] \in Generation /\ (gens'[g] = e \/ gens'[g] = gens[g])
      BY <1>0, <2>1, Zenon
    <3>2. /\ e \in Generation /\ e.t = gens[g].t /\ e.due = gens[g].due
          /\ e.fired = gens[g].fired /\ e.cancelled /\ e.lapsed = gens[g].lapsed
          /\ e.expired = gens[g].expired /\ e.twin = gens[g].twin
      BY <3>1, Zenon DEF Generation
    <3>3. Keeps(gens[g], e)
      BY <3>1, <3>2, KeepsSelf, Zenon DEF Keeps
    <3> QED
      BY <3>1, <3>2, <3>3, KeepsSelf, Zenon
  <2>3. gens' = [g \in DOMAIN gens |-> gens'[g]]
    BY <2>1, Zenon
  <2> QED
    BY <1>0, <2>2, <2>3, SameGens, Zenon
<1>7. ASSUME NEW p \in Proc, NEW b \in Batches(p), NEW good \in Decoded(b), Take(p, b, good)
      PROVE  GensKept
  <2>1. gens' = [g \in DOMAIN gens |->
          [gens[g] EXCEPT !.twin = gens[g].twin \/ Twin(p, good, g)]]
    BY <1>7, Zenon DEF Take
  <2>2. ASSUME NEW g \in 1..Len(gens)
        PROVE  gens'[g] \in Generation /\ Keeps(gens[g], gens'[g])
    <3> DEFINE v == gens[g].twin \/ Twin(p, good, g)
               e == [gens[g] EXCEPT !.twin = v]
    <3>1. gens[g] \in Generation /\ gens'[g] = e
      BY <1>0, <2>1, Zenon
    <3>2. v \in BOOLEAN /\ (gens[g].twin => v)
      OBVIOUS
    <3> HIDE DEF v
    <3>3. /\ e \in Generation /\ e.t = gens[g].t /\ e.due = gens[g].due
          /\ e.fired = gens[g].fired /\ e.cancelled = gens[g].cancelled
          /\ e.lapsed = gens[g].lapsed /\ e.expired = gens[g].expired /\ e.twin = v
      BY <3>1, <3>2, Zenon DEF Generation
    <3>4. Keeps(gens[g], e)
      BY <3>1, <3>2, <3>3, KeepsSelf, Zenon DEF Keeps
    <3> QED
      BY <3>1, <3>3, <3>4, Zenon
  <2>3. gens' = [g \in DOMAIN gens |-> gens'[g]]
    BY <2>1, Zenon
  <2> QED
    BY <1>0, <2>2, <2>3, SameGens, Zenon
<1>8. ASSUME NEW k \in Gen, Expire(k) PROVE GensKept
  <2> DEFINE e == [gens[k] EXCEPT !.expired = TRUE]
  <2>1. gens' = [gens EXCEPT ![k] = e]
    BY <1>8, Zenon DEF Expire
  <2>2. ASSUME k \in 1..Len(gens) PROVE e \in Generation /\ Keeps(gens[k], e)
    <3>1. gens[k] \in Generation
      BY <1>0, <2>2, Zenon
    <3>2. /\ e \in Generation /\ e.t = gens[k].t /\ e.due = gens[k].due
          /\ e.fired = gens[k].fired /\ e.cancelled = gens[k].cancelled
          /\ e.lapsed = gens[k].lapsed /\ e.expired /\ e.twin = gens[k].twin
      BY <3>1, Zenon DEF Generation
    <3> QED
      BY <3>1, <3>2, KeepsSelf, Zenon DEF Keeps
  <2> QED
    BY <1>2, <2>1, <2>2, Zenon
<1> QED
  BY <1>1, <1>3, <1>4, <1>5, <1>6, <1>7, <1>8, Zenon
     DEF Kind, Quiet, Skip, Again, Enter, Mark, Remove, GiveUp, Die, Forget

-----------------------------------------------------------------------------
(* The ticks *)

Taken(p) == \E b \in Batches(p) : \E good \in Decoded(b) : Take(p, b, good)

\* How the tick of p may change.
TickStep(p) ==
  /\ sched'[p] \in Tick
  /\ sched'[p].pc \in Busy => sched'[p].todo # <<>>
  /\ sched'[p].pc = "idle" => sched'[p].todo = <<>>
  /\ \/ /\ sched'[p].todo = sched[p].todo
        /\ sched[p].pc \in Late => sched'[p].pc \in Late
     \/ /\ sched[p].pc \in Busy /\ sched'[p].pc \in {"idle", "dispatch"}
        /\ sched'[p].todo = Tail(sched[p].todo)
     \/ sched'[p].pc = "idle"
     \/ Taken(p)

\* One process at most moves in a step.
LEMMA SchedStep ==
  ASSUME TickInv, Kind
  PROVE  sched' \in [Proc -> Tick] /\ \A p \in Proc : TickStep(p)
<1>0. /\ sched \in [Proc -> Tick]
      /\ \A p \in Proc : /\ sched[p] \in Tick
                         /\ sched[p].pc \in Busy => sched[p].todo # <<>>
                         /\ sched[p].pc = "idle" => sched[p].todo = <<>>
  BY Zenon DEF TickInv, TypeOK
<1>1. CASE UNCHANGED sched
  BY <1>0, <1>1, Zenon DEF TickStep
<1>2. ASSUME NEW p \in Proc, NEW y \in Tick, sched' = [sched EXCEPT ![p] = y],
             y.pc \in Busy => y.todo # <<>>,
             y.pc = "idle" => y.todo = <<>>,
             \/ y.todo = sched[p].todo /\ (sched[p].pc \in Late => y.pc \in Late)
             \/ /\ sched[p].pc \in Busy /\ y.pc \in {"idle", "dispatch"}
                /\ y.todo = Tail(sched[p].todo)
             \/ y.pc = "idle"
             \/ Taken(p)
      PROVE  sched' \in [Proc -> Tick] /\ \A q \in Proc : TickStep(q)
  <2>1. sched' \in [Proc -> Tick]
    BY <1>0, <1>2, Zenon
  <2>2. ASSUME NEW q \in Proc PROVE TickStep(q)
    <3>1. CASE q = p
      <4>1. sched'[q] = y
        BY <1>0, <1>2, <3>1, Zenon
      <4> QED
        BY <1>2, <3>1, <4>1, Zenon DEF TickStep
    <3>2. CASE q # p
      <4>1. sched'[q] = sched[q]
        BY <1>0, <1>2, <3>2, Zenon
      <4> QED
        BY <1>0, <4>1 DEF TickStep
    <3> QED
      BY <3>1, <3>2, Zenon
  <2> QED
    BY <2>1, <2>2, Zenon
\* The next timer.
<1>3. ASSUME NEW p \in Proc, sched[p].pc \in Busy,
             sched' = [sched EXCEPT ![p] = NextTimer(sched[p])]
      PROVE  sched' \in [Proc -> Tick] /\ \A q \in Proc : TickStep(q)
  <2> DEFINE y == NextTimer(sched[p])
  <2>1. /\ y \in Tick /\ y.todo = Tail(sched[p].todo) /\ y.pc \in {"idle", "dispatch"}
        /\ (y.pc = "dispatch" => y.todo # <<>>) /\ (y.pc = "idle" => y.todo = <<>>)
    BY <1>0, <1>3, NextTimerType, Zenon
  <2>2. y.pc \in Busy => y.todo # <<>>
    BY <2>1, Zenon DEF Busy
  <2> HIDE DEF y
  <2>3. sched' = [sched EXCEPT ![p] = y]
    BY <1>3, Zenon DEF y
  <2> QED
    BY <1>2, <1>3, <2>1, <2>2, <2>3, Zenon
\* The same timer, at another point.
<1>4. ASSUME NEW p \in Proc, NEW y \in Tick, sched[p].pc \in Busy, y.todo = sched[p].todo,
             y.pc # "idle", sched[p].pc \in Late => y.pc \in Late,
             sched' = [sched EXCEPT ![p] = y]
      PROVE  sched' \in [Proc -> Tick] /\ \A q \in Proc : TickStep(q)
  BY <1>0, <1>2, <1>4, Zenon
<1>5. ASSUME NEW p \in Proc, Skip(p) \/ Remove(p)
      PROVE  sched' \in [Proc -> Tick] /\ \A q \in Proc : TickStep(q)
  BY <1>3, <1>5, Zenon DEF Skip, Remove, Busy
<1>6. ASSUME NEW p \in Proc, Again(p)
      PROVE  sched' \in [Proc -> Tick] /\ \A q \in Proc : TickStep(q)
  <2> DEFINE y == [sched[p] EXCEPT !.tries = sched[p].tries + 1, !.pc = "dispatch"]
  <2>1. sched[p].tries \in 0..MaxRetries /\ sched[p].tries + 1 < MaxRetries
    BY <1>0, <1>6, Zenon DEF Again, Tick
  <2>2. sched[p].tries + 1 \in 0..MaxRetries
    BY <2>1, Bounds
  <2>3. y \in Tick /\ y.todo = sched[p].todo /\ y.pc = "dispatch"
    BY <1>0, <2>2, Zenon DEF Tick
  <2> HIDE DEF y
  <2>4. sched' = [sched EXCEPT ![p] = y] /\ sched[p].pc \in Busy
    BY <1>6, Zenon DEF Again, Busy, y
  <2>5. sched[p].pc \notin Late
    BY <1>6, Zenon DEF Again, Late
  <2> QED
    BY <1>4, <2>3, <2>4, <2>5, Zenon
<1>7. ASSUME NEW p \in Proc, Enter(p) \/ Fire(p)
      PROVE  sched' \in [Proc -> Tick] /\ \A q \in Proc : TickStep(q)
  <2> DEFINE in == [sched[p] EXCEPT !.pc = "handle"]
             out == [sched[p] EXCEPT !.pc = "mark", !.tries = 0]
  <2>1. 0 \in 0..MaxRetries
    BY Bounds
  <2>2. \A y \in {in, out} : y \in Tick /\ y.todo = sched[p].todo /\ y.pc # "idle"
    BY <1>0, <2>1, Zenon DEF Tick
  <2>3. sched[p].pc \in Busy /\ \E y \in {in, out} : sched' = [sched EXCEPT ![p] = y]
    BY <1>7, Zenon DEF Enter, Fire, Busy
  <2> HIDE DEF in, out
  <2>4. PICK y \in {in, out} : sched' = [sched EXCEPT ![p] = y]
    BY <2>3, Zenon
  <2>5. sched[p].pc \notin Late
    BY <1>7, Zenon DEF Enter, Fire, Late
  <2> QED
    BY <1>4, <2>2, <2>3, <2>4, <2>5, Zenon
<1>8. ASSUME NEW p \in Proc, Mark(p)
      PROVE  sched' \in [Proc -> Tick] /\ \A q \in Proc : TickStep(q)
  <2> DEFINE e == epochs[p][Head(sched[p].todo).t]
             y == [sched[p] EXCEPT !.pc = "delete", !.epoch = e]
  <2>1. Head(sched[p].todo).t \in Timer /\ sched[p].pc \in Busy
    BY <1>8, HeadHeld, Zenon DEF Mark, Busy
  <2>2. e \in 0..MaxDue
    BY <2>1, ZenonT(40) DEF TickInv, TypeOK
  <2> HIDE DEF e
  <2>3. y \in Tick /\ y.todo = sched[p].todo /\ y.pc # "idle" /\ y.pc \in Late
    BY <1>0, <2>2, Zenon DEF Tick, Late
  <2> HIDE DEF y
  <2>4. sched' = [sched EXCEPT ![p] = y]
    BY <1>8, Zenon DEF Mark, y, e
  <2> QED
    BY <1>4, <2>1, <2>3, <2>4, Zenon
<1>9. ASSUME NEW p \in Proc, GiveUp(p)
      PROVE  sched' \in [Proc -> Tick] /\ \A q \in Proc : TickStep(q)
  BY <1>2, <1>9, Zenon DEF GiveUp, Late
<1>10. ASSUME NEW p \in Proc, Taken(p)
       PROVE  sched' \in [Proc -> Tick] /\ \A q \in Proc : TickStep(q)
  <2>1. \E y \in Tick :
          /\ y.pc \in Busy => y.todo # <<>>
          /\ y.pc = "idle" => y.todo = <<>>
          /\ sched' = [sched EXCEPT ![p] = y]
    BY <1>10, Zenon DEF Taken, Take
  <2> QED
    BY <1>2, <1>10, <2>1, Zenon
<1>11. ASSUME NEW p \in Proc, Die(p)
       PROVE  sched' \in [Proc -> Tick] /\ \A q \in Proc : TickStep(q)
  <2>1. Idle \in Tick
    BY Bounds DEF Idle, Tick
  <2>2. Idle.pc = "idle" /\ Idle.todo = <<>> /\ "idle" \notin Busy
    BY Zenon DEF Idle, Busy
  <2>3. sched' = [sched EXCEPT ![p] = Idle]
    BY <1>11, Zenon DEF Die
  <2> QED
    BY <1>2, <2>1, <2>2, <2>3, Zenon
<1>12. ASSUME NEW t \in Timer, Lapse(t) \/ Withdraw(t) \/ \E due \in Instant : Schedule(t, due)
       PROVE  UNCHANGED sched
  BY <1>12, Zenon DEF Lapse, Withdraw, Schedule
<1>13. ASSUME NEW p \in Proc, NEW t \in Timer, Forget(p, t)
       PROVE  UNCHANGED sched
  BY <1>13, Zenon DEF Forget
<1>14. ASSUME NEW g \in Gen, Expire(g) PROVE UNCHANGED sched
  BY <1>14, Zenon DEF Expire
<1> QED
  BY <1>1, <1>5, <1>6, <1>7, <1>8, <1>9, <1>10, <1>11, <1>12, <1>13, <1>14, Zenon
     DEF Kind, Quiet, Taken

\* Position i of the todo list after a step: what it held, what the next one
\* held, or a timer of the batch good.
Stays(p, i) == i \in 1..Len(sched[p].todo) /\ sched'[p].todo[i] = sched[p].todo[i]

Shifts(p, i) == i + 1 \in 1..Len(sched[p].todo) /\ sched'[p].todo[i] = sched[p].todo[i + 1]

Joins(p, i, good) ==
  \E j \in 1..Len(good) : i = Len(sched[p].todo) + j /\ sched'[p].todo[i] = good[j]

\* The todo list after a step: what it was, its tail, or it and the timers of a
\* batch.
LEMMA TodoStep ==
  ASSUME TickInv, Kind, NEW p \in Proc
  PROVE  \/ /\ sched[p].pc \in Late => sched'[p].pc \in Late
            /\ \A i \in 1..Len(sched'[p].todo) : Stays(p, i)
         \/ /\ sched[p].pc \in Busy /\ sched'[p].pc \in {"idle", "dispatch"}
            /\ \A i \in 1..Len(sched'[p].todo) : Shifts(p, i)
         \/ \E b \in Batches(p) : \E good \in Decoded(b) :
              /\ Take(p, b, good)
              /\ \A i \in 1..Len(sched'[p].todo) : Stays(p, i) \/ Joins(p, i, good)
<1>0. sched \in [Proc -> Tick] /\ sched[p] \in Tick /\ sched[p].todo \in Seq(Claimed)
  BY Zenon DEF TickInv, TypeOK, Tick
<1>1. TickStep(p)
  BY SchedStep, Zenon
<1>2. CASE sched'[p].todo = sched[p].todo /\ (sched[p].pc \in Late => sched'[p].pc \in Late)
  BY <1>2, Zenon DEF Stays
<1>3. CASE /\ sched[p].pc \in Busy /\ sched'[p].pc \in {"idle", "dispatch"}
           /\ sched'[p].todo = Tail(sched[p].todo)
  <2>1. sched[p].todo # <<>>
    BY <1>3, Zenon DEF TickInv
  <2>2. /\ Len(sched[p].todo) \in Nat /\ Len(Tail(sched[p].todo)) = Len(sched[p].todo) - 1
        /\ \A k \in 1..Len(Tail(sched[p].todo)) : Tail(sched[p].todo)[k] = sched[p].todo[k + 1]
    BY <1>0, <2>1
  <2>3. \A i \in 1..Len(sched'[p].todo) : i + 1 \in 1..Len(sched[p].todo)
    BY <1>3, <2>2
  <2> QED
    BY <1>3, <2>2, <2>3, Zenon DEF Shifts
<1>4. CASE sched'[p].pc = "idle"
  <2>1. sched'[p].todo = <<>> /\ Len(sched'[p].todo) = 0
    BY <1>1, <1>4, Zenon DEF TickStep
  <2>2. sched[p].pc \notin Late \/ sched[p].pc \in Busy
    BY Zenon DEF Late, Busy
  <2> QED
    BY <1>4, <2>1, <2>2
<1>5. CASE Taken(p)
  <2>0. PICK b \in Batches(p) : \E good \in Decoded(b) : Take(p, b, good)
    BY <1>5, Zenon DEF Taken
  <2>1. PICK good \in Decoded(b) : Take(p, b, good)
    BY <2>0, Zenon
  <2>2. sched'[p].todo = sched[p].todo \o good
    BY <1>0, <2>1, Zenon DEF Take
  <2>3. good \in Seq(Claimed)
    BY DecodedType, Zenon DEF TickInv
  <2>4. \A i \in 1..Len(sched'[p].todo) :
          Stays(p, i) \/ Joins(p, i, good)
    <3>1. sched[p].todo \in Seq(Claimed)
      BY <1>0, Zenon
    <3>2. Joined(sched[p].todo, good)
      BY <2>3, <3>1, ConcatHolds, Zenon
    <3>3. TAKE i \in 1..Len(sched'[p].todo)
    <3>4. CASE i \in 1..Len(sched[p].todo)
      BY <2>2, <3>2, <3>4, Zenon DEF Joined, Stays
    <3>5. CASE \E j \in 1..Len(good) : i = Len(sched[p].todo) + j
      BY <2>2, <3>2, <3>5, Zenon DEF Joined, Joins
    <3>6. i \in 1..Len(sched[p].todo \o good)
      BY <2>2, Zenon
    <3> QED
      BY <3>2, <3>4, <3>5, <3>6, Zenon DEF Joined
  <2> QED
    BY <2>1, <2>4, Zenon
<1> QED
  BY <1>1, <1>2, <1>3, <1>4, <1>5, Zenon DEF TickStep

\* What a tick holds it held before, or the step claimed it.
LEMMA TodoOrigin ==
  ASSUME TickInv, Kind, NEW p \in Proc, NEW i \in 1..Len(sched'[p].todo)
  PROVE  \/ Stays(p, i) /\ (sched[p].pc \in Late => sched'[p].pc \in Late)
         \/ /\ sched[p].pc \in Busy /\ sched'[p].pc \in {"idle", "dispatch"}
            /\ Shifts(p, i)
         \/ \E b \in Batches(p) : \E good \in Decoded(b) :
              Take(p, b, good) /\ Joins(p, i, good)
<1>1. ASSUME NEW b, NEW good, Take(p, b, good) PROVE sched[p].pc \notin Late
  BY <1>1, Zenon DEF Take, Late
<1> QED
  BY <1>1, TodoStep, Zenon

\* What a batch claims: rows that were not leased, of generations that exist
\* and that the tick does not hold yet.
LEMMA TakenRow ==
  ASSUME TickInv, NEW p \in Proc, NEW b \in Batches(p), NEW good \in Decoded(b),
         NEW j \in 1..Len(good)
  PROVE  /\ good[j].t \in Timer /\ good[j].t = b[j] /\ good[j].g = row[good[j].t].g
         /\ good[j].g \in 1..Len(gens) /\ gens[good[j].g].t = good[j].t
         /\ gens[good[j].g].due = row[good[j].t].due
         /\ ~row[good[j].t].leased
         /\ \A k \in 1..Len(sched[p].todo) : sched[p].todo[k].g # good[j].g
         /\ \A k \in 1..Len(good) : good[k].g = good[j].g => k = j
         /\ \E k \in DOMAIN b : b[k] = good[j].t
<1>1. /\ good \in Seq(Claimed) /\ Len(good) <= Len(b) /\ Len(good) \in Nat /\ Len(b) \in Nat
      /\ \A i \in 1..Len(good) : good[i].t = b[i] /\ good[i].g = row[b[i]].g
  BY DecodedType, BatchType, SMTT(30) DEF TickInv
<1>2. /\ \A i \in 1..Len(b) : b[i] \in Claimable(p)
      /\ \A i, k \in 1..Len(b) : b[i] = b[k] => i = k
      /\ DOMAIN b = 1..Len(b)
  BY BatchType, Zenon DEF TickInv
<1>3. \A i \in 1..Len(good) : i \in 1..Len(b)
  BY <1>1
<1>4. ASSUME NEW k \in 1..Len(good)
      PROVE  /\ b[k] \in Timer /\ row[b[k]].g # 0 /\ ~row[b[k]].leased
             /\ \A i \in 1..Len(sched[p].todo) : sched[p].todo[i].g # row[b[k]].g
             /\ row[b[k]].g \in 1..Len(gens) /\ gens[row[b[k]].g].t = b[k]
             /\ gens[row[b[k]].g].due = row[b[k]].due
  <2>1. /\ b[k] \in Timer /\ row[b[k]].g # 0 /\ ~row[b[k]].leased
        /\ \A i \in 1..Len(sched[p].todo) : sched[p].todo[i].g # row[b[k]].g
    BY <1>2, <1>3, Zenon DEF Claimable
  <2>2. row[b[k]] \in Row
    BY <2>1, Zenon DEF TickInv, TypeOK
  <2>3. row[b[k]].g \in 0..MaxGen
    BY <2>2, Zenon DEF Row
  <2>4. row[b[k]].g <= Len(gens) /\ gens[row[b[k]].g].t = b[k] /\ Len(gens) \in Nat
    BY <2>1, SeqShape, Zenon DEF TickInv, TypeOK
  <2>5. row[b[k]].g \in 1..Len(gens)
    BY <2>1, <2>3, <2>4, Bounds, SMTT(30)
  <2>6. gens[row[b[k]].g].due = row[b[k]].due
    BY <2>1, Zenon DEF TickInv
  <2> QED
    BY <2>1, <2>4, <2>5, <2>6, Zenon
<1>5. ASSUME NEW k \in 1..Len(good), good[k].g = good[j].g PROVE k = j
  <2>1. b[k] = b[j]
    BY <1>1, <1>4, <1>5, SMTT(30)
  <2> QED
    BY <1>2, <1>3, <2>1, Zenon
<1>6. good[j].t = b[j] /\ good[j].g = row[b[j]].g /\ j \in DOMAIN b
  BY <1>1, <1>2, <1>3, Zenon
<1>7. \E k \in DOMAIN b : b[k] = good[j].t
  BY <1>6, Zenon
<1>8. /\ good[j].t \in Timer /\ good[j].g = row[good[j].t].g
      /\ good[j].g \in 1..Len(gens) /\ gens[good[j].g].t = good[j].t
      /\ gens[good[j].g].due = row[good[j].t].due
      /\ ~row[good[j].t].leased
      /\ \A k \in 1..Len(sched[p].todo) : sched[p].todo[k].g # good[j].g
  BY <1>4, <1>6, ZenonT(40)
<1> QED
  BY <1>5, <1>6, <1>7, <1>8, Zenon

\* A row the step leaves is the row that was there, or a new generation's.
LEMMA RowStep ==
  ASSUME TickInv, Kind
  PROVE  /\ row' \in [Timer -> Row]
         /\ \A t \in Timer :
              \/ row'[t].g = 0
              \/ row'[t].g = row[t].g /\ row'[t].due = row[t].due
              \/ /\ row[t].g = 0 /\ ~row'[t].leased
                 /\ row'[t].g = Len(gens) + 1 /\ Len(gens') = Len(gens) + 1
                 /\ gens'[Len(gens) + 1].t = t /\ gens'[Len(gens) + 1].due = row'[t].due
<1>0. row \in [Timer -> Row] /\ gens \in Seq(Generation) /\ Len(gens) \in Nat
  BY SeqShape, Zenon DEF TickInv, TypeOK
<1>1. CASE UNCHANGED row
  BY <1>0, <1>1, Zenon
<1>2. NoRow \in Row /\ NoRow.g = 0
  BY Bounds DEF NoRow, Row
<1>3. CASE \E u \in Timer : row' = [row EXCEPT ![u] = NoRow]
  BY <1>0, <1>2, <1>3, Zenon
<1>4. ASSUME NEW u \in Timer, Lapse(u)
      PROVE  /\ row' \in [Timer -> Row]
             /\ \A t \in Timer : row'[t].g = row[t].g /\ row'[t].due = row[t].due
  <2>1. row' = [row EXCEPT ![u] = [row[u] EXCEPT !.leased = FALSE]]
    BY <1>4, Zenon DEF Lapse
  <2>2. /\ [row[u] EXCEPT !.leased = FALSE] \in Row
        /\ [row[u] EXCEPT !.leased = FALSE].g = row[u].g
        /\ [row[u] EXCEPT !.leased = FALSE].due = row[u].due
    BY <1>0, Zenon DEF Row
  <2> QED
    BY <1>0, <2>1, <2>2, Zenon
<1>5. ASSUME NEW p \in Proc, NEW b, NEW good, Take(p, b, good)
      PROVE  /\ row' \in [Timer -> Row]
             /\ \A t \in Timer : row'[t].g = row[t].g /\ row'[t].due = row[t].due
  <2>1. row' = [u \in Timer |-> IF \E i \in DOMAIN b : b[i] = u
                                  THEN [row[u] EXCEPT !.leased = TRUE] ELSE row[u]]
    BY <1>5, Zenon DEF Take
  <2>2. ASSUME NEW u \in Timer
        PROVE  /\ [row[u] EXCEPT !.leased = TRUE] \in Row
               /\ [row[u] EXCEPT !.leased = TRUE].g = row[u].g
               /\ [row[u] EXCEPT !.leased = TRUE].due = row[u].due
    BY <1>0, Zenon DEF Row
  <2> QED
    BY <1>0, <2>1, <2>2, Zenon
<1>6. ASSUME NEW u \in Timer, NEW due \in Instant, Schedule(u, due)
      PROVE  /\ row' \in [Timer -> Row]
             /\ \A t \in Timer :
                  \/ row'[t] = row[t]
                  \/ /\ row[t].g = 0 /\ ~row'[t].leased
                     /\ row'[t].g = Len(gens) + 1 /\ Len(gens') = Len(gens) + 1
                     /\ gens'[Len(gens) + 1].t = t /\ gens'[Len(gens) + 1].due = row'[t].due
  <2> DEFINE r == [g |-> Len(gens) + 1, due |-> due, leased |-> FALSE]
             e == [t |-> u, due |-> due, fired |-> 0, cancelled |-> FALSE,
                   lapsed |-> FALSE, expired |-> FALSE, twin |-> FALSE]
  <2>1. /\ row[u].g = 0 /\ Len(gens) < MaxGen /\ row' = [row EXCEPT ![u] = r]
        /\ gens' = Append(gens, e)
    BY <1>6, Zenon DEF Schedule
  <2>2. Len(gens) + 1 \in 0..MaxGen /\ due \in 0..MaxDue
    BY <1>0, <2>1, Bounds DEF Instant
  <2>3. r \in Row
    BY <2>2, Zenon DEF Row
  <2>4. e \in Generation
    BY DEF Generation
  <2>5. Len(gens') = Len(gens) + 1 /\ gens'[Len(gens) + 1] = e
    BY <1>0, <2>1, <2>4, SMTT(30)
  <2> QED
    BY <1>0, <2>1, <2>3, <2>5, SMTT(30)
<1>7. ASSUME NEW u \in Timer, Withdraw(u) PROVE \E v \in Timer : row' = [row EXCEPT ![v] = NoRow]
  BY <1>7, Zenon DEF Withdraw
<1>8. ASSUME NEW p \in Proc, Remove(p) PROVE \E v \in Timer : row' = [row EXCEPT ![v] = NoRow]
  BY <1>8, HeadHeld, Zenon DEF Remove, Busy
<1> QED
  BY <1>1, <1>3, <1>4, <1>5, <1>6, <1>7, <1>8, Zenon
     DEF Kind, Quiet, Expire, Skip, Again, Enter, Fire, Mark, GiveUp, Die, Forget

-----------------------------------------------------------------------------
(* The invariant *)

\* The epochs and the keys.
LEMMA MemoryType ==
  ASSUME TickInv, Kind
  PROVE  epochs' \in [Proc -> [Timer -> 0..MaxDue]] /\ seen' \subseteq Gen
<1>0. epochs \in [Proc -> [Timer -> 0..MaxDue]] /\ seen \subseteq Gen /\ 0 \in 0..MaxDue
  BY Bounds, SMTT(30) DEF TickInv, TypeOK
<1>1. ASSUME NEW p \in Proc, NEW f \in [Timer -> 0..MaxDue], epochs' = [epochs EXCEPT ![p] = f]
      PROVE  epochs' \in [Proc -> [Timer -> 0..MaxDue]]
  BY <1>0, <1>1, Zenon
<1>2. ASSUME NEW p \in Proc, NEW t \in Timer,
             epochs' = [epochs EXCEPT ![p] = [epochs[p] EXCEPT ![t] = 0]]
      PROVE  epochs' \in [Proc -> [Timer -> 0..MaxDue]]
  BY <1>0, <1>2, Zenon
<1>3. ASSUME NEW p \in Proc, NEW b, NEW good, Take(p, b, good)
      PROVE  epochs' \in [Proc -> [Timer -> 0..MaxDue]] /\ UNCHANGED seen
  <2> DEFINE f == [t \in Timer |->
       IF \E i \in DOMAIN good : good[i].t = t THEN row[t].due ELSE epochs[p][t]]
  <2>1. \A t \in Timer : row[t].due \in 0..MaxDue
    BY Zenon DEF TickInv, TypeOK, Row
  <2>2. f \in [Timer -> 0..MaxDue]
    BY <1>0, <2>1, Zenon
  <2> HIDE DEF f
  <2>3. epochs' = [epochs EXCEPT ![p] = f] /\ UNCHANGED seen
    BY <1>3, Zenon DEF Take, f
  <2> QED
    BY <1>1, <2>2, <2>3, Zenon
<1>4. ASSUME NEW p \in Proc, Mark(p)
      PROVE  epochs' \in [Proc -> [Timer -> 0..MaxDue]] /\ UNCHANGED seen
  <2>1. Head(sched[p].todo).t \in Timer
    BY <1>4, HeadHeld, Zenon DEF Mark, Busy
  <2> QED
    BY <1>2, <1>4, <2>1, Zenon DEF Mark
<1>5. ASSUME NEW p \in Proc, Enter(p)
      PROVE  UNCHANGED epochs /\ seen' \subseteq Gen
  <2>1. Head(sched[p].todo).g \in Gen
    BY <1>5, HeadHeld, Zenon DEF Enter, Busy
  <2> QED
    BY <1>0, <1>5, <2>1, Zenon DEF Enter
<1>6. ASSUME NEW p \in Proc, Die(p)
      PROVE  epochs' \in [Proc -> [Timer -> 0..MaxDue]] /\ UNCHANGED seen
  BY <1>0, <1>6, Zenon DEF Die
<1>7. ASSUME NEW p \in Proc, NEW t \in Timer, Forget(p, t)
      PROVE  epochs' \in [Proc -> [Timer -> 0..MaxDue]] /\ UNCHANGED seen
  BY <1>2, <1>7, Zenon DEF Forget
<1>8. CASE UNCHANGED <<epochs, seen>>
  BY <1>0, <1>8, Zenon
<1>9. ASSUME NEW g \in Gen, Expire(g) PROVE UNCHANGED epochs /\ seen' \subseteq Gen
  BY <1>0, <1>9, Zenon DEF Expire
<1> QED
  BY <1>0, <1>3, <1>4, <1>5, <1>6, <1>7, <1>8, <1>9, Zenon
     DEF Kind, Quiet, Skip, Again, Fire, Remove, GiveUp, Lapse, Withdraw, Schedule

\* The cancels, the clock and the faults.
LEMMA AroundType ==
  ASSUME TypeOK, [Next]_vars
  PROVE  /\ cancel' \in [Proc -> {"none"} \cup Timer]
         /\ clock' \in 0..MaxDue /\ faults' \in 0..MaxFaults
<1>0. /\ cancel \in [Proc -> {"none"} \cup Timer] /\ clock \in 0..MaxDue
      /\ faults \in 0..MaxFaults
  BY Zenon DEF TypeOK
<1>1. faults' = faults \/ (faults < MaxFaults /\ faults' = faults + 1)
  BY ZenonT(40) DEF Next, vars, Lapse, Schedule, Scheduler, ClaimDue, Dispatch,
     Handle, MarkFired, Delete, Crash, Cancel, CancelDelete, Clock, Expire, Fault
<1>2. clock' = clock \/ (clock < MaxDue /\ clock' = clock + 1)
  BY ZenonT(40) DEF Next, vars, Lapse, Schedule, Scheduler, ClaimDue, Dispatch,
     Handle, MarkFired, Delete, Crash, Cancel, CancelDelete, Clock, Expire
<1>3. \/ cancel' = cancel
      \/ \E p \in Proc : \E t \in {"none"} \cup Timer : cancel' = [cancel EXCEPT ![p] = t]
  BY ZenonT(40) DEF Next, vars, Lapse, Schedule, Scheduler, ClaimDue, Dispatch,
     Handle, MarkFired, Delete, Crash, Cancel, CancelDelete, Clock, Expire
<1>4. cancel' \in [Proc -> {"none"} \cup Timer]
  BY <1>0, <1>3, Zenon
<1>5. clock' \in 0..MaxDue /\ faults' \in 0..MaxFaults
  BY <1>0, <1>1, <1>2, Bounds
<1> QED
  BY <1>4, <1>5, Zenon

\* TickInv is inductive.
LEMMA TickInvStep ==
  ASSUME TickInv, [Next]_vars
  PROVE  TickInv' /\ Kind
<1>1. Kind
  BY StepKinds, Zenon
<1>2. GensKept /\ Len(gens) \in Nat /\ Len(gens') \in Nat
  BY <1>1, GensStep, SeqShape, Zenon DEF TickInv, TypeOK, GensKept
<1>3. sched' \in [Proc -> Tick] /\ \A p \in Proc : TickStep(p)
  BY <1>1, SchedStep, Zenon
<1>4. ASSUME NEW t \in Timer, row'[t].g # 0
      PROVE  /\ row'[t].g <= Len(gens') /\ gens'[row'[t].g].t = t
             /\ row'[t].due = gens'[row'[t].g].due
  <2>1. CASE row'[t].g = row[t].g /\ row'[t].due = row[t].due
    <3>1. /\ row[t].g <= Len(gens) /\ gens[row[t].g].t = t /\ row[t] \in Row
          /\ row[t].due = gens[row[t].g].due
      BY <1>4, <2>1, Zenon DEF TickInv, TypeOK
    <3>2. row[t].g \in Nat
      BY <3>1, Bounds DEF Row
    <3>3. row[t].g \in 1..Len(gens) /\ row[t].g <= Len(gens')
      BY <1>2, <1>4, <2>1, <3>1, <3>2, SMTT(30) DEF GensKept
    <3> QED
      BY <1>2, <2>1, <3>1, <3>3, Zenon DEF GensKept, Keeps
  <2>2. CASE /\ row'[t].g = Len(gens) + 1 /\ Len(gens') = Len(gens) + 1
             /\ gens'[Len(gens) + 1].t = t /\ gens'[Len(gens) + 1].due = row'[t].due
    BY <1>2, <2>2
  <2> QED
    BY <1>1, <1>4, <2>1, <2>2, RowStep, Zenon
<1>5. ASSUME NEW p \in Proc, NEW i \in 1..Len(sched'[p].todo)
      PROVE  /\ sched'[p].todo[i].g \in 1..Len(gens')
             /\ gens'[sched'[p].todo[i].g].t = sched'[p].todo[i].t
  <2>1. \E c : /\ sched'[p].todo[i] = c /\ c.g \in 1..Len(gens) /\ gens[c.g].t = c.t
    <3>1. CASE Stays(p, i)
      BY <3>1, Zenon DEF TickInv, Stays
    <3>2. CASE Shifts(p, i)
      BY <3>2, Zenon DEF TickInv, Shifts
    <3>3. CASE \E b \in Batches(p) : \E good \in Decoded(b) : Joins(p, i, good)
      <4>1. PICK b \in Batches(p) : \E good \in Decoded(b) : Joins(p, i, good)
        BY <3>3, Zenon
      <4>2. PICK good \in Decoded(b) : Joins(p, i, good)
        BY <4>1, Zenon
      <4>3. PICK j \in 1..Len(good) : sched'[p].todo[i] = good[j]
        BY <4>2, Zenon DEF Joins
      <4>4. good[j].g \in 1..Len(gens) /\ gens[good[j].g].t = good[j].t
        BY TakenRow, SMTT(30)
      <4> QED
        BY <4>3, <4>4, Zenon
    <3> QED
      BY <1>1, <3>1, <3>2, <3>3, TodoOrigin, Zenon
  <2> QED
    BY <1>2, <2>1 DEF GensKept, Keeps
<1>6. \A p \in Proc : /\ sched'[p].pc \in Busy => sched'[p].todo # <<>>
                      /\ sched'[p].pc = "idle" => sched'[p].todo = <<>>
  BY <1>3, Zenon DEF TickStep
<1>7. row' \in [Timer -> Row]
  BY <1>1, RowStep, Zenon
<1>8. TypeOK'
  BY <1>1, <1>2, <1>3, <1>4, <1>7, MemoryType, AroundType, Zenon DEF TypeOK, GensKept, TickInv
<1> QED
  BY <1>1, <1>4, <1>5, <1>6, <1>8, Zenon DEF TickInv

\* It holds at the start.
LEMMA TickInvInit ==
  ASSUME Init PROVE TickInv
<1>1. NoRow \in Row /\ NoRow.g = 0 /\ Idle \in Tick /\ Idle.pc = "idle" /\ Idle.todo = <<>>
  BY Bounds, SMTT(30) DEF NoRow, Row, Idle, Tick
<1>2. row \in [Timer -> Row] /\ \A t \in Timer : row[t].g = 0
  BY <1>1, Zenon DEF Init
<1>3. /\ sched \in [Proc -> Tick]
      /\ \A p \in Proc : sched[p].pc = "idle" /\ sched[p].todo = <<>> /\ Len(sched[p].todo) = 0
  BY <1>1, Zenon DEF Init
<1>4. gens \in Seq(Generation)
  BY DEF Init
<1>5. /\ epochs \in [Proc -> [Timer -> 0..MaxDue]] /\ seen \subseteq Gen
      /\ cancel \in [Proc -> {"none"} \cup Timer] /\ clock \in 0..MaxDue
      /\ faults \in 0..MaxFaults
  BY Bounds DEF Init
<1>6. TypeOK
  BY <1>2, <1>3, <1>4, <1>5, Zenon DEF TypeOK
<1> QED
  BY <1>2, <1>3, <1>6, SMTT(30) DEF TickInv, Busy

\* Every reachable state satisfies TickInv.
THEOREM TicksHold == Spec => []TickInv
<1>1. TickInv /\ [Next]_vars => TickInv'
  BY TickInvStep, Zenon
<1> QED
  BY <1>1, TickInvInit, PTL DEF Spec

\* The types of the claims table, of the memories of the TimerStores and of the
\* ticks (Deadlines!TypeOK) hold of every reachable state.
THEOREM TypeCorrect == Spec => []TypeOK
<1>1. TickInv => TypeOK
  BY Zenon DEF TickInv
<1> QED
  BY <1>1, TicksHold, PTL
=============================================================================
