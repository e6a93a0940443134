-------------------------- MODULE DeadlinesProofs --------------------------
(***************************************************************************)
(* The safety of timers, for every number of timers, processes,            *)
(* generations, retries and faults: a timer fires once per lease on it     *)
(* (OncePerLease), one with an idempotency key once per record of its key  *)
(* (KeyedOncePerTTL), and none is lost as long as its timer is never given *)
(* the same FireAt again (TimersKept).                                     *)
(***************************************************************************)
EXTENDS DeadlinesSteps

-----------------------------------------------------------------------------
(* What happens to a generation *)

\* The handler of p runs for generation g.
Handling(p, g) == sched[p].pc = "handle" /\ Head(sched[p].todo).g = g

\* Position i of the tick of p is generation g.
Held(p, i, g) == i \in 1..Len(sched[p].todo) /\ sched[p].todo[i].g = g

\* How the history of generation g may change.
Untouched(g) ==
  /\ g \in 1..Len(gens) /\ gens'[g].fired = gens[g].fired
  /\ gens'[g].lapsed = gens[g].lapsed
Fired(g) ==
  /\ g \in 1..Len(gens) /\ gens'[g].lapsed = gens[g].lapsed
  /\ \E p \in Proc : Fire(p) /\ Handling(p, g)
  /\ gens'[g].fired = IF gens[g].fired = 0 THEN 1 ELSE 2
Lapsed(g) ==
  /\ g \in 1..Len(gens) /\ gens'[g].fired = gens[g].fired /\ gens'[g].lapsed
Begun(g) ==
  /\ g = Len(gens) + 1 /\ Len(gens') = Len(gens) + 1
  /\ gens'[g].fired = 0
  /\ row[gens'[g].t].g = 0 /\ row'[gens'[g].t].g = g
  /\ FreshDue => \A h \in 1..Len(gens) :
                   gens[h].t = gens'[g].t => gens[h].due # gens'[g].due

\* Only the end of a handler counts as a firing, only the end of a lease as a
\* lapse.
LEMMA GenStep ==
  ASSUME TickInv, Kind, NEW g \in 1..Len(gens')
  PROVE  Untouched(g) \/ Fired(g) \/ Lapsed(g) \/ Begun(g)
<1>0. /\ gens \in Seq(Generation) /\ Len(gens) \in Nat
      /\ gens \in [1..Len(gens) -> Generation] /\ DOMAIN gens = 1..Len(gens)
      /\ row \in [Timer -> Row]
  BY SeqShape, Zenon DEF TickInv, TypeOK
<1>1. CASE UNCHANGED gens
  BY <1>1, Zenon DEF Untouched
<1>2. ASSUME NEW t \in Timer, NEW due \in Instant, Schedule(t, due)
      PROVE  Untouched(g) \/ Begun(g)
  <2> DEFINE e == [t |-> t, due |-> due, fired |-> 0, cancelled |-> FALSE,
                   lapsed |-> FALSE, expired |-> FALSE, twin |-> FALSE]
  <2>1. e \in Generation /\ e.t = t /\ e.due = due /\ e.fired = 0
    BY DEF Generation
  <2>2. gens' = Append(gens, e)
    BY <1>2, Zenon DEF Schedule
  <2> HIDE DEF e
  <2>3. /\ Len(gens') = Len(gens) + 1 /\ gens'[Len(gens) + 1] = e
        /\ \A k \in 1..Len(gens) : gens'[k] = gens[k]
    BY <1>0, <2>1, <2>2, SMTT(30)
  <2>4. CASE g \in 1..Len(gens)
    BY <2>3, <2>4, Zenon DEF Untouched
  <2>5. CASE g = Len(gens) + 1
    <3>1. /\ row[t].g = 0
          /\ row' = [row EXCEPT ![t] = [g |-> Len(gens) + 1, due |-> due, leased |-> FALSE]]
          /\ FreshDue => \A h \in 1..Len(gens) : gens[h].t = t => gens[h].due # due
      BY <1>2, Zenon DEF Schedule
    <3>2. row'[t].g = g
      BY <1>0, <2>5, <3>1, Zenon
    <3> QED
      BY <2>1, <2>3, <2>5, <3>1, <3>2, Zenon DEF Begun
  <2> QED
    BY <1>0, <2>3, <2>4, <2>5
<1>3. ASSUME NEW t \in Timer, Lapse(t) PROVE Untouched(g) \/ Lapsed(g)
  <2> DEFINE k == row[t].g
             e == [gens[k] EXCEPT !.lapsed = TRUE]
  <2>1. gens' = [gens EXCEPT ![k] = e]
    BY <1>3, Zenon DEF Lapse
  <2>2. Len(gens') = Len(gens) /\ g \in 1..Len(gens)
    <3>1. DOMAIN gens' = 1..Len(gens) /\ gens' \in Seq(Generation)
      BY <1>0, <2>1, GensStep, Zenon DEF GensKept
    <3> QED
      BY <1>0, <3>1, SeqShape
  <2>3. CASE g = k
    <3>1. gens[k] \in Generation /\ gens'[g] = e
      BY <1>0, <2>1, <2>2, <2>3, Zenon
    <3>2. e.fired = gens[g].fired /\ e.lapsed
      BY <2>3, <3>1, Zenon DEF Generation
    <3> QED
      BY <2>2, <3>1, <3>2, Zenon DEF Lapsed
  <2>4. CASE g # k
    BY <1>0, <2>1, <2>2, <2>4, Zenon DEF Untouched
  <2> QED
    BY <2>3, <2>4, Zenon
<1>4. ASSUME NEW p \in Proc, Fire(p) PROVE Untouched(g) \/ Fired(g)
  <2> DEFINE k == Head(sched[p].todo).g
             n == IF gens[k].fired = 0 THEN 1 ELSE 2
             e == [gens[k] EXCEPT !.fired = n]
  <2>1. gens' = [gens EXCEPT ![k] = e] /\ Handling(p, k)
    BY <1>4, Zenon DEF Fire, Handling
  <2>2. g \in 1..Len(gens)
    <3>1. DOMAIN gens' = 1..Len(gens) /\ gens' \in Seq(Generation)
      BY <1>0, <2>1, GensStep, Zenon DEF GensKept
    <3> QED
      BY <1>0, <3>1, SeqShape, Zenon
  <2>3. CASE g = k
    <3>1. gens[k] \in Generation /\ gens'[g] = e
      BY <1>0, <2>1, <2>2, <2>3, Zenon
    <3>2. e.fired = n /\ e.lapsed = gens[g].lapsed
      BY <2>3, <3>1, Zenon DEF Generation
    <3> QED
      BY <1>4, <2>1, <2>2, <2>3, <3>1, <3>2, Zenon DEF Fired
  <2>4. CASE g # k
    BY <1>0, <2>1, <2>2, <2>4, Zenon DEF Untouched
  <2> QED
    BY <2>3, <2>4, Zenon
<1>5. ASSUME NEW t \in Timer, Withdraw(t) PROVE Untouched(g)
  <2>1. gens' = [k \in DOMAIN gens |->
          IF k = row[t].g THEN [gens[k] EXCEPT !.cancelled = TRUE] ELSE gens[k]]
    BY <1>5, Zenon DEF Withdraw
  <2>2. g \in 1..Len(gens)
    <3>1. DOMAIN gens' = 1..Len(gens) /\ gens' \in Seq(Generation)
      BY <1>0, <2>1, GensStep, Zenon DEF GensKept
    <3> QED
      BY <1>0, <3>1, SeqShape, Zenon
  <2>3. gens[g] \in Generation /\ gens'[g] \in {gens[g], [gens[g] EXCEPT !.cancelled = TRUE]}
    BY <1>0, <2>1, <2>2, Zenon
  <2> QED
    BY <2>2, <2>3, Zenon DEF Untouched, Generation
<1>6. ASSUME NEW p \in Proc, NEW b \in Batches(p), NEW good \in Decoded(b), Take(p, b, good)
      PROVE  Untouched(g)
  <2>1. gens' = [k \in DOMAIN gens |->
          [gens[k] EXCEPT !.twin = gens[k].twin \/ Twin(p, good, k)]]
    BY <1>6, Zenon DEF Take
  <2>2. g \in 1..Len(gens)
    <3>1. DOMAIN gens' = 1..Len(gens) /\ gens' \in Seq(Generation)
      BY <1>0, <2>1, GensStep, Zenon DEF GensKept
    <3> QED
      BY <1>0, <3>1, SeqShape, Zenon
  <2>3. /\ gens[g] \in Generation
        /\ gens'[g] = [gens[g] EXCEPT !.twin = gens[g].twin \/ Twin(p, good, g)]
    BY <1>0, <2>1, <2>2, Zenon
  <2> QED
    BY <2>2, <2>3, Zenon DEF Untouched, Generation
<1>7. ASSUME NEW k \in Gen, Expire(k) PROVE Untouched(g)
  <2> DEFINE e == [gens[k] EXCEPT !.expired = TRUE]
  <2>1. gens' = [gens EXCEPT ![k] = e]
    BY <1>7, Zenon DEF Expire
  <2>2. g \in 1..Len(gens)
    <3>1. DOMAIN gens' = 1..Len(gens) /\ gens' \in Seq(Generation)
      BY <1>0, <2>1, GensStep, Zenon DEF GensKept
    <3> QED
      BY <1>0, <3>1, SeqShape, Zenon
  <2>3. gens[g] \in Generation /\ gens'[g] \in {gens[g], [gens[g] EXCEPT !.expired = TRUE]}
    BY <1>0, <2>1, <2>2, Zenon
  <2> QED
    BY <2>2, <2>3, Zenon DEF Untouched, Generation
<1> QED
  BY <1>1, <1>2, <1>3, <1>4, <1>5, <1>6, <1>7, Zenon
     DEF Kind, Quiet, Skip, Again, Enter, Mark, Remove, GiveUp, Die, Forget

-----------------------------------------------------------------------------
(* A record lets one handler through *)

\* While no record of its key expired, a handler runs for a generation only
\* after the key is recorded, alone, and before it ever ran to its end.
KeyedInv ==
  /\ TickInv
  /\ \A p \in Proc : \A g \in Keyed :
       Handling(p, g) /\ ~gens[g].expired => g \in seen /\ gens[g].fired = 0
  /\ \A p, q \in Proc : \A g \in Keyed :
       Handling(p, g) /\ Handling(q, g) /\ ~gens[g].expired => p = q
  /\ \A g \in Keyed :
       g \in 1..Len(gens) /\ ~gens[g].expired /\ gens[g].fired > 0 => g \in seen
  /\ KeyedFiresOncePerTTL

\* A handler that runs after a step ran before it, or the step entered it.
LEMMA HandlingOrigin ==
  ASSUME TickInv, Kind, NEW p \in Proc, NEW g, Handling(p, g)'
  PROVE  /\ ~Fire(p)
         /\ Handling(p, g) \/ (Enter(p) /\ Head(sched[p].todo).g = g)
<1>0. sched \in [Proc -> Tick] /\ \A q \in Proc : sched[q] \in Tick
  BY Zenon DEF TickInv, TypeOK
<1>1. sched'[p].pc = "handle" /\ Head(sched'[p].todo).g = g
  BY Zenon DEF Handling
<1>2. ~Fire(p)
  <2>1. ASSUME Fire(p) PROVE FALSE
    <3>1. sched'[p] = [sched[p] EXCEPT !.pc = "mark", !.tries = 0]
      BY <1>0, <2>1, Zenon DEF Fire
    <3>2. sched'[p].pc = "mark"
      BY <1>0, <3>1, Zenon DEF Tick
    <3> QED
      BY <1>1, <3>2, Zenon
  <2> QED
    BY <2>1, Zenon
<1>3. CASE sched'[p] = sched[p]
  BY <1>1, <1>2, <1>3, Zenon DEF Handling
<1>4. ASSUME Enter(p) PROVE Head(sched[p].todo).g = g
  <2>1. sched'[p] = [sched[p] EXCEPT !.pc = "handle"]
    BY <1>0, <1>4, Zenon DEF Enter
  <2>2. sched'[p].todo = sched[p].todo
    BY <1>0, <2>1, Zenon DEF Tick
  <2> QED
    BY <1>1, <2>2, Zenon
<1>5. ASSUME NEW q \in Proc, Skip(q) \/ Remove(q) PROVE sched'[p] = sched[p]
  <2>1. sched[q].pc \in Busy /\ sched' = [sched EXCEPT ![q] = NextTimer(sched[q])]
    BY <1>5, Zenon DEF Skip, Remove, Busy
  <2>2. sched[q].todo # <<>>
    BY <2>1, Zenon DEF TickInv
  <2>3. NextTimer(sched[q]).pc \in {"idle", "dispatch"}
    BY <1>0, <2>2, NextTimerType, Zenon
  <2> QED
    BY <1>0, <1>1, <2>1, <2>3, Zenon
<1>6. ASSUME NEW q \in Proc, Again(q) \/ Mark(q) PROVE sched'[p] = sched[p]
  <2>1. ASSUME Again(q) PROVE sched'[q].pc = "dispatch" /\ (p # q => sched'[p] = sched[p])
    BY <1>0, <2>1, Zenon DEF Again, Tick
  <2>2. ASSUME Mark(q) PROVE sched'[q].pc = "delete" /\ (p # q => sched'[p] = sched[p])
    BY <1>0, <2>2, Zenon DEF Mark, Tick
  <2> QED
    BY <1>1, <1>6, <2>1, <2>2, Zenon
<1>7. ASSUME NEW q \in Proc, GiveUp(q) \/ Taken(q) \/ Die(q) PROVE sched'[p] = sched[p]
  <2>1. CASE GiveUp(q)
    <3>1. PICK y \in Tick : y.pc \in {"idle", "dispatch"} /\ sched' = [sched EXCEPT ![q] = y]
      BY <2>1, Zenon DEF GiveUp
    <3> QED
      BY <1>0, <1>1, <3>1, Zenon
  <2>2. CASE Taken(q)
    <3>1. PICK y \in Tick : /\ y.pc \in {"idle", "due", "dispatch"}
                            /\ sched' = [sched EXCEPT ![q] = y]
      BY <2>2, Zenon DEF Taken, Take
    <3> QED
      BY <1>0, <1>1, <3>1, Zenon
  <2>3. CASE Die(q)
    <3>1. Idle.pc = "idle" /\ sched' = [sched EXCEPT ![q] = Idle]
      BY <2>3, Zenon DEF Die, Idle
    <3> QED
      BY <1>0, <1>1, <3>1, Zenon
  <2> QED
    BY <1>7, <2>1, <2>2, <2>3, Zenon
<1>8. ASSUME NEW q \in Proc, Enter(q) \/ Fire(q), q # p PROVE sched'[p] = sched[p]
  BY <1>0, <1>8, Zenon DEF Enter, Fire
<1>9. ASSUME NEW q \in Proc, Enter(q) \/ Fire(q) PROVE sched'[p] = sched[p] \/ Enter(p)
  BY <1>2, <1>8, <1>9, Zenon
<1> QED
  BY <1>2, <1>3, <1>4, <1>5, <1>6, <1>7, <1>9, Zenon
     DEF Kind, Quiet, Expire, Taken, Lapse, Withdraw, Schedule, Forget

\* A recorded key stays until the record expires.
LEMMA SeenStays ==
  ASSUME TickInv, Kind, NEW g \in 1..Len(gens), g \in seen, ~gens'[g].expired
  PROVE  g \in seen'
<1>1. CASE seen' = seen
  BY <1>1, Zenon
<1>2. ASSUME NEW p \in Proc, Enter(p) PROVE seen \subseteq seen'
  BY <1>2, Zenon DEF Enter
<1>3. ASSUME NEW k \in Gen, Expire(k) PROVE g \in seen'
  <2>1. gens \in Seq(Generation) /\ DOMAIN gens = 1..Len(gens) /\ gens[g] \in Generation
    BY GensShape, Zenon
  <2>2. CASE k = g
    <3>1. gens'[g] = [gens[g] EXCEPT !.expired = TRUE]
      BY <1>3, <2>1, <2>2, Zenon DEF Expire
    <3>2. gens'[g].expired
      BY <2>1, <3>1, Zenon DEF Generation
    <3> QED
      BY <3>2, Zenon
  <2>3. CASE k # g
    BY <1>3, <2>3, Zenon DEF Expire
  <2> QED
    BY <2>2, <2>3, Zenon
<1> QED
  BY <1>1, <1>2, <1>3, ZenonT(40)
     DEF Kind, Quiet, Skip, Again, Fire, Mark, Remove, GiveUp, Die, Forget, Take, Lapse,
         Withdraw, Schedule

\* The key invariant is inductive.
LEMMA KeyedStep ==
  ASSUME KeyedInv, [Next]_vars
  PROVE  KeyedInv'
<1>0. TickInv /\ Kind /\ TickInv'
  BY TickInvStep, Zenon DEF KeyedInv
<1>1. ASSUME NEW g \in 1..Len(gens), ~gens'[g].expired
      PROVE  ~gens[g].expired /\ (g \in seen => g \in seen')
  <2>1. ~gens[g].expired
    BY <1>0, <1>1, GensStep, Zenon DEF GensKept, Keeps
  <2> QED
    BY <1>0, <1>1, <2>1, SeenStays, Zenon
<1>2. \A g \in 1..Len(gens) : gens[g].fired \in 0..2
  <2>1. ASSUME NEW g \in 1..Len(gens) PROVE gens[g].fired \in 0..2
    <3>1. gens[g] \in Generation
      BY <1>0, GensShape, Zenon
    <3> QED
      BY <3>1, Zenon DEF Generation
  <2> QED
    BY <2>1, Zenon
\* A generation a tick handles exists, before a step and after it.
<1>h. ASSUME NEW g \in Keyed, NEW p \in Proc, Handling(p, g)
      PROVE  g \in 1..Len(gens) /\ g \in 1..Len(gens')
  <2>1. g \in 1..Len(gens)
    BY <1>0, <1>h, HeadHeld, Zenon DEF Handling, Busy
  <2>2. Len(gens) \in Nat /\ Len(gens') \in Nat /\ Len(gens) <= Len(gens')
    BY <1>0, GensStep, GensShape, SeqShape, Zenon DEF GensKept
  <2> QED
    BY <2>1, <2>2
\* The handler that runs to its end is alone, and the first.
<1>3. ASSUME NEW g \in Keyed, NEW p \in Proc, Fire(p), Handling(p, g), ~gens[g].expired
      PROVE  /\ gens[g].fired = 0 /\ g \in seen
             /\ \A q \in Proc : ~Handling(q, g)'
  <2>1. gens[g].fired = 0 /\ g \in seen
    BY <1>3, Zenon DEF KeyedInv
  <2>2. ASSUME NEW q \in Proc, Handling(q, g)' PROVE FALSE
    <3>1. ~Enter(q)
      <4>1. sched \in [Proc -> Tick] /\ sched[p] \in Tick
        BY <1>0, Zenon DEF TickInv, TypeOK
      <4>2. sched[p].pc = "handle" /\ sched'[p].pc = "mark"
        BY <1>3, <4>1, Zenon DEF Fire, Tick
      <4>3. ASSUME Enter(q) PROVE FALSE
        <5>1. sched[q].pc = "dispatch" /\ sched' = [sched EXCEPT ![q] = [sched[q] EXCEPT !.pc = "handle"]]
          BY <4>3, Zenon DEF Enter
        <5>2. p # q
          BY <4>2, <5>1, Zenon
        <5> QED
          BY <4>1, <4>2, <5>1, <5>2, Zenon
      <4> QED
        BY <4>3, Zenon
    <3>2. Handling(q, g) /\ ~Fire(q)
      BY <1>0, <2>2, <3>1, HandlingOrigin, Zenon
    <3> QED
      BY <1>3, <3>2, Zenon DEF KeyedInv
  <2> QED
    BY <2>1, <2>2, Zenon
<1>4. ASSUME NEW g \in Keyed, g \in 1..Len(gens'), ~gens'[g].expired
      PROVE  gens'[g].fired # 2 /\ (gens'[g].fired > 0 => g \in seen')
  <2>1. CASE Untouched(g) \/ Lapsed(g)
    <3>1. g \in 1..Len(gens)
      BY <2>1, Zenon DEF Untouched, Lapsed
    <3>2. ~gens[g].expired /\ (g \in seen => g \in seen')
      BY <1>1, <1>4, <3>1, Zenon
    <3>3. gens[g].fired # 2 /\ (gens[g].fired > 0 => g \in seen)
      BY <3>1, <3>2, Zenon DEF KeyedInv, KeyedFiresOncePerTTL
    <3> QED
      BY <2>1, <3>2, <3>3, Zenon DEF Untouched, Lapsed
  <2>2. CASE Fired(g)
    <3>0. g \in 1..Len(gens)
      BY <2>2, Zenon DEF Fired
    <3>1. ~gens[g].expired /\ (g \in seen => g \in seen')
      BY <1>1, <1>4, <3>0, Zenon
    <3>2. gens[g].fired = 0 /\ g \in seen
      BY <1>3, <2>2, <3>1, Zenon DEF Fired
    <3> QED
      BY <2>2, <3>1, <3>2 DEF Fired
  <2>3. CASE Begun(g)
    BY <2>3 DEF Begun
  <2> QED
    BY <1>0, <1>4, <2>1, <2>2, <2>3, GenStep, Zenon
\* An entered handler is the first.
<1>5. ASSUME NEW g \in Keyed, NEW p \in Proc, Enter(p), Head(sched[p].todo).g = g,
             ~gens'[g].expired
      PROVE  /\ g \in seen' /\ gens'[g].fired = 0
             /\ \A q \in Proc : Handling(q, g)' => q = p
  <2>1. g \notin seen /\ g \in seen' /\ UNCHANGED gens /\ ~gens[g].expired
    BY <1>5, Zenon DEF Enter
  <2>2. g \in 1..Len(gens)
    BY <1>0, <1>5, HeadHeld, Zenon DEF Enter, Busy
  <2>3. gens[g].fired = 0
    <3>1. ~(gens[g].fired > 0)
      BY <2>1, <2>2, Zenon DEF KeyedInv
    <3> QED
      BY <1>2, <2>2, <3>1
  <2>4. ASSUME NEW q \in Proc, Handling(q, g)' PROVE q = p
    <3>1. ~Handling(q, g)
      BY <2>1, Zenon DEF KeyedInv
    <3>2. Enter(q)
      BY <1>0, <2>4, <3>1, HandlingOrigin, Zenon
    <3>3. CASE q # p
      <4>1. sched'[q] = sched[q]
        BY <1>0, <1>5, <3>3, Zenon DEF Enter, TickInv, TypeOK
      <4>2. sched[q].pc = "dispatch" /\ sched'[q].pc = "handle"
        BY <2>4, <3>2, Zenon DEF Enter, Handling
      <4> QED
        BY <4>1, <4>2, Zenon
    <3> QED
      BY <3>3, Zenon
  <2> QED
    BY <2>1, <2>3, <2>4, Zenon
<1>6. ASSUME NEW g \in Keyed, NEW p \in Proc, Handling(p, g)', ~gens'[g].expired
      PROVE  g \in seen' /\ gens'[g].fired = 0
  <2>1. CASE Handling(p, g)
    <3>1. g \in 1..Len(gens) /\ g \in 1..Len(gens')
      BY <1>h, <2>1, Zenon
    <3>2. ~gens[g].expired /\ (g \in seen => g \in seen')
      BY <1>1, <1>6, <3>1, Zenon
    <3>3. g \in seen /\ gens[g].fired = 0
      BY <2>1, <3>2, Zenon DEF KeyedInv
    <3>4. ~Fired(g)
      BY <1>3, <1>6, <3>2, Zenon DEF Fired
    <3>5. ~Begun(g)
      <4>1. Len(gens) \in Nat
        BY <1>0, GensShape, Zenon
      <4>2. g # Len(gens) + 1
        BY <3>1, <4>1
      <4> QED
        BY <4>2, Zenon DEF Begun
    <3> QED
      BY <1>0, <3>1, <3>2, <3>3, <3>4, <3>5, GenStep, Zenon DEF Untouched, Lapsed
  <2>2. CASE Enter(p) /\ Head(sched[p].todo).g = g
    BY <1>5, <1>6, <2>2, Zenon
  <2> QED
    BY <1>0, <1>6, <2>1, <2>2, HandlingOrigin, Zenon
<1>7. ASSUME NEW g \in Keyed, NEW p \in Proc, NEW q \in Proc, Handling(p, g)',
             Handling(q, g)', ~gens'[g].expired
      PROVE  p = q
  <2>1. CASE Handling(p, g) /\ Handling(q, g)
    <3>1. ~gens[g].expired
      BY <1>1, <1>7, <1>h, <2>1, Zenon
    <3> QED
      BY <2>1, <3>1, Zenon DEF KeyedInv
  <2>2. CASE Enter(p) /\ Head(sched[p].todo).g = g
    BY <1>5, <1>7, <2>2, Zenon
  <2>3. CASE Enter(q) /\ Head(sched[q].todo).g = g
    BY <1>5, <1>7, <2>3, Zenon
  <2> QED
    BY <1>0, <1>7, <2>1, <2>2, <2>3, HandlingOrigin, Zenon
<1>8. KeyedFiresOncePerTTL'
  BY <1>4, Zenon DEF KeyedFiresOncePerTTL
<1> QED
  BY <1>0, <1>4, <1>6, <1>7, <1>8, Zenon DEF KeyedInv

\* A timer whose command carries an idempotency key fires a second time only
\* after the record of its key expired: through lapsed leases, several
\* processes claiming the same row, failed deletes, retries and crashes,
\* CheckAndRecord lets one handler through per record
\* (Deadlines!KeyedFiresOncePerTTL).
THEOREM KeyedOncePerTTL == Spec => []KeyedFiresOncePerTTL
<1>1. Init => KeyedInv
  <2> SUFFICES ASSUME Init PROVE KeyedInv
    OBVIOUS
  <2>1. TickInv
    BY TickInvInit, Zenon
  <2>2. Len(gens) = 0 /\ \A p \in Proc : sched[p].pc = "idle"
    BY Zenon DEF Init, Idle
  <2> QED
    BY <2>1, <2>2 DEF KeyedInv, KeyedFiresOncePerTTL, Handling
<1>2. KeyedInv /\ [Next]_vars => KeyedInv'
  BY KeyedStep, Zenon
<1>3. KeyedInv => KeyedFiresOncePerTTL
  BY Zenon DEF KeyedInv
<1> QED
  BY <1>1, <1>2, <1>3, PTL DEF Spec

-----------------------------------------------------------------------------
(* The lease fences *)

\* While no lease on generation g lapsed, one position of one tick holds it at
\* most; the row of it is leased from the claim on; and a tick that fired it is
\* about to delete it.
LeaseInv ==
  /\ TickInv
  /\ \A g \in 1..Len(gens) : ~gens[g].lapsed =>
       /\ \A p, q \in Proc : \A i, j \in Nat : Held(p, i, g) /\ Held(q, j, g) => p = q /\ i = j
       /\ row[gens[g].t].g = g /\ gens[g].fired > 0 => row[gens[g].t].leased
       /\ \A p \in Proc : \A i \in Nat :
            row[gens[g].t].g = g /\ Held(p, i, g) => row[gens[g].t].leased
       /\ \A p \in Proc : \A i \in Nat :
            gens[g].fired > 0 /\ Held(p, i, g) => i = 1 /\ sched[p].pc \in Late
       /\ gens[g].fired < 2

\* Generation g is claimed by p in this step, at position i.
Claiming(p, i, g) ==
  \E b \in Batches(p) : \E good \in Decoded(b) : \E j \in 1..Len(good) :
    Take(p, b, good) /\ i = Len(sched[p].todo) + j /\ good[j].g = g

\* Where a held generation comes from.
LEMMA HeldOrigin ==
  ASSUME TickInv, Kind, NEW p \in Proc, NEW i \in Nat, NEW g, Held(p, i, g)'
  PROVE  \/ Held(p, i, g) /\ (sched[p].pc \in Late => sched'[p].pc \in Late)
         \/ i > 0 /\ i + 1 \in Nat /\ Held(p, i + 1, g)
         \/ Claiming(p, i, g)
<1>1. i \in 1..Len(sched'[p].todo) /\ sched'[p].todo[i].g = g
  BY Zenon DEF Held
<1>2. CASE Stays(p, i) /\ (sched[p].pc \in Late => sched'[p].pc \in Late)
  BY <1>1, <1>2, Zenon DEF Held, Stays
<1>3. CASE Shifts(p, i)
  <2>1. i > 0 /\ i + 1 \in Nat
    BY <1>1
  <2> QED
    BY <1>1, <1>3, <2>1, Zenon DEF Held, Shifts
<1>4. CASE \E b \in Batches(p) : \E good \in Decoded(b) :
             Take(p, b, good) /\ Joins(p, i, good)
  BY <1>1, <1>4, Zenon DEF Claiming, Joins
<1> QED
  BY <1>1, <1>2, <1>3, <1>4, TodoOrigin, Zenon

\* A held generation exists.
LEMMA HeldExists ==
  ASSUME TickInv, NEW p \in Proc, NEW i \in Nat, NEW g, Held(p, i, g)
  PROVE  g \in 1..Len(gens)
BY Zenon DEF TickInv, Held

\* A claim takes a row that is not leased, and leases it.
LEMMA ClaimLeases ==
  ASSUME TickInv, NEW p \in Proc, NEW i \in Nat, NEW g, Claiming(p, i, g)
  PROVE  /\ g \in 1..Len(gens) /\ row[gens[g].t].g = g /\ ~row[gens[g].t].leased
         /\ row'[gens[g].t].leased
         /\ \A k \in Nat : ~Held(p, k, g)
         /\ \A q \in Proc : q # p => sched'[q] = sched[q]
<1>1. PICK b \in Batches(p) : \E good \in Decoded(b) : \E j \in 1..Len(good) :
        Take(p, b, good) /\ i = Len(sched[p].todo) + j /\ good[j].g = g
  BY Zenon DEF Claiming
<1>2. PICK good \in Decoded(b) : \E j \in 1..Len(good) :
        Take(p, b, good) /\ i = Len(sched[p].todo) + j /\ good[j].g = g
  BY <1>1, Zenon
<1>3. PICK j \in 1..Len(good) :
        Take(p, b, good) /\ i = Len(sched[p].todo) + j /\ good[j].g = g
  BY <1>2, Zenon
<1>4. /\ good[j].t \in Timer /\ g = row[good[j].t].g /\ g \in 1..Len(gens)
      /\ gens[g].t = good[j].t /\ ~row[good[j].t].leased
      /\ \A k \in 1..Len(sched[p].todo) : sched[p].todo[k].g # g
      /\ \E k \in DOMAIN b : b[k] = good[j].t
  BY <1>3, TakenRow, SMTT(30)
<1>5. row'[good[j].t] = [row[good[j].t] EXCEPT !.leased = TRUE]
  BY <1>3, <1>4, Zenon DEF Take
<1>6. row[good[j].t] \in Row
  BY <1>4, Zenon DEF TickInv, TypeOK
<1>7. row'[good[j].t].leased
  BY <1>5, <1>6, Zenon DEF Row
<1>8. \A q \in Proc : q # p => sched'[q] = sched[q]
  BY <1>3, Zenon DEF Take, TickInv, TypeOK
<1> QED
  BY <1>4, <1>7, <1>8, Zenon DEF Held

\* A lease ends with its row, or by lapsing.
LEMMA LeaseKept ==
  ASSUME TickInv, Kind, NEW t \in Timer, row[t].leased, row[t].g # 0, row'[t].g = row[t].g
  PROVE  row'[t].leased \/ gens'[row[t].g].lapsed
<1>0. row \in [Timer -> Row] /\ row[t] \in Row
  BY Zenon DEF TickInv, TypeOK
<1>1. CASE UNCHANGED row
  BY <1>1, Zenon
<1>2. ASSUME NEW u, row' = [row EXCEPT ![u] = NoRow] PROVE row'[t].leased
  <2>1. t # u
    BY <1>0, <1>2, Zenon DEF NoRow
  <2> QED
    BY <1>0, <1>2, <2>1, Zenon
<1>3. ASSUME NEW u \in Timer, Lapse(u) PROVE row'[t].leased \/ gens'[row[t].g].lapsed
  <2>1. CASE u # t
    BY <1>0, <1>3, <2>1, Zenon DEF Lapse
  <2>2. CASE u = t
    <3>0. row[t] \in Row /\ row[t].g <= Len(gens) /\ gens \in Seq(Generation)
      BY <1>0, Zenon DEF TickInv, TypeOK
    <3>1. row[t].g \in Nat /\ row[t].g <= Len(gens) /\ Len(gens) \in Nat
      BY <3>0, Bounds, SeqShape DEF Row
    <3>2. row[t].g \in 1..Len(gens)
      BY <3>1
    <3>3. gens[row[t].g] \in Generation
      BY <3>2, GensShape, Zenon
    <3>4. gens' = [gens EXCEPT ![row[t].g] = [gens[row[t].g] EXCEPT !.lapsed = TRUE]]
      BY <1>3, <2>2, Zenon DEF Lapse
    <3>5. DOMAIN gens = 1..Len(gens)
      BY GensShape, Zenon
    <3>6. gens'[row[t].g] = [gens[row[t].g] EXCEPT !.lapsed = TRUE]
      BY <3>2, <3>4, <3>5, Zenon
    <3> QED
      BY <3>3, <3>6, Zenon DEF Generation
  <2> QED
    BY <2>1, <2>2, Zenon
<1>4. ASSUME NEW p \in Proc, NEW b, NEW good, Take(p, b, good) PROVE row'[t].leased
  <2>1. row'[t] = row[t] \/ row'[t] = [row[t] EXCEPT !.leased = TRUE]
    BY <1>4, Zenon DEF Take
  <2> QED
    BY <1>0, <2>1, Zenon DEF Row
<1>5. ASSUME NEW u \in Timer, NEW due \in Instant, Schedule(u, due) PROVE row'[t].leased
  <2>1. row[u].g = 0 /\ t # u
    BY <1>5, Zenon DEF Schedule
  <2> QED
    BY <1>0, <1>5, <2>1, Zenon DEF Schedule
<1>6. ASSUME NEW u \in Timer, Withdraw(u) PROVE row'[t].leased
  BY <1>2, <1>6, Zenon DEF Withdraw
<1>7. ASSUME NEW p \in Proc, Remove(p) PROVE row'[t].leased
  BY <1>2, <1>7, Zenon DEF Remove
<1> QED
  BY <1>1, <1>3, <1>4, <1>5, <1>6, <1>7, Zenon
     DEF Kind, Quiet, Expire, Skip, Again, Enter, Fire, Mark, GiveUp, Die, Forget

\* A position of a tick stays the only one that holds g, in its own tick.
LEMMA OnePosition ==
  ASSUME TickInv, Kind, NEW p \in Proc, NEW g, NEW i \in Nat, NEW j \in Nat,
         Held(p, i, g)', Held(p, j, g)',
         \A k, m \in Nat : Held(p, k, g) /\ Held(p, m, g) => k = m
  PROVE  i = j
<1>1. /\ i \in 1..Len(sched'[p].todo) /\ sched'[p].todo[i].g = g
      /\ j \in 1..Len(sched'[p].todo) /\ sched'[p].todo[j].g = g
  BY Zenon DEF Held
<1>2. CASE \A k \in 1..Len(sched'[p].todo) : Stays(p, k)
  BY <1>1, <1>2, Zenon DEF Held, Stays
<1>3. CASE \A k \in 1..Len(sched'[p].todo) : Shifts(p, k)
  <2>1. Held(p, i + 1, g) /\ Held(p, j + 1, g)
    BY <1>1, <1>3, Zenon DEF Held, Shifts
  <2>2. i + 1 = j + 1
    BY <2>1
  <2> QED
    BY <2>2
<1>4. ASSUME NEW b \in Batches(p), NEW good \in Decoded(b),
             \A k \in 1..Len(sched'[p].todo) : Stays(p, k) \/ Joins(p, k, good)
      PROVE  i = j
  <2>1. CASE Held(p, i, g) /\ Held(p, j, g)
    BY <2>1, Zenon
  <2>2. \/ Held(p, i, g)
        \/ \E m \in 1..Len(good) : i = Len(sched[p].todo) + m /\ good[m].g = g
    BY <1>1, <1>4, Zenon DEF Held, Stays, Joins
  <2>3. \/ Held(p, j, g)
        \/ \E m \in 1..Len(good) : j = Len(sched[p].todo) + m /\ good[m].g = g
    BY <1>1, <1>4, Zenon DEF Held, Stays, Joins
  <2>4. ASSUME NEW m \in 1..Len(good), good[m].g = g
        PROVE  /\ \A k \in Nat : ~Held(p, k, g)
               /\ \A k \in 1..Len(good) : good[k].g = g => k = m
    BY <2>4, TakenRow, SMTT(30) DEF Held
  <2> QED
    BY <2>1, <2>2, <2>3, <2>4, Zenon
<1> QED
  BY <1>2, <1>3, <1>4, TodoStep, Zenon

\* What firing does to the tick.
LEMMA FireTick ==
  ASSUME TickInv, NEW p \in Proc, Fire(p)
  PROVE  sched'[p].pc = "mark" /\ sched'[p].todo = sched[p].todo
<1>1. sched \in [Proc -> Tick] /\ sched[p] \in Tick
  BY Zenon DEF TickInv, TypeOK
<1>2. sched'[p] = [sched[p] EXCEPT !.pc = "mark", !.tries = 0]
  BY <1>1, Zenon DEF Fire
<1> QED
  BY <1>1, <1>2, Zenon DEF Tick

\* The lease invariant is inductive.
LEMMA LeaseStep ==
  ASSUME LeaseInv, [Next]_vars
  PROVE  LeaseInv'
<1>0. TickInv /\ Kind /\ TickInv' /\ Len(gens) \in Nat
  BY TickInvStep, GensShape, Zenon DEF LeaseInv
<1>1. SUFFICES ASSUME NEW g \in 1..Len(gens'), ~gens'[g].lapsed
      PROVE /\ \A p, q \in Proc : \A i, j \in Nat :
                 Held(p, i, g)' /\ Held(q, j, g)' => p = q /\ i = j
            /\ row'[gens'[g].t].g = g /\ gens'[g].fired > 0 => row'[gens'[g].t].leased
            /\ \A p \in Proc : \A i \in Nat :
                 row'[gens'[g].t].g = g /\ Held(p, i, g)' => row'[gens'[g].t].leased
            /\ \A p \in Proc : \A i \in Nat :
                 gens'[g].fired > 0 /\ Held(p, i, g)' => i = 1 /\ sched'[p].pc \in Late
            /\ gens'[g].fired < 2
  BY <1>0, Zenon DEF LeaseInv
\* A new generation is neither held nor fired.
<1>2. CASE Begun(g)
  <2>1. g = Len(gens) + 1 /\ gens'[g].fired = 0
    BY <1>2, Zenon DEF Begun
  <2>2. ASSUME NEW p \in Proc, NEW i \in Nat, Held(p, i, g)' PROVE FALSE
    <3>1. g \in 1..Len(gens)
      BY <1>0, <2>2, HeldOrigin, HeldExists, ClaimLeases, Zenon
    <3> QED
      BY <1>0, <2>1, <3>1
  <2> QED
    BY <2>1, <2>2
<1>3. CASE Untouched(g) \/ Fired(g)
  <2>0. /\ g \in 1..Len(gens) /\ ~gens[g].lapsed /\ gens'[g].t = gens[g].t
        /\ gens[g].t \in Timer /\ gens[g].fired \in 0..2 /\ g # Len(gens) + 1 /\ g # 0
    <3>1. g \in 1..Len(gens) /\ ~gens[g].lapsed
      BY <1>1, <1>3, Zenon DEF Untouched, Fired
    <3>2. gens[g] \in Generation
      BY <1>0, <3>1, GensShape, Zenon
    <3>3. gens[g].t \in Timer /\ gens[g].fired \in 0..2
      BY <3>2, Zenon DEF Generation
    <3>4. gens'[g].t = gens[g].t
      BY <1>0, <3>1, GensStep, Zenon DEF GensKept, Keeps
    <3>5. g # Len(gens) + 1 /\ g # 0
      BY <1>0, <3>1
    <3> QED
      BY <3>1, <3>3, <3>4, <3>5, Zenon
  <2> DEFINE t == gens[g].t
  <2>1. /\ \A p, q \in Proc : \A i, j \in Nat :
             Held(p, i, g) /\ Held(q, j, g) => p = q /\ i = j
        /\ row[t].g = g /\ gens[g].fired > 0 => row[t].leased
        /\ \A p \in Proc : \A i \in Nat : row[t].g = g /\ Held(p, i, g) => row[t].leased
        /\ \A p \in Proc : \A i \in Nat :
             gens[g].fired > 0 /\ Held(p, i, g) => i = 1 /\ sched[p].pc \in Late
        /\ gens[g].fired < 2
    BY <2>0, Zenon DEF LeaseInv
  <2> HIDE DEF t
  \* The handler that runs to its end holds it at its head, and fires it first.
  <2>2. ASSUME NEW p \in Proc, Fire(p), Handling(p, g)
        PROVE  Held(p, 1, g) /\ gens[g].fired = 0 /\ sched'[p].pc \in Late
    <3>1. Held(p, 1, g)
      BY <1>0, <2>2, HeadHeld, Zenon DEF Handling, Held, Busy
    <3>2. sched[p].pc \notin Late
      BY <2>2, Zenon DEF Handling, Late
    <3>3. ~(gens[g].fired > 0)
      BY <2>1, <3>1, <3>2, Zenon
    <3>4. gens[g].fired = 0
      BY <2>0, <3>3
    <3>5. sched'[p].pc = "mark"
      BY <1>0, <2>2, FireTick, Zenon
    <3> QED
      BY <3>1, <3>4, <3>5, Zenon DEF Late
  <2>3. gens'[g].fired < 2
    BY <1>3, <2>1, <2>2, SMTT(30) DEF Untouched, Fired
  \* A claim finds it neither held nor fired.
  <2>4. ASSUME NEW p \in Proc, NEW i \in Nat, Claiming(p, i, g)
        PROVE  /\ ~(gens[g].fired > 0) /\ row'[t].leased
               /\ \A q \in Proc : \A k \in Nat : ~Held(q, k, g)
    <3>1. row[t].g = g /\ ~row[t].leased /\ row'[t].leased
      BY <1>0, <2>4, ClaimLeases, SMTT(30) DEF t
    <3> QED
      BY <2>1, <3>1, Zenon
  <2>5. ASSUME NEW p \in Proc, NEW i \in Nat, Held(p, i, g)'
        PROVE  (\E k \in Nat : Held(p, k, g)) \/ Claiming(p, i, g)
    BY <1>0, <2>5, HeldOrigin, Zenon
  <2>6. ASSUME NEW p \in Proc, NEW q \in Proc, NEW i \in Nat, NEW j \in Nat,
               Held(p, i, g)', Held(q, j, g)'
        PROVE  p = q /\ i = j
    <3>1. ASSUME p # q PROVE FALSE
      <4>1. CASE \E k \in Nat : Held(p, k, g) /\ \E m \in Nat : Held(q, m, g)
        BY <2>1, <3>1, <4>1, Zenon
      <4>2. ASSUME Claiming(p, i, g) PROVE FALSE
        <5>1. sched'[q] = sched[q]
          BY <1>0, <3>1, <4>2, ClaimLeases
        <5>2. Held(q, j, g)
          BY <2>6, <5>1, Zenon DEF Held
        <5> QED
          BY <2>4, <4>2, <5>2, Zenon
      <4>3. ASSUME Claiming(q, j, g) PROVE FALSE
        <5>1. sched'[p] = sched[p]
          BY <1>0, <3>1, <4>3, ClaimLeases
        <5>2. Held(p, i, g)
          BY <2>6, <5>1, Zenon DEF Held
        <5> QED
          BY <2>4, <4>3, <5>2, Zenon
      <4> QED
        BY <2>5, <2>6, <4>1, <4>2, <4>3, Zenon
    <3>2. CASE p = q
      <4>1. \A k, m \in Nat : Held(p, k, g) /\ Held(p, m, g) => k = m
        BY <2>1, Zenon
      <4>2. Held(p, j, g)'
        BY <2>6, <3>2, Zenon
      <4> QED
        BY <1>0, <2>6, <3>2, <4>1, <4>2, OnePosition, Zenon
    <3> QED
      BY <3>1, <3>2, Zenon
  <2>7. ASSUME row[t].g = g, row[t].leased, row'[t].g = g PROVE row'[t].leased
    BY <1>0, <1>1, <2>0, <2>7, LeaseKept, Zenon DEF t
  <2>8. ASSUME row'[t].g = g PROVE row[t].g = g
    BY <1>0, <2>0, <2>8, RowStep, Zenon DEF t
  <2>9. ASSUME row'[t].g = g, gens'[g].fired > 0 PROVE row'[t].leased
    <3>1. row[t].leased
      BY <1>3, <2>1, <2>2, <2>8, <2>9, Zenon DEF Untouched, Fired
    <3> QED
      BY <2>7, <2>8, <2>9, <3>1, Zenon
  <2>10. ASSUME NEW p \in Proc, NEW i \in Nat, row'[t].g = g, Held(p, i, g)'
         PROVE  row'[t].leased
    BY <2>1, <2>4, <2>5, <2>7, <2>8, <2>10, Zenon
  <2>11. ASSUME NEW p \in Proc, NEW i \in Nat, gens'[g].fired > 0, Held(p, i, g)'
         PROVE  i = 1 /\ sched'[p].pc \in Late
    <3>1. CASE Untouched(g)
      <4>1. gens[g].fired > 0
        BY <2>11, <3>1, Zenon DEF Untouched
      <4>2. ~Claiming(p, i, g)
        BY <2>4, <4>1, Zenon
      <4>3. ASSUME i > 0, i + 1 \in Nat, Held(p, i + 1, g) PROVE FALSE
        <5>1. i + 1 = 1
          BY <2>1, <4>1, <4>3, Zenon
        <5> QED
          BY <4>3, <5>1
      <4>4. Held(p, i, g) /\ (sched[p].pc \in Late => sched'[p].pc \in Late)
        BY <1>0, <2>11, <4>2, <4>3, HeldOrigin, Zenon
      <4> QED
        BY <2>1, <4>1, <4>4, Zenon
    <3>2. CASE Fired(g)
      <4>1. PICK q \in Proc : Fire(q) /\ Handling(q, g)
        BY <3>2, Zenon DEF Fired
      <4>2. Held(q, 1, g) /\ sched'[q].pc \in Late
        BY <2>2, <4>1, Zenon
      <4>3. Held(q, 1, g)'
        <5>1. sched'[q].todo = sched[q].todo
          BY <1>0, <4>1, FireTick, Zenon
        <5> QED
          BY <4>2, <5>1, Zenon DEF Held
      <4> QED
        BY <2>6, <2>11, <4>2, <4>3, Zenon
    <3> QED
      BY <1>3, <3>1, <3>2, Zenon
  <2> QED
    BY <2>0, <2>3, <2>6, <2>9, <2>10, <2>11, Zenon DEF t
<1> QED
  BY <1>0, <1>1, <1>2, <1>3, GenStep, Zenon DEF Lapsed

\* The lease fences: however many processes poll, a timer fires a second time
\* only after a lease on it lapsed (Deadlines!FiresOncePerLease).
THEOREM OncePerLease == Spec => []FiresOncePerLease
<1>1. Init => LeaseInv
  BY TickInvInit DEF Init, LeaseInv
<1>2. LeaseInv /\ [Next]_vars => LeaseInv'
  BY LeaseStep
<1>3. LeaseInv => FiresOncePerLease
  <2> SUFFICES ASSUME LeaseInv, NEW g \in 1..Len(gens), gens[g].fired = 2
               PROVE  gens[g].lapsed
    BY Zenon DEF FiresOncePerLease
  <2>1. ~(gens[g].fired < 2)
    OBVIOUS
  <2> QED
    BY <2>1, Zenon DEF LeaseInv
<1> QED
  BY <1>1, <1>2, <1>3, PTL DEF Spec

-----------------------------------------------------------------------------
(* The epochs guard the deletes *)

\* Epoch e, by the generations G, is no reason to delete another row of timer t
\* than that of generation g or of a twin.
Guards(G, e, t, g) ==
  \/ e = 0 \/ e = G[g].due
  \/ \E h \in 1..Len(G) : G[h].t = t /\ G[h].twin /\ G[h].due = e

\* The dues tell the generations of a timer apart; the epochs that a TimerStore
\* remembers, and the one that MarkFired took, guard what the tick holds; and
\* MarkFired is for a generation that fired.
EpochInv ==
  /\ TickInv
  /\ \A g, h \in 1..Len(gens) : gens[g].t = gens[h].t /\ gens[g].due = gens[h].due => g = h
  /\ \A p \in Proc : \A i \in 1..Len(sched[p].todo) :
       Guards(gens, epochs[p][sched[p].todo[i].t], sched[p].todo[i].t, sched[p].todo[i].g)
  /\ \A p \in Proc : sched[p].pc = "delete" =>
       Guards(gens, sched[p].epoch, Head(sched[p].todo).t, Head(sched[p].todo).g)
  /\ \A p \in Proc : sched[p].pc \in Late => gens[Head(sched[p].todo).g].fired > 0
  /\ NoTimerLost

\* What guards goes on guarding.
LEMMA GuardsKept ==
  ASSUME TickInv, Kind, NEW e, NEW t, NEW g \in 1..Len(gens), Guards(gens, e, t, g)
  PROVE  Guards(gens', e, t, g)
<1>1. GensKept /\ Len(gens) \in Nat /\ Len(gens') \in Nat
  BY GensStep, GensShape, SeqShape, Zenon DEF GensKept
<1>2. \A h \in 1..Len(gens) : /\ h \in 1..Len(gens')
                              /\ gens'[h].t = gens[h].t /\ gens'[h].due = gens[h].due
                              /\ gens[h].twin => gens'[h].twin
  BY <1>1, SMTT(30) DEF GensKept, Keeps
<1> QED
  BY <1>2, Zenon DEF Guards

\* MarkFired is entered from the handler, and goes on to its delete.
LEMMA LateOrigin ==
  ASSUME TickInv, Kind, NEW p \in Proc, sched'[p].pc \in Late
  PROVE  sched'[p] = sched[p] \/ Fire(p) \/ Mark(p)
<1>0. sched \in [Proc -> Tick] /\ \A q \in Proc : sched[q] \in Tick
  BY Zenon DEF TickInv, TypeOK
<1>1. sched'[p].pc \in {"mark", "delete"}
  BY Zenon DEF Late
<1>2. ASSUME NEW q \in Proc, Skip(q) \/ Remove(q) PROVE sched'[p] = sched[p]
  <2>1. sched[q].pc \in Busy /\ sched' = [sched EXCEPT ![q] = NextTimer(sched[q])]
    BY <1>2, Zenon DEF Skip, Remove, Busy
  <2>2. sched[q].todo # <<>>
    BY <2>1, Zenon DEF TickInv
  <2>3. NextTimer(sched[q]).pc \in {"idle", "dispatch"}
    BY <1>0, <2>2, NextTimerType, Zenon
  <2> QED
    BY <1>0, <1>1, <2>1, <2>3, Zenon
<1>3. ASSUME NEW q \in Proc, Again(q) PROVE sched'[p] = sched[p]
  <2>1. sched'[q].pc = "dispatch" /\ (p # q => sched'[p] = sched[p])
    BY <1>0, <1>3, Zenon DEF Again, Tick
  <2> QED
    BY <1>1, <2>1, Zenon
<1>4. ASSUME NEW q \in Proc, Enter(q) PROVE sched'[p] = sched[p]
  <2>1. sched'[q].pc = "handle" /\ (p # q => sched'[p] = sched[p])
    BY <1>0, <1>4, Zenon DEF Enter, Tick
  <2> QED
    BY <1>1, <2>1, Zenon
<1>5. ASSUME NEW q \in Proc, GiveUp(q) \/ Taken(q) PROVE sched'[p] = sched[p]
  <2>1. PICK y \in Tick : /\ y.pc \in {"idle", "due", "dispatch"}
                          /\ sched' = [sched EXCEPT ![q] = y]
    BY <1>5, Zenon DEF GiveUp, Taken, Take
  <2> QED
    BY <1>0, <1>1, <2>1, Zenon
<1>6. ASSUME NEW q \in Proc, Die(q) PROVE sched'[p] = sched[p]
  <2>1. Idle.pc = "idle" /\ sched' = [sched EXCEPT ![q] = Idle]
    BY <1>6, Zenon DEF Die, Idle
  <2> QED
    BY <1>0, <1>1, <2>1, Zenon
<1>7. ASSUME NEW q \in Proc, Fire(q) \/ Mark(q), q # p PROVE sched'[p] = sched[p]
  BY <1>0, <1>7, Zenon DEF Fire, Mark
<1> QED
  BY <1>2, <1>3, <1>4, <1>5, <1>6, <1>7, Zenon
     DEF Kind, Quiet, Expire, Taken, Lapse, Withdraw, Schedule, Forget

\* A row is deleted by Cancel, or by MarkFired.
LEMMA RowGone ==
  ASSUME TickInv, Kind, NEW t \in Timer, row[t].g # 0, row'[t].g # row[t].g
  PROVE  Withdraw(t) \/ \E p \in Proc : Remove(p) /\ Head(sched[p].todo).t = t
<1>0. row \in [Timer -> Row] /\ \A u \in Timer : row[u] \in Row
  BY Zenon DEF TickInv, TypeOK
<1>1. ~UNCHANGED row
  OBVIOUS
<1>2. ASSUME NEW u \in Timer, Lapse(u) PROVE FALSE
  <2>1. row' = [row EXCEPT ![u] = [row[u] EXCEPT !.leased = FALSE]]
    BY <1>2, Zenon DEF Lapse
  <2>2. [row[u] EXCEPT !.leased = FALSE].g = row[u].g
    BY <1>0, Zenon DEF Row
  <2> QED
    BY <1>0, <2>1, <2>2, Zenon
<1>3. ASSUME NEW p \in Proc, NEW b, NEW good, Take(p, b, good) PROVE FALSE
  <2>1. row'[t] = row[t] \/ row'[t] = [row[t] EXCEPT !.leased = TRUE]
    BY <1>3, Zenon DEF Take
  <2>2. [row[t] EXCEPT !.leased = TRUE].g = row[t].g
    BY <1>0, Zenon DEF Row
  <2> QED
    BY <2>1, <2>2, Zenon
<1>4. ASSUME NEW u \in Timer, NEW due \in Instant, Schedule(u, due) PROVE FALSE
  BY <1>0, <1>4, Zenon DEF Schedule
<1>5. ASSUME NEW u \in Timer, Withdraw(u) PROVE u = t
  BY <1>0, <1>5, Zenon DEF Withdraw
<1>6. ASSUME NEW p \in Proc, Remove(p) PROVE Head(sched[p].todo).t = t
  BY <1>0, <1>6, Zenon DEF Remove
<1> QED
  BY <1>1, <1>2, <1>3, <1>4, <1>5, <1>6, Zenon
     DEF Kind, Quiet, Expire, Skip, Again, Enter, Fire, Mark, GiveUp, Die, Forget

\* A TimerStore forgets an epoch, or Due remembers one.
LEMMA EpochStep ==
  ASSUME TickInv, Kind, NEW p \in Proc, NEW t \in Timer
  PROVE  Taken(p) \/ epochs'[p][t] = 0 \/ epochs'[p][t] = epochs[p][t]
<1>0. epochs \in [Proc -> [Timer -> 0..MaxDue]]
  BY Zenon DEF TickInv, TypeOK
<1>1. CASE UNCHANGED epochs
  BY <1>1, Zenon
<1>2. ASSUME NEW q \in Proc, NEW u, epochs' = [epochs EXCEPT ![q] = [epochs[q] EXCEPT ![u] = 0]]
      PROVE  epochs'[p][t] = 0 \/ epochs'[p][t] = epochs[p][t]
  <2>1. epochs'[p] = epochs[p] \/ epochs'[p] = [epochs[p] EXCEPT ![u] = 0]
    BY <1>0, <1>2, Zenon
  <2>2. epochs[p] \in [Timer -> 0..MaxDue]
    BY <1>0, Zenon
  <2> QED
    BY <2>1, <2>2, Zenon
<1>3. ASSUME NEW q \in Proc, Die(q) PROVE epochs'[p][t] = 0 \/ epochs'[p][t] = epochs[p][t]
  BY <1>0, <1>3, Zenon DEF Die
<1>4. ASSUME NEW q \in Proc, Taken(q) PROVE Taken(p) \/ epochs'[p][t] = epochs[p][t]
  <2>1. PICK b, good : Take(q, b, good)
    BY <1>4, Zenon DEF Taken
  <2>2. ASSUME q # p PROVE epochs'[p] = epochs[p]
    BY <1>0, <2>1, <2>2, Zenon DEF Take
  <2> QED
    BY <1>4, <2>2, Zenon
<1>5. ASSUME NEW q \in Proc, Mark(q) PROVE epochs'[p][t] = 0 \/ epochs'[p][t] = epochs[p][t]
  BY <1>2, <1>5, Zenon DEF Mark
<1>6. ASSUME NEW q \in Proc, NEW u \in Timer, Forget(q, u)
      PROVE  epochs'[p][t] = 0 \/ epochs'[p][t] = epochs[p][t]
  BY <1>2, <1>6, Zenon DEF Forget
<1> QED
  BY <1>1, <1>3, <1>4, <1>5, <1>6, Zenon
     DEF Kind, Quiet, Expire, Taken, Skip, Again, Enter, Fire, Remove, GiveUp, Lapse, Withdraw, Schedule

\* The epochs that Due remembers guard: of the timers it claims, and of the
\* twins before them.
LEMMA TakeGuards ==
  ASSUME EpochInv, Kind, NEW p \in Proc, NEW b \in Batches(p), NEW good \in Decoded(b),
         Take(p, b, good), NEW i \in 1..Len(sched'[p].todo)
  PROVE  Guards(gens', epochs'[p][sched'[p].todo[i].t], sched'[p].todo[i].t,
                sched'[p].todo[i].g)
<1> DEFINE c == sched'[p].todo[i]
           t == c.t
<1>0. TickInv /\ sched[p] \in Tick /\ sched[p].todo \in Seq(Claimed) /\ good \in Seq(Claimed)
  BY DecodedType, Zenon DEF EpochInv, TickInv, TypeOK, Tick
<1>1. sched'[p].todo = sched[p].todo \o good
  BY <1>0, Zenon DEF Take, TickInv, TypeOK
<1>2. \/ i \in 1..Len(sched[p].todo) /\ c = sched[p].todo[i]
      \/ \E j \in 1..Len(good) : c = good[j]
  <2> DEFINE s == sched[p].todo
  <2>1. Joined(s, good)
    <3>1. s \in Seq(Claimed) /\ good \in Seq(Claimed)
      BY <1>0, Zenon
    <3> HIDE DEF s
    <3> QED
      BY <3>1, ConcatHolds, Zenon
  <2>2. i \in 1..Len(s \o good) /\ c = (s \o good)[i]
    BY <1>1, Zenon
  <2> HIDE DEF c, s
  <2>3. i \in 1..Len(s) \/ \E j \in 1..Len(good) : i = Len(s) + j
    BY <2>1, <2>2, Zenon DEF Joined
  <2>4. (i \in 1..Len(s) /\ c = s[i]) \/ \E j \in 1..Len(good) : c = good[j]
    BY <2>1, <2>2, <2>3, Zenon DEF Joined
  <2> QED
    BY <2>4, Zenon DEF s
<1> HIDE DEF c
<1>3. ASSUME NEW u \in Timer
      PROVE  epochs'[p][u] = IF \E k \in DOMAIN good : good[k].t = u THEN row[u].due
                                                                    ELSE epochs[p][u]
  BY <1>0, <1>3, Zenon DEF Take, TickInv, TypeOK
<1>4. /\ GensKept /\ Len(gens) \in Nat /\ Len(gens') \in Nat
      /\ DOMAIN gens = 1..Len(gens) /\ DOMAIN good = 1..Len(good)
      /\ DOMAIN sched[p].todo = 1..Len(sched[p].todo)
  BY <1>0, GensStep, SeqShape, Zenon DEF GensKept, TickInv, TypeOK
\* A timer of the batch.
<1>5. ASSUME NEW j \in 1..Len(good)
      PROVE  /\ good[j].t \in Timer /\ epochs'[p][good[j].t] = row[good[j].t].due
             /\ good[j].g = row[good[j].t].g /\ good[j].g \in 1..Len(gens)
             /\ good[j].g \in 1..Len(gens')
             /\ gens'[good[j].g].t = good[j].t
             /\ gens'[good[j].g].due = row[good[j].t].due
  <2>1. /\ good[j].t \in Timer /\ good[j].g = row[good[j].t].g
        /\ good[j].g \in 1..Len(gens) /\ gens[good[j].g].t = good[j].t
        /\ gens[good[j].g].due = row[good[j].t].due
    BY <1>0, TakenRow, SMTT(30)
  <2>2. epochs'[p][good[j].t] = row[good[j].t].due
    BY <1>3, <1>4, <2>1, Zenon
  <2>3. /\ good[j].g \in 1..Len(gens')
        /\ gens'[good[j].g].t = good[j].t
        /\ gens'[good[j].g].due = row[good[j].t].due
    <3>1. Keeps(gens[good[j].g], gens'[good[j].g])
      BY <1>4, <2>1, Zenon DEF GensKept
    <3>2. good[j].g \in 1..Len(gens')
      BY <1>4, <2>1, SMTT(30) DEF GensKept
    <3> QED
      BY <2>1, <3>1, <3>2, Zenon DEF Keeps
  <2> QED
    BY <2>1, <2>2, <2>3, Zenon
<1>6. CASE \E j \in 1..Len(good) : c = good[j]
  BY <1>5, <1>6, Zenon DEF Guards, c
<1>7. CASE i \in 1..Len(sched[p].todo) /\ c = sched[p].todo[i]
  <2>1. c \in Claimed /\ t \in Timer /\ c.g \in 1..Len(gens)
    <3>1. c \in Claimed
      BY <1>0, <1>7, SeqShape, Zenon
    <3> QED
      BY <1>0, <1>7, <3>1, Zenon DEF Claimed, TickInv
  <2>2. CASE \E j \in 1..Len(good) : good[j].t = t
    <3>1. PICK j \in 1..Len(good) : good[j].t = t
      BY <2>2, Zenon
    <3> DEFINE h == good[j].g
    <3>2. /\ epochs'[p][t] = row[t].due /\ h \in 1..Len(gens) /\ h \in 1..Len(gens')
          /\ gens'[h].t = t /\ gens'[h].due = row[t].due /\ gens[h].t = t
      <4>1. gens[good[j].g].t = good[j].t
        BY <1>0, TakenRow, SMTT(30)
      <4> QED
        BY <1>5, <3>1, <4>1, Zenon
    <3>3. Twin(p, good, h)
      BY <1>4, <1>7, <3>2, Zenon DEF Twin
    <3>4. gens'[h] = [gens[h] EXCEPT !.twin = gens[h].twin \/ Twin(p, good, h)]
      BY <1>4, <3>2, Zenon DEF Take
    <3>5. gens[h] \in Generation
      BY <1>0, <3>2, GensShape, Zenon
    <3>6. gens'[h].twin
      BY <3>3, <3>4, <3>5, Zenon DEF Generation
    <3> QED
      BY <3>2, <3>6, Zenon DEF Guards, c
  <2>3. CASE ~\E j \in 1..Len(good) : good[j].t = t
    <3>1. epochs'[p][t] = epochs[p][t]
      BY <1>3, <1>4, <2>1, <2>3, Zenon
    <3>2. Guards(gens, epochs[p][t], t, c.g)
      BY <1>7, Zenon DEF EpochInv
    <3>3. Guards(gens', epochs[p][t], t, c.g)
      BY <1>0, <2>1, <3>2, GuardsKept, Zenon
    <3> QED
      BY <3>1, <3>3, Zenon DEF c
  <2> QED
    BY <2>2, <2>3, Zenon
<1> QED
  BY <1>2, <1>6, <1>7, Zenon

\* The epoch invariant is inductive.
LEMMA EpochInvStep ==
  ASSUME FreshDue, EpochInv, [Next]_vars
  PROVE  EpochInv'
<1>0. /\ TickInv /\ Kind /\ TickInv' /\ GensKept /\ Len(gens) \in Nat /\ Len(gens') \in Nat
      /\ \A g \in 1..Len(gens) : gens[g] \in Generation
  BY TickInvStep, GensStep, GensShape, SeqShape, Zenon DEF EpochInv, GensKept
<1>1. \A g \in 1..Len(gens) : /\ g \in 1..Len(gens') /\ Keeps(gens[g], gens'[g])
                              /\ gens[g].t \in Timer /\ gens[g].due \in Instant
                              /\ gens[g].fired \in Nat /\ gens'[g].fired \in Nat
  <2>1. \A g \in 1..Len(gens) : gens[g].t \in Timer /\ gens[g].due \in Instant /\ gens[g].fired \in 0..2
    BY <1>0, Zenon DEF Generation
  <2>2. \A g \in 1..Len(gens) : g \in 1..Len(gens') /\ Keeps(gens[g], gens'[g])
    BY <1>0 DEF GensKept
  <2>3. \A g \in 1..Len(gens') : gens'[g] \in Generation
    BY <1>0, SeqShape, Zenon DEF GensKept
  <2>4. \A g \in 1..Len(gens') : gens'[g].fired \in 0..2
    BY <2>3, Zenon DEF Generation
  <2>5. 0..2 \subseteq Nat
    OBVIOUS
  <2> QED
    BY <2>1, <2>2, <2>4, <2>5, Zenon
<1>2. \A g \in 1..Len(gens') : g \in 1..Len(gens) \/ Begun(g)
  BY <1>0, GenStep, Zenon DEF Untouched, Fired, Lapsed
\* The dues stay different.
<1>3. ASSUME NEW g \in 1..Len(gens'), NEW h \in 1..Len(gens'),
             gens'[g].t = gens'[h].t, gens'[g].due = gens'[h].due
      PROVE  g = h
  <2>1. CASE g \in 1..Len(gens) /\ h \in 1..Len(gens)
    <3>1. gens[g].t = gens[h].t /\ gens[g].due = gens[h].due
      BY <1>1, <1>3, <2>1, Zenon DEF Keeps
    <3> QED
      BY <2>1, <3>1, Zenon DEF EpochInv
  <2>2. ASSUME NEW x \in 1..Len(gens), NEW y \in 1..Len(gens'), Begun(y),
               gens'[x].t = gens'[y].t, gens'[x].due = gens'[y].due
        PROVE  FALSE
    <3>1. gens[x].t = gens'[y].t /\ gens[x].due = gens'[y].due
      BY <1>1, <2>2, Zenon DEF Keeps
    <3> QED
      BY <2>2, <3>1, Zenon DEF Begun
  <2>3. CASE Begun(g) /\ Begun(h)
    BY <2>3, Zenon DEF Begun
  <2> QED
    BY <1>2, <1>3, <2>1, <2>2, <2>3, Zenon
\* What the TimerStores remember.
<1>4. ASSUME NEW p \in Proc, NEW i \in 1..Len(sched'[p].todo)
      PROVE  Guards(gens', epochs'[p][sched'[p].todo[i].t], sched'[p].todo[i].t,
                    sched'[p].todo[i].g)
  <2>1. CASE Taken(p)
    <3>1. PICK b \in Batches(p) : \E good \in Decoded(b) : Take(p, b, good)
      BY <2>1, Zenon DEF Taken
    <3>2. PICK good \in Decoded(b) : Take(p, b, good)
      BY <3>1, Zenon
    <3> QED
      BY <1>0, <3>2, TakeGuards, Zenon
  <2>2. CASE ~Taken(p)
    <3>1. PICK k \in 1..Len(sched[p].todo) : sched'[p].todo[i] = sched[p].todo[k]
      BY <1>0, <2>2, TodoOrigin, Zenon DEF Taken, Stays, Shifts
    <3> DEFINE c == sched[p].todo[k]
    <3>2. c \in Claimed
      <4>1. sched[p] \in Tick
        BY <1>0, Zenon DEF TickInv, TypeOK
      <4>2. sched[p].todo \in Seq(Claimed)
        BY <4>1, Zenon DEF Tick
      <4> QED
        BY <4>2, SeqShape, Zenon
    <3>3. c.t \in Timer /\ c.g \in 1..Len(gens) /\ Guards(gens, epochs[p][c.t], c.t, c.g)
      BY <1>0, <3>2, Zenon DEF EpochInv, TickInv, Claimed
    <3>4. Guards(gens', epochs[p][c.t], c.t, c.g)
      BY <1>0, <3>3, GuardsKept, Zenon
    <3>5. epochs'[p][c.t] = 0 \/ epochs'[p][c.t] = epochs[p][c.t]
      BY <1>0, <2>2, <3>3, EpochStep, Zenon
    <3>6. Guards(gens', epochs'[p][c.t], c.t, c.g)
      BY <3>4, <3>5, Zenon DEF Guards
    <3> QED
      BY <3>1, <3>6, Zenon
  <2> QED
    BY <2>1, <2>2, Zenon
\* MarkFired.
<1>5. ASSUME NEW p \in Proc, sched[p].pc \in Late
      PROVE  /\ Head(sched[p].todo).g \in 1..Len(gens)
             /\ gens'[Head(sched[p].todo).g].fired > 0
  <2>1. Head(sched[p].todo).g \in 1..Len(gens)
    BY <1>0, <1>5, HeadHeld, Zenon DEF Late, Busy
  <2>2. gens[Head(sched[p].todo).g].fired > 0
    BY <1>5, Zenon DEF EpochInv
  <2> QED
    <3>1. gens[Head(sched[p].todo).g].fired <= gens'[Head(sched[p].todo).g].fired
      BY <1>1, <2>1, Zenon DEF Keeps
    <3>2. /\ gens[Head(sched[p].todo).g].fired \in Nat
          /\ gens'[Head(sched[p].todo).g].fired \in Nat
      <4>1. /\ gens[Head(sched[p].todo).g] \in Generation
            /\ Head(sched[p].todo).g \in 1..Len(gens')
        BY <1>0, <1>1, <2>1, Zenon
      <4>2. gens'[Head(sched[p].todo).g] \in Generation
        BY <1>0, <4>1, SeqShape, Zenon DEF GensKept
      <4>3. \A x \in Generation : x.fired \in Nat
        BY DEF Generation
      <4> QED
        BY <4>1, <4>2, <4>3, Zenon
    <3>3. \A m, n \in Nat : m > 0 /\ m <= n => n > 0
      OBVIOUS
    <3> QED
      BY <2>1, <2>2, <3>1, <3>2, <3>3, Zenon
<1>6. ASSUME NEW p \in Proc, Mark(p)
      PROVE  /\ sched'[p].pc = "delete" /\ sched'[p].todo = sched[p].todo
             /\ sched'[p].epoch = epochs[p][Head(sched[p].todo).t]
             /\ sched[p].pc \in Late
  <2>1. sched \in [Proc -> Tick] /\ sched[p] \in Tick
    BY <1>0, Zenon DEF TickInv, TypeOK
  <2>2. /\ sched'[p] = [sched[p] EXCEPT !.pc = "delete",
                                        !.epoch = epochs[p][Head(sched[p].todo).t]]
        /\ sched[p].pc = "mark"
    BY <1>6, <2>1, Zenon DEF Mark
  <2> QED
    BY <2>1, <2>2, Zenon DEF Tick, Late
<1>7. ASSUME NEW p \in Proc, sched'[p].pc = "delete"
      PROVE  Guards(gens', sched'[p].epoch, Head(sched'[p].todo).t, Head(sched'[p].todo).g)
  <2> DEFINE c == Head(sched[p].todo)
  <2>1. CASE sched'[p] = sched[p]
    <3>1. Guards(gens, sched[p].epoch, c.t, c.g) /\ c.g \in 1..Len(gens)
      BY <1>5, <1>7, <2>1, Zenon DEF EpochInv, Late
    <3>2. Guards(gens', sched[p].epoch, c.t, c.g)
      BY <1>0, <3>1, GuardsKept, Zenon
    <3> QED
      BY <2>1, <3>2, Zenon
  <2>2. CASE Mark(p)
    <3>1. sched[p].pc \in Busy
      BY <1>6, <2>2, Zenon DEF Late, Busy
    <3>2. c = sched[p].todo[1] /\ 1 \in 1..Len(sched[p].todo) /\ c.g \in 1..Len(gens)
      BY <1>0, <3>1, HeadHeld, Zenon
    <3>3. Guards(gens, epochs[p][c.t], c.t, c.g)
      BY <3>2, Zenon DEF EpochInv
    <3>4. Guards(gens', epochs[p][c.t], c.t, c.g)
      BY <1>0, <3>2, <3>3, GuardsKept, Zenon
    <3> QED
      BY <1>6, <2>2, <3>4, Zenon
  <2>3. ~Fire(p)
    BY <1>0, <1>7, FireTick, Zenon
  <2> QED
    BY <1>0, <1>7, <2>1, <2>2, <2>3, LateOrigin, Zenon DEF Late
<1>8. ASSUME NEW p \in Proc, sched'[p].pc \in Late
      PROVE  gens'[Head(sched'[p].todo).g].fired > 0
  <2>1. CASE sched'[p] = sched[p]
    BY <1>5, <1>8, <2>1, Zenon
  <2>2. CASE Mark(p)
    BY <1>5, <1>6, <2>2, Zenon
  <2>3. CASE Fire(p)
    <3> DEFINE g == Head(sched[p].todo).g
    <3>1. g \in 1..Len(gens) /\ sched'[p].todo = sched[p].todo
      BY <1>0, <2>3, HeadHeld, FireTick, Zenon DEF Fire, Busy
    <3>2. gens'[g] = [gens[g] EXCEPT !.fired = IF gens[g].fired = 0 THEN 1 ELSE 2]
      <4>1. g \in DOMAIN gens
        BY <1>0, <3>1, GensShape, Zenon
      <4> QED
        BY <2>3, <4>1, Zenon DEF Fire
    <3>3. gens'[g].fired \in {1, 2}
      BY <1>0, <3>1, <3>2, Zenon DEF Generation
    <3> QED
      BY <3>1, <3>3, SMTT(30)
  <2> QED
    BY <1>0, <1>8, <2>1, <2>2, <2>3, LateOrigin, Zenon
\* The rows.
<1>9. ASSUME NEW g \in 1..Len(gens') PROVE Settled(gens'[g]) \/ row'[gens'[g].t].g = g
  <2>1. CASE Begun(g)
    BY <2>1, Zenon DEF Begun
  <2>2. CASE g \in 1..Len(gens) /\ Settled(gens[g])
    BY <1>1, <2>2, SMTT(30) DEF Settled, Keeps
  <2>3. CASE g \in 1..Len(gens) /\ row[gens[g].t].g = g
    <3> DEFINE t == gens[g].t
    <3>1. t \in Timer /\ gens'[g].t = t /\ row[t].g # 0
      BY <1>0, <1>1, <2>3, SMTT(30) DEF Keeps
    <3>2. ASSUME Withdraw(t) PROVE Settled(gens'[g])
      <4>0. g \in DOMAIN gens
        BY <1>0, <2>3, GensShape, Zenon
      <4>1. gens'[g] = [gens[g] EXCEPT !.cancelled = TRUE]
        BY <2>3, <3>2, <4>0, Zenon DEF Withdraw
      <4>2. gens'[g].cancelled
        BY <1>0, <2>3, <4>1, Zenon DEF Generation
      <4> QED
        BY <4>2, Zenon DEF Settled
    <3>3. ASSUME NEW p \in Proc, Remove(p), Head(sched[p].todo).t = t
          PROVE  Settled(gens'[g])
      <4> DEFINE c == Head(sched[p].todo)
      <4>1. sched[p].pc = "delete" /\ row[t].due = sched[p].epoch
        BY <3>3, Zenon DEF Remove
      <4>2. gens[g].due = sched[p].epoch /\ gens[g].due # 0
        <5>1. row[t].due = gens[row[t].g].due
          BY <1>0, <3>1, Zenon DEF TickInv
        <5>2. gens[g].due \in 1..MaxDue
          BY <1>1, <2>3, Zenon DEF Instant
        <5> QED
          BY <2>3, <4>1, <5>1, <5>2, Bounds
      <4>3. /\ c.g \in 1..Len(gens) /\ gens[c.g].t = c.t
        BY <1>0, <4>1, HeadHeld, Zenon DEF Busy
      <4>4. Guards(gens, sched[p].epoch, c.t, c.g) /\ gens[c.g].fired > 0
        BY <4>1, Zenon DEF EpochInv, Late
      <4>5. CASE sched[p].epoch = gens[c.g].due
        <5>1. c.g = g
          BY <2>3, <3>3, <4>2, <4>3, <4>5, Zenon DEF EpochInv
        <5> QED
          BY <1>1, <2>3, <4>4, <5>1, SMTT(30) DEF Settled, Keeps
      <4>6. ASSUME NEW h \in 1..Len(gens), gens[h].t = c.t, gens[h].twin,
                   gens[h].due = sched[p].epoch
            PROVE  Settled(gens'[g])
        <5>1. h = g
          BY <2>3, <3>3, <4>2, <4>6, Zenon DEF EpochInv
        <5> QED
          BY <1>1, <4>6, <5>1, Zenon DEF Settled, Keeps
      <4> QED
        BY <4>2, <4>4, <4>5, <4>6, Zenon DEF Guards
    <3>4. CASE row'[t].g = row[t].g
      BY <2>3, <3>1, <3>4, Zenon
    <3> QED
      BY <1>0, <3>1, <3>2, <3>3, <3>4, RowGone, Zenon
  <2> QED
    BY <1>2, <2>1, <2>2, <2>3, Zenon DEF EpochInv, NoTimerLost
<1>10. NoTimerLost'
  BY <1>9, Zenon DEF NoTimerLost
<1> QED
  BY <1>0, <1>3, <1>4, <1>7, <1>8, <1>10, Zenon DEF EpochInv

\* "a stale MarkFired for generation N cannot delete a re-scheduled generation
\* N+1 scheduled under the same ID": as long as a timer never gets the same
\* FireAt again, a generation whose row is gone fired, was cancelled, or is a
\* twin (Deadlines!NoTimerLost), whatever crashes, fails or lapses.
THEOREM TimersKept == FreshDue => (Spec => []NoTimerLost)
<1> SUFFICES ASSUME FreshDue PROVE Spec => []NoTimerLost
  OBVIOUS
<1>1. Init => EpochInv
  <2> SUFFICES ASSUME Init PROVE EpochInv
    OBVIOUS
  <2>1. TickInv
    BY TickInvInit, Zenon
  <2>2. /\ Len(gens) = 0
        /\ \A p \in Proc : sched[p].pc = "idle" /\ Len(sched[p].todo) = 0
    BY Zenon DEF Init, Idle
  <2>3. 1..0 = {}
    OBVIOUS
  <2>4. \A p \in Proc : sched[p].pc \notin Late
    BY <2>2, Zenon DEF Late
  <2> QED
    BY <2>1, <2>2, <2>3, <2>4, Zenon DEF EpochInv, NoTimerLost
<1>2. EpochInv /\ [Next]_vars => EpochInv'
  BY EpochInvStep, Zenon
<1>3. EpochInv => NoTimerLost
  BY Zenon DEF EpochInv
<1> QED
  BY <1>1, <1>2, <1>3, PTL DEF Spec
=============================================================================
