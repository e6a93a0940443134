------------------------- MODULE RepositoryCallers --------------------------
(***************************************************************************)
(* What a caller of Repository.tla may rely on, proved: it reads its own   *)
(* writes unless it shares its loads; an execute that returned without an  *)
(* error is saved and announced; what is announced was saved, and is       *)
(* announced once; a snapshot is never replaced by an older one.           *)
(*                                                                         *)
(* OwnWritesRead needs that what a caller wrote is in the stream (a stream *)
(* never gets shorter), that such a caller is in no flight, and, from      *)
(* HistoryInv, that a cached or snapshotted state is behind the stream by  *)
(* exactly the tail that is folded onto it (ReadInv).  The announcements   *)
(* need what each caller still owes to the bus, and that two callers which *)
(* are about to publish owe different events (PubInv).                     *)
(***************************************************************************)
EXTENDS RepositoryProofs

-----------------------------------------------------------------------------
(* Read your own writes *)

\* The local variables l of a caller that wrote w are not behind its writes.
Current(l, w) ==
  /\ l.pc \notin {"lead", "land", "landErr", "wait"}
  /\ l.pc \in {"cachePut", "loaded"} => l.ver >= w[l.s]

\* The inductive invariant, on top of HistoryInv.
ReadInv ==
  /\ \A c \in Client, s \in Stream : wrote[c][s] <= Len(stream[s])
  /\ \A c \in Client \ Coalescing : Current(client[c], wrote[c])

-----------------------------------------------------------------------------
(* What a step leaves alone *)

\* No step makes a stream shorter.
LEMMA LenGrows ==
  ASSUME HistoryInv, [Next]_vars, NEW s \in Stream
  PROVE  /\ Len(stream[s]) \in Nat /\ Len(stream'[s]) \in Nat
         /\ Len(stream[s]) <= Len(stream'[s])
<1>1. TypeOK /\ stream \in [Stream -> State] /\ Len(stream[s]) \in Nat
  BY WholeHistory, Zenon DEF HistoryInv, TypeOK
<1>2. ASSUME NEW t \in Stream, NEW b \in State, stream' = [stream EXCEPT ![t] = @ \o b]
      PROVE  Len(stream'[s]) \in Nat /\ Len(stream[s]) <= Len(stream'[s])
  <2>1. /\ Len(stream[s] \o b) = Len(stream[s]) + Len(b) /\ Len(b) \in Nat
    BY <1>1, ConcatType, WholeHistory, Zenon
  <2>2. stream'[s] = stream[s] \o b \/ stream'[s] = stream[s]
    BY <1>1, <1>2, Zenon
  <2> QED
    BY <1>1, <2>1, <2>2
<1>3. ASSUME NEW c \in Client, Save(c), client'[c].pc = "publish"
      PROVE  Len(stream'[s]) \in Nat /\ Len(stream[s]) <= Len(stream'[s])
  <2>1. client[c].s \in Stream /\ client[c].batch \in State
    BY <1>1, LocalFields, Zenon
  <2>2. stream' = [stream EXCEPT ![client[c].s] = @ \o client[c].batch]
    BY <1>3, SaveOnCurrent, Zenon
  <2> QED
    BY <1>2, <2>1, <2>2, Zenon
<1>4. ASSUME NEW t \in Stream, NEW ok \in BOOLEAN, OtherSave(t, ok)
      PROVE  Len(stream'[s]) \in Nat /\ Len(stream[s]) <= Len(stream'[s])
  <2>1. <<ok>> \in Seq(BOOLEAN) /\ Len(stream[t]) \in Nat /\ Other \in Client \cup {Other}
    BY <1>1, SingletonSeq, WholeHistory, Zenon
  <2>2. NewEvents(Other, Len(stream[t]), <<ok>>) \in State
    BY <2>1, NewEventsType, Zenon
  <2>3. stream' = [stream EXCEPT ![t] = @ \o NewEvents(Other, Len(stream[t]), <<ok>>)]
    BY <1>4, Zenon DEF OtherSave
  <2> QED
    BY <1>2, <2>2, <2>3, Zenon
<1>5. CASE UNCHANGED stream
  BY <1>1, <1>5
<1> QED
  BY <1>1, <1>3, <1>4, <1>5, StreamSteps, Zenon

\* A step of one caller moves no other, but for those that wait on its flight.
LEMMA OthersStay ==
  ASSUME TypeOK, NEW c \in Client, Step(c), NEW d \in Client, d # c,
         client[d].pc = "wait" => ~FlightLand(c)
  PROVE  client'[d] = client[d] /\ wrote'[d] = wrote[d]
<1>1. ASSUME NEW l, client' = [client EXCEPT ![c] = l] PROVE client'[d] = client[d]
  BY <1>1, Zenon DEF TypeOK
<1>2. Return(c) => client'[d] = client[d]
  BY <1>1, Zenon DEF Return
<1>3. \A pc : Goto(c, pc) => client'[d] = client[d]
  BY Zenon DEF Goto, TypeOK
<1>4. Finish(c) => client'[d] = client[d] /\ wrote'[d] = wrote[d]
  BY <1>2, Zenon DEF Finish, TypeOK
<1>5. AfterSnapshot(c) => client'[d] = client[d] /\ wrote'[d] = wrote[d]
  BY <1>3, <1>4, Zenon DEF AfterSnapshot
<1>6. CASE CacheGet(c) \/ CacheTail(c) \/ CacheDrop(c) \/ SnapLoad(c) \/ SnapTail(c)
  BY <1>1, <1>2, <1>3, <1>6, Zenon DEF CacheGet, CacheTail, CacheDrop, SnapLoad, SnapTail
<1>7. CASE StoreLoad(c) \/ Join(c) \/ FlightRead(c) \/ CachePut(c) \/ LoadReturn(c)
  BY <1>1, <1>2, <1>3, <1>7, Zenon DEF StoreLoad, Join, FlightRead, CachePut, LoadReturn
<1>8. CASE FlightLand(c)
  BY <1>8, Zenon DEF FlightLand
<1>9. CASE Decide(c)
  <2>1. Return(c) \/ client'[d] = client[d]
    BY <1>9, Zenon DEF Decide, TypeOK
  <2> QED
    BY <1>2, <1>9, <2>1, Zenon DEF Decide
<1>10. CASE Save(c) \/ Publish(c) \/ SnapSave(c) \/ Recache(c)
  BY <1>2, <1>3, <1>4, <1>5, <1>10, Zenon DEF Save, Publish, SnapSave, Recache
<1> QED
  BY <1>6, <1>7, <1>8, <1>9, <1>10, Zenon DEF Step

-----------------------------------------------------------------------------
(* The invariant *)

\* A caller whose call ends is not behind.
LEMMA IdleCurrent == ASSUME NEW s, NEW w PROVE Current(Idle(s), w)
BY Zenon DEF Current, Idle

\* Neither is one that loaded the whole stream.
LEMMA LoadedCurrent ==
  ASSUME NEW l \in Local, NEW pc \in {"cachePut", "loaded"}, NEW st, NEW v, NEW w,
         v >= w[l.s]
  PROVE  Current(Loaded(l, pc, st, v), w)
BY Zenon DEF Current, Loaded, Local

\* A caller that goes on without a state, or with the one it has.
LEMMA GotoCurrent ==
  ASSUME TypeOK, NEW c \in Client, NEW pc \in PC, Goto(c, pc), NEW w,
         pc \notin {"lead", "land", "landErr", "wait"},
         pc \in {"cachePut", "loaded"} => client[c].ver >= w[client[c].s]
  PROVE  Current(client'[c], w)
<1>1. client'[c] = [client[c] EXCEPT !.pc = pc] /\ client[c] \in Local
  BY Zenon DEF Goto, TypeOK
<1>2. /\ client'[c].pc = pc /\ client'[c].s = client[c].s
      /\ client'[c].ver = client[c].ver
  BY <1>1, Zenon DEF Local
<1> QED
  BY <1>2, Zenon DEF Current

\* The call of a caller ends.
LEMMA ReturnCurrent ==
  ASSUME TypeOK, NEW c \in Client, Return(c), NEW w
  PROVE  Current(client'[c], w)
<1>1. client'[c] = Idle(client[c].s)
  BY Zenon DEF Return, TypeOK
<1> QED
  BY <1>1, IdleCurrent, Zenon

\* The load of a caller that shares none ends at the length of the stream.
LEMMA LoadStep ==
  ASSUME HistoryInv, ReadInv, NEW c \in Client \ Coalescing,
         \/ CacheGet(c) \/ CacheTail(c) \/ CacheDrop(c) \/ SnapLoad(c) \/ SnapTail(c)
         \/ StoreLoad(c) \/ CachePut(c)
  PROVE  Current(client'[c], wrote'[c])
<1> DEFINE l == client[c]
           q == stream[l.s]
           w == wrote[c]
<1>0. TypeOK
  BY Zenon DEF HistoryInv
<1>1. /\ l \in Local /\ l.s \in Stream /\ l.ver \in Nat /\ q \in State /\ Len(q) \in Nat
      /\ w[l.s] \in Nat /\ w[l.s] <= Len(q) /\ c \in Client
  BY <1>0, LocalFields DEF TypeOK, ReadInv
<1>2. wrote' = wrote
  BY Zenon DEF CacheGet, CacheTail, CacheDrop, SnapLoad, SnapTail, StoreLoad, CachePut
<1>3. Current(l, w)
  BY Zenon DEF ReadInv
<1>4. l.pc \in {"cacheTail", "snapTail"} => HistoryOf(q, l.st, l.ver)
  BY Zenon DEF HistoryInv, CallersHeld, SoundIn, Holding
<1>5. AfterCache \in PC \ {"lead", "land", "landErr", "wait", "cachePut", "loaded"}
  BY Zenon DEF AfterCache, PC
<1>6. AfterLoad \in {"cachePut", "loaded"}
  BY Zenon DEF AfterLoad
<1>7. ASSUME NEW x, client' = [client EXCEPT ![c] = x] PROVE client'[c] = x
  BY <1>0, <1>1, <1>7, Zenon DEF TypeOK
<1>8. ASSUME NEW pc \in PC \ {"lead", "land", "landErr", "wait", "cachePut", "loaded"},
             NEW st, NEW v
      PROVE  Current(Loaded(l, pc, st, v), w)
  BY <1>1, <1>8, Zenon DEF Current, Loaded, Local
<1>9. l.pc \in {"cacheTail", "snapTail"} => l.ver + Len(SliceFromVersion(q, l.ver)) = Len(q)
  BY <1>1, <1>4, CatchUp, Zenon
<1> HIDE DEF l, q, w
<1>10. CASE CacheGet(c)
  <2>1. "cacheTail" \in PC \ {"lead", "land", "landErr", "wait", "cachePut", "loaded"}
    BY Zenon DEF PC
  <2>2. CASE Goto(c, AfterCache)
    BY <1>0, <1>1, <1>2, <1>5, <2>2, GotoCurrent, Zenon
  <2>3. CASE client' = [client EXCEPT ![c] =
                Loaded(l, "cacheTail", cache[l.s].st, cache[l.s].ver)]
    <3>1. Current(Loaded(l, "cacheTail", cache[l.s].st, cache[l.s].ver), w)
      BY <1>8, <2>1, Zenon
    <3> QED
      BY <1>2, <1>7, <2>3, <3>1, Zenon DEF w
  <2>4. CASE cache[l.s].ok
    <3>1. client' = [client EXCEPT ![c] =
                Loaded(l, "cacheTail", cache[l.s].st, cache[l.s].ver)]
      BY <1>10, <2>4, Zenon DEF CacheGet, l
    <3> QED
      BY <2>3, <3>1, Zenon
  <2>5. CASE ~cache[l.s].ok
    <3>1. Goto(c, AfterCache)
      BY <1>10, <2>5, Zenon DEF CacheGet, Goto, l
    <3> QED
      BY <2>2, <3>1, Zenon
  <2> QED
    BY <2>4, <2>5, Zenon
<1>11. CASE CacheTail(c)
  <2>1. CASE Goto(c, "cacheDrop")
    BY <1>0, <1>1, <1>2, <2>1, GotoCurrent, Zenon DEF PC
  <2>2. CASE SliceFromVersion(q, l.ver) = <<>> /\ Goto(c, "loaded")
    <3>1. l.ver = Len(q)
      <4>1. Len(SliceFromVersion(q, l.ver)) = 0
        BY <2>2
      <4> QED
        BY <1>1, <1>9, <1>11, <4>1, SMTT(30) DEF CacheTail, l
    <3> QED
      BY <1>0, <1>1, <1>2, <2>2, <3>1, GotoCurrent, Zenon DEF PC, l, w
  <2>3. CASE client' = [client EXCEPT ![c] =
                Loaded(@, "cachePut", l.st \o SliceFromVersion(q, l.ver),
                       l.ver + Len(SliceFromVersion(q, l.ver)))]
    <3>1. l.ver + Len(SliceFromVersion(q, l.ver)) >= w[l.s]
      BY <1>1, <1>9, <1>11, Zenon DEF CacheTail, l
    <3> QED
      BY <1>1, <1>2, <1>7, <2>3, <3>1, LoadedCurrent, ZenonT(40) DEF l, w
  <2> QED
    BY <1>11, <2>1, <2>2, <2>3, Zenon DEF CacheTail, l, q
<1>12. CASE CacheDrop(c)
  BY <1>2, <1>5, <1>7, <1>8, <1>12, ZenonT(40) DEF CacheDrop, l, w
<1>13. CASE SnapLoad(c)
  <2>1. {"snapTail", "store"} \subseteq
          PC \ {"lead", "land", "landErr", "wait", "cachePut", "loaded"}
    BY Zenon DEF PC
  <2>2. CASE Return(c)
    BY <1>0, <1>1, <2>2, ReturnCurrent, Zenon
  <2>3. CASE Goto(c, "store")
    BY <1>0, <1>1, <2>3, GotoCurrent, Zenon DEF PC
  <2>4. CASE client' = [client EXCEPT ![c] =
                Loaded(l, "snapTail", Decode(snap[l.s]), snap[l.s].ver)]
    <3>1. Current(Loaded(l, "snapTail", Decode(snap[l.s]), snap[l.s].ver), w)
      BY <1>8, <2>1, Zenon
    <3> QED
      BY <1>2, <1>7, <2>4, <3>1, Zenon DEF w
  <2> QED
    BY <1>13, <2>2, <2>3, <2>4, Zenon DEF SnapLoad, l
<1>14. CASE SnapTail(c)
  <2>1. CASE Return(c)
    BY <1>0, <1>1, <2>1, ReturnCurrent
  <2>2. CASE client' = [client EXCEPT ![c] =
                Loaded(@, AfterLoad, l.st \o SliceFromVersion(q, l.ver),
                       l.ver + Len(SliceFromVersion(q, l.ver)))]
    <3>1. l.ver + Len(SliceFromVersion(q, l.ver)) >= w[l.s]
      BY <1>1, <1>9, <1>14, Zenon DEF SnapTail, l
    <3> QED
      BY <1>1, <1>2, <1>6, <1>7, <2>2, <3>1, LoadedCurrent, ZenonT(40) DEF l, w
  <2> QED
    BY <1>14, <2>1, <2>2, Zenon DEF SnapTail, l, q
<1>15. CASE StoreLoad(c)
  <2>1. CASE Return(c)
    BY <1>0, <1>1, <2>1, ReturnCurrent
  <2>2. CASE client' = [client EXCEPT ![c] = FromEvents(l, q)]
    <3>1. Len(q) >= w[l.s]
      BY <1>1, Zenon
    <3>2. Current(FromEvents(l, q), w)
      BY <1>1, <1>6, <3>1, IdleCurrent, LoadedCurrent, Zenon DEF FromEvents
    <3> QED
      BY <1>2, <1>7, <2>2, <3>2, Zenon DEF w
  <2> QED
    BY <1>15, <2>1, <2>2, Zenon DEF StoreLoad, l, q
<1>16. CASE CachePut(c)
  <2>1. l.ver >= w[l.s] /\ Goto(c, "loaded")
    BY <1>3, <1>16, Zenon DEF CachePut, Current, l
  <2> QED
    BY <1>0, <1>1, <1>2, <2>1, GotoCurrent, Zenon DEF PC, l, w
<1> QED
  BY <1>10, <1>11, <1>12, <1>13, <1>14, <1>15, <1>16, Zenon

\* The rest of the call: it holds no load, and what it wrote is what was saved.
LEMMA ExecuteStep ==
  ASSUME HistoryInv, ReadInv, NEW c \in Client \ Coalescing,
         \/ LoadReturn(c) \/ Decide(c) \/ Save(c) \/ Publish(c) \/ SnapSave(c)
         \/ Recache(c)
  PROVE  Current(client'[c], wrote'[c])
<1>0. TypeOK /\ c \in Client /\ client[c] \in Local
  BY Zenon DEF HistoryInv, TypeOK
<1>1. Return(c) => \A w : Current(client'[c], w)
  BY <1>0, ReturnCurrent, Zenon
<1>2. ASSUME NEW pc \in {"publish", "snapSave", "recache"}, Goto(c, pc)
      PROVE  \A w : Current(client'[c], w)
  BY <1>0, <1>2, GotoCurrent, Zenon DEF PC
<1>3. AfterSnapshot(c) => \A w : Current(client'[c], w)
  BY <1>1, <1>2, Zenon DEF AfterSnapshot, Finish
<1>4. CASE LoadReturn(c)
  BY <1>1, <1>4, Zenon DEF LoadReturn
<1>5. CASE Decide(c)
  <2>1. Return(c) \/ client'[c].pc = "save"
    <3>1. ASSUME NEW b, client' = [client EXCEPT ![c].batch = b, ![c].pc = "save"]
          PROVE  client'[c].pc = "save"
      BY <1>0, <3>1, Zenon DEF TypeOK, Local
    <3> QED
      BY <1>5, <3>1, Zenon DEF Decide
  <2>2. client'[c].pc = "save" => \A w : Current(client'[c], w)
    BY Zenon DEF Current
  <2> QED
    BY <1>1, <2>1, <2>2, Zenon
<1>6. CASE Save(c)
  BY <1>1, <1>2, <1>6, Zenon DEF Save
<1>7. CASE Publish(c)
  BY <1>1, <1>2, <1>3, <1>7, Zenon DEF Publish
<1>8. CASE SnapSave(c)
  BY <1>3, <1>8, Zenon DEF SnapSave
<1>9. CASE Recache(c)
  BY <1>1, <1>9, Zenon DEF Recache, Finish
<1> QED
  BY <1>4, <1>5, <1>6, <1>7, <1>8, <1>9, Zenon

\* A caller that shares no load joins no flight.
LEMMA NoFlight ==
  ASSUME ReadInv, NEW c \in Client \ Coalescing
  PROVE  ~Join(c) /\ ~FlightRead(c) /\ ~FlightLand(c)
BY Zenon DEF ReadInv, Current, Join, FlightRead, FlightLand

\* Nobody has written more than the stream holds.
LEMMA WroteStep ==
  ASSUME HistoryInv, ReadInv, [Next]_vars, NEW d \in Client, NEW s \in Stream
  PROVE  wrote'[d][s] <= Len(stream'[s])
<1>0. /\ TypeOK /\ wrote[d][s] \in Nat /\ wrote[d][s] <= Len(stream[s])
      /\ wrote \in [Client -> [Stream -> Nat]]
  BY Zenon DEF HistoryInv, TypeOK, ReadInv
<1>1. /\ Len(stream[s]) \in Nat /\ Len(stream'[s]) \in Nat
      /\ Len(stream[s]) <= Len(stream'[s])
  BY LenGrows, Zenon
<1>2. CASE wrote' = wrote
  BY <1>0, <1>1, <1>2
<1>3. ASSUME NEW c \in Client, Finish(c), client[c].pc \in Saved
      PROVE  wrote'[d][s] <= Len(stream'[s])
  <2>1. /\ client[c].s \in Stream /\ NewVersion(c) \in Nat
        /\ NewVersion(c) <= Len(stream[client[c].s])
    BY <1>0, <1>3, LocalFields, VersionsHeld, Zenon
  <2>2. \/ wrote'[d][s] = wrote[d][s]
        \/ s = client[c].s /\ wrote'[d][s] = NewVersion(c)
    BY <1>0, <1>3, <2>1, Zenon DEF Finish
  <2> QED
    BY <1>0, <1>1, <2>1, <2>2, SMTT(30)
<1>4. ASSUME NEW c \in Client, Step(c) PROVE wrote' = wrote \/ Finish(c)
  BY <1>4, Zenon DEF Step, CacheGet, CacheTail, CacheDrop, SnapLoad, SnapTail, StoreLoad,
     Join, FlightRead, FlightLand, CachePut, LoadReturn, Decide, Save, Publish, SnapSave,
     Recache, AfterSnapshot
<1>5. ASSUME NEW c \in Client, Step(c), wrote' # wrote PROVE client[c].pc \in Saved
  <2>1. Publish(c) \/ SnapSave(c) \/ Recache(c)
    BY <1>5, Zenon DEF Step, CacheGet, CacheTail, CacheDrop, SnapLoad, SnapTail,
       StoreLoad, Join, FlightRead, FlightLand, CachePut, LoadReturn, Decide, Save
  <2> QED
    BY <2>1, Zenon DEF Publish, SnapSave, Recache, Saved
<1>6. (\E c \in Client : Step(c)) \/ wrote' = wrote
  BY Zenon DEF Next, Call, OtherSave, Evict, Restart, vars
<1> QED
  BY <1>2, <1>3, <1>4, <1>5, <1>6, Zenon

\* No caller that shares no load falls behind what it wrote.
LEMMA CurrentStep ==
  ASSUME HistoryInv, ReadInv, [Next]_vars, NEW d \in Client \ Coalescing
  PROVE  Current(client'[d], wrote'[d])
<1>0. TypeOK /\ d \in Client /\ Current(client[d], wrote[d]) /\ client[d].pc # "wait"
  BY Zenon DEF HistoryInv, ReadInv, Current
<1>1. ASSUME Step(d) PROVE Current(client'[d], wrote'[d])
  BY <1>1, LoadStep, ExecuteStep, NoFlight, Zenon DEF Step
<1>2. ASSUME NEW c \in Client, Step(c), c # d PROVE Current(client'[d], wrote'[d])
  BY <1>0, <1>2, OthersStay, Zenon
<1>3. ASSUME NEW c \in Client, NEW s \in Stream, NEW op \in {"load", "execute"},
             Call(c, s, op)
      PROVE  Current(client'[d], wrote'[d])
  <2>1. wrote' = wrote
    BY <1>3, Zenon DEF Call
  <2>2. client'[d] = client[d] \/ client'[d].pc \in {"cacheGet", AfterCache}
    BY <1>0, <1>3, Zenon DEF Call, TypeOK, Idle
  <2> QED
    BY <1>0, <2>1, <2>2, Zenon DEF Current, AfterCache
<1>4. ASSUME NEW shape \in Shape, Restart(shape)
      PROVE  Current(client'[d], wrote'[d])
  BY <1>0, <1>4, IdleCurrent, Zenon DEF Restart
<1>5. ASSUME UNCHANGED <<client, wrote>> PROVE Current(client'[d], wrote'[d])
  BY <1>0, <1>5, Zenon
<1>6. \/ \E c \in Client : Step(c)
      \/ \E c \in Client, s \in Stream, op \in {"load", "execute"} : Call(c, s, op)
      \/ \E shape \in Shape : Restart(shape)
      \/ UNCHANGED <<client, wrote>>
  BY Zenon DEF Next, OtherSave, Evict, vars
<1> QED
  BY <1>1, <1>2, <1>3, <1>4, <1>5, <1>6, Zenon

\* A caller that does not share its loads reads at least the version its own
\* last ExecuteRef ended at, from cache, snapshot or store, in every
\* interleaving with other callers, other processes and restarts.
THEOREM OwnWritesVisible == Spec => []OwnWritesRead
<1>1. Init => ReadInv
  BY DEF Init, ReadInv, Current, Idle
<1>2. HistoryInv /\ ReadInv /\ [Next]_vars => ReadInv'
  BY WroteStep, CurrentStep, Zenon DEF ReadInv
<1>3. ReadInv => OwnWritesRead
  BY Zenon DEF ReadInv, Current, OwnWritesRead
<1> QED
  BY <1>1, <1>2, <1>3, HistoryInit, HistoryStep, PTL DEF Spec

-----------------------------------------------------------------------------
(* What is announced *)

\* The batch of caller c with local variables l, by where the call is: decided
\* by c; saved, and then what the stream holds after version l.ver; not yet
\* announced; announced to its last event.
Owed(str, pub, c, l) ==
  /\ l.pc = "save" => Len(l.batch) > 0 /\ \A i \in 1..Len(l.batch) : l.batch[i].by = c
  /\ l.pc \in Saved =>
       /\ Len(l.batch) > 0 /\ l.ver + Len(l.batch) <= Len(str[l.s])
       /\ \A i \in 1..Len(l.batch) : l.batch[i].by = c /\ l.batch[i] = str[l.s][l.ver + i]
  /\ l.pc = "publish" =>
       \A i \in 1..Len(pub[l.s]) : pub[l.s][i].ver \notin (l.ver + 1)..(l.ver + Len(l.batch))
  /\ l.pc \in Saved \ {"publish"} =>
       \E i \in 1..Len(pub[l.s]) : pub[l.s][i] = l.batch[Len(l.batch)]

\* Two callers that are about to publish have different events to publish.
Apart(l, m) ==
  l.pc = "publish" /\ m.pc = "publish" /\ l.s = m.s =>
    l.ver + Len(l.batch) <= m.ver \/ m.ver + Len(m.batch) <= l.ver

\* The versions of a stream are its positions, and every announced event is
\* the one of its version, announced once.
Numbered(q) == \A v \in 1..Len(q) : q[v].ver = v

Announced(q, p) ==
  \A i \in 1..Len(p) :
    /\ p[i].ver \in 1..Len(q) /\ p[i] = q[p[i].ver]
    /\ \A j \in 1..Len(p) : p[i].ver = p[j].ver => i = j

\* The inductive invariant, on top of HistoryInv.
PubInv ==
  /\ \A s \in Stream : Numbered(stream[s]) /\ Announced(stream[s], published[s])
  /\ \A c \in Client : Owed(stream, published, c, client[c])
  /\ \A c, d \in Client : c # d => Apart(client[c], client[d])
  /\ AckedIsSavedAndPublished

\* A step adds a batch with the next versions to one stream, or nothing.
LEMMA BatchStep ==
  ASSUME HistoryInv, [Next]_vars
  PROVE  \/ UNCHANGED stream
         \/ \E s \in Stream, b \in State :
              /\ \A i \in 1..Len(b) : b[i].ver = Len(stream[s]) + i
              /\ stream' = [stream EXCEPT ![s] = @ \o b]
<1>0. TypeOK
  BY Zenon DEF HistoryInv
<1>1. ASSUME NEW c \in Client, Save(c), client'[c].pc = "publish"
      PROVE  \E s \in Stream, b \in State :
               /\ \A i \in 1..Len(b) : b[i].ver = Len(stream[s]) + i
               /\ stream' = [stream EXCEPT ![s] = @ \o b]
  <2>1. client[c].s \in Stream /\ client[c].batch \in State
    BY <1>0, LocalFields, Zenon
  <2>2. \A i \in 1..Len(client[c].batch) : client[c].batch[i].ver = client[c].ver + i
    BY <1>1, VersionsHeld, Zenon DEF Save
  <2>3. /\ client[c].ver = Len(stream[client[c].s])
        /\ stream' = [stream EXCEPT ![client[c].s] = @ \o client[c].batch]
    BY <1>1, SaveOnCurrent, Zenon
  <2> QED
    BY <2>1, <2>2, <2>3, Zenon
<1>2. ASSUME NEW s \in Stream, NEW ok \in BOOLEAN, OtherSave(s, ok)
      PROVE  \E b \in State :
               /\ \A i \in 1..Len(b) : b[i].ver = Len(stream[s]) + i
               /\ stream' = [stream EXCEPT ![s] = @ \o b]
  <2> DEFINE oks == <<ok>>
             n == Len(stream[s])
             b == NewEvents(Other, n, oks)
  <2>1. oks \in Seq(BOOLEAN) /\ n \in Nat /\ Other \in Client \cup {Other}
    BY <1>0, SingletonSeq, WholeHistory, Zenon DEF TypeOK
  <2>2. stream' = [stream EXCEPT ![s] = @ \o b]
    BY <1>2, Zenon DEF OtherSave
  <2> HIDE DEF oks, n
  <2>3. /\ b \in State /\ Len(b) = Len(oks)
        /\ \A i \in 1..Len(oks) : b[i].ver = n + i
    BY <2>1, NewEventsType, Zenon
  <2> HIDE DEF b
  <2>4. \A i \in 1..Len(b) : b[i].ver = Len(stream[s]) + i
    BY <2>3, Zenon DEF n
  <2> QED
    BY <2>2, <2>3, <2>4, Zenon
<1> QED
  BY <1>0, <1>1, <1>2, StreamSteps, Zenon

\* What a stream holds, it goes on holding, and its versions stay its positions.
LEMMA StreamKept ==
  ASSUME HistoryInv, [Next]_vars, NEW s \in Stream
  PROVE  /\ Len(stream[s]) \in Nat /\ Len(stream'[s]) \in Nat
         /\ Len(stream[s]) <= Len(stream'[s])
         /\ \A v \in 1..Len(stream[s]) :
              v \in 1..Len(stream'[s]) /\ stream'[s][v] = stream[s][v]
         /\ Numbered(stream[s]) => Numbered(stream'[s])
<1>0. TypeOK /\ stream[s] \in State /\ stream \in [Stream -> State]
  BY Zenon DEF HistoryInv, TypeOK
<1>1. /\ Len(stream[s]) \in Nat /\ Len(stream'[s]) \in Nat
      /\ Len(stream[s]) <= Len(stream'[s])
  BY LenGrows, Zenon
<1>2. CASE stream'[s] = stream[s]
  BY <1>1, <1>2, Zenon DEF Numbered
<1>3. ASSUME NEW b \in State, \A i \in 1..Len(b) : b[i].ver = Len(stream[s]) + i,
             stream'[s] = stream[s] \o b
      PROVE  /\ \A v \in 1..Len(stream[s]) :
                  v \in 1..Len(stream'[s]) /\ stream'[s][v] = stream[s][v]
             /\ Numbered(stream[s]) => Numbered(stream'[s])
  <2>1. /\ Len(b) \in Nat /\ Len(stream'[s]) = Len(stream[s]) + Len(b)
        /\ \A v \in 1..Len(stream[s]) : stream'[s][v] = stream[s][v]
        /\ \A i \in 1..Len(b) : stream'[s][Len(stream[s]) + i] = b[i]
    BY <1>0, <1>3, ConcatProperties, LenProperties DEF State
  <2>2. ASSUME Numbered(stream[s]), NEW v \in 1..Len(stream'[s])
        PROVE  stream'[s][v].ver = v
    <3>1. CASE v \in 1..Len(stream[s])
      BY <2>1, <2>2, <3>1, Zenon DEF Numbered
    <3>2. CASE v \notin 1..Len(stream[s])
      <4>1. v - Len(stream[s]) \in 1..Len(b)
        BY <1>1, <2>1, <3>2
      <4>2. v = Len(stream[s]) + (v - Len(stream[s]))
        BY <1>1
      <4>3. stream'[s][Len(stream[s]) + (v - Len(stream[s]))] = b[v - Len(stream[s])]
        BY <2>1, <4>1, Zenon
      <4>4. b[v - Len(stream[s])].ver = Len(stream[s]) + (v - Len(stream[s]))
        BY <1>3, <4>1, Zenon
      <4> QED
        BY <4>2, <4>3, <4>4, Zenon
    <3> QED
      BY <3>1, <3>2, Zenon
  <2> QED
    BY <1>1, <2>1, <2>2 DEF Numbered
<1>4. ASSUME NEW t \in Stream, NEW b \in State,
             \A i \in 1..Len(b) : b[i].ver = Len(stream[t]) + i,
             stream' = [stream EXCEPT ![t] = @ \o b]
      PROVE  \/ stream'[s] = stream[s]
             \/ /\ \A i \in 1..Len(b) : b[i].ver = Len(stream[s]) + i
                /\ stream'[s] = stream[s] \o b
  BY <1>0, <1>4, Zenon
<1>5. \/ stream'[s] = stream[s]
      \/ \E b \in State : /\ \A i \in 1..Len(b) : b[i].ver = Len(stream[s]) + i
                          /\ stream'[s] = stream[s] \o b
  BY <1>4, BatchStep, Zenon
<1> QED
  BY <1>1, <1>2, <1>3, <1>5, Zenon

\* Two records of local variables with the same batch for the same stream.
Same(l, m) == l.s = m.s /\ l.ver = m.ver /\ l.batch = m.batch

\* What a step does to the batch of caller d: it leaves it, drops it, decides
\* it, saves it, announces all of it, or goes on to the cache with it.
Moved(d) ==
  \/ client'[d] = client[d]
  \/ client'[d].pc \notin Saved \cup {"save"}
  \/ /\ client'[d].pc = "save" /\ Len(client'[d].batch) > 0
     /\ \A i \in 1..Len(client'[d].batch) : client'[d].batch[i].by = d
  \/ Save(d) /\ client'[d].pc = "publish" /\ Same(client[d], client'[d])
  \/ /\ Publish(d) /\ client'[d].pc \in Saved \ {"publish"} /\ Same(client[d], client'[d])
     /\ published' = [published EXCEPT ![client[d].s] = @ \o client[d].batch]
  \/ /\ client[d].pc = "snapSave" /\ client'[d].pc = "recache"
     /\ Same(client[d], client'[d]) /\ UNCHANGED published

\* Going to the next statement keeps the batch.
LEMMA GotoSame ==
  ASSUME TypeOK, NEW c \in Client, NEW pc, Goto(c, pc)
  PROVE  client'[c].pc = pc /\ Same(client[c], client'[c])
<1>1. client[c] \in Local /\ client'[c] = [client[c] EXCEPT !.pc = pc]
  BY Zenon DEF TypeOK, Goto
<1> QED
  BY <1>1, Zenon DEF Local, Same

\* A call that returns is over.
LEMMA ReturnIdle ==
  ASSUME TypeOK, NEW c \in Client, Return(c)
  PROVE  client'[c].pc = "idle"
BY Zenon DEF TypeOK, Return, Idle

\* What loadByEvents leaves is not yet decided on.
LEMMA FromEventsMove ==
  ASSUME NEW l \in Local, NEW events
  PROVE  FromEvents(l, events).pc \notin Saved \cup {"save"}
<1>1. \A pc, st, v : Loaded(l, pc, st, v).pc = pc
  BY Zenon DEF Loaded, Local
<1>2. Idle(l.s).pc = "idle"
  BY Zenon DEF Idle
<1>3. AfterLoad \notin Saved \cup {"save"} /\ "idle" \notin Saved \cup {"save"}
  BY Zenon DEF AfterLoad, Saved
<1> QED
  BY <1>1, <1>2, <1>3, ZenonT(40) DEF FromEvents

\* The step of a caller, as its batch sees it.
LEMMA OwnMove ==
  ASSUME TypeOK, NEW c \in Client, Step(c)
  PROVE  Moved(c)
<1>0. client[c] \in Local /\ client[c].ver \in Nat
  BY LocalFields, Zenon
<1> DEFINE Away(l) == l.pc \notin Saved \cup {"save"}
<1>1. Away(client'[c]) => Moved(c)
  BY Zenon DEF Moved
<1>2. Return(c) => Away(client'[c])
  BY ReturnIdle, Zenon DEF Saved
<1>3. ASSUME NEW pc, pc \notin Saved \cup {"save"}, Goto(c, pc) PROVE Away(client'[c])
  BY <1>3, GotoSame, Zenon
<1>4. /\ AfterCache \notin Saved \cup {"save"} /\ AfterLoad \notin Saved \cup {"save"}
      /\ \A pc \in {"cacheTail", "cacheDrop", "snapTail", "store", "lead", "land",
                    "landErr", "wait", "cachePut", "loaded"} : pc \notin Saved \cup {"save"}
  BY Zenon DEF AfterCache, AfterLoad, Saved
<1>5. ASSUME NEW pc, pc \notin Saved \cup {"save"}, NEW st, NEW v,
             client' = [client EXCEPT ![c] = Loaded(client[c], pc, st, v)]
      PROVE  Away(client'[c])
  <2>1. client'[c] = Loaded(client[c], pc, st, v)
    BY <1>5, Zenon DEF TypeOK
  <2>2. client'[c].pc = pc
    BY <1>0, <2>1, Zenon DEF Loaded, Local
  <2> QED
    BY <1>5, <2>2, Zenon
<1>6. ASSUME NEW events, client' = [client EXCEPT ![c] = FromEvents(client[c], events)]
      PROVE  Away(client'[c])
  <2>1. client'[c] = FromEvents(client[c], events)
    BY <1>6, Zenon DEF TypeOK
  <2> QED
    BY <1>0, <2>1, FromEventsMove, Zenon
<1> HIDE DEF Away
<1>7. CASE CacheGet(c)
  <2>1. CASE cache[client[c].s].ok
    BY <1>1, <1>4, <1>5, <1>7, <2>1, Zenon DEF CacheGet
  <2>2. CASE ~cache[client[c].s].ok
    <3>1. Goto(c, AfterCache)
      BY <1>7, <2>2, Zenon DEF CacheGet, Goto
    <3> QED
      BY <1>1, <1>3, <1>4, <3>1, Zenon
  <2> QED
    BY <2>1, <2>2, Zenon
<1>8. CASE CacheTail(c) \/ CacheDrop(c) \/ SnapLoad(c) \/ SnapTail(c)
  <2>1. CASE CacheTail(c)
    <3>1. \/ Goto(c, "cacheDrop") \/ Goto(c, "loaded")
          \/ \E st, v : client' = [client EXCEPT ![c] = Loaded(client[c], "cachePut", st, v)]
      BY <2>1, Zenon DEF CacheTail
    <3> QED
      BY <1>1, <1>3, <1>4, <1>5, <3>1, Zenon
  <2>2. CASE CacheDrop(c)
    BY <1>1, <1>4, <1>5, <2>2, Zenon DEF CacheDrop
  <2>3. CASE SnapLoad(c)
    <3>1. \/ Return(c) \/ Goto(c, "store")
          \/ \E st, v : client' = [client EXCEPT ![c] = Loaded(client[c], "snapTail", st, v)]
      BY <2>3, Zenon DEF SnapLoad
    <3> QED
      BY <1>1, <1>2, <1>3, <1>4, <1>5, <3>1, Zenon
  <2>4. CASE SnapTail(c)
    <3>1. \/ Return(c)
          \/ \E st, v : client' = [client EXCEPT ![c] = Loaded(client[c], AfterLoad, st, v)]
      BY <2>4, Zenon DEF SnapTail
    <3> QED
      BY <1>1, <1>2, <1>4, <1>5, <3>1, Zenon
  <2> QED
    BY <1>8, <2>1, <2>2, <2>3, <2>4, Zenon
<1>9. CASE StoreLoad(c) \/ Join(c) \/ FlightRead(c) \/ CachePut(c) \/ LoadReturn(c)
  BY <1>1, <1>2, <1>3, <1>4, <1>5, <1>6, <1>9, ZenonT(40)
     DEF StoreLoad, Join, FlightRead, CachePut, LoadReturn
<1>10. CASE FlightLand(c)
  <2>1. client'[c] = Idle(client[c].s) \/ client'[c] = FromEvents(client[c], client[c].st)
    BY <1>10, Zenon DEF FlightLand
  <2>2. client'[c].pc = "idle" \/ client'[c] = FromEvents(client[c], client[c].st)
    BY <2>1 DEF Idle
  <2>3. client'[c].pc \notin Saved \cup {"save"}
    BY <1>0, <2>2, FromEventsMove, Zenon DEF Saved
  <2> QED
    BY <1>1, <2>3, Zenon DEF Away
<1>11. CASE Decide(c)
  <2>1. CASE Return(c)
    BY <1>1, <1>2, <2>1, Zenon
  <2>2. ASSUME NEW oks \in Decisions,
               client' = [client EXCEPT ![c].batch = NewEvents(c, client[c].ver, oks),
                                        ![c].pc = "save"]
        PROVE  Moved(c)
    <3> DEFINE b == NewEvents(c, client[c].ver, oks)
    <3>1. oks \in Seq(BOOLEAN) /\ Len(oks) \in Nat \ {0} /\ c \in Client \cup {Other}
      BY DecisionIsSeq, Zenon
    <3>2. Len(b) = Len(oks)
      BY <1>0, <3>1, NewEventsType, Zenon
    <3>3. \A i \in 1..Len(oks) : b[i].by = c
      BY Zenon DEF NewEvents
    <3> HIDE DEF b
    <3>4. client'[c] = [client[c] EXCEPT !.batch = b, !.pc = "save"]
      BY <2>2, Zenon DEF b, TypeOK
    <3>5. client'[c].pc = "save" /\ client'[c].batch = b
      BY <1>0, <3>4, Zenon DEF Local
    <3>6. Len(client'[c].batch) > 0
      BY <3>1, <3>2, <3>5
    <3> QED
      BY <3>2, <3>3, <3>5, <3>6, Zenon DEF Moved
  <2> QED
    BY <1>11, <2>1, <2>2, Zenon DEF Decide
<1>12. CASE Save(c)
  <2>1. Return(c) \/ Goto(c, "publish")
    BY <1>12, Zenon DEF Save
  <2> QED
    BY <1>1, <1>2, <1>12, <2>1, GotoSame, Zenon DEF Moved
<1>13. AfterSnapshot(c) => \/ Away(client'[c])
                           \/ client'[c].pc = "recache" /\ Same(client[c], client'[c])
  BY <1>2, GotoSame, Zenon DEF AfterSnapshot, Finish
<1>14. "snapSave" \in Saved \ {"publish"} /\ "recache" \in Saved \ {"publish"}
  BY Zenon DEF Saved
<1>15. CASE Publish(c)
  <2>1. \/ Return(c)
        \/ /\ published' = [published EXCEPT ![client[c].s] = @ \o client[c].batch]
           /\ Goto(c, "snapSave") \/ AfterSnapshot(c)
    BY <1>15, Zenon DEF Publish
  <2> QED
    BY <1>1, <1>2, <1>13, <1>14, <1>15, <2>1, GotoSame, Zenon DEF Moved
<1>16. CASE SnapSave(c)
  BY <1>1, <1>13, <1>16, Zenon DEF SnapSave, Moved
<1>17. CASE Recache(c)
  BY <1>1, <1>2, <1>17, Zenon DEF Recache, Finish
<1> QED
  BY <1>7, <1>8, <1>9, <1>10, <1>11, <1>12, <1>15, <1>16, <1>17, Zenon DEF Step

\* The same of every caller.
LEMMA Moves ==
  ASSUME TypeOK, [Next]_vars, NEW d \in Client
  PROVE  Moved(d)
<1>1. ASSUME NEW c \in Client, Step(c) PROVE Moved(d)
  <2>1. CASE c = d
    BY <1>1, <2>1, OwnMove, Zenon
  <2>2. CASE c # d /\ client[d].pc # "wait"
    BY <1>1, <2>2, OthersStay, Zenon DEF Moved
  <2>3. CASE c # d /\ client[d].pc = "wait"
    <3>1. CASE FlightLand(c)
      <4>1. client[d] \in Local
        BY LocalFields, Zenon
      <4>2. \/ client'[d] = client[d] \/ client'[d] = Idle(client[d].s)
            \/ client'[d] = FromEvents(client[d], client[c].st)
        BY <3>1, Zenon DEF FlightLand
      <4>3. Idle(client[d].s).pc \notin Saved \cup {"save"}
        BY Zenon DEF Idle, Saved
      <4>4. FromEvents(client[d], client[c].st).pc \notin Saved \cup {"save"}
        BY <4>1, FromEventsMove, Zenon
      <4> QED
        BY <4>2, <4>3, <4>4, Zenon DEF Moved
    <3>2. CASE ~FlightLand(c)
      <4>1. client'[d] = client[d]
        BY <1>1, <2>3, <3>2, OthersStay, Zenon
      <4> QED
        BY <4>1, Zenon DEF Moved
    <3> QED
      BY <3>1, <3>2, Zenon
  <2> QED
    BY <2>1, <2>2, <2>3, Zenon
<1>2. ASSUME NEW c \in Client, NEW s \in Stream, NEW op \in {"load", "execute"},
             Call(c, s, op)
      PROVE  Moved(d)
  <2>1. client'[d] = client[d] \/ client'[d].pc \in {"cacheGet", AfterCache}
    BY <1>2, Zenon DEF Call, TypeOK, Idle
  <2> QED
    BY <2>1, Zenon DEF Moved, AfterCache, Saved
<1>3. ASSUME NEW shape \in Shape, Restart(shape) PROVE Moved(d)
  <2>1. client'[d] = Idle(client[d].s)
    BY <1>3, Zenon DEF Restart
  <2> QED
    BY <2>1 DEF Moved, Idle, Saved
<1>4. ASSUME UNCHANGED client PROVE Moved(d)
  BY <1>4, Zenon DEF Moved
<1>5. \/ \E c \in Client : Step(c)
      \/ \E c \in Client, s \in Stream, op \in {"load", "execute"} : Call(c, s, op)
      \/ \E shape \in Shape : Restart(shape)
      \/ UNCHANGED client
  BY Zenon DEF Next, OtherSave, Evict, vars
<1> QED
  BY <1>1, <1>2, <1>3, <1>4, <1>5, Zenon

\* What Publish hands over: a prefix of the batch, after what is there already.
LEMMA PublishPrefix ==
  ASSUME TypeOK, NEW c \in Client, Publish(c)
  PROVE  /\ stream' = stream
         /\ \E p \in State :
              /\ Len(p) <= Len(client[c].batch)
              /\ \A i \in 1..Len(p) : p[i] = client[c].batch[i]
              /\ published' = [published EXCEPT ![client[c].s] = @ \o p]
<1> DEFINE b == client[c].batch
           s == client[c].s
<1>1. b \in Seq(Event) /\ Len(b) \in Nat
  BY LocalFields, LenProperties, Zenon DEF State
<1> HIDE DEF b, s
<1>2. CASE published' = [published EXCEPT ![s] = @ \o b]
  <2>1. b \in State /\ Len(b) <= Len(b) /\ \A i \in 1..Len(b) : b[i] = b[i]
    BY <1>1 DEF State
  <2>2. stream' = stream
    BY Zenon DEF Publish
  <2> QED
    BY <1>2, <2>1, <2>2, Zenon DEF b, s
<1>3. ASSUME NEW k \in 0..(Len(b) - 1),
             published' = [published EXCEPT ![s] = @ \o SubSeq(b, 1, k)]
      PROVE  \E p \in State :
               /\ Len(p) <= Len(b) /\ \A i \in 1..Len(p) : p[i] = b[i]
               /\ published' = [published EXCEPT ![s] = @ \o p]
  <2> DEFINE p == SubSeq(b, 1, k)
  <2>0. k \in Nat /\ k <= Len(b)
    BY <1>1, <1>3
  <2>1. p \in Seq(Event) /\ Len(p) = k /\ \A i \in 1..k : p[i] = b[i]
    BY <1>1, <2>0, SubSeqProperties, ElementOfSeq
  <2> HIDE DEF p
  <2>2. published' = [published EXCEPT ![s] = @ \o p]
    BY <1>3, Zenon DEF p
  <2> QED
    BY <2>0, <2>1, <2>2, Zenon DEF State
<1>4. \/ published' = [published EXCEPT ![s] = @ \o b]
      \/ \E k \in 0..(Len(b) - 1) : published' = [published EXCEPT ![s] = @ \o SubSeq(b, 1, k)]
  BY Zenon DEF Publish, b, s
<1>5. stream' = stream
  BY Zenon DEF Publish
<1> QED
  BY <1>2, <1>3, <1>4, <1>5, Zenon DEF b, s

\* Nothing else announces anything.
LEMMA PublishOnly ==
  ASSUME [Next]_vars
  PROVE  published' = published \/ \E c \in Client : Publish(c)
BY ZenonT(40) DEF Next, Step, CacheGet, CacheTail, CacheDrop, SnapLoad, SnapTail, StoreLoad,
   Join, FlightRead, FlightLand, CachePut, LoadReturn, Decide, Save, SnapSave, Recache,
   Call, OtherSave, Evict, Restart, vars

\* A sequence and the same sequence with more behind it.
Longer(p, q) ==
  /\ Len(p) \in Nat /\ Len(q) \in Nat /\ Len(p) <= Len(q)
  /\ \A i \in 1..Len(p) : i \in 1..Len(q) /\ q[i] = p[i]

\* After Publish of c, an announcement is an earlier one or an event of the
\* batch of c, which is the event of its version in the stream.
LEMMA PublishAdds ==
  ASSUME HistoryInv, PubInv, NEW c \in Client, Publish(c), NEW s \in Stream
  PROVE  /\ Longer(published[s], published'[s])
         /\ s # client[c].s => published'[s] = published[s]
         /\ s = client[c].s =>
              \A i \in 1..Len(published'[s]) :
                \/ i \in 1..Len(published[s])
                \/ \E k \in 1..Len(client[c].batch) :
                     /\ i = Len(published[s]) + k
                     /\ client[c].ver + k \in 1..Len(stream[s])
                     /\ published'[s][i] = stream[s][client[c].ver + k]
                     /\ published'[s][i].ver = client[c].ver + k
<1> DEFINE l == client[c]
<1>0. TypeOK
  BY Zenon DEF HistoryInv
<1>1. /\ l.s \in Stream /\ l.ver \in Nat /\ l.batch \in State
      /\ published[s] \in Seq(Event) /\ Len(published[s]) \in Nat /\ Len(l.batch) \in Nat
      /\ published \in [Stream -> State]
      /\ Len(stream[l.s]) \in Nat
  BY <1>0, LocalFields, LenProperties, Zenon DEF TypeOK, State
<1>2. PICK p \in State : /\ Len(p) <= Len(l.batch)
                         /\ \A i \in 1..Len(p) : p[i] = l.batch[i]
                         /\ published' = [published EXCEPT ![l.s] = @ \o p]
  BY <1>0, PublishPrefix, Zenon
<1>3. p \in Seq(Event) /\ Len(p) \in Nat
  BY LenProperties, Zenon DEF State
<1>4. l.pc = "publish"
  BY Zenon DEF Publish
<1>5. /\ l.ver + Len(l.batch) <= Len(stream[l.s])
      /\ \A i \in 1..Len(l.batch) : l.batch[i] = stream[l.s][l.ver + i]
  BY <1>4, Zenon DEF PubInv, Owed, Saved
<1>6. Numbered(stream[l.s])
  BY <1>1, Zenon DEF PubInv
<1> HIDE DEF l
<1>7. CASE s # l.s
  <2>1. published'[s] = published[s]
    BY <1>1, <1>2, <1>7, Zenon
  <2> QED
    BY <1>1, <1>7, <2>1 DEF Longer, l
<1>8. CASE s = l.s
  <2>1. published'[s] = published[s] \o p
    BY <1>1, <1>2, <1>8, Zenon
  <2>2. /\ Len(published'[s]) = Len(published[s]) + Len(p)
        /\ \A i \in 1..Len(published[s]) : published'[s][i] = published[s][i]
        /\ \A k \in 1..Len(p) : published'[s][Len(published[s]) + k] = p[k]
    BY <1>1, <1>3, <2>1, ConcatProperties
  <2>3. ASSUME NEW i \in 1..Len(published'[s]), i \notin 1..Len(published[s])
        PROVE  \E k \in 1..Len(l.batch) :
                     /\ i = Len(published[s]) + k
                     /\ l.ver + k \in 1..Len(stream[s])
                     /\ published'[s][i] = stream[s][l.ver + k]
                     /\ published'[s][i].ver = l.ver + k
    <3> DEFINE k == i - Len(published[s])
    <3>1. k \in 1..Len(p) /\ k \in 1..Len(l.batch) /\ i = Len(published[s]) + k
      BY <1>1, <1>2, <1>3, <2>2, <2>3
    <3> HIDE DEF k
    <3>2. l.ver + k \in 1..Len(stream[s])
      <4>1. k \in Nat /\ 1 <= k /\ k <= Len(l.batch) /\ Len(stream[s]) \in Nat
        BY <1>1, <1>8, <3>1
      <4>2. l.ver + Len(l.batch) <= Len(stream[s])
        BY <1>5, <1>8, Zenon
      <4> QED
        BY <1>1, <4>1, <4>2, SMTT(30)
    <3>3. published'[s][i] = stream[s][l.ver + k]
      BY <1>2, <1>5, <1>8, <2>2, <3>1
    <3>4. stream[s][l.ver + k].ver = l.ver + k
      BY <1>6, <1>8, <3>2, Zenon DEF Numbered
    <3> QED
      BY <3>1, <3>2, <3>3, <3>4, Zenon
  <2>4. Longer(published[s], published'[s])
    BY <1>1, <1>3, <2>2 DEF Longer
  <2> QED
    BY <1>8, <2>3, <2>4, Zenon DEF l
<1> QED
  BY <1>7, <1>8, Zenon

\* Streams and announcements are only added to.
LEMMA AllLonger ==
  ASSUME HistoryInv, PubInv, [Next]_vars, NEW s \in Stream
  PROVE  Longer(stream[s], stream'[s]) /\ Longer(published[s], published'[s])
<1>1. Longer(stream[s], stream'[s])
  BY StreamKept, Zenon DEF Longer
<1>2. CASE published' = published
  <2>1. Len(published[s]) \in Nat
    BY LenProperties, Zenon DEF HistoryInv, TypeOK, State
  <2> QED
    BY <1>1, <1>2, <2>1 DEF Longer
<1>3. CASE \E c \in Client : Publish(c)
  BY <1>1, <1>3, PublishAdds, Zenon
<1> QED
  BY <1>2, <1>3, PublishOnly, Zenon

\* Every announcement stays the event of its version, and the only one.
LEMMA AnnouncedStep ==
  ASSUME HistoryInv, PubInv, [Next]_vars, NEW s \in Stream
  PROVE  Announced(stream'[s], published'[s])
<1>1. Longer(stream[s], stream'[s]) /\ Announced(stream[s], published[s])
  BY AllLonger, Zenon DEF PubInv
<1>2. CASE published'[s] = published[s]
  BY <1>1, <1>2, Zenon DEF Announced, Longer
<1>3. ASSUME NEW c \in Client, Publish(c), s = client[c].s
      PROVE  Announced(stream'[s], published'[s])
  <2> DEFINE l == client[c]
             n == Len(published[s])
  <2>1. stream' = stream /\ l.pc = "publish" /\ l.ver \in Nat
    BY <1>3, LocalFields, Zenon DEF Publish, HistoryInv
  <2>2. Owed(stream, published, c, l)
    BY Zenon DEF PubInv
  <2>3. \A i \in 1..n : published[s][i].ver \notin (l.ver + 1)..(l.ver + Len(l.batch))
    BY <1>3, <2>1, <2>2, Zenon DEF Owed
  <2>4. n \in Nat /\ Len(l.batch) \in Nat
    BY LocalFields, LenProperties, Zenon DEF HistoryInv, TypeOK, State
  <2>5. \A i \in 1..n : published'[s][i] = published[s][i]
    BY <1>3, PublishAdds, Zenon DEF Longer
  <2>6. \A i \in 1..Len(published'[s]) :
          \/ i \in 1..n
          \/ \E k \in 1..Len(l.batch) :
               /\ i = n + k
               /\ l.ver + k \in 1..Len(stream[s])
               /\ published'[s][i] = stream[s][l.ver + k]
               /\ published'[s][i].ver = l.ver + k
    BY <1>3, PublishAdds, Zenon
  <2> HIDE DEF l, n
  <2>7. ASSUME NEW i \in 1..Len(published'[s])
        PROVE  published'[s][i].ver \in 1..Len(stream[s])
                 /\ published'[s][i] = stream[s][published'[s][i].ver]
    <3>1. CASE i \in 1..n
      BY <1>1, <2>5, <3>1, Zenon DEF Announced, n
    <3>2. CASE i \notin 1..n
      BY <2>6, <3>2, Zenon
    <3> QED
      BY <3>1, <3>2, Zenon
  <2>8. ASSUME NEW i \in 1..Len(published'[s]), NEW j \in 1..Len(published'[s]),
               published'[s][i].ver = published'[s][j].ver
        PROVE  i = j
    <3>1. CASE i \in 1..n /\ j \in 1..n
      BY <1>1, <2>5, <2>8, <3>1, Zenon DEF Announced, n
    <3>2. ASSUME NEW x \in 1..n, NEW y \in 1..Len(published'[s]), y \notin 1..n
          PROVE  published'[s][x].ver # published'[s][y].ver
      <4>1. PICK k \in 1..Len(l.batch) : published'[s][y].ver = l.ver + k
        BY <2>6, <3>2, Zenon
      <4>2. l.ver + k \in (l.ver + 1)..(l.ver + Len(l.batch))
        BY <2>1, <2>4
      <4> QED
        BY <2>3, <2>5, <4>1, <4>2, Zenon
    <3>3. CASE i \notin 1..n /\ j \notin 1..n
      <4>1. PICK k \in 1..Len(l.batch) : i = n + k /\ published'[s][i].ver = l.ver + k
        BY <2>6, <3>3, Zenon
      <4>2. PICK m \in 1..Len(l.batch) : j = n + m /\ published'[s][j].ver = l.ver + m
        BY <2>6, <3>3, Zenon
      <4> QED
        BY <2>1, <2>4, <2>8, <4>1, <4>2 DEF l
    <3> QED
      BY <2>8, <3>1, <3>2, <3>3, Zenon
  <2> QED
    BY <2>1, <2>7, <2>8, Zenon DEF Announced
<1>4. \/ published'[s] = published[s] \/ \E c \in Client : Publish(c) /\ s = client[c].s
  BY PublishOnly, PublishAdds, Zenon
<1> QED
  BY <1>2, <1>3, <1>4, Zenon

\* What is saved stays saved, and what is announced stays announced.
LEMMA StaysSaved ==
  ASSUME HistoryInv, PubInv, [Next]_vars, NEW d \in Client, client[d].pc \in Saved
  PROVE  LET l == client[d] IN
         /\ Len(l.batch) > 0 /\ l.ver + Len(l.batch) <= Len(stream'[l.s])
         /\ \A i \in 1..Len(l.batch) : l.batch[i].by = d /\ l.batch[i] = stream'[l.s][l.ver + i]
         /\ l.pc # "publish" =>
              \E i \in 1..Len(published'[l.s]) : published'[l.s][i] = l.batch[Len(l.batch)]
<1> DEFINE l == client[d]
<1>1. /\ l.s \in Stream /\ l.ver \in Nat /\ Len(l.batch) \in Nat
      /\ Owed(stream, published, d, l)
  BY LocalFields, LenProperties, Zenon DEF HistoryInv, State, PubInv
<1>2. Longer(stream[l.s], stream'[l.s]) /\ Longer(published[l.s], published'[l.s])
  BY <1>1, AllLonger, Zenon
<1> HIDE DEF l
<1>3. /\ Len(l.batch) > 0 /\ l.ver + Len(l.batch) <= Len(stream[l.s])
      /\ \A i \in 1..Len(l.batch) : l.batch[i].by = d /\ l.batch[i] = stream[l.s][l.ver + i]
      /\ l.pc # "publish" =>
           \E i \in 1..Len(published[l.s]) : published[l.s][i] = l.batch[Len(l.batch)]
  BY <1>1, Zenon DEF Owed, l
<1>4. l.ver + Len(l.batch) <= Len(stream'[l.s])
  BY <1>1, <1>2, <1>3 DEF Longer
<1>5. ASSUME NEW i \in 1..Len(l.batch) PROVE l.batch[i] = stream'[l.s][l.ver + i]
  <2>1. l.ver + i \in 1..Len(stream[l.s])
    BY <1>1, <1>2, <1>3, SMTT(30) DEF Longer
  <2> QED
    BY <1>2, <1>3, <2>1, Zenon DEF Longer
<1>6. l.pc # "publish" =>
        \E i \in 1..Len(published'[l.s]) : published'[l.s][i] = l.batch[Len(l.batch)]
  BY <1>2, <1>3, Zenon DEF Longer
<1> QED
  BY <1>3, <1>4, <1>5, <1>6, Zenon DEF l

\* Ranges of versions that do not overlap.
LEMMA DisjointRanges ==
  ASSUME NEW a \in Nat, NEW m \in Nat, NEW b \in Nat, NEW n \in Nat, NEW k \in 1..m,
         a + m <= b \/ b + n <= a
  PROVE  a + k \notin (b + 1)..(b + n)
OBVIOUS

\* A caller still about to publish has announced nothing of its batch: another
\* caller that publishes now has another part of the stream.
LEMMA StaysUnannounced ==
  ASSUME HistoryInv, PubInv, [Next]_vars, NEW d \in Client,
         client[d].pc = "publish", client'[d] = client[d],
         NEW i \in 1..Len(published'[client[d].s])
  PROVE  published'[client[d].s][i].ver \notin
           (client[d].ver + 1)..(client[d].ver + Len(client[d].batch))
<1> DEFINE l == client[d]
<1>0. TypeOK
  BY Zenon DEF HistoryInv
<1>1. /\ l.s \in Stream /\ l.ver \in Nat /\ Len(l.batch) \in Nat
      /\ Owed(stream, published, d, l)
  BY <1>0, LocalFields, LenProperties, Zenon DEF State, PubInv
<1>2. Longer(published[l.s], published'[l.s])
  BY <1>1, AllLonger, Zenon
<1>3. CASE i \in 1..Len(published[l.s])
  BY <1>1, <1>2, <1>3, Zenon DEF Owed, Longer
<1>4. ASSUME NEW c \in Client, Publish(c), i \notin 1..Len(published[l.s])
      PROVE  published'[l.s][i].ver \notin (l.ver + 1)..(l.ver + Len(l.batch))
  <2>1. client[c].s = l.s
    BY <1>1, <1>4, PublishAdds, Zenon
  <2>2. PICK k \in 1..Len(client[c].batch) : published'[l.s][i].ver = client[c].ver + k
    <3>1. \A j \in 1..Len(published'[l.s]) :
            \/ j \in 1..Len(published[l.s])
            \/ \E k \in 1..Len(client[c].batch) :
                 /\ j = Len(published[l.s]) + k
                 /\ client[c].ver + k \in 1..Len(stream[l.s])
                 /\ published'[l.s][j] = stream[l.s][client[c].ver + k]
                 /\ published'[l.s][j].ver = client[c].ver + k
      BY <1>1, <1>4, <2>1, PublishAdds, Zenon
    <3> QED
      BY <1>4, <3>1, Zenon
  <2>3. c # d
    <3>1. Moved(c) /\ client[c].pc = "publish" /\ Publish(c)
      BY <1>0, <1>4, Moves, Zenon DEF Publish
    <3>2. client'[c].pc # "publish"
      <4>1. Return(c) \/ Goto(c, "snapSave") \/ Goto(c, "recache")
        BY <1>4, Zenon DEF Publish, AfterSnapshot, Finish
      <4> QED
        BY <1>0, <4>1, GotoSame, ReturnIdle
    <3> QED
      BY <3>1, <3>2, Zenon
  <2>4. Apart(client[c], l) /\ client[c].pc = "publish"
    BY <1>4, <2>3, Zenon DEF PubInv, Publish
  <2>5. client[c].ver \in Nat /\ Len(client[c].batch) \in Nat
    BY <1>0, LocalFields, LenProperties, Zenon DEF State
  <2>6. \/ client[c].ver + Len(client[c].batch) <= l.ver
        \/ l.ver + Len(l.batch) <= client[c].ver
    BY <2>1, <2>4, Zenon DEF Apart
  <2> QED
    <3>1. client[c].ver + k \notin (l.ver + 1)..(l.ver + Len(l.batch))
      BY <1>1, <2>5, <2>6, DisjointRanges, Zenon
    <3> QED
      BY <2>2, <3>1, Zenon
<1>5. i \in 1..Len(published[l.s]) \/ \E c \in Client : Publish(c)
  BY PublishOnly, Zenon
<1> QED
  BY <1>3, <1>4, <1>5, Zenon

\* A batch b saved after q is what the longer stream holds after q, and no
\* version up to the length of q is one of the batch.
LEMMA SavedBehind ==
  ASSUME NEW q \in Seq(Event), NEW b \in Seq(Event)
  PROVE  /\ Len(q) + Len(b) <= Len(q \o b)
         /\ \A i \in 1..Len(b) : b[i] = (q \o b)[Len(q) + i]
         /\ \A v \in 1..Len(q) : v \notin (Len(q) + 1)..(Len(q) + Len(b))
<1>1. Len(q) \in Nat /\ Len(b) \in Nat
  BY LenProperties, Zenon
<1>2. /\ Len(q \o b) = Len(q) + Len(b)
      /\ \A i \in 1..Len(b) : (q \o b)[Len(q) + i] = b[i]
  BY ConcatProperties
<1> QED
  BY <1>1, <1>2

\* A batch that is announced to its end has its last event announced.
LEMMA AnnouncedLast ==
  ASSUME NEW q \in Seq(Event), NEW b \in Seq(Event), Len(b) > 0
  PROVE  \E i \in 1..Len(q \o b) : (q \o b)[i] = b[Len(b)]
<1>1. Len(q) \in Nat /\ Len(b) \in Nat
  BY LenProperties, Zenon
<1>2. /\ Len(q \o b) = Len(q) + Len(b)
      /\ \A i \in 1..Len(b) : (q \o b)[Len(q) + i] = b[i]
  BY ConcatProperties
<1>3. Len(q) + Len(b) \in 1..Len(q \o b) /\ Len(b) \in 1..Len(b)
  BY <1>1, <1>2
<1> QED
  BY <1>2, <1>3, Zenon

\* Every caller goes on owing what its batch owes.
LEMMA OwedStep ==
  ASSUME HistoryInv, PubInv, [Next]_vars, NEW d \in Client
  PROVE  Owed(stream', published', d, client'[d])
<1> DEFINE l == client[d]
           m == client'[d]
<1>0. TypeOK
  BY Zenon DEF HistoryInv
<1>1. /\ l.s \in Stream /\ l.ver \in Nat /\ Len(l.batch) \in Nat /\ l.batch \in Seq(Event)
      /\ stream[l.s] \in Seq(Event) /\ Len(stream[l.s]) \in Nat
  BY <1>0, LocalFields, LenProperties, Zenon DEF State
<1>o. Owed(stream, published, d, l)
  BY Zenon DEF PubInv
<1>2. l.pc \in Saved =>
         /\ Len(l.batch) > 0 /\ l.ver + Len(l.batch) <= Len(stream'[l.s])
         /\ \A i \in 1..Len(l.batch) : l.batch[i].by = d /\ l.batch[i] = stream'[l.s][l.ver + i]
         /\ l.pc # "publish" =>
              \E i \in 1..Len(published'[l.s]) : published'[l.s][i] = l.batch[Len(l.batch)]
  BY StaysSaved, Zenon
<1>m. Moved(d)
  BY <1>0, Moves, Zenon
<1>3. "save" \notin Saved /\ "publish" \in Saved /\ "recache" \in Saved /\ "snapSave" \in Saved
  BY Zenon DEF Saved
<1>4. CASE m = l
  <2>1. l.pc = "publish" =>
          \A i \in 1..Len(published'[l.s]) :
            published'[l.s][i].ver \notin (l.ver + 1)..(l.ver + Len(l.batch))
    BY <1>4, StaysUnannounced, Zenon
  <2>2. l.pc = "save" => Len(l.batch) > 0 /\ \A i \in 1..Len(l.batch) : l.batch[i].by = d
    BY <1>o, Zenon DEF Owed
  <2>3. Owed(stream', published', d, l)
    <3> HIDE DEF l
    <3> QED
      BY <1>2, <2>1, <2>2, Zenon DEF Owed
  <2> QED
    BY <1>4, <2>3, Zenon
<1>5. CASE m.pc \notin Saved \cup {"save"}
  BY <1>3, <1>5, Zenon DEF Owed
<1>6. CASE /\ m.pc = "save" /\ Len(m.batch) > 0
           /\ \A i \in 1..Len(m.batch) : m.batch[i].by = d
  BY <1>3, <1>6, Zenon DEF Owed
<1>7. CASE Save(d) /\ m.pc = "publish" /\ Same(l, m)
  <2>1. l.ver = Len(stream[l.s]) /\ stream' = [stream EXCEPT ![l.s] = @ \o l.batch]
    BY <1>0, <1>7, SaveOnCurrent, Zenon
  <2>a. published' = published /\ l.pc = "save"
    BY <1>7, Zenon DEF Save
  <2>7. m.s = l.s /\ m.ver = l.ver /\ m.batch = l.batch
    BY <1>7, Zenon DEF Same
  <2> HIDE DEF l, m
  <2>2. stream'[l.s] = stream[l.s] \o l.batch /\ published' = published /\ l.pc = "save"
    BY <1>0, <1>1, <2>1, <2>a, Zenon DEF TypeOK
  <2>3. /\ l.ver + Len(l.batch) <= Len(stream'[l.s])
        /\ \A i \in 1..Len(l.batch) : l.batch[i] = stream'[l.s][l.ver + i]
        /\ \A v \in 1..l.ver : v \notin (l.ver + 1)..(l.ver + Len(l.batch))
    <3>1. stream[l.s] \in Seq(Event) /\ l.batch \in Seq(Event)
      BY <1>1, Zenon
    <3>2. l.ver = Len(stream[l.s])
      BY <2>1, Zenon
    <3>3. stream'[l.s] = stream[l.s] \o l.batch
      BY <2>2, Zenon
    <3>4. /\ Len(stream[l.s]) + Len(l.batch) <= Len(stream[l.s] \o l.batch)
          /\ \A i \in 1..Len(l.batch) :
               l.batch[i] = (stream[l.s] \o l.batch)[Len(stream[l.s]) + i]
          /\ \A v \in 1..Len(stream[l.s]) :
               v \notin (Len(stream[l.s]) + 1)..(Len(stream[l.s]) + Len(l.batch))
      BY <3>1, SavedBehind, Zenon
    <3> QED
      BY <3>2, <3>3, <3>4, Zenon
  <2>4. Len(l.batch) > 0 /\ \A i \in 1..Len(l.batch) : l.batch[i].by = d
    BY <1>o, <2>2, Zenon DEF Owed
  <2>5. ASSUME NEW i \in 1..Len(published'[l.s])
        PROVE  published'[l.s][i].ver \notin (l.ver + 1)..(l.ver + Len(l.batch))
    <3>1. published'[l.s][i].ver \in 1..Len(stream[l.s])
      BY <1>1, <2>2, <2>5, Zenon DEF PubInv, Announced
    <3> QED
      BY <2>1, <2>3, <3>1, Zenon
  <2>8. Owed(stream', published', d, m)
    BY <1>3, <1>7, <2>1, <2>3, <2>4, <2>5, <2>7, Zenon DEF Owed
  <2> QED
    BY <2>8, Zenon DEF m
<1>8. CASE /\ Publish(d) /\ m.pc \in Saved \ {"publish"} /\ Same(l, m)
           /\ published' = [published EXCEPT ![l.s] = @ \o l.batch]
  <2>a. l.pc = "publish"
    BY <1>8, Zenon DEF Publish
  <2>6. m.s = l.s /\ m.ver = l.ver /\ m.batch = l.batch
    BY <1>8, Zenon DEF Same
  <2> HIDE DEF l, m
  <2>1. published'[l.s] = published[l.s] \o l.batch /\ published[l.s] \in Seq(Event)
    BY <1>0, <1>1, <1>8, Zenon DEF TypeOK, State
  <2>2. Len(l.batch) > 0
    BY <1>2, <1>3, <2>a, Zenon
  <2>5. \E i \in 1..Len(published'[l.s]) : published'[l.s][i] = l.batch[Len(l.batch)]
    <3>1. published[l.s] \in Seq(Event) /\ l.batch \in Seq(Event)
      BY <1>1, <2>1, Zenon
    <3>2. published'[l.s] = published[l.s] \o l.batch
      BY <2>1, Zenon
    <3>3. \E i \in 1..Len(published[l.s] \o l.batch) :
            (published[l.s] \o l.batch)[i] = l.batch[Len(l.batch)]
      BY <2>2, <3>1, AnnouncedLast, Zenon
    <3> QED
      BY <3>2, <3>3, Zenon
  <2>7. Owed(stream', published', d, m)
    BY <1>2, <1>3, <1>8, <2>a, <2>5, <2>6, Zenon DEF Owed
  <2> QED
    BY <2>7 DEF m
<1>9. CASE l.pc = "snapSave" /\ m.pc = "recache" /\ Same(l, m) /\ published' = published
  <2>1. m.s = l.s /\ m.ver = l.ver /\ m.batch = l.batch
    BY <1>9, Zenon DEF Same
  <2> HIDE DEF l, m
  <2>2. Owed(stream', published', d, m)
    BY <1>2, <1>3, <1>9, <2>1, Zenon DEF Owed
  <2> QED
    BY <2>2 DEF m
<1> QED
  BY <1>m, <1>4, <1>5, <1>6, <1>7, <1>8, <1>9, Zenon DEF Moved

\* Two callers about to publish still have different parts of the stream: the
\* one that saved last saved behind everything the other one owes.
LEMMA ApartStep ==
  ASSUME HistoryInv, PubInv, [Next]_vars, NEW c \in Client, NEW d \in Client, c # d
  PROVE  Apart(client'[c], client'[d])
<1>0. TypeOK
  BY Zenon DEF HistoryInv
<1> SUFFICES ASSUME client'[c].pc = "publish", client'[d].pc = "publish",
                    client'[c].s = client'[d].s
             PROVE  \/ client'[c].ver + Len(client'[c].batch) <= client'[d].ver
                    \/ client'[d].ver + Len(client'[d].batch) <= client'[c].ver
  BY Zenon DEF Apart
<1>1. ASSUME NEW e \in Client, client'[e].pc = "publish"
      PROVE  \/ client'[e] = client[e]
             \/ Save(e) /\ Same(client[e], client'[e])
  BY <1>0, <1>1, Moves, Zenon DEF Moved, Saved
<1>2. CASE client'[c] = client[c] /\ client'[d] = client[d]
  BY <1>2, Zenon DEF PubInv, Apart
<1>3. ASSUME NEW x \in Client, NEW y \in Client, x # y, Save(x), client'[x].pc = "publish",
             Same(client[x], client'[x]), client[y].pc = "publish", client[y].s = client[x].s
      PROVE  client[y].ver + Len(client[y].batch) <= client'[x].ver
  <2>1. client[x].ver = Len(stream[client[x].s])
    BY <1>0, <1>3, SaveOnCurrent, Zenon
  <2>2. client[y].ver + Len(client[y].batch) <= Len(stream[client[y].s])
    BY <1>3, Zenon DEF PubInv, Owed, Saved
  <2> QED
    BY <1>3, <2>1, <2>2, Zenon DEF Same
<1>4. ASSUME NEW x \in Client, NEW y \in Client, x # y, Save(x), client'[x].pc = "publish"
      PROVE  client'[y] = client[y]
  <2>1. Return(x) \/ Goto(x, "publish")
    BY <1>4, Zenon DEF Save
  <2>2. client'[x].pc # "idle"
    BY <1>4, Zenon
  <2>3. Goto(x, "publish")
    BY <1>0, <2>1, <2>2, ReturnIdle, Zenon
  <2> QED
    BY <1>0, <1>4, <2>3, Zenon DEF Goto, TypeOK
<1>5. CASE Save(c) /\ Same(client[c], client'[c])
  <2>1. client'[d] = client[d]
    BY <1>4, <1>5, Zenon
  <2>2. client[d].pc = "publish" /\ client[d].s = client[c].s
    BY <1>5, <2>1, Zenon DEF Same
  <2>3. client[d].ver + Len(client[d].batch) <= client'[c].ver
    BY <1>3, <1>5, <2>2, Zenon
  <2> QED
    BY <2>1, <2>3, Zenon
<1>6. CASE Save(d) /\ Same(client[d], client'[d])
  <2>1. client'[c] = client[c]
    BY <1>4, <1>6, Zenon
  <2>2. client[c].pc = "publish" /\ client[c].s = client[d].s
    BY <1>6, <2>1, Zenon DEF Same
  <2>3. client[c].ver + Len(client[c].batch) <= client'[d].ver
    BY <1>3, <1>6, <2>2, Zenon
  <2> QED
    BY <2>1, <2>3, Zenon
<1> QED
  BY <1>1, <1>2, <1>5, <1>6, Zenon

\* A call succeeds after it published its whole batch.
LEMMA FinishOnly ==
  ASSUME [Next]_vars, wrote' # wrote
  PROVE  \E c \in Client :
           /\ Finish(c)
           /\ \/ /\ client[c].pc = "publish"
                 /\ published' = [published EXCEPT ![client[c].s] = @ \o client[c].batch]
              \/ client[c].pc \in {"snapSave", "recache"}
<1>1. \E c \in Client : Publish(c) \/ SnapSave(c) \/ Recache(c)
  BY ZenonT(40) DEF Next, Step, CacheGet, CacheTail, CacheDrop, SnapLoad, SnapTail, StoreLoad,
     Join, FlightRead, FlightLand, CachePut, LoadReturn, Decide, Save, Call, OtherSave,
     Evict, Restart, vars
<1>2. ASSUME NEW c \in Client, Publish(c)
      PROVE  /\ Finish(c) /\ client[c].pc = "publish"
             /\ published' = [published EXCEPT ![client[c].s] = @ \o client[c].batch]
  BY <1>2, Zenon DEF Publish, AfterSnapshot
<1>3. ASSUME NEW c \in Client, SnapSave(c) \/ Recache(c)
      PROVE  Finish(c) /\ client[c].pc \in {"snapSave", "recache"}
  BY <1>3, Zenon DEF SnapSave, Recache, AfterSnapshot
<1> QED
  BY <1>1, <1>2, <1>3, Zenon

\* What was acknowledged is saved and announced, and stays so.
LEMMA AckedStep ==
  ASSUME HistoryInv, PubInv, [Next]_vars, NEW x \in Client, NEW s \in Stream,
         wrote'[x][s] > 0
  PROVE  /\ wrote'[x][s] <= Len(stream'[s])
         /\ stream'[s][wrote'[x][s]].by = x
         /\ \E i \in 1..Len(published'[s]) : published'[s][i] = stream'[s][wrote'[x][s]]
<1>0. TypeOK /\ wrote \in [Client -> [Stream -> Nat]]
  BY Zenon DEF HistoryInv, TypeOK
<1>1. CASE wrote'[x][s] = wrote[x][s]
  <2> DEFINE v == wrote[x][s]
  <2>1. v \in Nat
    BY <1>0, Zenon
  <2>2. /\ v > 0 /\ v <= Len(stream[s]) /\ stream[s][v].by = x
        /\ \E i \in 1..Len(published[s]) : published[s][i] = stream[s][v]
    BY <1>1, Zenon DEF PubInv, AckedIsSavedAndPublished
  <2>3. Longer(stream[s], stream'[s]) /\ Longer(published[s], published'[s])
    BY AllLonger, Zenon
  <2> HIDE DEF v
  <2>4. v \in 1..Len(stream[s]) /\ v <= Len(stream'[s])
    BY <2>1, <2>2, <2>3, SMTT(30) DEF Longer
  <2>5. stream'[s][v] = stream[s][v]
    BY <2>3, <2>4, Zenon DEF Longer
  <2>6. \E i \in 1..Len(published'[s]) : published'[s][i] = stream[s][v]
    BY <2>2, <2>3, Zenon DEF Longer
  <2>7. wrote'[x][s] = v
    BY <1>1, Zenon DEF v
  <2> QED
    BY <2>2, <2>4, <2>5, <2>6, <2>7, Zenon
<1>2. ASSUME NEW c \in Client, Finish(c), wrote'[x][s] # wrote[x][s],
             \/ /\ client[c].pc = "publish"
                /\ published' = [published EXCEPT ![client[c].s] = @ \o client[c].batch]
             \/ client[c].pc \in {"snapSave", "recache"}
      PROVE  /\ wrote'[x][s] <= Len(stream'[s])
             /\ stream'[s][wrote'[x][s]].by = x
             /\ \E i \in 1..Len(published'[s]) : published'[s][i] = stream'[s][wrote'[x][s]]
  <2> DEFINE l == client[c]
             n == Len(l.batch)
  <2>1. /\ l.s \in Stream /\ l.ver \in Nat /\ n \in Nat /\ NewVersion(c) = l.ver + n
        /\ l.batch \in Seq(Event) /\ published[l.s] \in Seq(Event)
    BY <1>0, LocalFields, LenProperties, Zenon DEF State, NewVersion, TypeOK
  <2>2. x = c /\ s = l.s /\ wrote'[x][s] = l.ver + n
    BY <1>0, <1>2, <2>1, Zenon DEF Finish
  <2>3. l.pc \in Saved
    BY <1>2, Zenon DEF Saved
  <2>4. /\ n > 0 /\ l.ver + n <= Len(stream'[l.s])
        /\ \A i \in 1..n : l.batch[i].by = c /\ l.batch[i] = stream'[l.s][l.ver + i]
        /\ l.pc # "publish" =>
             \E i \in 1..Len(published'[l.s]) : published'[l.s][i] = l.batch[n]
    BY <2>3, StaysSaved, Zenon
  <2>5. n \in 1..n
    BY <2>1, <2>4, SMTT(30)
  <2>6. \E i \in 1..Len(published'[l.s]) : published'[l.s][i] = l.batch[n]
    <3>1. CASE l.pc = "publish"
      <4>1. published'[l.s] = published[l.s] \o l.batch
        BY <1>0, <1>2, <2>1, <3>1, Zenon DEF TypeOK
      <4>2. \E i \in 1..Len(published[l.s] \o l.batch) :
              (published[l.s] \o l.batch)[i] = l.batch[Len(l.batch)]
        BY <2>1, <2>4, AnnouncedLast, Zenon
      <4> QED
        BY <4>1, <4>2, Zenon
    <3> QED
      BY <2>4, <3>1, Zenon
  <2>7. l.batch[n].by = c /\ l.batch[n] = stream'[l.s][l.ver + n]
    BY <2>4, <2>5, Zenon
  <2> HIDE DEF l, n
  <2> QED
    BY <2>2, <2>4, <2>6, <2>7, Zenon
<1>3. wrote'[x][s] = wrote[x][s] \/ wrote' # wrote
  OBVIOUS
<1> QED
  BY <1>1, <1>2, <1>3, FinishOnly, Zenon

\* Nothing is announced in the beginning, and no call is under way.
LEMMA PubInit == Init => PubInv
<1> SUFFICES ASSUME Init PROVE PubInv
  OBVIOUS
<1>1. \A s \in Stream : stream[s] = <<>> /\ published[s] = <<>>
  BY Zenon DEF Init
<1>2. ASSUME NEW c \in Client PROVE client[c].pc = "idle"
  <2>1. client[c] \in {Idle(s) : s \in Stream}
    BY Zenon DEF Init
  <2> QED
    BY <2>1 DEF Idle
<1>3. \A c \in Client, s \in Stream : wrote[c][s] = 0
  BY Zenon DEF Init
<1>4. \A s \in Stream : Numbered(stream[s]) /\ Announced(stream[s], published[s])
  BY <1>1, SMTT(30) DEF Numbered, Announced
<1>5. \A c \in Client : Owed(stream, published, c, client[c])
  BY <1>2, Zenon DEF Owed, Saved
<1>6. \A c, d \in Client : Apart(client[c], client[d])
  BY <1>2, Zenon DEF Apart
<1>7. AckedIsSavedAndPublished
  BY <1>3 DEF AckedIsSavedAndPublished
<1> QED
  BY <1>4, <1>5, <1>6, <1>7, Zenon DEF PubInv

\* The invariant is inductive.
LEMMA PubStep == HistoryInv /\ PubInv /\ [Next]_vars => PubInv'
<1> SUFFICES ASSUME HistoryInv, PubInv, [Next]_vars PROVE PubInv'
  OBVIOUS
<1>1. \A s \in Stream : Numbered(stream'[s]) /\ Announced(stream'[s], published'[s])
  BY StreamKept, AnnouncedStep, Zenon DEF PubInv
<1>2. \A c \in Client : Owed(stream', published', c, client'[c])
  BY OwedStep, Zenon
<1>3. \A c, d \in Client : c # d => Apart(client'[c], client'[d])
  BY ApartStep, Zenon
<1>4. AckedIsSavedAndPublished'
  BY AckedStep, Zenon DEF AckedIsSavedAndPublished
<1> QED
  BY <1>1, <1>2, <1>3, <1>4, Zenon DEF PubInv

\* PubInv is an invariant.
LEMMA PubHolds == Spec => []PubInv
BY PubInit, PubStep, HistoryInit, HistoryStep, PTL DEF Spec

\* Every event the bus was handed is in the store, at the version it carries,
\* and is handed over once: however the saves and the publishes of several
\* callers interleave, and wherever a publish breaks off.
THEOREM AnnouncedOnce == Spec => []PublishedWasSaved
<1>1. PubInv => PublishedWasSaved
  BY Zenon DEF PubInv, Announced, PublishedWasSaved
<1> QED
  BY <1>1, PubHolds, PTL

\* What ExecuteRef acknowledged is in the store under the caller's name and
\* was handed to the publisher, for good.
THEOREM AckedHolds == Spec => []AckedIsSavedAndPublished
<1>1. PubInv => AckedIsSavedAndPublished
  BY Zenon DEF PubInv
<1> QED
  BY <1>1, PubHolds, PTL

-----------------------------------------------------------------------------
(* Snapshots *)

\* A step stores a snapshot by SnapshotSave, or leaves them all.
LEMMA SnapSteps ==
  ASSUME TypeOK, [Next]_vars, NEW s \in Stream
  PROVE  \/ snap'[s] = snap[s]
         \/ \E new \in Snapshot : new.ok /\ snap'[s] = SnapshotSave(snap[s], new)
<1>1. ASSUME NEW c \in Client, SnapSave(c)
      PROVE  \/ snap'[s] = snap[s]
             \/ \E new \in Snapshot : new.ok /\ snap'[s] = SnapshotSave(snap[s], new)
  <2> DEFINE l == client[c]
             new == [ok |-> TRUE, st |-> l.st \o l.batch, ver |-> NewVersion(c),
                     shape |-> build]
  <2>1. l.st \o l.batch \in State /\ NewVersion(c) \in Nat /\ l.s \in Stream
    BY LocalFields, ConcatType, Zenon
  <2>2. new \in Snapshot /\ new.ok
    BY <2>1, Zenon DEF Snapshot, TypeOK
  <2>3. snap' = snap \/ snap' = [snap EXCEPT ![l.s] = SnapshotSave(@, new)]
    BY <1>1, Zenon DEF SnapSave
  <2> HIDE DEF new, l
  <2>4. snap'[s] = snap[s] \/ snap'[s] = SnapshotSave(snap[s], new)
    BY <2>1, <2>3, Zenon DEF TypeOK
  <2> QED
    BY <2>2, <2>4, Zenon
<1>2. \/ \E c \in Client : SnapSave(c)
      \/ snap' = snap
  BY ZenonT(40) DEF Next, Step, CacheGet, CacheTail, CacheDrop, SnapLoad, SnapTail, StoreLoad,
     Join, FlightRead, FlightLand, CachePut, LoadReturn, Decide, Save, Publish, Recache,
     Call, OtherSave, Evict, Restart, vars
<1> QED
  BY <1>1, <1>2, Zenon

\* The snapshot of a stream is never replaced by one of a lower version, in
\* whatever order slow callers come to save theirs.
THEOREM SnapshotsAdvance == Spec => SnapshotNeverOlder
<1>1. ASSUME TypeOK, [Next]_vars, NEW s \in Stream, snap[s].ok
      PROVE  snap'[s].ok /\ snap'[s].ver >= snap[s].ver
  <2>1. snap[s] \in Snapshot /\ snap[s].ver \in Nat
    BY <1>1, Zenon DEF TypeOK, Snapshot
  <2>2. CASE snap'[s] = snap[s]
    BY <1>1, <2>1, <2>2
  <2>3. ASSUME NEW new \in Snapshot, new.ok, snap'[s] = SnapshotSave(snap[s], new)
        PROVE  snap'[s].ok /\ snap'[s].ver >= snap[s].ver
    <3>1. new.ver \in Nat
      BY Zenon DEF Snapshot
    <3> QED
      BY <1>1, <2>1, <2>3, <3>1 DEF SnapshotSave
  <2> QED
    BY <1>1, <2>2, <2>3, SnapSteps, Zenon
<1>2. TypeOK /\ [Next]_vars =>
        [\A s \in Stream : snap[s].ok => snap'[s].ok /\ snap'[s].ver >= snap[s].ver]_vars
  BY <1>1, Zenon
<1> QED
  BY <1>2, TypeCorrect, PTL DEF Spec, SnapshotNeverOlder
=============================================================================
