-------------------------- MODULE RepositoryProofs --------------------------
(***************************************************************************)
(* The safety of Repository.tla, proved for any number of callers and      *)
(* streams and for every setting of the options: the type invariant;       *)
(* whatever the cache, the snapshot store and the callers hold is a state  *)
(* the stream really had; no update is lost; the repository implements     *)
(* EventStream.                                                            *)
(*                                                                         *)
(* None of CacheSound, SnapshotSound and LoadedIsHistory is inductive:     *)
(* each is filled from the others, and cache and snapshot also from a      *)
(* state a caller computed after its save.  HistoryInv joins them with     *)
(* BatchIsHistory, and is.  It speaks of states only where the shapes of   *)
(* State are Guarded, and of versions always: a snapshot of a foreign      *)
(* shape that passes for a current one has a wrong state, but its version. *)
(***************************************************************************)
EXTENDS Repository, SequenceTheorems, TLAPS

-----------------------------------------------------------------------------
(* Sequences *)

\* SliceFromVersion and the prefix it leaves out make up the whole stream.
LEMMA PrefixAndTail ==
  ASSUME NEW S, NEW q \in Seq(S), NEW v \in Nat, v <= Len(q)
  PROVE  /\ SubSeq(q, 1, v) \in Seq(S)
         /\ SubSeq(q, v + 1, Len(q)) \in Seq(S)
         /\ v + Len(SubSeq(q, v + 1, Len(q))) = Len(q)
         /\ SubSeq(q, 1, v) \o SubSeq(q, v + 1, Len(q)) = q
<1> DEFINE p == SubSeq(q, 1, v)
           t == SubSeq(q, v + 1, Len(q))
<1>1. /\ p \in Seq(S) /\ Len(p) = v
      /\ \A i \in 1..v : p[i] = q[i]
  BY SubSeqProperties, ElementOfSeq, LenProperties
<1>2. /\ t \in Seq(S) /\ Len(t) = Len(q) - v
      /\ \A i \in 1..(Len(q) - v) : t[i] = q[v + i]
  BY SubSeqProperties, ElementOfSeq, LenProperties
<1> HIDE DEF p, t
<1>3. Len(q) \in Nat
  BY LenProperties, Zenon
<1>4. /\ p \o t \in Seq(S) /\ Len(p \o t) = Len(p) + Len(t)
      /\ \A i \in 1..(Len(p) + Len(t)) :
           (p \o t)[i] = IF i <= Len(p) THEN p[i] ELSE t[i - Len(p)]
  BY <1>1, <1>2, ConcatProperties, Zenon
<1>5. \A i \in 1..Len(q) : (p \o t)[i] = q[i]
  BY <1>1, <1>2, <1>3, <1>4, SMTT(30)
<1>6. p \o t = q
  <2> DEFINE r == p \o t
  <2>1. r \in Seq(S) /\ Len(r) = Len(q) /\ \A i \in 1..Len(r) : r[i] = q[i]
    BY <1>1, <1>2, <1>3, <1>4, <1>5
  <2> HIDE DEF r
  <2>2. r = q
    BY <2>1, SeqEqual, Zenon
  <2> QED
    BY <2>2, Zenon DEF r
<1>7. /\ p \in Seq(S) /\ t \in Seq(S)
      /\ v + Len(t) = Len(q)
  BY <1>1, <1>2, <1>3
<1> QED
  BY <1>6, <1>7, Zenon DEF p, t

\* Appending to a stream leaves its earlier states what they were.
LEMMA PrefixOfLonger ==
  ASSUME NEW S, NEW q \in Seq(S), NEW b \in Seq(S), NEW v \in Nat, v <= Len(q)
  PROVE  /\ v <= Len(q \o b)
         /\ SubSeq(q \o b, 1, v) = SubSeq(q, 1, v)
<1> DEFINE r == q \o b
<1>1. /\ r \in Seq(S) /\ Len(r) = Len(q) + Len(b)
      /\ \A i \in 1..Len(q) : r[i] = q[i]
  BY ConcatProperties, LenProperties
<1> HIDE DEF r
<1>2. /\ SubSeq(r, 1, v) \in Seq(S) /\ Len(SubSeq(r, 1, v)) = v
      /\ \A i \in 1..v : SubSeq(r, 1, v)[i] = r[i]
  BY <1>1, SubSeqProperties, ElementOfSeq, LenProperties
<1>3. /\ SubSeq(q, 1, v) \in Seq(S) /\ Len(SubSeq(q, 1, v)) = v
      /\ \A i \in 1..v : SubSeq(q, 1, v)[i] = q[i]
  BY SubSeqProperties, ElementOfSeq, LenProperties
<1>4. SubSeq(r, 1, v) = SubSeq(q, 1, v)
  <2>1. \A i \in 1..v : SubSeq(r, 1, v)[i] = SubSeq(q, 1, v)[i]
    BY <1>1, <1>2, <1>3, LenProperties
  <2> QED
    BY <1>2, <1>3, <2>1, SeqEqual, Zenon
<1> QED
  BY <1>1, <1>4, LenProperties DEF r

\* What an append added is what comes after the old length.
LEMMA AppendedTail ==
  ASSUME NEW S, NEW q \in Seq(S), NEW b \in Seq(S)
  PROVE  SubSeq(q \o b, Len(q) + 1, Len(q \o b)) = b
<1> DEFINE r == q \o b
           t == SubSeq(r, Len(q) + 1, Len(r))
<1>1. /\ r \in Seq(S) /\ Len(r) = Len(q) + Len(b)
      /\ \A i \in 1..Len(b) : r[Len(q) + i] = b[i]
  BY ConcatProperties, LenProperties
<1> HIDE DEF r
<1>2. /\ t \in Seq(S) /\ Len(t) = Len(b)
      /\ \A i \in 1..Len(b) : t[i] = r[Len(q) + i]
  BY <1>1, SubSeqProperties, ElementOfSeq, LenProperties
<1> HIDE DEF t
<1>3. t = b
  BY <1>1, <1>2, SeqEqual, Zenon
<1> QED
  BY <1>3, Zenon DEF t, r

-----------------------------------------------------------------------------
(* Types *)

\* A function on 1..n is a sequence of length n.
LEMMA FunctionIsSeq ==
  ASSUME NEW S, NEW n \in Nat, NEW f \in [1..n -> S]
  PROVE  f \in Seq(S) /\ Len(f) = n
<1>1. f \in Seq(S)
  BY SeqDef, Zenon
<1>2. DOMAIN f = 1..n /\ DOMAIN f = 1..Len(f) /\ Len(f) \in Nat
  BY <1>1, LenProperties, Zenon
<1> QED
  BY <1>1, <1>2

\* A sequence of one element.
LEMMA SingletonSeq == ASSUME NEW S, NEW e \in S PROVE <<e>> \in Seq(S)
OBVIOUS

\* A decision is a non-empty sequence.
LEMMA DecisionIsSeq ==
  ASSUME NEW oks \in Decisions
  PROVE  oks \in Seq(BOOLEAN) /\ Len(oks) \in Nat \ {0}
<1>1. PICK n \in 1..MaxBatch : oks \in [1..n -> BOOLEAN]
  BY Zenon DEF Decisions
<1>2. n \in Nat \ {0}
  BY <1>1, RepositoryAssumption
<1> QED
  BY <1>1, <1>2, FunctionIsSeq, Zenon

\* NewEvents makes one event per element, with consecutive versions.
LEMMA NewEventsType ==
  ASSUME NEW c \in Client \cup {Other}, NEW v \in Nat, NEW oks \in Seq(BOOLEAN)
  PROVE  /\ NewEvents(c, v, oks) \in State
         /\ Len(NewEvents(c, v, oks)) = Len(oks)
         /\ \A i \in 1..Len(oks) : NewEvents(c, v, oks)[i].ver = v + i
<1>1. Len(oks) \in Nat /\ \A i \in 1..Len(oks) : oks[i] \in BOOLEAN
  BY LenProperties, ElementOfSeq, Zenon
<1>2. NewEvents(c, v, oks) \in [1..Len(oks) -> Event]
  BY <1>1 DEF NewEvents, Event
<1>3. /\ NewEvents(c, v, oks) \in Seq(Event)
      /\ Len(NewEvents(c, v, oks)) = Len(oks)
  BY <1>1, <1>2, FunctionIsSeq, Zenon
<1> QED
  BY <1>1, <1>3, Zenon DEF NewEvents, State

\* A concatenation of histories (foldEvents onto a loaded state) is a history.
LEMMA ConcatType ==
  ASSUME NEW a \in State, NEW b \in State
  PROVE  a \o b \in State /\ Len(a) \in Nat /\ Len(a \o b) = Len(a) + Len(b)
BY ConcatProperties, LenProperties, Zenon DEF State

\* SliceFromVersion returns events of the stream, whatever version it is asked.
LEMMA SliceType ==
  ASSUME NEW a \in State, NEW v \in Nat
  PROVE  /\ SliceFromVersion(a, v) \in State
         /\ Len(SliceFromVersion(a, v)) \in Nat
<1>1. Len(a) \in Nat /\ \A i \in (v + 1)..Len(a) : a[i] \in Event
  BY LenProperties, ElementOfSeq DEF State
<1>2. SubSeq(a, v + 1, Len(a)) \in Seq(Event)
  BY <1>1, SubSeqProperties
<1> QED
  BY <1>2, LenProperties, Zenon DEF SliceFromVersion, State

\* The local variables of a caller that is in no call.
LEMMA IdleType ==
  ASSUME NEW s \in Stream
  PROVE  Idle(s) \in Local
<1>1. <<>> \in State
  BY EmptySeq, Zenon DEF State
<1> QED
  BY <1>1, Zenon DEF Idle, Local, PC

\* Assigning a loaded state and its version keeps the local variables typed.
LEMMA LoadedType ==
  ASSUME NEW l \in Local, NEW pc \in PC, NEW st \in State, NEW v \in Nat
  PROVE  Loaded(l, pc, st, v) \in Local
BY Zenon DEF Loaded, Local

\* loadByEvents leaves a loaded state or an ended call.
LEMMA FromEventsType ==
  ASSUME NEW l \in Local, NEW events \in State
  PROVE  FromEvents(l, events) \in Local
<1>1. Len(events) \in Nat
  BY LenProperties, Zenon DEF State
<1>2. AfterLoad \in PC
  BY Zenon DEF AfterLoad, PC
<1>3. l.s \in Stream
  BY Zenon DEF Local
<1> QED
  BY <1>1, <1>2, <1>3, LoadedType, IdleType, Zenon DEF FromEvents

\* Moving a caller to its next statement keeps the local variables typed.
LEMMA GotoType ==
  ASSUME client \in [Client -> Local], NEW c \in Client, NEW pc \in PC, Goto(c, pc)
  PROVE  client' \in [Client -> Local]
BY Zenon DEF Goto, Local

\* Returning from ExecuteRef or LoadRef keeps the local variables typed.
LEMMA ReturnType ==
  ASSUME client \in [Client -> Local], NEW c \in Client, Return(c)
  PROVE  client' \in [Client -> Local]
<1>1. client[c].s \in Stream
  BY Zenon DEF Local
<1> QED
  BY <1>1, IdleType, Zenon DEF Return

\* The branches LoadRef takes on the configured options are statements of it.
LEMMA PCs == AfterCache \in PC /\ AfterLoad \in PC
BY Zenon DEF AfterCache, AfterLoad, PC

\* The fields of a caller's local variables.
LEMMA LocalFields ==
  ASSUME TypeOK, NEW c \in Client
  PROVE  /\ client[c] \in Local /\ client[c].s \in Stream
         /\ client[c].st \in State /\ client[c].batch \in State
         /\ client[c].ver \in Nat /\ NewVersion(c) \in Nat
         /\ stream[client[c].s] \in State /\ Len(stream[client[c].s]) \in Nat
<1>1. /\ client[c] \in Local /\ client[c].s \in Stream
      /\ client[c].st \in State /\ client[c].batch \in State
      /\ client[c].ver \in Nat
      /\ stream[client[c].s] \in State
  BY Zenon DEF TypeOK, Local
<1>2. Len(client[c].batch) \in Nat /\ Len(stream[client[c].s]) \in Nat
  BY <1>1, LenProperties, Zenon DEF State
<1> QED
  BY <1>1, <1>2 DEF NewVersion

\* The successful end of ExecuteRef keeps callers and write records typed.
LEMMA FinishType ==
  ASSUME TypeOK, NEW c \in Client, Finish(c)
  PROVE  client' \in [Client -> Local] /\ wrote' \in [Client -> [Stream -> Nat]]
<1>1. client' \in [Client -> Local]
  BY ReturnType, Zenon DEF Finish, TypeOK
<1>2. wrote' \in [Client -> [Stream -> Nat]]
  BY LocalFields, Zenon DEF Finish, TypeOK
<1> QED
  BY <1>1, <1>2, Zenon

\* So does what ExecuteRef does once the snapshot step is over.
LEMMA AfterSnapshotType ==
  ASSUME TypeOK, NEW c \in Client, AfterSnapshot(c)
  PROVE  client' \in [Client -> Local] /\ wrote' \in [Client -> [Stream -> Nat]]
<1>1. CASE Caching
  <2>1. Goto(c, "recache") /\ UNCHANGED wrote
    BY <1>1, Zenon DEF AfterSnapshot
  <2> QED
    BY <2>1, GotoType, Zenon DEF TypeOK, PC
<1>2. CASE ~Caching
  BY <1>2, FinishType, Zenon DEF AfterSnapshot
<1> QED
  BY <1>1, <1>2, Zenon

\* The empty stores and idle callers of a new process are typed.
LEMMA TypeInit == Init => TypeOK
<1> SUFFICES ASSUME Init PROVE TypeOK
  OBVIOUS
<1>1. <<>> \in State
  BY EmptySeq, Zenon DEF State
<1>2. NoEntry \in Entry /\ NoSnapshot \in Snapshot
  BY <1>1, Zenon DEF NoEntry, NoSnapshot, Entry, Snapshot
<1>3. client \in [Client -> Local]
  BY IdleType, Zenon DEF Init
<1> QED
  BY <1>1, <1>2, <1>3, Zenon DEF Init, TypeOK

\* Every step keeps the type invariant, one case per action.
LEMMA TypeStep == TypeOK /\ [Next]_vars => TypeOK'
<1> SUFFICES ASSUME TypeOK, [Next]_vars PROVE TypeOK'
  OBVIOUS
<1> USE DEF TypeOK
<1>e. <<>> \in State /\ NoEntry \in Entry
  BY EmptySeq, Zenon DEF State, NoEntry, Entry
<1>1. ASSUME NEW c \in Client, NEW s \in Stream, NEW op \in {"load", "execute"},
             Call(c, s, op)
      PROVE  TypeOK'
  <2>1. Idle(s) \in Local
    BY IdleType, Zenon
  <2>2. [Idle(s) EXCEPT !.op = op,
                        !.pc = IF Caching THEN "cacheGet" ELSE AfterCache] \in Local
    BY <2>1, PCs, ZenonT(40) DEF Local, PC
  <2> QED
    BY <1>1, <2>2, Zenon DEF Call
<1>2. ASSUME NEW c \in Client, CacheGet(c) PROVE TypeOK'
  <2>1. /\ cache[client[c].s].st \in State /\ cache[client[c].s].ver \in Nat
        /\ "cacheTail" \in PC /\ client[c] \in Local
    BY LocalFields, Zenon DEF Entry, PC
  <2>2. /\ Loaded(client[c], "cacheTail", cache[client[c].s].st, cache[client[c].s].ver)
             \in Local
        /\ [client[c] EXCEPT !.pc = AfterCache] \in Local
    BY <2>1, LoadedType, PCs, Zenon DEF Local
  <2> QED
    BY <1>2, <2>2, Zenon DEF CacheGet
<1>3. ASSUME NEW c \in Client, CacheTail(c) PROVE TypeOK'
  <2> DEFINE tail == SliceFromVersion(stream[client[c].s], client[c].ver)
  <2>1. tail \in State /\ Len(tail) \in Nat
    BY LocalFields, SliceType, Zenon
  <2>2. client[c].st \o tail \in State /\ client[c].ver + Len(tail) \in Nat
    BY <2>1, LocalFields, ConcatType
  <2>3. Loaded(client[c], "cachePut", client[c].st \o tail, client[c].ver + Len(tail))
          \in Local
    BY <2>2, LocalFields, LoadedType, Zenon DEF PC
  <2>4. client' \in [Client -> Local]
    <3>1. CASE Goto(c, "cacheDrop")
      BY <3>1, GotoType, Zenon DEF PC
    <3>2. CASE Goto(c, "loaded")
      BY <3>2, GotoType, Zenon DEF PC
    <3>3. CASE client' = [client EXCEPT ![c] =
              Loaded(@, "cachePut", client[c].st \o tail, client[c].ver + Len(tail))]
      BY <3>3, <2>3, Zenon
    <3> QED
      BY <1>3, <3>1, <3>2, <3>3, Zenon DEF CacheTail
  <2> QED
    BY <1>3, <2>4, Zenon DEF CacheTail
<1>4. ASSUME NEW c \in Client, CacheDrop(c) PROVE TypeOK'
  <2>1. Loaded(client[c], AfterCache, <<>>, 0) \in Local
    BY <1>e, LocalFields, LoadedType, PCs, Zenon
  <2> QED
    BY <1>4, <1>e, <2>1, LocalFields, Zenon DEF CacheDrop
<1>5. ASSUME NEW c \in Client, SnapLoad(c) PROVE TypeOK'
  <2> DEFINE sn == snap[client[c].s]
  <2>1. Decode(sn) \in State /\ sn.ver \in Nat
    BY <1>e, LocalFields, Zenon DEF Decode, Snapshot
  <2>2. Loaded(client[c], "snapTail", Decode(sn), sn.ver) \in Local
    BY <2>1, LocalFields, LoadedType, Zenon DEF PC
  <2>3. client' \in [Client -> Local]
    <3>1. CASE Return(c)
      BY <3>1, ReturnType, Zenon
    <3>2. CASE Goto(c, "store")
      BY <3>2, GotoType, Zenon DEF PC
    <3>3. CASE client' = [client EXCEPT ![c] = Loaded(@, "snapTail", Decode(sn), sn.ver)]
      BY <3>3, <2>2, Zenon
    <3> QED
      BY <1>5, <3>1, <3>2, <3>3, Zenon DEF SnapLoad
  <2> QED
    BY <1>5, <2>3, Zenon DEF SnapLoad
<1>6. ASSUME NEW c \in Client, SnapTail(c) PROVE TypeOK'
  <2> DEFINE tail == SliceFromVersion(stream[client[c].s], client[c].ver)
  <2>1. tail \in State /\ Len(tail) \in Nat
    BY LocalFields, SliceType, Zenon
  <2>2. client[c].st \o tail \in State /\ client[c].ver + Len(tail) \in Nat
    BY <2>1, LocalFields, ConcatType
  <2>3. Loaded(client[c], AfterLoad, client[c].st \o tail, client[c].ver + Len(tail))
          \in Local
    BY <2>2, LocalFields, LoadedType, PCs, Zenon
  <2>4. client' \in [Client -> Local]
    <3>1. CASE Return(c)
      BY <3>1, ReturnType
    <3>2. CASE client' = [client EXCEPT ![c] =
              Loaded(@, AfterLoad, client[c].st \o tail, client[c].ver + Len(tail))]
      BY <3>2, <2>3, Zenon
    <3> QED
      BY <1>6, <3>1, <3>2, Zenon DEF SnapTail
  <2> QED
    BY <1>6, <2>4, Zenon DEF SnapTail
<1>7. ASSUME NEW c \in Client, StoreLoad(c) PROVE TypeOK'
  <2>1. FromEvents(client[c], stream[client[c].s]) \in Local
    BY LocalFields, FromEventsType, Zenon
  <2>2. client' \in [Client -> Local]
    <3>1. CASE Return(c)
      BY <3>1, ReturnType
    <3>2. CASE client' = [client EXCEPT ![c] =
                 FromEvents(client[c], stream[client[c].s])]
      BY <3>2, <2>1, Zenon
    <3> QED
      BY <1>7, <3>1, <3>2, Zenon DEF StoreLoad
  <2> QED
    BY <1>7, <2>2, Zenon DEF StoreLoad
<1>8. ASSUME NEW c \in Client, Join(c) PROVE TypeOK'
  <2>1. client' \in [Client -> Local]
    BY <1>8, GotoType, Zenon DEF Join, PC
  <2>2. flight' \in [Stream -> Client \cup {None}]
    BY <1>8, Zenon DEF Join
  <2> QED
    BY <1>8, <2>1, <2>2, Zenon DEF Join
<1>9. ASSUME NEW c \in Client, FlightRead(c) PROVE TypeOK'
  <2>1. Loaded(client[c], "land", stream[client[c].s], Len(stream[client[c].s])) \in Local
    BY LocalFields, LoadedType, Zenon DEF PC
  <2>2. client' \in [Client -> Local]
    <3>1. CASE Goto(c, "landErr")
      BY <3>1, GotoType, Zenon DEF PC
    <3>2. CASE client' = [client EXCEPT ![c] =
                 Loaded(@, "land", stream[client[c].s], Len(stream[client[c].s]))]
      BY <3>2, <2>1, Zenon
    <3> QED
      BY <1>9, <3>1, <3>2, Zenon DEF FlightRead
  <2> QED
    BY <1>9, <2>2, Zenon DEF FlightRead

<1>10. ASSUME NEW c \in Client, FlightLand(c) PROVE TypeOK'
  <2>1. \A d \in Client : /\ Idle(client[d].s) \in Local
                          /\ FromEvents(client[d], client[c].st) \in Local
    BY LocalFields, IdleType, FromEventsType, Zenon
  <2>2. client' \in [Client -> Local]
    BY <1>10, <2>1, Zenon DEF FlightLand
  <2>3. flight' \in [Stream -> Client \cup {None}]
    BY <1>10, Zenon DEF FlightLand
  <2> QED
    BY <1>10, <2>2, <2>3, Zenon DEF FlightLand
<1>11. ASSUME NEW c \in Client, CachePut(c) PROVE TypeOK'
  <2>1. client' \in [Client -> Local]
    BY <1>11, GotoType, Zenon DEF CachePut, PC
  <2>2. cache' \in [Stream -> Entry]
    BY <1>11, LocalFields, Zenon DEF CachePut, Entry
  <2> QED
    BY <1>11, <2>1, <2>2, Zenon DEF CachePut
<1>12. ASSUME NEW c \in Client, LoadReturn(c) PROVE TypeOK'
  BY <1>12, ReturnType, Zenon DEF LoadReturn
<1>13. ASSUME NEW c \in Client, Decide(c) PROVE TypeOK'
  <2>1. CASE Return(c)
    BY <1>13, <2>1, ReturnType, Zenon DEF Decide
  <2>2. ASSUME NEW oks \in Decisions,
               client' = [client EXCEPT ![c].batch = NewEvents(c, client[c].ver, oks),
                                        ![c].pc = "save"]
        PROVE  TypeOK'
    <3> DEFINE b == NewEvents(c, client[c].ver, oks)
    <3>1. b \in State
      BY LocalFields, DecisionIsSeq, NewEventsType, Zenon
    <3> HIDE DEF b
    <3>2. client' = [client EXCEPT ![c] = [@ EXCEPT !.batch = b, !.pc = "save"]]
      BY <2>2, Zenon DEF b
    <3>3. [client[c] EXCEPT !.batch = b, !.pc = "save"] \in Local
      BY <3>1, LocalFields, ZenonT(40) DEF Local, PC
    <3>4. client' \in [Client -> Local]
      BY <3>2, <3>3, Zenon
    <3> QED
      BY <1>13, <3>4, Zenon DEF Decide
  <2> QED
    BY <1>13, <2>1, <2>2, Zenon DEF Decide
<1>14. ASSUME NEW c \in Client, Save(c) PROVE TypeOK'
  <2>1. CASE Return(c) /\ UNCHANGED stream
    BY <1>14, <2>1, ReturnType, Zenon DEF Save
  <2>2. CASE /\ stream' = [stream EXCEPT ![client[c].s] = @ \o client[c].batch]
             /\ Goto(c, "publish")
    <3>1. stream[client[c].s] \o client[c].batch \in State
      BY LocalFields, ConcatType, Zenon
    <3>2. client' \in [Client -> Local]
      BY <2>2, GotoType, Zenon DEF PC
    <3>3. stream' \in [Stream -> State]
      BY <2>2, <3>1, Zenon
    <3> QED
      BY <1>14, <3>2, <3>3, Zenon DEF Save
  <2> QED
    BY <1>14, <2>1, <2>2, Zenon DEF Save
<1>15. ASSUME NEW c \in Client, Publish(c) PROVE TypeOK'
  <2>1. \A b \in State : published[client[c].s] \o b \in State
    BY LocalFields, ConcatType, Zenon
  <2>2. \A k \in 0..(Len(client[c].batch) - 1) : SubSeq(client[c].batch, 1, k) \in State
    <3>1. /\ Len(client[c].batch) \in Nat
          /\ \A i \in 1..Len(client[c].batch) : client[c].batch[i] \in Event
      BY LocalFields, LenProperties, ElementOfSeq, Zenon DEF State
    <3>2. ASSUME NEW k \in 0..(Len(client[c].batch) - 1)
          PROVE  SubSeq(client[c].batch, 1, k) \in State
      <4>1. \A i \in 1..k : client[c].batch[i] \in Event
        BY <3>1
      <4> QED
        BY <4>1, <3>1, SubSeqProperties DEF State
    <3> QED
      BY <3>2, Zenon
  <2>3. published' \in [Stream -> State]
    <3>1. PICK b \in State : published' = [published EXCEPT ![client[c].s] = @ \o b]
      <4>1. CASE published' = [published EXCEPT ![client[c].s] = @ \o client[c].batch]
        BY <4>1, LocalFields, Zenon
      <4>2. ASSUME NEW k \in 0..(Len(client[c].batch) - 1),
                   published' = [published EXCEPT ![client[c].s] =
                                   @ \o SubSeq(client[c].batch, 1, k)]
            PROVE  \E b \in State :
                     published' = [published EXCEPT ![client[c].s] = @ \o b]
        <5>1. SubSeq(client[c].batch, 1, k) \in State
          BY <2>2, Zenon
        <5> QED
          BY <4>2, <5>1, Zenon
      <4> QED
        BY <1>15, <4>1, <4>2, Zenon DEF Publish
    <3> QED
      BY <2>1, <3>1, Zenon
  <2>4. client' \in [Client -> Local] /\ wrote' \in [Client -> [Stream -> Nat]]
    <3>1. CASE Goto(c, "snapSave") /\ UNCHANGED wrote
      BY <3>1, GotoType, Zenon DEF PC
    <3>2. CASE AfterSnapshot(c)
      BY <3>2, AfterSnapshotType, Zenon
    <3>3. CASE Return(c) /\ UNCHANGED wrote
      BY <3>3, ReturnType, Zenon
    <3> QED
      BY <1>15, <3>1, <3>2, <3>3, Zenon DEF Publish
  <2> QED
    BY <1>15, <2>3, <2>4, Zenon DEF Publish
<1>16. ASSUME NEW c \in Client, SnapSave(c) PROVE TypeOK'
  <2>1. client[c].st \o client[c].batch \in State
    BY LocalFields, ConcatType, Zenon
  <2>2. snap' \in [Stream -> Snapshot]
    <3> DEFINE new == [ok |-> TRUE, st |-> client[c].st \o client[c].batch,
                       ver |-> NewVersion(c), shape |-> build]
    <3>1. new \in Snapshot
      BY <2>1, LocalFields, Zenon DEF Snapshot, TypeOK
    <3>2. \/ UNCHANGED snap
          \/ snap' = [snap EXCEPT ![client[c].s] = SnapshotSave(@, new)]
      BY <1>16, Zenon DEF SnapSave
    <3> HIDE DEF new
    <3>3. \A sn \in Snapshot : SnapshotSave(sn, new) \in Snapshot
      BY <3>1, Zenon DEF SnapshotSave
    <3>4. client[c].s \in Stream /\ SnapshotSave(snap[client[c].s], new) \in Snapshot
      BY <3>3, LocalFields, Zenon
    <3> HIDE DEF SnapshotSave
    <3> QED
      BY <3>2, <3>4, Zenon
  <2>3. client' \in [Client -> Local] /\ wrote' \in [Client -> [Stream -> Nat]]
    BY <1>16, AfterSnapshotType, Zenon DEF SnapSave
  <2> QED
    BY <1>16, <2>2, <2>3, Zenon DEF SnapSave
<1>17. ASSUME NEW c \in Client, Recache(c) PROVE TypeOK'
  <2>1. client[c].st \o client[c].batch \in State
    BY LocalFields, ConcatType, Zenon
  <2>2. cache' \in [Stream -> Entry]
    BY <1>17, <1>e, <2>1, LocalFields, Zenon DEF Recache, Entry
  <2>3. client' \in [Client -> Local] /\ wrote' \in [Client -> [Stream -> Nat]]
    BY <1>17, FinishType, Zenon DEF Recache
  <2> QED
    BY <1>17, <2>2, <2>3, Zenon DEF Recache
<1>18. ASSUME NEW s \in Stream, NEW ok \in BOOLEAN, OtherSave(s, ok) PROVE TypeOK'
  <2>0. <<ok>> \in Seq(BOOLEAN)
    BY SingletonSeq, Zenon
  <2>1. Len(stream[s]) \in Nat
    BY LenProperties, Zenon DEF State
  <2>2. stream[s] \o NewEvents(Other, Len(stream[s]), <<ok>>) \in State
    BY <2>0, <2>1, NewEventsType, ConcatType, Zenon
  <2> QED
    BY <1>18, <2>2, Zenon DEF OtherSave
<1>19. ASSUME NEW s \in Stream, Evict(s) PROVE TypeOK'
  BY <1>19, <1>e, Zenon DEF Evict
<1>20. ASSUME NEW shape \in Shape, Restart(shape) PROVE TypeOK'
  <2>1. client' \in [Client -> Local]
    BY <1>20, LocalFields, IdleType, Zenon DEF Restart
  <2> QED
    BY <1>20, <1>e, <2>1, Zenon DEF Restart
<1>21. CASE UNCHANGED vars
  BY <1>21, Zenon DEF vars
<1> QED
  BY <1>1, <1>2, <1>3, <1>4, <1>5, <1>6, <1>7, <1>8, <1>9, <1>10, <1>11, <1>12,
     <1>13, <1>14, <1>15, <1>16, <1>17, <1>18, <1>19, <1>20, <1>21, Zenon DEF Next, Step

\* The type invariant: no step of a caller, of another process or of a restart
\* leaves a variable outside its type.
THEOREM TypeCorrect == Spec => []TypeOK
<1>1. Init => TypeOK
  BY TypeInit, Zenon
<1> QED
  BY <1>1, TypeStep, PTL DEF Spec

-----------------------------------------------------------------------------
(* The history of a stream *)

\* st is what folding the first v events of q gives, where the shapes of State
\* are Guarded; the version is one of q's in any case.
HistoryOf(q, st, v) == v <= Len(q) /\ (Guarded => st = SubSeq(q, 1, v))

\* CacheSound and SnapshotSound, with histories in this sense; a snapshot is
\* sound in the shape it was written in.
CacheHeld ==
  \A s \in Stream : cache[s].ok => HistoryOf(stream[s], cache[s].st, cache[s].ver)
SnapshotHeld ==
  \A s \in Stream : snap[s].ok =>
    snap[s].shape \in Shape /\ HistoryOf(stream[s], snap[s].st, snap[s].ver)

\* LoadedIsHistory and BatchIsHistory, of the caller with local variables l.
SoundIn(str, l) ==
  /\ l.pc \in Holding => HistoryOf(str[l.s], l.st, l.ver)
  /\ l.pc = "land" => Len(l.st) = l.ver
  /\ l.pc = "save" => \A i \in 1..Len(l.batch) : l.batch[i].ver = l.ver + i
  /\ l.pc \in Saved => HistoryOf(str[l.s], l.st \o l.batch, l.ver + Len(l.batch))
CallersHeld == \A c \in Client : SoundIn(stream, client[c])

\* The inductive invariant.
HistoryInv == TypeOK /\ CacheHeld /\ SnapshotHeld /\ CallersHeld

-----------------------------------------------------------------------------
(* Histories of a stream that grows *)

\* Each stream is what it was, or has a batch more.
Grows == \A s \in Stream : \E b \in State : stream'[s] = stream[s] \o b

\* Concatenating nothing changes nothing.
LEMMA ConcatEmpty == ASSUME NEW a \in State PROVE <<>> \in State /\ a \o <<>> = a
<1>1. <<>> \in State
  BY EmptySeq, Zenon DEF State
<1>2. /\ a \o <<>> \in Seq(Event) /\ Len(a \o <<>>) = Len(a)
      /\ \A i \in 1..Len(a) : (a \o <<>>)[i] = a[i]
  BY <1>1, ConcatProperties, LenProperties DEF State
<1> DEFINE r == a \o <<>>
<1> HIDE DEF r
<1>3. r \in Seq(Event) /\ Len(r) = Len(a) /\ \A i \in 1..Len(r) : r[i] = a[i]
  BY <1>2, Zenon DEF r
<1>4. r = a
  BY <1>3, SeqEqual, Zenon DEF State
<1> QED
  BY <1>1, <1>4, Zenon DEF r

\* A stream no step touches grows, by nothing.
LEMMA UnchangedGrows == ASSUME TypeOK, UNCHANGED stream PROVE Grows
BY ConcatEmpty, Zenon DEF Grows, TypeOK

\* A stream gets one batch appended, the others nothing.
LEMMA AppendGrows ==
  ASSUME TypeOK, NEW s \in Stream, NEW b \in State,
         stream' = [stream EXCEPT ![s] = @ \o b]
  PROVE  Grows
BY ConcatEmpty, Zenon DEF Grows, TypeOK

\* A state the stream had stays one.
LEMMA HistoryKept ==
  ASSUME TypeOK, Grows, NEW s \in Stream, NEW st, NEW v \in Nat,
         HistoryOf(stream[s], st, v)
  PROVE  HistoryOf(stream'[s], st, v)
<1>1. PICK b \in State : stream'[s] = stream[s] \o b
  BY Zenon DEF Grows
<1>2. stream[s] \in Seq(Event) /\ b \in Seq(Event)
  BY Zenon DEF TypeOK, State
<1>3. /\ v <= Len(stream[s] \o b)
      /\ SubSeq(stream[s] \o b, 1, v) = SubSeq(stream[s], 1, v)
  BY <1>2, PrefixOfLonger, Zenon DEF HistoryOf
<1> QED
  BY <1>1, <1>3, Zenon DEF HistoryOf

\* So do the states a caller holds.
LEMMA SoundKept ==
  ASSUME TypeOK, Grows, NEW l \in Local, SoundIn(stream, l)
  PROVE  SoundIn(stream', l)
<1>1. l.s \in Stream /\ l.ver \in Nat /\ Len(l.batch) \in Nat
  BY LenProperties, Zenon DEF Local, State
<1>2. l.ver + Len(l.batch) \in Nat
  BY <1>1
<1> QED
  BY <1>1, <1>2, HistoryKept, Zenon DEF SoundIn

\* The whole stream is a state it had.
LEMMA WholeHistory ==
  ASSUME NEW q \in State
  PROVE  HistoryOf(q, q, Len(q)) /\ Len(q) \in Nat
<1>1. q \in Seq(Event) /\ Len(q) \in Nat
  BY LenProperties, Zenon DEF State
<1>2. SubSeq(q, 1, Len(q)) \in Seq(Event) /\ Len(SubSeq(q, 1, Len(q))) = Len(q)
      /\ \A i \in 1..Len(q) : SubSeq(q, 1, Len(q))[i] = q[i]
  BY <1>1, SubSeqProperties, ElementOfSeq
<1> DEFINE r == SubSeq(q, 1, Len(q))
<1>3. r \in Seq(Event) /\ Len(r) = Len(q) /\ \A i \in 1..Len(r) : r[i] = q[i]
  BY <1>2, Zenon
<1> HIDE DEF r
<1>4. r = q
  BY <1>1, <1>3, SeqEqual, Zenon
<1> QED
  BY <1>1, <1>4 DEF r, HistoryOf

\* An earlier state with everything after it (loadFromCache, loadFromSnapshot)
\* is the whole stream.
LEMMA CatchUp ==
  ASSUME NEW q \in State, NEW st, NEW v \in Nat, HistoryOf(q, st, v)
  PROVE  /\ v + Len(SliceFromVersion(q, v)) = Len(q)
         /\ HistoryOf(q, st \o SliceFromVersion(q, v), v + Len(SliceFromVersion(q, v)))
<1>1. v + Len(SliceFromVersion(q, v)) = Len(q)
  BY PrefixAndTail, Zenon DEF HistoryOf, SliceFromVersion, State
<1>2. Guarded => st \o SliceFromVersion(q, v) = q
  BY PrefixAndTail, Zenon DEF HistoryOf, SliceFromVersion, State
<1>3. HistoryOf(q, q, Len(q))
  BY WholeHistory, Zenon
<1> QED
  BY <1>1, <1>2, <1>3, Zenon DEF HistoryOf

-----------------------------------------------------------------------------
(* What a step has to show *)

\* A step in which one caller goes on and the others do not move.
LEMMA OneMoves ==
  ASSUME HistoryInv, Grows, NEW c \in Client, NEW l,
         client' = [client EXCEPT ![c] = l], SoundIn(stream', l)
  PROVE  CallersHeld'
<1>1. \A d \in Client : client[d] \in Local /\ SoundIn(stream, client[d])
  BY LocalFields, Zenon DEF HistoryInv, CallersHeld
<1>2. \A d \in Client : SoundIn(stream', client[d])
  BY <1>1, SoundKept, Zenon DEF HistoryInv
<1>3. \A d \in Client : client'[d] = IF d = c THEN l ELSE client[d]
  BY Zenon DEF HistoryInv, TypeOK
<1>4. \A d \in Client : SoundIn(stream', client'[d])
  BY <1>2, <1>3, Zenon
<1> QED
  BY <1>4, Zenon DEF CallersHeld

\* A step in which no caller moves.
LEMMA NoneMoves ==
  ASSUME HistoryInv, Grows, UNCHANGED client
  PROVE  CallersHeld'
<1>1. \A d \in Client : client[d] \in Local /\ SoundIn(stream, client[d])
  BY LocalFields, Zenon DEF HistoryInv, CallersHeld
<1>2. \A d \in Client : SoundIn(stream', client'[d])
  BY <1>1, SoundKept, Zenon DEF HistoryInv
<1> QED
  BY <1>2, Zenon DEF CallersHeld

\* A caller that holds no state is sound; so is one that just loaded.
LEMMA NotHolding ==
  ASSUME NEW str, NEW l, l.pc \notin Holding
  PROVE  SoundIn(str, l)
BY Zenon DEF SoundIn, Holding, Saved

\* A call that ends leaves the others what they held.
LEMMA ReturnSound ==
  ASSUME HistoryInv, Grows, NEW c \in Client, Return(c)
  PROVE  CallersHeld'
<1>1. Idle(client[c].s).pc \notin Holding
  BY Zenon DEF Idle, Holding
<1> QED
  BY <1>1, NotHolding, OneMoves, Zenon DEF Return

\* A caller that goes on with the state it holds.
LEMMA GotoSound ==
  ASSUME HistoryInv, Grows, NEW c \in Client, NEW pc \in PC, Goto(c, pc),
         pc \in Holding => client[c].pc \in Holding,
         pc \notin {"save", "land"},
         pc \in Saved => client[c].pc \in Saved
  PROVE  CallersHeld'
<1> DEFINE l == [client[c] EXCEPT !.pc = pc]
<1>1. client[c] \in Local /\ SoundIn(stream, client[c])
  BY LocalFields, Zenon DEF HistoryInv, CallersHeld
<1>2. SoundIn(stream', client[c])
  BY <1>1, SoundKept, Zenon DEF HistoryInv
<1>3. /\ l.pc = pc /\ l.s = client[c].s /\ l.st = client[c].st
      /\ l.ver = client[c].ver /\ l.batch = client[c].batch
  BY <1>1, Zenon DEF Local
<1>4. client' = [client EXCEPT ![c] = l]
  BY Zenon DEF Goto
<1> HIDE DEF l
<1>5. SoundIn(stream', l)
  BY <1>2, <1>3, Zenon DEF SoundIn
<1> QED
  BY <1>4, <1>5, OneMoves, Zenon

\* A caller that has just loaded a state the stream had.
LEMMA LoadedSound ==
  ASSUME NEW str, NEW l \in Local, NEW pc \in PC \ {"save", "publish", "snapSave", "recache"},
         NEW st, NEW v, HistoryOf(str[l.s], st, v), pc = "land" => Len(st) = v
  PROVE  SoundIn(str, Loaded(l, pc, st, v))
BY Zenon DEF Loaded, SoundIn, Local, Saved

\* A caller that folds a whole history, of its own read or of the leader's.
LEMMA FromEventsSound ==
  ASSUME NEW str, NEW l \in Local, NEW q, HistoryOf(str[l.s], q, Len(q))
  PROVE  SoundIn(str, FromEvents(l, q))
<1>1. Idle(l.s).pc \notin Holding
  BY Zenon DEF Idle, Holding
<1>2. AfterLoad \in PC \ {"save", "publish", "snapSave", "recache"}
  BY Zenon DEF AfterLoad, PC
<1>3. SoundIn(str, Idle(l.s)) /\ SoundIn(str, Loaded(l, AfterLoad, q, Len(q)))
  BY <1>1, <1>2, NotHolding, LoadedSound, Zenon
<1> QED
  BY <1>3, Zenon DEF FromEvents

\* The cache, when no step touches it.
LEMMA CacheKept ==
  ASSUME HistoryInv, Grows, UNCHANGED cache
  PROVE  CacheHeld'
<1>1. \A s \in Stream : cache[s].ver \in Nat
  BY Zenon DEF HistoryInv, TypeOK, Entry
<1>2. \A s \in Stream : cache[s].ok => HistoryOf(stream[s], cache[s].st, cache[s].ver)
  BY Zenon DEF HistoryInv, CacheHeld
<1>3. \A s \in Stream : cache[s].ok => HistoryOf(stream'[s], cache[s].st, cache[s].ver)
  BY <1>1, <1>2, HistoryKept, Zenon DEF HistoryInv
<1> QED
  BY <1>3, Zenon DEF CacheHeld

\* The same when a caller puts or drops an entry.
LEMMA CacheSet ==
  ASSUME HistoryInv, Grows, NEW t \in Stream, NEW e,
         cache' = [cache EXCEPT ![t] = e],
         e.ok => HistoryOf(stream'[t], e.st, e.ver)
  PROVE  CacheHeld'
<1>1. \A s \in Stream : cache[s].ver \in Nat
  BY Zenon DEF HistoryInv, TypeOK, Entry
<1>2. \A s \in Stream : cache[s].ok => HistoryOf(stream[s], cache[s].st, cache[s].ver)
  BY Zenon DEF HistoryInv, CacheHeld
<1>3. \A s \in Stream : cache[s].ok => HistoryOf(stream'[s], cache[s].st, cache[s].ver)
  BY <1>1, <1>2, HistoryKept, Zenon DEF HistoryInv
<1>4. \A s \in Stream : cache'[s] = IF s = t THEN e ELSE cache[s]
  BY Zenon DEF HistoryInv, TypeOK
<1>5. \A s \in Stream :
        cache'[s].ok => HistoryOf(stream'[s], cache'[s].st, cache'[s].ver)
  BY <1>3, <1>4, Zenon
<1> QED
  BY <1>5, Zenon DEF CacheHeld

\* The snapshot store, when a step may replace one snapshot by another.
LEMMA SnapSet ==
  ASSUME HistoryInv, Grows,
         \A s \in Stream : \/ snap'[s] = snap[s]
                           \/ snap'[s].ok => /\ snap'[s].shape \in Shape
                                             /\ HistoryOf(stream'[s], snap'[s].st, snap'[s].ver)
  PROVE  SnapshotHeld'
<1>1. \A s \in Stream : snap[s].ver \in Nat
  BY Zenon DEF HistoryInv, TypeOK, Snapshot
<1>2. \A s \in Stream : snap[s].ok =>
        snap[s].shape \in Shape /\ HistoryOf(stream[s], snap[s].st, snap[s].ver)
  BY Zenon DEF HistoryInv, SnapshotHeld
<1>3. \A s \in Stream : snap[s].ok => HistoryOf(stream'[s], snap[s].st, snap[s].ver)
  BY <1>1, <1>2, HistoryKept, Zenon DEF HistoryInv
<1>4. \A s \in Stream : snap'[s].ok =>
        snap'[s].shape \in Shape /\ HistoryOf(stream'[s], snap'[s].st, snap'[s].ver)
  BY <1>2, <1>3, Zenon
<1> QED
  BY <1>4, Zenon DEF SnapshotHeld

\* A snapshot that the shape check lets pass decodes to what was encoded, where
\* the shapes are Guarded.
LEMMA AcceptedDecodes ==
  ASSUME TypeOK, Guarded, NEW sn, sn.shape \in Shape, ~Mismatch(sn)
  PROVE  Decode(sn) = sn.st
BY Zenon DEF TypeOK, Guarded, Mismatch, Decode

\* The snapshot store, when no step touches it.
LEMMA SnapKept == ASSUME HistoryInv, Grows, UNCHANGED snap PROVE SnapshotHeld'
BY SnapSet, Zenon

-----------------------------------------------------------------------------
(* The invariant *)

\* Empty stores and idle callers hold nothing.
LEMMA HistoryInit == Init => HistoryInv
<1> SUFFICES ASSUME Init PROVE HistoryInv
  OBVIOUS
<1>1. TypeOK
  BY TypeInit, Zenon
<1>2. CacheHeld /\ SnapshotHeld
  BY Zenon DEF Init, CacheHeld, SnapshotHeld, NoEntry, NoSnapshot
<1>3. \A c \in Client : client[c].pc \notin Holding
  <2> SUFFICES ASSUME NEW c \in Client PROVE client[c].pc \notin Holding
    BY Zenon
  <2>1. PICK s \in Stream : client[c] = Idle(s)
    BY Zenon DEF Init
  <2> QED
    BY <2>1, SMTT(30) DEF Idle, Holding
<1>4. CallersHeld
  BY <1>3, NotHolding, Zenon DEF CallersHeld
<1> QED
  BY <1>1, <1>2, <1>4, Zenon DEF HistoryInv

\* Every step keeps the invariant, one case per action.
LEMMA HistoryStep == HistoryInv /\ [Next]_vars => HistoryInv'
<1> SUFFICES ASSUME HistoryInv, [Next]_vars PROVE HistoryInv'
  OBVIOUS
<1>t. TypeOK /\ TypeOK'
  BY TypeStep, Zenon DEF HistoryInv
<1>s. \A c \in Client : client[c] \in Local /\ SoundIn(stream, client[c])
  BY <1>t, LocalFields, Zenon DEF HistoryInv, CallersHeld
<1>q. \A c \in Client :
        client[c].pc \in Holding =>
          HistoryOf(stream[client[c].s], client[c].st, client[c].ver)
  BY <1>s, Zenon DEF SoundIn
<1>f. \A c \in Client :
        /\ client[c].s \in Stream /\ client[c].ver \in Nat
        /\ stream[client[c].s] \in State
        /\ HistoryOf(stream[client[c].s], stream[client[c].s],
                     Len(stream[client[c].s]))
  BY <1>t, LocalFields, WholeHistory, Zenon
<1>g. UNCHANGED stream => Grows
  BY <1>t, UnchangedGrows, Zenon
<1> DEFINE Rest == CacheHeld' /\ SnapshotHeld' /\ CallersHeld'
           Quiet == UNCHANGED <<stream, cache, snap>>
<1>k. Quiet => Grows /\ CacheHeld' /\ SnapshotHeld'
  BY <1>g, CacheKept, SnapKept, Zenon
<1>1. ASSUME NEW c \in Client, NEW s \in Stream, NEW op \in {"load", "execute"},
             Call(c, s, op)
      PROVE  Rest
  <2> DEFINE l == [Idle(s) EXCEPT !.op = op,
                                  !.pc = IF Caching THEN "cacheGet" ELSE AfterCache]
  <2>1. l.pc \notin Holding
    BY Zenon DEF Idle, AfterCache, Holding
  <2>2. client' = [client EXCEPT ![c] = l] /\ Quiet
    BY <1>1, Zenon DEF Call
  <2> HIDE DEF l
  <2>3. SoundIn(stream', l)
    BY <2>1, NotHolding, Zenon
  <2> QED
    BY <1>k, <2>2, <2>3, OneMoves, Zenon
<1>2. ASSUME NEW c \in Client, CacheGet(c) PROVE Rest
  <2> DEFINE e == cache[client[c].s]
             hit  == Loaded(client[c], "cacheTail", e.st, e.ver)
             miss == [client[c] EXCEPT !.pc = AfterCache]
  <2>1. Quiet /\ client' = [client EXCEPT ![c] = IF e.ok THEN hit ELSE miss]
    BY <1>2, Zenon DEF CacheGet
  <2>2. e.ok => HistoryOf(stream'[client[c].s], e.st, e.ver)
    BY <1>f, <2>1, Zenon DEF HistoryInv, CacheHeld
  <2>3. e.ok => SoundIn(stream', hit)
    BY <1>s, <2>2, LoadedSound, Zenon DEF PC
  <2>4. miss.pc \notin Holding
    BY <1>s, Zenon DEF AfterCache, Holding, Local
  <2> HIDE DEF hit, miss
  <2>5. SoundIn(stream', IF e.ok THEN hit ELSE miss)
    BY <2>3, <2>4, NotHolding, Zenon
  <2> QED
    BY <1>k, <2>1, <2>5, OneMoves, Zenon
<1>3. ASSUME NEW c \in Client, CacheTail(c) PROVE Rest
  <2> DEFINE tail == SliceFromVersion(stream[client[c].s], client[c].ver)
             l == Loaded(client[c], "cachePut", client[c].st \o tail,
                         client[c].ver + Len(tail))
  <2>1. Quiet /\ client[c].pc = "cacheTail"
    BY <1>3, Zenon DEF CacheTail
  <2>2. CASE Goto(c, "cacheDrop")
    BY <1>k, <2>1, <2>2, GotoSound, Zenon DEF PC, Holding, Saved
  <2>3. CASE Goto(c, "loaded")
    BY <1>k, <2>1, <2>3, GotoSound, Zenon DEF PC, Holding, Saved
  <2>4. CASE client' = [client EXCEPT ![c] = l]
    <3>1. HistoryOf(stream[client[c].s], client[c].st, client[c].ver)
      BY <1>q, <2>1, Zenon DEF Holding
    <3>2. HistoryOf(stream'[client[c].s], client[c].st \o tail,
                    client[c].ver + Len(tail))
      BY <1>f, <2>1, <3>1, CatchUp, Zenon
    <3>4. SoundIn(stream', l)
      BY <1>s, <3>2, LoadedSound, Zenon DEF PC
    <3> HIDE DEF l
    <3> QED
      BY <1>k, <2>1, <2>4, <3>4, OneMoves, Zenon
  <2> QED
    BY <1>3, <2>2, <2>3, <2>4, Zenon DEF CacheTail
<1>4. ASSUME NEW c \in Client, CacheDrop(c) PROVE Rest
  <2> DEFINE l == Loaded(client[c], AfterCache, <<>>, 0)
  <2>1. /\ UNCHANGED <<stream, snap>>
        /\ cache' = [cache EXCEPT ![client[c].s] = NoEntry]
        /\ client' = [client EXCEPT ![c] = l]
    BY <1>4, Zenon DEF CacheDrop
  <2>2. l.pc \notin Holding
    BY <1>s, Zenon DEF Loaded, AfterCache, Holding, Local
  <2> HIDE DEF l
  <2>3. CacheHeld'
    BY <1>f, <1>g, <2>1, CacheSet, Zenon DEF NoEntry
  <2> QED
    BY <1>g, <2>1, <2>2, <2>3, SnapKept, NotHolding, OneMoves, Zenon
<1>5. ASSUME NEW c \in Client, SnapLoad(c) PROVE Rest
  <2> DEFINE sn == snap[client[c].s]
             l == Loaded(client[c], "snapTail", Decode(sn), sn.ver)
  <2>1. Quiet
    BY <1>5, Zenon DEF SnapLoad
  <2>2. CASE Return(c)
    BY <1>k, <2>1, <2>2, ReturnSound, Zenon
  <2>3. CASE Goto(c, "store")
    BY <1>k, <2>1, <2>3, GotoSound, Zenon DEF PC, Holding, Saved
  <2>4. CASE sn.ok /\ ~Mismatch(sn) /\ client' = [client EXCEPT ![c] = l]
    <3>0. sn.shape \in Shape /\ HistoryOf(stream[client[c].s], sn.st, sn.ver)
      BY <1>f, <2>4, Zenon DEF HistoryInv, SnapshotHeld
    <3>1. HistoryOf(stream'[client[c].s], Decode(sn), sn.ver)
      <4>1. Guarded => Decode(sn) = sn.st
        BY <1>t, <2>4, <3>0, AcceptedDecodes, Zenon
      <4> QED
        BY <2>1, <3>0, <4>1, Zenon DEF HistoryOf
    <3>2. SoundIn(stream', l)
      BY <1>s, <3>1, LoadedSound, Zenon DEF PC
    <3> HIDE DEF l
    <3> QED
      BY <1>k, <2>1, <2>4, <3>2, OneMoves, Zenon
  <2> QED
    BY <1>5, <2>2, <2>3, <2>4, Zenon DEF SnapLoad
<1>6. ASSUME NEW c \in Client, SnapTail(c) PROVE Rest
  <2> DEFINE tail == SliceFromVersion(stream[client[c].s], client[c].ver)
             l == Loaded(client[c], AfterLoad, client[c].st \o tail,
                         client[c].ver + Len(tail))
  <2>1. Quiet /\ client[c].pc = "snapTail"
    BY <1>6, Zenon DEF SnapTail
  <2>2. CASE Return(c)
    BY <1>k, <2>1, <2>2, ReturnSound, Zenon
  <2>3. CASE client' = [client EXCEPT ![c] = l]
    <3>1. HistoryOf(stream[client[c].s], client[c].st, client[c].ver)
      BY <1>q, <2>1, Zenon DEF Holding
    <3>2. HistoryOf(stream'[client[c].s], client[c].st \o tail,
                    client[c].ver + Len(tail))
      BY <1>f, <2>1, <3>1, CatchUp, Zenon
    <3>4. SoundIn(stream', l)
      BY <1>s, <3>2, LoadedSound, Zenon DEF PC, AfterLoad
    <3> HIDE DEF l
    <3> QED
      BY <1>k, <2>1, <2>3, <3>4, OneMoves, Zenon
  <2> QED
    BY <1>6, <2>2, <2>3, Zenon DEF SnapTail
<1>7. ASSUME NEW c \in Client, StoreLoad(c) PROVE Rest
  <2> DEFINE q == stream[client[c].s]
  <2>1. Quiet
    BY <1>7, Zenon DEF StoreLoad
  <2>2. CASE Return(c)
    BY <1>k, <2>1, <2>2, ReturnSound
  <2>3. CASE client' = [client EXCEPT ![c] = FromEvents(client[c], q)]
    <3>1. SoundIn(stream', FromEvents(client[c], q))
      BY <1>f, <1>s, <2>1, FromEventsSound, Zenon
    <3> QED
      BY <1>k, <2>1, <2>3, <3>1, OneMoves, Zenon
  <2> QED
    BY <1>7, <2>2, <2>3, Zenon DEF StoreLoad
<1>8. ASSUME NEW c \in Client, Join(c) PROVE Rest
  <2>1. Quiet /\ (Goto(c, "lead") \/ Goto(c, "wait"))
    BY <1>8, Zenon DEF Join
  <2> QED
    BY <1>k, <2>1, GotoSound, Zenon DEF PC, Holding, Saved
<1>9. ASSUME NEW c \in Client, FlightRead(c) PROVE Rest
  <2> DEFINE q == stream[client[c].s]
             l == Loaded(client[c], "land", q, Len(q))
  <2>1. Quiet
    BY <1>9, Zenon DEF FlightRead
  <2>2. CASE Goto(c, "landErr")
    BY <1>k, <2>1, <2>2, GotoSound, Zenon DEF PC, Holding, Saved
  <2>3. CASE client' = [client EXCEPT ![c] = l]
    <3>1. SoundIn(stream', l)
      BY <1>f, <1>s, <2>1, LoadedSound, Zenon DEF PC
    <3> HIDE DEF l
    <3> QED
      BY <1>k, <2>1, <2>3, <3>1, OneMoves, Zenon
  <2> QED
    BY <1>9, <2>2, <2>3, Zenon DEF FlightRead
<1>10. ASSUME NEW c \in Client, FlightLand(c) PROVE Rest
  <2>1. Quiet /\ client[c].pc \in {"land", "landErr"}
    BY <1>10, Zenon DEF FlightLand
  <2>2. ASSUME NEW d \in Client PROVE SoundIn(stream', client'[d])
    <3>1. SoundIn(stream', client[d])
      BY <1>s, <2>1, Zenon
    <3>2. SoundIn(stream', Idle(client[d].s))
      BY NotHolding DEF Idle, Holding
    <3>3. ASSUME client[c].pc = "land", client[d].s = client[c].s
          PROVE  SoundIn(stream', FromEvents(client[d], client[c].st))
      <4>1. HistoryOf(stream[client[c].s], client[c].st, client[c].ver)
        BY <1>q, <3>3, Zenon DEF Holding
      <4>2. Len(client[c].st) = client[c].ver
        BY <1>s, <3>3, Zenon DEF SoundIn
      <4> QED
        BY <1>s, <2>1, <3>3, <4>1, <4>2, FromEventsSound, Zenon
    <3>4. \/ client'[d] = client[d]
          \/ client'[d] = Idle(client[d].s)
          \/ /\ client[c].pc = "land" /\ client[d].s = client[c].s
             /\ client'[d] = FromEvents(client[d], client[c].st)
      BY <1>10, <2>1, Zenon DEF FlightLand
    <3> QED
      BY <3>1, <3>2, <3>3, <3>4, Zenon
  <2> QED
    BY <1>k, <2>1, <2>2, Zenon DEF CallersHeld
<1>11. ASSUME NEW c \in Client, CachePut(c) PROVE Rest
  <2> DEFINE e == [ok |-> TRUE, st |-> client[c].st, ver |-> client[c].ver]
  <2>1. /\ UNCHANGED <<stream, snap>> /\ client[c].pc = "cachePut"
        /\ Goto(c, "loaded") /\ cache' = [cache EXCEPT ![client[c].s] = e]
    BY <1>11, Zenon DEF CachePut
  <2>2. HistoryOf(stream'[client[c].s], e.st, e.ver)
    BY <1>q, <2>1, Zenon DEF Holding
  <2> HIDE DEF e
  <2>3. CacheHeld'
    BY <1>f, <1>g, <2>1, <2>2, CacheSet, Zenon
  <2>4. CallersHeld'
    BY <1>g, <2>1, GotoSound, Zenon DEF PC, Holding, Saved
  <2> QED
    BY <1>g, <2>1, <2>3, <2>4, SnapKept, Zenon
<1>12. ASSUME NEW c \in Client, LoadReturn(c) PROVE Rest
  BY <1>k, <1>12, ReturnSound, Zenon DEF LoadReturn
<1>13. ASSUME NEW c \in Client, Decide(c) PROVE Rest
  <2>1. Quiet /\ client[c].pc = "loaded"
    BY <1>13, Zenon DEF Decide
  <2>2. CASE Return(c)
    BY <1>k, <2>1, <2>2, ReturnSound, Zenon
  <2>3. ASSUME NEW oks \in Decisions,
               client' = [client EXCEPT ![c].batch = NewEvents(c, client[c].ver, oks),
                                        ![c].pc = "save"]
        PROVE  CallersHeld'
    <3> DEFINE b == NewEvents(c, client[c].ver, oks)
               l == [client[c] EXCEPT !.batch = b, !.pc = "save"]
    <3>1. \A i \in 1..Len(b) : b[i].ver = client[c].ver + i
      <4>1. oks \in Seq(BOOLEAN) /\ client[c].ver \in Nat
        BY <1>f, DecisionIsSeq, Zenon
      <4>2. /\ Len(b) = Len(oks)
            /\ \A i \in 1..Len(oks) : b[i].ver = client[c].ver + i
        BY <4>1, NewEventsType, ZenonT(30)
      <4> QED
        BY <4>2, Zenon
    <3> HIDE DEF b
    <3>2. client' = [client EXCEPT ![c] = l]
      BY <2>3, Zenon DEF b
    <3>3. /\ l.pc = "save" /\ l.batch = b /\ l.s = client[c].s
          /\ l.st = client[c].st /\ l.ver = client[c].ver
      BY <1>s, Zenon DEF Local
    <3>4. HistoryOf(stream'[client[c].s], client[c].st, client[c].ver)
      BY <1>q, <2>1, Zenon DEF Holding
    <3> HIDE DEF l
    <3>5. SoundIn(stream', l)
      BY <3>1, <3>3, <3>4, Zenon DEF SoundIn, Saved
    <3> QED
      BY <1>k, <2>1, <3>2, <3>5, OneMoves, Zenon
  <2> QED
    BY <1>13, <1>k, <2>1, <2>2, <2>3, Zenon DEF Decide
<1>14. ASSUME NEW c \in Client, Save(c) PROVE Rest
  <2> DEFINE s == client[c].s
             b == client[c].batch
             l == [client[c] EXCEPT !.pc = "publish"]
  <2>1. UNCHANGED <<snap, cache>> /\ client[c].pc = "save"
    BY <1>14, Zenon DEF Save
  <2>2. CASE Return(c) /\ UNCHANGED stream
    BY <1>g, <2>1, <2>2, CacheKept, SnapKept, ReturnSound, Zenon
  <2>3. CASE /\ ~VersionConflict(s, client[c].ver)
             /\ stream' = [stream EXCEPT ![s] = @ \o b] /\ Goto(c, "publish")
    <3>1. s \in Stream /\ b \in State /\ stream[s] \in State
      BY <1>t, LocalFields, Zenon
    <3>2. Grows
      BY <1>t, <2>3, <3>1, AppendGrows, Zenon
    <3>3. HistoryOf(stream[s], client[c].st, client[c].ver)
      BY <1>q, <2>1, Zenon DEF Holding
    <3>4. (Guarded => client[c].st = stream[s]) /\ client[c].ver = Len(stream[s])
      <4>1. client[c].ver = Len(stream[s])
        BY <2>3, Zenon DEF VersionConflict
      <4>2. HistoryOf(stream[s], stream[s], Len(stream[s]))
        BY <3>1, WholeHistory, Zenon
      <4> QED
        BY <3>3, <4>1, <4>2, Zenon DEF HistoryOf
    <3>5. stream'[s] = stream[s] \o b
      BY <1>t, <2>3, <3>1, Zenon DEF TypeOK
    <3>6. Len(stream[s] \o b) = Len(stream[s]) + Len(b) /\ stream[s] \o b \in State
      BY <3>1, ConcatType, Zenon
    <3>7. HistoryOf(stream'[s], client[c].st \o b, client[c].ver + Len(b))
      BY <3>4, <3>5, <3>6, WholeHistory, Zenon DEF HistoryOf
    <3>8. HistoryOf(stream'[s], client[c].st, client[c].ver)
      BY <1>f, <1>t, <3>1, <3>2, <3>3, HistoryKept, Zenon
    <3>9. /\ l.pc = "publish" /\ l.s = s /\ l.batch = b
          /\ l.st = client[c].st /\ l.ver = client[c].ver
      BY <1>s, Zenon DEF Local
    <3>10. client' = [client EXCEPT ![c] = l]
      BY <2>3, Zenon DEF Goto
    <3> HIDE DEF l
    <3>11. SoundIn(stream', l)
      BY <3>7, <3>8, <3>9, Zenon DEF SoundIn
    <3> QED
      BY <2>1, <3>2, <3>10, <3>11, OneMoves, CacheKept, SnapKept, Zenon
  <2> QED
    BY <1>14, <2>2, <2>3, Zenon DEF Save
<1>a. ASSUME NEW c \in Client, client[c].pc \in Saved, Grows,
             Finish(c) \/ Goto(c, "snapSave") \/ AfterSnapshot(c) \/ Return(c)
      PROVE  CallersHeld'
  <2>1. CASE Return(c)
    BY <1>a, <2>1, ReturnSound, Zenon
  <2>2. CASE Goto(c, "snapSave") \/ Goto(c, "recache")
    BY <1>a, <2>2, GotoSound, Zenon DEF PC, Holding, Saved
  <2> QED
    BY <1>a, <2>1, <2>2, Zenon DEF AfterSnapshot, Finish
<1>b. \A c \in Client : client[c].pc \in Saved =>
        HistoryOf(stream[client[c].s], client[c].st \o client[c].batch, NewVersion(c))
  BY <1>s, Zenon DEF SoundIn, NewVersion
<1>15. ASSUME NEW c \in Client, Publish(c) PROVE Rest
  <2>1. Quiet /\ client[c].pc \in Saved
    BY <1>15, Zenon DEF Publish, Saved
  <2>2. Goto(c, "snapSave") \/ AfterSnapshot(c) \/ Return(c)
    BY <1>15, Zenon DEF Publish
  <2> QED
    BY <1>a, <1>k, <2>1, <2>2, Zenon
<1>16. ASSUME NEW c \in Client, SnapSave(c) PROVE Rest
  <2> DEFINE new == [ok |-> TRUE, st |-> client[c].st \o client[c].batch,
                     ver |-> NewVersion(c), shape |-> build]
  <2>1. /\ UNCHANGED <<stream, cache>> /\ client[c].pc \in Saved
        /\ AfterSnapshot(c)
    BY <1>16, Zenon DEF SnapSave, Saved
  <2>2. HistoryOf(stream'[client[c].s], new.st, new.ver) /\ new.shape \in Shape
    BY <1>b, <1>t, <2>1, Zenon DEF TypeOK
  <2>3. \/ UNCHANGED snap
        \/ snap' = [snap EXCEPT ![client[c].s] = SnapshotSave(@, new)]
    BY <1>16, Zenon DEF SnapSave
  <2> HIDE DEF new
  <2>4. \A s \in Stream : \/ snap'[s] = snap[s]
                          \/ s = client[c].s /\ snap'[s] = new
    BY <1>t, <2>3, Zenon DEF TypeOK, SnapshotSave
  <2>5. SnapshotHeld'
    BY <1>g, <2>1, <2>2, <2>4, SnapSet, Zenon
  <2> QED
    BY <1>a, <1>g, <2>1, <2>5, CacheKept, Zenon
<1>17. ASSUME NEW c \in Client, Recache(c) PROVE Rest
  <2> DEFINE e == IF Foldable(client[c].batch)
                    THEN [ok |-> TRUE, st |-> client[c].st \o client[c].batch,
                          ver |-> NewVersion(c)]
                    ELSE NoEntry
  <2>1. /\ UNCHANGED <<stream, snap>> /\ client[c].pc \in Saved /\ Finish(c)
        /\ cache' = [cache EXCEPT ![client[c].s] = e]
    BY <1>17, Zenon DEF Recache, Saved
  <2>2. e.ok => HistoryOf(stream'[client[c].s], e.st, e.ver)
    BY <1>b, <2>1, Zenon DEF NoEntry
  <2> HIDE DEF e
  <2>3. CacheHeld'
    BY <1>f, <1>g, <2>1, <2>2, CacheSet, Zenon
  <2> QED
    BY <1>a, <1>g, <2>1, <2>3, SnapKept, Zenon
<1>18. ASSUME NEW s \in Stream, NEW ok \in BOOLEAN, OtherSave(s, ok) PROVE Rest
  <2> DEFINE b == NewEvents(Other, Len(stream[s]), <<ok>>)
  <2>0. <<ok>> \in Seq(BOOLEAN)
    BY SingletonSeq, Zenon
  <2>1. stream[s] \in State /\ Len(stream[s]) \in Nat
    BY <1>t, WholeHistory, Zenon DEF TypeOK
  <2>2. b \in State
    BY <2>0, <2>1, NewEventsType, Zenon
  <2>3. UNCHANGED <<snap, cache, client>> /\ stream' = [stream EXCEPT ![s] = @ \o b]
    BY <1>18, Zenon DEF OtherSave
  <2> HIDE DEF b
  <2>4. Grows
    BY <1>t, <2>2, <2>3, AppendGrows, Zenon
  <2> QED
    BY <2>3, <2>4, CacheKept, SnapKept, NoneMoves, Zenon
<1>19. ASSUME NEW s \in Stream, Evict(s) PROVE Rest
  <2>1. UNCHANGED <<stream, snap, client>> /\ cache' = [cache EXCEPT ![s] = NoEntry]
    BY <1>19, Zenon DEF Evict
  <2>2. CacheHeld'
    BY <1>g, <2>1, CacheSet, Zenon DEF NoEntry
  <2> QED
    BY <1>g, <2>1, <2>2, SnapKept, NoneMoves, Zenon
<1>20. ASSUME NEW shape \in Shape, Restart(shape) PROVE Rest
  <2>1. UNCHANGED <<stream, snap>> /\ CacheHeld'
    BY <1>20, Zenon DEF Restart, CacheHeld, NoEntry
  <2>2. \A c \in Client : client'[c].pc \notin Holding
    BY <1>20, Zenon DEF Restart, Idle, Holding
  <2> QED
    BY <1>g, <2>1, <2>2, SnapKept, NotHolding, Zenon DEF CallersHeld
<1>21. ASSUME UNCHANGED vars PROVE Rest
  <2>1. Quiet /\ UNCHANGED client
    BY <1>21, Zenon DEF vars
  <2> QED
    BY <1>k, <2>1, NoneMoves, Zenon
<1> HIDE DEF Rest, Quiet
<1>22. Rest
  BY <1>1, <1>2, <1>3, <1>4, <1>5, <1>6, <1>7, <1>8, <1>9, <1>10, <1>11, <1>12,
     <1>13, <1>14, <1>15, <1>16, <1>17, <1>18, <1>19, <1>20, <1>21,
     Zenon DEF Next, Step
<1> QED
  BY <1>t, <1>22, Zenon DEF HistoryInv, Rest

\* The cache is a correct starting point for a load, whatever callers, other
\* processes, evictions and restarts do: loadFromCache may fold the tail onto
\* it.  The shapes are Guarded: a load from a snapshot of a foreign shape ends
\* up in the cache.
THEOREM CacheCorrect == ASSUME Guarded PROVE Spec => []CacheSound
<1>1. HistoryInv => CacheSound
  BY Zenon DEF HistoryInv, CacheHeld, CacheSound, IsHistory, HistoryOf
<1> QED
  BY <1>1, HistoryInit, HistoryStep, PTL DEF Spec

\* So is every snapshot that passes snapshotShapeMismatch (loadFromSnapshot), in
\* the build that loads it.
THEOREM SnapshotCorrect == ASSUME Guarded PROVE Spec => []SnapshotSound
<1>1. ASSUME HistoryInv PROVE SnapshotSound
  <2>1. \A s \in Stream : snap[s].ok =>
          snap[s].shape \in Shape /\ IsHistory(s, snap[s].st, snap[s].ver)
    BY <1>1, Zenon DEF HistoryInv, SnapshotHeld, IsHistory, HistoryOf
  <2>2. \A s \in Stream : snap[s].ok /\ ~Mismatch(snap[s]) =>
          Decode(snap[s]) = snap[s].st
    BY <1>1, <2>1, AcceptedDecodes, Zenon DEF HistoryInv
  <2> QED
    BY <2>1, <2>2, Zenon DEF SnapshotSound
<1>2. HistoryInv => SnapshotSound
  BY <1>1, Zenon
<1> QED
  BY <1>2, HistoryInit, HistoryStep, PTL DEF Spec

\* Every state LoadRef hands to a decision is a state of the stream, through
\* cache, snapshot or a shared singleflight read, where the shapes are Guarded.
THEOREM LoadCorrect == ASSUME Guarded PROVE Spec => []LoadedIsHistory
<1>1. HistoryInv => LoadedIsHistory
  BY Zenon DEF HistoryInv, CallersHeld, SoundIn, LoadedIsHistory, IsHistory, HistoryOf
<1> QED
  BY <1>1, HistoryInit, HistoryStep, PTL DEF Spec

\* What ExecuteRef snapshots and caches after its save is a state of the stream,
\* where the shapes are Guarded.
THEOREM BatchCorrect == ASSUME Guarded PROVE Spec => []BatchIsHistory
<1>1. HistoryInv => BatchIsHistory
  BY Zenon DEF HistoryInv, CallersHeld, SoundIn, BatchIsHistory, NewVersion, IsHistory,
     HistoryOf
<1> QED
  BY <1>1, HistoryInit, HistoryStep, PTL DEF Spec

\* Whatever shapes the builds declare, a load never claims a version the stream
\* does not have, and a decision continues it.
LEMMA VersionsHeld ==
  ASSUME HistoryInv, NEW c \in Client
  PROVE  /\ client[c].pc \in Holding => client[c].ver <= Len(stream[client[c].s])
         /\ client[c].pc = "save" =>
              \A i \in 1..Len(client[c].batch) : client[c].batch[i].ver = client[c].ver + i
         /\ client[c].pc \in Saved => NewVersion(c) <= Len(stream[client[c].s])
BY Zenon DEF HistoryInv, CallersHeld, SoundIn, HistoryOf, NewVersion

-----------------------------------------------------------------------------
(* No lost update, and refinement *)

\* A caller that gets past its save saved on the state it decided on.
LEMMA SaveOnCurrent ==
  ASSUME HistoryInv, NEW c \in Client, Save(c), client'[c].pc = "publish"
  PROVE  /\ Guarded => client[c].st = stream[client[c].s]
         /\ client[c].ver = Len(stream[client[c].s])
         /\ stream' = [stream EXCEPT ![client[c].s] = @ \o client[c].batch]
<1> DEFINE s == client[c].s
<1>1. TypeOK /\ s \in Stream /\ stream[s] \in State
  BY LocalFields, Zenon DEF HistoryInv
<1>2. ~Return(c)
  BY <1>1, SMTT(30) DEF Return, Idle, TypeOK
<1>3. /\ client[c].pc = "save" /\ ~VersionConflict(s, client[c].ver)
      /\ stream' = [stream EXCEPT ![s] = @ \o client[c].batch]
  BY <1>2, Zenon DEF Save
<1>4. client[c].ver = Len(stream[s])
  BY <1>3, Zenon DEF VersionConflict
<1>5. HistoryOf(stream[s], client[c].st, client[c].ver)
  BY <1>3, Zenon DEF HistoryInv, CallersHeld, SoundIn, Holding
<1>6. HistoryOf(stream[s], stream[s], Len(stream[s]))
  BY <1>1, WholeHistory, Zenon
<1> QED
  BY <1>3, <1>4, <1>5, <1>6, Zenon DEF HistoryOf

\* What a step does to the streams: a caller's save, another process's save,
\* or nothing.
LEMMA StreamSteps ==
  ASSUME TypeOK, [Next]_vars
  PROVE  \/ UNCHANGED stream
         \/ \E c \in Client : Save(c) /\ client'[c].pc = "publish"
         \/ \E s \in Stream, ok \in BOOLEAN : OtherSave(s, ok)
<1>1. ASSUME NEW c \in Client, Step(c), ~Save(c) PROVE UNCHANGED stream
  BY <1>1, Zenon DEF Step, CacheGet, CacheTail, CacheDrop, SnapLoad, SnapTail, StoreLoad,
     Join, FlightRead, FlightLand, CachePut, LoadReturn, Decide, Publish, SnapSave,
     Recache
<1>2. ASSUME NEW c \in Client, Save(c)
      PROVE  UNCHANGED stream \/ client'[c].pc = "publish"
  <2>1. Goto(c, "publish") => client'[c].pc = "publish"
    BY DEF Goto, TypeOK, Local
  <2> QED
    BY <1>2, <2>1, Zenon DEF Save
<1>3. ASSUME NEW c \in Client, NEW s \in Stream, NEW op \in {"load", "execute"},
             Call(c, s, op)
      PROVE  UNCHANGED stream
  BY <1>3, Zenon DEF Call
<1>4. ASSUME NEW s \in Stream, Evict(s) PROVE UNCHANGED stream
  BY <1>4, Zenon DEF Evict
<1>5. ASSUME NEW shape \in Shape, Restart(shape) PROVE UNCHANGED stream
  BY <1>5, Zenon DEF Restart
<1>6. CASE UNCHANGED vars
  BY <1>6, Zenon DEF vars
<1> QED
  BY <1>1, <1>2, <1>3, <1>4, <1>5, <1>6, Zenon DEF Next

\* The only way from the save to the publish is a successful store.Save.
LEMMA OnlySaveReachesPublish ==
  ASSUME TypeOK, [Next]_vars, NEW c \in Client,
         client[c].pc = "save", client'[c].pc = "publish"
  PROVE  Save(c)
<1>1. ASSUME NEW d \in Client, Step(d), d # c, client'[c] # client[c] PROVE FALSE
  <2>1. ~FlightLand(d)
    BY <1>1, Zenon DEF FlightLand
  <2>2. ASSUME NEW l, client' = [client EXCEPT ![d] = l] PROVE FALSE
    BY <1>1, <2>2, Zenon DEF TypeOK
  <2>3. ~Return(d)
    BY <2>2, Zenon DEF Return
  <2>4. \A pc : ~Goto(d, pc)
    BY <1>1, Zenon DEF Goto, TypeOK
  <2>5. ~Decide(d)
    BY <1>1, <2>3, Zenon DEF Decide, TypeOK
  <2>6. ~(CacheGet(d) \/ CacheTail(d) \/ CacheDrop(d) \/ SnapLoad(d) \/ SnapTail(d))
    BY <2>2, <2>3, <2>4, Zenon DEF CacheGet, CacheTail, CacheDrop, SnapLoad, SnapTail
  <2>7. ~(StoreLoad(d) \/ Join(d) \/ FlightRead(d) \/ CachePut(d) \/ LoadReturn(d))
    BY <2>2, <2>3, <2>4, Zenon DEF StoreLoad, Join, FlightRead, CachePut, LoadReturn
  <2>8. ~(Save(d) \/ Publish(d) \/ SnapSave(d) \/ Recache(d))
    BY <2>3, <2>4, Zenon DEF Save, Publish, SnapSave, Recache, AfterSnapshot, Finish
  <2> QED
    BY <1>1, <2>1, <2>5, <2>6, <2>7, <2>8, Zenon DEF Step
<1>2. Step(c) => Save(c)
  BY Zenon DEF Step, CacheGet, CacheTail, CacheDrop, SnapLoad, SnapTail, StoreLoad,
     Join, FlightRead, FlightLand, CachePut, LoadReturn, Decide, Publish, SnapSave,
     Recache
<1>3. client'[c] # client[c]
  OBVIOUS
<1>4. ASSUME NEW d \in Client, NEW s \in Stream, NEW op \in {"load", "execute"},
             Call(d, s, op)
      PROVE  FALSE
  BY <1>3, <1>4, Zenon DEF Call, TypeOK
<1>5. \A s \in Stream, ok \in BOOLEAN : ~OtherSave(s, ok)
  BY <1>3, Zenon DEF OtherSave
<1>6. \A shape \in Shape : ~Restart(shape)
  BY DEF Restart, Idle
<1>7. ~UNCHANGED vars
  BY <1>3, Zenon DEF vars
<1>8. \A s \in Stream : ~Evict(s)
  BY <1>3, Zenon DEF Evict
<1> QED
  BY <1>1, <1>2, <1>3, <1>4, <1>5, <1>6, <1>7, <1>8, Zenon DEF Next

\* No lost update (ExecuteRef's optimistic concurrency): the state a decision
\* was made on is the whole stream at the moment its events are saved, where the
\* shapes are Guarded.
THEOREM NoLostUpdate == ASSUME Guarded PROVE Spec => SavedOnCurrentState
<1> DEFINE Good == \A c \in Client :
             client[c].pc = "save" /\ client'[c].pc = "publish" =>
               /\ stream[client[c].s] = client[c].st
               /\ stream'[client[c].s] = client[c].st \o client[c].batch
<1>1. HistoryInv /\ [Next]_vars => [Good]_vars
  <2> SUFFICES ASSUME HistoryInv, [Next]_vars, NEW c \in Client,
                      client[c].pc = "save", client'[c].pc = "publish"
               PROVE  /\ stream[client[c].s] = client[c].st
                      /\ stream'[client[c].s] = client[c].st \o client[c].batch
    BY Zenon
  <2>0. TypeOK /\ client[c].s \in Stream
    BY LocalFields, Zenon DEF HistoryInv
  <2>1. Save(c)
    BY <2>0, OnlySaveReachesPublish, Zenon
  <2>2. /\ client[c].st = stream[client[c].s]
        /\ stream' = [stream EXCEPT ![client[c].s] = @ \o client[c].batch]
    BY <2>1, SaveOnCurrent, Zenon
  <2> QED
    BY <2>0, <2>2, Zenon DEF TypeOK
<1> QED
  BY <1>1, HistoryInit, HistoryStep, PTL DEF Spec, SavedOnCurrentState

\* The repository, its readers, caches and other writers included, implements
\* EventStream: streams only grow, by whole batches whose versions follow on.
THEOREM Refinement == Spec => ImplementsEventStream
<1>1. Init => Store!Init
  BY Zenon DEF Init, Store!Init
<1>2. HistoryInv /\ [Next]_vars => [Store!Next]_stream
  <2> SUFFICES ASSUME HistoryInv, [Next]_vars, stream' # stream PROVE Store!Next
    OBVIOUS
  <2>t. TypeOK
    BY Zenon DEF HistoryInv
  <2>0. ASSUME NEW s \in Stream, NEW b \in State,
               \A i \in 1..Len(b) : b[i].ver = Len(stream[s]) + i,
               stream' = [stream EXCEPT ![s] = @ \o b]
        PROVE  Store!Next
    <3>1. stream[s] \in Seq(Event) /\ b \in Seq(Event) /\ stream'[s] = stream[s] \o b
      BY <2>t, <2>0, Zenon DEF TypeOK, State
    <3>2. SubSeq(stream'[s], Len(stream[s]) + 1, Len(stream'[s])) = b
      BY <3>1, AppendedTail, Zenon
    <3> QED
      BY <2>0, <3>1, <3>2, Zenon DEF Store!Next, Store!Save, Store!Continues
  <2>1. ASSUME NEW c \in Client, Save(c), client'[c].pc = "publish" PROVE Store!Next
    <3>1. client[c].s \in Stream /\ client[c].batch \in State
      BY <2>t, LocalFields, Zenon
    <3>2. \A i \in 1..Len(client[c].batch) : client[c].batch[i].ver = client[c].ver + i
      BY <2>1, VersionsHeld, Zenon DEF Save
    <3>3. /\ client[c].ver = Len(stream[client[c].s])
          /\ stream' = [stream EXCEPT ![client[c].s] = @ \o client[c].batch]
      BY <2>1, SaveOnCurrent, Zenon
    <3> QED
      BY <2>0, <3>1, <3>2, <3>3, Zenon
  <2>2. ASSUME NEW s \in Stream, NEW ok \in BOOLEAN, OtherSave(s, ok) PROVE Store!Next
    <3> DEFINE oks == <<ok>>
               b == NewEvents(Other, Len(stream[s]), oks)
    <3>0. oks \in Seq(BOOLEAN)
      BY SingletonSeq, Zenon
    <3>1. Len(stream[s]) \in Nat
      BY <2>t, WholeHistory, Zenon DEF TypeOK
    <3>2. stream' = [stream EXCEPT ![s] = @ \o b]
      BY <2>2, Zenon DEF OtherSave
    <3> HIDE DEF oks
    <3>3. /\ b \in State /\ Len(b) = Len(oks)
          /\ \A i \in 1..Len(oks) : b[i].ver = Len(stream[s]) + i
      <4> DEFINE n == Len(stream[s])
      <4> HIDE DEF n
      <4>1. n \in Nat /\ oks \in Seq(BOOLEAN) /\ Other \in Client \cup {Other}
        BY <3>0, <3>1, Zenon DEF n
      <4>2. /\ NewEvents(Other, n, oks) \in State
            /\ Len(NewEvents(Other, n, oks)) = Len(oks)
            /\ \A i \in 1..Len(oks) : NewEvents(Other, n, oks)[i].ver = n + i
        BY <4>1, NewEventsType, Zenon
      <4> QED
        BY <4>2, Zenon DEF n
    <3> HIDE DEF b
    <3> QED
      BY <2>0, <3>2, <3>3, Zenon
  <2> QED
    BY <2>t, <2>1, <2>2, StreamSteps, Zenon
<1> QED
  BY <1>1, <1>2, HistoryInit, HistoryStep, PTL DEF Spec, ImplementsEventStream, Store!Spec
=============================================================================
