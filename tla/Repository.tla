----------------------------- MODULE Repository -----------------------------
(***************************************************************************)
(* The command side: decider.Repository over an event store and a snapshot *)
(* store, used by concurrent callers of one process.  ExecuteRef loads a   *)
(* stream (hot-state cache, then snapshot, then a singleflight-coalesced   *)
(* full read), decides, saves with an expected version, publishes, and     *)
(* refreshes snapshot and cache.  Every access to something shared (store, *)
(* snapshot store, cache, flight group, bus) is a step of its own, so any  *)
(* other caller may run between two of them.                               *)
(*                                                                         *)
(* The decider's state is the sequence of the events folded into it: two   *)
(* histories are told apart whenever any Apply function could.             *)
(***************************************************************************)
EXTENDS Naturals, Sequences

CONSTANTS
  Client,         \* callers of ExecuteRef and LoadRef in this process
  Stream,         \* stream references
  Other,          \* the writer name of another process on the same store
  None,           \* no client, no shape
  Coalescing,     \* the callers that use WithLoadCoalescing(true), the default
  Caching,        \* WithStateCache was given
  Snapshotting,   \* WithSnapshotStore, WithCodec and WithSnapshotStrategy were
  SnapEvery,      \* the interval of snapshot.EveryNEvents
  Shape,          \* the shapes State has in the builds that run on these stores
  Declaring,      \* the ones whose builds use WithSnapshotStateVersion
  MaxBatch,       \* bound: events one decision emits
  MaxEvents       \* bound: events one stream holds

ASSUME RepositoryAssumption ==
  /\ None \notin Client /\ Other \notin Client
  /\ Coalescing \subseteq Client /\ Caching \in BOOLEAN /\ Snapshotting \in BOOLEAN
  /\ SnapEvery \in Nat \ {0} /\ Shape # {} /\ Declaring \subseteq Shape
  /\ MaxBatch \in Nat /\ MaxEvents \in Nat

VARIABLES
  stream,     \* event store: the events of every stream
  snap,       \* snapshot store: the snapshot of every stream
  cache,      \* StateCache: folded state and version of every stream
  flight,     \* loadGroup: the leader of the load in flight, per stream
  client,     \* the local variables of every caller
  published,  \* what the publisher accepted, per stream, in order
  wrote,      \* the version at which a caller's last successful execute ended
  build       \* the shape of State in the build that runs

vars == <<stream, snap, cache, flight, client, published, wrote, build>>

\* An event: who decided it, the version it claims, whether Apply accepts it.
Event == [by : Client \cup {Other}, ver : Nat, ok : BOOLEAN]

State == Seq(Event)

\* Results of StateCache.Get and SnapshotStore.Load; shape: the one the
\* snapshot was encoded from.
Entry    == [ok : BOOLEAN, st : State, ver : Nat]
Snapshot == [ok : BOOLEAN, st : State, ver : Nat, shape : Shape \cup {None}]
NoEntry    == [ok |-> FALSE, st |-> <<>>, ver |-> 0]
NoSnapshot == [ok |-> FALSE, st |-> <<>>, ver |-> 0, shape |-> None]

PC == {"idle", "cacheGet", "cacheTail", "cacheDrop", "snapLoad", "snapTail",
       "store", "lead", "land", "landErr", "wait", "cachePut", "loaded",
       "save", "publish", "snapSave", "recache"}

Local == [pc : PC, op : {"load", "execute"}, s : Stream,
          st : State, ver : Nat, batch : State]

TypeOK ==
  /\ stream \in [Stream -> State]
  /\ snap \in [Stream -> Snapshot]
  /\ cache \in [Stream -> Entry]
  /\ flight \in [Stream -> Client \cup {None}]
  /\ client \in [Client -> Local]
  /\ published \in [Stream -> State]
  /\ wrote \in [Client -> [Stream -> Nat]]
  /\ build \in Shape

Idle(s) == [pc |-> "idle", op |-> "load", s |-> s,
            st |-> <<>>, ver |-> 0, batch |-> <<>>]

Init ==
  /\ stream = [s \in Stream |-> <<>>]
  /\ snap = [s \in Stream |-> NoSnapshot]
  /\ cache = [s \in Stream |-> NoEntry]
  /\ flight = [s \in Stream |-> None]
  /\ client \in [Client -> {Idle(s) : s \in Stream}]
  /\ published = [s \in Stream |-> <<>>]
  /\ wrote = [c \in Client |-> [s \in Stream |-> 0]]
  /\ build \in Shape

-----------------------------------------------------------------------------
(* Helpers *)

\* foldEvents: Apply rejects the whole load when it rejects one event.
Foldable(events) == \A i \in 1..Len(events) : events[i].ok

\* Mutant of SliceFromVersion: inclusive of v.
SliceFromVersionInclusive(events, v) ==
  SubSeq(events, IF v = 0 THEN 1 ELSE v, Len(events))

\* event.SliceFromVersion: what a stream holds after version v.
SliceFromVersion(events, v) == SubSeq(events, v + 1, Len(events))

\* Mutant of NewEvents: the first event repeats the current version.
NewEventsFromCurrent(c, v, oks) ==
  [i \in 1..Len(oks) |-> [by |-> c, ver |-> v + i - 1, ok |-> oks[i]]]

\* NewEvents: a decision on version v emits v+1, v+2, ...
NewEvents(c, v, oks) ==
  [i \in 1..Len(oks) |-> [by |-> c, ver |-> v + i, ok |-> oks[i]]]

\* The decisions tried: between one and MaxBatch events, each fine or not.
Decisions == UNION {[1..n -> BOOLEAN] : n \in 1..MaxBatch}

\* Where LoadRef goes after the cache did not answer, and after a load.
AfterCache == IF Snapshotting THEN "snapLoad" ELSE "store"
AfterLoad  == IF Caching THEN "cachePut" ELSE "loaded"

\* snapshot.ShouldSnapshotFor with EveryNEvents.
ShouldSnapshot(v) == Snapshotting /\ v > 0 /\ v % SnapEvery = 0

Goto(c, pc) == client' = [client EXCEPT ![c].pc = pc]

\* c now holds the state st at version v and continues at pc.
Loaded(l, pc, st, v) == [l EXCEPT !.pc = pc, !.st = st, !.ver = v]

\* The call of c returns; its local variables are gone.
Return(c) == client' = [client EXCEPT ![c] = Idle(client[c].s)]

\* Mutant of NewVersion: counts back from the loaded version.
NewVersionBackwards(c) == client[c].ver - Len(client[c].batch)

NewVersion(c) == client[c].ver + Len(client[c].batch)

\* Mutant of Mismatch: the stamp is not looked at.
MismatchNever(sn) == FALSE

\* snapshotShapeMismatch: the snapshot is stamped, this build declares a shape,
\* and the two disagree.
Mismatch(sn) ==
  build \in Declaring /\ sn.shape \in Declaring /\ sn.shape # build

\* codec.Decode of a snapshot: another shape decodes to a zero state.
Decode(sn) == IF sn.shape = build THEN sn.st ELSE <<>>

-----------------------------------------------------------------------------
(* LoadRef *)

\* A caller enters ExecuteRef or LoadRef.
Call(c, s, op) ==
  /\ client[c].pc = "idle"
  /\ client' = [client EXCEPT ![c] =
        [Idle(s) EXCEPT !.op = op,
                        !.pc = IF Caching THEN "cacheGet" ELSE AfterCache]]
  /\ UNCHANGED <<stream, snap, cache, flight, published, wrote, build>>

\* loadFromCache: the Get.
CacheGet(c) ==
  LET e == cache[client[c].s] IN
  /\ client[c].pc = "cacheGet"
  /\ client' = [client EXCEPT ![c] =
        IF e.ok THEN Loaded(@, "cacheTail", e.st, e.ver)
                ELSE [@ EXCEPT !.pc = AfterCache]]
  /\ UNCHANGED <<stream, snap, cache, flight, published, wrote, build>>

\* loadFromCache: LoadFromVersion(cachedVersion) and the fold.  An unknown
\* stream, a store error and a failed fold all drop the entry.
CacheTail(c) ==
  LET l == client[c]
      tail == SliceFromVersion(stream[l.s], l.ver) IN
  /\ l.pc = "cacheTail"
  /\ \/ Goto(c, "cacheDrop")
     \/ /\ stream[l.s] # <<>> /\ tail = <<>>
        /\ Goto(c, "loaded")
     \/ /\ stream[l.s] # <<>> /\ tail # <<>> /\ Foldable(tail)
        /\ client' = [client EXCEPT ![c] =
              Loaded(@, "cachePut", l.st \o tail, l.ver + Len(tail))]
  /\ UNCHANGED <<stream, snap, cache, flight, published, wrote, build>>

\* loadFromCache: Invalidate, then the caller falls back to the full load.
CacheDrop(c) ==
  /\ client[c].pc = "cacheDrop"
  /\ cache' = [cache EXCEPT ![client[c].s] = NoEntry]
  /\ client' = [client EXCEPT ![c] = Loaded(@, AfterCache, <<>>, 0)]
  /\ UNCHANGED <<stream, snap, flight, published, wrote, build>>

\* loadFromSnapshot: the snapshot store's Load, the shape check and Decode.
\* A store error fails the call.
SnapLoad(c) ==
  LET l == client[c]
      sn == snap[l.s] IN
  /\ l.pc = "snapLoad"
  /\ \/ Return(c)
     \/ /\ ~sn.ok \/ Mismatch(sn)
        /\ Goto(c, "store")
     \/ /\ sn.ok /\ ~Mismatch(sn)
        /\ client' = [client EXCEPT ![c] =
              Loaded(@, "snapTail", Decode(sn), sn.ver)]
  /\ UNCHANGED <<stream, snap, cache, flight, published, wrote, build>>

\* loadFromSnapshot: LoadFromVersion(snap.Version) and the fold.  An error of
\* either fails the call.
SnapTail(c) ==
  LET l == client[c]
      tail == SliceFromVersion(stream[l.s], l.ver) IN
  /\ l.pc = "snapTail"
  /\ \/ Return(c)
     \/ /\ stream[l.s] # <<>> /\ Foldable(tail)
        /\ client' = [client EXCEPT ![c] =
              Loaded(@, AfterLoad, l.st \o tail, l.ver + Len(tail))]
  /\ UNCHANGED <<stream, snap, cache, flight, published, wrote, build>>

\* loadByEvents: fold a whole history from Initial; the version is its length
\* (0 for a stream not found).  A failed fold fails the call.
FromEvents(l, events) ==
  IF Foldable(events) THEN Loaded(l, AfterLoad, events, Len(events))
                      ELSE Idle(l.s)

\* loadFromStore without coalescing.
StoreLoad(c) ==
  LET l == client[c] IN
  /\ l.pc = "store" /\ c \notin Coalescing
  /\ \/ Return(c)
     \/ client' = [client EXCEPT ![c] = FromEvents(l, stream[l.s])]
  /\ UNCHANGED <<stream, snap, cache, flight, published, wrote, build>>

\* Mutant of Join: WithLoadCoalescing(false) is not looked at.
JoinAnyone(c) ==
  LET s == client[c].s IN
  /\ client[c].pc = "store"
  /\ IF flight[s] = None
       THEN flight' = [flight EXCEPT ![s] = c] /\ Goto(c, "lead")
       ELSE Goto(c, "wait") /\ UNCHANGED flight
  /\ UNCHANGED <<stream, snap, cache, published, wrote, build>>

\* loadGroup.Do: become the leader of a load of s, or wait for the one there
\* already is.
Join(c) ==
  LET s == client[c].s IN
  /\ client[c].pc = "store" /\ c \in Coalescing
  /\ IF flight[s] = None
       THEN flight' = [flight EXCEPT ![s] = c] /\ Goto(c, "lead")
       ELSE Goto(c, "wait") /\ UNCHANGED flight
  /\ UNCHANGED <<stream, snap, cache, published, wrote, build>>

\* The leader's store.Load, detached from any caller's cancellation.
FlightRead(c) ==
  LET l == client[c] IN
  /\ l.pc = "lead"
  /\ \/ Goto(c, "landErr")
     \/ client' = [client EXCEPT ![c] =
           Loaded(@, "land", stream[l.s], Len(stream[l.s]))]
  /\ UNCHANGED <<stream, snap, cache, flight, published, wrote, build>>

\* Mutant of FlightLand: the callers that joined are not woken.
FlightLandAlone(c) ==
  LET l == client[c] IN
  /\ l.pc \in {"land", "landErr"}
  /\ flight' = [flight EXCEPT ![l.s] = None]
  /\ client' = [client EXCEPT ![c] =
        IF l.pc = "landErr" THEN Idle(l.s) ELSE FromEvents(l, l.st)]
  /\ UNCHANGED <<stream, snap, cache, published, wrote, build>>

\* The leader leaves the group: its result, or its error, is the result of
\* every caller that joined, and each of them folds it.
FlightLand(c) ==
  LET l == client[c]
      shares(d) == d = c \/ (client[d].pc = "wait" /\ client[d].s = l.s) IN
  /\ l.pc \in {"land", "landErr"}
  /\ flight' = [flight EXCEPT ![l.s] = None]
  /\ client' = [d \in Client |->
        IF ~shares(d) THEN client[d]
        ELSE IF l.pc = "landErr" THEN Idle(client[d].s)
        ELSE FromEvents(client[d], l.st)]
  /\ UNCHANGED <<stream, snap, cache, published, wrote, build>>

\* stateCache.Put of what was loaded.
CachePut(c) ==
  LET l == client[c] IN
  /\ l.pc = "cachePut"
  /\ cache' = [cache EXCEPT ![l.s] = [ok |-> TRUE, st |-> l.st, ver |-> l.ver]]
  /\ Goto(c, "loaded")
  /\ UNCHANGED <<stream, snap, flight, published, wrote, build>>

\* LoadRef returns its state to the caller.
LoadReturn(c) ==
  /\ client[c].pc = "loaded" /\ client[c].op = "load"
  /\ Return(c)
  /\ UNCHANGED <<stream, snap, cache, flight, published, wrote, build>>

-----------------------------------------------------------------------------
(* ExecuteRef after the load *)

\* decide: an error and an empty decision end the call.
Decide(c) ==
  LET l == client[c] IN
  /\ l.pc = "loaded" /\ l.op = "execute"
  /\ \/ Return(c)
     \/ \E oks \in Decisions :
          /\ l.ver + Len(oks) <= MaxEvents
          /\ client' = [client EXCEPT ![c].batch = NewEvents(c, l.ver, oks),
                                      ![c].pc = "save"]
  /\ UNCHANGED <<stream, snap, cache, flight, published, wrote, build>>

\* Mutant of VersionConflict: a longer stream is no conflict.
VersionConflictLax(s, expected) == Len(stream[s]) < expected

\* CheckVersionConflict of the store.
VersionConflict(s, expected) == Len(stream[s]) # expected

\* Mutant of Save: the error of the store is ignored.
SaveErrorIgnored(c) ==
  LET l == client[c] IN
  /\ l.pc = "save"
  /\ \/ UNCHANGED stream
     \/ /\ ~VersionConflict(l.s, l.ver)
        /\ stream' = [stream EXCEPT ![l.s] = @ \o l.batch]
  /\ Goto(c, "publish")
  /\ UNCHANGED <<snap, cache, flight, published, wrote, build>>

\* store.Save, atomic under the store's lock; a conflict or a store error
\* ends the call and saves nothing.
Save(c) ==
  LET l == client[c] IN
  /\ l.pc = "save"
  /\ \/ Return(c) /\ UNCHANGED stream
     \/ /\ ~VersionConflict(l.s, l.ver)
        /\ stream' = [stream EXCEPT ![l.s] = @ \o l.batch]
        /\ Goto(c, "publish")
  /\ UNCHANGED <<snap, cache, flight, published, wrote, build>>

\* What ExecuteRef does next: snapshot, cache, or return with success.
Finish(c) ==
  /\ wrote' = [wrote EXCEPT ![c][client[c].s] = NewVersion(c)]
  /\ Return(c)

AfterSnapshot(c) ==
  IF Caching THEN Goto(c, "recache") /\ UNCHANGED wrote ELSE Finish(c)

\* Mutant of Publish: the error of the bus is ignored.
PublishErrorIgnored(c) ==
  LET l == client[c] IN
  /\ l.pc = "publish"
  /\ \E k \in 0..Len(l.batch) :
        published' = [published EXCEPT ![l.s] = @ \o SubSeq(l.batch, 1, k)]
  /\ IF ShouldSnapshot(NewVersion(c))
       THEN Goto(c, "snapSave") /\ UNCHANGED wrote
       ELSE AfterSnapshot(c)
  /\ UNCHANGED <<stream, snap, cache, flight, build>>

\* publisher.Publish, one event after the other: it stops at the first event
\* it fails on, and the call then returns the error at once.
Publish(c) ==
  LET l == client[c] IN
  /\ l.pc = "publish"
  /\ \/ /\ published' = [published EXCEPT ![l.s] = @ \o l.batch]
        /\ IF ShouldSnapshot(NewVersion(c))
             THEN Goto(c, "snapSave") /\ UNCHANGED wrote
             ELSE AfterSnapshot(c)
     \/ /\ \E k \in 0..(Len(l.batch) - 1) :
             published' = [published EXCEPT ![l.s] = @ \o SubSeq(l.batch, 1, k)]
        /\ Return(c) /\ UNCHANGED wrote
  /\ UNCHANGED <<stream, snap, cache, flight, build>>

\* Mutant of SnapshotSave: the last writer wins.
SnapshotSaveLast(sn, new) == new

\* MemorySnapshotStore.Save keeps a snapshot of a higher version.
SnapshotSave(sn, new) == IF sn.ok /\ sn.ver > new.ver THEN sn ELSE new

\* Mutant of SnapSave: the state before the new events is what is stored.
SnapSaveUnfolded(c) ==
  LET l == client[c]
      new == [ok |-> TRUE, st |-> l.st, ver |-> NewVersion(c),
              shape |-> build] IN
  /\ l.pc = "snapSave"
  /\ snap' = [snap EXCEPT ![l.s] = SnapshotSave(@, new)]
  /\ AfterSnapshot(c)
  /\ UNCHANGED <<stream, cache, flight, published, build>>

\* saveSnapshotAfterEvents: best effort, its errors are swallowed.
SnapSave(c) ==
  LET l == client[c]
      new == [ok |-> TRUE, st |-> l.st \o l.batch, ver |-> NewVersion(c),
              shape |-> build] IN
  /\ l.pc = "snapSave"
  /\ \/ /\ Foldable(l.batch)
        /\ snap' = [snap EXCEPT ![l.s] = SnapshotSave(@, new)]
     \/ UNCHANGED snap
  /\ AfterSnapshot(c)
  /\ UNCHANGED <<stream, cache, flight, published, build>>

\* updateCacheAfterExecute: Put the folded state, or Invalidate when the fold
\* fails; ExecuteRef returns nil.
Recache(c) ==
  LET l == client[c] IN
  /\ l.pc = "recache"
  /\ cache' = [cache EXCEPT ![l.s] =
        IF Foldable(l.batch)
          THEN [ok |-> TRUE, st |-> l.st \o l.batch, ver |-> NewVersion(c)]
          ELSE NoEntry]
  /\ Finish(c)
  /\ UNCHANGED <<stream, snap, flight, published, build>>

-----------------------------------------------------------------------------
(* Around the callers *)

\* Another process saves an event to the same store; this process's cache
\* never hears of it.
OtherSave(s, ok) ==
  /\ Len(stream[s]) < MaxEvents
  /\ stream' = [stream EXCEPT ![s] = @ \o NewEvents(Other, Len(@), <<ok>>)]
  /\ UNCHANGED <<snap, cache, flight, client, published, wrote, build>>

\* The cache is bounded: any entry may be evicted at any time.
Evict(s) ==
  /\ cache[s].ok
  /\ cache' = [cache EXCEPT ![s] = NoEntry]
  /\ UNCHANGED <<stream, snap, flight, client, published, wrote, build>>

\* The process dies and restarts on the same stores, perhaps as a build with
\* another shape of State.
Restart(shape) ==
  /\ client' = [c \in Client |-> Idle(client[c].s)]
  /\ cache' = [s \in Stream |-> NoEntry]
  /\ flight' = [s \in Stream |-> None]
  /\ build' = shape
  /\ UNCHANGED <<stream, snap, published, wrote>>

\* One step of the call c is in.
Step(c) ==
  \/ CacheGet(c) \/ CacheTail(c) \/ CacheDrop(c) \/ SnapLoad(c) \/ SnapTail(c)
  \/ StoreLoad(c) \/ Join(c) \/ FlightRead(c) \/ FlightLand(c) \/ CachePut(c)
  \/ LoadReturn(c) \/ Decide(c) \/ Save(c) \/ Publish(c) \/ SnapSave(c)
  \/ Recache(c)

Next ==
  \/ \E c \in Client : Step(c)
  \/ \E c \in Client, s \in Stream, op \in {"load", "execute"} : Call(c, s, op)
  \/ \E s \in Stream, ok \in BOOLEAN : OtherSave(s, ok)
  \/ \E s \in Stream : Evict(s)
  \/ \E shape \in Shape : Restart(shape)

Spec == Init /\ [][Next]_vars

\* The Go scheduler runs every goroutine that is not blocked.
FairSpec == Spec /\ \A c \in Client : WF_vars(Step(c))

-----------------------------------------------------------------------------
(* Properties *)

\* st is what folding the first v events of s gives.
IsHistory(s, st, v) == v <= Len(stream[s]) /\ st = SubSeq(stream[s], 1, v)

\* A cached state is the state of the stream at the cached version, however
\* late the Put of a slow caller, whatever other processes wrote meanwhile
\* (StateCache: "loads only events after V and folds them onto the cached
\* state" is right only then).
CacheSound ==
  \A s \in Stream : cache[s].ok => IsHistory(s, cache[s].st, cache[s].ver)

\* The shape of State never changes, or every build declares its own ("Changing a
\* snapshot State's shape without bumping WithSnapshotStateVersion" is listed as
\* breaking, SCHEMA-COMPATIBILITY.md).  Without a declaration, the default, a
\* snapshot of another shape is accepted and decodes to a zero state.
Guarded == \A h, k \in Shape : h # k => {h, k} \subseteq Declaring

\* What a load gets out of a snapshot this build accepts is the state of the
\* stream at the snapshot's version ("a stale-shaped snapshot is never loaded as
\* if it were current", WithSnapshotStateVersion), where the shapes are Guarded.
SnapshotSound ==
  \A s \in Stream :
    snap[s].ok /\ ~Mismatch(snap[s]) => IsHistory(s, Decode(snap[s]), snap[s].ver)

\* Where a caller holds a loaded state.
Holding == {"cacheTail", "snapTail", "land", "cachePut", "loaded", "save",
            "publish", "snapSave", "recache"}

\* What a caller has loaded is a state the stream really had.
LoadedIsHistory ==
  \A c \in Client : client[c].pc \in Holding =>
    IsHistory(client[c].s, client[c].st, client[c].ver)

\* Where ExecuteRef is once its batch is saved.
Saved == {"publish", "snapSave", "recache"}

\* A decided batch continues the version it was decided on, and once it is
\* saved, the state ExecuteRef will snapshot and cache (the loaded state with
\* the batch folded on top) is a state the stream really had, although other
\* callers have written since.
BatchIsHistory ==
  \A c \in Client : LET l == client[c] IN
    /\ l.pc = "save" => \A i \in 1..Len(l.batch) : l.batch[i].ver = l.ver + i
    /\ l.pc \in Saved => IsHistory(l.s, l.st \o l.batch, NewVersion(c))

\* No lost update: a decision reaches the store only when the state it was
\* made on is still the whole stream, whichever of cache, snapshot or a
\* shared read that state came from.
SavedOnCurrentState ==
  [][\A c \in Client :
       client[c].pc = "save" /\ client'[c].pc = "publish" =>
         /\ stream[client[c].s] = client[c].st
         /\ stream'[client[c].s] = client[c].st \o client[c].batch]_vars

\* The streams are append-only, grow by whole batches, and have gap-free
\* versions (CONSISTENCY_MODEL.md).
Store == INSTANCE EventStream
ImplementsEventStream == Store!Spec

\* Nothing is announced that the store does not hold, and nothing is announced
\* twice: a saved event reaches the bus at most once.
PublishedWasSaved ==
  \A s \in Stream : \A i \in 1..Len(published[s]) :
    /\ published[s][i].ver \in 1..Len(stream[s])
    /\ published[s][i] = stream[s][published[s][i].ver]
    /\ \A j \in 1..Len(published[s]) :
         published[s][i] = published[s][j] => i = j

\* When ExecuteRef returned nil, its events are in the store and were handed
\* to the publisher, across later writes and restarts.
AckedIsSavedAndPublished ==
  \A c \in Client, s \in Stream :
    LET v == wrote[c][s] IN
    v > 0 => /\ v <= Len(stream[s])
             /\ stream[s][v].by = c
             /\ \E i \in 1..Len(published[s]) : published[s][i] = stream[s][v]

\* A slow caller never replaces a newer snapshot by its older one.
SnapshotNeverOlder ==
  [][\A s \in Stream : snap[s].ok =>
       snap'[s].ok /\ snap'[s].ver >= snap[s].ver]_vars

\* "the write is immediately visible after Execute returns"
\* (CONSISTENCY_MODEL.md): a caller that loads a stream it has written gets at
\* least the version its own execute ended at.
ReadYourWrites ==
  \A c \in Client :
    client[c].pc = "loaded" => client[c].ver >= wrote[c][client[c].s]

\* A caller that does not share its loads does see its own writes, whichever of
\* cache, snapshot and store it reads while the others load and save.
OwnWritesRead ==
  \A c \in Client \ Coalescing :
    client[c].pc = "loaded" => client[c].ver >= wrote[c][client[c].s]

\* Every call returns: no caller waits for ever on a shared load.
EveryCallReturns ==
  \A c \in Client : client[c].pc # "idle" ~> client[c].pc = "idle"
=============================================================================
