--------------------------- MODULE ProjectionHost ---------------------------
(***************************************************************************)
(* The read side: projectionhost.Host runs one projection over a journal.  *)
(* A worker goroutine drains the journal from the durable checkpoint,      *)
(* applies every event, saves the checkpoint once per batch, and restarts  *)
(* with backoff when it fails.  With a subscriber it then registers the    *)
(* live handler and drains once more (the catch-up drain); from there on   *)
(* callbacks of the bus apply events as well.  An operator starts, stops   *)
(* and resets the host and replays dead letters; the process may crash.    *)
(*                                                                         *)
(* An event is its position in the journal, 0 is the zero event id.  Every *)
(* access to what goroutines share is a step: checkpoint store, journal,   *)
(* the projection's Handle (from its call to its return), dead letters,    *)
(* handleMu.  Start builds a fresh worker each time, a generation.         *)
(***************************************************************************)
EXTENDS Integers, Sequences

CONSTANTS
  Subscriber,   \* WithSubscriber was given
  Reliable,     \* the bus delivers what is appended after the registration,
                \* once, in order (else: any event, any time, any number)
  HasDLQ,       \* WithDeadLetterStore was given
  Ignored,      \* the events whose type is not in the projection's EventTypes
  Resets,       \* the operator calls Reset
  Outcomes,     \* what applyWithRetry may end with
  Fails,        \* the calls that may fail
  BatchSize,    \* WithBatchSize
  CpEvery,      \* WithCheckpointEvery
  RingCap,      \* dedup.DefaultCapacity
  MaxRestarts,  \* WithMaxRestarts; -1: unlimited
  MaxEvents,    \* bound: the journal
  MaxGen        \* bound: workers built

Outcome == {"ok", "retryable", "poison"}
Call == {"load", "read", "save", "dlq", "subscribe", "reset", "await", "crash"}

ASSUME ProjectionHostAssumption ==
  /\ Subscriber \in BOOLEAN /\ Reliable \in BOOLEAN /\ HasDLQ \in BOOLEAN
  /\ Resets \in BOOLEAN
  /\ Outcomes \subseteq Outcome /\ Fails \subseteq Call
  /\ MaxRestarts \in Nat \cup {-1} /\ MaxEvents \in Nat
  /\ {BatchSize, CpEvery, RingCap, MaxGen} \subseteq Nat \ {0}
  /\ Ignored \subseteq 1..MaxEvents

VARIABLES
  journal,  \* length of the journal
  cp,       \* the durable checkpoint
  applied,  \* the events the read model holds
  dlq,      \* the dead letters
  worker,   \* every worker built, by generation
  gen,      \* the generation Host.workers holds
  host,     \* the host, with the operator's call under way
  replay    \* the call to ReplayDeadLetters under way

vars == <<journal, cp, applied, dlq, worker, gen, host, replay>>

Event == 1..MaxEvents
Gen == 1..MaxGen

Status == {"idle", "running", "live", "backoff", "draining", "stopped", "failed"}

PC == {"new", "top", "load", "read", "event", "handle", "save", "subscribe",
       "blocked", "backoff", "flush", "done", "gone"}

\* after, until: position and end of the batch read; next: one entry per
\* registration of the live handler, what a reliable bus delivers to it next;
\* from: the length of the journal at the last one; called: callbacks that
\* wait for handleMu; cb, cbPC: the one that has it; pend, since: the staged
\* live checkpoint; redo: (history) events the ring does not keep from Handle
\* any more: evicted, or never marked as the save of their live checkpoint failed.
Worker == [pc : PC, catchUp : BOOLEAN, after : Nat, until : Nat, full : BOOLEAN,
           status : Status, restarts : Nat, stop : BOOLEAN, seen : Seq(Event),
           next : Seq(Nat), from : Nat, called : SUBSET Event, cb : Nat,
           cbPC : {"none", "handle", "save"}, pend : Nat, since : Nat,
           redo : SUBSET Event]

TypeOK ==
  /\ journal \in 0..MaxEvents /\ cp \in 0..journal
  /\ applied \subseteq 1..journal /\ dlq \subseteq 1..journal
  /\ worker \in [Gen -> Worker]
  /\ \A g \in Gen : Len(worker[g].seen) <= RingCap /\ worker[g].after <= journal
  /\ gen \in Gen
  /\ host \in [started : BOOLEAN, stopped : BOOLEAN, was : Status,
               op : {"none", "stop", "mark", "await", "force", "reset", "purge"}]
  /\ replay \in [g : Gen, todo : SUBSET Event, now : 0..MaxEvents]

\* newWorker.
NewWorker ==
  [pc |-> "new", catchUp |-> FALSE, after |-> 0, until |-> 0, full |-> FALSE,
   status |-> "idle", restarts |-> 0, stop |-> FALSE, seen |-> <<>>, next |-> <<>>,
   from |-> 0, called |-> {}, cb |-> 0, cbPC |-> "none", pend |-> 0, since |-> 0,
   redo |-> {}]

Host0 == [started |-> FALSE, stopped |-> FALSE, was |-> "idle", op |-> "none"]
NoReplay == [g |-> 1, todo |-> {}, now |-> 0]

Init ==
  /\ journal = 0 /\ cp = 0 /\ applied = {} /\ dlq = {}
  /\ worker = [g \in Gen |-> NewWorker] /\ gen = 1
  /\ host = Host0 /\ replay = NoReplay

-----------------------------------------------------------------------------
(* Helpers *)

Set(g, x) == worker' = [worker EXCEPT ![g] = x]

\* Mutant of Unlocked: handleMu is not taken.
UnlockedAlways(g) == TRUE

\* handleMu of worker g is free: the catch-up drain, the live callback and a
\* replay hold it around Handle.  The initial drain does not take it.
Unlocked(g) ==
  /\ ~(worker[g].pc = "handle" /\ worker[g].catchUp)
  /\ worker[g].cbPC = "none"
  /\ ~(replay.now # 0 /\ replay.g = g)

Seen(x, e) == \E i \in 1..Len(x.seen) : x.seen[i] = e

\* Mutant of MarkSeen: nothing is evicted.
MarkSeenUnbounded(x, e) == [x EXCEPT !.seen = Append(@, e)]

\* Ring.Add: the oldest entry makes room.
MarkSeen(x, e) ==
  LET full == Len(x.seen) = RingCap IN
  IF Seen(x, e) THEN x
  ELSE [x EXCEPT !.seen = Append(IF full THEN Tail(x.seen) ELSE x.seen, e),
                 !.redo = (IF full THEN @ \cup {Head(x.seen)} ELSE @) \ {e}]

\* process returned: its local variables are gone.
Returned(x) == [x EXCEPT !.after = 0, !.until = 0, !.full = FALSE]

\* The end of run: the deferred status, then the deferred flush.
Exit(x) == [Returned(x) EXCEPT !.pc = "flush",
                               !.status = IF @ = "failed" THEN @ ELSE "stopped"]

\* Mutant of Broken: the restarts are not counted.
BrokenUnlimited(x) == [Returned(x) EXCEPT !.status = "backoff", !.pc = "backoff"]

\* process returned an error that is not a cancellation.  Without a limit only
\* that the worker restarted is counted.
Broken(x) ==
  LET y == [Returned(x) EXCEPT !.restarts = IF MaxRestarts >= 0 THEN @ + 1 ELSE 1] IN
  IF MaxRestarts >= 0 /\ y.restarts > MaxRestarts
    THEN Exit([y EXCEPT !.status = "failed"])
    ELSE [y EXCEPT !.status = "backoff", !.pc = "backoff"]

\* A call given the cancelled context returns its error, which ends run.
Cancelled(g) == worker[g].stop /\ Set(g, Exit(worker[g]))

\* handleProcessEventError parks the event.
Parks(out) == out = "poison" /\ HasDLQ

-----------------------------------------------------------------------------
(* The worker goroutine of generation g *)

\* run: the top of the loop.
Top(g) ==
  LET x == worker[g] IN
  /\ x.pc = "top"
  /\ Set(g, IF x.stop THEN Exit(x) ELSE [x EXCEPT !.status = "running", !.pc = "load"])
  /\ UNCHANGED <<journal, cp, applied, dlq, gen, host, replay>>

\* process: load the checkpoint.
LoadCheckpoint(g) ==
  LET x == worker[g] IN
  /\ x.pc = "load"
  /\ \/ Set(g, [x EXCEPT !.after = cp, !.catchUp = FALSE, !.pc = "read"])
     \/ "load" \in Fails /\ Set(g, Broken(x))
     \/ Cancelled(g)
  /\ UNCHANGED <<journal, cp, applied, dlq, gen, host, replay>>

\* What follows a drain that reached the end: the live phase, or the end.
Drained(x) ==
  IF Subscriber /\ ~x.catchUp THEN [x EXCEPT !.pc = "subscribe", !.status = "live"]
                              ELSE Exit(x)

\* process, drainCatchUp: stop check and ReadFrom.
Read(g) ==
  LET x == worker[g]
      end == IF x.after + BatchSize < journal THEN x.after + BatchSize ELSE journal
  IN
  /\ x.pc = "read"
  /\ \/ Cancelled(g)
     \/ /\ ~x.stop
        /\ Set(g, IF x.after >= journal THEN Drained(x)
                  ELSE [x EXCEPT !.until = end, !.full = end - x.after = BatchSize,
                                 !.pc = "event"])
     \/ ~x.stop /\ "read" \in Fails /\ Set(g, Broken(x))
  /\ UNCHANGED <<journal, cp, applied, dlq, gen, host, replay>>

\* The loop over the batch: stop check, lock (catch-up drain only), the dedup
\* ring and the type filter of processEvent, and the call of Handle.
NextEvent(g) ==
  LET x == worker[g]
      e == x.after + 1 IN
  /\ x.pc = "event"
  /\ \/ x.after = x.until /\ Set(g, [x EXCEPT !.pc = "save"])
     \/ x.after < x.until /\ Cancelled(g)
     \/ /\ x.after < x.until /\ ~x.stop
        /\ x.catchUp => Unlocked(g)
        /\ Set(g, IF Seen(x, e) THEN [x EXCEPT !.after = e]
                  ELSE IF e \in Ignored THEN MarkSeen([x EXCEPT !.after = e], e)
                  ELSE [x EXCEPT !.pc = "handle"])
  /\ UNCHANGED <<journal, cp, applied, dlq, gen, host, replay>>

\* Mutant of Handled: the event is passed over when Handle keeps failing.
HandledSkipping(g) ==
  LET x == worker[g]
      e == x.after + 1
      next == MarkSeen([x EXCEPT !.after = e, !.pc = "event"], e) IN
  /\ x.pc = "handle"
  /\ \E out \in Outcomes :
       /\ applied' = IF out = "ok" THEN applied \cup {e} ELSE applied
       /\ dlq' = IF Parks(out) THEN dlq \cup {e} ELSE dlq
       /\ Set(g, next)
  /\ UNCHANGED <<journal, cp, gen, host, replay>>

\* applyWithRetry returned, and the rest of processEvent: park a poison event,
\* or give the error to run.  A cancelled call (stop) ends run.
Handled(g) ==
  LET x == worker[g]
      e == x.after + 1
      next == MarkSeen([x EXCEPT !.after = e, !.pc = "event"], e) IN
  /\ x.pc = "handle"
  /\ \E out \in Outcomes :
       \/ /\ out = "ok"
          /\ applied' = applied \cup {e} /\ Set(g, next) /\ UNCHANGED dlq
       \/ /\ Parks(out)
          /\ dlq' = dlq \cup {e} /\ Set(g, next) /\ UNCHANGED applied
       \/ /\ out # "ok" /\ (Parks(out) => "dlq" \in Fails)
          /\ Set(g, Broken(x)) /\ UNCHANGED <<applied, dlq>>
       \/ Cancelled(g) /\ UNCHANGED <<applied, dlq>>
  /\ UNCHANGED <<journal, cp, gen, host, replay>>

\* The save after the batch, not under handleMu.
SaveCheckpoint(g) ==
  LET x == worker[g] IN
  /\ x.pc = "save"
  /\ \/ /\ cp' = x.after
        /\ Set(g, IF x.full THEN [x EXCEPT !.until = 0, !.full = FALSE, !.pc = "read"]
                  ELSE Drained([x EXCEPT !.until = 0]))
     \/ "save" \in Fails /\ Set(g, Broken(x)) /\ UNCHANGED cp
     \/ Cancelled(g) /\ UNCHANGED cp
  /\ UNCHANGED <<journal, applied, dlq, gen, host, replay>>

\* Mutant of Subscribe: without the catch-up drain.
SubscribeOnly(g) ==
  LET x == worker[g] IN
  /\ x.pc = "subscribe"
  /\ Set(g, Exit([x EXCEPT !.next = Append(@, journal + 1), !.from = journal]))
  /\ UNCHANGED <<journal, cp, applied, dlq, gen, host, replay>>

\* processLive: SubscribeAll registers the live handler and returns, or (a
\* blocking subscriber) stays to deliver, or fails.
Subscribe(g) ==
  LET x == worker[g]
      y == [x EXCEPT !.next = Append(@, journal + 1), !.from = journal,
                     !.catchUp = TRUE] IN
  /\ x.pc = "subscribe"
  /\ \/ Set(g, [y EXCEPT !.pc = "read"])
     \/ Set(g, [y EXCEPT !.pc = "blocked"])
     \/ "subscribe" \in Fails /\ Set(g, Broken(x))
  /\ UNCHANGED <<journal, cp, applied, dlq, gen, host, replay>>

\* A blocking SubscribeAll returns: the application closed the subscriber.
\* It is given no context, so a stop of the worker does not end it.
Unblock(g) ==
  /\ worker[g].pc = "blocked"
  /\ Set(g, [worker[g] EXCEPT !.pc = "read"])
  /\ UNCHANGED <<journal, cp, applied, dlq, gen, host, replay>>

\* run: the backoff passed, or the worker was stopped during it.
Backoff(g) ==
  LET x == worker[g] IN
  /\ x.pc = "backoff"
  /\ Set(g, IF x.stop THEN Exit(x) ELSE [x EXCEPT !.pc = "top"])
  /\ UNCHANGED <<journal, cp, applied, dlq, gen, host, replay>>

\* flushPendingCheckpoint of worker x, under handleMu: saved, or not.
Flushed(x) == [x EXCEPT !.pend = 0, !.since = 0]

Flush(g) ==
  LET x == worker[g] IN
  /\ x.pc = "flush" /\ Unlocked(g)
  /\ \/ x.pend = 0 /\ Set(g, [x EXCEPT !.pc = "done"]) /\ UNCHANGED cp
     \/ x.pend # 0 /\ Set(g, [Flushed(x) EXCEPT !.pc = "done"]) /\ cp' = x.pend
     \/ /\ x.pend # 0 /\ "save" \in Fails
        /\ Set(g, [x EXCEPT !.pc = "done"]) /\ UNCHANGED cp
  /\ UNCHANGED <<journal, applied, dlq, gen, host, replay>>

-----------------------------------------------------------------------------
(* The live handler of generation g, called by the bus *)

\* The bus calls the handler with e, which checks for a stop first.  A worker
\* that restarted is registered more than once, and called as often.
Deliver(g, e) ==
  LET x == worker[g] IN
  /\ e <= journal
  /\ \E i \in 1..Len(x.next) :
       /\ Reliable => e = x.next[i] /\ x.called = {} /\ x.cbPC = "none"
       /\ Set(g, [x EXCEPT !.next[i] = e + 1,
                           !.called = IF x.stop THEN @ ELSE @ \cup {e}])
  /\ UNCHANGED <<journal, cp, applied, dlq, gen, host, replay>>

\* handleMu acquired: the ring, the type filter, and the call of Handle.
Callback(g, e) ==
  LET x == worker[g]
      y == [x EXCEPT !.called = @ \ {e}] IN
  /\ e \in x.called /\ Unlocked(g)
  /\ Set(g, IF Seen(x, e) THEN y
            ELSE IF e \in Ignored THEN MarkSeen(y, e)
            ELSE [y EXCEPT !.cb = e, !.cbPC = "handle"])
  /\ UNCHANGED <<journal, cp, applied, dlq, gen, host, replay>>

\* Mutant of CallbackEnd: handleMu is not released.
CallbackEndLocked(x) == [x EXCEPT !.cb = 0]

\* The callback returns.
CallbackEnd(x) == [x EXCEPT !.cb = 0, !.cbPC = "none"]

\* applyWithRetry returned; an error that does not park the event goes back
\* to the bus, and the event is not marked.
CallbackHandled(g) ==
  LET x == worker[g]
      save == [x EXCEPT !.cbPC = "save"] IN
  /\ x.cbPC = "handle"
  /\ \E out \in Outcomes :
       \/ /\ out = "ok"
          /\ applied' = applied \cup {x.cb} /\ Set(g, save) /\ UNCHANGED dlq
       \/ /\ Parks(out)
          /\ dlq' = dlq \cup {x.cb} /\ Set(g, save) /\ UNCHANGED applied
       \/ /\ (out # "ok" /\ (Parks(out) => "dlq" \in Fails)) \/ x.stop
          /\ Set(g, CallbackEnd(x)) /\ UNCHANGED <<applied, dlq>>
  /\ UNCHANGED <<journal, cp, gen, host, replay>>

\* Mutant of CallbackSave: the event is not marked as seen.
CallbackSaveUnmarked(g) ==
  LET x == worker[g] IN
  /\ x.cbPC = "save"
  /\ cp' = x.cb /\ Set(g, CallbackEnd(x))
  /\ UNCHANGED <<journal, applied, dlq, gen, host, replay>>

\* recordLiveCheckpoint and markSeen: saved (at the latest every CpEvery
\* events, earlier when WithCheckpointInterval is over), only staged, or the
\* save failed, which leaves the event unmarked.
CallbackSave(g) ==
  LET x == worker[g]
      staged == [x EXCEPT !.pend = x.cb, !.since = @ + 1] IN
  /\ x.cbPC = "save"
  /\ \/ cp' = x.cb /\ Set(g, CallbackEnd(MarkSeen(Flushed(x), x.cb)))
     \/ /\ staged.since < CpEvery
        /\ Set(g, CallbackEnd(MarkSeen(staged, x.cb))) /\ UNCHANGED cp
     \/ /\ "save" \in Fails \/ x.stop
        /\ Set(g, CallbackEnd([staged EXCEPT !.redo = @ \cup {x.cb}])) /\ UNCHANGED cp
  /\ UNCHANGED <<journal, applied, dlq, gen, host, replay>>

-----------------------------------------------------------------------------
(* The operator: one call at a time *)

Running == host.started /\ ~host.stopped

\* Start: the registered worker, or a fresh one after a stop.
Start ==
  /\ host.op = "none" /\ ~Running
  /\ host' = [host EXCEPT !.started = TRUE, !.stopped = FALSE]
  /\ IF host.started THEN gen < MaxGen /\ gen' = gen + 1 ELSE UNCHANGED gen
  /\ worker' = [worker EXCEPT ![gen'] = [NewWorker EXCEPT !.pc = "top"]]
  /\ UNCHANGED <<journal, cp, applied, dlq, replay>>

\* Stop: the latch and the cancel ...
Stop ==
  /\ host.op = "none" /\ Running
  /\ host' = [host EXCEPT !.stopped = TRUE, !.op = "stop"]
  /\ Set(gen, [worker[gen] EXCEPT !.stop = TRUE])
  /\ UNCHANGED <<journal, cp, applied, dlq, gen, replay>>

\* ... the read of the worker's status ...
StopRead ==
  /\ host.op = "stop"
  /\ host' = [host EXCEPT !.op = "mark", !.was = worker[gen].status]
  /\ UNCHANGED <<journal, cp, applied, dlq, worker, gen, replay>>

\* ... and the status it leads to.
StopMark ==
  /\ host.op = "mark"
  /\ Set(gen, [worker[gen] EXCEPT !.status =
       IF host.was \in {"running", "live", "backoff"} THEN "draining" ELSE @])
  /\ host' = [host EXCEPT !.op = "await", !.was = "idle"]
  /\ UNCHANGED <<journal, cp, applied, dlq, gen, replay>>

ForceStop ==
  /\ host.op = "none" /\ host.started
  /\ host' = [host EXCEPT !.stopped = TRUE, !.op = "force"]
  /\ Set(gen, [worker[gen] EXCEPT !.stop = TRUE])
  /\ UNCHANGED <<journal, cp, applied, dlq, gen, replay>>

\* awaitWorkers: every goroutine has ended; flush what is staged.
Await ==
  LET x == worker[gen] IN
  /\ host.op \in {"await", "force"}
  /\ \A g \in Gen : worker[g].pc \in {"new", "done", "gone"}
  /\ Unlocked(gen)
  /\ \/ x.pend = 0 /\ UNCHANGED <<cp, worker>>
     \/ x.pend # 0 /\ cp' = x.pend /\ Set(gen, Flushed(x))
     \/ x.pend # 0 /\ "save" \in Fails /\ UNCHANGED <<cp, worker>>
  /\ host' = [host EXCEPT !.op = "none"]
  /\ UNCHANGED <<journal, applied, dlq, gen, replay>>

\* awaitWorkers: the timeout.  Only ForceStop releases the latch.
AwaitTimeout ==
  /\ "await" \in Fails /\ host.op \in {"await", "force"}
  /\ host' = [host EXCEPT !.op = "none", !.stopped = host.op = "await"]
  /\ UNCHANGED <<journal, cp, applied, dlq, worker, gen, replay>>

\* Mutant of ResetCheckpoint: the checkpoint is left for later.
ResetCheckpointLater ==
  /\ Resets /\ host.op = "none" /\ ~Running
  /\ host' = [host EXCEPT !.op = "reset"]
  /\ UNCHANGED <<journal, cp, applied, dlq, worker, gen, replay>>

\* Reset: the checkpoint first.
ResetCheckpoint ==
  /\ Resets /\ host.op = "none" /\ ~Running
  /\ \/ cp' = 0 /\ host' = [host EXCEPT !.op = "reset"]
     \/ "save" \in Fails /\ UNCHANGED <<cp, host>>
  /\ UNCHANGED <<journal, applied, dlq, worker, gen, replay>>

\* Then the read model, when the projection is Resettable.
ResetModel ==
  /\ host.op = "reset"
  /\ \/ applied' = {} /\ host' = [host EXCEPT !.op = "purge"]
     \/ UNCHANGED applied /\ host' = [host EXCEPT !.op = "purge"]
     \/ "reset" \in Fails /\ UNCHANGED applied /\ host' = [host EXCEPT !.op = "none"]
  /\ UNCHANGED <<journal, cp, dlq, worker, gen, replay>>

\* Then the dead letters, if asked to.
ResetPurge ==
  /\ host.op = "purge"
  /\ dlq' = {} \/ UNCHANGED dlq
  /\ host' = [host EXCEPT !.op = "none"]
  /\ UNCHANGED <<journal, cp, applied, worker, gen, replay>>

-----------------------------------------------------------------------------
(* Around the host *)

\* ReplayDeadLetters: the list, and the workers as they are now.
ReplayStart ==
  /\ replay.todo = {} /\ replay.now = 0 /\ dlq # {}
  /\ replay' = [g |-> gen, todo |-> dlq, now |-> 0]
  /\ UNCHANGED <<journal, cp, applied, dlq, worker, gen, host>>

\* The next entry, under handleMu.
ReplayHandle(e) ==
  /\ e \in replay.todo /\ replay.now = 0 /\ Unlocked(replay.g)
  /\ replay' = [replay EXCEPT !.todo = @ \ {e}, !.now = e]
  /\ UNCHANGED <<journal, cp, applied, dlq, worker, gen, host>>

\* Handle returned; the entry stays in the store, whatever the outcome.
ReplayHandled ==
  /\ replay.now # 0
  /\ replay' = [replay EXCEPT !.now = 0]
  /\ applied' = applied \cup {replay.now} \/ UNCHANGED applied
  /\ UNCHANGED <<journal, cp, dlq, worker, gen, host>>

\* DeadLetterStore.Delete: the caller drops an entry the read model holds.
DeleteReplayed(e) ==
  /\ e \in dlq \cap applied
  /\ dlq' = dlq \ {e}
  /\ UNCHANGED <<journal, cp, applied, worker, gen, host, replay>>

\* A repository saves an event.
AppendEvent ==
  /\ journal < MaxEvents
  /\ journal' = journal + 1
  /\ UNCHANGED <<cp, applied, dlq, worker, gen, host, replay>>

\* The process dies; the next one registers the projection again.
Crash ==
  /\ "crash" \in Fails /\ gen < MaxGen
  /\ gen' = gen + 1
  /\ worker' = [g \in Gen |->
       IF g <= gen THEN [NewWorker EXCEPT !.pc = "gone"] ELSE worker[g]]
  /\ host' = Host0 /\ replay' = NoReplay
  /\ UNCHANGED <<journal, cp, applied, dlq>>

-----------------------------------------------------------------------------

Work(g) ==
  \/ Top(g) \/ LoadCheckpoint(g) \/ Read(g) \/ NextEvent(g) \/ Handled(g)
  \/ SaveCheckpoint(g) \/ Subscribe(g) \/ Backoff(g) \/ Flush(g)

Live(g) ==
  \/ \E e \in Event : Deliver(g, e) \/ Callback(g, e)
  \/ CallbackHandled(g) \/ CallbackSave(g)

Operate ==
  \/ Start \/ Stop \/ StopRead \/ StopMark \/ ForceStop \/ Await \/ AwaitTimeout
  \/ ResetCheckpoint \/ ResetModel \/ ResetPurge

Replay ==
  \/ ReplayStart \/ ReplayHandled
  \/ \E e \in Event : ReplayHandle(e) \/ DeleteReplayed(e)

Next ==
  \/ \E g \in Gen : Work(g) \/ Unblock(g) \/ Live(g)
  \/ Operate \/ Replay \/ AppendEvent \/ Crash

Spec == Init /\ [][Next]_vars

\* Goroutines that are not blocked run, calls return, handleMu is granted in
\* turn (sync.Mutex hands it over to a goroutine that waited for 1 ms).
FairSpec ==
  /\ Spec
  /\ \A g \in Gen : SF_vars(Work(g)) /\ WF_vars(Live(g))
  /\ SF_vars(StopRead \/ StopMark \/ Await) /\ WF_vars(ReplayHandled)

-----------------------------------------------------------------------------
(* Properties *)

\* The projection is done with e: applied, parked, or not its business.
Done(e) == e \in applied \cup dlq \cup Ignored

\* Where a worker has a position in the journal.
Positioned == {"read", "event", "handle", "save", "subscribe", "blocked"}

\* "Checkpoint persistence -- survives restarts, no event loss"
\* (projectionhost/README.md): a worker never goes past an event that was
\* neither applied nor parked, whatever calls failed and whenever the process
\* died before, as long as no worker outlived the Stop that gave it up.
NoEventSkipped ==
  \A g \in Gen : worker[g].pc \in Positioned =>
    \A e \in 1..worker[g].after : Done(e)

\* The durable checkpoint never covers an event that is not done, in the
\* middle of a batch, of a crash or of a Reset ("never skipped events").
CheckpointCoversDone == \A e \in 1..cp : Done(e)

\* Who is in Handle through worker g: its drain, its callback, a replay.
InHandle(g) ==
  LET x == worker[g] IN
  {i \in {"drain", "live", "replay"} :
     \/ i = "drain" /\ x.pc = "handle"
     \/ i = "live" /\ x.cbPC = "handle"
     \/ i = "replay" /\ replay.now # 0 /\ replay.g = g}

\* "preventing concurrent projection.Handle calls" (worker_drain.go): from the
\* catch-up drain on, the projection is never in two calls of Handle at once.
OneHandleAtATime ==
  \A g \in Gen : worker[g].catchUp => \A i, j \in InHandle(g) : i = j

\* "The seenIDs ring prevents double-processing at the overlap": in a worker
\* that has not failed, no event goes through Handle again, by catch-up drain or
\* live callback, unless the ring evicted it or the save of its live checkpoint
\* failed.  (After a restart the initial drain runs, without handleMu, next to
\* the callbacks of the earlier registration.)
OverlapDeduplicated ==
  \A g \in Gen : LET x == worker[g] IN x.restarts = 0 =>
    /\ x.pc = "handle" /\ x.after + 1 \in applied => x.after + 1 \in x.redo
    /\ x.cbPC = "handle" /\ x.cb \in applied => x.cb \in x.redo

\* The catch-up drain closes the window between the initial drain and the
\* registration: a worker that went live without a failure or a stop leaves
\* nothing behind of what was in the journal when it registered.  (After either
\* it resumes from a checkpoint a live callback may have saved too far ahead.)
WindowClosed ==
  \A g \in Gen : LET x == worker[g] IN
    x.pc = "done" /\ x.next # <<>> /\ ~x.stop /\ x.restarts = 0 =>
      \A e \in 1..x.from : Done(e)

\* "waiting for in-flight events to complete" (Host.Stop): it comes back, even
\* without its timeout, unless the worker sits in a blocking subscription; the
\* operator, worker, live callback and replay never wait for each other in a
\* cycle.
StopReturns ==
  host.op \in {"stop", "mark", "await"} ~> host.op = "none" \/ worker[gen].pc = "blocked"

\* A worker with a restart budget does not restart for ever: it ends (caught up,
\* stopped, or failed for good) or sits in a blocking subscription.
WorkerSettles ==
  \A g \in Gen : MaxRestarts >= 0 /\ worker[g].pc = "top"
                   ~> worker[g].pc \in {"done", "gone", "blocked"}
=============================================================================
