------------------------------ MODULE CatchUp ------------------------------
(***************************************************************************)
(* watermill.CatchUpSubscriber over the in-process event bus: producers    *)
(* save an event in the journal and then publish it; a subscription        *)
(* registers with the bus, replays the journal from the durable            *)
(* checkpoint, and goes on with what the bus delivers.  Every message is   *)
(* forwarded, then its Ack is awaited, then the checkpoint is saved.       *)
(*                                                                         *)
(* An event is the rank of its ULID, 0 is the empty id.  The bus is the    *)
(* GoChannel of NewEventBus: one publish per topic at a time, which blocks *)
(* until every registered subscriber acked; a subscriber is registered     *)
(* until its context is cancelled.  The process may crash at any moment.   *)
(***************************************************************************)
EXTENDS Naturals, Sequences, Functions

CONSTANTS
  Producer,   \* goroutines that execute commands
  CloseIn,    \* the phases in which the application calls Close
  Faults,     \* what may go wrong
  BatchSize,  \* batchSize of replayPhase
  MaxEvents,  \* bound: events minted
  MaxFaults   \* bound: faults

ASSUME CatchUpAssumption ==
  /\ CloseIn \subseteq {"replay", "live"}
  /\ Faults \subseteq {"subscribe", "load", "read", "save", "nack", "cancel", "crash"}
  /\ BatchSize \in Nat \ {0} /\ MaxEvents \in Nat /\ MaxFaults \in Nat

VARIABLES
  journal,  \* the ids in the order of the journal
  minted,   \* the newest ULID
  prod,     \* per producer: its event and what it does with it
  bus,      \* closed; offer: the message the subscription may receive; owed:
            \* who has not acked the message being published; leak: a
            \* subscription nobody reads is still registered
  sub,      \* the subscription and its goroutine
  out,      \* messages the consumer has not finished with
  reply,    \* the consumer's answer to the message sub awaits
  cp,       \* the durable checkpoint
  handled,  \* the events the consumer processed
  closed,   \* closeCh is closed
  faults

vars == <<journal, minted, prod, bus, sub, out, reply, cp, handled, closed, faults>>

Event == 1..MaxEvents
Id == 0..MaxEvents

\* mark: replayWatermark; ctx: the context is cancelled; reg: registered with
\* the bus; live: the goroutine is in drainLive; last: (history) what it
\* delivered last.
Sub == [pc : {"off", "subscribe", "load", "read", "event", "await", "live"},
        cursor : Id, batch : Seq(Event), full : BOOLEAN, mark : Id, last : Id,
        live : BOOLEAN, ctx : BOOLEAN, reg : BOOLEAN]

TypeOK ==
  /\ journal \in Seq(Event) /\ IsInjective(journal) /\ minted \in Id
  /\ prod \in [Producer -> [pc : {"idle", "save", "publish", "wait"}, e : Id]]
  /\ bus \in [closed : BOOLEAN, leak : BOOLEAN, offer : Id, owed : SUBSET {"sub", "leak"}]
  /\ sub \in Sub
  /\ out \in Seq([e : Event, live : BOOLEAN])
  /\ reply \in {"none", "ack", "nack"}
  /\ cp \in {0} \cup Range(journal) /\ handled \subseteq Range(journal)
  /\ closed \in BOOLEAN /\ faults \in 0..MaxFaults

Idle == [pc |-> "idle", e |-> 0]
OpenBus == [closed |-> FALSE, leak |-> FALSE, offer |-> 0, owed |-> {}]
NoSub == [pc |-> "off", cursor |-> 0, batch |-> <<>>, full |-> FALSE, mark |-> 0,
          last |-> 0, live |-> FALSE, ctx |-> FALSE, reg |-> FALSE]

Init ==
  /\ journal = <<>> /\ minted = 0
  /\ prod = [p \in Producer |-> Idle]
  /\ bus = OpenBus /\ sub = NoSub /\ out = <<>> /\ reply = "none"
  /\ cp = 0 /\ handled = {} /\ closed = FALSE /\ faults = 0

-----------------------------------------------------------------------------
(* Helpers *)

Fault(f) == f \in Faults /\ faults < MaxFaults /\ faults' = faults + 1

\* Where the journal goes on after id.
Pos(id) == IF id = 0 THEN 0 ELSE CHOOSE i \in 1..Len(journal) : journal[i] = id

\* The goroutine returns and closes the output; the context is left as it is.
End(s) == [s EXCEPT !.pc = "off", !.cursor = 0, !.batch = <<>>, !.full = FALSE,
                    !.mark = 0, !.last = 0, !.live = FALSE]

Stopping == sub.ctx \/ closed

\* Forwarding e: the output channel has room.
Forward(s, e, live) ==
  /\ sub' = [s EXCEPT !.pc = "await", !.last = e]
  /\ out' = Append(out, [e |-> e, live |-> live])
  /\ reply' = "none"

-----------------------------------------------------------------------------
(* A producer: mint, save, publish *)

Mint(p) ==
  /\ prod[p].pc = "idle" /\ minted < MaxEvents
  /\ minted' = minted + 1
  /\ prod' = [prod EXCEPT ![p] = [pc |-> "save", e |-> minted + 1]]
  /\ UNCHANGED <<journal, bus, sub, out, reply, cp, handled, closed, faults>>

Save(p) ==
  /\ prod[p].pc = "save"
  /\ journal' = Append(journal, prod[p].e)
  /\ prod' = [prod EXCEPT ![p].pc = "publish"]
  /\ UNCHANGED <<minted, bus, sub, out, reply, cp, handled, closed, faults>>

\* Publish takes the lock of the topic and offers the message to whoever is
\* registered; on a closed bus it fails, and the event stays unpublished.
Publish(p) ==
  /\ prod[p].pc = "publish"
  /\ \A q \in Producer : prod[q].pc # "wait"
  /\ IF bus.closed
       THEN prod' = [prod EXCEPT ![p] = Idle] /\ UNCHANGED bus
       ELSE /\ prod' = [prod EXCEPT ![p].pc = "wait"]
            /\ bus' = [bus EXCEPT !.offer = IF sub.reg THEN prod[p].e ELSE 0,
                                  !.owed = {x \in {"sub", "leak"} :
                                              IF x = "sub" THEN sub.reg ELSE bus.leak}]
  /\ UNCHANGED <<journal, minted, sub, out, reply, cp, handled, closed, faults>>

\* Everybody acked.
Published(p) ==
  /\ prod[p].pc = "wait" /\ (bus.owed = {} \/ bus.closed)
  /\ prod' = [prod EXCEPT ![p] = Idle]
  /\ bus' = [bus EXCEPT !.offer = 0, !.owed = {}]
  /\ UNCHANGED <<journal, minted, sub, out, reply, cp, handled, closed, faults>>

-----------------------------------------------------------------------------
(* The goroutine of the subscription *)

\* runCatchUp: the bus first.
SubscribeLive ==
  /\ sub.pc = "subscribe"
  /\ \/ ~bus.closed /\ sub' = [sub EXCEPT !.pc = "load", !.reg = TRUE] /\ UNCHANGED faults
     \/ (Stopping \/ bus.closed) /\ sub' = End(sub) /\ UNCHANGED faults
     \/ Fault("subscribe") /\ sub' = End(sub)
  /\ UNCHANGED <<journal, minted, prod, bus, out, reply, cp, handled, closed>>

\* replayPhase: the checkpoint.
LoadCheckpoint ==
  /\ sub.pc = "load"
  /\ \/ sub' = [sub EXCEPT !.cursor = cp, !.pc = "read"] /\ UNCHANGED faults
     \/ sub.ctx /\ sub' = End(sub) /\ UNCHANGED faults
     \/ Fault("load") /\ sub' = End(sub)
  /\ UNCHANGED <<journal, minted, prod, bus, out, reply, cp, handled, closed>>

\* What replayPhase does when it sees the stop: a cancelled context ends
\* runCatchUp; the closed channel alone returns nil, and drainLive follows.
StopReplay ==
  \/ sub.ctx /\ sub' = End(sub)
  \/ closed /\ sub' = [sub EXCEPT !.pc = "live", !.live = TRUE, !.batch = <<>>]

\* replayPhase: the next batch, or the end of the replay.
ReadBatch ==
  LET from == Pos(sub.cursor)
      all == SubSeq(journal, from + 1, Len(journal))
      batch == IF Len(all) > BatchSize THEN SubSeq(all, 1, BatchSize) ELSE all IN
  /\ sub.pc = "read"
  /\ \/ StopReplay /\ UNCHANGED faults
     \/ /\ ~Stopping /\ UNCHANGED faults
        /\ sub' = IF batch = <<>>
                    THEN [sub EXCEPT !.pc = "live", !.live = TRUE]
                    ELSE [sub EXCEPT !.pc = "event", !.batch = batch,
                                     !.full = Len(batch) = BatchSize]
     \/ Fault("read") /\ sub' = End(sub)
  /\ UNCHANGED <<journal, minted, prod, bus, out, reply, cp, handled, closed>>

\* Mutant of ReplayEvent: the checkpoint is saved on handoff.
ReplayEventCheckpointed ==
  /\ sub.pc = "event"
  /\ \/ StopReplay /\ UNCHANGED <<out, reply, cp>>
     \/ ~Stopping /\ Forward(sub, Head(sub.batch), FALSE) /\ cp' = Head(sub.batch)
  /\ UNCHANGED <<journal, minted, prod, bus, handled, closed, faults>>

\* Mutant of ReplayEvent: the watermark is what was forwarded, acked or not.
ReplayEventMarked ==
  /\ sub.pc = "event"
  /\ \/ StopReplay /\ UNCHANGED <<out, reply>>
     \/ /\ ~Stopping
        /\ Forward([sub EXCEPT !.mark = Head(sub.batch)], Head(sub.batch), FALSE)
  /\ UNCHANGED <<journal, minted, prod, bus, cp, handled, closed, faults>>

\* replayPhase: forward the next event of the batch.
ReplayEvent ==
  /\ sub.pc = "event"
  /\ \/ StopReplay /\ UNCHANGED <<out, reply>>
     \/ ~Stopping /\ Forward(sub, Head(sub.batch), FALSE)
  /\ UNCHANGED <<journal, minted, prod, bus, cp, handled, closed, faults>>


\* The event of the replay was acked: on to the next one, the next batch, or
\* (after a batch that was not full) the live phase.
NextReplay(s) ==
  LET e == Head(s.batch)
      t == [s EXCEPT !.mark = e, !.batch = Tail(@)] IN
  IF t.batch # <<>> THEN [t EXCEPT !.pc = "event"]
  ELSE IF s.full THEN [t EXCEPT !.pc = "read", !.cursor = e]
  ELSE [t EXCEPT !.pc = "live", !.live = TRUE]

\* awaitAck saw the Ack: the checkpoint is saved, best-effort.
Acked ==
  /\ sub.pc = "await" /\ reply = "ack"
  /\ \/ cp' = sub.last /\ UNCHANGED faults
     \/ UNCHANGED cp /\ ((sub.ctx /\ UNCHANGED faults) \/ Fault("save"))
  /\ sub' = IF sub.live THEN [sub EXCEPT !.pc = "live"] ELSE NextReplay(sub)
  /\ reply' = "none"
  /\ UNCHANGED <<journal, minted, prod, bus, out, handled, closed>>

\* awaitAck saw the Nack.
Nacked ==
  /\ sub.pc = "await" /\ reply = "nack"
  /\ sub' = End(sub) /\ reply' = "none"
  /\ UNCHANGED <<journal, minted, prod, bus, out, cp, handled, closed, faults>>

\* awaitAck saw the stop; what was forwarded stays with the consumer.
Interrupted ==
  /\ sub.pc = "await"
  /\ IF sub.live THEN Stopping /\ sub' = End(sub) ELSE StopReplay
  /\ reply' = "none"
  /\ UNCHANGED <<journal, minted, prod, bus, out, cp, handled, closed, faults>>

\* Mutant of Suppressed: the last event of the replay is not covered.
SuppressedBelow(e) == sub.mark # 0 /\ e < sub.mark

\* drainLive: an event at or below the watermark is acked and dropped.
Suppressed(e) == sub.mark # 0 /\ e <= sub.mark

\* Mutant of ReceiveLive: a suppressed message is dropped without its Ack.
ReceiveLiveUnacked ==
  LET e == bus.offer IN
  /\ sub.pc = "live" /\ e # 0
  /\ bus' = [bus EXCEPT !.offer = 0]
  /\ \/ Suppressed(e) /\ UNCHANGED <<sub, out, reply>>
     \/ ~Suppressed(e) /\ Forward(sub, e, TRUE)
     \/ ~Suppressed(e) /\ Stopping /\ sub' = End(sub) /\ UNCHANGED <<out, reply>>
  /\ UNCHANGED <<journal, minted, prod, cp, handled, closed, faults>>

\* drainLive: receive; suppress or forward; or, once stopping, drop it.
ReceiveLive ==
  LET e == bus.offer IN
  /\ sub.pc = "live" /\ e # 0
  /\ \/ /\ Suppressed(e)
        /\ bus' = [bus EXCEPT !.offer = 0, !.owed = @ \ {"sub"}]
        /\ UNCHANGED <<sub, out, reply>>
     \/ /\ ~Suppressed(e)
        /\ bus' = [bus EXCEPT !.offer = 0]
        /\ \/ Forward(sub, e, TRUE)
           \/ Stopping /\ sub' = End(sub) /\ UNCHANGED <<out, reply>>
  /\ UNCHANGED <<journal, minted, prod, cp, handled, closed, faults>>

\* drainLive saw the stop.
StopLive ==
  /\ sub.pc = "live" /\ Stopping
  /\ sub' = End(sub)
  /\ UNCHANGED <<journal, minted, prod, bus, out, reply, cp, handled, closed, faults>>

\* The bus notices the cancelled context, and asks this subscriber no more.
Unregister ==
  /\ sub.reg /\ (sub.ctx \/ bus.closed)
  /\ sub' = [sub EXCEPT !.reg = FALSE]
  /\ bus' = [bus EXCEPT !.offer = 0, !.owed = @ \ {"sub"}]
  /\ UNCHANGED <<journal, minted, prod, out, reply, cp, handled, closed, faults>>

-----------------------------------------------------------------------------
(* The consumer, one message at a time *)

Awaited == Len(out) = 1 /\ sub.pc = "await"

ConsumerAck ==
  /\ out # <<>>
  /\ handled' = handled \cup {Head(out).e}
  /\ out' = Tail(out)
  /\ reply' = IF Awaited THEN "ack" ELSE reply
  /\ bus' = IF Head(out).live THEN [bus EXCEPT !.owed = @ \ {"sub"}] ELSE bus
  /\ UNCHANGED <<journal, minted, prod, sub, cp, closed, faults>>

ConsumerNack ==
  /\ out # <<>> /\ Fault("nack")
  /\ out' = Tail(out)
  /\ reply' = IF Awaited THEN "nack" ELSE reply
  /\ UNCHANGED <<journal, minted, prod, bus, sub, cp, handled, closed>>

-----------------------------------------------------------------------------
(* The application *)

\* Subscribe: again when the output was closed and drained.  A registration
\* whose context nobody cancelled stays with the bus.
Subscribe ==
  /\ sub.pc = "off" /\ ~closed /\ out = <<>>
  /\ sub' = [NoSub EXCEPT !.pc = "subscribe"]
  /\ bus' = IF sub.reg
              THEN [bus EXCEPT !.leak = TRUE, !.offer = 0,
                               !.owed = IF "sub" \in @ THEN {"leak"} ELSE @]
              ELSE bus
  /\ UNCHANGED <<journal, minted, prod, out, reply, cp, handled, closed, faults>>

\* The caller cancels the context of a subscription that ended, if it does:
\* runCatchUp leaves it as it is.
Release ==
  /\ sub.pc = "off" /\ sub.reg /\ ~sub.ctx
  /\ sub' = [sub EXCEPT !.ctx = TRUE]
  /\ UNCHANGED <<journal, minted, prod, bus, out, reply, cp, handled, closed, faults>>

\* The context is cancelled under a running subscription.
Cancel ==
  /\ sub.pc # "off" /\ ~sub.ctx /\ Fault("cancel")
  /\ sub' = [sub EXCEPT !.ctx = TRUE]
  /\ UNCHANGED <<journal, minted, prod, bus, out, reply, cp, handled, closed>>

\* Close: the signal ...
Close ==
  /\ ~closed /\ sub.pc # "off"
  /\ (IF sub.live THEN "live" ELSE "replay") \in CloseIn
  /\ closed' = TRUE
  /\ UNCHANGED <<journal, minted, prod, bus, sub, out, reply, cp, handled, faults>>

\* ... then the contexts and the bus.
CloseRest ==
  /\ closed /\ ~bus.closed
  /\ sub' = [sub EXCEPT !.ctx = TRUE]
  /\ bus' = [bus EXCEPT !.closed = TRUE]
  /\ UNCHANGED <<journal, minted, prod, out, reply, cp, handled, closed, faults>>

\* What a process that starts finds.
Fresh ==
  /\ prod' = [p \in Producer |-> Idle]
  /\ bus' = OpenBus /\ sub' = NoSub /\ out' = <<>> /\ reply' = "none"
  /\ closed' = FALSE
  /\ UNCHANGED <<journal, minted, cp, handled>>

\* The closed process exits when its work is done; the next one starts.
Restart ==
  /\ bus.closed /\ sub.pc = "off" /\ out = <<>>
  /\ \A p \in Producer : prod[p].pc = "idle"
  /\ Fresh /\ UNCHANGED faults

Crash == Fault("crash") /\ Fresh

-----------------------------------------------------------------------------

Produce(p) == Save(p) \/ Publish(p) \/ Published(p)

Goroutine ==
  \/ SubscribeLive \/ LoadCheckpoint \/ ReadBatch \/ ReplayEvent \/ Acked \/ Nacked
  \/ Interrupted \/ ReceiveLive \/ StopLive

Application == Subscribe \/ CloseRest \/ Restart

Next ==
  \/ \E p \in Producer : Mint(p) \/ Produce(p)
  \/ Goroutine \/ Unregister \/ ConsumerAck \/ ConsumerNack
  \/ Application \/ Release \/ Cancel \/ Close \/ Crash

Spec == Init /\ [][Next]_vars

\* Calls return, the consumer answers, and the application subscribes again
\* ("the projection restarts from the checkpoint"); nobody has to cancel the
\* context of a subscription that ended.
FairSpec ==
  /\ Spec
  /\ \A p \in Producer : WF_vars(Produce(p))
  /\ WF_vars(Goroutine) /\ WF_vars(Unregister) /\ WF_vars(ConsumerAck)
  /\ WF_vars(Application)
-----------------------------------------------------------------------------
(* Properties *)

\* The promise the checkpoint makes.
Promise == INSTANCE Delivery
  WITH log <- journal, done <- handled, mark <- Pos(cp)

\* "The checkpoint advances only after a message is ACKED by the consumer, so a
\* crash or Nack replays the event on restart (at-least-once)": through nacks,
\* failed calls, cancelled contexts, crashes and a Close in the live phase, the
\* checkpoint never goes back and never passes an event the consumer has not
\* processed.
ImplementsDelivery == Promise!DSpec

\* "Live events at or below the watermark were already covered by the replay":
\* the watermark covers nothing of the journal that was not processed, so what
\* drainLive suppresses is never lost.
WatermarkCovers ==
  \A i \in 1..Len(journal) : journal[i] <= sub.mark => journal[i] \in handled

\* Replay and live overlap, yet one subscription hands over every event once,
\* in order.
DeliveredInOrder ==
  [][sub.pc # "await" /\ sub'.pc = "await" => sub'.last > sub.last]_vars

\* "replay resumes from the checkpoint - which sits behind the suppressed event -
\* and delivers it": an event that was not processed, and that nobody is about
\* to publish, is one the next replay reads.
NothingLost ==
  \A i \in 1..Len(journal) :
    \/ journal[i] \in handled
    \/ i > Pos(cp)
    \/ \E p \in Producer : prod[p].e = journal[i]


\* A subscription that ended, by a Nack or a failed call, is registered with the
\* bus and nobody has cancelled its context: a publish waits for its Ack.
Abandoned == bus.leak \/ (sub.pc = "off" /\ sub.reg /\ ~sub.ctx)

\* A publish waits for the Ack of every subscriber: one that never returns waits
\* for an abandoned subscription, never for one that runs, was cancelled or closed.
PublishReturns ==
  \A p \in Producer : <>[](prod[p].pc = "wait") => <>[]Abandoned
=============================================================================
