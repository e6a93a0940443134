---------------------------- MODULE EventStream ----------------------------
(***************************************************************************)
(* What an event store promises for the streams it keeps, without saying    *)
(* how a repository gets there: a stream is an append-only sequence, it     *)
(* grows by whole batches, and the versions of its events are their         *)
(* positions.  Repository.tla is shown to implement this specification.     *)
(***************************************************************************)
EXTENDS Naturals, Sequences

CONSTANTS Stream,   \* the stream references (type, id)
          Event     \* the events; each has a field ver, the version it claims

VARIABLE stream     \* the events of every stream, oldest first

\* The events of batch claim the versions that follow a history of length n.
Continues(batch, n) == \A i \in 1..Len(batch) : batch[i].ver = n + i

Init == stream = [s \in Stream |-> <<>>]

\* Save: s gains a batch at its end, all of it at once, and no other stream
\* and nothing already stored changes.
Save(s) ==
  LET batch == SubSeq(stream'[s], Len(stream[s]) + 1, Len(stream'[s])) IN
  /\ batch \in Seq(Event)
  /\ Continues(batch, Len(stream[s]))
  /\ stream' = [stream EXCEPT ![s] = @ \o batch]

Next == \E s \in Stream : Save(s)

Spec == Init /\ [][Next]_stream
=============================================================================
