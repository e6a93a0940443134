------------------------------ MODULE Delivery ------------------------------
(***************************************************************************)
(* What a consumer of a journal is promised ("at-least-once"): events are  *)
(* appended and processed, and the durable mark the next start resumes     *)
(* after only moves forward, over events that have been processed.         *)
(***************************************************************************)
EXTENDS Naturals, Sequences

CONSTANT Event

VARIABLES
  log,   \* the journal
  done,  \* the events that have been processed
  mark   \* the position up to which a restart skips

dvars == <<log, done, mark>>

DInit == log = <<>> /\ done = {} /\ mark = 0

Put == \E e \in Event : log' = Append(log, e) /\ UNCHANGED <<done, mark>>

Process == \E i \in 1..Len(log) : done' = done \cup {log[i]} /\ UNCHANGED <<log, mark>>

Advance ==
  /\ mark' \in mark..Len(log)
  /\ \A i \in 1..mark' : log[i] \in done
  /\ UNCHANGED <<log, done>>

DNext == Put \/ Process \/ Advance

DSpec == DInit /\ [][DNext]_dvars
=============================================================================
