----------------------------- MODULE TenantEvents -----------------------------
(***************************************************************************)
(* Events (events.rs) for one stream of one tenant: who owns the stream,   *)
(* the bounded channel events are dropped from when it is full, and the    *)
(* reporter that batches them.  What is kept of the events themselves is   *)
(* the account they add up to: opened by stream.created, closed by         *)
(* stream.completed or stream.errored, everything else in between.         *)
(***************************************************************************)
EXTENDS Naturals

CONSTANTS QueueSize,   \* events the channel holds (10 000)
          BatchSize    \* events that are posted at once (256)

ASSUME EventsAssumption == QueueSize \in Nat \ {0} /\ BatchSize \in Nat \ {0}

VARIABLES owner,     \* the owners map has an entry for this stream
          queued,    \* events in the channel
          buffered,  \* events the reporter holds
          account    \* "open", "closed", "wrong", or "excused" from being right

events == <<owner, queued, buffered, account>>

EventsInit ==
    /\ owner = FALSE
    /\ queued = 0
    /\ buffered = 0
    /\ account = "closed"

(* The account after one more event.                                       *)
Told(kind) ==
    CASE account \in {"wrong", "excused"}        -> account
      [] account = "closed" /\ kind = "created"  -> "open"
      [] account = "closed" /\ kind # "created"  -> "wrong"
      [] account = "open" /\ kind = "created"    -> "wrong"
      [] account = "open" /\ kind = "terminal"   -> "closed"
      [] account = "open" /\ kind = "other"      -> "open"

(* Mutation of Send: the channel takes everything.                         *)
SendUnbounded(kind, overlapping) ==
    /\ queued' = queued + 1
    /\ account' = IF overlapping THEN "excused" ELSE Told(kind)
    /\ UNCHANGED buffered

(* send: try_send, which drops the event when the channel is full.  The    *)
(* account need not add up then, nor when `overlapping` handlers report.   *)
Send(kind, overlapping) ==
    /\ queued' = IF queued < QueueSize THEN queued + 1 ELSE queued
    /\ account' = IF overlapping \/ queued = QueueSize THEN "excused" ELSE Told(kind)
    /\ UNCHANGED buffered

(* Mutation of Forgotten: a terminal leaves the owner on record.           *)
ForgottenNever == owner

(* forget, after a terminal.                                               *)
Forgotten == FALSE

Quiet(overlapping) ==
    /\ account' = IF overlapping THEN "excused" ELSE account
    /\ UNCHANGED <<queued, buffered>>

(* sub_connected, sub_disconnected, gap, and the first half of completed   *)
(* and errored: the event goes to the owner, if there is one.              *)
SendToOwner(kind, overlapping) ==
    /\ IF owner THEN Send(kind, overlapping) ELSE UNCHANGED <<queued, buffered, account>>
    /\ UNCHANGED owner

(* reporter: an event is taken, and a full batch posted.                   *)
Take ==
    /\ queued > 0
    /\ queued' = queued - 1
    /\ buffered' = IF buffered + 1 >= BatchSize THEN 0 ELSE buffered + 1
    /\ UNCHANGED <<owner, account>>

(* reporter, on its tick: whatever it holds is posted.                     *)
Flush ==
    /\ buffered > 0
    /\ buffered' = 0
    /\ UNCHANGED <<owner, queued, account>>
=============================================================================
