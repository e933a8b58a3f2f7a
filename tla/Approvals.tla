------------------------------ MODULE Approvals ------------------------------
(***************************************************************************)
(* Human-approval gates (tlr/approvals.rs and its four routes).  A gate is *)
(* an event of the record, its state a fold over the record, and nothing   *)
(* is locked between reading the record and appending to it: a resolution  *)
(* and every expiry on read is a check in one transaction and an append in *)
(* another, interleaved here with everything else that writes to the run.  *)
(*                                                                         *)
(* events[i] is the event with seq i; run_started, seq 0, is left out.     *)
(* Only what the fold reads of an event is kept.  The wall clock is taken  *)
(* not to go back.                                                         *)
(***************************************************************************)
EXTENDS Naturals, Sequences, FiniteSets

CONSTANTS Agent,      \* callers that poll a gate (await_gate)
          Reviewer,   \* callers that poll the queue and resolve gates
          Erasable,   \* the fields redactions ask for, of name and metadata
          PageLimit,  \* events one read of the store returns at most (5000)
          MaxTime,    \* bound: the clock stops here, and so do expiry times
          MaxEvents,  \* bound: no gate or message beyond this sequence number,
                      \* and no redaction beyond the next
          None

Decision == {"approved", "rejected", "expired"}

ASSUME ApprovalsAssumption ==
    /\ Agent \cap Reviewer = {}
    /\ PageLimit \in Nat \ {0}
    /\ MaxTime \in Nat
    /\ MaxEvents \in Nat
    /\ Erasable \subseteq {"name", "metadata"}
    /\ None \notin Nat /\ None \notin Decision
    /\ None \notin {"approval_requested", "approval_resolved"}

VARIABLES events,   \* the record of the run
          sealed,
          now,      \* what now_ms() reads
          request,  \* the one request each caller has in flight
          told      \* decisions reported to a caller so far (history)

vars == <<events, sealed, now, request, told>>

Caller == Agent \cup Reviewer

-----------------------------------------------------------------------------
(* Events, and what an erased field leaves the fold to read: an unnamed    *)
(* event is not a gate event, and without metadata a request expires at 0  *)
(* and a resolution has no target.                                         *)

Event(name, expires_at, target_seq, decision) ==
    [name |-> name, expires_at |-> expires_at,
     target_seq |-> target_seq, decision |-> decision]

Other == Event(None, 0, None, None)
Requested(expires_at) == Event("approval_requested", expires_at, None, None)
Resolved(s, d) == Event("approval_resolved", 0, s, d)

Erased(e, fs) ==
    LET name == IF "name" \in fs THEN None ELSE e.name
    IN  IF "metadata" \in fs THEN Event(name, 0, None, None)
        ELSE [e EXCEPT !.name = name]

(* project: the gates of a page of events, the resolutions that name one,  *)
(* and its state, which the first of them decides.                         *)
Gates(es) == {s \in 1..Len(es) : es[s].name = "approval_requested"}

Resolutions(es, s) ==
    {i \in (s + 1)..Len(es) : /\ es[i].name = "approval_resolved"
                              /\ es[i].target_seq = s}

(* Mutation of State: the latest resolution counts.                        *)
StateLatest(es, s) ==
    LET rs == Resolutions(es, s)
    IN  IF rs = {} THEN "pending"
        ELSE es[CHOOSE i \in rs : \A j \in rs : i >= j].decision

State(es, s) ==
    LET rs == Resolutions(es, s)
    IN  IF rs = {} THEN "pending"
        ELSE es[CHOOSE i \in rs : \A j \in rs : i <= j].decision

(* What events(ns, id, 0, 5000) returns, event 0 being one of the 5000.    *)
Page == SubSeq(events, 1, IF Len(events) < PageLimit THEN Len(events)
                          ELSE PageLimit - 1)

(* Mutations of Lapsed: every pending gate lapses; the very instant of     *)
(* expiry does not count.                                                  *)
LapsedAny(es) == {s \in Gates(es) : State(es, s) = "pending"}
LapsedAfter(es) == {s \in Gates(es) : /\ State(es, s) = "pending"
                                      /\ es[s].expires_at < now}

Lapsed(es) == {s \in Gates(es) : /\ State(es, s) = "pending"
                                 /\ es[s].expires_at <= now}

First(seqs) == CHOOSE s \in seqs : \A t \in seqs : s <= t

-----------------------------------------------------------------------------
(* A request in flight: between which two awaits it is, the resolution it  *)
(* is about to write, the gates a poll has still to expire, and the events *)
(* the poll read first.                                                    *)
InFlight(pc, target, decision, lapsed, seen) ==
    [pc |-> pc, target |-> target, decision |-> decision,
     lapsed |-> lapsed, seen |-> seen]

Idle == InFlight("idle", None, None, {}, <<>>)

(* resolve, about to check the first gate a poll found lapsed.             *)
Expiring(lapsed) == InFlight("check", First(lapsed), "expired", lapsed, <<>>)

(* Where a request goes once its resolution is written: a reviewer's is    *)
(* answered, a poll expires the next gate or reads the record again.       *)
(* Mutation: the loop does not move on to the next gate.                   *)
AfterWriteSame(req) ==
    IF req.lapsed = {} THEN Idle
    ELSE [req EXCEPT !.pc = "check", !.lapsed = @ \ {req.target}]

AfterWrite(req) ==
    LET rest == req.lapsed \ {req.target}
    IN  IF req.lapsed = {} THEN Idle
        ELSE IF rest # {} THEN Expiring(rest)
        ELSE InFlight("reread", None, None, {}, <<>>)

(* The answer to a poll, from the events it ended up with.                 *)
Answer(a, es) ==
    /\ told' = told \cup {<<s, State(es, s)>> : s \in {s \in Gates(es) :
                                                State(es, s) # "pending"}}
    /\ request' = [request EXCEPT ![a] = Idle]

(* Mutation of MayResolve: the gate only has to exist.                     *)
MayResolveAny(s) == s \in Gates(Page)

MayResolve(s) == s \in Gates(Page) /\ State(Page, s) = "pending"

-----------------------------------------------------------------------------
Init ==
    /\ events = <<>>
    /\ sealed = FALSE
    /\ now = 0
    /\ request = [a \in Caller |-> Idle]
    /\ told = {}

(* The routes that write to the run in one transaction: append, opening a  *)
(* gate (any expiry: a client may send an absolute one), sealing, erasing. *)
AppendEvent(e) ==
    /\ ~sealed
    /\ Len(events) < MaxEvents
    /\ events' = Append(events, e)
    /\ UNCHANGED <<sealed, now, request, told>>

Seal ==
    /\ ~sealed
    /\ events' = Append(events, Other)
    /\ sealed' = TRUE
    /\ UNCHANGED <<now, request, told>>

Redact(s, fs) ==
    /\ ~sealed
    /\ Len(events) <= MaxEvents
    /\ events' = Append([events EXCEPT ![s] = Erased(@, fs)], Other)
    /\ UNCHANGED <<sealed, now, request, told>>

Tick ==
    /\ now < MaxTime
    /\ now' = now + 1
    /\ UNCHANGED <<events, sealed, request, told>>

(* resolve_approval arrives.                                               *)
Submit(r, s, d) ==
    /\ request[r] = Idle
    /\ request' = [request EXCEPT ![r] = InFlight("check", s, d, {}, <<>>)]
    /\ UNCHANGED <<events, sealed, now, told>>

(* get_approval and list_approvals, expire_then_read: the first read.      *)
Poll(a) ==
    /\ request[a] = Idle
    /\ request' = [request EXCEPT ![a] = InFlight("expire", None, None, {}, Page)]
    /\ UNCHANGED <<events, sealed, now, told>>

(* expire_lapsed_in: the clock is read after the events.                   *)
Expire(a) ==
    /\ request[a].pc = "expire"
    /\ LET lapsed == Lapsed(request[a].seen)
       IN  \/ lapsed = {} /\ Answer(a, request[a].seen)
           \/ /\ lapsed # {}
              /\ request' = [request EXCEPT ![a] = Expiring(lapsed)]
              /\ UNCHANGED told
    /\ UNCHANGED <<events, sealed, now>>

(* resolve: read the record and refuse what is unknown or decided; the     *)
(* error ends a poll too.                                                  *)
Check(a) ==
    /\ request[a].pc = "check"
    /\ request' = [request EXCEPT ![a] =
                     IF MayResolve(@.target) THEN [@ EXCEPT !.pc = "append"]
                     ELSE Idle]
    /\ UNCHANGED <<events, sealed, now, told>>

(* resolve: append the decision, which only a sealed run refuses.          *)
Write(a) ==
    /\ request[a].pc = "append"
    /\ \/ /\ sealed
          /\ request' = [request EXCEPT ![a] = Idle]
          /\ UNCHANGED events
       \/ /\ ~sealed
          /\ events' = Append(events, Resolved(request[a].target,
                                               request[a].decision))
          /\ request' = [request EXCEPT ![a] = AfterWrite(@)]
    /\ UNCHANGED <<sealed, now, told>>

(* expire_then_read: the second read, after something was expired.         *)
Reread(a) ==
    /\ request[a].pc = "reread"
    /\ Answer(a, Page)
    /\ UNCHANGED <<events, sealed, now>>

Next ==
    \/ AppendEvent(Other)
    \/ \E expires_at \in 0..MaxTime : AppendEvent(Requested(expires_at))
    \/ Seal
    \/ \E s \in 1..Len(events), fs \in (SUBSET Erasable) \ {{}} : Redact(s, fs)
    \/ Tick
    \/ \E r \in Reviewer, s \in 1..Len(events), d \in Decision \ {"expired"} :
          Submit(r, s, d)
    \/ \E a \in Caller : Poll(a)
    \/ \E a \in Caller : Expire(a) \/ Check(a) \/ Write(a) \/ Reread(a)

Spec == Init /\ [][Next]_vars

(* The clock runs, the runtime keeps polling the handlers it has started,  *)
(* and every agent keeps asking about its gate: "an agent waiting on       *)
(* gate() polls this path".                                                *)
Fairness ==
    /\ WF_vars(Tick)
    /\ \A a \in Agent : WF_vars(Poll(a))
    /\ \A a \in Caller : WF_vars(Expire(a) \/ Check(a) \/ Write(a) \/ Reread(a))

FairSpec == Spec /\ Fairness

-----------------------------------------------------------------------------
(* Shapes, and where in a handler which locals are live.                   *)
TypeOK ==
    /\ \A i \in 1..Len(events) :
          /\ events[i].name \in {None, "approval_requested", "approval_resolved"}
          /\ events[i].expires_at \in 0..MaxTime
    /\ sealed \in BOOLEAN
    /\ now \in 0..MaxTime
    /\ \A a \in Caller :
          LET req == request[a]
          IN  /\ req.pc \in {"idle", "expire", "check", "append", "reread"}
              /\ req.pc \in {"check", "append"} =>
                    /\ req.target \in 1..Len(events)
                    /\ req.decision = "expired" <=> req.lapsed # {}
                    /\ req.lapsed # {} => req.target \in req.lapsed
              /\ a \in Agent /\ req.pc = "append" => req.decision = "expired"

(* A decision a caller was told stands: whatever raced it, whatever is     *)
(* appended later, the record goes on showing that decision for that gate, *)
(* as long as no resolution of the run has lost its target to a redaction. *)
AnswersStand ==
    \A answer \in told :
        \/ /\ answer[1] \in Gates(events)
           /\ State(events, answer[1]) = answer[2]
        \/ \E i \in 1..Len(events) : /\ events[i].name = "approval_resolved"
                                     /\ events[i].target_seq = None

(* The server writes `expired` only for a gate whose time is really up,    *)
(* although it decides on events it read before it looked at the clock.    *)
ExpiredInTime ==
    \A s \in Gates(events) :
        State(events, s) = "expired" => events[s].expires_at <= now

(* The check is not atomic with the append, so a gate can be resolved more *)
(* than once; but only by requests that were all past their check when the *)
(* first resolution landed, so at most once for every caller.              *)
OnlyRacesResolveTwice ==
    \A s \in Gates(events) :
        Cardinality(Resolutions(events, s)) <= Cardinality(Caller)

(* No gate stays open for ever on a run that is not sealed: a decision     *)
(* comes, or the polling agent finds it lapsed and has it recorded.        *)
Pending(s) == s \in Gates(events) /\ State(events, s) = "pending"

GatesClose == \A s \in 1..MaxEvents : Pending(s) ~> (~Pending(s) \/ sealed)

-----------------------------------------------------------------------------
(* Claims the code does not keep.                                          *)

(* spec/tlr-1.md: "A server MUST reject a second resolution of the same    *)
(* target_seq."                                                            *)
SecondResolutionRejected ==
    \A s \in Gates(events) : Cardinality(Resolutions(events, s)) <= 1

(* approvals.rs, of a later resolution: "it cannot overwrite the decision  *)
(* that landed first."                                                     *)
DecisionsAreFinal ==
    \A answer \in told : State(events, answer[1]) = answer[2]
=============================================================================
