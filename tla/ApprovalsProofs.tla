---------------------------- MODULE ApprovalsProofs ----------------------------
(***************************************************************************)
(* Proofs about Approvals, for any number of agents and reviewers, any     *)
(* page size, and records and clocks of any length.                        *)
(***************************************************************************)
EXTENDS Approvals, FiniteSetTheorems, WellFoundedInduction, TLAPS

EventSet == [name : {None, "approval_requested", "approval_resolved"},
             expires_at : 0..MaxTime,
             target_seq : Nat \cup {None},
             decision : Decision \cup {None}]

InFlightSet == [pc : {"idle", "expire", "check", "append", "reread"},
                target : Nat \cup {None}, decision : Decision \cup {None},
                lapsed : SUBSET Nat, seen : Seq(EventSet)]

Shapes ==
    /\ events \in Seq(EventSet)
    /\ sealed \in BOOLEAN
    /\ now \in 0..MaxTime
    /\ request \in [Caller -> InFlightSet]

(* A resolution points back in the record, unless it lost its target.      *)
PointsBack == \A i \in 1..Len(events) :
                 events[i].target_seq # None => events[i].target_seq \in 1..(i - 1)

(* Whatever was recorded as expired was due; erasing only brings the time  *)
(* forward.                                                                *)
ExpiredDue ==
    \A i \in 1..Len(events) :
        events[i].decision = "expired" /\ events[i].target_seq # None
            => events[events[i].target_seq].expires_at <= now

(* What a handler that is about to resolve holds.                          *)
Due(s, es, t) == s \in 1..Len(es) /\ es[s].expires_at <= t

ResolvingOK(req, es, t) ==
    req.pc \in {"check", "append"} =>
       /\ req.target \in 1..Len(es)
       /\ req.decision \in Decision
       /\ req.decision = "expired" <=> req.lapsed # {}
       /\ req.lapsed # {} => req.target \in req.lapsed
       /\ \A s \in req.lapsed : Due(s, es, t)

(* The events a poll has read are the record's, as it was then.            *)
SeenOK(req, es) ==
    /\ Len(req.seen) <= Len(es)
    /\ \A s \in 1..Len(req.seen) : es[s].expires_at <= req.seen[s].expires_at

RequestOK(req, es, t) == ResolvingOK(req, es, t) /\ SeenOK(req, es)

Requests ==
    /\ \A a \in Caller : RequestOK(request[a], events, now)
    /\ \A a \in Agent : request[a].pc \in {"check", "append"}
                           => request[a].decision = "expired"

IInv == Shapes /\ PointsBack /\ ExpiredDue /\ Requests

-----------------------------------------------------------------------------
(* None is the absence of a decision.                                      *)
LEMMA NoneIsNoDecision == None # "expired"
BY ApprovalsAssumption DEF Decision

(* A non-empty set of sequence numbers has a first one.                    *)
LEMMA FirstExists ==
    ASSUME NEW S \in SUBSET Nat, S # {}
    PROVE  \E s \in S : \A t \in S : s <= t
<1> DEFINE R == OpToRel(<, Nat)
<1>1. \A t, s \in Nat : t < s => <<t, s>> \in R
  BY DEF OpToRel
<1>2. IsWellFoundedOn(R, Nat)
  BY NatLessThanWellFounded
<1> HIDE DEF R
<1>3. PICK s \in S : \A t \in S : ~(<<t, s>> \in R)
  BY <1>2, WFMin
<1>4. ASSUME NEW t \in S
      PROVE  s <= t
  <2>1. ~(t < s)
    BY <1>1, <1>3
  <2>2. s \in Nat /\ t \in Nat
    OBVIOUS
  <2>3. QED BY <2>1, <2>2
<1>5. QED BY <1>4

(* First picks it.                                                         *)
LEMMA FirstIn ==
    ASSUME NEW S \in SUBSET Nat, S # {}
    PROVE  First(S) \in S /\ \A t \in S : First(S) <= t
BY FirstExists DEF First

(* The state of a gate with resolutions is what the first of them decided. *)
LEMMA StateFirst ==
    ASSUME NEW es, NEW s \in Nat, Len(es) \in Nat, Resolutions(es, s) # {}
    PROVE  \E m \in Resolutions(es, s) :
              /\ \A j \in Resolutions(es, s) : m <= j
              /\ State(es, s) = es[m].decision
<1>1. Resolutions(es, s) \in SUBSET Nat
  BY DEF Resolutions
<1> DEFINE m == CHOOSE i \in Resolutions(es, s) :
                   \A j \in Resolutions(es, s) : i <= j
<1>2. m \in Resolutions(es, s) /\ \A j \in Resolutions(es, s) : m <= j
  BY <1>1, FirstExists
<1>3. State(es, s) = es[m].decision
  BY DEF State
<1> HIDE DEF m
<1>4. QED BY <1>2, <1>3

(* And whichever resolution comes first decides.                           *)
LEMMA FirstDecides ==
    ASSUME NEW es, NEW s \in Nat, Len(es) \in Nat, NEW m \in Resolutions(es, s),
           \A j \in Resolutions(es, s) : m <= j
    PROVE  State(es, s) = es[m].decision
<1>1. PICK n \in Resolutions(es, s) :
         /\ \A j \in Resolutions(es, s) : n <= j
         /\ State(es, s) = es[n].decision
  BY StateFirst
<1>2. m \in Nat /\ n \in Nat
  BY DEF Resolutions
<1>3. n = m
  BY <1>1, <1>2
<1>4. QED BY <1>1, <1>3

(* A read returns a prefix of the record.                                  *)
LEMMA PageIsPrefix ==
    ASSUME events \in Seq(EventSet)
    PROVE  /\ Page \in Seq(EventSet)
           /\ Len(Page) \in Nat /\ Len(Page) <= Len(events)
           /\ \A i \in 1..Len(Page) : Page[i] = events[i]
<1> DEFINE k == IF Len(events) < PageLimit THEN Len(events) ELSE PageLimit - 1
<1>1. k \in 0..Len(events) /\ Len(events) \in Nat
  BY ApprovalsAssumption
<1>2. Page = SubSeq(events, 1, k)
  BY DEF Page
<1> HIDE DEF k
<1>3. QED BY <1>1, <1>2

-----------------------------------------------------------------------------
(* How the record changes.                                                 *)

(* es is the record up to erased fields: a time can only come forward, a   *)
(* target and a decision can only be lost.                                 *)
Faded(es) ==
    /\ es \in Seq(EventSet)
    /\ Len(es) = Len(events)
    /\ \A i \in 1..Len(events) :
          /\ es[i].expires_at <= events[i].expires_at
          /\ es[i].target_seq \in {events[i].target_seq, None}
          /\ es[i].decision \in {events[i].decision, None}

(* One event is added to a record that is the old one up to erased fields; *)
(* a resolution is of an event there is, and an expiry is due.             *)
Grows(es, e) ==
    /\ Faded(es)
    /\ e \in EventSet
    /\ e.target_seq # None => /\ e.target_seq \in 1..Len(events)
                              /\ e.decision = "expired" =>
                                    Due(e.target_seq, events, now)
    /\ events' = Append(es, e)

(* Nothing is added, or one event is; the clock does not go back.          *)
Moves == /\ UNCHANGED events \/ \E es, e : Grows(es, e)
         /\ now <= now' /\ now' \in 0..MaxTime

(* What was recorded as expired stays due, and expiry times only come      *)
(* forward.                                                                *)
LEMMA MovesKeepRecord ==
    ASSUME Shapes, PointsBack, ExpiredDue, Moves
    PROVE  /\ events' \in Seq(EventSet)
           /\ PointsBack' /\ ExpiredDue'
           /\ Len(events) \in Nat /\ Len(events') \in Nat
           /\ Len(events) <= Len(events')
           /\ \A i \in 1..Len(events) :
                 /\ events'[i].expires_at <= events[i].expires_at
                 /\ events'[i].expires_at \in Nat /\ events[i].expires_at \in Nat
<1>1. now \in Nat /\ now' \in Nat /\ now <= now' /\ MaxTime \in Nat
  BY ApprovalsAssumption DEF Shapes, Moves
<1>2. /\ events \in Seq(EventSet) /\ Len(events) \in Nat
      /\ \A i \in 1..Len(events) : events[i] \in EventSet
  BY DEF Shapes
<1>3. \A e \in EventSet : e.expires_at \in Nat
  BY <1>1 DEF EventSet
<1>4. CASE UNCHANGED events
  <2>1. PointsBack'
    BY <1>4 DEF PointsBack
  <2>2. ExpiredDue'
    <3>1. ASSUME NEW i \in 1..Len(events), events[i].decision = "expired",
                 events[i].target_seq # None
          PROVE  events[events[i].target_seq].expires_at <= now'
      <4>1. events[i].target_seq \in 1..Len(events)
        BY <1>2, <3>1 DEF PointsBack
      <4>2. events[events[i].target_seq].expires_at \in Nat
        BY <1>2, <1>3, <4>1
      <4>3. events[events[i].target_seq].expires_at <= now
        BY <3>1 DEF ExpiredDue
      <4>4. QED BY <1>1, <4>2, <4>3
    <3>2. QED BY <1>4, <3>1 DEF ExpiredDue
  <2>3. \A i \in 1..Len(events) : events[i].expires_at \in Nat
    BY <1>2, <1>3
  <2>4. QED BY <1>2, <1>4, <2>1, <2>2, <2>3
<1>5. ASSUME NEW es, NEW e, Grows(es, e)
      PROVE  /\ events' \in Seq(EventSet)
             /\ PointsBack' /\ ExpiredDue'
             /\ Len(events') = Len(events) + 1
             /\ \A i \in 1..Len(events) :
                   /\ events'[i].expires_at <= events[i].expires_at
                   /\ events'[i].expires_at \in Nat
                   /\ events[i].expires_at \in Nat
  <2>1. /\ es \in Seq(EventSet) /\ Len(es) = Len(events) /\ e \in EventSet
        /\ events' = Append(es, e)
    BY <1>5 DEF Grows, Faded
  <2>2. /\ events' \in Seq(EventSet) /\ Len(events') = Len(events) + 1
        /\ \A i \in 1..Len(events) : events'[i] = es[i] /\ es[i] \in EventSet
        /\ events'[Len(events) + 1] = e
    BY <1>2, <2>1
  <2>3. \A i \in 1..Len(events) :
           /\ events'[i].expires_at <= events[i].expires_at
           /\ events'[i].expires_at \in Nat /\ events[i].expires_at \in Nat
           /\ events'[i].target_seq \in {events[i].target_seq, None}
           /\ events'[i].decision \in {events[i].decision, None}
    BY <1>2, <1>3, <1>5, <2>2 DEF Grows, Faded
  <2>4. 1..Len(events') = 1..Len(events) \cup {Len(events) + 1}
    BY <1>2, <2>2
  <2>5. ASSUME NEW i \in 1..Len(events'), events'[i].target_seq # None
        PROVE  /\ events'[i].target_seq \in 1..(i - 1)
               /\ events'[i].target_seq \in 1..Len(events)
               /\ events'[i].decision = "expired" =>
                     events[events'[i].target_seq].expires_at <= now
    <3>1. CASE i \in 1..Len(events)
      <4>1. events'[i].target_seq = events[i].target_seq
        BY <2>3, <2>5, <3>1
      <4>2. events[i].target_seq \in 1..(i - 1)
        BY <2>5, <3>1, <4>1 DEF PointsBack
      <4>3. events[i].target_seq \in 1..Len(events)
        BY <1>2, <3>1, <4>2
      <4>4. ASSUME events'[i].decision = "expired"
            PROVE  events[events'[i].target_seq].expires_at <= now
        <5>1. events[i].decision = "expired"
          BY <2>3, <3>1, <4>4, NoneIsNoDecision
        <5>2. QED BY <2>5, <3>1, <4>1, <5>1 DEF ExpiredDue
      <4>5. QED BY <4>1, <4>2, <4>3, <4>4
    <3>2. CASE i = Len(events) + 1
      <4>1. /\ e.target_seq # None /\ events'[i] = e
            /\ i - 1 = Len(events)
        BY <1>2, <2>2, <2>5, <3>2
      <4>2. QED BY <1>5, <4>1 DEF Grows, Due
    <3>3. QED BY <2>4, <3>1, <3>2
  <2>6. PointsBack'
    BY <2>5 DEF PointsBack
  <2>7. ExpiredDue'
    <3>1. ASSUME NEW i \in 1..Len(events'), events'[i].decision = "expired",
                 events'[i].target_seq # None
          PROVE  events'[events'[i].target_seq].expires_at <= now'
      <4>1. /\ events'[i].target_seq \in 1..Len(events)
            /\ events[events'[i].target_seq].expires_at <= now
        BY <2>5, <3>1
      <4>2. /\ events'[events'[i].target_seq].expires_at
                  <= events[events'[i].target_seq].expires_at
            /\ events'[events'[i].target_seq].expires_at \in Nat
            /\ events[events'[i].target_seq].expires_at \in Nat
        BY <2>3, <4>1
      <4>3. QED BY <1>1, <4>1, <4>2
    <3>2. QED BY <3>1 DEF ExpiredDue
  <2>8. QED BY <2>2, <2>3, <2>6, <2>7
<1>6. QED BY <1>2, <1>4, <1>5 DEF Moves

(* A request that waits stays consistent, whatever is recorded meanwhile.  *)
LEMMA RequestStays ==
    ASSUME Shapes, PointsBack, ExpiredDue, Moves, NEW req \in InFlightSet,
           RequestOK(req, events, now)
    PROVE  RequestOK(req, events', now')
<1>1. /\ Len(events) \in Nat /\ Len(events') \in Nat
      /\ Len(events) <= Len(events')
      /\ \A i \in 1..Len(events) :
            /\ events'[i].expires_at <= events[i].expires_at
            /\ events'[i].expires_at \in Nat /\ events[i].expires_at \in Nat
  BY MovesKeepRecord
<1>2. now \in Nat /\ now' \in Nat /\ now <= now' /\ MaxTime \in Nat
  BY ApprovalsAssumption DEF Shapes, Moves
<1>3. 1..Len(events) \subseteq 1..Len(events')
  BY <1>1
<1>4. ASSUME NEW s, Due(s, events, now)
      PROVE  Due(s, events', now')
  BY <1>1, <1>2, <1>3, <1>4 DEF Due
<1>5. ResolvingOK(req, events', now')
  BY <1>3, <1>4 DEF RequestOK, ResolvingOK
<1>6. SeenOK(req, events')
  <2>1. req.seen \in Seq(EventSet) /\ Len(req.seen) \in Nat
    BY DEF InFlightSet
  <2>2. Len(req.seen) <= Len(events')
    BY <1>1, <2>1 DEF RequestOK, SeenOK
  <2>3. ASSUME NEW s \in 1..Len(req.seen)
        PROVE  events'[s].expires_at <= req.seen[s].expires_at
    <3>1. /\ s \in 1..Len(events)
          /\ events[s].expires_at <= req.seen[s].expires_at
      BY <1>1, <2>1 DEF RequestOK, SeenOK
    <3>2. req.seen[s].expires_at \in Nat
      <4>1. req.seen[s] \in EventSet
        BY <2>1
      <4>2. QED BY <1>2, <4>1 DEF EventSet
    <3>3. QED BY <1>1, <3>1, <3>2
  <2>4. QED BY <2>2, <2>3 DEF SeenOK
<1>7. QED BY <1>5, <1>6 DEF RequestOK

(* What every step has to show: how the record and the clock move, and     *)
(* that the one request that moves ends up at a consistent place.          *)
RequestMoves(a) ==
    /\ request' \in [Caller -> InFlightSet]
    /\ \A b \in Caller \ {a} : request'[b] = request[b]
    /\ RequestOK(request'[a], events', now')
    /\ a \in Agent /\ request'[a].pc \in {"check", "append"}
          => request'[a].decision = "expired"

Step == /\ Moves /\ sealed' \in BOOLEAN
        /\ UNCHANGED request \/ \E a \in Caller : RequestMoves(a)

(* Such a step keeps the invariant.                                        *)
LEMMA StepKeepsInv ==
    ASSUME IInv, Step
    PROVE  IInv'
<1>1. Shapes /\ PointsBack /\ ExpiredDue /\ Requests /\ Moves
  BY DEF IInv, Step
<1>2. request' \in [Caller -> InFlightSet]
  BY <1>1 DEF Step, RequestMoves, Shapes
<1>3. Shapes' /\ PointsBack' /\ ExpiredDue'
  BY <1>1, <1>2, MovesKeepRecord DEF Step, Moves, Shapes
<1>4. \A b \in Caller : RequestOK(request[b], events', now')
  BY <1>1, RequestStays DEF Shapes, Requests
<1>5. Requests'
  <2>1. CASE UNCHANGED request
    <3>1. \A b \in Caller : RequestOK(request'[b], events', now')
      BY <1>4, <2>1
    <3>2. \A b \in Agent : request'[b].pc \in {"check", "append"}
                              => request'[b].decision = "expired"
      BY <1>1, <2>1 DEF Requests
    <3>3. QED BY <3>1, <3>2 DEF Requests
  <2>2. ASSUME NEW a \in Caller, RequestMoves(a)
        PROVE  Requests'
    <3>1. \A b \in Caller : RequestOK(request'[b], events', now')
      BY <1>4, <2>2 DEF RequestMoves
    <3>2. \A b \in Agent : request'[b].pc \in {"check", "append"}
                              => request'[b].decision = "expired"
      BY <1>1, <2>2 DEF RequestMoves, Requests, Caller
    <3>3. QED BY <3>1, <3>2 DEF Requests
  <2>3. QED BY <2>1, <2>2 DEF Step
<1>6. QED BY <1>3, <1>5 DEF IInv

-----------------------------------------------------------------------------
(* The operations.                                                         *)

(* A run without events, and nobody asking.                                *)
LEMMA InitInv == Init => IInv
<1> SUFFICES ASSUME Init PROVE IInv
  OBVIOUS
<1>1. /\ events \in Seq(EventSet) /\ Len(events) = 0 /\ 1..Len(events) = {}
      /\ \A a \in Caller : request[a] = Idle
      /\ now = 0
  BY DEF Init
<1>2. /\ Idle \in InFlightSet
      /\ Idle.pc = "idle" /\ Idle.seen = <<>>
  BY DEF Idle, InFlight, InFlightSet
<1>3. now \in 0..MaxTime /\ request \in [Caller -> InFlightSet]
  BY <1>1, <1>2, ApprovalsAssumption DEF Init
<1>4. sealed \in BOOLEAN
  BY DEF Init
<1>5. Shapes /\ PointsBack /\ ExpiredDue
  BY <1>1, <1>3, <1>4 DEF Shapes, PointsBack, ExpiredDue
<1>6. RequestOK(Idle, events, now)
  <2>1. Len(<<>>) = 0 /\ 1..0 = {}
    OBVIOUS
  <2>2. QED BY <1>1, <1>2, <2>1 DEF RequestOK, ResolvingOK, SeenOK
<1>7. Requests
  BY <1>1, <1>2, <1>6 DEF Requests, Caller
<1>8. QED BY <1>5, <1>7 DEF IInv

(* The record is what it is up to no erased field at all.                  *)
LEMMA FadedSame ==
    ASSUME Shapes
    PROVE  Faded(events)
<1>1. /\ events \in Seq(EventSet) /\ MaxTime \in Nat
      /\ \A i \in 1..Len(events) : events[i] \in EventSet
  BY ApprovalsAssumption DEF Shapes
<1>2. \A e \in EventSet : e.expires_at <= e.expires_at
  BY <1>1 DEF EventSet
<1>3. QED BY <1>1, <1>2 DEF Faded

(* Erasing fields of an event.                                             *)
LEMMA ErasedEvent ==
    ASSUME NEW e \in EventSet, NEW fs
    PROVE  /\ Erased(e, fs) \in EventSet
           /\ Erased(e, fs).expires_at <= e.expires_at
           /\ Erased(e, fs).target_seq \in {e.target_seq, None}
           /\ Erased(e, fs).decision \in {e.decision, None}
           /\ "name" \notin fs => Erased(e, fs).name = e.name
<1> DEFINE name == IF "name" \in fs THEN None ELSE e.name
<1>1. /\ e.name \in {None, "approval_requested", "approval_resolved"}
      /\ e.expires_at \in 0..MaxTime /\ MaxTime \in Nat
      /\ e.target_seq \in Nat \cup {None} /\ e.decision \in Decision \cup {None}
  BY ApprovalsAssumption DEF EventSet
<1>2. name \in {None, "approval_requested", "approval_resolved"}
  BY <1>1
<1>3. /\ e.expires_at <= e.expires_at /\ 0 <= e.expires_at
      /\ 0 \in 0..MaxTime
  BY <1>1
<1> HIDE DEF name
<1>4. CASE "metadata" \in fs
  <2>1. Erased(e, fs) = [name |-> name, expires_at |-> 0, target_seq |-> None,
                         decision |-> None]
    BY <1>4 DEF Erased, Event, name
  <2>2. QED BY <1>1, <1>2, <1>3, <2>1 DEF EventSet, name
<1>5. CASE "metadata" \notin fs
  <2>1. Erased(e, fs) = [e EXCEPT !.name = name]
    BY <1>5 DEF Erased, name
  <2>2. QED BY <1>1, <1>2, <1>3, <2>1 DEF EventSet, name
<1>6. QED BY <1>4, <1>5

(* The routes that write an event which resolves nothing.                  *)
LEMMA RecordStep ==
    ASSUME IInv, NEW es, NEW e \in {Other} \cup {Requested(t) : t \in 0..MaxTime},
           Faded(es), events' = Append(es, e),
           UNCHANGED <<now, request>>, sealed' \in BOOLEAN
    PROVE  Step
<1>1. MaxTime \in Nat /\ now \in 0..MaxTime
  BY ApprovalsAssumption DEF IInv, Shapes
<1>2. e \in EventSet /\ e.target_seq = None
  BY <1>1 DEF EventSet, Other, Requested, Event
<1>3. Grows(es, e)
  BY <1>2 DEF Grows
<1>4. QED BY <1>1, <1>3 DEF Step, Moves

(* Appending, opening a gate and sealing leave what is written alone.      *)
LEMMA AppendStep ==
    ASSUME IInv, \/ AppendEvent(Other)
                 \/ \E t \in 0..MaxTime : AppendEvent(Requested(t))
                 \/ Seal
    PROVE  Step
<1>1. Faded(events) /\ sealed \in BOOLEAN
  BY FadedSame DEF IInv, Shapes
<1>2. PICK e \in {Other} \cup {Requested(t) : t \in 0..MaxTime} :
         /\ events' = Append(events, e)
         /\ UNCHANGED <<now, request>> /\ sealed' \in {sealed, TRUE}
  BY DEF AppendEvent, Seal
<1>3. sealed' \in BOOLEAN
  BY <1>1, <1>2
<1>4. QED BY <1>1, <1>2, <1>3, RecordStep

(* Redaction erases fields of one event, and appends the redaction.        *)
LEMMA RedactFades ==
    ASSUME Shapes, NEW s \in 1..Len(events), NEW fs
    PROVE  /\ Faded([events EXCEPT ![s] = Erased(@, fs)])
           /\ \A i \in 1..Len(events) :
                 [events EXCEPT ![s] = Erased(@, fs)][i]
                    = IF i = s THEN Erased(events[s], fs) ELSE events[i]
<1> DEFINE e == Erased(events[s], fs)
           es == [events EXCEPT ![s] = e]
<1>1. /\ events \in Seq(EventSet) /\ events[s] \in EventSet
      /\ \A i \in 1..Len(events) : events[i] \in EventSet
  BY DEF Shapes
<1>2. /\ e \in EventSet /\ e.expires_at <= events[s].expires_at
      /\ e.target_seq \in {events[s].target_seq, None}
      /\ e.decision \in {events[s].decision, None}
  BY <1>1, ErasedEvent
<1> HIDE DEF e
<1>3. /\ es \in Seq(EventSet) /\ Len(es) = Len(events)
      /\ \A i \in 1..Len(events) : es[i] = IF i = s THEN e ELSE events[i]
  BY <1>1, <1>2
<1>4. Faded(events)
  BY FadedSame
<1> HIDE DEF es
<1>5. Faded(es)
  BY <1>2, <1>3, <1>4 DEF Faded
<1>6. QED BY <1>3, <1>5 DEF e, es

(* Redaction moves the record as any other write.                          *)
LEMMA RedactStep ==
    ASSUME IInv, NEW s \in 1..Len(events), NEW fs, Redact(s, fs)
    PROVE  Step
<1>1. Faded([events EXCEPT ![s] = Erased(@, fs)]) /\ sealed \in BOOLEAN
  BY RedactFades DEF IInv, Shapes
<1>2. QED BY <1>1, RecordStep DEF Redact

(* The clock advances.                                                     *)
LEMMA TickStep ==
    ASSUME IInv, Tick
    PROVE  Step
<1>1. now \in 0..MaxTime /\ MaxTime \in Nat /\ sealed \in BOOLEAN
  BY ApprovalsAssumption DEF IInv, Shapes
<1>2. now <= now' /\ now' \in 0..MaxTime
  BY <1>1 DEF Tick
<1>3. QED BY <1>1, <1>2 DEF Tick, Step, Moves

(* A request that is put at a consistent place, and nothing else.          *)
LEMMA RequestStep ==
    ASSUME IInv, NEW a \in Caller, NEW req \in InFlightSet,
           request' = [request EXCEPT ![a] = req],
           RequestOK(req, events, now),
           a \in Agent /\ req.pc \in {"check", "append"} => req.decision = "expired",
           UNCHANGED <<events, sealed, now>>
    PROVE  Step
<1>1. Shapes /\ now \in 0..MaxTime /\ MaxTime \in Nat /\ sealed \in BOOLEAN
  BY ApprovalsAssumption DEF IInv, Shapes
<1>2. /\ request' \in [Caller -> InFlightSet]
      /\ request'[a] = req
      /\ \A b \in Caller \ {a} : request'[b] = request[b]
  BY <1>1 DEF Shapes
<1>3. RequestMoves(a)
  BY <1>2 DEF RequestMoves
<1>4. Moves
  BY <1>1 DEF Moves
<1>5. QED BY <1>1, <1>3, <1>4 DEF Step

(* A handler that has answered holds nothing.                              *)
LEMMA IdleOK ==
    ASSUME Shapes
    PROVE  /\ Idle \in InFlightSet /\ Idle.pc = "idle"
           /\ RequestOK(Idle, events, now)
<1>1. /\ Idle.pc = "idle" /\ Idle.seen = <<>> /\ Idle \in InFlightSet
  BY DEF Idle, InFlight, InFlightSet
<1>2. Len(events) \in Nat /\ Len(<<>>) = 0 /\ 1..0 = {}
  BY DEF Shapes
<1>3. QED BY <1>1, <1>2 DEF RequestOK, ResolvingOK, SeenOK

(* A reviewer's request names a gate of the record.                        *)
LEMMA SubmitStep ==
    ASSUME IInv, NEW r \in Reviewer, NEW s \in 1..Len(events),
           NEW d \in Decision \ {"expired"}, Submit(r, s, d)
    PROVE  Step
<1> DEFINE req == InFlight("check", s, d, {}, <<>>)
<1>1. /\ req.pc = "check" /\ req.target = s /\ req.decision = d
      /\ req.lapsed = {} /\ req.seen = <<>> /\ req \in InFlightSet
  BY DEF InFlight, InFlightSet
<1>2. /\ r \in Caller /\ r \notin Agent
      /\ request' = [request EXCEPT ![r] = req]
      /\ UNCHANGED <<events, sealed, now>>
  BY ApprovalsAssumption DEF Submit, Caller
<1> HIDE DEF req
<1>3. Len(events) \in Nat /\ Len(<<>>) = 0 /\ 1..0 = {}
  BY DEF IInv, Shapes
<1>4. RequestOK(req, events, now)
  BY <1>1, <1>3 DEF RequestOK, ResolvingOK, SeenOK
<1>5. QED BY <1>1, <1>2, <1>4, RequestStep

(* A poll takes the record as it is.                                       *)
LEMMA PollStep ==
    ASSUME IInv, NEW a \in Caller, Poll(a)
    PROVE  Step
<1> DEFINE req == InFlight("expire", None, None, {}, Page)
<1>1. /\ Page \in Seq(EventSet)
      /\ Len(Page) \in Nat /\ Len(Page) <= Len(events)
      /\ \A i \in 1..Len(Page) : Page[i] = events[i]
      /\ Faded(events) /\ Len(events) \in Nat
  BY PageIsPrefix, FadedSame DEF IInv, Shapes
<1>2. /\ req.pc = "expire" /\ req.seen = Page /\ req \in InFlightSet
  BY <1>1 DEF InFlight, InFlightSet
<1>3. /\ request' = [request EXCEPT ![a] = req]
      /\ UNCHANGED <<events, sealed, now>>
  BY DEF Poll
<1> HIDE DEF req
<1>4. \A i \in 1..Len(Page) : events[i].expires_at <= Page[i].expires_at
  BY <1>1 DEF Faded
<1>5. RequestOK(req, events, now)
  BY <1>1, <1>2, <1>4 DEF RequestOK, ResolvingOK, SeenOK
<1>6. QED BY <1>2, <1>3, <1>5, RequestStep

(* resolve, for the first of some gates that are due.                      *)
LEMMA ExpiringOK ==
    ASSUME Shapes, NEW lapsed \in SUBSET Nat, lapsed # {},
           \A s \in lapsed : Due(s, events, now)
    PROVE  /\ Expiring(lapsed) \in InFlightSet
           /\ RequestOK(Expiring(lapsed), events, now)
           /\ Expiring(lapsed).decision = "expired"
<1> DEFINE req == Expiring(lapsed)
<1>1. First(lapsed) \in lapsed
  BY FirstIn
<1>2. /\ req = [pc |-> "check", target |-> First(lapsed), decision |-> "expired",
                lapsed |-> lapsed, seen |-> <<>>]
      /\ First(lapsed) \in Nat /\ "expired" \in Decision
      /\ <<>> \in Seq(EventSet)
  <2>1. req = [pc |-> "check", target |-> First(lapsed), decision |-> "expired",
               lapsed |-> lapsed, seen |-> <<>>]
    BY Zenon DEF Expiring, InFlight
  <2>2. First(lapsed) \in Nat
    BY <1>1
  <2>3. "expired" \in Decision /\ <<>> \in Seq(EventSet)
    BY DEF Decision
  <2> HIDE DEF req
  <2>4. QED BY <2>1, <2>2, <2>3
<1> HIDE DEF req
<1>3. /\ req.pc = "check" /\ req.target = First(lapsed)
      /\ req.decision = "expired" /\ req.lapsed = lapsed /\ req.seen = <<>>
  BY <1>2
<1>4. req \in InFlightSet
  BY <1>2 DEF InFlightSet
<1>5. RequestOK(req, events, now)
  <2>1. Len(events) \in Nat /\ Len(<<>>) = 0 /\ 1..0 = {}
    BY DEF Shapes
  <2>2. First(lapsed) \in 1..Len(events)
    BY <1>1 DEF Due
  <2>3. ResolvingOK(req, events, now)
    BY <1>1, <1>2, <1>3, <2>2 DEF ResolvingOK
  <2>4. SeenOK(req, events)
    BY <1>3, <2>1 DEF SeenOK
  <2>5. QED BY <2>3, <2>4 DEF RequestOK
<1>6. QED BY <1>3, <1>4, <1>5 DEF req

(* The gates a poll finds lapsed are due, although it read them before it  *)
(* looked at the clock.                                                    *)
LEMMA LapsedDue ==
    ASSUME IInv, NEW a \in Caller
    PROVE  /\ Lapsed(request[a].seen) \in SUBSET Nat
           /\ \A s \in Lapsed(request[a].seen) : Due(s, events, now)
<1> DEFINE es == request[a].seen
<1>1. /\ request[a] \in InFlightSet
      /\ RequestOK(request[a], events, now)
      /\ Len(events) \in Nat /\ now \in Nat /\ MaxTime \in Nat
      /\ \A i \in 1..Len(events) : events[i] \in EventSet
  BY ApprovalsAssumption DEF IInv, Shapes, Requests
<1>2. /\ es \in Seq(EventSet) /\ Len(es) \in Nat /\ Len(es) <= Len(events)
      /\ \A s \in 1..Len(es) : events[s].expires_at <= es[s].expires_at
  BY <1>1 DEF InFlightSet, RequestOK, SeenOK
<1>3. ASSUME NEW s \in Lapsed(es)
      PROVE  s \in Nat /\ Due(s, events, now)
  <2>1. s \in 1..Len(es) /\ es[s].expires_at <= now
    BY <1>3 DEF Lapsed, Gates
  <2>2. s \in 1..Len(events) /\ s \in Nat
    BY <1>1, <1>2, <2>1
  <2>3. es[s] \in EventSet /\ events[s] \in EventSet
    BY <1>1, <1>2, <2>1, <2>2
  <2>4. es[s].expires_at \in Nat /\ events[s].expires_at \in Nat
    BY <1>1, <2>3 DEF EventSet
  <2>5. QED BY <1>1, <1>2, <2>1, <2>2, <2>4 DEF Due
<1>4. QED BY <1>3

(* A poll answers, or goes on to resolve the first lapsed gate.            *)
LEMMA ExpireStep ==
    ASSUME IInv, NEW a \in Caller, Expire(a)
    PROVE  Step
<1>1. UNCHANGED <<events, sealed, now>> /\ Shapes
  BY DEF Expire, IInv
<1>2. CASE request' = [request EXCEPT ![a] = Idle]
  BY <1>1, <1>2, IdleOK, RequestStep
<1>3. CASE /\ Lapsed(request[a].seen) # {}
           /\ request' = [request EXCEPT ![a] = Expiring(Lapsed(request[a].seen))]
  BY <1>1, <1>3, LapsedDue, ExpiringOK, RequestStep
<1>4. QED BY <1>2, <1>3 DEF Expire, Answer

(* A poll that read the record again answers.                              *)
LEMMA RereadStep ==
    ASSUME IInv, NEW a \in Caller, Reread(a)
    PROVE  Step
<1>1. UNCHANGED <<events, sealed, now>> /\ Shapes
  BY DEF Reread, IInv
<1>2. QED BY <1>1, IdleOK, RequestStep DEF Reread, Answer

(* The check changes nothing but how far the request is.                   *)
LEMMA CheckStep ==
    ASSUME IInv, NEW a \in Caller, Check(a)
    PROVE  Step
<1>1. UNCHANGED <<events, sealed, now>> /\ Shapes
  BY DEF Check, IInv
<1>2. CASE request' = [request EXCEPT ![a] = Idle]
  BY <1>1, <1>2, IdleOK, RequestStep
<1>3. CASE request' = [request EXCEPT ![a] = [@ EXCEPT !.pc = "append"]]
  <2> DEFINE req == [request[a] EXCEPT !.pc = "append"]
  <2>1. /\ request[a] \in InFlightSet /\ request[a].pc = "check"
        /\ RequestOK(request[a], events, now)
        /\ a \in Agent => request[a].decision = "expired"
    BY DEF Check, IInv, Shapes, Requests
  <2>2. /\ req \in InFlightSet /\ req.pc = "append"
        /\ req.target = request[a].target /\ req.decision = request[a].decision
        /\ req.lapsed = request[a].lapsed /\ req.seen = request[a].seen
    BY <2>1 DEF InFlightSet
  <2>3. request' = [request EXCEPT ![a] = req]
    BY <1>3
  <2> HIDE DEF req
  <2>4. RequestOK(req, events, now)
    BY <2>1, <2>2 DEF RequestOK, ResolvingOK, SeenOK
  <2>5. QED BY <1>1, <2>1, <2>2, <2>3, <2>4, RequestStep
<1>4. QED BY <1>2, <1>3 DEF Check

(* Where a poll goes when one gate is expired.                             *)
LEMMA AfterWriteOK ==
    ASSUME IInv, NEW a \in Caller, request[a].pc = "append"
    PROVE  LET req == AfterWrite(request[a])
           IN  /\ req \in InFlightSet
               /\ RequestOK(req, events, now)
               /\ req.pc \in {"check", "append"} => req.decision = "expired"
<1> DEFINE old == request[a]
           rest == old.lapsed \ {old.target}
           reread == InFlight("reread", None, None, {}, <<>>)
<1>1. /\ old \in InFlightSet /\ RequestOK(old, events, now) /\ Shapes
      /\ Len(events) \in Nat
  BY DEF IInv, Shapes, Requests
<1>2. /\ old.lapsed \in SUBSET Nat
      /\ \A s \in old.lapsed : Due(s, events, now)
  BY <1>1 DEF RequestOK, ResolvingOK, InFlightSet
<1>3. CASE AfterWrite(old) = Idle
  BY <1>1, <1>3, IdleOK
<1>4. CASE rest # {} /\ AfterWrite(old) = Expiring(rest)
  BY <1>1, <1>2, <1>4, ExpiringOK
<1>5. CASE AfterWrite(old) = reread
  <2>1. /\ reread.pc = "reread" /\ reread.seen = <<>> /\ reread \in InFlightSet
    BY DEF InFlight, InFlightSet
  <2>2. Len(<<>>) = 0 /\ 1..0 = {}
    OBVIOUS
  <2>3. RequestOK(reread, events, now)
    BY <1>1, <2>1, <2>2 DEF RequestOK, ResolvingOK, SeenOK
  <2>4. QED BY <1>5, <2>1, <2>3
<1>6. QED BY <1>3, <1>4, <1>5 DEF AfterWrite

(* What resolve writes is a decision on an event of the record, and an     *)
(* expiry only of a gate that is due.                                      *)
LEMMA WriteStep ==
    ASSUME IInv, NEW a \in Caller, Write(a)
    PROVE  Step
<1>1. /\ Shapes /\ PointsBack /\ ExpiredDue
      /\ sealed \in BOOLEAN /\ now \in 0..MaxTime /\ MaxTime \in Nat
      /\ request \in [Caller -> InFlightSet]
      /\ RequestOK(request[a], events, now)
      /\ request[a].pc = "append" /\ UNCHANGED <<sealed, now>>
  BY ApprovalsAssumption DEF Write, IInv, Shapes, Requests
<1>2. CASE request' = [request EXCEPT ![a] = Idle] /\ UNCHANGED events
  BY <1>1, <1>2, IdleOK, RequestStep
<1>3. CASE /\ events' = Append(events, Resolved(request[a].target,
                                               request[a].decision))
           /\ request' = [request EXCEPT ![a] = AfterWrite(@)]
  <2> DEFINE e == Resolved(request[a].target, request[a].decision)
             req == AfterWrite(request[a])
  <2>1. /\ request[a].target \in 1..Len(events)
        /\ request[a].decision \in Decision
        /\ request[a].decision = "expired" => Due(request[a].target, events, now)
    BY <1>1 DEF RequestOK, ResolvingOK
  <2>2. /\ e \in EventSet /\ e.target_seq = request[a].target
        /\ e.decision = request[a].decision
    BY <1>1, <2>1 DEF Resolved, Event, EventSet
  <2>3. events' = Append(events, e) /\ request' = [request EXCEPT ![a] = req]
    BY <1>3
  <2> HIDE DEF e
  <2>4. Grows(events, e)
    BY <1>1, <2>1, <2>2, <2>3, FadedSame DEF Grows
  <2>5. Moves
    BY <1>1, <2>4 DEF Moves
  <2>6. /\ req \in InFlightSet /\ RequestOK(req, events, now)
        /\ req.pc \in {"check", "append"} => req.decision = "expired"
    BY <1>1, AfterWriteOK
  <2> HIDE DEF req
  <2>7. RequestOK(req, events', now')
    BY <1>1, <2>5, <2>6, RequestStays
  <2>8. RequestMoves(a)
    BY <1>1, <2>3, <2>6, <2>7 DEF RequestMoves
  <2>9. QED BY <1>1, <2>5, <2>8 DEF Step
<1>4. QED BY <1>2, <1>3 DEF Write

(* Every step of the system is such a step, and told is not the invariant's. *)
LEMMA NextKeepsInv == IInv /\ [Next]_vars => IInv'
<1> SUFFICES ASSUME IInv, [Next]_vars PROVE IInv'
  OBVIOUS
<1>1. CASE \/ AppendEvent(Other)
           \/ \E t \in 0..MaxTime : AppendEvent(Requested(t))
           \/ Seal
  BY <1>1, AppendStep, StepKeepsInv
<1>2. CASE \E s \in 1..Len(events), fs \in (SUBSET Erasable) \ {{}} : Redact(s, fs)
  BY <1>2, RedactStep, StepKeepsInv
<1>3. CASE Tick
  BY <1>3, TickStep, StepKeepsInv
<1>4. CASE \E r \in Reviewer, s \in 1..Len(events), d \in Decision \ {"expired"} :
              Submit(r, s, d)
  BY <1>4, SubmitStep, StepKeepsInv
<1>5. ASSUME NEW a \in Caller, Poll(a)
      PROVE  IInv'
  BY <1>5, PollStep, StepKeepsInv
<1>6. ASSUME NEW a \in Caller, Expire(a) \/ Check(a) \/ Write(a) \/ Reread(a)
      PROVE  IInv'
  BY <1>6, ExpireStep, CheckStep, WriteStep, RereadStep, StepKeepsInv
<1>7. CASE UNCHANGED vars
  BY <1>7 DEF vars, IInv, Shapes, PointsBack, ExpiredDue, Requests
<1>8. QED BY <1>1, <1>2, <1>3, <1>4, <1>5, <1>6, <1>7 DEF Next

(* Requests, the record and the clock fit together in every reachable      *)
(* state.                                                                  *)
THEOREM Invariance == Spec => []IInv
<1>1. QED BY InitInv, NextKeepsInv, PTL DEF Spec

(* Shapes, and which locals a handler holds where: a request about to      *)
(* resolve names an event of the record, it is an expiry exactly if its    *)
(* poll found gates lapsed, and a polling agent resolves nothing else.     *)
THEOREM TypeCorrect == Spec => []TypeOK
<1>1. ASSUME IInv
      PROVE  TypeOK
  <2>1. \A i \in 1..Len(events) :
          /\ events[i].name \in {None, "approval_requested", "approval_resolved"}
          /\ events[i].expires_at \in 0..MaxTime
    <3>1. \A i \in 1..Len(events) : events[i] \in EventSet
      BY <1>1 DEF IInv, Shapes
    <3>2. QED BY <3>1 DEF EventSet
  <2>2. sealed \in BOOLEAN /\ now \in 0..MaxTime
    BY <1>1 DEF IInv, Shapes
  <2>3. ASSUME NEW a \in Caller
        PROVE  LET req == request[a]
               IN  /\ req.pc \in {"idle", "expire", "check", "append", "reread"}
                   /\ req.pc \in {"check", "append"} =>
                         /\ req.target \in 1..Len(events)
                         /\ req.decision = "expired" <=> req.lapsed # {}
                         /\ req.lapsed # {} => req.target \in req.lapsed
                   /\ a \in Agent /\ req.pc = "append" => req.decision = "expired"
    <3>1. request[a] \in InFlightSet /\ ResolvingOK(request[a], events, now)
      BY <1>1 DEF IInv, Shapes, Requests, RequestOK
    <3>2. a \in Agent /\ request[a].pc = "append" => request[a].decision = "expired"
      BY <1>1 DEF IInv, Requests
    <3>3. request[a].pc \in {"idle", "expire", "check", "append", "reread"}
      BY <3>1 DEF InFlightSet
    <3>4. QED BY <3>1, <3>2, <3>3 DEF ResolvingOK
  <2>4. QED BY <2>1, <2>2, <2>3 DEF TypeOK
<1>2. QED BY <1>1, Invariance, PTL

(* The server writes `expired` only for a gate whose time is really up,    *)
(* whatever came between reading the record, reading the clock, checking   *)
(* and appending.                                                          *)
THEOREM ExpiredSound == Spec => []ExpiredInTime
<1>1. ASSUME IInv
      PROVE  ExpiredInTime
  <2>1. ASSUME NEW s \in Gates(events), State(events, s) = "expired"
        PROVE  events[s].expires_at <= now
    <3>1. Len(events) \in Nat /\ s \in Nat /\ s \in 1..Len(events)
      BY <1>1 DEF IInv, Shapes, Gates
    <3>2. Resolutions(events, s) # {}
      BY <2>1 DEF State
    <3>3. PICK m \in Resolutions(events, s) : State(events, s) = events[m].decision
      BY <3>1, <3>2, StateFirst
    <3>4. m \in 1..Len(events) /\ events[m].target_seq = s
      BY <3>1 DEF Resolutions
    <3>5. s # None
      BY <3>1, ApprovalsAssumption
    <3>6. QED BY <1>1, <2>1, <3>3, <3>4, <3>5 DEF IInv, ExpiredDue
  <2>2. QED BY <2>1 DEF ExpiredInTime
<1>2. QED BY <1>1, Invariance, PTL

-----------------------------------------------------------------------------
(* Answers stand.  A resolution that lost its target can reopen its gate:  *)
(* nothing is claimed of a record that holds one.                          *)
Lost(es) == \E i \in 1..Len(es) : /\ es[i].name = "approval_resolved"
                                  /\ es[i].target_seq = None

(* The record shows decision d for gate s.                                 *)
Firm(s, d, es) == d # "pending" /\ s \in Gates(es) /\ State(es, s) = d

(* What a poll is about to answer from the events it read is still so.     *)
SeenFirm(req, es) ==
    req.pc = "expire" =>
       \A s \in Gates(req.seen) :
          State(req.seen, s) # "pending" => Firm(s, State(req.seen, s), es)

Answers ==
    \/ Lost(events)
    \/ /\ \A answer \in told : Firm(answer[1], answer[2], events)
       /\ \A a \in Caller : SeenFirm(request[a], events)

(* es begins with the gates, resolutions and decisions of fs, and goes on  *)
(* with whatever comes later.                                              *)
Extends(es, fs) ==
    /\ Len(fs) <= Len(es)
    /\ \A i \in 1..Len(fs) :
          /\ es[i].name = fs[i].name
          /\ fs[i].name = "approval_resolved" => es[i] = fs[i]

(* The first resolution of a gate is the first in any such record.         *)
LEMMA ExtendsFirm ==
    ASSUME NEW es, NEW fs, Len(es) \in Nat, Len(fs) \in Nat, Extends(es, fs),
           NEW s, NEW d, Firm(s, d, fs)
    PROVE  Firm(s, d, es)
<1>1. s \in 1..Len(fs) /\ fs[s].name = "approval_requested" /\ State(fs, s) = d
  BY DEF Firm, Gates
<1>2. s \in Nat /\ 1..Len(fs) \subseteq 1..Len(es)
  BY <1>1 DEF Extends
<1>3. s \in Gates(es)
  BY <1>1, <1>2 DEF Gates, Extends
<1>4. Resolutions(fs, s) # {}
  BY DEF Firm, State
<1>5. PICK m \in Resolutions(fs, s) : /\ \A j \in Resolutions(fs, s) : m <= j
                                      /\ State(fs, s) = fs[m].decision
  BY <1>2, <1>4, StateFirst
<1>6. /\ m \in (s + 1)..Len(fs) /\ fs[m].name = "approval_resolved"
      /\ fs[m].target_seq = s
  BY DEF Resolutions
<1>7. m \in 1..Len(fs) /\ m \in (s + 1)..Len(es) /\ m \in Nat
  BY <1>2, <1>6 DEF Extends
<1>8. es[m] = fs[m]
  BY <1>6, <1>7 DEF Extends
<1>9. m \in Resolutions(es, s)
  BY <1>6, <1>7, <1>8 DEF Resolutions
<1>10. ASSUME NEW j \in Resolutions(es, s)
       PROVE  m <= j
  <2>1. /\ j \in (s + 1)..Len(es) /\ es[j].name = "approval_resolved"
        /\ es[j].target_seq = s
    BY DEF Resolutions
  <2>2. CASE j <= Len(fs)
    <3>1. j \in 1..Len(fs) /\ j \in (s + 1)..Len(fs)
      BY <1>2, <2>1, <2>2
    <3>2. es[j].name = fs[j].name
      BY <3>1 DEF Extends
    <3>3. es[j] = fs[j]
      BY <2>1, <3>1, <3>2 DEF Extends
    <3>4. j \in Resolutions(fs, s)
      BY <2>1, <3>1, <3>3 DEF Resolutions
    <3>5. QED BY <1>5, <3>4
  <2>3. CASE ~(j <= Len(fs))
    BY <1>2, <1>7, <2>1, <2>3
  <2>4. QED BY <2>2, <2>3
<1>11. State(es, s) = es[m].decision
  BY <1>2, <1>9, <1>10, FirstDecides
<1>12. QED BY <1>1, <1>3, <1>5, <1>8, <1>11 DEF Firm

(* What a read shows decided, the record shows decided the same way.       *)
LEMMA PageFirm ==
    ASSUME Shapes, NEW s \in Gates(Page), State(Page, s) # "pending"
    PROVE  Firm(s, State(Page, s), events)
<1>1. /\ Len(Page) \in Nat /\ Len(events) \in Nat /\ Len(Page) <= Len(events)
      /\ \A i \in 1..Len(Page) : Page[i] = events[i]
  BY PageIsPrefix DEF Shapes
<1>2. Extends(events, Page)
  BY <1>1 DEF Extends
<1>3. Firm(s, State(Page, s), Page)
  BY DEF Firm
<1>4. QED BY <1>1, <1>2, <1>3, ExtendsFirm

(* What every step has to show: no decision is forgotten unless a          *)
(* resolution loses its target, which it then has for ever; and what is    *)
(* told or read is decided.                                                *)
KeepsDecisions ==
    \/ Lost(events')
    \/ ~Lost(events) /\ Extends(events', events)

AnswerStep ==
    /\ KeepsDecisions
    /\ \/ Lost(events)
       \/ /\ \A answer \in told' : \/ answer \in told
                                   \/ Firm(answer[1], answer[2], events)
          /\ \A a \in Caller : \/ request'[a] = request[a]
                               \/ SeenFirm(request'[a], events)

(* Such a step keeps every answer.                                         *)
LEMMA AnswerStepKeeps ==
    ASSUME Answers, AnswerStep, Len(events) \in Nat, Len(events') \in Nat
    PROVE  Answers'
<1>1. CASE Lost(events')
  BY <1>1 DEF Answers
<1>2. CASE ~Lost(events) /\ Extends(events', events)
  <2>1. \A s, d : Firm(s, d, events) => Firm(s, d, events')
    BY <1>2, ExtendsFirm
  <2>2. \A answer \in told' : Firm(answer[1], answer[2], events)
    BY <1>2 DEF Answers, AnswerStep
  <2>3. \A a \in Caller : SeenFirm(request'[a], events)
    BY <1>2 DEF Answers, AnswerStep
  <2>4. \A answer \in told' : Firm(answer[1], answer[2], events')
    BY <2>1, <2>2
  <2>5. \A a \in Caller : SeenFirm(request'[a], events')
    BY <2>1, <2>3 DEF SeenFirm
  <2>6. QED BY <2>4, <2>5 DEF Answers
<1>3. QED BY <1>1, <1>2 DEF AnswerStep, KeepsDecisions

(* A longer record keeps what is decided, or what is lost.                 *)
LEMMA AppendKeeps ==
    ASSUME Shapes, NEW es \in Seq(EventSet), NEW e, events' = Append(es, e),
           e \in EventSet, Extends(es, events), Lost(events) => Lost(es)
    PROVE  KeepsDecisions
<1>1. /\ Len(es) \in Nat /\ Len(events) \in Nat /\ Len(events) <= Len(es)
      /\ Len(events') = Len(es) + 1
      /\ \A i \in 1..Len(es) : events'[i] = es[i]
  BY DEF Shapes, Extends
<1>2. 1..Len(es) \subseteq 1..Len(events') /\ 1..Len(events) \subseteq 1..Len(es)
  BY <1>1
<1>3. Lost(es) => Lost(events')
  BY <1>1, <1>2 DEF Lost
<1>4. Extends(events', events)
  <2>1. Len(events) <= Len(events')
    BY <1>1
  <2>2. QED BY <1>1, <1>2, <2>1 DEF Extends
<1>5. QED BY <1>3, <1>4 DEF KeepsDecisions

(* Nothing is forgotten when nothing is written.                           *)
LEMMA SameKeeps ==
    ASSUME Shapes, UNCHANGED events
    PROVE  KeepsDecisions
<1>1. Len(events) \in Nat /\ Len(events) <= Len(events)
  BY DEF Shapes
<1>2. QED BY <1>1 DEF KeepsDecisions, Extends

(* Redaction that spares names loses a target, or leaves every resolution  *)
(* as it was.                                                              *)
LEMMA RedactKeeps ==
    ASSUME IInv, "name" \notin Erasable,
           NEW s \in 1..Len(events), NEW fs \in (SUBSET Erasable) \ {{}}, Redact(s, fs)
    PROVE  KeepsDecisions
<1> DEFINE es == [events EXCEPT ![s] = Erased(@, fs)]
<1>1. Shapes /\ "name" \notin fs /\ "metadata" \in fs
  <2>1. fs \subseteq Erasable /\ fs # {}
    OBVIOUS
  <2>2. PICK f : f \in fs
    BY <2>1
  <2>3. f \in {"name", "metadata"} /\ f # "name"
    BY <2>1, <2>2, ApprovalsAssumption
  <2>4. "name" \notin fs
    BY <2>1
  <2>5. QED BY <2>2, <2>3, <2>4 DEF IInv
<1>2. /\ es \in Seq(EventSet) /\ Len(es) = Len(events) /\ Len(events) \in Nat
      /\ \A i \in 1..Len(events) :
            es[i] = IF i = s THEN Erased(events[s], fs) ELSE events[i]
  <2>1. /\ Faded(es)
        /\ \A i \in 1..Len(events) :
              es[i] = IF i = s THEN Erased(events[s], fs) ELSE events[i]
    BY <1>1, RedactFades
  <2> HIDE DEF es
  <2>2. QED BY <1>1, <2>1 DEF Faded, Shapes
<1>3. events' = Append(es, Other) /\ Other \in EventSet
  <2>1. 0 \in 0..MaxTime
    BY ApprovalsAssumption
  <2>2. QED BY <2>1 DEF Redact, Other, Event, EventSet
<1> HIDE DEF es
<1>4. events[s] \in EventSet
  BY <1>1 DEF Shapes
<1>5. /\ Erased(events[s], fs).name = events[s].name
      /\ Erased(events[s], fs).target_seq = None
  <2>1. Erased(events[s], fs).name = events[s].name
    BY <1>1, <1>4, ErasedEvent
  <2>2. Erased(events[s], fs).target_seq = None
    BY <1>1 DEF Erased, Event
  <2>3. QED BY <2>1, <2>2
<1>6. /\ es[s].name = events[s].name /\ es[s].target_seq = None
      /\ \A i \in 1..Len(events) \ {s} : es[i] = events[i]
  BY <1>2, <1>5
<1>7. Lost(events) => Lost(es)
  BY <1>2, <1>6 DEF Lost
<1>8. CASE events[s].name = "approval_resolved"
  <2>1. Lost(es)
    BY <1>2, <1>6, <1>8 DEF Lost
  <2>2. /\ Len(events') = Len(es) + 1
        /\ \A i \in 1..Len(es) : events'[i] = es[i]
    BY <1>2, <1>3
  <2>3. 1..Len(es) \subseteq 1..Len(events')
    BY <1>2, <2>2
  <2>4. QED BY <2>1, <2>2, <2>3 DEF Lost, KeepsDecisions
<1>9. CASE events[s].name # "approval_resolved"
  <2>1. Len(events) <= Len(es)
    BY <1>2
  <2>2. Extends(es, events)
    BY <1>6, <1>9, <2>1 DEF Extends
  <2>3. QED BY <1>1, <1>2, <1>3, <1>7, <2>2, AppendKeeps
<1>10. QED BY <1>8, <1>9

(* Steps that leave the answers and the polls in flight alone.             *)
LEMMA QuietStep ==
    ASSUME KeepsDecisions, UNCHANGED told,
           \A a \in Caller : request'[a] = request[a] \/ request'[a].pc # "expire"
    PROVE  AnswerStep
<1>1. \A a \in Caller : request'[a] = request[a] \/ SeenFirm(request'[a], events)
  BY DEF SeenFirm
<1>2. QED BY <1>1 DEF AnswerStep

(* An event that is appended takes nothing away.                           *)
LEMMA AppendedKeeps ==
    ASSUME Shapes, NEW e \in EventSet, events' = Append(events, e)
    PROVE  KeepsDecisions
<1>1. events \in Seq(EventSet) /\ Len(events) \in Nat /\ Len(events) <= Len(events)
  BY DEF Shapes
<1>2. Extends(events, events)
  BY <1>1 DEF Extends
<1>3. QED BY <1>1, <1>2, AppendKeeps

(* The routes that append one event.                                       *)
LEMMA AppendAnswers ==
    ASSUME IInv, \/ AppendEvent(Other)
                 \/ \E t \in 0..MaxTime : AppendEvent(Requested(t))
                 \/ Seal
    PROVE  AnswerStep
<1>1. PICK e \in {Other} \cup {Requested(t) : t \in 0..MaxTime} :
         events' = Append(events, e) /\ UNCHANGED <<request, told>>
  BY DEF AppendEvent, Seal
<1>2. e \in EventSet
  <2>1. 0 \in 0..MaxTime
    BY ApprovalsAssumption
  <2>2. QED BY <2>1 DEF EventSet, Other, Requested, Event
<1>3. KeepsDecisions
  BY <1>1, <1>2, AppendedKeeps DEF IInv
<1>4. QED BY <1>1, <1>3, QuietStep

(* Writing a resolution: a later one does not undo the first.              *)
LEMMA WriteAnswers ==
    ASSUME IInv, NEW a \in Caller, Write(a)
    PROVE  AnswerStep
<1>1. /\ Shapes /\ request \in [Caller -> InFlightSet]
      /\ RequestOK(request[a], events, now)
      /\ request[a].pc = "append" /\ UNCHANGED told
  BY DEF Write, IInv, Shapes, Requests
<1>2. CASE request' = [request EXCEPT ![a] = Idle] /\ UNCHANGED events
  <2>1. Idle.pc = "idle"
    BY DEF Idle, InFlight
  <2>2. \A b \in Caller : request'[b] = request[b] \/ request'[b].pc # "expire"
    BY <1>1, <1>2, <2>1
  <2>3. QED BY <1>1, <1>2, <2>2, SameKeeps, QuietStep
<1>3. CASE /\ events' = Append(events, Resolved(request[a].target,
                                               request[a].decision))
           /\ request' = [request EXCEPT ![a] = AfterWrite(@)]
  <2>1. /\ request[a].target \in Nat /\ request[a].decision \in Decision
        /\ 0 \in 0..MaxTime
    BY <1>1, ApprovalsAssumption DEF RequestOK, ResolvingOK, Shapes
  <2>2. Resolved(request[a].target, request[a].decision) \in EventSet
    BY <2>1 DEF Resolved, Event, EventSet
  <2>3. KeepsDecisions
    BY <1>1, <1>3, <2>2, AppendedKeeps
  <2>4. AfterWrite(request[a]).pc # "expire"
    BY DEF AfterWrite, Expiring, Idle, InFlight
  <2>5. request'[a] = AfterWrite(request[a])
    BY <1>1, <1>3
  <2>6. \A b \in Caller : request'[b] = request[b] \/ request'[b].pc # "expire"
    BY <1>1, <1>3, <2>4, <2>5
  <2>7. QED BY <1>1, <2>3, <2>6, QuietStep
<1>4. QED BY <1>2, <1>3 DEF Write

(* The steps that only move one request on.                                *)
LEMMA MoveAnswers ==
    ASSUME IInv, NEW a \in Caller, UNCHANGED <<events, told>>,
           NEW req, request' = [request EXCEPT ![a] = req], SeenFirm(req, events)
    PROVE  AnswerStep
<1>1. KeepsDecisions /\ request \in [Caller -> InFlightSet]
  BY SameKeeps DEF IInv, Shapes
<1>2. \A b \in Caller : request'[b] = request[b] \/ SeenFirm(request'[b], events)
  BY <1>1
<1>3. QED BY <1>1, <1>2 DEF AnswerStep

(* Answering a poll from events whose decisions stand.                     *)
LEMMA TellAnswers ==
    ASSUME IInv, NEW a \in Caller, UNCHANGED events, NEW es, Answer(a, es),
           \/ Lost(events)
           \/ \A s \in Gates(es) : State(es, s) # "pending"
                                     => Firm(s, State(es, s), events)
    PROVE  AnswerStep
<1>1. KeepsDecisions /\ request \in [Caller -> InFlightSet]
  BY SameKeeps DEF IInv, Shapes
<1>2. Idle.pc = "idle"
  BY DEF Idle, InFlight
<1>3. \A b \in Caller : request'[b] = request[b] \/ SeenFirm(request'[b], events)
  BY <1>1, <1>2 DEF Answer, SeenFirm
<1>4. ASSUME NEW answer \in told', answer \notin told, ~Lost(events)
      PROVE  Firm(answer[1], answer[2], events)
  <2>1. PICK s \in Gates(es) : /\ State(es, s) # "pending"
                               /\ answer = <<s, State(es, s)>>
    BY <1>4 DEF Answer
  <2>2. answer[1] = s /\ answer[2] = State(es, s)
    BY <2>1
  <2>3. QED BY <1>4, <2>1, <2>2
<1>5. QED BY <1>1, <1>3, <1>4 DEF AnswerStep

(* Every step of a system that erases no names.                            *)
LEMMA NextAnswers ==
    ASSUME IInv, Answers, [Next]_vars, "name" \notin Erasable
    PROVE  AnswerStep
<1>1. CASE \/ AppendEvent(Other)
           \/ \E t \in 0..MaxTime : AppendEvent(Requested(t))
           \/ Seal
  BY <1>1, AppendAnswers
<1>2. CASE \E s \in 1..Len(events), fs \in (SUBSET Erasable) \ {{}} : Redact(s, fs)
  <2>1. KeepsDecisions /\ UNCHANGED <<request, told>>
    BY <1>2, RedactKeeps DEF Redact
  <2>2. QED BY <2>1, QuietStep
<1>3. CASE Tick \/ UNCHANGED vars
  <2>1. UNCHANGED <<events, request, told>>
    BY <1>3 DEF Tick, vars
  <2>2. QED BY <2>1, SameKeeps, QuietStep DEF IInv
<1>4. CASE \E r \in Reviewer, s \in 1..Len(events), d \in Decision \ {"expired"} :
              Submit(r, s, d)
  <2>1. PICK r \in Reviewer, s \in 1..Len(events), d \in Decision \ {"expired"} :
           Submit(r, s, d)
    BY <1>4
  <2>2. SeenFirm(InFlight("check", s, d, {}, <<>>), events)
    BY DEF InFlight, SeenFirm
  <2>3. r \in Caller
    BY DEF Caller
  <2>4. QED BY <2>1, <2>2, <2>3, MoveAnswers DEF Submit
<1>5. ASSUME NEW a \in Caller, Poll(a)
      PROVE  AnswerStep
  <2>1. InFlight("expire", None, None, {}, Page).seen = Page
    BY DEF InFlight
  <2>2. \A s \in Gates(Page) : State(Page, s) # "pending"
                                 => Firm(s, State(Page, s), events)
    BY PageFirm DEF IInv
  <2>3. SeenFirm(InFlight("expire", None, None, {}, Page), events)
    BY <2>1, <2>2 DEF SeenFirm
  <2>4. QED BY <1>5, <2>3, MoveAnswers DEF Poll
<1>6. ASSUME NEW a \in Caller, Expire(a)
      PROVE  AnswerStep
  <2>1. UNCHANGED events /\ request[a].pc = "expire"
    BY <1>6 DEF Expire
  <2>2. CASE Answer(a, request[a].seen)
    BY <2>1, <2>2, TellAnswers DEF Answers, SeenFirm
  <2>3. CASE /\ request' = [request EXCEPT ![a] = Expiring(Lapsed(request[a].seen))]
             /\ UNCHANGED told
    <3>1. SeenFirm(Expiring(Lapsed(request[a].seen)), events)
      BY DEF Expiring, InFlight, SeenFirm
    <3>2. QED BY <2>1, <2>3, <3>1, MoveAnswers
  <2>4. QED BY <1>6, <2>2, <2>3 DEF Expire
<1>7. ASSUME NEW a \in Caller, Check(a)
      PROVE  AnswerStep
  <2>1. UNCHANGED <<events, told>> /\ request[a].pc = "check"
    BY <1>7 DEF Check
  <2>2. CASE request' = [request EXCEPT ![a] = Idle]
    <3>1. SeenFirm(Idle, events)
      BY DEF Idle, InFlight, SeenFirm
    <3>2. QED BY <2>1, <2>2, <3>1, MoveAnswers
  <2>3. CASE request' = [request EXCEPT ![a] = [request[a] EXCEPT !.pc = "append"]]
    <3>1. request[a] \in InFlightSet
      BY DEF IInv, Shapes
    <3>2. [request[a] EXCEPT !.pc = "append"].pc = "append"
      BY <3>1 DEF InFlightSet
    <3>3. SeenFirm([request[a] EXCEPT !.pc = "append"], events)
      BY <3>2 DEF SeenFirm
    <3>4. QED BY <2>1, <2>3, <3>3, MoveAnswers
  <2>4. QED BY <1>7, <2>2, <2>3 DEF Check
<1>8. ASSUME NEW a \in Caller, Write(a)
      PROVE  AnswerStep
  BY <1>8, WriteAnswers
<1>9. ASSUME NEW a \in Caller, Reread(a)
      PROVE  AnswerStep
  <2>1. UNCHANGED events /\ Answer(a, Page)
    BY <1>9 DEF Reread
  <2>2. \A s \in Gates(Page) : State(Page, s) # "pending"
                                 => Firm(s, State(Page, s), events)
    BY PageFirm DEF IInv
  <2>3. QED BY <2>1, <2>2, TellAnswers
<1>10. QED BY <1>1, <1>2, <1>3, <1>4, <1>5, <1>6, <1>7, <1>8, <1>9 DEF Next

(* A decision a caller was told stands, in whatever order polls, checks,   *)
(* appends, redactions and the clock come, as long as no resolution of the *)
(* run has lost its target: a redaction may erase metadata, but no names.  *)
THEOREM AnswersSound == "name" \notin Erasable => (Spec => []AnswersStand)
<1> SUFFICES ASSUME "name" \notin Erasable PROVE Spec => []AnswersStand
  OBVIOUS
<1>1. Init => Answers
  <2>1. Init => told = {} /\ \A a \in Caller : SeenFirm(request[a], events)
    BY DEF Init, Idle, InFlight, SeenFirm
  <2>2. QED BY <2>1 DEF Answers
<1>2. IInv /\ IInv' /\ Answers /\ [Next]_vars => Answers'
  <2> SUFFICES ASSUME IInv, IInv', Answers, [Next]_vars PROVE Answers'
    OBVIOUS
  <2>1. Len(events) \in Nat /\ Len(events') \in Nat
    BY DEF IInv, Shapes
  <2>2. QED BY <2>1, NextAnswers, AnswerStepKeeps
<1>3. Answers => AnswersStand
  BY DEF Answers, AnswersStand, Firm, Lost
<1>4. QED BY <1>1, <1>2, <1>3, Invariance, PTL DEF Spec


-----------------------------------------------------------------------------
(* How often a gate is resolved.                                           *)

(* Who is past its check of s, and will resolve it whatever happens.       *)
Racing(s) == {a \in Caller : /\ request[a].pc = "append"
                             /\ request[a].target = s}

(* What resolved s, and what is still going to, fits the callers: a check  *)
(* passes only while nothing has resolved s, and a write turns one of the  *)
(* callers racing for s into one resolution of it.                         *)
FewResolve(s) == Cardinality(Resolutions(events, s)) + Cardinality(Racing(s))
                    <= Cardinality(Caller)

(* A resolution that still has its target still has its decision.          *)
Decided == \A i \in 1..Len(events) :
              events[i].target_seq # None => events[i].decision \in Decision

RacesFit == Decided /\ \A s \in Nat : FewResolve(s)

(* What a step does to the record, up to erased fields, and to a gate.     *)
Thins(es) ==
    /\ es \in Seq(EventSet) /\ Len(es) = Len(events)
    /\ \A i \in 1..Len(events) :
          /\ es[i].name \in {events[i].name, None}
          /\ es[i].target_seq \in {events[i].target_seq, None}
          /\ es[i].target_seq # None => es[i].decision = events[i].decision

LEMMA FiniteResolutions ==
    ASSUME NEW es, NEW s, Len(es) \in Nat, s \in Nat
    PROVE  /\ IsFiniteSet(Resolutions(es, s))
           /\ Cardinality(Resolutions(es, s)) \in Nat
<1>1. IsFiniteSet((s + 1)..Len(es))
  BY FS_Interval
<1>2. Resolutions(es, s) \subseteq (s + 1)..Len(es)
  BY DEF Resolutions
<1>3. IsFiniteSet(Resolutions(es, s))
  BY <1>1, <1>2, FS_Subset
<1>4. QED BY <1>3, FS_CardinalityType

(* One more event resolves at most the gate it names.                      *)
LEMMA ThinsResolutions ==
    ASSUME Shapes, NEW es, Thins(es), NEW e \in EventSet,
           events' = Append(es, e), NEW s \in Nat
    PROVE  /\ Resolutions(events, s)' \subseteq
                 Resolutions(events, s) \cup {Len(events) + 1}
           /\ e.name # "approval_resolved" \/ e.target_seq # s
                 => Resolutions(events, s)' \subseteq Resolutions(events, s)
           /\ Len(events') \in Nat
<1>1. /\ Len(events) \in Nat /\ es \in Seq(EventSet) /\ Len(es) = Len(events)
      /\ None \notin Nat /\ None # "approval_resolved"
  BY ApprovalsAssumption DEF Shapes, Thins
<1>2. /\ Len(events') = Len(events) + 1
      /\ events'[Len(events) + 1] = e
      /\ \A i \in 1..Len(events) : events'[i] = es[i]
  BY <1>1
<1>3. ASSUME NEW i \in Resolutions(events', s)
      PROVE  \/ i \in Resolutions(events, s)
             \/ /\ i = Len(events) + 1
                /\ e.name = "approval_resolved" /\ e.target_seq = s
  <2>1. /\ i \in (s + 1)..(Len(events) + 1)
        /\ events'[i].name = "approval_resolved" /\ events'[i].target_seq = s
    BY <1>2 DEF Resolutions
  <2>2. CASE i = Len(events) + 1
    BY <1>2, <2>1, <2>2
  <2>3. CASE i # Len(events) + 1
    <3>1. i \in 1..Len(events) /\ i \in (s + 1)..Len(events)
      BY <1>1, <2>1, <2>3
    <3>2. es[i].name = "approval_resolved" /\ es[i].target_seq = s
      BY <1>2, <2>1, <3>1
    <3>3. /\ es[i].name \in {events[i].name, None}
          /\ es[i].target_seq \in {events[i].target_seq, None}
      BY <3>1 DEF Thins
    <3>4. events[i].name = "approval_resolved" /\ events[i].target_seq = s
      BY <1>1, <3>2, <3>3
    <3>5. QED BY <3>1, <3>4 DEF Resolutions
  <2>4. QED BY <2>2, <2>3
<1>4. Resolutions(events, s)' = Resolutions(events', s)
  BY DEF Resolutions
<1>5. QED BY <1>1, <1>2, <1>3, <1>4

(* Decisions stay as long as targets do.                                   *)
LEMMA ThinsDecided ==
    ASSUME Shapes, Decided, NEW es, Thins(es), NEW e \in EventSet,
           e.target_seq # None => e.decision \in Decision,
           events' = Append(es, e)
    PROVE  Decided'
<1>1. /\ Len(events) \in Nat /\ es \in Seq(EventSet) /\ Len(es) = Len(events)
  BY DEF Shapes, Thins
<1>2. /\ Len(events') = Len(events) + 1
      /\ events'[Len(events) + 1] = e
      /\ \A i \in 1..Len(events) : events'[i] = es[i]
  BY <1>1
<1>3. ASSUME NEW i \in 1..Len(events'), events'[i].target_seq # None
      PROVE  events'[i].decision \in Decision
  <2>1. CASE i = Len(events) + 1
    BY <1>2, <1>3, <2>1
  <2>2. CASE i # Len(events) + 1
    <3>1. i \in 1..Len(events) /\ es[i].target_seq # None
      BY <1>1, <1>2, <1>3, <2>2
    <3>2. /\ es[i].target_seq = events[i].target_seq
          /\ es[i].decision = events[i].decision
      BY <3>1 DEF Thins
    <3>3. QED BY <1>2, <3>1, <3>2 DEF Decided
  <2>3. QED BY <2>1, <2>2
<1>4. QED BY <1>3 DEF Decided

(* Appending erases nothing, redacting takes names and targets away.       *)
LEMMA ThinsSame ==
    ASSUME Shapes
    PROVE  Thins(events)
BY DEF Shapes, Thins

LEMMA RedactThins ==
    ASSUME Shapes, NEW s \in 1..Len(events), NEW fs
    PROVE  Thins([events EXCEPT ![s] = Erased(@, fs)])
<1> DEFINE e == Erased(events[s], fs)
           es == [events EXCEPT ![s] = e]
<1>1. events \in Seq(EventSet) /\ events[s] \in EventSet
  BY DEF Shapes
<1>2. e \in EventSet
  BY <1>1, ErasedEvent
<1>3. /\ e.name \in {events[s].name, None}
      /\ e.target_seq \in {events[s].target_seq, None}
      /\ e.target_seq # None => e.decision = events[s].decision
  BY <1>1 DEF Erased, Event, EventSet
<1> HIDE DEF e
<1>4. /\ es \in Seq(EventSet) /\ Len(es) = Len(events)
      /\ \A i \in 1..Len(events) : es[i] = IF i = s THEN e ELSE events[i]
  BY <1>1, <1>2
<1> HIDE DEF es
<1>5. Thins(es)
  BY <1>3, <1>4 DEF Thins
<1>6. QED BY <1>5 DEF e, es

(* A step that resolves nothing and passes no check.                       *)
LEMMA FewStay ==
    ASSUME NEW s \in Nat, FewResolve(s), IsFiniteSet(Caller),
           Len(events) \in Nat,
           Resolutions(events, s)' \subseteq Resolutions(events, s),
           Racing(s)' \subseteq Racing(s)
    PROVE  FewResolve(s)'
<1>1. /\ IsFiniteSet(Resolutions(events, s))
      /\ Cardinality(Resolutions(events, s)) \in Nat
  BY FiniteResolutions
<1>2. IsFiniteSet(Racing(s)) /\ Cardinality(Racing(s)) \in Nat
  <2>1. Racing(s) \subseteq Caller
    BY DEF Racing
  <2>2. QED BY <2>1, FS_Subset, FS_CardinalityType
<1>3. /\ Cardinality(Resolutions(events, s)') \in Nat
      /\ Cardinality(Resolutions(events, s)') <= Cardinality(Resolutions(events, s))
  BY <1>1, FS_Subset, FS_CardinalityType
<1>4. /\ Cardinality(Racing(s)') \in Nat
      /\ Cardinality(Racing(s)') <= Cardinality(Racing(s))
  BY <1>2, FS_Subset, FS_CardinalityType
<1>5. Cardinality(Caller) \in Nat
  BY FS_CardinalityType
<1>6. FewResolve(s)' <=> Cardinality(Resolutions(events, s)') + Cardinality(Racing(s)')
                            <= Cardinality(Caller)
  BY DEF FewResolve, Caller
<1>7. Cardinality(Resolutions(events, s)) + Cardinality(Racing(s))
        <= Cardinality(Caller)
  BY DEF FewResolve
<1>8. QED BY <1>1, <1>2, <1>3, <1>4, <1>5, <1>6, <1>7


(* One caller writes: it leaves the race, and there is one more resolution. *)
LEMMA FewWrite ==
    ASSUME NEW s \in Nat, FewResolve(s), IsFiniteSet(Caller),
           Len(events) \in Nat, NEW a \in Racing(s),
           Resolutions(events, s)' \subseteq
               Resolutions(events, s) \cup {Len(events) + 1},
           Racing(s)' \subseteq Racing(s) \ {a}
    PROVE  FewResolve(s)'
<1> DEFINE R == Resolutions(events, s)
           A == Racing(s)
           R1 == R \cup {Len(events) + 1}
           A1 == A \ {a}
<1>1. IsFiniteSet(R) /\ Cardinality(R) \in Nat
  BY FiniteResolutions
<1>2. IsFiniteSet(A) /\ Cardinality(A) \in Nat
  <2>1. Racing(s) \subseteq Caller
    BY DEF Racing
  <2>2. QED BY <2>1, FS_Subset, FS_CardinalityType
<1>3. /\ IsFiniteSet(R1) /\ Cardinality(R1) \in Nat
      /\ Cardinality(R1) <= Cardinality(R) + 1
  <2>1. /\ IsFiniteSet(R1)
        /\ \/ Cardinality(R1) = Cardinality(R)
           \/ Cardinality(R1) = Cardinality(R) + 1
    BY <1>1, FS_AddElement
  <2>2. QED BY <1>1, <2>1
<1>4. /\ IsFiniteSet(A1) /\ Cardinality(A1) = Cardinality(A) - 1
  BY <1>2, FS_RemoveElement
<1>5. /\ Cardinality(R') \in Nat /\ Cardinality(R') <= Cardinality(R1)
  <2>1. R' \subseteq R1
    OBVIOUS
  <2>2. QED BY <1>3, <2>1, FS_Subset, FS_CardinalityType
<1>6. /\ Cardinality(A') \in Nat /\ Cardinality(A') <= Cardinality(A1)
  <2>1. A' \subseteq A1
    OBVIOUS
  <2>2. QED BY <1>4, <2>1, FS_Subset, FS_CardinalityType
<1>7. Cardinality(Caller) \in Nat
  BY FS_CardinalityType
<1>8. FewResolve(s)' <=> Cardinality(R') + Cardinality(A') <= Cardinality(Caller)
  BY DEF FewResolve, Caller
<1>9. Cardinality(R) + Cardinality(A) <= Cardinality(Caller)
  BY DEF FewResolve
<1> HIDE DEF R, A, R1, A1
<1>10. QED BY <1>1, <1>2, <1>3, <1>4, <1>5, <1>6, <1>7, <1>8, <1>9

(* A gate found pending in a record that fits the page has no resolution.  *)
LEMMA PendingUnresolved ==
    ASSUME Shapes, Decided, Len(events) < PageLimit, NEW s, MayResolve(s)
    PROVE  s \in Nat /\ Resolutions(events, s) = {}
<1>1. Len(events) \in Nat /\ Page = events
  BY DEF Shapes, Page
<1>2. s \in Gates(events) /\ s \in Nat /\ State(events, s) = "pending"
  BY <1>1 DEF MayResolve, Gates
<1>3. ASSUME Resolutions(events, s) # {}
      PROVE  FALSE
  <2>1. PICK m \in Resolutions(events, s) : State(events, s) = events[m].decision
    BY <1>1, <1>2, <1>3, StateFirst
  <2>2. m \in 1..Len(events) /\ events[m].target_seq = s
    BY <1>1, <1>2 DEF Resolutions
  <2>3. events[m].decision \in Decision
    BY <1>2, <2>2, ApprovalsAssumption DEF Decided
  <2>4. QED BY <1>2, <2>1, <2>3 DEF Decision
<1>4. QED BY <1>2, <1>3

(* The races after a request moved, of whatever gate.                      *)
LEMMA RacingMoves ==
    ASSUME request \in [Caller -> InFlightSet], NEW a \in Caller, NEW req,
           request' = [request EXCEPT ![a] = req], NEW s
    PROVE  /\ req.pc # "append" => Racing(s)' \subseteq Racing(s) \ {a}
           /\ Racing(s)' \subseteq Racing(s) \cup
                 (IF req.pc = "append" /\ req.target = s THEN {a} ELSE {})
<1>1. Racing(s)' = {b \in Caller : /\ request'[b].pc = "append"
                                   /\ request'[b].target = s}
  BY DEF Racing, Caller
<1>2. \A b \in Caller : request'[b] = IF b = a THEN req ELSE request[b]
  OBVIOUS
<1>3. QED BY <1>1, <1>2 DEF Racing

(* Requests that move on without passing a check.                          *)
LEMMA QuietMoves ==
    ASSUME IInv, RacesFit, IsFiniteSet(Caller), UNCHANGED events,
           \/ UNCHANGED request
           \/ \E a \in Caller : \E req :
                 request' = [request EXCEPT ![a] = req] /\ req.pc # "append"
    PROVE  RacesFit'
<1>1. Decided' /\ Len(events) \in Nat /\ request \in [Caller -> InFlightSet]
  BY DEF RacesFit, Decided, IInv, Shapes
<1>2. ASSUME NEW s \in Nat
      PROVE  FewResolve(s)'
  <2>1. Resolutions(events, s)' = Resolutions(events, s)
    BY DEF Resolutions
  <2>2. Racing(s)' \subseteq Racing(s)
    <3>1. CASE UNCHANGED request
      BY <3>1 DEF Racing, Caller
    <3>2. CASE ~UNCHANGED request
      BY <1>1, <3>2, RacingMoves
    <3>3. QED BY <3>1, <3>2
  <2>3. FewResolve(s)
    BY DEF RacesFit
  <2>4. QED BY <1>1, <2>1, <2>2, <2>3, FewStay
<1>3. QED BY <1>1, <1>2 DEF RacesFit

(* The routes that write an event which resolves nothing.                  *)
LEMMA QuietWrites ==
    ASSUME IInv, RacesFit, IsFiniteSet(Caller), NEW es, Thins(es),
           NEW e \in {Other} \cup {Requested(t) : t \in 0..MaxTime},
           events' = Append(es, e), UNCHANGED request
    PROVE  RacesFit'
<1>1. Shapes /\ Len(events) \in Nat /\ MaxTime \in Nat
  BY ApprovalsAssumption DEF IInv, Shapes
<1>2. e \in EventSet /\ e.target_seq = None /\ None \notin Nat
  BY <1>1, ApprovalsAssumption DEF EventSet, Other, Requested, Event
<1>3. Decided'
  BY <1>1, <1>2, ThinsDecided DEF RacesFit
<1>4. ASSUME NEW s \in Nat
      PROVE  FewResolve(s)'
  <2>1. e.target_seq # s
    BY <1>2
  <2>2. Resolutions(events, s)' \subseteq Resolutions(events, s)
    BY <1>1, <1>2, <2>1, ThinsResolutions
  <2>3. Racing(s)' \subseteq Racing(s)
    BY DEF Racing, Caller
  <2>4. FewResolve(s)
    BY DEF RacesFit
  <2>5. QED BY <1>1, <2>2, <2>3, <2>4, FewStay
<1>5. QED BY <1>3, <1>4 DEF RacesFit

(* A check: whoever passes it, nothing has resolved the gate yet.          *)
LEMMA CheckFits ==
    ASSUME IInv, RacesFit, IsFiniteSet(Caller), Len(events) < PageLimit,
           NEW a \in Caller, Check(a)
    PROVE  RacesFit'
<1>1. /\ Shapes /\ Decided /\ Len(events) \in Nat
      /\ request \in [Caller -> InFlightSet] /\ UNCHANGED events
      /\ request[a] \in InFlightSet
  BY DEF IInv, Shapes, RacesFit, Check
<1>2. CASE request' = [request EXCEPT ![a] = Idle]
  <2>1. Idle.pc # "append" /\ UNCHANGED events
    BY <1>1, <1>2 DEF Idle, InFlight
  <2>2. QED BY <1>2, <2>1, QuietMoves
<1>3. CASE /\ MayResolve(request[a].target)
           /\ request' = [request EXCEPT ![a] = [@ EXCEPT !.pc = "append"]]
  <2> DEFINE req == [request[a] EXCEPT !.pc = "append"]
             t == request[a].target
  <2>1. req.pc = "append" /\ req.target = t
    BY <1>1 DEF InFlightSet
  <2>2. t \in Nat /\ Resolutions(events, t) = {}
    BY <1>1, <1>3, PendingUnresolved DEF RacesFit
  <2>3. request' = [request EXCEPT ![a] = req]
    BY <1>3
  <2> HIDE DEF req, t
  <2>4. ASSUME NEW s \in Nat
        PROVE  FewResolve(s)'
    <3>1. Resolutions(events, s)' = Resolutions(events, s)
      BY <1>1 DEF Resolutions
    <3>2. CASE s # t
      <4>1. Racing(s)' \subseteq Racing(s)
        BY <1>1, <2>1, <2>3, <3>2, RacingMoves
      <4>2. FewResolve(s)
        BY DEF RacesFit
      <4>3. QED BY <1>1, <3>1, <4>1, <4>2, FewStay
    <3>3. CASE s = t
      <4>1. Cardinality(Resolutions(events, s)') = 0
        BY <2>2, <3>1, <3>3, FS_EmptySet
      <4>2. Racing(s)' \subseteq Caller
        BY DEF Racing, Caller
      <4>3. /\ Cardinality(Racing(s)') \in Nat /\ Cardinality(Caller) \in Nat
            /\ Cardinality(Racing(s)') <= Cardinality(Caller)
        BY <4>2, FS_Subset, FS_CardinalityType
      <4>4. FewResolve(s)' <=> Cardinality(Resolutions(events, s)')
                                 + Cardinality(Racing(s)') <= Cardinality(Caller)
        BY DEF FewResolve, Caller
      <4>5. QED BY <4>1, <4>3, <4>4
    <3>4. QED BY <3>2, <3>3
  <2>5. Decided'
    BY <1>1 DEF Decided
  <2>6. QED BY <2>4, <2>5 DEF RacesFit
<1>4. QED BY <1>2, <1>3 DEF Check

(* A decision is written: one racer less, one resolution more.             *)
LEMMA WriteFits ==
    ASSUME IInv, RacesFit, IsFiniteSet(Caller), NEW a \in Caller, Write(a)
    PROVE  RacesFit'
<1>1. /\ Shapes /\ Len(events) \in Nat /\ MaxTime \in Nat
      /\ request \in [Caller -> InFlightSet]
      /\ RequestOK(request[a], events, now) /\ request[a].pc = "append"
  BY ApprovalsAssumption DEF IInv, Shapes, Requests, Write
<1>2. CASE request' = [request EXCEPT ![a] = Idle] /\ UNCHANGED events
  <2>1. Idle.pc # "append" /\ UNCHANGED events
    BY <1>1, <1>2 DEF Idle, InFlight
  <2>2. QED BY <1>2, <2>1, QuietMoves
<1>3. CASE /\ events' = Append(events, Resolved(request[a].target,
                                               request[a].decision))
           /\ request' = [request EXCEPT ![a] = AfterWrite(@)]
  <2> DEFINE e == Resolved(request[a].target, request[a].decision)
             req == AfterWrite(request[a])
             t == request[a].target
  <2>1. t \in 1..Len(events) /\ request[a].decision \in Decision
    BY <1>1 DEF RequestOK, ResolvingOK
  <2>2. /\ e \in EventSet /\ e.target_seq = t
        /\ e.decision \in Decision
    BY <1>1, <2>1 DEF Resolved, Event, EventSet
  <2>3. req.pc # "append"
    BY DEF AfterWrite, Idle, Expiring, InFlight
  <2>4. events' = Append(events, e) /\ request' = [request EXCEPT ![a] = req]
    BY <1>3
  <2>5. a \in Racing(t)
    BY <1>1 DEF Racing
  <2> HIDE DEF e, req, t
  <2>6. Thins(events)
    BY <1>1, ThinsSame
  <2>7. Decided'
    BY <1>1, <2>2, <2>4, <2>6, ThinsDecided DEF RacesFit
  <2>8. ASSUME NEW s \in Nat
        PROVE  FewResolve(s)'
    <3>1. Racing(s)' \subseteq Racing(s) \ {a}
      BY <1>1, <2>3, <2>4, RacingMoves
    <3>2. FewResolve(s)
      BY DEF RacesFit
    <3>3. /\ Resolutions(events, s)' \subseteq
               Resolutions(events, s) \cup {Len(events) + 1}
          /\ s # t => Resolutions(events, s)' \subseteq Resolutions(events, s)
      BY <1>1, <2>2, <2>4, <2>6, ThinsResolutions
    <3>4. CASE s = t
      BY <1>1, <2>5, <3>1, <3>2, <3>3, <3>4, FewWrite
    <3>5. CASE s # t
      BY <1>1, <3>1, <3>2, <3>3, <3>5, FewStay
    <3>6. QED BY <3>4, <3>5
  <2>9. QED BY <2>7, <2>8 DEF RacesFit
<1>4. QED BY <1>2, <1>3 DEF Write

(* Every step, as long as one page holds the record.                       *)
LEMMA NextFits ==
    ASSUME IInv, RacesFit, IsFiniteSet(Caller), Len(events) < PageLimit,
           [Next]_vars
    PROVE  RacesFit'
<1>1. Shapes /\ Thins(events)
  BY ThinsSame DEF IInv
<1>2. CASE \/ AppendEvent(Other)
           \/ \E t \in 0..MaxTime : AppendEvent(Requested(t))
           \/ Seal
  <2>1. PICK e \in {Other} \cup {Requested(t) : t \in 0..MaxTime} :
           events' = Append(events, e) /\ UNCHANGED request
    BY <1>2 DEF AppendEvent, Seal
  <2>2. QED BY <1>1, <2>1, QuietWrites
<1>3. ASSUME NEW s \in 1..Len(events), NEW fs, Redact(s, fs)
      PROVE  RacesFit'
  <2>1. Thins([events EXCEPT ![s] = Erased(@, fs)])
    BY <1>1, RedactThins
  <2>2. QED BY <1>3, <2>1, QuietWrites DEF Redact
<1>4. CASE Tick \/ UNCHANGED vars
  BY <1>4, QuietMoves DEF Tick, vars
<1>5. ASSUME NEW r \in Reviewer, NEW s, NEW d, Submit(r, s, d)
      PROVE  RacesFit'
  <2>1. InFlight("check", s, d, {}, <<>>).pc # "append" /\ r \in Caller
    BY DEF InFlight, Caller
  <2>2. QED BY <1>5, <2>1, QuietMoves DEF Submit
<1>6. ASSUME NEW a \in Caller, Poll(a)
      PROVE  RacesFit'
  <2>1. InFlight("expire", None, None, {}, Page).pc # "append"
    BY DEF InFlight
  <2>2. QED BY <1>6, <2>1, QuietMoves DEF Poll
<1>7. ASSUME NEW a \in Caller, Expire(a) \/ Reread(a)
      PROVE  RacesFit'
  <2>1. PICK req : request' = [request EXCEPT ![a] = req] /\ req.pc # "append"
    BY <1>7 DEF Expire, Reread, Answer, Expiring, Idle, InFlight
  <2>2. UNCHANGED events
    BY <1>7 DEF Expire, Reread
  <2>3. QED BY <2>1, <2>2, QuietMoves
<1>8. ASSUME NEW a \in Caller, Check(a)
      PROVE  RacesFit'
  BY <1>8, CheckFits
<1>9. ASSUME NEW a \in Caller, Write(a)
      PROVE  RacesFit'
  BY <1>9, WriteFits
<1>10. QED BY <1>2, <1>3, <1>4, <1>5, <1>6, <1>7, <1>8, <1>9 DEF Next

(* However many callers race for a gate, each gets at most one resolution  *)
(* of it past the check: a gate is never resolved more often than there    *)
(* are callers, erasing included.  That is said of records one read of the *)
(* store returns whole: a resolution beyond the page is not seen by the    *)
(* next check, and nothing bounds their number then.                       *)
THEOREM RacesBounded ==
    IsFiniteSet(Caller) =>
        (Spec /\ [](Len(events) < PageLimit) => []OnlyRacesResolveTwice)
<1> SUFFICES ASSUME IsFiniteSet(Caller)
             PROVE  Spec /\ [](Len(events) < PageLimit) => []OnlyRacesResolveTwice
  OBVIOUS
<1>1. Init => RacesFit
  <2> SUFFICES ASSUME Init PROVE RacesFit
    OBVIOUS
  <2>1. Len(events) = 0 /\ 1..0 = {}
    BY DEF Init
  <2>2. Decided
    BY <2>1 DEF Decided
  <2>3. ASSUME NEW s \in Nat
        PROVE  FewResolve(s)
    <3>1. (s + 1)..0 = {}
      OBVIOUS
    <3>2. Resolutions(events, s) = {}
      BY <2>1, <3>1 DEF Resolutions
    <3>3. Racing(s) = {}
      BY DEF Init, Racing, Idle, InFlight
    <3>4. Cardinality(Caller) \in Nat
      BY FS_CardinalityType
    <3>5. QED BY <3>2, <3>3, <3>4, FS_EmptySet DEF FewResolve
  <2>4. QED BY <2>2, <2>3 DEF RacesFit
<1>2. IInv /\ RacesFit /\ Len(events) < PageLimit /\ [Next]_vars => RacesFit'
  BY NextFits
<1>3. IInv /\ RacesFit => OnlyRacesResolveTwice
  <2> SUFFICES ASSUME IInv, RacesFit, NEW s \in Gates(events)
               PROVE  Cardinality(Resolutions(events, s)) <= Cardinality(Caller)
    BY DEF OnlyRacesResolveTwice
  <2>1. Len(events) \in Nat /\ s \in Nat
    BY DEF IInv, Shapes, Gates
  <2>2. Cardinality(Resolutions(events, s)) \in Nat
    BY <2>1, FiniteResolutions
  <2>3. Cardinality(Racing(s)) \in Nat /\ Cardinality(Caller) \in Nat
    <3>1. Racing(s) \subseteq Caller
      BY DEF Racing
    <3>2. QED BY <3>1, FS_Subset, FS_CardinalityType
  <2>4. Cardinality(Resolutions(events, s)) + Cardinality(Racing(s))
          <= Cardinality(Caller)
    BY <2>1 DEF RacesFit, FewResolve
  <2>5. QED BY <2>2, <2>3, <2>4
<1>4. QED BY <1>1, <1>2, <1>3, Invariance, PTL DEF Spec
=============================================================================
