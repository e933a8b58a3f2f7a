----------------------------- MODULE StreamRoutes -----------------------------
(***************************************************************************)
(* The stream routes (api.rs) for one stream of one tenant, over the       *)
(* in-memory registry: handlers of publish, complete, fail and delete that *)
(* are authorised by KeyVerifier and report to TenantEvents, and readers   *)
(* that come in by SSE or WebSocket, with a ticket or without.             *)
(*                                                                         *)
(* A handler is cut wherever it awaits, and wherever it lets go of a lock  *)
(* between two looks at the same thing.  The chunks themselves, and how    *)
(* they are delivered, are MemoryStream's; of a Stream this module keeps   *)
(* what admission depends on.  A request with the static token works on    *)
(* streams outside every tenant's namespace, and reports nothing.          *)
(***************************************************************************)
EXTENDS KeyVerifier, TenantEvents, Sequences, FiniteSets

CONSTANTS SubscriberCap,  \* max_subscribers_per_stream
          MaxStreams      \* bound: Streams ever created for the id

ASSUME RoutesAssumption ==
    /\ IsFiniteSet(Handler)
    /\ SubscriberCap \in Nat \ {0}
    /\ MaxStreams \in Nat \ {0}

VARIABLES streams,   \* the Streams created for the id, in order
          current,   \* the one the registry holds, 0 for none
          request    \* what each handler is doing

routes == <<streams, current, request>>
vars == <<streams, current, request, verifier, events>>

-----------------------------------------------------------------------------
(* `holds`: a chunk was published as private; `apart`: history, not on the *)
(* Stream that request had marked.                                         *)
NewStream == [private |-> FALSE, holds |-> FALSE, apart |-> FALSE]

(* `late`: history, Streams marked private after this reader was let past; *)
(* `passed`: history, another reader was counted since it saw the count.   *)
NoRequest == [pc |-> "idle", op |-> "none", stream |-> 0, ticket |-> FALSE,
              late |-> {}, passed |-> FALSE]

Write == {"publish", "private", "end", "delete"}
At(h, pc) == request[h].pc = pc
Step(h, pc) == request' = [request EXCEPT ![h].pc = pc]
Leaves(h) == request' = [request EXCEPT ![h] = NoRequest]

(* get_or_create.                                                          *)
WithStream == IF current = 0 THEN Append(streams, NewStream) ELSE streams
Registered == IF current = 0 THEN Len(streams) + 1 ELSE current
CanRegister == current # 0 \/ Len(streams) < MaxStreams
Register == CanRegister /\ current' = Registered

IsPrivate == current # 0 /\ streams[current].private

(* subscriber_count: the readers of the registered Stream that were polled. *)
Counted(i) == {h \in Handler : At(h, "streaming") /\ request[h].stream = i}

(* Some other handler is between two steps that belong together: it has    *)
(* looked for the owner and not reported yet, or reported and not forgotten. *)
Overlapping(h) ==
    \E g \in Handler \ {h} : request[g].pc \in {"claim", "announce", "count", "forget"}

-----------------------------------------------------------------------------
Init ==
    /\ VerifierInit
    /\ EventsInit
    /\ streams = <<>>
    /\ current = 0
    /\ request = [h \in Handler |-> NoRequest]

(* A write comes in: authorize_write asks the verifier.                    *)
Begin(h, op) ==
    /\ At(h, "idle")
    /\ request' = [request EXCEPT ![h] = [NoRequest EXCEPT !.pc = "verifying", !.op = op]]
    /\ Lookup(h)
    /\ UNCHANGED <<streams, current, events>>

(* What is granted for no tenant is done to a stream of that namespace.    *)
Authorized(h) ==
    /\ At(h, "verifying")
    /\ IF call[h] = "allowed" THEN Step(h, "authorized") ELSE Leaves(h)
    /\ Release(h)
    /\ UNCHANGED <<streams, current, events>>

Verifying ==
    /\ \/ Revoke \/ Pass
       \/ \E h \in Handler :
             \/ Answer(h) \/ GiveUp(h)
             \/ \E readable \in BOOLEAN : Arrive(h, readable)
    /\ UNCHANGED <<routes, events>>

(* publish, ?private=1: the Stream of that moment is marked ...            *)
SetPrivate(h) ==
    /\ At(h, "authorized") /\ request[h].op = "private"
    /\ Register
    /\ streams' = [WithStream EXCEPT ![Registered].private = TRUE]
    /\ request' = [g \in Handler |->
                     IF g = h
                     THEN [request[g] EXCEPT !.pc = "marked", !.stream = Registered]
                     ELSE [request[g] EXCEPT !.late =
                             IF /\ request[g].op = "read" /\ ~request[g].ticket
                                /\ ~WithStream[Registered].private
                             THEN @ \cup {Registered} ELSE @]]
    /\ UNCHANGED <<verifier, events>>

PublishReady(h) ==
    \/ At(h, "authorized") /\ request[h].op = "publish"
    \/ At(h, "marked")

(* ... and the chunk goes to the Stream of this one.                       *)
Publish(h) ==
    /\ PublishReady(h)
    /\ Register
    /\ streams' = IF request[h].op = "publish" THEN WithStream
                  ELSE [WithStream EXCEPT
                          ![Registered].holds = TRUE,
                          ![Registered].apart = @ \/ request[h].stream \notin {0, Registered}]
    /\ request' = [request EXCEPT ![h] = [NoRequest EXCEPT !.pc = "published"]]
    /\ UNCHANGED <<verifier, events>>

(* Without an owner on record this publish is the first.                   *)
CheckOwner(h) ==
    /\ At(h, "published")
    /\ Step(h, IF owner THEN "count" ELSE "claim")
    /\ Quiet(Overlapping(h))
    /\ UNCHANGED <<streams, current, verifier, owner>>

SetOwner(h) ==
    /\ At(h, "claim")
    /\ Step(h, "announce")
    /\ owner' = TRUE
    /\ Quiet(Overlapping(h))
    /\ UNCHANGED <<streams, current, verifier>>

Created(h) ==
    /\ At(h, "announce")
    /\ Step(h, "count")
    /\ Send("created", Overlapping(h))
    /\ UNCHANGED <<streams, current, verifier, owner>>

CountTokens(h) ==
    /\ At(h, "count")
    /\ Leaves(h)
    /\ Send("other", Overlapping(h))
    /\ UNCHANGED <<streams, current, verifier, owner>>

(* complete and fail: the Stream is ended, the event sent, the owner       *)
(* forgotten.                                                              *)
End(h) ==
    /\ At(h, "authorized") /\ request[h].op = "end"
    /\ Register
    /\ streams' = WithStream
    /\ Step(h, "ended")
    /\ UNCHANGED <<verifier, events>>

TellEnd(h) ==
    /\ At(h, "ended")
    /\ Step(h, "forget")
    /\ SendToOwner("terminal", Overlapping(h))
    /\ UNCHANGED <<streams, current, verifier>>

Forget(h) ==
    /\ At(h, "forget")
    /\ Leaves(h)
    /\ owner' = Forgotten
    /\ Quiet(Overlapping(h))
    /\ UNCHANGED <<streams, current, verifier>>

(* delete_stream; the owner stays on record.                               *)
Delete(h) ==
    /\ At(h, "authorized") /\ request[h].op = "delete"
    /\ Leaves(h)
    /\ current' = 0
    /\ UNCHANGED <<streams, verifier, events>>

(* The reaper, or eviction by a stream of another id.                      *)
Evict ==
    /\ current # 0
    /\ current' = 0
    /\ UNCHANGED <<streams, request, verifier, events>>

(* Mutation of MayRead: the ticket is not asked for.                       *)
MayReadAlways(ticket) == TRUE

MayRead(ticket) == ticket \/ ~IsPrivate

(* subscribe and subscribe_ws: a ticket that verifies, or a stream that is *)
(* not private ...                                                         *)
Enter(h, ticket) ==
    /\ At(h, "idle")
    /\ MayRead(ticket)
    /\ request' = [request EXCEPT ![h] = [NoRequest EXCEPT !.pc = "entered",
                                                           !.op = "read",
                                                           !.ticket = ticket]]
    /\ UNCHANGED <<streams, current, verifier, events>>

(* Mutation of Full: one more than the cap is let in.                      *)
FullLate == current # 0 /\ Cardinality(Counted(current)) > SubscriberCap

Full == current # 0 /\ Cardinality(Counted(current)) >= SubscriberCap

(* ... then the cap, and the subscriber is reported ...                    *)
Admit(h) ==
    /\ At(h, "entered")
    /\ IF Full THEN /\ Leaves(h)
                    /\ UNCHANGED events
               ELSE /\ Step(h, "admitted")
                    /\ SendToOwner("other", Overlapping(h))
    /\ UNCHANGED <<streams, current, verifier>>

(* ... then the Stream of this moment is taken ...                         *)
Open(h) ==
    /\ At(h, "admitted")
    /\ Register
    /\ streams' = WithStream
    /\ request' = [request EXCEPT ![h].pc = "opened", ![h].stream = Registered]
    /\ UNCHANGED <<verifier, events>>

(* ... and counted when it is first polled, which may announce a gap.      *)
Poll(h) ==
    /\ At(h, "opened")
    /\ request' = [g \in Handler |->
                     IF g = h THEN [request[g] EXCEPT !.pc = "streaming"]
                     ELSE [request[g] EXCEPT !.passed =
                             @ \/ request[g].pc \in {"admitted", "opened"}]]
    /\ SendToOwner("other", Overlapping(h)) \/ UNCHANGED events
    /\ UNCHANGED <<streams, current, verifier>>

(* The connection is over: SubGuard reports it.                            *)
Leave(h) ==
    /\ request[h].pc \in {"opened", "streaming"}
    /\ Leaves(h)
    /\ SendToOwner("other", Overlapping(h))
    /\ UNCHANGED <<streams, current, verifier>>

(* subscribe_ws: the upgrade fails, and no guard was made yet.             *)
UpgradeFails(h) ==
    /\ At(h, "admitted")
    /\ Leaves(h)
    /\ UNCHANGED <<streams, current, verifier, events>>

Reporter == (Take \/ Flush) /\ UNCHANGED <<routes, verifier>>

Next ==
    \/ Verifying \/ Reporter \/ Evict
    \/ \E h \in Handler :
          \/ \E op \in Write : Begin(h, op)
          \/ \E ticket \in BOOLEAN : Enter(h, ticket)
          \/ Authorized(h) \/ SetPrivate(h) \/ Publish(h) \/ CheckOwner(h)
          \/ SetOwner(h) \/ Created(h) \/ CountTokens(h) \/ End(h) \/ TellEnd(h)
          \/ Forget(h) \/ Delete(h) \/ Admit(h) \/ Open(h) \/ Poll(h) \/ Leave(h)
          \/ UpgradeFails(h)

Spec == Init /\ [][Next]_vars

-----------------------------------------------------------------------------
(* Every handler waits for at most one answer, every Stream a request      *)
(* holds was created, and channel and batch keep to their sizes.           *)
TypeOK ==
    /\ cache \in 0..CacheTtl
    /\ call \in [Handler -> CallState]
    /\ \A h \in Handler : UnderWay(h) => At(h, "verifying") /\ waited[h] <= VerifyTimeout
    /\ queued \in 0..QueueSize /\ buffered \in 0..BatchSize - 1
    /\ current \in 0..Len(streams)
    /\ \A h \in Handler : request[h].stream \in 0..Len(streams)

(* A reader without a ticket is on a Stream that holds a chunk published   *)
(* as private only if it was let past before that Stream was marked, or    *)
(* the Stream marked was another one, dropped before the chunk came.       *)
PrivateNeedsTicket ==
    \A h \in Handler :
        LET r == request[h]
        IN  /\ r.pc \in {"opened", "streaming"} /\ ~r.ticket
            /\ streams[r.stream].holds
            => r.stream \in r.late \/ streams[r.stream].apart

(* A Stream has more subscribers than the cap only if one of them saw the  *)
(* count before another that was let in with it was counted.               *)
OnlyRacesExceedCap ==
    \A i \in 1..Len(streams) :
        Cardinality(Counted(i)) > SubscriberCap => \E h \in Counted(i) : request[h].passed

(* What the control plane is told adds up: a stream is created once and    *)
(* first, and nothing follows its end, unless two handlers reported at the *)
(* same time or the channel was full.                                      *)
AccountAddsUp == account # "wrong"
=============================================================================
