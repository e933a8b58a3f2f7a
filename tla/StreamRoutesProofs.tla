-------------------------- MODULE StreamRoutesProofs --------------------------
(***************************************************************************)
(* Proofs about StreamRoutes and the KeyVerifier and TenantEvents in it,   *)
(* for any number of requests, any cap, any timeouts and queue, and any    *)
(* number of Streams.                                                      *)
(***************************************************************************)
EXTENDS StreamRoutes, FiniteSetTheorems, TLAPS

-----------------------------------------------------------------------------
(* The verifier: a yes under way is no older than its call, and a cached   *)
(* one no older than a call and what has passed of its lifetime.           *)
VerifierShapes ==
    /\ cache \in 0..CacheTtl
    /\ blank \in BOOLEAN
    /\ revoked \in Nat
    /\ call \in [Handler -> CallState]
    /\ waited \in [Handler -> 0..VerifyTimeout]

CallsOK == \A h \in Handler : call[h] = "yes" => revoked <= waited[h] + 1

CacheOK == cache > 0 => revoked + cache <= CacheTtl + VerifyTimeout + 1

VerifierOK == VerifierShapes /\ CallsOK /\ CacheOK

(* A request is let past on a recent word.                                 *)
Fresh == \A h \in Handler :
            call[h] \notin Granted /\ call'[h] \in Granted =>
                revoked <= CacheTtl + VerifyTimeout

LEMMA VerifierStarts == VerifierInit => VerifierOK
<1> SUFFICES ASSUME VerifierInit PROVE VerifierOK
  OBVIOUS
<1>1. blank \in BOOLEAN
  BY DEF VerifierInit
<1>2. /\ call = [h \in Handler |-> "idle"] /\ call \in [Handler -> CallState]
      /\ waited \in [Handler -> 0..VerifyTimeout]
  BY VerifierAssumption DEF VerifierInit, CallState
<1>3. cache = 0 /\ revoked = 0
  BY DEF VerifierInit
<1>4. VerifierShapes
  BY VerifierAssumption, <1>1, <1>2, <1>3 DEF VerifierShapes
<1>5. CallsOK /\ CacheOK
  BY <1>2, <1>3 DEF CallsOK, CacheOK
<1>6. QED BY <1>4, <1>5 DEF VerifierOK

LEMMA LookupOK ==
    ASSUME VerifierOK, NEW h \in Handler, Lookup(h)
    PROVE  VerifierOK' /\ Fresh
<1> USE VerifierAssumption DEF VerifierOK, VerifierShapes
<1>1. /\ cache' = cache /\ blank' = blank /\ revoked' = revoked
      /\ \E s \in {"asked", "elsewhere", "allowed"} :
            /\ call' = [call EXCEPT ![h] = s]
            /\ s \in {"elsewhere", "allowed"} => cache # 0
      /\ waited' = [waited EXCEPT ![h] = 0]
  BY DEF Lookup, Said
<1>2. PICK s \in {"asked", "elsewhere", "allowed"} :
            /\ call' = [call EXCEPT ![h] = s]
            /\ s \in {"elsewhere", "allowed"} => cache # 0
  BY <1>1
<1>3. VerifierShapes'
  BY <1>1, <1>2 DEF CallState, Granted
<1>4. CallsOK'
  BY <1>1, <1>2 DEF CallsOK
<1>5. CacheOK'
  BY <1>1 DEF CacheOK
<1>6. Fresh
  <2>1. SUFFICES ASSUME NEW g \in Handler,
                        call[g] \notin Granted, call'[g] \in Granted
                 PROVE  revoked <= CacheTtl + VerifyTimeout
    BY DEF Fresh
  <2>2. g = h /\ s \in Granted
    BY <1>2, <2>1
  <2>3. cache # 0
    BY <1>2, <2>2 DEF Granted
  <2>4. QED BY <2>3 DEF CacheOK
<1>7. QED BY <1>3, <1>4, <1>5, <1>6

LEMMA AnswerOK ==
    ASSUME VerifierOK, NEW h \in Handler, Answer(h)
    PROVE  VerifierOK' /\ Fresh
<1> USE VerifierAssumption DEF VerifierOK, VerifierShapes
<1>1. /\ cache' = cache /\ blank' = blank /\ revoked' = revoked /\ waited' = waited
      /\ \E s \in {"yes", "denied"} :
            /\ call' = [call EXCEPT ![h] = s]
            /\ s = "yes" => revoked = 0
  BY DEF Answer
<1>2. PICK s \in {"yes", "denied"} :
            /\ call' = [call EXCEPT ![h] = s]
            /\ s = "yes" => revoked = 0
  BY <1>1
<1>3. VerifierShapes'
  BY <1>1, <1>2 DEF CallState
<1>4. CallsOK'
  BY <1>1, <1>2 DEF CallsOK
<1>5. CacheOK'
  BY <1>1 DEF CacheOK
<1>6. Fresh
  BY <1>2 DEF Fresh, Granted
<1>7. QED BY <1>3, <1>4, <1>5, <1>6

LEMMA ArriveOK ==
    ASSUME VerifierOK, NEW h \in Handler, NEW readable \in BOOLEAN, Arrive(h, readable)
    PROVE  VerifierOK' /\ Fresh
<1> USE VerifierAssumption DEF VerifierOK, VerifierShapes
<1>1. /\ cache' = CacheTtl /\ blank' = ~readable /\ revoked' = revoked
      /\ waited' = [waited EXCEPT ![h] = 0]
      /\ \E s \in Granted : call' = [call EXCEPT ![h] = s]
      /\ call[h] = "yes"
  BY DEF Arrive, Said, Granted
<1>2. PICK s \in Granted : call' = [call EXCEPT ![h] = s]
  BY <1>1
<1>3. VerifierShapes'
  BY <1>1, <1>2 DEF CallState, Granted
<1>4. CallsOK'
  BY <1>1, <1>2 DEF CallsOK, Granted
<1>5. revoked <= VerifyTimeout + 1
  BY <1>1 DEF CallsOK
<1>6. CacheOK'
  BY <1>1, <1>5 DEF CacheOK
<1>7. Fresh
  BY <1>5 DEF Fresh
<1>8. QED BY <1>3, <1>4, <1>6, <1>7

(* A call that is given up, an answer that is done with, a revocation.     *)
LEMMA OthersOK ==
    ASSUME VerifierOK,
           Revoke \/ Pass \/ \E h \in Handler : GiveUp(h) \/ Release(h)
    PROVE  VerifierOK' /\ Fresh
<1> USE VerifierAssumption DEF VerifierOK, VerifierShapes
<1>1. CASE Revoke
  <2>1. VerifierShapes'
    BY <1>1 DEF Revoke
  <2>2. CallsOK'
    BY <1>1 DEF Revoke, CallsOK
  <2>3. CacheOK'
    BY <1>1 DEF Revoke, CacheOK
  <2>4. QED BY <1>1, <2>1, <2>2, <2>3 DEF Revoke, Fresh
<1>2. CASE Pass
  <2>1. \A h \in Handler : UnderWay(h) => waited[h] < VerifyTimeout
    BY <1>2 DEF Pass
  <2>2. /\ waited' = [h \in Handler |-> IF UnderWay(h) THEN waited[h] + 1 ELSE waited[h]]
        /\ call' = call
        /\ cache' = Aged
        /\ blank' = (blank /\ Aged # 0)
        /\ revoked' = IF revoked = 0 THEN 0 ELSE revoked + 1
    BY <1>2 DEF Pass
  <2>3. waited' \in [Handler -> 0..VerifyTimeout]
    BY <2>1, <2>2
  <2>4. blank' \in BOOLEAN
    BY <2>2
  <2>5. VerifierShapes'
    BY <2>2, <2>3, <2>4 DEF Aged
  <2>6. CallsOK'
    BY <2>2 DEF CallsOK, UnderWay
  <2>7. CacheOK'
    BY <2>2 DEF CacheOK, Aged
  <2>8. QED BY <2>2, <2>5, <2>6, <2>7 DEF Fresh
<1>3. CASE \E h \in Handler : GiveUp(h) \/ Release(h)
  <2>1. PICK h \in Handler : GiveUp(h) \/ Release(h)
    BY <1>3
  <2>2. /\ cache' = cache /\ blank' = blank /\ revoked' = revoked
        /\ waited' = [waited EXCEPT ![h] = 0]
        /\ \E s \in {"denied", "idle"} : call' = [call EXCEPT ![h] = s]
    BY <2>1 DEF GiveUp, Release, Said
  <2>3. PICK s \in {"denied", "idle"} : call' = [call EXCEPT ![h] = s]
    BY <2>2
  <2>4. VerifierShapes'
    BY <2>2, <2>3 DEF CallState
  <2>5. CallsOK'
    BY <2>2, <2>3 DEF CallsOK
  <2>6. CacheOK'
    BY <2>2 DEF CacheOK
  <2>7. Fresh
    BY <2>3 DEF Fresh, Granted
  <2>8. QED BY <2>4, <2>5, <2>6, <2>7
<1>4. QED BY <1>1, <1>2, <1>3

LEMMA VerifierSteps ==
    ASSUME VerifierOK, [VerifierNext]_verifier
    PROVE  VerifierOK' /\ [Fresh]_verifier
<1>1. CASE UNCHANGED verifier
  BY <1>1 DEF verifier, VerifierOK, VerifierShapes, CallsOK, CacheOK
<1>2. CASE VerifierNext
  BY <1>2, LookupOK, AnswerOK, ArriveOK, OthersOK DEF VerifierNext
<1>3. QED BY <1>1, <1>2

(* The verifier by itself: a revoked key is of no use to anyone once a     *)
(* call and a lifetime of the cache have passed.                           *)
THEOREM VerifierSound == VerifierSpec => RevocationWindow
<1>1. VerifierSpec => []VerifierOK
  BY VerifierStarts, VerifierSteps, PTL DEF VerifierSpec
<1>2. VerifierOK /\ [VerifierNext]_verifier => [Fresh]_verifier
  BY VerifierSteps
<1>3. [][Fresh]_verifier => RevocationWindow
  BY DEF RevocationWindow, Fresh
<1>4. QED BY <1>1, <1>2, <1>3, PTL DEF VerifierSpec

-----------------------------------------------------------------------------
(* The routes.  What requests and Streams are made of.                     *)
Steps == {"idle", "verifying", "authorized", "marked", "published", "claim",
          "announce", "count", "ended", "forget", "entered", "admitted",
          "opened", "streaming"}

Section == {"claim", "announce", "count", "forget"}

Request == [pc : Steps, op : Write \cup {"none", "read"}, stream : Nat,
            ticket : BOOLEAN, late : SUBSET Nat, passed : BOOLEAN]

Stream == [private : BOOLEAN, holds : BOOLEAN, apart : BOOLEAN]

Shapes ==
    /\ streams \in Seq(Stream)
    /\ current \in 0..Len(streams)
    /\ request \in [Handler -> Request]
    /\ \A h \in Handler : request[h].stream \in 0..Len(streams)

EventShapes ==
    /\ owner \in BOOLEAN
    /\ queued \in 0..QueueSize
    /\ buffered \in 0..BatchSize - 1
    /\ account \in {"open", "closed", "excused"}

(* Only a request that waits for the verifier has a call.                  *)
Calls == \A h \in Handler : call[h] # "idle" => At(h, "verifying")

(* A private chunk is on a Stream marked private, unless it missed it.     *)
HoldsOK(ss) == \A i \in 1..Len(ss) : ss[i].holds => ss[i].private \/ ss[i].apart

(* A private chunk that is on its way has a Stream marked for it.          *)
MarkOK(r, ss) ==
    r.pc = "marked" => r.stream \in 1..Len(ss) /\ ss[r.stream].private

(* A reader without a ticket knows of every mark that came after it: on    *)
(* the Stream it may yet open, and on the one it has opened.               *)
ReaderOK(r, ss, cur) ==
    r.pc \in {"entered", "admitted", "opened", "streaming"} /\ ~r.ticket =>
        /\ r.op = "read"
        /\ cur # 0 /\ ss[cur].private => cur \in r.late
        /\ r.pc \in {"opened", "streaming"} =>
              /\ r.stream \in 1..Len(ss)
              /\ ss[r.stream].private => r.stream \in r.late

PrivateOK ==
    /\ HoldsOK(streams)
    /\ \A h \in Handler : MarkOK(request[h], streams)
    /\ \A h \in Handler : ReaderOK(request[h], streams, current)

(* A Stream has room as far as a reader that no one passed has seen, and   *)
(* no more readers that were not passed than the cap.                      *)
Room(i) == i # 0 => Cardinality(Counted(i)) < SubscriberCap

Unpassed(i) == {h \in Counted(i) : ~request[h].passed}

RoomOK(r, cur) == ~r.passed => /\ r.pc = "admitted" => Room(cur)
                               /\ r.pc = "opened" => Room(r.stream)

CapOK ==
    /\ \A i \in Nat \ {0} : Cardinality(Unpassed(i)) <= SubscriberCap
    /\ \A h \in Handler : RoomOK(request[h], current)

(* What the account says, while at most one handler is in the section.     *)
SectionOK(h) ==
    /\ At(h, "claim")    => ~owner /\ account = "closed"
    /\ At(h, "announce") => owner /\ account = "closed"
    /\ At(h, "count")    => owner /\ account = "open"
    /\ At(h, "forget")   => account = "closed"

AccountOK ==
    account # "excused" =>
        /\ (\A h \in Handler : request[h].pc \notin Section) =>
              (owner <=> account = "open")
        /\ \A h \in Handler :
              request[h].pc \in Section /\ ~Overlapping(h) => SectionOK(h)

-----------------------------------------------------------------------------
(* get_or_create finds a Stream or adds one that is not private.           *)
LEMMA StreamThere ==
    ASSUME Shapes
    PROVE  /\ WithStream \in Seq(Stream)
           /\ Registered \in 1..Len(WithStream)
           /\ Len(streams) \in Nat /\ Len(WithStream) \in Nat
           /\ Len(streams) <= Len(WithStream)
           /\ \A i \in 1..Len(streams) : WithStream[i] = streams[i]
           /\ \A i \in 1..Len(WithStream) :
                 i \in 1..Len(streams) \/ WithStream[i] = NewStream
           /\ Registered = current \/ Registered = Len(streams) + 1
<1>1. streams \in Seq(Stream) /\ current \in 0..Len(streams)
  BY DEF Shapes
<1>2. NewStream \in Stream
  BY DEF NewStream, Stream
<1>3. CASE current = 0
  <2>1. WithStream = Append(streams, NewStream) /\ Registered = Len(streams) + 1
    BY <1>3 DEF WithStream, Registered
  <2>2. /\ Append(streams, NewStream) \in Seq(Stream)
        /\ Len(Append(streams, NewStream)) = Len(streams) + 1
        /\ Append(streams, NewStream)[Len(streams) + 1] = NewStream
        /\ \A i \in 1..Len(streams) : Append(streams, NewStream)[i] = streams[i]
        /\ Len(streams) \in Nat
    BY <1>1, <1>2
  <2>3. QED BY <2>1, <2>2
<1>4. CASE current # 0
  BY <1>1, <1>4 DEF WithStream, Registered
<1>5. QED BY <1>3, <1>4

(* The readers counted are finitely many.                                  *)
LEMMA CountedFinite ==
    ASSUME NEW i
    PROVE  /\ IsFiniteSet(Counted(i)) /\ Cardinality(Counted(i)) \in Nat
           /\ IsFiniteSet(Unpassed(i)) /\ Cardinality(Unpassed(i)) \in Nat
           /\ Unpassed(i) \subseteq Counted(i)
<1>1. Counted(i) \subseteq Handler /\ Unpassed(i) \subseteq Counted(i)
  BY DEF Counted, Unpassed
<1>2. IsFiniteSet(Handler)
  BY RoutesAssumption
<1>3. IsFiniteSet(Counted(i)) /\ IsFiniteSet(Unpassed(i))
  BY <1>1, <1>2, FS_Subset
<1>4. QED BY <1>1, <1>3, FS_CardinalityType

LEMMA FewerCounted ==
    ASSUME NEW A, NEW B, A \subseteq B, IsFiniteSet(B)
    PROVE  IsFiniteSet(A) /\ Cardinality(A) \in Nat /\ Cardinality(B) \in Nat
           /\ Cardinality(A) <= Cardinality(B)
  BY FS_Subset, FS_CardinalityType

(* Streams may be added and unregistered, but no mark is taken away.       *)
Grown ==
    /\ streams' \in Seq(Stream)
    /\ current' \in 0..Len(streams')
    /\ Len(streams) <= Len(streams')
    /\ \A i \in 1..Len(streams) : streams'[i].private = streams[i].private
    /\ \A i \in 1..Len(streams') : i \in 1..Len(streams) \/ ~streams'[i].private
    /\ current' \in {0, current} \/ current' > Len(streams)
    /\ HoldsOK(streams')

(* What a request that moved must be like: it is not counted, and what     *)
(* PrivateOK and CapOK say of it holds.                                    *)
Fit(r) ==
    /\ r \in Request
    /\ r.stream \in 0..Len(streams')
    /\ r.pc # "streaming"
    /\ MarkOK(r, streams')
    /\ ReaderOK(r, streams', current')
    /\ RoomOK(r, current')

RoutesOK == Shapes /\ PrivateOK /\ CapOK

LEMMA Moved ==
    ASSUME RoutesOK, Grown,
           request' \in [Handler -> Request],
           \A g \in Handler : request'[g] = request[g] \/ Fit(request'[g])
    PROVE  RoutesOK'
<1> USE DEF RoutesOK
<1>1. /\ streams \in Seq(Stream) /\ current \in 0..Len(streams)
      /\ Len(streams) \in Nat /\ Len(streams') \in Nat
      /\ request \in [Handler -> Request]
  BY DEF Shapes, Grown
<1>2. Shapes'
  <2>1. \A g \in Handler : request'[g].stream \in 0..Len(streams')
    BY <1>1 DEF Shapes, Grown, Fit
  <2>2. QED BY <2>1 DEF Shapes, Grown
<1>3. PrivateOK'
  <2>1. HoldsOK(streams)'
    BY DEF Grown, HoldsOK
  <2>2. ASSUME NEW g \in Handler, request'[g] = request[g]
        PROVE  MarkOK(request[g], streams') /\ ReaderOK(request[g], streams', current')
    <3>1. MarkOK(request[g], streams) /\ ReaderOK(request[g], streams, current)
      BY DEF PrivateOK
    <3>2. MarkOK(request[g], streams')
      BY <1>1, <3>1 DEF MarkOK, Grown
    <3>3. ReaderOK(request[g], streams', current')
      BY <1>1, <3>1 DEF ReaderOK, Grown
    <3>4. QED BY <3>2, <3>3
  <2>3. \A g \in Handler : MarkOK(request'[g], streams')
                           /\ ReaderOK(request'[g], streams', current')
    BY <2>2 DEF Fit
  <2>4. QED BY <2>1, <2>3 DEF PrivateOK
<1>4. \A i : Counted(i)' \subseteq Counted(i) /\ Unpassed(i)' \subseteq Unpassed(i)
  BY DEF Counted, Unpassed, At, Fit
<1>5. \A i : Room(i) => Room(i)'
  <2>1. SUFFICES ASSUME NEW i, Room(i) PROVE Room(i)'
    OBVIOUS
  <2>2. /\ Cardinality(Counted(i)') <= Cardinality(Counted(i))
        /\ Cardinality(Counted(i)') \in Nat /\ Cardinality(Counted(i)) \in Nat
    BY <1>4, CountedFinite, FewerCounted
  <2>3. QED BY <2>1, <2>2, RoutesAssumption DEF Room
<1>6. Room(0) /\ \A i \in Nat : i > Len(streams) => Room(i)
  <2>1. SUFFICES ASSUME NEW i \in Nat, i > Len(streams) PROVE Room(i)
    BY DEF Room
  <2>2. Counted(i) = {}
    BY <1>1, <2>1 DEF Counted, Shapes
  <2>3. QED BY <2>2, FS_EmptySet, RoutesAssumption DEF Room
<1>7. CapOK'
  <2>1. ASSUME NEW i \in Nat \ {0} PROVE Cardinality(Unpassed(i)') <= SubscriberCap
    <3>1. /\ Cardinality(Unpassed(i)') <= Cardinality(Unpassed(i))
          /\ Cardinality(Unpassed(i)') \in Nat /\ Cardinality(Unpassed(i)) \in Nat
      BY <1>4, CountedFinite, FewerCounted
    <3>2. Cardinality(Unpassed(i)) <= SubscriberCap
      BY DEF CapOK
    <3>3. QED BY <3>1, <3>2, RoutesAssumption
  <2>2. ASSUME NEW g \in Handler PROVE RoomOK(request[g], current)'
    <3>1. CASE request'[g] = request[g]
      <4>1. RoomOK(request[g], current)
        BY DEF CapOK
      <4>2. Room(current) => Room(current')
        BY <1>1, <1>6 DEF Grown
      <4>3. QED BY <3>1, <4>1, <4>2, <1>5 DEF RoomOK, Room
    <3>2. CASE Fit(request'[g])
      BY <3>2, <1>5 DEF Fit, RoomOK, Room
    <3>3. QED BY <3>1, <3>2
  <2>3. QED BY <2>1, <2>2 DEF CapOK
<1>8. QED BY <1>2, <1>3, <1>7

-----------------------------------------------------------------------------
(* Streams left alone, dropped from the registry, or looked up.            *)
LEMMA Still ==
    ASSUME RoutesOK, streams' = streams, current' = current
    PROVE  Grown
  BY DEF RoutesOK, PrivateOK, Shapes, Grown

LEMMA Dropped ==
    ASSUME RoutesOK, streams' = streams, current' = 0
    PROVE  Grown
  BY DEF RoutesOK, PrivateOK, Shapes, Grown

LEMMA Looked ==
    ASSUME RoutesOK, streams' = WithStream, Register
    PROVE  Grown
<1>1. Shapes /\ HoldsOK(streams) /\ current' = Registered
  BY DEF RoutesOK, PrivateOK, Register
<1>2. /\ WithStream \in Seq(Stream) /\ Registered \in 1..Len(WithStream)
      /\ Len(streams) \in Nat /\ Len(WithStream) \in Nat
      /\ Len(streams) <= Len(WithStream)
      /\ \A i \in 1..Len(streams) : WithStream[i] = streams[i]
      /\ \A i \in 1..Len(WithStream) :
                 i \in 1..Len(streams) \/ WithStream[i] = NewStream
      /\ Registered = current \/ Registered = Len(streams) + 1
  BY <1>1, StreamThere
<1>3. HoldsOK(WithStream)
  BY <1>1, <1>2 DEF HoldsOK, NewStream
<1>4. \A i \in 1..Len(WithStream) : i \in 1..Len(streams) \/ ~WithStream[i].private
  BY <1>2 DEF NewStream
<1>5. QED BY <1>1, <1>2, <1>3, <1>4 DEF Grown

(* Where nothing is claimed of a request, it fits.                         *)
LEMMA PlainFits ==
    ASSUME NEW r \in Request, r.stream \in 0..Len(streams'),
           r.pc \notin {"marked", "entered", "admitted", "opened", "streaming"}
    PROVE  Fit(r)
  BY DEF Fit, MarkOK, ReaderOK, RoomOK

LEMMA IdleFits ==
    ASSUME Grown
    PROVE  NoRequest \in Request /\ Fit(NoRequest)
<1>1. NoRequest \in Request
  BY DEF NoRequest, Request, Steps
<1>2. NoRequest.stream = 0 /\ NoRequest.pc = "idle"
  BY DEF NoRequest
<1>3. Len(streams') \in Nat
  BY DEF Grown
<1>4. QED BY <1>1, <1>2, <1>3, PlainFits

(* One handler moves, to a step nothing is claimed of.                     *)
LEMMA PlainMove ==
    ASSUME RoutesOK, Grown, NEW h \in Handler, NEW r \in Request,
           request' = [request EXCEPT ![h] = r],
           r.stream \in 0..Len(streams'),
           r.pc \notin {"marked", "entered", "admitted", "opened", "streaming"}
    PROVE  RoutesOK'
<1>1. Fit(r)
  BY PlainFits
<1>2. request \in [Handler -> Request]
  BY DEF RoutesOK, Shapes
<1>3. /\ request' \in [Handler -> Request]
      /\ \A g \in Handler : request'[g] = request[g] \/ Fit(request'[g])
  BY <1>1, <1>2
<1>4. QED BY <1>3, Moved

LEMMA StepMove ==
    ASSUME RoutesOK, Grown, NEW h \in Handler, NEW pc \in Steps, Step(h, pc),
           pc \notin {"marked", "entered", "admitted", "opened", "streaming"}
    PROVE  RoutesOK'
<1>1. request \in [Handler -> Request] /\ request[h].stream \in 0..Len(streams)
  BY DEF RoutesOK, Shapes
<1>2. streams \in Seq(Stream) /\ Len(streams) \in Nat /\ Len(streams') \in Nat
      /\ Len(streams) <= Len(streams')
  BY DEF RoutesOK, Shapes, Grown
<1> DEFINE r == [request[h] EXCEPT !.pc = pc]
<1>3. r \in Request /\ r.pc = pc /\ r.stream = request[h].stream
  BY <1>1 DEF Request
<1>4. request' = [request EXCEPT ![h] = r]
  BY DEF Step
<1>5. r.stream \in 0..Len(streams')
  BY <1>1, <1>2, <1>3
<1> HIDE DEF r
<1>6. QED BY <1>3, <1>4, <1>5, PlainMove

LEMMA LeaveMove ==
    ASSUME RoutesOK, Grown, NEW h \in Handler, Leaves(h)
    PROVE  RoutesOK'
<1>1. NoRequest \in Request /\ NoRequest.stream = 0 /\ NoRequest.pc = "idle"
  BY IdleFits DEF NoRequest
<1>2. NoRequest.stream \in 0..Len(streams')
  BY <1>1 DEF Grown
<1>3. NoRequest.pc \notin {"marked", "entered", "admitted", "opened", "streaming"}
  BY <1>1
<1>4. request' = [request EXCEPT ![h] = NoRequest]
  BY DEF Leaves
<1>5. QED BY <1>1, <1>2, <1>3, <1>4, PlainMove

LEMMA NoMove ==
    ASSUME RoutesOK, Grown, request' = request
    PROVE  RoutesOK'
  BY Moved DEF RoutesOK, Shapes

-----------------------------------------------------------------------------
(* The steps that are about marks and room.                                *)
LEMMA Blank == NoRequest \in Request /\ NoRequest.stream = 0 /\ NoRequest.pc = "idle"
  BY DEF NoRequest, Request, Steps

LEMMA EnterOK ==
    ASSUME RoutesOK, NEW h \in Handler, NEW ticket \in BOOLEAN, Enter(h, ticket)
    PROVE  RoutesOK'
<1> DEFINE r == [NoRequest EXCEPT !.pc = "entered", !.op = "read", !.ticket = ticket]
<1>1. /\ r \in Request /\ r.pc = "entered" /\ r.op = "read"
      /\ r.stream = NoRequest.stream /\ r.ticket = ticket
  BY Blank DEF Request, Steps
<1>2. r \in Request /\ r.stream = 0
  BY <1>1, Blank
<1>3. /\ r.pc = "entered" /\ r.op = "read" /\ r.stream = 0
      /\ ~r.ticket => ~IsPrivate
  BY <1>1, <1>2 DEF Enter, MayRead
<1>4. /\ request' = [request EXCEPT ![h] = r]
      /\ streams' = streams /\ current' = current
  BY DEF Enter
<1> HIDE DEF r
<1>5. Grown
  BY <1>4, Still
<1>6. MarkOK(r, streams') /\ RoomOK(r, current')
  BY <1>3 DEF MarkOK, RoomOK
<1>7. ReaderOK(r, streams', current')
  BY <1>3, <1>4 DEF ReaderOK, IsPrivate
<1>8. r.stream \in 0..Len(streams')
  BY <1>3, <1>5 DEF Grown
<1>9. Fit(r)
  BY <1>2, <1>3, <1>6, <1>7, <1>8 DEF Fit
<1>10. request' \in [Handler -> Request]
  BY <1>2, <1>4 DEF RoutesOK, Shapes
<1>11. \A g \in Handler : request'[g] = request[g] \/ Fit(request'[g])
  BY <1>4, <1>9 DEF RoutesOK, Shapes
<1>12. QED BY <1>5, <1>10, <1>11, Moved

LEMMA AdmitOK ==
    ASSUME RoutesOK, NEW h \in Handler, Admit(h)
    PROVE  RoutesOK'
<1>1. streams' = streams /\ current' = current /\ Grown
  BY Still DEF Admit
<1>2. CASE Leaves(h)
  BY <1>1, <1>2, LeaveMove
<1>3. CASE ~Full /\ Step(h, "admitted")
  <2> DEFINE r == [request[h] EXCEPT !.pc = "admitted"]
  <2>1. request \in [Handler -> Request] /\ request[h] \in Request
    BY DEF RoutesOK, Shapes
  <2>2. /\ r \in Request /\ r.pc = "admitted" /\ r.op = request[h].op
        /\ r.stream = request[h].stream /\ r.ticket = request[h].ticket
        /\ r.late = request[h].late /\ r.passed = request[h].passed
    BY <2>1 DEF Request, Steps
  <2>3. request' = [request EXCEPT ![h] = r]
    BY <1>3 DEF Step
  <2> HIDE DEF r
  <2>4. request[h].pc = "entered"
    BY DEF Admit, At
  <2>5. ReaderOK(request[h], streams, current) /\ request[h].stream \in 0..Len(streams)
    BY DEF RoutesOK, PrivateOK, Shapes
  <2>6. ReaderOK(r, streams', current')
    BY <1>1, <2>2, <2>4, <2>5 DEF ReaderOK
  <2>7. Room(current)
    <3>1. Cardinality(Counted(current)) \in Nat
      BY CountedFinite
    <3>2. QED BY <1>3, <3>1, RoutesAssumption DEF Full, Room
  <2>8. MarkOK(r, streams') /\ RoomOK(r, current')
    BY <1>1, <2>2, <2>7 DEF MarkOK, RoomOK
  <2>9. Fit(r)
    BY <1>1, <2>2, <2>5, <2>6, <2>8 DEF Fit
  <2>10. request' \in [Handler -> Request]
    BY <2>1, <2>2, <2>3
  <2>11. \A g \in Handler : request'[g] = request[g] \/ Fit(request'[g])
    BY <2>1, <2>3, <2>9
  <2>12. QED BY <1>1, <2>10, <2>11, Moved
<1>4. QED BY <1>2, <1>3 DEF Admit

LEMMA OpenOK ==
    ASSUME RoutesOK, NEW h \in Handler, Open(h)
    PROVE  RoutesOK'
<1>1. /\ streams' = WithStream /\ current' = Registered
      /\ request' = [request EXCEPT ![h].pc = "opened", ![h].stream = Registered]
      /\ request[h].pc = "admitted"
  BY DEF Open, Register, At
<1>2. Grown
  BY <1>1, Looked DEF Open
<1>3. /\ WithStream \in Seq(Stream) /\ Registered \in 1..Len(WithStream)
      /\ Len(streams) \in Nat /\ Len(WithStream) \in Nat
      /\ Len(streams) <= Len(WithStream)
      /\ \A i \in 1..Len(streams) : WithStream[i] = streams[i]
      /\ \A i \in 1..Len(WithStream) :
                 i \in 1..Len(streams) \/ WithStream[i] = NewStream
      /\ Registered = current \/ Registered = Len(streams) + 1
  BY StreamThere DEF RoutesOK
<1> DEFINE r == [request[h] EXCEPT !.pc = "opened", !.stream = Registered]
<1>4. request \in [Handler -> Request] /\ request[h] \in Request
      /\ current \in 0..Len(streams) /\ request[h].stream \in 0..Len(streams)
      /\ \A g \in Handler : request[g].stream \in 0..Len(streams)
  BY DEF RoutesOK, Shapes
<1>5. Registered \in Nat /\ Registered # 0
  BY <1>3
<1>6. /\ r \in Request /\ r.pc = "opened" /\ r.op = request[h].op
      /\ r.stream = Registered /\ r.ticket = request[h].ticket
      /\ r.late = request[h].late /\ r.passed = request[h].passed
  BY <1>4, <1>5 DEF Request, Steps
<1>7. request' = [request EXCEPT ![h] = r]
  BY <1>1
<1> HIDE DEF r
<1>8. ReaderOK(request[h], streams, current) /\ RoomOK(request[h], current)
  BY DEF RoutesOK, PrivateOK, CapOK
<1>9. ReaderOK(r, streams', current')
  <2>1. WithStream[Registered].private =>
           Registered = current /\ current # 0 /\ streams[current].private
    BY <1>3, <1>4 DEF NewStream
  <2>2. QED BY <1>1, <1>3, <1>6, <1>8, <2>1 DEF ReaderOK
<1>10. RoomOK(r, current')
  <2>1. Room(Len(streams) + 1)
    <3>1. Counted(Len(streams) + 1) = {}
      BY <1>3, <1>4 DEF Counted
    <3>2. QED BY <3>1, FS_EmptySet, RoutesAssumption DEF Room
  <2>2. Room(current) => Room(Registered)
    BY <1>3, <2>1
  <2>3. QED BY <1>1, <1>6, <1>8, <2>2 DEF RoomOK
<1>11. MarkOK(r, streams')
  BY <1>6 DEF MarkOK
<1>12. r.stream \in 0..Len(streams')
  BY <1>1, <1>3, <1>6
<1>13. Fit(r)
  BY <1>6, <1>9, <1>10, <1>11, <1>12 DEF Fit
<1>14. request' \in [Handler -> Request]
  BY <1>4, <1>6, <1>7
<1>15. \A g \in Handler : request'[g] = request[g] \/ Fit(request'[g])
  BY <1>4, <1>7, <1>13
<1>16. QED BY <1>2, <1>14, <1>15, Moved

(* A chunk is published on a Stream that was marked for it, or apart.      *)
LEMMA PublishOK ==
    ASSUME RoutesOK, NEW h \in Handler, Publish(h)
    PROVE  RoutesOK'
<1>1. Register /\ current' = Registered
      /\ request' = [request EXCEPT ![h] = [NoRequest EXCEPT !.pc = "published"]]
  BY DEF Publish, Register
<1>2. Grown
  <2>1. CASE streams' = WithStream
    BY <1>1, <2>1, Looked
  <2>2. CASE /\ request[h].op # "publish"
             /\ streams' = [WithStream EXCEPT
                     ![Registered].holds = TRUE,
                     ![Registered].apart = @ \/ request[h].stream \notin {0, Registered}]
    <3>1. /\ WithStream \in Seq(Stream) /\ Registered \in 1..Len(WithStream)
          /\ Len(streams) \in Nat /\ Len(WithStream) \in Nat
          /\ Len(streams) <= Len(WithStream)
          /\ \A i \in 1..Len(streams) : WithStream[i] = streams[i]
          /\ \A i \in 1..Len(WithStream) :
                     i \in 1..Len(streams) \/ WithStream[i] = NewStream
          /\ Registered = current \/ Registered = Len(streams) + 1
      BY StreamThere DEF RoutesOK
    <3>2. /\ request[h].stream \in 1..Len(streams)
          /\ streams[request[h].stream].private
      <4>1. request[h].pc = "marked"
        BY <2>2 DEF Publish, PublishReady, At
      <4>2. QED BY <4>1 DEF RoutesOK, PrivateOK, MarkOK
    <3> DEFINE W == WithStream
               S == [W[Registered] EXCEPT
                        !.holds = TRUE,
                        !.apart = @ \/ request[h].stream \notin {0, Registered}]
    <3>3. W[Registered] \in Stream
      BY <3>1
    <3>4. /\ S \in Stream /\ S.private = W[Registered].private
          /\ request[h].stream \notin {0, Registered} => S.apart
      BY <3>3 DEF Stream
    <3>5. streams' = [W EXCEPT ![Registered] = S]
      BY <2>2
    <3> HIDE DEF S
    <3>6. /\ streams' \in Seq(Stream) /\ Len(streams') = Len(W)
          /\ streams'[Registered] = S
          /\ \A i \in 1..Len(W) : i # Registered => streams'[i] = W[i]
      BY <3>1, <3>4, <3>5
    <3>7. HoldsOK(W)
      <4>1. HoldsOK(streams)
        BY DEF RoutesOK, PrivateOK
      <4>2. QED BY <3>1, <4>1 DEF HoldsOK, NewStream
    <3>8. S.private \/ S.apart
      BY <3>1, <3>2, <3>4
    <3>9. HoldsOK(streams')
      BY <3>1, <3>6, <3>7, <3>8 DEF HoldsOK
    <3>10. \A i \in 1..Len(W) : streams'[i].private = W[i].private
      BY <3>4, <3>6
    <3>11. \A i \in 1..Len(W) : i \in 1..Len(streams) \/ ~W[i].private
      BY <3>1 DEF NewStream
    <3>12. QED BY <1>1, <3>1, <3>6, <3>9, <3>10, <3>11 DEF Grown
  <2>3. QED BY <2>1, <2>2 DEF Publish
<1> DEFINE r == [NoRequest EXCEPT !.pc = "published"]
<1>3. r \in Request /\ r.pc = "published" /\ r.stream = NoRequest.stream
  BY Blank DEF Request, Steps
<1>4. r \in Request /\ r.pc = "published" /\ r.stream = 0
  BY <1>3, Blank
<1>5. request' = [request EXCEPT ![h] = r]
  BY <1>1
<1> HIDE DEF r
<1>6. r.stream \in 0..Len(streams')
  BY <1>2, <1>4 DEF Grown
<1>7. r.pc \notin {"marked", "entered", "admitted", "opened", "streaming"}
  BY <1>4
<1>8. QED BY <1>2, <1>4, <1>5, <1>6, <1>7, PlainMove

(* A reader is counted: everyone between the count and the first poll is   *)
(* passed by it.                                                           *)
LEMMA PollOK ==
    ASSUME RoutesOK, NEW h \in Handler, Poll(h)
    PROVE  RoutesOK'
<1>1. /\ streams' = streams /\ current' = current
      /\ request[h].pc = "opened"
      /\ request' = [g \in Handler |->
                       IF g = h THEN [request[g] EXCEPT !.pc = "streaming"]
                       ELSE [request[g] EXCEPT !.passed =
                               @ \/ request[g].pc \in {"admitted", "opened"}]]
  BY DEF Poll, At
<1>2. request \in [Handler -> Request]
      /\ \A g \in Handler : request[g].stream \in 0..Len(streams)
  BY DEF RoutesOK, Shapes
<1>3. /\ request'[h] \in Request
      /\ request'[h].pc = "streaming" /\ request'[h].op = request[h].op
      /\ request'[h].stream = request[h].stream
      /\ request'[h].ticket = request[h].ticket
      /\ request'[h].late = request[h].late
      /\ request'[h].passed = request[h].passed
  BY <1>1, <1>2 DEF Request, Steps
<1>4. ASSUME NEW g \in Handler \ {h}
      PROVE  /\ request'[g] \in Request
             /\ request'[g].pc = request[g].pc /\ request'[g].op = request[g].op
             /\ request'[g].stream = request[g].stream
             /\ request'[g].ticket = request[g].ticket
             /\ request'[g].late = request[g].late
             /\ ~request'[g].passed =>
                   ~request[g].passed /\ request[g].pc \notin {"admitted", "opened"}
  <2>1. request'[g] = [request[g] EXCEPT !.passed =
                          request[g].passed \/ request[g].pc \in {"admitted", "opened"}]
    BY <1>1
  <2>2. request[g] \in Request
    BY <1>2
  <2>3. (request[g].passed \/ request[g].pc \in {"admitted", "opened"}) \in BOOLEAN
    OBVIOUS
  <2>4. QED BY <2>1, <2>2, <2>3 DEF Request
<1>5. Shapes'
  <2>1. request' \in [Handler -> Request]
    BY <1>1, <1>3, <1>4
  <2>2. \A g \in Handler : request'[g].stream \in 0..Len(streams')
    BY <1>1, <1>2, <1>3, <1>4
  <2>3. QED BY <1>1, <2>1, <2>2 DEF RoutesOK, Shapes
<1>6. PrivateOK'
  <2>1. HoldsOK(streams)'
    BY <1>1 DEF RoutesOK, PrivateOK
  <2>2. \A g \in Handler : MarkOK(request[g], streams) /\ ReaderOK(request[g], streams, current)
    BY DEF RoutesOK, PrivateOK
  <2>3. \A g \in Handler : MarkOK(request'[g], streams)
    BY <1>3, <1>4, <2>2 DEF MarkOK
  <2>4. \A g \in Handler : ReaderOK(request'[g], streams, current)
    <3>1. ReaderOK(request'[h], streams, current)
      BY <1>1, <1>3, <2>2 DEF ReaderOK
    <3>2. ASSUME NEW g \in Handler \ {h} PROVE ReaderOK(request'[g], streams, current)
      BY <1>4, <2>2 DEF ReaderOK
    <3>3. QED BY <3>1, <3>2
  <2>5. QED BY <1>1, <2>1, <2>3, <2>4 DEF PrivateOK
<1>7. CapOK'
  <2>1. ASSUME NEW i \in Nat \ {0} PROVE Cardinality(Unpassed(i)') <= SubscriberCap
    <3>1. CASE i = request[h].stream /\ ~request[h].passed
      <4>1. Cardinality(Counted(i)) < SubscriberCap
        BY <1>1, <3>1 DEF RoutesOK, CapOK, RoomOK, Room
      <4>2. Unpassed(i)' \subseteq Counted(i) \cup {h}
        BY <1>4 DEF Unpassed, Counted, At
      <4>3. /\ IsFiniteSet(Counted(i) \cup {h})
            /\ Cardinality(Counted(i) \cup {h}) <= Cardinality(Counted(i)) + 1
            /\ Cardinality(Counted(i)) \in Nat
            /\ Cardinality(Counted(i) \cup {h}) \in Nat
        <5>1. /\ IsFiniteSet(Counted(i)) /\ Cardinality(Counted(i)) \in Nat
          BY CountedFinite
        <5>2. /\ IsFiniteSet(Counted(i) \cup {h})
              /\ Cardinality(Counted(i) \cup {h}) =
                   IF h \in Counted(i) THEN Cardinality(Counted(i))
                   ELSE Cardinality(Counted(i)) + 1
          BY <5>1, FS_AddElement
        <5>3. QED BY <5>1, <5>2
      <4>4. /\ Cardinality(Unpassed(i)') <= Cardinality(Counted(i) \cup {h})
            /\ Cardinality(Unpassed(i)') \in Nat
        BY <4>2, <4>3, FewerCounted
      <4>5. QED BY <4>1, <4>3, <4>4, RoutesAssumption
    <3>2. CASE ~(i = request[h].stream /\ ~request[h].passed)
      <4>1. Unpassed(i)' \subseteq Unpassed(i)
        BY <1>3, <1>4, <3>2 DEF Unpassed, Counted, At
      <4>2. /\ Cardinality(Unpassed(i)') <= Cardinality(Unpassed(i))
            /\ Cardinality(Unpassed(i)') \in Nat /\ Cardinality(Unpassed(i)) \in Nat
        BY <4>1, CountedFinite, FewerCounted
      <4>3. Cardinality(Unpassed(i)) <= SubscriberCap
        BY DEF RoutesOK, CapOK
      <4>4. QED BY <4>2, <4>3, RoutesAssumption
    <3>3. QED BY <3>1, <3>2
  <2>2. \A g \in Handler : RoomOK(request[g], current)'
    BY <1>3, <1>4 DEF RoomOK
  <2>3. QED BY <2>1, <2>2 DEF CapOK
<1>8. QED BY <1>5, <1>6, <1>7 DEF RoutesOK

(* A Stream is marked, and every reader that was let past hears of it.     *)
LEMMA SetPrivateOK ==
    ASSUME RoutesOK, NEW h \in Handler, SetPrivate(h)
    PROVE  RoutesOK'
<1> DEFINE W == WithStream
           R == Registered
           Hears(g) == /\ request[g].op = "read" /\ ~request[g].ticket
                       /\ ~W[R].private
<1>1. /\ W \in Seq(Stream) /\ R \in 1..Len(W)
      /\ Len(streams) \in Nat /\ Len(W) \in Nat
      /\ Len(streams) <= Len(W)
      /\ \A i \in 1..Len(streams) : W[i] = streams[i]
      /\ \A i \in 1..Len(W) : i \in 1..Len(streams) \/ W[i] = NewStream
      /\ R = current \/ R = Len(streams) + 1
  BY StreamThere DEF RoutesOK
<1>2. /\ streams' = [W EXCEPT ![R].private = TRUE] /\ current' = R
      /\ request[h].pc = "authorized"
      /\ request' = [g \in Handler |->
                        IF g = h THEN [request[g] EXCEPT !.pc = "marked", !.stream = R]
                        ELSE [request[g] EXCEPT !.late = IF Hears(g) THEN @ \cup {R} ELSE @]]
  BY DEF SetPrivate, Register, At
<1>3. /\ request \in [Handler -> Request] /\ current \in 0..Len(streams)
      /\ \A g \in Handler : request[g].stream \in 0..Len(streams)
  BY DEF RoutesOK, Shapes
<1>4. W[R].private =>
         R = current /\ current # 0 /\ streams[current].private /\ R \in 1..Len(streams)
  BY <1>1, <1>3 DEF NewStream
<1>5. R \in Nat /\ R # 0
  BY <1>1
<1> HIDE DEF W, R
<1>6. /\ streams' \in Seq(Stream) /\ Len(streams') = Len(W)
      /\ streams'[R].private
      /\ \A i \in 1..Len(W) : i # R => streams'[i] = W[i]
      /\ streams'[R].holds = W[R].holds /\ streams'[R].apart = W[R].apart
  <2>1. W[R] \in Stream
    BY <1>1
  <2> DEFINE S == [W[R] EXCEPT !.private = TRUE]
  <2>2. S \in Stream /\ S.private /\ S.holds = W[R].holds /\ S.apart = W[R].apart
    BY <2>1 DEF Stream
  <2>3. streams' = [W EXCEPT ![R] = S]
    BY <1>2
  <2> HIDE DEF S
  <2>4. QED BY <1>1, <2>2, <2>3
<1>7. /\ request'[h] \in Request
      /\ request'[h].pc = "marked" /\ request'[h].stream = R
  BY <1>2, <1>3, <1>5 DEF Request, Steps
<1>8. ASSUME NEW g \in Handler \ {h}
      PROVE  /\ request'[g] \in Request
             /\ request'[g].pc = request[g].pc /\ request'[g].op = request[g].op
             /\ request'[g].stream = request[g].stream
             /\ request'[g].ticket = request[g].ticket
             /\ request'[g].passed = request[g].passed
             /\ request[g].late \subseteq request'[g].late
             /\ Hears(g) => R \in request'[g].late
  <2> DEFINE L == IF Hears(g) THEN request[g].late \cup {R} ELSE request[g].late
  <2>1. request'[g] = [request[g] EXCEPT !.late = L]
    BY <1>2
  <2>2. request[g] \in Request
    BY <1>3
  <2>3. /\ L \in SUBSET Nat /\ request[g].late \subseteq L /\ (Hears(g) => R \in L)
    BY <1>5, <2>2 DEF Request
  <2> HIDE DEF L, Hears
  <2>4. QED BY <2>1, <2>2, <2>3 DEF Request
<1>9. Shapes'
  <2>1. request' \in [Handler -> Request]
    BY <1>2, <1>7, <1>8
  <2>2. \A g \in Handler : request'[g].stream \in 0..Len(streams')
    BY <1>1, <1>3, <1>6, <1>7, <1>8
  <2>3. current' = R
    BY <1>2
  <2>4. current' \in 0..Len(streams')
    BY <1>1, <1>6, <2>3
  <2>5. QED BY <1>6, <2>1, <2>2, <2>4 DEF Shapes
<1>10. PrivateOK'
  <2>1. HoldsOK(streams)'
    <3>1. HoldsOK(streams)
      BY DEF RoutesOK, PrivateOK
    <3>2. QED BY <1>1, <1>6, <3>1 DEF HoldsOK, NewStream
  <2>2. \A g \in Handler : MarkOK(request[g], streams)'
    <3>1. MarkOK(request'[h], streams')
      BY <1>1, <1>6, <1>7 DEF MarkOK
    <3>2. ASSUME NEW g \in Handler \ {h} PROVE MarkOK(request'[g], streams')
      <4>1. MarkOK(request[g], streams)
        BY DEF RoutesOK, PrivateOK
      <4>2. QED BY <1>1, <1>6, <1>8, <4>1 DEF MarkOK
    <3>3. QED BY <3>1, <3>2
  <2>3. \A g \in Handler : ReaderOK(request[g], streams, current)'
    <3>1. ReaderOK(request'[h], streams', current')
      BY <1>7 DEF ReaderOK
    <3>2. ASSUME NEW g \in Handler \ {h} PROVE ReaderOK(request'[g], streams', current')
      <4>1. ReaderOK(request[g], streams, current)
        BY DEF RoutesOK, PrivateOK
      <4>2. SUFFICES ASSUME request[g].pc \in {"entered", "admitted", "opened", "streaming"},
                            ~request[g].ticket
                     PROVE  ReaderOK(request'[g], streams', current')
        BY <1>8 DEF ReaderOK
      <4>3. R \in request'[g].late
        <5>1. request[g].op = "read"
          BY <4>1, <4>2 DEF ReaderOK
        <5>2. CASE W[R].private
          BY <1>4, <1>8, <4>1, <4>2, <5>2 DEF ReaderOK
        <5>3. CASE ~W[R].private
          BY <1>8, <4>2, <5>1, <5>3
        <5>4. QED BY <5>2, <5>3
      <4>4. request[g].pc \in {"opened", "streaming"} =>
              /\ request[g].stream \in 1..Len(streams)
              /\ streams[request[g].stream].private => request[g].stream \in request[g].late
        BY <4>1, <4>2 DEF ReaderOK
      <4>5. request[g].pc \in {"opened", "streaming"} =>
              /\ request'[g].stream \in 1..Len(streams')
              /\ streams'[request'[g].stream].private =>
                    request'[g].stream \in request'[g].late
        BY <1>1, <1>6, <1>8, <4>3, <4>4
      <4>6. request'[g].op = "read"
        BY <1>8, <4>1, <4>2 DEF ReaderOK
      <4>7. QED BY <1>2, <1>8, <4>3, <4>5, <4>6 DEF ReaderOK
    <3>3. QED BY <3>1, <3>2
  <2>4. QED BY <2>1, <2>2, <2>3 DEF PrivateOK
<1>11. CapOK'
  <2>1. \A i : Counted(i)' = Counted(i) /\ Unpassed(i)' = Unpassed(i)
    <3>1. request[h].pc # "streaming" /\ request'[h].pc # "streaming"
      BY <1>2, <1>7
    <3>2. \A g \in Handler \ {h} : /\ request'[g].pc = request[g].pc
                                  /\ request'[g].stream = request[g].stream
                                  /\ request'[g].passed = request[g].passed
      BY <1>8
    <3>3. \A i : Counted(i)' = Counted(i)
      BY <3>1, <3>2 DEF Counted, At
    <3>4. \A i : Unpassed(i)' = Unpassed(i)
      BY <3>1, <3>2, <3>3 DEF Unpassed, Counted, At
    <3>5. QED BY <3>3, <3>4
  <2>2. Room(Len(streams) + 1)
    <3>1. Counted(Len(streams) + 1) = {}
      BY <1>1, <1>3 DEF Counted
    <3>2. QED BY <3>1, FS_EmptySet, RoutesAssumption DEF Room
  <2>3. \A i : Room(i)' <=> Room(i)
    BY <2>1 DEF Room
  <2>4. Room(current) => Room(R)
    BY <1>1, <2>2
  <2>5. ASSUME NEW g \in Handler PROVE RoomOK(request[g], current)'
    <3>1. RoomOK(request[g], current)
      BY DEF RoutesOK, CapOK
    <3>2. CASE g = h
      BY <1>7, <3>2 DEF RoomOK
    <3>3. CASE g # h
      BY <1>2, <1>8, <2>3, <2>4, <3>1, <3>3, ZenonT(30) DEF RoomOK
    <3>4. QED BY <3>2, <3>3
  <2>6. QED BY <2>1, <2>5 DEF RoutesOK, CapOK
<1>12. QED BY <1>9, <1>10, <1>11 DEF RoutesOK

LEMMA BeginMove ==
    ASSUME RoutesOK, NEW h \in Handler, NEW op \in Write, Begin(h, op)
    PROVE  /\ RoutesOK'
           /\ request'[h].pc = "verifying"
           /\ \A g \in Handler \ {h} : request'[g] = request[g]
<1> DEFINE r == [NoRequest EXCEPT !.pc = "verifying", !.op = op]
<1>1. r \in Request /\ r.pc = "verifying" /\ r.stream = NoRequest.stream
  BY Blank DEF Request, Steps
<1>2. r.stream = 0
  BY <1>1, Blank
<1>3. /\ request' = [request EXCEPT ![h] = r]
      /\ streams' = streams /\ current' = current
  BY DEF Begin
<1> HIDE DEF r
<1>4. Grown
  BY <1>3, Still
<1>5. r.stream \in 0..Len(streams')
  BY <1>2, <1>4 DEF Grown
<1>6. r.pc \notin {"marked", "entered", "admitted", "opened", "streaming"}
  BY <1>1
<1>7. RoutesOK'
  BY <1>1, <1>3, <1>4, <1>5, <1>6, PlainMove
<1>8. QED BY <1>1, <1>3, <1>7 DEF RoutesOK, Shapes

(* Every step keeps what is claimed of requests and Streams.               *)
LEMMA RouteSteps ==
    ASSUME RoutesOK, Next
    PROVE  RoutesOK'
<1>1. CASE Verifying \/ Reporter
  <2>1. request' = request /\ streams' = streams /\ current' = current
    BY <1>1 DEF Verifying, Reporter, routes
  <2>2. QED BY <2>1, Still, NoMove
<1>2. CASE Evict
  <2>1. request' = request /\ streams' = streams /\ current' = 0
    BY <1>2 DEF Evict
  <2>2. QED BY <2>1, Dropped, NoMove
<1>3. ASSUME NEW h \in Handler,
             \/ \E op \in Write : Begin(h, op)
             \/ \E ticket \in BOOLEAN : Enter(h, ticket)
             \/ SetPrivate(h) \/ Publish(h) \/ Admit(h) \/ Open(h) \/ Poll(h)
      PROVE  RoutesOK'
  BY <1>3, BeginMove, EnterOK, SetPrivateOK, PublishOK, AdmitOK, OpenOK, PollOK
<1>4. ASSUME NEW h \in Handler,
             \/ CountTokens(h) \/ Forget(h) \/ Leave(h) \/ UpgradeFails(h)
      PROVE  RoutesOK'
  <2>1. Leaves(h) /\ streams' = streams /\ current' = current
    BY <1>4 DEF CountTokens, Forget, Leave, UpgradeFails
  <2>2. QED BY <2>1, Still, LeaveMove
<1>5. ASSUME NEW h \in Handler,
             \/ CheckOwner(h) \/ SetOwner(h) \/ Created(h) \/ TellEnd(h)
      PROVE  RoutesOK'
  <2>1. streams' = streams /\ current' = current
    BY <1>5 DEF CheckOwner, SetOwner, Created, TellEnd
  <2>2. PICK pc \in {"count", "claim", "announce", "forget"} : Step(h, pc)
    BY <1>5 DEF CheckOwner, SetOwner, Created, TellEnd
  <2>3. pc \in Steps /\ pc \notin {"marked", "entered", "admitted", "opened", "streaming"}
    BY <2>2 DEF Steps
  <2>4. QED BY <2>1, <2>2, <2>3, Still, StepMove
<1>6. ASSUME NEW h \in Handler, Authorized(h)
      PROVE  RoutesOK'
  <2>1. /\ streams' = streams /\ current' = current
        /\ Step(h, "authorized") \/ Leaves(h)
    BY <1>6 DEF Authorized
  <2>2. "authorized" \in Steps
    BY DEF Steps
  <2>3. QED BY <2>1, <2>2, Still, StepMove, LeaveMove
<1>7. ASSUME NEW h \in Handler, End(h)
      PROVE  RoutesOK'
  <2>1. streams' = WithStream /\ Register /\ Step(h, "ended")
    BY <1>7 DEF End
  <2>2. "ended" \in Steps
    BY DEF Steps
  <2>3. QED BY <2>1, <2>2, Looked, StepMove
<1>8. ASSUME NEW h \in Handler, Delete(h)
      PROVE  RoutesOK'
  <2>1. streams' = streams /\ current' = 0 /\ Leaves(h)
    BY <1>8 DEF Delete
  <2>2. QED BY <2>1, Dropped, LeaveMove
<1>9. QED BY <1>1, <1>2, <1>3, <1>4, <1>5, <1>6, <1>7, <1>8 DEF Next

-----------------------------------------------------------------------------
(* Events and calls.                                                       *)
RestOK == EventShapes /\ Calls /\ AccountOK

(* Which handlers a step moves, as far as the account and calls can tell.  *)
Beside(g) == \/ request'[g].pc = request[g].pc
             \/ /\ request[g].pc \notin Section \cup {"verifying"}
                /\ request'[g].pc \notin Section \cup {"verifying"}

LEMMA AccountSame ==
    ASSUME AccountOK, owner' = owner, account' \in {account, "excused"},
           \A g \in Handler : \/ request'[g].pc = request[g].pc
                              \/ /\ request[g].pc \notin Section
                                 /\ request'[g].pc \notin Section
    PROVE  AccountOK'
<1>1. CASE account' = "excused"
  BY <1>1 DEF AccountOK
<1>2. CASE account' = account /\ account # "excused"
  <2>1. \A g \in Handler : request'[g].pc \in Section <=> request[g].pc \in Section
    OBVIOUS
  <2>2. \A g \in Handler : request[g].pc \in Section => request'[g].pc = request[g].pc
    OBVIOUS
  <2>3. \A g \in Handler : Overlapping(g)' <=> Overlapping(g)
    BY <2>1 DEF Overlapping, Section
  <2>4. (\A g \in Handler : request'[g].pc \notin Section) =>
            (owner' <=> account' = "open")
    BY <1>2, <2>1 DEF AccountOK
  <2>5. ASSUME NEW g \in Handler, request'[g].pc \in Section, ~Overlapping(g)'
        PROVE  SectionOK(g)'
    <3>1. SectionOK(g)
      BY <1>2, <2>1, <2>3, <2>5 DEF AccountOK
    <3>2. request'[g].pc = request[g].pc
      BY <2>1, <2>2, <2>5
    <3>3. QED BY <1>2, <3>1, <3>2 DEF SectionOK, At
  <2>6. QED BY <2>4, <2>5 DEF AccountOK
<1>3. QED BY <1>1, <1>2

(* Nobody else is in the section: what counts is the handler that moved.   *)
LEMMA AloneOK ==
    ASSUME NEW h \in Handler, ~Overlapping(h),
           \A g \in Handler \ {h} : request'[g] = request[g],
           request'[h].pc \in Section => SectionOK(h)',
           request'[h].pc \notin Section => (owner' <=> account' = "open")
    PROVE  AccountOK'
<1>1. \A g \in Handler \ {h} : request'[g].pc \notin Section
  BY DEF Overlapping, Section
<1>2. QED BY <1>1 DEF AccountOK

LEMMA CallsSame ==
    ASSUME Calls, call' = call,
           \A g \in Handler : request[g].pc = "verifying" => request'[g].pc = "verifying"
    PROVE  Calls'
  BY DEF Calls, At

(* A step of the routes that reports nothing.                              *)
LEMMA SilentStep ==
    ASSUME RestOK, call' = call, UNCHANGED events, \A g \in Handler : Beside(g)
    PROVE  RestOK'
<1>1. owner' = owner /\ account' = account /\ queued' = queued /\ buffered' = buffered
  BY DEF events
<1>2. EventShapes'
  BY <1>1 DEF RestOK, EventShapes
<1>3. AccountOK'
  BY <1>1, AccountSame DEF RestOK, Beside
<1>4. Calls'
  BY CallsSame DEF RestOK, Beside
<1>5. QED BY <1>2, <1>3, <1>4 DEF RestOK

(* An event is sent, by a handler that is in the section or not.           *)
LEMMA Sent ==
    ASSUME EventShapes, NEW kind \in {"created", "terminal", "other"},
           NEW o \in BOOLEAN, Send(kind, o), owner' \in BOOLEAN,
           account' # "wrong"
    PROVE  EventShapes'
<1>1. queued' \in 0..QueueSize /\ buffered' \in 0..BatchSize - 1
  BY EventsAssumption DEF EventShapes, Send
<1>2. account' \in {"open", "closed", "excused"}
  <2>1. account' \in {"excused", Told(kind)}
    BY DEF Send
  <2>2. Told(kind) \in {"open", "closed", "excused", "wrong"}
    BY DEF Told, EventShapes
  <2>3. QED BY <2>1, <2>2
<1>3. QED BY <1>1, <1>2 DEF EventShapes

LEMMA SentToOwner ==
    ASSUME RestOK, NEW h \in Handler, request[h].pc \notin Section,
           SendToOwner("other", Overlapping(h)), call' = call,
           \A g \in Handler : Beside(g)
    PROVE  RestOK'
<1>1. CASE ~owner
  <2>1. UNCHANGED events
    BY <1>1 DEF SendToOwner, events
  <2>2. QED BY <2>1, SilentStep
<1>2. CASE owner
  <2>1. Send("other", Overlapping(h)) /\ owner' = owner
    BY <1>2 DEF SendToOwner
  <2>2. account' \in {account, "excused"}
    <3>1. CASE account = "excused" \/ Overlapping(h) \/ queued = QueueSize
      BY <2>1, <3>1 DEF Send, Told
    <3>2. CASE ~Overlapping(h) /\ account # "excused" /\ queued # QueueSize
      <4>1. \A g \in Handler : request[g].pc \notin Section
        BY <3>2 DEF Overlapping, Section
      <4>2. account = "open"
        BY <1>2, <3>2, <4>1 DEF RestOK, AccountOK
      <4>3. QED BY <2>1, <3>2, <4>2 DEF Send, Told
    <3>3. QED BY <3>1, <3>2
  <2>3. Overlapping(h) \in BOOLEAN
    BY DEF Overlapping
  <2>4. account' # "wrong" /\ owner' \in BOOLEAN
    BY <2>1, <2>2 DEF RestOK, EventShapes
  <2>5. EventShapes'
    BY <2>1, <2>3, <2>4, Sent DEF RestOK
  <2>6. AccountOK'
    BY <2>1, <2>2, AccountSame DEF RestOK, Beside
  <2>7. Calls'
    BY CallsSame DEF RestOK, Beside
  <2>8. QED BY <2>5, <2>6, <2>7 DEF RestOK
<1>3. QED BY <1>1, <1>2

(* What a step of one handler does to the others.                          *)
LEMMA OneMoves ==
    ASSUME Shapes, NEW h \in Handler,
           Leaves(h) \/ \E pc \in Steps : Step(h, pc)
    PROVE  /\ \A g \in Handler \ {h} : request'[g] = request[g]
           /\ Leaves(h) => request'[h].pc = "idle"
           /\ \A pc \in Steps : Step(h, pc) => request'[h].pc = pc
<1>1. request \in [Handler -> Request] /\ request[h] \in Request
  BY DEF Shapes
<1>2. NoRequest.pc = "idle"
  BY Blank
<1>3. CASE Leaves(h)
  <2>1. request' = [request EXCEPT ![h] = NoRequest]
    BY <1>3 DEF Leaves
  <2>2. /\ \A g \in Handler \ {h} : request'[g] = request[g]
        /\ request'[h].pc = "idle"
    BY <1>1, <1>2, <2>1
  <2>3. \A pc \in Steps : Step(h, pc) => request'[h].pc = pc
    BY <1>1 DEF Step, Request
  <2>4. QED BY <2>2, <2>3
<1>4. ASSUME NEW pc \in Steps, Step(h, pc)
      PROVE  /\ \A g \in Handler \ {h} : request'[g] = request[g]
             /\ request'[h].pc = pc
  BY <1>1, <1>4 DEF Step, Request
<1>5. Leaves(h) => request'[h].pc = "idle"
  BY <1>1, <1>2 DEF Leaves
<1>6. QED BY <1>3, <1>4, <1>5

(* The steps of the section.                                               *)
LEMMA SectionSteps ==
    ASSUME Shapes, RestOK, NEW h \in Handler,
           \/ CheckOwner(h) \/ SetOwner(h) \/ Created(h) \/ CountTokens(h)
           \/ TellEnd(h) \/ Forget(h)
    PROVE  RestOK'
<1>1. call' = call /\ request[h].pc # "verifying"
  BY DEF CheckOwner, SetOwner, Created, CountTokens, TellEnd, Forget, verifier, At
<1>2. Leaves(h) \/ \E pc \in {"count", "claim", "announce", "forget"} : Step(h, pc)
  BY DEF CheckOwner, SetOwner, Created, CountTokens, TellEnd, Forget
<1>3. \A g \in Handler \ {h} : request'[g] = request[g]
  BY <1>2, OneMoves DEF Steps
<1>4. Calls'
  BY <1>1, <1>3, CallsSame DEF RestOK
<1>5. EventShapes /\ AccountOK /\ owner \in BOOLEAN /\ account # "wrong"
  BY DEF RestOK, EventShapes
<1>6. Overlapping(h) \in BOOLEAN
  BY DEF Overlapping
<1>7. ~Overlapping(h) => \A g \in Handler \ {h} : request[g].pc \notin Section
  BY DEF Overlapping, Section
<1>8. CASE CheckOwner(h) \/ SetOwner(h) \/ Forget(h)
  <2>1. Quiet(Overlapping(h))
    BY <1>8 DEF CheckOwner, SetOwner, Forget
  <2>2. /\ queued' = queued /\ buffered' = buffered
        /\ account' = IF Overlapping(h) THEN "excused" ELSE account
    BY <2>1 DEF Quiet
  <2>3. owner' \in {owner, TRUE, FALSE}
    BY <1>8 DEF CheckOwner, SetOwner, Forget, Forgotten
  <2>4. owner' \in BOOLEAN
    BY <1>5, <2>3
  <2>5. EventShapes'
    BY <1>5, <2>2, <2>4 DEF EventShapes
  <2>6. AccountOK'
    <3>1. CASE Overlapping(h) \/ account = "excused"
      BY <2>2, <3>1 DEF AccountOK
    <3>2. CASE ~Overlapping(h) /\ account # "excused" /\ CheckOwner(h)
      <4>1. request[h].pc = "published" /\ owner' = owner
            /\ Step(h, IF owner THEN "count" ELSE "claim")
        BY <3>2 DEF CheckOwner, At
      <4>2. \A g \in Handler : request[g].pc \notin Section
        BY <1>7, <3>2, <4>1 DEF Section
      <4>3. owner <=> account = "open"
        BY <1>5, <3>2, <4>2 DEF AccountOK
      <4>4. /\ owner => request'[h].pc = "count"
            /\ ~owner => request'[h].pc = "claim"
        BY <4>1, OneMoves DEF Steps
      <4>5. account \in {"open", "closed"} /\ account' = account
        BY <2>2, <3>2, <1>5 DEF EventShapes
      <4>6. SectionOK(h)' /\ request'[h].pc \in Section
        BY <4>1, <4>3, <4>4, <4>5 DEF SectionOK, At, Section
      <4>7. QED BY <1>3, <3>2, <4>6, AloneOK
    <3>3. CASE ~Overlapping(h) /\ account # "excused" /\ SetOwner(h)
      <4>1. request[h].pc = "claim" /\ owner' = TRUE /\ Step(h, "announce")
        BY <3>3 DEF SetOwner, At
      <4>2. account = "closed" /\ account' = account
        BY <1>5, <2>2, <3>3, <4>1 DEF AccountOK, SectionOK, At, Section
      <4>3. request'[h].pc = "announce"
        BY <4>1, OneMoves DEF Steps
      <4>4. SectionOK(h)' /\ request'[h].pc \in Section
        BY <4>1, <4>2, <4>3 DEF SectionOK, At, Section
      <4>5. QED BY <1>3, <3>3, <4>4, AloneOK
    <3>4. CASE ~Overlapping(h) /\ account # "excused" /\ Forget(h)
      <4>1. request[h].pc = "forget" /\ owner' = FALSE /\ Leaves(h)
        BY <3>4 DEF Forget, At, Forgotten
      <4>2. account = "closed" /\ account' = account
        BY <1>5, <2>2, <3>4, <4>1 DEF AccountOK, SectionOK, At, Section
      <4>3. request'[h].pc = "idle"
        BY <4>1, OneMoves DEF Steps
      <4>4. /\ request'[h].pc \notin Section
            /\ (owner' <=> account' = "open")
        BY <4>1, <4>2, <4>3 DEF Section
      <4>5. QED BY <1>3, <3>4, <4>4, AloneOK
    <3>5. QED BY <1>8, <3>1, <3>2, <3>3, <3>4
  <2>7. QED BY <1>4, <2>5, <2>6 DEF RestOK
<1>9. CASE Created(h) \/ CountTokens(h)
  <2>1. /\ owner' = owner
        /\ Created(h) => Send("created", Overlapping(h))
        /\ CountTokens(h) => Send("other", Overlapping(h))
    <3>1. owner' = owner
      BY <1>9 DEF Created, CountTokens
    <3>2. Created(h) => Send("created", Overlapping(h))
      BY DEF Created
    <3>3. CountTokens(h) => Send("other", Overlapping(h))
      BY DEF CountTokens
    <3>4. QED BY <3>1, <3>2, <3>3
  <2>2. CASE Overlapping(h) \/ account = "excused" \/ queued = QueueSize
    <3>1. account' = "excused"
      BY <1>9, <2>1, <2>2 DEF Send, Told
    <3>2. EventShapes'
      BY <1>5, <1>6, <1>9, <2>1, <3>1, Sent
    <3>3. AccountOK'
      BY <3>1 DEF AccountOK
    <3>4. QED BY <1>4, <3>2, <3>3 DEF RestOK
  <2>3. CASE ~Overlapping(h) /\ account # "excused" /\ queued # QueueSize
    <3>1. CASE Created(h)
      <4>1. request[h].pc = "announce" /\ Step(h, "count")
        BY <3>1 DEF Created, At
      <4>2. owner /\ account = "closed"
        BY <1>5, <2>3, <4>1 DEF AccountOK, SectionOK, At, Section
      <4>3. account' = "open"
        BY <2>1, <2>3, <3>1, <4>2 DEF Send, Told
      <4>4. request'[h].pc = "count"
        BY <4>1, OneMoves DEF Steps
      <4>5. SectionOK(h)' /\ request'[h].pc \in Section
        BY <2>1, <4>2, <4>3, <4>4 DEF SectionOK, At, Section
      <4>6. AccountOK'
        BY <1>3, <2>3, <4>5, AloneOK
      <4>7. EventShapes'
        BY <1>5, <1>6, <2>1, <3>1, <4>3, Sent
      <4>8. QED BY <1>4, <4>6, <4>7 DEF RestOK
    <3>2. CASE CountTokens(h)
      <4>1. request[h].pc = "count" /\ Leaves(h)
        BY <3>2 DEF CountTokens, At
      <4>2. owner /\ account = "open"
        BY <1>5, <2>3, <4>1 DEF AccountOK, SectionOK, At, Section
      <4>3. account' = "open"
        BY <2>1, <2>3, <3>2, <4>2 DEF Send, Told
      <4>4. request'[h].pc = "idle"
        BY <4>1, OneMoves DEF Steps
      <4>5. /\ request'[h].pc \notin Section
            /\ (owner' <=> account' = "open")
        BY <2>1, <4>2, <4>3, <4>4 DEF Section
      <4>6. AccountOK'
        BY <1>3, <2>3, <4>5, AloneOK
      <4>7. EventShapes'
        BY <1>5, <1>6, <2>1, <3>2, <4>3, Sent
      <4>8. QED BY <1>4, <4>6, <4>7 DEF RestOK
    <3>3. QED BY <1>9, <3>1, <3>2
  <2>4. QED BY <2>2, <2>3
<1>10. CASE TellEnd(h)
  <2>1. /\ request[h].pc = "ended" /\ Step(h, "forget") /\ owner' = owner
        /\ owner => Send("terminal", Overlapping(h))
        /\ ~owner => queued' = queued /\ buffered' = buffered /\ account' = account
    BY <1>10 DEF TellEnd, SendToOwner, At
  <2>2. request'[h].pc = "forget"
    BY <2>1, OneMoves DEF Steps
  <2>3. CASE ~owner
    <3>1. EventShapes'
      BY <1>5, <2>1, <2>3 DEF EventShapes
    <3>2. CASE account = "excused"
      BY <1>4, <2>1, <2>3, <3>1, <3>2 DEF RestOK, AccountOK
    <3>3. CASE ~Overlapping(h) /\ account # "excused"
      <4>1. \A g \in Handler : request[g].pc \notin Section
        BY <1>7, <2>1, <3>3 DEF Section
      <4>2. account = "closed"
        BY <1>5, <2>3, <3>3, <4>1 DEF AccountOK, EventShapes
      <4>3. SectionOK(h)' /\ request'[h].pc \in Section
        BY <2>1, <2>2, <2>3, <4>2 DEF SectionOK, At, Section
      <4>4. AccountOK'
        BY <1>3, <3>3, <4>3, AloneOK
      <4>5. QED BY <1>4, <3>1, <4>4 DEF RestOK
    <3>4. CASE Overlapping(h)
      <4>1. PICK k \in Handler \ {h} : request[k].pc \in Section
        BY <3>4 DEF Overlapping, Section
      <4>2. request'[k].pc \in Section /\ request'[h].pc \in Section
        BY <1>3, <2>2, <4>1 DEF Section
      <4>3. \A g \in Handler : Overlapping(g)'
        BY <4>1, <4>2 DEF Overlapping, Section
      <4>4. AccountOK'
        BY <4>2, <4>3 DEF AccountOK
      <4>5. QED BY <1>4, <3>1, <4>4 DEF RestOK
    <3>5. QED BY <3>2, <3>3, <3>4
  <2>4. CASE owner
    <3>1. CASE Overlapping(h) \/ account = "excused" \/ queued = QueueSize
      <4>1. account' = "excused"
        BY <2>1, <2>4, <3>1 DEF Send, Told
      <4>2. EventShapes'
        BY <1>5, <1>6, <2>1, <2>4, <4>1, Sent
      <4>3. AccountOK'
        BY <4>1 DEF AccountOK
      <4>4. QED BY <1>4, <4>2, <4>3 DEF RestOK
    <3>2. CASE ~Overlapping(h) /\ account # "excused" /\ queued # QueueSize
      <4>1. \A g \in Handler : request[g].pc \notin Section
        BY <1>7, <2>1, <3>2 DEF Section
      <4>2. account = "open"
        BY <1>5, <2>4, <3>2, <4>1 DEF AccountOK
      <4>3. account' = "closed"
        BY <2>1, <2>4, <3>2, <4>2 DEF Send, Told
      <4>4. SectionOK(h)' /\ request'[h].pc \in Section
        BY <2>2, <4>3 DEF SectionOK, At, Section
      <4>5. AccountOK'
        BY <1>3, <3>2, <4>4, AloneOK
      <4>6. EventShapes'
        BY <1>5, <1>6, <2>1, <2>4, <4>3, Sent
      <4>7. QED BY <1>4, <4>5, <4>6 DEF RestOK
    <3>3. QED BY <3>1, <3>2
  <2>5. QED BY <2>3, <2>4
<1>11. QED BY <1>8, <1>9, <1>10

LEMMA RestSteps ==
    ASSUME Shapes, VerifierShapes, RestOK, Next
    PROVE  RestOK'
<1>0. /\ request \in [Handler -> Request] /\ call \in [Handler -> CallState]
      /\ EventShapes /\ Calls /\ AccountOK
  BY DEF Shapes, VerifierShapes, RestOK
<1>1. CASE Verifying
  <2>1. request' = request /\ UNCHANGED events
    BY <1>1 DEF Verifying, routes
  <2>2. owner' = owner /\ account' = account /\ queued' = queued /\ buffered' = buffered
    BY <2>1 DEF events
  <2>3. \A h \in Handler : call'[h] # "idle" => call[h] # "idle"
    BY <1>0, <1>1
    DEF Verifying, Revoke, Pass, Answer, GiveUp, Arrive, Said, UnderWay
  <2>4. Calls'
    BY <1>0, <2>1, <2>3 DEF Calls, At
  <2>5. AccountOK' /\ EventShapes'
    BY <1>0, <2>1, <2>2, AccountSame DEF EventShapes
  <2>6. QED BY <2>4, <2>5 DEF RestOK
<1>2. CASE Reporter
  <2>1. request' = request /\ call' = call /\ owner' = owner /\ account' = account
    BY <1>2 DEF Reporter, routes, verifier, Take, Flush
  <2>2. queued' \in 0..QueueSize
    BY <1>0, <1>2, EventsAssumption DEF Reporter, Take, Flush, EventShapes
  <2>3. buffered' \in 0..BatchSize - 1
    BY <1>0, <1>2, EventsAssumption DEF Reporter, Take, Flush, EventShapes
  <2>4. EventShapes'
    BY <1>0, <2>1, <2>2, <2>3 DEF EventShapes
  <2>5. AccountOK' /\ Calls'
    BY <1>0, <2>1, AccountSame, CallsSame
  <2>6. QED BY <2>4, <2>5 DEF RestOK
<1>3. CASE Evict
  <2>1. request' = request /\ call' = call /\ UNCHANGED events
    BY <1>3 DEF Evict, verifier
  <2>2. QED BY <2>1, SilentStep DEF Beside
<1>4. ASSUME NEW h \in Handler, NEW op \in Write, Begin(h, op)
      PROVE  RestOK'
  <2>1. /\ call[h] = "idle" /\ request[h].pc = "idle" /\ UNCHANGED events
        /\ \A g \in Handler \ {h} : call'[g] = call[g]
    BY <1>0, <1>4 DEF Begin, Lookup, Said, At
  <2>2. /\ request'[h].pc = "verifying"
        /\ \A g \in Handler \ {h} : request'[g] = request[g]
    <3>1. NoRequest \in Request
      BY Blank
    <3>2. request' = [request EXCEPT ![h] = [NoRequest EXCEPT !.pc = "verifying", !.op = op]]
      BY <1>4 DEF Begin
    <3>3. QED BY <1>0, <3>1, <3>2 DEF Request
  <2>3. Calls'
    BY <1>0, <2>1, <2>2 DEF Calls, At
  <2>4. owner' = owner /\ account' = account /\ queued' = queued /\ buffered' = buffered
    BY <2>1 DEF events
  <2>5. AccountOK'
    BY <1>0, <2>1, <2>2, <2>4, AccountSame DEF Section
  <2>6. EventShapes'
    BY <1>0, <2>4 DEF EventShapes
  <2>7. QED BY <2>3, <2>5, <2>6 DEF RestOK
<1>5. ASSUME NEW h \in Handler, Authorized(h)
      PROVE  RestOK'
  <2>1. /\ call'[h] = "idle" /\ request[h].pc = "verifying" /\ UNCHANGED events
        /\ \A g \in Handler \ {h} : call'[g] = call[g]
    BY <1>0, <1>5 DEF Authorized, Release, Said, At
  <2>2. Leaves(h) \/ Step(h, "authorized")
    BY <1>5 DEF Authorized
  <2>3. /\ request'[h].pc \in {"idle", "authorized"}
        /\ \A g \in Handler \ {h} : request'[g] = request[g]
    BY <2>2, OneMoves DEF Steps
  <2>4. Calls'
    BY <1>0, <2>1, <2>3 DEF Calls, At
  <2>5. owner' = owner /\ account' = account /\ queued' = queued /\ buffered' = buffered
    BY <2>1 DEF events
  <2>6. AccountOK'
    BY <1>0, <2>1, <2>3, <2>5, AccountSame DEF Section
  <2>7. EventShapes'
    BY <1>0, <2>5 DEF EventShapes
  <2>8. QED BY <2>4, <2>6, <2>7 DEF RestOK
<1>6. ASSUME NEW h \in Handler,
             CheckOwner(h) \/ SetOwner(h) \/ Created(h) \/ CountTokens(h)
                 \/ TellEnd(h) \/ Forget(h)
      PROVE  RestOK'
  BY <1>6, SectionSteps
<1>7. ASSUME NEW h \in Handler, \E ticket \in BOOLEAN : Enter(h, ticket)
      PROVE  RestOK'
  <2>1. PICK ticket \in BOOLEAN : Enter(h, ticket)
    BY <1>7
  <2>2. /\ request' = [request EXCEPT ![h] = [NoRequest EXCEPT
                         !.pc = "entered", !.op = "read", !.ticket = ticket]]
        /\ request[h].pc = "idle" /\ call' = call /\ UNCHANGED events
    BY <2>1 DEF Enter, At, verifier
  <2>3. NoRequest \in Request
    BY Blank
  <2>4. request'[h].pc = "entered" /\ \A g \in Handler \ {h} : request'[g] = request[g]
    BY <1>0, <2>2, <2>3 DEF Request
  <2>5. \A g \in Handler : Beside(g)
    BY <2>2, <2>4 DEF Beside, Section
  <2>6. QED BY <2>2, <2>5, SilentStep
<1>8. ASSUME NEW h \in Handler, SetPrivate(h)
      PROVE  RestOK'
  <2>1. /\ request[h].pc = "authorized" /\ call' = call /\ UNCHANGED events
    BY <1>8 DEF SetPrivate, At, verifier
  <2>2. \A g \in Handler : IF g = h THEN request'[g].pc = "marked"
                           ELSE request'[g].pc = request[g].pc
    BY <1>0, <1>8 DEF SetPrivate, Request
  <2>3. \A g \in Handler : Beside(g)
    BY <2>1, <2>2 DEF Beside, Section
  <2>4. QED BY <2>1, <2>3, SilentStep
<1>9. ASSUME NEW h \in Handler, Publish(h)
      PROVE  RestOK'
  <2>1. /\ request[h].pc \in {"authorized", "marked"} /\ call' = call /\ UNCHANGED events
        /\ request' = [request EXCEPT ![h] = [NoRequest EXCEPT !.pc = "published"]]
    BY <1>9 DEF Publish, PublishReady, At, verifier
  <2>2. NoRequest \in Request
    BY Blank
  <2>3. request'[h].pc = "published" /\ \A g \in Handler \ {h} : request'[g] = request[g]
    BY <1>0, <2>1, <2>2 DEF Request
  <2>4. \A g \in Handler : Beside(g)
    BY <2>1, <2>3 DEF Beside, Section
  <2>5. QED BY <2>1, <2>4, SilentStep
<1>10. ASSUME NEW h \in Handler, End(h) \/ Delete(h) \/ UpgradeFails(h)
       PROVE  RestOK'
  <2>1. /\ request[h].pc \in {"authorized", "admitted"} /\ call' = call
        /\ UNCHANGED events
        /\ Step(h, "ended") \/ Leaves(h)
    BY <1>10 DEF End, Delete, UpgradeFails, At, verifier
  <2>2. /\ request'[h].pc \in {"idle", "ended"}
        /\ \A g \in Handler \ {h} : request'[g] = request[g]
    BY <2>1, OneMoves DEF Steps
  <2>3. \A g \in Handler : Beside(g)
    BY <2>1, <2>2 DEF Beside, Section
  <2>4. QED BY <2>1, <2>3, SilentStep
<1>11. ASSUME NEW h \in Handler, Open(h)
       PROVE  RestOK'
  <2>1. /\ request[h].pc = "admitted" /\ call' = call /\ UNCHANGED events
        /\ request' = [request EXCEPT ![h].pc = "opened", ![h].stream = Registered]
    BY <1>11 DEF Open, At, verifier
  <2>2. request'[h].pc = "opened" /\ \A g \in Handler \ {h} : request'[g] = request[g]
    BY <1>0, <2>1 DEF Request
  <2>3. \A g \in Handler : Beside(g)
    BY <2>1, <2>2 DEF Beside, Section
  <2>4. QED BY <2>1, <2>3, SilentStep
<1>12. ASSUME NEW h \in Handler, Admit(h)
       PROVE  RestOK'
  <2>1. /\ request[h].pc = "entered" /\ call' = call
        /\ Step(h, "admitted") \/ Leaves(h)
        /\ UNCHANGED events \/ SendToOwner("other", Overlapping(h))
    BY <1>12 DEF Admit, At, verifier
  <2>2. /\ request'[h].pc \in {"idle", "admitted"}
        /\ \A g \in Handler \ {h} : request'[g] = request[g]
    BY <2>1, OneMoves DEF Steps
  <2>3. \A g \in Handler : Beside(g)
    BY <2>1, <2>2 DEF Beside, Section
  <2>4. request[h].pc \notin Section
    BY <2>1 DEF Section
  <2>5. QED BY <2>1, <2>3, <2>4, SilentStep, SentToOwner
<1>13. ASSUME NEW h \in Handler, Poll(h)
       PROVE  RestOK'
  <2>1. /\ request[h].pc = "opened" /\ call' = call
        /\ UNCHANGED events \/ SendToOwner("other", Overlapping(h))
    BY <1>13 DEF Poll, At, verifier
  <2>2. \A g \in Handler : IF g = h THEN request'[g].pc = "streaming"
                           ELSE request'[g].pc = request[g].pc
    BY <1>0, <1>13 DEF Poll, Request
  <2>3. \A g \in Handler : Beside(g)
    BY <2>1, <2>2 DEF Beside, Section
  <2>4. request[h].pc \notin Section
    BY <2>1 DEF Section
  <2>5. QED BY <2>1, <2>3, <2>4, SilentStep, SentToOwner
<1>14. ASSUME NEW h \in Handler, Leave(h)
       PROVE  RestOK'
  <2>1. /\ request[h].pc \in {"opened", "streaming"} /\ call' = call
        /\ Leaves(h) /\ SendToOwner("other", Overlapping(h))
    BY <1>14 DEF Leave, verifier
  <2>2. /\ request'[h].pc = "idle"
        /\ \A g \in Handler \ {h} : request'[g] = request[g]
    BY <2>1, OneMoves
  <2>3. \A g \in Handler : Beside(g)
    BY <2>1, <2>2 DEF Beside, Section
  <2>4. request[h].pc \notin Section
    BY <2>1 DEF Section
  <2>5. QED BY <2>1, <2>3, <2>4, SentToOwner
<1>15. QED
  BY <1>1, <1>2, <1>3, <1>4, <1>5, <1>6, <1>7, <1>8, <1>9, <1>10, <1>11, <1>12,
     <1>13, <1>14 DEF Next

-----------------------------------------------------------------------------
(* The inductive invariant.                                                *)
IInv == VerifierOK /\ RoutesOK /\ RestOK

LEMMA Starts == Init => IInv
<1> SUFFICES ASSUME Init PROVE IInv
  OBVIOUS
<1>1. VerifierOK
  BY VerifierStarts DEF Init
<1>2. /\ owner = FALSE /\ queued = 0 /\ buffered = 0 /\ account = "closed"
      /\ streams = <<>> /\ current = 0
      /\ request = [h \in Handler |-> NoRequest]
      /\ call = [h \in Handler |-> "idle"]
  BY DEF Init, EventsInit, VerifierInit
<1>3. NoRequest \in Request /\ NoRequest.stream = 0 /\ NoRequest.pc = "idle"
  BY Blank
<1>4. /\ \A h \in Handler : request[h].pc = "idle" /\ request[h].stream = 0
      /\ request \in [Handler -> Request]
  BY <1>2, <1>3
<1>5. Shapes
  BY <1>2, <1>4 DEF Shapes
<1>6. PrivateOK
  BY <1>2, <1>4 DEF PrivateOK, HoldsOK, MarkOK, ReaderOK
<1>7. CapOK
  <2>1. \A i : Unpassed(i) = {}
    BY <1>4 DEF Unpassed, Counted, At
  <2>2. \A i \in Nat \ {0} : Cardinality(Unpassed(i)) <= SubscriberCap
    BY <2>1, FS_EmptySet, RoutesAssumption
  <2>3. \A h \in Handler : RoomOK(request[h], current)
    BY <1>4 DEF RoomOK
  <2>4. QED BY <2>2, <2>3 DEF CapOK
<1>8. EventShapes
  <2>1. owner \in BOOLEAN
    BY <1>2
  <2>2. QED BY <1>2, <2>1, EventsAssumption DEF EventShapes
<1>9. Calls
  BY <1>2 DEF Calls
<1>10. AccountOK
  <2>1. owner <=> account = "open"
    BY <1>2
  <2>2. QED BY <1>4, <2>1 DEF AccountOK, Section
<1>11. QED BY <1>1, <1>5, <1>6, <1>7, <1>8, <1>9, <1>10 DEF IInv, RoutesOK, RestOK

(* A step of the routes is a step of the verifier, or leaves it alone.     *)
LEMMA StepVerifies ==
    ASSUME Next PROVE [VerifierNext]_verifier
<1>1. CASE Verifying
  BY <1>1 DEF Verifying, VerifierNext
<1>2. CASE \E h \in Handler : Authorized(h) \/ \E op \in Write : Begin(h, op)
  BY <1>2 DEF Authorized, Begin, VerifierNext
<1>3. CASE Reporter \/ Evict
  BY <1>3 DEF Reporter, Evict
<1>4. CASE \E h \in Handler :
              \/ \E ticket \in BOOLEAN : Enter(h, ticket)
              \/ SetPrivate(h) \/ Publish(h) \/ CheckOwner(h) \/ SetOwner(h)
              \/ Created(h) \/ CountTokens(h) \/ End(h) \/ TellEnd(h) \/ Forget(h)
              \/ Delete(h) \/ Admit(h) \/ Open(h) \/ Poll(h) \/ Leave(h)
              \/ UpgradeFails(h)
  BY <1>4 DEF Enter, SetPrivate, Publish, CheckOwner, SetOwner, Created, CountTokens,
              End, TellEnd, Forget, Delete, Admit, Open, Poll, Leave, UpgradeFails
<1>5. QED BY <1>1, <1>2, <1>3, <1>4 DEF Next

LEMMA StepKeepsInv ==
    ASSUME IInv, [Next]_vars
    PROVE  IInv'
<1>1. CASE Next
  <2>1. VerifierOK'
    BY <1>1, StepVerifies, VerifierSteps DEF IInv
  <2>2. RoutesOK'
    BY <1>1, RouteSteps DEF IInv
  <2>3. RestOK'
    BY <1>1, RestSteps DEF IInv, RoutesOK, VerifierOK
  <2>4. QED BY <2>1, <2>2, <2>3 DEF IInv
<1>2. CASE UNCHANGED vars
  <2>1. request' = request /\ streams' = streams /\ current' = current
        /\ UNCHANGED verifier /\ UNCHANGED events /\ call' = call
    BY <1>2 DEF vars, verifier
  <2>2. VerifierOK'
    BY <2>1, VerifierSteps DEF IInv
  <2>3. RoutesOK'
    BY <2>1, Still, NoMove DEF IInv
  <2>4. RestOK'
    BY <2>1, SilentStep DEF IInv, Beside
  <2>5. QED BY <2>2, <2>3, <2>4 DEF IInv
<1>3. QED BY <1>1, <1>2

THEOREM Invariance == Spec => []IInv
<1>1. IInv /\ [Next]_vars => IInv'
  BY StepKeepsInv
<1>2. QED BY Starts, <1>1, PTL DEF Spec

(* What the variables range over, how many events wait, and that only a    *)
(* request under authorisation has a call, which is in time.               *)
THEOREM TypeCorrect == Spec => []TypeOK
<1>1. IInv => TypeOK
  <2> SUFFICES ASSUME IInv PROVE TypeOK
    OBVIOUS
  <2>1. \A h \in Handler : UnderWay(h) => At(h, "verifying") /\ waited[h] <= VerifyTimeout
    BY VerifierAssumption
    DEF IInv, RestOK, Calls, UnderWay, VerifierOK, VerifierShapes
  <2>2. QED BY <2>1 DEF TypeOK, IInv, VerifierOK, VerifierShapes, RestOK, EventShapes,
                        RoutesOK, Shapes
<1>2. QED BY <1>1, Invariance, PTL

(* A private chunk reaches a reader without a ticket only in a race with   *)
(* the mark, or when its Stream was dropped between mark and chunk.        *)
THEOREM PrivateSound == Spec => []PrivateNeedsTicket
<1>1. IInv => PrivateNeedsTicket
  <2> SUFFICES ASSUME IInv, NEW h \in Handler,
                      request[h].pc \in {"opened", "streaming"}, ~request[h].ticket,
                      streams[request[h].stream].holds
               PROVE  \/ request[h].stream \in request[h].late
                      \/ streams[request[h].stream].apart
    BY DEF PrivateNeedsTicket
  <2>1. ReaderOK(request[h], streams, current) /\ HoldsOK(streams)
    BY DEF IInv, RoutesOK, PrivateOK
  <2>2. /\ request[h].stream \in 1..Len(streams)
        /\ streams[request[h].stream].private => request[h].stream \in request[h].late
    BY <2>1 DEF ReaderOK
  <2>3. QED BY <2>1, <2>2 DEF HoldsOK
<1>2. QED BY <1>1, Invariance, PTL

(* Without a reader passed between the count and its first poll, no Stream *)
(* has more readers than the cap, whatever the cap and however many ask.   *)
THEOREM CapSound == Spec => []OnlyRacesExceedCap
<1>1. IInv => OnlyRacesExceedCap
  <2> SUFFICES ASSUME IInv, NEW i \in 1..Len(streams),
                      Cardinality(Counted(i)) > SubscriberCap,
                      \A h \in Counted(i) : ~request[h].passed
               PROVE  FALSE
    BY DEF OnlyRacesExceedCap
  <2>1. Unpassed(i) = Counted(i)
    BY DEF Unpassed
  <2>2. i \in Nat \ {0}
    BY DEF IInv, RoutesOK, Shapes
  <2>3. Cardinality(Counted(i)) <= SubscriberCap
    BY <2>1, <2>2 DEF IInv, RoutesOK, CapOK
  <2>4. Cardinality(Counted(i)) \in Nat
    BY CountedFinite
  <2>5. QED BY <2>3, <2>4, RoutesAssumption
<1>2. QED BY <1>1, Invariance, PTL

(* What the control plane is told adds up, unless handlers overlapped or   *)
(* the channel was full.                                                   *)
THEOREM AccountSound == Spec => []AccountAddsUp
<1>1. IInv => AccountAddsUp
  BY DEF IInv, RestOK, EventShapes, AccountAddsUp
<1>2. QED BY <1>1, Invariance, PTL

(* The routes use the verifier as it is specified ...                      *)
THEOREM Implements == Spec => VerifierSpec
<1>1. Init => VerifierInit
  BY DEF Init
<1>2. [Next]_vars => [VerifierNext]_verifier
  BY StepVerifies DEF vars
<1>3. QED BY <1>1, <1>2, PTL DEF Spec, VerifierSpec

(* ... and so a revoked key authorises nothing once a call and a lifetime  *)
(* of the cache have passed.                                               *)
THEOREM WindowSound == Spec => RevocationWindow
  BY Implements, VerifierSound
=============================================================================
