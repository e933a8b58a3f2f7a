---------------------------- MODULE LiveTailProofs ----------------------------
(***************************************************************************)
(* Proofs about LiveTail, for any number of watchers and writers and any   *)
(* batch size.  That `done` means everything was given is proved for       *)
(* watchers that never fall behind their live stream by a whole channel:   *)
(* one that does takes the end of that stream for the end of the run.      *)
(***************************************************************************)
EXTENDS LiveTail, TLAPS

Stream == [frames : BOOLEAN, complete : BOOLEAN]

Loop == [pc : {"off", "drain", "wait", "done", "cut"}, stream : Nat, next : Nat,
         attached : BOOLEAN, woken : BOOLEAN, ended : BOOLEAN,
         finished : BOOLEAN]

Shapes ==
    /\ length \in Nat
    /\ sealed \in BOOLEAN
    /\ streams \in Seq(Stream)
    /\ current \in 0..Len(streams)
    /\ request \in [Writer -> {"idle", "publish", "publish_last", "checkpoint",
                               "complete"}]
    /\ watch \in [Watcher -> Loop]

(* Only the handler that sealed the run completes its stream.              *)
Terminals ==
    /\ \A i \in 1..Len(streams) : streams[i].complete => sealed
    /\ \A w \in Writer : request[w] \in {"publish_last", "checkpoint", "complete"}
                            => sealed

(* Where a watcher is, and what it may take for granted: it was told of    *)
(* the end only by a stream that completed, and is done only after a read  *)
(* that came back short after that.                                        *)
LoopOK(it) ==
    /\ it.pc # "off" => it.stream \in 1..Len(streams)
    /\ it.next <= length
    /\ it.woken \/ it.ended => it.attached
    /\ it.ended => sealed
    /\ ~MaySlow => /\ it.finished => sealed
                   /\ it.pc = "done" => sealed /\ it.next = length

Loops == \A v \in Watcher : LoopOK(watch[v])

IInv == Shapes /\ Terminals /\ Loops

-----------------------------------------------------------------------------
(* get_or_create finds a Stream or adds a fresh one.                       *)
LEMMA StreamThere ==
    ASSUME Shapes
    PROVE  /\ WithStream \in Seq(Stream)
           /\ Registered \in 1..Len(WithStream)
           /\ Registered \in 0..Len(WithStream)
           /\ Len(streams) \in Nat /\ Len(WithStream) \in Nat
           /\ Len(streams) <= Len(WithStream)
           /\ \A i \in 1..Len(streams) : WithStream[i] = streams[i]
           /\ \A i \in 1..Len(WithStream) :
                 i \in 1..Len(streams) \/ WithStream[i] = NewStream
<1>1. streams \in Seq(Stream) /\ current \in 0..Len(streams)
  BY DEF Shapes
<1>2. NewStream \in Stream
  BY DEF NewStream, Stream
<1>3. CASE current = 0
  BY <1>1, <1>2, <1>3 DEF WithStream, Registered
<1>4. CASE current # 0
  BY <1>1, <1>4 DEF WithStream, Registered
<1>5. QED BY <1>3, <1>4

(* Changing one Stream leaves the others and their number alone.           *)
LEMMA StreamChanged ==
    ASSUME NEW ss \in Seq(Stream), NEW i \in 1..Len(ss), NEW s \in Stream
    PROVE  /\ [ss EXCEPT ![i] = s] \in Seq(Stream)
           /\ Len([ss EXCEPT ![i] = s]) = Len(ss)
           /\ \A j \in 1..Len(ss) :
                 [ss EXCEPT ![i] = s][j] = IF j = i THEN s ELSE ss[j]
OBVIOUS

(* The record grows only while the run is open, sealing is for ever, and   *)
(* streams are only added.                                                 *)
Grows ==
    /\ length' \in Nat /\ length <= length'
    /\ sealed' \in BOOLEAN
    /\ sealed => sealed' /\ length' = length
    /\ Len(streams') \in Nat /\ Len(streams) <= Len(streams')

(* What every step has to show: the variables keep their shapes, a         *)
(* terminal means a sealed run, the record and the streams only grow, and  *)
(* each loop is where it was or at a consistent place.                     *)
Step ==
    /\ Shapes' /\ Terminals' /\ Grows
    /\ \A v \in Watcher : watch'[v] = watch[v] \/ LoopOK(watch[v])'

(* A loop that did not move stays consistent under such a step.            *)
LEMMA StepKeepsInv ==
    ASSUME IInv, Step
    PROVE  IInv'
<1>1. ASSUME NEW v \in Watcher
      PROVE  LoopOK(watch[v])'
  <2>1. watch[v] \in Loop /\ LoopOK(watch[v])
    BY DEF IInv, Shapes, Loops
  <2>2. CASE watch'[v] = watch[v]
    <3> DEFINE it == watch[v]
    <3>1. Shapes /\ Grows /\ it \in Loop /\ LoopOK(it)
      BY <2>1 DEF IInv, Step
    <3>2. /\ it.next \in Nat /\ it.stream \in Nat /\ length \in Nat
          /\ Len(streams) \in Nat
      BY <3>1 DEF Loop, Shapes
    <3>3. watch'[v].pc # "off" => watch'[v].stream \in 1..Len(streams')
      BY <2>2, <3>1, <3>2 DEF LoopOK, Grows
    <3>4. watch'[v].next <= length'
      BY <2>2, <3>1, <3>2 DEF LoopOK, Grows
    <3>5. /\ watch'[v].ended => sealed'
          /\ ~MaySlow =>
                /\ watch'[v].finished => sealed'
                /\ watch'[v].pc = "done" => sealed' /\ watch'[v].next = length'
      BY <2>2, <3>1 DEF LoopOK, Grows
    <3>6. watch'[v].woken \/ watch'[v].ended => watch'[v].attached
      BY <2>2, <3>1 DEF LoopOK
    <3>7. QED BY <3>3, <3>4, <3>5, <3>6 DEF LoopOK
  <2>3. QED BY <2>2 DEF Step
<1>2. QED BY <1>1 DEF Step, IInv, Loops

-----------------------------------------------------------------------------
(* A run that does not exist yet, and nobody watching.                     *)
LEMMA InitInv == Init => IInv
<1> SUFFICES ASSUME Init PROVE IInv
  OBVIOUS
<1>1. \A v \in Watcher : watch[v] = [pc |-> "off", stream |-> 0, next |-> 0,
                                    attached |-> FALSE, woken |-> FALSE,
                                    ended |-> FALSE, finished |-> FALSE]
  BY DEF Init, Watch
<1>2. Shapes
  <2>1. Watch("off", 0) \in Loop
    BY DEF Loop, Watch
  <2>2. watch \in [Watcher -> Loop]
    BY <2>1 DEF Init
  <2>3. streams \in Seq(Stream) /\ Len(streams) = 0
    BY DEF Init
  <2>4. request \in [Writer -> {"idle", "publish", "publish_last",
                               "checkpoint", "complete"}]
    BY DEF Init
  <2>5. current \in 0..Len(streams) /\ length \in Nat
    BY <2>3 DEF Init
  <2>6. sealed \in BOOLEAN
    BY DEF Init
  <2>7. QED BY <2>2, <2>3, <2>4, <2>5, <2>6 DEF Shapes
<1>3. Terminals
  <2>1. 1..Len(streams) = {}
    BY DEF Init
  <2>2. QED BY <2>1 DEF Init, Terminals
<1>4. Loops
  <2>1. ASSUME NEW v \in Watcher
        PROVE  LoopOK(watch[v])
    <3>1. /\ watch[v].pc = "off" /\ watch[v].next = 0
          /\ ~watch[v].woken /\ ~watch[v].ended /\ ~watch[v].finished
      BY <1>1
    <3>2. length = 0
      BY DEF Init
    <3>3. QED BY <3>1, <3>2 DEF LoopOK
  <2>2. QED BY <2>1 DEF Loops
<1>5. QED BY <1>2, <1>3, <1>4 DEF IInv

(* A write, a lapsed gate and the seal make the record longer; the sealing *)
(* handler goes on to publish and complete.                                *)
LEMMA RecordStep ==
    ASSUME IInv, \/ \E w \in Writer : Write(w) \/ Seal(w)
                 \/ Lapse
    PROVE  Step
<1>1. Shapes /\ Terminals
  BY DEF IInv
<1>2. /\ ~sealed /\ length' = length + 1
      /\ sealed' \in {sealed, TRUE}
      /\ UNCHANGED <<streams, current, watch>>
  BY DEF Write, Seal, Lapse
<1>3. \/ /\ sealed' = TRUE
         /\ \E w \in Writer : request' = [request EXCEPT ![w] = "publish_last"]
      \/ /\ sealed' = sealed
         /\ \/ request' = request
            \/ \E w \in Writer : request' = [request EXCEPT ![w] = "publish"]
  BY DEF Write, Seal, Lapse, Goto
<1>4. Shapes'
  <2>1. /\ length' \in Nat
        /\ watch' \in [Watcher -> Loop]
        /\ streams' \in Seq(Stream) /\ current' \in 0..Len(streams')
    BY <1>1, <1>2 DEF Shapes
  <2>2. sealed' \in BOOLEAN
    BY <1>1, <1>2 DEF Shapes
  <2>3. request' \in [Writer -> {"idle", "publish", "publish_last",
                                "checkpoint", "complete"}]
    BY <1>1, <1>3 DEF Shapes
  <2>4. QED BY <2>1, <2>2, <2>3 DEF Shapes
<1>5. Terminals'
  <2>1. \A i \in 1..Len(streams') : streams'[i].complete => sealed'
    BY <1>1, <1>2 DEF Terminals
  <2>2. \A w \in Writer :
           request'[w] \in {"publish_last", "checkpoint", "complete"} => sealed'
    BY <1>1, <1>3 DEF Shapes, Terminals
  <2>3. QED BY <2>1, <2>2 DEF Terminals
<1>6. Grows
  <2>1. length' \in Nat /\ length <= length' /\ Len(streams') = Len(streams)
    BY <1>1, <1>2 DEF Shapes
  <2>2. Len(streams) \in Nat /\ sealed' \in BOOLEAN
    BY <1>1, <1>4 DEF Shapes
  <2>3. QED BY <1>2, <2>1, <2>2 DEF Grows
<1>7. QED BY <1>2, <1>4, <1>5, <1>6 DEF Step

(* Nothing moves in the record or in the streams but handlers.             *)
LEMMA QuietGrows ==
    ASSUME Shapes, UNCHANGED <<length, sealed, streams>>
    PROVE  Grows
BY DEF Shapes, Grows

(* A handler that moves on, among places that fit the seal.                *)
LEMMA GotoStep ==
    ASSUME Shapes, Terminals, NEW w \in Writer,
           NEW pc \in {"idle", "publish", "publish_last", "checkpoint", "complete"},
           Goto(w, pc), UNCHANGED sealed,
           pc \in {"publish_last", "checkpoint", "complete"} => sealed
    PROVE  /\ request' \in [Writer -> {"idle", "publish", "publish_last",
                                       "checkpoint", "complete"}]
           /\ \A x \in Writer :
                 request'[x] \in {"publish_last", "checkpoint", "complete"}
                    => sealed'
BY DEF Shapes, Terminals, Goto

(* Checkpointing and being dropped concern the handler alone.              *)
LEMMA HandlerStep ==
    ASSUME IInv, NEW w \in Writer, Checkpoint(w) \/ Disconnect(w)
    PROVE  Step
<1>1. Shapes /\ Terminals
  BY DEF IInv
<1>2. UNCHANGED <<length, sealed, streams, current, watch>>
  BY DEF Checkpoint, Disconnect
<1>3. \/ Goto(w, "idle")
      \/ Goto(w, "complete") /\ sealed
  BY <1>1 DEF Checkpoint, Disconnect, Terminals
<1>4. /\ request' \in [Writer -> {"idle", "publish", "publish_last",
                                  "checkpoint", "complete"}]
      /\ \A x \in Writer :
            request'[x] \in {"publish_last", "checkpoint", "complete"} => sealed'
  BY <1>1, <1>2, <1>3, GotoStep
<1>5. Shapes' /\ Terminals'
  BY <1>1, <1>2, <1>4 DEF Shapes, Terminals
<1>6. QED BY <1>1, <1>2, <1>5, QuietGrows DEF Step

(* Publishing finds or creates the stream, and wakes whoever listens.      *)
LEMMA PublishStep ==
    ASSUME IInv, NEW w \in Writer, Publish(w)
    PROVE  Step
<1>1. Shapes /\ Terminals /\ Loops
  BY DEF IInv
<1>2. UNCHANGED <<length, sealed>>
  BY DEF Publish
<1>3. \/ request[w] = "publish" /\ Goto(w, "idle")
      \/ sealed /\ Goto(w, "checkpoint")
  BY <1>1 DEF Publish, Terminals
<1>4. /\ request' \in [Writer -> {"idle", "publish", "publish_last",
                                  "checkpoint", "complete"}]
      /\ \A x \in Writer :
            request'[x] \in {"publish_last", "checkpoint", "complete"} => sealed'
  BY <1>1, <1>2, <1>3, GotoStep
<1>5. CASE UNCHANGED <<streams, current, watch>>
  <2>1. Shapes' /\ Terminals'
    BY <1>1, <1>2, <1>4, <1>5 DEF Shapes, Terminals
  <2>2. QED BY <1>1, <1>2, <1>5, <2>1, QuietGrows DEF Step
<1>6. CASE /\ streams' = [WithStream EXCEPT ![Registered].frames = TRUE]
           /\ current' = Registered
           /\ watch' = Woken(Registered)
  <2>1. /\ streams' \in Seq(Stream) /\ Len(streams') = Len(WithStream)
        /\ current' \in 0..Len(streams')
        /\ \A i \in 1..Len(streams') :
              streams'[i].complete = WithStream[i].complete
    <3> DEFINE s == [WithStream[Registered] EXCEPT !.frames = TRUE]
    <3>1. WithStream[Registered] \in Stream
      BY <1>1, StreamThere
    <3>2. s \in Stream /\ s.complete = WithStream[Registered].complete
      BY <3>1 DEF Stream
    <3>3. streams' = [WithStream EXCEPT ![Registered] = s]
      BY <1>6
    <3> HIDE DEF s
    <3>4. WithStream \in Seq(Stream) /\ Registered \in 1..Len(WithStream)
      BY <1>1, StreamThere
    <3>5. /\ streams' \in Seq(Stream) /\ Len(streams') = Len(WithStream)
          /\ \A j \in 1..Len(WithStream) :
                streams'[j] = IF j = Registered THEN s ELSE WithStream[j]
      BY <3>2, <3>3, <3>4, StreamChanged
    <3>6. current' \in 0..Len(streams')
      BY <1>1, <1>6, <3>5, StreamThere
    <3>7. QED BY <3>2, <3>5, <3>6
  <2>2. \A v \in Watcher :
           /\ watch[v] \in Loop
           /\ watch'[v] = watch[v] \/ (/\ watch[v].attached
                                       /\ watch'[v] = [watch[v] EXCEPT !.woken = TRUE])
    BY <1>1, <1>6 DEF Woken, Listening, Shapes
  <2>3. watch' \in [Watcher -> Loop]
    BY <1>6, <2>2, ZenonT(30) DEF Woken, Loop
  <2>4. Shapes'
    BY <1>1, <1>2, <1>4, <2>1, <2>3 DEF Shapes
  <2>5. Terminals'
    BY <1>1, <1>2, <1>4, <2>1, StreamThere DEF Terminals, NewStream
  <2>6. Grows
    BY <1>1, <1>2, <2>1, StreamThere DEF Grows, Shapes
  <2>7. ASSUME NEW v \in Watcher, watch'[v] # watch[v]
        PROVE  LoopOK(watch[v])'
    <3>1. /\ watch[v].attached /\ LoopOK(watch[v]) /\ watch[v] \in Loop
          /\ watch'[v] = [watch[v] EXCEPT !.woken = TRUE]
      BY <1>1, <2>2, <2>7 DEF Loops
    <3>2. /\ watch'[v].pc = watch[v].pc /\ watch'[v].stream = watch[v].stream
          /\ watch'[v].next = watch[v].next /\ watch'[v].attached
          /\ watch'[v].ended = watch[v].ended
          /\ watch'[v].finished = watch[v].finished
      BY <3>1 DEF Loop
    <3>3. 1..Len(streams) \subseteq 1..Len(streams')
      BY <1>1, <2>1, StreamThere
    <3>4. QED BY <1>2, <3>1, <3>2, <3>3 DEF LoopOK
  <2>8. QED BY <2>4, <2>5, <2>6, <2>7 DEF Step
<1>7. QED BY <1>5, <1>6 DEF Publish

(* The terminal is sent by a handler that sealed the run.                  *)
LEMMA CompleteStep ==
    ASSUME IInv, NEW w \in Writer, Complete(w)
    PROVE  Step
<1>1. Shapes /\ Terminals /\ Loops
  BY DEF IInv
<1>2. UNCHANGED <<length, sealed>> /\ sealed /\ Goto(w, "idle")
  BY <1>1 DEF Complete, Terminals
<1>3. /\ request' \in [Writer -> {"idle", "publish", "publish_last",
                                  "checkpoint", "complete"}]
      /\ \A x \in Writer :
            request'[x] \in {"publish_last", "checkpoint", "complete"} => sealed'
  BY <1>1, <1>2, GotoStep
<1>4. /\ streams' = [WithStream EXCEPT ![Registered].complete = TRUE]
      /\ current' = Registered
      /\ watch' = watch \/ watch' = Told(Registered)
  BY DEF Complete
<1>5. /\ streams' \in Seq(Stream) /\ Len(streams') = Len(WithStream)
      /\ current' \in 0..Len(streams')
  <2> DEFINE s == [WithStream[Registered] EXCEPT !.complete = TRUE]
  <2>1. WithStream[Registered] \in Stream
    BY <1>1, StreamThere
  <2>2. s \in Stream
    BY <2>1 DEF Stream
  <2>3. streams' = [WithStream EXCEPT ![Registered] = s]
    BY <1>4
  <2> HIDE DEF s
  <2>4. WithStream \in Seq(Stream) /\ Registered \in 1..Len(WithStream)
    BY <1>1, StreamThere
  <2>5. streams' \in Seq(Stream) /\ Len(streams') = Len(WithStream)
    BY <2>2, <2>3, <2>4, StreamChanged
  <2>6. QED BY <1>1, <1>4, <2>5, StreamThere
<1>6. \A v \in Watcher :
         /\ watch[v] \in Loop
         /\ watch'[v] = watch[v] \/ (/\ watch[v].attached
                                     /\ watch'[v] = [watch[v] EXCEPT !.ended = TRUE])
  BY <1>1, <1>4 DEF Told, Listening, Shapes
<1>7. watch' \in [Watcher -> Loop]
  BY <1>1, <1>4, <1>6, ZenonT(30) DEF Told, Loop, Shapes
<1>8. Shapes'
  BY <1>1, <1>2, <1>3, <1>5, <1>7 DEF Shapes
<1>9. Terminals'
  BY <1>2, <1>3 DEF Terminals
<1>10. Grows
  BY <1>1, <1>2, <1>5, StreamThere DEF Grows, Shapes
<1>11. ASSUME NEW v \in Watcher, watch'[v] # watch[v]
       PROVE  LoopOK(watch[v])'
  <2>1. /\ watch[v].attached /\ LoopOK(watch[v]) /\ watch[v] \in Loop
        /\ watch'[v] = [watch[v] EXCEPT !.ended = TRUE]
    BY <1>1, <1>6, <1>11 DEF Loops
  <2>2. /\ watch'[v].pc = watch[v].pc /\ watch'[v].stream = watch[v].stream
        /\ watch'[v].next = watch[v].next /\ watch'[v].attached
        /\ watch'[v].woken = watch[v].woken
        /\ watch'[v].finished = watch[v].finished
    BY <2>1 DEF Loop
  <2>3. 1..Len(streams) \subseteq 1..Len(streams')
    BY <1>1, <1>5, StreamThere
  <2>4. QED BY <1>2, <2>1, <2>2, <2>3 DEF LoopOK
<1>12. QED BY <1>8, <1>9, <1>10, <1>11 DEF Step

(* Dropping the registered stream is not seen by whoever holds it.         *)
LEMMA RemoveStep ==
    ASSUME IInv, Remove
    PROVE  Step
<1>1. Shapes /\ Terminals
  BY DEF IInv
<1>2. /\ UNCHANGED <<length, sealed, streams, request, watch>>
      /\ current' = 0
  BY DEF Remove
<1>3. Shapes' /\ Terminals'
  BY <1>1, <1>2 DEF Shapes, Terminals
<1>4. QED BY <1>1, <1>2, <1>3, QuietGrows DEF Step

-----------------------------------------------------------------------------
(* Steps of a watch loop that leave the record and the streams alone.      *)
LEMMA LoopStep ==
    ASSUME IInv, NEW v \in Watcher, NEW it \in Loop, LoopOK(it),
           watch' = [watch EXCEPT ![v] = it],
           UNCHANGED <<length, sealed, streams, current, request>>
    PROVE  Step
<1>1. Shapes /\ Terminals
  BY DEF IInv
<1>2. Shapes' /\ Terminals'
  BY <1>1 DEF Shapes, Terminals
<1>3. \A x \in Watcher : watch'[x] = IF x = v THEN it ELSE watch[x]
  BY <1>1 DEF Shapes
<1>4. LoopOK(watch[v])'
  BY <1>3 DEF LoopOK
<1>5. QED BY <1>1, <1>2, <1>3, <1>4, QuietGrows DEF Step

(* A watcher subscribes to a stream that is there.                         *)
LEMMA OpenStep ==
    ASSUME IInv, NEW v \in Watcher, Open(v)
    PROVE  Step
<1>1. Shapes /\ Terminals
  BY DEF IInv
<1>2. /\ UNCHANGED <<length, sealed, request>>
      /\ streams' = WithStream /\ current' = Registered
      /\ watch' = [watch EXCEPT ![v] = Watch("drain", Registered)]
  BY DEF Open
<1>3. Watch("drain", Registered) \in Loop
  BY <1>1, StreamThere DEF Watch, Loop
<1>4. Shapes'
  <2>1. watch' \in [Watcher -> Loop]
    BY <1>1, <1>2, <1>3 DEF Shapes
  <2>2. streams' \in Seq(Stream) /\ current' \in 0..Len(streams')
    BY <1>1, <1>2, StreamThere
  <2>3. QED BY <1>1, <1>2, <2>1, <2>2 DEF Shapes
<1>5. Terminals'
  BY <1>1, <1>2, StreamThere DEF Terminals, NewStream
<1>6. Grows
  BY <1>1, <1>2, StreamThere DEF Grows, Shapes
<1>7. \A x \in Watcher : watch'[x] = IF x = v THEN Watch("drain", Registered)
                                     ELSE watch[x]
  BY <1>1, <1>2 DEF Shapes
<1>8. LoopOK(watch[v])'
  <2>1. /\ watch'[v].pc = "drain" /\ watch'[v].stream = Registered
        /\ watch'[v].next = 0
        /\ ~watch'[v].woken /\ ~watch'[v].ended /\ ~watch'[v].finished
    BY <1>7 DEF Watch
  <2>2. watch'[v].stream \in 1..Len(streams')
    BY <1>1, <1>2, <2>1, StreamThere
  <2>3. QED BY <1>1, <1>2, <2>1, <2>2 DEF LoopOK, Shapes
<1>9. QED BY <1>4, <1>5, <1>6, <1>7, <1>8 DEF Step

(* A read that comes back short has reached the end of the record; after   *)
(* the end of the live stream, nothing can be added behind it.             *)
LEMMA DrainStep ==
    ASSUME IInv, NEW v \in Watcher, Drain(v)
    PROVE  Step
<1> DEFINE n == Drained(v)
           pc == IF n = Batch THEN "drain"
                 ELSE IF watch[v].finished THEN "done" ELSE "wait"
           it == [watch[v] EXCEPT !.next = @ + n, !.pc = pc]
<1>1. /\ watch[v] \in Loop /\ LoopOK(watch[v]) /\ watch[v].pc = "drain"
      /\ length \in Nat /\ watch[v].next \in Nat /\ Batch \in Nat
      /\ watch \in [Watcher -> Loop]
  BY LiveTailAssumption DEF IInv, Shapes, Loops, Loop, Drain
<1>2. /\ n \in Nat /\ watch[v].next + n <= length
      /\ n # Batch => watch[v].next + n = length
  BY <1>1 DEF Drained, LoopOK
<1>3. /\ watch' = [watch EXCEPT ![v] = it]
      /\ UNCHANGED <<length, sealed, streams, current, request>>
  BY <1>1 DEF Drain
<1> HIDE DEF n
<1>4. /\ pc \in {"drain", "done", "wait"} /\ watch[v].next + n \in Nat
      /\ pc = "done" => watch[v].finished /\ n # Batch
  BY <1>1, <1>2
<1> HIDE DEF pc
<1>5. it \in Loop
  BY <1>1, <1>4 DEF Loop
<1>6. /\ it.pc = pc /\ it.next = watch[v].next + n
      /\ it.stream = watch[v].stream /\ it.attached = watch[v].attached
      /\ it.woken = watch[v].woken /\ it.ended = watch[v].ended
      /\ it.finished = watch[v].finished
  BY <1>1 DEF Loop
<1> HIDE DEF it
<1>7. LoopOK(it)
  BY <1>1, <1>2, <1>4, <1>6 DEF LoopOK
<1>8. QED BY <1>3, <1>5, <1>7, LoopStep

(* A watcher that is cut off is never told it is done.                     *)
LEMMA CutOffStep ==
    ASSUME IInv, NEW v \in Watcher, CutOff(v)
    PROVE  Step
<1> DEFINE it == [watch[v] EXCEPT !.pc = "cut"]
<1>1. /\ watch[v] \in Loop /\ LoopOK(watch[v]) /\ watch[v].pc = "drain"
      /\ watch' = [watch EXCEPT ![v] = it]
      /\ UNCHANGED <<length, sealed, streams, current, request>>
  BY DEF IInv, Shapes, Loops, CutOff
<1>2. it \in Loop
  BY <1>1 DEF Loop
<1>3. /\ it.pc = "cut" /\ it.next = watch[v].next
      /\ it.stream = watch[v].stream /\ it.attached = watch[v].attached
      /\ it.woken = watch[v].woken /\ it.ended = watch[v].ended
      /\ it.finished = watch[v].finished
  BY <1>1 DEF Loop
<1> HIDE DEF it
<1>4. LoopOK(it)
  BY <1>1, <1>3 DEF LoopOK
<1>5. QED BY <1>1, <1>2, <1>4, LoopStep

(* A terminal replayed from a stream is one the stream got from a seal.    *)
LEMMA AttachStep ==
    ASSUME IInv, NEW v \in Watcher, Attach(v)
    PROVE  Step
<1> DEFINE s == streams[watch[v].stream]
           it == [watch[v] EXCEPT !.attached = TRUE, !.woken = s.frames,
                                  !.ended = s.complete]
<1>1. /\ watch[v] \in Loop /\ LoopOK(watch[v]) /\ watch[v].pc = "wait"
      /\ watch \in [Watcher -> Loop]
      /\ streams \in Seq(Stream)
  BY DEF IInv, Shapes, Loops, Attach
<1>2. watch[v].stream \in 1..Len(streams)
  BY <1>1 DEF LoopOK
<1>3. s \in Stream /\ (s.complete => sealed)
  BY <1>1, <1>2 DEF IInv, Terminals
<1>4. /\ watch' = [watch EXCEPT ![v] = it]
      /\ UNCHANGED <<length, sealed, streams, current, request>>
  BY <1>1 DEF Attach
<1> HIDE DEF s
<1>5. it \in Loop
  BY <1>1, <1>3 DEF Loop, Stream
<1>6. /\ it.pc = "wait" /\ it.next = watch[v].next
      /\ it.stream = watch[v].stream /\ it.attached
      /\ it.ended = s.complete /\ it.finished = watch[v].finished
  BY <1>1 DEF Loop
<1> HIDE DEF it
<1>7. LoopOK(it)
  BY <1>1, <1>2, <1>3, <1>6 DEF LoopOK
<1>8. QED BY <1>4, <1>5, <1>7, LoopStep

(* A frame sends the loop back to the record.                              *)
LEMMA WakeUpStep ==
    ASSUME IInv, NEW v \in Watcher, WakeUp(v)
    PROVE  Step
<1> DEFINE it == [watch[v] EXCEPT !.woken = FALSE, !.pc = "drain"]
<1>1. /\ watch[v] \in Loop /\ LoopOK(watch[v]) /\ watch[v].pc = "wait"
      /\ watch \in [Watcher -> Loop]
  BY DEF IInv, Shapes, Loops, WakeUp
<1>2. /\ watch' = [watch EXCEPT ![v] = it]
      /\ UNCHANGED <<length, sealed, streams, current, request>>
  BY <1>1 DEF WakeUp
<1>3. it \in Loop
  BY <1>1 DEF Loop
<1>4. /\ it.pc = "drain" /\ it.next = watch[v].next
      /\ it.stream = watch[v].stream /\ it.attached = watch[v].attached
      /\ ~it.woken /\ it.ended = watch[v].ended
      /\ it.finished = watch[v].finished
  BY <1>1 DEF Loop
<1> HIDE DEF it
<1>5. LoopOK(it)
  BY <1>1, <1>4 DEF LoopOK
<1>6. QED BY <1>2, <1>3, <1>5, LoopStep

(* The end of the live stream sends it back once more, for good.           *)
LEMMA FinishStep ==
    ASSUME IInv, NEW v \in Watcher, Finish(v)
    PROVE  Step
<1> DEFINE it == [watch[v] EXCEPT !.finished = TRUE, !.pc = "drain"]
<1>1. /\ watch[v] \in Loop /\ LoopOK(watch[v]) /\ watch[v].pc = "wait"
      /\ watch[v].ended \/ MaySlow
      /\ watch \in [Watcher -> Loop]
  BY DEF IInv, Shapes, Loops, Finish
<1>2. /\ watch' = [watch EXCEPT ![v] = it]
      /\ UNCHANGED <<length, sealed, streams, current, request>>
  BY <1>1 DEF Finish, AfterFinish
<1>3. it \in Loop
  BY <1>1 DEF Loop
<1>4. /\ it.pc = "drain" /\ it.next = watch[v].next
      /\ it.stream = watch[v].stream /\ it.attached = watch[v].attached
      /\ it.woken = watch[v].woken /\ it.ended = watch[v].ended
  BY <1>1 DEF Loop
<1> HIDE DEF it
<1>5. LoopOK(it)
  BY <1>1, <1>4 DEF LoopOK
<1>6. QED BY <1>2, <1>3, <1>5, LoopStep

-----------------------------------------------------------------------------
(* Theorems.                                                               *)

(* IInv is inductive.                                                      *)
LEMMA NextKeepsInv == IInv /\ [Next]_vars => IInv'
<1> SUFFICES ASSUME IInv, [Next]_vars PROVE IInv'
  OBVIOUS
<1>1. ASSUME NEW w \in Writer,
             \/ Write(w) \/ Seal(w) \/ Publish(w)
             \/ Checkpoint(w) \/ Complete(w) \/ Disconnect(w)
      PROVE  IInv'
  BY <1>1, RecordStep, PublishStep, HandlerStep, CompleteStep, StepKeepsInv
<1>2. CASE Lapse \/ Remove
  BY <1>2, RecordStep, RemoveStep, StepKeepsInv
<1>3. ASSUME NEW v \in Watcher,
             \/ Open(v) \/ Drain(v) \/ CutOff(v)
             \/ Attach(v) \/ WakeUp(v) \/ Finish(v)
      PROVE  IInv'
  BY <1>3, OpenStep, DrainStep, CutOffStep, AttachStep, WakeUpStep, FinishStep,
     StepKeepsInv
<1>4. CASE UNCHANGED vars
  BY <1>4 DEF IInv, Shapes, Terminals, Loops, LoopOK, vars
<1>5. QED BY <1>1, <1>2, <1>3, <1>4 DEF Next

(* The inductive invariant holds of every reachable state.                 *)
THEOREM Invariance == Spec => []IInv
<1>1. QED BY InitInv, NextKeepsInv, PTL DEF Spec

(* No watcher runs ahead of the record, and a spine stream completes only  *)
(* for a run that is sealed, with any number of watchers and writers.      *)
THEOREM TypeCorrect == Spec => []TypeOK
<1>1. IInv => TypeOK
  <2> SUFFICES ASSUME IInv PROVE TypeOK
    OBVIOUS
  <2>1. Shapes /\ Terminals /\ Loops
    BY DEF IInv
  <2>2. ASSUME NEW v \in Watcher
        PROVE  /\ watch[v].pc \in {"off", "drain", "wait", "done", "cut"}
               /\ LoopOK(watch[v])
    BY <2>1 DEF Shapes, Loops, Loop
  <2>3. QED BY <2>1, <2>2 DEF Shapes, Terminals, LoopOK, TypeOK
<1>2. QED BY <1>1, Invariance, PTL

(* A watcher that never falls behind by a whole channel is told `done`     *)
(* only when it was given every event of a sealed run.                     *)
THEOREM DoneSound == ~MaySlow => (Spec => []DoneIsComplete)
<1> SUFFICES ASSUME ~MaySlow PROVE Spec => []DoneIsComplete
  OBVIOUS
<1>1. IInv => DoneIsComplete
  BY DEF IInv, Loops, LoopOK, DoneIsComplete
<1>2. QED BY <1>1, Invariance, PTL
=============================================================================
