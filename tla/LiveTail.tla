------------------------------- MODULE LiveTail -------------------------------
(***************************************************************************)
(* GET /v1/runs/:id/watch beside the handlers that write to the run.  The  *)
(* record is the source of what a watcher is given, the streaming spine    *)
(* only wakes it up: a write commits first and publishes a frame later.    *)
(*                                                                         *)
(* The record is its length: event s exists when s < length.  Of a spine   *)
(* stream a watcher can tell whether it holds a frame and whether it was   *)
(* completed; a Stream is an index, since a watcher keeps the one it       *)
(* subscribed to when the registry has dropped it (see MemoryStream).      *)
(***************************************************************************)
EXTENDS Naturals, Sequences

CONSTANTS Watcher,
          Writer,      \* callers of the routes that write events
          Batch,       \* events one read of the record returns (500)
          MaySlow,     \* whether a watcher may fall 1 024 frames behind
          MaxLength,   \* bound: events before the run is sealed
          MaxLapses,   \* bound: gates that expire when somebody reads them
          MaxFaults,   \* bound: dropped handlers, failed reads and writes
          MaxStreams   \* bound: spine streams created for the run

ASSUME LiveTailAssumption ==
    /\ Batch \in Nat \ {0}
    /\ MaySlow \in BOOLEAN
    /\ {MaxLength, MaxLapses, MaxFaults} \subseteq Nat
    /\ MaxStreams \in Nat \ {0}

VARIABLES length,    \* events in the record
          sealed,
          streams,   \* spine streams created for the run, in order
          current,   \* the one registered, 0 for none
          request,   \* where the handler of each writer is
          watch,     \* the watch loop of each watcher
          lapses,
          faults

vars == <<length, sealed, streams, current, request, watch, lapses, faults>>

-----------------------------------------------------------------------------
NewStream == [frames |-> FALSE, complete |-> FALSE]

WithStream == IF current = 0 THEN Append(streams, NewStream) ELSE streams
Registered == IF current = 0 THEN Len(streams) + 1 ELSE current
CanRegister == current # 0 \/ Len(streams) < MaxStreams

(* A watch loop: `next` is the next sequence number it will ask for; the   *)
(* live stream, once attached, has frames or the terminal waiting.         *)
Watch(pc, stream) ==
    [pc |-> pc, stream |-> stream, next |-> 0, attached |-> FALSE,
     woken |-> FALSE, ended |-> FALSE, finished |-> FALSE]

Listening(v, stream) == watch[v].attached /\ watch[v].stream = stream

(* The watchers after a frame, or the terminal, is sent to a stream.       *)
Woken(stream) == [v \in Watcher |-> IF Listening(v, stream)
                                    THEN [watch[v] EXCEPT !.woken = TRUE]
                                    ELSE watch[v]]

Told(stream) == [v \in Watcher |-> IF Listening(v, stream)
                                   THEN [watch[v] EXCEPT !.ended = TRUE]
                                   ELSE watch[v]]

Goto(w, pc) == request' = [request EXCEPT ![w] = pc]

Fault == faults < MaxFaults /\ faults' = faults + 1

-----------------------------------------------------------------------------
Init ==
    /\ length = 0
    /\ sealed = FALSE
    /\ streams = <<>>
    /\ current = 0
    /\ request = [w \in Writer |-> "idle"]
    /\ watch = [v \in Watcher |-> Watch("off", 0)]
    /\ lapses = 0
    /\ faults = 0

(* create_run, append, redact, opening and resolving a gate: the write     *)
(* commits, and publish_head comes next.                                   *)
Write(w) ==
    /\ request[w] = "idle"
    /\ ~sealed
    /\ length < MaxLength
    /\ length' = length + 1
    /\ Goto(w, "publish")
    /\ UNCHANGED <<sealed, streams, current, watch, lapses, faults>>

(* complete_run: the same, for run_finished.                               *)
Seal(w) ==
    /\ request[w] = "idle"
    /\ ~sealed
    /\ length > 0
    /\ length' = length + 1
    /\ sealed' = TRUE
    /\ Goto(w, "publish_last")
    /\ UNCHANGED <<streams, current, watch, lapses, faults>>

(* expire_then_read: a lapsed gate is resolved by a read, which publishes  *)
(* nothing.                                                                *)
Lapse ==
    /\ lapses < MaxLapses
    /\ length > 0
    /\ ~sealed
    /\ lapses' = lapses + 1
    /\ length' = length + 1
    /\ UNCHANGED <<sealed, streams, current, request, watch, faults>>

(* publish_head; nothing is published when the event cannot be read back.  *)
Publish(w) ==
    /\ request[w] \in {"publish", "publish_last"}
    /\ \/ /\ CanRegister
          /\ streams' = [WithStream EXCEPT ![Registered].frames = TRUE]
          /\ current' = Registered
          /\ watch' = Woken(Registered)
          /\ UNCHANGED faults
       \/ Fault /\ UNCHANGED <<streams, current, watch>>
    /\ Goto(w, IF request[w] = "publish" THEN "idle" ELSE "checkpoint")
    /\ UNCHANGED <<length, sealed, lapses>>

(* The seal's checkpoint: when it fails, so does the call, here.           *)
Checkpoint(w) ==
    /\ request[w] = "checkpoint"
    /\ \/ Goto(w, "complete") /\ UNCHANGED faults
       \/ Fault /\ Goto(w, "idle")
    /\ UNCHANGED <<length, sealed, streams, current, watch, lapses>>

(* backend.complete                                                        *)
Complete(w) ==
    /\ request[w] = "complete"
    /\ CanRegister
    /\ streams' = [WithStream EXCEPT ![Registered].complete = TRUE]
    /\ current' = Registered
    /\ watch' = IF WithStream[Registered].complete THEN watch ELSE Told(Registered)
    /\ Goto(w, "idle")
    /\ UNCHANGED <<length, sealed, lapses, faults>>

(* The writer's connection drops, and its handler between two awaits.      *)
Disconnect(w) ==
    /\ request[w] # "idle"
    /\ Fault
    /\ Goto(w, "idle")
    /\ UNCHANGED <<length, sealed, streams, current, watch, lapses>>

(* The reaper, eviction, or a DELETE of the stream.                        *)
Remove ==
    /\ current # 0
    /\ Len(streams) < MaxStreams
    /\ current' = 0
    /\ UNCHANGED <<length, sealed, streams, request, watch, lapses, faults>>

-----------------------------------------------------------------------------
(* watch: the stream is chosen; read_stream runs when it is first polled.  *)
Open(v) ==
    /\ watch[v].pc = "off"
    /\ CanRegister
    /\ streams' = WithStream
    /\ current' = Registered
    /\ watch' = [watch EXCEPT ![v] = Watch("drain", Registered)]
    /\ UNCHANGED <<length, sealed, request, lapses, faults>>

(* Mutation of AfterFinish: the terminal ends the loop without another     *)
(* read.                                                                   *)
AfterFinishAtOnce(v) == [watch[v] EXCEPT !.finished = TRUE, !.pc = "done"]

AfterFinish(v) == [watch[v] EXCEPT !.finished = TRUE, !.pc = "drain"]

(* Mutation of Drained: a read counts for a whole batch.                   *)
DrainedBatch(v) == Batch

Drained(v) == LET left == length - watch[v].next
              IN  IF left < Batch THEN left ELSE Batch

(* Read the next batch and pass it on.  A full batch asks again; a short   *)
(* one says the record holds no more, and before the end emits `done`.     *)
Drain(v) ==
    /\ watch[v].pc = "drain"
    /\ LET drained == Drained(v)
       IN  watch' = [watch EXCEPT
                       ![v].next = @ + drained,
                       ![v].pc = IF drained = Batch THEN "drain"
                                 ELSE IF watch[v].finished THEN "done" ELSE "wait"]
    /\ UNCHANGED <<length, sealed, streams, current, request, lapses, faults>>

(* The record cannot be read: the watcher is cut off.                      *)
CutOff(v) ==
    /\ watch[v].pc = "drain"
    /\ Fault
    /\ watch' = [watch EXCEPT ![v].pc = "cut"]
    /\ UNCHANGED <<length, sealed, streams, current, request, lapses>>

(* Mutations of Attach: frames, or a terminal, sent before are not         *)
(* replayed.                                                               *)
AttachFrameless(v) ==
    /\ watch[v].pc = "wait"
    /\ ~watch[v].attached
    /\ watch' = [watch EXCEPT ![v].attached = TRUE,
                              ![v].ended = streams[watch[v].stream].complete]
    /\ UNCHANGED <<length, sealed, streams, current, request, lapses, faults>>

AttachLive(v) ==
    /\ watch[v].pc = "wait"
    /\ ~watch[v].attached
    /\ watch' = [watch EXCEPT ![v].attached = TRUE,
                              ![v].woken = streams[watch[v].stream].frames]
    /\ UNCHANGED <<length, sealed, streams, current, request, lapses, faults>>

(* The first live.next() subscribes and replays what is retained.          *)
Attach(v) ==
    /\ watch[v].pc = "wait"
    /\ ~watch[v].attached
    /\ LET s == streams[watch[v].stream]
       IN  watch' = [watch EXCEPT ![v].attached = TRUE,
                                  ![v].woken = s.frames,
                                  ![v].ended = s.complete]
    /\ UNCHANGED <<length, sealed, streams, current, request, lapses, faults>>

(* A frame only means that something changed.                              *)
WakeUp(v) ==
    /\ watch[v].pc = "wait"
    /\ watch[v].woken
    /\ watch' = [watch EXCEPT ![v].woken = FALSE, ![v].pc = "drain"]
    /\ UNCHANGED <<length, sealed, streams, current, request, lapses, faults>>

(* The terminal, or the end of a live stream that fell too far behind.     *)
Finish(v) ==
    /\ watch[v].pc = "wait"
    /\ watch[v].ended \/ (MaySlow /\ watch[v].woken)
    /\ watch' = [watch EXCEPT ![v] = AfterFinish(v)]
    /\ UNCHANGED <<length, sealed, streams, current, request, lapses, faults>>

Next ==
    \/ \E w \in Writer : \/ Write(w) \/ Seal(w) \/ Publish(w)
                         \/ Checkpoint(w) \/ Complete(w) \/ Disconnect(w)
    \/ Lapse
    \/ Remove
    \/ \E v \in Watcher : \/ Open(v) \/ Drain(v) \/ CutOff(v)
                          \/ Attach(v) \/ WakeUp(v) \/ Finish(v)

Spec == Init /\ [][Next]_vars

(* Handlers that were started and watch loops are driven by the runtime;   *)
(* nothing obliges anyone to write, to seal or to watch.                   *)
FairSpec ==
    /\ Spec
    /\ \A w \in Writer : WF_vars(Publish(w) \/ Checkpoint(w) \/ Complete(w))
    /\ \A v \in Watcher : WF_vars(Drain(v) \/ Attach(v) \/ WakeUp(v) \/ Finish(v))

-----------------------------------------------------------------------------
Following(v) == watch[v].pc \in {"drain", "wait"}

(* A watcher never runs ahead of the record, hears only a stream it is     *)
(* attached to, and a stream completes only for a run that is sealed.      *)
TypeOK ==
    /\ current \in 0..Len(streams)
    /\ \A i \in 1..Len(streams) : streams[i].complete => sealed
    /\ \A w \in Writer : request[w] \in {"publish_last", "checkpoint", "complete"}
                            => sealed
    /\ \A v \in Watcher :
          LET it == watch[v]
          IN  /\ it.pc \in {"off", "drain", "wait", "done", "cut"}
              /\ it.pc # "off" => it.stream \in 1..Len(streams)
              /\ it.next <= length
              /\ it.woken \/ it.ended => it.attached

(* `done` is sent only for a sealed run, and only after the watcher was    *)
(* given every event up to run_finished, although other writers may not    *)
(* have published yet, or never do.  routes.rs: "a final append cannot be  *)
(* lost to the race between the last publish and the terminal".            *)
DoneIsComplete ==
    \A v \in Watcher : watch[v].pc = "done" => sealed /\ watch[v].next = length

(* Nothing has kept a wake-up from this watcher: no lapsed gate and no     *)
(* fault (neither is published), and its stream is the one registered.     *)
Undisturbed(v) == lapses = 0 /\ faults = 0 /\ watch[v].stream = current

(* Every event of the record reaches every undisturbed watcher that stays  *)
(* connected, whichever of the writers got to publish.                     *)
EventsReachWatchers ==
    \A v \in Watcher, s \in 0..MaxLength :
        (s < length /\ Following(v) /\ Undisturbed(v))
            ~> (watch[v].next > s \/ ~Following(v) \/ ~Undisturbed(v))

(* Every undisturbed watcher of a sealed run is told that it is done, if   *)
(* its stream is the first the run had: the terminal is not carried over   *)
(* to a stream created after the seal.                                     *)
WatchersFinish ==
    \A v \in Watcher :
        (sealed /\ Following(v) /\ Undisturbed(v) /\ current = 1)
            ~> (~Following(v) \/ ~Undisturbed(v))

-----------------------------------------------------------------------------
(* A claim the code does not keep: whatever becomes of the spine stream, a *)
(* watcher is given every event.  routes.rs: "Subscribe before reading, so *)
(* nothing appended during the read is missed"; "a reaped in-memory stream *)
(* ... silently drops events", which reading the record is there to avoid. *)
NothingIsMissed ==
    \A v \in Watcher, s \in 0..MaxLength :
        (s < length /\ Following(v)) ~> (watch[v].next > s \/ ~Following(v))
=============================================================================
