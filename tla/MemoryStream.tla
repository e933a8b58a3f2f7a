----------------------------- MODULE MemoryStream -----------------------------
(***************************************************************************)
(* The in-memory streaming spine (stream.rs, manager.rs, MemoryBackend)    *)
(* for one stream id, and clients that reconnect where they left off.      *)
(*                                                                         *)
(* The registry maps the id to at most one Stream; a reader holds the      *)
(* Stream it subscribed to (an Arc) even after the registry dropped it, so *)
(* a Stream is an index into the streams ever created.  Publishing is one  *)
(* critical section: buffer and broadcast change together.  A reader       *)
(* subscribes to the broadcast first and takes its snapshot later.  Chunks *)
(* are told apart by their Stream and offset.                              *)
(***************************************************************************)
EXTENDS Integers, Sequences

CONSTANTS Client,       \* subscribers
          MaxBuffer,    \* tokens a Stream retains (65 536)
          ChannelSize,  \* signals a broadcast receiver may lag by (1 024)
          MaxTokens,    \* bound: tokens published to one Stream
          MaxStreams    \* bound: Streams ever created for the id

ASSUME StreamAssumption ==
    /\ MaxBuffer \in Nat \ {0}
    /\ ChannelSize \in Nat \ {0}
    /\ MaxTokens \in Nat
    /\ MaxStreams \in Nat \ {0}

VARIABLES streams,   \* every Stream created for the id, in order
          current,   \* the one the registry holds, 0 for none
          reader,    \* the read_stream each client is polling
          seen,      \* what each client was given, over all its connections
          resume     \* the offset each client resumes from

vars == <<streams, current, reader, seen, resume>>

-----------------------------------------------------------------------------
(* Signals.  A failed stream sends Error and then Done: one signal here.   *)
Terminal == {"done", "error"}
Token(stream, offset) ==
    [kind |-> "token", stream |-> stream, offset |-> offset]
Signal(kind) == [kind |-> kind, stream |-> 0, offset |-> 0]

IsToken(signal) == signal.kind = "token"
IsTerminal(signal) == signal.kind \in Terminal

(* A Stream: the offsets first..next-1 are retained; ended_at is the       *)
(* number of tokens there were when the terminal was sent.                 *)
NewStream == [first |-> 0, next |-> 0, terminal |-> "open", ended_at |-> 0]

Reading(pc, stream, total, queue, lagged) ==
    [pc |-> pc, stream |-> stream, total |-> total,
     queue |-> queue, lagged |-> lagged]

NotReading == Reading("idle", 0, 0, <<>>, FALSE)

(* The offset a client resumes from whose last token had this offset:      *)
(* Last-Event-ID + 1.                                                      *)
After(offset) == offset + 1

(* get_or_create: the registered Stream, or a new one.                     *)
WithStream == IF current = 0 THEN Append(streams, NewStream) ELSE streams
Registered == IF current = 0 THEN Len(streams) + 1 ELSE current

CanRegister == current # 0 \/ Len(streams) < MaxStreams

(* Mutation of Send: what does not fit is dropped, and nobody told.        *)
SendLossy(stream, signal) ==
    [c \in Client |->
        IF /\ reader[c].pc \in {"attached", "live"} /\ reader[c].stream = stream
           /\ Len(reader[c].queue) < ChannelSize
        THEN [reader[c] EXCEPT !.queue = Append(@, signal)]
        ELSE reader[c]]

(* tx.send: every receiver of this Stream gets the signal; one that is     *)
(* behind by the whole channel loses its oldest and will find out.         *)
Send(stream, signal) ==
    [c \in Client |->
        IF reader[c].pc \in {"attached", "live"} /\ reader[c].stream = stream
        THEN IF Len(reader[c].queue) < ChannelSize
             THEN [reader[c] EXCEPT !.queue = Append(@, signal)]
             ELSE [reader[c] EXCEPT !.queue = Append(Tail(@), signal),
                                    !.lagged = TRUE]
        ELSE reader[c]]

Retained(stream, from) ==
    LET next == streams[stream].next
    IN  [i \in 1..(IF from < next THEN next - from ELSE 0) |->
            Token(stream, from + i - 1)]

EndOf(s) == IF s.terminal = "open" THEN <<>> ELSE <<Signal(s.terminal)>>

(* snapshot_from, read out: a gap when `from` is no longer retained, the   *)
(* retained tokens, and the terminal if there is one.                      *)
Snapshot(stream, from) ==
    LET s == streams[stream]
        eff == IF from < s.first THEN s.first ELSE from
    IN  (IF from < s.first THEN <<Signal("gap")>> ELSE <<>>)
        \o Retained(stream, eff) \o EndOf(s)

(* Mutation of Duplicate: tokens that were in the snapshot are passed on.  *)
DuplicateNever(r, signal) == FALSE

(* A token the snapshot had already delivered.                             *)
Duplicate(r, signal) == IsToken(signal) /\ signal.offset < r.total

-----------------------------------------------------------------------------
Init ==
    /\ streams = <<>>
    /\ current = 0
    /\ reader = [c \in Client |-> NotReading]
    /\ seen = [c \in Client |-> <<>>]
    /\ resume = [c \in Client |-> 0]

(* Mutation of Trimmed: one token less is kept than the buffer holds.      *)
TrimmedShort(s) ==
    [s EXCEPT !.first = IF s.next - @ >= MaxBuffer THEN s.next - MaxBuffer + 1 ELSE @]

Trimmed(s) ==
    [s EXCEPT !.first = IF s.next - @ > MaxBuffer THEN s.next - MaxBuffer ELSE @]

(* A chunk is accepted on a finished stream too.                           *)
Publish ==
    /\ CanRegister
    /\ LET s == WithStream[Registered]
       IN  /\ s.next < MaxTokens
           /\ streams' = [WithStream EXCEPT ![Registered] =
                            Trimmed([s EXCEPT !.next = @ + 1])]
           /\ reader' = Send(Registered, Token(Registered, s.next))
    /\ current' = Registered
    /\ UNCHANGED <<seen, resume>>

(* Mutation of MayEnd: a later terminal replaces the earlier one.          *)
MayEndAgain(s) == TRUE

MayEnd(s) == s.terminal = "open"

(* complete ("done") and fail ("error"): the first terminal wins.          *)
End(terminal) ==
    /\ CanRegister
    /\ LET s == WithStream[Registered]
       IN  IF MayEnd(s)
           THEN /\ streams' = [WithStream EXCEPT ![Registered] =
                                 [s EXCEPT !.terminal = terminal,
                                           !.ended_at = s.next]]
                /\ reader' = Send(Registered, Signal(terminal))
           ELSE streams' = WithStream /\ reader' = reader
    /\ current' = Registered
    /\ UNCHANGED <<seen, resume>>

(* delete, the reaper, and eviction of the least recently active stream.   *)
Remove ==
    /\ current # 0
    /\ Len(streams) < MaxStreams
    /\ current' = 0
    /\ UNCHANGED <<streams, reader, seen, resume>>

(* Backend::subscribe: the Stream is chosen now, read_stream has not run.  *)
Subscribe(c) ==
    /\ reader[c].pc = "idle"
    /\ CanRegister
    /\ streams' = WithStream
    /\ current' = Registered
    /\ reader' = [reader EXCEPT ![c] = Reading("subscribed", Registered, 0, <<>>, FALSE)]
    /\ UNCHANGED <<seen, resume>>

(* read_stream, first poll: tx.subscribe() ...                             *)
Attach(c) ==
    /\ reader[c].pc = "subscribed"
    /\ reader' = [reader EXCEPT ![c].pc = "attached"]
    /\ UNCHANGED <<streams, current, seen, resume>>

(* ... then the snapshot, which is handed to the client.                   *)
Replay(c) ==
    /\ reader[c].pc = "attached"
    /\ LET s == streams[reader[c].stream]
       IN  /\ seen' = [seen EXCEPT ![c] =
                         @ \o Snapshot(reader[c].stream, resume[c])]
           /\ resume' = [resume EXCEPT ![c] = IF @ < s.next
                                               THEN After(s.next - 1) ELSE @]
           /\ reader' = [reader EXCEPT ![c].pc = IF s.terminal = "open"
                                                 THEN "live" ELSE "ended",
                                       ![c].total = s.next]
    /\ UNCHANGED <<streams, current>>

(* rx.recv(): a receiver that lagged ends without a word.                  *)
Receive(c) ==
    /\ reader[c].pc = "live"
    /\ LET r == reader[c]
           signal == Head(r.queue)
       IN  \/ /\ r.lagged
              /\ reader' = [reader EXCEPT ![c] = NotReading]
              /\ UNCHANGED <<seen, resume>>
           \/ /\ ~r.lagged /\ r.queue # <<>>
              /\ reader' = [reader EXCEPT ![c].queue = Tail(@),
                                          ![c].pc = IF IsTerminal(signal)
                                                    THEN "ended" ELSE @]
              /\ IF Duplicate(r, signal)
                 THEN UNCHANGED <<seen, resume>>
                 ELSE /\ seen' = [seen EXCEPT ![c] = Append(@, signal)]
                      /\ resume' = [resume EXCEPT ![c] =
                                       IF IsToken(signal)
                                       THEN After(signal.offset) ELSE @]
    /\ UNCHANGED <<streams, current>>

(* The connection drops; the client will resume.                           *)
Drop(c) ==
    /\ reader[c].pc \in {"subscribed", "attached", "live"}
    /\ reader' = [reader EXCEPT ![c] = NotReading]
    /\ UNCHANGED <<streams, current, seen, resume>>

Next ==
    \/ Publish
    \/ \E terminal \in Terminal : End(terminal)
    \/ Remove
    \/ \E c \in Client :
          Subscribe(c) \/ Attach(c) \/ Replay(c) \/ Receive(c) \/ Drop(c)

Spec == Init /\ [][Next]_vars

(* Clients reconnect (EventSource does) and read what is there for them.   *)
(* Readers are only polled while the connection takes data, so a reader    *)
(* may still fall behind, and drop any number of times.                    *)
FairSpec ==
    /\ Spec
    /\ \A c \in Client : WF_vars(Subscribe(c) \/ Attach(c) \/ Replay(c) \/ Receive(c))

-----------------------------------------------------------------------------
(* A Stream keeps the last MaxBuffer offsets and nothing else; readers     *)
(* hold Streams that exist; a queue never exceeds the channel.             *)
TypeOK ==
    /\ current \in 0..Len(streams)
    /\ \A i \in 1..Len(streams) :
          LET s == streams[i]
          IN  /\ s.terminal \in Terminal \cup {"open"}
              /\ s.ended_at <= s.next
              /\ s.first = IF s.next > MaxBuffer THEN s.next - MaxBuffer ELSE 0
    /\ \A c \in Client :
          /\ reader[c].pc # "idle" => reader[c].stream \in 1..Len(streams)
          /\ Len(reader[c].queue) <= ChannelSize

(* What a client is given of a Stream, over all its connections to it, is  *)
(* every offset once and in order; where offsets are missing, a gap was    *)
(* announced.  (i and j: the tokens the client was given one after the     *)
(* other.)                                                                 *)
Consecutive(c, i, j) ==
    /\ IsToken(seen[c][i]) /\ IsToken(seen[c][j])
    /\ \A k \in i + 1 .. j - 1 : ~IsToken(seen[c][k])

Expected(c, j, offset) ==
    \/ seen[c][j].offset = offset
    \/ /\ seen[c][j].offset > offset
       /\ j > 1 /\ seen[c][j - 1] = Signal("gap")

ExactDelivery ==
    \A c \in Client : \A j \in 1..Len(seen[c]) :
        /\ IsToken(seen[c][j]) /\ (\A k \in 1 .. j - 1 : ~IsToken(seen[c][k])) =>
              Expected(c, j, 0)
        /\ \A i \in 1 .. j - 1 :
              Consecutive(c, i, j) /\ seen[c][i].stream = seen[c][j].stream =>
                  Expected(c, j, seen[c][i].offset + 1)

(* Every client of a Stream that is told it ended is told the same end,    *)
(* only once, and not before it has been given the last token there was    *)
(* when the stream ended.                                                  *)
OneEndAfterAllTokens ==
    \A c \in Client :
        LET s == streams[reader[c].stream]
        IN  reader[c].pc = "ended" =>
               /\ seen[c][Len(seen[c])] = Signal(s.terminal)
               /\ resume[c] >= s.ended_at

(* The contract of every Backend: the chunks of one Stream are numbered    *)
(* after those of the Streams before it.                                   *)
Number(signal) ==
    IF IsToken(signal) THEN (signal.stream - 1) * MaxTokens + signal.offset + 1 ELSE 0

Chunks == UNION {{Number(Token(i, offset)) : offset \in 0 .. streams[i].next - 1} :
                    i \in 1..Len(streams)}
Told == [c \in Client |-> [k \in 1..Len(seen[c]) |-> Number(seen[c][k])]]
Closed == {c \in Client : reader[c].pc = "ended"}

Contract == INSTANCE StreamContract
    WITH chunks <- Chunks, given <- Told, ended <- Closed, waived <- FALSE

ContractSpec == Contract!Spec

(* Every reader of a Stream that has ended gets to its end, whatever was   *)
(* removed or created in the meantime.                                     *)
Ended(c) == reader[c].pc = "live" /\ streams[reader[c].stream].terminal # "open"

EndReachesReaders == \A c \in Client : Ended(c) ~> (reader[c].pc # "live")
=============================================================================
