-------------------------- MODULE MemoryStreamProofs --------------------------
(***************************************************************************)
(* Proofs about MemoryStream, for any clients, buffer, channel and number  *)
(* of tokens and Streams.                                                  *)
(***************************************************************************)
EXTENDS MemoryStream, TLAPS

-----------------------------------------------------------------------------
(* The inductive invariant.                                                *)

SignalRecord == [kind   : {"token", "gap"} \cup Terminal,
                 stream : Nat,
                 offset : Nat]

StreamRecord == [first    : Nat,
                 next     : Nat,
                 terminal : Terminal \cup {"open"},
                 ended_at : Nat]

ReaderRecord == [pc     : {"idle", "subscribed", "attached", "live", "ended"},
                 stream : Nat,
                 total  : Nat,
                 queue  : Seq(SignalRecord),
                 lagged : BOOLEAN]

Typed ==
    /\ streams \in Seq(StreamRecord)
    /\ current \in {0, Len(streams)}
    /\ reader \in [Client -> ReaderRecord]
    /\ seen \in [Client -> Seq(SignalRecord)]
    /\ resume \in [Client -> Nat]

StreamOK(s) ==
    /\ s.ended_at <= s.next /\ s.next <= MaxTokens
    /\ s.first = IF s.next > MaxBuffer THEN s.next - MaxBuffer ELSE 0

(* The Stream a client reads, or read last.                                *)
Mine(c) == streams[reader[c].stream]

(* A reader holds a Stream that exists, and one that gets no signals has   *)
(* none waiting.                                                           *)
Listening(c) == reader[c].pc \in {"attached", "live"}

HeldOK(c) ==
    /\ reader[c].pc # "idle" => /\ reader[c].stream \in 1..Len(streams)
                                /\ reader[c].total <= Mine(c).next
    /\ reader[c].pc \in {"idle", "subscribed"} => reader[c].queue = <<>>
    /\ Len(reader[c].queue) <= ChannelSize

(* Signals of Stream i, and how many tokens were sent before each of them  *)
(* and up to it.                                                           *)
Sent(signal, i) ==
    \/ IsToken(signal) /\ signal.stream = i /\ signal.offset < streams[i].next
    \/ IsTerminal(signal) /\ signal = Signal(streams[i].terminal)

Before(signal, i) == IF IsToken(signal) THEN signal.offset ELSE streams[i].ended_at
UpTo(signal, i) == IF IsToken(signal) THEN signal.offset + 1 ELSE streams[i].ended_at

(* What waits for a reader is the last that was sent, without a hole.      *)
Unbroken(q, i) ==
    /\ \A k \in 1..Len(q) : Sent(q[k], i)
    /\ \A k \in 1 .. Len(q) - 1 : Before(q[k + 1], i) = UpTo(q[k], i)
    /\ q # <<>> => UpTo(q[Len(q)], i) = streams[i].next

QueueOK(c) == Listening(c) => Unbroken(reader[c].queue, reader[c].stream)

(* The tokens a client has are tokens of Streams up to the one it reads.   *)
GivenOK(c) ==
    \A k \in 1..Len(seen[c]) : IsToken(seen[c][k]) =>
        /\ seen[c][k].stream \in 1..Len(streams)
        /\ seen[c][k].offset < streams[seen[c][k].stream].next
        /\ reader[c].pc # "idle" => seen[c][k].stream <= reader[c].stream

(* A client resumes after its last token; that is behind all it has of the *)
(* latest Stream it knows, and no further than that Stream has come.       *)
ResumeOK(c) ==
    /\ (\A k \in 1..Len(seen[c]) : ~IsToken(seen[c][k])) => resume[c] = 0
    /\ \A k \in 1..Len(seen[c]) :
          /\ IsToken(seen[c][k])
          /\ \A j \in k + 1 .. Len(seen[c]) : ~IsToken(seen[c][j])
          => resume[c] = seen[c][k].offset + 1
    /\ \A k \in 1..Len(seen[c]) :
          /\ IsToken(seen[c][k])
          /\ \A j \in 1..Len(seen[c]) :
                IsToken(seen[c][j]) => seen[c][j].stream <= seen[c][k].stream
          => /\ seen[c][k].offset < resume[c]
             /\ resume[c] <= streams[seen[c][k].stream].next

(* The client has tokens of the Stream it reads, or none at all: the       *)
(* offset it resumes from is one of this Stream.                           *)
Home(c) ==
    \/ \A k \in 1..Len(seen[c]) : ~IsToken(seen[c][k])
    \/ \E k \in 1..Len(seen[c]) :
          IsToken(seen[c][k]) /\ seen[c][k].stream = reader[c].stream

(* How many tokens of its Stream a reader's receiver is past.              *)
Position(c) == IF reader[c].queue = <<>> THEN Mine(c).next
               ELSE Before(reader[c].queue[1], reader[c].stream)

(* A live reader that has not lagged is where its client is, or in the     *)
(* tokens the snapshot had already delivered.                              *)
LiveOK(c) ==
    reader[c].pc = "live" /\ ~reader[c].lagged =>
        /\ resume[c] >= Position(c) /\ resume[c] >= reader[c].total
        /\ Home(c) => resume[c] = Position(c) \/ resume[c] = reader[c].total

EndOK(c) ==
    reader[c].pc = "ended" =>
        /\ Mine(c).terminal # "open"
        /\ seen[c] # <<>> /\ seen[c][Len(seen[c])] = Signal(Mine(c).terminal)
        /\ resume[c] >= Mine(c).ended_at

ExactOK(c) ==
    \A j \in 1..Len(seen[c]) :
        /\ IsToken(seen[c][j]) /\ (\A k \in 1 .. j - 1 : ~IsToken(seen[c][k])) =>
              Expected(c, j, 0)
        /\ \A i \in 1 .. j - 1 :
              Consecutive(c, i, j) /\ seen[c][i].stream = seen[c][j].stream =>
                  Expected(c, j, seen[c][i].offset + 1)

ClientOK(c) == /\ HeldOK(c) /\ QueueOK(c) /\ GivenOK(c) /\ ResumeOK(c)
               /\ LiveOK(c) /\ EndOK(c) /\ ExactOK(c)

IInv == /\ Typed
        /\ \A i \in 1..Len(streams) : StreamOK(streams[i])
        /\ \A c \in Client : ClientOK(c)

-----------------------------------------------------------------------------
(* Initially.                                                              *)

LEMMA InitHolds == Init => IInv
<1> SUFFICES ASSUME Init PROVE IInv
  OBVIOUS
<1>1. streams = <<>> /\ current = 0
      /\ reader = [c \in Client |-> NotReading]
      /\ seen = [c \in Client |-> <<>>] /\ resume = [c \in Client |-> 0]
  BY DEF Init
<1>2. NotReading \in ReaderRecord /\ NotReading.pc = "idle" /\ NotReading.queue = <<>>
  BY DEF NotReading, Reading, ReaderRecord
<1>3. Typed
  BY <1>1, <1>2 DEF Typed
<1>4. \A i \in 1..Len(streams) : StreamOK(streams[i])
  BY <1>1
<1>5. ASSUME NEW c \in Client PROVE ClientOK(c)
  <2>1. reader[c] = NotReading /\ seen[c] = <<>> /\ resume[c] = 0
    BY <1>1
  <2>2. HeldOK(c) /\ QueueOK(c) /\ LiveOK(c) /\ EndOK(c)
    <3>1. Len(reader[c].queue) = 0
      BY <1>2, <2>1
    <3>2. QED BY <1>2, <2>1, <3>1, StreamAssumption
                 DEF HeldOK, QueueOK, Listening, LiveOK, EndOK
  <2>3. GivenOK(c) /\ ResumeOK(c) /\ ExactOK(c)
    BY <2>1 DEF GivenOK, ResumeOK, ExactOK
  <2>4. QED BY <2>2, <2>3 DEF ClientOK
<1>6. QED BY <1>3, <1>4, <1>5 DEF IInv

-----------------------------------------------------------------------------
(* What other steps leave of a client.                                     *)

LEMMA StreamTypes ==
    ASSUME Typed
    PROVE  /\ Len(streams) \in Nat
           /\ \A i \in 1..Len(streams) :
                 /\ streams[i] \in StreamRecord
                 /\ streams[i].next \in Nat /\ streams[i].ended_at \in Nat
                 /\ streams[i].first \in Nat
<1>1. Len(streams) \in Nat /\ \A i \in 1..Len(streams) : streams[i] \in StreamRecord
  BY DEF Typed
<1>2. QED BY <1>1 DEF StreamRecord

LEMMA ClientTypes ==
    ASSUME Typed, NEW c \in Client
    PROVE  /\ reader[c] \in ReaderRecord
           /\ reader[c].stream \in Nat /\ reader[c].total \in Nat
           /\ reader[c].queue \in Seq(SignalRecord) /\ Len(reader[c].queue) \in Nat
           /\ reader[c].lagged \in BOOLEAN
           /\ seen[c] \in Seq(SignalRecord) /\ Len(seen[c]) \in Nat
           /\ \A k \in 1..Len(seen[c]) :
                 /\ seen[c][k].stream \in Nat
                 /\ seen[c][k].offset \in Nat
           /\ resume[c] \in Nat
<1>1. reader[c] \in ReaderRecord /\ seen[c] \in Seq(SignalRecord) /\ resume[c] \in Nat
  BY DEF Typed
<1>2. /\ reader[c].stream \in Nat /\ reader[c].total \in Nat
      /\ reader[c].queue \in Seq(SignalRecord) /\ reader[c].lagged \in BOOLEAN
  BY <1>1 DEF ReaderRecord
<1>3. Len(reader[c].queue) \in Nat /\ Len(seen[c]) \in Nat
  BY <1>1, <1>2
<1>4. \A k \in 1..Len(seen[c]) : seen[c][k].stream \in Nat /\ seen[c][k].offset \in Nat
  <2>1. \A k \in 1..Len(seen[c]) : seen[c][k] \in SignalRecord
    BY <1>1
  <2>2. QED BY <2>1 DEF SignalRecord
<1>5. QED BY <1>1, <1>2, <1>3, <1>4

(* Streams are only added, grow, and do not end twice.                     *)
Grown ==
    /\ Len(streams) <= Len(streams')
    /\ \A i \in 1..Len(streams) :
          /\ streams[i].next <= streams'[i].next
          /\ streams[i].terminal # "open" =>
                /\ streams'[i].terminal = streams[i].terminal
                /\ streams'[i].ended_at = streams[i].ended_at

LEMMA GrownStays ==
    ASSUME Typed, UNCHANGED streams
    PROVE  Grown
<1>1. Len(streams) \in Nat /\ \A i \in 1..Len(streams) : streams[i].next \in Nat
  BY StreamTypes
<1>2. QED BY <1>1 DEF Grown

(* What a client was given stays as good as it was, whatever happens to    *)
(* the Streams, and to its reader short of its being given anything.       *)
LEMMA ClientStays ==
    ASSUME Typed, Typed', NEW c \in Client, Grown,
           seen'[c] = seen[c], resume'[c] = resume[c],
           HeldOK(c), GivenOK(c), ResumeOK(c), EndOK(c), ExactOK(c),
           \/ reader'[c].pc = "idle"
           \/ /\ reader[c].pc # "idle" /\ reader'[c].stream = reader[c].stream
              /\ reader'[c].pc = "ended" => reader[c].pc = "ended"
    PROVE  GivenOK(c)' /\ ResumeOK(c)' /\ EndOK(c)' /\ ExactOK(c)'
<1>1. /\ Len(seen[c]) \in Nat /\ resume[c] \in Nat /\ Len(streams) \in Nat
      /\ \A k \in 1..Len(seen[c]) : seen[c][k].stream \in Nat /\ seen[c][k].offset \in Nat
      /\ \A i \in 1..Len(streams) : streams[i].next \in Nat
  BY ClientTypes, StreamTypes
<1>2. /\ Len(streams') \in Nat /\ Len(streams) <= Len(streams')
      /\ \A i \in 1..Len(streams') : streams'[i].next \in Nat
      /\ \A i \in 1..Len(streams) : streams[i].next <= streams'[i].next
  <2>1. Len(streams') \in Nat /\ \A i \in 1..Len(streams') : streams'[i].next \in Nat
    <3>1. Len(streams') \in Nat /\ \A i \in 1..Len(streams') : streams'[i] \in StreamRecord
      BY DEF Typed
    <3>2. QED BY <3>1 DEF StreamRecord
  <2>2. QED BY <2>1 DEF Grown
<1>3. GivenOK(c)'
  <2> SUFFICES ASSUME NEW k \in 1..Len(seen[c]), IsToken(seen[c][k])
               PROVE  /\ seen[c][k].stream \in 1..Len(streams')
                      /\ seen[c][k].offset < streams'[seen[c][k].stream].next
                      /\ reader'[c].pc # "idle" => seen[c][k].stream <= reader'[c].stream
    BY DEF GivenOK
  <2>1. /\ seen[c][k].stream \in 1..Len(streams)
        /\ seen[c][k].offset < streams[seen[c][k].stream].next
        /\ reader[c].pc # "idle" => seen[c][k].stream <= reader[c].stream
    BY DEF GivenOK
  <2>2. QED BY <1>1, <1>2, <2>1, SMTT(30)
<1>4. ResumeOK(c)'
  <2>1. ASSUME NEW k \in 1..Len(seen[c]), IsToken(seen[c][k]),
               \A j \in 1..Len(seen[c]) :
                  IsToken(seen[c][j]) => seen[c][j].stream <= seen[c][k].stream
        PROVE  /\ seen[c][k].offset < resume[c]
               /\ resume[c] <= streams'[seen[c][k].stream].next
    <3>1. /\ seen[c][k].offset < resume[c]
          /\ resume[c] <= streams[seen[c][k].stream].next
      BY <2>1 DEF ResumeOK
    <3>2. seen[c][k].stream \in 1..Len(streams)
      BY <2>1 DEF GivenOK
    <3>3. streams[seen[c][k].stream].next <= streams'[seen[c][k].stream].next
      BY <1>2, <3>2
    <3>4. QED BY <1>1, <1>2, <3>1, <3>2, <3>3, SMTT(30)
  <2>2. /\ (\A k \in 1..Len(seen[c]) : ~IsToken(seen[c][k])) => resume[c] = 0
        /\ \A k \in 1..Len(seen[c]) :
              /\ IsToken(seen[c][k])
              /\ \A j \in k + 1 .. Len(seen[c]) : ~IsToken(seen[c][j])
              => resume[c] = seen[c][k].offset + 1
    BY DEF ResumeOK
  <2>3. QED BY <2>1, <2>2 DEF ResumeOK
<1>5. EndOK(c)'
  <2> SUFFICES ASSUME reader'[c].pc = "ended" PROVE EndOK(c)'
    BY DEF EndOK
  <2>1. reader[c].pc = "ended" /\ reader'[c].stream = reader[c].stream
    OBVIOUS
  <2>2. /\ Mine(c).terminal # "open"
        /\ seen[c] # <<>> /\ seen[c][Len(seen[c])] = Signal(Mine(c).terminal)
        /\ resume[c] >= Mine(c).ended_at
    BY <2>1 DEF EndOK
  <2>3. reader[c].stream \in 1..Len(streams)
    BY <2>1 DEF HeldOK
  <2>4. Mine(c)'.terminal = Mine(c).terminal /\ Mine(c)'.ended_at = Mine(c).ended_at
    BY <2>1, <2>2, <2>3 DEF Grown, Mine
  <2>5. QED BY <2>2, <2>4 DEF EndOK
<1>6. ExactOK(c)'
  BY DEF ExactOK, Expected, Consecutive
<1>7. QED BY <1>3, <1>4, <1>5, <1>6


-----------------------------------------------------------------------------
(* Signals that are sent to the readers of a Stream.                       *)

(* A signal that was sent on a Stream stays where it was.                  *)
LEMMA SentStays ==
    ASSUME Typed, Typed', Grown, NEW i \in 1..Len(streams),
           NEW signal \in SignalRecord, Sent(signal, i)
    PROVE  /\ Sent(signal, i)'
           /\ Before(signal, i)' = Before(signal, i)
           /\ UpTo(signal, i)' = UpTo(signal, i)
<1>1. /\ i \in 1..Len(streams') /\ streams[i].next \in Nat /\ streams'[i].next \in Nat
      /\ streams[i].next <= streams'[i].next
  <2>1. Len(streams) \in Nat /\ Len(streams') \in Nat /\ Len(streams) <= Len(streams')
    BY StreamTypes DEF Grown, Typed
  <2>2. i \in 1..Len(streams')
    BY <2>1
  <2>3. streams'[i] \in StreamRecord
    BY <2>2 DEF Typed
  <2>4. QED BY <2>2, <2>3, StreamTypes DEF StreamRecord, Grown
<1>2. CASE IsToken(signal)
  <2>1. signal.offset \in Nat /\ ~IsTerminal(signal)
    BY <1>2 DEF SignalRecord, IsToken, IsTerminal, Terminal
  <2>2. signal.offset < streams[i].next /\ signal.stream = i
    BY <1>2, <2>1 DEF Sent
  <2>3. QED BY <1>1, <1>2, <2>1, <2>2 DEF Sent, Before, UpTo
<1>3. CASE ~IsToken(signal)
  <2>1. IsTerminal(signal) /\ signal = Signal(streams[i].terminal)
    BY <1>3 DEF Sent
  <2>2. streams[i].terminal # "open"
    BY <2>1 DEF IsTerminal, Signal, Terminal
  <2>3. streams'[i].terminal = streams[i].terminal /\ streams'[i].ended_at = streams[i].ended_at
    BY <2>2 DEF Grown
  <2>4. QED BY <1>3, <2>1, <2>3 DEF Sent, Before, UpTo
<1>4. QED BY <1>2, <1>3

(* What is sent before a signal of a Stream is at most all of it.          *)
LEMMA SentBounds ==
    ASSUME Typed, NEW i \in 1..Len(streams), StreamOK(streams[i]),
           NEW signal \in SignalRecord, Sent(signal, i)
    PROVE  /\ Before(signal, i) \in Nat /\ UpTo(signal, i) \in Nat
           /\ Before(signal, i) <= UpTo(signal, i)
           /\ UpTo(signal, i) <= streams[i].next
<1>1. streams[i].next \in Nat /\ streams[i].ended_at \in Nat
      /\ streams[i].ended_at <= streams[i].next
  BY StreamTypes DEF StreamOK
<1>2. IsToken(signal) => signal.offset \in Nat /\ signal.offset < streams[i].next
  BY DEF SignalRecord, Sent, IsToken, IsTerminal, Terminal
<1>3. QED BY <1>1, <1>2 DEF Before, UpTo

LEMMA UnbrokenStays ==
    ASSUME Typed, Typed', Grown, NEW i \in 1..Len(streams),
           streams'[i].next = streams[i].next,
           NEW q \in Seq(SignalRecord), Unbroken(q, i)
    PROVE  Unbroken(q, i)'
<1>1. Len(q) \in Nat /\ \A k \in 1..Len(q) : q[k] \in SignalRecord /\ Sent(q[k], i)
  BY DEF Unbroken
<1>2. \A k \in 1..Len(q) :
         /\ Sent(q[k], i)'
         /\ Before(q[k], i)' = Before(q[k], i)
         /\ UpTo(q[k], i)' = UpTo(q[k], i)
  BY <1>1, SentStays
<1>3. \A k \in 1 .. Len(q) - 1 : Before(q[k + 1], i) = UpTo(q[k], i)
  BY DEF Unbroken
<1>4. \A k \in 1 .. Len(q) - 1 : Before(q[k + 1], i)' = UpTo(q[k], i)'
  <2> SUFFICES ASSUME NEW k \in 1 .. Len(q) - 1
               PROVE  Before(q[k + 1], i)' = UpTo(q[k], i)'
    OBVIOUS
  <2>1. k \in 1..Len(q) /\ k + 1 \in 1..Len(q)
    BY <1>1
  <2>2. QED BY <1>2, <1>3, <2>1
<1>5. q # <<>> => UpTo(q[Len(q)], i)' = streams'[i].next
  <2> SUFFICES ASSUME q # <<>> PROVE UpTo(q[Len(q)], i)' = streams'[i].next
    OBVIOUS
  <2>1. Len(q) \in 1..Len(q)
    BY <1>1
  <2>2. QED BY <1>2, <2>1 DEF Unbroken
<1>6. QED BY <1>2, <1>4, <1>5 DEF Unbroken

(* The tail of an unbroken queue is unbroken.                              *)
LEMMA UnbrokenTail ==
    ASSUME NEW i, NEW q \in Seq(SignalRecord), q # <<>>, Unbroken(q, i)
    PROVE  Unbroken(Tail(q), i)
<1>1. /\ Len(q) \in Nat \ {0} /\ Tail(q) \in Seq(SignalRecord)
      /\ Len(Tail(q)) = Len(q) - 1
      /\ \A k \in 1 .. Len(q) - 1 : Tail(q)[k] = q[k + 1]
  OBVIOUS
<1>2. /\ \A k \in 1..Len(q) : Sent(q[k], i)
      /\ \A k \in 1 .. Len(q) - 1 : Before(q[k + 1], i) = UpTo(q[k], i)
      /\ UpTo(q[Len(q)], i) = streams[i].next
  BY DEF Unbroken
<1>3. \A k \in 1..Len(Tail(q)) : Sent(Tail(q)[k], i)
  <2> SUFFICES ASSUME NEW k \in 1..Len(Tail(q)) PROVE Sent(Tail(q)[k], i)
    OBVIOUS
  <2>1. k + 1 \in 1..Len(q) /\ Tail(q)[k] = q[k + 1]
    BY <1>1
  <2>2. QED BY <1>2, <2>1
<1>4. \A k \in 1 .. Len(Tail(q)) - 1 : Before(Tail(q)[k + 1], i) = UpTo(Tail(q)[k], i)
  <2> SUFFICES ASSUME NEW k \in 1 .. Len(Tail(q)) - 1
               PROVE  Before(Tail(q)[k + 1], i) = UpTo(Tail(q)[k], i)
    OBVIOUS
  <2>1. k + 1 \in 1 .. Len(q) - 1 /\ Tail(q)[k] = q[k + 1] /\ Tail(q)[k + 1] = q[(k + 1) + 1]
    BY <1>1
  <2>2. QED BY <1>2, <2>1
<1>5. Tail(q) # <<>> => UpTo(Tail(q)[Len(Tail(q))], i) = streams[i].next
  <2> SUFFICES ASSUME Tail(q) # <<>>
               PROVE  UpTo(Tail(q)[Len(Tail(q))], i) = streams[i].next
    OBVIOUS
  <2>1. Len(Tail(q)) # 0
    BY <1>1
  <2>2. Tail(q)[Len(Tail(q))] = q[Len(q)]
    BY <1>1, <2>1
  <2>3. QED BY <1>2, <2>2
<1>6. QED BY <1>3, <1>4, <1>5 DEF Unbroken

(* What is sent next goes to the end of every queue.                       *)
LEMMA UnbrokenAppend ==
    ASSUME Typed, Typed', Grown, NEW i \in 1..Len(streams),
           NEW signal \in SignalRecord, Sent(signal, i)',
           Before(signal, i)' = streams[i].next, UpTo(signal, i)' = streams'[i].next,
           NEW q \in Seq(SignalRecord), Unbroken(q, i)
    PROVE  Unbroken(Append(q, signal), i)'
<1> DEFINE a == Append(q, signal)
<1>1. /\ Len(q) \in Nat /\ Len(a) = Len(q) + 1
      /\ \A k \in 1..Len(q) : a[k] = q[k]
      /\ a[Len(q) + 1] = signal /\ a # <<>>
  OBVIOUS
<1>2. \A k \in 1..Len(q) :
         /\ Sent(q[k], i)'
         /\ Before(q[k], i)' = Before(q[k], i)
         /\ UpTo(q[k], i)' = UpTo(q[k], i)
  <2>1. \A k \in 1..Len(q) : q[k] \in SignalRecord /\ Sent(q[k], i)
    BY DEF Unbroken
  <2>2. QED BY <2>1, SentStays
<1> HIDE DEF a
<1>3. \A k \in 1..Len(a) : Sent(a[k], i)'
  <2> SUFFICES ASSUME NEW k \in 1..Len(a) PROVE Sent(a[k], i)'
    OBVIOUS
  <2>1. CASE k \in 1..Len(q)
    BY <1>1, <1>2, <2>1
  <2>2. CASE k = Len(q) + 1
    BY <1>1, <2>2
  <2>3. QED BY <1>1, <2>1, <2>2
<1>4. \A k \in 1 .. Len(a) - 1 : Before(a[k + 1], i)' = UpTo(a[k], i)'
  <2> SUFFICES ASSUME NEW k \in 1 .. Len(a) - 1
               PROVE  Before(a[k + 1], i)' = UpTo(a[k], i)'
    OBVIOUS
  <2>1. k \in 1..Len(q) /\ a[k] = q[k]
    BY <1>1
  <2>2. CASE k < Len(q)
    <3>1. k + 1 \in 1..Len(q) /\ a[k + 1] = q[k + 1] /\ k \in 1 .. Len(q) - 1
      BY <1>1, <2>1, <2>2
    <3>2. Before(q[k + 1], i) = UpTo(q[k], i)
      BY <3>1 DEF Unbroken
    <3>3. QED BY <1>2, <2>1, <3>1, <3>2
  <2>3. CASE k = Len(q)
    <3>1. q # <<>>
      BY <2>1, <2>3
    <3>2. UpTo(q[k], i) = streams[i].next
      BY <2>3, <3>1 DEF Unbroken
    <3>3. a[k + 1] = signal
      BY <1>1, <2>3
    <3>4. QED BY <1>2, <2>1, <3>2, <3>3
  <2>4. QED BY <1>1, <2>1, <2>2, <2>3
<1>5. UpTo(a[Len(a)], i)' = streams'[i].next
  BY <1>1
<1>6. Unbroken(a, i)'
  BY <1>3, <1>4, <1>5 DEF Unbroken
<1>7. QED BY <1>6 DEF a


(* One signal is sent on Stream i, in one step with what it says.          *)
Broadcast(i, signal) ==
    /\ Grown /\ Len(streams') \in {Len(streams), i}
    /\ i \in 1..Len(streams')
    /\ \A j \in 1..Len(streams) : j # i => streams'[j] = streams[j]
    /\ i \in 1..Len(streams) => Before(signal, i)' = streams[i].next
    /\ signal \in SignalRecord /\ Sent(signal, i)'
    /\ UpTo(signal, i)' = streams'[i].next
    /\ reader' = Send(i, signal)
    /\ current' = i
    /\ UNCHANGED <<seen, resume>>

LEMMA SendTyped ==
    ASSUME Typed, NEW i, NEW signal \in SignalRecord
    PROVE  Send(i, signal) \in [Client -> ReaderRecord]
<1> SUFFICES ASSUME NEW c \in Client
             PROVE  Send(i, signal)[c] \in ReaderRecord
  BY DEF Send
<1>1. reader[c] \in ReaderRecord /\ reader[c].queue \in Seq(SignalRecord)
  BY ClientTypes
<1>2. /\ Append(reader[c].queue, signal) \in Seq(SignalRecord)
      /\ reader[c].queue # <<>> => Append(Tail(reader[c].queue), signal) \in Seq(SignalRecord)
  BY <1>1
<1>3. Len(reader[c].queue) < ChannelSize \/ reader[c].queue # <<>>
  <2> SUFFICES ASSUME reader[c].queue = <<>> PROVE Len(reader[c].queue) < ChannelSize
    OBVIOUS
  <2>1. QED BY StreamAssumption
<1>4. QED BY <1>1, <1>2, <1>3 DEF Send, ReaderRecord

(* The queue a listening reader of Stream i has after that.                *)
LEMMA SendQueue ==
    ASSUME Typed, NEW c \in Client, NEW i, NEW signal \in SignalRecord,
           Len(reader[c].queue) <= ChannelSize, reader' = Send(i, signal)
    PROVE  /\ reader'[c].pc = reader[c].pc /\ reader'[c].stream = reader[c].stream
           /\ reader'[c].total = reader[c].total
           /\ Len(reader'[c].queue) <= ChannelSize
           /\ Listening(c) /\ reader[c].stream = i =>
                 \/ /\ reader'[c].queue = Append(reader[c].queue, signal)
                    /\ reader'[c].lagged = reader[c].lagged
                 \/ /\ reader[c].queue # <<>> /\ reader'[c].lagged
                    /\ reader'[c].queue = Append(Tail(reader[c].queue), signal)
           /\ ~Listening(c) \/ reader[c].stream # i => reader'[c] = reader[c]
<1> DEFINE q == reader[c].queue
<1>1. reader[c] \in ReaderRecord /\ q \in Seq(SignalRecord) /\ Len(q) \in Nat
  BY ClientTypes
<1>2. CASE ~Listening(c) \/ reader[c].stream # i
  <2>1. reader'[c] = reader[c]
    BY <1>2 DEF Send, Listening
  <2>2. QED BY <1>2, <2>1
<1>3. CASE Listening(c) /\ reader[c].stream = i /\ Len(q) < ChannelSize
  <2>1. reader'[c] = [reader[c] EXCEPT !.queue = Append(@, signal)]
    BY <1>3 DEF Send, Listening
  <2>2. Len(Append(q, signal)) = Len(q) + 1
    BY <1>1
  <2>3. QED BY <1>1, <1>3, <2>1, <2>2, StreamAssumption DEF ReaderRecord
<1>4. CASE Listening(c) /\ reader[c].stream = i /\ ~(Len(q) < ChannelSize)
  <2>1. reader'[c] = [reader[c] EXCEPT !.queue = Append(Tail(@), signal), !.lagged = TRUE]
    BY <1>4 DEF Send, Listening
  <2>2. q # <<>>
    BY <1>1, <1>4, StreamAssumption
  <2>3. Len(Append(Tail(q), signal)) = Len(q)
    BY <1>1, <2>2
  <2>4. QED BY <1>1, <1>4, <2>1, <2>2, <2>3 DEF ReaderRecord
<1>5. QED BY <1>2, <1>3, <1>4

LEMMA BroadcastKeeps ==
    ASSUME IInv, Typed', \A j \in 1..Len(streams') : StreamOK(streams'[j]),
           NEW i, NEW signal, Broadcast(i, signal)
    PROVE  IInv'
<1>0. Typed /\ \A j \in 1..Len(streams) : StreamOK(streams[j])
  BY DEF IInv
<1>1. /\ Grown /\ i \in 1..Len(streams') /\ signal \in SignalRecord
      /\ \A j \in 1..Len(streams) : j # i => streams'[j] = streams[j]
      /\ i \in 1..Len(streams) => Before(signal, i)' = streams[i].next
      /\ Sent(signal, i)' /\ UpTo(signal, i)' = streams'[i].next
      /\ reader' = Send(i, signal) /\ UNCHANGED <<seen, resume>>
  BY DEF Broadcast
<1>2. ASSUME NEW c \in Client PROVE ClientOK(c)'
  <2>q. PICK q : q = reader[c].queue
    OBVIOUS
  <2>i. PICK mine : mine = reader[c].stream
    OBVIOUS
  <2>1. /\ HeldOK(c) /\ QueueOK(c) /\ GivenOK(c) /\ ResumeOK(c)
        /\ LiveOK(c) /\ EndOK(c) /\ ExactOK(c)
    BY DEF IInv, ClientOK
  <2>2. /\ reader[c] \in ReaderRecord /\ q \in Seq(SignalRecord) /\ Len(q) \in Nat
        /\ resume[c] \in Nat
    BY <1>0, <2>q, ClientTypes
  <2>3. /\ reader'[c].pc = reader[c].pc /\ reader'[c].stream = mine
        /\ reader'[c].total = reader[c].total
        /\ Len(reader'[c].queue) <= ChannelSize
        /\ Listening(c) /\ mine = i =>
              \/ /\ reader'[c].queue = Append(q, signal)
                 /\ reader'[c].lagged = reader[c].lagged
              \/ /\ q # <<>> /\ reader'[c].lagged
                 /\ reader'[c].queue = Append(Tail(q), signal)
        /\ ~Listening(c) \/ mine # i => reader'[c] = reader[c]
    BY <1>0, <1>1, <2>1, <2>q, <2>i, SendQueue DEF HeldOK
  <2>4. GivenOK(c)' /\ ResumeOK(c)' /\ EndOK(c)' /\ ExactOK(c)'
    BY <1>0, <1>1, <2>1, <2>3, <2>i, ClientStays
  <2>5. reader[c].pc # "idle" =>
           /\ mine \in 1..Len(streams) /\ mine \in 1..Len(streams')
           /\ reader[c].total <= streams[mine].next
           /\ streams[mine].next \in Nat /\ streams'[mine].next \in Nat
           /\ streams[mine].next <= streams'[mine].next
    <3> SUFFICES ASSUME reader[c].pc # "idle"
                 PROVE  /\ mine \in 1..Len(streams) /\ mine \in 1..Len(streams')
                        /\ reader[c].total <= streams[mine].next
                        /\ streams[mine].next \in Nat /\ streams'[mine].next \in Nat
                        /\ streams[mine].next <= streams'[mine].next
      OBVIOUS
    <3>1. mine \in 1..Len(streams) /\ reader[c].total <= streams[mine].next
      BY <2>1, <2>i DEF HeldOK, Mine
    <3>2. Len(streams) \in Nat /\ Len(streams') \in Nat /\ Len(streams) <= Len(streams')
      BY <1>0, <1>1 DEF Grown, Typed
    <3>3. mine \in 1..Len(streams') /\ streams[mine].next <= streams'[mine].next
      BY <1>1, <3>1, <3>2 DEF Grown
    <3>4. streams[mine] \in StreamRecord /\ streams'[mine] \in StreamRecord
      BY <1>0, <3>1, <3>3 DEF Typed
    <3>5. QED BY <3>1, <3>3, <3>4 DEF StreamRecord
  <2>6. HeldOK(c)'
    <3>1. reader'[c].pc \in {"idle", "subscribed"} => reader'[c].queue = <<>>
      BY <2>1, <2>3, <2>q DEF HeldOK, Listening
    <3>2. reader'[c].pc # "idle" => reader'[c].total <= streams'[mine].next
      BY <2>2, <2>3, <2>5 DEF ReaderRecord
    <3>3. QED BY <2>3, <2>5, <3>1, <3>2 DEF HeldOK, Mine
  <2>h. Home(c)' <=> Home(c)
    BY <1>1, <2>3, <2>i DEF Home
  <2>l. (~reader'[c].lagged => Position(c)' = Position(c) /\ ~reader[c].lagged)
        => LiveOK(c)'
    BY <1>1, <2>1, <2>3, <2>h DEF LiveOK
  <2>7. QueueOK(c)' /\ LiveOK(c)'
    <3>p. PICK p : p = reader'[c].queue
      OBVIOUS
    <3> SUFFICES ASSUME Listening(c)'
                 PROVE  Unbroken(p, mine)' /\ LiveOK(c)'
      <4>1. ~Listening(c)' => LiveOK(c)'
        BY DEF LiveOK, Listening
      <4>2. QED BY <2>3, <2>i, <3>p, <4>1 DEF QueueOK
    <3>1. Listening(c) /\ reader[c].pc # "idle" /\ Unbroken(q, mine)
      BY <2>1, <2>3, <2>q, <2>i DEF QueueOK, Listening
    <3>2. CASE mine # i
      <4>1. streams'[mine] = streams[mine] /\ reader'[c] = reader[c]
        BY <1>1, <2>3, <2>5, <3>1, <3>2
      <4>2. Unbroken(q, mine)'
        BY <1>0, <1>1, <2>2, <2>5, <3>1, <4>1, UnbrokenStays
      <4>3. Position(c)' = Position(c)
        BY <2>i, <4>1 DEF Position, Mine, Before
      <4>4. QED BY <2>l, <2>q, <3>p, <4>1, <4>2, <4>3
    <3>3. CASE mine = i
      <4>1. mine \in 1..Len(streams) /\ Before(signal, mine)' = streams[mine].next
        BY <1>1, <2>5, <3>1, <3>3
      <4>2. Unbroken(Append(q, signal), mine)'
        BY <1>0, <1>1, <2>2, <3>1, <3>3, <4>1, UnbrokenAppend
      <4>3. q # <<>> => Unbroken(Append(Tail(q), signal), mine)'
        <5> SUFFICES ASSUME q # <<>> PROVE Unbroken(Append(Tail(q), signal), mine)'
          OBVIOUS
        <5>1. Tail(q) \in Seq(SignalRecord) /\ Unbroken(Tail(q), mine)
          BY <2>2, <3>1, UnbrokenTail
        <5>2. QED BY <1>0, <1>1, <3>3, <4>1, <5>1, UnbrokenAppend
      <4>4. ASSUME ~reader'[c].lagged
            PROVE  /\ Position(c)' = Position(c)
                   /\ ~reader[c].lagged
        <5>1. reader'[c].queue = Append(q, signal) /\ ~reader[c].lagged
          BY <2>3, <3>1, <3>3, <4>4
        <5>2. CASE q = <<>>
          <6>1. reader'[c].queue # <<>> /\ reader'[c].queue[1] = signal
            BY <5>1, <5>2
          <6>2. QED BY <2>3, <2>q, <2>i, <4>1, <5>1, <5>2, <6>1 DEF Position, Mine
        <5>3. CASE q # <<>>
          <6>1. reader'[c].queue # <<>> /\ reader'[c].queue[1] = q[1]
                /\ q[1] \in SignalRecord /\ Sent(q[1], mine)
            <7>1. 1 \in 1..Len(q)
              BY <2>2, <5>3
            <7>2. QED BY <2>2, <3>1, <5>1, <7>1 DEF Unbroken
          <6>2. Before(q[1], mine)' = Before(q[1], mine)
            BY <1>0, <1>1, <4>1, <6>1, SentStays
          <6>3. QED BY <2>3, <2>q, <2>i, <5>1, <5>3, <6>1, <6>2 DEF Position
        <5>4. QED BY <5>1, <5>2, <5>3
      <4>5. LiveOK(c)'
        BY <2>l, <4>4
      <4>6. p = Append(q, signal) \/ (q # <<>> /\ p = Append(Tail(q), signal))
        BY <2>3, <3>p, <3>1, <3>3
      <4>7. QED BY <4>2, <4>3, <4>5, <4>6
    <3>4. QED BY <3>2, <3>3
  <2>8. QED BY <2>4, <2>6, <2>7 DEF ClientOK
<1>3. QED BY <1>2 DEF IInv


-----------------------------------------------------------------------------
(* The operations on the registered Stream.                                *)

LEMMA NewStreamOK == NewStream \in StreamRecord /\ StreamOK(NewStream)
<1>1. NewStream \in StreamRecord
  BY DEF NewStream, StreamRecord
<1>2. QED BY <1>1, StreamAssumption DEF NewStream, StreamOK

LEMMA RegisteredFacts ==
    ASSUME Typed, \A j \in 1..Len(streams) : StreamOK(streams[j])
    PROVE  /\ WithStream \in Seq(StreamRecord)
           /\ Registered \in Nat \ {0} /\ Len(WithStream) = Registered
           /\ Len(streams) <= Registered
           /\ \A j \in 1..Len(streams) : WithStream[j] = streams[j]
           /\ \A j \in 1..Registered : StreamOK(WithStream[j])
<1>1. Len(streams) \in Nat /\ current \in {0, Len(streams)} /\ streams \in Seq(StreamRecord)
  BY DEF Typed
<1>2. CASE current = 0
  <2>1. WithStream = Append(streams, NewStream) /\ Registered = Len(streams) + 1
    BY <1>2 DEF WithStream, Registered
  <2>2. /\ WithStream \in Seq(StreamRecord) /\ Len(WithStream) = Len(streams) + 1
        /\ \A j \in 1..Len(streams) : WithStream[j] = streams[j]
        /\ WithStream[Len(streams) + 1] = NewStream
    BY <1>1, <2>1, NewStreamOK
  <2>3. \A j \in 1..Registered : StreamOK(WithStream[j])
    <3> SUFFICES ASSUME NEW j \in 1..Registered PROVE StreamOK(WithStream[j])
      OBVIOUS
    <3>1. j \in 1..Len(streams) \/ j = Len(streams) + 1
      BY <1>1, <2>1
    <3>2. QED BY <2>2, <3>1, NewStreamOK
  <2>4. QED BY <1>1, <2>1, <2>2, <2>3
<1>3. CASE current # 0
  BY <1>1, <1>3 DEF WithStream, Registered
<1>4. QED BY <1>2, <1>3

(* The registered Stream is replaced by one that follows from it.          *)
LEMMA UpdateFacts ==
    ASSUME Typed, \A j \in 1..Len(streams) : StreamOK(streams[j]),
           NEW s \in StreamRecord, StreamOK(s),
           WithStream[Registered].next <= s.next,
           WithStream[Registered].terminal # "open" =>
              /\ s.terminal = WithStream[Registered].terminal
              /\ s.ended_at = WithStream[Registered].ended_at,
           streams' = [WithStream EXCEPT ![Registered] = s]
    PROVE  /\ streams' \in Seq(StreamRecord) /\ Len(streams') = Registered
           /\ Registered \in 1..Len(streams')
           /\ \A j \in 1..Len(streams') : StreamOK(streams'[j])
           /\ streams'[Registered] = s
           /\ Grown /\ Len(streams') \in {Len(streams), Registered}
           /\ \A j \in 1..Len(streams) : j # Registered => streams'[j] = streams[j]
           /\ Registered \in 1..Len(streams) => streams[Registered] = WithStream[Registered]
<1>1. /\ WithStream \in Seq(StreamRecord)
      /\ Registered \in Nat \ {0} /\ Len(WithStream) = Registered
      /\ Len(streams) <= Registered /\ Len(streams) \in Nat
      /\ \A j \in 1..Len(streams) : WithStream[j] = streams[j]
      /\ \A j \in 1..Registered : StreamOK(WithStream[j])
  BY RegisteredFacts, StreamTypes
<1>2. /\ streams' \in Seq(StreamRecord) /\ Len(streams') = Registered
      /\ Registered \in 1..Len(streams')
      /\ streams'[Registered] = s
      /\ \A j \in 1..Registered : j # Registered => streams'[j] = WithStream[j]
  BY <1>1
<1>3. \A j \in 1..Len(streams) : j \in 1..Registered
  BY <1>1
<1>4. \A j \in 1..Len(streams) : j # Registered => streams'[j] = streams[j]
  BY <1>1, <1>2, <1>3
<1>5. Grown
  <2>1. \A j \in 1..Len(streams) : streams[j].next \in Nat
    BY StreamTypes
  <2>2. ASSUME NEW j \in 1..Len(streams)
        PROVE  /\ streams[j].next <= streams'[j].next
               /\ streams[j].terminal # "open" =>
                     /\ streams'[j].terminal = streams[j].terminal
                     /\ streams'[j].ended_at = streams[j].ended_at
    <3>1. CASE j = Registered
      BY <1>1, <1>2, <3>1
    <3>2. CASE j # Registered
      BY <1>4, <2>1, <3>2
    <3>3. QED BY <3>1, <3>2
  <2>3. QED BY <1>1, <1>2, <2>2 DEF Grown
<1>6. \A j \in 1..Len(streams') : StreamOK(streams'[j])
  BY <1>1, <1>2
<1>7. QED BY <1>1, <1>2, <1>4, <1>5, <1>6

LEMMA PublishKeeps == ASSUME IInv, Publish PROVE IInv'
<1>0. Typed /\ \A j \in 1..Len(streams) : StreamOK(streams[j])
  BY DEF IInv
<1>i. PICK i : i = Registered
  OBVIOUS
<1>s. PICK s : s = WithStream[i]
  OBVIOUS
<1>t. PICK t : t = Trimmed([s EXCEPT !.next = @ + 1])
  OBVIOUS
<1>1. /\ s.next < MaxTokens /\ streams' = [WithStream EXCEPT ![i] = t]
      /\ reader' = Send(i, Token(i, s.next)) /\ current' = i
      /\ UNCHANGED <<seen, resume>>
  BY <1>i, <1>s, <1>t DEF Publish
<1>2. s \in StreamRecord /\ StreamOK(s) /\ i \in Nat \ {0}
  <2>1. i \in 1..Len(WithStream)
    BY <1>0, <1>i, RegisteredFacts
  <2>2. QED BY <1>0, <1>i, <1>s, <2>1, RegisteredFacts
<1>3. /\ s.next \in Nat /\ s.first \in Nat /\ s.ended_at \in Nat
      /\ s.ended_at <= s.next
      /\ s.first = IF s.next > MaxBuffer THEN s.next - MaxBuffer ELSE 0
  BY <1>2 DEF StreamRecord, StreamOK
<1>4. /\ t \in StreamRecord /\ StreamOK(t) /\ t.next = s.next + 1
      /\ t.terminal = s.terminal /\ t.ended_at = s.ended_at
  <2>u. PICK u : u = [s EXCEPT !.next = @ + 1]
    OBVIOUS
  <2>1. /\ u \in StreamRecord /\ u.next = s.next + 1 /\ u.first = s.first
        /\ u.terminal = s.terminal /\ u.ended_at = s.ended_at
    BY <1>2, <1>3, <2>u DEF StreamRecord
  <2>2. PICK n : n = IF u.next - u.first > MaxBuffer THEN u.next - MaxBuffer ELSE u.first
    OBVIOUS
  <2>3. n \in Nat /\ t = [u EXCEPT !.first = n]
    <3>1. u.next \in Nat /\ u.first \in Nat
      BY <1>3, <2>1
    <3>2. n \in Nat
      BY <2>2, <3>1, StreamAssumption
    <3>3. t = [u EXCEPT !.first = n]
      BY <1>t, <2>u, <2>2 DEF Trimmed
    <3>4. QED BY <3>2, <3>3
  <2>4. /\ t \in StreamRecord
        /\ t.next = s.next + 1 /\ t.terminal = s.terminal /\ t.ended_at = s.ended_at
        /\ t.first = IF s.next + 1 - s.first > MaxBuffer
                     THEN s.next + 1 - MaxBuffer ELSE s.first
    <3>1. /\ t \in StreamRecord /\ t.next = u.next /\ t.first = n
          /\ t.terminal = u.terminal /\ t.ended_at = u.ended_at
      BY <2>1, <2>3 DEF StreamRecord
    <3>2. n = IF s.next + 1 - s.first > MaxBuffer
              THEN s.next + 1 - MaxBuffer ELSE s.first
      BY <1>3, <2>1, <2>2, StreamAssumption
    <3>3. QED BY <2>1, <3>1, <3>2
  <2>5. StreamOK(t)
    BY <1>1, <1>3, <2>4, StreamAssumption DEF StreamOK
  <2>6. QED BY <2>4, <2>5
<1>5. /\ streams' \in Seq(StreamRecord) /\ Len(streams') = i
      /\ i \in 1..Len(streams')
      /\ \A j \in 1..Len(streams') : StreamOK(streams'[j])
      /\ streams'[i] = t
      /\ Grown /\ Len(streams') \in {Len(streams), i}
      /\ \A j \in 1..Len(streams) : j # i => streams'[j] = streams[j]
      /\ i \in 1..Len(streams) => streams[i] = s
  <2>1. WithStream[Registered] = s /\ streams' = [WithStream EXCEPT ![Registered] = t]
    BY <1>1, <1>i, <1>s
  <2>2. s.next <= t.next
    BY <1>3, <1>4
  <2>3. QED BY <1>0, <1>4, <1>i, <2>1, <2>2, UpdateFacts
<1>6. PICK signal : signal = Token(i, s.next)
  OBVIOUS
<1>7. /\ signal \in SignalRecord /\ IsToken(signal)
      /\ signal.stream = i /\ signal.offset = s.next
  BY <1>2, <1>3, <1>6 DEF SignalRecord, Token, IsToken
<1>8. Broadcast(i, signal)
  <2>1. Sent(signal, i)'
    BY <1>3, <1>4, <1>5, <1>7 DEF Sent
  <2>2. UpTo(signal, i)' = streams'[i].next
    BY <1>4, <1>5, <1>7 DEF UpTo
  <2>3. i \in 1..Len(streams) => Before(signal, i)' = streams[i].next
    BY <1>5, <1>7 DEF Before
  <2>4. QED BY <1>1, <1>5, <1>6, <1>7, <2>1, <2>2, <2>3 DEF Broadcast
<1>9. Typed'
  <2>1. reader' \in [Client -> ReaderRecord]
    BY <1>0, <1>1, <1>6, <1>7, SendTyped
  <2>2. QED BY <1>0, <1>1, <1>5, <2>1 DEF Typed
<1>10. QED BY <1>5, <1>8, <1>9, BroadcastKeeps


(* What a step of one client, or the registration of a Stream, leaves of   *)
(* the queue and the position of another.                                  *)
LEMMA QueueStays ==
    ASSUME Typed, Typed', NEW c \in Client, Grown,
           \A i \in 1..Len(streams) : streams'[i] = streams[i],
           HeldOK(c), QueueOK(c), LiveOK(c),
           reader'[c] = reader[c], seen'[c] = seen[c], resume'[c] = resume[c]
    PROVE  HeldOK(c)' /\ QueueOK(c)' /\ LiveOK(c)'
<1>q. PICK q : q = reader[c].queue
  OBVIOUS
<1>i. PICK mine : mine = reader[c].stream
  OBVIOUS
<1>1. q \in Seq(SignalRecord)
  BY <1>q, ClientTypes
<1>2. Len(streams) \in Nat /\ Len(streams') \in Nat /\ Len(streams) <= Len(streams')
  BY DEF Typed, Grown
<1>3. reader[c].pc # "idle" =>
         /\ mine \in 1..Len(streams) /\ mine \in 1..Len(streams')
         /\ streams'[mine] = streams[mine]
  BY <1>2, <1>i DEF HeldOK
<1>4. HeldOK(c)'
  BY <1>3, <1>i DEF HeldOK, Mine
<1>5. QueueOK(c)'
  <2> SUFFICES ASSUME Listening(c) PROVE Unbroken(q, mine)'
    BY <1>q, <1>i DEF QueueOK, Listening
  <2>1. mine \in 1..Len(streams) /\ streams'[mine] = streams[mine] /\ Unbroken(q, mine)
    BY <1>q, <1>i, <1>3 DEF QueueOK, Listening
  <2>2. QED BY <1>1, <2>1, UnbrokenStays
<1>6. LiveOK(c)'
  <2> SUFFICES ASSUME reader[c].pc = "live" PROVE LiveOK(c)'
    BY DEF LiveOK
  <2>1. streams'[mine] = streams[mine]
    BY <1>3
  <2>2. Position(c)' = Position(c)
    BY <1>i, <2>1 DEF Position, Mine, Before
  <2>3. Home(c)' <=> Home(c)
    BY DEF Home
  <2>4. QED BY <2>2, <2>3 DEF LiveOK
<1>7. QED BY <1>4, <1>5, <1>6

LEMMA ClientUntouched ==
    ASSUME Typed, Typed', NEW c \in Client, Grown,
           \A i \in 1..Len(streams) : streams'[i] = streams[i], ClientOK(c),
           reader'[c] = reader[c], seen'[c] = seen[c], resume'[c] = resume[c]
    PROVE  ClientOK(c)'
<1>1. /\ HeldOK(c) /\ QueueOK(c) /\ GivenOK(c) /\ ResumeOK(c)
      /\ LiveOK(c) /\ EndOK(c) /\ ExactOK(c)
  BY DEF ClientOK
<1>2. HeldOK(c)' /\ QueueOK(c)' /\ LiveOK(c)'
  BY <1>1, QueueStays
<1>3. GivenOK(c)' /\ ResumeOK(c)' /\ EndOK(c)' /\ ExactOK(c)'
  BY <1>1, ClientStays
<1>4. QED BY <1>2, <1>3 DEF ClientOK

(* A Stream is registered, and nothing is sent.                            *)
LEMMA WithStreamGrows ==
    ASSUME Typed, \A j \in 1..Len(streams) : StreamOK(streams[j]), streams' = WithStream
    PROVE  /\ streams' \in Seq(StreamRecord) /\ Len(streams') = Registered
           /\ Registered \in 1..Len(streams')
           /\ \A j \in 1..Len(streams') : StreamOK(streams'[j])
           /\ Grown /\ \A i \in 1..Len(streams) : streams'[i] = streams[i]
<1>1. /\ streams' \in Seq(StreamRecord) /\ Len(streams') = Registered
      /\ Registered \in Nat \ {0} /\ Len(streams) <= Registered
      /\ \A j \in 1..Len(streams) : streams'[j] = streams[j]
      /\ \A j \in 1..Registered : StreamOK(streams'[j])
  BY RegisteredFacts
<1>2. \A j \in 1..Len(streams) : streams[j].next \in Nat
  BY StreamTypes
<1>3. Grown
  BY <1>1, <1>2 DEF Grown
<1>4. QED BY <1>1, <1>3

LEMMA RegisterKeeps ==
    ASSUME IInv, streams' = WithStream, current' = Registered,
           UNCHANGED <<reader, seen, resume>>
    PROVE  IInv'
<1>0. Typed /\ \A j \in 1..Len(streams) : StreamOK(streams[j])
  BY DEF IInv
<1>1. /\ streams' \in Seq(StreamRecord) /\ Len(streams') = Registered
      /\ \A j \in 1..Len(streams') : StreamOK(streams'[j])
      /\ Grown /\ \A i \in 1..Len(streams) : streams'[i] = streams[i]
  BY <1>0, WithStreamGrows
<1>2. Typed'
  BY <1>0, <1>1 DEF Typed
<1>3. ASSUME NEW c \in Client PROVE ClientOK(c)'
  <2>1. ClientOK(c) /\ reader'[c] = reader[c] /\ seen'[c] = seen[c] /\ resume'[c] = resume[c]
    BY DEF IInv
  <2>2. QED BY <1>0, <1>1, <1>2, <2>1, ClientUntouched
<1>4. QED BY <1>1, <1>2, <1>3 DEF IInv

LEMMA EndKeeps == ASSUME IInv, NEW terminal \in Terminal, End(terminal) PROVE IInv'
<1>0. Typed /\ \A j \in 1..Len(streams) : StreamOK(streams[j])
  BY DEF IInv
<1>i. PICK i : i = Registered
  OBVIOUS
<1>s. PICK s : s = WithStream[i]
  OBVIOUS
<1>2. s \in StreamRecord /\ StreamOK(s) /\ i \in Nat \ {0}
  <2>1. i \in 1..Len(WithStream)
    BY <1>0, <1>i, RegisteredFacts
  <2>2. QED BY <1>0, <1>i, <1>s, <2>1, RegisteredFacts
<1>3. current' = i /\ UNCHANGED <<seen, resume>>
  BY <1>i DEF End
<1>4. CASE s.terminal = "open"
  <2>t. PICK t : t = [s EXCEPT !.terminal = terminal, !.ended_at = s.next]
    OBVIOUS
  <2>1. /\ streams' = [WithStream EXCEPT ![i] = t]
        /\ reader' = Send(i, Signal(terminal))
    BY <1>4, <1>i, <1>s, <2>t DEF End, MayEnd
  <2>2. /\ t \in StreamRecord /\ t.next = s.next /\ t.first = s.first
        /\ t.terminal = terminal /\ t.ended_at = s.next /\ s.next \in Nat
    BY <1>2, <2>t DEF StreamRecord
  <2>3. StreamOK(t)
    BY <1>2, <2>2 DEF StreamOK
  <2>4. /\ streams' \in Seq(StreamRecord) /\ Len(streams') = i
        /\ i \in 1..Len(streams')
        /\ \A j \in 1..Len(streams') : StreamOK(streams'[j])
        /\ streams'[i] = t
        /\ Grown /\ Len(streams') \in {Len(streams), i}
        /\ \A j \in 1..Len(streams) : j # i => streams'[j] = streams[j]
        /\ i \in 1..Len(streams) => streams[i] = s
    <3>1. WithStream[Registered] = s /\ streams' = [WithStream EXCEPT ![Registered] = t]
      BY <1>i, <1>s, <2>1
    <3>2. s.next <= t.next
      BY <2>2
    <3>3. QED BY <1>0, <1>4, <1>i, <2>2, <2>3, <3>1, <3>2, UpdateFacts
  <2>5. PICK signal : signal = Signal(terminal)
    OBVIOUS
  <2>6. /\ signal \in SignalRecord /\ IsTerminal(signal) /\ ~IsToken(signal)
    BY <2>5 DEF SignalRecord, Signal, IsTerminal, IsToken, Terminal
  <2>7. Broadcast(i, signal)
    <3>1. Sent(signal, i)'
      BY <2>2, <2>4, <2>5, <2>6 DEF Sent
    <3>2. UpTo(signal, i)' = streams'[i].next
      BY <2>2, <2>4, <2>6 DEF UpTo
    <3>3. i \in 1..Len(streams) => Before(signal, i)' = streams[i].next
      BY <2>2, <2>4, <2>6 DEF Before
    <3>4. QED BY <1>3, <2>1, <2>4, <2>5, <2>6, <3>1, <3>2, <3>3 DEF Broadcast
  <2>8. Typed'
    <3>1. reader' \in [Client -> ReaderRecord]
      BY <1>0, <2>1, <2>5, <2>6, SendTyped
    <3>2. QED BY <1>0, <1>3, <2>4, <3>1 DEF Typed
  <2>9. QED BY <2>4, <2>7, <2>8, BroadcastKeeps
<1>5. CASE s.terminal # "open"
  <2>1. streams' = WithStream /\ reader' = reader
    BY <1>5, <1>i, <1>s DEF End, MayEnd
  <2>2. QED BY <1>i, <1>3, <2>1, RegisterKeeps DEF IInv
<1>6. QED BY <1>4, <1>5


LEMMA RemoveKeeps == ASSUME IInv, Remove PROVE IInv'
<1>0. Typed /\ \A j \in 1..Len(streams) : StreamOK(streams[j])
  BY DEF IInv
<1>1. current' = 0 /\ UNCHANGED <<streams, reader, seen, resume>>
  BY DEF Remove
<1>2. Typed'
  BY <1>0, <1>1 DEF Typed
<1>3. Grown /\ \A i \in 1..Len(streams) : streams'[i] = streams[i]
  BY <1>0, <1>1, GrownStays
<1>4. ASSUME NEW c \in Client PROVE ClientOK(c)'
  <2>1. ClientOK(c) /\ reader'[c] = reader[c] /\ seen'[c] = seen[c] /\ resume'[c] = resume[c]
    BY <1>1 DEF IInv
  <2>2. QED BY <1>0, <1>2, <1>3, <2>1, ClientUntouched
<1>5. QED BY <1>0, <1>1, <1>2, <1>4 DEF IInv

-----------------------------------------------------------------------------
(* The steps of one client.                                                *)

(* A step of one client: it is enough to look at that client.              *)
LEMMA OneClient ==
    ASSUME IInv, Typed', NEW c \in Client, Grown,
           \A i \in 1..Len(streams) : streams'[i] = streams[i],
           \A j \in 1..Len(streams') : StreamOK(streams'[j]),
           \A d \in Client \ {c} :
              reader'[d] = reader[d] /\ seen'[d] = seen[d] /\ resume'[d] = resume[d],
           ClientOK(c)'
    PROVE  IInv'
<1>1. ASSUME NEW d \in Client \ {c} PROVE ClientOK(d)'
  <2>1. Typed /\ ClientOK(d)
    BY DEF IInv
  <2>2. QED BY <2>1, ClientUntouched
<1>2. QED BY <1>1 DEF IInv

LEMMA SubscribeKeeps == ASSUME IInv, NEW c \in Client, Subscribe(c) PROVE IInv'
<1>0. /\ Typed /\ \A j \in 1..Len(streams) : StreamOK(streams[j])
      /\ HeldOK(c) /\ GivenOK(c) /\ ResumeOK(c) /\ ExactOK(c)
  BY DEF IInv, ClientOK
<1>i. PICK i : i = Registered
  OBVIOUS
<1>r. PICK r : r = Reading("subscribed", i, 0, <<>>, FALSE)
  OBVIOUS
<1>1. /\ reader' = [reader EXCEPT ![c] = r]
      /\ streams' = WithStream /\ current' = i /\ UNCHANGED <<seen, resume>>
  BY <1>i, <1>r DEF Subscribe
<1>2. /\ streams' \in Seq(StreamRecord) /\ Len(streams') = i /\ i \in 1..Len(streams')
      /\ \A j \in 1..Len(streams') : StreamOK(streams'[j])
      /\ Grown /\ \A j \in 1..Len(streams) : streams'[j] = streams[j]
  BY <1>0, <1>1, <1>i, WithStreamGrows
<1>3. /\ r \in ReaderRecord /\ r.pc = "subscribed" /\ r.stream = i
      /\ r.total = 0 /\ r.queue = <<>>
  <2>1. i \in Nat
    BY <1>2
  <2>2. QED BY <1>r, <2>1 DEF Reading, ReaderRecord
<1>4. Typed'
  <2>1. reader' \in [Client -> ReaderRecord]
    BY <1>0, <1>1, <1>3 DEF Typed
  <2>2. QED BY <1>0, <1>1, <1>2, <2>1 DEF Typed
<1>5. reader'[c] = r
  BY <1>0, <1>1 DEF Typed
<1>6. GivenOK(c)' /\ ResumeOK(c)' /\ ExactOK(c)'
  <2>1. /\ Len(seen[c]) \in Nat /\ Len(streams) \in Nat /\ Len(streams') \in Nat
        /\ Len(streams) <= i
        /\ \A k \in 1..Len(seen[c]) : seen[c][k].stream \in Nat
    BY <1>0, <1>2, ClientTypes, StreamTypes DEF Grown
  <2>2. \A k \in 1..Len(seen[c]) : IsToken(seen[c][k]) =>
           /\ seen[c][k].stream \in 1..Len(streams)
           /\ seen[c][k].offset < streams[seen[c][k].stream].next
    BY <1>0 DEF GivenOK
  <2>3. GivenOK(c)'
    <3> SUFFICES ASSUME NEW k \in 1..Len(seen[c]), IsToken(seen[c][k])
                 PROVE  /\ seen[c][k].stream \in 1..Len(streams')
                        /\ seen[c][k].offset < streams'[seen[c][k].stream].next
                        /\ seen[c][k].stream <= i
      BY <1>1, <1>3, <1>5 DEF GivenOK
    <3>1. /\ seen[c][k].stream \in 1..Len(streams)
          /\ seen[c][k].offset < streams[seen[c][k].stream].next
      BY <2>2
    <3>2. QED BY <1>2, <2>1, <3>1
  <2>4. ResumeOK(c)'
    <3>1. /\ (\A k \in 1..Len(seen[c]) : ~IsToken(seen[c][k])) => resume[c] = 0
          /\ \A k \in 1..Len(seen[c]) :
                /\ IsToken(seen[c][k])
                /\ \A j \in k + 1 .. Len(seen[c]) : ~IsToken(seen[c][j])
                => resume[c] = seen[c][k].offset + 1
      BY <1>0 DEF ResumeOK
    <3>2. \A k \in 1..Len(seen[c]) :
             /\ IsToken(seen[c][k])
             /\ \A j \in 1..Len(seen[c]) :
                   IsToken(seen[c][j]) => seen[c][j].stream <= seen[c][k].stream
             => /\ seen[c][k].offset < resume[c]
                /\ resume[c] <= streams'[seen[c][k].stream].next
      BY <1>0, <1>2, <2>2 DEF ResumeOK
    <3>3. QED BY <1>1, <3>1, <3>2 DEF ResumeOK
  <2>5. ExactOK(c)'
    BY <1>0, <1>1 DEF ExactOK, Expected, Consecutive
  <2>6. QED BY <2>3, <2>4, <2>5
<1>7. HeldOK(c)'
  <2>1. streams'[i].next \in Nat
    <3>1. streams'[i] \in StreamRecord
      BY <1>2
    <3>2. QED BY <3>1 DEF StreamRecord
  <2>2. Len(r.queue) = 0
    BY <1>3
  <2>3. QED BY <1>2, <1>3, <1>5, <2>1, <2>2, StreamAssumption DEF HeldOK, Mine
<1>8. QueueOK(c)' /\ LiveOK(c)' /\ EndOK(c)'
  BY <1>3, <1>5 DEF QueueOK, LiveOK, EndOK, Listening
<1>9. ClientOK(c)'
  BY <1>6, <1>7, <1>8 DEF ClientOK
<1>10. QED BY <1>1, <1>2, <1>4, <1>9, OneClient

(* A client is given nothing, and its reader starts to listen, or stops.   *)
LEMMA AttachKeeps == ASSUME IInv, NEW c \in Client, Attach(c) PROVE IInv'
<1>0. /\ Typed /\ \A j \in 1..Len(streams) : StreamOK(streams[j])
      /\ HeldOK(c) /\ GivenOK(c) /\ ResumeOK(c) /\ EndOK(c) /\ ExactOK(c)
  BY DEF IInv, ClientOK
<1>1. /\ reader[c].pc = "subscribed" /\ reader' = [reader EXCEPT ![c].pc = "attached"]
      /\ UNCHANGED <<streams, current, seen, resume>>
  BY DEF Attach
<1>2. /\ reader'[c].pc = "attached" /\ reader'[c].stream = reader[c].stream
      /\ reader'[c].total = reader[c].total /\ reader'[c].queue = reader[c].queue
      /\ reader' \in [Client -> ReaderRecord]
  BY <1>0, <1>1 DEF Typed, ReaderRecord
<1>3. Typed'
  BY <1>0, <1>1, <1>2 DEF Typed
<1>4. Grown
  BY <1>0, <1>1, GrownStays
<1>5. GivenOK(c)' /\ ResumeOK(c)' /\ EndOK(c)' /\ ExactOK(c)'
  BY <1>0, <1>1, <1>2, <1>3, <1>4, ClientStays
<1>6. HeldOK(c)' /\ QueueOK(c)' /\ LiveOK(c)'
  <2>1. reader[c].queue = <<>> /\ Len(reader[c].queue) = 0
    BY <1>0, <1>1 DEF HeldOK
  <2>2. HeldOK(c)'
    BY <1>0, <1>1, <1>2 DEF HeldOK, Mine
  <2>3. reader'[c].queue = <<>>
    BY <1>2, <2>1
  <2>4. QueueOK(c)'
    BY <2>3 DEF QueueOK, Unbroken
  <2>5. QED BY <1>2, <2>2, <2>4 DEF LiveOK
<1>7. ClientOK(c)'
  BY <1>5, <1>6 DEF ClientOK
<1>8. QED BY <1>0, <1>1, <1>3, <1>4, <1>7, OneClient

LEMMA StopKeeps ==
    ASSUME IInv, NEW c \in Client, reader' = [reader EXCEPT ![c] = NotReading],
           UNCHANGED <<streams, current, seen, resume>>
    PROVE  IInv'
<1>0. /\ Typed /\ \A j \in 1..Len(streams) : StreamOK(streams[j])
      /\ HeldOK(c) /\ GivenOK(c) /\ ResumeOK(c) /\ EndOK(c) /\ ExactOK(c)
  BY DEF IInv, ClientOK
<1>1. NotReading \in ReaderRecord /\ NotReading.pc = "idle" /\ NotReading.queue = <<>>
  BY DEF NotReading, Reading, ReaderRecord
<1>2. reader'[c] = NotReading /\ reader' \in [Client -> ReaderRecord]
  BY <1>0, <1>1 DEF Typed
<1>3. Typed'
  BY <1>0, <1>2 DEF Typed
<1>4. Grown
  BY <1>0, GrownStays
<1>5. GivenOK(c)' /\ ResumeOK(c)' /\ EndOK(c)' /\ ExactOK(c)'
  BY <1>0, <1>1, <1>2, <1>3, <1>4, ClientStays
<1>6. HeldOK(c)' /\ QueueOK(c)' /\ LiveOK(c)'
  <2>1. Len(NotReading.queue) = 0
    BY <1>1
  <2>2. QED BY <1>1, <1>2, <2>1, StreamAssumption
               DEF HeldOK, QueueOK, LiveOK, Listening
<1>7. ClientOK(c)'
  BY <1>5, <1>6 DEF ClientOK
<1>8. QED BY <1>0, <1>3, <1>4, <1>7, OneClient


-----------------------------------------------------------------------------
(* What a client is given.                                                 *)

(* A connected client is given m tokens from offset base on, after a gap   *)
(* if g is 1, and maybe its end; they go on where it was, if it has tokens *)
(* of this Stream or none at all.                                          *)
Handed(c, g, m, base) ==
    LET n == Len(seen[c])
    IN  /\ g \in {0, 1} /\ m \in Nat /\ base \in Nat
        /\ n + g + m <= Len(seen'[c])
        /\ \A k \in 1..n : seen'[c][k] = seen[c][k]
        /\ \A k \in n + 1 .. Len(seen'[c]) :
              IsToken(seen'[c][k]) => k \in n + g + 1 .. n + g + m
        /\ \A k \in n + g + 1 .. n + g + m :
              seen'[c][k] = Token(reader[c].stream, base + (k - (n + g + 1)))
        /\ g = 1 => seen'[c][n + 1] = Signal("gap")
        /\ m > 0 => base + m <= Mine(c).next
        /\ m > 0 /\ Home(c) => IF g = 0 THEN base = resume[c] ELSE base > resume[c]
        /\ resume'[c] = IF m > 0 THEN base + m ELSE resume[c]
        /\ reader[c].pc # "idle" /\ reader'[c].pc # "idle"
        /\ reader'[c].stream = reader[c].stream
        /\ UNCHANGED <<streams, current>>

(* The tokens a client has then.                                           *)
LEMMA HandedTokens ==
    ASSUME Typed, Typed', NEW c \in Client, NEW g, NEW m, NEW base, Handed(c, g, m, base),
           NEW n, n = Len(seen[c]), NEW mine, mine = reader[c].stream,
           NEW was, was = seen[c], NEW now, now = seen'[c]
    PROVE  /\ g \in {0, 1} /\ m \in Nat /\ base \in Nat /\ n \in Nat
           /\ mine \in Nat /\ Len(now) \in Nat /\ n + g + m <= Len(now)
           /\ \A k \in 1..n : k \in 1..Len(now) /\ now[k] = was[k]
           /\ \A k \in n + g + 1 .. n + g + m :
                 /\ k \in 1..Len(now) /\ IsToken(now[k]) /\ now[k].stream = mine
                 /\ now[k].offset = base + (k - (n + g + 1))
           /\ \A k \in 1..Len(now) : IsToken(now[k]) =>
                 \/ k \in 1..n /\ IsToken(was[k])
                 \/ k \in n + g + 1 .. n + g + m
           /\ \A k \in 1..n : was[k].stream \in Nat /\ was[k].offset \in Nat
           /\ \A k \in 1..Len(now) : now[k].stream \in Nat /\ now[k].offset \in Nat
<1>1. /\ n \in Nat /\ mine \in Nat
      /\ \A k \in 1..n : was[k].stream \in Nat /\ was[k].offset \in Nat
  BY ClientTypes
<1>2. /\ Len(now) \in Nat
      /\ \A k \in 1..Len(now) : now[k].stream \in Nat /\ now[k].offset \in Nat
  <2>1. now \in Seq(SignalRecord)
    BY DEF Typed
  <2>2. \A k \in 1..Len(now) : now[k] \in SignalRecord
    BY <2>1
  <2>3. QED BY <2>1, <2>2 DEF SignalRecord
<1>3. /\ g \in {0, 1} /\ m \in Nat /\ base \in Nat
      /\ n + g + m <= Len(now)
      /\ \A k \in 1..n : now[k] = was[k]
      /\ \A k \in n + 1 .. Len(now) : IsToken(now[k]) => k \in n + g + 1 .. n + g + m
      /\ \A k \in n + g + 1 .. n + g + m : now[k] = Token(mine, base + (k - (n + g + 1)))
  BY DEF Handed
<1>4. \A k \in 1..n : k \in 1..Len(now) /\ now[k] = was[k]
  BY <1>1, <1>2, <1>3
<1>5. \A k \in n + g + 1 .. n + g + m :
         /\ k \in 1..Len(now) /\ IsToken(now[k]) /\ now[k].stream = mine
         /\ now[k].offset = base + (k - (n + g + 1))
  <2> SUFFICES ASSUME NEW k \in n + g + 1 .. n + g + m
               PROVE  /\ k \in 1..Len(now) /\ IsToken(now[k]) /\ now[k].stream = mine
                      /\ now[k].offset = base + (k - (n + g + 1))
    OBVIOUS
  <2>1. k \in 1..Len(now)
    BY <1>1, <1>2, <1>3
  <2>2. now[k] = Token(mine, base + (k - (n + g + 1)))
    BY <1>3
  <2>3. QED BY <2>1, <2>2 DEF Token, IsToken
<1>6. ASSUME NEW k \in 1..Len(now), IsToken(now[k])
      PROVE  \/ k \in 1..n /\ IsToken(was[k])
             \/ k \in n + g + 1 .. n + g + m
  <2>1. CASE k <= n
    BY <1>1, <1>3, <1>6, <2>1
  <2>2. CASE ~(k <= n)
    <3>1. k \in n + 1 .. Len(now)
      BY <1>1, <1>2, <2>2
    <3>2. QED BY <1>3, <1>6, <3>1
  <2>3. QED BY <2>1, <2>2
<1>7. QED BY <1>1, <1>2, <1>3, <1>4, <1>5, <1>6

LEMMA HandedGiven ==
    ASSUME Typed, Typed', NEW c \in Client, NEW g, NEW m, NEW base, Handed(c, g, m, base),
           HeldOK(c), GivenOK(c)
    PROVE  GivenOK(c)'
<1>n. PICK n : n = Len(seen[c])
  OBVIOUS
<1>i. PICK mine : mine = reader[c].stream
  OBVIOUS
<1>w. PICK was : was = seen[c]
  OBVIOUS
<1>s. PICK now : now = seen'[c]
  OBVIOUS
<1>1. /\ g \in {0, 1} /\ m \in Nat /\ base \in Nat /\ n \in Nat /\ mine \in Nat
      /\ \A k \in 1..n : k \in 1..Len(now) /\ now[k] = was[k]
      /\ \A k \in n + g + 1 .. n + g + m :
            /\ now[k].stream = mine /\ now[k].offset = base + (k - (n + g + 1))
      /\ \A k \in 1..Len(now) : IsToken(now[k]) =>
            \/ k \in 1..n /\ IsToken(was[k])
            \/ k \in n + g + 1 .. n + g + m
  BY <1>n, <1>i, <1>w, <1>s, HandedTokens, SMTT(30)
<1>2. /\ UNCHANGED streams /\ reader[c].pc # "idle" /\ reader'[c].stream = mine
      /\ m > 0 => base + m <= streams[mine].next
  BY <1>i DEF Handed, Mine
<1>3. mine \in 1..Len(streams) /\ streams[mine].next \in Nat
  BY <1>2, <1>i, StreamTypes DEF HeldOK
<1> SUFFICES ASSUME NEW k \in 1..Len(now), IsToken(now[k])
             PROVE  /\ now[k].stream \in 1..Len(streams)
                    /\ now[k].offset < streams[now[k].stream].next
                    /\ now[k].stream <= mine
  BY <1>2, <1>s DEF GivenOK
<1>4. CASE k \in 1..n /\ IsToken(was[k])
  <2>1. now[k] = was[k]
    BY <1>1, <1>4
  <2>2. /\ was[k].stream \in 1..Len(streams)
        /\ was[k].offset < streams[was[k].stream].next
        /\ was[k].stream <= mine
    BY <1>2, <1>4, <1>n, <1>i, <1>w DEF GivenOK
  <2>3. QED BY <2>1, <2>2
<1>5. CASE k \in n + g + 1 .. n + g + m
  <2>1. now[k].stream = mine /\ now[k].offset = base + (k - (n + g + 1))
    BY <1>1, <1>5
  <2>2. m > 0 /\ base + (k - (n + g + 1)) < base + m
    BY <1>1, <1>5
  <2>3. base + (k - (n + g + 1)) < streams[mine].next
    BY <1>1, <1>2, <1>3, <1>5, <2>2
  <2>4. QED BY <1>1, <1>3, <2>1, <2>3
<1>6. QED BY <1>1, <1>4, <1>5

LEMMA HandedResume ==
    ASSUME Typed, Typed', NEW c \in Client, NEW g, NEW m, NEW base, Handed(c, g, m, base),
           HeldOK(c), GivenOK(c), ResumeOK(c)
    PROVE  ResumeOK(c)'
<1>n. PICK n : n = Len(seen[c])
  OBVIOUS
<1>i. PICK mine : mine = reader[c].stream
  OBVIOUS
<1>w. PICK was : was = seen[c]
  OBVIOUS
<1>s. PICK now : now = seen'[c]
  OBVIOUS
<1>1. /\ g \in {0, 1} /\ m \in Nat /\ base \in Nat /\ n \in Nat /\ mine \in Nat
      /\ Len(now) \in Nat
      /\ \A k \in 1..n : k \in 1..Len(now) /\ now[k] = was[k]
      /\ \A k \in n + g + 1 .. n + g + m :
            /\ k \in 1..Len(now) /\ IsToken(now[k]) /\ now[k].stream = mine
            /\ now[k].offset = base + (k - (n + g + 1))
      /\ \A k \in 1..Len(now) : IsToken(now[k]) =>
            \/ k \in 1..n /\ IsToken(was[k])
            \/ k \in n + g + 1 .. n + g + m
      /\ \A k \in 1..n : was[k].stream \in Nat /\ was[k].offset \in Nat
  BY <1>n, <1>i, <1>w, <1>s, HandedTokens, SMTT(30)
<1>2. /\ UNCHANGED streams /\ reader[c].pc # "idle" /\ reader'[c].stream = mine
      /\ m > 0 => base + m <= streams[mine].next
      /\ m > 0 /\ Home(c) => base >= resume[c]
      /\ resume'[c] = IF m > 0 THEN base + m ELSE resume[c]
      /\ resume[c] \in Nat
  <2>1. resume[c] \in Nat
    BY ClientTypes
  <2>2. m > 0 /\ Home(c) => base = resume[c] \/ base > resume[c]
    BY DEF Handed
  <2>3. QED BY <1>1, <1>i, <2>1, <2>2 DEF Handed, Mine
<1>3. mine \in 1..Len(streams) /\ streams[mine].next \in Nat
  BY <1>2, <1>i, StreamTypes DEF HeldOK
<1>4. \A k \in 1..Len(now) : IsToken(now[k]) => now[k].stream <= mine
  <2>1. GivenOK(c)'
    BY HandedGiven
  <2>2. reader'[c].pc # "idle"
    BY DEF Handed
  <2>3. QED BY <1>2, <1>s, <2>1, <2>2 DEF GivenOK
<1>5. (\A k \in 1..Len(now) : ~IsToken(now[k])) => resume'[c] = 0
  <2> SUFFICES ASSUME \A k \in 1..Len(now) : ~IsToken(now[k])
               PROVE  resume'[c] = 0
    OBVIOUS
  <2>1. m = 0
    <3> SUFFICES ASSUME m > 0 PROVE FALSE
      BY <1>1
    <3>1. n + g + 1 \in n + g + 1 .. n + g + m
      BY <1>1
    <3>2. QED BY <1>1, <3>1
  <2>2. \A k \in 1..n : ~IsToken(was[k])
    BY <1>1
  <2>3. resume[c] = 0
    BY <1>n, <1>w, <2>2 DEF ResumeOK
  <2>4. QED BY <1>2, <2>1, <2>3
<1>6. ASSUME NEW k \in 1..Len(now), IsToken(now[k]),
             \A j \in k + 1 .. Len(now) : ~IsToken(now[j])
      PROVE  resume'[c] = now[k].offset + 1
  <2>1. CASE m > 0
    <3>1. n + g + m \in n + g + 1 .. n + g + m
      BY <1>1, <2>1
    <3>2. n + g + m \in 1..Len(now) /\ IsToken(now[n + g + m])
          /\ now[n + g + m].offset = base + (n + g + m - (n + g + 1))
      BY <1>1, <3>1
    <3>3. ~(n + g + m > k)
      BY <1>1, <1>6, <3>2
    <3>4. k = n + g + m
      BY <1>1, <1>6, <3>2, <3>3
    <3>5. QED BY <1>1, <1>2, <2>1, <3>2, <3>4
  <2>2. CASE m = 0
    <3>1. k \in 1..n /\ IsToken(was[k])
      BY <1>1, <1>6, <2>2
    <3>2. \A j \in k + 1 .. n : ~IsToken(was[j])
      <4> SUFFICES ASSUME NEW j \in k + 1 .. n PROVE ~IsToken(was[j])
        OBVIOUS
      <4>1. j \in 1..n
        BY <1>1, <3>1
      <4>2. j \in 1..Len(now) /\ now[j] = was[j]
        BY <1>1, <4>1
      <4>3. j \in k + 1 .. Len(now)
        BY <1>1, <4>2
      <4>4. QED BY <1>6, <4>2, <4>3
    <3>3. resume[c] = was[k].offset + 1
      BY <1>n, <1>w, <3>1, <3>2 DEF ResumeOK
    <3>4. QED BY <1>1, <1>2, <2>2, <3>1, <3>3
  <2>3. QED BY <1>1, <2>1, <2>2
<1>7. ASSUME NEW k \in 1..Len(now), IsToken(now[k]),
             \A j \in 1..Len(now) : IsToken(now[j]) => now[j].stream <= now[k].stream
      PROVE  now[k].offset < resume'[c] /\ resume'[c] <= streams[now[k].stream].next
  <2>1. ASSUME k \in 1..n, IsToken(was[k])
        PROVE  was[k].offset < resume[c] /\ resume[c] <= streams[was[k].stream].next
    <3>1. now[k] = was[k]
      BY <1>1, <2>1
    <3>2. \A j \in 1..n : IsToken(was[j]) => was[j].stream <= was[k].stream
      BY <1>1, <1>7, <3>1
    <3>3. QED BY <1>n, <1>w, <2>1, <3>2 DEF ResumeOK
  <2>2. CASE m > 0
    <3>1. n + g + 1 \in n + g + 1 .. n + g + m
      BY <1>1, <2>2
    <3>2. mine <= now[k].stream
      BY <1>1, <1>7, <3>1
    <3>3. CASE k \in n + g + 1 .. n + g + m
      <4>1. now[k].stream = mine /\ now[k].offset = base + (k - (n + g + 1))
        BY <1>1, <3>3
      <4>2. base + (k - (n + g + 1)) < base + m
        BY <1>1, <3>3
      <4>3. QED BY <1>2, <2>2, <4>1, <4>2
    <3>4. CASE k \in 1..n /\ IsToken(was[k])
      <4>1. now[k] = was[k] /\ was[k].stream \in Nat /\ was[k].offset \in Nat
        BY <1>1, <3>4
      <4>2. was[k].stream = mine
        BY <1>1, <1>4, <1>7, <3>2, <4>1
      <4>3. Home(c)
        BY <1>n, <1>w, <1>i, <3>4, <4>2 DEF Home
      <4>4. was[k].offset < resume[c] /\ resume[c] <= base
        BY <1>1, <1>2, <2>1, <2>2, <3>4, <4>3
      <4>5. was[k].offset < base + m
        BY <1>1, <1>2, <2>2, <4>1, <4>4
      <4>6. QED BY <1>2, <2>2, <4>1, <4>2, <4>5
    <3>5. QED BY <1>1, <1>7, <3>3, <3>4
  <2>3. CASE m = 0
    <3>1. k \in 1..n /\ IsToken(was[k])
      BY <1>1, <1>7, <2>3
    <3>2. now[k] = was[k] /\ resume'[c] = resume[c]
      BY <1>1, <1>2, <2>3, <3>1
    <3>3. QED BY <2>1, <3>1, <3>2
  <2>4. QED BY <1>1, <2>2, <2>3
<1>8. QED BY <1>2, <1>s, <1>5, <1>6, <1>7 DEF ResumeOK


LEMMA HandedExact ==
    ASSUME Typed, Typed', NEW c \in Client, NEW g, NEW m, NEW base, Handed(c, g, m, base),
           HeldOK(c), GivenOK(c), ResumeOK(c), ExactOK(c)
    PROVE  ExactOK(c)'
<1>n. PICK n : n = Len(seen[c])
  OBVIOUS
<1>i. PICK mine : mine = reader[c].stream
  OBVIOUS
<1>w. PICK was : was = seen[c]
  OBVIOUS
<1>s. PICK now : now = seen'[c]
  OBVIOUS
<1> DEFINE Due(j, offset) ==
             \/ now[j].offset = offset
             \/ /\ now[j].offset > offset
                /\ j > 1 /\ now[j - 1] = Signal("gap")
<1>1. /\ g \in {0, 1} /\ m \in Nat /\ base \in Nat /\ n \in Nat /\ mine \in Nat
      /\ Len(now) \in Nat
      /\ \A k \in 1..n : k \in 1..Len(now) /\ now[k] = was[k]
      /\ \A k \in n + g + 1 .. n + g + m :
            /\ k \in 1..Len(now) /\ IsToken(now[k]) /\ now[k].stream = mine
            /\ now[k].offset = base + (k - (n + g + 1))
      /\ \A k \in 1..Len(now) : IsToken(now[k]) =>
            \/ k \in 1..n /\ IsToken(was[k])
            \/ k \in n + g + 1 .. n + g + m
  BY <1>n, <1>i, <1>w, <1>s, HandedTokens, SMTT(30)
<1>2. /\ g = 1 => now[n + 1] = Signal("gap")
      /\ m > 0 /\ Home(c) => IF g = 0 THEN base = resume[c] ELSE base > resume[c]
      /\ resume[c] \in Nat
  BY <1>n, <1>s, ClientTypes DEF Handed
(* The first of the tokens is due where the client was.                    *)
<1>3. ASSUME m > 0, Home(c)
      PROVE  Due(n + g + 1, resume[c])
  <2>j. PICK j : j = n + g + 1
    OBVIOUS
  <2>1. j \in n + g + 1 .. n + g + m /\ j \in Nat
    BY <1>1, <1>3, <2>j
  <2>2. now[j].offset = base
    <3>1. now[j].offset = base + (j - (n + g + 1))
      BY <1>1, <2>1
    <3>2. QED BY <1>1, <2>j, <3>1
  <2>3. CASE g = 0
    <3>1. base = resume[c]
      BY <1>2, <1>3, <2>3
    <3>2. QED BY <2>j, <2>2, <3>1
  <2>4. CASE g = 1
    <3>1. base > resume[c]
      BY <1>2, <1>3, <2>4
    <3>2. j > 1 /\ j - 1 = n + 1
      BY <1>1, <2>j, <2>4
    <3>3. now[j - 1] = Signal("gap")
      BY <1>2, <2>4, <3>2
    <3>4. Due(j, resume[c])
      BY <2>2, <3>1, <3>2, <3>3
    <3>5. QED BY <2>j, <3>4
  <2>5. QED BY <1>1, <2>3, <2>4
<1>4. ASSUME NEW j \in 1..Len(now), IsToken(now[j]),
             \A k \in 1 .. j - 1 : ~IsToken(now[k])
      PROVE  Due(j, 0)
  <2>1. CASE j \in 1..n
    <3>1. /\ IsToken(was[j]) /\ now[j] = was[j]
          /\ \A k \in 1 .. j - 1 : ~IsToken(was[k]) /\ now[k] = was[k]
      <4>1. \A k \in 1 .. j - 1 : k \in 1..n
        BY <1>1, <2>1
      <4>2. QED BY <1>1, <1>4, <2>1, <4>1
    <3>2. Expected(c, j, 0)
      BY <1>n, <1>w, <2>1, <3>1 DEF ExactOK
    <3>3. j > 1 => now[j - 1] = was[j - 1]
      BY <1>1, <2>1, <3>1
    <3>4. QED BY <1>w, <3>1, <3>2, <3>3 DEF Expected
  <2>2. CASE j \in n + g + 1 .. n + g + m
    <3>1. m > 0 /\ n + g + 1 \in n + g + 1 .. n + g + m
      BY <1>1, <2>2
    <3>2. j = n + g + 1
      <4>1. ~(n + g + 1 \in 1 .. j - 1)
        BY <1>1, <1>4, <3>1
      <4>2. QED BY <1>1, <2>2, <4>1
    <3>3. \A k \in 1..n : ~IsToken(was[k])
      <4> SUFFICES ASSUME NEW k \in 1..n PROVE ~IsToken(was[k])
        OBVIOUS
      <4>1. k \in 1 .. j - 1 /\ now[k] = was[k]
        BY <1>1, <3>2
      <4>2. QED BY <1>4, <4>1
    <3>4. Home(c) /\ resume[c] = 0
      BY <1>n, <1>w, <3>3 DEF Home, ResumeOK
    <3>5. QED BY <1>3, <3>1, <3>2, <3>4
  <2>3. QED BY <1>1, <1>4, <2>1, <2>2
<1>5. ASSUME NEW j \in 1..Len(now), NEW i \in 1 .. j - 1,
             IsToken(now[i]), IsToken(now[j]),
             \A k \in i + 1 .. j - 1 : ~IsToken(now[k]),
             now[i].stream = now[j].stream
      PROVE  Due(j, now[i].offset + 1)
  <2>1. CASE j \in 1..n
    <3>1. i \in 1..n
      BY <1>1, <2>1
    <3>2. \A k \in i + 1 .. j - 1 : ~IsToken(was[k])
      <4>1. \A k \in i + 1 .. j - 1 : k \in 1..n
        BY <1>1, <2>1, <3>1
      <4>2. QED BY <1>1, <1>5, <4>1
    <3>3. now[i] = was[i] /\ now[j] = was[j]
      BY <1>1, <2>1, <3>1
    <3>4. Consecutive(c, i, j)
      BY <1>5, <1>w, <3>2, <3>3 DEF Consecutive
    <3>5. Expected(c, j, was[i].offset + 1)
      BY <1>5, <1>n, <1>w, <2>1, <3>3, <3>4 DEF ExactOK
    <3>6. j > 1 => now[j - 1] = was[j - 1]
      BY <1>1, <2>1
    <3>7. QED BY <1>w, <3>3, <3>5, <3>6 DEF Expected
  <2>2. CASE j \in n + g + 1 .. n + g + m /\ i \in 1..n
    <3>1. m > 0 /\ n + g + 1 \in n + g + 1 .. n + g + m
      BY <1>1, <2>2
    <3>2. j = n + g + 1
      <4>1. ~(n + g + 1 \in i + 1 .. j - 1)
        BY <1>1, <1>5, <3>1
      <4>2. QED BY <1>1, <2>2, <4>1
    <3>3. now[i] = was[i] /\ now[j].stream = mine
      BY <1>1, <2>2
    <3>4. \A k \in i + 1 .. n : ~IsToken(was[k])
      <4> SUFFICES ASSUME NEW k \in i + 1 .. n PROVE ~IsToken(was[k])
        OBVIOUS
      <4>1. k \in 1..n /\ k \in i + 1 .. j - 1
        BY <1>1, <2>2, <3>2
      <4>2. now[k] = was[k] /\ ~IsToken(now[k])
        BY <1>1, <1>5, <4>1
      <4>3. QED BY <4>2
    <3>5. Home(c)
      BY <1>5, <1>n, <1>i, <1>w, <2>2, <3>3 DEF Home
    <3>6. resume[c] = was[i].offset + 1
      BY <1>5, <1>n, <1>w, <2>2, <3>3, <3>4 DEF ResumeOK
    <3>7. QED BY <1>3, <3>1, <3>2, <3>3, <3>5, <3>6
  <2>3. CASE j \in n + g + 1 .. n + g + m /\ i \in n + g + 1 .. n + g + m
    <3>1. i + 1 \in n + g + 1 .. n + g + m
      BY <1>1, <2>3
    <3>2. j = i + 1
      <4>1. ~(i + 1 \in i + 1 .. j - 1)
        BY <1>1, <1>5, <3>1
      <4>2. QED BY <1>1, <2>3, <4>1
    <3>3. now[j].offset = base + (j - (n + g + 1)) /\ now[i].offset = base + (i - (n + g + 1))
      BY <1>1, <2>3
    <3>4. now[j].offset = now[i].offset + 1
      BY <1>1, <2>3, <3>2, <3>3
    <3>5. QED BY <3>4
  <2>4. i \in 1..Len(now)
    BY <1>1
  <2>5. QED BY <1>1, <1>5, <2>1, <2>2, <2>3, <2>4
<1>6. \A j \in 1..Len(now) :
         /\ IsToken(now[j]) /\ (\A k \in 1 .. j - 1 : ~IsToken(now[k])) => Due(j, 0)
         /\ \A i \in 1 .. j - 1 :
               /\ IsToken(now[i]) /\ IsToken(now[j])
               /\ \A k \in i + 1 .. j - 1 : ~IsToken(now[k])
               /\ now[i].stream = now[j].stream
               => Due(j, now[i].offset + 1)
  BY <1>4, <1>5
<1>7. QED BY <1>s, <1>6 DEF ExactOK, Expected, Consecutive


-----------------------------------------------------------------------------
(* The snapshot.                                                           *)

LEMMA Concatenated ==
    ASSUME NEW S, NEW a \in Seq(S), NEW b \in Seq(S)
    PROVE  /\ a \o b \in Seq(S) /\ Len(a \o b) = Len(a) + Len(b)
           /\ \A k \in 1..Len(a) : (a \o b)[k] = a[k]
           /\ \A k \in Len(a) + 1 .. Len(a) + Len(b) : (a \o b)[k] = b[k - Len(a)]
OBVIOUS

LEMMA Singleton ==
    ASSUME NEW S, NEW x \in S
    PROVE  <<x>> \in Seq(S) /\ Len(<<x>>) = 1 /\ <<x>>[1] = x
OBVIOUS

(* What a snapshot of a Stream s holds, from an offset on.                 *)
SnapshotOf(snapshot, stream, s, from, g, m, base, e) ==
    /\ g = IF from < s.first THEN 1 ELSE 0
    /\ e = IF s.terminal = "open" THEN 0 ELSE 1
    /\ base \in Nat /\ IF g = 0 THEN base = from ELSE base > from
    /\ m \in Nat /\ (m > 0 <=> from < s.next)
    /\ m > 0 => base + m = s.next
    /\ snapshot \in Seq(SignalRecord) /\ Len(snapshot) = g + m + e
    /\ g = 1 => snapshot[1] = Signal("gap")
    /\ \A k \in g + 1 .. g + m : snapshot[k] = Token(stream, base + (k - (g + 1)))
    /\ e = 1 => snapshot[g + m + 1] = Signal(s.terminal)

LEMMA SnapshotFacts ==
    ASSUME NEW stream \in Nat, NEW s \in StreamRecord, StreamOK(s), s = streams[stream],
           NEW from \in Nat, NEW snapshot, snapshot = Snapshot(stream, from)
    PROVE  \E g, m, base, e : SnapshotOf(snapshot, stream, s, from, g, m, base, e)
<1>g. PICK g : g = IF from < s.first THEN 1 ELSE 0
  OBVIOUS
<1>b. PICK base : base = IF from < s.first THEN s.first ELSE from
  OBVIOUS
<1>m. PICK m : m = IF base < s.next THEN s.next - base ELSE 0
  OBVIOUS
<1>e. PICK e : e = IF s.terminal = "open" THEN 0 ELSE 1
  OBVIOUS
<1>1. /\ s.first \in Nat /\ s.next \in Nat /\ s.terminal \in Terminal \cup {"open"}
      /\ s.first = IF s.next > MaxBuffer THEN s.next - MaxBuffer ELSE 0
      /\ MaxBuffer \in Nat \ {0}
  BY StreamAssumption DEF StreamRecord, StreamOK
<1>2. /\ base \in Nat /\ m \in Nat /\ g \in {0, 1} /\ e \in {0, 1}
      /\ m > 0 <=> from < s.next
      /\ m > 0 => base + m = s.next
      /\ IF g = 0 THEN base = from ELSE base > from
  <2>1. base \in Nat /\ g \in {0, 1} /\ e \in {0, 1}
        /\ IF g = 0 THEN base = from ELSE base > from
    BY <1>1, <1>g, <1>b, <1>e
  <2>2. m \in Nat /\ (m > 0 => base + m = s.next)
    BY <1>1, <1>m, <2>1
  <2>3. m > 0 <=> from < s.next
    BY <1>1, <1>b, <1>m
  <2>4. QED BY <2>1, <2>2, <2>3
<1>3. PICK gap : gap = IF from < s.first THEN <<Signal("gap")>> ELSE <<>>
  OBVIOUS
<1>4. PICK tokens : tokens = Retained(stream, base)
  OBVIOUS
<1>5. PICK end : end = EndOf(s)
  OBVIOUS
<1>6. snapshot = gap \o tokens \o end
  BY <1>3, <1>4, <1>5, <1>b DEF Snapshot
<1>7. /\ gap \in Seq(SignalRecord) /\ Len(gap) = g
      /\ g = 1 => gap[1] = Signal("gap")
  <2>1. Signal("gap") \in SignalRecord
    BY DEF Signal, SignalRecord
  <2>2. CASE from < s.first
    <3>1. gap = <<Signal("gap")>> /\ g = 1
      BY <1>3, <1>g, <2>2
    <3>2. QED BY <2>1, <3>1, Singleton
  <2>3. CASE ~(from < s.first)
    <3>1. gap = <<>> /\ g = 0
      BY <1>3, <1>g, <2>3
    <3>2. QED BY <3>1
  <2>4. QED BY <2>2, <2>3
<1>8. /\ tokens \in Seq(SignalRecord) /\ Len(tokens) = m
      /\ \A k \in 1..m : tokens[k] = Token(stream, base + (k - 1))
  <2>1. tokens = [k \in 1..m |-> Token(stream, base + k - 1)]
    BY <1>4, <1>m DEF Retained
  <2>2. m \in Nat /\ base \in Nat
    BY <1>2
  <2>3. ASSUME NEW k \in 1..m
        PROVE  /\ Token(stream, base + k - 1) \in SignalRecord
               /\ tokens[k] = Token(stream, base + (k - 1))
    <3>1. base + k - 1 = base + (k - 1) /\ base + k - 1 \in Nat
      BY <2>2
    <3>2. tokens[k] = Token(stream, base + k - 1)
      BY <2>1
    <3>3. QED BY <3>1, <3>2 DEF Token, SignalRecord
  <2>4. tokens \in [1..m -> SignalRecord]
    BY <2>1, <2>3
  <2>5. tokens \in Seq(SignalRecord) /\ Len(tokens) = m
    BY <2>2, <2>4
  <2>6. QED BY <2>3, <2>5
<1>9. /\ end \in Seq(SignalRecord) /\ Len(end) = e
      /\ e = 1 => end[1] = Signal(s.terminal)
  <2>1. CASE s.terminal = "open"
    BY <1>5, <1>e, <2>1 DEF EndOf
  <2>2. CASE s.terminal # "open"
    <3>1. Signal(s.terminal) \in SignalRecord
      BY <1>1, <2>2 DEF Signal, SignalRecord
    <3>2. end = <<Signal(s.terminal)>> /\ e = 1
      BY <1>5, <1>e, <2>2 DEF EndOf
    <3>3. QED BY <3>1, <3>2, Singleton
  <2>3. QED BY <2>1, <2>2
<1>10. PICK front : front = gap \o tokens
  OBVIOUS
<1>11. /\ front \in Seq(SignalRecord) /\ Len(front) = g + m
       /\ g = 1 => front[1] = Signal("gap")
       /\ \A k \in g + 1 .. g + m : front[k] = Token(stream, base + (k - (g + 1)))
  <2>1. /\ front \in Seq(SignalRecord) /\ Len(front) = g + m
        /\ \A k \in 1..g : front[k] = gap[k]
        /\ \A k \in g + 1 .. g + m : front[k] = tokens[k - g]
    <3>1. /\ front \in Seq(SignalRecord) /\ Len(front) = Len(gap) + Len(tokens)
          /\ \A k \in 1..Len(gap) : front[k] = gap[k]
          /\ \A k \in Len(gap) + 1 .. Len(gap) + Len(tokens) :
                front[k] = tokens[k - Len(gap)]
      BY <1>7, <1>8, <1>10, Concatenated, Zenon
    <3>2. QED BY <1>7, <1>8, <3>1, Zenon
  <2>2. ASSUME NEW k \in g + 1 .. g + m
        PROVE  front[k] = Token(stream, base + (k - (g + 1)))
    <3>1. k - g \in 1..m /\ (k - g) - 1 = k - (g + 1)
      BY <1>2
    <3>2. QED BY <1>8, <2>1, <3>1
  <2>3. QED BY <1>2, <1>7, <2>1, <2>2
<1>12. snapshot = front \o end
  BY <1>6, <1>10
<1>13. /\ snapshot \in Seq(SignalRecord) /\ Len(snapshot) = g + m + e
       /\ \A k \in 1 .. g + m : snapshot[k] = front[k]
       /\ e = 1 => snapshot[g + m + 1] = end[1]
  <2>1. /\ snapshot \in Seq(SignalRecord) /\ Len(snapshot) = (g + m) + e
        /\ \A k \in 1 .. g + m : snapshot[k] = front[k]
        /\ \A k \in g + m + 1 .. (g + m) + e : snapshot[k] = end[k - (g + m)]
    <3>0. front \in Seq(SignalRecord) /\ end \in Seq(SignalRecord)
      BY <1>9, <1>11
    <3>w. PICK whole : whole = front \o end
      OBVIOUS
    <3>1. /\ whole \in Seq(SignalRecord) /\ Len(whole) = Len(front) + Len(end)
          /\ \A k \in 1..Len(front) : whole[k] = front[k]
          /\ \A k \in Len(front) + 1 .. Len(front) + Len(end) :
                whole[k] = end[k - Len(front)]
      BY <3>w, <3>0, Concatenated, Zenon
    <3>2. Len(front) = g + m /\ Len(end) = e
      BY <1>9, <1>11
    <3>3. /\ whole \in Seq(SignalRecord) /\ Len(whole) = (g + m) + e
          /\ \A k \in 1 .. g + m : whole[k] = front[k]
          /\ \A k \in g + m + 1 .. (g + m) + e : whole[k] = end[k - (g + m)]
      BY <3>1, <3>2, Zenon
    <3>4. snapshot = whole
      BY <1>12, <3>w
    <3>5. QED BY <3>3, <3>4
  <2>2. ASSUME e = 1 PROVE snapshot[g + m + 1] = end[1]
    <3>1. PICK k : k = g + m + 1
      OBVIOUS
    <3>2. k \in g + m + 1 .. (g + m) + e /\ k - (g + m) = 1
      BY <1>2, <2>2, <3>1
    <3>3. snapshot[k] = end[k - (g + m)]
      BY <2>1, <3>2
    <3>4. QED BY <3>1, <3>2, <3>3
  <2>3. QED BY <2>1, <2>2
<1>14. /\ g = 1 => snapshot[1] = Signal("gap")
       /\ \A k \in g + 1 .. g + m : snapshot[k] = Token(stream, base + (k - (g + 1)))
  BY <1>2, <1>11, <1>13
<1>15. SnapshotOf(snapshot, stream, s, from, g, m, base, e)
  BY <1>2, <1>9, <1>13, <1>14, <1>g, <1>e DEF SnapshotOf
<1>16. QED BY <1>15


-----------------------------------------------------------------------------
(* The snapshot is handed over.                                            *)

LEMMA ReplayGives ==
    ASSUME IInv, NEW c \in Client, Replay(c)
    PROVE  /\ Typed'
           /\ \E g, m, base : Handed(c, g, m, base)
           /\ Mine(c).terminal # "open" =>
                 seen'[c] # <<>> /\ seen'[c][Len(seen'[c])] = Signal(Mine(c).terminal)
           /\ resume'[c] = IF resume[c] < Mine(c).next THEN Mine(c).next ELSE resume[c]
<1>0. /\ Typed /\ HeldOK(c)
      /\ \A j \in 1..Len(streams) : StreamOK(streams[j])
  BY DEF IInv, ClientOK
<1>i. PICK mine : mine = reader[c].stream
  OBVIOUS
<1>s. PICK s : s = streams[mine]
  OBVIOUS
<1>f. PICK from : from = resume[c]
  OBVIOUS
<1>a. PICK snapshot : snapshot = Snapshot(mine, from)
  OBVIOUS
<1>w. PICK was : was = seen[c]
  OBVIOUS
<1>x. PICK now : now = was \o snapshot
  OBVIOUS
<1>n. PICK n : n = Len(was)
  OBVIOUS
<1>1. /\ mine \in 1..Len(streams) /\ mine \in Nat /\ s \in StreamRecord /\ StreamOK(s)
      /\ s.next \in Nat /\ s.first \in Nat
      /\ from \in Nat /\ was \in Seq(SignalRecord) /\ n \in Nat
      /\ reader[c].pc = "attached"
  <2>1. reader[c].pc = "attached"
    BY DEF Replay
  <2>2. mine \in 1..Len(streams)
    BY <1>0, <1>i, <2>1 DEF HeldOK
  <2>3. s \in StreamRecord /\ StreamOK(s) /\ s.next \in Nat /\ s.first \in Nat
    BY <1>0, <1>s, <2>2, StreamTypes
  <2>4. from \in Nat /\ was \in Seq(SignalRecord) /\ n \in Nat /\ mine \in Nat
    BY <1>0, <1>i, <1>f, <1>w, <1>n, ClientTypes
  <2>5. QED BY <2>1, <2>2, <2>3, <2>4
<1>o. PICK g, m, base, e : SnapshotOf(snapshot, mine, s, from, g, m, base, e)
  BY <1>1, <1>s, <1>a, SnapshotFacts
<1>2. /\ base \in Nat /\ m \in Nat
      /\ m > 0 <=> from < s.next
      /\ m > 0 => base + m = s.next
      /\ snapshot \in Seq(SignalRecord) /\ Len(snapshot) = g + m + e
      /\ g = 1 => snapshot[1] = Signal("gap")
      /\ \A k \in g + 1 .. g + m : snapshot[k] = Token(mine, base + (k - (g + 1)))
      /\ e = 1 => snapshot[g + m + 1] = Signal(s.terminal)
  BY <1>o DEF SnapshotOf
<1>g. IF g = 0 THEN base = from ELSE base > from
  BY <1>o DEF SnapshotOf
<1>3. /\ seen' = [seen EXCEPT ![c] = now]
      /\ resume' = [resume EXCEPT ![c] = IF from < s.next THEN s.next ELSE from]
      /\ reader' = [reader EXCEPT ![c].pc = IF s.terminal = "open" THEN "live" ELSE "ended",
                                  ![c].total = s.next]
      /\ UNCHANGED <<streams, current>>
  <2>1. s.next - 1 + 1 = s.next
    BY <1>1
  <2>2. QED BY <1>1, <1>i, <1>s, <1>f, <1>a, <1>w, <1>x, <2>1 DEF Replay, After
<1>4. /\ now \in Seq(SignalRecord) /\ Len(now) = n + (g + m + e)
      /\ \A k \in 1..n : now[k] = was[k]
      /\ \A k \in n + 1 .. n + (g + m + e) : now[k] = snapshot[k - n]
  <2>1. /\ now \in Seq(SignalRecord) /\ Len(now) = Len(was) + Len(snapshot)
        /\ \A k \in 1..Len(was) : now[k] = was[k]
        /\ \A k \in Len(was) + 1 .. Len(was) + Len(snapshot) : now[k] = snapshot[k - Len(was)]
    <3>1. was \in Seq(SignalRecord) /\ snapshot \in Seq(SignalRecord)
      BY <1>1, <1>2
    <3>2. QED BY <1>x, <3>1, Concatenated, Zenon
  <2>2. Len(was) = n /\ Len(snapshot) = g + m + e
    BY <1>n, <1>2
  <2>3. QED BY <2>1, <2>2, Zenon
<1>5. /\ seen'[c] = now /\ resume'[c] = IF from < s.next THEN s.next ELSE from
      /\ reader'[c].pc # "idle" /\ reader'[c].stream = mine
      /\ reader' \in [Client -> ReaderRecord]
      /\ seen' \in [Client -> Seq(SignalRecord)] /\ resume' \in [Client -> Nat]
  <2>1. /\ seen \in [Client -> Seq(SignalRecord)] /\ resume \in [Client -> Nat]
        /\ reader \in [Client -> ReaderRecord]
    BY <1>0 DEF Typed
  <2>2. seen'[c] = now /\ seen' \in [Client -> Seq(SignalRecord)]
    BY <1>3, <1>4, <2>1
  <2>3. /\ resume'[c] = IF from < s.next THEN s.next ELSE from
        /\ resume' \in [Client -> Nat]
    BY <1>1, <1>3, <2>1
  <2>4. /\ reader'[c].pc # "idle" /\ reader'[c].stream = mine
        /\ reader' \in [Client -> ReaderRecord]
    <3>1. /\ reader[c] \in ReaderRecord /\ reader[c].stream = mine /\ s.next \in Nat
      BY <1>1, <1>i, <2>1
    <3>2. PICK pc : pc = IF s.terminal = "open" THEN "live" ELSE "ended"
      OBVIOUS
    <3>3. pc \in {"live", "ended"}
      BY <3>2
    <3>4. reader' = [reader EXCEPT ![c] = [@ EXCEPT !.pc = pc, !.total = s.next]]
      BY <1>3, <3>2
    <3>5. [reader[c] EXCEPT !.pc = pc, !.total = s.next] \in ReaderRecord
      BY <3>1, <3>3 DEF ReaderRecord
    <3>6. /\ [reader[c] EXCEPT !.pc = pc, !.total = s.next].pc = pc
          /\ [reader[c] EXCEPT !.pc = pc, !.total = s.next].stream = mine
      BY <3>1 DEF ReaderRecord
    <3>7. QED BY <2>1, <3>3, <3>4, <3>5, <3>6
  <2>5. QED BY <2>2, <2>3, <2>4
<1>6. Typed'
  BY <1>0, <1>3, <1>5 DEF Typed
<1>7. g \in {0, 1} /\ e \in {0, 1} /\ (s.terminal # "open" => e = 1)
  BY <1>o DEF SnapshotOf
<1>8. ASSUME NEW k \in n + g + 1 .. n + g + m
      PROVE  now[k] = Token(mine, base + (k - (n + g + 1)))
  <2>1. /\ k \in n + 1 .. n + (g + m + e) /\ k - n \in g + 1 .. g + m
        /\ (k - n) - (g + 1) = k - (n + g + 1)
    BY <1>1, <1>2, <1>7
  <2>2. now[k] = snapshot[k - n]
    BY <1>4, <2>1
  <2>3. snapshot[k - n] = Token(mine, base + ((k - n) - (g + 1)))
    BY <1>2, <2>1
  <2>4. QED BY <2>1, <2>2, <2>3
<1>9. g = 1 => now[n + 1] = Signal("gap")
  <2> SUFFICES ASSUME g = 1 PROVE now[n + 1] = Signal("gap")
    OBVIOUS
  <2>k. PICK k : k = n + 1
    OBVIOUS
  <2>1. k \in n + 1 .. n + (g + m + e) /\ k - n = 1
    BY <1>1, <1>2, <1>7, <2>k
  <2>2. now[k] = snapshot[k - n]
    BY <1>4, <2>1
  <2>3. QED BY <1>2, <2>k, <2>1, <2>2
<1>10. e = 1 => now[Len(now)] = Signal(s.terminal)
  <2> SUFFICES ASSUME e = 1 PROVE now[Len(now)] = Signal(s.terminal)
    OBVIOUS
  <2>1. /\ Len(now) \in n + 1 .. n + (g + m + e)
        /\ Len(now) - n = g + m + 1
    BY <1>1, <1>2, <1>4, <1>7
  <2>2. now[Len(now)] = snapshot[Len(now) - n]
    BY <1>4, <2>1
  <2>3. QED BY <1>2, <2>1, <2>2
<1>11. ASSUME NEW k \in n + 1 .. Len(now), IsToken(now[k])
       PROVE  k \in n + g + 1 .. n + g + m
  <2>1. k # n + 1 \/ g = 0
    BY <1>9, <1>11, <1>7 DEF Signal, IsToken
  <2>2. k # Len(now) \/ e = 0
    <3> SUFFICES ASSUME k = Len(now), e = 1 PROVE FALSE
      BY <1>7
    <3>1. s.terminal # "token"
      BY <1>1 DEF StreamRecord, Terminal
    <3>2. QED BY <1>10, <1>11, <3>1 DEF Signal, IsToken
  <2>3. QED BY <1>1, <1>2, <1>4, <1>7, <2>1, <2>2
<1>12. Handed(c, g, m, base)
  <2>1. m > 0 => base + m <= Mine(c).next
    BY <1>1, <1>2, <1>i, <1>s DEF Mine
  <2>2. IF g = 0 THEN base = from ELSE base > from
    BY <1>g
  <2>3. resume'[c] = IF m > 0 THEN base + m ELSE from
    BY <1>1, <1>2, <1>5
  <2>4. n + g + m <= Len(now)
    BY <1>1, <1>2, <1>4, <1>7
  <2>5. QED BY <1>1, <1>2, <1>3, <1>4, <1>5, <1>7, <1>8, <1>9, <1>11, <1>i, <1>f, <1>w, <1>n,
               <2>1, <2>2, <2>3, <2>4 DEF Handed
<1>13. Mine(c).terminal # "open" =>
          seen'[c] # <<>> /\ seen'[c][Len(seen'[c])] = Signal(Mine(c).terminal)
  <2> SUFFICES ASSUME s.terminal # "open"
               PROVE  now # <<>> /\ now[Len(now)] = Signal(s.terminal)
    BY <1>5, <1>i, <1>s DEF Mine
  <2>1. e = 1
    BY <1>7
  <2>2. Len(now) > 0
    BY <1>1, <1>2, <1>4, <1>7, <2>1
  <2>3. QED BY <1>10, <2>1, <2>2
<1>14. resume'[c] = IF resume[c] < Mine(c).next THEN Mine(c).next ELSE resume[c]
  BY <1>5, <1>f, <1>i, <1>s DEF Mine
<1>15. QED BY <1>6, <1>12, <1>13, <1>14


LEMMA HandedKeeps ==
    ASSUME IInv, Typed', NEW c \in Client,
           \E g, m, base : Handed(c, g, m, base),
           HeldOK(c)', QueueOK(c)', LiveOK(c)', EndOK(c)',
           \A d \in Client \ {c} :
              reader'[d] = reader[d] /\ seen'[d] = seen[d] /\ resume'[d] = resume[d]
    PROVE  IInv'
<1>1. /\ Typed /\ \A j \in 1..Len(streams) : StreamOK(streams[j])
      /\ HeldOK(c) /\ GivenOK(c) /\ ResumeOK(c) /\ ExactOK(c)
  BY DEF IInv, ClientOK
<1>2. PICK g, m, base : Handed(c, g, m, base)
  OBVIOUS
<1>3. GivenOK(c)' /\ ResumeOK(c)' /\ ExactOK(c)'
  BY <1>1, <1>2, HandedGiven, HandedResume, HandedExact
<1>4. ClientOK(c)'
  BY <1>3 DEF ClientOK
<1>5. UNCHANGED streams
  BY <1>2 DEF Handed
<1>6. Grown
  BY <1>1, <1>5, GrownStays
<1>7. QED BY <1>1, <1>4, <1>5, <1>6, OneClient

LEMMA ReplayKeeps == ASSUME IInv, NEW c \in Client, Replay(c) PROVE IInv'
<1>0. /\ Typed /\ HeldOK(c) /\ QueueOK(c) /\ GivenOK(c) /\ ResumeOK(c)
      /\ \A j \in 1..Len(streams) : StreamOK(streams[j])
  BY DEF IInv, ClientOK
<1>i. PICK mine : mine = reader[c].stream
  OBVIOUS
<1>q. PICK q : q = reader[c].queue
  OBVIOUS
<1>s. PICK s : s = streams[mine]
  OBVIOUS
<1>1. /\ Typed' /\ \E g, m, base : Handed(c, g, m, base)
      /\ s.terminal # "open" =>
            seen'[c] # <<>> /\ seen'[c][Len(seen'[c])] = Signal(s.terminal)
      /\ resume'[c] = IF resume[c] < s.next THEN s.next ELSE resume[c]
  BY <1>i, <1>s, ReplayGives DEF Mine
<1>2. /\ reader[c].pc = "attached"
      /\ reader' = [reader EXCEPT ![c].pc = IF s.terminal = "open" THEN "live" ELSE "ended",
                                  ![c].total = s.next]
      /\ UNCHANGED <<streams, current>>
      /\ \A d \in Client \ {c} : seen'[d] = seen[d] /\ resume'[d] = resume[d]
  BY <1>0, <1>i, <1>s DEF Replay, Typed
<1>3. /\ reader'[c].pc = IF s.terminal = "open" THEN "live" ELSE "ended"
      /\ reader'[c].total = s.next /\ reader'[c].stream = mine
      /\ reader'[c].queue = q /\ reader'[c].lagged = reader[c].lagged
      /\ \A d \in Client \ {c} : reader'[d] = reader[d]
  <2>1. reader \in [Client -> ReaderRecord] /\ reader[c] \in ReaderRecord
    BY <1>0 DEF Typed
  <2>2. QED BY <1>2, <1>i, <1>q, <2>1 DEF ReaderRecord
<1>4. /\ mine \in 1..Len(streams) /\ s.next \in Nat /\ s.ended_at \in Nat
      /\ s.ended_at <= s.next /\ StreamOK(s)
      /\ resume[c] \in Nat /\ q \in Seq(SignalRecord)
      /\ Len(q) <= ChannelSize /\ Unbroken(q, mine)
  <2>1. /\ mine \in 1..Len(streams) /\ Len(q) <= ChannelSize /\ Unbroken(q, mine)
    BY <1>0, <1>2, <1>i, <1>q DEF HeldOK, QueueOK, Listening
  <2>2. s.next \in Nat /\ s.ended_at \in Nat /\ StreamOK(s)
    BY <1>0, <1>s, <2>1, StreamTypes
  <2>3. QED BY <1>0, <1>q, <2>1, <2>2, ClientTypes DEF StreamOK
<1>5. resume'[c] >= s.next
  BY <1>1, <1>4
<1>6. HeldOK(c)'
  BY <1>2, <1>3, <1>4, <1>s DEF HeldOK, Mine
<1>7. QueueOK(c)'
  <2>1. Grown
    BY <1>0, <1>2, GrownStays
  <2>2. Unbroken(q, mine)'
    BY <1>0, <1>1, <1>2, <1>4, <2>1, UnbrokenStays
  <2>3. QED BY <1>3, <2>2 DEF QueueOK
<1>8. EndOK(c)'
  <2> SUFFICES ASSUME reader'[c].pc = "ended" PROVE EndOK(c)'
    BY DEF EndOK
  <2>1. s.terminal # "open" /\ Mine(c)' = s
    BY <1>2, <1>3, <1>s DEF Mine
  <2>2. resume'[c] >= s.ended_at
    BY <1>1, <1>4, <1>5
  <2>3. QED BY <1>1, <2>1, <2>2 DEF EndOK
(* Only what the client had already can be behind the Stream's end.        *)
<1>9. Home(c)' => resume'[c] = s.next
  <2> SUFFICES ASSUME Home(c)', ~(resume[c] < s.next) PROVE resume[c] = s.next
    BY <1>1
  <2>1. ResumeOK(c)' /\ GivenOK(c)'
    BY <1>0, <1>1, HandedGiven, HandedResume
  <2>2. CASE \A k \in 1..Len(seen'[c]) : ~IsToken(seen'[c][k])
    <3>1. resume'[c] = 0
      BY <2>1, <2>2 DEF ResumeOK
    <3>2. QED BY <1>1, <1>4, <3>1
  <2>3. CASE ~\A k \in 1..Len(seen'[c]) : ~IsToken(seen'[c][k])
    <3>1. PICK k \in 1..Len(seen'[c]) :
             IsToken(seen'[c][k]) /\ seen'[c][k].stream = mine
      BY <1>3, <2>3 DEF Home
    <3>2. \A j \in 1..Len(seen'[c]) :
             IsToken(seen'[c][j]) => seen'[c][j].stream <= seen'[c][k].stream
      <4>1. reader'[c].pc # "idle"
        BY <1>3
      <4>2. QED BY <1>3, <2>1, <3>1, <4>1 DEF GivenOK
    <3>3. resume'[c] <= streams'[mine].next
      BY <2>1, <3>1, <3>2 DEF ResumeOK
    <3>4. QED BY <1>1, <1>2, <1>4, <1>s, <3>3
  <2>4. QED BY <2>2, <2>3
<1>10. LiveOK(c)'
  <2>1. PICK p : p = Position(c)'
    OBVIOUS
  <2>2. p \in Nat /\ p <= s.next
    <3>1. CASE q = <<>>
      BY <1>2, <1>3, <1>4, <1>s, <2>1, <3>1 DEF Position, Mine
    <3>2. CASE q # <<>>
      <4>1. q[1] \in SignalRecord /\ Sent(q[1], mine)
        <5>1. 1 \in 1..Len(q)
          BY <1>4, <3>2
        <5>2. QED BY <1>4, <5>1 DEF Unbroken
      <4>2. Before(q[1], mine) \in Nat /\ Before(q[1], mine) <= s.next
        BY <1>0, <1>4, <1>s, <4>1, SentBounds
      <4>3. p = Before(q[1], mine)
        BY <1>2, <1>3, <2>1, <3>2 DEF Position, Before
      <4>4. QED BY <4>2, <4>3
    <3>3. QED BY <3>1, <3>2
  <2>3. resume'[c] \in Nat
    BY <1>1, <1>4
  <2>4. resume'[c] >= p /\ resume'[c] >= s.next
    BY <1>4, <1>5, <2>2, <2>3
  <2>5. QED BY <1>3, <1>9, <2>1, <2>4 DEF LiveOK
<1>11. QED BY <1>1, <1>2, <1>3, <1>6, <1>7, <1>8, <1>10, HandedKeeps


-----------------------------------------------------------------------------
(* A signal is received.                                                   *)

(* Behind the first of what waits comes the rest of it.                    *)
LEMMA PositionNext ==
    ASSUME NEW i, NEW q \in Seq(SignalRecord), q # <<>>, Unbroken(q, i)
    PROVE  /\ q[1] \in SignalRecord /\ Sent(q[1], i)
           /\ Tail(q) = <<>> => UpTo(q[1], i) = streams[i].next
           /\ Tail(q) # <<>> => UpTo(q[1], i) = Before(Tail(q)[1], i)
<1>t. PICK rest : rest = Tail(q)
  OBVIOUS
<1>1. /\ Len(q) \in Nat \ {0} /\ Len(rest) = Len(q) - 1
      /\ \A k \in 1 .. Len(q) - 1 : rest[k] = q[k + 1]
      /\ rest \in Seq(SignalRecord) /\ 1 \in 1..Len(q)
      /\ q[1] \in SignalRecord
  BY <1>t
<1>2. /\ \A k \in 1..Len(q) : Sent(q[k], i)
      /\ \A k \in 1 .. Len(q) - 1 : Before(q[k + 1], i) = UpTo(q[k], i)
      /\ UpTo(q[Len(q)], i) = streams[i].next
  BY DEF Unbroken
<1>3. CASE Len(q) = 1
  <2>1. rest = <<>>
    BY <1>1, <1>3
  <2>2. UpTo(q[1], i) = streams[i].next
    BY <1>2, <1>3
  <2>3. QED BY <1>1, <1>2, <1>t, <2>1, <2>2
<1>4. CASE Len(q) # 1
  <2>1. 1 \in 1 .. Len(q) - 1 /\ rest # <<>>
    BY <1>1, <1>4
  <2>2. rest[1] = q[1 + 1] /\ Before(q[1 + 1], i) = UpTo(q[1], i)
    BY <1>1, <1>2, <2>1
  <2>3. QED BY <1>1, <1>2, <1>t, <2>1, <2>2
<1>5. QED BY <1>3, <1>4

LEMMA ReceiveGives ==
    ASSUME IInv, NEW c \in Client, Receive(c), ~reader[c].lagged,
           NEW signal, signal = Head(reader[c].queue)
    PROVE  /\ Typed' /\ signal \in SignalRecord
           /\ Listening(c) /\ reader[c].queue # <<>>
           /\ reader[c].stream \in 1..Len(streams)
           /\ Sent(signal, reader[c].stream) /\ signal = reader[c].queue[1]
           /\ Before(signal, reader[c].stream) = Position(c)
           /\ reader'[c].queue = Tail(reader[c].queue)
           /\ reader'[c].pc = IF IsTerminal(signal) THEN "ended" ELSE "live"
           /\ reader'[c].stream = reader[c].stream
           /\ reader'[c].total = reader[c].total
           /\ Duplicate(reader[c], signal) =>
                 seen'[c] = seen[c] /\ resume'[c] = resume[c]
           /\ ~Duplicate(reader[c], signal) =>
                 /\ seen'[c] = Append(seen[c], signal)
                 /\ resume'[c] = IF IsToken(signal) THEN signal.offset + 1 ELSE resume[c]
                 /\ \E g, m, base : Handed(c, g, m, base)
<1>0. Typed /\ HeldOK(c) /\ QueueOK(c) /\ LiveOK(c)
  BY DEF IInv, ClientOK
<1>i. PICK mine : mine = reader[c].stream
  OBVIOUS
<1>q. PICK q : q = reader[c].queue
  OBVIOUS
<1>w. PICK was : was = seen[c]
  OBVIOUS
<1>1. /\ reader[c].pc = "live" /\ q # <<>> /\ signal = Head(q)
      /\ reader' = [reader EXCEPT ![c].queue = Tail(@),
                                  ![c].pc = IF IsTerminal(signal) THEN "ended" ELSE @]
      /\ IF Duplicate(reader[c], signal)
         THEN UNCHANGED <<seen, resume>>
         ELSE /\ seen' = [seen EXCEPT ![c] = Append(@, signal)]
              /\ resume' = [resume EXCEPT ![c] =
                               IF IsToken(signal) THEN signal.offset + 1 ELSE @]
      /\ UNCHANGED <<streams, current>>
  BY <1>q DEF Receive, After
<1>2. /\ q \in Seq(SignalRecord) /\ was \in Seq(SignalRecord)
      /\ reader[c] \in ReaderRecord /\ resume[c] \in Nat
      /\ Unbroken(q, mine) /\ mine \in 1..Len(streams) /\ mine \in Nat
  BY <1>0, <1>1, <1>i, <1>q, <1>w, ClientTypes DEF HeldOK, QueueOK, Listening
<1>3. signal = q[1] /\ signal \in SignalRecord /\ Sent(signal, mine)
  BY <1>1, <1>2, PositionNext
<1>4. Before(signal, mine) = Position(c)
  BY <1>1, <1>3, <1>i, <1>q DEF Position
<1>5. /\ reader' \in [Client -> ReaderRecord]
      /\ reader'[c].queue = Tail(q)
      /\ reader'[c].pc = IF IsTerminal(signal) THEN "ended" ELSE "live"
      /\ reader'[c].stream = mine /\ reader'[c].total = reader[c].total
  <2>1. reader \in [Client -> ReaderRecord] /\ Tail(q) \in Seq(SignalRecord)
    BY <1>0, <1>1, <1>2 DEF Typed
  <2>2. PICK r : r = [reader[c] EXCEPT !.queue = Tail(@),
                                       !.pc = IF IsTerminal(signal) THEN "ended" ELSE @]
    OBVIOUS
  <2>3. /\ r \in ReaderRecord /\ r.queue = Tail(q) /\ r.stream = mine
        /\ r.total = reader[c].total
        /\ r.pc = IF IsTerminal(signal) THEN "ended" ELSE "live"
    BY <1>1, <1>2, <1>i, <1>q, <2>1, <2>2 DEF ReaderRecord
  <2>4. reader' = [reader EXCEPT ![c] = r]
    BY <1>1, <2>2
  <2>5. QED BY <2>1, <2>3, <2>4
<1>6. signal.offset \in Nat /\ signal.offset + 1 \in Nat
  BY <1>3 DEF SignalRecord
<1>7. Typed'
  <2>1. seen \in [Client -> Seq(SignalRecord)] /\ resume \in [Client -> Nat]
    BY <1>0 DEF Typed
  <2>2. seen' \in [Client -> Seq(SignalRecord)]
    <3>1. Append(seen[c], signal) \in Seq(SignalRecord)
      BY <1>2, <1>3, <1>w
    <3>2. QED BY <1>1, <2>1, <3>1
  <2>3. resume' \in [Client -> Nat]
    BY <1>1, <1>6, <2>1
  <2>4. QED BY <1>0, <1>1, <1>5, <2>2, <2>3 DEF Typed
<1>8. /\ Duplicate(reader[c], signal) => seen'[c] = was /\ resume'[c] = resume[c]
      /\ ~Duplicate(reader[c], signal) =>
            /\ seen'[c] = Append(was, signal)
            /\ resume'[c] = IF IsToken(signal) THEN signal.offset + 1 ELSE resume[c]
  BY <1>0, <1>1, <1>w DEF Typed
<1>9. ASSUME ~Duplicate(reader[c], signal)
      PROVE  \E g, m, base : Handed(c, g, m, base)
  <2>n. PICK n : n = Len(was)
    OBVIOUS
  <2>x. PICK now : now = Append(was, signal)
    OBVIOUS
  <2>1. /\ n \in Nat /\ Len(now) = n + 1 /\ now[n + 1] = signal
        /\ \A k \in 1..n : now[k] = was[k]
    BY <1>2, <1>3, <2>n, <2>x
  <2>2. seen'[c] = now
        /\ resume'[c] = IF IsToken(signal) THEN signal.offset + 1 ELSE resume[c]
    BY <1>8, <1>9, <2>x
  <2>3. /\ reader[c].pc # "idle" /\ reader'[c].pc # "idle" /\ reader'[c].stream = mine
        /\ UNCHANGED <<streams, current>>
    BY <1>1, <1>5
  <2>4. CASE ~IsToken(signal)
    <3>1. Handed(c, 0, 0, 0)
      <4>1. n + 0 + 0 <= Len(now)
        BY <2>1
      <4>2. \A k \in n + 1 .. Len(now) : ~IsToken(now[k])
        <5>1. \A k \in n + 1 .. Len(now) : k = n + 1
          BY <2>1
        <5>2. QED BY <2>1, <2>4, <5>1
      <4>3. \A k : k \in n + 0 + 1 .. n + 0 + 0 => FALSE
        BY <2>1
      <4>4. QED BY <2>1, <2>2, <2>3, <2>4, <1>i, <1>w, <2>n, <4>1, <4>2, <4>3 DEF Handed
    <3>2. QED BY <3>1
  <2>5. CASE IsToken(signal)
    <3>o. PICK o : o = signal.offset
      OBVIOUS
    <3>1. signal = Token(mine, o)
      <4>1. signal.kind = "token" /\ signal.stream = mine
        BY <1>3, <2>5 DEF Sent, IsToken, IsTerminal, Terminal
      <4>2. QED BY <1>3, <3>o, <4>1 DEF SignalRecord, Token
    <3>2. o \in Nat /\ o < streams[mine].next /\ streams[mine].next \in Nat
      <4>1. streams[mine].next \in Nat
        BY <1>0, <1>2, StreamTypes
      <4>2. o < streams[mine].next
        BY <1>3, <2>5, <3>o DEF Sent, IsToken, IsTerminal, Terminal
      <4>3. QED BY <1>6, <3>o, <4>1, <4>2
    <3>3. Home(c) => o = resume[c]
      <4> SUFFICES ASSUME Home(c) PROVE o = resume[c]
        OBVIOUS
      <4>1. /\ resume[c] >= Position(c) /\ resume[c] >= reader[c].total
            /\ resume[c] = Position(c) \/ resume[c] = reader[c].total
        BY <1>0, <1>1 DEF LiveOK
      <4>2. Position(c) = o
        BY <1>4, <2>5, <3>o DEF Before
      <4>3. ~(o < reader[c].total)
        BY <1>9, <2>5, <3>o DEF Duplicate
      <4>4. reader[c].total \in Nat
        BY <1>2 DEF ReaderRecord
      <4>5. QED BY <1>2, <3>2, <4>1, <4>2, <4>3, <4>4
    <3>4. Handed(c, 0, 1, o)
      <4>1. n + 0 + 1 <= Len(now)
        BY <2>1
      <4>2. \A k \in n + 1 .. Len(now) : k \in n + 0 + 1 .. n + 0 + 1
        BY <2>1
      <4>3. \A k \in n + 0 + 1 .. n + 0 + 1 : now[k] = Token(mine, o + (k - (n + 0 + 1)))
        <5> SUFFICES ASSUME NEW k \in n + 0 + 1 .. n + 0 + 1
                     PROVE  now[k] = Token(mine, o + (k - (n + 0 + 1)))
          OBVIOUS
        <5>1. k = n + 1 /\ o + (k - (n + 0 + 1)) = o
          BY <2>1, <3>2
        <5>2. QED BY <2>1, <3>1, <5>1
      <4>4. resume'[c] = o + 1 /\ o + 1 <= streams[mine].next
        BY <2>2, <2>5, <3>o, <3>2
      <4>5. QED BY <2>1, <2>2, <2>3, <1>i, <1>w, <2>n, <3>2, <3>3, <4>1, <4>2, <4>3, <4>4
                   DEF Handed, Mine
    <3>5. QED BY <3>4
  <2>6. QED BY <2>4, <2>5
<1>10. QED BY <1>1, <1>2, <1>3, <1>4, <1>5, <1>7, <1>8, <1>9, <1>i, <1>q, <1>w DEF Listening


(* Where a reader is when it has taken the first of what waits.            *)
LEMMA ReceivedPosition ==
    ASSUME Typed, NEW c \in Client, NEW q \in Seq(SignalRecord), q # <<>>,
           NEW mine, mine = reader[c].stream, Unbroken(q, mine),
           reader'[c].queue = Tail(q), reader'[c].stream = mine, UNCHANGED streams
    PROVE  Position(c)' = UpTo(q[1], mine)
<1>t. PICK rest : rest = Tail(q)
  OBVIOUS
<1>1. /\ rest = <<>> => UpTo(q[1], mine) = streams[mine].next
      /\ rest # <<>> => UpTo(q[1], mine) = Before(rest[1], mine)
  BY <1>t, PositionNext
<1>2. Position(c)' = IF rest = <<>> THEN streams[mine].next ELSE Before(rest[1], mine)
  BY <1>t DEF Position, Mine, Before
<1>3. QED BY <1>1, <1>2

LEMMA ReceiveKeeps == ASSUME IInv, NEW c \in Client, Receive(c) PROVE IInv'
<1>1. CASE reader[c].lagged
  <2>1. reader' = [reader EXCEPT ![c] = NotReading]
        /\ UNCHANGED <<streams, current, seen, resume>>
    BY <1>1 DEF Receive
  <2>2. QED BY <2>1, StopKeeps
<1>2. CASE ~reader[c].lagged
  <2>0. /\ Typed /\ HeldOK(c) /\ QueueOK(c) /\ LiveOK(c)
        /\ \A j \in 1..Len(streams) : StreamOK(streams[j])
    BY DEF IInv, ClientOK
  <2>i. PICK mine : mine = reader[c].stream
    OBVIOUS
  <2>q. PICK q : q = reader[c].queue
    OBVIOUS
  <2>g. PICK signal : signal = Head(reader[c].queue)
    OBVIOUS
  <2>1. /\ Typed' /\ signal \in SignalRecord
        /\ Listening(c) /\ q # <<>> /\ mine \in 1..Len(streams)
        /\ Sent(signal, mine) /\ signal = q[1]
        /\ Before(signal, mine) = Position(c)
        /\ reader'[c].queue = Tail(q)
        /\ reader'[c].pc = IF IsTerminal(signal) THEN "ended" ELSE "live"
        /\ reader'[c].stream = mine
        /\ reader'[c].total = reader[c].total
    BY <1>2, <2>i, <2>q, <2>g, ReceiveGives
  <2>2. /\ Duplicate(reader[c], signal) =>
              seen'[c] = seen[c] /\ resume'[c] = resume[c]
        /\ ~Duplicate(reader[c], signal) =>
              /\ seen'[c] = Append(seen[c], signal)
              /\ resume'[c] = IF IsToken(signal) THEN signal.offset + 1 ELSE resume[c]
              /\ \E g, m, base : Handed(c, g, m, base)
    BY <1>2, <2>g, ReceiveGives
  <2>3. /\ reader[c].pc = "live" /\ UNCHANGED <<streams, current>>
        /\ \A d \in Client \ {c} :
              reader'[d] = reader[d] /\ seen'[d] = seen[d] /\ resume'[d] = resume[d]
    BY <1>2, <2>0 DEF Receive, Typed
  <2>4. /\ q \in Seq(SignalRecord) /\ Len(q) \in Nat /\ Len(q) <= ChannelSize
        /\ Unbroken(q, mine)
        /\ resume[c] \in Nat /\ reader[c].total \in Nat
        /\ reader[c].total <= streams[mine].next
    BY <2>0, <2>1, <2>3, <2>i, <2>q, ClientTypes DEF HeldOK, QueueOK, Mine
  <2>5. Grown
    BY <2>0, <2>3, GrownStays
  <2>r. PICK rest : rest = Tail(q)
    OBVIOUS
  <2>6. rest \in Seq(SignalRecord) /\ Len(rest) <= Len(q) /\ Unbroken(rest, mine)
    BY <2>1, <2>4, <2>r, UnbrokenTail
  <2>7. HeldOK(c)' /\ QueueOK(c)'
    <3>1. Unbroken(rest, mine)'
      BY <2>0, <2>1, <2>3, <2>5, <2>6, UnbrokenStays
    <3>2. QueueOK(c)'
      BY <2>1, <2>r, <3>1 DEF QueueOK
    <3>3. Len(rest) \in Nat /\ ChannelSize \in Nat /\ Len(rest) <= ChannelSize
      BY <2>4, <2>6, StreamAssumption
    <3>4. reader'[c].pc \notin {"idle", "subscribed"}
      BY <2>1
    <3>5. HeldOK(c)'
      BY <2>1, <2>3, <2>4, <2>r, <3>3, <3>4 DEF HeldOK, Mine
    <3>6. QED BY <3>2, <3>5
  <2>p. PICK p : p = Position(c)'
    OBVIOUS
  <2>8. p = UpTo(signal, mine)
    BY <2>0, <2>1, <2>3, <2>4, <2>i, <2>p, ReceivedPosition
  <2>9. /\ resume[c] >= Before(signal, mine) /\ resume[c] >= reader[c].total
        /\ Home(c) => resume[c] = Before(signal, mine) \/ resume[c] = reader[c].total
    BY <1>2, <2>0, <2>1, <2>3 DEF LiveOK
  <2>10. CASE ~IsToken(signal)
    <3>1. IsTerminal(signal) /\ signal = Signal(streams[mine].terminal)
      BY <2>1, <2>10 DEF Sent
    <3>2. streams[mine].terminal # "open"
      BY <3>1 DEF IsTerminal, Signal, Terminal
    <3>3. ~Duplicate(reader[c], signal)
      BY <2>10 DEF Duplicate
    <3>4. LiveOK(c)'
      BY <2>1, <3>1 DEF LiveOK
    <3>5. EndOK(c)'
      <4>1. Mine(c)' = streams[mine]
        BY <2>1, <2>3 DEF Mine
      <4>w. PICK now : now = seen'[c]
        OBVIOUS
      <4>2. now # <<>> /\ now[Len(now)] = signal
        <5>1. seen[c] \in Seq(SignalRecord)
          BY <2>0 DEF Typed
        <5>2. now = Append(seen[c], signal)
          BY <2>2, <3>3, <4>w
        <5>3. QED BY <2>1, <5>1, <5>2
      <4>3. resume'[c] >= streams[mine].ended_at
        BY <2>2, <2>9, <2>10, <3>3 DEF Before
      <4>4. QED BY <3>1, <3>2, <4>1, <4>2, <4>3, <4>w DEF EndOK
    <3>6. QED BY <2>1, <2>2, <2>3, <2>7, <3>3, <3>4, <3>5, HandedKeeps
  <2>11. CASE IsToken(signal)
    <3>o. PICK o : o = signal.offset
      OBVIOUS
    <3>1. o \in Nat /\ p = o + 1 /\ Before(signal, mine) = o
      BY <2>1, <2>8, <2>11, <3>o DEF SignalRecord, UpTo, Before
    <3>2. reader'[c].pc = "live"
      BY <2>1, <2>11 DEF IsToken, IsTerminal, Terminal
    <3>3. EndOK(c)'
      BY <3>2 DEF EndOK
    <3>4. CASE Duplicate(reader[c], signal)
      <4>1. o < reader[c].total /\ seen'[c] = seen[c] /\ resume'[c] = resume[c]
        BY <2>2, <3>4, <3>o DEF Duplicate
      <4>2. Home(c)' => Home(c)
        BY <2>1, <2>i, <4>1 DEF Home
      <4>3. /\ resume[c] >= p
            /\ Home(c) => resume[c] = reader[c].total
        BY <2>4, <2>9, <3>1, <4>1
      <4>4. LiveOK(c)'
        BY <2>1, <2>9, <2>p, <4>1, <4>2, <4>3 DEF LiveOK
      <4>5. GivenOK(c)' /\ ResumeOK(c)' /\ EndOK(c)' /\ ExactOK(c)'
        <5>1. HeldOK(c) /\ GivenOK(c) /\ ResumeOK(c) /\ EndOK(c) /\ ExactOK(c)
          BY DEF IInv, ClientOK
        <5>2. reader[c].pc # "idle" /\ reader'[c].stream = reader[c].stream
          BY <2>1, <2>3, <2>i
        <5>3. QED BY <2>0, <2>1, <2>5, <3>2, <4>1, <5>1, <5>2, ClientStays
      <4>6. ClientOK(c)'
        BY <2>7, <4>4, <4>5 DEF ClientOK
      <4>7. QED BY <2>0, <2>1, <2>3, <2>5, <4>6, OneClient
    <3>5. CASE ~Duplicate(reader[c], signal)
      <4>1. ~(o < reader[c].total) /\ resume'[c] = o + 1
        BY <2>2, <2>11, <3>5, <3>o DEF Duplicate
      <4>2. resume'[c] >= p /\ resume'[c] = p /\ resume'[c] >= reader[c].total
        BY <2>4, <3>1, <4>1
      <4>3. LiveOK(c)'
        BY <2>1, <2>p, <4>2 DEF LiveOK
      <4>4. QED BY <2>1, <2>2, <2>3, <2>7, <3>3, <3>5, <4>3, HandedKeeps
    <3>6. QED BY <3>4, <3>5
  <2>12. QED BY <2>10, <2>11
<1>3. QED BY <1>1, <1>2

-----------------------------------------------------------------------------
(* The theorems.                                                           *)

LEMMA NextKeeps == ASSUME IInv, [Next]_vars PROVE IInv'
<1>1. CASE Publish
  BY <1>1, PublishKeeps
<1>2. ASSUME NEW terminal \in Terminal, End(terminal) PROVE IInv'
  BY <1>2, EndKeeps
<1>3. CASE Remove
  BY <1>3, RemoveKeeps
<1>4. ASSUME NEW c \in Client, Subscribe(c) PROVE IInv'
  BY <1>4, SubscribeKeeps
<1>5. ASSUME NEW c \in Client, Attach(c) PROVE IInv'
  BY <1>5, AttachKeeps
<1>6. ASSUME NEW c \in Client, Replay(c) PROVE IInv'
  BY <1>6, ReplayKeeps
<1>7. ASSUME NEW c \in Client, Receive(c) PROVE IInv'
  BY <1>7, ReceiveKeeps
<1>8. ASSUME NEW c \in Client, Drop(c) PROVE IInv'
  BY <1>8, StopKeeps DEF Drop
<1>9. CASE UNCHANGED vars
  <2>1. UNCHANGED <<streams, current, reader, seen, resume>>
    BY <1>9 DEF vars
  <2>2. Typed' /\ \A i \in 1..Len(streams') : StreamOK(streams'[i])
    BY <2>1 DEF IInv, Typed
  <2>3. Typed /\ Grown
    BY <2>1, GrownStays DEF IInv
  <2>4. ASSUME NEW c \in Client PROVE ClientOK(c)'
    <3>1. ClientOK(c)
      BY DEF IInv
    <3>2. QED BY <2>1, <2>2, <2>3, <3>1, ClientUntouched
  <2>5. QED BY <2>2, <2>4 DEF IInv
<1>10. QED BY <1>1, <1>2, <1>3, <1>4, <1>5, <1>6, <1>7, <1>8, <1>9 DEF Next

(* The inductive invariant holds of every behaviour of the in-memory spine. *)
THEOREM Invariance == Spec => []IInv
<1>1. Init => IInv
  BY InitHolds
<1>2. IInv /\ [Next]_vars => IInv'
  BY NextKeeps
<1>3. QED BY <1>1, <1>2, PTL DEF Spec

(* A Stream keeps the last MaxBuffer offsets and nothing else, readers     *)
(* hold Streams that exist, and no receiver's queue outgrows the channel.  *)
THEOREM TypeCorrect == Spec => []TypeOK
<1>1. ASSUME IInv PROVE TypeOK
  <2>1. current \in 0..Len(streams)
    <3>1. Len(streams) \in Nat /\ current \in {0, Len(streams)}
      BY <1>1, StreamTypes DEF IInv, Typed
    <3>2. QED BY <3>1
  <2>2. ASSUME NEW i \in 1..Len(streams)
        PROVE  /\ streams[i].terminal \in Terminal \cup {"open"}
               /\ streams[i].ended_at <= streams[i].next
               /\ streams[i].first = IF streams[i].next > MaxBuffer
                                     THEN streams[i].next - MaxBuffer ELSE 0
    <3>1. streams[i] \in StreamRecord /\ StreamOK(streams[i])
      BY <1>1, StreamTypes DEF IInv
    <3>2. QED BY <3>1 DEF StreamRecord, StreamOK
  <2>3. \A c \in Client :
           /\ reader[c].pc # "idle" => reader[c].stream \in 1..Len(streams)
           /\ Len(reader[c].queue) <= ChannelSize
    BY <1>1 DEF IInv, ClientOK, HeldOK
  <2>4. QED BY <2>1, <2>2, <2>3 DEF TypeOK
<1>2. QED BY <1>1, Invariance, PTL

(* What a client is given of a Stream, over all its connections to it, is  *)
(* every offset once and in order, and where offsets are missing a gap was *)
(* announced.                                                              *)
THEOREM DeliveryExact == Spec => []ExactDelivery
<1>1. ASSUME IInv PROVE ExactDelivery
  BY <1>1 DEF IInv, ClientOK, ExactOK, ExactDelivery
<1>2. QED BY <1>1, Invariance, PTL

(* A client that is told its Stream ended is told the Stream's one end,    *)
(* and has been given the last token there was when it ended.              *)
THEOREM EndSound == Spec => []OneEndAfterAllTokens
<1>1. ASSUME IInv PROVE OneEndAfterAllTokens
  BY <1>1 DEF IInv, ClientOK, EndOK, Mine, OneEndAfterAllTokens
<1>2. QED BY <1>1, Invariance, PTL


-----------------------------------------------------------------------------
(* The in-memory spine keeps the contract of a Backend.                    *)

LEMMA PrefixByElements ==
    ASSUME NEW S, NEW s \in Seq(S), NEW t \in Seq(S), Len(s) <= Len(t),
           \A k \in 1..Len(s) : s[k] = t[k]
    PROVE  Contract!IsPrefix(s, t)
<1>1. SubSeq(s, 1, Len(s)) = SubSeq(t, 1, Len(s))
  <2>1. Len(s) \in Nat /\ Len(t) \in Nat
    OBVIOUS
  <2>2. /\ SubSeq(s, 1, Len(s)) \in Seq(S) /\ Len(SubSeq(s, 1, Len(s))) = Len(s)
        /\ SubSeq(t, 1, Len(s)) \in Seq(S) /\ Len(SubSeq(t, 1, Len(s))) = Len(s)
        /\ \A k \in 1..Len(s) : /\ SubSeq(s, 1, Len(s))[k] = s[k]
                                 /\ SubSeq(t, 1, Len(s))[k] = t[k]
    BY <2>1
  <2>3. QED BY <2>1, <2>2
<1>2. QED BY <1>1 DEF Contract!IsPrefix

(* Chunks are numbered by their Stream first, and then by their offset.    *)
LEMMA NumbersInOrder ==
    ASSUME NEW s \in Nat \ {0}, NEW t \in Nat \ {0}, NEW o \in Nat, NEW p \in Nat,
           o < MaxTokens, s < t \/ (s = t /\ o < p)
    PROVE  (s - 1) * MaxTokens + o + 1 < (t - 1) * MaxTokens + p + 1
<1>m. PICK m : m = MaxTokens
  OBVIOUS
<1>1. m \in Nat /\ o < m
  BY <1>m, StreamAssumption
<1>2. CASE s < t
  <2>1. PICK d : d = t - s - 1
    OBVIOUS
  <2>2. d \in Nat /\ t - 1 = (s - 1) + (1 + d) /\ s - 1 \in Nat
    BY <1>2, <2>1
  <2>3. (t - 1) * m = (s - 1) * m + m + d * m /\ d * m \in Nat /\ (s - 1) * m \in Nat
    BY <1>1, <2>2
  <2>4. (s - 1) * m + o + 1 < (t - 1) * m + p + 1
    BY <1>1, <2>3
  <2>5. QED BY <1>m, <2>4
<1>3. CASE s = t /\ o < p
  <2>1. PICK x : x = (s - 1) * m
    OBVIOUS
  <2>2. x \in Int
    BY <1>1, <2>1
  <2>3. x + o + 1 < x + p + 1
    BY <1>3, <2>2
  <2>4. QED BY <1>m, <1>3, <2>1, <2>3
<1>4. QED BY <1>2, <1>3

LEMMA TokenNumber ==
    ASSUME NEW s \in Nat \ {0}, NEW o \in Nat
    PROVE  /\ Number(Token(s, o)) = (s - 1) * MaxTokens + o + 1
           /\ Number(Token(s, o)) \in Nat \ {0}
<1>1. Number(Token(s, o)) = (s - 1) * MaxTokens + o + 1
  BY DEF Number, Token, IsToken
<1>2. (s - 1) * MaxTokens \in Nat
  BY StreamAssumption
<1>3. QED BY <1>1, <1>2

(* What a client is told is a sequence as long as what it was given.       *)
LEMMA ToldTyped ==
    ASSUME Typed, NEW c \in Client
    PROVE  /\ Told[c] \in Seq(Int) /\ Len(Told[c]) = Len(seen[c]) /\ Len(seen[c]) \in Nat
           /\ \A k \in 1..Len(seen[c]) : Told[c][k] = Number(seen[c][k])
<1>1. Len(seen[c]) \in Nat /\ \A k \in 1..Len(seen[c]) : seen[c][k] \in SignalRecord
  <2>1. seen[c] \in Seq(SignalRecord)
    BY DEF Typed
  <2>2. QED BY <2>1
<1>2. ASSUME NEW k \in 1..Len(seen[c]) PROVE Number(seen[c][k]) \in Int
  <2>1. seen[c][k].stream \in Nat /\ seen[c][k].offset \in Nat
    BY <1>1 DEF SignalRecord
  <2>2. (seen[c][k].stream - 1) * MaxTokens \in Int
    BY <2>1, StreamAssumption
  <2>3. (seen[c][k].stream - 1) * MaxTokens + seen[c][k].offset + 1 \in Int
    BY <2>1, <2>2
  <2>4. QED BY <2>3 DEF Number
<1>3. Told[c] = [k \in 1..Len(seen[c]) |-> Number(seen[c][k])]
  BY DEF Told
<1>4. QED BY <1>1, <1>2, <1>3

(* Streams that only grow keep their chunks.                               *)
LEMMA ChunksStay ==
    ASSUME Typed, Typed', Len(streams) <= Len(streams'),
           \A i \in 1..Len(streams) : streams[i].next <= streams'[i].next
    PROVE  Chunks \subseteq Chunks'
<1> SUFFICES ASSUME NEW x \in Chunks PROVE x \in Chunks'
  OBVIOUS
<1>1. PICK i \in 1..Len(streams) :
         x \in {Number(Token(i, offset)) : offset \in 0 .. streams[i].next - 1}
  BY DEF Chunks
<1>2. PICK offset \in 0 .. streams[i].next - 1 : x = Number(Token(i, offset))
  BY <1>1
<1>3. i \in 1..Len(streams') /\ streams[i].next \in Nat /\ streams'[i].next \in Nat
  <2>1. Len(streams) \in Nat /\ streams[i].next \in Nat
    BY StreamTypes
  <2>2. streams' \in Seq(StreamRecord)
    BY DEF Typed
  <2>3. i \in 1..Len(streams')
    BY <2>1, <2>2
  <2>4. streams'[i] \in StreamRecord
    BY <2>2, <2>3
  <2>5. QED BY <2>1, <2>3, <2>4 DEF StreamRecord
<1>4. offset \in 0 .. streams'[i].next - 1
  BY <1>3
<1>5. x \in {Number(Token(i, o)) : o \in 0 .. streams'[i].next - 1}
  BY <1>2, <1>4
<1>6. Chunks' = UNION {{Number(Token(j, o)) : o \in 0 .. streams'[j].next - 1} :
                          j \in 1..Len(streams')}
  BY DEF Chunks, Number, Token, IsToken
<1>7. QED BY <1>3, <1>5, <1>6


(* A token a client is given comes after every token it has.               *)
LEMMA HandedInOrder ==
    ASSUME IInv, Typed', NEW c \in Client, NEW g, NEW m, NEW base, Handed(c, g, m, base)
    PROVE  \A k \in Len(seen[c]) + g + 1 .. Len(seen[c]) + g + m : \A j \in 1 .. k - 1 :
              Number(seen'[c][j]) < Number(seen'[c][k])
<1>0. /\ Typed /\ HeldOK(c) /\ GivenOK(c) /\ ResumeOK(c)
      /\ \A i \in 1..Len(streams) : StreamOK(streams[i])
  BY DEF IInv, ClientOK
<1>t. Typed
  BY DEF IInv
<1>n. PICK n : n = Len(seen[c])
  OBVIOUS
<1>i. PICK mine : mine = reader[c].stream
  OBVIOUS
<1>w. PICK was : was = seen[c]
  OBVIOUS
<1>x. PICK now : now = seen'[c]
  OBVIOUS
<1>1. /\ g \in {0, 1} /\ m \in Nat /\ base \in Nat /\ n \in Nat
      /\ mine \in Nat /\ Len(now) \in Nat /\ n + g + m <= Len(now)
      /\ \A k \in 1..n : k \in 1..Len(now) /\ now[k] = was[k]
      /\ \A k \in n + g + 1 .. n + g + m :
            /\ k \in 1..Len(now) /\ IsToken(now[k]) /\ now[k].stream = mine
            /\ now[k].offset = base + (k - (n + g + 1))
      /\ \A k \in 1..Len(now) : IsToken(now[k]) =>
            \/ k \in 1..n /\ IsToken(was[k])
            \/ k \in n + g + 1 .. n + g + m
  BY <1>t, <1>n, <1>i, <1>w, <1>x, HandedTokens, SMTT(30)
<1>2. \A k \in 1..n : was[k].stream \in Nat /\ was[k].offset \in Nat
  BY <1>t, <1>n, <1>w, ClientTypes
<1>3. /\ m > 0 => base + m <= streams[mine].next
      /\ m > 0 /\ Home(c) => IF g = 0 THEN base = resume[c] ELSE base > resume[c]
      /\ mine \in 1..Len(streams) /\ Len(streams) \in Nat
      /\ reader[c].pc # "idle"
  BY <1>0, <1>i, StreamTypes DEF Handed, Mine, HeldOK
<1>4. \A i \in 1..Len(streams) : streams[i].next \in Nat /\ streams[i].next <= MaxTokens
  BY <1>0, StreamTypes DEF StreamOK
<1> SUFFICES ASSUME NEW k \in n + g + 1 .. n + g + m, NEW j \in 1 .. k - 1
             PROVE  Number(now[j]) < Number(now[k])
  BY <1>n, <1>x
<1>o. PICK o : o = base + (k - (n + g + 1))
  OBVIOUS
<1>5. /\ k \in Nat /\ m > 0 /\ o \in Nat /\ o >= base /\ o < base + m
      /\ mine \in Nat \ {0} /\ j \in Nat \ {0} /\ j < k
  <2>1. n \in Nat /\ g \in {0, 1} /\ m \in Nat /\ base \in Nat
    BY <1>1
  <2>2. k \in Nat /\ m > 0 /\ o \in Nat /\ o >= base /\ o < base + m
    BY <1>o, <2>1
  <2>3. mine \in Nat \ {0}
    BY <1>1, <1>3
  <2>4. j \in Nat \ {0} /\ j < k
    BY <2>2
  <2>5. QED BY <2>2, <2>3, <2>4
<1>6. Number(now[k]) = (mine - 1) * MaxTokens + o + 1 /\ Number(now[k]) \in Nat \ {0}
  <2>1. IsToken(now[k]) /\ now[k].stream = mine /\ now[k].offset = o
    BY <1>1, <1>o
  <2>2. Number(now[k]) = (mine - 1) * MaxTokens + o + 1
    BY <2>1 DEF Number
  <2>3. Number(Token(mine, o)) = (mine - 1) * MaxTokens + o + 1
        /\ Number(Token(mine, o)) \in Nat \ {0}
    BY <1>5, TokenNumber
  <2>4. QED BY <2>2, <2>3
<1>7. CASE ~IsToken(now[j])
  <2>1. Number(now[j]) = 0
    BY <1>7 DEF Number
  <2>2. QED BY <1>6, <2>1
<1>8. CASE IsToken(now[j])
  <2>s. PICK s : s = now[j].stream
    OBVIOUS
  <2>p. PICK p : p = now[j].offset
    OBVIOUS
  <2>1. /\ s \in Nat \ {0} /\ p \in Nat /\ p < MaxTokens
        /\ s < mine \/ (s = mine /\ p < o)
    <3>1. j \in 1..Len(now)
      <4>1. k \in 1..Len(now) /\ Len(now) \in Nat
        BY <1>1
      <4>2. QED BY <1>5, <4>1
    <3>2. CASE j \in n + g + 1 .. n + g + m
      <4>1. s = mine /\ p = base + (j - (n + g + 1))
        BY <1>1, <2>s, <2>p, <3>2
      <4>2. p \in Nat /\ p < o
        BY <1>1, <1>5, <1>o, <3>2, <4>1
      <4>3. p < streams[mine].next
        BY <1>1, <1>3, <1>4, <1>5, <4>2
      <4>4. QED BY <1>3, <1>4, <1>5, <4>1, <4>2, <4>3, StreamAssumption
    <3>3. CASE j \in 1..n /\ IsToken(was[j])
      <4>1. s = was[j].stream /\ p = was[j].offset /\ s \in Nat /\ p \in Nat
        BY <1>1, <1>2, <2>s, <2>p, <3>3
      <4>2. s \in 1..Len(streams) /\ p < streams[s].next /\ s <= mine
        <5>1. j \in 1..Len(seen[c]) /\ IsToken(seen[c][j])
          BY <1>n, <1>w, <3>3
        <5>2. QED BY <1>0, <1>3, <1>i, <1>w, <4>1, <5>1 DEF GivenOK
      <4>3. p < MaxTokens
        BY <1>4, <4>1, <4>2, StreamAssumption
      <4>4. ASSUME s = mine PROVE p < o
        <5>1. j \in 1..Len(seen[c]) /\ IsToken(seen[c][j]) /\ seen[c][j].stream = mine
          BY <1>n, <1>w, <3>3, <4>1, <4>4
        <5>2. Home(c)
          BY <1>i, <5>1 DEF Home
        <5>3. \A i \in 1..Len(seen[c]) :
                 IsToken(seen[c][i]) => seen[c][i].stream <= seen[c][j].stream
          BY <1>0, <1>3, <1>i, <5>1 DEF GivenOK
        <5>4. p < resume[c]
          BY <1>0, <1>w, <4>1, <5>1, <5>3 DEF ResumeOK
        <5>5. resume[c] <= base
          <6>1. resume[c] \in Nat
            BY <1>0, ClientTypes
          <6>2. IF g = 0 THEN base = resume[c] ELSE base > resume[c]
            BY <1>3, <1>5, <5>2
          <6>3. QED BY <1>1, <6>1, <6>2
        <5>6. resume[c] \in Nat
          BY <1>0, ClientTypes
        <5>7. QED BY <1>1, <1>5, <4>1, <5>4, <5>5, <5>6
      <4>5. QED BY <1>5, <4>1, <4>2, <4>3, <4>4
    <3>4. QED BY <1>1, <1>8, <3>1, <3>2, <3>3
  <2>2. (s - 1) * MaxTokens + p + 1 < (mine - 1) * MaxTokens + o + 1
    BY <1>5, <2>1, NumbersInOrder
  <2>3. Number(now[j]) = (s - 1) * MaxTokens + p + 1
    BY <1>8, <2>s, <2>p DEF Number
  <2>4. QED BY <1>6, <2>2, <2>3
<1>9. QED BY <1>7, <1>8

(* What a client is given is chunks of the Stream it reads.                *)
LEMMA HandedAdvances ==
    ASSUME IInv, Typed', NEW c \in Client, NEW g, NEW m, NEW base, Handed(c, g, m, base)
    PROVE  /\ Contract!IsPrefix(Told[c], Told'[c])
           /\ \A k \in Len(Told[c]) + 1 .. Len(Told'[c]) :
                 Told'[c][k] # 0 => /\ Told'[c][k] \in Chunks
                                    /\ \A j \in 1 .. k - 1 : Told'[c][j] < Told'[c][k]
<1>0. Typed /\ HeldOK(c)
  BY DEF IInv, ClientOK
<1>n. PICK n : n = Len(seen[c])
  OBVIOUS
<1>i. PICK mine : mine = reader[c].stream
  OBVIOUS
<1>w. PICK was : was = seen[c]
  OBVIOUS
<1>x. PICK now : now = seen'[c]
  OBVIOUS
<1>1. /\ g \in {0, 1} /\ m \in Nat /\ base \in Nat /\ n \in Nat
      /\ mine \in Nat /\ Len(now) \in Nat /\ n + g + m <= Len(now)
      /\ \A k \in 1..n : k \in 1..Len(now) /\ now[k] = was[k]
      /\ \A k \in n + g + 1 .. n + g + m :
            /\ k \in 1..Len(now) /\ IsToken(now[k]) /\ now[k].stream = mine
            /\ now[k].offset = base + (k - (n + g + 1))
      /\ \A k \in 1..Len(now) : IsToken(now[k]) =>
            \/ k \in 1..n /\ IsToken(was[k])
            \/ k \in n + g + 1 .. n + g + m
  BY <1>0, <1>n, <1>i, <1>w, <1>x, HandedTokens, SMTT(30)
<1>a. PICK a : a = Told[c]
  OBVIOUS
<1>b. PICK b : b = Told'[c]
  OBVIOUS
<1>2. a \in Seq(Int) /\ Len(a) = n /\ \A k \in 1..n : a[k] = Number(was[k])
  BY <1>0, <1>n, <1>w, <1>a, ToldTyped
<1>3. b \in Seq(Int) /\ Len(b) = Len(now) /\ \A k \in 1..Len(now) : b[k] = Number(now[k])
  <2>1. /\ Told'[c] \in Seq(Int) /\ Len(Told'[c]) = Len(seen'[c])
        /\ \A k \in 1..Len(seen'[c]) : Told'[c][k] = Number(seen'[c][k])
    <3>1. now \in Seq(SignalRecord) /\ \A k \in 1..Len(now) : now[k] \in SignalRecord
      <4>1. now \in Seq(SignalRecord)
        BY <1>x DEF Typed
      <4>2. QED BY <4>1
    <3>2. ASSUME NEW k \in 1..Len(now) PROVE Number(now[k]) \in Int
      <4>1. now[k].stream \in Nat /\ now[k].offset \in Nat
        BY <3>1 DEF SignalRecord
      <4>2. (now[k].stream - 1) * MaxTokens \in Int
        BY <4>1, StreamAssumption
      <4>3. (now[k].stream - 1) * MaxTokens + now[k].offset + 1 \in Int
        BY <4>1, <4>2
      <4>4. QED BY <4>3 DEF Number
    <3>3. Told'[c] = [k \in 1..Len(now) |-> Number(now[k])]
      BY <1>x DEF Told, Number, IsToken
    <3>4. QED BY <1>1, <1>x, <3>2, <3>3
  <2>2. QED BY <1>b, <1>x, <2>1
<1>4. Contract!IsPrefix(a, b)
  <2>1. Len(a) <= Len(b) /\ \A k \in 1..Len(a) : a[k] = b[k]
    BY <1>1, <1>2, <1>3
  <2>2. QED BY <1>2, <1>3, <2>1, PrefixByElements
<1>5. ASSUME NEW k \in Len(a) + 1 .. Len(b), b[k] # 0
      PROVE  b[k] \in Chunks /\ \A j \in 1 .. k - 1 : b[j] < b[k]
  <2>1. k \in 1..Len(now) /\ k \notin 1..n /\ 1 .. k - 1 \subseteq 1..Len(now)
    BY <1>1, <1>2, <1>3
  <2>2. IsToken(now[k])
    BY <1>3, <1>5, <2>1 DEF Number
  <2>3. k \in n + g + 1 .. n + g + m
    BY <1>1, <2>1, <2>2
  <2>4. \A j \in 1 .. k - 1 : b[j] < b[k]
    <3> SUFFICES ASSUME NEW j \in 1 .. k - 1 PROVE b[j] < b[k]
      OBVIOUS
    <3>1. Number(now[j]) < Number(now[k])
      BY <1>n, <1>x, <2>3, HandedInOrder
    <3>2. QED BY <1>3, <2>1, <3>1
  <2>5. b[k] \in Chunks
    <3>o. PICK o : o = base + (k - (n + g + 1))
      OBVIOUS
    <3>1. mine \in 1..Len(streams) /\ streams[mine].next \in Nat /\ base + m <= streams[mine].next
      <4>1. mine \in 1..Len(streams)
        BY <1>0, <1>i DEF Handed, HeldOK
      <4>2. m > 0
        BY <1>1, <2>3
      <4>3. QED BY <1>0, <1>i, <4>1, <4>2, StreamTypes DEF Handed, Mine
    <3>2. o \in 0 .. streams[mine].next - 1
      BY <1>1, <2>3, <3>o, <3>1
    <3>3. b[k] = Number(Token(mine, o))
      <4>1. now[k].kind = "token" /\ now[k].stream = mine /\ now[k].offset = o
        BY <1>1, <2>3, <3>o DEF IsToken
      <4>2. QED BY <1>3, <2>1, <4>1 DEF Number, Token, IsToken
    <3>4. b[k] \in {Number(Token(mine, offset)) : offset \in 0 .. streams[mine].next - 1}
      BY <3>2, <3>3
    <3>5. QED BY <3>1, <3>4 DEF Chunks
  <2>6. QED BY <2>4, <2>5
<1>6. QED BY <1>2, <1>3, <1>4, <1>5, <1>a, <1>b


(* Publishing, ending and registering a Stream add chunks at most, and     *)
(* nobody is told anything by them.                                        *)
LEMMA SendEndsNobody ==
    ASSUME Typed, NEW i, NEW signal, reader' = Send(i, signal)
    PROVE  Closed' = Closed
<1>1. ASSUME NEW c \in Client PROVE reader'[c].pc = reader[c].pc
  <2>1. reader[c] \in ReaderRecord
    BY DEF Typed
  <2>2. reader'[c] = IF reader[c].pc \in {"attached", "live"} /\ reader[c].stream = i
                     THEN IF Len(reader[c].queue) < ChannelSize
                          THEN [reader[c] EXCEPT !.queue = Append(@, signal)]
                          ELSE [reader[c] EXCEPT !.queue = Append(Tail(@), signal),
                                                 !.lagged = TRUE]
                     ELSE reader[c]
    BY DEF Send
  <2>3. QED BY <2>1, <2>2 DEF ReaderRecord
<1>2. QED BY <1>1 DEF Closed

LEMMA StreamsGrow ==
    ASSUME IInv, IInv',
           \/ Publish
           \/ \E terminal \in Terminal : End(terminal)
           \/ streams' \in {streams, WithStream}
    PROVE  Chunks \subseteq Chunks'
<1>0. Typed /\ \A j \in 1..Len(streams) : StreamOK(streams[j])
  BY DEF IInv
<1>1. Typed'
  BY DEF IInv
<1>i. PICK i : i = Registered
  OBVIOUS
<1>r. PICK registry : registry = WithStream
  OBVIOUS
<1>2. /\ registry \in Seq(StreamRecord) /\ i \in Nat \ {0} /\ Len(registry) = i
      /\ Len(streams) \in Nat /\ Len(streams) <= i
      /\ \A j \in 1..Len(streams) : registry[j] = streams[j]
  BY <1>0, <1>i, <1>r, RegisteredFacts, StreamTypes
<1>s. PICK s : s = registry[i]
  OBVIOUS
<1>3. s \in StreamRecord /\ s.next \in Nat /\ s.first \in Nat
  <2>1. s \in StreamRecord
    BY <1>2, <1>s
  <2>2. QED BY <2>1 DEF StreamRecord
<1>4. ASSUME NEW t, streams' = [registry EXCEPT ![i] = t], s.next <= t.next
      PROVE  Chunks \subseteq Chunks'
  <2>1. Len(streams') = Len(registry) /\ \A j \in 1..i : j # i => streams'[j] = registry[j]
    BY <1>2, <1>4
  <2>2. streams'[i] = t
    BY <1>2, <1>4
  <2>3. ASSUME NEW j \in 1..Len(streams) PROVE streams[j].next <= streams'[j].next
    <3>1. CASE j = i
      BY <1>2, <1>4, <1>s, <2>2, <3>1
    <3>2. CASE j # i
      <4>1. streams'[j] = streams[j] /\ streams[j].next \in Nat
        BY <1>0, <1>2, <2>1, <3>2, StreamTypes
      <4>2. QED BY <4>1
    <3>3. QED BY <3>1, <3>2
  <2>4. Len(streams) <= Len(streams')
    BY <1>2, <2>1
  <2>5. QED BY <1>0, <1>1, <2>3, <2>4, ChunksStay
<1>5. CASE Publish
  <2>u. PICK u : u = [s EXCEPT !.next = @ + 1]
    OBVIOUS
  <2>t. PICK t : t = Trimmed(u)
    OBVIOUS
  <2>1. streams' = [registry EXCEPT ![i] = t]
    BY <1>5, <1>i, <1>r, <1>s, <2>u, <2>t DEF Publish
  <2>2. u \in StreamRecord /\ u.next = s.next + 1
    BY <1>3, <2>u DEF StreamRecord
  <2>3. t.next = u.next
    BY <2>2, <2>t DEF Trimmed, StreamRecord
  <2>4. s.next <= t.next
    BY <1>3, <2>2, <2>3
  <2>5. QED BY <1>4, <2>1, <2>4
<1>6. ASSUME NEW terminal \in Terminal, End(terminal), s.terminal = "open"
      PROVE  Chunks \subseteq Chunks'
  <2>t. PICK t : t = [s EXCEPT !.terminal = terminal, !.ended_at = s.next]
    OBVIOUS
  <2>1. streams' = [registry EXCEPT ![i] = t]
    BY <1>6, <1>i, <1>r, <1>s, <2>t DEF End, MayEnd
  <2>2. t.next = s.next
    BY <1>3, <2>t DEF StreamRecord
  <2>3. s.next <= t.next
    BY <1>3, <2>2
  <2>4. QED BY <1>4, <2>1, <2>3
<1>7. CASE streams' \in {streams, WithStream}
  <2>1. \A j \in 1..Len(streams) : streams'[j] = streams[j] /\ streams[j].next \in Nat
    BY <1>0, <1>2, <1>7, <1>r, StreamTypes
  <2>2. Len(streams) <= Len(streams') /\ \A j \in 1..Len(streams) : streams[j].next <= streams'[j].next
    BY <1>2, <1>7, <1>r, <2>1
  <2>3. QED BY <1>0, <1>1, <2>2, ChunksStay
<1>8. ASSUME NEW terminal \in Terminal, End(terminal) PROVE Chunks \subseteq Chunks'
  <2>1. CASE s.terminal = "open"
    BY <1>6, <1>8, <2>1
  <2>2. CASE s.terminal # "open"
    <3>1. streams' = WithStream
      BY <1>8, <1>i, <1>r, <1>s, <2>2 DEF End, MayEnd
    <3>2. QED BY <1>7, <3>1
  <2>3. QED BY <2>1, <2>2
<1>9. QED BY <1>5, <1>7, <1>8

(* Every step of the spine is one the contract allows: what a client is    *)
(* given is an Advance, everything else a Publish.                         *)
LEMMA StepKeepsContract ==
    ASSUME IInv, [Next]_vars
    PROVE  [Contract!Next]_(Contract!vars)
<1>0. IInv' /\ Typed /\ Typed'
  <2>1. IInv'
    BY NextKeeps
  <2>2. QED BY <2>1 DEF IInv
<1>1. ASSUME Chunks \subseteq Chunks', seen' = seen, Closed' = Closed
      PROVE  Contract!Next
  <2>1. Told' = Told
    BY <1>1 DEF Told, Number, IsToken
  <2>2. QED BY <1>1, <2>1 DEF Contract!Next, Contract!Publish
<1>2. ASSUME streams' \in {streams, WithStream}, seen' = seen, Closed' = Closed
      PROVE  Contract!Next
  <2>1. Chunks \subseteq Chunks'
    BY <1>0, <1>2, StreamsGrow
  <2>2. QED BY <1>1, <1>2, <2>1
<1>3. CASE Publish
  <2>1. Chunks \subseteq Chunks'
    BY <1>0, <1>3, StreamsGrow
  <2>2. seen' = seen /\ Closed' = Closed
    BY <1>0, <1>3, SendEndsNobody DEF Publish
  <2>3. QED BY <1>1, <2>1, <2>2
<1>4. ASSUME NEW terminal \in Terminal, End(terminal) PROVE Contract!Next
  <2>1. Chunks \subseteq Chunks'
    BY <1>0, <1>4, StreamsGrow
  <2>2. seen' = seen
    BY <1>4 DEF End
  <2>3. Closed' = Closed
    <3>1. reader' = reader \/ reader' = Send(Registered, Signal(terminal))
      BY <1>4 DEF End
    <3>2. CASE reader' = reader
      BY <3>2 DEF Closed
    <3>3. QED BY <1>0, <3>1, <3>2, SendEndsNobody
  <2>4. QED BY <1>1, <2>1, <2>2, <2>3
<1>5. CASE Remove
  BY <1>2, <1>5 DEF Remove, Closed
<1>6. ASSUME NEW c \in Client, reader[c].pc # "ended", reader'[c].pc # "ended",
             \A d \in Client \ {c} : reader'[d] = reader[d]
      PROVE  Closed' = Closed
  BY <1>6 DEF Closed
<1>7. ASSUME NEW c \in Client, \E g, m, base : Handed(c, g, m, base), reader[c].pc # "ended",
             \A d \in Client \ {c} : reader'[d] = reader[d] /\ seen'[d] = seen[d]
      PROVE  Contract!Next
  <2>1. PICK g, m, base : Handed(c, g, m, base)
    BY <1>7
  <2>2. /\ Contract!IsPrefix(Told[c], Told'[c])
        /\ \A k \in Len(Told[c]) + 1 .. Len(Told'[c]) :
              Told'[c][k] # 0 => /\ Told'[c][k] \in Chunks
                                 /\ \A j \in 1 .. k - 1 : Told'[c][j] < Told'[c][k]
    BY <1>0, <2>1, HandedAdvances
  <2>3. \A d \in Client \ {c} : Told'[d] = Told[d]
    BY <1>7 DEF Told, Number, IsToken
  <2>4. Closed' \in {Closed, Closed \cup {c}} /\ c \notin Closed
    <3>1. \A d \in Client \ {c} : (d \in Closed') = (d \in Closed)
      BY <1>7 DEF Closed
    <3>2. Closed \subseteq Client /\ Closed' \subseteq Client /\ c \notin Closed
      BY <1>7 DEF Closed
    <3>3. CASE c \in Closed'
      <4>1. Closed' = Closed \cup {c}
        BY <3>1, <3>2, <3>3
      <4>2. QED BY <3>2, <4>1
    <3>4. CASE c \notin Closed'
      <4>1. Closed' = Closed
        BY <3>1, <3>2, <3>4
      <4>2. QED BY <3>2, <4>1
    <3>5. QED BY <3>3, <3>4
  <2>5. Chunks' = Chunks
    <3>1. streams' = streams
      BY <2>1 DEF Handed
    <3>2. QED BY <3>1 DEF Chunks, Number, Token, IsToken
  <2>6. Contract!Advance(c)
    BY <2>2, <2>3, <2>4, <2>5 DEF Contract!Advance
  <2>7. QED BY <2>6 DEF Contract!Next
<1>8. ASSUME NEW c \in Client, Subscribe(c) PROVE Contract!Next
  <2>1. /\ reader[c].pc = "idle" /\ streams' = WithStream /\ seen' = seen
        /\ reader'[c].pc = "subscribed" /\ \A d \in Client \ {c} : reader'[d] = reader[d]
    BY <1>0, <1>8 DEF Subscribe, Reading, Typed
  <2>2. QED BY <1>2, <1>6, <2>1
<1>9. ASSUME NEW c \in Client, Attach(c) PROVE Contract!Next
  <2>1. /\ reader[c].pc = "subscribed" /\ streams' = streams /\ seen' = seen
        /\ reader'[c].pc = "attached" /\ \A d \in Client \ {c} : reader'[d] = reader[d]
    BY <1>0, <1>9 DEF Attach, Typed, ReaderRecord
  <2>2. QED BY <1>2, <1>6, <2>1
<1>10. ASSUME NEW c \in Client, reader[c].pc # "ended", UNCHANGED <<streams, seen>>,
              reader' = [reader EXCEPT ![c] = NotReading]
       PROVE  Contract!Next
  <2>1. reader'[c].pc = "idle" /\ \A d \in Client \ {c} : reader'[d] = reader[d]
    BY <1>0, <1>10 DEF NotReading, Reading, Typed
  <2>2. QED BY <1>2, <1>6, <1>10, <2>1
<1>11. ASSUME NEW c \in Client, Drop(c) PROVE Contract!Next
  BY <1>10, <1>11 DEF Drop
<1>12. ASSUME NEW c \in Client, Replay(c) PROVE Contract!Next
  <2>1. \E g, m, base : Handed(c, g, m, base)
    BY <1>12, ReplayGives
  <2>2. /\ reader[c].pc = "attached"
        /\ \A d \in Client \ {c} : reader'[d] = reader[d] /\ seen'[d] = seen[d]
    BY <1>0, <1>12 DEF Replay, Typed
  <2>3. QED BY <1>7, <2>1, <2>2
<1>13. ASSUME NEW c \in Client, Receive(c) PROVE Contract!Next
  <2>0. /\ reader[c].pc = "live" /\ streams' = streams
        /\ \A d \in Client \ {c} : reader'[d] = reader[d] /\ seen'[d] = seen[d]
    BY <1>0, <1>13 DEF Receive, Typed
  <2>1. CASE reader[c].lagged
    <3>1. reader' = [reader EXCEPT ![c] = NotReading] /\ UNCHANGED <<streams, seen>>
      BY <1>13, <2>1 DEF Receive
    <3>2. QED BY <1>10, <2>0, <3>1
  <2>2. CASE ~reader[c].lagged
    <3>g. PICK signal : signal = Head(reader[c].queue)
      OBVIOUS
    <3>1. CASE Duplicate(reader[c], signal)
      <4>1. reader'[c].pc = "live"
        <5>1. ~IsTerminal(signal)
          BY <3>1 DEF Duplicate, IsToken, IsTerminal, Terminal
        <5>2. reader'[c].pc = IF IsTerminal(signal) THEN "ended" ELSE "live"
          BY <1>13, <2>2, <3>g, ReceiveGives
        <5>3. QED BY <5>1, <5>2
      <4>2. seen' = seen
        BY <1>13, <2>2, <3>1, <3>g DEF Receive
      <4>3. QED BY <1>2, <1>6, <2>0, <4>1, <4>2
    <3>2. CASE ~Duplicate(reader[c], signal)
      <4>1. \E g, m, base : Handed(c, g, m, base)
        BY <1>13, <2>2, <3>2, <3>g, ReceiveGives
      <4>2. QED BY <1>7, <2>0, <4>1
    <3>3. QED BY <3>1, <3>2
  <2>3. QED BY <2>1, <2>2
<1>14. CASE UNCHANGED vars
  BY <1>2, <1>14 DEF vars, Closed
<1>15. QED BY <1>3, <1>4, <1>5, <1>8, <1>9, <1>11, <1>12, <1>13, <1>14 DEF Next

(* The in-memory spine is a Backend: over all its connections a client is  *)
(* given each chunk at most once and in order, and nothing after an end.   *)
THEOREM Implements == Spec => ContractSpec
<1>1. Init => Contract!Init
  <2> SUFFICES ASSUME Init PROVE Chunks = {} /\ Told = [c \in Client |-> <<>>] /\ Closed = {}
    BY DEF Contract!Init
  <2>1. Chunks = {} /\ Closed = {}
    BY DEF Init, Chunks, Closed, NotReading, Reading
  <2>2. ASSUME NEW c \in Client PROVE Told[c] = <<>>
    <3>1. Told[c] \in Seq(Int) /\ Len(Told[c]) = Len(seen[c])
      BY InitHolds, ToldTyped DEF IInv
    <3>2. Len(seen[c]) = 0
      BY DEF Init
    <3>3. QED BY <3>1, <3>2
  <2>3. Told = [c \in Client |-> <<>>]
    <3>1. Told = [c \in Client |-> Told[c]]
      BY DEF Told
    <3>2. [c \in Client |-> Told[c]] = [c \in Client |-> <<>>]
      BY <2>2
    <3>3. QED BY <3>1, <3>2
  <2>4. QED BY <2>1, <2>3
<1>2. IInv /\ [Next]_vars => [Contract!Next]_(Contract!vars)
  BY StepKeepsContract
<1>3. QED BY <1>1, <1>2, Invariance, PTL DEF Spec, ContractSpec, Contract!Spec
=============================================================================
