------------------------------ MODULE RedisStream ------------------------------
(***************************************************************************)
(* The Redis spine (redis_backend.rs) for one stream id: the keys in the   *)
(* shared Redis, the commands the instances send to it, the readers that   *)
(* any instance serves, and clients that resume where they left off.       *)
(*                                                                         *)
(* A Redis Stream is only appended to at one end and removed from at the   *)
(* other (MAXLEN, DEL, expiry), so it is the part of every entry ever      *)
(* added that comes after the first `gone`; an entry id is its position.   *)
(* Time is counted in ticks, and `life` is what a key has left of it.  The *)
(* commands of one handler take far less than a tick.                      *)
(***************************************************************************)
EXTENDS Naturals, Sequences, FiniteSets, SequencesExt, FiniteSetsExt

CONSTANTS Client,        \* subscribers
          Caller,        \* calls of complete and fail, on any instance
          MaxBuffer,     \* entries MAXLEN retains at least (65 536)
          BatchSize,     \* entries an XREAD returns at most (512)
          IdleTtl,       \* ticks a key lives after a publish (30 min)
          CompletedTtl,  \* ticks it lives after a terminal (5 min)
          MaxEntries     \* bound: entries ever added

ASSUME RedisAssumption ==
    /\ MaxBuffer \in Nat \ {0}
    /\ BatchSize \in Nat \ {0}
    /\ CompletedTtl \in Nat \ {0}
    /\ IdleTtl \in Nat /\ IdleTtl > CompletedTtl
    /\ MaxEntries \in Nat

VARIABLES entries,   \* every entry ever added to the stream key
          gone,      \* how many of them were removed
          counter,   \* the offset counter, 0 when its key is absent
          epoch,     \* history: times the counter key was lost
          life,      \* ticks each key has left, 0 when it is absent
          marking,   \* the PEXPIRE each call of mark_terminal sends next
          torn,      \* history: those commands were once cut or interleaved
          reader,    \* the live connection of each client
          resume,    \* the offset each client asks for when it comes again
          seen,      \* positions of the entries each client was given, 0 for a gap
          lost       \* history: entries removed before a connected client read them

redis == <<entries, gone, counter, epoch, life>>
vars == <<entries, gone, counter, epoch, life, marking, torn, reader, resume, seen, lost>>

-----------------------------------------------------------------------------
Key == {"stream", "counter", "privacy"}
Terminal == {"done", "error"}
NoExpiry == IdleTtl + 1      \* the life of a key nobody gave a TTL
Gap == 0

(* What parse makes of an entry.                                           *)
Token(offset) == [kind |-> "token", offset |-> offset, epoch |-> epoch]
End(kind) == [kind |-> kind, offset |-> 0, epoch |-> 0]

IsToken(i) == i # Gap /\ entries[i].kind = "token"
IsEnd(i) == i # Gap /\ entries[i].kind \in Terminal

Retained == gone + 1 .. Len(entries)
Tokens == {i \in Retained : IsToken(i)}
Ends == {i \in Retained : IsEnd(i)}

(* Mutation of UpToEnd: a later terminal stands for the earlier ones.      *)
UpToEndLast(S) == {i \in S : i \in Ends => \A e \in S \cap Ends : e <= i}

(* What a reader that stops at a terminal takes of these entries.          *)
UpToEnd(S) == {i \in S : \A e \in S \cap Ends : i <= e}

(* `queue` is what the reader has read and not passed on yet, in order.    *)
NotReading == [pc |-> "idle", from |-> 0, cursor |-> 0, queue |-> {}]
Reading(c) == reader[c].pc = "live"

(* Mutation of After: the last token is asked for again.                   *)
AfterSame(i) == entries[i].offset

(* Last-Event-ID + 1.                                                      *)
After(i) == entries[i].offset + 1

(* Mutation of Snapshot: a hole in front of it is not announced.           *)
SnapshotSilent(from) ==
    {i \in UpToEnd(Retained) : IsToken(i) => entries[i].offset >= from}

(* subscribe, the snapshot: a gap when `from` lies before the first token  *)
(* retained, the tokens from there on, and the first terminal.             *)
Snapshot(from) ==
    LET earliest == IF Tokens = {} THEN from ELSE entries[Min(Tokens)].offset
        lower    == Max({from, earliest})
    IN  (IF from < earliest THEN {Gap} ELSE {})
        \cup {i \in UpToEnd(Retained) : IsToken(i) => entries[i].offset >= lower}

(* Mutation of Cursor: an exclusive cursor is taken for an inclusive one.  *)
CursorPast == Len(entries) + 1

(* How far the snapshot goes; the live tail continues after it, or at "0". *)
Cursor == IF Retained = {} THEN 0 ELSE Max(UpToEnd(Retained))

(* XREAD: the entries after the cursor, as far as a terminal.              *)
Batch(cursor) ==
    UpToEnd({i \in Retained : i > cursor /\ i <= Max({cursor, gone}) + BatchSize})

(* Mutation of KeptFrom: MAXLEN keeps one entry less.                      *)
KeptFromShort == Max({gone, Len(entries) + 2 - MaxBuffer})

(* How much MAXLEN may have removed once another entry is added.           *)
KeptFrom == Max({gone, Len(entries) + 1 - MaxBuffer})

(* Mutation of Refreshed: the privacy key keeps its old TTL.               *)
RefreshedButPrivacy ==
    [key \in Key |-> IF key = "privacy" THEN life[key] ELSE IdleTtl]

(* The PEXPIREs of PUBLISH_LUA.                                            *)
Refreshed ==
    [key \in Key |-> IF key = "privacy" /\ life[key] = 0 THEN 0 ELSE IdleTtl]

(* PEXPIRE key completed_ttl, without effect on an absent key.             *)
Shortened(key) == [life EXCEPT ![key] = IF @ = 0 THEN 0 ELSE CompletedTtl]

(* Connected clients that had yet to read what is removed now.             *)
Losing(removed) ==
    lost' = [c \in Client |->
                IF Reading(c) THEN lost[c] \cup {i \in removed : i > reader[c].cursor}
                ELSE lost[c]]

-----------------------------------------------------------------------------
Init ==
    /\ entries = <<>>
    /\ gone = 0
    /\ counter = 0
    /\ epoch = 0
    /\ life = [key \in Key |-> 0]
    /\ marking = [e \in Caller |-> "none"]
    /\ torn = FALSE
    /\ reader = [c \in Client |-> NotReading]
    /\ resume = [c \in Client |-> 0]
    /\ seen = [c \in Client |-> <<>>]
    /\ lost = [c \in Client |-> {}]

(* publish: PUBLISH_LUA, one step in Redis.  `MAXLEN ~` keeps at least     *)
(* MaxBuffer entries, terminals included, and may keep more.               *)
Publish ==
    /\ Len(entries) < MaxEntries
    /\ counter' = counter + 1
    /\ entries' = Append(entries, Token(counter))
    /\ gone' \in gone .. KeptFrom
    /\ Losing(gone + 1 .. gone')
    /\ life' = Refreshed
    /\ torn' = (torn \/ \E e \in Caller : marking[e] \in {"counter", "privacy"})
    /\ UNCHANGED <<epoch, marking, reader, resume, seen>>

(* set_private.                                                            *)
SetPrivate ==
    /\ life' = [life EXCEPT !["privacy"] = IdleTtl]
    /\ UNCHANGED <<entries, gone, counter, epoch, marking, torn, reader, resume, seen, lost>>

(* mark_terminal, for complete and for fail: XADD without MAXLEN or TTL... *)
MarkTerminal(e, kind) ==
    /\ marking[e] = "none"
    /\ Len(entries) < MaxEntries
    /\ entries' = Append(entries, End(kind))
    /\ life' = [life EXCEPT !["stream"] = IF @ = 0 THEN NoExpiry ELSE @]
    /\ marking' = [marking EXCEPT ![e] = "stream"]
    /\ UNCHANGED <<gone, counter, epoch, torn, reader, resume, seen, lost>>

Following(key) ==
    CASE key = "stream" -> "counter" [] key = "counter" -> "privacy" [] OTHER -> "none"

(* ... then one PEXPIRE per key, whose failure is ignored.                 *)
Pexpire(e) ==
    /\ marking[e] \in Key
    /\ \/ life' = Shortened(marking[e]) /\ torn' = torn
       \/ life' = life /\ torn' = TRUE
    /\ marking' = [marking EXCEPT ![e] = Following(marking[e])]
    /\ UNCHANGED <<entries, gone, counter, epoch, reader, resume, seen, lost>>

(* The instance crashes, or the request is dropped, between two commands.  *)
Cut(e) ==
    /\ marking[e] \in Key
    /\ marking' = [marking EXCEPT ![e] = "none"]
    /\ torn' = TRUE
    /\ UNCHANGED <<entries, gone, counter, epoch, life, reader, resume, seen, lost>>

(* The keys that are no more take their contents with them.                *)
Forget(absent) ==
    /\ gone' = IF "stream" \in absent THEN Len(entries) ELSE gone
    /\ Losing(gone + 1 .. gone')
    /\ counter' = IF "counter" \in absent THEN 0 ELSE counter
    /\ epoch' = IF "counter" \in absent /\ counter # 0 THEN epoch + 1 ELSE epoch

(* delete: DEL of the three keys.                                          *)
Delete ==
    /\ \E key \in Key : life[key] # 0
    /\ life' = [key \in Key |-> 0]
    /\ Forget(Key)
    /\ UNCHANGED <<entries, marking, torn, reader, resume, seen>>

(* Time passes, and Redis drops the keys whose time is over.               *)
Tick ==
    /\ \A e \in Caller : marking[e] = "none"
    /\ \E key \in Key : life[key] \in 1..IdleTtl
    /\ life' = [key \in Key |-> IF life[key] \in 1..IdleTtl THEN life[key] - 1
                                ELSE life[key]]
    /\ Forget({key \in Key : life'[key] = 0})
    /\ UNCHANGED <<entries, marking, torn, reader, resume, seen>>

(* subscribe: XRANGE on a connection of its own.                           *)
Subscribe(c) ==
    /\ reader[c].pc = "idle"
    /\ reader' = [reader EXCEPT ![c] = [pc     |-> "live",
                                        from   |-> resume[c],
                                        cursor |-> Cursor,
                                        queue  |-> Snapshot(resume[c])]]
    /\ UNCHANGED <<redis, marking, torn, resume, seen, lost>>

(* The live tail: the next entries, when the last were all passed on.      *)
ReadMore(c) ==
    /\ Reading(c) /\ reader[c].queue = {}
    /\ LET batch == Batch(reader[c].cursor)
       IN  /\ batch # {}
           /\ reader' = [reader EXCEPT ![c].queue = batch, ![c].cursor = Max(batch)]
    /\ UNCHANGED <<redis, marking, torn, resume, seen, lost>>

(* One signal goes to the client; a terminal ends the connection.  Gaps    *)
(* told one after the other, over several connections, are kept as one.    *)
Deliver(c) ==
    /\ Reading(c) /\ reader[c].queue # {}
    /\ LET i == Min(reader[c].queue)
       IN  /\ seen' = [seen EXCEPT ![c] =
                         IF i = Gap /\ @ # <<>> /\ Last(@) = Gap THEN @ ELSE Append(@, i)]
           /\ resume' = [resume EXCEPT ![c] = IF IsToken(i) THEN After(i) ELSE @]
           /\ reader' = [reader EXCEPT ![c].queue = @ \ {i},
                                       ![c].pc = IF IsEnd(i) THEN "ended" ELSE @]
    /\ UNCHANGED <<redis, marking, torn, lost>>

(* The connection drops; the client will resume.                           *)
Drop(c) ==
    /\ Reading(c)
    /\ reader' = [reader EXCEPT ![c] = NotReading]
    /\ UNCHANGED <<redis, marking, torn, resume, seen, lost>>

(* A connection or command that fails is told as an error and the end.     *)
Unavailable(c) ==
    /\ reader[c].pc = "idle" \/ (Reading(c) /\ reader[c].queue = {})
    /\ reader' = [reader EXCEPT ![c].pc = "failed"]
    /\ UNCHANGED <<redis, marking, torn, resume, seen, lost>>

Next ==
    \/ Publish \/ SetPrivate \/ Delete \/ Tick
    \/ \E e \in Caller :
          \/ \E kind \in Terminal : MarkTerminal(e, kind)
          \/ Pexpire(e) \/ Cut(e)
    \/ \E c \in Client :
          Subscribe(c) \/ ReadMore(c) \/ Deliver(c) \/ Drop(c) \/ Unavailable(c)

Spec == Init /\ [][Next]_vars

(* A connected reader is polled, and its XREAD returns what is there.      *)
FairSpec == Spec /\ \A c \in Client : WF_vars(ReadMore(c) \/ Deliver(c))

-----------------------------------------------------------------------------
(* A key is present exactly while it has a life; the stream key holds      *)
(* entries exactly while it is present, the counter counts exactly then.   *)
TypeOK ==
    /\ gone \in 0..Len(entries)
    /\ life \in [Key -> 0..NoExpiry]
    /\ (life["stream"] = 0) = (Retained = {})
    /\ (life["counter"] = 0) = (counter = 0)
    /\ marking \in [Caller -> Key \cup {"none"}]
    /\ \A c \in Client : reader[c].pc \in {"idle", "live", "ended", "failed"}

(* The seam between snapshot and live tail: a connected client has been    *)
(* given, or is about to be, every token at or above the offset it asked   *)
(* for that is still retained as far as it has read.  (Once a counter has  *)
(* outlived by its log has started over, it may not have been.)            *)
NothingRetainedIsSkipped ==
    torn \/ \A c \in Client : reader[c].pc \in {"live", "ended"} =>
        \A i \in Tokens :
            i <= reader[c].cursor /\ entries[i].offset >= reader[c].from =>
                i \in ToSet(seen[c]) \cup reader[c].queue

(* Between two tokens a client is given one after the other, without a gap *)
(* in between, nothing is missing but what was removed while the client    *)
(* was connected and behind: only falling behind loses tokens silently.    *)
OnlyLagLosesSilently ==
    \A c \in Client : \A k \in 2..Len(seen[c]) :
        LET i == seen[c][k - 1]
            j == seen[c][k]
        IN  /\ ~torn
            /\ IsToken(i) /\ IsToken(j)
            /\ entries[i].epoch = entries[j].epoch
            => /\ entries[i].offset < entries[j].offset
               /\ \A m \in i + 1 .. j - 1 : IsToken(m) => m \in lost[c]

(* A client that was told an end was told the first one retained: a later  *)
(* complete or fail does not replace it while it is there.                 *)
EndIsTheFirst ==
    \A c \in Client : reader[c].pc = "ended" =>
        \A i \in Ends : Last(seen[c]) <= i

(* "Offsets and stream order can never disagree", and "in lockstep": the   *)
(* offsets retained ascend, neither the counter nor a privacy flag expires *)
(* while tokens it belongs to are still there, and no key lives for ever,  *)
(* unless a mark_terminal was cut between its commands or a publish came   *)
(* between them (the counter may then expire before the log).              *)
KeysInStep ==
    \/ torn
    \/ \E e \in Caller : marking[e] # "none"
    \/ /\ \A i, j \in Tokens : i < j => entries[i].offset < entries[j].offset
       /\ life \in [Key -> 0..IdleTtl]
       /\ Tokens # {} => life["counter"] >= life["stream"]
       /\ life["privacy"] # 0 => life["privacy"] >= life["stream"]

(* The contract of every Backend, waived once a mark_terminal was torn.    *)
(* Chunks are numbered by their positions.                                 *)
Number(i) == IF IsToken(i) THEN i ELSE 0

Chunks == {i \in 1..Len(entries) : IsToken(i)}
Told == [c \in Client |-> [k \in 1..Len(seen[c]) |-> Number(seen[c][k])]]
Closed == {c \in Client : reader[c].pc \in {"ended", "failed"}}

Contract == INSTANCE StreamContract
    WITH chunks <- Chunks, given <- Told, ended <- Closed, waived <- torn

ContractSpec == Contract!Spec

(* A reader is not left connected to a stream whose end is there to read.  *)
Unfinished(c) == Reading(c) /\ Ends # {}

EndReachesReaders == \A c \in Client : Unfinished(c) ~> ~Unfinished(c)
=============================================================================
