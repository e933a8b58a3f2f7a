----------------------------- MODULE RecordStore -----------------------------
(***************************************************************************)
(* SqliteTlrStore: the tables behind the /v1 record routes.  Every write   *)
(* of the trait is one IMMEDIATE transaction on the one locked connection, *)
(* so each is one action here; an early return rolls back and is a step    *)
(* that changes nothing.                                                   *)
(*                                                                         *)
(* A Run is a primary key (ns, run_id).  A table is a function on the keys *)
(* of the rows it holds; tlr_events, tlr_idem and tlr_checkpoints are kept *)
(* by run first.  now_ms() is the wall clock, which may repeat or go back: *)
(* every write takes any timestamp.                                        *)
(***************************************************************************)
EXTENDS Chain

CONSTANTS Run,      \* (ns, run_id) pairs
          Key,      \* idempotency keys
          Value,    \* what clients put in the fields of an event
          Time,     \* wall-clock readings
          MaxSeq    \* bound: no event beyond this sequence number

ASSUME StoreAssumption ==
    /\ MaxSeq \in Nat
    /\ None \notin Time /\ None \notin Key
    /\ "metadata" \in Field

VARIABLES tlr_runs,         \* head_seq, head_hash and ended_ts of each run
          tlr_events,       \* the rows of the record, by sequence number
          tlr_idem,         \* the result kept for each idempotency key
          tlr_checkpoints,  \* the head hash signed at a sequence number
          replies           \* every AppendResult returned so far (history)

vars == <<tlr_runs, tlr_events, tlr_idem, tlr_checkpoints, replies>>

-----------------------------------------------------------------------------
InsertRow(table, key, row) ==
    [k \in DOMAIN table \cup {key} |-> IF k = key THEN row ELSE table[k]]

NoFields == [f \in Field |-> None]

Metadata(m) == [NoFields EXCEPT !["metadata"] = m]

AppendResult(e) ==
    [seq |-> e.seq, ts |-> e.ts, prev_hash |-> e.prev_hash, hash |-> e.hash]

Reply(r, key, res) == [run |-> r, key |-> key, res |-> res]

(* The kinds that reach append: the route refuses the three structural     *)
(* ones, which have routes of their own.                                   *)
AppendKind == Kind \ {"run_started", "run_finished", "redaction"}

(* Mutation of Appendable: the sealed check is missing.                    *)
AppendableWhenSealed(r) == r \in DOMAIN tlr_runs

(* head_of lets a write through: the run exists and is not sealed.         *)
Appendable(r) == r \in DOMAIN tlr_runs /\ tlr_runs[r].ended_ts = None

(* The event append_in_tx hashes against the current head.                 *)
NextEvent(r, ts, kind, fields) ==
    Hashed(tlr_runs[r].head_seq + 1, ts, kind, fields, tlr_runs[r].head_hash)

(* write_event: insert e above the given rows and advance the head.        *)
WriteEvent(r, rows, e, ended) ==
    /\ e.seq <= MaxSeq
    /\ e.seq \notin DOMAIN rows
    /\ tlr_events' = [tlr_events EXCEPT ![r] = InsertRow(rows, e.seq, e)]
    /\ tlr_runs' = InsertRow(tlr_runs, r, [head_seq  |-> e.seq,
                                           head_hash |-> e.hash,
                                           ended_ts  |-> ended])

(* Mutation of KeepResult: a row is kept for a call without a key too.     *)
KeepResultAlways(r, key, e) ==
    [tlr_idem EXCEPT ![r] = InsertRow(@, key, AppendResult(e))]

(* The idempotency table after e is appended under this key.               *)
KeepResult(r, key, e) ==
    IF key = None THEN tlr_idem
    ELSE [tlr_idem EXCEPT ![r] = InsertRow(@, key, AppendResult(e))]

(* Mutation of PriorResult: the head is returned instead of the original.  *)
PriorResultIsHead(r, key) ==
    AppendResult(tlr_events[r][tlr_runs[r].head_seq])

(* The result a key the run has seen is answered with.                     *)
PriorResult(r, key) == tlr_idem[r][key]

(* Mutation of EventCount: run_finished does not count itself.             *)
EventCountShort(r) == tlr_runs[r].head_seq + 1

(* The length the run will have once run_finished is in.                   *)
EventCount(r) == tlr_runs[r].head_seq + 2

(* Mutation of SignedHash: the head is read again when it is signed.       *)
SignedHashOfHead(reply) == tlr_runs[reply.run].head_hash

(* What a checkpoint for an earlier write attests.                         *)
SignedHash(reply) == reply.res.hash

-----------------------------------------------------------------------------
Init ==
    /\ tlr_runs = <<>>
    /\ tlr_events = [r \in Run |-> <<>>]
    /\ tlr_idem = [r \in Run |-> <<>>]
    /\ tlr_checkpoints = [r \in Run |-> <<>>]
    /\ replies = {}

CreateRun(r, ts) ==
    /\ r \notin DOMAIN tlr_runs
    /\ WriteEvent(r, tlr_events[r],
                  Hashed(0, ts, "run_started", Metadata([run_id |-> r]), ZERO),
                  None)
    /\ UNCHANGED <<tlr_idem, tlr_checkpoints, replies>>

(* append, first time for this key or without one.                         *)
AppendNew(r, key, ts, kind, fields) ==
    /\ key \notin DOMAIN tlr_idem[r]
    /\ Appendable(r)
    /\ LET e == NextEvent(r, ts, kind, fields)
       IN  /\ WriteEvent(r, tlr_events[r], e, None)
           /\ tlr_idem' = KeepResult(r, key, e)
           /\ replies' = replies \cup {Reply(r, key, AppendResult(e))}
    /\ UNCHANGED tlr_checkpoints

(* append, with a key the run has seen: looked up before head_of, so a     *)
(* retry is answered on a sealed run too.                                  *)
AppendReplay(r, key) ==
    /\ key \in DOMAIN tlr_idem[r]
    /\ replies' = replies \cup {Reply(r, key, PriorResult(r, key))}
    /\ UNCHANGED <<tlr_runs, tlr_events, tlr_idem, tlr_checkpoints>>

Seal(r, ts) ==
    /\ Appendable(r)
    /\ LET e == NextEvent(r, ts, "run_finished",
                          Metadata([event_count |-> EventCount(r)]))
       IN  /\ WriteEvent(r, tlr_events[r], e, ts)
           /\ replies' = replies \cup {Reply(r, None, AppendResult(e))}
    /\ UNCHANGED <<tlr_idem, tlr_checkpoints>>

Redact(r, target, fs, ts) ==
    /\ target \in DOMAIN tlr_events[r]
    /\ Appendable(r)
    /\ LET row  == Erased(tlr_events[r][target], fs)
           rows == [tlr_events[r] EXCEPT ![target] = row]
           e == NextEvent(r, ts, "redaction",
                          Metadata([target_seq |-> target, fields |-> fs]))
       IN  /\ WriteEvent(r, rows, e, None)
           /\ replies' = replies \cup {Reply(r, None, AppendResult(e))}
    /\ UNCHANGED <<tlr_idem, tlr_checkpoints>>

(* INSERT OR REPLACE of a checkpoint for a head some earlier write         *)
(* returned; when it is written is up to the handler that holds the reply. *)
PutCheckpoint(reply) ==
    /\ tlr_checkpoints' = [tlr_checkpoints EXCEPT
                             ![reply.run] = InsertRow(@, reply.res.seq,
                                                      SignedHash(reply))]
    /\ UNCHANGED <<tlr_runs, tlr_events, tlr_idem, replies>>

Body == [Field -> Value \cup {None}]

Next ==
    \/ \E r \in Run, ts \in Time : CreateRun(r, ts)
    \/ \E r \in Run, key \in Key \cup {None}, ts \in Time, kind \in AppendKind,
          fields \in Body : AppendNew(r, key, ts, kind, fields)
    \/ \E r \in Run, key \in Key : AppendReplay(r, key)
    \/ \E r \in Run, ts \in Time : Seal(r, ts)
    \/ \E r \in Run, target \in 0..MaxSeq, fs \in SUBSET Field, ts \in Time :
          Redact(r, target, fs, ts)
    \/ \E reply \in replies : PutCheckpoint(reply)

Spec == Init /\ [][Next]_vars

-----------------------------------------------------------------------------
(* What GET /events returns when it is paged to the end.                   *)
Record(r) == [i \in 1..(tlr_runs[r].head_seq + 1) |-> tlr_events[r][i - 1]]

(* Types and keys of the tables: rows exist only for runs that exist, no   *)
(* idempotency row is kept for a write that carried no key.                *)
TypeOK ==
    /\ DOMAIN tlr_runs \subseteq Run
    /\ \A r \in DOMAIN tlr_runs :
          /\ DOMAIN tlr_runs[r] = {"head_seq", "head_hash", "ended_ts"}
          /\ tlr_runs[r].head_seq \in 0..MaxSeq
          /\ tlr_runs[r].ended_ts \in Time \cup {None}
    /\ DOMAIN tlr_events = Run
    /\ DOMAIN tlr_idem = Run
    /\ DOMAIN tlr_checkpoints = Run
    /\ \A r \in Run :
          /\ DOMAIN tlr_events[r] \subseteq 0..MaxSeq
          /\ DOMAIN tlr_idem[r] \subseteq Key
          /\ DOMAIN tlr_checkpoints[r] \subseteq 0..MaxSeq
          /\ r \notin DOMAIN tlr_runs => DOMAIN tlr_events[r] = {}
    /\ \A a \in replies : a.run \in Run /\ a.key \in Key \cup {None}

(* The record of every run passes verify_chain at every moment, through    *)
(* any mix of appends, redactions and sealing, and the head kept beside it *)
(* is the head the verifier computes.                                      *)
ChainVerifies ==
    \A r \in DOMAIN tlr_runs :
        LET result == VerifyChain(Record(r))
        IN  /\ DOMAIN tlr_events[r] = 0..tlr_runs[r].head_seq
            /\ result.ok
            /\ result.head_seq = tlr_runs[r].head_seq
            /\ result.head_hash = tlr_runs[r].head_hash

(* A run counts as sealed for the server exactly when a verifier reading   *)
(* nothing but the record says so, run_finished is the last event and the  *)
(* only one of its kind, and the count in it is the length of the record.  *)
SealedRecord ==
    \A r \in DOMAIN tlr_runs :
        LET es == Record(r)
            finished == {i \in 1..Len(es) : es[i].kind = "run_finished"}
        IN  IF tlr_runs[r].ended_ts = None THEN finished = {}
            ELSE /\ finished = {Len(es)}
                 /\ es[Len(es)].fields["metadata"] = [event_count |-> Len(es)]

(* Every result ever returned to a writer still describes the event stored *)
(* at its sequence number: nothing acknowledged is renumbered or rehashed. *)
RepliesHold ==
    \A a \in replies :
        /\ a.res.seq \in DOMAIN tlr_events[a.run]
        /\ a.res = AppendResult(tlr_events[a.run][a.res.seq])

(* An idempotency key stands for one event: all replies to a key agree,    *)
(* and two keys never share the event they were told about.                *)
OneEventPerKey ==
    \A a, b \in replies :
        a.run = b.run /\ a.key # None =>
            (a.key = b.key <=> a.res.seq = b.res.seq)

(* A checkpoint keeps matching the event it covers, whatever was appended  *)
(* or erased between the write it vouches for and the moment it is stored. *)
CheckpointsHold ==
    \A r \in Run : \A s \in DOMAIN tlr_checkpoints[r] :
        /\ s \in DOMAIN tlr_events[r]
        /\ tlr_checkpoints[r][s] = tlr_events[r][s].hash

(* The run as a log: how long it is, what its entries commit to, what text *)
(* is still there to read.                                                 *)
Length(r) == IF r \in DOMAIN tlr_runs THEN tlr_runs[r].head_seq + 1 ELSE 0
Commitment(r) == [s \in DOMAIN tlr_events[r] |-> Canon(tlr_events[r][s])]
Text(r) == [s \in DOMAIN tlr_events[r] |-> tlr_events[r][s].fields]
Sealed(r) == r \in DOMAIN tlr_runs /\ tlr_runs[r].ended_ts # None

Log == INSTANCE RunLog WITH length     <- [r \in Run |-> Length(r)],
                            commitment <- [r \in Run |-> Commitment(r)],
                            text       <- [r \in Run |-> Text(r)],
                            sealed     <- [r \in Run |-> Sealed(r)]

(* The tables implement the append-only log of RunLog: commitments are     *)
(* never rewritten, text disappears only in the step that logs a redaction *)
(* of that event, and a sealed run is final.                               *)
LogSpec == Log!Spec
=============================================================================
