-------------------------------- MODULE Chain --------------------------------
(***************************************************************************)
(* The record format of tideline-proto: what an event's hash commits to,   *)
(* how an erased field keeps its digest, and the verifier every client     *)
(* runs over a record (verify_chain).                                      *)
(*                                                                         *)
(* SHA-256 is idealised as a free constructor: two digests are equal only  *)
(* when what was hashed is equal.  The canonical form is fixed-width, so   *)
(* nothing is lost by keeping its parts as a record.                       *)
(***************************************************************************)
EXTENDS Naturals, Sequences

CONSTANTS Field,    \* the redactable fields of an event (REDACTABLE)
          None      \* a field that is not set, a timestamp not yet written

ZERO == <<>>

HashOf(value) == <<value>>

(* "message" stands for the four kinds a client may append: message,       *)
(* model_call, tool_call and decision, which the chain treats alike.       *)
Kind == {"run_started", "message", "redaction", "run_finished"}

RunEvent(seq, ts, kind, fields, redacted, prev_hash, hash) ==
    [seq |-> seq, ts |-> ts, kind |-> kind, fields |-> fields,
     redacted |-> redacted, prev_hash |-> prev_hash, hash |-> hash]

(* present -> digest of the value; erased -> the retained digest; never    *)
(* set -> zero.  A present value takes precedence over a retained digest.  *)
Digest(e, f) ==
    IF e.fields[f] # None THEN HashOf(e.fields[f])
    ELSE IF f \in DOMAIN e.redacted THEN e.redacted[f]
    ELSE ZERO

Canon(e) == [seq     |-> e.seq,
             ts      |-> e.ts,
             kind    |-> e.kind,
             digests |-> [f \in Field |-> Digest(e, f)]]

EventHash(e, prev) == <<Canon(e), prev>>

(* An event with its hash computed against its predecessor's.              *)
Hashed(seq, ts, kind, fields, prev) ==
    LET core == RunEvent(seq, ts, kind, fields, <<>>, prev, ZERO)
    IN  RunEvent(seq, ts, kind, fields, <<>>, prev, EventHash(core, prev))

(* Mutations of Erased: one drops the digests an earlier redaction kept,   *)
(* one rehashes the row without the erased text.                           *)
ErasedForgetsEarlier(e, fs) ==
    LET present == {f \in fs : e.fields[f] # None}
    IN  RunEvent(e.seq, e.ts, e.kind,
                 [f \in Field |-> IF f \in present THEN None ELSE e.fields[f]],
                 [f \in present |-> HashOf(e.fields[f])], e.prev_hash, e.hash)

ErasedRehashes(e, fs) ==
    Hashed(e.seq, e.ts, e.kind,
           [f \in Field |-> IF f \in fs THEN None ELSE e.fields[f]], e.prev_hash)

(* Erase the fields in fs: a value still present moves to the retained     *)
(* digests, a field that is unset or already erased is skipped.            *)
Erased(e, fs) ==
    LET present == {f \in fs : e.fields[f] # None}
    IN  RunEvent(e.seq, e.ts, e.kind,
                 [f \in Field |-> IF f \in present THEN None ELSE e.fields[f]],
                 [f \in DOMAIN e.redacted \cup present |->
                     IF f \in present THEN HashOf(e.fields[f])
                                      ELSE e.redacted[f]],
                 e.prev_hash, e.hash)

-----------------------------------------------------------------------------
(* verify_chain: the checks at index i, in the order the loop makes them.  *)
(* The loop carries the hash it just recomputed; an event only gets its    *)
(* turn when its predecessor passed, so that is the predecessor's hash.    *)

PrevOf(es, i) == IF i = 1 THEN ZERO ELSE es[i - 1].hash

Fault(es, i) ==
    IF es[i].seq # i - 1                                 THEN "seq_gap"
    ELSE IF es[i].prev_hash # PrevOf(es, i)              THEN "prev_mismatch"
    ELSE IF es[i].hash # EventHash(es[i], PrevOf(es, i)) THEN "hash_mismatch"
    ELSE "none"

VerifyChain(es) ==
    IF es = <<>> THEN [ok |-> FALSE, error |-> "empty"]
    ELSE IF es[1].kind # "run_started"
    THEN [ok |-> FALSE, error |-> "not_run_started"]
    ELSE LET faults == {i \in 1..Len(es) : Fault(es, i) # "none"}
         IN  IF faults # {}
             THEN LET first == CHOOSE i \in faults : \A j \in faults : i <= j
                  IN  [ok |-> FALSE, error |-> Fault(es, first),
                       seq |-> es[first].seq]
             ELSE [ok |-> TRUE, len |-> Len(es),
                   head_seq  |-> es[Len(es)].seq,
                   head_hash |-> es[Len(es)].hash,
                   sealed    |-> es[Len(es)].kind = "run_finished"]
=============================================================================
