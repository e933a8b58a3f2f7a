-------------------------------- MODULE RunLog --------------------------------
(***************************************************************************)
(* What the record store promises, without rows, heads or hashes: a run is *)
(* a log of commitments that only grows, one entry at a time.  It opens    *)
(* with run_started, ends for good with run_finished, and the only thing   *)
(* that may ever happen to an entry already written is that text becomes   *)
(* unreadable, in the very step that logs a redaction.                     *)
(***************************************************************************)
EXTENDS Naturals

CONSTANTS Run, Field, None

VARIABLES length,      \* entries in the run's log, 0 before the run exists
          commitment,  \* what each entry commits to
          text,        \* the field values still readable
          sealed

vars == <<length, commitment, text, sealed>>

NoEntry == [s \in {} |-> None]

Init == /\ length = [r \in Run |-> 0]
        /\ commitment = [r \in Run |-> NoEntry]
        /\ text = [r \in Run |-> NoEntry]
        /\ sealed = [r \in Run |-> FALSE]

(* One entry of one of these kinds is added to run r, after erasing the    *)
(* fields fs of the entry at the position `at`; nothing else moves.        *)
Grow(r, kinds, at, fs) ==
    /\ length' = [length EXCEPT ![r] = @ + 1]
    /\ \A q \in Run \ {r} : /\ commitment'[q] = commitment[q]
                            /\ text'[q] = text[q]
    /\ DOMAIN commitment'[r] = 0..length[r]
    /\ DOMAIN text'[r] = 0..length[r]
    /\ \A s \in 0..(length[r] - 1) : commitment'[r][s] = commitment[r][s]
    /\ commitment'[r][length[r]].seq = length[r]
    /\ commitment'[r][length[r]].kind \in kinds
    /\ \A s \in 0..(length[r] - 1) :
          text'[r][s] = [f \in Field |-> IF s = at /\ f \in fs THEN None
                                         ELSE text[r][s][f]]

Start(r) == /\ length[r] = 0
            /\ Grow(r, {"run_started"}, 0, {})
            /\ UNCHANGED sealed

Write(r) == /\ length[r] > 0 /\ ~sealed[r]
            /\ Grow(r, {"message"}, 0, {})
            /\ UNCHANGED sealed

Redact(r, at, fs) == /\ length[r] > 0 /\ ~sealed[r]
                     /\ Grow(r, {"redaction"}, at, fs)
                     /\ UNCHANGED sealed

Finish(r) == /\ length[r] > 0 /\ ~sealed[r]
             /\ Grow(r, {"run_finished"}, 0, {})
             /\ sealed' = [sealed EXCEPT ![r] = TRUE]

Next == \E r \in Run :
           \/ Start(r)
           \/ Write(r)
           \/ \E at \in 0..(length[r] - 1), fs \in SUBSET Field : Redact(r, at, fs)
           \/ Finish(r)

Spec == Init /\ [][Next]_vars
=============================================================================
