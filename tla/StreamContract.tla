---------------------------- MODULE StreamContract ----------------------------
(***************************************************************************)
(* What the routes rely on in a Backend (backend.rs), whichever one is     *)
(* configured: chunks are published in an order, a client is given each at *)
(* most once and in that order over all its connections, and nothing after *)
(* an end.  Holes are allowed here: how they are announced differs.        *)
(***************************************************************************)
EXTENDS Naturals, SequencesExt

CONSTANTS Client

VARIABLES chunks,   \* the numbers of the chunks published, in order, from 1
          given,    \* what each client was told: chunks, and 0 for all else
          ended,    \* clients that were told an end
          waived    \* nothing is promised any more

vars == <<chunks, given, ended, waived>>

Init == /\ chunks = {}
        /\ given = [c \in Client |-> <<>>]
        /\ ended = {}
        /\ waived = FALSE

Publish == /\ chunks \subseteq chunks'
           /\ UNCHANGED <<given, ended, waived>>

(* One client is given later chunks, or told an end, or both.              *)
Advance(c) == /\ c \notin ended
              /\ IsPrefix(given[c], given'[c])
              /\ \A k \in Len(given[c]) + 1 .. Len(given'[c]) :
                    given'[c][k] # 0 => /\ given'[c][k] \in chunks
                                        /\ \A j \in 1 .. k - 1 : given'[c][j] < given'[c][k]
              /\ \A d \in Client \ {c} : given'[d] = given[d]
              /\ ended' \in {ended, ended \cup {c}}
              /\ UNCHANGED <<chunks, waived>>

Waive == waived'

Next == Publish \/ (\E c \in Client : Advance(c)) \/ Waive

Spec == Init /\ [][Next]_vars
=============================================================================
