-------------------------- MODULE RecordStoreProofs --------------------------
(***************************************************************************)
(* Proofs about Chain, for every record, and about RecordStore, for every  *)
(* set of runs, keys, fields, values and timestamps, and every bound on    *)
(* the length of a run.                                                    *)
(*                                                                         *)
(* What verify_chain and a head hash say about a record comes first.  The  *)
(* induction over a record runs downwards from its head.  It is put as the *)
(* greatest counterexample of a set of positions, which WFMin gives.       *)
(***************************************************************************)
EXTENDS RecordStore, WellFoundedInduction, TLAPS

-----------------------------------------------------------------------------
(* Greatest members.                                                       *)

(* A set of naturals that is not empty has a least member.                 *)
LEMMA LeastMember ==
    ASSUME NEW T \in SUBSET Nat, T # {}
    PROVE  \E m \in T : \A k \in T : m <= k
<1> DEFINE R == OpToRel(<, Nat)
<1>1. IsWellFoundedOn(R, Nat)
  BY NatLessThanWellFounded
<1>2. \A x, y \in Nat : y < x => <<y, x>> \in R
  BY DEF OpToRel
<1> HIDE DEF R
<1>3. \E m \in T : \A y \in T : ~(<<y, m>> \in R)
  BY <1>1, WFMin
<1>4. PICK m \in T : \A y \in T : <<y, m>> \notin R
  BY <1>3
<1>5. ASSUME NEW k \in T PROVE m <= k
  <2>1. m \in Nat /\ k \in Nat
    OBVIOUS
  <2>2. <<k, m>> \notin R
    BY <1>4
  <2>3. ~(k < m)
    BY <1>2, <2>1, <2>2
  <2>4. QED BY <2>1, <2>3
<1>6. QED BY <1>5

(* A set of positions up to n that is not empty has a greatest member.     *)
LEMMA GreatestMember ==
    ASSUME NEW n \in Nat, NEW T \in SUBSET (1..n), T # {}
    PROVE  \E m \in T : \A k \in T : k <= m
<1> DEFINE Below == {n - k : k \in T}
<1>1. Below \in SUBSET Nat
  <2>1. \A k \in T : k \in 1..n
    OBVIOUS
  <2>2. \A k \in T : n - k \in Nat
    BY <2>1
  <2>3. QED BY <2>2
<1>2. Below # {}
  OBVIOUS
<1>3. PICK least \in Below : \A d \in Below : least <= d
  BY <1>1, <1>2, LeastMember
<1>4. PICK m \in T : least = n - m
  OBVIOUS
<1>5. ASSUME NEW k \in T PROVE k <= m
  <2>1. least <= n - k
    BY <1>3
  <2>2. k \in 1..n /\ m \in 1..n
    OBVIOUS
  <2>3. QED BY <1>4, <2>1, <2>2
<1>6. QED BY <1>5

-----------------------------------------------------------------------------
(* What verify_chain checks.                                               *)

(* The first n events passed their turn in the loop.                       *)
Linked(es, n) == \A i \in 1..n : Fault(es, i) = "none"

(* Passing the loop's turn is the three comparisons it makes.              *)
LEMMA Passed ==
    ASSUME NEW es, NEW i
    PROVE  Fault(es, i) = "none" <=> /\ es[i].seq = i - 1
                                     /\ es[i].prev_hash = PrevOf(es, i)
                                     /\ es[i].hash = EventHash(es[i], PrevOf(es, i))
BY DEF Fault

(* verify_chain accepts a record exactly if it begins with run_started and *)
(* every event passes, and then tells its last event's number and hash.    *)
LEMMA Verified ==
    ASSUME NEW es, es # <<>>
    PROVE  /\ VerifyChain(es).ok <=> /\ es[1].kind = "run_started"
                                     /\ Linked(es, Len(es))
           /\ VerifyChain(es).ok =>
                 /\ VerifyChain(es).head_seq = es[Len(es)].seq
                 /\ VerifyChain(es).head_hash = es[Len(es)].hash
<1> DEFINE faults == {i \in 1..Len(es) : Fault(es, i) # "none"}
           result == [ok |-> TRUE, len |-> Len(es),
                      head_seq  |-> es[Len(es)].seq,
                      head_hash |-> es[Len(es)].hash,
                      sealed    |-> es[Len(es)].kind = "run_finished"]
<1>1. CASE es[1].kind # "run_started"
  BY <1>1 DEF VerifyChain
<1>2. CASE es[1].kind = "run_started" /\ faults # {}
  <2>1. ~VerifyChain(es).ok
    BY <1>2 DEF VerifyChain
  <2>2. ~Linked(es, Len(es))
    BY <1>2 DEF Linked
  <2>3. QED BY <2>1, <2>2
<1>3. CASE es[1].kind = "run_started" /\ faults = {}
  <2>1. VerifyChain(es) = result
    BY <1>3 DEF VerifyChain
  <2>2. Linked(es, Len(es))
    BY <1>3 DEF Linked
  <2>3. QED BY <1>3, <2>1, <2>2
<1>4. QED BY <1>1, <1>2, <1>3

(* An empty record is not accepted.                                        *)
LEMMA EmptyRefused == ~VerifyChain(<<>>).ok
BY DEF VerifyChain

-----------------------------------------------------------------------------
(* A hash pins everything below it.                                        *)

(* Equal hashes of two events in their turn: the same entry, and equal     *)
(* hashes below.                                                           *)
LEMMA HashStep ==
    ASSUME NEW es, NEW ds, NEW i,
           Fault(es, i) = "none", Fault(ds, i) = "none",
           es[i].hash = ds[i].hash
    PROVE  /\ Canon(es[i]) = Canon(ds[i])
           /\ PrevOf(es, i) = PrevOf(ds, i)
<1>1. EventHash(es[i], PrevOf(es, i)) = EventHash(ds[i], PrevOf(ds, i))
  BY Passed
<1>2. QED BY <1>1 DEF EventHash

(* Two records whose first n events pass, and whose nth events have the    *)
(* same hash, have the same first n entries: whoever knows that one hash   *)
(* notices every event altered, dropped, added or moved below it.          *)
LEMMA HashPinsHistory ==
    ASSUME NEW es, NEW ds, NEW n \in Nat \ {0},
           Linked(es, n), Linked(ds, n), es[n].hash = ds[n].hash
    PROVE  \A i \in 1..n : Canon(es[i]) = Canon(ds[i])
<1> DEFINE apart == {i \in 1..n : es[i].hash # ds[i].hash}
<1>1. apart = {}
  <2> SUFFICES ASSUME apart # {} PROVE FALSE
    OBVIOUS
  <2>1. PICK m \in apart : \A k \in apart : k <= m
    BY GreatestMember
  <2>2. m \in 1..n /\ m # n
    OBVIOUS
  <2>3. m + 1 \in 1..n /\ m + 1 # 1 /\ (m + 1) - 1 = m
    BY <2>2
  <2>4. m + 1 \notin apart
    BY <2>1, <2>2
  <2>5. es[m + 1].hash = ds[m + 1].hash
    BY <2>3, <2>4
  <2>6. PrevOf(es, m + 1) = PrevOf(ds, m + 1)
    BY <2>3, <2>5, HashStep DEF Linked
  <2>7. es[m].hash = ds[m].hash
    BY <2>3, <2>6 DEF PrevOf
  <2>8. QED BY <2>7
<1>2. QED BY <1>1, HashStep DEF Linked

(* verify_chain and the head hash it tells identify a record: two records  *)
(* it accepts with the same head are of the same length and agree in every *)
(* event, up to text that was erased.                                      *)
THEOREM HeadPinsRecord ==
    ASSUME NEW S, NEW es \in Seq(S), NEW ds \in Seq(S),
           VerifyChain(es).ok, VerifyChain(ds).ok,
           VerifyChain(es).head_hash = VerifyChain(ds).head_hash
    PROVE  /\ Len(es) = Len(ds)
           /\ \A i \in 1..Len(es) : Canon(es[i]) = Canon(ds[i])
<1> DEFINE n == Len(es)
           m == Len(ds)
<1>1. es # <<>> /\ ds # <<>>
  BY EmptyRefused
<1>2. n \in Nat \ {0} /\ m \in Nat \ {0}
  BY <1>1
<1>3. /\ Linked(es, n) /\ Linked(ds, m)
      /\ es[n].hash = ds[m].hash
  BY <1>1, Verified
<1> HIDE DEF n, m
<1>4. /\ es[n].hash = EventHash(es[n], PrevOf(es, n)) /\ es[n].seq = n - 1
      /\ ds[m].hash = EventHash(ds[m], PrevOf(ds, m)) /\ ds[m].seq = m - 1
  BY <1>2, <1>3, Passed, SMTT(30) DEF Linked
<1>5. Canon(es[n]) = Canon(ds[m])
  <2>1. EventHash(es[n], PrevOf(es, n)) = EventHash(ds[m], PrevOf(ds, m))
    BY <1>3, <1>4
  <2>2. QED BY <2>1 DEF EventHash
<1>6. es[n].seq = ds[m].seq
  BY <1>5 DEF Canon
<1>7. n = m
  BY <1>2, <1>4, <1>6
<1>8. \A i \in 1..n : Canon(es[i]) = Canon(ds[i])
  BY <1>2, <1>3, <1>7, HashPinsHistory, ZenonT(30)
<1>9. QED BY <1>7, <1>8 DEF n, m

-----------------------------------------------------------------------------
(* The inductive invariant.                                                *)

(* Row s is what append_in_tx put there, up to erased fields.              *)
RowOK(rows, s) ==
    /\ rows[s].seq = s
    /\ rows[s].prev_hash = IF s = 0 THEN ZERO ELSE rows[s - 1].hash
    /\ rows[s].hash = EventHash(rows[s], rows[s].prev_hash)
    /\ rows[s].kind = "run_started" <=> s = 0
    /\ rows[s].fields = [f \in Field |-> rows[s].fields[f]]

(* The rows of a run are a chain, its head is the last of them, and it is  *)
(* sealed exactly when that last one is run_finished.                      *)
RunOK(head, rows) ==
    /\ DOMAIN rows = 0..head.head_seq
    /\ \A s \in 0..head.head_seq : RowOK(rows, s)
    /\ head.head_hash = rows[head.head_seq].hash
    /\ \A s \in 0..head.head_seq :
          rows[s].kind = "run_finished" <=> s = head.head_seq /\ head.ended_ts # None
    /\ head.ended_ts # None =>
          rows[head.head_seq].fields["metadata"]
              = [event_count |-> head.head_seq + 1]

RunsOK == \A r \in DOMAIN tlr_runs : RunOK(tlr_runs[r], tlr_events[r])

(* What idempotency rows say is what their writers were told.              *)
IdemOK == \A r \in Run : \A k \in DOMAIN tlr_idem[r] :
             Reply(r, k, tlr_idem[r][k]) \in replies

(* The idempotency row of a key is in place before any reply carries it.   *)
KeysKnown == \A a \in replies : a.key # None =>
                /\ a.key \in DOMAIN tlr_idem[a.run]
                /\ a.res = tlr_idem[a.run][a.key]

IInv == /\ TypeOK /\ RunsOK /\ IdemOK /\ KeysKnown
        /\ RepliesHold /\ OneEventPerKey /\ CheckpointsHold

-----------------------------------------------------------------------------
(* Lemmas on the record format.                                            *)

(* A freshly hashed event carries what it was built from, and its hash is  *)
(* the one a verifier recomputes from the finished event.                  *)
LEMMA HashedEvent ==
    ASSUME NEW seq, NEW ts, NEW kind, NEW fields, NEW prev
    PROVE  LET e == Hashed(seq, ts, kind, fields, prev)
           IN  /\ e.seq = seq /\ e.ts = ts /\ e.kind = kind
               /\ e.fields = fields /\ e.prev_hash = prev
               /\ e.hash = EventHash(e, prev)
BY DEF Hashed, RunEvent, EventHash, Canon, Digest

(* Two events no hash and no reply can tell apart.                         *)
SameEntry(d, e) == /\ Canon(d) = Canon(e)
                   /\ d.seq = e.seq /\ d.ts = e.ts /\ d.kind = e.kind
                   /\ d.prev_hash = e.prev_hash /\ d.hash = e.hash

(* Erasing fields, present, unset or erased before, leaves an event's      *)
(* canonical form alone: the retained digest is the digest of the value.   *)
LEMMA ErasedKeepsEntry ==
    ASSUME NEW e, NEW fs \in SUBSET Field
    PROVE  SameEntry(Erased(e, fs), e)
<1> DEFINE d == Erased(e, fs)
<1>1. /\ d.seq = e.seq /\ d.ts = e.ts /\ d.kind = e.kind
      /\ d.prev_hash = e.prev_hash /\ d.hash = e.hash
  BY DEF Erased, RunEvent
<1>2. ASSUME NEW f \in Field PROVE Digest(d, f) = Digest(e, f)
  <2> DEFINE present == {g \in fs : e.fields[g] # None}
  <2>1. /\ d.fields[f] = IF f \in present THEN None ELSE e.fields[f]
        /\ DOMAIN d.redacted = DOMAIN e.redacted \cup present
        /\ f \in DOMAIN d.redacted =>
              d.redacted[f] = IF f \in present THEN HashOf(e.fields[f])
                              ELSE e.redacted[f]
    BY DEF Erased, RunEvent
  <2>2. CASE f \in present
    BY <2>1, <2>2 DEF Digest
  <2>3. CASE f \notin present
    BY <2>1, <2>3 DEF Digest
  <2>4. QED BY <2>2, <2>3
<1>3. Canon(d) = Canon(e)
  BY <1>1, <1>2 DEF Canon
<1>4. QED BY <1>1, <1>3 DEF SameEntry

(* Rows another set of rows may replace without any verifier noticing.     *)
SameRows(new, old) ==
    /\ DOMAIN new = DOMAIN old
    /\ \A s \in DOMAIN old : /\ SameEntry(new[s], old[s])
                             /\ new[s].fields = [f \in Field |-> new[s].fields[f]]

(* The sequence numbers of a run with one more event.                      *)
LEMMA IntervalSucc ==
    ASSUME NEW n \in Nat
    PROVE  0..(n + 1) = (0..n) \cup {n + 1} /\ n + 1 \notin 0..n
OBVIOUS

(* What append_in_tx adds to a run that is open at the given head.         *)
NewEntry(e, head, ended) ==
    /\ head.head_seq \in Nat /\ head.ended_ts = None
    /\ e.seq = head.head_seq + 1
    /\ e.prev_hash = head.head_hash
    /\ e.hash = EventHash(e, e.prev_hash)
    /\ e.kind # "run_started"
    /\ e.kind = "run_finished" <=> ended # None
    /\ e.fields = [f \in Field |-> e.fields[f]]
    /\ ended # None =>
          e.fields["metadata"] = [event_count |-> head.head_seq + 2]

(* Writing the next row adds its number to those of a run and leaves the   *)
(* rows below it alone.                                                    *)
LEMMA InsertAbove ==
    ASSUME NEW n \in Nat, NEW rows, DOMAIN rows = 0..n, NEW e
    PROVE  /\ DOMAIN InsertRow(rows, n + 1, e) = 0..(n + 1)
           /\ InsertRow(rows, n + 1, e)[n + 1] = e
           /\ \A s \in 0..n : InsertRow(rows, n + 1, e)[s] = rows[s]
BY IntervalSucc DEF InsertRow

(* One event hashed against the head of an open run, written above rows    *)
(* that differ from the old ones by erased fields at most, is a longer     *)
(* chain.                                                                  *)
LEMMA ExtendChain ==
    ASSUME NEW head, NEW old, NEW rows, NEW e, NEW ended,
           RunOK(head, old), SameRows(rows, old), NewEntry(e, head, ended)
    PROVE  RunOK([head_seq |-> e.seq, head_hash |-> e.hash, ended_ts |-> ended],
                 InsertRow(rows, e.seq, e))
<1> DEFINE n == head.head_seq
           new == InsertRow(rows, n + 1, e)
           next == [head_seq |-> n + 1, head_hash |-> e.hash, ended_ts |-> ended]
<1>1. n \in Nat /\ e.seq = n + 1
  BY DEF NewEntry
<1>2. DOMAIN rows = 0..n
  BY DEF RunOK, SameRows
<1>3. \A s \in 0..n : RowOK(old, s) /\ SameEntry(rows[s], old[s])
  BY DEF RunOK, SameRows
<1>4. /\ DOMAIN new = 0..(n + 1)
      /\ new[n + 1] = e
      /\ \A s \in 0..n : new[s] = rows[s]
  BY <1>1, <1>2, InsertAbove
<1> HIDE DEF n, new
<1>5. ASSUME NEW s \in 0..n PROVE RowOK(new, s)
  <2>1. rows[s].hash = EventHash(rows[s], rows[s].prev_hash)
    BY <1>3 DEF RowOK, SameEntry, EventHash
  <2>2. s # 0 => s - 1 \in 0..n
    BY <1>1
  <2>3. rows[s].prev_hash = IF s = 0 THEN ZERO ELSE rows[s - 1].hash
    BY <1>3, <2>2, ZenonT(30) DEF RowOK, SameEntry
  <2>4. new[s].prev_hash = IF s = 0 THEN ZERO ELSE new[s - 1].hash
    BY <1>4, <2>2, <2>3
  <2>5. rows[s].kind = "run_started" <=> s = 0
    BY <1>3 DEF RowOK, SameEntry
  <2>6. rows[s].seq = s
    BY <1>3 DEF RowOK, SameEntry
  <2>7. rows[s].fields = [f \in Field |-> rows[s].fields[f]]
    BY DEF RunOK, SameRows, n
  <2>8. QED BY <1>4, <2>1, <2>4, <2>5, <2>6, <2>7 DEF RowOK
<1>6. RowOK(new, n + 1)
  <2>1. n \in 0..n /\ (n + 1) - 1 = n /\ n + 1 # 0
    BY <1>1
  <2>2. new[n].hash = head.head_hash
    <3>1. old[n].hash = head.head_hash
      BY DEF RunOK, n
    <3>2. QED BY <1>3, <1>4, <2>1, <3>1 DEF SameEntry
  <2>3. QED BY <1>1, <1>4, <2>1, <2>2 DEF RowOK, NewEntry
<1>7. ASSUME NEW s \in 0..(n + 1)
      PROVE  new[s].kind = "run_finished" <=> s = n + 1 /\ ended # None
  <2>1. CASE s = n + 1
    BY <1>4, <2>1 DEF NewEntry
  <2>2. CASE s \in 0..n
    <3>1. old[s].kind # "run_finished"
      BY <2>2 DEF RunOK, NewEntry, n
    <3>2. s # n + 1
      BY <1>1, <2>2
    <3>3. QED BY <1>3, <1>4, <2>2, <3>1, <3>2 DEF SameEntry
  <2>3. QED BY <1>1, <2>1, <2>2, IntervalSucc
<1>8. ended # None =>
         new[n + 1].fields["metadata"] = [event_count |-> (n + 1) + 1]
  <2>1. (n + 1) + 1 = n + 2
    BY <1>1
  <2>2. QED BY <1>4, <2>1 DEF NewEntry, n
<1>9. \A s \in 0..(n + 1) : RowOK(new, s)
  BY <1>1, <1>5, <1>6, IntervalSucc
<1>10. RunOK(next, new)
  BY <1>4, <1>7, <1>8, <1>9 DEF RunOK
<1>11. QED BY <1>1, <1>10 DEF new, n

-----------------------------------------------------------------------------
(* The actions.                                                            *)

(* append, seal and redact all end in the same write: one new entry on an  *)
(* open run, over rows that are the same entries as before, and its result *)
(* returned (and kept, when the call carried a key).                       *)
Write(r, rows, e, ended, key) ==
    /\ r \in DOMAIN tlr_runs
    /\ SameRows(rows, tlr_events[r])
    /\ NewEntry(e, tlr_runs[r], ended)
    /\ WriteEvent(r, rows, e, ended)
    /\ replies' = replies \cup {Reply(r, key, AppendResult(e))}
    /\ key \notin DOMAIN tlr_idem[r]
    /\ tlr_idem' = KeepResult(r, key, e)
    /\ UNCHANGED tlr_checkpoints

(* What a write does to the rows: the new one is added, the others are the *)
(* same entries, other runs are untouched.                                 *)
LEMMA WriteRows ==
    ASSUME IInv, NEW r \in Run, NEW rows, NEW e, NEW ended, NEW key,
           Write(r, rows, e, ended, key)
    PROVE  /\ e.seq = tlr_runs[r].head_seq + 1
           /\ e.seq \in 0..MaxSeq
           /\ tlr_runs[r].head_seq \in Nat
           /\ e.seq \notin DOMAIN tlr_events[r]
           /\ DOMAIN tlr_events' = Run
           /\ DOMAIN tlr_events'[r] = DOMAIN tlr_events[r] \cup {e.seq}
           /\ tlr_events'[r][e.seq] = e
           /\ \A s \in DOMAIN tlr_events[r] :
                 SameEntry(tlr_events'[r][s], tlr_events[r][s])
           /\ \A q \in Run \ {r} : tlr_events'[q] = tlr_events[q]
<1>1. /\ RunOK(tlr_runs[r], tlr_events[r])
      /\ r \in DOMAIN tlr_runs
      /\ DOMAIN tlr_events = Run
  BY DEF IInv, RunsOK, TypeOK, Write
<1>2. /\ e.seq = tlr_runs[r].head_seq + 1
      /\ tlr_runs[r].head_seq \in Nat
      /\ e.seq <= MaxSeq
      /\ e.seq \notin DOMAIN rows
      /\ tlr_events' = [tlr_events EXCEPT ![r] = InsertRow(rows, e.seq, e)]
  BY DEF Write, WriteEvent, NewEntry
<1>3. /\ DOMAIN rows = DOMAIN tlr_events[r]
      /\ \A s \in DOMAIN tlr_events[r] : SameEntry(rows[s], tlr_events[r][s])
  BY DEF Write, SameRows
<1>4. tlr_events'[r] = InsertRow(rows, e.seq, e)
  BY <1>1, <1>2
<1>5. /\ DOMAIN tlr_events'[r] = DOMAIN rows \cup {e.seq}
      /\ tlr_events'[r][e.seq] = e
      /\ \A s \in DOMAIN rows : tlr_events'[r][s] = rows[s]
  BY <1>2, <1>4 DEF InsertRow
<1>6. \A s \in DOMAIN tlr_events[r] :
         SameEntry(tlr_events'[r][s], tlr_events[r][s])
  BY <1>3, <1>5
<1>7. e.seq \in 0..MaxSeq
  BY <1>2, StoreAssumption
<1>8. DOMAIN tlr_events' = Run /\ \A q \in Run \ {r} : tlr_events'[q] = tlr_events[q]
  BY <1>1, <1>2
<1>9. QED BY <1>2, <1>3, <1>5, <1>6, <1>7, <1>8

(* What a writer was told of an event does not depend on erased fields.    *)
LEMMA SameResult ==
    ASSUME NEW d, NEW e, SameEntry(d, e)
    PROVE  AppendResult(d) = AppendResult(e)
BY DEF SameEntry, AppendResult

(* The write that append, seal and redact share, one new entry above rows  *)
(* that are the old ones up to erased fields, keeps the invariant.         *)
LEMMA WriteKeepsInv ==
    ASSUME IInv, NEW r \in Run, NEW rows, NEW e, NEW key \in Key \cup {None},
           NEW ended \in Time \cup {None}, Write(r, rows, e, ended, key)
    PROVE  IInv'
<1>1. /\ e.seq = tlr_runs[r].head_seq + 1
      /\ e.seq \in 0..MaxSeq
      /\ tlr_runs[r].head_seq \in Nat
      /\ e.seq \notin DOMAIN tlr_events[r]
      /\ DOMAIN tlr_events' = Run
      /\ DOMAIN tlr_events'[r] = DOMAIN tlr_events[r] \cup {e.seq}
      /\ tlr_events'[r][e.seq] = e
      /\ \A s \in DOMAIN tlr_events[r] :
            SameEntry(tlr_events'[r][s], tlr_events[r][s])
      /\ \A q \in Run \ {r} : tlr_events'[q] = tlr_events[q]
  BY WriteRows
<1> DEFINE next == [head_seq |-> e.seq, head_hash |-> e.hash, ended_ts |-> ended]
<1>2. /\ DOMAIN tlr_runs' = DOMAIN tlr_runs
      /\ tlr_runs'[r] = next
      /\ \A q \in DOMAIN tlr_runs \ {r} : tlr_runs'[q] = tlr_runs[q]
  BY DEF Write, WriteEvent, InsertRow
<1>3. /\ replies' = replies \cup {Reply(r, key, AppendResult(e))}
      /\ tlr_checkpoints' = tlr_checkpoints
      /\ key \notin DOMAIN tlr_idem[r]
      /\ DOMAIN tlr_idem = Run
  BY DEF Write, IInv, TypeOK
<1>4. /\ DOMAIN tlr_idem' = Run
      /\ \A q \in Run \ {r} : tlr_idem'[q] = tlr_idem[q]
      /\ DOMAIN tlr_idem'[r] = DOMAIN tlr_idem[r] \cup (IF key = None THEN {} ELSE {key})
      /\ key # None => tlr_idem'[r][key] = AppendResult(e)
      /\ \A k \in DOMAIN tlr_idem[r] : tlr_idem'[r][k] = tlr_idem[r][k]
  BY <1>3 DEF Write, KeepResult, InsertRow
<1>5. /\ Reply(r, key, AppendResult(e)).run = r
      /\ Reply(r, key, AppendResult(e)).key = key
      /\ Reply(r, key, AppendResult(e)).res = AppendResult(e)
      /\ AppendResult(e).seq = e.seq
  BY DEF Reply, AppendResult
<1>6. TypeOK'
  <2>1. DOMAIN next = {"head_seq", "head_hash", "ended_ts"}
        /\ next.head_seq = e.seq /\ next.ended_ts = ended
    OBVIOUS
  <2>2. ASSUME NEW q \in DOMAIN tlr_runs'
        PROVE  /\ q \in Run
               /\ DOMAIN tlr_runs'[q] = {"head_seq", "head_hash", "ended_ts"}
               /\ tlr_runs'[q].head_seq \in 0..MaxSeq
               /\ tlr_runs'[q].ended_ts \in Time \cup {None}
    BY <1>1, <1>2, <2>1, <2>2 DEF IInv, TypeOK
  <2>3. ASSUME NEW q \in Run
        PROVE  /\ DOMAIN tlr_events'[q] \subseteq 0..MaxSeq
               /\ DOMAIN tlr_idem'[q] \subseteq Key
               /\ DOMAIN tlr_checkpoints'[q] \subseteq 0..MaxSeq
               /\ q \notin DOMAIN tlr_runs' => DOMAIN tlr_events'[q] = {}
    <3>1. r \in DOMAIN tlr_runs
      BY DEF Write
    <3>2. CASE q = r
      BY <1>1, <1>2, <1>3, <1>4, <3>1, <3>2 DEF IInv, TypeOK
    <3>3. CASE q # r
      BY <1>1, <1>2, <1>3, <1>4, <3>3 DEF IInv, TypeOK
    <3>4. QED BY <3>2, <3>3
  <2>4. \A a \in replies' : a.run \in Run /\ a.key \in Key \cup {None}
    BY <1>3, <1>5 DEF IInv, TypeOK
  <2>5. DOMAIN tlr_checkpoints' = Run
    BY <1>3 DEF IInv, TypeOK
  <2>6. QED BY <1>1, <1>4, <2>2, <2>3, <2>4, <2>5 DEF TypeOK
<1>7. RunsOK'
  <2>1. RunOK(next, tlr_events'[r])
    <3>1. tlr_events'[r] = InsertRow(rows, e.seq, e)
      BY DEF Write, WriteEvent, IInv, TypeOK
    <3>2. RunOK(tlr_runs[r], tlr_events[r])
      BY DEF Write, IInv, RunsOK
    <3>3. QED BY <3>1, <3>2, ExtendChain DEF Write
  <2>2. ASSUME NEW q \in DOMAIN tlr_runs, q # r
        PROVE  RunOK(tlr_runs'[q], tlr_events'[q])
    <3>1. q \in Run
      BY DEF IInv, TypeOK
    <3>2. QED BY <1>1, <1>2, <2>2, <3>1 DEF IInv, RunsOK
  <2>3. QED BY <1>2, <2>1, <2>2 DEF RunsOK
<1>8. IdemOK'
  BY <1>3, <1>4 DEF IdemOK, IInv
<1>9. KeysKnown'
  <2>1. ASSUME NEW a \in replies, a.key # None
        PROVE  /\ a.key \in DOMAIN tlr_idem'[a.run]
               /\ a.res = tlr_idem'[a.run][a.key]
    BY <1>4, <2>1 DEF KeysKnown, IInv, TypeOK
  <2>2. QED BY <1>3, <1>4, <1>5, <2>1 DEF KeysKnown
<1>10. RepliesHold'
  <2>1. ASSUME NEW a \in replies
        PROVE  /\ a.res.seq \in DOMAIN tlr_events'[a.run]
               /\ a.res = AppendResult(tlr_events'[a.run][a.res.seq])
    <3>1. /\ a.run \in Run
          /\ a.res.seq \in DOMAIN tlr_events[a.run]
          /\ a.res = AppendResult(tlr_events[a.run][a.res.seq])
      BY DEF IInv, TypeOK, RepliesHold
    <3>2. CASE a.run = r
      BY <1>1, <3>1, <3>2, SameResult
    <3>3. CASE a.run # r
      BY <1>1, <3>1, <3>3
    <3>4. QED BY <3>2, <3>3
  <2>2. QED BY <1>1, <1>3, <1>5, <2>1 DEF RepliesHold
<1>11. OneEventPerKey'
  <2> DEFINE new == Reply(r, key, AppendResult(e))
  <2>1. ASSUME NEW a \in replies, a.run = r PROVE a.res.seq # e.seq
    BY <1>1, <2>1 DEF IInv, RepliesHold
  <2>2. ASSUME NEW a \in replies, a.run = r, a.key # None PROVE a.key # key
    BY <1>3, <2>2 DEF IInv, KeysKnown
  <2>3. ASSUME NEW a \in replies', NEW b \in replies', a.run = b.run, a.key # None
        PROVE  a.key = b.key <=> a.res.seq = b.res.seq
    <3>1. CASE a \in replies /\ b \in replies
      BY <2>3, <3>1 DEF IInv, OneEventPerKey
    <3>2. CASE a = new /\ b \in replies
      BY <1>5, <2>1, <2>2, <2>3, <3>2
    <3>3. CASE a \in replies /\ b = new
      BY <1>5, <2>1, <2>2, <2>3, <3>3
    <3>4. CASE a = new /\ b = new
      BY <3>4
    <3>5. QED BY <1>3, <3>1, <3>2, <3>3, <3>4
  <2>4. QED BY <2>3 DEF OneEventPerKey
<1>12. CheckpointsHold'
  <2>1. ASSUME NEW q \in Run, NEW s \in DOMAIN tlr_checkpoints[q]
        PROVE  /\ s \in DOMAIN tlr_events'[q]
               /\ tlr_checkpoints[q][s] = tlr_events'[q][s].hash
    BY <1>1 DEF IInv, CheckpointsHold, SameEntry
  <2>2. QED BY <1>3, <2>1 DEF CheckpointsHold
<1>13. QED BY <1>6, <1>7, <1>8, <1>9, <1>10, <1>11, <1>12 DEF IInv

(* An event built with metadata only has every field, and that value.      *)
LEMMA MetadataFields ==
    ASSUME NEW m
    PROVE  /\ Metadata(m) = [f \in Field |-> Metadata(m)[f]]
           /\ Metadata(m)["metadata"] = m
BY StoreAssumption DEF Metadata, NoFields

(* append_in_tx builds an entry that fits the head it read.                *)
LEMMA NextEntry ==
    ASSUME NEW r \in DOMAIN tlr_runs, Appendable(r),
           tlr_runs[r].head_seq \in Nat,
           NEW ts, NEW kind \in Kind \ {"run_started"}, NEW fields, NEW ended,
           fields = [f \in Field |-> fields[f]],
           kind = "run_finished" <=> ended # None,
           ended # None =>
              fields["metadata"] = [event_count |-> tlr_runs[r].head_seq + 2]
    PROVE  NewEntry(NextEvent(r, ts, kind, fields), tlr_runs[r], ended)
<1> DEFINE e == NextEvent(r, ts, kind, fields)
<1>1. /\ e.seq = tlr_runs[r].head_seq + 1 /\ e.kind = kind
      /\ e.fields = fields /\ e.prev_hash = tlr_runs[r].head_hash
      /\ e.hash = EventHash(e, tlr_runs[r].head_hash)
  BY HashedEvent DEF NextEvent
<1> HIDE DEF e
<1>2. e.hash = EventHash(e, e.prev_hash)
  BY <1>1
<1>3. NewEntry(e, tlr_runs[r], ended)
  BY <1>1, <1>2 DEF NewEntry, Appendable
<1>4. QED BY <1>3 DEF e

(* The rows of a run that exists are themselves the same entries.          *)
LEMMA RowsUnchanged ==
    ASSUME IInv, NEW r \in DOMAIN tlr_runs
    PROVE  /\ SameRows(tlr_events[r], tlr_events[r])
           /\ tlr_runs[r].head_seq \in Nat
           /\ r \in Run
<1>1. /\ RunOK(tlr_runs[r], tlr_events[r])
      /\ r \in Run
      /\ tlr_runs[r].head_seq \in 0..MaxSeq
  BY DEF IInv, TypeOK, RunsOK
<1>2. \A s \in DOMAIN tlr_events[r] :
         tlr_events[r][s].fields = [f \in Field |-> tlr_events[r][s].fields[f]]
  BY <1>1 DEF RunOK, RowOK
<1>3. SameRows(tlr_events[r], tlr_events[r])
  BY <1>2 DEF SameRows, SameEntry
<1>4. QED BY <1>1, <1>3, StoreAssumption

(* Erasing fields of one row leaves all rows the same entries.             *)
LEMMA RowsErased ==
    ASSUME IInv, NEW r \in DOMAIN tlr_runs, NEW target \in DOMAIN tlr_events[r],
           NEW fs \in SUBSET Field
    PROVE  SameRows([tlr_events[r] EXCEPT
                       ![target] = Erased(tlr_events[r][target], fs)],
                    tlr_events[r])
<1>1. SameRows(tlr_events[r], tlr_events[r])
  BY RowsUnchanged
<1>2. SameEntry(Erased(tlr_events[r][target], fs), tlr_events[r][target])
  BY ErasedKeepsEntry
<1>3. Erased(tlr_events[r][target], fs).fields
         = [f \in Field |-> Erased(tlr_events[r][target], fs).fields[f]]
  BY DEF Erased, RunEvent
<1>4. QED BY <1>1, <1>2, <1>3 DEF SameRows

(* Empty tables satisfy the invariant.                                     *)
LEMMA InitInv == Init => IInv
BY StoreAssumption
DEF Init, IInv, TypeOK, RunsOK, IdemOK, KeysKnown, RepliesHold, OneEventPerKey,
    CheckpointsHold

(* create_run keeps the invariant: run_started opens a chain of one event. *)
LEMMA CreateRunKeepsInv ==
    ASSUME IInv, NEW r \in Run, NEW ts \in Time, CreateRun(r, ts)
    PROVE  IInv'
<1> DEFINE e == Hashed(0, ts, "run_started", Metadata([run_id |-> r]), ZERO)
           next == [head_seq |-> 0, head_hash |-> e.hash, ended_ts |-> None]
<1>1. /\ e.seq = 0 /\ e.kind = "run_started" /\ e.prev_hash = ZERO
      /\ e.hash = EventHash(e, e.prev_hash)
      /\ e.fields = [f \in Field |-> e.fields[f]]
  BY HashedEvent, MetadataFields
<1> HIDE DEF e
<1>2. /\ r \notin DOMAIN tlr_runs
      /\ DOMAIN tlr_events = Run
      /\ DOMAIN tlr_events[r] = {}
  BY DEF CreateRun, IInv, TypeOK
<1>3. /\ DOMAIN tlr_events' = Run
      /\ DOMAIN tlr_events'[r] = {0}
      /\ tlr_events'[r][0] = e
      /\ \A q \in Run \ {r} : tlr_events'[q] = tlr_events[q]
      /\ DOMAIN tlr_runs' = DOMAIN tlr_runs \cup {r}
      /\ tlr_runs'[r] = next
      /\ \A q \in DOMAIN tlr_runs : tlr_runs'[q] = tlr_runs[q]
      /\ 0 <= MaxSeq
  BY <1>1, <1>2 DEF CreateRun, WriteEvent, InsertRow, e
<1>4. UNCHANGED <<tlr_idem, tlr_checkpoints, replies>>
  BY DEF CreateRun
<1>5. \A a \in replies : a.run \in Run /\ a.run # r
  BY <1>2 DEF IInv, RepliesHold, TypeOK
<1>6. TypeOK'
  BY <1>2, <1>3, <1>4, StoreAssumption DEF IInv, TypeOK
<1>7. RunsOK'
  <2>1. RowOK(tlr_events'[r], 0)
    BY <1>1, <1>3 DEF RowOK
  <2>2. RunOK(next, tlr_events'[r])
    BY <1>1, <1>3, <2>1 DEF RunOK
  <2>3. QED BY <1>2, <1>3, <2>2 DEF IInv, RunsOK, TypeOK
<1>8. IdemOK' /\ KeysKnown' /\ OneEventPerKey'
  BY <1>4 DEF IInv, IdemOK, KeysKnown, OneEventPerKey
<1>9. RepliesHold'
  BY <1>3, <1>4, <1>5 DEF IInv, RepliesHold
<1>10. CheckpointsHold'
  <2>1. DOMAIN tlr_checkpoints[r] = {}
    BY <1>2 DEF IInv, CheckpointsHold
  <2>2. QED BY <1>3, <1>4, <2>1 DEF IInv, CheckpointsHold
<1>11. QED BY <1>6, <1>7, <1>8, <1>9, <1>10 DEF IInv

(* append under a new key, or none, writes one entry.                      *)
LEMMA AppendNewWrites ==
    ASSUME IInv, NEW r \in Run, NEW key \in Key \cup {None}, NEW ts \in Time,
           NEW kind \in AppendKind, NEW fields \in Body,
           AppendNew(r, key, ts, kind, fields)
    PROVE  /\ r \in DOMAIN tlr_runs
           /\ Write(r, tlr_events[r], NextEvent(r, ts, kind, fields), None, key)
<1> DEFINE e == NextEvent(r, ts, kind, fields)
<1>1. r \in DOMAIN tlr_runs /\ Appendable(r)
  BY DEF AppendNew, Appendable
<1>2. kind \in Kind \ {"run_started"} /\ kind # "run_finished"
  BY DEF AppendKind
<1>3. NewEntry(e, tlr_runs[r], None)
  BY <1>1, <1>2, NextEntry, RowsUnchanged DEF Body
<1>4. Write(r, tlr_events[r], e, None, key)
  BY <1>1, <1>3, RowsUnchanged DEF AppendNew, Write
<1>5. QED BY <1>1, <1>4

(* A replay returns what was returned before: nothing changes at all.      *)
LEMMA AppendReplayStutters ==
    ASSUME IInv, NEW r \in Run, NEW key \in Key, AppendReplay(r, key)
    PROVE  UNCHANGED vars
BY DEF AppendReplay, PriorResult, IInv, IdemOK, vars

(* What run_finished says of a run.                                        *)
Finish(r) == Metadata([event_count |-> tlr_runs[r].head_seq + 2])

(* seal writes run_finished, with the count of a run one event longer.     *)
LEMMA SealWrites ==
    ASSUME IInv, NEW r \in Run, NEW ts \in Time, Seal(r, ts)
    PROVE  /\ r \in DOMAIN tlr_runs /\ ts # None
           /\ Write(r, tlr_events[r], NextEvent(r, ts, "run_finished", Finish(r)),
                    ts, None)
<1> DEFINE count == [event_count |-> tlr_runs[r].head_seq + 2]
           e == NextEvent(r, ts, "run_finished", Metadata(count))
<1>1. r \in DOMAIN tlr_runs /\ Appendable(r) /\ ts # None
  BY StoreAssumption DEF Seal, Appendable
<1>2. NewEntry(e, tlr_runs[r], ts)
  <2>1. "run_finished" \in Kind \ {"run_started"}
    BY DEF Kind
  <2>2. QED BY <1>1, <2>1, NextEntry, RowsUnchanged, MetadataFields
<1>3. None \notin DOMAIN tlr_idem[r]
  BY StoreAssumption DEF IInv, TypeOK
<1>4. Write(r, tlr_events[r], e, ts, None)
  BY <1>1, <1>2, <1>3, RowsUnchanged DEF Seal, Write, EventCount, KeepResult
<1>5. QED BY <1>1, <1>4 DEF Finish

(* The rows after the fields fs of one are erased.                         *)
ErasedRows(r, target, fs) ==
    [tlr_events[r] EXCEPT ![target] = Erased(tlr_events[r][target], fs)]

(* The entry that logs a redaction.                                        *)
Redaction(r, ts, target, fs) ==
    NextEvent(r, ts, "redaction", Metadata([target_seq |-> target, fields |-> fs]))

(* redact rewrites a row, then writes the entry that says so.              *)
LEMMA RedactWrites ==
    ASSUME IInv, NEW r \in Run, NEW target, NEW fs \in SUBSET Field,
           NEW ts \in Time, Redact(r, target, fs, ts)
    PROVE  /\ r \in DOMAIN tlr_runs /\ target \in DOMAIN tlr_events[r]
           /\ Write(r, ErasedRows(r, target, fs), Redaction(r, ts, target, fs),
                    None, None)
<1> DEFINE m == [target_seq |-> target, fields |-> fs]
           rows == [tlr_events[r] EXCEPT
                      ![target] = Erased(tlr_events[r][target], fs)]
           e == NextEvent(r, ts, "redaction", Metadata(m))
<1>1. /\ r \in DOMAIN tlr_runs /\ Appendable(r)
      /\ target \in DOMAIN tlr_events[r]
  BY DEF Redact, Appendable
<1>2. NewEntry(e, tlr_runs[r], None)
  <2>1. "redaction" \in Kind \ {"run_started"}
    BY DEF Kind
  <2>2. QED BY <1>1, <2>1, NextEntry, RowsUnchanged, MetadataFields
<1>3. None \notin DOMAIN tlr_idem[r]
  BY StoreAssumption DEF IInv, TypeOK
<1>4. SameRows(rows, tlr_events[r])
  BY <1>1, RowsErased
<1>5. Write(r, rows, e, None, None)
  BY <1>1, <1>2, <1>3, <1>4 DEF Redact, Write, KeepResult
<1>6. QED BY <1>1, <1>5 DEF ErasedRows, Redaction

(* put_checkpoint keeps the invariant, however late it comes: the reply it *)
(* vouches for still describes its event.                                  *)
LEMMA PutCheckpointKeepsInv ==
    ASSUME IInv, NEW reply \in replies, PutCheckpoint(reply)
    PROVE  IInv'
<1> DEFINE r == reply.run
           s == reply.res.seq
<1>1. /\ r \in Run
      /\ s \in DOMAIN tlr_events[r]
      /\ reply.res.hash = tlr_events[r][s].hash
  <2>1. r \in Run /\ s \in DOMAIN tlr_events[r]
    BY DEF IInv, TypeOK, RepliesHold
  <2>2. reply.res = AppendResult(tlr_events[r][s])
    BY DEF IInv, RepliesHold
  <2>3. AppendResult(tlr_events[r][s]).hash = tlr_events[r][s].hash
    BY DEF AppendResult
  <2>4. QED BY <2>1, <2>2, <2>3
<1>2. UNCHANGED <<tlr_runs, tlr_events, tlr_idem, replies>>
  BY DEF PutCheckpoint
<1>3. /\ DOMAIN tlr_checkpoints' = Run
      /\ \A q \in Run \ {r} : tlr_checkpoints'[q] = tlr_checkpoints[q]
      /\ tlr_checkpoints'[r] = InsertRow(tlr_checkpoints[r], s, reply.res.hash)
  BY <1>1 DEF PutCheckpoint, SignedHash, IInv, TypeOK
<1>4. TypeOK'
  BY <1>1, <1>2, <1>3 DEF IInv, TypeOK, InsertRow
<1>5. RunsOK' /\ IdemOK' /\ KeysKnown' /\ RepliesHold' /\ OneEventPerKey'
  BY <1>2 DEF IInv, RunsOK, IdemOK, KeysKnown, RepliesHold, OneEventPerKey
<1>6. CheckpointsHold'
  BY <1>1, <1>2, <1>3 DEF IInv, CheckpointsHold, InsertRow
<1>7. QED BY <1>4, <1>5, <1>6 DEF IInv

-----------------------------------------------------------------------------
(* Theorems.                                                               *)

(* IInv is inductive.                                                      *)
LEMMA NextKeepsInv == IInv /\ [Next]_vars => IInv'
<1> SUFFICES ASSUME IInv, [Next]_vars PROVE IInv'
  OBVIOUS
<1>1. CASE UNCHANGED vars
  BY <1>1 DEF vars, IInv, TypeOK, RunsOK, IdemOK, KeysKnown, RepliesHold,
              OneEventPerKey, CheckpointsHold
<1>2. ASSUME NEW r \in Run, NEW ts \in Time, CreateRun(r, ts) PROVE IInv'
  BY <1>2, CreateRunKeepsInv
<1>3. ASSUME NEW r \in Run, NEW key \in Key \cup {None}, NEW ts \in Time,
             NEW kind \in AppendKind, NEW fields \in Body,
             AppendNew(r, key, ts, kind, fields)
      PROVE  IInv'
  BY <1>3, AppendNewWrites, WriteKeepsInv
<1>4. ASSUME NEW r \in Run, NEW key \in Key, AppendReplay(r, key) PROVE IInv'
  BY <1>1, <1>4, AppendReplayStutters
<1>5. ASSUME NEW r \in Run, NEW ts \in Time, Seal(r, ts) PROVE IInv'
  BY <1>5, SealWrites, WriteKeepsInv
<1>6. ASSUME NEW r \in Run, NEW target \in 0..MaxSeq, NEW fs \in SUBSET Field,
             NEW ts \in Time, Redact(r, target, fs, ts)
      PROVE  IInv'
  BY <1>6, RedactWrites, WriteKeepsInv
<1>7. ASSUME NEW reply \in replies, PutCheckpoint(reply) PROVE IInv'
  BY <1>7, PutCheckpointKeepsInv
<1>8. QED BY <1>1, <1>2, <1>3, <1>4, <1>5, <1>6, <1>7 DEF Next

(* The inductive invariant holds of every reachable state of the store.    *)
THEOREM Invariance == Spec => []IInv
<1>1. QED BY InitInv, NextKeepsInv, PTL DEF Spec

(* The tables keep their types and keys.                                   *)
THEOREM TypeCorrect == Spec => []TypeOK
<1>1. IInv => TypeOK
  BY DEF IInv
<1>2. QED BY <1>1, Invariance, PTL

(* A run's rows, read back in order: as long as the head says, event i at  *)
(* position i + 1.                                                         *)
LEMMA RecordRows ==
    ASSUME IInv, NEW r \in DOMAIN tlr_runs
    PROVE  /\ RunOK(tlr_runs[r], tlr_events[r])
           /\ tlr_runs[r].head_seq \in Nat
           /\ Len(Record(r)) = tlr_runs[r].head_seq + 1
           /\ \A i \in 1..(tlr_runs[r].head_seq + 1) :
                 /\ Record(r)[i] = tlr_events[r][i - 1]
                 /\ i - 1 \in 0..tlr_runs[r].head_seq
<1>1. RunOK(tlr_runs[r], tlr_events[r]) /\ tlr_runs[r].head_seq \in Nat
  BY RowsUnchanged DEF IInv, RunsOK
<1> DEFINE n == tlr_runs[r].head_seq
<1> HIDE DEF n
<1>2. n + 1 \in Nat
  BY <1>1 DEF n
<1>3. Record(r) = [i \in 1..(n + 1) |-> tlr_events[r][i - 1]]
  BY DEF Record, n
<1>4. Len(Record(r)) = n + 1
  BY <1>2, <1>3
<1>5. \A i \in 1..(n + 1) : Record(r)[i] = tlr_events[r][i - 1] /\ i - 1 \in 0..n
  BY <1>1, <1>3 DEF n
<1>6. QED BY <1>1, <1>4, <1>5 DEF n

(* verify_chain finds no fault in a record the server keeps.               *)
LEMMA NoFault ==
    ASSUME IInv, NEW r \in DOMAIN tlr_runs,
           NEW i \in 1..(tlr_runs[r].head_seq + 1)
    PROVE  Fault(Record(r), i) = "none"
<1> DEFINE es == Record(r)
           rows == tlr_events[r]
<1>1. /\ RunOK(tlr_runs[r], rows)
      /\ tlr_runs[r].head_seq \in Nat
      /\ es[i] = rows[i - 1]
      /\ i - 1 \in 0..tlr_runs[r].head_seq
  BY RecordRows
<1>2. RowOK(rows, i - 1)
  BY <1>1 DEF RunOK
<1>3. es[i].seq = i - 1
  BY <1>1, <1>2 DEF RowOK
<1>4. es[i].prev_hash = PrevOf(es, i)
  <2>1. CASE i = 1
    BY <1>1, <1>2, <2>1 DEF RowOK, PrevOf
  <2>2. CASE i # 1
    <3>1. i - 1 \in 1..(tlr_runs[r].head_seq + 1) /\ i - 1 # 0
      BY <1>1, <2>2
    <3>2. es[i - 1] = rows[(i - 1) - 1]
      BY <3>1, RecordRows
    <3>3. QED BY <1>1, <1>2, <2>2, <3>1, <3>2 DEF RowOK, PrevOf
  <2>3. QED BY <2>1, <2>2
<1>5. es[i].hash = EventHash(es[i], PrevOf(es, i))
  BY <1>1, <1>2, <1>4 DEF RowOK
<1>6. QED BY <1>3, <1>4, <1>5 DEF Fault

(* Whatever was appended, erased or sealed, the record of every run passes *)
(* verify_chain and the verifier's head is the head the server keeps.      *)
THEOREM ChainSound == Spec => []ChainVerifies
<1>1. IInv => ChainVerifies
  <2> SUFFICES ASSUME IInv, NEW r \in DOMAIN tlr_runs
               PROVE  LET result == VerifyChain(Record(r))
                      IN  /\ DOMAIN tlr_events[r] = 0..tlr_runs[r].head_seq
                          /\ result.ok
                          /\ result.head_seq = tlr_runs[r].head_seq
                          /\ result.head_hash = tlr_runs[r].head_hash
    BY DEF ChainVerifies
  <2> DEFINE es == Record(r)
             n == tlr_runs[r].head_seq
  <2>1. /\ RunOK(tlr_runs[r], tlr_events[r])
        /\ n \in Nat
        /\ Len(es) = n + 1
        /\ \A i \in 1..(n + 1) : es[i] = tlr_events[r][i - 1]
    BY RecordRows
  <2>2. es[1].kind = "run_started" /\ es # <<>>
    <3>1. RowOK(tlr_events[r], 0) /\ es[1] = tlr_events[r][0]
      BY <2>1 DEF RunOK
    <3>2. QED BY <2>1, <3>1 DEF RowOK
  <2>3. {i \in 1..Len(es) : Fault(es, i) # "none"} = {}
    BY <2>1, NoFault
  <2>4. VerifyChain(es) = [ok |-> TRUE, len |-> Len(es),
                           head_seq  |-> es[Len(es)].seq,
                           head_hash |-> es[Len(es)].hash,
                           sealed    |-> es[Len(es)].kind = "run_finished"]
    BY <2>2, <2>3 DEF VerifyChain
  <2>5. es[Len(es)] = tlr_events[r][n]
    BY <2>1
  <2>6. es[Len(es)].seq = n /\ es[Len(es)].hash = tlr_runs[r].head_hash
    <3>1. n \in 0..n
      BY <2>1
    <3>2. RowOK(tlr_events[r], n)
      BY <2>1, <3>1 DEF RunOK
    <3>3. tlr_runs[r].head_hash = tlr_events[r][n].hash
      BY <2>1 DEF RunOK
    <3>4. QED BY <2>5, <3>2, <3>3 DEF RowOK
  <2>7. DOMAIN tlr_events[r] = 0..n
    BY <2>1 DEF RunOK
  <2>8. QED BY <2>4, <2>6, <2>7
<1>2. QED BY <1>1, Invariance, PTL

(* The server and a reader of the bare record agree on whether a run is    *)
(* sealed, and the count written at the seal is the record's length.       *)
THEOREM SealSound == Spec => []SealedRecord
<1>1. IInv => SealedRecord
  <2> SUFFICES ASSUME IInv, NEW r \in DOMAIN tlr_runs
               PROVE  LET es == Record(r)
                          finished == {i \in 1..Len(es) : es[i].kind = "run_finished"}
                      IN  IF tlr_runs[r].ended_ts = None THEN finished = {}
                          ELSE /\ finished = {Len(es)}
                               /\ es[Len(es)].fields["metadata"]
                                     = [event_count |-> Len(es)]
    BY DEF SealedRecord
  <2> DEFINE es == Record(r)
             n == tlr_runs[r].head_seq
  <2>1. /\ RunOK(tlr_runs[r], tlr_events[r])
        /\ n \in Nat
        /\ Len(es) = n + 1
        /\ \A i \in 1..(n + 1) : es[i] = tlr_events[r][i - 1] /\ i - 1 \in 0..n
    BY RecordRows
  <2>2. ASSUME NEW i \in 1..(n + 1)
        PROVE  es[i].kind = "run_finished"
                  <=> i = n + 1 /\ tlr_runs[r].ended_ts # None
    <3>1. i - 1 = n <=> i = n + 1
      BY <2>1
    <3>2. QED BY <2>1, <3>1 DEF RunOK
  <2>3. n + 1 \in 1..(n + 1)
    BY <2>1
  <2>4. tlr_runs[r].ended_ts # None =>
           es[n + 1].fields["metadata"] = [event_count |-> n + 1]
    <3>1. (n + 1) - 1 = n
      BY <2>1
    <3>2. QED BY <2>1, <2>3, <3>1 DEF RunOK
  <2>5. QED BY <2>1, <2>2, <2>3, <2>4
<1>2. QED BY <1>1, Invariance, PTL

(* Nothing acknowledged is ever renumbered or rehashed.                    *)
THEOREM RepliesSound == Spec => []RepliesHold
<1>1. IInv => RepliesHold
  BY DEF IInv
<1>2. QED BY <1>1, Invariance, PTL

(* An idempotency key stands for exactly one event.                        *)
THEOREM IdempotencySound == Spec => []OneEventPerKey
<1>1. IInv => OneEventPerKey
  BY DEF IInv
<1>2. QED BY <1>1, Invariance, PTL

(* A stored checkpoint matches the event it covers for as long as the run  *)
(* is kept.                                                                *)
THEOREM CheckpointsSound == Spec => []CheckpointsHold
<1>1. IInv => CheckpointsHold
  BY DEF IInv
<1>2. QED BY <1>1, Invariance, PTL

-----------------------------------------------------------------------------
(* The tables implement the append-only log.                               *)

(* Empty tables are empty logs.                                            *)
LEMMA InitLog == Init => Log!Init
<1> SUFFICES ASSUME Init PROVE Log!Init
  OBVIOUS
<1>1. \A r \in Run : /\ r \notin DOMAIN tlr_runs
                     /\ DOMAIN tlr_events[r] = {}
  BY DEF Init
<1>2. \A r \in Run : Commitment(r) = Log!NoEntry /\ Text(r) = Log!NoEntry
  BY <1>1 DEF Commitment, Text, Log!NoEntry
<1>3. \A r \in Run : Length(r) = 0 /\ Sealed(r) = FALSE
  BY <1>1 DEF Length, Sealed
<1>4. QED BY <1>2, <1>3 DEF Log!Init

(* create_run starts the run's log.                                        *)
LEMMA CreateRunLog ==
    ASSUME IInv, NEW r \in Run, NEW ts \in Time, CreateRun(r, ts)
    PROVE  Log!Next
<1> DEFINE e == Hashed(0, ts, "run_started", Metadata([run_id |-> r]), ZERO)
<1>1. e.seq = 0 /\ e.kind = "run_started"
  BY HashedEvent
<1>2. Canon(e).seq = e.seq /\ Canon(e).kind = e.kind
  BY DEF Canon
<1> HIDE DEF e
<1>3. /\ r \notin DOMAIN tlr_runs
      /\ DOMAIN tlr_events = Run
      /\ DOMAIN tlr_events[r] = {}
  BY DEF CreateRun, IInv, TypeOK
<1>4. /\ tlr_events' = [tlr_events EXCEPT ![r] = InsertRow(tlr_events[r], 0, e)]
      /\ tlr_runs' = InsertRow(tlr_runs, r, [head_seq |-> 0, head_hash |-> e.hash,
                                            ended_ts |-> None])
  BY <1>1 DEF CreateRun, WriteEvent, e
<1>5. /\ DOMAIN tlr_events'[r] = {0}
      /\ tlr_events'[r][0] = e
      /\ \A q \in Run \ {r} : tlr_events'[q] = tlr_events[q]
  BY <1>3, <1>4 DEF InsertRow
<1>6. /\ DOMAIN tlr_runs' = DOMAIN tlr_runs \cup {r}
      /\ tlr_runs'[r].head_seq = 0 /\ tlr_runs'[r].ended_ts = None
      /\ \A q \in DOMAIN tlr_runs : tlr_runs'[q] = tlr_runs[q]
  BY <1>3, <1>4 DEF InsertRow
<1>7. Log!Start(r)
  <2>1. Length(r) = 0
    BY <1>3 DEF Length
  <2>2. [q \in Run |-> Length(q)]' = [[q \in Run |-> Length(q)] EXCEPT ![r] = @ + 1]
    BY <1>3, <1>6 DEF Length
  <2>3. \A q \in Run \ {r} : Commitment(q)' = Commitment(q) /\ Text(q)' = Text(q)
    BY <1>5 DEF Commitment, Text
  <2>4. /\ DOMAIN Commitment(r)' = {0} /\ DOMAIN Text(r)' = {0}
        /\ Commitment(r)'[0] = Canon(e)
    BY <1>5 DEF Commitment, Text
  <2>5. [q \in Run |-> Sealed(q)]' = [q \in Run |-> Sealed(q)]
    BY <1>3, <1>6 DEF Sealed
  <2>6. 0..0 = {0} /\ 0..(0 - 1) = {}
    OBVIOUS
  <2>7. QED
    BY <1>1, <1>2, <2>1, <2>2, <2>3, <2>4, <2>5, <2>6 DEF Log!Start, Log!Grow
<1>8. QED BY <1>7 DEF Log!Next

(* rows shows what old shows, less the fields fs of row `at`.              *)
ShowsLess(rows, old, at, fs) ==
    \A s \in DOMAIN old :
       rows[s].fields = [f \in Field |-> IF s = at /\ f \in fs THEN None
                                        ELSE old[s].fields[f]]

(* The write append, seal and redact share grows the log by one entry, and *)
(* hides what the rows it was given no longer show.                        *)
LEMMA WriteLog ==
    ASSUME IInv, NEW r \in Run, NEW rows, NEW e, NEW ended, NEW key,
           Write(r, rows, e, ended, key), NEW at, NEW fs,
           ShowsLess(rows, tlr_events[r], at, fs)
    PROVE  /\ Log!Grow(r, {e.kind}, at, fs)
           /\ Length(r) > 0 /\ ~Sealed(r)
           /\ \A q \in Run : Sealed(q)' <=> IF q = r THEN ended # None ELSE Sealed(q)
<1> DEFINE n == tlr_runs[r].head_seq
<1>1. /\ e.seq = n + 1
      /\ n \in Nat
      /\ tlr_events'[r][n + 1] = e
      /\ \A s \in DOMAIN tlr_events[r] :
            SameEntry(tlr_events'[r][s], tlr_events[r][s])
      /\ \A q \in Run \ {r} : tlr_events'[q] = tlr_events[q]
  BY WriteRows
<1>2. /\ r \in DOMAIN tlr_runs
      /\ tlr_runs[r].ended_ts = None
      /\ tlr_runs' = InsertRow(tlr_runs, r, [head_seq |-> e.seq, head_hash |-> e.hash,
                                            ended_ts |-> ended])
      /\ tlr_events'[r] = InsertRow(rows, e.seq, e)
  BY DEF Write, NewEntry, WriteEvent, IInv, TypeOK
<1>3. DOMAIN tlr_events[r] = 0..n /\ DOMAIN rows = 0..n
  BY <1>2 DEF IInv, RunsOK, RunOK, Write, SameRows
<1>4. /\ DOMAIN tlr_events'[r] = 0..(n + 1)
      /\ \A s \in 0..n : tlr_events'[r][s] = rows[s]
  BY <1>1, <1>2, <1>3, InsertAbove
<1>5. /\ DOMAIN tlr_runs' = DOMAIN tlr_runs
      /\ tlr_runs'[r].head_seq = n + 1 /\ tlr_runs'[r].ended_ts = ended
      /\ \A q \in DOMAIN tlr_runs \ {r} : tlr_runs'[q] = tlr_runs[q]
  BY <1>1, <1>2 DEF InsertRow
<1> HIDE DEF n
<1>6. Length(r) = n + 1 /\ Length(r)' = n + 2 /\ (n + 1) - 1 = n
  BY <1>1, <1>2, <1>5 DEF Length, n
<1>7. [q \in Run |-> Length(q)]' = [[q \in Run |-> Length(q)] EXCEPT ![r] = @ + 1]
  <2>1. \A q \in Run \ {r} : Length(q)' = Length(q)
    BY <1>5 DEF Length
  <2>2. Length(r)' = Length(r) + 1
    BY <1>1, <1>6
  <2>3. QED BY <2>1, <2>2
<1>8. \A q \in Run \ {r} : Commitment(q)' = Commitment(q) /\ Text(q)' = Text(q)
  BY <1>1 DEF Commitment, Text
<1>9. /\ DOMAIN Commitment(r)' = 0..(n + 1)
      /\ \A s \in 0..n : Commitment(r)'[s] = Commitment(r)[s]
      /\ Commitment(r)'[n + 1].seq = n + 1
      /\ Commitment(r)'[n + 1].kind = e.kind
  <2>1. \A s \in 0..n : s \in 0..(n + 1)
    BY <1>1
  <2>2. \A s \in 0..n : Canon(tlr_events'[r][s]) = Canon(tlr_events[r][s])
    BY <1>1, <1>3 DEF SameEntry
  <2>3. n + 1 \in 0..(n + 1)
    BY <1>1
  <2>4. Canon(e).seq = e.seq /\ Canon(e).kind = e.kind
    BY DEF Canon
  <2>5. Commitment(r)'[n + 1] = Canon(e)
    BY <1>1, <1>4, <2>3 DEF Commitment, n
  <2>6. QED BY <1>1, <1>3, <1>4, <2>1, <2>2, <2>4, <2>5 DEF Commitment, n
<1>10. /\ DOMAIN Text(r)' = 0..(n + 1)
       /\ \A s \in 0..n :
             Text(r)'[s] = [f \in Field |-> IF s = at /\ f \in fs THEN None
                                           ELSE Text(r)[s][f]]
  <2>1. \A s \in 0..n : s \in 0..(n + 1)
    BY <1>1
  <2>2. \A s \in 0..n : Text(r)[s] = tlr_events[r][s].fields
    BY <1>3 DEF Text
  <2>3. \A s \in 0..n : Text(r)'[s] = rows[s].fields
    BY <1>4, <2>1 DEF Text
  <2>4. \A s \in 0..n :
           rows[s].fields = [f \in Field |-> IF s = at /\ f \in fs THEN None
                                            ELSE tlr_events[r][s].fields[f]]
    BY <1>3 DEF ShowsLess
  <2>5. DOMAIN Text(r)' = 0..(n + 1)
    BY <1>4 DEF Text
  <2>6. ASSUME NEW s \in 0..n
        PROVE  Text(r)'[s] = [f \in Field |-> IF s = at /\ f \in fs THEN None
                                              ELSE Text(r)[s][f]]
    <3>1. Text(r)[s] = tlr_events[r][s].fields
      BY <2>2
    <3>2. Text(r)'[s] = [f \in Field |-> IF s = at /\ f \in fs THEN None
                                         ELSE tlr_events[r][s].fields[f]]
      BY <2>3, <2>4
    <3>3. QED BY <3>1, <3>2
  <2>7. QED BY <2>5, <2>6
<1>11. Log!Grow(r, {e.kind}, at, fs)
  BY <1>1, <1>6, <1>7, <1>8, <1>9, <1>10 DEF Log!Grow
<1>12. Length(r) > 0
  BY <1>1, <1>6
<1>13. ~Sealed(r) /\ \A q \in Run : Sealed(q)' <=> IF q = r THEN ended # None ELSE Sealed(q)
  BY <1>2, <1>5 DEF Sealed
<1>14. QED BY <1>11, <1>12, <1>13

(* A write that erases nothing.                                            *)
LEMMA PlainWriteLog ==
    ASSUME IInv, NEW r \in Run, NEW e, NEW ended, NEW key,
           Write(r, tlr_events[r], e, ended, key)
    PROVE  /\ Log!Grow(r, {e.kind}, 0, {})
           /\ Length(r) > 0 /\ ~Sealed(r)
           /\ \A q \in Run : Sealed(q)' <=> IF q = r THEN ended # None ELSE Sealed(q)
<1>1. SameRows(tlr_events[r], tlr_events[r])
  BY DEF Write
<1>2. \A s \in DOMAIN tlr_events[r] :
         tlr_events[r][s].fields = [f \in Field |-> tlr_events[r][s].fields[f]]
  BY <1>1 DEF SameRows
<1>3. ShowsLess(tlr_events[r], tlr_events[r], 0, {})
  BY <1>2 DEF ShowsLess
<1>4. QED BY <1>3, WriteLog

(* An entry of one kind is an entry of some kind out of more.              *)
LEMMA GrowKind ==
    ASSUME NEW r, NEW kind, NEW kinds, NEW at, NEW fs,
           Log!Grow(r, {kind}, at, fs), kind \in kinds
    PROVE  Log!Grow(r, kinds, at, fs)
BY DEF Log!Grow

(* append adds one entry and hides nothing.                                *)
LEMMA AppendNewLog ==
    ASSUME IInv, NEW r \in Run, NEW key \in Key \cup {None}, NEW ts \in Time,
           NEW kind \in AppendKind, NEW fields \in Body,
           AppendNew(r, key, ts, kind, fields)
    PROVE  Log!Next
<1> DEFINE e == NextEvent(r, ts, kind, fields)
<1>1. kind = "message"
  BY DEF AppendKind, Kind
<1>2. Write(r, tlr_events[r], e, None, key)
  BY AppendNewWrites
<1>3. e.kind = kind
  BY HashedEvent DEF NextEvent
<1>4. /\ Log!Grow(r, {"message"}, 0, {})
      /\ Length(r) > 0 /\ ~Sealed(r)
      /\ \A q \in Run : Sealed(q)' <=> IF q = r THEN None # None ELSE Sealed(q)
  <2> HIDE DEF e
  <2>1. QED BY <1>1, <1>2, <1>3, PlainWriteLog
<1>5. [q \in Run |-> Sealed(q)]' = [q \in Run |-> Sealed(q)]
  <2>1. \A q \in Run : Sealed(q)' = Sealed(q)
    BY <1>4 DEF Sealed
  <2>2. QED BY <2>1
<1>6. Log!Write(r)
  BY <1>4, <1>5 DEF Log!Write
<1>7. QED BY <1>6 DEF Log!Next

(* seal adds run_finished and closes the log.                              *)
LEMMA SealLog ==
    ASSUME IInv, NEW r \in Run, NEW ts \in Time, Seal(r, ts)
    PROVE  Log!Next
<1> DEFINE e == NextEvent(r, ts, "run_finished", Finish(r))
<1>1. ts # None /\ Write(r, tlr_events[r], e, ts, None)
  BY SealWrites
<1>2. e.kind = "run_finished"
  BY HashedEvent DEF NextEvent
<1>3. /\ Log!Grow(r, {"run_finished"}, 0, {})
      /\ Length(r) > 0 /\ ~Sealed(r)
      /\ \A q \in Run : Sealed(q)' <=> IF q = r THEN ts # None ELSE Sealed(q)
  <2> HIDE DEF e
  <2>1. QED BY <1>1, <1>2, PlainWriteLog
<1>4. [q \in Run |-> Sealed(q)]' = [[q \in Run |-> Sealed(q)] EXCEPT ![r] = TRUE]
  <2>1. \A q \in Run : Sealed(q)' = IF q = r THEN TRUE ELSE Sealed(q)
    BY <1>1, <1>3 DEF Sealed
  <2>2. QED BY <2>1
<1>5. Log!Finish(r)
  BY <1>3, <1>4 DEF Log!Finish
<1>6. QED BY <1>5 DEF Log!Next

(* redact hides at most the text it names, in the step that logs it.       *)
LEMMA RedactLog ==
    ASSUME IInv, NEW r \in Run, NEW target, NEW fs \in SUBSET Field,
           NEW ts \in Time, Redact(r, target, fs, ts)
    PROVE  Log!Next
<1> DEFINE row == Erased(tlr_events[r][target], fs)
           rows == ErasedRows(r, target, fs)
           e == Redaction(r, ts, target, fs)
<1>1. /\ r \in DOMAIN tlr_runs
      /\ target \in DOMAIN tlr_events[r]
      /\ Write(r, rows, e, None, None)
  BY RedactWrites
<1>2. e.kind = "redaction"
  BY HashedEvent DEF Redaction, NextEvent
<1>3. ShowsLess(rows, tlr_events[r], target, fs)
  <2>1. row.fields = [f \in Field |-> IF f \in fs THEN None
                                     ELSE tlr_events[r][target].fields[f]]
    BY DEF Erased, RunEvent
  <2>2. \A s \in DOMAIN tlr_events[r] :
           tlr_events[r][s].fields = [f \in Field |-> tlr_events[r][s].fields[f]]
    BY <1>1, RowsUnchanged DEF SameRows
  <2>3. \A s \in DOMAIN tlr_events[r] :
           rows[s] = IF s = target THEN row ELSE tlr_events[r][s]
    BY DEF ErasedRows
  <2> HIDE DEF row, rows
  <2>4. ASSUME NEW s \in DOMAIN tlr_events[r]
        PROVE  rows[s].fields = [f \in Field |-> IF s = target /\ f \in fs THEN None
                                                ELSE tlr_events[r][s].fields[f]]
    <3>1. CASE s = target
      BY <2>1, <2>3, <3>1
    <3>2. CASE s # target
      BY <2>2, <2>3, <3>2
    <3>3. QED BY <3>1, <3>2
  <2>5. QED BY <2>4 DEF ShowsLess
<1>4. /\ Log!Grow(r, {"redaction"}, target, fs)
      /\ Length(r) > 0 /\ ~Sealed(r)
      /\ \A q \in Run : Sealed(q)' <=> IF q = r THEN None # None ELSE Sealed(q)
  <2> HIDE DEF e, rows
  <2>1. QED BY <1>1, <1>2, <1>3, WriteLog
<1>5. [q \in Run |-> Sealed(q)]' = [q \in Run |-> Sealed(q)]
  <2>1. \A q \in Run : Sealed(q)' = Sealed(q)
    BY <1>4 DEF Sealed
  <2>2. QED BY <2>1
<1>6. Log!Redact(r, target, fs)
  BY <1>4, <1>5 DEF Log!Redact
<1>7. target \in 0..(Length(r) - 1)
  <2>1. target \in 0..tlr_runs[r].head_seq /\ tlr_runs[r].head_seq \in Nat
    BY <1>1, RowsUnchanged DEF IInv, RunsOK, RunOK
  <2>2. QED BY <1>1, <2>1 DEF Length
<1>8. Log!Next
  <2>1. [q \in Run |-> Length(q)][r] = Length(r)
    OBVIOUS
  <2>2. QED BY <1>6, <1>7, <2>1 DEF Log!Next
<1>9. QED BY <1>8

(* Steps that leave runs and rows alone cannot be seen in the log.         *)
LEMMA StutterLog ==
    ASSUME UNCHANGED <<tlr_runs, tlr_events>>
    PROVE  UNCHANGED Log!vars
BY DEF Log!vars, Length, Commitment, Text, Sealed

(* Every step of the store is a step of the log or invisible to it, so     *)
(* the store implements it.                                                *)
THEOREM Implements == Spec => LogSpec
<1>1. IInv /\ [Next]_vars => [Log!Next]_(Log!vars)
  <2> SUFFICES ASSUME IInv, [Next]_vars PROVE [Log!Next]_(Log!vars)
    OBVIOUS
  <2>1. CASE UNCHANGED vars
    BY <2>1, StutterLog DEF vars
  <2>2. ASSUME NEW r \in Run, NEW ts \in Time, CreateRun(r, ts) PROVE Log!Next
    BY <2>2, CreateRunLog
  <2>3. ASSUME NEW r \in Run, NEW key \in Key \cup {None}, NEW ts \in Time,
               NEW kind \in AppendKind, NEW fields \in Body,
               AppendNew(r, key, ts, kind, fields)
        PROVE  Log!Next
    BY <2>3, AppendNewLog
  <2>4. ASSUME NEW r \in Run, NEW key \in Key, AppendReplay(r, key)
        PROVE  UNCHANGED Log!vars
    BY <2>4, StutterLog DEF AppendReplay
  <2>5. ASSUME NEW r \in Run, NEW ts \in Time, Seal(r, ts) PROVE Log!Next
    BY <2>5, SealLog
  <2>6. ASSUME NEW r \in Run, NEW target \in 0..MaxSeq, NEW fs \in SUBSET Field,
               NEW ts \in Time, Redact(r, target, fs, ts)
        PROVE  Log!Next
    BY <2>6, RedactLog
  <2>7. ASSUME NEW reply \in replies, PutCheckpoint(reply)
        PROVE  UNCHANGED Log!vars
    BY <2>7, StutterLog DEF PutCheckpoint
  <2>8. QED BY <2>1, <2>2, <2>3, <2>4, <2>5, <2>6, <2>7 DEF Next
<1>2. QED BY <1>1, InitLog, Invariance, PTL DEF Spec, LogSpec, Log!Spec
=============================================================================
