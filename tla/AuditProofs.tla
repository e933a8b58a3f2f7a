----------------------------- MODULE AuditProofs -----------------------------
(***************************************************************************)
(* Proofs about Audit, for any runs, keys, page sizes and length of the    *)
(* record, any number of checkpoints, restored databases and restarts.     *)
(***************************************************************************)
EXTENDS Audit, RecordStoreProofs, SequenceTheorems

-----------------------------------------------------------------------------
(* The inductive invariant.                                                *)

(* As long as no key lapsed: with a configured seed it is the only key; a  *)
(* key from a file signs only as long as it is in the file, and a file     *)
(* without it was never signed with anything.                              *)
KeyHeld ==
    /\ seed # NoKey => /\ key \in {seed, NoKey} /\ pending = NoKey
                       /\ \A c \in signed : c.signed_by = seed
    /\ seed = NoKey => /\ key # NoKey => key = file
                       /\ pending # NoKey => key = NoKey /\ signed = {}
                       /\ \A c \in signed : c.signed_by = file /\ file \in SigningKey

KeysOK ==
    /\ seed \in SigningKey \cup {NoKey}
    /\ pending \in SigningKey \cup {NoKey}
    /\ key \in SigningKey \cup {NoKey}
    /\ lapsed \/ KeyHeld

(* The store keeps its own invariant; no call of an audit carries a key.   *)
Unkeyed == \A r \in Run : DOMAIN tlr_idem[r] = {}

(* The envelope names its run until it is erased.                          *)
NamesRun(e, r) == e.fields["metadata"] \in {None, [run_id |-> r]}

RootsOK == \A r \in DOMAIN tlr_runs : NamesRun(tlr_events[r][0], r)

StoreOK == IInv /\ Unkeyed /\ RootsOK

(* A checkpoint covers a record that passed up to its sequence number.     *)
Attested(c) ==
    /\ c.seq \in Nat
    /\ \E ds : /\ Linked(ds, c.seq + 1)
               /\ ds[c.seq + 1].hash = c.head_hash
               /\ \A i \in 1..(c.seq + 1) : c.covers[i] = Canon(ds[i])

(* The record still holds what the checkpoint was signed over.             *)
Live(c) == /\ c.run_id \in DOMAIN tlr_runs
           /\ c.seq \in 0..tlr_runs[c.run_id].head_seq
           /\ tlr_events[c.run_id][c.seq].hash = c.head_hash

SignedOK == \A c \in signed : Attested(c) /\ (restores = 0 => Live(c))

(* The first events of the record, up to what was erased since.            *)
FirstOf(es) ==
    /\ Len(es) <= Length(Audited)
    /\ \A i \in 1..Len(es) : SameEntry(es[i], tlr_events[Audited][i - 1])
    /\ es # <<>> => NamesRun(es[1], Audited)

GotOK ==
    /\ \E S : got \in Seq(S)
    /\ \A i \in 1..Len(got) : got[i].seq \in Nat
    /\ whole => page \in Pages /\ got # <<>>
    /\ restores = 0 => FirstOf(got)
    /\ restores = 0 /\ whole /\ page <= ServerMax => held = Len(got)

(* A checkpoint fetched in time is of an event that was then downloaded.   *)
InTime == restores = 0 /\ whole /\ ~late /\ page <= ServerMax

FetchedOK ==
    /\ cp # <<>> => /\ cp \in signed
                    /\ InTime /\ cp.run_id = Audited => cp.seq < Len(got)
    /\ pub # NoKey => pub = key

AInv == KeysOK /\ StoreOK /\ SignedOK /\ GotOK /\ FetchedOK /\ restores \in Nat

-----------------------------------------------------------------------------
(* The keys.                                                               *)

(* A server that has never run holds no key.                               *)
LEMMA KeyInitOK == KeyInit => KeysOK
BY KeyAssumption DEF KeyInit, KeysOK, KeyHeld

(* Starting from the environment or the file, and stopping anywhere.       *)
LEMMA StartKeepsKeys ==
    ASSUME KeysOK, FromEnv \/ FromFile \/ StopServer \/ RemoveGarbled
    PROVE  KeysOK'
BY KeyAssumption
DEF KeysOK, KeyHeld, Down, FromEnv, FromFile, StopServer, RemoveGarbled

(* Generating a key lapses the old one, if there was one to lapse.         *)
LEMMA GenerateKeepsKeys ==
    ASSUME KeysOK, NEW k \in SigningKey, NEW readable \in BOOLEAN,
           Ephemeral(k) \/ Create(k, readable) \/ CreateFails(k, readable)
    PROVE  KeysOK'
<1>1. CASE Ephemeral(k)
  BY <1>1 DEF KeysOK, Ephemeral
<1>2. CASE CreateFails(k, readable)
  BY <1>2 DEF KeysOK, CreateFails
<1>3. CASE Create(k, readable)
  <2>1. /\ seed = NoKey /\ key = NoKey
        /\ pending' = k /\ file' = Garbled
        /\ lapsed' = (lapsed \/ file \in SigningKey)
        /\ UNCHANGED <<seed, key, signed>>
    BY <1>3 DEF Create, Down
  <2>2. CASE lapsed \/ file \in SigningKey
    <3>1. lapsed'
      BY <2>1, <2>2
    <3>2. QED BY <2>1, <3>1 DEF KeysOK
  <2>3. CASE ~lapsed /\ file \notin SigningKey
    <3>1. signed = {}
      BY <2>1, <2>3 DEF KeysOK, KeyHeld
    <3>2. KeyHeld'
      BY <2>1, <3>1 DEF KeyHeld
    <3>3. QED BY <2>1, <3>2 DEF KeysOK
  <2>4. QED BY <2>2, <2>3
<1>4. QED BY <1>1, <1>2, <1>3

(* Saving the key that a start has generated, or failing to.               *)
LEMMA SaveKeepsKeys ==
    ASSUME KeysOK, Save \/ SaveFails
    PROVE  KeysOK'
<1>1. CASE SaveFails
  BY <1>1 DEF KeysOK, SaveFails
<1>2. CASE Save
  <2>1. /\ pending \in SigningKey
        /\ file' = pending /\ key' = pending /\ pending' = NoKey
        /\ UNCHANGED <<seed, signed, lapsed>>
    BY <1>2 DEF Save, KeysOK
  <2>2. CASE lapsed
    BY <2>1, <2>2 DEF KeysOK
  <2>3. CASE ~lapsed
    <3>1. seed = NoKey /\ signed = {}
      BY <2>1, <2>3, KeyAssumption DEF KeysOK, KeyHeld
    <3>2. KeyHeld'
      BY <2>1, <3>1 DEF KeyHeld
    <3>3. QED BY <2>1, <3>2 DEF KeysOK
  <2>4. QED BY <2>2, <2>3
<1>3. QED BY <1>1, <1>2

(* Whatever happens to the server and its file keeps the invariant.        *)
LEMMA KeyStepKeepsKeys ==
    ASSUME KeysOK, KeyStep
    PROVE  KeysOK' /\ signed' = signed
<1>1. KeysOK'
  BY StartKeepsKeys, GenerateKeepsKeys, SaveKeepsKeys DEF KeyStep
<1>2. signed' = signed
  BY DEF KeyStep, FromEnv, FromFile, Save, SaveFails, RemoveGarbled, StopServer,
         Ephemeral, Create, CreateFails
<1>3. QED BY <1>1, <1>2

(* What is signed is signed with the key that is published.                *)
LEMMA SignKeepsKeys ==
    ASSUME KeysOK, NEW r, NEW n, NEW head, NEW covers, Sign(r, n, head, covers)
    PROVE  KeysOK'
<1> DEFINE c == Checkpoint(r, n, head, key, covers)
<1>1. /\ key # NoKey
      /\ signed' = signed \cup {c}
      /\ UNCHANGED <<seed, path, file, drawn, pending, key, lapsed>>
  BY DEF Sign
<1>2. c.signed_by = key
  BY DEF Checkpoint
<1> HIDE DEF c
<1>3. CASE lapsed
  BY <1>1, <1>3 DEF KeysOK
<1>4. CASE ~lapsed
  <2>1. KeyHeld /\ key \in SigningKey
    BY <1>1, <1>4 DEF KeysOK
  <2>2. seed # NoKey => key = seed
    BY <1>1, <2>1 DEF KeyHeld
  <2>3. seed = NoKey => key = file /\ pending = NoKey
    BY <1>1, <2>1 DEF KeyHeld
  <2>4. KeyHeld'
    BY <1>1, <1>2, <2>1, <2>2, <2>3 DEF KeyHeld
  <2>5. QED BY <1>1, <2>4 DEF KeysOK
<1>5. QED BY <1>3, <1>4

(* The invariant says what a client sees: all checkpoints verify.          *)
LEMMA KeysVerify ==
    ASSUME KeysOK
    PROVE  KeySurvives
BY DEF KeysOK, KeyHeld, KeySurvives, SignatureValid

-----------------------------------------------------------------------------
(* What the server does to the record.                                     *)

(* A row that is the same entry, its metadata perhaps erased.              *)
Faded(e, d) == /\ SameEntry(e, d)
               /\ e.fields["metadata"] \in {None, d.fields["metadata"]}

(* Runs stay, records only grow, and what they hold only fades.            *)
Onward ==
    \A r \in DOMAIN tlr_runs :
        /\ r \in DOMAIN tlr_runs'
        /\ tlr_runs[r].head_seq \in Nat /\ tlr_runs'[r].head_seq \in Nat
        /\ tlr_runs[r].head_seq <= tlr_runs'[r].head_seq
        /\ \A s \in 0..tlr_runs[r].head_seq :
              Faded(tlr_events'[r][s], tlr_events[r][s])

(* A step that leaves runs and rows alone.                                 *)
LEMMA StillOnward ==
    ASSUME IInv, UNCHANGED <<tlr_runs, tlr_events>>
    PROVE  Onward
BY RowsUnchanged DEF Onward, Faded, SameEntry

(* Writing one entry, over rows whose metadata only fades.                 *)
LEMMA WriteOnward ==
    ASSUME IInv, NEW r \in Run, NEW rows, NEW e, NEW ended, NEW key_,
           Write(r, rows, e, ended, key_),
           \A s \in DOMAIN tlr_events[r] :
              rows[s].fields["metadata"]
                 \in {None, tlr_events[r][s].fields["metadata"]}
    PROVE  Onward /\ DOMAIN tlr_runs' = DOMAIN tlr_runs
<1>1. /\ e.seq = tlr_runs[r].head_seq + 1
      /\ tlr_runs[r].head_seq \in Nat
      /\ e.seq \notin DOMAIN tlr_events[r]
      /\ \A s \in DOMAIN tlr_events[r] :
            SameEntry(tlr_events'[r][s], tlr_events[r][s])
      /\ \A q \in Run \ {r} : tlr_events'[q] = tlr_events[q]
  BY WriteRows
<1>2. /\ r \in DOMAIN tlr_runs
      /\ tlr_runs' = InsertRow(tlr_runs, r, [head_seq  |-> e.seq,
                                            head_hash |-> e.hash,
                                            ended_ts  |-> ended])
      /\ tlr_events'[r] = InsertRow(rows, e.seq, e)
      /\ DOMAIN rows = DOMAIN tlr_events[r]
  BY DEF Write, SameRows, WriteEvent, IInv, TypeOK
<1>3. /\ DOMAIN tlr_runs' = DOMAIN tlr_runs
      /\ tlr_runs'[r].head_seq = e.seq
      /\ \A q \in DOMAIN tlr_runs \ {r} : tlr_runs'[q] = tlr_runs[q]
  BY <1>2 DEF InsertRow
<1>4. \A s \in DOMAIN tlr_events[r] : Faded(tlr_events'[r][s], tlr_events[r][s])
  <2>1. \A s \in DOMAIN tlr_events[r] : tlr_events'[r][s] = rows[s]
    BY <1>1, <1>2 DEF InsertRow
  <2>2. QED BY <1>1, <2>1 DEF Faded
<1>5. ASSUME NEW q \in DOMAIN tlr_runs
      PROVE  /\ tlr_runs[q].head_seq \in Nat
             /\ q \in Run
             /\ DOMAIN tlr_events[q] = 0..tlr_runs[q].head_seq
             /\ \A s \in 0..tlr_runs[q].head_seq :
                   Faded(tlr_events[q][s], tlr_events[q][s])
  BY RowsUnchanged DEF IInv, RunsOK, RunOK, Faded, SameEntry
<1>6. Onward
  BY <1>1, <1>2, <1>3, <1>4, <1>5 DEF Onward
<1>7. QED BY <1>3, <1>6

(* Where records go onward, runs go on naming themselves.                  *)
LEMMA OnwardRoots ==
    ASSUME RootsOK, Onward,
           \A r \in DOMAIN tlr_runs' \ DOMAIN tlr_runs :
              NamesRun(tlr_events'[r][0], r)
    PROVE  RootsOK'
<1>1. ASSUME NEW r \in DOMAIN tlr_runs PROVE NamesRun(tlr_events'[r][0], r)
  <2>1. 0 \in 0..tlr_runs[r].head_seq
    BY DEF Onward
  <2>2. Faded(tlr_events'[r][0], tlr_events[r][0])
    BY <2>1 DEF Onward
  <2>3. NamesRun(tlr_events[r][0], r)
    BY DEF RootsOK
  <2>4. QED BY <2>2, <2>3 DEF Faded, NamesRun
<1>2. QED BY <1>1 DEF RootsOK, NamesRun

(* create_run adds a run that names itself.                                *)
LEMMA CreateRunOnward ==
    ASSUME IInv, NEW r \in Run, NEW ts, CreateRun(r, ts)
    PROVE  /\ Onward
           /\ \A q \in DOMAIN tlr_runs' \ DOMAIN tlr_runs :
                 NamesRun(tlr_events'[q][0], q)
<1> DEFINE e == Hashed(0, ts, "run_started", Metadata([run_id |-> r]), ZERO)
<1>1. e.seq = 0 /\ e.fields["metadata"] = [run_id |-> r]
  BY HashedEvent, MetadataFields
<1> HIDE DEF e
<1>2. /\ r \notin DOMAIN tlr_runs
      /\ DOMAIN tlr_events = Run
      /\ DOMAIN tlr_events[r] = {}
  BY DEF CreateRun, IInv, TypeOK
<1>3. /\ tlr_events'[r][0] = e
      /\ \A q \in Run \ {r} : tlr_events'[q] = tlr_events[q]
      /\ DOMAIN tlr_runs' = DOMAIN tlr_runs \cup {r}
      /\ \A q \in DOMAIN tlr_runs : tlr_runs'[q] = tlr_runs[q]
  BY <1>1, <1>2 DEF CreateRun, WriteEvent, InsertRow, e
<1>4. \A q \in DOMAIN tlr_runs : q \in Run /\ tlr_runs[q].head_seq \in Nat
  BY RowsUnchanged
<1>5. Onward
  BY <1>2, <1>3, <1>4 DEF Onward, Faded, SameEntry
<1>6. QED BY <1>1, <1>3, <1>5 DEF NamesRun

(* A call without a key leaves the idempotency table alone.                *)
LEMMA NoKeyKept ==
    ASSUME NEW r, NEW rows, NEW e, NEW ended, Write(r, rows, e, ended, None)
    PROVE  UNCHANGED <<tlr_idem, tlr_checkpoints>>
BY DEF Write, KeepResult

(* append, called without a key, goes onward.                              *)
LEMMA AppendOnward ==
    ASSUME IInv, NEW r \in Run, NEW ts \in Time, NEW fields \in [Field -> Value],
           AppendNew(r, None, ts, "message", fields)
    PROVE  /\ IInv' /\ Onward /\ DOMAIN tlr_runs' = DOMAIN tlr_runs
           /\ UNCHANGED <<tlr_idem, tlr_checkpoints>>
<1>1. "message" \in AppendKind /\ fields \in Body /\ None \in Key \cup {None}
  BY DEF AppendKind, Kind, Body
<1> DEFINE e == NextEvent(r, ts, "message", fields)
<1>2. Write(r, tlr_events[r], e, None, None)
  BY <1>1, AppendNewWrites
<1> HIDE DEF e
<1>3. QED BY <1>1, <1>2, WriteKeepsInv, WriteOnward, NoKeyKept

(* seal goes onward: what it keeps beside the record is not looked at.     *)
LEMMA SealOnward ==
    ASSUME IInv, NEW r \in Run, NEW ts \in Time, Seal(r, ts)
    PROVE  /\ IInv' /\ Onward /\ DOMAIN tlr_runs' = DOMAIN tlr_runs
           /\ UNCHANGED <<tlr_idem, tlr_checkpoints>>
<1> DEFINE e == NextEvent(r, ts, "run_finished", Finish(r))
<1>1. Write(r, tlr_events[r], e, ts, None)
  BY SealWrites
<1> HIDE DEF e
<1>2. QED BY <1>1, WriteKeepsInv, WriteOnward, NoKeyKept

(* redact goes onward: the row it erases fades, all others stay.           *)
LEMMA RedactOnward ==
    ASSUME IInv, NEW r \in Run, NEW target, NEW fs \in SUBSET Field,
           NEW ts \in Time, Redact(r, target, fs, ts)
    PROVE  /\ IInv' /\ Onward /\ DOMAIN tlr_runs' = DOMAIN tlr_runs
           /\ UNCHANGED <<tlr_idem, tlr_checkpoints>>
<1> DEFINE rows == ErasedRows(r, target, fs)
           e == Redaction(r, ts, target, fs)
<1>1. target \in DOMAIN tlr_events[r] /\ Write(r, rows, e, None, None)
  BY RedactWrites
<1>2. Erased(tlr_events[r][target], fs).fields["metadata"]
         \in {None, tlr_events[r][target].fields["metadata"]}
  BY StoreAssumption DEF Erased, RunEvent
<1>3. \A s \in DOMAIN tlr_events[r] :
         rows[s].fields["metadata"] \in {None, tlr_events[r][s].fields["metadata"]}
  BY <1>2 DEF ErasedRows
<1> HIDE DEF e, rows
<1>4. QED BY <1>1, <1>3, WriteKeepsInv, WriteOnward, NoKeyKept

(* Whatever the server writes keeps the store's invariant and goes onward. *)
LEMMA ServeOnward ==
    ASSUME StoreOK, Serve
    PROVE  StoreOK' /\ Onward
<1>1. IInv /\ Unkeyed /\ RootsOK
  BY DEF StoreOK
<1>2. ASSUME NEW ts \in Time, NEW r \in Run, CreateRun(r, ts)
      PROVE  StoreOK' /\ Onward
  <2>1. IInv' /\ UNCHANGED tlr_idem
    BY <1>1, <1>2, CreateRunKeepsInv DEF CreateRun
  <2>2. Onward /\ RootsOK'
    BY <1>1, <1>2, CreateRunOnward, OnwardRoots
  <2>3. QED BY <1>1, <2>1, <2>2 DEF StoreOK, Unkeyed
<1>3. ASSUME IInv', Onward, DOMAIN tlr_runs' = DOMAIN tlr_runs, UNCHANGED tlr_idem
      PROVE  StoreOK' /\ Onward
  <2>1. RootsOK'
    BY <1>1, <1>3, OnwardRoots
  <2>2. QED BY <1>1, <1>3, <2>1 DEF StoreOK, Unkeyed
<1>4. ASSUME NEW ts \in Time, NEW r \in Run, NEW fields \in [Field -> Value],
             AppendNew(r, None, ts, "message", fields)
      PROVE  StoreOK' /\ Onward
  BY <1>1, <1>3, <1>4, AppendOnward
<1>5. ASSUME NEW ts \in Time, Seal(Audited, ts) PROVE StoreOK' /\ Onward
  BY <1>1, <1>3, <1>5, SealOnward, AuditAssumption
<1>6. ASSUME NEW ts \in Time, NEW target, Redact(Audited, target, Field, ts)
      PROVE  StoreOK' /\ Onward
  BY <1>1, <1>3, <1>6, RedactOnward, AuditAssumption
<1>7. QED BY <1>2, <1>4, <1>5, <1>6 DEF Serve

-----------------------------------------------------------------------------
(* Restored databases.                                                     *)

(* What is left of a run, and nothing else, when it is cut at its event n. *)
LEMMA RestoreCuts ==
    ASSUME IInv, NEW r \in Run, NEW n \in Nat, Restore(r, n)
    PROVE  /\ r \in DOMAIN tlr_runs /\ n < tlr_runs[r].head_seq
           /\ DOMAIN tlr_runs' = DOMAIN tlr_runs
           /\ tlr_runs'[r] = [head_seq |-> n, head_hash |-> tlr_events[r][n].hash,
                              ended_ts |-> None]
           /\ DOMAIN tlr_events' = Run
           /\ tlr_events'[r] = [s \in 0..n |-> tlr_events[r][s]]
           /\ DOMAIN tlr_checkpoints' = Run
           /\ DOMAIN tlr_checkpoints'[r] = DOMAIN tlr_checkpoints[r] \cap 0..n
           /\ \A s \in DOMAIN tlr_checkpoints'[r] :
                 tlr_checkpoints'[r][s] = tlr_checkpoints[r][s]
           /\ \A q \in Run \ {r} : /\ tlr_events'[q] = tlr_events[q]
                                   /\ tlr_checkpoints'[q] = tlr_checkpoints[q]
           /\ \A q \in DOMAIN tlr_runs \ {r} : tlr_runs'[q] = tlr_runs[q]
           /\ replies' = {a \in replies : a.run # r \/ a.res.seq <= n}
           /\ tlr_idem' = tlr_idem
BY DEF IInv, TypeOK, Restore, Prefix

(* A chain cut short is a chain, open again.                               *)
LEMMA CutChain ==
    ASSUME NEW head, NEW rows, RunOK(head, rows), head.head_seq \in Nat,
           NEW n \in Nat, n < head.head_seq
    PROVE  RunOK([head_seq |-> n, head_hash |-> rows[n].hash, ended_ts |-> None],
                 [s \in 0..n |-> rows[s]])
<1> DEFINE cut == [s \in 0..n |-> rows[s]]
           next == [head_seq |-> n, head_hash |-> rows[n].hash, ended_ts |-> None]
<1>1. DOMAIN cut = 0..n /\ \A s \in 0..n : cut[s] = rows[s]
  OBVIOUS
<1> HIDE DEF cut
<1>2. ASSUME NEW s \in 0..n
      PROVE  RowOK(cut, s) /\ cut[s].kind # "run_finished"
  <2>1. s \in 0..head.head_seq /\ s # head.head_seq
    OBVIOUS
  <2>2. RowOK(rows, s) /\ rows[s].kind # "run_finished"
    BY <2>1 DEF RunOK
  <2>3. s # 0 => s - 1 \in 0..n
    OBVIOUS
  <2>4. QED BY <1>1, <2>2, <2>3 DEF RowOK
<1>3. n \in 0..n
  OBVIOUS
<1>4. RunOK(next, cut)
  BY <1>1, <1>2, <1>3 DEF RunOK
<1>5. QED BY <1>4 DEF cut

(* A restored database keeps the invariant of the store: it is one the     *)
(* server could have had, and the replies it knows nothing of are dropped. *)
LEMMA RestoreKeepsStore ==
    ASSUME StoreOK, NEW r \in Run, NEW n \in Nat, Restore(r, n)
    PROVE  StoreOK'
<1>1. IInv /\ Unkeyed /\ RootsOK
  BY DEF StoreOK
<1>2. /\ r \in DOMAIN tlr_runs /\ n < tlr_runs[r].head_seq
      /\ DOMAIN tlr_runs' = DOMAIN tlr_runs
      /\ tlr_runs'[r] = [head_seq |-> n, head_hash |-> tlr_events[r][n].hash,
                         ended_ts |-> None]
      /\ DOMAIN tlr_events' = Run
      /\ tlr_events'[r] = [s \in 0..n |-> tlr_events[r][s]]
      /\ DOMAIN tlr_checkpoints' = Run
      /\ DOMAIN tlr_checkpoints'[r] = DOMAIN tlr_checkpoints[r] \cap 0..n
      /\ \A s \in DOMAIN tlr_checkpoints'[r] :
            tlr_checkpoints'[r][s] = tlr_checkpoints[r][s]
      /\ \A q \in Run \ {r} : /\ tlr_events'[q] = tlr_events[q]
                              /\ tlr_checkpoints'[q] = tlr_checkpoints[q]
      /\ \A q \in DOMAIN tlr_runs \ {r} : tlr_runs'[q] = tlr_runs[q]
      /\ replies' = {a \in replies : a.run # r \/ a.res.seq <= n}
      /\ tlr_idem' = tlr_idem
  BY <1>1, RestoreCuts
<1>3. /\ DOMAIN tlr_events[r] = 0..tlr_runs[r].head_seq
      /\ tlr_runs[r].head_seq \in 0..MaxSeq
      /\ RunOK(tlr_runs[r], tlr_events[r])
  BY <1>1, <1>2 DEF IInv, TypeOK, RunsOK, RunOK
<1>4. /\ DOMAIN tlr_events'[r] = 0..n
      /\ \A s \in 0..n : tlr_events'[r][s] = tlr_events[r][s]
      /\ n \in 0..MaxSeq /\ 0 \in 0..n
  BY <1>2, <1>3, StoreAssumption
<1>5. TypeOK'
  <2>1. ASSUME NEW q \in DOMAIN tlr_runs'
        PROVE  /\ q \in Run
               /\ DOMAIN tlr_runs'[q] = {"head_seq", "head_hash", "ended_ts"}
               /\ tlr_runs'[q].head_seq \in 0..MaxSeq
               /\ tlr_runs'[q].ended_ts \in Time \cup {None}
    BY <1>1, <1>2, <1>4 DEF IInv, TypeOK
  <2>2. ASSUME NEW q \in Run
        PROVE  /\ DOMAIN tlr_events'[q] \subseteq 0..MaxSeq
               /\ DOMAIN tlr_checkpoints'[q] \subseteq 0..MaxSeq
               /\ q \notin DOMAIN tlr_runs' => DOMAIN tlr_events'[q] = {}
    <3>1. CASE q = r
      <4>1. DOMAIN tlr_events'[r] \subseteq DOMAIN tlr_events[r]
        BY <1>2, <1>3, <1>4
      <4>2. QED BY <1>1, <1>2, <3>1, <4>1 DEF IInv, TypeOK
    <3>2. CASE q # r
      BY <1>1, <1>2, <3>2 DEF IInv, TypeOK
    <3>3. QED BY <3>1, <3>2
  <2>3. \A q \in Run : DOMAIN tlr_idem'[q] \subseteq Key
    BY <1>1, <1>2 DEF IInv, TypeOK
  <2>4. DOMAIN tlr_idem' = Run
    BY <1>1, <1>2 DEF IInv, TypeOK
  <2>5. \A a \in replies' : a.run \in Run /\ a.key \in Key \cup {None}
    BY <1>1, <1>2 DEF IInv, TypeOK
  <2>6. QED BY <1>2, <2>1, <2>2, <2>3, <2>4, <2>5 DEF TypeOK
<1>6. RunsOK'
  <2>1. RunOK(tlr_runs'[r], tlr_events'[r])
    BY <1>2, <1>3, CutChain, StoreAssumption
  <2>2. ASSUME NEW q \in DOMAIN tlr_runs, q # r
        PROVE  RunOK(tlr_runs'[q], tlr_events'[q])
    <3>1. q \in Run
      BY <1>1 DEF IInv, TypeOK
    <3>2. QED BY <1>1, <1>2, <2>2, <3>1 DEF IInv, RunsOK
  <2>3. QED BY <1>2, <2>1, <2>2 DEF RunsOK
<1>7. IdemOK'
  BY <1>1, <1>2 DEF IdemOK, Unkeyed
<1>8. KeysKnown' /\ OneEventPerKey'
  BY <1>1, <1>2 DEF IInv, KeysKnown, OneEventPerKey
<1>9. RepliesHold'
  <2>1. ASSUME NEW a \in replies'
        PROVE  /\ a.res.seq \in DOMAIN tlr_events'[a.run]
               /\ a.res = AppendResult(tlr_events'[a.run][a.res.seq])
    <3>1. /\ a.run \in Run
          /\ a.run # r \/ a.res.seq <= n
          /\ a.res.seq \in DOMAIN tlr_events[a.run]
          /\ a.res = AppendResult(tlr_events[a.run][a.res.seq])
      BY <1>1, <1>2 DEF IInv, TypeOK, RepliesHold
    <3>2. CASE a.run # r
      BY <1>2, <3>1, <3>2
    <3>3. CASE a.run = r
      <4>1. a.res.seq \in 0..n
        BY <1>3, <3>1, <3>3, StoreAssumption
      <4>2. QED BY <1>4, <3>1, <3>3, <4>1
    <3>4. QED BY <3>2, <3>3
  <2>2. QED BY <2>1 DEF RepliesHold
<1>10. CheckpointsHold'
  <2>1. ASSUME NEW q \in Run, NEW s \in DOMAIN tlr_checkpoints'[q]
        PROVE  /\ s \in DOMAIN tlr_events'[q]
               /\ tlr_checkpoints'[q][s] = tlr_events'[q][s].hash
    <3>1. CASE q = r
      <4>1. /\ s \in 0..n /\ s \in DOMAIN tlr_checkpoints[r]
            /\ tlr_checkpoints'[r][s] = tlr_checkpoints[r][s]
        BY <1>2, <3>1
      <4>2. tlr_checkpoints[r][s] = tlr_events[r][s].hash
        BY <1>1, <4>1 DEF IInv, CheckpointsHold
      <4>3. QED BY <1>4, <3>1, <4>1, <4>2
    <3>2. CASE q # r
      BY <1>1, <1>2, <3>2 DEF IInv, CheckpointsHold
    <3>3. QED BY <3>1, <3>2
  <2>2. QED BY <2>1 DEF CheckpointsHold
<1>11. Unkeyed'
  BY <1>1, <1>2 DEF Unkeyed
<1>12. RootsOK'
  <2>1. \A q \in DOMAIN tlr_runs : q \in Run
    BY <1>1 DEF IInv, TypeOK
  <2>2. \A q \in DOMAIN tlr_runs : tlr_events'[q][0] = tlr_events[q][0]
    BY <1>2, <1>4, <2>1
  <2>3. QED BY <1>1, <1>2, <2>2 DEF RootsOK, NamesRun
<1>13. IInv'
  BY <1>5, <1>6, <1>7, <1>8, <1>9, <1>10 DEF IInv
<1>14. QED BY <1>11, <1>12, <1>13 DEF StoreOK

-----------------------------------------------------------------------------
(* Checkpoints.                                                            *)

(* What a reply tells is an event of its run, with the hash it has there.  *)
LEMMA ReplyIsEvent ==
    ASSUME IInv, NEW reply \in replies
    PROVE  /\ reply.run \in DOMAIN tlr_runs
           /\ reply.res.seq \in 0..tlr_runs[reply.run].head_seq
           /\ tlr_events[reply.run][reply.res.seq].hash = reply.res.hash
<1> DEFINE r == reply.run
           n == reply.res.seq
<1>1. /\ r \in Run /\ n \in DOMAIN tlr_events[r]
      /\ reply.res = AppendResult(tlr_events[r][n])
  BY DEF IInv, TypeOK, RepliesHold
<1>2. r \in DOMAIN tlr_runs
  BY <1>1 DEF IInv, TypeOK
<1>3. n \in 0..tlr_runs[r].head_seq
  BY <1>1, <1>2 DEF IInv, RunsOK, RunOK
<1>4. AppendResult(tlr_events[r][n]).hash = tlr_events[r][n].hash
  BY DEF AppendResult
<1>5. QED BY <1>1, <1>2, <1>3, <1>4

(* The commitments of the first events of a record.                        *)
LEMMA FirstCommitments ==
    ASSUME NEW es, NEW n \in Nat
    PROVE  \A i \in 1..n : Commitments(SubSeq(es, 1, n))[i] = Canon(es[i])
<1> DEFINE S == {es[i] : i \in 1..n}
<1>1. /\ Len(SubSeq(es, 1, n)) = IF 1 <= n THEN n - 1 + 1 ELSE 0
      /\ \A i \in 1..(n - 1 + 1) : SubSeq(es, 1, n)[i] = es[1 + i - 1]
  <2>1. \A i \in 1..n : es[i] \in S
    OBVIOUS
  <2> HIDE DEF S
  <2>2. QED BY <2>1, SubSeqProperties
<1>2. /\ n - 1 + 1 = n
      /\ \A i \in 1..n : 1 + i - 1 = i
      /\ (IF 1 <= n THEN n - 1 + 1 ELSE 0) = n
  OBVIOUS
<1>3. Len(SubSeq(es, 1, n)) = n /\ \A i \in 1..n : SubSeq(es, 1, n)[i] = es[i]
  BY <1>1, <1>2
<1>4. QED BY <1>3 DEF Commitments

(* A checkpoint of a record the store keeps covers a record that passes.   *)
LEMMA RecordAttested ==
    ASSUME IInv, NEW r \in DOMAIN tlr_runs, NEW n \in 0..tlr_runs[r].head_seq, NEW c,
           c.seq = n, c.head_hash = tlr_events[r][n].hash,
           c.covers = Commitments(SubSeq(Record(r), 1, n + 1))
    PROVE  Attested(c)
<1> DEFINE ds == Record(r)
           h == tlr_runs[r].head_seq
<1>1. /\ h \in Nat
      /\ \A i \in 1..(h + 1) : ds[i] = tlr_events[r][i - 1]
  BY RecordRows
<1>2. \A i \in 1..(h + 1) : Fault(ds, i) = "none"
  BY NoFault
<1> HIDE DEF ds, h
<1>3. n \in 0..h
  BY DEF h
<1>4. n \in Nat /\ n + 1 \in 1..(h + 1) /\ (n + 1) - 1 = n
  BY <1>1, <1>3
<1>5. \A i \in 1..(n + 1) : i \in 1..(h + 1)
  BY <1>1, <1>4
<1>6. Linked(ds, n + 1)
  BY <1>2, <1>5 DEF Linked
<1>7. ds[n + 1].hash = c.head_hash
  <2>1. ds[n + 1] = tlr_events[r][(n + 1) - 1]
    BY <1>1, <1>4
  <2>2. QED BY <1>4, <2>1
<1>8. \A i \in 1..(n + 1) : c.covers[i] = Canon(ds[i])
  <2>1. n + 1 \in Nat
    BY <1>4
  <2>2. c.covers = Commitments(SubSeq(ds, 1, n + 1))
    BY DEF ds
  <2>3. QED BY <2>1, <2>2, FirstCommitments
<1>9. QED BY <1>4, <1>6, <1>7, <1>8 DEF Attested

(* Signing and storing a checkpoint, however long after its event.         *)
LEMMA AttestKeeps ==
    ASSUME StoreOK, KeysOK, SignedOK, NEW reply \in replies, Attest(reply)
    PROVE  StoreOK' /\ KeysOK' /\ SignedOK' /\ signed \subseteq signed'
<1> DEFINE r == reply.run
           n == reply.res.seq
           covers == Commitments(SubSeq(Record(r), 1, n + 1))
           c == Checkpoint(r, n, reply.res.hash, key, covers)
<1>1. /\ Sign(r, n, reply.res.hash, covers)
      /\ PutCheckpoint(reply)
      /\ UNCHANGED <<auditVars, restores>>
  BY DEF Attest, SignedHash
<1>2. /\ r \in DOMAIN tlr_runs
      /\ n \in 0..tlr_runs[r].head_seq
      /\ tlr_events[r][n].hash = reply.res.hash
  BY ReplyIsEvent DEF StoreOK
<1>3. /\ c.run_id = r /\ c.seq = n
      /\ c.head_hash = reply.res.hash /\ c.covers = covers
  BY DEF Checkpoint
<1>4. signed' = signed \cup {c}
  BY <1>1 DEF Sign
<1>5. KeysOK'
  BY <1>1, SignKeepsKeys
<1> HIDE DEF c
<1>6. Attested(c)
  BY <1>2, <1>3, RecordAttested DEF StoreOK
<1>7. Live(c)
  BY <1>2, <1>3 DEF Live
<1> HIDE DEF covers, n, r
<1>8. UNCHANGED <<tlr_runs, tlr_events, tlr_idem, restores>>
  BY <1>1 DEF PutCheckpoint
<1>9. StoreOK'
  <2>1. IInv'
    BY <1>1, PutCheckpointKeepsInv DEF StoreOK
  <2>2. QED BY <1>8, <2>1 DEF StoreOK, Unkeyed, RootsOK, NamesRun
<1>10. SignedOK'
  <2>1. \A d \in signed' : Attested(d) /\ (restores = 0 => Live(d))
    BY <1>4, <1>6, <1>7 DEF SignedOK
  <2>2. \A d : Live(d)' <=> Live(d)
    BY <1>8 DEF Live
  <2>3. \A d : Attested(d)' <=> Attested(d)
    BY DEF Attested
  <2>4. QED BY <1>8, <2>1, <2>2, <2>3 DEF SignedOK
<1>11. QED BY <1>4, <1>5, <1>9, <1>10

(* Checkpoints stay live while the record goes onward.                     *)
LEMMA OnwardSigned ==
    ASSUME SignedOK, Onward, UNCHANGED <<signed, restores>>
    PROVE  SignedOK'
<1>1. ASSUME NEW c \in signed, restores = 0 PROVE Live(c)'
  <2>1. Live(c)
    BY <1>1 DEF SignedOK
  <2>2. /\ c.run_id \in DOMAIN tlr_runs'
        /\ c.seq \in 0..tlr_runs'[c.run_id].head_seq
        /\ Faded(tlr_events'[c.run_id][c.seq], tlr_events[c.run_id][c.seq])
    BY <2>1 DEF Live, Onward
  <2>3. QED BY <2>1, <2>2 DEF Live, Faded, SameEntry
<1>2. \A d : Attested(d)' <=> Attested(d)
  BY DEF Attested
<1>3. QED BY <1>1, <1>2 DEF SignedOK

-----------------------------------------------------------------------------
(* The download.                                                           *)

(* One page: events of the record from n on, at least one if there is one, *)
(* and all there are if it is short of a size the server honours.          *)
LEMMA PageOf ==
    ASSUME IInv, Audited \in DOMAIN tlr_runs, NEW n \in Nat, NEW p \in Nat
    PROVE  LET batch == PageFrom(n, p)
               rows  == tlr_events[Audited]
               L     == Length(Audited)
           IN  /\ L \in Nat \ {0}
               /\ \E S : batch \in Seq(S)
               /\ \A i \in 1..Len(batch) : /\ n + i - 1 \in 0..(L - 1)
                                           /\ batch[i] = rows[n + i - 1]
               /\ n < L => batch # <<>>
               /\ n <= L /\ Len(batch) < p /\ p <= ServerMax => n + Len(batch) = L
               /\ n <= L => n + Len(batch) <= L
<1> DEFINE batch == PageFrom(n, p)
           rows == tlr_events[Audited]
           L == Length(Audited)
           es == Record(Audited)
           last == IF n + Limit(p) > L THEN L ELSE n + Limit(p)
<1>1. L \in Nat \ {0} /\ \A i \in 1..L : es[i] = rows[i - 1]
  BY RecordRows DEF Length
<1>2. Limit(p) \in Nat \ {0} /\ (1 <= p /\ p <= ServerMax => Limit(p) = p)
  BY AuditAssumption DEF Limit
<1>3. batch = IF n >= last THEN <<>> ELSE SubSeq(es, n + 1, last)
  BY DEF PageFrom
<1> HIDE DEF batch, es, L, rows
<1>4. last \in Nat /\ last <= L
  BY <1>1, <1>2
<1>5. CASE n >= last
  <2>1. batch = <<>> /\ Len(batch) = 0 /\ batch \in Seq({})
    BY <1>3, <1>5, EmptySeq
  <2>2. ~(n < L)
    BY <1>1, <1>2, <1>5
  <2>3. QED BY <1>1, <2>1, <2>2 DEF batch, L, rows
<1>6. CASE n < last
  <2> DEFINE S == {es[i] : i \in (n + 1)..last}
  <2>1. \A i \in (n + 1)..last : es[i] \in S
    OBVIOUS
  <2>2. n + 1 \in Int /\ last \in Int /\ n + 1 <= last
    BY <1>4, <1>6
  <2> HIDE DEF S, last
  <2>3. batch = SubSeq(es, n + 1, last)
    BY <1>3, <1>4, <1>6
  <2>4. /\ batch \in Seq(S)
        /\ Len(batch) = last - (n + 1) + 1
        /\ \A i \in 1..(last - (n + 1) + 1) : batch[i] = es[(n + 1) + i - 1]
    BY <2>1, <2>2, <2>3, SubSeqProperties
  <2>5. Len(batch) = last - n /\ Len(batch) \in Nat \ {0}
    BY <1>4, <1>6, <2>4
  <2>6. ASSUME NEW i \in 1..Len(batch)
        PROVE  n + i - 1 \in 0..(L - 1) /\ batch[i] = rows[n + i - 1]
    <3>1. /\ (n + 1) + i - 1 = n + i /\ n + i \in 1..L
          /\ n + i - 1 \in 0..(L - 1) /\ (n + i) - 1 = n + i - 1
      BY <1>1, <1>4, <2>5
    <3>2. batch[i] = es[n + i]
      BY <2>4, <2>5, <3>1
    <3>3. QED BY <1>1, <3>1, <3>2
  <2>7. batch # <<>>
    BY <2>5, EmptySeq
  <2>8. Len(batch) < p /\ p <= ServerMax => n + Len(batch) = L
    <3>1. SUFFICES ASSUME Len(batch) < p, p <= ServerMax PROVE last = L
      BY <1>1, <1>4, <2>5
    <3>2. Limit(p) = p
      BY <1>2, <2>5, <3>1
    <3>3. last < n + p
      BY <1>4, <2>5, <3>1
    <3>4. QED BY <3>2, <3>3 DEF last
  <2>9. n + Len(batch) <= L
    BY <1>1, <1>4, <2>5
  <2>10. QED BY <1>1, <2>4, <2>6, <2>7, <2>8, <2>9 DEF batch, L, rows
<1>7. QED BY <1>4, <1>5, <1>6

(* Two sequences, one after the other.                                     *)
LEMMA Joined ==
    ASSUME NEW S, NEW a \in Seq(S), NEW T, NEW b \in Seq(T)
    PROVE  /\ \E U : a \o b \in Seq(U)
           /\ Len(a) \in Nat /\ Len(b) \in Nat
           /\ Len(a \o b) = Len(a) + Len(b)
           /\ \A i \in 1..Len(a) : (a \o b)[i] = a[i]
           /\ \A i \in 1..Len(b) : (a \o b)[Len(a) + i] = b[i]
           /\ \A i \in 1..Len(a \o b) :
                 i \in 1..Len(a) \/ \E j \in 1..Len(b) : i = Len(a) + j
<1>1. a \in Seq(S \cup T) /\ b \in Seq(S \cup T)
  OBVIOUS
<1>2. Len(a) \in Nat /\ Len(b) \in Nat
  BY LenProperties
<1>3. /\ a \o b \in Seq(S \cup T)
      /\ Len(a \o b) = Len(a) + Len(b)
      /\ \A i \in 1..(Len(a) + Len(b)) :
            (a \o b)[i] = IF i <= Len(a) THEN a[i] ELSE b[i - Len(a)]
  BY <1>1, ConcatProperties
<1> DEFINE c == a \o b
           m == Len(a)
           n == Len(b)
<1> HIDE DEF c, m, n
<1>4. /\ m \in Nat /\ n \in Nat
      /\ \A i \in 1..(m + n) : c[i] = IF i <= m THEN a[i] ELSE b[i - m]
  BY <1>2, <1>3 DEF c, m, n
<1>5. \A i \in 1..m : c[i] = a[i]
  BY <1>4
<1>6. ASSUME NEW i \in 1..n PROVE c[m + i] = b[i]
  <2>1. m + i \in 1..(m + n) /\ ~(m + i <= m) /\ (m + i) - m = i
    BY <1>4
  <2>2. QED BY <1>4, <2>1
<1>7. ASSUME NEW i \in 1..(m + n), i \notin 1..m
      PROVE  \E j \in 1..n : i = m + j
  <2>1. i - m \in 1..n /\ i = m + (i - m)
    BY <1>4, <1>7
  <2>2. QED BY <2>1
<1>8. QED BY <1>2, <1>3, <1>5, <1>6, <1>7 DEF c, m, n

(* The next page starts after what was downloaded.                         *)
LEMMA NextPage ==
    ASSUME StoreOK, GotOK, Audited \in DOMAIN tlr_runs
    PROVE  /\ NextFrom(got) \in Nat
           /\ restores = 0 => NextFrom(got) = Len(got)
<1>1. PICK S : got \in Seq(S)
  BY DEF GotOK
<1>2. CASE got = <<>>
  BY <1>2, EmptySeq DEF NextFrom
<1>3. CASE got # <<>>
  <2> DEFINE m == Len(got)
  <2>1. m \in Nat \ {0}
    BY <1>1, <1>3, EmptySeq
  <2> HIDE DEF m
  <2>2. m \in 1..m /\ m - 1 + 1 = m
    BY <2>1
  <2>3. NextFrom(got) = got[m].seq + 1
    BY <1>3 DEF NextFrom, m
  <2>4. got[m].seq \in Nat
    BY <2>2 DEF GotOK, m
  <2>5. ASSUME restores = 0 PROVE got[m].seq = m - 1
    <3>1. m <= Length(Audited) /\ SameEntry(got[m], tlr_events[Audited][m - 1])
      BY <2>2, <2>5 DEF GotOK, FirstOf, m
    <3>2. /\ RunOK(tlr_runs[Audited], tlr_events[Audited])
          /\ Length(Audited) = tlr_runs[Audited].head_seq + 1
          /\ tlr_runs[Audited].head_seq \in Nat
      BY RecordRows DEF StoreOK, Length
    <3>3. m - 1 \in 0..tlr_runs[Audited].head_seq
      BY <2>1, <3>1, <3>2
    <3>4. RowOK(tlr_events[Audited], m - 1)
      BY <3>2, <3>3 DEF RunOK
    <3>5. QED BY <3>1, <3>4 DEF SameEntry, RowOK
  <2>6. QED BY <2>2, <2>3, <2>4, <2>5 DEF m
<1>4. QED BY <1>2, <1>3

(* A page on top of the first events gives more of the first events.       *)
LEMMA MoreOfFirst ==
    ASSUME StoreOK, Audited \in DOMAIN tlr_runs, FirstOf(got),
           NEW S, got \in Seq(S), NEW T, NEW batch \in Seq(T),
           Len(got) + Len(batch) <= Length(Audited),
           \A i \in 1..Len(batch) :
              batch[i] = tlr_events[Audited][Len(got) + i - 1]
    PROVE  FirstOf(got \o batch)
<1> DEFINE rows == tlr_events[Audited]
           c == got \o batch
           m == Len(got)
           n == Len(batch)
<1>1. /\ m \in Nat /\ n \in Nat /\ Len(c) = m + n
      /\ \A i \in 1..m : c[i] = got[i]
      /\ \A i \in 1..n : c[m + i] = batch[i]
      /\ \A i \in 1..Len(c) : i \in 1..m \/ \E j \in 1..n : i = m + j
      /\ \E U : c \in Seq(U)
  BY Joined
<1>2. /\ m + n <= Length(Audited)
      /\ \A i \in 1..n : batch[i] = rows[m + i - 1]
      /\ \A i \in 1..m : SameEntry(got[i], rows[i - 1])
      /\ m # 0 => NamesRun(got[1], Audited)
  <2>1. m # 0 => got # <<>>
    BY EmptySeq
  <2>2. QED BY <2>1 DEF FirstOf
<1> HIDE DEF c, m, n, rows
<1>3. ASSUME NEW i \in 1..Len(c) PROVE SameEntry(c[i], rows[i - 1])
  <2>1. CASE i \in 1..m
    BY <1>1, <1>2, <2>1
  <2>2. CASE i \notin 1..m
    <3>1. PICK j \in 1..n : i = m + j
      BY <1>1, <2>2
    <3>2. c[m + j] = batch[j] /\ batch[j] = rows[m + j - 1]
      BY <1>1, <1>2
    <3>3. i - 1 = m + j - 1
      BY <1>1, <3>1
    <3>4. c[i] = rows[i - 1]
      BY <3>1, <3>2, <3>3
    <3>5. QED BY <3>4 DEF SameEntry
  <2>3. QED BY <2>1, <2>2
<1>4. ASSUME c # <<>> PROVE NamesRun(c[1], Audited)
  <2>1. CASE m # 0
    <3>1. 1 \in 1..m
      BY <1>1, <2>1
    <3>2. c[1] = got[1]
      BY <1>1, <3>1
    <3>3. QED BY <1>2, <2>1, <3>2
  <2>2. CASE m = 0
    <3>1. Len(c) # 0
      BY <1>1, <1>4, EmptySeq
    <3>2. 1 \in 1..n /\ m + 1 = 1 /\ m + 1 - 1 = 0
      BY <1>1, <2>2, <3>1
    <3>3. c[1] = rows[0]
      BY <1>1, <1>2, <3>2
    <3>4. QED BY <3>3 DEF StoreOK, RootsOK, rows
  <2>3. QED BY <2>1, <2>2
<1>5. QED BY <1>1, <1>2, <1>3, <1>4 DEF FirstOf, c, rows

(* Asking for a page and adding it to what was downloaded.                 *)
LEMMA FetchPageKeeps ==
    ASSUME AInv, NEW p \in Pages, FetchPage(p)
    PROVE  GotOK' /\ FetchedOK'
<1> DEFINE n == NextFrom(got)
           batch == PageFrom(n, p)
           rows == tlr_events[Audited]
           L == Length(Audited)
<1>1. StoreOK /\ GotOK /\ SignedOK /\ FetchedOK /\ IInv
  BY DEF AInv, StoreOK
<1>2. /\ Audited \in DOMAIN tlr_runs /\ ~whole
      /\ page' = p /\ got' = got \o batch
      /\ whole' = (Len(batch) < p)
      /\ held' = IF Len(batch) < p THEN L ELSE 0
      /\ UNCHANGED <<storeVars, keyVars, cp, late, pub, restores>>
  BY DEF FetchPage, Short
<1>3. p \in Nat
  BY AuditAssumption
<1>4. n \in Nat /\ (restores = 0 => n = Len(got))
  BY <1>1, <1>2, NextPage
<1>5. /\ L \in Nat \ {0}
      /\ \E S : batch \in Seq(S)
      /\ \A i \in 1..Len(batch) : /\ n + i - 1 \in 0..(L - 1)
                                  /\ batch[i] = rows[n + i - 1]
      /\ n < L => batch # <<>>
      /\ n <= L /\ Len(batch) < p /\ p <= ServerMax => n + Len(batch) = L
      /\ n <= L => n + Len(batch) <= L
  BY <1>1, <1>2, <1>3, <1>4, PageOf
<1>6. got = <<>> => n = 0
  BY DEF NextFrom
<1> HIDE DEF n, batch, L
<1>7. PICK S : got \in Seq(S)
  BY <1>1 DEF GotOK
<1>8. PICK T : batch \in Seq(T)
  BY <1>5
<1>9. /\ \E U : got' \in Seq(U)
      /\ Len(got) \in Nat /\ Len(batch) \in Nat
      /\ Len(got') = Len(got) + Len(batch)
      /\ \A i \in 1..Len(got) : got'[i] = got[i]
      /\ \A i \in 1..Len(batch) : got'[Len(got) + i] = batch[i]
      /\ \A i \in 1..Len(got') :
            i \in 1..Len(got) \/ \E j \in 1..Len(batch) : i = Len(got) + j
  BY <1>2, <1>7, <1>8, Joined
<1>10. RunOK(tlr_runs[Audited], rows) /\ L = tlr_runs[Audited].head_seq + 1
       /\ tlr_runs[Audited].head_seq \in Nat
  BY <1>1, <1>2, RecordRows DEF Length, L
<1> HIDE DEF rows
<1>11. \A i \in 1..Len(batch) : batch[i].seq \in Nat
  <2>1. \A s \in 0..(L - 1) : rows[s].seq = s
    <3>1. L - 1 = tlr_runs[Audited].head_seq
      BY <1>10
    <3>2. \A s \in 0..(L - 1) : RowOK(rows, s)
      BY <1>10, <3>1 DEF RunOK
    <3>3. QED BY <3>2 DEF RowOK
  <2>2. \A s \in 0..(L - 1) : s \in Nat
    OBVIOUS
  <2>3. QED BY <1>5, <2>1, <2>2
<1>12. \A i \in 1..Len(got') : got'[i].seq \in Nat
  <2>1. \A i \in 1..Len(got) : got[i].seq \in Nat
    BY <1>1 DEF GotOK
  <2>2. QED BY <1>9, <1>11, <2>1
<1>13. got' # <<>>
  <2>1. Len(got') # 0
    <3>1. CASE got = <<>>
      <4>1. batch # <<>>
        BY <1>5, <1>6, <3>1
      <4>2. Len(batch) # 0
        BY <1>8, <4>1, EmptySeq
      <4>3. QED BY <1>9, <4>2
    <3>2. CASE got # <<>>
      <4>1. Len(got) # 0
        BY <1>7, <3>2, EmptySeq
      <4>2. QED BY <1>9, <4>1
    <3>3. QED BY <3>1, <3>2
  <2>2. QED BY <2>1, EmptySeq
<1>14. ASSUME restores = 0 PROVE FirstOf(got)'
  <2>1. FirstOf(got) /\ n = Len(got)
    BY <1>1, <1>4, <1>14 DEF GotOK
  <2>2. Len(got) <= L
    BY <2>1 DEF FirstOf, L
  <2>3. FirstOf(got \o batch)
    BY <1>1, <1>2, <1>5, <1>7, <1>8, <2>1, <2>2, MoreOfFirst DEF L, rows
  <2>4. FirstOf(got')
    BY <1>2, <2>3
  <2>5. UNCHANGED <<tlr_runs, tlr_events>>
    BY <1>2 DEF storeVars
  <2>6. QED BY <2>4, <2>5 DEF FirstOf, Length
<1>15. ASSUME restores = 0, whole', p <= ServerMax
       PROVE  held' = Len(got') /\ Len(got') = L
  <2>1. FirstOf(got) /\ n = Len(got)
    BY <1>1, <1>4, <1>15 DEF GotOK
  <2>2. n <= L
    BY <2>1 DEF FirstOf, L
  <2>3. Len(batch) < p /\ held' = L
    BY <1>2, <1>15
  <2>4. QED BY <1>5, <1>9, <1>15, <2>1, <2>2, <2>3
<1>16. GotOK'
  <2>1. page' \in Pages /\ restores' = restores /\ page' = p
    BY <1>2
  <2>2. QED BY <1>9, <1>12, <1>13, <1>14, <1>15, <2>1 DEF GotOK
<1>17. FetchedOK'
  <2>1. UNCHANGED <<cp, late, pub, restores, key, signed>>
    BY <1>2 DEF keyVars
  <2>2. ASSUME cp # <<>>, InTime', cp.run_id = Audited PROVE cp.seq < Len(got')
    <3>1. cp \in signed /\ restores = 0 /\ whole' /\ p <= ServerMax
      BY <1>1, <1>2, <2>1, <2>2 DEF FetchedOK, InTime
    <3>2. Live(cp)
      BY <1>1, <3>1 DEF SignedOK
    <3>3. cp.seq \in 0..tlr_runs[Audited].head_seq
      BY <2>2, <3>2 DEF Live
    <3>4. Len(got') = L
      BY <1>15, <3>1
    <3>5. QED BY <1>10, <3>3, <3>4
  <2>3. QED BY <1>1, <2>1, <2>2 DEF FetchedOK
<1>18. QED BY <1>16, <1>17

-----------------------------------------------------------------------------
(* Every step keeps the invariant.                                         *)

(* What was downloaded stays the first events while the record goes on.    *)
LEMMA OnwardGot ==
    ASSUME GotOK, Onward, StoreOK', UNCHANGED <<page, got, whole, held, restores>>
    PROVE  GotOK'
<1>1. PICK S : got \in Seq(S)
  BY DEF GotOK
<1>2. Len(got) \in Nat
  BY <1>1, LenProperties
<1>3. ASSUME FirstOf(got) PROVE FirstOf(got)'
  <2> DEFINE rows == tlr_events[Audited]
  <2>1. CASE Audited \in DOMAIN tlr_runs
    <3>1. /\ Audited \in DOMAIN tlr_runs'
          /\ tlr_runs[Audited].head_seq \in Nat /\ tlr_runs'[Audited].head_seq \in Nat
          /\ tlr_runs[Audited].head_seq <= tlr_runs'[Audited].head_seq
          /\ \A s \in 0..tlr_runs[Audited].head_seq :
                SameEntry(rows'[s], rows[s])
      BY <2>1 DEF Onward, Faded
    <3>2. Len(got) <= tlr_runs[Audited].head_seq + 1
      BY <1>3, <2>1 DEF FirstOf, Length
    <3>3. Len(got) <= Length(Audited)'
      BY <1>2, <3>1, <3>2 DEF Length
    <3>4. ASSUME NEW i \in 1..Len(got) PROVE SameEntry(got[i], rows'[i - 1])
      <4>1. i - 1 \in 0..tlr_runs[Audited].head_seq
        BY <1>2, <3>1, <3>2
      <4>2. SameEntry(rows'[i - 1], rows[i - 1])
        BY <3>1, <4>1
      <4>3. SameEntry(got[i], rows[i - 1])
        BY <1>3 DEF FirstOf
      <4>4. QED BY <4>2, <4>3 DEF SameEntry
    <3>5. QED BY <1>3, <3>3, <3>4 DEF FirstOf, NamesRun
  <2>2. CASE Audited \notin DOMAIN tlr_runs
    <3>1. Len(got) = 0
      BY <1>2, <1>3, <2>2 DEF FirstOf, Length
    <3>2. 0 <= Length(Audited)'
      BY StoreAssumption DEF StoreOK, IInv, TypeOK, Length
    <3>3. QED BY <1>3, <3>1, <3>2 DEF FirstOf, NamesRun
  <2>3. QED BY <2>1, <2>2
<1>4. QED BY <1>3 DEF GotOK

(* What was fetched stays in time and signed, where nothing is fetched.    *)
LEMMA FetchedStays ==
    ASSUME FetchedOK, pub = NoKey, signed \subseteq signed',
           restores' = 0 => restores = 0, UNCHANGED auditVars
    PROVE  FetchedOK'
BY DEF FetchedOK, InTime, auditVars

(* Rows and checkpoints stay as they are.                                  *)
LEMMA StillKeeps ==
    ASSUME StoreOK, SignedOK, GotOK, UNCHANGED <<storeVars, signed, restores>>
    PROVE  /\ StoreOK' /\ SignedOK'
           /\ UNCHANGED <<page, got, whole, held>> => GotOK'
<1>1. UNCHANGED <<tlr_runs, tlr_events, tlr_idem, vars>>
  BY DEF storeVars, vars
<1>2. StoreOK'
  <2>1. IInv'
    BY <1>1, NextKeepsInv DEF StoreOK
  <2>2. QED BY <1>1, <2>1 DEF StoreOK, Unkeyed, RootsOK, NamesRun
<1>3. Onward
  BY <1>1, StillOnward DEF StoreOK
<1>4. QED BY <1>2, <1>3, OnwardSigned, OnwardGot

(* Before the server first starts.                                         *)
LEMMA AuditInitOK == AuditInit => AInv
<1> SUFFICES ASSUME AuditInit PROVE AInv
  OBVIOUS
<1>1. KeysOK /\ signed = {}
  BY KeyInitOK DEF AuditInit, KeyInit
<1>2. IInv /\ DOMAIN tlr_runs = {}
  BY InitInv DEF AuditInit, Init
<1>3. StoreOK
  BY <1>2 DEF StoreOK, RootsOK, Unkeyed, AuditInit, Init
<1>4. SignedOK /\ FetchedOK /\ restores \in Nat
  BY <1>1 DEF SignedOK, FetchedOK, AuditInit
<1>5. got = <<>> /\ got \in Seq({}) /\ Len(got) = 0
  BY EmptySeq DEF AuditInit
<1>6. FirstOf(got)
  BY <1>2, <1>5 DEF FirstOf, Length
<1>7. GotOK
  BY <1>5, <1>6 DEF GotOK, AuditInit
<1>8. QED BY <1>1, <1>3, <1>4, <1>7 DEF AInv

(* The server writes.                                                      *)
LEMMA ServeKeeps ==
    ASSUME AInv, pub = NoKey, Serve
    PROVE  AInv'
<1>1. UNCHANGED <<keyVars, auditVars, restores>>
  BY DEF Serve
<1>2. StoreOK' /\ Onward
  BY ServeOnward DEF AInv
<1>3. SignedOK'
  BY <1>1, <1>2, OnwardSigned DEF AInv, keyVars
<1>4. GotOK'
  BY <1>1, <1>2, OnwardGot DEF AInv, auditVars
<1>5. FetchedOK'
  BY <1>1, FetchedStays DEF AInv, keyVars
<1>6. KeysOK'
  BY <1>1 DEF AInv, keyVars, KeysOK, KeyHeld
<1>7. QED BY <1>1, <1>2, <1>3, <1>4, <1>5, <1>6 DEF AInv

(* The server signs.                                                       *)
LEMMA SignKeeps ==
    ASSUME AInv, pub = NoKey, NEW reply \in replies, Attest(reply)
    PROVE  AInv'
<1>1. UNCHANGED <<tlr_runs, tlr_events, auditVars, restores>>
  BY DEF Attest, PutCheckpoint
<1>2. StoreOK' /\ KeysOK' /\ SignedOK' /\ signed \subseteq signed'
  BY AttestKeeps DEF AInv
<1>3. Onward
  BY <1>1, StillOnward DEF AInv, StoreOK
<1>4. GotOK'
  BY <1>1, <1>2, <1>3, OnwardGot DEF AInv, auditVars
<1>5. FetchedOK'
  BY <1>1, <1>2, FetchedStays DEF AInv
<1>6. QED BY <1>1, <1>2, <1>4, <1>5 DEF AInv

(* The server starts, fails to, or stops.                                  *)
LEMMA RestartKeeps ==
    ASSUME AInv, pub = NoKey, KeyStep, UNCHANGED <<storeVars, auditVars, restores>>
    PROVE  AInv'
<1>1. KeysOK' /\ signed' = signed
  BY KeyStepKeepsKeys DEF AInv
<1>2. StoreOK' /\ SignedOK' /\ GotOK'
  BY <1>1, StillKeeps DEF AInv, auditVars
<1>3. FetchedOK'
  BY <1>1, FetchedStays DEF AInv
<1>4. QED BY <1>1, <1>2, <1>3 DEF AInv

(* The operator restores a database: what is promised from now on is only  *)
(* what a signature covers.                                                *)
LEMMA RestoreKeeps ==
    ASSUME AInv, pub = NoKey, NEW n \in 0..MaxSeq, Restore(Audited, n)
    PROVE  AInv'
<1>1. /\ restores' = restores + 1
      /\ UNCHANGED <<keyVars, auditVars>>
  BY DEF Restore
<1>2. restores' \in Nat /\ restores' # 0
  BY <1>1 DEF AInv
<1>3. StoreOK'
  BY RestoreKeepsStore, AuditAssumption DEF AInv
<1>4. SignedOK'
  <2>1. \A d : Attested(d)' <=> Attested(d)
    BY DEF Attested
  <2>2. QED BY <1>1, <1>2, <2>1 DEF AInv, SignedOK, keyVars
<1>5. GotOK'
  BY <1>1, <1>2 DEF AInv, GotOK, auditVars
<1>6. FetchedOK'
  BY <1>1, <1>2, FetchedStays DEF AInv, keyVars
<1>7. KeysOK'
  BY <1>1 DEF AInv, keyVars, KeysOK, KeyHeld
<1>8. QED BY <1>2, <1>3, <1>4, <1>5, <1>6, <1>7 DEF AInv

(* The auditor asks for a page, a checkpoint or the key.                   *)
LEMMA FetchKeeps ==
    ASSUME AInv, pub = NoKey,
           FetchCheckpoint \/ FetchKey \/ \E p \in Pages : FetchPage(p)
    PROVE  AInv'
<1>1. UNCHANGED <<storeVars, keyVars, restores>>
  BY DEF FetchCheckpoint, FetchKey, FetchPage
<1>2. /\ StoreOK' /\ SignedOK'
      /\ UNCHANGED <<page, got, whole, held>> => GotOK'
  BY <1>1, StillKeeps DEF AInv, keyVars
<1>3. KeysOK'
  BY <1>1 DEF AInv, keyVars, KeysOK, KeyHeld
<1>4. CASE FetchCheckpoint
  <2>1. /\ UNCHANGED <<page, got, whole, held, pub, signed>>
        /\ cp' \in signed /\ late' = whole
    BY <1>4 DEF FetchCheckpoint, keyVars
  <2>2. FetchedOK'
    BY <2>1 DEF AInv, FetchedOK, InTime
  <2>3. QED BY <1>1, <1>2, <1>3, <2>1, <2>2 DEF AInv
<1>5. CASE FetchKey
  <2>1. /\ UNCHANGED <<page, got, whole, held, cp, late, signed, key, restores>>
        /\ pub' = key
    BY <1>5 DEF FetchKey, keyVars
  <2>2. FetchedOK'
    BY <2>1 DEF AInv, FetchedOK, InTime
  <2>3. QED BY <1>1, <1>2, <1>3, <2>1, <2>2 DEF AInv
<1>6. ASSUME NEW p \in Pages, FetchPage(p) PROVE AInv'
  <2>1. GotOK' /\ FetchedOK'
    BY <1>6, FetchPageKeeps
  <2>2. QED BY <1>1, <1>2, <1>3, <2>1 DEF AInv
<1>7. QED BY <1>4, <1>5, <1>6

(* AInv is inductive.                                                      *)
LEMMA AuditNextKeeps == AInv /\ [AuditNext]_allVars => AInv'
<1> SUFFICES ASSUME AInv, [AuditNext]_allVars PROVE AInv'
  OBVIOUS
<1>1. CASE UNCHANGED allVars
  <2>1. UNCHANGED <<storeVars, keyVars, auditVars, restores>>
    BY <1>1 DEF allVars
  <2>2. StoreOK' /\ SignedOK' /\ GotOK'
    BY <2>1, StillKeeps DEF AInv, keyVars, auditVars
  <2>3. KeysOK'
    BY <2>1 DEF AInv, keyVars, KeysOK, KeyHeld
  <2>4. FetchedOK'
    BY <2>1 DEF AInv, FetchedOK, InTime, auditVars, keyVars
  <2>5. QED BY <2>1, <2>2, <2>3, <2>4 DEF AInv
<1>2. CASE AuditNext
  <2>1. pub = NoKey
    BY <1>2 DEF AuditNext
  <2>2. CASE Serve
    BY <2>1, <2>2, ServeKeeps
  <2>3. ASSUME NEW reply \in replies, Attest(reply) PROVE AInv'
    BY <2>1, <2>3, SignKeeps
  <2>4. CASE KeyStep /\ UNCHANGED <<storeVars, auditVars, restores>>
    BY <2>1, <2>4, RestartKeeps
  <2>5. ASSUME NEW n \in 0..MaxSeq, Restore(Audited, n) PROVE AInv'
    BY <2>1, <2>5, RestoreKeeps
  <2>6. CASE FetchCheckpoint \/ FetchKey \/ \E p \in Pages : FetchPage(p)
    BY <2>1, <2>6, FetchKeeps
  <2>7. QED BY <1>2, <2>2, <2>3, <2>4, <2>5, <2>6 DEF AuditNext
<1>3. QED BY <1>1, <1>2

-----------------------------------------------------------------------------
(* The verdict.                                                            *)

(* A download that no restored database disturbed verifies.                *)
LEMMA WholeVerifies ==
    ASSUME AInv, whole, restores = 0
    PROVE  /\ Len(got) \in Nat \ {0}
           /\ VerifyChain(got).ok
           /\ VerifyChain(got).head_seq = Len(got) - 1
           /\ Len(got) <= tlr_runs[Audited].head_seq + 1
           /\ \A i \in 1..Len(got) :
                 got[i].hash = tlr_events[Audited][i - 1].hash
           /\ NamesRun(got[1], Audited)
<1> DEFINE m == Len(got)
           rows == tlr_events[Audited]
           h == tlr_runs[Audited].head_seq
<1>1. /\ got # <<>> /\ FirstOf(got) /\ \E S : got \in Seq(S)
      /\ IInv
  BY DEF AInv, GotOK, StoreOK
<1>2. m \in Nat \ {0}
  BY <1>1, EmptySeq
<1>3. Audited \in DOMAIN tlr_runs
  <2>1. m <= Length(Audited)
    BY <1>1 DEF FirstOf
  <2>2. QED BY <1>2, <2>1 DEF Length
<1>4. RunOK(tlr_runs[Audited], rows) /\ h \in Nat
  BY <1>1, <1>3, RecordRows
<1>5. m <= h + 1
  BY <1>1, <1>3 DEF FirstOf, Length
<1> HIDE DEF m, rows, h
<1>6. ASSUME NEW i \in 1..m
      PROVE  /\ SameEntry(got[i], rows[i - 1])
             /\ i - 1 \in 0..h /\ RowOK(rows, i - 1)
  <2>1. SameEntry(got[i], rows[i - 1])
    BY <1>1 DEF FirstOf, m, rows
  <2>2. i - 1 \in 0..h
    BY <1>2, <1>4, <1>5
  <2>3. QED BY <1>4, <2>1, <2>2 DEF RunOK, h
<1>7. ASSUME NEW i \in 1..m PROVE Fault(got, i) = "none"
  <2>1. /\ got[i].seq = i - 1
        /\ got[i].prev_hash = IF i - 1 = 0 THEN ZERO ELSE rows[(i - 1) - 1].hash
        /\ got[i].hash = EventHash(rows[i - 1], got[i].prev_hash)
        /\ Canon(got[i]) = Canon(rows[i - 1])
    BY <1>6 DEF SameEntry, RowOK
  <2>2. got[i].prev_hash = PrevOf(got, i)
    <3>1. CASE i = 1
      BY <2>1, <3>1 DEF PrevOf
    <3>2. CASE i # 1
      <4>1. i - 1 \in 1..m /\ i - 1 # 0
        BY <1>2, <3>2
      <4>2. got[i - 1].hash = rows[(i - 1) - 1].hash
        BY <1>6, <4>1 DEF SameEntry
      <4>3. QED BY <2>1, <3>2, <4>1, <4>2 DEF PrevOf
    <3>3. QED BY <3>1, <3>2
  <2>3. got[i].hash = EventHash(got[i], PrevOf(got, i))
    BY <2>1, <2>2 DEF EventHash
  <2>4. QED BY <2>1, <2>2, <2>3, Passed
<1>8. 1 \in 1..m /\ m \in 1..m /\ 1 - 1 = 0
  BY <1>2
<1>9. got[1].kind = "run_started"
  BY <1>6, <1>8 DEF SameEntry, RowOK
<1>10. Linked(got, Len(got))
  BY <1>7 DEF Linked, m
<1>11. VerifyChain(got).ok /\ VerifyChain(got).head_seq = got[m].seq
  BY <1>1, <1>9, <1>10, Verified DEF m
<1>12. got[m].seq = m - 1
  BY <1>6, <1>8 DEF SameEntry, RowOK
<1>13. \A i \in 1..m : got[i].hash = rows[i - 1].hash
  BY <1>6 DEF SameEntry
<1>14. NamesRun(got[1], Audited)
  BY <1>1 DEF FirstOf
<1>15. QED BY <1>2, <1>5, <1>11, <1>12, <1>13, <1>14 DEF m, h, rows

(* What is accepted is what was signed: the head hash of the checkpoint    *)
(* pins all that it covers.                                                *)
LEMMA AcceptedFromInv ==
    ASSUME AInv
    PROVE  AcceptedIsAttested
<1> SUFFICES ASSUME whole, cp # <<>>, Verify(got, cp, pub) = "OK",
                    NEW n \in 0..cp.seq
             PROVE  n < Len(got) /\ Canon(got[n + 1]) = cp.covers[n + 1]
  BY DEF AcceptedIsAttested
<1> DEFINE top == cp.seq + 1
<1>1. /\ got # <<>> /\ \E S : got \in Seq(S)
      /\ Attested(cp)
  BY DEF AInv, GotOK, FetchedOK, SignedOK
<1>2. Len(got) \in Nat
  BY <1>1, LenProperties
<1>3. VerifyChain(got).ok /\ Matches(got, cp)
  BY DEF Verify, CheckCheckpoint
<1>4. Linked(got, Len(got))
  BY <1>1, <1>3, Verified
<1>5. PICK i \in 1..Len(got) : got[i].seq = cp.seq /\ got[i].hash = cp.head_hash
  BY <1>3 DEF Matches, Covered
<1>6. got[i].seq = i - 1
  BY <1>4, Passed DEF Linked
<1>7. cp.seq \in Nat /\ i = top
  BY <1>1, <1>2, <1>5, <1>6 DEF Attested
<1>8. PICK ds : /\ Linked(ds, top)
                /\ ds[top].hash = cp.head_hash
                /\ \A j \in 1..top : cp.covers[j] = Canon(ds[j])
  BY <1>1 DEF Attested
<1> HIDE DEF top
<1>9. top \in Nat \ {0} /\ top \in 1..Len(got)
  BY <1>5, <1>7 DEF top
<1>10. Linked(got, top)
  BY <1>2, <1>4, <1>9 DEF Linked
<1>11. \A j \in 1..top : Canon(got[j]) = Canon(ds[j])
  BY <1>5, <1>7, <1>8, <1>9, <1>10, HashPinsHistory
<1>12. n + 1 \in 1..top /\ n < Len(got)
  BY <1>2, <1>7, <1>9 DEF top
<1>13. QED BY <1>8, <1>11, <1>12

(* A download is the whole record, and it verifies.                        *)
LEMMA WholeFromInv ==
    ASSUME AInv
    PROVE  DownloadIsWhole
<1>1. ASSUME whole, restores = 0, page <= ServerMax PROVE Len(got) = held
  BY <1>1 DEF AInv, GotOK
<1>2. QED BY <1>1, WholeVerifies DEF DownloadIsWhole

(* A checkpoint of the run, fetched in time and signed with a key that did *)
(* not lapse, is accepted.                                                 *)
LEMMA RefusedFromInv ==
    ASSUME AInv
    PROVE  RefusedHasCause
<1> SUFFICES ASSUME whole, cp # <<>>, restores = 0, ~lapsed, ~late,
                    cp.run_id = Audited, page <= ServerMax
             PROVE  Verify(got, cp, pub) = "OK"
  <2>1. restores \in Nat /\ (whole => page \in Nat)
    BY AuditAssumption DEF AInv, GotOK
  <2>2. QED BY <2>1, AuditAssumption DEF RefusedHasCause
<1>1. /\ Len(got) \in Nat \ {0}
      /\ VerifyChain(got).ok
      /\ VerifyChain(got).head_seq = Len(got) - 1
      /\ \A i \in 1..Len(got) : got[i].hash = tlr_events[Audited][i - 1].hash
      /\ NamesRun(got[1], Audited)
  BY WholeVerifies
<1>2. /\ cp \in signed /\ cp.seq < Len(got)
      /\ pub # NoKey => pub = key
  BY DEF AInv, FetchedOK, InTime
<1>3. cp.seq \in Nat /\ tlr_events[Audited][cp.seq].hash = cp.head_hash
  BY <1>2 DEF AInv, SignedOK, Attested, Live
<1>4. RunIdOf(got) \in {NoKey, cp.run_id}
  BY <1>1 DEF NamesRun, RunIdOf
<1>5. ~(cp.seq > VerifyChain(got).head_seq)
  BY <1>1, <1>2, <1>3
<1>6. Matches(got, cp)
  <2> DEFINE top == cp.seq + 1
  <2>1. top \in 1..Len(got) /\ top - 1 = cp.seq
    BY <1>1, <1>2, <1>3
  <2>2. got # <<>>
    BY <1>1, EmptySeq
  <2>3. \A i \in 1..Len(got) : got[i].seq = i - 1
    BY <1>1, <2>2, Verified, Passed DEF Linked
  <2>4. \A i \in 1..Len(got) : i - 1 = cp.seq => i = top
    BY <1>3
  <2>5. got[top].hash = cp.head_hash
    BY <1>1, <1>3, <2>1
  <2> HIDE DEF top
  <2>6. Covered(got, cp.seq) = {top}
    BY <2>1, <2>3, <2>4 DEF Covered
  <2>7. QED BY <2>5, <2>6 DEF Matches
<1>7. pub = NoKey \/ SignatureValid(cp, pub)
  <2>1. KeySurvives
    BY KeysVerify DEF AInv
  <2>2. QED BY <1>2, <2>1 DEF KeySurvives
<1>8. CheckCheckpoint(got, cp, pub) = "OK"
  BY <1>4, <1>5, <1>6, <1>7 DEF CheckCheckpoint
<1>9. QED BY <1>1, <1>8 DEF Verify

-----------------------------------------------------------------------------
(* Theorems.                                                               *)

(* The inductive invariant holds of every reachable state of an audit.     *)
THEOREM AuditInvariance == AuditSpec => []AInv
<1>1. QED BY AuditInitOK, AuditNextKeeps, PTL DEF AuditSpec

(* Every checkpoint ever signed verifies under the key the server          *)
(* publishes now, through any number of restarts that end anywhere.        *)
THEOREM KeySound == AuditSpec => []KeySurvives
<1>1. AInv => KeySurvives
  BY KeysVerify DEF AInv
<1>2. QED BY <1>1, AuditInvariance, PTL

(* The verdict on a record is right both ways: what is accepted is what    *)
(* was signed, and what is refused was given a reason to be.               *)
THEOREM VerdictSound == AuditSpec => []VerdictIsRight
<1>1. AInv => VerdictIsRight
  BY AcceptedFromInv, WholeFromInv, RefusedFromInv DEF VerdictIsRight
<1>2. QED BY <1>1, AuditInvariance, PTL
=============================================================================
