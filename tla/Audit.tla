-------------------------------- MODULE Audit --------------------------------
(***************************************************************************)
(* What `tideline export` and `tideline verify` can tell about a record:   *)
(* an auditor pages a run out of a server that keeps writing, erasing and  *)
(* sealing it, fetches a checkpoint and the published key, in any order,   *)
(* and verifies the three.                                                 *)
(*                                                                         *)
(* Composes the record store, the signing keys and the client.  The        *)
(* database may be restored from an older copy; the server may restart     *)
(* anywhere, with whatever that does to its key.                           *)
(***************************************************************************)
EXTENDS RecordStore, SigningKeys, FiniteSets

CONSTANTS Audited,      \* the run that is audited
          Pages,        \* page sizes a caller of events_paged asks for
          ServerMax,    \* the most events one answer holds (5000)
          MaxRestores,  \* bound: restored databases
          MaxSigned     \* bound: checkpoints signed

ASSUME AuditAssumption ==
    /\ Audited \in Run
    /\ Pages \subseteq Nat
    /\ ServerMax \in Nat \ {0}
    /\ MaxRestores \in Nat

VARIABLES page,      \* the page size asked for, None before the download
          got,       \* the events downloaded so far
          whole,     \* events_paged returned
          held,      \* the length of the record when the last page was served
          cp,        \* the checkpoint fetched, <<>> for none
          late,      \* it was fetched after the download
          pub,       \* the public key fetched, NoKey for none
          restores   \* how often the database was restored

storeVars == <<tlr_runs, tlr_events, tlr_idem, tlr_checkpoints, replies>>
auditVars == <<page, got, whole, held, cp, late, pub>>
allVars   == <<storeVars, keyVars, auditVars, restores>>

-----------------------------------------------------------------------------
(* GET /events: the server clamps the limit, to at least one event too.    *)
Limit(p) == IF p > ServerMax THEN ServerMax ELSE IF p = 0 THEN 1 ELSE p

PageFrom(n, p) ==
    LET last == IF n + Limit(p) > Length(Audited) THEN Length(Audited) ELSE n + Limit(p)
    IN  IF n >= last THEN <<>> ELSE SubSeq(Record(Audited), n + 1, last)

(* The sequence number the next page starts from.                          *)
NextFrom(es) == IF es = <<>> THEN 0 ELSE es[Len(es)].seq + 1

(* Mutation of Short: the comparison is the wrong way round.              *)
ShortSwapped(batch, p) == Len(batch) > p

Short(batch, p) == Len(batch) < p

(* One round of the loop of events_paged, called with a page size p.       *)
FetchPage(p) ==
    /\ page \in {None, p} /\ page' = p
    /\ ~whole /\ key # NoKey
    /\ Audited \in DOMAIN tlr_runs
    /\ LET batch == PageFrom(NextFrom(got), p)
       IN  /\ got' = got \o batch
           /\ whole' = Short(batch, p)
           /\ held' = IF Short(batch, p) THEN Length(Audited) ELSE 0
    /\ UNCHANGED <<storeVars, keyVars, cp, late, pub, restores>>

(* GET /checkpoint: the latest row of some run, not always of the one that *)
(* is audited.  A row written again may carry either signature.            *)
FetchCheckpoint ==
    /\ cp = <<>> /\ key # NoKey
    /\ \E c \in signed :
          /\ \A n \in DOMAIN tlr_checkpoints[c.run_id] : n <= c.seq
          /\ c.seq \in DOMAIN tlr_checkpoints[c.run_id]
          /\ tlr_checkpoints[c.run_id][c.seq] = c.head_hash
          /\ cp' = c
    /\ late' = whole
    /\ UNCHANGED <<storeVars, keyVars, page, got, whole, held, pub, restores>>

(* GET /.well-known/tideline, for --public-key.                            *)
FetchKey ==
    /\ whole /\ cp # <<>> /\ pub = NoKey /\ key # NoKey
    /\ pub' = key
    /\ UNCHANGED <<storeVars, keyVars, page, got, whole, held, cp, late, restores>>

-----------------------------------------------------------------------------
(* tideline verify --checkpoint cp --public-key k, as an exit code.        *)

(* The run id the envelope declares; NoKey once its metadata is erased.    *)
RunIdOf(es) == IF es[1].fields["metadata"] = None THEN NoKey
               ELSE es[1].fields["metadata"].run_id

Covered(es, n) == {i \in 1..Len(es) : es[i].seq = n}

(* Mutation of Matches: only a checkpoint of the head is compared.         *)
MatchesHead(es, c) ==
    c.seq = es[Len(es)].seq => es[Len(es)].hash = c.head_hash

Matches(es, c) ==
    /\ Covered(es, c.seq) # {}
    /\ \A i \in Covered(es, c.seq) : es[i].hash = c.head_hash

CheckCheckpoint(es, c, k) ==
    IF RunIdOf(es) \notin {NoKey, c.run_id}     THEN "UNSOUND"
    ELSE IF c.seq > VerifyChain(es).head_seq    THEN "UNSOUND"
    ELSE IF ~Matches(es, c)                     THEN "UNSOUND"
    ELSE IF k = NoKey                           THEN "OK"
    ELSE IF ~SignatureValid(c, k)               THEN "UNSOUND"
    ELSE "OK"

Verify(es, c, k) ==
    IF ~VerifyChain(es).ok THEN "UNSOUND"
    ELSE IF c = <<>> THEN "OK"
    ELSE CheckCheckpoint(es, c, k)

-----------------------------------------------------------------------------
Prefix(r, n) == [s \in 0..n |-> tlr_events[r][s]]

Commitments(es) == [i \in 1..Len(es) |-> Canon(es[i])]

(* write_checkpoint: sign a head an earlier write returned, and store it.  *)
Attest(reply) ==
    /\ Cardinality(signed) < MaxSigned
    /\ Sign(reply.run, reply.res.seq, SignedHash(reply),
            Commitments(SubSeq(Record(reply.run), 1, reply.res.seq + 1)))
    /\ PutCheckpoint(reply)
    /\ UNCHANGED <<auditVars, restores>>

(* Other runs matter for their checkpoints: bound, one append each.         *)
Serve ==
    /\ key # NoKey
    /\ \E ts \in Time :
          \/ \E r \in Run : CreateRun(r, ts)
          \/ \E r \in Run, fields \in [Field -> Value] :
                /\ r # Audited => Length(r) < 2
                /\ AppendNew(r, None, ts, "message", fields)
          \/ Seal(Audited, ts)
          \/ \E target \in 0..MaxSeq : Redact(Audited, target, Field, ts)
    /\ UNCHANGED <<keyVars, auditVars, restores>>

(* The database of a stopped server is restored from a copy as old as its  *)
(* event n: what came later, and the checkpoints of it, are gone.  (Texts  *)
(* erased since stay erased here; what they commit to is the same.)  The   *)
(* key is not beside the database, to be restored with it.                 *)
Restore(r, n) ==
    /\ Down /\ seed # NoKey
    /\ restores < MaxRestores
    /\ r \in DOMAIN tlr_runs /\ n < tlr_runs[r].head_seq
    /\ tlr_events' = [tlr_events EXCEPT ![r] = Prefix(r, n)]
    /\ tlr_runs' = [tlr_runs EXCEPT ![r] = [head_seq  |-> n,
                                            head_hash |-> tlr_events[r][n].hash,
                                            ended_ts  |-> None]]
    /\ tlr_checkpoints' = [tlr_checkpoints EXCEPT
                             ![r] = [s \in DOMAIN @ \cap 0..n |-> @[s]]]
    /\ replies' = {a \in replies : a.run # r \/ a.res.seq <= n}
    /\ restores' = restores + 1
    /\ UNCHANGED <<tlr_idem, keyVars, auditVars>>

AuditInit ==
    /\ Init /\ KeyInit
    /\ page = None /\ got = <<>> /\ whole = FALSE /\ held = 0
    /\ cp = <<>> /\ late = FALSE /\ pub = NoKey
    /\ restores = 0

(* Bound: nothing is followed beyond the verdict.                          *)
AuditNext ==
    /\ pub = NoKey
    /\ \/ Serve
       \/ \E reply \in replies : Attest(reply)
       \/ KeyStep /\ UNCHANGED <<storeVars, auditVars, restores>>
       \/ \E n \in 0..MaxSeq : Restore(Audited, n)
       \/ \E p \in Pages : FetchPage(p)
       \/ FetchCheckpoint
       \/ FetchKey

AuditSpec == AuditInit /\ [][AuditNext]_allVars

(* A client that is answered asks for the next page.                       *)
FairAudit == AuditSpec /\ WF_allVars(pub = NoKey /\ \E p \in Pages : FetchPage(p))

-----------------------------------------------------------------------------
(* Exit code 0 for a signed checkpoint means that the events it covers are *)
(* those the server had written when it signed: a record that lost its     *)
(* tail, another history of the run or another run does not pass, also     *)
(* when the envelope that names the run was erased.                        *)
AcceptedIsAttested ==
    whole /\ cp # <<>> /\ Verify(got, cp, pub) = "OK" =>
        \A n \in 0..cp.seq : n < Len(got) /\ Canon(got[n + 1]) = cp.covers[n + 1]

(* A download that no restored database disturbed verifies, whatever was   *)
(* appended or erased between its pages, and is the whole record as long   *)
(* as the page asked for is not larger than what the server gives.         *)
DownloadIsWhole ==
    whole /\ restores = 0 =>
        /\ VerifyChain(got).ok
        /\ page <= ServerMax => Len(got) = held

(* A sound record is refused only for a checkpoint that is younger than    *)
(* the download, of another run, or signed with a key that was lost.       *)
RefusedHasCause ==
    whole /\ cp # <<>> /\ Verify(got, cp, pub) = "UNSOUND" =>
        \/ restores > 0 \/ lapsed \/ late
        \/ cp.run_id # Audited
        \/ page > ServerMax

(* The verdict is right both ways, over downloads that are whole.          *)
VerdictIsRight == AcceptedIsAttested /\ DownloadIsWhole /\ RefusedHasCause

(* A download of a sealed run ends, if pages are not empty and the server  *)
(* answers.  (With a page of zero it asks for ever.)                       *)
Downloading == ~whole /\ key # NoKey /\ Sealed(Audited) /\ page \notin {0, None}

DownloadEnds == Downloading ~> ~Downloading
=============================================================================
