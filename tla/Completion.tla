------------------------------ MODULE Completion ------------------------------
(***************************************************************************)
(* Sealing a run and protecting it with a checkpoint (complete_run), beside*)
(* the appends that write periodic ones (append_event).  Each handler is a *)
(* row of awaited steps; the process may stop between any two, any         *)
(* checkpoint write may fail, and the caller of complete retries until it  *)
(* has an answer.  What a checkpoint says is RecordStore's concern; here   *)
(* it is the sequence number it covers.                                    *)
(***************************************************************************)
EXTENDS Naturals, Sequences, FiniteSets

CONSTANTS Writer,           \* callers of append and of the other write routes
          Completer,        \* callers of complete
          CheckpointEvery,  \* checkpoint_every: 50, or 0 for no periodic ones
          MaxSeq,           \* bound: no append beyond this sequence number
          MaxFaults         \* bound: failed writes and crashes of the server

ASSUME CompletionAssumption ==
    /\ CheckpointEvery \in Nat
    /\ MaxSeq \in Nat
    /\ MaxFaults \in Nat
    /\ Writer \cap Completer = {}

VARIABLES head,         \* head_seq of the run
          sealed,       \* ended_ts is set
          checkpoints,  \* the rows of tlr_checkpoints, in the order written
          done,         \* the watch stream has been completed
          request,      \* where each caller's handler is, and the seq it holds
          answer,       \* what complete last told each completer
          faults        \* faults so far

vars == <<head, sealed, checkpoints, done, request, answer, faults>>

Caller == Writer \cup Completer
Rows(cs) == {cs[i] : i \in 1..Len(cs)}

At(pc, seq) == [pc |-> pc, seq |-> seq]
Idle == At("idle", 0)

(* An answer that tells the caller of complete it need not ask again.      *)
Final == {"ok", "repaired", "conflict"}

(* Mutation of Latest: the row written last, not the highest.              *)
LatestWritten(cs) == IF cs = <<>> THEN 0 ELSE cs[Len(cs)]

(* latest_checkpoint: the row with the highest seq; 0 stands for no row,   *)
(* since run_started is never checkpointed.                                *)
Latest(cs) ==
    IF cs = <<>> THEN 0
    ELSE CHOOSE s \in Rows(cs) : \A t \in Rows(cs) : t <= s

(* maybe_checkpoint                                                        *)
Due(seq) == CheckpointEvery > 0 /\ seq % CheckpointEvery = 0

-----------------------------------------------------------------------------
Init ==
    /\ head = 0
    /\ sealed = FALSE
    /\ checkpoints = <<>>
    /\ done = FALSE
    /\ request = [c \in Caller |-> Idle]
    /\ answer = [c \in Completer |-> "none"]
    /\ faults = 0

Goto(c, pc, seq) == request' = [request EXCEPT ![c] = At(pc, seq)]

Reply(c, text) ==
    /\ request' = [request EXCEPT ![c] = Idle]
    /\ answer' = [answer EXCEPT ![c] = text]

(* Mutation of Put: the sequence number signed is that of the next event.  *)
PutNext(c) == checkpoints' = Append(checkpoints, request[c].seq + 1)

(* write_checkpoint for the head a handler holds; a row already there is   *)
(* replaced.                                                               *)
Put(c) == checkpoints' = Append(checkpoints, request[c].seq)

Fault == faults < MaxFaults /\ faults' = faults + 1

(* A storage error on the way: the handler answers with it.                *)
StoreFails(c) == Fault /\ Reply(c, "error")

(* append_event: the append commits; a sealed run refuses it.              *)
AppendEvent(w) ==
    /\ request[w] = Idle
    /\ ~sealed
    /\ head < MaxSeq
    /\ head' = head + 1
    /\ request' = [request EXCEPT ![w] = IF Due(head + 1)
                                        THEN At("checkpoint", head + 1)
                                        ELSE Idle]
    /\ UNCHANGED <<sealed, checkpoints, done, answer, faults>>

(* Opening or resolving a gate and redacting: no periodic checkpoint,      *)
(* whatever the sequence number.                                           *)
WriteOther(w) ==
    /\ request[w] = Idle
    /\ ~sealed
    /\ head < MaxSeq
    /\ head' = head + 1
    /\ UNCHANGED <<sealed, checkpoints, done, request, answer, faults>>

(* maybe_checkpoint, after publish_head: a failure is only logged.         *)
PeriodicCheckpoint(w) ==
    /\ request[w].pc = "checkpoint"
    /\ \/ Put(w) /\ UNCHANGED faults
       \/ Fault /\ UNCHANGED checkpoints
    /\ request' = [request EXCEPT ![w] = Idle]
    /\ UNCHANGED <<head, sealed, done, answer>>

(* complete_run: seal, or take the repair path when the run is sealed.     *)
Complete(c) ==
    /\ request[c] = Idle
    /\ answer[c] \notin Final
    /\ \/ /\ ~sealed
          /\ sealed' = TRUE
          /\ head' = head + 1
          /\ Goto(c, "checkpoint", head + 1)
          /\ UNCHANGED <<answer, faults>>
       \/ /\ sealed
          /\ Goto(c, "latest", 0)
          /\ UNCHANGED <<head, sealed, answer, faults>>
       \/ StoreFails(c) /\ UNCHANGED <<head, sealed>>
    /\ UNCHANGED <<checkpoints, done>>

(* Mutation of SealCheckpoint: the failure is only logged, as for an       *)
(* append.                                                                 *)
SealCheckpointBestEffort(c) ==
    /\ request[c].pc = "checkpoint"
    /\ \/ Put(c) /\ UNCHANGED faults
       \/ Fault /\ UNCHANGED checkpoints
    /\ Goto(c, "finish", 0)
    /\ UNCHANGED <<head, sealed, done, answer>>

(* The seal's checkpoint: a failure is the answer.                         *)
SealCheckpoint(c) ==
    /\ request[c].pc = "checkpoint"
    /\ \/ /\ Put(c)
          /\ Goto(c, "finish", 0)
          /\ UNCHANGED <<faults, answer>>
       \/ StoreFails(c) /\ UNCHANGED checkpoints
    /\ UNCHANGED <<head, sealed, done>>

Finish(c) ==
    /\ request[c].pc = "finish"
    /\ done' = TRUE
    /\ Reply(c, "ok")
    /\ UNCHANGED <<head, sealed, checkpoints, faults>>

(* Mutation of RepairOrRefuse: a sealed run is always refused.             *)
RefuseSealed(c) ==
    /\ request[c].pc = "latest"
    /\ Reply(c, "conflict")
    /\ UNCHANGED <<head, sealed, checkpoints, done, faults>>

(* Already sealed: refused when there is a checkpoint, any checkpoint.     *)
RepairOrRefuse(c) ==
    /\ request[c].pc = "latest"
    /\ \/ /\ Latest(checkpoints) = 0
          /\ Goto(c, "envelope", 0)
          /\ UNCHANGED <<answer, faults>>
       \/ /\ Latest(checkpoints) # 0
          /\ Reply(c, "conflict")
          /\ UNCHANGED faults
       \/ StoreFails(c)
    /\ UNCHANGED <<head, sealed, checkpoints, done>>

(* get_run, whose head the missing checkpoint is written for.              *)
ReadHead(c) ==
    /\ request[c].pc = "envelope"
    /\ \/ Goto(c, "repair", head) /\ UNCHANGED <<answer, faults>>
       \/ StoreFails(c)
    /\ UNCHANGED <<head, sealed, checkpoints, done>>

Repair(c) ==
    /\ request[c].pc = "repair"
    /\ \/ /\ Put(c)
          /\ Reply(c, "repaired")
          /\ UNCHANGED faults
       \/ StoreFails(c) /\ UNCHANGED checkpoints
    /\ UNCHANGED <<head, sealed, done>>

(* The connections of these callers drop, and their handlers with them.    *)
Drop(cs) ==
    /\ Fault
    /\ request' = [c \in Caller |-> IF c \in cs THEN Idle ELSE request[c]]
    /\ answer' = [c \in Completer |-> IF c \in cs /\ request[c] # Idle
                                      THEN "lost" ELSE answer[c]]
    /\ UNCHANGED <<head, sealed, checkpoints>>

Disconnect(c) == request[c] # Idle /\ Drop({c}) /\ UNCHANGED done

(* The process stops: the tables survive, the handlers and the in-memory   *)
(* watch stream do not.                                                    *)
Crash == Drop(Caller) /\ done' = FALSE

CompleterStep(c) ==
    \/ SealCheckpoint(c)
    \/ Finish(c)
    \/ RepairOrRefuse(c)
    \/ ReadHead(c)
    \/ Repair(c)

Next ==
    \/ \E w \in Writer : AppendEvent(w) \/ WriteOther(w) \/ PeriodicCheckpoint(w)
    \/ \E c \in Completer : Complete(c) \/ CompleterStep(c)
    \/ \E c \in Caller : Disconnect(c)
    \/ Crash

Spec == Init /\ [][Next]_vars

(* A started handler is driven to its answer, and a caller of complete     *)
(* asks again until it has one; nothing obliges anyone to append or crash. *)
FairSpec ==
    /\ Spec
    /\ \A w \in Writer : WF_vars(PeriodicCheckpoint(w))
    /\ \A c \in Completer : WF_vars(Complete(c) \/ CompleterStep(c))

-----------------------------------------------------------------------------
Protected == sealed /\ head \in Rows(checkpoints)

(* Where a handler is says what it has done, and what it holds.            *)
TypeOK ==
    /\ head \in 0..(MaxSeq + 1)
    /\ faults \in 0..MaxFaults
    /\ Rows(checkpoints) \subseteq 1..head
    /\ \A w \in Writer : request[w].pc \in {"idle", "checkpoint"}
    /\ \A c \in Completer :
          /\ request[c].pc \in {"idle", "checkpoint", "finish", "latest",
                                "envelope", "repair"}
          /\ request[c].pc # "idle" => sealed
          /\ request[c].pc \in {"checkpoint", "repair"} => request[c].seq = head
    /\ done => sealed

(* complete reports success, or a repair, only for a run whose very last   *)
(* event a stored checkpoint covers.                                       *)
SuccessIsProtected ==
    \A c \in Completer : answer[c] \in {"ok", "repaired"} => Protected

(* The checkpoint a client is given never goes back, although a periodic   *)
(* one may be written long after the seal's.                               *)
LatestNeverGoesBack == [][Latest(checkpoints') >= Latest(checkpoints)]_vars

(* A run sealed with no checkpoint at all, and none on its way, gets one   *)
(* for its last event in the end: the repair path works, through failed    *)
(* writes, lost answers, crashes and retries by several callers.           *)
EventuallyProtected ==
    (sealed /\ checkpoints = <<>> /\ \A w \in Writer : request[w] = Idle)
        ~> Protected

-----------------------------------------------------------------------------
(* A claim the code does not keep: a caller is refused as already sealed   *)
(* only when there is nothing left to repair.  routes.rs: "If the          *)
(* checkpoint is missing ... write it now instead of refusing, so the      *)
(* caller can repair rather than be left with unprotected evidence and no  *)
(* way to fix it."                                                         *)
RefusedIsProtected ==
    \A c \in Completer : answer[c] = "conflict" => Protected
=============================================================================
