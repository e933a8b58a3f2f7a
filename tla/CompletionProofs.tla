--------------------------- MODULE CompletionProofs ---------------------------
(***************************************************************************)
(* Proofs about Completion, for any number of callers, any checkpoint      *)
(* period, and any number of events and faults.                            *)
(***************************************************************************)
EXTENDS Completion, TLAPS

Steps == {"idle", "checkpoint", "finish", "latest", "envelope", "repair"}

(* The locals of a handler, and the values the variables range over.       *)
Shapes ==
    /\ head \in Nat
    /\ sealed \in BOOLEAN
    /\ faults \in Nat
    /\ checkpoints \in Seq(Nat)
    /\ request \in [Caller -> [pc : Steps, seq : Nat]]
    /\ DOMAIN answer = Completer

(* The head moves only while the run is open, and no row is ahead of it.   *)
Heads ==
    /\ head <= MaxSeq + (IF sealed THEN 1 ELSE 0)
    /\ faults <= MaxFaults
    /\ Rows(checkpoints) \subseteq 1..head
    /\ done => sealed

(* What a handler holds: a writer a sequence number the record has, a      *)
(* completer that is past the seal the last one there will ever be.        *)
Handlers ==
    /\ \A w \in Writer :
          /\ request[w].pc \in {"idle", "checkpoint"}
          /\ request[w].pc = "checkpoint" => request[w].seq \in 1..head
    /\ \A c \in Completer :
          /\ request[c].pc # "idle" => sealed
          /\ request[c].pc \in {"checkpoint", "repair"} =>
                request[c].seq = head /\ head > 0
          /\ request[c].pc = "finish" => head \in Rows(checkpoints)

(* The rows have a highest one.                                            *)
HasLatest(cs) == cs = <<>> \/ \E s \in Rows(cs) : \A t \in Rows(cs) : t <= s

IInv == /\ Shapes /\ Heads /\ Handlers
        /\ sealed => head > 0
        /\ HasLatest(checkpoints)
        /\ SuccessIsProtected

-----------------------------------------------------------------------------
(* Writing a checkpoint adds its row and keeps the others.                 *)
LEMMA RowsAppend ==
    ASSUME NEW cs \in Seq(Nat), NEW s \in Nat
    PROVE  /\ Append(cs, s) \in Seq(Nat)
           /\ Append(cs, s) # <<>>
           /\ Rows(Append(cs, s)) = Rows(cs) \cup {s}
<1>1. /\ Len(Append(cs, s)) = Len(cs) + 1
      /\ Append(cs, s)[Len(cs) + 1] = s
      /\ \A i \in 1..Len(cs) : Append(cs, s)[i] = cs[i]
      /\ Append(cs, s) \in Seq(Nat)
      /\ Len(cs) \in Nat
  OBVIOUS
<1>2. 1..(Len(cs) + 1) = (1..Len(cs)) \cup {Len(cs) + 1}
  BY <1>1
<1>3. Rows(Append(cs, s)) = Rows(cs) \cup {s}
  BY <1>1, <1>2 DEF Rows
<1>4. QED BY <1>1, <1>3

(* The highest row stays the highest, or the new one is.                   *)
LEMMA LatestAppend ==
    ASSUME NEW cs \in Seq(Nat), NEW s \in Nat, HasLatest(cs)
    PROVE  /\ HasLatest(Append(cs, s))
           /\ Latest(Append(cs, s)) >= Latest(cs)
<1>1. /\ Append(cs, s) # <<>>
      /\ Rows(Append(cs, s)) = Rows(cs) \cup {s}
  BY RowsAppend
<1>2. Rows(cs) \subseteq Nat
  BY DEF Rows
<1>3. CASE cs = <<>>
  <2>1. Rows(cs) = {}
    BY <1>3 DEF Rows
  <2>2. Latest(Append(cs, s)) = s
    BY <1>1, <2>1 DEF Latest
  <2>3. QED BY <1>1, <1>3, <2>1, <2>2 DEF HasLatest, Latest
<1>4. CASE cs # <<>>
  <2>1. PICK m \in Rows(cs) : \A t \in Rows(cs) : t <= m
    BY <1>4 DEF HasLatest
  <2>2. Latest(cs) = m
    BY <1>2, <1>4, <2>1 DEF Latest
  <2>3. CASE s <= m
    <3>1. \A t \in Rows(Append(cs, s)) : t <= m
      BY <1>1, <2>1, <2>3
    <3>2. Latest(Append(cs, s)) = m
      BY <1>1, <1>2, <2>1, <3>1 DEF Latest
    <3>3. QED BY <1>1, <1>2, <2>1, <2>2, <3>1, <3>2 DEF HasLatest
  <2>4. CASE s > m
    <3>1. \A t \in Rows(Append(cs, s)) : t <= s
      BY <1>1, <1>2, <2>1, <2>4
    <3>2. Latest(Append(cs, s)) = s
      BY <1>1, <1>2, <3>1 DEF Latest
    <3>3. QED BY <1>1, <1>2, <2>1, <2>2, <2>4, <3>1, <3>2 DEF HasLatest
  <2>5. QED BY <1>2, <2>1, <2>3, <2>4
<1>5. QED BY <1>3, <1>4

(* A run that was just created, with no handler under way.                 *)
LEMMA InitInv == Init => IInv
<1> SUFFICES ASSUME Init PROVE IInv
  OBVIOUS
<1>1. Rows(checkpoints) = {} /\ checkpoints \in Seq(Nat)
  BY DEF Init, Rows
<1>2. \A c \in Caller : request[c] = [pc |-> "idle", seq |-> 0]
  BY DEF Init, Idle, At
<1>3. Shapes
  BY <1>1 DEF Init, Shapes, Idle, At, Steps
<1>4. Heads
  BY <1>1, CompletionAssumption DEF Init, Heads
<1>5. Handlers
  BY <1>2 DEF Handlers, Caller
<1>6. HasLatest(checkpoints) /\ ~sealed /\ SuccessIsProtected
  BY DEF Init, HasLatest, SuccessIsProtected
<1>7. QED BY <1>3, <1>4, <1>5, <1>6 DEF IInv

(* Where a step leaves the handler of c agrees with what it leaves stored. *)
Fits(c) ==
    /\ request'[c].pc \in Steps /\ request'[c].seq \in Nat
    /\ c \in Writer =>
          /\ request'[c].pc \in {"idle", "checkpoint"}
          /\ request'[c].pc = "checkpoint" => request'[c].seq \in 1..head'
    /\ c \in Completer =>
          /\ request'[c].pc # "idle" => sealed'
          /\ request'[c].pc \in {"checkpoint", "repair"} => request'[c].seq = head'
          /\ request'[c].pc = "finish" => head' \in Rows(checkpoints')
          /\ answer'[c] \in {"ok", "repaired"} => Protected'

(* Only the handler of c, and what complete told it, may have changed.     *)
OnlyCaller(c) ==
    /\ DOMAIN request' = Caller /\ DOMAIN answer' = Completer
    /\ \A d \in Caller \ {c} : request'[d] = request[d]
    /\ \A d \in Completer \ {c} : answer'[d] = answer[d]
    /\ request' = [d \in Caller |-> request'[d]]
    /\ request'[c] = [pc |-> request'[c].pc, seq |-> request'[c].seq]

(* A step of one handler: it adds at most a row for an event there is, and *)
(* moves the head only while the run is open.                              *)
HandlerStep(c) ==
    /\ OnlyCaller(c)
    /\ Fits(c)
    /\ \/ UNCHANGED <<head, sealed>>
       \/ ~sealed /\ head' = head + 1 /\ head < MaxSeq /\ sealed' = FALSE
       \/ ~sealed /\ head' = head + 1 /\ sealed' = TRUE
    /\ \/ UNCHANGED checkpoints
       \/ \E s \in 1..head : checkpoints' = Append(checkpoints, s)
    /\ done' \in {done, sealed'}
    /\ faults' \in Nat /\ faults' <= MaxFaults

(* What every handler step has in common is enough for the invariant.     *)
LEMMA HandlerStepKeepsInv ==
    ASSUME IInv, NEW c \in Caller, HandlerStep(c)
    PROVE  IInv' /\ Latest(checkpoints') >= Latest(checkpoints)
<1>1. Shapes /\ Heads /\ Handlers /\ HasLatest(checkpoints)
      /\ SuccessIsProtected /\ (sealed => head > 0)
  BY DEF IInv
<1>2. /\ checkpoints' \in Seq(Nat)
      /\ HasLatest(checkpoints')
      /\ Latest(checkpoints') >= Latest(checkpoints)
      /\ Rows(checkpoints) \subseteq Rows(checkpoints')
      /\ Rows(checkpoints') \subseteq 1..head
  <2>1. CASE UNCHANGED checkpoints
    <3>1. Latest(checkpoints) \in Nat
      <4>1. Rows(checkpoints) \subseteq Nat
        BY <1>1 DEF Heads, Shapes
      <4>2. QED BY <1>1, <4>1 DEF Latest, HasLatest
    <3>2. QED BY <1>1, <2>1, <3>1 DEF Shapes, Heads
  <2>2. CASE \E s \in 1..head : checkpoints' = Append(checkpoints, s)
    BY <1>1, <2>2, RowsAppend, LatestAppend DEF Shapes, Heads
  <2>3. QED BY <2>1, <2>2 DEF HandlerStep
<1>3. /\ head' \in Nat /\ sealed' \in BOOLEAN
      /\ sealed => sealed' /\ head' = head
      /\ sealed' => head' > 0
      /\ head <= head'
      /\ head' <= MaxSeq + (IF sealed' THEN 1 ELSE 0)
  <2>1. CASE UNCHANGED <<head, sealed>>
    <3>1. head' = head /\ sealed' = sealed
      BY <2>1
    <3>2. /\ head' \in Nat /\ sealed' \in BOOLEAN
          /\ head' <= MaxSeq + (IF sealed' THEN 1 ELSE 0)
      BY <1>1, <3>1 DEF Shapes, Heads
    <3>3. sealed => head > 0
      BY <1>1
    <3>4. head <= head' /\ (sealed' => head' > 0)
      BY <3>1, <3>2, <3>3
    <3>5. QED BY <3>1, <3>2, <3>4
  <2>2. CASE ~sealed /\ head' = head + 1 /\ head < MaxSeq /\ sealed' = FALSE
    <3>1. head \in Nat /\ head <= MaxSeq
      BY <1>1, <2>2, CompletionAssumption DEF Shapes, Heads
    <3>2. /\ head' \in Nat /\ head <= head' /\ head' > 0
          /\ head' <= MaxSeq + (IF sealed' THEN 1 ELSE 0)
      BY <2>2, <3>1, CompletionAssumption
    <3>3. sealed' \in BOOLEAN /\ ~sealed
      BY <2>2
    <3>4. QED BY <3>2, <3>3
  <2>3. CASE ~sealed /\ head' = head + 1 /\ sealed' = TRUE
    <3>1. head \in Nat /\ head <= MaxSeq
      BY <1>1, <2>3, CompletionAssumption DEF Shapes, Heads
    <3>2. /\ head' \in Nat /\ head <= head' /\ head' > 0
          /\ head' <= MaxSeq + (IF sealed' THEN 1 ELSE 0)
      BY <2>3, <3>1, CompletionAssumption
    <3>3. sealed' \in BOOLEAN /\ ~sealed
      BY <2>3
    <3>4. QED BY <3>2, <3>3
  <2>4. QED BY <2>1, <2>2, <2>3 DEF HandlerStep
<1>4. Shapes'
  <2>1. request' \in [Caller -> [pc : Steps, seq : Nat]]
    <3>1. \A d \in Caller : request'[d] \in [pc : Steps, seq : Nat]
      <4>1. \A d \in Caller : request[d] \in [pc : Steps, seq : Nat]
        BY <1>1 DEF Shapes
      <4>2. request'[c] \in [pc : Steps, seq : Nat]
        <5>1. request'[c] = [pc |-> request'[c].pc, seq |-> request'[c].seq]
          BY DEF HandlerStep, OnlyCaller
        <5>2. request'[c].pc \in Steps /\ request'[c].seq \in Nat
          BY DEF HandlerStep, Fits
        <5>3. QED BY <5>1, <5>2
      <4>3. QED BY <4>1, <4>2 DEF HandlerStep, OnlyCaller
    <3>2. QED BY <3>1 DEF HandlerStep, OnlyCaller
  <2>2. QED BY <1>2, <1>3, <2>1 DEF HandlerStep, OnlyCaller, Shapes
<1>5. Heads'
  BY <1>1, <1>2, <1>3 DEF HandlerStep, Heads, Shapes
<1>6. Handlers'
  <2>1. \A w \in Writer :
           /\ request'[w].pc \in {"idle", "checkpoint"}
           /\ request'[w].pc = "checkpoint" => request'[w].seq \in 1..head'
    BY <1>1, <1>3 DEF HandlerStep, OnlyCaller, Fits, Handlers, Caller, Shapes
  <2>2. \A d \in Completer :
           /\ request'[d].pc # "idle" => sealed'
           /\ request'[d].pc \in {"checkpoint", "repair"} =>
                 request'[d].seq = head' /\ head' > 0
           /\ request'[d].pc = "finish" => head' \in Rows(checkpoints')
    BY <1>1, <1>2, <1>3 DEF HandlerStep, OnlyCaller, Fits, Handlers, Caller
  <2>3. QED BY <2>1, <2>2 DEF Handlers
<1>7. SuccessIsProtected'
  BY <1>1, <1>2, <1>3
  DEF HandlerStep, OnlyCaller, Fits, SuccessIsProtected, Protected, Caller
<1>8. QED BY <1>2, <1>3, <1>4, <1>5, <1>6, <1>7 DEF IInv

-----------------------------------------------------------------------------
(* The steps of the handlers.                                              *)

(* A handler that goes on, and whose caller has no answer from this step.  *)
LEMMA GotoOnly ==
    ASSUME Shapes, NEW c \in Caller, NEW pc \in Steps, NEW seq \in Nat,
           Goto(c, pc, seq), UNCHANGED answer
    PROVE  /\ OnlyCaller(c)
           /\ request'[c] = [pc |-> pc, seq |-> seq]
           /\ c \in Completer => answer'[c] = answer[c]
BY DEF Shapes, Goto, At, OnlyCaller

(* A handler that answers.                                                 *)
LEMMA ReplyOnly ==
    ASSUME Shapes, NEW c \in Completer, NEW text, Reply(c, text)
    PROVE  /\ OnlyCaller(c)
           /\ request'[c] = [pc |-> "idle", seq |-> 0]
           /\ answer'[c] = text
           /\ c \in Caller /\ c \notin Writer
BY CompletionAssumption DEF Shapes, Reply, Idle, At, OnlyCaller, Caller

(* An append holds the new sequence number only when a checkpoint is due.  *)
LEMMA AppendEventStep ==
    ASSUME IInv, NEW w \in Writer, AppendEvent(w)
    PROVE  HandlerStep(w)
<1>1. /\ w \in Caller /\ w \notin Completer
      /\ head \in Nat /\ faults \in Nat /\ faults <= MaxFaults
      /\ DOMAIN request = Caller /\ DOMAIN answer = Completer
  BY CompletionAssumption DEF Caller, IInv, Shapes, Heads
<1>2. /\ request' = [request EXCEPT ![w] = IF Due(head + 1)
                                           THEN At("checkpoint", head + 1)
                                           ELSE Idle]
      /\ head' = head + 1 /\ head < MaxSeq /\ ~sealed
      /\ UNCHANGED <<sealed, checkpoints, done, answer, faults>>
  BY DEF AppendEvent
<1>3. \/ request'[w] = [pc |-> "checkpoint", seq |-> head + 1]
      \/ request'[w] = [pc |-> "idle", seq |-> 0]
  BY <1>1, <1>2 DEF At, Idle
<1>4. OnlyCaller(w)
  BY <1>1, <1>2, <1>3 DEF OnlyCaller
<1>5. Fits(w)
  BY <1>1, <1>2, <1>3 DEF Fits, Steps
<1>6. sealed' = FALSE
  BY <1>2 DEF IInv, Shapes
<1>7. QED BY <1>1, <1>2, <1>4, <1>5, <1>6 DEF HandlerStep

(* The other writes hold nothing.                                          *)
LEMMA WriteOtherStep ==
    ASSUME IInv, NEW w \in Writer, WriteOther(w)
    PROVE  HandlerStep(w)
<1>1. /\ w \in Caller /\ w \notin Completer
      /\ head \in Nat /\ faults \in Nat /\ faults <= MaxFaults
      /\ DOMAIN request = Caller /\ DOMAIN answer = Completer
      /\ request = [d \in Caller |-> request[d]]
  BY CompletionAssumption DEF Caller, IInv, Shapes, Heads
<1>2. /\ request[w] = [pc |-> "idle", seq |-> 0]
      /\ head' = head + 1 /\ head < MaxSeq /\ ~sealed
      /\ UNCHANGED <<sealed, checkpoints, done, request, answer, faults>>
  BY DEF WriteOther, Idle, At
<1>3. OnlyCaller(w)
  BY <1>1, <1>2 DEF OnlyCaller
<1>4. Fits(w)
  BY <1>1, <1>2 DEF Fits, Steps
<1>5. sealed' = FALSE
  BY <1>2 DEF IInv, Shapes
<1>6. QED BY <1>1, <1>2, <1>3, <1>4, <1>5 DEF HandlerStep

(* A periodic checkpoint covers an event the record has.                   *)
LEMMA PeriodicCheckpointStep ==
    ASSUME IInv, NEW w \in Writer, PeriodicCheckpoint(w)
    PROVE  HandlerStep(w)
<1>1. /\ w \in Caller /\ w \notin Completer
      /\ head \in Nat /\ faults \in Nat /\ faults <= MaxFaults
      /\ DOMAIN request = Caller /\ DOMAIN answer = Completer
      /\ request[w].seq \in 1..head
  BY CompletionAssumption DEF Caller, IInv, Shapes, Heads, Handlers, PeriodicCheckpoint
<1>2. request' = [request EXCEPT ![w] = Idle]
      /\ UNCHANGED <<head, sealed, done, answer>>
  BY DEF PeriodicCheckpoint
<1>3. OnlyCaller(w) /\ request'[w] = [pc |-> "idle", seq |-> 0]
  BY <1>1, <1>2 DEF OnlyCaller, Idle, At
<1>4. Fits(w)
  BY <1>1, <1>3 DEF Fits, Steps
<1>5. \/ UNCHANGED checkpoints
      \/ \E s \in 1..head : checkpoints' = Append(checkpoints, s)
  BY <1>1 DEF PeriodicCheckpoint, Put
<1>6. faults' \in Nat /\ faults' <= MaxFaults
  BY <1>1, CompletionAssumption DEF PeriodicCheckpoint, Fault
<1>7. QED BY <1>2, <1>3, <1>4, <1>5, <1>6 DEF HandlerStep

(* Any step of complete that ends it without success.                      *)
LEMMA StoreFailsStep ==
    ASSUME IInv, NEW c \in Completer, StoreFails(c),
           UNCHANGED <<head, sealed, checkpoints, done>>
    PROVE  HandlerStep(c)
<1>1. Shapes /\ faults \in Nat
  BY DEF IInv, Shapes
<1>2. /\ Reply(c, "error")
      /\ faults' \in Nat /\ faults' <= MaxFaults
  BY <1>1, CompletionAssumption DEF StoreFails, Fault
<1>3. /\ OnlyCaller(c) /\ c \notin Writer
      /\ request'[c] = [pc |-> "idle", seq |-> 0] /\ answer'[c] = "error"
  BY <1>1, <1>2, ReplyOnly
<1>4. Fits(c)
  BY <1>3 DEF Fits, Steps
<1>5. QED BY <1>2, <1>3, <1>4 DEF HandlerStep

(* What holds of a completer before any of its steps.                      *)
LEMMA CompleterFacts ==
    ASSUME IInv, NEW c \in Completer
    PROVE  /\ c \in Caller /\ c \notin Writer
           /\ Shapes /\ SuccessIsProtected
           /\ head \in Nat /\ faults \in Nat /\ faults <= MaxFaults
           /\ request[c].pc # "idle" => sealed /\ head \in 1..head
           /\ request[c].pc \in {"checkpoint", "repair"} => request[c].seq = head
           /\ request[c].pc = "finish" => head \in Rows(checkpoints)
           /\ answer[c] \in {"ok", "repaired"} => Protected
BY CompletionAssumption
DEF Caller, IInv, Shapes, Heads, Handlers, SuccessIsProtected

(* A completer that goes on to a place consistent with what is stored.     *)
LEMMA CompleterGoes ==
    ASSUME IInv, NEW c \in Completer, NEW pc \in Steps \ {"idle", "finish"},
           NEW seq \in Nat, Goto(c, pc, seq), sealed,
           pc \in {"checkpoint", "repair"} => seq = head,
           UNCHANGED <<head, sealed, checkpoints, done, answer, faults>>
    PROVE  HandlerStep(c)
<1>1. /\ OnlyCaller(c) /\ request'[c] = [pc |-> pc, seq |-> seq]
      /\ answer'[c] = answer[c]
  BY CompleterFacts, GotoOnly
<1>2. Fits(c)
  BY <1>1, CompleterFacts DEF Fits, Protected
<1>3. QED BY <1>1, <1>2, CompleterFacts DEF HandlerStep

(* The seal moves the head once more; the handler holds what it returned.  *)
LEMMA CompleteStep ==
    ASSUME IInv, NEW c \in Completer, Complete(c)
    PROVE  HandlerStep(c)
<1>1. UNCHANGED <<checkpoints, done>> /\ request[c].pc = "idle"
      /\ answer[c] \notin {"ok", "repaired", "conflict"}
  BY DEF Complete, Idle, At, Final
<1>2. CASE ~sealed /\ sealed' = TRUE /\ head' = head + 1
           /\ Goto(c, "checkpoint", head + 1) /\ UNCHANGED <<answer, faults>>
  <2>1. head + 1 \in Nat /\ "checkpoint" \in Steps
    BY CompleterFacts DEF Steps
  <2>2. /\ OnlyCaller(c) /\ answer'[c] = answer[c]
        /\ request'[c] = [pc |-> "checkpoint", seq |-> head + 1]
    BY <1>2, <2>1, CompleterFacts, GotoOnly
  <2>3. Fits(c)
    BY <1>1, <1>2, <2>1, <2>2, CompleterFacts DEF Fits
  <2>4. QED BY <1>1, <1>2, <2>2, <2>3, CompleterFacts DEF HandlerStep
<1>3. CASE sealed /\ Goto(c, "latest", 0)
           /\ UNCHANGED <<head, sealed, answer, faults>>
  <2>1. "latest" \in Steps \ {"idle", "finish"}
    BY DEF Steps
  <2>2. QED BY <1>1, <1>3, <2>1, CompleterGoes
<1>4. CASE StoreFails(c) /\ UNCHANGED <<head, sealed>>
  BY <1>1, <1>4, StoreFailsStep
<1>5. QED BY <1>2, <1>3, <1>4 DEF Complete

(* The seal's checkpoint is the row of the head.                           *)
LEMMA SealCheckpointStep ==
    ASSUME IInv, NEW c \in Completer, SealCheckpoint(c)
    PROVE  HandlerStep(c)
<1>1. /\ request[c].pc = "checkpoint" /\ request[c].seq = head
      /\ sealed /\ head \in 1..head
      /\ UNCHANGED <<head, sealed, done>>
  BY CompleterFacts DEF SealCheckpoint
<1>2. CASE Put(c) /\ Goto(c, "finish", 0) /\ UNCHANGED <<faults, answer>>
  <2>1. checkpoints' = Append(checkpoints, head)
    BY <1>1, <1>2 DEF Put
  <2>2. Rows(checkpoints') = Rows(checkpoints) \cup {head}
    BY <2>1, CompleterFacts, RowsAppend DEF Shapes
  <2>3. "finish" \in Steps /\ 0 \in Nat
    BY DEF Steps
  <2>4. /\ OnlyCaller(c) /\ answer'[c] = answer[c]
        /\ request'[c] = [pc |-> "finish", seq |-> 0]
    BY <1>2, <2>3, CompleterFacts, GotoOnly
  <2>5. Fits(c)
    BY <1>1, <2>2, <2>3, <2>4, CompleterFacts DEF Fits, Protected
  <2>6. QED BY <1>1, <1>2, <2>1, <2>4, <2>5, CompleterFacts DEF HandlerStep
<1>3. CASE StoreFails(c) /\ UNCHANGED checkpoints
  BY <1>1, <1>3, StoreFailsStep
<1>4. QED BY <1>2, <1>3 DEF SealCheckpoint

(* Success is reported after that row is in.                               *)
LEMMA FinishStep ==
    ASSUME IInv, NEW c \in Completer, Finish(c)
    PROVE  HandlerStep(c)
<1>1. /\ sealed /\ head \in Rows(checkpoints)
      /\ done' = TRUE /\ Reply(c, "ok")
      /\ UNCHANGED <<head, sealed, checkpoints, faults>>
  BY CompleterFacts DEF Finish
<1>2. /\ OnlyCaller(c) /\ request'[c] = [pc |-> "idle", seq |-> 0]
  BY <1>1, CompleterFacts, ReplyOnly
<1>3. Protected'
  BY <1>1 DEF Protected
<1>4. Fits(c)
  BY <1>2, <1>3, CompleterFacts DEF Fits, Steps
<1>5. sealed' = TRUE
  BY <1>1 DEF IInv, Shapes
<1>6. QED BY <1>1, <1>2, <1>4, <1>5, CompleterFacts DEF HandlerStep

(* The repair path, up to the missing checkpoint.                          *)
LEMMA RepairOrRefuseStep ==
    ASSUME IInv, NEW c \in Completer, RepairOrRefuse(c)
    PROVE  HandlerStep(c)
<1>1. sealed /\ UNCHANGED <<head, sealed, checkpoints, done>>
  BY CompleterFacts DEF RepairOrRefuse
<1>2. CASE Goto(c, "envelope", 0) /\ UNCHANGED <<answer, faults>>
  <2>1. "envelope" \in Steps \ {"idle", "finish"}
    BY DEF Steps
  <2>2. QED BY <1>1, <1>2, <2>1, CompleterGoes
<1>3. CASE Reply(c, "conflict") /\ UNCHANGED faults
  <2>1. /\ OnlyCaller(c) /\ request'[c] = [pc |-> "idle", seq |-> 0]
        /\ answer'[c] = "conflict"
    BY <1>3, CompleterFacts, ReplyOnly
  <2>2. Fits(c)
    BY <2>1, CompleterFacts DEF Fits, Steps
  <2>3. QED BY <1>1, <1>3, <2>1, <2>2, CompleterFacts DEF HandlerStep
<1>4. CASE StoreFails(c)
  BY <1>1, <1>4, StoreFailsStep
<1>5. QED BY <1>2, <1>3, <1>4 DEF RepairOrRefuse

(* The head that is read is final: the run is sealed.                      *)
LEMMA ReadHeadStep ==
    ASSUME IInv, NEW c \in Completer, ReadHead(c)
    PROVE  HandlerStep(c)
<1>1. sealed /\ UNCHANGED <<head, sealed, checkpoints, done>>
  BY CompleterFacts DEF ReadHead
<1>2. CASE Goto(c, "repair", head) /\ UNCHANGED <<answer, faults>>
  <2>1. "repair" \in Steps \ {"idle", "finish"}
    BY DEF Steps
  <2>2. QED BY <1>1, <1>2, <2>1, CompleterFacts, CompleterGoes
<1>3. CASE StoreFails(c)
  BY <1>1, <1>3, StoreFailsStep
<1>4. QED BY <1>2, <1>3 DEF ReadHead

(* A repair is reported once the row of the head is in.                    *)
LEMMA RepairStep ==
    ASSUME IInv, NEW c \in Completer, Repair(c)
    PROVE  HandlerStep(c)
<1>1. /\ request[c].pc = "repair" /\ request[c].seq = head
      /\ sealed /\ head \in 1..head
      /\ UNCHANGED <<head, sealed, done>>
  BY CompleterFacts DEF Repair
<1>2. CASE Put(c) /\ Reply(c, "repaired") /\ UNCHANGED faults
  <2>1. checkpoints' = Append(checkpoints, head)
    BY <1>1, <1>2 DEF Put
  <2>2. Rows(checkpoints') = Rows(checkpoints) \cup {head}
    BY <2>1, CompleterFacts, RowsAppend DEF Shapes
  <2>3. Protected'
    BY <1>1, <2>2 DEF Protected
  <2>4. OnlyCaller(c) /\ request'[c] = [pc |-> "idle", seq |-> 0]
    BY <1>2, CompleterFacts, ReplyOnly
  <2>5. Fits(c)
    BY <2>3, <2>4, CompleterFacts DEF Fits, Steps
  <2>6. QED BY <1>1, <1>2, <2>1, <2>4, <2>5, CompleterFacts DEF HandlerStep
<1>3. CASE StoreFails(c) /\ UNCHANGED checkpoints
  BY <1>1, <1>3, StoreFailsStep
<1>4. QED BY <1>2, <1>3 DEF Repair

(* Handlers that are dropped leave what they have stored; what was         *)
(* answered before stays answered.                                         *)
LEMMA DropKeepsInv ==
    ASSUME IInv, NEW cs \in SUBSET Caller, Drop(cs), done' \in {done, FALSE}
    PROVE  IInv' /\ Latest(checkpoints') >= Latest(checkpoints)
<1>1. Shapes /\ Heads /\ Handlers /\ HasLatest(checkpoints)
      /\ SuccessIsProtected /\ (sealed => head > 0)
  BY DEF IInv
<1>2. /\ UNCHANGED <<head, sealed, checkpoints>>
      /\ request' = [c \in Caller |-> IF c \in cs THEN Idle ELSE request[c]]
      /\ answer' = [c \in Completer |-> IF c \in cs /\ request[c] # Idle
                                        THEN "lost" ELSE answer[c]]
      /\ faults < MaxFaults /\ faults' = faults + 1
  BY DEF Drop, Fault
<1>3. Idle \in [pc : Steps, seq : Nat] /\ Idle.pc = "idle"
  BY DEF Idle, At, Steps
<1>4. Shapes'
  BY <1>1, <1>2, <1>3 DEF Shapes
<1>5. Heads'
  <2>1. (head <= MaxSeq + (IF sealed THEN 1 ELSE 0))'
    BY <1>1, <1>2 DEF Heads
  <2>2. faults' <= MaxFaults
    BY <1>1, <1>2, CompletionAssumption DEF Shapes
  <2>3. Rows(checkpoints') \subseteq 1..head'
    BY <1>1, <1>2 DEF Heads
  <2>4. done' => sealed'
    <3>1. CASE done' = done
      BY <1>1, <1>2, <3>1 DEF Heads
    <3>2. CASE done' = FALSE
      BY <3>2
    <3>3. QED BY <3>1, <3>2
  <2>5. QED BY <2>1, <2>2, <2>3, <2>4 DEF Heads
<1>6. Handlers'
  BY <1>1, <1>2, <1>3 DEF Handlers, Caller
<1>7. SuccessIsProtected'
  <2>1. \A c \in Completer : answer'[c] \in {answer[c], "lost"}
    BY <1>2
  <2>2. Protected => Protected'
    BY <1>2 DEF Protected
  <2>3. QED BY <1>1, <2>1, <2>2 DEF SuccessIsProtected
<1>8. (sealed => head > 0)' /\ HasLatest(checkpoints)'
  BY <1>1, <1>2
<1>9. Latest(checkpoints') >= Latest(checkpoints)
  <2>1. Rows(checkpoints) \subseteq Nat
    BY <1>1 DEF Heads, Shapes
  <2>2. Latest(checkpoints) \in Nat
    BY <1>1, <2>1 DEF Latest, HasLatest
  <2>3. QED BY <1>2, <2>2
<1>10. QED BY <1>4, <1>5, <1>6, <1>7, <1>8, <1>9 DEF IInv

-----------------------------------------------------------------------------
(* Theorems.                                                               *)

(* IInv is inductive, and no step moves the latest checkpoint back.        *)
LEMMA NextKeepsInv ==
    ASSUME IInv, [Next]_vars
    PROVE  IInv' /\ Latest(checkpoints') >= Latest(checkpoints)
<1>1. ASSUME NEW w \in Writer,
             AppendEvent(w) \/ WriteOther(w) \/ PeriodicCheckpoint(w)
      PROVE  IInv' /\ Latest(checkpoints') >= Latest(checkpoints)
  <2>1. HandlerStep(w)
    BY <1>1, AppendEventStep, WriteOtherStep, PeriodicCheckpointStep
  <2>2. QED BY <2>1, HandlerStepKeepsInv DEF Caller
<1>2. ASSUME NEW c \in Completer, Complete(c) \/ CompleterStep(c)
      PROVE  IInv' /\ Latest(checkpoints') >= Latest(checkpoints)
  <2>1. HandlerStep(c)
    BY <1>2, CompleteStep, SealCheckpointStep, FinishStep, RepairOrRefuseStep,
       ReadHeadStep, RepairStep DEF CompleterStep
  <2>2. QED BY <2>1, HandlerStepKeepsInv DEF Caller
<1>3. ASSUME NEW c \in Caller, Disconnect(c)
      PROVE  IInv' /\ Latest(checkpoints') >= Latest(checkpoints)
  <2>1. {c} \in SUBSET Caller /\ Drop({c}) /\ done' \in {done, FALSE}
    BY <1>3 DEF Disconnect
  <2>2. QED BY <2>1, DropKeepsInv
<1>4. ASSUME Crash
      PROVE  IInv' /\ Latest(checkpoints') >= Latest(checkpoints)
  <2>1. Caller \in SUBSET Caller /\ Drop(Caller) /\ done' \in {done, FALSE}
    BY <1>4 DEF Crash
  <2>2. QED BY <2>1, DropKeepsInv
<1>5. ASSUME UNCHANGED vars
      PROVE  IInv' /\ Latest(checkpoints') >= Latest(checkpoints)
  <2>1. IInv'
    BY <1>5 DEF IInv, Shapes, Heads, Handlers, HasLatest, SuccessIsProtected,
                Protected, Rows, vars
  <2>2. Rows(checkpoints) \subseteq Nat /\ HasLatest(checkpoints)
    BY DEF IInv, Heads, Shapes
  <2>3. Latest(checkpoints) \in Nat
    BY <2>2 DEF Latest, HasLatest
  <2>4. QED BY <1>5, <2>1, <2>3 DEF vars
<1>6. QED BY <1>1, <1>2, <1>3, <1>4, <1>5 DEF Next

(* The inductive invariant holds of every reachable state.                 *)
THEOREM Invariance == Spec => []IInv
<1>1. IInv /\ [Next]_vars => IInv'
  BY NextKeepsInv
<1>2. QED BY <1>1, InitInv, PTL DEF Spec

(* Where a handler is says what it has done, for any number of callers.    *)
THEOREM TypeCorrect == Spec => []TypeOK
<1>1. IInv => TypeOK
  <2> SUFFICES ASSUME IInv PROVE TypeOK
    OBVIOUS
  <2>1. Shapes /\ Heads /\ Handlers
    BY DEF IInv
  <2>2. head \in 0..(MaxSeq + 1) /\ faults \in 0..MaxFaults
    BY <2>1, CompletionAssumption DEF Shapes, Heads
  <2>3. \A c \in Completer : request[c].pc \in Steps
    BY <2>1 DEF Shapes, Caller
  <2>4. QED BY <2>1, <2>2, <2>3 DEF Heads, Handlers, TypeOK, Steps
<1>2. QED BY <1>1, Invariance, PTL

(* complete reports success or a repair only once the run's last event is  *)
(* covered, whatever failed, was dropped or crashed before.                *)
THEOREM SuccessSound == Spec => []SuccessIsProtected
<1>1. IInv => SuccessIsProtected
  BY DEF IInv
<1>2. QED BY <1>1, Invariance, PTL

(* The latest checkpoint never goes back, in whatever order the handlers   *)
(* get to write theirs.                                                    *)
THEOREM LatestMonotone == Spec => LatestNeverGoesBack
<1>1. IInv /\ [Next]_vars => [Latest(checkpoints') >= Latest(checkpoints)]_vars
  BY NextKeepsInv
<1>2. QED BY <1>1, Invariance, PTL DEF Spec, LatestNeverGoesBack
=============================================================================
