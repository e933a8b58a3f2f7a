\* One run, every mix of up to three writes after run_started.
CONSTANTS
    None = None
    k1 = k1
    k2 = k2
    v1 = v1
    Run = {r1}
    Key = {k1, k2}
    Value = {v1}
    Time = {1}
    MaxSeq = 3
    Field <- MCField
SPECIFICATION Spec
INVARIANTS TypeOK ChainVerifies SealedRecord RepliesHold OneEventPerKey CheckpointsHold
PROPERTIES LogSpec
CHECK_DEADLOCK FALSE
