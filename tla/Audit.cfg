\* Two runs of up to three events, one restored database, two keys, pages of
\* none, one and three events from a server that gives two.
CONSTANTS
    None = None
    v1 = v1
    r1 = r1
    r2 = r2
    sk1 = sk1
    sk2 = sk2
    Run = {r1, r2}
    Key = {}
    Value = {v1}
    Time = {1}
    MaxSeq = 2
    Field <- MCField
    SigningKey = {sk1, sk2}
    NoKey = NoKey
    Seeds = {sk1, NoKey}
    Garbled = Garbled
    Audited = r1
    Pages = {0, 1, 3}
    ServerMax = 2
    MaxRestores = 1
    MaxSigned = 1
SPECIFICATION FairAudit
INVARIANTS KeySurvives VerdictIsRight
PROPERTIES DownloadEnds
CHECK_DEADLOCK FALSE
