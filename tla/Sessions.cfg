CONSTANTS
    s1 = s1
    s2 = s2
    s3 = s3
    g1 = g1
    g2 = g2
    g3 = g3
    g4 = g4
    b1 = b1
    b12 = b12
    b123 = b123
    b34 = b34
    None = None
    Sessions = {s1, s2, s3}
    Graphs = {g1, g2, g3, g4}
    Binaries = {b1, b12, b123, b34}
    GraphsOf <- BinaryGraphs
    Configs <- AllConfigs
    SerialKinds = {"generate", "htp"}
SPECIFICATION FairSpec
INVARIANTS
    OneOwner
    ReadySessionsCanRun
    GroupBinaryComplete
PROPERTIES
    ConsumersServed
CHECK_DEADLOCK FALSE
