CONSTANTS
    x1 = x1  x2 = x2  s1 = s1  s2 = s2  t1 = t1  t2 = t2  k1 = k1  k2 = k2  none = none
    None = none
    Txns = {x1, x2}
    Sessions = {s1, s2}
    Tabs = {t1, t2}
    Open = {t1}
    Keys = {k1, k2}
    Asks <- OneCallEach
    Events = {"reserve", "session", "removed", "persist"}
    MaxUpsets = 1
    Calls = {c1, c2}
    Doubts = {"send", "create", "upload", "navigation", "inspection"}
    DispatchWait = 1
    ReadGap = 1
    Ttl = 2
    MaxTime = 2
    MaxDisturbances = 2
    MaxLosses = 2
    MaxProofs = 2
    MaxDocuments = 2
    MaxLeases = 2
    MaxInputs = 2
    MaxTurns = 1
CHECK_DEADLOCK FALSE
SYMMETRY Symmetric
SPECIFICATION MCSpec
INVARIANTS NothingDoneRemains ReceiptIsTrue DoubtIsOnRecord
           SettlementIsWhole AdviceAgrees CreatedOnce
           OneInputWhileFresh AimedAtTheImage
PROPERTIES EvidenceIsKept SettledOnce
