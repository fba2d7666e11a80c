SPECIFICATION CurationSpec
CONSTANTS
    cat = cat
    dan = dan
    s1 = s1
    s2 = s2
    CurationAddress = CurationAddress
    Subgraphs = {s1}
    Curators = {cat, dan}
    SignalPerMinimumDeposit = 2
    InitialCuratorGRT <- FourEach
    InitialCurationParams <- CurveParams
    SignalDeposits = {1, 2, 3}
    SignalAmounts = {1, 2}
    SlippageBounds = {0, 2}
    CurationFeeAmounts = {1}
    MaxCurationGRT = 10
    CurationSettingChoices <- CurveChoices
INVARIANTS
    ReservesSound
    CuratorsCanLeave
PROPERTIES
    NobodyBeatsTheCurve
SYMMETRY CatAndDan
