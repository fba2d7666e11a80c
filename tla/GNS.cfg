SPECIFICATION GNSSpec
CONSTANTS
    gns = gns
    ola = ola
    nia = nia
    s1 = s1
    s2 = s2
    Subgraphs = {s1, s2}
    CurationAddress = CurationAddress
    Curators = {gns, ola, nia}
    SignalPerMinimumDeposit = 2
    InitialCuratorGRT <- NamersGRT
    InitialCurationParams <- TaxedCuration
    SignalDeposits = {1}
    SignalAmounts = {2}
    SlippageBounds = {0}
    CurationFeeAmounts = {1}
    MaxCurationGRT = 3
    CurationSettingChoices <- TaxOrNone
    GNSAddress = gns
    NoOwner = NoOwner
    NoDeployment = NoDeployment
    LegacyDeployments <- OneLegacy
    InitialOwnerTaxPercentage = 500000
    MaxSeqID = 1
    Publishers = {ola}
    DirectCurators = {nia}
    NameDeposits = {1}
    NameSignals = {2}
    MaxNameSignal = 4
    OwnerTaxChoices = {500000, 1000001}
    PauseChoices = {"partialPaused"}
INVARIANTS
    SignalHeld
    NameSignalAddsUp
    NameCuratorsCanLeave
PROPERTIES
    SharesKeepTheirWorth
