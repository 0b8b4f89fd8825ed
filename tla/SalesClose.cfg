SPECIFICATION FairCloseSpec
CONSTANTS
    r1 = r1
    r2 = r2
    old = old
    new = new
    i1 = i1
    InitialStatus <- MCNew
    Request <- MCOne
    Rate <- MCRates
    InitialRate <- MCConfigured
    NoRate = NoRate
    Maintenance = TRUE
    MayCrash = TRUE
    Installment <- MCInstall
    Built <- MCInstallBuilt
INVARIANTS
    SubmissionRemembered
    FrozenUnderReview
    CommissionOnlyIfWon
PROPERTIES
    StepsAreLegal
    WonGetsCommission
