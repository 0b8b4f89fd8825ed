SPECIFICATION FairSpec
CONSTANTS
    e1 = e1
    e2 = e2
    w1 = w1
    w2 = w2
    Sweeper = Sweeper
    Estimate <- MCEstimate
    Worker <- MCWorker
    BatchLimit = 2
    Environment <- MCEnvironment
INVARIANTS
    SyncedIsInAspire
    OnceAndKnown
PROPERTIES
    SweepReachesEveryRow
