SPECIFICATION FairServiceSpec
CONSTANTS
    t1 = t1
    t2 = t2
    i1 = i1
    i2 = i2
    i3 = i3
    Txn <- MCTxn
    NoTxn = NoTxn
    Installment <- MCMaintenance
    Built <- MCMaintenanceBuilt
INVARIANTS
    Promises
PROPERTIES
    ImplementsBook
    EveryRequestEnds
