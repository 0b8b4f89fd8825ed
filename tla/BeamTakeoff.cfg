SPECIFICATION FairSpec
CONSTANTS
    c1 = c1
    c2 = c2
    p1 = p1
    p2 = p2
    NoValue = NoValue
    Click <- MCOneClick
    Proc <- MCOneTask
    Value <- MCValue
    Entered <- MCEntered
    Answers <- MCAnswers
    MayOverlap = FALSE
INVARIANTS
    OrderedOnceUnlessCut
    NoSilentDrift
PROPERTIES
    EstimatorsNumberKept
    MeasurementArrives
