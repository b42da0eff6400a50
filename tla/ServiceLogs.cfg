SPECIFICATION Spec
CONSTANTS
    n1 = n1
    n2 = n2
    h1 = h1
    h2 = h2
    Nil = Nil
    Names = {n1, n2}
    Waits = {1, 2}
    Int32Half = 3
    DurationHalf = 2
    Handlers = {h1, h2}
    Style <- MCStyle
    Specs <- MCSpecs
    MaxTime = 1
    Limits <- MCLimits
CHECK_DEADLOCK FALSE
INVARIANTS
    TypeOK
    PanicsWhenUntold
    CountsRecorded
    ResendSpaced
PROPERTY
    ImplementsThrottle
