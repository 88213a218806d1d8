SPECIFICATION Spec
CONSTANTS
    P = 11
    B = 10
    Order = 7
    Gx = 2
    Gy = 1
    MCode <- CompressedM
    NCode <- CompressedN
    W <- Scalars
    StaleX = 3
    StaleY = 5
INVARIANTS
    OnlyTheSameCodeVerifies
    SameCodeNeverRefused
    PointsAreRight
