CONSTANTS
    MaxGroups = 2
    Timeout = 2
    MaxOctets = 3
    MaxIds = 3
    Segments <- MCSegments
SPECIFICATION Spec
INVARIANTS TypeOK WeightIsWhatIsHeld LossIsTold AnsweredIsHeldOrSettled WholeIsWhole
PROPERTY EveryGroupEnds
