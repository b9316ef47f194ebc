SPECIFICATION FairSpec
CONSTANTS
    Boxes = {b1, b2}
    MaxBoxes = 2
    MaxOdd = 1
    None = None
INVARIANTS
    AddressesApart
    CleanStart
    SleptIsGone
    WokenIsUp
PROPERTY CallsEnd
