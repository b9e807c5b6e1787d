CONSTANTS
    Entries = {e1, e2}
    MaxSize = 6
    Offered <- Useful
SYMMETRY Symmetry
SPECIFICATION Spec
INVARIANTS
    ReceiptsAreTrue
    HonestProofsPass
PROPERTIES
    KeptLogOnlyGrows
