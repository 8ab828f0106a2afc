\* Two requests of each kind, two codes that the table may already have, files
\* of up to two lines; any Redis command may fail.
SPECIFICATION Spec
CONSTANTS
    Readers = {r1, r2}
    Writers = {w1, w2}
    InitialStock = 1
    Edits <- FormStocks
    Quantity = 1
    Codes = {p1, p2}
    Seed = Seed
    Bad = Bad
    MaxLines = 2
    MaxVersion = 2
    RedisFails = TRUE
SYMMETRY Symmetry
INVARIANTS
    TypeOK
    FreshAfterWrite
    NoReservationLost
    AnswersAreTrue
CHECK_DEADLOCK FALSE
