\* Three candidates, two remote descriptions, three errors of pion.
SPECIFICATION FairSpec
CONSTANTS
    c1 = c1
    c2 = c2
    c3 = c3
    Cands = {c1, c2, c3}
    Attempts = 3
    MaxSets = 2
    MaxErrors = 3
INVARIANTS
    NoneStranded
PROPERTY
    CandidatesSettle
\* The browser may send nothing more.
CHECK_DEADLOCK FALSE
