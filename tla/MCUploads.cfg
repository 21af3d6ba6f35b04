\* Two requests at a time, and what one deployment made before them; two faults.
CONSTANTS
    Requests = {r1, r2}
    Base = base
    Inputs <- MCInputs
    Words <- MCWords
    Numerals <- MCNumerals
    MaxFaults = 2
SYMMETRY Symmetry
SPECIFICATION Spec
INVARIANTS TypeOK RunsItsCode   FoldersRemoved
CHECK_DEADLOCK FALSE
