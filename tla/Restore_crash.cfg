SPECIFICATION Spec
CONSTANTS
    MaxCommits = 3
    MaxMoves = 2
INVARIANTS Coherent OldOrNew Reversible
PROPERTIES Implements
