CONSTANTS
    Calls = {c1, c2, c3}
    Events = {e1, e2}
    MaxFactory = 4
SPECIFICATION MCSpec
SYMMETRY Symmetry
INVARIANTS Exclusivity NoLeak ClientCloseCorrectness WaitsForYounger
PROPERTIES EvictedByOwner UnregisterTakesEffect
