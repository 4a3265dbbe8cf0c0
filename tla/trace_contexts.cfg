CONSTANTS
    MaxDepth = 6
    MaxNesting = 4
SPECIFICATION Spec
INVARIANTS RefusedExactly PrintkIntact
