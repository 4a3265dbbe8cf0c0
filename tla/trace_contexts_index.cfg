CONSTANTS
    MaxDepth = 4
    MaxNesting = 4
SPECIFICATION Spec
INVARIANT IndexInBuffer
