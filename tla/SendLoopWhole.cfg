SPECIFICATION SendSpec
CONSTANTS
    MaxLen = 8
INVARIANTS
    WholeOrError
