CONSTANTS
    A = A
    B = B
    C = C
    Cookie = Cookie
    MaxNodes = 4
SPECIFICATION Spec
INVARIANT
    OddPathRejected
