\* The cached backend, flush included, implements the RAM array.
CONSTANTS
    h1 = h1
    zero = zero
    Empty = zero
    Hashes <- MCHashes
    MaxSize = 7
SPECIFICATION Spec
PROPERTY RefinesRam
VIEW codeVars
