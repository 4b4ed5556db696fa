\* read, write and swapHash of the cached backend agree with the RAM array,
\* as the forest grows to 7 hashes and is closed and restored.  out and op
\* are history that no step reads, so states are told apart by codeVars;
\* MCBound keeps at most four non-zero hashes stored.
CONSTANTS
    h1 = h1
    zero = zero
    Empty = zero
    Hashes <- MCHashes
    MaxSize = 7
SPECIFICATION Spec
INVARIANT TypeOK
PROPERTY OpsRefineRam
VIEW codeVars
CONSTRAINT MCBound
