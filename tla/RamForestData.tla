--------------------------- MODULE RamForestData ---------------------------
(***************************************************************************)
(* ramForestData of accumulator/forestdata.go: the forest's hashes as one  *)
(* array, position p at index p.  This is what every ForestData backend    *)
(* promises: a read returns the last hash written at that position, the    *)
(* swaps exchange hashes, resize appends empty hashes, and the contents    *)
(* survive close and a restore from the forest file.                       *)
(*                                                                         *)
(* Positions are always in bounds: the Go comments leave an out-of-bounds  *)
(* access to the caller ("that's on you and it'll crash").                 *)
(***************************************************************************)
EXTENDS Naturals

CONSTANTS
    Hashes,    \* the hashes a caller writes, Empty included
    Empty,     \* the all-zero hash
    MaxSize    \* bound on the forest size (a number of hashes)

VARIABLES
    m,      \* m[p]: the hash at position p, for p in 0 .. size-1
    out,    \* the hash the last read returned
    open    \* the backend is open (between NewForest/RestoreForest and close)

ramVars == <<m, out, open>>

Size == CHOOSE n \in 0 .. MaxSize : DOMAIN m = 0 .. n - 1
Pos == DOMAIN m

\* NewForest: an empty slice, then resize((2 << 0) - 1).
Init ==
    /\ m = [p \in 0 .. 0 |-> Empty]
    /\ out = Empty
    /\ open = TRUE

Read(pos) ==
    /\ open
    /\ out' = m[pos]
    /\ UNCHANGED <<m, open>>

Write(pos, h) ==
    /\ open
    /\ m' = [m EXCEPT ![pos] = h]
    /\ UNCHANGED <<out, open>>

SwapHash(a, b) ==
    /\ open
    /\ m' = [m EXCEPT ![a] = m[b], ![b] = m[a]]
    /\ UNCHANGED <<out, open>>

\* Swap of two ranges of width w that do not overlap.
SwapRanges(f, a, b, w) ==
    [p \in DOMAIN f |-> IF a <= p /\ p < a + w THEN f[p - a + b]
                        ELSE IF b <= p /\ p < b + w THEN f[p - b + a]
                        ELSE f[p]]

SwapHashRange(a, b, w) ==
    /\ open
    /\ m' = SwapRanges(m, a, b, w)
    /\ UNCHANGED <<out, open>>

\* The forest only grows, one row at a time: (2 << rows) - 1 hashes.
Resize(newSize) ==
    /\ open
    /\ m' = [p \in 0 .. newSize - 1 |-> IF p \in Pos THEN m[p] ELSE Empty]
    /\ UNCHANGED <<out, open>>

Close ==
    /\ open
    /\ open' = FALSE
    /\ UNCHANGED <<m, out>>

\* RestoreForest: the hashes come back from the forest file.
Restore ==
    /\ ~open
    /\ open' = TRUE
    /\ UNCHANGED <<m, out>>

\* Non-overlapping ranges inside the array.
RangeArgs ==
    {<<a, b, w>> \in Pos \X Pos \X (1 .. MaxSize) : a + w <= b /\ b + w <= Size}

Next ==
    \/ \E p \in Pos : Read(p)
    \/ \E p \in Pos, h \in Hashes : Write(p, h)
    \/ \E a, b \in Pos : SwapHash(a, b)
    \/ \E r \in RangeArgs : SwapHashRange(r[1], r[2], r[3])
    \/ 2 * Size + 1 <= MaxSize /\ Resize(2 * Size + 1)
    \/ Close
    \/ Restore

Spec == Init /\ [][Next]_ramVars
=============================================================================
