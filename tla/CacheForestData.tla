-------------------------- MODULE CacheForestData --------------------------
(***************************************************************************)
(* cacheForestData and diskForestCache of accumulator/forestdata.go: the   *)
(* forest file on disk, with part of every row kept in a RAM cache.        *)
(*                                                                         *)
(* The cache has (1 << trees) << 1 slots, each with a `valid` flag; trees  *)
(* is 20 at both call sites (NewForest, RestoreForest).  On row k (counted *)
(* with the code's width hashCount >> (k+1)) the rightmost cached-on-row   *)
(* positions map to consecutive slots.  A slot's data is kept when flush   *)
(* clears `valid`; the model keeps the slots whose data is not the zero    *)
(* hash (`cdata`), as data starts zeroed.  Hashes are model values.        *)
(***************************************************************************)
EXTENDS Naturals, Sequences, FiniteSets, TLC

CONSTANTS Hashes, Empty, MaxSize

CacheTrees == 20
CacheSize == 2^CacheTrees            \* diskForestCache.size
CacheSlots == 2 * CacheSize          \* len(valid), len(data) / leafSize

VARIABLES
    disk,       \* the forest file: disk[p] for p in 0 .. file size - 1
    hashCount,  \* cacheForestData.hashCount
    valid,      \* the cache slots whose valid flag is set
    cdata,      \* cache data of the slots not holding the zero hash
    out,        \* the hash the last read returned
    open,       \* between NewForest/RestoreForest and close
    op          \* history: the last interface call and its arguments

vars == <<disk, hashCount, valid, cdata, out, open, op>>

\* The state as the code holds it; out and op are history that no step reads.
codeVars == <<disk, hashCount, valid, cdata, open>>

cget(cd, s) == IF s \in DOMAIN cd THEN cd[s] ELSE Empty

\* copy into cache.data: slots given hs[c] for c in S.
cput(cd, S, hs) ==
    LET D == {c \in S \cup DOMAIN cd : c \in S => hs[c] # Empty}
    IN [c \in D |-> IF c \in S THEN hs[c] ELSE cd[c]]
diskRead(d, p) == IF p \in DOMAIN d THEN d[p] ELSE Empty
FileSize(d) == CHOOSE n \in 0 .. MaxSize : DOMAIN d = 0 .. n - 1

(***************************************************************************)
(* The cached window of each row, as includes, rangeOverlap and flush all  *)
(* compute it: cacheSize = min(size, hashCount >> 1) hashes on row 0,      *)
(* halving per row; the window of a row is its rightmost hashesCachedOnRow *)
(* positions, and a position maps to slot pos - hashesNotCached.           *)
(***************************************************************************)
CacheRows(hc) ==
    LET RECURSIVE rowsFrom(_, _, _, _)
        rowsFrom(cached, row, rowOffset, notCached) ==
            IF cached = 0 THEN << >>
            ELSE LET total == hc \div 2^(row + 1)
                     nc    == notCached + (total - cached)
                 IN << [min |-> rowOffset + (total - cached),
                        max |-> rowOffset + total - 1,
                        notCached |-> nc, count |-> cached] >>
                    \o rowsFrom(cached \div 2, row + 1, rowOffset + total, nc)
    IN rowsFrom(IF CacheSize > hc \div 2 THEN hc \div 2 ELSE CacheSize, 0, 0, 0)

\* The windows for every hashCount the model reaches, computed once.
Rows == [hc \in 0 .. MaxSize |-> CacheRows(hc)]

\* includes(pos, hashCount): the first row whose window holds pos.
includes(pos, hc) ==
    LET rs == Rows[hc]
        hit == {i \in 1 .. Len(rs) : rs[i].min <= pos /\ pos <= rs[i].max}
        i == CHOOSE i \in hit : \A j \in hit : i <= j
    IN IF hit = {} THEN [in |-> FALSE, cpos |-> 0]
                   ELSE [in |-> TRUE, cpos |-> pos - rs[i].notCached]

\* rangeOverlap(start, r, hashCount): at the first row where the range
\* starts before the window and reaches it, or starts inside it.
rangeOverlap(start, r, hc) ==
    LET rs == Rows[hc]
        partial(i) == start < rs[i].min /\ start + r >= rs[i].min
        inside(i)  == rs[i].min <= start /\ start <= rs[i].max
        hit == {i \in 1 .. Len(rs) : partial(i) \/ inside(i)}
        i == CHOOSE i \in hit : \A j \in hit : i <= j
    IN IF hit = {} THEN [n |-> 0, cs |-> 0]
       ELSE IF partial(i) THEN [n |-> (start + r) - rs[i].min,
                                cs |-> (start + r) - rs[i].notCached]
       ELSE [n |-> r, cs |-> start - rs[i].notCached]

\* flush(hashCount): the cache ranges (valid is cleared by the caller's step).
flushRanges(hc) ==
    [i \in 1 .. Len(Rows[hc]) |->
        LET w == Rows[hc][i]
        IN [start |-> w.min, startCache |-> w.min - w.notCached, count |-> w.count]]

\* The WriteAt loop of resize and close: every range's cache data to disk.
writeRanges(d, rs, cd) ==
    [p \in DOMAIN d |->
        IF \E i \in DOMAIN rs : rs[i].start <= p /\ p < rs[i].start + rs[i].count
        THEN LET i == CHOOSE i \in DOMAIN rs : rs[i].start <= p /\ p < rs[i].start + rs[i].count
             IN cget(cd, rs[i].startCache + (p - rs[i].start))
        ELSE d[p]]

-----------------------------------------------------------------------------
(* The cache-and-disk state [disk, valid, cdata] threaded through the      *)
(* reads and writes one interface call makes.                               *)

set(s, c, h) == [s EXCEPT !.cdata = cput(@, {c}, (c :> h)), !.valid = @ \cup {c}]

\* Variant of read that takes the cached data without checking valid.
readNoValid(s, pos) ==
    LET inc == includes(pos, hashCount) IN
    IF inc.in THEN [st |-> s, h |-> cget(s.cdata, inc.cpos)]
    ELSE [st |-> s, h |-> diskRead(s.disk, pos)]

\* read: from the cache if the slot is valid; otherwise from disk, and a
\* miss on a cached position fills the slot.
read(s, pos) ==
    LET inc == includes(pos, hashCount) IN
    IF inc.in /\ inc.cpos \in s.valid THEN [st |-> s, h |-> cget(s.cdata, inc.cpos)]
    ELSE LET h == diskRead(s.disk, pos)
         IN [st |-> IF inc.in THEN set(s, inc.cpos, h) ELSE s, h |-> h]

\* write: to the cache slot if pos is cached, else to disk.
write(s, pos, h) ==
    LET inc == includes(pos, hashCount) IN
    IF inc.in THEN set(s, inc.cpos, h) ELSE [s EXCEPT !.disk[pos] = h]

\* rangeGet(start, r): r slots of cache data from start, and the offsets
\* (from start) of the slots whose valid flag is clear.
rangeGet(s, cs, n) ==
    [hs     |-> [k \in 0 .. n - 1 |-> cget(s.cdata, cs + k)],
     misses |-> {k \in 0 .. n - 1 : cs + k \notin s.valid}]

\* rangeSet(start, r, hashes): mark the r slots valid and copy the hashes
\* (hs[k] for slot start + k) into their data.
rangeSet(s, cs, n, hs) ==
    LET slots == {cs + k : k \in 0 .. n - 1}
    IN [s EXCEPT !.valid = @ \cup slots,
                 !.cdata = cput(@, slots, [c \in slots |-> hs[c - cs]])]

\* readRange: the disk part first, then rangeGet of the cache part with
\* every miss read from disk at diskOverlap + miss + start (the misses are
\* not put back in the cache).
readRange(s, start, r) ==
    LET ro == rangeOverlap(start, r, hashCount)
        dO == r - ro.n
        cg == rangeGet(s, ro.cs, ro.n)
    IN [j \in 0 .. r - 1 |->
          IF j < dO \/ (j - dO) \in cg.misses THEN diskRead(s.disk, start + j)
          ELSE cg.hs[j - dO]]

\* writeRange: rangeSet the cache part, WriteAt the disk part.
writeRange(s, start, r, hs) ==
    LET ro == rangeOverlap(start, r, hashCount)
        dO == r - ro.n
        s1 == rangeSet(s, ro.cs, ro.n, [k \in 0 .. ro.n - 1 |-> hs[dO + k]])
    IN [s1 EXCEPT !.disk = [p \in DOMAIN @ |-> IF start <= p /\ p < start + dO
                                               THEN hs[p - start] ELSE @[p]]]

St == [disk |-> disk, valid |-> valid, cdata |-> cdata]

Apply(s) == disk' = s.disk /\ valid' = s.valid /\ cdata' = s.cdata

Call(name, a, b, w, h) == op' = [name |-> name, a |-> a, b |-> b, w |-> w, h |-> h]

-----------------------------------------------------------------------------

\* NewForest(CacheForest): a new cache, hashCount 0, then resize(1); with
\* hashCount 0 flush has no ranges, and the new file is one zero hash.
Init ==
    /\ disk = [p \in 0 .. 0 |-> Empty]
    /\ hashCount = 1
    /\ valid = {}
    /\ cdata = << >>
    /\ out = Empty
    /\ open = TRUE
    /\ op = [name |-> "init", a |-> 0, b |-> 0, w |-> 0, h |-> Empty]

Read(pos) ==
    LET r == read(St, pos) IN
    /\ open
    /\ Apply(r.st) /\ out' = r.h
    /\ UNCHANGED <<hashCount, open>>
    /\ Call("read", pos, 0, 0, Empty)

Write(pos, h) ==
    /\ open
    /\ Apply(write(St, pos, h))
    /\ UNCHANGED <<hashCount, out, open>>
    /\ Call("write", pos, 0, 0, h)

\* swapHash: read a, read b, write a, write b.
SwapHash(a, b) ==
    LET ra == read(St, a)
        rb == read(ra.st, b)
    IN /\ open
       /\ Apply(write(write(rb.st, a, rb.h), b, ra.h))
       /\ UNCHANGED <<hashCount, out, open>>
       /\ Call("swapHash", a, b, 0, Empty)

\* swapHashRange: readRange a, readRange b, writeRange b, writeRange a.
SwapHashRange(a, b, w) ==
    LET ha == readRange(St, a, w)
        hb == readRange(St, b, w)
    IN /\ open
       /\ Apply(writeRange(writeRange(St, b, w, ha), a, w, hb))
       /\ UNCHANGED <<hashCount, out, open>>
       /\ Call("swapHashRange", a, b, w, Empty)

\* resize: flush with the old hashCount, Truncate (zero-extend), set
\* hashCount, then write every cache range to disk.
Resize(newSize) ==
    /\ open
    /\ disk' = writeRanges([p \in 0 .. newSize - 1 |-> diskRead(disk, p)],
                           flushRanges(hashCount), cdata)
    /\ valid' = {}
    /\ hashCount' = newSize
    /\ UNCHANGED <<cdata, out, open>>
    /\ Call("resize", newSize, 0, 0, Empty)

\* close: flush the entire cache to disk.
Close ==
    /\ open
    /\ disk' = writeRanges(disk, flushRanges(hashCount), cdata)
    /\ valid' = {}
    /\ open' = FALSE
    /\ UNCHANGED <<hashCount, cdata, out>>
    /\ Call("close", 0, 0, 0, Empty)

\* Variant of RestoreForest that never calls size(), so hashCount stays 0.
RestoreNoSize ==
    /\ ~open
    /\ valid' = {} /\ cdata' = << >>
    /\ hashCount' = 0
    /\ open' = TRUE
    /\ UNCHANGED <<disk, out>>
    /\ Call("restore", 0, 0, 0, Empty)

\* RestoreForest(cached): a new cacheForestData with a new cache; its
\* position-map reads run with hashCount 0, so nothing is cached, and the
\* final size() sets hashCount from the file.
Restore ==
    /\ ~open
    /\ valid' = {} /\ cdata' = << >>
    /\ hashCount' = FileSize(disk)
    /\ open' = TRUE
    /\ UNCHANGED <<disk, out>>
    /\ Call("restore", 0, 0, 0, Empty)

Pos == 0 .. hashCount - 1

Next ==
    \/ \E p \in Pos : Read(p)
    \/ \E p \in Pos, h \in Hashes : Write(p, h)
    \/ \E a, b \in Pos : SwapHash(a, b)
    \/ \E w \in 1 .. hashCount \div 2 :
          \E a \in 0 .. hashCount - 2 * w, b \in 0 .. hashCount - w :
              a + w <= b /\ SwapHashRange(a, b, w)
    \/ 2 * hashCount + 1 <= MaxSize /\ Resize(2 * hashCount + 1)
    \/ Close
    \/ Restore

Spec == Init /\ [][Next]_vars

-----------------------------------------------------------------------------
(* The refinement mapping: a position reads from its cache slot when the   *)
(* slot is valid, and from the file otherwise.                             *)

View == [p \in Pos |->
           LET inc == includes(p, hashCount)
           IN IF inc.in /\ inc.cpos \in valid THEN cget(cdata, inc.cpos)
              ELSE diskRead(disk, p)]

Ram == INSTANCE RamForestData WITH m <- View

TypeOK ==
    /\ DOMAIN disk = 0 .. hashCount - 1
    /\ \A p \in DOMAIN disk : disk[p] \in Hashes
    /\ valid \subseteq 0 .. CacheSlots - 1
    /\ DOMAIN cdata \subseteq 0 .. CacheSlots - 1
    /\ out \in Hashes
    /\ open \in BOOLEAN

\* read, write and swapHash, through includes, the valid flags and the fill
\* on a miss, behave exactly as the same calls on the RAM array, at every
\* size the forest grows through and after restores.
OpsRefineRam ==
    [][/\ op'.name = "read" => Ram!Read(op'.a)
       /\ op'.name = "write" => Ram!Write(op'.a, op'.h)
       /\ op'.name = "swapHash" => Ram!SwapHash(op'.a, op'.b)]_vars

\* The cached disk backend implements the RAM backend: every behaviour,
\* resize and close with their flush included, is one of RamForestData's.
RefinesRam == Ram!Spec
=============================================================================
