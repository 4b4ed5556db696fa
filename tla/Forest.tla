------------------------------- MODULE Forest -------------------------------
(***************************************************************************)
(* The forest engine of accumulator/forest.go (Forest.Modify, addv2,       *)
(* removev5, promote, lonely, reMap, Add, RestoreForest, sanity,           *)
(* PosMapSanity) over the RAM backend.                                     *)
(*                                                                         *)
(* Hashes are terms: a leaf is <<v>> for a value v of Vals, the parent     *)
(* hash of l and r is <<l, r>> (a collision-free hash), and EMPTY is <<>>. *)
(* A MiniHash is the hash itself (the spec assumes no mini collisions).    *)
(***************************************************************************)
EXTENDS Naturals, Sequences, FiniteSets, TLC, UtreexoPositions
LOCAL INSTANCE Functions
LOCAL INSTANCE SequencesExt

CONSTANTS
    Vals,      \* the leaf hashes the block source can produce
    MaxAdds,   \* bound on len(adds) of one Modify
    MaxDels    \* bound on len(dels) of one Modify

ASSUME MaxAdds \in Nat /\ MaxDels \in Nat

VARIABLES
    numLeaves,    \* Forest.numLeaves
    rows,         \* Forest.rows
    data,         \* the ForestData: position -> hash
    positionMap,  \* Forest.positionMap: MiniHash -> position
    live,         \* history: the leaves added and not yet deleted
    added         \* history: every leaf ever added (hashes are never reused)

vars == <<numLeaves, rows, data, positionMap, live, added>>

Empty == << >>
Leaf(v) == << v >>
parentHash(l, r) == << l, r >>
Mini(h) == h

\* A Go map read: a missing key yields the zero value.
lookup(pm, k) == IF k \in DOMAIN pm THEN pm[k] ELSE 0

size(rs) == 2 * 2^rs - 1

-----------------------------------------------------------------------------
(* removev5 and its helpers *)

\* promote: write the hash at p into parent(p).
promote(d, p, rs) == [d EXCEPT ![parent(p, rs)] = d[p]]

\* lonely: both aunt and sibling are in the forest and one of them is empty.
lonely(d, p, n, rs) ==
    LET aunt == sibling(parent(p, rs))
    IN /\ inForest(aunt, n, rs)
       /\ inForest(sibling(p), n, rs)
       /\ d[aunt] = Empty \/ d[sibling(p)] = Empty

\* The `for f.lonely(p)` loop: rise, promote the sibling if it is not empty,
\* otherwise promote self.
RECURSIVE riseWhileLonely(_, _, _, _)
riseWhileLonely(d, p, n, rs) ==
    IF lonely(d, p, n, rs)
    THEN LET q == parent(p, rs)
         IN riseWhileLonely(IF d[sibling(q)] # Empty THEN promote(d, sibling(q), rs)
                                                     ELSE promote(d, q, rs),
                            q, n, rs)
    ELSE d

\* One condensed deletion: promote the sibling, rise once unless lonely,
\* then rise while lonely.  The dirt position computed afterwards is only
\* printed by the code, never re-hashed.
removeOne(d, p, n, rs) ==
    LET d1 == promote(d, sibling(p), rs)
    IN riseWhileLonely(d1, IF lonely(d1, p, n, rs) THEN p ELSE parent(p, rs), n, rs)

\* removev5: drop the deleted leaves from the position map, run every
\* condensed deletion in ascending order, then decrement numLeaves.
removev5(d, pm, n, rs, dels) ==
    [data |-> FoldLeft(LAMBDA acc, p : removeOne(acc, p, n, rs), d,
                       SetToSortSeq(condenseDeletions(dels, rs), <)),
     pm   |-> Restrict(pm, DOMAIN pm \ {Mini(d[x]) : x \in dels}),
     n    |-> n - Cardinality(dels)]

-----------------------------------------------------------------------------
(* addv2 *)

\* Variant of addOne hashing the new node on the left of the root; used to
\* confirm that RootsMatchLeaves detects a wrong operand order.
addOneSwapped(st, leaf, rs) ==
    LET n     == st.n
        roots == getRootsForwards(n, rs)
        RECURSIVE climb(_, _, _, _)
        climb(d, pos, h, nv) ==
            IF (n \div 2^h) % 2 = 1
            THEN LET up == parent(pos, rs)
                     hv == parentHash(nv, d[roots[Len(roots) - h]])
                 IN climb([d EXCEPT ![up] = hv], up, h + 1, hv)
            ELSE d
    IN [data |-> climb([st.data EXCEPT ![n] = leaf], n, 0, leaf),
        pm   |-> (Mini(leaf) :> n) @@ st.pm,
        n    |-> n + 1]

\* Variant of addOne recording the leaf one position to the right.
addOneMapOff(st, leaf, rs) ==
    LET n     == st.n
        roots == getRootsForwards(n, rs)
        RECURSIVE climb(_, _, _, _)
        climb(d, pos, h, nv) ==
            IF (n \div 2^h) % 2 = 1
            THEN LET up == parent(pos, rs)
                     hv == parentHash(d[roots[Len(roots) - h]], nv)
                 IN climb([d EXCEPT ![up] = hv], up, h + 1, hv)
            ELSE d
    IN [data |-> climb([st.data EXCEPT ![n] = leaf], n, 0, leaf),
        pm   |-> (Mini(leaf) :> (n + 1)) @@ st.pm,
        n    |-> n + 1]

\* One iteration of addv2: map the leaf, write it at numLeaves, then for
\* each one bit of numLeaves from bit 0 hash the root of that row with the
\* running hash and write it one row up; finally numLeaves++.
addOne(st, leaf, rs) ==
    LET n     == st.n
        roots == getRootsForwards(n, rs)
        RECURSIVE climb(_, _, _, _)
        climb(d, pos, h, nv) ==
            IF (n \div 2^h) % 2 = 1
            THEN LET up == parent(pos, rs)
                     hv == parentHash(d[roots[Len(roots) - h]], nv)
                 IN climb([d EXCEPT ![up] = hv], up, h + 1, hv)
            ELSE d
    IN [data |-> climb([st.data EXCEPT ![n] = leaf], n, 0, leaf),
        pm   |-> (Mini(leaf) :> n) @@ st.pm,
        n    |-> n + 1]

addv2(st, adds, rs) == FoldLeft(LAMBDA acc, a : addOne(acc, a, rs), st, adds)

-----------------------------------------------------------------------------
(* reMap *)

\* Variant of reMap that leaves the top row (the old root) in place.
reMapNoTop(d, rs) ==
    LET dest     == rs + 1
        newStart(h) == 2^(dest + 1) - 2^(dest + 1 - h)
        moved(q) == {h \in 1 .. dest - 2 : newStart(h) <= q /\ q < newStart(h) + 2^(rs - h)}
        src(q)   == LET h == CHOOSE h \in moved(q) : TRUE
                    IN newStart(h) \div 2 + (q - newStart(h))
    IN [q \in 0 .. size(dest) - 1 |->
          IF 2^rs <= q /\ q < 2^dest THEN Empty
          ELSE IF moved(q) # {} /\ d[src(q)] # Empty THEN d[src(q)]
          ELSE IF q < size(rs) THEN d[q] ELSE Empty]

\* reMap(rows+1): resize to (2 << destRows) - 1, copy every non-empty node
\* of rows 1 .. destRows-1 from its old position to the same place in the
\* wider layout (row h starts at 2^(dest+1) - 2^(dest+1-h), and at half of
\* that before), then write EMPTY over 1<<rows .. (1<<destRows)-1.
reMap(d, rs) ==
    LET dest     == rs + 1
        newStart(h) == 2^(dest + 1) - 2^(dest + 1 - h)
        moved(q) == {h \in 1 .. dest - 1 : newStart(h) <= q /\ q < newStart(h) + 2^(rs - h)}
        src(q)   == LET h == CHOOSE h \in moved(q) : TRUE
                    IN newStart(h) \div 2 + (q - newStart(h))
    IN [q \in 0 .. size(dest) - 1 |->
          IF 2^rs <= q /\ q < 2^dest THEN Empty
          ELSE IF moved(q) # {} /\ d[src(q)] # Empty THEN d[src(q)]
          ELSE IF q < size(rs) THEN d[q] ELSE Empty]

\* Variant of the remap loop that stops one leaf too early.
growLate(d, rs, target) ==
    LET RECURSIVE loop(_, _)
        loop(dd, r) == IF target > 2^r + 1 THEN loop(reMap(dd, r), r + 1)
                       ELSE [data |-> dd, rows |-> r]
    IN loop(d, rs)

\* Modify's `for numLeaves+delta > 1<<rows { reMap(rows+1) }`.
grow(d, rs, target) ==
    LET RECURSIVE loop(_, _)
        loop(dd, r) == IF target > 2^r THEN loop(reMap(dd, r), r + 1)
                       ELSE [data |-> dd, rows |-> r]
    IN loop(d, rs)

-----------------------------------------------------------------------------
(* reHash(dirt): recompute the parents of the positions in dirt, row by    *)
(* row from the bottom.  Nothing in this repository calls it; Modify's     *)
(* dirt is only printed.  Its result is [status, data], status "err" for   *)
(* a returned error and "panic" for an index out of range.                 *)

\* merge(currentRow, dirty[r]): a sorted union (spec 4.3.2).
mergeSortedSlices(a, b) == SetToSortSeq(Range(a) \cup Range(b), <)

\* The validation loop: r only rises, so a position is put in the bucket
\* of the highest row seen so far; dirty2d has rows buckets, so r = rows
\* indexes past it.
dirtRow(dirt, j, rs) == Max({0} \cup {detectRow(dirt[k], rs) : k \in 1 .. j})

dirtStatus(dirt, n, rs) ==
    LET bad(j) == dirt[j] > n \/ dirtRow(dirt, j, rs) >= rs
        j == CHOOSE j \in 1 .. Len(dirt) : bad(j) /\ \A k \in 1 .. j - 1 : ~bad(k)
    IN IF \A k \in 1 .. Len(dirt) : ~bad(k) THEN "ok"
       ELSE IF dirt[j] > n \/ dirtRow(dirt, j, rs) > rs THEN "err" ELSE "panic"

dirty2d(dirt, r, rs) ==
    LET idx == SelectSeq([k \in 1 .. Len(dirt) |-> k],
                         LAMBDA k : dirtRow(dirt, k, rs) = r)
    IN [k \in DOMAIN idx |-> dirt[idx[k]]]

\* Variant of hashRow hashing the right child before the left one.
RECURSIVE hashRowSwapped(_, _, _, _, _, _)
hashRowSwapped(d, cur, i, roots, next, rs) ==
    IF i > Len(cur) THEN [status |-> "ok", data |-> d, next |-> next]
    ELSE IF i < Len(cur) /\ (cur[i] | 1) = cur[i + 1]
    THEN hashRowSwapped(d, cur, i + 1, roots, next, rs)
    ELSE IF roots = << >> THEN [status |-> "err", data |-> d, next |-> next]
    ELSE IF cur[i] = roots[Len(roots)] THEN hashRowSwapped(d, cur, i + 1, roots, next, rs)
    ELSE LET left == (cur[i] | 1) - 1
             par  == parent(left, rs)
             h    == IF d[left] = Empty \/ d[left + 1] = Empty THEN Empty
                     ELSE parentHash(d[left + 1], d[left])
         IN hashRowSwapped([d EXCEPT ![par] = h], cur, i + 1, roots, Append(next, par), rs)

\* The loop over currentRow: skip a position whose sibling comes next,
\* fail when no root is left, skip the lowest remaining root, otherwise
\* write parentHash(left, right) (EMPTY if a child is empty) at the parent
\* and append the parent to nextRow.
RECURSIVE hashRow(_, _, _, _, _, _)
hashRow(d, cur, i, roots, next, rs) ==
    IF i > Len(cur) THEN [status |-> "ok", data |-> d, next |-> next]
    ELSE IF i < Len(cur) /\ (cur[i] | 1) = cur[i + 1]
    THEN hashRow(d, cur, i + 1, roots, next, rs)
    ELSE IF roots = << >> THEN [status |-> "err", data |-> d, next |-> next]
    ELSE IF cur[i] = roots[Len(roots)] THEN hashRow(d, cur, i + 1, roots, next, rs)
    ELSE LET left == (cur[i] | 1) - 1
             par  == parent(left, rs)
             h    == IF d[left] = Empty \/ d[left + 1] = Empty THEN Empty
                     ELSE parentHash(d[left], d[left + 1])
         IN hashRow([d EXCEPT ![par] = h], cur, i + 1, roots, Append(next, par), rs)

\* reHash: nothing to do for a one-row forest or no dirt; otherwise, for
\* r = 0 .. rows-1, merge the row's dirt into currentRow, stop early when
\* all dirt is used and the row is empty, hash the row, and pop the lowest
\* root once its row is done (an empty rootRows is indexed: a panic).
reHash(d, dirt, n, rs) ==
    LET roots0 == getRootsForwards(n, rs)
        RECURSIVE rowLoop(_, _, _, _, _)
        rowLoop(dd, r, cur, roots, remaining) ==
            LET cur1 == mergeSortedSlices(cur, dirty2d(dirt, r, rs))
                rem1 == remaining - Len(dirty2d(dirt, r, rs))
                row  == hashRow(dd, cur1, 1, roots, << >>, rs)
            IN IF r >= rs \/ (rem1 = 0 /\ cur1 = << >>) THEN [status |-> "ok", data |-> dd]
               ELSE IF row.status # "ok" THEN [status |-> row.status, data |-> row.data]
               ELSE IF roots = << >> THEN [status |-> "panic", data |-> row.data]
               ELSE rowLoop(row.data, r + 1, row.next,
                            IF detectRow(roots[Len(roots)], rs) = r
                            THEN SubSeq(roots, 1, Len(roots) - 1) ELSE roots,
                            rem1)
    IN IF rs = 0 \/ dirt = << >> THEN [status |-> "ok", data |-> d]
       ELSE IF dirtStatus(dirt, n, rs) # "ok" THEN [status |-> dirtStatus(dirt, n, rs), data |-> d]
       ELSE rowLoop(d, 0, << >>, roots0, Len(dirt))

-----------------------------------------------------------------------------
(* Operations *)

Init ==
    /\ numLeaves = 0
    /\ rows = 0
    /\ data = [p \in 0 .. size(0) - 1 |-> Empty]
    /\ positionMap = [k \in {} |-> 0]
    /\ live = {}
    /\ added = {}

\* Forest.Modify(adds, dels): reject negative totals and empty leaves,
\* remap upward until the result fits, removev5 the sorted deletions, then
\* addv2 the additions.
Modify(adds, dels) ==
    LET delta == Len(adds) - Cardinality(dels)
        g     == grow(data, rows, numLeaves + delta)
        r     == removev5(g.data, positionMap, numLeaves, g.rows, dels)
        a     == addv2(r, adds, g.rows)
    IN /\ numLeaves + delta >= 0
       /\ \A i \in DOMAIN adds : adds[i] # Empty
       /\ data' = a.data
       /\ positionMap' = a.pm
       /\ numLeaves' = a.n
       /\ rows' = g.rows

\* Fresh leaves the block source can hand to Modify, as sequences.
NewLeafSeqs(k) ==
    {s \in [1 .. k -> {Leaf(v) : v \in Vals} \ added] : IsInjective(s)}

\* A block: delete some live leaves (by the positions the position map
\* gives for them, as a proof would) and add fresh ones.
ModifyBlock ==
    \E gone \in SUBSET (live \cap DOMAIN positionMap), k \in 0 .. MaxAdds :
       \E adds \in NewLeafSeqs(k) :
          LET dels == {positionMap[l] : l \in gone}
          IN /\ Cardinality(gone) <= MaxDels
             /\ Cardinality(dels) = Cardinality(gone)
             /\ k + Cardinality(gone) > 0
             /\ Modify(adds, dels)
             /\ live' = (live \ gone) \cup Range(adds)
             /\ added' = added \cup Range(adds)

\* Variant of the rebuild loop that stops one position early.
restoredMapShort(d, n) ==
    [k \in {Mini(d[i]) : i \in 0 .. n - 2} |->
        Max({i \in 0 .. n - 2 : Mini(d[i]) = k})]

\* RestoreForest's rebuild of the position map: positionMap[read(i).Mini()] = i
\* for i = 0 .. numLeaves-1, so a later position wins a repeated key.
restoredMap(d, n) ==
    [k \in {Mini(d[i]) : i \in 0 .. n - 1} |->
        Max({i \in 0 .. n - 1 : Mini(d[i]) = k})]

\* WriteMiscData: the misc file holds numLeaves, then rows, in the order
\* they are written; close() of the RAM backend does nothing.
WriteMiscData == <<numLeaves, rows>>

\* WriteForestToDisk in RAM mode: seek to 0 and dump the hash array.
WriteForestToDisk == [i \in 1 .. Cardinality(DOMAIN data) |-> data[i - 1]]

\* Variant that resizes the array to (1 << rows) - 1.
RestoreForestHalf(misc, dump) ==
    LET n  == misc[1]
        rs == IF Len(misc) >= 2 THEN misc[2] ELSE 0
        m  == [p \in 0 .. 2^rs - 2 |-> dump[p + 1]]
    IN CASE Len(misc) = 0         -> [status |-> "err"]
         [] Len(dump) < 2^rs - 1  -> [status |-> "err"]
         [] n > 2^rs - 1          -> [status |-> "panic"]
         [] OTHER -> [status |-> "ok", numLeaves |-> n, rows |-> rs, data |-> m,
                      positionMap |-> restoredMap(m, n)]

\* RestoreForest in RAM mode.  The read of numLeaves fails on an empty misc
\* file; the read of rows has its error ignored (line 968 re-tests the old
\* err), leaving rows = 0.  The array is resized to (2 << rows) - 1 and
\* filled from the dump, whose EOF is an error; the rebuild then reads
\* positions 0 .. numLeaves-1, a panic past the array's end.
RestoreForest(misc, dump) ==
    LET n  == misc[1]
        rs == IF Len(misc) >= 2 THEN misc[2] ELSE 0
        m  == [p \in 0 .. size(rs) - 1 |-> dump[p + 1]]
    IN CASE Len(misc) = 0        -> [status |-> "err"]
         [] Len(dump) < size(rs) -> [status |-> "err"]
         [] n > size(rs)         -> [status |-> "panic"]
         [] OTHER -> [status |-> "ok", numLeaves |-> n, rows |-> rs, data |-> m,
                      positionMap |-> restoredMap(m, n)]

\* A stop and restart: WriteMiscData and WriteForestToDisk, then
\* RestoreForest in RAM mode on the two files they leave.
Restart ==
    LET res == RestoreForest(WriteMiscData, WriteForestToDisk)
    IN /\ res.status = "ok"
       /\ numLeaves' = res.numLeaves
       /\ rows' = res.rows
       /\ data' = res.data
       /\ positionMap' = res.positionMap
       /\ UNCHANGED <<live, added>>

Next == ModifyBlock

NextWithRestart == ModifyBlock \/ Restart

Spec == Init /\ [][Next]_vars
SpecWithRestart == Init /\ [][NextWithRestart]_vars

-----------------------------------------------------------------------------
(* The forest's own queries and checks. *)

Roots == getRootsForwards(numLeaves, rows)

\* getRoots: the hashes at the root positions, tallest tree first.
getRoots == [i \in DOMAIN Roots |-> data[Roots[i]]]

\* FindLeaf: the leaf's MiniHash is a key of the position map.
FindLeaf(leaf) == Mini(leaf) \in DOMAIN positionMap

\* sanity() returns nil: the leaves fit in the rows, no root is empty, and
\* the position map has no more entries than there are leaves.
sanity ==
    /\ numLeaves <= 2^rows
    /\ \A i \in DOMAIN getRoots : getRoots[i] # Empty
    /\ Cardinality(DOMAIN positionMap) <= numLeaves

\* PosMapSanity() returns nil: positionMap[read(i).Mini()] = i for every
\* i < numLeaves.
PosMapSanity == \A i \in 0 .. numLeaves - 1 : lookup(positionMap, Mini(data[i])) = i

-----------------------------------------------------------------------------
(* Properties *)

TypeOK ==
    /\ numLeaves \in Nat
    /\ rows \in Nat
    /\ DOMAIN data = 0 .. size(rows) - 1
    /\ \A k \in DOMAIN positionMap : positionMap[k] \in 0 .. size(rows) - 1
    /\ live \subseteq added

\* The hash of the subtree at p of d recomputed from the leaf row up.
RECURSIVE recompute(_, _)
recompute(d, p) ==
    IF detectRow(p, rows) = 0 THEN d[p]
    ELSE parentHash(recompute(d, child(p, rows)), recompute(d, child(p, rows) + 1))

\* The leaves a hash commits to.
RECURSIVE leavesOf(_)
leavesOf(h) ==
    IF h = Empty THEN {}
    ELSE IF Len(h) = 1 THEN {h}
    ELSE leavesOf(h[1]) \cup leavesOf(h[2])

\* Spec 8.1: every stored root equals the hash recomputed from the leaves
\* below it, i.e. addv2's incremental hashing and reMap's relocation of the
\* internal rows agree with hashing the forest from scratch.
RootsMatchLeaves ==
    \A i \in DOMAIN getRoots : getRoots[i] = recompute(data, Roots[i])

\* The accumulator commits to exactly the live set: the leaves under the
\* root hashes named by getRootsForwards(numLeaves, rows) are the leaves
\* added and not yet deleted (Modify's delete-then-add).
CommitsToLiveSet ==
    UNION {leavesOf(getRoots[i]) : i \in DOMAIN getRoots} = live

\* Spec 8.2 / PosMapSanity: every position below numLeaves holds a leaf the
\* position map sends back to that position.
PositionMapConsistent == PosMapSanity

\* A hash no block source produces, written over leaf p by an edit.
Edited(p) == Leaf(<<"edited", p>>)

\* Spec 4.3.2: reHash, given the sorted positions of any leaves whose
\* hashes were overwritten, accepts them and leaves every root equal to the
\* hash recomputed from the new leaves: its row merge, the sibling and
\* root skips and the popping of finished roots reach every ancestor.
ReHashRepairsLeafEdits ==
    \A D \in SUBSET (0 .. numLeaves - 1) \ {{}} :
        LET d0  == [p \in DOMAIN data |-> IF p \in D THEN Edited(p) ELSE data[p]]
            res == reHash(d0, SetToSortSeq(D, <), numLeaves, rows)
        IN /\ res.status = "ok"
           /\ \A i \in 1 .. Len(Roots) : res.data[Roots[i]] = recompute(res.data, Roots[i])

\* Spec 8.6: WriteMiscData and WriteForestToDisk, followed by RestoreForest,
\* can always restore the forest: the misc file's two reads, the resize to
\* (2 << rows) - 1 and the chunked read of the dump all succeed, and the
\* position-map rebuild stays inside the array.
RestoreSucceeds ==
    RestoreForest(WriteMiscData, WriteForestToDisk).status = "ok"

\* Spec 8.6: a restart yields the same forest: numLeaves, rows, every hash
\* and the rebuilt position map equal what was written out.
RestartRoundTrip ==
    [][Restart => /\ numLeaves' = numLeaves /\ rows' = rows
                  /\ data' = data /\ positionMap' = positionMap]_vars
=============================================================================
