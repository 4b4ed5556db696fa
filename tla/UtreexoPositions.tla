-------------------------- MODULE UtreexoPositions --------------------------
(***************************************************************************)
(* Positional arithmetic of the utreexo forest (spec section 4.1).         *)
(*                                                                         *)
(* A forest of height `rows` lives in the implied perfect binary tree of   *)
(* 2^(rows+1) - 1 positions numbered from the bottom left: 0 .. 2^rows - 1 *)
(* are the leaf slots, the next 2^(rows-1) the row-1 nodes, and so on up   *)
(* to the single top position 2^(rows+1) - 2.                              *)
(*                                                                         *)
(* The Go helpers (parent, detectRow, inForest, getRootsForwards,          *)
(* condenseDeletions) are not part of the repository snapshot; they are    *)
(* written here from the spec.                                             *)
(***************************************************************************)
EXTENDS Naturals, Sequences, Bitwise

\* sibling(p) = p ^ 1
sibling(p) == p ^^ 1

\* parent(p, rows) = (p >> 1) | (1 << rows)
parent(p, rows) == shiftR(p, 1) | 2^rows

\* The left child of an internal position: (p << 1) masked to the tree.
child(p, rows) == (2 * p) % 2^(rows + 1)

\* Rising `rise` times from p (parentMany).
RECURSIVE parentMany(_, _, _)
parentMany(p, rise, rows) ==
    IF rise = 0 THEN p ELSE parentMany(parent(p, rows), rise - 1, rows)

\* The row of a position: the number of leading one bits counted from bit
\* `rows` downwards (a position off the top of the tree gets rows + 1).
detectRow(p, rows) ==
    LET RECURSIVE count(_, _)
        count(marker, h) ==
            IF marker > 0 /\ (p & marker) # 0 THEN count(marker \div 2, h + 1)
                                              ELSE h
    IN count(2^rows, 0)

(***************************************************************************)
(* getRootsForwards(numLeaves, rows): each one bit of numLeaves is a tree; *)
(* walking from the highest bit, the tree of height `row` starts at the    *)
(* next free leaf and its root is `row` rises above it.  The result lists  *)
(* the roots left to right, so the tallest tree comes first and the root   *)
(* of the row-0 tree (if any) is last: addv2 and reHash index it from the  *)
(* end.                                                                    *)
(***************************************************************************)
getRootsForwards(numLeaves, rows) ==
    LET RECURSIVE walk(_, _)
        walk(position, row) ==
            IF position >= numLeaves THEN << >>
            ELSE IF (numLeaves \div 2^row) % 2 = 1
                 THEN << parentMany(position, row, rows) >>
                        \o walk(position + 2^row, row - 1)
                 ELSE walk(position, row - 1)
    IN walk(0, rows)

\* inForest: p lies in the subtree of one of the current roots.
inForest(p, numLeaves, rows) ==
    LET roots == getRootsForwards(numLeaves, rows)
        h     == detectRow(p, rows)
    IN \E i \in 1 .. Len(roots) :
          LET rh == detectRow(roots[i], rows)
          IN h <= rh /\ parentMany(p, rh - h, rows) = roots[i]

(***************************************************************************)
(* condenseDeletions: collapse sibling pairs of deleted positions into     *)
(* their parent, row after row, until no pair is left.                     *)
(***************************************************************************)
RECURSIVE condenseDeletions(_, _)
condenseDeletions(dels, rows) ==
    LET pairs == {d \in dels : sibling(d) \in dels}
    IN IF pairs = {} THEN dels
       ELSE condenseDeletions((dels \ pairs) \cup {parent(d, rows) : d \in pairs},
                              rows)
=============================================================================
