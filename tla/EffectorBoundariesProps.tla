---------------------- MODULE EffectorBoundariesProps ----------------------
(***************************************************************************)
(* What must be true of EffectorBoundaries.                                *)
(***************************************************************************)
EXTENDS EffectorBoundaries, FiniteSets

Border == {v \in reach : hasInvalidNeighbours(v)}

\* The border was found whole, and the middle lies inside of it.
Enclosed == Centre \in reach \ Border /\ {Index(v) : v \in Border} \subseteq flooded

\* The bitmap holds voxels the effector can reach only: the second search,
\* which asks for the reach of nothing, stays inside the border.
NothingOutOfReach ==
  pc = "fill" /\ Enclosed => bitmap \subseteq {Index(v) : v \in reach}

Touch(u, v) ==
  \E k \in 1..3 : /\ u[k] - v[k] \in {-1, 1}
                  /\ \A j \in 1..3 \ {k} : u[j] = v[j]

\* Nothing inside the border is forgotten: with a voxel that the second search marked,
\* and with the middle, it marks all that share a face with it, although it looks
\* nowhere from a voxel at a low edge of the box.
FillForgetsNothing ==
  Built /\ Enclosed =>
    \A v \in reach \ Border : v = Centre \/ Index(v) \in bitmap =>
      \A u \in reach \ Border : Touch(u, v) => Index(u) \in bitmap
-----------------------------------------------------------------------------

\* The voxels of S that steps across faces lead to from the voxels of T.
Connected(T, S) ==
  LET Grow[G \in SUBSET (T \cup S)] ==
        LET new == {u \in S \ G : \E v \in G : Touch(u, v)} IN
        IF new = {} THEN G ELSE Grow[G \cup new]
  IN  Grow[T]

\* Without dents or holes along any axis, and in one piece.
Convex ==
  /\ \A u, v \in reach : \A k \in 1..3 :
       (\A j \in 1..3 \ {k} : u[j] = v[j])
         => \A x \in u[k]..v[k] : [u EXCEPT ![k] = x] \in reach
  /\ Connected({Centre}, reach) = reach

\* What is reachable without dents and holes, around the middle, gets the
\* bitmap it should: its border and all that the middle is joined to inside.
\* Only the middle itself is left out when the border is all around it.
ConvexIsExact ==
  Built /\ Centre \notin Border /\ Convex =>
    LET inside == Connected({Centre}, reach \ Border)
        found  == IF inside = {Centre} THEN {} ELSE inside
    IN  bitmap = {Index(v) : v \in Border \cup found}
-----------------------------------------------------------------------------
CONSTANT Points     \* the ends of motions, in parts of a millimeter

ASSUME PointsAssumption == Points \subseteq Int \X Int \X Int /\ boxMin \in Int \X Int \X Int

\* The voxel that holds the j-th part of the motion along its longest side.
VoxelAt(from, to, j) ==
  LET l == largestLength(from, to) IN
  [k \in 1..3 |-> (from[k] * l + (to[k] - from[k]) * j - boxMin[k] * Grain * l)
                     \div (l * voxelSize * Grain)]

VoxelOf(p) == [k \in 1..3 |-> (p[k] - boxMin[k] * Grain) \div (voxelSize * Grain)]

\* The voxel of p cut off to whole millimeters, towards zero: what is below zero, as
\* the top of the box is, is rounded up, and a point in the box may be out of it then.
VoxelOfCut(p) == [k \in 1..3 |-> (Cut(p[k], Grain) - boxMin[k]) \div voxelSize]

InBox(v) == <<v[1], v[2], v[3]>> \in Voxels

\* The coordinates just past the box are tested with the bit of another voxel,
\* at the low edge of the next row or layer.
LowEdgeIsFree == \A i \in bitmap : Voxel(i)[1] # 0 /\ Voxel(i)[2] # 0

\* A motion that checkPath finds legal and that starts in the bitmap is nowhere more
\* than one voxel away from it, although one point per millimeter is checked, cut
\* off to whole millimeters, and the rest of the last millimeter is not
\* checked at all: if both ends are in the box when they are cut off, or, while nothing
\* at the low edges of the box is reachable, at any place from its lowest to its last
\* layer but one.  Elsewhere checkPath reads past the end of the bitmap.
LegalStaysNear ==
  Built => \A from, to \in Points :
    /\ from # to
    /\ InBox(VoxelOf(from)) /\ Index(VoxelOf(from)) \in bitmap
    /\ \/ \A p \in {from, to} : InBox(VoxelOfCut(p))
       \/ LowEdgeIsFree /\ \A p \in {from, to} : VoxelOfCut(p)[3] \in 0..height - 2
    /\ TRUE \in checkPath(from, to)
    => \A j \in 0..largestLength(from, to) :
         \E u \in Around(VoxelAt(from, to, j)) \cap Voxels : Index(u) \in bitmap
=============================================================================
