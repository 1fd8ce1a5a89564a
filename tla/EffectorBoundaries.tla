------------------------- MODULE EffectorBoundaries -------------------------
(***************************************************************************)
(* rexos_delta_robot::EffectorBoundaries: the bitmap of the voxels the     *)
(* effector can reach, and checkPath, which decides by it whether a        *)
(* straight motion is legal.  The bitmap is made in two searches: one over *)
(* the border of what is reachable, and one from the middle that fills     *)
(* what the border encloses without asking the kinematics again.           *)
(*                                                                         *)
(* What the kinematics and the motors allow is the set reach, any of       *)
(* Shapes; isValid is membership of it, and pointValidityCache only saves  *)
(* asking twice.  The bitmap is a set of indices of the flat array, as the *)
(* second search works on indices.  The order in which cstack gives back   *)
(* its voxels is left open: any fixed one.                                 *)
(***************************************************************************)
EXTENDS Integers

CONSTANTS
  width, depth, height,   \* of the bitmap, in voxels
  Shapes,                 \* what may be reachable
  voxelSize,              \* in millimeters
  boxMin,                 \* BOUNDARY_BOX_MIN_X, _Y and _Z
  Grain                   \* the parts of a millimeter that points are given in

ASSUME SizeAssumption   == width \in Nat \ {0} /\ depth \in Nat \ {0} /\ height \in Nat \ {0}
ASSUME GrainAssumption  == voxelSize \in Nat \ {0} /\ Grain \in Nat \ {0}

Voxels == (0..width - 1) \X (0..depth - 1) \X (0..height - 1)

ASSUME ShapesAssumption == Shapes \subseteq SUBSET Voxels

VARIABLES
  reach,     \* the voxels isValid says yes to
  pc,        \* where generateBoundariesBitmap is
  right,     \* how far right of the middle the scan is
  bitmap,    \* boundariesBitmap: the indices that are true
  cstack,    \* the voxels on the stack
  flooded    \* the bitmap as the first search left it

vars == <<reach, pc, right, bitmap, cstack, flooded>>
-----------------------------------------------------------------------------
Size == width * depth * height

Index(v) == v[1] + v[2] * width + v[3] * (width * depth)

Voxel(i) == <<i % width, (i % (width * depth)) \div width, i \div (width * depth)>>

\* fromRealCoordinate of the middle of the box.
Centre == <<width \div 2, depth \div 2, height \div 2>>

\* The 3x3x3 voxels around v, v included, whether or not the box has them.
Around(v) == (v[1] - 1..v[1] + 1) \X (v[2] - 1..v[2] + 1) \X (v[3] - 1..v[3] + 1)

OnEdge(v) ==
  v[1] \in {0, width - 1} \/ v[2] \in {0, depth - 1} \/ v[3] \in {0, height - 1}

\* The kinematics has an answer for v, of angles between those of the motors.
isValid(v) == v \in reach

hasInvalidNeighbours(v) ==
  /\ isValid(v)
  /\ OnEdge(v) \/ \E u \in Around(v) : ~isValid(u)

TypeOK ==
  /\ reach \in Shapes
  /\ pc \in {"start", "scan", "thrown", "flood", "fill"}
  /\ right \in 0..width
  /\ bitmap \subseteq 0..Size - 1
  /\ cstack \subseteq Voxels
  /\ flooded \subseteq bitmap

Init ==
  /\ reach \in Shapes
  /\ pc = "start" /\ right = Centre[1]
  /\ bitmap = {} /\ cstack = {} /\ flooded = {}
-----------------------------------------------------------------------------
\* The middle must be valid, or the constructor throws.
Start ==
  /\ pc = "start"
  /\ pc' = IF isValid(Centre) THEN "scan" ELSE "thrown"
  /\ UNCHANGED <<reach, right, bitmap, cstack, flooded>>

AtRow(x) == <<x, Centre[2], Centre[3]>>

\* Mutant: the scan starts the search where it found the first invalid voxel.
ScanTooFar ==
  /\ pc = "scan"
  /\ IF right < width - 1 /\ isValid(AtRow(right))
     THEN right' = right + 1 /\ UNCHANGED <<pc, bitmap, cstack>>
     ELSE /\ pc' = "flood"
          /\ bitmap' = {Index(AtRow(right))} /\ cstack' = {AtRow(right)}
          /\ UNCHANGED right
  /\ UNCHANGED <<reach, flooded>>

\* To the right until a voxel is invalid or the box ends, then one step back:
\* there the first search starts.
Scan ==
  /\ pc = "scan"
  /\ IF right < width /\ isValid(AtRow(right))
     THEN right' = right + 1 /\ UNCHANGED <<pc, bitmap, cstack>>
     ELSE /\ pc' = "flood"
          /\ bitmap' = {Index(AtRow(right - 1))} /\ cstack' = {AtRow(right - 1)}
          /\ UNCHANGED right
  /\ UNCHANGED <<reach, flooded>>

Top == CHOOSE v \in cstack : TRUE

\* Mutant: the first search does not ask whether a voxel is on the border.
NewOfAny(v) == {u \in Around(v) \cap Voxels : Index(u) \notin bitmap}

\* What the first search adds around a border voxel.
NewBorder(v) ==
  {u \in Around(v) \cap Voxels : Index(u) \notin bitmap /\ hasInvalidNeighbours(u)}

Flood ==
  /\ pc = "flood" /\ cstack # {}
  /\ bitmap' = bitmap \cup {Index(u) : u \in NewBorder(Top)}
  /\ cstack' = (cstack \ {Top}) \cup NewBorder(Top)
  /\ UNCHANGED <<reach, pc, right, flooded>>

\* The border is known: the second search starts in the middle.
StartFill ==
  /\ pc = "flood" /\ cstack = {}
  /\ pc' = "fill"
  /\ cstack' = {Centre}
  /\ flooded' = bitmap
  /\ UNCHANGED <<reach, right, bitmap>>

\* Mutant: the loop over the indices ends one too early.
FacesButOne(v) ==
  IF OnEdge(v) THEN {}
  ELSE LET i == Index(v) IN {i - 1, i + 1, i - width, i + width, i - width * depth}

\* The indices the second search looks at from v: none from a voxel at a low
\* edge of the box, the six around it else.
Faces(v) ==
  IF v[1] <= 0 \/ v[1] >= width \/ v[2] <= 0 \/ v[2] >= depth \/ v[3] <= 0 \/ v[3] >= height
  THEN {}
  ELSE LET i == Index(v) IN
       {i - 1, i + 1, i - width, i + width, i - width * depth, i + width * depth}

\* Mutant: the neighbour above the last layer is not kept out.
NewInsideUnbounded(v) == Faces(v) \ bitmap

NewInside(v) == {i \in Faces(v) : i < Size /\ i \notin bitmap}

Fill ==
  /\ pc = "fill" /\ cstack # {}
  /\ bitmap' = bitmap \cup NewInside(Top)
  /\ cstack' = (cstack \ {Top}) \cup {Voxel(i) : i \in NewInside(Top)}
  /\ UNCHANGED <<reach, pc, right, flooded>>

Next == Start \/ Scan \/ Flood \/ StartFill \/ Fill

Built == pc = "fill" /\ cstack = {}

Spec == Init /\ [][Next]_vars
-----------------------------------------------------------------------------
\* checkPath changes nothing.  Points are triples of numbers of parts of a
\* millimeter; a conversion to int cuts off towards zero.
Cut(a, b) == IF a >= 0 THEN a \div b ELSE -((-a) \div b)

Size1(a) == IF a < 0 THEN -a ELSE a

largestLength(from, to) ==
  LET d(k) == Size1(to[k] - from[k]) IN
  CHOOSE l \in {d(1), d(2), d(3)} : \A k \in 1..3 : d(k) <= l

\* Mutant: one step per whole millimeter along x, whatever the longest side is.
StepsAlongX(from, to) == 1..Size1(to[1] - from[1]) \div Grain

\* Along the longest side of the motion, one step per whole millimeter.
Steps(from, to) == 1..largestLength(from, to) \div Grain

\* The bitmap coordinate of the i-th point that is checked.
Sample(from, to, i) ==
  LET l    == largestLength(from, to)
      x(k) == Cut(from[k] * l + (to[k] - from[k]) * i * Grain, l * Grain)
  IN  [k \in 1..3 |-> Cut(x(k) - boxMin[k], voxelSize)]

\* The test of a coordinate lets one through that is just past the last voxel.
InRange(v) == v[1] \in 0..width /\ v[2] \in 0..depth /\ v[3] \in 0..height

\* The answers checkPath can give.  Past the end of the array there is some
\* other memory, read as true or false.
checkPath(from, to) ==
  LET samples == {Sample(from, to, i) : i \in Steps(from, to)} IN
  IF \E v \in samples : ~InRange(v) \/ Index(v) \in (0..Size - 1) \ bitmap THEN {FALSE}
  ELSE IF \E v \in samples : Index(v) >= Size THEN BOOLEAN
  ELSE {TRUE}
=============================================================================
