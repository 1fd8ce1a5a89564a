---------------------- MODULE EffectorBoundariesProofs ----------------------
(***************************************************************************)
(* Proofs about EffectorBoundaries, for every box and every reach.         *)
(***************************************************************************)
EXTENDS EffectorBoundariesProps, FiniteSetTheorems, WellFoundedInduction, TLAPS

\* The number with a quotient and a remainder; the proofs use it unexpanded, since
\* products of variables are hard for the provers.
Number(q, b, r) == r + q * b

LEMMA Quotient ==
  ASSUME NEW b \in Nat \ {0}, NEW q \in Int, NEW p \in Int,
         NEW r \in 0..b - 1, NEW s \in 0..b - 1, Number(q, b, r) = Number(p, b, s)
  PROVE  q = p /\ r = s
<1>1. CASE q < p
  <2>1. p - q >= 1 /\ (p - q) * b = r - s
    BY <1>1 DEF Number
  <2>2. (p - q) * b >= b
    BY <2>1
  <2> QED BY <2>1, <2>2
<1>2. CASE q > p
  <2>1. q - p >= 1 /\ (q - p) * b = s - r
    BY <1>2 DEF Number
  <2>2. (q - p) * b >= b
    BY <2>1
  <2> QED BY <2>1, <2>2
<1>3. CASE q = p
  BY <1>3 DEF Number
<1> QED BY <1>1, <1>2, <1>3

LEMMA Division ==
  ASSUME NEW a \in Nat, NEW b \in Nat \ {0}
  PROVE  /\ a \div b \in Nat
         /\ a % b \in 0..b - 1
         /\ a = Number(a \div b, b, a % b)
BY SMT DEF Number

LEMMA DivisionOf ==
  ASSUME NEW b \in Nat \ {0}, NEW q \in Nat, NEW r \in 0..b - 1
  PROVE  Number(q, b, r) \div b = q /\ Number(q, b, r) % b = r
<1> DEFINE a == Number(q, b, r)
           p == a \div b
           s == a % b
<1>1. a \in Nat
  <2>1. q * b >= 0 * b
    OBVIOUS
  <2> QED BY <2>1 DEF Number
<1> HIDE DEF a
<1>2. p \in Nat /\ s \in 0..b - 1 /\ a = Number(p, b, s)
  BY <1>1, Division, Zenon
<1> HIDE DEF p, s
<1>3. q \in Int /\ p \in Int /\ Number(q, b, r) = Number(p, b, s)
  BY <1>2 DEF a
<1>4. q = p /\ r = s
  BY <1>2, <1>3, Quotient
<1> QED BY <1>4 DEF p, s, a

LEMMA QuotientBound ==
  ASSUME NEW a \in Nat, NEW b \in Nat \ {0}, NEW c \in Nat, a < c * b
  PROVE  a \div b \in 0..c - 1
<1> DEFINE q == a \div b
           r == a % b
<1>1. q \in Nat /\ r \in 0..b - 1 /\ a = Number(q, b, r)
  BY Division, Zenon
<1> HIDE DEF q, r
<1>2. CASE q >= c
  <2>1. q * b >= c * b
    BY <1>1, <1>2
  <2> QED BY <1>1, <2>1 DEF Number
<1> QED BY <1>1, <1>2 DEF q

\* The numbers of voxels in a row, in a layer and in the box.
LEMMA Sizes ==
  /\ width * depth \in Nat \ {0}
  /\ Size \in Nat \ {0} /\ Size = height * (width * depth)
<1>1. \A m, n \in Nat \ {0} : m * n \in Nat \ {0} /\ m * n = n * m
  BY SMT
<1>2. width * depth \in Nat \ {0}
  BY <1>1, SizeAssumption
<1> QED BY <1>1, <1>2, SizeAssumption DEF Size

LEMMA VoxelParts ==
  ASSUME NEW v \in Voxels
  PROVE  /\ v = <<v[1], v[2], v[3]>>
         /\ v[1] \in 0..width - 1 /\ v[2] \in 0..depth - 1 /\ v[3] \in 0..height - 1
BY DEF Voxels

\* The place in a layer stays within the layer, and the index within the array.
LEMMA InLayer ==
  ASSUME NEW v \in Voxels
  PROVE  v[1] + v[2] * width \in 0..width * depth - 1
<1>1. v[1] \in 0..width - 1 /\ v[2] \in 0..depth - 1 /\ width \in Nat \ {0} /\ depth \in Nat \ {0}
  BY VoxelParts, SizeAssumption
<1>2. v[2] * width >= 0 /\ v[2] * width \in Int
  BY <1>1
<1>3. v[2] * width <= (depth - 1) * width
  BY <1>1
<1>4. (depth - 1) * width = width * depth - width
  BY <1>1
<1> QED BY <1>1, <1>2, <1>3, <1>4

LEMMA IndexInArray ==
  ASSUME NEW v \in Voxels
  PROVE  Index(v) \in 0..Size - 1
<1> DEFINE b == width * depth
           r == v[1] + v[2] * width
<1>1. b \in Nat \ {0} /\ Size = height * b /\ r \in 0..b - 1
  BY Sizes, InLayer
<1>2. v[3] \in 0..height - 1 /\ height \in Nat \ {0}
  BY VoxelParts, SizeAssumption
<1>3. Index(v) = r + v[3] * b
  BY DEF Index
<1> HIDE DEF b, r
<1>4. v[3] * b >= 0 /\ v[3] * b <= (height - 1) * b
  BY <1>1, <1>2
<1>5. (height - 1) * b = height * b - b
  BY <1>1, <1>2
<1> QED BY <1>1, <1>2, <1>3, <1>4, <1>5

\* The conversion from an index to a voxel undoes the one from a voxel to an index ...
LEMMA VoxelOfIndex ==
  ASSUME NEW v \in Voxels
  PROVE  Voxel(Index(v)) = v
<1> DEFINE b == width * depth
           r == v[1] + v[2] * width
<1>1. b \in Nat \ {0} /\ r \in 0..b - 1
  BY Sizes, InLayer
<1>2. v[1] \in 0..width - 1 /\ v[2] \in Nat /\ v[3] \in Nat /\ width \in Nat \ {0}
  BY VoxelParts, SizeAssumption
<1> DEFINE i == Index(v)
           q == v[2] + v[3] * depth
<1>3. i = Number(v[3], b, r) /\ r = Number(v[2], width, v[1])
  BY DEF Index, Number
<1>4. q \in Nat /\ i = Number(q, width, v[1])
  <2>1. v[3] * depth >= 0 * depth
    BY <1>2, SizeAssumption
  <2>2. v[3] * (width * depth) = (v[3] * depth) * width
    BY <1>2, SizeAssumption
  <2>3. (v[2] + v[3] * depth) * width = v[2] * width + (v[3] * depth) * width
    BY <1>2, SizeAssumption
  <2> QED BY <1>2, <2>1, <2>2, <2>3, SizeAssumption DEF Index, Number
<1>5. Voxel(i) = <<i % width, (i % b) \div width, i \div b>>
  BY DEF Voxel
<1> HIDE DEF b, r, i, q
<1>6. i \div b = v[3] /\ i % b = r
  BY <1>1, <1>2, <1>3, DivisionOf
<1>7. r \div width = v[2]
  BY <1>2, <1>3, DivisionOf
<1>8. i % width = v[1]
  BY <1>2, <1>4, DivisionOf
<1>9. Voxel(i) = <<v[1], v[2], v[3]>>
  BY <1>5, <1>6, <1>7, <1>8
<1> QED BY <1>9, VoxelParts DEF i

COROLLARY IndexInjective ==
  ASSUME NEW u \in Voxels, NEW v \in Voxels, Index(u) = Index(v)
  PROVE  u = v
BY VoxelOfIndex

\* ... and gives a voxel of the box for every index of the array.
LEMMA VoxelInBox ==
  ASSUME NEW i \in 0..Size - 1
  PROVE  Voxel(i) \in Voxels
<1> DEFINE b == width * depth
<1>1. b \in Nat \ {0} /\ Size = height * b
  BY Sizes
<1>2. width \in Nat \ {0} /\ depth \in Nat \ {0} /\ height \in Nat \ {0} /\ b = depth * width
  BY SizeAssumption
<1>3. i % width \in 0..width - 1
  BY <1>2, Division
<1>4. (i % b) \div width \in 0..depth - 1
  <2>1. i % b \in Nat /\ i % b < b
    <3> HIDE DEF b
    <3> QED BY <1>1, Division
  <2>2. i % b < depth * width
    BY <1>2, <2>1
  <2> HIDE DEF b
  <2> QED BY <1>2, <2>1, <2>2, QuotientBound
<1>5. i \div b \in 0..height - 1
  <2> HIDE DEF b
  <2>1. i \in Nat /\ i < height * b
    BY <1>1, Sizes
  <2> QED BY <1>1, <1>2, <2>1, QuotientBound
<1>6. Voxel(i) = <<i % width, (i % b) \div width, i \div b>>
  BY DEF Voxel
<1> HIDE DEF b
<1> QED BY <1>3, <1>4, <1>5, <1>6 DEF Voxels
-----------------------------------------------------------------------------
LEMMA ReachInBox ==
  ASSUME TypeOK
  PROVE  reach \subseteq Voxels
BY ShapesAssumption DEF TypeOK

LEMMA CentreInBox ==
  /\ Centre \in Voxels /\ Centre[1] \in 0..width - 1
  /\ \A x \in 0..width - 1 : AtRow(x) \in Voxels
  /\ AtRow(Centre[1]) = Centre
<1>1. \A n \in Nat \ {0} : n \div 2 \in 0..n - 1
  BY SMT
<1>2. /\ width \div 2 \in 0..width - 1 /\ depth \div 2 \in 0..depth - 1
      /\ height \div 2 \in 0..height - 1
  BY <1>1, SizeAssumption
<1> QED BY <1>2 DEF Centre, Voxels, AtRow

\* A step across a face of v changes the index by one, a row or a layer.
LEMMA IndexSteps ==
  ASSUME NEW v \in Voxels
  PROVE  /\ Index(v) = v[1] + v[2] * width + v[3] * (width * depth)
         /\ v[2] * width \in Int /\ v[3] * (width * depth) \in Int /\ Index(v) \in Int
         /\ Index(<<v[1] - 1, v[2], v[3]>>) = Index(v) - 1
         /\ Index(<<v[1] + 1, v[2], v[3]>>) = Index(v) + 1
         /\ Index(<<v[1], v[2] - 1, v[3]>>) = Index(v) - width
         /\ Index(<<v[1], v[2] + 1, v[3]>>) = Index(v) + width
         /\ Index(<<v[1], v[2], v[3] - 1>>) = Index(v) - width * depth
         /\ Index(<<v[1], v[2], v[3] + 1>>) = Index(v) + width * depth
<1> DEFINE x == v[1]
           y == v[2]
           z == v[3]
           b == width * depth
<1>1. x \in Int /\ y \in Int /\ z \in Int /\ width \in Nat \ {0} /\ b \in Nat \ {0}
  BY VoxelParts, SizeAssumption, Sizes
<1>2. Index(v) = x + y * width + z * b
  BY DEF Index
<1>3. \A p, q, r : Index(<<p, q, r>>) = p + q * width + r * b
  BY DEF Index
<1> HIDE DEF x, y, z, b
<1>4. y * width \in Int /\ z * b \in Int
  BY <1>1
<1>5. (y - 1) * width = y * width - width /\ (y + 1) * width = y * width + width
  BY <1>1
<1>6. (z - 1) * b = z * b - b /\ (z + 1) * b = z * b + b
  BY <1>1
<1>7. Index(<<x - 1, y, z>>) = Index(v) - 1 /\ Index(<<x + 1, y, z>>) = Index(v) + 1
  BY <1>1, <1>2, <1>3, <1>4
<1>8. Index(<<x, y - 1, z>>) = Index(v) - width /\ Index(<<x, y + 1, z>>) = Index(v) + width
  <2>1. /\ Index(<<x, y - 1, z>>) = x + (y * width - width) + z * b
        /\ Index(<<x, y + 1, z>>) = x + (y * width + width) + z * b
    BY <1>3, <1>5
  <2> QED BY <1>1, <1>2, <1>4, <2>1
<1>9. Index(<<x, y, z - 1>>) = Index(v) - b /\ Index(<<x, y, z + 1>>) = Index(v) + b
  <2>1. /\ Index(<<x, y, z - 1>>) = x + y * width + (z * b - b)
        /\ Index(<<x, y, z + 1>>) = x + y * width + (z * b + b)
    BY <1>3, <1>6
  <2> QED BY <1>1, <1>2, <1>4, <2>1
<1>10. Index(v) \in Int
  BY <1>1, <1>2, <1>4
<1> QED BY <1>2, <1>4, <1>7, <1>8, <1>9, <1>10 DEF x, y, z, b

\* The six voxels that share a face with v.
Neighbours(v) ==
  {<<v[1] - 1, v[2], v[3]>>, <<v[1] + 1, v[2], v[3]>>, <<v[1], v[2] - 1, v[3]>>,
   <<v[1], v[2] + 1, v[3]>>, <<v[1], v[2], v[3] - 1>>, <<v[1], v[2], v[3] + 1>>}

LEMMA NeighboursTouch ==
  ASSUME NEW v \in Voxels
  PROVE  /\ \A u \in Neighbours(v) : u \in Around(v) /\ Touch(u, v)
         /\ \A u \in Voxels : Touch(u, v) => u \in Neighbours(v)
<1>1. v[1] \in Int /\ v[2] \in Int /\ v[3] \in Int
  BY VoxelParts, SizeAssumption
<1>2. ASSUME NEW u \in Neighbours(v)
      PROVE  u \in Around(v) /\ Touch(u, v)
  <2>1. u \in Around(v)
    BY <1>1, <1>2 DEF Neighbours, Around
  <2>2. u[1] \in Int /\ u[2] \in Int /\ u[3] \in Int
    BY <1>1, <1>2 DEF Neighbours
  <2>3. CASE u[1] - v[1] \in {-1, 1} /\ u[2] = v[2] /\ u[3] = v[3]
    BY <2>1, <2>3 DEF Touch
  <2>4. CASE u[2] - v[2] \in {-1, 1} /\ u[1] = v[1] /\ u[3] = v[3]
    BY <2>1, <2>4 DEF Touch
  <2>5. CASE u[3] - v[3] \in {-1, 1} /\ u[1] = v[1] /\ u[2] = v[2]
    BY <2>1, <2>5 DEF Touch
  <2> QED BY <1>1, <1>2, <2>1, <2>3, <2>4, <2>5 DEF Neighbours
<1>3. ASSUME NEW u \in Voxels, Touch(u, v)
      PROVE  u \in Neighbours(v)
  <2>1. u = <<u[1], u[2], u[3]>> /\ u[1] \in Int /\ u[2] \in Int /\ u[3] \in Int
    BY VoxelParts, SizeAssumption
  <2>2. PICK k \in 1..3 : u[k] - v[k] \in {-1, 1} /\ \A j \in 1..3 \ {k} : u[j] = v[j]
    BY <1>3 DEF Touch
  <2>3. CASE k = 1
    <3>1. u[2] = v[2] /\ u[3] = v[3] /\ (u[1] = v[1] - 1 \/ u[1] = v[1] + 1)
      BY <1>1, <2>1, <2>2, <2>3
    <3> QED BY <2>1, <3>1 DEF Neighbours
  <2>4. CASE k = 2
    <3>1. u[1] = v[1] /\ u[3] = v[3] /\ (u[2] = v[2] - 1 \/ u[2] = v[2] + 1)
      BY <1>1, <2>1, <2>2, <2>4
    <3> QED BY <2>1, <3>1 DEF Neighbours
  <2>5. CASE k = 3
    <3>1. u[1] = v[1] /\ u[2] = v[2] /\ (u[3] = v[3] - 1 \/ u[3] = v[3] + 1)
      BY <1>1, <2>1, <2>2, <2>5
    <3> QED BY <2>1, <3>1 DEF Neighbours
  <2> QED BY <2>3, <2>4, <2>5
<1> QED BY <1>2, <1>3

\* The six indices around a voxel that is not at a low edge are those of the
\* six voxels that share a face with it.
LEMMA FacesAreNeighbours ==
  ASSUME NEW v \in Voxels, v[1] > 0, v[2] > 0, v[3] > 0
  PROVE  Faces(v) = {Index(u) : u \in Neighbours(v)}
<1>1. v[1] \in 0..width - 1 /\ v[2] \in 0..depth - 1 /\ v[3] \in 0..height - 1
  BY VoxelParts
<1>2. Faces(v) = {Index(v) - 1, Index(v) + 1, Index(v) - width, Index(v) + width,
                  Index(v) - width * depth, Index(v) + width * depth}
  BY <1>1, SizeAssumption DEF Faces
<1>3. {Index(u) : u \in Neighbours(v)} =
        {Index(<<v[1] - 1, v[2], v[3]>>), Index(<<v[1] + 1, v[2], v[3]>>),
         Index(<<v[1], v[2] - 1, v[3]>>), Index(<<v[1], v[2] + 1, v[3]>>),
         Index(<<v[1], v[2], v[3] - 1>>), Index(<<v[1], v[2], v[3] + 1>>)}
  BY Zenon DEF Neighbours
<1> QED BY <1>2, <1>3, IndexSteps

LEMMA FacesAreVoxels ==
  ASSUME NEW v \in Voxels, NEW i \in Faces(v)
  PROVE  /\ v[1] > 0 /\ v[2] > 0 /\ v[3] > 0
         /\ i \in Nat
         /\ \E u \in Around(v) : Touch(u, v) /\ i = Index(u)
<1> DEFINE b == width * depth
<1>1. /\ v[1] \in 0..width - 1 /\ v[2] \in 0..depth - 1 /\ v[3] \in 0..height - 1
      /\ width \in Nat \ {0} /\ b \in Nat \ {0}
  BY VoxelParts, SizeAssumption, Sizes
<1>2. v[1] > 0 /\ v[2] > 0 /\ v[3] > 0
  BY <1>1, SizeAssumption DEF Faces
<1>3. i \in {Index(v) - 1, Index(v) + 1, Index(v) - width, Index(v) + width,
              Index(v) - b, Index(v) + b}
  BY DEF Faces
<1>4. Index(v) = v[1] + v[2] * width + v[3] * b /\ v[2] * width \in Int /\ v[3] * b \in Int
  BY IndexSteps
<1>5. \E u \in Neighbours(v) : i = Index(u)
  BY <1>2, FacesAreNeighbours
<1> HIDE DEF b
<1>6. v[2] * width >= width /\ v[3] * b >= b
  <2>1. (v[2] - 1) * width >= 0 /\ (v[3] - 1) * b >= 0
    BY <1>1, <1>2
  <2>2. (v[2] - 1) * width = v[2] * width - width /\ (v[3] - 1) * b = v[3] * b - b
    BY <1>1
  <2> QED BY <1>1, <1>4, <2>1, <2>2
<1>7. i \in Nat
  BY <1>1, <1>2, <1>3, <1>4, <1>6
<1> QED BY <1>2, <1>5, <1>7, NeighboursTouch
-----------------------------------------------------------------------------
\* While it scans, the voxel it came from is reachable.
ScanInv ==
  /\ pc = "start" => right = Centre[1]
  /\ pc \in {"start", "scan", "flood"} => flooded = {}
  /\ pc \in {"scan", "flood", "fill"} => Centre \in reach
  /\ pc = "scan" => /\ right \in Centre[1]..width
                    /\ right > Centre[1] => AtRow(right - 1) \in reach

LEMMA ScanStarts ==
  ASSUME TypeOK, ScanInv, pc = "scan", ~(right < width /\ AtRow(right) \in reach)
  PROVE  /\ right - 1 \in 0..width - 1 /\ AtRow(right - 1) \in reach
         /\ AtRow(right - 1) \in Border
<1> DEFINE v == AtRow(right - 1)
<1>1. Centre[1] \in 0..width - 1 /\ AtRow(Centre[1]) = Centre /\ width \in Nat \ {0}
  BY CentreInBox, SizeAssumption
<1>2. right > Centre[1] /\ right \in Centre[1]..width /\ v \in reach
  BY <1>1 DEF ScanInv
<1>3. right - 1 \in 0..width - 1
  BY <1>1, <1>2
<1>4. hasInvalidNeighbours(v)
  <2>1. CASE right = width
    BY <2>1, <1>2 DEF hasInvalidNeighbours, isValid, OnEdge, AtRow
  <2>2. CASE right # width
    <3>1. AtRow(right) \notin reach
      BY <2>2, <1>1, <1>2
    <3>2. AtRow(right) \in Around(v)
      <4>1. Centre[2] \in Int /\ Centre[3] \in Int /\ right \in Int
        BY CentreInBox, VoxelParts, <1>1, <1>2
      <4> QED BY <4>1 DEF Around, AtRow
    <3> QED BY <3>1, <3>2, <1>2 DEF hasInvalidNeighbours, isValid
  <2> QED BY <2>1, <2>2
<1> QED BY <1>2, <1>3, <1>4 DEF Border

LEMMA TopIsOnStack == cstack # {} => Top \in cstack
BY DEF Top

\* What the second search adds are indices of the array.
LEMMA NewInsideInArray ==
  ASSUME TypeOK, NEW v \in Voxels
  PROVE  /\ NewInside(v) \subseteq 0..Size - 1
         /\ {Voxel(i) : i \in NewInside(v)} \subseteq Voxels
<1>1. ASSUME NEW i \in NewInside(v)
      PROVE  i \in 0..Size - 1
  <2>1. i \in Faces(v) /\ i < Size
    BY DEF NewInside
  <2>2. i \in Nat
    BY <2>1, FacesAreVoxels
  <2> QED BY <2>1, <2>2, Sizes
<1> QED BY <1>1, VoxelInBox

TypeInv == TypeOK /\ ScanInv

LEMMA TypeInvStep ==
  ASSUME TypeInv, [Next]_vars
  PROVE  TypeInv'
<1> USE DEF TypeInv
<1>1. ASSUME Start
      PROVE  TypeInv'
  <2>1. right = Centre[1] /\ Centre[1] \in 0..width - 1 /\ width \in Nat
    BY <1>1, CentreInBox, SizeAssumption DEF Start, isValid, ScanInv
  <2> QED BY <1>1, <2>1 DEF Start, isValid, TypeOK, ScanInv
<1>2. ASSUME Scan
      PROVE  TypeInv'
  <2>0. Centre[1] \in 0..width - 1 /\ width \in Nat \ {0} /\ Centre \in reach
    BY <1>2, CentreInBox, SizeAssumption DEF Scan, isValid, ScanInv
  <2>1. CASE right < width /\ AtRow(right) \in reach
    <3>1. right' = right + 1 /\ UNCHANGED <<reach, pc, bitmap, cstack, flooded>>
      BY <1>2, <2>1 DEF Scan, isValid
    <3>2. right \in Centre[1]..width
      BY <1>2 DEF Scan, isValid, ScanInv
    <3>3. AtRow(right' - 1) \in reach
      BY <2>1, <3>1, <3>2, <2>0
    <3>4. pc = "scan" /\ right' \in Centre[1]..width /\ right' \in 0..width
      BY <1>2, <2>0, <2>1, <3>1, <3>2 DEF Scan, isValid
    <3>5. TypeOK'
      BY <3>1, <3>4 DEF TypeOK
    <3>6. ScanInv'
      <4>1. AtRow(right' - 1) = AtRow(right - 1)'
        BY DEF AtRow, Centre
      <4> QED BY <2>0, <3>1, <3>3, <3>4, <4>1 DEF ScanInv, Centre
    <3> QED BY <3>5, <3>6
  <2>2. CASE ~(right < width /\ AtRow(right) \in reach)
    <3>1. pc' = "flood" /\ bitmap' = {Index(AtRow(right - 1))} /\ cstack' = {AtRow(right - 1)}
          /\ UNCHANGED <<reach, right, flooded>>
      BY <1>2, <2>2 DEF Scan, isValid
    <3>2. AtRow(right - 1) \in Voxels
      BY <1>2, <2>2, ScanStarts, CentreInBox DEF Scan, isValid
    <3>3. Index(AtRow(right - 1)) \in 0..Size - 1
      BY <3>2, IndexInArray
    <3>4. flooded = {}
      BY <1>2 DEF Scan, isValid, ScanInv
    <3> QED BY <2>0, <3>1, <3>2, <3>3, <3>4 DEF TypeOK, ScanInv, Centre
  <2> QED BY <2>1, <2>2
<1>3. ASSUME Flood
      PROVE  TypeInv'
  <2>1. Top \in Voxels /\ NewBorder(Top) \subseteq Voxels
    BY <1>3, TopIsOnStack DEF Flood, TypeOK, NewBorder
  <2>2. \A u \in NewBorder(Top) : Index(u) \in 0..Size - 1
    BY <2>1, IndexInArray
  <2> QED BY <1>3, <2>1, <2>2 DEF Flood, TypeOK, ScanInv, Centre
<1>4. ASSUME StartFill
      PROVE  TypeInv'
  BY <1>4, CentreInBox DEF StartFill, TypeOK, ScanInv, Centre
<1>5. ASSUME Fill
      PROVE  TypeInv'
  <2>1. Top \in Voxels
    BY <1>5, TopIsOnStack DEF Fill, TypeOK
  <2>2. NewInside(Top) \subseteq 0..Size - 1 /\ {Voxel(i) : i \in NewInside(Top)} \subseteq Voxels
    BY <2>1, NewInsideInArray
  <2> QED BY <1>5, <2>1, <2>2 DEF Fill, TypeOK, ScanInv, Centre
<1>6. CASE UNCHANGED vars
  BY <1>6 DEF vars, TypeOK, ScanInv, Centre, AtRow
<1> QED BY <1>1, <1>2, <1>3, <1>4, <1>5, <1>6 DEF Next

\* Types, and that no index outside of the array is ever set.
THEOREM TypeCorrect == Spec => []TypeOK
<1>1. Init => TypeInv
  BY CentreInBox, SizeAssumption DEF Init, TypeInv, TypeOK, ScanInv
<1>2. TypeInv /\ [Next]_vars => TypeInv'
  BY TypeInvStep
<1>3. TypeInv => TypeOK
  BY DEF TypeInv
<1> QED BY <1>1, <1>2, <1>3, PTL DEF Spec

\* Types, and where the scan has come: what the other theorems start from.
THEOREM TypeInvCorrect == Spec => []TypeInv
<1>1. Init => TypeInv
  BY CentreInBox, SizeAssumption DEF Init, TypeInv, TypeOK, ScanInv
<1>2. TypeInv /\ [Next]_vars => TypeInv'
  BY TypeInvStep
<1> QED BY <1>1, <1>2, PTL DEF Spec
-----------------------------------------------------------------------------
ReachIndices == {Index(v) : v \in reach}

\* What the first search leaves is reachable, and from there on the second search has
\* only voxels inside the border on its stack.
FillInv ==
  /\ pc = "flood" => bitmap \subseteq ReachIndices
  /\ pc = "fill" /\ Enclosed => bitmap \subseteq ReachIndices /\ cstack \subseteq reach \ Border

\* From a voxel inside the border the second search reaches reachable voxels, and
\* none of the border, which is in the bitmap already.
LEMMA FillStaysInside ==
  ASSUME TypeOK, Enclosed, NEW v \in reach \ Border, NEW i \in NewInside(v)
  PROVE  i \in ReachIndices /\ Voxel(i) \in reach \ Border
<1>1. v \in Voxels /\ reach \subseteq Voxels
  BY ReachInBox
<1>2. i \in Faces(v) /\ i \notin bitmap
  BY DEF NewInside
<1>3. PICK u \in Around(v) : Touch(u, v) /\ i = Index(u)
  BY <1>1, <1>2, FacesAreVoxels
<1>4. u \in reach
  BY DEF Border, hasInvalidNeighbours, isValid
<1>5. Voxel(i) = u
  BY <1>1, <1>3, <1>4, VoxelOfIndex
<1>6. u \notin Border
  BY <1>2, <1>3 DEF Enclosed, TypeOK
<1> QED BY <1>3, <1>4, <1>5, <1>6 DEF ReachIndices

LEMMA FillInvStep ==
  ASSUME TypeInv, FillInv, [Next]_vars
  PROVE  FillInv'
<1> USE DEF FillInv
<1>1. CASE Start
  BY <1>1 DEF Start, isValid
<1>2. CASE Scan
  <2>1. CASE right < width /\ AtRow(right) \in reach
    BY <1>2, <2>1 DEF Scan, isValid
  <2>2. CASE ~(right < width /\ AtRow(right) \in reach)
    <3>1. AtRow(right - 1) \in reach
      BY <1>2, <2>2, ScanStarts DEF Scan, isValid, TypeInv
    <3>2. pc' = "flood" /\ bitmap' = {Index(AtRow(right - 1))} /\ reach' = reach
      BY <1>2, <2>2 DEF Scan, isValid
    <3> QED BY <3>1, <3>2 DEF ReachIndices, Index
  <2> QED BY <2>1, <2>2
<1>3. CASE Flood
  <2>1. NewBorder(Top) \subseteq reach
    BY DEF NewBorder, hasInvalidNeighbours, isValid
  <2>2. bitmap' = bitmap \cup {Index(u) : u \in NewBorder(Top)} /\ reach' = reach /\ pc' = "flood"
    BY <1>3 DEF Flood
  <2>3. bitmap \subseteq ReachIndices
    BY <1>3 DEF Flood
  <2>4. ReachIndices' = ReachIndices
    BY <2>2 DEF ReachIndices, Index
  <2> HIDE DEF FillInv
  <2>5. bitmap' \subseteq ReachIndices
    BY <2>1, <2>2, <2>3 DEF ReachIndices
  <2> QED BY <2>2, <2>4, <2>5 DEF FillInv
<1>4. CASE StartFill
  <2>1. bitmap \subseteq ReachIndices /\ cstack' = {Centre} /\ bitmap' = bitmap /\ reach' = reach
        /\ pc' = "fill"
    BY <1>4 DEF StartFill
  <2>2. ReachIndices' = ReachIndices /\ Border' = Border
    BY <2>1 DEF ReachIndices, Index, Border, hasInvalidNeighbours, isValid, OnEdge, Around
  <2>3. Enclosed' => Centre \in reach \ Border
    BY <2>1, <2>2 DEF Enclosed, Centre
  <2> QED BY <2>1, <2>2, <2>3
<1>5. CASE Fill
  <2>1. /\ bitmap' = bitmap \cup NewInside(Top)
        /\ cstack' = (cstack \ {Top}) \cup {Voxel(i) : i \in NewInside(Top)}
        /\ UNCHANGED <<reach, pc, flooded>> /\ pc = "fill" /\ Top \in cstack
    BY <1>5, TopIsOnStack DEF Fill
  <2>2. ReachIndices' = ReachIndices /\ Border' = Border
    BY <2>1 DEF ReachIndices, Index, Border, hasInvalidNeighbours, isValid, OnEdge, Around
  <2>3. Enclosed' = Enclosed
    BY <2>1, <2>2 DEF Enclosed, Centre, Index
  <2>4. ASSUME Enclosed
        PROVE  bitmap' \subseteq ReachIndices /\ cstack' \subseteq reach \ Border
    <3>1. bitmap \subseteq ReachIndices /\ cstack \subseteq reach \ Border
      BY <2>1, <2>4
    <3>2. \A i \in NewInside(Top) : i \in ReachIndices /\ Voxel(i) \in reach \ Border
      BY <2>1, <2>4, <3>1, FillStaysInside DEF TypeInv
    <3> HIDE DEF FillInv
    <3> QED BY <2>1, <3>1, <3>2
  <2> HIDE DEF FillInv
  <2> QED BY <2>1, <2>2, <2>3, <2>4 DEF FillInv
<1>6. CASE UNCHANGED vars
  BY <1>6 DEF vars, ReachIndices, Index, Border, Enclosed, hasInvalidNeighbours, isValid, OnEdge, Around, Centre
<1> QED BY <1>1, <1>2, <1>3, <1>4, <1>5, <1>6 DEF Next

\* The bitmap holds reachable voxels only, once the first search found all of a border that
\* has the middle inside of it.
THEOREM NothingOutOfReachCorrect == Spec => []NothingOutOfReach
<1>1. Init => TypeInv /\ FillInv
  BY CentreInBox, SizeAssumption DEF Init, TypeInv, TypeOK, ScanInv, FillInv
<1>2. (TypeInv /\ FillInv) /\ [Next]_vars => (TypeInv /\ FillInv)'
  BY TypeInvStep, FillInvStep
<1>3. FillInv => NothingOutOfReach
  BY DEF FillInv, NothingOutOfReach, ReachIndices
<1> QED BY <1>1, <1>2, <1>3, PTL DEF Spec
-----------------------------------------------------------------------------
BorderIndices == {Index(v) : v \in Border}
Inner == reach \ Border

\* T is inside the border, holds the middle, and no step across a face leaves it for
\* another voxel inside.
HoldsMiddle(T) ==
  /\ T \subseteq Inner /\ Centre \in T
  /\ \A v \in T : \A u \in Inner : Touch(u, v) => u \in T

\* What steps across faces join to the middle inside of the border: the least such set.
Joined == {v \in Inner : \A T \in SUBSET Inner : HoldsMiddle(T) => v \in T}

\* The first search marks border voxels only, and the second leaves its marks alone.
MarksInv ==
  /\ pc = "flood" => bitmap \subseteq BorderIndices
  /\ pc = "fill" => flooded \subseteq BorderIndices /\ flooded \subseteq bitmap

\* From a marked voxel inside, or the middle, the second search has gone on to all
\* that share a face with it, or still will; and it never goes where a set that
\* holds the middle ends.
ExactInv ==
  pc = "fill" /\ Enclosed =>
    /\ \A v \in Inner : v = Centre \/ Index(v) \in bitmap =>
         v \in cstack \/ \A u \in Inner : Touch(u, v) => Index(u) \in bitmap
    /\ \A T \in SUBSET Inner : HoldsMiddle(T) =>
         cstack \subseteq T /\ bitmap \subseteq flooded \cup {Index(v) : v \in T}

LEMMA SameBorder ==
  ASSUME reach' = reach
  PROVE  Border' = Border /\ Inner' = Inner
BY DEF Border, Inner, hasInvalidNeighbours, isValid, OnEdge, Around

LEMMA MarksStep ==
  ASSUME TypeInv, MarksInv, [Next]_vars
  PROVE  MarksInv'
<1> USE DEF MarksInv
<1>1. CASE Start
  BY <1>1 DEF Start, isValid
<1>2. CASE Scan
  <2>1. CASE right < width /\ AtRow(right) \in reach
    BY <1>2, <2>1 DEF Scan, isValid
  <2>2. CASE ~(right < width /\ AtRow(right) \in reach)
    <3>1. AtRow(right - 1) \in Border
      BY <1>2, <2>2, ScanStarts DEF Scan, isValid, TypeInv
    <3>2. pc' = "flood" /\ bitmap' = {Index(AtRow(right - 1))} /\ reach' = reach
      BY <1>2, <2>2 DEF Scan, isValid
    <3>3. Border' = Border
      BY <3>2, SameBorder
    <3> QED BY <3>1, <3>2, <3>3 DEF BorderIndices, Index
  <2> QED BY <2>1, <2>2
<1>3. CASE Flood
  <2>1. /\ bitmap' = bitmap \cup {Index(u) : u \in NewBorder(Top)}
        /\ reach' = reach /\ pc' = "flood" /\ bitmap \subseteq BorderIndices
    BY <1>3 DEF Flood
  <2>2. NewBorder(Top) \subseteq Border
    BY DEF NewBorder, Border, hasInvalidNeighbours, isValid
  <2>3. BorderIndices' = BorderIndices
    BY <2>1, SameBorder DEF BorderIndices, Index
  <2> HIDE DEF MarksInv
  <2>4. bitmap' \subseteq BorderIndices
    BY <2>1, <2>2 DEF BorderIndices
  <2> QED BY <2>1, <2>3, <2>4 DEF MarksInv
<1>4. CASE StartFill
  <2>1. flooded' = bitmap /\ bitmap' = bitmap /\ reach' = reach /\ pc' = "fill" /\ pc = "flood"
    BY <1>4 DEF StartFill
  <2>2. BorderIndices' = BorderIndices
    BY <2>1, SameBorder DEF BorderIndices, Index
  <2> QED BY <2>1, <2>2
<1>5. CASE Fill
  <2>1. flooded' = flooded /\ bitmap \subseteq bitmap' /\ reach' = reach /\ pc' = "fill" /\ pc = "fill"
    BY <1>5 DEF Fill
  <2>2. BorderIndices' = BorderIndices
    BY <2>1, SameBorder DEF BorderIndices, Index
  <2> QED BY <2>1, <2>2
<1>6. CASE UNCHANGED vars
  <2>1. UNCHANGED <<pc, bitmap, flooded, reach>>
    BY <1>6 DEF vars
  <2>2. BorderIndices' = BorderIndices
    BY <2>1, SameBorder DEF BorderIndices, Index
  <2> QED BY <2>1, <2>2
<1> QED BY <1>1, <1>2, <1>3, <1>4, <1>5, <1>6 DEF Next

\* One step of the second search.
LEMMA FillExact ==
  ASSUME TypeInv, FillInv, MarksInv, ExactInv, Fill, Enclosed
  PROVE  /\ \A v \in Inner : v = Centre \/ Index(v) \in bitmap' =>
              v \in cstack' \/ \A u \in Inner : Touch(u, v) => Index(u) \in bitmap'
         /\ \A T \in SUBSET Inner : HoldsMiddle(T) =>
              cstack' \subseteq T /\ bitmap' \subseteq flooded \cup {Index(v) : v \in T}
<1>1. /\ bitmap' = bitmap \cup NewInside(Top)
      /\ cstack' = (cstack \ {Top}) \cup {Voxel(i) : i \in NewInside(Top)}
      /\ Top \in cstack /\ pc = "fill"
  BY TopIsOnStack DEF Fill
<1>2. Top \in Inner /\ Inner \subseteq Voxels /\ Top \in Voxels
  BY <1>1, ReachInBox DEF FillInv, Inner, TypeInv
<1>3. ASSUME NEW i \in NewInside(Top)
      PROVE  \E u \in Inner : Touch(u, Top) /\ i = Index(u) /\ Voxel(i) = u
  <2>1. PICK u \in Around(Top) : Touch(u, Top) /\ i = Index(u)
    BY <1>2, FacesAreVoxels DEF NewInside
  <2>2. i \in ReachIndices /\ Voxel(i) \in reach \ Border
    BY <1>2, FillStaysInside DEF TypeInv, Inner
  <2>3. u \in reach
    BY <1>2 DEF Inner, Border, hasInvalidNeighbours, isValid
  <2>4. Voxel(i) = u
    BY <2>1, <2>3, VoxelOfIndex, ReachInBox DEF TypeInv
  <2> QED BY <2>1, <2>2, <2>4 DEF Inner
<1>4. ASSUME NEW v \in Inner, v = Centre \/ Index(v) \in bitmap'
      PROVE  v \in cstack' \/ \A u \in Inner : Touch(u, v) => Index(u) \in bitmap'
  <2>1. CASE v = Top
    <3>1. ASSUME NEW u \in Inner, Touch(u, v)
          PROVE  Index(u) \in bitmap'
      <4>1. Top[1] > 0 /\ Top[2] > 0 /\ Top[3] > 0
        <5>1. ~OnEdge(Top)
          BY <1>2 DEF Inner, Border, hasInvalidNeighbours, isValid
        <5> QED BY <1>2, <5>1, VoxelParts, SizeAssumption DEF OnEdge
      <4>2. u \in Neighbours(Top)
        BY <1>2, <2>1, <3>1, NeighboursTouch
      <4>3. Index(u) \in Faces(Top) /\ Index(u) < Size
        BY <1>2, <4>1, <4>2, FacesAreNeighbours, IndexInArray, Sizes
      <4> QED BY <1>1, <4>3 DEF NewInside
    <3> QED BY <3>1
  <2>2. CASE v # Top /\ (v = Centre \/ Index(v) \in bitmap)
    <3>1. v \in cstack \/ \A u \in Inner : Touch(u, v) => Index(u) \in bitmap
      BY <1>1, <2>2 DEF ExactInv
    <3> QED BY <1>1, <2>2, <3>1
  <2>3. CASE v # Centre /\ Index(v) \notin bitmap
    <3>1. Index(v) \in NewInside(Top)
      BY <1>1, <1>4, <2>3
    <3>2. Voxel(Index(v)) = v
      BY <1>2, VoxelOfIndex
    <3> QED BY <1>1, <3>1, <3>2
  <2> QED BY <1>4, <2>1, <2>2, <2>3
<1>5. ASSUME NEW T \in SUBSET Inner, HoldsMiddle(T)
      PROVE  cstack' \subseteq T /\ bitmap' \subseteq flooded \cup {Index(v) : v \in T}
  <2>1. cstack \subseteq T /\ bitmap \subseteq flooded \cup {Index(v) : v \in T}
    BY <1>1, <1>5 DEF ExactInv
  <2>2. \A i \in NewInside(Top) : \E u \in T : i = Index(u) /\ Voxel(i) = u
    BY <1>1, <1>3, <1>5, <2>1 DEF HoldsMiddle
  <2> QED BY <1>1, <2>1, <2>2
<1> QED BY <1>4, <1>5

LEMMA ExactStep ==
  ASSUME TypeInv, FillInv, MarksInv, ExactInv, [Next]_vars
  PROVE  ExactInv'
<1>1. CASE StartFill
  <2>1. /\ flooded' = bitmap /\ bitmap' = bitmap /\ reach' = reach /\ pc = "flood"
        /\ cstack' = {Centre} /\ bitmap \subseteq BorderIndices
    BY <1>1 DEF StartFill, MarksInv
  <2>2. Inner' = Inner /\ Inner \subseteq Voxels /\ Border \subseteq Voxels
    BY <2>1, SameBorder, ReachInBox DEF Inner, Border, TypeInv
  <2>3. \A v \in Inner : Index(v) \notin bitmap
    BY <2>1, <2>2, IndexInjective DEF BorderIndices, Inner
  <2>4. \A v \in Inner : v = Centre \/ Index(v) \in bitmap => v \in cstack'
    BY <2>1, <2>3
  <2>5. \A T : HoldsMiddle(T)' => cstack' \subseteq T
    BY <2>1 DEF HoldsMiddle, Centre
  <2> QED BY <2>1, <2>2, <2>4, <2>5 DEF ExactInv, Index, Centre, Touch
<1>2. CASE Fill
  <2>1. reach' = reach /\ flooded' = flooded
    BY <1>2 DEF Fill
  <2>2. Inner' = Inner /\ Border' = Border
    BY <2>1, SameBorder
  <2>3. Enclosed' = Enclosed
    BY <2>1, <2>2 DEF Enclosed, Centre, Index
  <2>4. \A T : HoldsMiddle(T)' = HoldsMiddle(T)
    BY <2>2 DEF HoldsMiddle, Centre, Touch
  <2>5. CASE Enclosed
    BY <1>2, <2>1, <2>2, <2>4, <2>5, FillExact DEF ExactInv, Index, Centre, Touch
  <2> QED BY <2>3, <2>5 DEF ExactInv
<1>3. CASE Start \/ Scan \/ Flood
  BY <1>3 DEF Start, Scan, Flood, ExactInv, isValid
<1>4. CASE UNCHANGED vars
  <2>1. UNCHANGED <<reach, pc, bitmap, cstack, flooded>>
    BY <1>4 DEF vars
  <2>2. Inner' = Inner /\ Border' = Border
    BY <2>1, SameBorder
  <2>3. Enclosed' = Enclosed
    BY <2>1, <2>2 DEF Enclosed, Centre, Index
  <2>4. \A T : HoldsMiddle(T)' = HoldsMiddle(T)
    BY <2>2 DEF HoldsMiddle, Centre, Touch
  <2> QED BY <2>1, <2>2, <2>3, <2>4 DEF ExactInv, Index, Centre, Touch
<1> QED BY <1>1, <1>2, <1>3, <1>4 DEF Next

SecondSearch == TypeInv /\ FillInv /\ MarksInv /\ ExactInv

\* What the theorems about the second search rest on.
THEOREM SecondSearchCorrect == Spec => []SecondSearch
<1>1. Init => SecondSearch
  BY CentreInBox, SizeAssumption DEF Init, SecondSearch, TypeInv, TypeOK, ScanInv, FillInv,
                                     MarksInv, ExactInv
<1>2. SecondSearch /\ [Next]_vars => SecondSearch'
  BY TypeInvStep, FillInvStep, MarksStep, ExactStep DEF SecondSearch
<1> QED BY <1>1, <1>2, PTL DEF Spec

\* The second search forgets no voxel inside the border that shares a face with one it
\* marked, for boxes of any size and whatever is reachable: FillForgetsNothing.
THEOREM FillForgetsNothingCorrect == Spec => []FillForgetsNothing
<1>1. SecondSearch => FillForgetsNothing
  BY DEF SecondSearch, ExactInv, FillForgetsNothing, Built, Inner
<1> QED BY <1>1, SecondSearchCorrect, PTL

\* The bitmap is exact: around the middle it holds the border and what is joined to
\* the middle inside of it, and nothing else.
FillIsExact ==
  Built /\ Enclosed =>
    bitmap \cup {Index(Centre)} = {Index(v) : v \in Border \cup Joined}

\* Once a border around the middle was found whole the bitmap is exact, for boxes of any
\* size and whatever is reachable: generateBoundariesBitmap.
THEOREM FillIsExactCorrect == Spec => []FillIsExact
<1>1. SecondSearch => FillIsExact
  <2> SUFFICES ASSUME SecondSearch, Built, Enclosed
               PROVE  bitmap \cup {Index(Centre)} = {Index(v) : v \in Border \cup Joined}
    BY DEF FillIsExact
  <2>1. /\ flooded = BorderIndices /\ flooded \subseteq bitmap /\ Centre \in Inner
        /\ Inner \subseteq Voxels /\ Centre \in Voxels
    BY ReachInBox DEF SecondSearch, MarksInv, Enclosed, Built, BorderIndices, Inner, TypeInv
  <2>2. HoldsMiddle(Inner)
    BY <2>1 DEF HoldsMiddle
  <2>3. ASSUME NEW i \in bitmap, i \notin flooded
        PROVE  i \in {Index(v) : v \in Joined}
    <3>1. \A T \in SUBSET Inner : HoldsMiddle(T) => i \in {Index(v) : v \in T}
      BY <2>3 DEF SecondSearch, ExactInv, Built
    <3>2. PICK v \in Inner : i = Index(v)
      BY <2>2, <3>1
    <3>3. ASSUME NEW T \in SUBSET Inner, HoldsMiddle(T)
          PROVE  v \in T
      <4>1. PICK u \in T : i = Index(u)
        BY <3>1, <3>3
      <4>2. u \in Voxels /\ v \in Voxels
        BY <2>1, <4>1, <3>2
      <4>3. u = v
        BY <3>2, <4>1, <4>2, IndexInjective
      <4> QED BY <4>1, <4>3
    <3> QED BY <3>2, <3>3 DEF Joined
  <2>4. Centre \in Joined
    BY <2>1 DEF Joined, HoldsMiddle
  <2>5. ASSUME NEW v \in Joined
        PROVE  Index(v) \in bitmap \cup {Index(Centre)}
    <3> DEFINE T == {u \in Inner : u = Centre \/ Index(u) \in bitmap}
    <3>1. HoldsMiddle(T)
      BY <2>1 DEF HoldsMiddle, SecondSearch, ExactInv, Built
    <3>2. v \in T
      <4> HIDE DEF T
      <4>1. T \in SUBSET Inner
        BY <3>1 DEF HoldsMiddle
      <4> QED BY <2>5, <3>1, <4>1 DEF Joined
    <3> QED BY <3>2
  <2>6. \A v \in Border : Index(v) \in flooded
    BY <2>1 DEF BorderIndices
  <2>7. \A i \in flooded : i \in {Index(v) : v \in Border}
    BY <2>1 DEF BorderIndices
  <2> QED BY <2>1, <2>3, <2>4, <2>5, <2>6, <2>7
<1> QED BY <1>1, SecondSearchCorrect, PTL
-----------------------------------------------------------------------------
\* The border is in one piece: no part of it but the whole has all the border
\* voxels around its own.
BorderConnected ==
  \A T \in SUBSET Border :
    T # {} /\ (\A v \in T : \A u \in Border \cap Around(v) : u \in T) => T = Border

\* Where the border has been found, it was found all around, or the search has
\* still to look there.
Closed(found, todo) ==
  \A v \in Border : Index(v) \in found =>
    v \in todo \/ \A u \in Border \cap Around(v) : Index(u) \in found

SearchInv ==
  /\ pc = "flood" => /\ \E v \in Border : Index(v) \in bitmap
                     /\ Closed(bitmap, cstack)
  /\ pc = "fill" => /\ \E v \in Border : Index(v) \in flooded
                    /\ Closed(flooded, {})

LEMMA SearchInvStep ==
  ASSUME TypeInv, SearchInv, [Next]_vars
  PROVE  SearchInv'
<1>1. CASE Start
  BY <1>1 DEF Start, isValid, SearchInv
<1>2. CASE Scan
  <2>1. CASE right < width /\ AtRow(right) \in reach
    BY <1>2, <2>1 DEF Scan, isValid, SearchInv
  <2>2. CASE ~(right < width /\ AtRow(right) \in reach)
    <3> DEFINE w == AtRow(right - 1)
    <3>1. w \in Border /\ w \in Voxels
      BY <1>2, <2>2, ScanStarts, CentreInBox DEF Scan, isValid, TypeInv
    <3>2. pc' = "flood" /\ bitmap' = {Index(w)} /\ cstack' = {w} /\ reach' = reach
      BY <1>2, <2>2 DEF Scan, isValid
    <3> HIDE DEF w
    <3>3. \A v \in Border : Index(v) = Index(w) => v = w
      BY <3>1, IndexInjective, ReachInBox DEF TypeInv, Border
    <3>4. Border' = Border
      BY <3>2, SameBorder
    <3>5. Closed(bitmap, cstack)'
      BY <3>2, <3>3, <3>4 DEF Closed, Index
    <3>6. (\E v \in Border : Index(v) \in bitmap)'
      BY <3>1, <3>2, <3>4 DEF Index
    <3> QED BY <3>2, <3>5, <3>6 DEF SearchInv
  <2> QED BY <2>1, <2>2
<1>3. CASE Flood
  <2>1. /\ bitmap' = bitmap \cup {Index(u) : u \in NewBorder(Top)}
        /\ cstack' = (cstack \ {Top}) \cup NewBorder(Top)
        /\ reach' = reach /\ pc' = "flood" /\ pc = "flood"
    BY <1>3 DEF Flood
  <2>2. Border' = Border /\ Border \subseteq Voxels
    BY <2>1, SameBorder, ReachInBox DEF TypeInv, Border
  <2>3. \A u \in Border \cap Around(Top) : Index(u) \in bitmap'
    BY <2>1, <2>2 DEF NewBorder, Border
  <2>4. ASSUME NEW v \in Border, Index(v) \in bitmap'
        PROVE  v \in cstack' \/ \A u \in Border \cap Around(v) : Index(u) \in bitmap'
    <3>1. CASE v = Top
      BY <3>1, <2>3
    <3>2. CASE v # Top /\ Index(v) \in bitmap
      <4>1. v \in cstack \/ \A u \in Border \cap Around(v) : Index(u) \in bitmap
        BY <2>1, <3>2 DEF SearchInv, Closed
      <4> QED BY <4>1, <2>1, <3>2
    <3>3. CASE Index(v) \notin bitmap
      <4>1. PICK u \in NewBorder(Top) : Index(v) = Index(u)
        BY <2>1, <2>4, <3>3
      <4>2. u \in Voxels /\ v \in Voxels
        BY <2>2 DEF NewBorder
      <4>3. u = v
        BY <4>1, <4>2, IndexInjective
      <4> QED BY <4>1, <4>3, <2>1
    <3> QED BY <3>1, <3>2, <3>3
  <2>5. Closed(bitmap, cstack)'
    BY <2>2, <2>4 DEF Closed, Index, Around
  <2>6. (\E v \in Border : Index(v) \in bitmap)'
    <3>1. \E v \in Border : Index(v) \in bitmap
      BY <2>1 DEF SearchInv
    <3> QED BY <3>1, <2>1, <2>2 DEF Index
  <2> QED BY <2>1, <2>5, <2>6 DEF SearchInv
<1>4. CASE StartFill
  <2>1. flooded' = bitmap /\ cstack = {} /\ reach' = reach /\ pc' = "fill" /\ pc = "flood"
    BY <1>4 DEF StartFill
  <2>2. Border' = Border
    BY <2>1, SameBorder
  <2>3. (\E v \in Border : Index(v) \in bitmap) /\ Closed(bitmap, {})
    BY <2>1 DEF SearchInv
  <2>4. (\E v \in Border : Index(v) \in flooded)' /\ Closed(flooded, {})'
    BY <2>1, <2>2, <2>3 DEF Index, Closed, Around
  <2> QED BY <2>1, <2>4 DEF SearchInv
<1>5. CASE Fill
  <2>1. flooded' = flooded /\ reach' = reach /\ pc' = "fill" /\ pc = "fill"
    BY <1>5 DEF Fill
  <2>2. Border' = Border
    BY <2>1, SameBorder
  <2>3. (\E v \in Border : Index(v) \in flooded) /\ Closed(flooded, {})
    BY <2>1 DEF SearchInv
  <2>4. (\E v \in Border : Index(v) \in flooded)' /\ Closed(flooded, {})'
    BY <2>1, <2>2, <2>3 DEF Index, Closed, Around
  <2> QED BY <2>1, <2>4 DEF SearchInv
<1>6. CASE UNCHANGED vars
  <2>1. reach' = reach /\ pc' = pc /\ bitmap' = bitmap /\ cstack' = cstack /\ flooded' = flooded
    BY <1>6 DEF vars
  <2>2. Border' = Border
    BY <2>1, SameBorder
  <2> QED BY <2>1, <2>2 DEF SearchInv, Index, Closed, Around
<1> QED BY <1>1, <1>2, <1>3, <1>4, <1>5, <1>6 DEF Next

\* The first search finds all of a border that is in one piece ...
BorderIsFound == pc = "fill" /\ BorderConnected => BorderIndices \subseteq flooded

\* The first search finds a border in one piece whole: BorderIsFound.
THEOREM BorderIsFoundCorrect == Spec => []BorderIsFound
<1>1. Init => TypeInv /\ SearchInv
  BY CentreInBox, SizeAssumption DEF Init, TypeInv, TypeOK, ScanInv, SearchInv
<1>2. (TypeInv /\ SearchInv) /\ [Next]_vars => (TypeInv /\ SearchInv)'
  BY TypeInvStep, SearchInvStep
<1>3. SearchInv => BorderIsFound
  <2> SUFFICES ASSUME SearchInv, pc = "fill", BorderConnected
               PROVE  BorderIndices \subseteq flooded
    BY DEF BorderIsFound
  <2> DEFINE T == {v \in Border : Index(v) \in flooded}
  <2>1. T # {} /\ T \in SUBSET Border
    BY DEF SearchInv
  <2>2. \A v \in T : \A u \in Border \cap Around(v) : u \in T
    BY DEF SearchInv, Closed
  <2>3. T = Border
    BY <2>1, <2>2 DEF BorderConnected
  <2> QED BY <2>3 DEF BorderIndices
<1> QED BY <1>1, <1>2, <1>3, PTL DEF Spec

\* ... and then the bitmap holds only what can be reached, whatever the shape.
THEOREM ConnectedBorderSuffices ==
  Spec => [](pc = "fill" /\ Centre \in reach \ Border /\ BorderConnected
               => bitmap \subseteq ReachIndices)
<1>1. NothingOutOfReach /\ BorderIsFound
        => (pc = "fill" /\ Centre \in reach \ Border /\ BorderConnected
              => bitmap \subseteq ReachIndices)
  BY DEF NothingOutOfReach, BorderIsFound, Enclosed, BorderIndices, ReachIndices
<1> QED BY <1>1, NothingOutOfReachCorrect, BorderIsFoundCorrect, PTL

\* ... and is exact: the border, and what is joined to the middle inside of it.
THEOREM ConnectedBorderIsExact ==
  Spec => [](Built /\ Centre \in reach \ Border /\ BorderConnected
               => bitmap \cup {Index(Centre)} = {Index(v) : v \in Border \cup Joined})
<1>1. FillIsExact /\ BorderIsFound
        => (Built /\ Centre \in reach \ Border /\ BorderConnected
              => bitmap \cup {Index(Centre)} = {Index(v) : v \in Border \cup Joined})
  BY DEF FillIsExact, BorderIsFound, Enclosed, BorderIndices, Built
<1> QED BY <1>1, FillIsExactCorrect, BorderIsFoundCorrect, PTL
-----------------------------------------------------------------------------
\* Every non-empty set of numbers has a least one.  The proofs by induction use this.
LEMMA LeastOf ==
  ASSUME NEW T, T \subseteq Nat, T # {}
  PROVE  \E n \in T : \A m \in T : n <= m
<1> DEFINE R == {ss \in Nat \X Nat : ss[1] < ss[2]}
<1>1. IsWellFoundedOn(R, Nat)
  BY NatLessThanWellFounded, Zenon DEF OpToRel
<1> HIDE DEF R
<1>2. PICK n \in T : \A m \in T : <<m, n>> \notin R
  BY <1>1, WFMin
<1>3. \A m \in T : ~(m < n)
  BY <1>2 DEF R
<1> QED BY <1>3

\* What Connected adds to G in a step, where it adds nothing, and the least such set.
New(G, S)       == {u \in S \ G : \E v \in G : Touch(u, v)}
ClosedIn(G, S)  == \A u \in S : \A v \in G : Touch(u, v) => u \in G
Hull(G, T, S)   == {u \in T \cup S : \A C \in SUBSET (T \cup S) :
                      G \subseteq C /\ ClosedIn(C, S) => u \in C}
IsGrow(f, T, S) ==
  f = [G \in SUBSET (T \cup S) |-> IF New(G, S) = {} THEN G ELSE f[G \cup New(G, S)]]

LEMMA HullStep ==
  ASSUME NEW T, NEW S, NEW G \in SUBSET (T \cup S)
  PROVE  /\ New(G, S) = {} => Hull(G, T, S) = G
         /\ Hull(G \cup New(G, S), T, S) = Hull(G, T, S)
         /\ G \cup New(G, S) \in SUBSET (T \cup S)
<1>1. New(G, S) = {} => ClosedIn(G, S)
  BY DEF New, ClosedIn
<1>2. \A C : G \subseteq C /\ ClosedIn(C, S) => New(G, S) \subseteq C
  BY DEF New, ClosedIn
<1> QED BY <1>1, <1>2 DEF Hull, New

\* Connected is a function by recursion; the least closed sets are one that obeys it ...
LEMMA ConnectedIsGrow ==
  ASSUME NEW T, NEW S
  PROVE  \E f : IsGrow(f, T, S) /\ Connected(T, S) = f[T]
<1> DEFINE h == [G \in SUBSET (T \cup S) |-> Hull(G, T, S)]
           c == CHOOSE f : IsGrow(f, T, S)
<1>1. IsGrow(h, T, S)
  BY HullStep DEF IsGrow
<1>2. IsGrow(c, T, S)
  BY <1>1
<1>3. Connected(T, S) = c[T]
  BY DEF Connected, IsGrow, New
<1> QED BY <1>2, <1>3

\* ... and by induction on what is still missing there is no other.
LEMMA ConnectedIsHull ==
  ASSUME NEW T, NEW S, IsFiniteSet(T \cup S)
  PROVE  Connected(T, S) = Hull(T, T, S)
<1> DEFINE U == T \cup S
<1>1. PICK f : IsGrow(f, T, S) /\ Connected(T, S) = f[T]
  BY ConnectedIsGrow
<1> DEFINE Wrong(n) == \E G \in SUBSET U : Cardinality(U \ G) = n /\ f[G] # Hull(G, T, S)
<1>2. ASSUME NEW n \in Nat, Wrong(n)
      PROVE  \E m \in Nat : m < n /\ Wrong(m)
  <2>1. PICK G \in SUBSET U : Cardinality(U \ G) = n /\ f[G] # Hull(G, T, S)
    BY <1>2
  <2> DEFINE H == G \cup New(G, S)
  <2>2. f[G] = IF New(G, S) = {} THEN G ELSE f[H]
    BY <1>1 DEF IsGrow
  <2>3. New(G, S) # {} /\ f[H] # Hull(H, T, S) /\ H \in SUBSET U
    <3>1. /\ New(G, S) = {} => Hull(G, T, S) = G
          /\ Hull(H, T, S) = Hull(G, T, S)
          /\ H \in SUBSET U
      BY <2>1, HullStep, Zenon
    <3> HIDE DEF H, U
    <3> QED BY <2>1, <2>2, <3>1
  <2>4. U \ H \subseteq U \ G /\ U \ H # U \ G
    BY <2>3 DEF New
  <2>5. IsFiniteSet(U \ G)
    BY FS_Subset
  <2>6. Cardinality(U \ H) < Cardinality(U \ G) /\ IsFiniteSet(U \ H)
    <3> HIDE DEF H, U
    <3>1. /\ IsFiniteSet(U \ H) /\ Cardinality(U \ H) <= Cardinality(U \ G)
          /\ Cardinality(U \ G) # Cardinality(U \ H)
      BY <2>4, <2>5, FS_Subset
    <3>2. Cardinality(U \ H) \in Nat /\ Cardinality(U \ G) \in Nat
      BY <2>5, <3>1, FS_CardinalityType
    <3> QED BY <3>1, <3>2
  <2>7. Cardinality(U \ H) \in Nat
    BY <2>6, FS_CardinalityType
  <2> QED BY <2>1, <2>3, <2>6, <2>7
<1>3. ~\E n \in Nat : Wrong(n)
  <2> DEFINE W == {n \in Nat : Wrong(n)}
  <2> HIDE DEF Wrong
  <2>1. \A n \in W : \E m \in W : m < n
    BY <1>2
  <2>2. W # {} => \E n \in W : \A m \in W : n <= m
    BY LeastOf
  <2>3. W = {}
    BY <2>1, <2>2
  <2> QED BY <2>3
<1>4. Cardinality(U \ T) \in Nat
  BY FS_Subset, FS_CardinalityType
<1>5. f[T] = Hull(T, T, S)
  BY <1>3, <1>4
<1> QED BY <1>1, <1>5

\* Connected gives the least set with T that no step across a face leaves for S.
LEMMA ConnectedIsLeast ==
  ASSUME NEW T, NEW S, IsFiniteSet(T \cup S)
  PROVE  /\ Connected(T, S) \subseteq T \cup S /\ T \subseteq Connected(T, S)
         /\ ClosedIn(Connected(T, S), S)
         /\ \A C \in SUBSET (T \cup S) :
              T \subseteq C /\ ClosedIn(C, S) => Connected(T, S) \subseteq C
BY ConnectedIsHull DEF Hull, ClosedIn
-----------------------------------------------------------------------------
\* The voxel of height z in the column of v.
InColumn(v, z) == <<v[1], v[2], z>>

\* What Convex asks of the columns, and of the whole.
ColumnsUnbroken ==
  \A u \in reach : \A a, b, z \in Int :
    InColumn(u, a) \in reach /\ InColumn(u, b) \in reach /\ a <= z /\ z <= b
      => InColumn(u, z) \in reach

InOnePiece ==
  /\ Centre \in reach
  /\ \A T \in SUBSET reach : Centre \in T /\ ClosedIn(T, reach) => T = reach

\* K is a part of the border that has all the border around its own.
BorderPart(K) ==
  K \subseteq Border /\ \A v \in K : \A u \in Border \cap Around(v) : u \in K

\* The column of v ends at h, at the top or at the bottom.
IsEnd(v, h, up) ==
  /\ h \in Int /\ InColumn(v, h) \in reach
  /\ \A z \in Int : InColumn(v, z) \in reach => IF up THEN z <= h ELSE h <= z

LEMMA IntParts ==
  ASSUME TypeOK, NEW v \in reach
  PROVE  /\ v = <<v[1], v[2], v[3]>> /\ v \in Voxels
         /\ v[1] \in Int /\ v[2] \in Int /\ v[3] \in Int
         /\ InColumn(v, v[3]) = v
<1>1. v \in Voxels
  BY ReachInBox
<1>2. /\ v = <<v[1], v[2], v[3]>>
      /\ v[1] \in 0..width - 1 /\ v[2] \in 0..depth - 1 /\ v[3] \in 0..height - 1
  BY <1>1, VoxelParts
<1> QED BY <1>1, <1>2, SizeAssumption DEF InColumn

\* The edge of the box makes a voxel a border voxel just as what cannot be reached does.
LEMMA BorderIs ==
  ASSUME TypeOK, NEW v
  PROVE  v \in Border <=> v \in reach /\ \E u \in Around(v) : u \notin reach
<1>1. ASSUME v \in reach, OnEdge(v) PROVE \E u \in Around(v) : u \notin reach
  <2>1. /\ v[1] \in Int /\ v[2] \in Int /\ v[3] \in Int
    BY <1>1, IntParts
  <2> DEFINE side == << <<v[1] - 1, v[2], v[3]>>, <<v[1] + 1, v[2], v[3]>>,
                        <<v[1], v[2] - 1, v[3]>>, <<v[1], v[2] + 1, v[3]>>,
                        <<v[1], v[2], v[3] - 1>>, <<v[1], v[2], v[3] + 1>> >>
  <2>2. \A i \in 1..6 : side[i] \in Around(v)
    BY <2>1 DEF Around
  <2>3. \E i \in 1..6 : side[i] \notin Voxels
    BY <1>1, <2>1, SizeAssumption DEF OnEdge, Voxels
  <2> QED BY <2>2, <2>3, ReachInBox
<1> QED BY <1>1 DEF Border, hasInvalidNeighbours, isValid

LEMMA AroundIs ==
  ASSUME NEW v, NEW x, NEW y, NEW z,
         x \in v[1] - 1..v[1] + 1, y \in v[2] - 1..v[2] + 1, z \in v[3] - 1..v[3] + 1
  PROVE  <<x, y, z>> \in Around(v)
BY DEF Around

LEMMA AroundSymmetric ==
  ASSUME TypeOK, NEW v \in reach, NEW u \in reach, u \in Around(v)
  PROVE  v \in Around(u)
<1>1. /\ u[1] \in v[1] - 1..v[1] + 1 /\ u[2] \in v[2] - 1..v[2] + 1 /\ u[3] \in v[3] - 1..v[3] + 1
  BY DEF Around
<1>2. /\ v[1] \in u[1] - 1..u[1] + 1 /\ v[2] \in u[2] - 1..u[2] + 1 /\ v[3] \in u[3] - 1..u[3] + 1
  BY <1>1, IntParts
<1> QED BY <1>2, AroundIs, IntParts

\* Every column has both its ends.
LEMMA EndExists ==
  ASSUME TypeOK, NEW v \in reach, NEW up \in BOOLEAN
  PROVE  \E h \in Int : IsEnd(v, h, up)
<1>1. \A z \in Int : InColumn(v, z) \in reach => z \in 0..height - 1
  BY ReachInBox DEF InColumn, Voxels
<1>2. v[3] \in 0..height - 1 /\ InColumn(v, v[3]) \in reach /\ height \in Nat
  BY <1>1, IntParts, SizeAssumption
<1>3. CASE up
  <2> DEFINE W == {n \in Nat : InColumn(v, height - 1 - n) \in reach}
  <2>1. W # {}
    <3>1. (height - 1) - v[3] \in Nat /\ height - 1 - ((height - 1) - v[3]) = v[3]
      BY <1>2
    <3> QED BY <1>2, <3>1
  <2>2. PICK n \in W : \A m \in W : n <= m
    <3> HIDE DEF W
    <3>1. W \subseteq Nat
      BY DEF W
    <3> QED BY <2>1, <3>1, LeastOf
  <2>3. ASSUME NEW z \in Int, InColumn(v, z) \in reach PROVE z <= height - 1 - n
    <3>1. (height - 1) - z \in Nat /\ height - 1 - ((height - 1) - z) = z
      BY <1>1, <1>2, <2>3
    <3>2. (height - 1) - z \in W
      BY <2>3, <3>1
    <3>3. n \in Nat /\ n <= (height - 1) - z
      BY <2>2, <3>2
    <3> HIDE DEF W
    <3> QED BY <1>2, <3>3
  <2>4. height - 1 - n \in Int
    BY <1>2
  <2> QED BY <1>3, <2>2, <2>3, <2>4 DEF IsEnd
<1>4. CASE ~up
  <2> DEFINE W == {z \in Nat : InColumn(v, z) \in reach}
  <2>1. W # {} /\ W \subseteq Nat
    BY <1>2
  <2>2. PICK n \in W : \A m \in W : n <= m
    <3> HIDE DEF W
    <3> QED BY <2>1, LeastOf
  <2>3. ASSUME NEW z \in Int, InColumn(v, z) \in reach PROVE n <= z
    <3>1. z \in W
      BY <1>1, <2>3, SizeAssumption
    <3> QED BY <2>2, <3>1
  <2>4. n \in Int
    OBVIOUS
  <2> QED BY <1>4, <2>2, <2>3, <2>4 DEF IsEnd
<1> QED BY <1>3, <1>4

\* A step up or down a column is one to a voxel around.
LEMMA ColumnStep ==
  ASSUME TypeOK, NEW v \in reach, NEW z \in Int
  PROVE  /\ InColumn(v, z + 1) \in Around(InColumn(v, z))
         /\ InColumn(v, z - 1) \in Around(InColumn(v, z))
BY IntParts DEF InColumn, Around

\* A part of the border goes on along a stretch of a column that is border.
LEMMA ColumnWalk ==
  ASSUME TypeOK, NEW K, BorderPart(K), NEW v \in reach, NEW a \in Int, NEW b \in Int,
         \A z \in a..b : InColumn(v, z) \in Border,
         NEW c \in a..b, InColumn(v, c) \in K, NEW e \in a..b
  PROVE  InColumn(v, e) \in K
<1>1. CASE c <= e
  <2> DEFINE W == {n \in Nat : c + n <= e /\ InColumn(v, c + n) \notin K}
  <2> SUFFICES ASSUME InColumn(v, e) \notin K PROVE FALSE
    OBVIOUS
  <2>1. e - c \in W
    BY <1>1
  <2>2. PICK n \in W : \A m \in W : n <= m
    <3>1. W \subseteq Nat
      OBVIOUS
    <3> HIDE DEF W
    <3> QED BY <2>1, <3>1, LeastOf
  <2>3. n # 0
    BY <2>2
  <2>4. n - 1 \in Nat /\ c + (n - 1) <= e /\ n - 1 \notin W
    BY <2>2, <2>3
  <2>5. InColumn(v, c + (n - 1)) \in K
    BY <2>4
  <2>6. c + (n - 1) \in Int /\ (c + (n - 1)) + 1 = c + n /\ c + n \in a..b
    BY <2>2, <2>3
  <2>7. InColumn(v, c + n) \in Around(InColumn(v, c + (n - 1)))
    BY <2>6, ColumnStep
  <2>8. InColumn(v, c + n) \in Border
    BY <2>6
  <2>9. InColumn(v, c + n) \in K
    BY <2>5, <2>7, <2>8 DEF BorderPart
  <2> QED BY <2>2, <2>9
<1>2. CASE e <= c
  <2> DEFINE W == {n \in Nat : e <= c - n /\ InColumn(v, c - n) \notin K}
  <2> SUFFICES ASSUME InColumn(v, e) \notin K PROVE FALSE
    OBVIOUS
  <2>1. c - e \in W
    <3>1. c - e \in Nat /\ c - (c - e) = e
      BY <1>2
    <3> QED BY <3>1
  <2>2. PICK n \in W : \A m \in W : n <= m
    <3>1. W \subseteq Nat
      OBVIOUS
    <3> HIDE DEF W
    <3> QED BY <2>1, <3>1, LeastOf
  <2>3. n # 0
    <3>1. c - 0 = c
      OBVIOUS
    <3> QED BY <2>2, <3>1
  <2>4. n - 1 \in Nat /\ e <= c - (n - 1) /\ n - 1 \notin W
    BY <2>2, <2>3
  <2>5. InColumn(v, c - (n - 1)) \in K
    BY <2>4
  <2>6. c - (n - 1) \in Int /\ (c - (n - 1)) - 1 = c - n /\ c - n \in a..b
    BY <2>2, <2>3
  <2>7. InColumn(v, c - n) \in Around(InColumn(v, c - (n - 1)))
    BY <2>6, ColumnStep
  <2>8. InColumn(v, c - n) \in Border
    BY <2>6
  <2>9. InColumn(v, c - n) \in K
    BY <2>5, <2>7, <2>8 DEF BorderPart
  <2> QED BY <2>2, <2>9
<1> QED BY <1>1, <1>2

\* The end of a column is border: beyond it nothing is reachable.
LEMMA EndInBorder ==
  ASSUME TypeOK, NEW v \in reach, NEW up \in BOOLEAN, NEW h, IsEnd(v, h, up)
  PROVE  InColumn(v, h) \in Border
<1>1. h \in Int /\ InColumn(v, h) \in reach
  BY DEF IsEnd
<1>2. IF up THEN InColumn(v, h + 1) \notin reach ELSE InColumn(v, h - 1) \notin reach
  BY <1>1 DEF IsEnd
<1> QED BY <1>1, <1>2, ColumnStep, BorderIs

\* The ends of two columns that share a face are joined by border.
LEMMA EndsMeet ==
  ASSUME TypeOK, ColumnsUnbroken, NEW K, BorderPart(K), NEW up \in BOOLEAN,
         NEW u \in reach, NEW v \in reach, Touch(u, v),
         NEW h, IsEnd(u, h, up), InColumn(u, h) \in K, NEW g, IsEnd(v, g, up)
  PROVE  InColumn(v, g) \in K
<1>1. /\ h \in Int /\ InColumn(u, h) \in reach /\ g \in Int /\ InColumn(v, g) \in reach
      /\ u[1] \in Int /\ u[2] \in Int /\ u[3] \in Int /\ InColumn(u, u[3]) \in reach
      /\ v[1] \in Int /\ v[2] \in Int /\ v[3] \in Int /\ InColumn(v, v[3]) \in reach
  BY IntParts DEF IsEnd
<1>2. \/ u[1] = v[1] /\ u[2] = v[2]
      \/ u[3] = v[3] /\ u[1] - v[1] \in -1..1 /\ u[2] - v[2] \in -1..1
  BY <1>1 DEF Touch
<1>3. CASE u[1] = v[1] /\ u[2] = v[2]
  <2>1. \A z : InColumn(u, z) = InColumn(v, z)
    BY <1>3 DEF InColumn
  <2>2. h = g
    BY <1>1, <2>1 DEF IsEnd
  <2> QED BY <2>1, <2>2
<1>4. CASE u[3] = v[3] /\ u[1] - v[1] \in -1..1 /\ u[2] - v[2] \in -1..1
  <2> DEFINE a == IF g <= h THEN g ELSE h
             b == IF g <= h THEN h ELSE g
  <2>1. a \in Int /\ b \in Int /\ h \in a..b /\ g \in a..b
    BY <1>1
  <2>2. ASSUME NEW z \in Int
        PROVE  /\ InColumn(v, z + 1) \in Around(InColumn(u, z))
               /\ InColumn(v, z - 1) \in Around(InColumn(u, z))
               /\ InColumn(u, z + 1) \in Around(InColumn(v, z))
               /\ InColumn(u, z - 1) \in Around(InColumn(v, z))
               /\ InColumn(v, z) \in Around(InColumn(u, z))
    BY <1>1, <1>4 DEF InColumn, Around
  \* The column that goes further is border beyond the end of the other.
  <2>3. CASE IF up THEN h <= g ELSE g <= h
    <3>1. ASSUME NEW z \in a..b PROVE InColumn(v, z) \in Border
      <4>1. z \in Int /\ (IF up THEN h <= z /\ z <= g ELSE g <= z /\ z <= h)
        BY <1>1, <2>3, <3>1
      <4>2. IF up THEN v[3] <= h ELSE h <= v[3]
        BY <1>1, <1>4 DEF IsEnd
      <4>3. InColumn(v, z) \in reach
        BY <1>1, <4>1, <4>2 DEF ColumnsUnbroken
      <4>4. IF up THEN InColumn(u, z + 1) \notin reach ELSE InColumn(u, z - 1) \notin reach
        BY <1>1, <4>1 DEF IsEnd
      <4> QED BY <2>2, <4>1, <4>3, <4>4, BorderIs
    <3>2. InColumn(v, h) \in K
      BY <1>1, <2>1, <2>2, <3>1 DEF BorderPart
    <3> HIDE DEF a, b
    <3> QED BY <2>1, <3>1, <3>2, ColumnWalk
  <2>4. CASE IF up THEN g <= h ELSE h <= g
    <3>1. ASSUME NEW z \in a..b PROVE InColumn(u, z) \in Border
      <4>1. z \in Int /\ (IF up THEN g <= z /\ z <= h ELSE h <= z /\ z <= g)
        BY <1>1, <2>4, <3>1
      <4>2. IF up THEN u[3] <= g ELSE g <= u[3]
        BY <1>1, <1>4 DEF IsEnd
      <4>3. InColumn(u, z) \in reach
        BY <1>1, <4>1, <4>2 DEF ColumnsUnbroken
      <4>4. IF up THEN InColumn(v, z + 1) \notin reach ELSE InColumn(v, z - 1) \notin reach
        BY <1>1, <4>1 DEF IsEnd
      <4> QED BY <2>2, <4>1, <4>3, <4>4, BorderIs
    <3>2. InColumn(u, g) \in K
      <4> HIDE DEF a, b
      <4> QED BY <2>1, <3>1, ColumnWalk
    <3>3. InColumn(v, g) \in Border
      BY EndInBorder
    <3> QED BY <1>1, <2>2, <3>2, <3>3 DEF BorderPart
  <2> QED BY <1>1, <2>3, <2>4
<1> QED BY <1>2, <1>3, <1>4

LEMMA TouchSymmetric ==
  ASSUME TypeOK, NEW u \in reach, NEW v \in reach, Touch(u, v)
  PROVE  Touch(v, u)
BY IntParts DEF Touch

\* So a part of the border that has one end of a column has that end of all.
LEMMA AllEnds ==
  ASSUME TypeOK, ColumnsUnbroken, InOnePiece, NEW K, BorderPart(K), NEW up \in BOOLEAN,
         NEW v \in reach, NEW h, IsEnd(v, h, up), InColumn(v, h) \in K,
         NEW u \in reach, NEW g, IsEnd(u, g, up)
  PROVE  InColumn(u, g) \in K
<1> DEFINE W == {w \in reach : \E e \in Int : IsEnd(w, e, up) /\ InColumn(w, e) \in K}
<1>1. \A w \in W : \A x \in reach : Touch(x, w) => x \in W
  <2> SUFFICES ASSUME NEW w \in W, NEW x \in reach, Touch(x, w) PROVE x \in W
    OBVIOUS
  <2>1. PICK e \in Int : IsEnd(w, e, up) /\ InColumn(w, e) \in K
    OBVIOUS
  <2>2. PICK f \in Int : IsEnd(x, f, up)
    BY EndExists
  <2>3. Touch(w, x)
    BY TouchSymmetric
  <2>4. InColumn(x, f) \in K
    BY <2>1, <2>2, <2>3, EndsMeet
  <2> QED BY <2>2, <2>4
<1>2. v \in W
  BY DEF IsEnd
<1>3. W \subseteq reach
  OBVIOUS
<1>4. \A w \in W : \E e \in Int : IsEnd(w, e, up) /\ InColumn(w, e) \in K
  OBVIOUS
<1> HIDE DEF W
<1>5. ClosedIn(W, reach) /\ ClosedIn(reach \ W, reach)
  BY <1>1, <1>3, TouchSymmetric DEF ClosedIn
<1>6. Centre \in W => W = reach
  BY <1>3, <1>5 DEF InOnePiece
<1>7. Centre \notin W => reach \ W = reach
  <2>1. Centre \notin W => Centre \in reach \ W
    BY DEF InOnePiece
  <2> QED BY <1>5, <2>1 DEF InOnePiece
<1>8. u \in W
  BY <1>2, <1>6, <1>7
<1>9. PICK e \in Int : IsEnd(u, e, up) /\ InColumn(u, e) \in K
  BY <1>4, <1>8
<1>10. e = g
  BY <1>9 DEF IsEnd
<1> QED BY <1>9, <1>10

\* From any voxel of the border its column is border to its top or to its bottom.
LEMMA ToAnEnd ==
  ASSUME TypeOK, ColumnsUnbroken, NEW K, BorderPart(K), NEW v \in K
  PROVE  v \in reach /\ \E up \in BOOLEAN : \E h \in Int : IsEnd(v, h, up) /\ InColumn(v, h) \in K
<1>1. v \in reach /\ v \in Border
  BY DEF BorderPart, Border
<1>2. PICK u \in Around(v) : u \notin reach
  BY <1>1, BorderIs
<1>3. /\ v[1] \in Int /\ v[2] \in Int /\ v[3] \in Int /\ InColumn(v, v[3]) = v
  BY <1>1, IntParts
<1>4. /\ u[1] \in v[1] - 1..v[1] + 1 /\ u[2] \in v[2] - 1..v[2] + 1 /\ u[3] \in v[3] - 1..v[3] + 1
      /\ u = <<u[1], u[2], u[3]>>
  BY DEF Around
<1>5. \A z \in Int : InColumn(u, u[3] + (z - v[3])) \in Around(InColumn(v, z))
  BY <1>3, <1>4 DEF InColumn, Around
<1>6. \/ \A z \in Int : z >= u[3] => InColumn(u, z) \notin reach
      \/ \A z \in Int : z <= u[3] => InColumn(u, z) \notin reach
  <2> SUFFICES ASSUME NEW a \in Int, a <= u[3], InColumn(u, a) \in reach,
                      NEW b \in Int, b >= u[3], InColumn(u, b) \in reach
               PROVE  FALSE
    OBVIOUS
  <2>1. \A z : InColumn(InColumn(u, a), z) = InColumn(u, z)
    BY DEF InColumn
  <2>2. u[3] \in Int
    BY <1>3, <1>4
  <2>3. InColumn(u, u[3]) \in reach
    BY <2>1, <2>2 DEF ColumnsUnbroken
  <2> QED BY <1>2, <1>4, <2>3 DEF InColumn
<1>7. ASSUME NEW up \in BOOLEAN,
             \A z \in Int : (IF up THEN z >= u[3] ELSE z <= u[3]) => InColumn(u, z) \notin reach
      PROVE  \E h \in Int : IsEnd(v, h, up) /\ InColumn(v, h) \in K
  <2>1. PICK h \in Int : IsEnd(v, h, up)
    BY <1>1, EndExists
  <2> DEFINE a == IF up THEN v[3] ELSE h
             b == IF up THEN h ELSE v[3]
  <2>2. a \in Int /\ b \in Int /\ v[3] \in a..b /\ h \in a..b
    BY <1>1, <1>3, <2>1 DEF IsEnd
  <2>3. ASSUME NEW z \in a..b PROVE InColumn(v, z) \in Border
    <3>1. z \in Int /\ a <= z /\ z <= b
      BY <2>2
    <3>2. InColumn(v, z) \in reach
      BY <1>1, <1>3, <2>1, <3>1 DEF ColumnsUnbroken, IsEnd
    <3>3. /\ u[3] + (z - v[3]) \in Int
          /\ IF up THEN u[3] + (z - v[3]) >= u[3] ELSE u[3] + (z - v[3]) <= u[3]
      BY <1>3, <1>4, <3>1
    <3>4. InColumn(u, u[3] + (z - v[3])) \notin reach
      BY <1>7, <3>3
    <3> QED BY <1>5, <3>1, <3>2, <3>4, BorderIs
  <2>4. InColumn(v, v[3]) \in K
    BY <1>3
  <2> HIDE DEF a, b
  <2>5. InColumn(v, h) \in K
    BY <1>1, <2>2, <2>3, <2>4, ColumnWalk
  <2> QED BY <2>1, <2>5
<1>8. u[3] \in Int
  BY <1>3, <1>4
<1>9. CASE \A z \in Int : z >= u[3] => InColumn(u, z) \notin reach
  <2>1. \E h \in Int : IsEnd(v, h, TRUE) /\ InColumn(v, h) \in K
    BY <1>7, <1>9
  <2> QED BY <1>1, <2>1
<1>10. CASE \A z \in Int : z <= u[3] => InColumn(u, z) \notin reach
  <2>1. \E h \in Int : IsEnd(v, h, FALSE) /\ InColumn(v, h) \in K
    BY <1>7, <1>10
  <2> QED BY <1>1, <2>1
<1> QED BY <1>6, <1>9, <1>10

\* A column that is furthest along the first axis is border from end to end.
LEMMA SideColumn ==
  ASSUME TypeOK, reach # {}
  PROVE  \E v \in reach : \A z \in Int : InColumn(v, z) \in reach => InColumn(v, z) \in Border
<1> DEFINE W == {n \in Nat : \E v \in reach : v[1] = width - 1 - n}
<1>1. \A v \in reach : v[1] \in 0..width - 1 /\ width \in Nat
  BY ReachInBox, VoxelParts, SizeAssumption
<1>2. W # {}
  <2>1. PICK v \in reach : TRUE
    OBVIOUS
  <2>2. (width - 1) - v[1] \in Nat /\ v[1] = width - 1 - ((width - 1) - v[1])
    BY <1>1, <2>1
  <2> QED BY <2>1, <2>2
<1>3. PICK n \in W : \A m \in W : n <= m
  <2>1. W \subseteq Nat
    OBVIOUS
  <2> HIDE DEF W
  <2> QED BY <1>2, <2>1, LeastOf
<1>4. n \in Nat /\ \E v \in reach : v[1] = width - 1 - n
  OBVIOUS
<1>5. PICK v \in reach : v[1] = width - 1 - n
  BY <1>4
<1>6. \A w \in reach : w[1] <= v[1]
  <2> TAKE w \in reach
  <2>1. (width - 1) - w[1] \in Nat /\ w[1] = width - 1 - ((width - 1) - w[1])
    BY <1>1
  <2>2. n <= (width - 1) - w[1]
    BY <1>3, <2>1
  <2> HIDE DEF W
  <2> QED BY <1>1, <1>4, <1>5, <2>2
<1>7. ASSUME NEW z \in Int, InColumn(v, z) \in reach PROVE InColumn(v, z) \in Border
  <2> DEFINE u == <<v[1] + 1, v[2], z>>
  <2>1. v[1] \in Int /\ v[2] \in Int
    BY <1>5, IntParts
  <2>2. u \in Around(InColumn(v, z))
    BY <2>1 DEF InColumn, Around
  <2>3. u \notin reach
    BY <1>6, <2>1
  <2> QED BY <1>7, <2>2, <2>3, BorderIs
<1> QED BY <1>5, <1>7

\* So a part of the border that is not empty has both ends of every column ...
LEMMA BothEnds ==
  ASSUME TypeOK, ColumnsUnbroken, InOnePiece, NEW K, BorderPart(K), K # {}
  PROVE  \A up \in BOOLEAN : \A u \in reach : \A g \in Int : IsEnd(u, g, up) => InColumn(u, g) \in K
<1>1. PICK v \in K : TRUE
  OBVIOUS
<1>2. PICK way \in BOOLEAN : \E h \in Int : IsEnd(v, h, way) /\ InColumn(v, h) \in K
  BY <1>1, ToAnEnd
<1>3. v \in reach
  BY <1>1, ToAnEnd
<1>4. \A u \in reach : \A g \in Int : IsEnd(u, g, way) => InColumn(u, g) \in K
  BY <1>2, <1>3, AllEnds
<1>5. PICK w \in reach : \A z \in Int : InColumn(w, z) \in reach => InColumn(w, z) \in Border
  BY <1>3, SideColumn
<1>6. ASSUME NEW up \in BOOLEAN PROVE \E g \in Int : IsEnd(w, g, up) /\ InColumn(w, g) \in K
  <2>1. PICK h \in Int : IsEnd(w, h, way)
    BY EndExists
  <2>2. PICK g \in Int : IsEnd(w, g, up)
    BY EndExists
  <2>3. InColumn(w, h) \in K /\ InColumn(w, h) \in reach /\ InColumn(w, g) \in reach
    BY <1>4, <2>1, <2>2 DEF IsEnd
  <2> DEFINE a == IF g <= h THEN g ELSE h
             b == IF g <= h THEN h ELSE g
  <2>4. a \in Int /\ b \in Int /\ h \in a..b /\ g \in a..b
    OBVIOUS
  <2>5. \A z \in a..b : InColumn(w, z) \in Border
    BY <1>5, <2>3 DEF ColumnsUnbroken
  <2> HIDE DEF a, b
  <2>6. InColumn(w, g) \in K
    BY <2>3, <2>4, <2>5, ColumnWalk
  <2> QED BY <2>2, <2>6
<1> QED BY <1>6, AllEnds

\* ... and nothing of the border is left: the border is in one piece.
LEMMA BorderInOnePiece ==
  ASSUME TypeOK, ColumnsUnbroken, InOnePiece
  PROVE  BorderConnected
<1> SUFFICES ASSUME NEW K \in SUBSET Border, K # {},
                    \A v \in K : \A u \in Border \cap Around(v) : u \in K,
                    Border \ K # {}
             PROVE  FALSE
  BY DEF BorderConnected
<1>1. BorderPart(K)
  BY DEF BorderPart
<1>2. BorderPart(Border \ K)
  <2>1. \A v \in Border : \A u \in Border : u \in Around(v) => v \in Around(u)
    BY AroundSymmetric DEF Border
  <2> QED BY <2>1 DEF BorderPart
<1>3. Centre \in reach
  BY DEF InOnePiece
<1>4. PICK h \in Int : IsEnd(Centre, h, TRUE)
  BY <1>3, EndExists
<1>5. InColumn(Centre, h) \in K
  BY <1>1, <1>3, <1>4, BothEnds
<1>6. InColumn(Centre, h) \in Border \ K
  BY <1>2, <1>3, <1>4, BothEnds
<1> QED BY <1>5, <1>6
-----------------------------------------------------------------------------
\* A box has finitely many voxels, which ConnectedIsLeast asks for.
LEMMA VoxelsFinite == \A S \in SUBSET Voxels : IsFiniteSet(S)
<1>1. /\ IsFiniteSet(0..width - 1) /\ IsFiniteSet(0..depth - 1) /\ IsFiniteSet(0..height - 1)
  <2>1. /\ 0 \in Int /\ width - 1 \in Int /\ depth - 1 \in Int /\ height - 1 \in Int
    BY SizeAssumption
  <2> QED BY <2>1, FS_Interval
<1> DEFINE A == 0..width - 1
           B == 0..depth - 1
           C == 0..height - 1
           f(p) == <<p[1][1], p[1][2], p[2]>>
           g == [p \in (A \X B) \X C |-> <<p[1][1], p[1][2], p[2]>>]
<1>2. IsFiniteSet((A \X B) \X C)
  <2> HIDE DEF A, B, C
  <2>1. IsFiniteSet(A) /\ IsFiniteSet(B) /\ IsFiniteSet(C)
    BY <1>1 DEF A, B, C
  <2>2. IsFiniteSet(A \X B)
    BY <2>1, FS_Product
  <2> QED BY <2>1, <2>2, FS_Product
<1>3. g \in Surjection((A \X B) \X C, Voxels)
  <2>1. \A v \in Voxels : \E p \in (A \X B) \X C : g[p] = v
    <3> TAKE v \in Voxels
    <3>1. << <<v[1], v[2]>>, v[3]>> \in (A \X B) \X C /\ v = <<v[1], v[2], v[3]>>
      BY VoxelParts
    <3> QED BY <3>1
  <2>2. g \in [(A \X B) \X C -> Voxels]
    BY DEF Voxels
  <2> QED BY <2>1, <2>2 DEF Surjection
<1>4. IsFiniteSet(Voxels)
  <2> HIDE DEF A, B, C, g
  <2> QED BY <1>2, <1>3, FS_Surjection
<1> QED BY <1>4, FS_Subset

\* What Convex says, without the recursion of Connected.
LEMMA ConvexMeans ==
  ASSUME TypeOK, Convex
  PROVE  ColumnsUnbroken /\ InOnePiece
<1>1. ColumnsUnbroken
  <2> SUFFICES ASSUME NEW u \in reach, NEW a \in Int, NEW b \in Int, NEW z \in Int,
                      InColumn(u, a) \in reach, InColumn(u, b) \in reach, a <= z, z <= b
               PROVE  InColumn(u, z) \in reach
    BY DEF ColumnsUnbroken
  <2> DEFINE v == InColumn(u, a)
             w == InColumn(u, b)
  <2>1. \A j \in 1..3 \ {3} : v[j] = w[j]
    BY DEF InColumn
  <2>2. v[3] = a /\ w[3] = b
    BY DEF InColumn
  <2>3. \A x \in v[3]..w[3] : [v EXCEPT ![3] = x] \in reach
    <3> HIDE DEF v, w
    <3>1. 3 \in 1..3 /\ v \in reach /\ w \in reach
      BY DEF v, w
    <3> QED BY <2>1, <3>1 DEF Convex
  <2>4. [v EXCEPT ![3] = z] \in reach
    BY <2>2, <2>3
  <2>5. [v EXCEPT ![3] = z] = InColumn(u, z)
    BY DEF InColumn
  <2> QED BY <2>4, <2>5
<1>2. InOnePiece
  <2>1. Centre \in Voxels /\ reach \subseteq Voxels
    BY CentreInBox, ReachInBox
  <2>2. IsFiniteSet({Centre} \cup reach)
    BY <2>1, VoxelsFinite
  <2>3. Connected({Centre}, reach) = reach
    BY DEF Convex
  <2>4. /\ {Centre} \subseteq Connected({Centre}, reach)
        /\ \A C \in SUBSET ({Centre} \cup reach) :
             {Centre} \subseteq C /\ ClosedIn(C, reach) => Connected({Centre}, reach) \subseteq C
    BY <2>2, ConnectedIsLeast
  <2> QED BY <2>3, <2>4 DEF InOnePiece
<1> QED BY <1>1, <1>2

\* What is joined to the middle is so by steps inside the border, and all of it is found.
LEMMA JoinedHolds ==
  ASSUME Centre \in Inner
  PROVE  HoldsMiddle(Joined)
BY DEF HoldsMiddle, Joined

\* Joined is what Connected computes.
LEMMA JoinedIsConnected ==
  ASSUME TypeOK, Centre \in Inner
  PROVE  Connected({Centre}, Inner) = Joined
<1>1. {Centre} \cup Inner = Inner /\ Inner \subseteq Voxels
  BY ReachInBox DEF Inner
<1>2. IsFiniteSet({Centre} \cup Inner)
  BY <1>1, VoxelsFinite
<1>3. /\ Connected({Centre}, Inner) \subseteq Inner /\ Centre \in Connected({Centre}, Inner)
      /\ ClosedIn(Connected({Centre}, Inner), Inner)
      /\ \A C \in SUBSET Inner :
           Centre \in C /\ ClosedIn(C, Inner) => Connected({Centre}, Inner) \subseteq C
  BY <1>1, <1>2, ConnectedIsLeast
<1>4. \A T \in SUBSET Inner : HoldsMiddle(T) <=> Centre \in T /\ ClosedIn(T, Inner)
  BY DEF HoldsMiddle, ClosedIn
<1>5. Joined \subseteq Inner
  BY DEF Joined
<1>6. HoldsMiddle(Joined)
  BY JoinedHolds
<1> HIDE DEF Joined
<1>7. Connected({Centre}, Inner) \subseteq Joined
  BY <1>3, <1>4, <1>5, <1>6
<1>8. Joined \subseteq Connected({Centre}, Inner)
  BY <1>3, <1>4 DEF Joined
<1> QED BY <1>7, <1>8

\* The second search does not mark the middle it starts from, and comes back to it only from
\* another voxel inside.
MiddleInv ==
  pc = "fill" /\ Enclosed /\ Joined = {Centre} => Index(Centre) \notin bitmap

LEMMA MiddleStep ==
  ASSUME TypeInv, FillInv, MarksInv, ExactInv, MiddleInv, [Next]_vars
  PROVE  MiddleInv'
<1>1. ASSUME reach' = reach
      PROVE  /\ Joined' = Joined /\ (Index(Centre))' = Index(Centre)
             /\ flooded' = flooded => Enclosed' = Enclosed
  <2>1. Border' = Border /\ Inner' = Inner
    BY <1>1, SameBorder
  <2>2. \A T : HoldsMiddle(T)' = HoldsMiddle(T)
    BY <2>1 DEF HoldsMiddle, Centre, Touch
  <2> QED BY <1>1, <2>1, <2>2 DEF Joined, Index, Centre, Enclosed
<1>2. CASE StartFill
  <2>1. bitmap' = bitmap /\ reach' = reach /\ bitmap \subseteq BorderIndices
    BY <1>2 DEF StartFill, MarksInv
  <2>2. Border' = Border /\ Centre \in Voxels /\ Border \subseteq Voxels
    BY <2>1, SameBorder, CentreInBox, ReachInBox DEF Border, TypeInv
  <2>3. Enclosed' => Centre \notin Border
    BY <2>2 DEF Enclosed, Centre
  <2>4. Centre \notin Border => Index(Centre) \notin bitmap
    BY <2>1, <2>2, IndexInjective DEF BorderIndices
  <2> QED BY <1>1, <2>1, <2>3, <2>4 DEF MiddleInv
<1>3. CASE Fill
  <2>1. /\ bitmap' = bitmap \cup NewInside(Top) /\ reach' = reach /\ flooded' = flooded
        /\ pc = "fill" /\ Top \in cstack
    BY <1>3, TopIsOnStack DEF Fill
  <2>2. ASSUME Enclosed, Joined = {Centre}, Index(Centre) \in NewInside(Top)
        PROVE  FALSE
    <3>1. Centre \in Inner /\ Inner \subseteq Voxels
      BY <2>2, ReachInBox DEF Enclosed, Inner, TypeInv
    <3>2. Joined \in SUBSET Inner /\ HoldsMiddle(Joined)
      BY <3>1, JoinedHolds DEF Joined
    <3>3. Top = Centre
      BY <2>1, <2>2, <3>2 DEF ExactInv
    <3>4. PICK u \in Around(Centre) : Touch(u, Centre) /\ Index(Centre) = Index(u)
      BY <2>2, <3>1, <3>3, FacesAreVoxels DEF NewInside
    <3>5. u \in Voxels
      BY <3>1, <3>4, ReachInBox DEF Inner, Border, hasInvalidNeighbours, isValid, TypeInv
    <3>6. u = Centre
      BY <3>1, <3>4, <3>5, IndexInjective
    <3>7. Centre[1] \in Int /\ Centre[2] \in Int /\ Centre[3] \in Int
      BY <3>1, VoxelParts, SizeAssumption
    <3> QED BY <3>4, <3>6, <3>7 DEF Touch
  <2> QED BY <1>1, <2>1, <2>2 DEF MiddleInv
<1>4. CASE Start \/ Scan \/ Flood
  BY <1>4 DEF Start, Scan, Flood, MiddleInv, isValid
<1>5. CASE UNCHANGED vars
  BY <1>1, <1>5 DEF vars, MiddleInv
<1> QED BY <1>2, <1>3, <1>4, <1>5 DEF Next

\* When both searches are done.
MiddleIsLeftOut == Built /\ Enclosed => (Index(Centre) \in bitmap <=> Joined # {Centre})

\* The middle is left out of the bitmap when nothing is joined to it, and only then.
THEOREM MiddleIsLeftOutCorrect == Spec => []MiddleIsLeftOut
<1>1. Init => MiddleInv
  BY DEF Init, MiddleInv
<1>2. SecondSearch /\ MiddleInv /\ [Next]_vars => MiddleInv'
  BY MiddleStep DEF SecondSearch
<1>3. SecondSearch /\ FillForgetsNothing /\ FillIsExact /\ MiddleInv => MiddleIsLeftOut
  <2> SUFFICES ASSUME SecondSearch, FillForgetsNothing, FillIsExact, Built, Enclosed,
                      Joined # {Centre}
               PROVE  Index(Centre) \in bitmap
    BY DEF MiddleInv, Built, MiddleIsLeftOut
  <2>1. Centre \in Inner /\ Inner \subseteq Voxels /\ Border \subseteq Voxels
    BY ReachInBox DEF Enclosed, Inner, Border, SecondSearch, TypeInv
  <2>2. ~HoldsMiddle({Centre})
    BY <2>1 DEF Joined, HoldsMiddle
  <2>3. PICK u \in Inner : Touch(u, Centre) /\ u # Centre
    BY <2>1, <2>2 DEF HoldsMiddle
  <2>4. u \in Joined
    BY <2>1, <2>3, JoinedHolds DEF HoldsMiddle
  <2>5. Index(u) # Index(Centre)
    BY <2>1, <2>3, IndexInjective
  <2>6. Index(u) \in bitmap
    BY <2>4, <2>5 DEF FillIsExact
  <2>7. Touch(Centre, u)
    BY <2>1, <2>3, TouchSymmetric DEF Inner, SecondSearch, TypeInv
  <2> QED BY <2>1, <2>3, <2>6, <2>7 DEF FillForgetsNothing, Inner
<1> QED BY <1>1, <1>2, <1>3, SecondSearchCorrect, FillForgetsNothingCorrect, FillIsExactCorrect,
           PTL DEF Spec

\* Where no column has a hole and all hangs together the bitmap is exact; the middle is left
\* out of it when the border is all around.
ColumnsAreExact ==
  Built /\ Centre \notin Border /\ ColumnsUnbroken /\ InOnePiece =>
    bitmap = {Index(v) : v \in Border \cup (IF Joined = {Centre} THEN {} ELSE Joined)}

\* The bitmap of generateBoundariesBitmap is exact for every reach in one piece whose columns
\* are unbroken, whatever dents it has along the other two axes.
THEOREM ColumnsAreExactCorrect == Spec => []ColumnsAreExact
<1>1. SecondSearch /\ FillIsExact /\ BorderIsFound /\ MiddleIsLeftOut => ColumnsAreExact
  <2> SUFFICES ASSUME SecondSearch, FillIsExact, BorderIsFound, MiddleIsLeftOut,
                      Built, Centre \notin Border, ColumnsUnbroken, InOnePiece
               PROVE  bitmap = {Index(v) : v \in Border \cup
                                  (IF Joined = {Centre} THEN {} ELSE Joined)}
    BY DEF ColumnsAreExact
  <2>1. BorderConnected
    BY BorderInOnePiece DEF SecondSearch, TypeInv
  <2>2. Enclosed
    BY <2>1 DEF InOnePiece, Enclosed, BorderIsFound, BorderIndices, Built
  <2>3. bitmap \cup {Index(Centre)} = {Index(v) : v \in Border \cup Joined}
    BY <2>2 DEF FillIsExact
  <2>4. Index(Centre) \in bitmap <=> Joined # {Centre}
    BY <2>2 DEF MiddleIsLeftOut
  <2>5. Centre \in Voxels /\ Border \subseteq Voxels
    BY CentreInBox, ReachInBox DEF Border, SecondSearch, TypeInv
  <2>6. Index(Centre) \notin {Index(v) : v \in Border}
    BY <2>5, IndexInjective
  <2> HIDE DEF Joined, Border, Index, Centre
  <2>7. CASE Joined = {Centre}
    BY <2>3, <2>4, <2>6, <2>7
  <2>8. CASE Joined # {Centre}
    BY <2>3, <2>4, <2>8
  <2> QED BY <2>7, <2>8
<1> QED BY <1>1, SecondSearchCorrect, FillIsExactCorrect, BorderIsFoundCorrect,
           MiddleIsLeftOutCorrect, PTL

\* What is reachable without dents and holes, around the middle, gets the bitmap it should:
\* ConvexIsExact.
THEOREM ConvexIsExactCorrect == Spec => []ConvexIsExact
<1>1. TypeOK /\ ColumnsAreExact => ConvexIsExact
  <2> SUFFICES ASSUME TypeOK, ColumnsAreExact, Built, Centre \notin Border, Convex
               PROVE  /\ bitmap = {Index(v) : v \in Border \cup
                                     (IF Joined = {Centre} THEN {} ELSE Joined)}
                      /\ Connected({Centre}, reach \ Border) = Joined
    BY DEF ConvexIsExact
  <2>1. ColumnsUnbroken /\ InOnePiece
    BY ConvexMeans
  <2>2. Centre \in Inner
    BY <2>1 DEF InOnePiece, Inner
  <2> QED BY <2>1, <2>2, JoinedIsConnected DEF ColumnsAreExact, Inner
<1> QED BY <1>1, TypeCorrect, ColumnsAreExactCorrect, PTL
-----------------------------------------------------------------------------
\* The sizes of a bitmap and a stack.
LEMMA Counts ==
  ASSUME NEW marked, marked \subseteq 0..Size - 1, NEW stack, stack \subseteq Voxels
  PROVE  /\ Size \in Nat \ {0} /\ IsFiniteSet(marked) /\ IsFiniteSet(stack)
         /\ Cardinality(marked) \in 0..Size /\ Cardinality(stack) \in Nat
<1>1. Size \in Nat \ {0}
  BY Sizes, SizeAssumption
<1>2. IsFiniteSet(0..Size - 1) /\ Cardinality(0..Size - 1) = Size
  <2>1. 0 \in Int /\ Size - 1 \in Int /\ ~(0 > Size - 1) /\ (Size - 1) - 0 + 1 = Size
    BY <1>1
  <2> QED BY <2>1, FS_Interval
<1>3. IsFiniteSet(marked) /\ Cardinality(marked) <= Size
  BY <1>2, FS_Subset
<1>4. IsFiniteSet(stack)
  BY VoxelsFinite
<1>5. Cardinality(marked) \in Nat /\ Cardinality(stack) \in Nat
  BY <1>3, <1>4, FS_CardinalityType
<1> QED BY <1>1, <1>3, <1>4, <1>5

\* What is left of a search's work.
Todo(marked, stack) == 2 * (Size - Cardinality(marked)) + Cardinality(stack)

\* How many steps the constructor has left at most: a voxel comes on the stack only when its
\* bit is set, and each step takes one off.
StepsLeft ==
  CASE pc = "start"  -> 2 * Size + width + 3
    [] pc = "scan"   -> 2 * Size + (width - right) + 2
    [] pc = "flood"  -> Todo(bitmap, cstack) + 2
    [] pc = "fill"   -> Todo(bitmap, cstack)
    [] pc = "thrown" -> 0

\* One step of a search, which sets the bits of N and puts their voxels on the stack.
LEMMA OneStepLess ==
  ASSUME TypeOK, NEW N, N \subseteq 0..Size - 1, N \cap bitmap = {}, NEW t \in cstack
  PROVE  Todo(bitmap \cup N, (cstack \ {t}) \cup {Voxel(i) : i \in N}) < Todo(bitmap, cstack)
<1> DEFINE P == {Voxel(i) : i \in N}
<1>1. /\ Size \in Nat \ {0} /\ IsFiniteSet(bitmap) /\ IsFiniteSet(cstack)
      /\ Cardinality(bitmap) \in 0..Size /\ Cardinality(cstack) \in Nat
  BY Counts DEF TypeOK
<1>2. IsFiniteSet(N)
  <2>1. 0 \in Int /\ Size - 1 \in Int
    BY <1>1
  <2>2. IsFiniteSet(0..Size - 1)
    BY <2>1, FS_Interval
  <2> QED BY <2>2, FS_Subset
<1>3. IsFiniteSet(P) /\ Cardinality(P) <= Cardinality(N)
  <2> DEFINE f == [i \in N |-> Voxel(i)]
  <2>1. f \in [N -> P] /\ \A v \in P : \E i \in N : f[i] = v
    OBVIOUS
  <2> HIDE DEF f, P
  <2>2. f \in Surjection(N, P)
    BY <2>1 DEF Surjection
  <2> QED BY <1>2, <2>2, FS_Surjection
<1> HIDE DEF P
<1>4. Cardinality(N) \in Nat /\ Cardinality(P) \in Nat
  BY <1>2, <1>3, FS_CardinalityType
<1>5. Cardinality(bitmap \cup N) = Cardinality(bitmap) + Cardinality(N)
  <2>1. Cardinality(bitmap \cup N) = Cardinality(bitmap) + Cardinality(N) - Cardinality(bitmap \cap N)
    BY <1>1, <1>2, FS_Union
  <2>2. Cardinality(bitmap \cap N) = 0
    <3>1. bitmap \cap N = {}
      OBVIOUS
    <3> QED BY <3>1, FS_EmptySet
  <2> QED BY <1>1, <1>4, <2>1, <2>2
<1>6. IsFiniteSet(cstack \ {t}) /\ Cardinality(cstack \ {t}) = Cardinality(cstack) - 1
  BY <1>1, FS_RemoveElement
<1>7. Cardinality((cstack \ {t}) \cup P) <= Cardinality(cstack) - 1 + Cardinality(P)
      /\ Cardinality((cstack \ {t}) \cup P) \in Nat
  <2>1. /\ IsFiniteSet((cstack \ {t}) \cup P) /\ IsFiniteSet((cstack \ {t}) \cap P)
        /\ Cardinality((cstack \ {t}) \cup P)
             = Cardinality(cstack \ {t}) + Cardinality(P) - Cardinality((cstack \ {t}) \cap P)
    BY <1>3, <1>6, FS_Union, FS_Intersection
  <2>2. Cardinality((cstack \ {t}) \cap P) \in Nat /\ Cardinality((cstack \ {t}) \cup P) \in Nat
    BY <2>1, FS_CardinalityType
  <2> QED BY <1>1, <1>4, <1>6, <2>1, <2>2
<1> QED BY <1>1, <1>3, <1>4, <1>5, <1>7 DEF Todo, P

\* generateBoundariesBitmap ends, with a bitmap or an exception, after at most the steps that
\* are left at its start, for boxes of any size and whatever is reachable.
THEOREM StepsAreCountedCorrect ==
  Spec => [](StepsLeft \in Nat) /\ [][StepsLeft' < StepsLeft]_vars
<1>1. TypeInv => StepsLeft \in Nat
  <2> SUFFICES ASSUME TypeInv PROVE StepsLeft \in Nat
    OBVIOUS
  <2>1. /\ Size \in Nat \ {0} /\ Cardinality(bitmap) \in 0..Size /\ Cardinality(cstack) \in Nat
    BY Counts DEF TypeInv, TypeOK
  <2>2. right \in 0..width /\ width \in Nat /\ pc \in {"start", "scan", "thrown", "flood", "fill"}
    BY SizeAssumption DEF TypeInv, TypeOK
  <2>3. Todo(bitmap, cstack) \in Nat
    BY <2>1 DEF Todo
  <2> QED BY <2>1, <2>2, <2>3 DEF StepsLeft
<1>2. TypeInv /\ [Next]_vars => [StepsLeft' < StepsLeft]_vars
  <2> SUFFICES ASSUME TypeInv, Next PROVE StepsLeft' < StepsLeft
    BY DEF vars
  <2>1. /\ Size \in Nat \ {0} /\ Cardinality(bitmap) \in 0..Size /\ Cardinality(cstack) \in Nat
    BY Counts DEF TypeInv, TypeOK
  <2>2. right \in 0..width /\ width \in Nat /\ Size' = Size
    BY SizeAssumption DEF TypeInv, TypeOK, Size
  <2>3. /\ Todo(bitmap, cstack)' \in Int /\ Todo(bitmap, cstack) \in Int
        /\ Todo(bitmap, cstack)' = Todo(bitmap', cstack')
    <3>1. bitmap' \subseteq 0..Size - 1 /\ cstack' \subseteq Voxels
      BY <2>2, TypeInvStep DEF TypeInv, TypeOK, Voxels
    <3>2. Cardinality(bitmap') \in 0..Size /\ Cardinality(cstack') \in Nat
      BY <3>1, Counts
    <3> QED BY <2>1, <2>2, <3>2 DEF Todo
  <2>4. CASE Start
    <3>1. pc = "start" /\ pc' \in {"scan", "thrown"} /\ right' = right
      BY <2>4 DEF Start
    <3> QED BY <2>1, <2>2, <3>1 DEF StepsLeft
  <2>5. CASE Scan
    <3>1. CASE right < width /\ AtRow(right) \in reach
      <4>1. pc = "scan" /\ pc' = "scan" /\ right' = right + 1
        BY <2>5, <3>1 DEF Scan, isValid
      <4> QED BY <2>1, <2>2, <3>1, <4>1 DEF StepsLeft
    <3>2. CASE ~(right < width /\ AtRow(right) \in reach)
      <4>1. /\ pc = "scan" /\ pc' = "flood"
            /\ bitmap' = {Index(AtRow(right - 1))} /\ cstack' = {AtRow(right - 1)}
        BY <2>5, <3>2 DEF Scan, isValid
      <4>2. Cardinality(bitmap') = 1 /\ Cardinality(cstack') = 1
        BY <4>1, FS_Singleton
      <4> QED BY <2>1, <2>2, <4>1, <4>2 DEF StepsLeft, Todo
    <3> QED BY <3>1, <3>2
  <2>6. CASE Flood
    <3> DEFINE N == {Index(u) : u \in NewBorder(Top)}
    <3>1. /\ pc = "flood" /\ pc' = "flood" /\ Top \in cstack
          /\ bitmap' = bitmap \cup N /\ cstack' = (cstack \ {Top}) \cup NewBorder(Top)
      BY <2>6, TopIsOnStack DEF Flood
    <3>2. NewBorder(Top) \subseteq Voxels /\ N \cap bitmap = {}
      BY DEF NewBorder
    <3>3. N \subseteq 0..Size - 1
      BY <3>2, IndexInArray
    <3>4. NewBorder(Top) = {Voxel(i) : i \in N}
      BY <3>2, VoxelOfIndex
    <3> HIDE DEF N
    <3>5. Todo(bitmap', cstack') < Todo(bitmap, cstack)
      BY <3>1, <3>2, <3>3, <3>4, OneStepLess DEF TypeInv
    <3> QED BY <2>3, <3>1, <3>5 DEF StepsLeft
  <2>7. CASE StartFill
    <3>1. /\ pc = "flood" /\ pc' = "fill" /\ bitmap' = bitmap /\ cstack = {} /\ cstack' = {Centre}
      BY <2>7 DEF StartFill
    <3>2. Cardinality(cstack) = 0 /\ Cardinality(cstack') = 1
      BY <3>1, FS_EmptySet, FS_Singleton
    <3> QED BY <2>1, <2>2, <3>1, <3>2 DEF StepsLeft, Todo
  <2>8. CASE Fill
    <3> DEFINE N == NewInside(Top)
    <3>1. /\ pc = "fill" /\ pc' = "fill" /\ Top \in cstack
          /\ bitmap' = bitmap \cup N /\ cstack' = (cstack \ {Top}) \cup {Voxel(i) : i \in N}
      BY <2>8, TopIsOnStack DEF Fill
    <3>2. N \cap bitmap = {} /\ N \subseteq 0..Size - 1
      BY <3>1, NewInsideInArray DEF NewInside, TypeInv, TypeOK
    <3> HIDE DEF N
    <3>3. Todo(bitmap', cstack') < Todo(bitmap, cstack)
      BY <3>1, <3>2, OneStepLess DEF TypeInv
    <3> QED BY <2>3, <3>1, <3>3 DEF StepsLeft
  <2> QED BY <2>4, <2>5, <2>6, <2>7, <2>8 DEF Next
<1> QED BY <1>1, <1>2, TypeInvCorrect, PTL DEF Spec
-----------------------------------------------------------------------------
\* What \div gives for any number, and between which bounds it stays.
LEMMA FloorBounds ==
  ASSUME NEW a \in Int, NEW b \in Nat \ {0}
  PROVE  /\ a \div b \in Int
         /\ (a \div b) * b <= a
         /\ a < (a \div b) * b + b
BY SMT

LEMMA Products ==
  ASSUME NEW a \in Int, NEW b \in Int, NEW c \in Int
  PROVE  /\ a * b \in Int /\ a * b = b * a
         /\ (a * b) * c = a * (b * c)
         /\ (a + b) * c = a * c + b * c /\ (a - b) * c = a * c - b * c
BY SMT

LEMMA TimesMonotone ==
  ASSUME NEW a \in Int, NEW b \in Int, NEW c \in Nat, a <= b
  PROVE  a * c <= b * c /\ a * c \in Int /\ b * c \in Int
BY SMT

LEMMA PositiveProduct ==
  ASSUME NEW a \in Nat \ {0}, NEW b \in Nat \ {0}
  PROVE  a * b \in Nat \ {0} /\ a <= a * b /\ b <= a * b
BY SMT

LEMMA FloorWithin ==
  ASSUME NEW a \in Int, NEW b \in Nat \ {0}, NEW lo \in Int, NEW hi \in Int,
         lo * b <= a, a < hi * b
  PROVE  a \div b \in lo..hi - 1
<1> DEFINE q == a \div b
<1>1. q \in Int /\ q * b <= a /\ a < q * b + b
  BY FloorBounds, Zenon
<1> HIDE DEF q
<1>2. ~(q + 1 <= lo)
  <2> SUFFICES ASSUME q + 1 <= lo PROVE FALSE
    OBVIOUS
  <2>1. (q + 1) * b <= lo * b
    BY <1>1, TimesMonotone
  <2>2. (q + 1) * b = q * b + b
    BY <1>1
  <2> QED BY <1>1, <2>1, <2>2
<1>3. ~(hi <= q)
  <2> SUFFICES ASSUME hi <= q PROVE FALSE
    OBVIOUS
  <2>1. hi * b <= q * b
    BY <1>1, TimesMonotone
  <2> QED BY <1>1, <2>1
<1>4. q \in lo..hi - 1
  BY <1>1, <1>2, <1>3
<1> QED BY <1>4 DEF q

LEMMA FloorMonotone ==
  ASSUME NEW a \in Int, NEW c \in Int, NEW b \in Nat \ {0}, a <= c
  PROVE  a \div b <= c \div b
<1> DEFINE p == a \div b
           q == c \div b
<1>1. /\ p \in Int /\ p * b <= a /\ a < p * b + b
      /\ q \in Int /\ q * b <= c /\ c < q * b + b
  BY FloorBounds, Zenon
<1> HIDE DEF p, q
<1>2. ~(q + 1 <= p)
  <2> SUFFICES ASSUME q + 1 <= p PROVE FALSE
    OBVIOUS
  <2>1. (q + 1) * b <= p * b
    BY <1>1, TimesMonotone
  <2>2. (q + 1) * b = q * b + b
    BY <1>1
  <2> QED BY <1>1, <2>1, <2>2
<1>3. p <= q
  BY <1>1, <1>2
<1> QED BY <1>3 DEF p, q

LEMMA FloorScale ==
  ASSUME NEW a \in Int, NEW b \in Nat \ {0}, NEW m \in Nat \ {0}
  PROVE  (a * m) \div (m * b) = a \div b
<1> DEFINE q == a \div b
<1>1. q \in Int /\ q * b <= a /\ a + 1 <= q * b + b
  BY FloorBounds, SMT
<1> HIDE DEF q
<1>2. m * b \in Nat \ {0} /\ a * m \in Int
  BY PositiveProduct
<1>3. q * (m * b) = (q * b) * m
  <2>1. m * b = b * m /\ (q * b) * m = q * (b * m)
    BY <1>1, Products
  <2> QED BY <2>1
<1>4. q * (m * b) <= a * m
  BY <1>1, <1>3, TimesMonotone
<1>5. a * m < (q + 1) * (m * b)
  <2>1. (a + 1) * m <= (q * b + b) * m
    BY <1>1, TimesMonotone
  <2>2. (a + 1) * m = a * m + m
    BY <1>1
  <2>3. (q * b + b) * m = (q * b) * m + b * m
    BY <1>1
  <2>4. (q + 1) * (m * b) = q * (m * b) + m * b
    BY <1>1, <1>2
  <2>5. b * m = m * b /\ (q * b) * m \in Int
    BY <1>1
  <2> QED BY <1>2, <1>3, <2>1, <2>2, <2>3, <2>4, <2>5
<1>6. (a * m) \div (m * b) \in q..(q + 1) - 1
  BY <1>1, <1>2, <1>4, <1>5, FloorWithin
<1>7. (a * m) \div (m * b) = q
  BY <1>1, <1>6
<1> QED BY <1>7 DEF q

\* The conversion to int is less than one away from what it converts, keeps the order
\* of what it converts, and does not depend on the unit.
LEMMA CutBounds ==
  ASSUME NEW a \in Int, NEW b \in Nat \ {0}
  PROVE  Cut(a, b) \in Int /\ Cut(a, b) * b < a + b /\ a < Cut(a, b) * b + b
<1>1. CASE a >= 0
  BY <1>1, FloorBounds DEF Cut
<1>2. CASE a < 0
  <2> DEFINE q == (-a) \div b
  <2>1. q \in Int /\ q * b <= -a /\ -a < q * b + b
    BY FloorBounds, -a \in Int, Zenon
  <2>2. Cut(a, b) = -q
    BY <1>2 DEF Cut
  <2> HIDE DEF q
  <2>3. (-q) * b = -(q * b) /\ q * b \in Int
    BY <2>1
  <2> QED BY <2>1, <2>2, <2>3
<1> QED BY <1>1, <1>2

LEMMA CutMonotone ==
  ASSUME NEW a \in Int, NEW c \in Int, NEW b \in Nat \ {0}, a <= c
  PROVE  Cut(a, b) <= Cut(c, b)
<1>0. \A n \in Nat : n \div b \in Nat
  BY Division
<1>1. CASE a >= 0
  BY <1>1, FloorMonotone DEF Cut
<1>2. CASE c < 0
  <2>1. (-c) \div b <= (-a) \div b
    BY FloorMonotone
  <2>2. (-c) \div b \in Nat /\ (-a) \div b \in Nat
    BY <1>0, <1>2
  <2> QED BY <1>2, <2>1, <2>2 DEF Cut
<1>3. CASE a < 0 /\ c >= 0
  <2>1. (-a) \div b \in Nat /\ c \div b \in Nat
    BY <1>0, <1>3
  <2> QED BY <1>3, <2>1 DEF Cut
<1> QED BY <1>1, <1>2, <1>3

LEMMA CutScale ==
  ASSUME NEW a \in Int, NEW b \in Nat \ {0}, NEW m \in Nat \ {0}
  PROVE  Cut(a * m, m * b) = Cut(a, b)
<1>1. CASE a >= 0
  <2>1. a * m >= 0
    BY <1>1, TimesMonotone
  <2> QED BY <1>1, <2>1, FloorScale DEF Cut
<1>2. CASE a < 0
  <2>1. a * m < 0
    BY <1>2
  <2>2. -(a * m) = (-a) * m
    OBVIOUS
  <2>3. ((-a) * m) \div (m * b) = (-a) \div b
    BY FloorScale
  <2> QED BY <1>2, <2>1, <2>2, <2>3 DEF Cut
<1> QED BY <1>1, <1>2

LEMMA NearStart ==
  ASSUME NEW f \in Int, NEW b \in Int, NEW m \in Int,
         NEW g \in Nat \ {0}, NEW s \in Nat \ {0}, NEW l \in Nat \ {0},
         m < l * g, -m < l * g
  PROVE  (f * l + m - b * g * l) \div (l * s * g)
           \in ((f - b * g) \div (s * g)) - 1..((f - b * g) \div (s * g)) + 1
<1> DEFINE a == f - b * g
           d == s * g
           q == a \div d
           n == f * l + m - b * g * l
           D == l * s * g
<1>1. a \in Int /\ d \in Nat \ {0} /\ g <= d
  BY PositiveProduct
<1>2. q \in Int /\ q * d <= a /\ a <= q * d + d
  <2> HIDE DEF a, d
  <2> QED BY <1>1, FloorBounds
<1>3. n = a * l + m
  <2>1. (f - b * g) * l = f * l - (b * g) * l /\ f * l \in Int /\ (b * g) * l \in Int
    BY Products
  <2> QED BY <2>1
<1>4. D = d * l /\ D \in Nat \ {0} /\ l * g <= D
  <2>1. l * s * g = l * (s * g) /\ l * (s * g) = (s * g) * l
    BY Products, <1>1
  <2>2. d * l \in Nat \ {0} /\ g * l <= d * l /\ g * l = l * g
    BY <1>1, PositiveProduct, TimesMonotone, Products
  <2> QED BY <2>1, <2>2
<1> HIDE DEF a, d, n, D
<1> HIDE DEF q
<1>5. /\ (q * d) * l <= a * l /\ a * l <= (q * d + d) * l
      /\ a * l \in Int
  BY <1>1, <1>2, TimesMonotone
<1>6. (q * d) * l = q * D /\ (q * d + d) * l = q * D + D /\ q * D \in Int
  <2>1. (q * d) * l = q * (d * l) /\ (q * d + d) * l = (q * d) * l + d * l
    BY <1>1, <1>2, Products
  <2> QED BY <2>1, <1>2, <1>4
<1>7. (q - 1) * D = q * D - D /\ (q + 2) * D = q * D + D + D
  BY <1>2, <1>4
<1>8. n \in Int /\ (q - 1) * D <= n /\ n < (q + 2) * D
  BY <1>3, <1>4, <1>5, <1>6, <1>7
<1>9. n \div D \in q - 1..(q + 2) - 1
  <2>1. q - 1 \in Int /\ q + 2 \in Int
    BY <1>2
  <2> QED BY <2>1, <1>4, <1>8, FloorWithin, Zenon
<1>10. n \div D \in q - 1..q + 1
  BY <1>2, <1>9
<1> QED BY <1>10 DEF q, n, D, a, d

\* A place less than a millimeter further than the one a sample was cut off from is in
\* the voxel of the sample or in the next one, if a voxel measures more than a millimeter.
LEMMA NearSample ==
  ASSUME NEW N \in Int, NEW M \in Int, NEW b \in Int, NEW D \in Nat \ {0},
         NEW s \in Nat \ {0, 1}, M - N < D, N - M < D
  PROVE  (M - b * D) \div (s * D)
           \in ((Cut(N, D) - b) \div s) - 1..((Cut(N, D) - b) \div s) + 1
<1> DEFINE x == Cut(N, D)
           y == x - b
           w == y \div s
<1>1. x \in Int /\ x * D < N + D /\ N < x * D + D
  BY CutBounds
<1> HIDE DEF x
<1>2. y \in Int /\ w \in Int /\ w * s <= y /\ y + 1 <= w * s + s
  <2>1. y \in Int
    BY <1>1
  <2> HIDE DEF y
  <2> QED BY <2>1, FloorBounds, SMT
<1>3. y * D = x * D - b * D /\ x * D \in Int /\ b * D \in Int
  BY <1>1
<1> HIDE DEF y, w
<1>4. s * D \in Nat \ {0} /\ D + D <= s * D /\ w * (s * D) \in Int
  <2>1. 2 * D <= s * D
    BY TimesMonotone, 2 \in Int, 2 <= s
  <2> QED BY <1>2, <2>1, PositiveProduct
<1>5. (w * s) * D <= y * D /\ (y + 1) * D <= (w * s + s) * D
  BY <1>2, TimesMonotone
<1>6. /\ (w * s) * D = w * (s * D) /\ (w * s + s) * D = w * (s * D) + s * D
      /\ (y + 1) * D = y * D + D
  <2>1. (w * s) * D = w * (s * D)
    BY <1>2, Products
  <2>2. (w * s + s) * D = (w * s) * D + s * D
    BY <1>2, Products
  <2>3. (y + 1) * D = y * D + 1 * D
    BY <1>2, Products
  <2> QED BY <2>1, <2>2, <2>3
<1>7. (w - 1) * (s * D) = w * (s * D) - s * D /\ (w + 2) * (s * D) = w * (s * D) + s * D + s * D
  BY <1>2, <1>4
<1>8. /\ M - b * D \in Int
      /\ (w - 1) * (s * D) <= M - b * D
      /\ M - b * D < (w + 2) * (s * D)
  BY <1>1, <1>3, <1>4, <1>5, <1>6, <1>7
<1>9. (M - b * D) \div (s * D) \in w - 1..(w + 2) - 1
  <2>1. w - 1 \in Int /\ w + 2 \in Int
    BY <1>2
  <2> QED BY <2>1, <1>4, <1>8, FloorWithin, Zenon
<1>10. (M - b * D) \div (s * D) \in w - 1..w + 1
  BY <1>2, <1>9
<1> QED BY <1>10 DEF w, y, x

\* What is sampled along an axis lies between the ends, all cut off alike.
LEMMA SampleBetween ==
  ASSUME NEW f \in Int, NEW t \in Int, NEW g \in Nat \ {0}, NEW l \in Nat \ {0},
         NEW q \in 0..l, NEW lo \in Int, NEW hi \in Int,
         lo <= Cut(f, g), lo <= Cut(t, g), Cut(f, g) <= hi, Cut(t, g) <= hi
  PROVE  lo <= Cut(f * l + (t - f) * q, l * g) /\ Cut(f * l + (t - f) * q, l * g) <= hi
<1> DEFINE n == f * l + (t - f) * q
           D == l * g
<1>1. D \in Nat \ {0}
  BY PositiveProduct
<1>2. Cut(f * l, D) = Cut(f, g) /\ Cut(t * l, D) = Cut(t, g)
  BY CutScale
<1>3. n = t * l - (t - f) * (l - q) /\ n \in Int /\ f * l \in Int /\ t * l \in Int
  <2>1. (t - f) * (l - q) = (t - f) * l - (t - f) * q /\ (t - f) * l = t * l - f * l
    OBVIOUS
  <2> QED BY <2>1
<1>4. /\ (t - f) * q \in Int /\ (t - f) * (l - q) \in Int
      /\ f <= t => 0 <= (t - f) * q /\ 0 <= (t - f) * (l - q)
      /\ t <= f => (t - f) * q <= 0 /\ (t - f) * (l - q) <= 0
  <2>1. f <= t => 0 * q <= (t - f) * q /\ 0 * (l - q) <= (t - f) * (l - q)
    BY TimesMonotone
  <2>2. t <= f => (t - f) * q <= 0 * q /\ (t - f) * (l - q) <= 0 * (l - q)
    BY TimesMonotone
  <2> QED BY <2>1, <2>2
<1>5. \/ f * l <= n /\ n <= t * l
      \/ t * l <= n /\ n <= f * l
  BY <1>3, <1>4
<1>6. Cut(n, D) \in Int /\ Cut(f, g) \in Int /\ Cut(t, g) \in Int
  BY <1>1, <1>3, CutBounds
<1> HIDE DEF n, D
<1>7. \/ Cut(f, g) <= Cut(n, D) /\ Cut(n, D) <= Cut(t, g)
      \/ Cut(t, g) <= Cut(n, D) /\ Cut(n, D) <= Cut(f, g)
  <2>1. CASE f * l <= n /\ n <= t * l
    <3>1. Cut(f * l, D) <= Cut(n, D) /\ Cut(n, D) <= Cut(t * l, D)
      BY <1>1, <1>3, <2>1, CutMonotone
    <3> QED BY <3>1, <1>2
  <2>2. CASE t * l <= n /\ n <= f * l
    <3>1. Cut(t * l, D) <= Cut(n, D) /\ Cut(n, D) <= Cut(f * l, D)
      BY <1>1, <1>3, <2>2, CutMonotone
    <3> QED BY <3>1, <1>2
  <2> QED BY <1>5, <2>1, <2>2
<1>8. lo <= Cut(n, D) /\ Cut(n, D) <= hi
  BY <1>6, <1>7
<1> QED BY <1>8 DEF n, D

LEMMA PointParts ==
  ASSUME NEW p \in Points
  PROVE  /\ p = <<p[1], p[2], p[3]>>
         /\ p[1] \in Int /\ p[2] \in Int /\ p[3] \in Int
         /\ boxMin[1] \in Int /\ boxMin[2] \in Int /\ boxMin[3] \in Int
BY PointsAssumption

LEMMA LongestSide ==
  ASSUME NEW from \in Points, NEW to \in Points, from # to
  PROVE  /\ largestLength(from, to) \in Nat \ {0}
         /\ \A k \in 1..3 : /\ to[k] - from[k] <= largestLength(from, to)
                            /\ from[k] - to[k] <= largestLength(from, to)
<1> DEFINE d(k) == Size1(to[k] - from[k])
           l == largestLength(from, to)
<1>1. /\ d(1) \in Nat /\ d(2) \in Nat /\ d(3) \in Nat
      /\ \A k \in 1..3 : to[k] - from[k] <= d(k) /\ from[k] - to[k] <= d(k)
  BY PointParts DEF Size1
<1>2. d(1) > 0 \/ d(2) > 0 \/ d(3) > 0
  BY PointParts DEF Size1
<1>3. l = CHOOSE n \in {d(1), d(2), d(3)} : \A k \in 1..3 : d(k) <= n
  BY DEF largestLength
<1> HIDE DEF d, l
<1>4. \E n \in {d(1), d(2), d(3)} : \A k \in 1..3 : d(k) <= n
  <2>1. \E n \in {d(1), d(2), d(3)} : d(1) <= n /\ d(2) <= n /\ d(3) <= n
    BY <1>1
  <2> QED BY <2>1
<1>5. l \in {d(1), d(2), d(3)} /\ \A k \in 1..3 : d(k) <= l
  BY <1>3, <1>4, Zenon
<1>6. d(1) <= l /\ d(2) <= l /\ d(3) <= l
  BY <1>5
<1>7. l \in Nat \ {0}
  BY <1>1, <1>2, <1>5, <1>6
<1>8. \A k \in 1..3 : to[k] - from[k] <= l /\ from[k] - to[k] <= l
  <2> TAKE k \in 1..3
  <2>1. to[k] \in Int /\ from[k] \in Int
    BY PointParts
  <2>2. d(k) \in Nat /\ d(k) <= l
    BY <1>1, <1>5
  <2> QED BY <1>1, <1>7, <2>1, <2>2
<1> QED BY <1>7, <1>8 DEF l

\* Less than a millimeter along the longest side is less than one along each axis.
LEMMA LessThanOneStep ==
  ASSUME NEW v \in Int, NEW l \in Nat \ {0}, NEW g \in Nat \ {0}, NEW r \in 0..g - 1,
         v <= l, -v <= l
  PROVE  v * r \in Int /\ v * r < l * g /\ -(v * r) < l * g
<1>1. v * r <= l * r /\ (-v) * r <= l * r /\ (-v) * r = -(v * r)
  BY TimesMonotone
<1>2. r * l <= (g - 1) * l /\ (g - 1) * l = g * l - l
  BY TimesMonotone
<1>3. r * l = l * r /\ g * l = l * g /\ l * g \in Int /\ l * r \in Int
  OBVIOUS
<1> QED BY <1>1, <1>2, <1>3

\* What is on the path before the first sample is next to the voxel of its start.
LEMMA StartIsNear ==
  ASSUME NEW from \in Points, NEW to \in Points, from # to,
         NEW j \in 0..Grain - 1
  PROVE  \A k \in 1..3 : VoxelAt(from, to, j)[k] \in VoxelOf(from)[k] - 1..VoxelOf(from)[k] + 1
<1> DEFINE l == largestLength(from, to)
<1>1. l \in Nat \ {0}
  BY LongestSide
<1> TAKE k \in 1..3
<1>2. to[k] - from[k] <= l /\ from[k] - to[k] <= l
  BY LongestSide
<1>3. from[k] \in Int /\ to[k] \in Int /\ boxMin[k] \in Int
  BY PointParts
<1>4. VoxelAt(from, to, j)[k]
        = (from[k] * l + (to[k] - from[k]) * j - boxMin[k] * Grain * l) \div (l * voxelSize * Grain)
  BY DEF VoxelAt
<1>5. VoxelOf(from)[k] = (from[k] - boxMin[k] * Grain) \div (voxelSize * Grain)
  BY DEF VoxelOf
<1> HIDE DEF l
<1> DEFINE m == (to[k] - from[k]) * j
<1>6. m \in Int /\ m < l * Grain /\ -m < l * Grain
  <2>1. to[k] - from[k] \in Int /\ -(to[k] - from[k]) <= l
    BY <1>2, <1>3
  <2> QED BY <1>1, <1>2, <2>1, LessThanOneStep, GrainAssumption, Zenon
<1> HIDE DEF m
<1>7. (from[k] * l + m - boxMin[k] * Grain * l) \div (l * voxelSize * Grain)
        \in ((from[k] - boxMin[k] * Grain) \div (voxelSize * Grain)) - 1
            ..((from[k] - boxMin[k] * Grain) \div (voxelSize * Grain)) + 1
  BY <1>1, <1>3, <1>6, NearStart, GrainAssumption, Zenon
<1> QED BY <1>4, <1>5, <1>7 DEF m

\* The millimeter that a sample stands for, before it is made relative to the box.
SampledAt(from, to, i) ==
  [k \in 1..3 |-> Cut(from[k] * largestLength(from, to) + (to[k] - from[k]) * i * Grain,
                      largestLength(from, to) * Grain)]

\* What is on the path between two samples is next to the voxel of the first one.
LEMMA PlaceAlong ==
  ASSUME NEW from, NEW to, NEW j, NEW k \in 1..3
  PROVE  VoxelAt(from, to, j)[k]
           = (from[k] * largestLength(from, to) + (to[k] - from[k]) * j
                - boxMin[k] * Grain * largestLength(from, to))
               \div (largestLength(from, to) * voxelSize * Grain)
BY DEF VoxelAt

LEMMA SampleIsNear ==
  ASSUME NEW from \in Points, NEW to \in Points, from # to, voxelSize # 1,
         NEW i \in Nat, NEW r \in 0..Grain - 1, NEW j, j = Number(i, Grain, r),
         NEW k \in 1..3, SampledAt(from, to, i)[k] >= boxMin[k]
  PROVE  VoxelAt(from, to, j)[k]
           \in Sample(from, to, i)[k] - 1..Sample(from, to, i)[k] + 1
<1> DEFINE l == largestLength(from, to)
           v == to[k] - from[k]
           N == from[k] * l + v * i * Grain
           M == from[k] * l + v * j
           D == l * Grain
           b == boxMin[k]
           w == (Cut(N, D) - b) \div voxelSize
<1>1. l \in Nat \ {0} /\ v <= l /\ -v <= l /\ v \in Int /\ from[k] \in Int /\ b \in Int
  <2>1. from[k] \in Int /\ to[k] \in Int /\ b \in Int
    BY PointParts
  <2>2. to[k] - from[k] <= l /\ from[k] - to[k] <= l /\ l \in Nat \ {0}
    BY LongestSide
  <2> QED BY <2>1, <2>2
<1>2. VoxelAt(from, to, j)[k] = (M - b * Grain * l) \div (l * voxelSize * Grain)
  <2>1. VoxelAt(from, to, j)[k]
          = (from[k] * l + v * j - b * Grain * l) \div (l * voxelSize * Grain)
    BY PlaceAlong, Zenon
  <2>2. from[k] * l \in Int /\ v * j \in Int /\ b * Grain * l \in Int
    <3> HIDE DEF l, v, b
    <3>1. j \in Int
      BY GrainAssumption DEF Number
    <3> QED BY <1>1, <3>1, GrainAssumption
  <2>3. from[k] * l + v * j - b * Grain * l = M - b * Grain * l
    <3> HIDE DEF l, v, b
    <3> QED BY <2>2
  <2> HIDE DEF l, v, b, M
  <2> QED BY <2>1, <2>3
<1>3. Sample(from, to, i)[k] = Cut(Cut(N, D) - b, voxelSize)
  BY DEF Sample
<1>4. SampledAt(from, to, i)[k] = Cut(N, D)
  BY DEF SampledAt
<1>5. voxelSize \in Nat \ {0, 1} /\ Grain \in Nat \ {0}
  BY GrainAssumption
<1> HIDE DEF l, v, b
<1>6. D \in Nat \ {0} /\ b * Grain * l = b * D /\ l * voxelSize * Grain = voxelSize * D
  <2>1. D \in Nat \ {0}
    BY <1>1, <1>5, PositiveProduct
  <2>2. b * Grain * l = b * (Grain * l) /\ Grain * l = l * Grain
    BY <1>1, <1>5, Products
  <2>3. l * voxelSize = voxelSize * l /\ (voxelSize * l) * Grain = voxelSize * (l * Grain)
    BY <1>1, <1>5, Products
  <2> QED BY <2>1, <2>2, <2>3
<1>7. /\ v * r \in Int /\ v * r < D /\ -(v * r) < D
  BY <1>1, <1>5, LessThanOneStep
<1>8. M = N + v * r /\ N \in Int /\ M \in Int
  <2>1. from[k] * l \in Int /\ v * i * Grain \in Int
    BY <1>1, <1>5
  <2>2. v * (r + i * Grain) = v * r + v * (i * Grain)
    BY <1>1, <1>5
  <2>3. v * (i * Grain) = v * i * Grain
    BY <1>1, <1>5, Products
  <2> QED BY <2>1, <2>2, <2>3, <1>7 DEF Number
<1> HIDE DEF N, M, D
<1>9. M - N < D /\ N - M < D
  BY <1>6, <1>7, <1>8
<1>10. (M - b * D) \div (voxelSize * D) \in w - 1..w + 1
  BY <1>1, <1>5, <1>6, <1>8, <1>9, NearSample, Zenon
<1>11. Sample(from, to, i)[k] = w
  <2>1. Cut(N, D) \in Int
    BY <1>6, <1>8, CutBounds
  <2>2. Cut(N, D) - b >= 0
    BY <1>1, <1>4, <2>1 DEF b
  <2> QED BY <1>3, <2>2 DEF Cut
<1> QED BY <1>2, <1>6, <1>10, <1>11

\* A coordinate that both ends, cut off, keep in the box is in the box at every sample.
LEMMA SampleStaysBetween ==
  ASSUME NEW from \in Points, NEW to \in Points, from # to,
         NEW i \in Steps(from, to), NEW k \in 1..3, NEW n \in Nat,
         VoxelOfCut(from)[k] \in 0..n - 1, VoxelOfCut(to)[k] \in 0..n - 1
  PROVE  SampledAt(from, to, i)[k] >= boxMin[k] /\ Sample(from, to, i)[k] \in 0..n - 1
<1> DEFINE l == largestLength(from, to)
           v == to[k] - from[k]
           b == boxMin[k]
           hi == b + n * voxelSize - 1
           x == Cut(from[k] * l + v * (i * Grain), l * Grain)
<1>1. /\ l \in Nat \ {0} /\ v \in Int /\ from[k] \in Int /\ to[k] \in Int /\ b \in Int
      /\ voxelSize \in Nat \ {0} /\ Grain \in Nat \ {0}
  BY PointParts, LongestSide, GrainAssumption
<1>2. i \in Nat /\ i * Grain \in 0..l
  <2>1. l \div Grain \in Int /\ (l \div Grain) * Grain <= l
    <3> HIDE DEF l
    <3> QED BY <1>1, FloorBounds
  <2>2. i \in 1..l \div Grain
    BY DEF Steps
  <2> HIDE DEF l
  <2>3. i \in Nat /\ i * Grain <= (l \div Grain) * Grain
    BY <1>1, <2>1, <2>2, TimesMonotone
  <2>4. i * Grain \in Nat
    BY <1>1, <2>3
  <2> QED BY <1>1, <2>1, <2>3, <2>4
<1>3. n * voxelSize \in Int /\ hi \in Int
  BY <1>1
<1>4. ASSUME NEW p \in {from, to}
      PROVE  b <= Cut(p[k], Grain) /\ Cut(p[k], Grain) <= hi
  <2> DEFINE y == Cut(p[k], Grain) - b
             q == y \div voxelSize
  <2>1. Cut(p[k], Grain) \in Int
    BY <1>1, CutBounds
  <2>2. q \in 0..n - 1
    BY DEF VoxelOfCut
  <2>3. q * voxelSize <= y /\ y < q * voxelSize + voxelSize /\ y \in Int
    BY <1>1, <2>1, FloorBounds
  <2>4. y = Cut(p[k], Grain) - b
    OBVIOUS
  <2> HIDE DEF y, q
  <2>5. 0 * voxelSize <= q * voxelSize /\ q * voxelSize <= (n - 1) * voxelSize
    BY <1>1, <2>2, TimesMonotone
  <2>6. (n - 1) * voxelSize = n * voxelSize - voxelSize
    BY <1>1
  <2>7. q * voxelSize \in Int
    BY <1>1, <2>2
  <2> QED BY <1>1, <1>3, <2>1, <2>3, <2>4, <2>5, <2>6, <2>7
<1>5. SampledAt(from, to, i)[k] = x /\ Sample(from, to, i)[k] = Cut(x - b, voxelSize)
  <2>1. (to[k] - from[k]) * i * Grain = v * (i * Grain)
    BY <1>1, <1>2, Products
  <2> QED BY <2>1 DEF SampledAt, Sample
<1>6. b <= x /\ x <= hi /\ x \in Int
  <2>1. b <= x /\ x <= hi
    <3> HIDE DEF l, b, hi
    <3> QED BY <1>1, <1>2, <1>3, <1>4, SampleBetween DEF v
  <2>2. from[k] * l + v * (i * Grain) \in Int /\ l * Grain \in Nat \ {0}
    BY <1>1, <1>2, PositiveProduct
  <2> QED BY <2>1, <2>2, CutBounds
<1> HIDE DEF x, b
<1>7. (x - b) \div voxelSize \in 0..n - 1
  <2>1. 0 * voxelSize <= x - b /\ x - b < n * voxelSize /\ x - b \in Int
    BY <1>1, <1>3, <1>6
  <2> QED BY <1>1, <2>1, FloorWithin, 0 \in Int, n \in Int, Zenon
<1>8. Cut(x - b, voxelSize) = (x - b) \div voxelSize
  BY <1>1, <1>6 DEF Cut
<1> QED BY <1>1, <1>5, <1>6, <1>7, <1>8 DEF b

\* Where nothing at a low edge of the box is marked, the coordinates just past it have no
\* marked index, as theirs belong to a voxel at the low edge of the next row or layer.
LEMMA KeptOffTheEdges ==
  ASSUME LowEdgeIsFree, width > 1, depth > 1, NEW v, v[3] \in 0..height - 2, InRange(v),
         Index(v) \notin (0..Size - 1) \ bitmap
  PROVE  v[1] \in 1..width - 1 /\ v[2] \in 1..depth - 1
<1> DEFINE x == v[1]
           y == v[2]
           z == v[3]
           b == width * depth
           i == Index(v)
<1>1. /\ width \in Nat \ {0} /\ depth \in Nat \ {0} /\ height \in Nat \ {0}
      /\ x \in 0..width /\ y \in 0..depth /\ z \in 0..height - 2
  BY SizeAssumption DEF InRange
<1>2. b \in Nat \ {0} /\ Size = height * b /\ width < b /\ b = depth * width
  <2>1. 2 * width <= depth * width /\ depth * width = width * depth
    BY <1>1, depth > 1, 2 <= depth, 2 \in Int, TimesMonotone
  <2> QED BY <1>1, <2>1, Sizes
<1>3. i = x + y * width + z * b
  BY DEF Index
<1>4. /\ y * width \in Int /\ z * b \in Int /\ 0 <= y * width /\ y * width <= depth * width
      /\ 0 <= z * b /\ z * b <= (height - 2) * b /\ (height - 2) * b = height * b - b - b
  <2>1. 0 * width <= y * width /\ y * width <= depth * width
    BY <1>1, TimesMonotone
  <2> HIDE DEF b
  <2>2. 0 * b <= z * b /\ z * b <= (height - 2) * b
    BY <1>1, <1>2, TimesMonotone
  <2>3. y * width \in Int /\ z * b \in Int /\ (height - 2) * b = height * b - b - b
    BY <1>1, <1>2
  <2> QED BY <2>1, <2>2, <2>3, <1>1, <1>2
<1>5. i \in bitmap
  <2>1. i \in 0..Size - 1
    <3> HIDE DEF b, i, x, y, z
    <3>1. height * b \in Int
      BY <1>1, <1>2
    <3> QED BY <1>1, <1>2, <1>3, <1>4, <3>1
  <2> QED BY <2>1
<1>6. i % width # 0 /\ (i % b) \div width # 0
  <2>1. Voxel(i)[1] # 0 /\ Voxel(i)[2] # 0
    BY <1>5 DEF LowEdgeIsFree
  <2> QED BY <2>1 DEF Voxel
<1> HIDE DEF i, x, y, z
<1>7. z * b = (z * depth) * width /\ z * depth \in Nat
  <2>1. z * (depth * width) = (z * depth) * width
    BY <1>1, Products
  <2>2. 0 * depth <= z * depth
    BY <1>1, TimesMonotone
  <2> QED BY <1>1, <1>2, <2>1, <2>2
<1>8. x # 0 /\ x # width
  <2>1. CASE x = 0
    <3>1. i = Number(y + z * depth, width, 0)
      BY <1>1, <1>3, <1>7, <2>1 DEF Number
    <3> QED BY <1>1, <1>6, <1>7, <3>1, DivisionOf
  <2>2. CASE x = width
    <3>1. i = Number(1 + y + z * depth, width, 0)
      BY <1>1, <1>3, <1>7, <2>2 DEF Number
    <3> QED BY <1>1, <1>6, <1>7, <3>1, DivisionOf
  <2> QED BY <2>1, <2>2
<1>9. x \in 0..width - 1 /\ x \in 0..b - 1
  BY <1>1, <1>2, <1>8
<1>10. x \div width = 0
  <2>1. x = Number(0, width, x)
    BY <1>1 DEF Number
  <2> QED BY <1>1, <1>9, <2>1, DivisionOf, Zenon, 0 \in Nat
<1>11. y # 0 /\ y # depth
  <2> HIDE DEF b
  <2>1. CASE y = 0
    <3>1. i = Number(z, b, x)
      BY <1>1, <1>2, <1>3, <2>1 DEF Number
    <3> QED BY <1>1, <1>2, <1>6, <1>9, <1>10, <3>1, DivisionOf
  <2>2. CASE y = depth
    <3>1. i = Number(z + 1, b, x)
      BY <1>1, <1>2, <1>3, <2>2 DEF Number
    <3> QED BY <1>1, <1>2, <1>6, <1>9, <1>10, <3>1, DivisionOf
  <2> QED BY <2>1, <2>2
<1> QED BY <1>1, <1>8, <1>11 DEF x, y

LEMMA PathIsMarked ==
  ASSUME NEW from, NEW to, TRUE \in checkPath(from, to), NEW i \in Steps(from, to)
  PROVE  /\ InRange(Sample(from, to, i))
         /\ Index(Sample(from, to, i)) \notin (0..Size - 1) \ bitmap
BY Zenon DEF checkPath

\* One marked voxel of the box next to a place is what is asked for there.
LEMMA NextToMarked ==
  ASSUME NEW w, NEW v, InBox(v), Index(v) \in bitmap,
         \A k \in 1..3 : w[k] \in Int /\ v[k] \in Int /\ w[k] \in v[k] - 1..v[k] + 1
  PROVE  \E u \in Around(w) \cap Voxels : Index(u) \in bitmap
<1> DEFINE u == <<v[1], v[2], v[3]>>
<1>1. u \in Voxels
  BY DEF InBox
<1>2. Index(u) = Index(v)
  BY DEF Index
<1>3. /\ v[1] \in w[1] - 1..w[1] + 1
      /\ v[2] \in w[2] - 1..w[2] + 1
      /\ v[3] \in w[3] - 1..w[3] + 1
  OBVIOUS
<1>4. u \in Around(w)
  BY <1>3 DEF Around
<1> QED BY <1>1, <1>2, <1>4

LEMMA BoxOf ==
  ASSUME NEW v
  PROVE  InBox(v) <=> v[1] \in 0..width - 1 /\ v[2] \in 0..depth - 1 /\ v[3] \in 0..height - 1
BY DEF InBox, Voxels

LEMMA LegalNear ==
  ASSUME voxelSize # 1, NEW from \in Points, NEW to \in Points, from # to,
         InBox(VoxelOf(from)), Index(VoxelOf(from)) \in bitmap,
         \/ \A p \in {from, to} : InBox(VoxelOfCut(p))
         \/ LowEdgeIsFree /\ \A p \in {from, to} : VoxelOfCut(p)[3] \in 0..height - 2,
         TRUE \in checkPath(from, to), NEW j \in 0..largestLength(from, to)
  PROVE  \E u \in Around(VoxelAt(from, to, j)) \cap Voxels : Index(u) \in bitmap
<1> DEFINE i == j \div Grain
           r == j % Grain
           s == Sample(from, to, i)
<1>1. j \in Nat /\ Grain \in Nat \ {0} /\ largestLength(from, to) \in Nat \ {0}
  BY LongestSide, GrainAssumption
<1>2. i \in Nat /\ r \in 0..Grain - 1 /\ j = Number(i, Grain, r)
  BY <1>1, Division, Zenon
<1>3. width \in Nat \ {0} /\ depth \in Nat \ {0} /\ height \in Nat \ {0}
  BY SizeAssumption
<1>4. CASE i = 0
  <2>1. j \in 0..Grain - 1
    <3>1. j = Number(0, Grain, r)
      BY <1>2, <1>4
    <3> QED BY <3>1, <1>1, <1>2 DEF Number
  <2>2. \A k \in 1..3 : VoxelAt(from, to, j)[k] \in VoxelOf(from)[k] - 1..VoxelOf(from)[k] + 1
    BY <2>1, StartIsNear
  <2>3. \A k \in 1..3 : VoxelOf(from)[k] \in Int
    BY <1>3, BoxOf
  <2>4. \A k \in 1..3 : VoxelAt(from, to, j)[k] \in Int
    BY <2>2, <2>3
  <2> HIDE DEF i, r
  <2> QED BY <2>2, <2>3, <2>4, NextToMarked
<1>5. CASE i # 0
  <2>1. i \in Steps(from, to)
    <3>1. i <= largestLength(from, to) \div Grain
      BY <1>1, FloorMonotone
    <3> QED BY <1>2, <1>5, <3>1, <1>1, FloorBounds DEF Steps
  <2>2. InRange(s) /\ Index(s) \notin (0..Size - 1) \ bitmap
    BY <2>1, PathIsMarked, Zenon
  <2>3. InBox(s) /\ \A k \in 1..3 : SampledAt(from, to, i)[k] >= boxMin[k]
    <3>1. CASE \A p \in {from, to} : InBox(VoxelOfCut(p))
      <4>1. \A p \in {from, to} : /\ VoxelOfCut(p)[1] \in 0..width - 1
                                  /\ VoxelOfCut(p)[2] \in 0..depth - 1
                                  /\ VoxelOfCut(p)[3] \in 0..height - 1
        BY <3>1, BoxOf
      <4>2. SampledAt(from, to, i)[1] >= boxMin[1] /\ s[1] \in 0..width - 1
        <5> HIDE DEF i
        <5> QED BY <1>3, <2>1, <4>1, SampleStaysBetween, 1 \in 1..3
      <4>3. SampledAt(from, to, i)[2] >= boxMin[2] /\ s[2] \in 0..depth - 1
        <5> HIDE DEF i
        <5> QED BY <1>3, <2>1, <4>1, SampleStaysBetween, 2 \in 1..3
      <4>4. SampledAt(from, to, i)[3] >= boxMin[3] /\ s[3] \in 0..height - 1
        <5> HIDE DEF i
        <5> QED BY <1>3, <2>1, <4>1, SampleStaysBetween, 3 \in 1..3
      <4> HIDE DEF i, s
      <4> QED BY <4>2, <4>3, <4>4, BoxOf
    <3>2. CASE LowEdgeIsFree /\ \A p \in {from, to} : VoxelOfCut(p)[3] \in 0..height - 2
      <4>1. width > 1 /\ depth > 1
        <5> DEFINE u == <<VoxelOf(from)[1], VoxelOf(from)[2], VoxelOf(from)[3]>>
        <5>1. u \in Voxels
          BY DEF InBox
        <5>2. Index(u) \in bitmap
          BY DEF Index
        <5> HIDE DEF u
        <5>3. u[1] # 0 /\ u[2] # 0
          BY <3>2, <5>1, <5>2, VoxelOfIndex DEF LowEdgeIsFree
        <5> QED BY <1>3, <5>1, <5>3, VoxelParts
      <4>2. SampledAt(from, to, i)[3] >= boxMin[3] /\ s[3] \in 0..height - 2
        <5>1. height - 1 \in Nat /\ (height - 1) - 1 = height - 2
          BY <1>3
        <5> HIDE DEF i
        <5> QED BY <2>1, <3>2, <5>1, SampleStaysBetween, 3 \in 1..3
      <4>3. s[1] \in 1..width - 1 /\ s[2] \in 1..depth - 1
        <5> HIDE DEF i, s
        <5> QED BY <2>2, <3>2, <4>1, <4>2, KeptOffTheEdges
      <4>4. \A k \in 1..2 : SampledAt(from, to, i)[k] >= boxMin[k]
        <5> TAKE k \in 1..2
        <5> DEFINE x == SampledAt(from, to, i)[k]
        <5>1. s[k] = Cut(x - boxMin[k], voxelSize)
          BY DEF Sample, SampledAt
        <5>2. s[k] >= 1
          <6> HIDE DEF s
          <6> QED BY <4>3, <1>3
        <5>3. x \in Int /\ boxMin[k] \in Int
          <6>1. /\ from[k] \in Int /\ to[k] \in Int /\ boxMin[k] \in Int
                /\ largestLength(from, to) * Grain \in Nat \ {0}
            BY PointParts, <1>1, PositiveProduct
          <6>2. from[k] * largestLength(from, to) + (to[k] - from[k]) * i * Grain \in Int
            <7> HIDE DEF i
            <7> QED BY <6>1, <1>1, <1>2
          <6>3. x = Cut(from[k] * largestLength(from, to) + (to[k] - from[k]) * i * Grain,
                        largestLength(from, to) * Grain)
            BY DEF SampledAt
          <6> HIDE DEF i, x
          <6> QED BY <6>1, <6>2, <6>3, CutBounds
        <5> HIDE DEF x, s
        <5>4. x - boxMin[k] < 0 => (-(x - boxMin[k])) \div voxelSize \in Nat
          <6>1. x - boxMin[k] < 0 => -(x - boxMin[k]) \in Nat
            BY <5>3
          <6> QED BY <6>1, Division, GrainAssumption
        <5>5. x - boxMin[k] >= 0
          BY <5>1, <5>2, <5>3, <5>4 DEF Cut
        <5> QED BY <5>3, <5>5 DEF x
      <4> HIDE DEF i, s
      <4> QED BY <1>3, <4>2, <4>3, <4>4, BoxOf
    <3> QED BY <3>1, <3>2
  <2>4. Index(s) \in bitmap
    <3> HIDE DEF i, s
    <3>1. <<s[1], s[2], s[3]>> \in Voxels /\ Index(<<s[1], s[2], s[3]>>) = Index(s)
      BY <2>3 DEF InBox, Index
    <3> QED BY <2>2, <3>1, IndexInArray
  <2>5. \A k \in 1..3 : VoxelAt(from, to, j)[k] \in s[k] - 1..s[k] + 1
    <3> HIDE DEF i, r
    <3> QED BY <1>2, <2>3, SampleIsNear
  <2>6. \A k \in 1..3 : s[k] \in Int
    <3> HIDE DEF s
    <3> QED BY <1>3, <2>3, BoxOf
  <2> HIDE DEF i, r, s
  <2>7. \A k \in 1..3 : VoxelAt(from, to, j)[k] \in Int
    BY <2>5, <2>6
  <2> QED BY <2>3, <2>4, <2>5, <2>6, <2>7, NextToMarked
<1> QED BY <1>4, <1>5

\* A motion that is found legal stays near the bitmap, whatever the bitmap holds, in any
\* box, for ends anywhere.  Voxels of one millimeter are left out, as the cut alone is
\* up to two voxels then.
THEOREM LegalStaysNearCorrect ==
  ASSUME voxelSize # 1
  PROVE  Spec => []LegalStaysNear
<1>1. LegalStaysNear
  BY LegalNear, Zenon DEF LegalStaysNear
<1> QED BY <1>1, PTL
=============================================================================
