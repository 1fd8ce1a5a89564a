----------------------- MODULE MCEffectorBoundaries -----------------------
(* EffectorBoundaries for TLC: blocks, octahedra, two blocks joined, and a full box
   with a hole, in a box whose three sides differ.                       *)
EXTENDS EffectorBoundariesProps

Block(lo, hi) == {v \in Voxels : \A k \in 1..3 : lo[k] <= v[k] /\ v[k] <= hi[k]}

Distance(u, v) == Size1(u[1] - v[1]) + Size1(u[2] - v[2]) + Size1(u[3] - v[3])

Lows  == {0, 1} \X {0, 1} \X {0, 1, 2}
Highs == {3, 4} \X {2, 3} \X {2, 3, 4}

Blocks    == {Block(lo, hi) : lo \in Lows, hi \in Highs}
Octahedra == {{v \in Voxels : Distance(v, c) <= r} : c \in {Centre, <<1, 2, 2>>}, r \in 1..3}
Joined    == {Block(<<0, 0, 0>>, h) \cup Block(<<1, 1, l>>, <<4, 3, 4>>) :
                h \in {3, 4} \X {2, 3} \X {2, 3}, l \in {1, 2}}
Holed     == {Voxels \ {v} : v \in Voxels}

MCShapes == Blocks \cup Octahedra \cup Joined \cup Holed

MCBoxMin == <<-5, -4, -60>>

\* In half millimeters: inside, on the faces, in the corners, in the last millimeter
\* below the top and outside.
MCPoints == {<<0, 0, -110>>, <<1, 1, -109>>, <<-9, 0, -110>>, <<9, 7, -102>>,
             <<10, 0, -110>>, <<3, -7, -119>>, <<-6, 5, -104>>, <<0, 0, -101>>, <<7, -2, -113>>,
             <<-11, 0, -110>>, <<-3, 4, -101>>, <<8, 9, -105>>}
=============================================================================
