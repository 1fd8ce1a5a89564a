---------------------------- MODULE MCDeltaRobot ----------------------------
(***************************************************************************)
(* Two motors and three points in a row; the ends of the row cannot be     *)
(* reached from each other in one motion.  Between the points an angle     *)
(* changes in its low half, in its high half, in both or not at all.       *)
(***************************************************************************)
EXTENDS DeltaRobotProps, TLC

MCMotors == {1, 2}
MCPoints == 0..2
MCangle  == (1 :> (0 :> 0 @@ 1 :> 1 @@ 2 :> 2)) @@ (2 :> (0 :> 3 @@ 1 :> 1 @@ 2 :> 1))
MCLegal  == {e \in MCPoints \X MCPoints : e[1] - e[2] \in -1..1}
=============================================================================
