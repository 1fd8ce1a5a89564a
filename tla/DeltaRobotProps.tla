--------------------------- MODULE DeltaRobotProps ---------------------------
(***************************************************************************)
(* What must be true of DeltaRobot.                                        *)
(***************************************************************************)
EXTENDS DeltaRobot

AtRest == \A m \in Motors : running[m] = 0

\* The angle a motor has or is on its way to.
Heading(m) == IF running[m] = 0 THEN position[m] ELSE target[m]

\* A half that the controller would not send again is in the driver.
ShadowAgrees ==
  \A m \in Motors : \A s \in Slot : \A h \in Half :
    shadow[m][s][h] # None => shadow[m][s][h] = register[m][s][h]

\* Between service calls of a calibrated robot the motors are, or will be,
\* where effectorLocation says the effector is, and currentAngle agrees.
LocationAgrees ==
  pc = "idle" /\ calibrated
    => /\ \A m \in Motors : Heading(m) = angle[m][effectorLocation]
       /\ currentAngle = AnglesOf(effectorLocation)

\* The motion that is started is the one that was checked: the motors stand at
\* a point from where the next point is legal, and all of them go to that point.
MotionIsChecked ==
  [][pc = "start" /\ pc' = "clear" /\ calibrated
       => /\ checkPath(effectorLocation, Head(path))
          /\ position = AnglesOf(effectorLocation)
          /\ AtRest
          /\ target' = AnglesOf(Head(path))]_vars

\* When a service has answered true, every motor is at the angle of the last point it was
\* asked for, or on its way there: moveTo returns after START, so true does not say that the
\* motion is executed, as DeltaRobotNode.cpp:178 has it.
SucceededIsUnderway ==
  pc = "idle" /\ answer = "true" /\ calibrated
    => \A m \in Motors : Heading(m) = angle[m][asked]

\* The slot a motor executes is not written to: that is what two slots are for.
RunningSlotIsLeftAlone ==
  [][\A m \in Motors : \A s \in Slot :
       running[m] = s /\ running'[m] = s => register'[m][s] = register[m][s]]_vars

\* A service call returns or throws, if every motor that runs reaches its target in the end
\* (WF(Arrive)): waitTillReady polls the drivers without a bound, so the call hangs on one
\* that never gets ready and reports no alarm.
CallEnds == pc # "idle" ~> pc = "idle"
=============================================================================
