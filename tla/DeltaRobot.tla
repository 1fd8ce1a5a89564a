----------------------------- MODULE DeltaRobot -----------------------------
(***************************************************************************)
(* The motion path of the delta robot node: a service of DeltaRobotNode    *)
(* checks a path and calls DeltaRobot::moveTo for every point of it, moveTo *)
(* writes the rotations to the three StepperMotors over the ModbusController *)
(* and has the MotorManager start them with a broadcast.  Services run on  *)
(* the node's main thread, the transitions on another; transitionStop waits *)
(* for a service that runs, so one step at a time is all there is.  What    *)
(* the motors do goes on beside it.                                        *)
(***************************************************************************)
EXTENDS ModbusController, Sequences

CONSTANTS
  Points,     \* where the effector can be, a set of integers
  Home,       \* where calibration leaves it
  Origin,     \* where the program takes it to be before that
  angle,      \* inverse kinematics: per motor and point, an angle
  Legal,      \* the paths EffectorBoundaries allows, pairs of points
  Services,   \* the services that are called
  MaxPath     \* points per service call

Service == {"point", "relativePoint", "path", "relativePath", "relativePath_json"}

ASSUME PointsAssumption   == Points \subseteq Int /\ Home \in Points /\ Origin \in Points
ASSUME AngleAssumption    == angle \in [Motors -> [Points -> Values]]
ASSUME LegalAssumption    == Legal \subseteq Points \X Points
ASSUME ServicesAssumption == Services \subseteq Service
ASSUME PathAssumption     == MaxPath \in Nat \ {0}

\* Calls of the services with one point, and with up to MaxPath.
Coordinates(service) ==
  IF service \in {"relativePath", "relativePath_json"}
  THEN {q - p : p, q \in Points} ELSE Points
Arguments(service) ==
  LET lengths == IF service \in {"point", "relativePoint"} THEN {1} ELSE 1..MaxPath
  IN  UNION {[1..n -> Coordinates(service)] : n \in lengths}

VARIABLES
  state,              \* the state machine's, when no transition runs
  currentMotionSlot,
  setAngle,           \* per motor, the last angle written to its driver
  currentAngle,       \* per motor, the angle it is thought to have
  effectorLocation,
  pc,                 \* where the service that runs is
  path,               \* the points it still has to move to, the current one first
  writing,            \* the motors moveTo has still to write to
  asked,              \* the point the service was asked to end at
  answer,             \* how the last service call ended
  running,            \* per motor, the slot whose motion it executes, or 0
  target,             \* per motor, the angle that motion ends at
  position,           \* per motor, its true angle when it does not run
  calibrated          \* do the drivers count from the true zero?

Unknown == -1         \* some angle

software == <<state, currentMotionSlot, setAngle, currentAngle, effectorLocation>>
call     == <<path, writing, asked, answer>>
hardware == <<running, target, position, calibrated>>
vars     == <<register, shadow, software, pc, call, hardware>>

TypeOK ==
  /\ register \in Addressed(Word)
  /\ shadow \in Addressed(Word \cup {None})
  /\ state \in {"SAFE", "STANDBY", "NORMAL"}
  /\ currentMotionSlot \in Slot
  /\ setAngle \in [Motors -> Values] /\ currentAngle \in [Motors -> Values]
  /\ effectorLocation \in Points /\ asked \in Points
  /\ pc \in {"idle", "moveTo", "write", "ready", "start", "clear"}
  /\ path \in Seq(Points)
  /\ writing \in SUBSET Motors
  /\ answer \in {"none", "true", "false", "exception"}
  /\ running \in [Motors -> {0} \cup Slot]
  /\ target \in [Motors -> Operand]
  /\ position \in [Motors -> Operand \cup {Unknown}]
  /\ calibrated \in BOOLEAN

AnglesOf(p) == [m \in Motors |-> angle[m][p]]

Init ==
  /\ register = [m \in Motors |-> [s \in Slot |-> Halves(0)]]
  /\ shadow = [m \in Motors |-> [s \in Slot |-> [h \in Half |-> None]]]
  /\ state = "SAFE" /\ currentMotionSlot = 1
  /\ setAngle = AnglesOf(Home) /\ currentAngle = AnglesOf(Home)
  /\ effectorLocation = Origin
  /\ pc = "idle" /\ path = <<>> /\ writing = {} /\ asked = Home /\ answer = "none"
  /\ running = [m \in Motors |-> 0]
  /\ target = AnglesOf(Home) /\ position = [m \in Motors |-> Unknown]
  /\ calibrated = FALSE

\* asked is of interest after a call that answered true.
End(how) ==
  /\ pc' = "idle" /\ answer' = how
  /\ path' = <<>> /\ writing' = {}
  /\ asked' = IF how = "true" THEN asked ELSE Home
-----------------------------------------------------------------------------
\* The points a service passes on, the effector being at e, and those its
\* documentation says: moveToRelativePoint passes its point on as it is.
Sums(e, args) ==
  LET sum[i \in 0..Len(args)] == IF i = 0 THEN e ELSE sum[i - 1] + args[i]
  IN  [i \in 1..Len(args) |-> sum[i]]

Passed(service, e, args) ==
  IF service \in {"relativePath", "relativePath_json"} THEN Sums(e, args) ELSE args

Documented(service, e, args) ==
  IF service \in {"point", "path"} THEN args ELSE Sums(e, args)

checkPath(p, q) == <<p, q>> \in Legal

\* What a service checks first; moveRelativePath_json refuses what is allowed.
Checks(service, e, points) ==
  /\ checkPath(e, points[1]) <=> service # "relativePath_json"
  /\ \A i \in 1..(Len(points) - 1) : checkPath(points[i], points[i + 1])

\* A service is called in NORMAL; in another state it only answers false.
Call(service, args) ==
  LET points == Passed(service, effectorLocation, args)
      wanted == Documented(service, effectorLocation, args)
  IN
  /\ pc = "idle" /\ state = "NORMAL"
  /\ wanted[Len(wanted)] \in Points
  /\ IF Checks(service, effectorLocation, points)
     THEN /\ pc' = "moveTo" /\ path' = points /\ answer' = "none"
          /\ asked' = wanted[Len(wanted)]
          /\ UNCHANGED writing
     ELSE End("false")
  /\ UNCHANGED <<register, shadow, software, hardware>>

NextSlot == IF currentMotionSlot + 1 > 2 THEN 1 ELSE currentMotionSlot + 1

\* moveTo up to its writes: done, already there, refused, no motor has to
\* move, or a motion of the next slot.
MoveTo ==
  /\ pc = "moveTo"
  /\ \/ /\ path = <<>>
        /\ End("true")
        /\ UNCHANGED currentMotionSlot
     \/ /\ path # <<>> /\ Head(path) = effectorLocation
        /\ path' = Tail(path)
        /\ UNCHANGED <<pc, writing, asked, answer, currentMotionSlot>>
     \/ /\ path # <<>> /\ Head(path) # effectorLocation
        /\ ~checkPath(effectorLocation, Head(path))
        /\ End("exception")
        /\ UNCHANGED currentMotionSlot
     \/ /\ path # <<>> /\ Head(path) # effectorLocation
        /\ checkPath(effectorLocation, Head(path))
        /\ IF AnglesOf(Head(path)) = currentAngle
           THEN path' = Tail(path) /\ UNCHANGED <<pc, writing, currentMotionSlot>>
           ELSE /\ pc' = "write" /\ writing' = Motors
                /\ currentMotionSlot' = NextSlot
                /\ UNCHANGED path
        /\ UNCHANGED <<asked, answer>>
  /\ UNCHANGED <<register, shadow, state, setAngle, currentAngle, effectorLocation, hardware>>

\* writeRotationData of the next motor; a motor that has not to move is
\* written its current angle, which is the angle of the point.  The
\* position stands for all four registers: a failure of a later one, with the
\* position written and setAngle not yet set, is taken for one of the position.
\* Nothing is lost by that, as setAngle is set anew before it is next read.
Write(m) ==
  LET value == angle[m][Head(path)] IN
  /\ pc = "write"
  /\ m \in writing /\ \A n \in writing : m <= n
  /\ \E outcome \in Outcome :
       /\ writeU32(m, currentMotionSlot, value, outcome)
       /\ IF outcome = "ok"
          THEN /\ setAngle' = [setAngle EXCEPT ![m] = value]
               /\ writing' = writing \ {m}
               /\ pc' = IF writing' = {} THEN "ready" ELSE "write"
               /\ UNCHANGED <<path, asked, answer>>
          ELSE End("exception") /\ UNCHANGED setAngle
  /\ UNCHANGED <<state, currentMotionSlot, currentAngle, effectorLocation, hardware>>

\* Mutants: the motors are not waited for, and the poll's condition turned.
WaitTillReadyNot ==
  /\ pc = "ready" /\ pc' = "start"
  /\ UNCHANGED <<register, shadow, software, call, hardware>>
WaitTillBusy ==
  /\ pc = "ready" /\ \A m \in Motors : running[m] # 0 /\ pc' = "start"
  /\ UNCHANGED <<register, shadow, software, call, hardware>>

\* waitTillReady polls the drivers.
WaitTillReady ==
  /\ pc = "ready" /\ \A m \in Motors : running[m] = 0
  /\ pc' = "start"
  /\ UNCHANGED <<register, shadow, software, call, hardware>>

\* A poll fails: its request does, or a motor that is still on its way reports a
\* warning or an alarm.  Its motion goes on, and a driver that stays in alarm
\* until its power is switched is left out.
PollFails ==
  /\ pc = "ready"
  /\ \/ Outcome # {"ok"}
     \/ "alarm" \in Faults /\ \E m \in Motors : running[m] # 0
  /\ End("exception")
  /\ UNCHANGED <<register, shadow, software, hardware>>

\* startMovement broadcasts START.  Nobody answers a broadcast.
StartMovement ==
  /\ pc = "start"
  /\ \/ \E T \in IF "deaf" \in Faults THEN SUBSET Motors ELSE {Motors} :
          /\ running' = [m \in Motors |-> IF m \in T THEN currentMotionSlot ELSE running[m]]
          /\ target' = [m \in Motors |-> IF m \in T
                                         THEN ValueOf(register[m][currentMotionSlot])
                                         ELSE target[m]]
          /\ pc' = "clear"
          /\ UNCHANGED call
     \/ "bus" \in Faults /\ End("exception") /\ UNCHANGED <<running, target>>
  /\ UNCHANGED <<register, shadow, software, position, calibrated>>

\* Mutant: the angles are not updated.
ClearNoUpdate ==
  /\ pc = "clear" /\ pc' = "moveTo"
  /\ effectorLocation' = Head(path) /\ path' = Tail(path)
  /\ UNCHANGED <<register, shadow, state, currentMotionSlot, setAngle, currentAngle,
                 writing, asked, answer, hardware>>

\* The broadcast that takes START back, then updateAngle and effectorLocation.
Clear ==
  /\ pc = "clear"
  /\ \/ /\ pc' = "moveTo"
        /\ currentAngle' = setAngle
        /\ effectorLocation' = Head(path)
        /\ path' = Tail(path)
        /\ UNCHANGED <<writing, asked, answer>>
     \/ /\ "bus" \in Faults
        /\ End("exception")
        /\ UNCHANGED <<currentAngle, effectorLocation>>
  /\ UNCHANGED <<register, shadow, state, currentMotionSlot, setAngle, hardware>>

\* A motor reaches its target; counted from a wrong zero, that is anywhere.
Arrive(m) ==
  /\ running[m] # 0
  /\ running' = [running EXCEPT ![m] = 0]
  /\ position' = [position EXCEPT ![m] = IF calibrated THEN target[m] ELSE Unknown]
  /\ UNCHANGED <<register, shadow, software, pc, call, target, calibrated>>
-----------------------------------------------------------------------------
\* A calibration of the motors of T ends with the write of angle 0 to slot 1.
Calibrated(table, T) ==
  [m \in Motors |-> IF m \in T THEN [table[m] EXCEPT ![1] = Halves(angle[m][Home])]
                    ELSE table[m]]

\* transitionSetup: power on, and calibrate with slot 1 unless a sensor fails,
\* which the node only logs.
transitionSetup ==
  /\ pc = "idle" /\ state = "SAFE"
  /\ state' = "STANDBY"
  /\ running' = [m \in Motors |-> 0]
  /\ currentAngle' = AnglesOf(Home)
  /\ target' = AnglesOf(Home)
  /\ \/ /\ calibrated' = TRUE
        /\ position' = AnglesOf(Home)
        /\ effectorLocation' = Home
        /\ setAngle' = AnglesOf(Home)
        /\ register' = Calibrated(register, Motors)
        /\ shadow' = Calibrated(shadow, Motors)
     \/ /\ "sensor" \in Faults
        /\ calibrated' = FALSE
        /\ position' = [m \in Motors |-> Unknown]
        /\ UNCHANGED <<effectorLocation, setAngle, register, shadow>>
  /\ UNCHANGED <<currentMotionSlot, pc, call>>

Unpowered ==
  /\ running' = [m \in Motors |-> 0]
  /\ position' = [m \in Motors |-> Unknown]
  /\ target' = AnglesOf(Home)
  /\ calibrated' = FALSE

\* Nobody holds the arms without power.
transitionShutdown ==
  /\ pc = "idle" /\ state = "STANDBY"
  /\ state' = "SAFE"
  /\ asked' = Home /\ answer' = "none"
  /\ Unpowered
  /\ UNCHANGED <<register, shadow, currentMotionSlot, setAngle, currentAngle,
                 effectorLocation, pc, path, writing>>

transitionStart ==
  /\ pc = "idle" /\ state = "STANDBY" /\ state' = "NORMAL"
  /\ UNCHANGED <<register, shadow, currentMotionSlot, setAngle, currentAngle,
                 effectorLocation, pc, call, hardware>>

transitionStop ==
  /\ pc = "idle" /\ state = "NORMAL" /\ state' = "STANDBY"
  /\ UNCHANGED <<register, shadow, currentMotionSlot, setAngle, currentAngle,
                 effectorLocation, pc, call, hardware>>

\* An exception in transitionSetup or transitionShutdown ends the process; it
\* is started again, and only the drivers remember anything.  The next setup
\* takes the excitement off, so what the motors do until then is left out.
Restart ==
  /\ "crash" \in Faults
  /\ pc = "idle" /\ state \in {"SAFE", "STANDBY"}
  /\ \E T \in IF state = "SAFE" THEN SUBSET Motors ELSE {{}} :
       register' = Calibrated(register, T)
  /\ shadow' = [m \in Motors |-> [s \in Slot |-> [h \in Half |-> None]]]
  /\ state' = "SAFE" /\ currentMotionSlot' = 1
  /\ setAngle' = AnglesOf(Home) /\ currentAngle' = AnglesOf(Home)
  /\ effectorLocation' = Origin
  /\ asked' = Home /\ answer' = "none"
  /\ Unpowered
  /\ UNCHANGED <<pc, path, writing>>

Service_ == \E service \in Services : \E args \in Arguments(service) : Call(service, args)

Step == \/ MoveTo \/ (\E m \in Motors : Write(m)) \/ WaitTillReady
        \/ StartMovement \/ Clear      \* the main thread, no poll failing

Transition == transitionSetup \/ transitionShutdown \/ transitionStart \/ transitionStop

Next == \/ Service_ \/ Step \/ PollFails \/ (\E m \in Motors : Arrive(m)) \/ Transition \/ Restart

\* The main thread runs, and a motor reaches its target.
Fairness == WF_vars(Step) /\ \A m \in Motors : WF_vars(Arrive(m))

Spec == Init /\ [][Next]_vars
FairSpec == Spec /\ Fairness
=============================================================================
