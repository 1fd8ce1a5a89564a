--------------------------- MODULE DeltaRobotProofs ---------------------------
(***************************************************************************)
(* Proofs about DeltaRobot, for any number of motors, any kinematics and   *)
(* any word size: the types; the agreement of the shadow registers with    *)
(* the drivers as long as no answer is lost after the request was obeyed;  *)
(* and, if drivers hear every broadcast too, where the motors are, what a  *)
(* motion is started with, and what it means that a call answered true;    *)
(* that the slot in use is left alone as long as nothing fails; and,       *)
(* whatever fails, that every step of a call brings it nearer to its end.  *)
(***************************************************************************)
EXTENDS DeltaRobotProps, SequenceTheorems, FiniteSetTheorems, TLAPS

\* While moveTo is at work it has a point to move to.
HasPoint == pc \in {"write", "ready", "start", "clear"} => path # <<>>

TypeInv == TypeOK /\ HasPoint

\* The halves of a value of the bus are words.
LEMMA HalvesAreWords ==
  ASSUME NEW v \in Operand PROVE Halves(v) \in [Half -> Word]
<1>1. v \in Nat /\ v < Radix * Radix
  BY RadixAssumption DEF Operand
<1> DEFINE q == v \div Radix
           r == v % Radix
<1>2. q \in Int /\ r \in 0..(Radix - 1)
  BY <1>1, RadixAssumption
<1>3. v = Radix * q + r
  BY <1>1, RadixAssumption
<1> HIDE DEF q, r
<1>4. q >= 0
  <2>1. SUFFICES ASSUME q <= -1 PROVE FALSE
    BY <1>2
  <2>2. Radix * q <= -Radix
    BY <1>2, <2>1, RadixAssumption
  <2> QED
    BY <1>1, <1>2, <1>3, <2>2, RadixAssumption
<1>5. q < Radix
  <2>1. SUFFICES ASSUME q >= Radix PROVE FALSE
    BY <1>2, RadixAssumption
  <2>2. Radix * q >= Radix * Radix
    BY <1>2, <2>1, RadixAssumption
  <2> QED
    BY <1>1, <1>2, <1>3, <2>2, RadixAssumption
<1>6. q \in Word /\ r \in Word
  BY <1>2, <1>4, <1>5, RadixAssumption DEF Word
<1> QED
  BY <1>6 DEF Halves, q, r

\* What a driver reads from two words is an operand.
LEMMA ValueIsOperand ==
  ASSUME NEW pair \in [Half -> Word] PROVE ValueOf(pair) \in Operand
<1> DEFINE a == pair["high"]
           b == pair["low"]
<1>1. a \in Nat /\ b \in Nat /\ a <= Radix - 1 /\ b <= Radix - 1
  BY RadixAssumption DEF Half, Word
<1> HIDE DEF a, b
<1>2. a * Radix \in Nat /\ a * Radix <= (Radix - 1) * Radix
  BY <1>1, RadixAssumption
<1>3. (Radix - 1) * Radix = Radix * Radix - Radix
  BY RadixAssumption
<1>4. a * Radix + b \in 0..(Radix * Radix - 1)
  BY <1>1, <1>2, <1>3, RadixAssumption
<1> QED
  BY <1>4 DEF ValueOf, Operand, a, b

-----------------------------------------------------------------------------
\* The path a service passes on is a sequence of points once its checks hold.
LEMMA PassedIsPath ==
  ASSUME NEW service \in Service, NEW e \in Points, NEW args \in Arguments(service),
         Checks(service, e, Passed(service, e, args)),
         Documented(service, e, args)[Len(Documented(service, e, args))] \in Points
  PROVE  Passed(service, e, args) \in Seq(Points)
<1>1. PICK n \in Nat : n >= 1 /\ args \in [1..n -> Coordinates(service)]
  BY PathAssumption DEF Arguments
<1>2. args \in Seq(Coordinates(service)) /\ Len(args) = n
  BY <1>1
<1>3. CASE service \notin {"relativePath", "relativePath_json"}
  BY <1>2, <1>3 DEF Passed, Coordinates
<1>4. CASE service \in {"relativePath", "relativePath_json"}
  <2> DEFINE points == Passed(service, e, args)
  <2>1. points = Sums(e, args) /\ Documented(service, e, args) = points
    BY <1>4 DEF Passed, Documented
  <2>2. DOMAIN points = 1..n /\ points = [i \in 1..n |-> points[i]]
    BY <1>2, <2>1 DEF Sums
  <2>3. points \in Seq({points[i] : i \in 1..n}) /\ Len(points) = n
    BY <1>1, <2>2
  <2>4. points[n] \in Points
    BY <2>1, <2>3
  <2>5. \A i \in 1..(n - 1) : <<points[i], points[i + 1]>> \in Legal
    BY <2>3 DEF Checks, checkPath
  <2>6. \A i \in 1..(n - 1) : points[i] \in Points
    BY <2>5, LegalAssumption
  <2>7. \A i \in 1..n : points[i] \in Points
    BY <1>1, <2>4, <2>6
  <2> QED
    BY <1>1, <2>2, <2>7
<1> QED
  BY <1>3, <1>4

\* The angles of a point are values that can be written.
LEMMA AnglesAreValues ==
  ASSUME NEW p \in Points PROVE AnglesOf(p) \in [Motors -> Values]
BY AngleAssumption DEF AnglesOf

\* writeU32 keeps what registers and shadow hold to words.
LEMMA WriteType ==
  ASSUME NEW m \in Motors, NEW s \in Slot, NEW value \in Values, NEW outcome,
         register \in Addressed(Word), shadow \in Addressed(Word \cup {None}),
         writeU32(m, s, value, outcome)
  PROVE  register' \in Addressed(Word) /\ shadow' \in Addressed(Word \cup {None})
<1> DEFINE data == Halves(value)
           halves == NotShadowed(m, s, data)
<1>1. data \in [Half -> Word]
  BY HalvesAreWords, ValuesAssumption
<1> HIDE DEF data, halves
<1>2. Sent(register, m, s, halves, data) \in Addressed(Word)
  BY <1>1 DEF Sent, Addressed
<1>3. Sent(shadow, m, s, halves, data) \in Addressed(Word \cup {None})
  BY <1>1 DEF Sent, Addressed
<1> QED
  BY <1>2, <1>3 DEF writeU32, data, halves

\* A calibration keeps a table of registers one.
LEMMA CalibratedType ==
  ASSUME NEW S, Word \subseteq S, NEW table \in Addressed(S), NEW T
  PROVE  Calibrated(table, T) \in Addressed(S)
<1>1. \A m \in Motors : Halves(angle[m][Home]) \in [Half -> S]
  BY HalvesAreWords, ValuesAssumption, AngleAssumption, PointsAssumption
<1> QED
  BY <1>1 DEF Calibrated, Addressed, Slot

-----------------------------------------------------------------------------
\* What End leaves of a call.
EndedType ==
  /\ pc = "idle" /\ path \in Seq(Points) /\ writing \in SUBSET Motors
  /\ asked \in Points /\ answer \in {"none", "true", "false", "exception"}

LEMMA EmptyPath == <<>> \in Seq(Points)
OBVIOUS

LEMMA EndType ==
  ASSUME TypeInv, NEW how \in {"true", "false", "exception"}, End(how)
  PROVE  EndedType'
BY EmptyPath, PointsAssumption DEF End, EndedType, TypeInv, TypeOK

LEMMA InitType == Init => TypeInv
<1> SUFFICES ASSUME Init PROVE TypeInv
  OBVIOUS
<1>1. register \in Addressed(Word)
  <2>1. 0 \in Operand
    BY RadixAssumption DEF Operand
  <2> QED
    BY <2>1, HalvesAreWords DEF Init, Addressed
<1>2. shadow \in Addressed(Word \cup {None})
  BY DEF Init, Addressed
<1>3. AnglesOf(Home) \in [Motors -> Values] /\ Values \subseteq Operand
  BY AnglesAreValues, PointsAssumption, ValuesAssumption
<1> QED
  <2>1. /\ setAngle \in [Motors -> Values] /\ currentAngle \in [Motors -> Values]
        /\ target \in [Motors -> Operand]
    BY <1>3 DEF Init
  <2>2. /\ path \in Seq(Points) /\ effectorLocation \in Points /\ asked \in Points
        /\ HasPoint
    BY EmptyPath, PointsAssumption DEF Init, HasPoint
  <2>3. /\ running \in [Motors -> {0} \cup Slot]
        /\ position \in [Motors -> Operand \cup {Unknown}]
        /\ currentMotionSlot \in Slot
    BY DEF Init, Slot
  <2>4. writing \in SUBSET Motors
    BY DEF Init
  <2> QED
    BY <1>1, <1>2, <2>1, <2>2, <2>3, <2>4 DEF Init, TypeInv, TypeOK

\* What the service calls leave as it should be.
LEMMA CallType ==
  ASSUME TypeInv, NEW service \in Services, NEW args \in Arguments(service),
         Call(service, args)
  PROVE  TypeInv'
<1>1. service \in Service
  BY ServicesAssumption
<1>2. CASE Checks(service, effectorLocation, Passed(service, effectorLocation, args))
  <2>1. path' \in Seq(Points)
    BY <1>1, <1>2, PassedIsPath DEF Call, TypeInv, TypeOK
  <2> QED
    BY <1>2, <2>1 DEF Call, TypeInv, TypeOK, HasPoint, software, hardware
<1>3. CASE ~Checks(service, effectorLocation, Passed(service, effectorLocation, args))
  <2>1. EndedType'
    BY <1>3, EndType DEF Call
  <2> QED
    BY <1>3, <2>1 DEF Call, EndedType, TypeInv, TypeOK, HasPoint, software, hardware
<1> QED
  BY <1>2, <1>3

LEMMA MoveToType == TypeInv /\ MoveTo => TypeInv'
<1> SUFFICES ASSUME TypeInv, MoveTo PROVE TypeInv'
  OBVIOUS
<1>1. NextSlot \in Slot
  BY DEF NextSlot, TypeInv, TypeOK, Slot
<1>2. path # <<>> => Tail(path) \in Seq(Points)
  BY DEF TypeInv, TypeOK
<1>3. CASE pc' = "idle"
  <2>1. EndedType'
    BY <1>3, EndType DEF MoveTo
  <2>2. currentMotionSlot' \in Slot
    BY <1>1 DEF MoveTo, TypeInv, TypeOK
  <2> QED
    BY <2>1, <2>2 DEF MoveTo, EndedType, TypeInv, TypeOK, HasPoint, hardware
<1>4. CASE pc' # "idle"
  <2>1. /\ path # <<>> /\ UNCHANGED <<asked, answer>>
        /\ \/ path' = Tail(path) /\ UNCHANGED <<pc, writing, currentMotionSlot>>
           \/ /\ pc' = "write" /\ writing' = Motors
              /\ currentMotionSlot' = NextSlot /\ UNCHANGED path
    BY <1>4 DEF MoveTo, End
  <2>2. pc = "moveTo" /\ UNCHANGED <<register, shadow, state, setAngle, currentAngle,
                                    effectorLocation, hardware>>
    BY DEF MoveTo
  <2> QED
    BY <1>1, <1>2, <2>1, <2>2 DEF TypeInv, TypeOK, HasPoint, hardware
<1> QED
  BY <1>3, <1>4

LEMMA WriteMotorType ==
  ASSUME TypeInv, NEW m \in Motors, Write(m) PROVE TypeInv'
<1> DEFINE value == angle[m][Head(path)]
<1>1. value \in Values
  BY AngleAssumption DEF TypeInv, TypeOK, HasPoint, Write
<1> PICK outcome \in Outcome :
       /\ writeU32(m, currentMotionSlot, value, outcome)
       /\ IF outcome = "ok"
          THEN /\ setAngle' = [setAngle EXCEPT ![m] = value]
               /\ writing' = writing \ {m}
               /\ pc' = IF writing' = {} THEN "ready" ELSE "write"
               /\ UNCHANGED <<path, asked, answer>>
          ELSE End("exception") /\ UNCHANGED setAngle
  BY DEF Write
<1> HIDE DEF value
<1>2. register' \in Addressed(Word) /\ shadow' \in Addressed(Word \cup {None})
  BY <1>1, WriteType DEF TypeInv, TypeOK
<1>3. UNCHANGED <<state, currentMotionSlot, currentAngle, effectorLocation, hardware>>
  BY DEF Write
<1>4. CASE outcome = "ok"
  BY <1>1, <1>2, <1>3, <1>4 DEF Write, TypeInv, TypeOK, HasPoint, hardware
<1>5. CASE outcome # "ok"
  <2>1. EndedType' /\ UNCHANGED setAngle
    BY <1>5, EndType
  <2> QED
    BY <1>2, <1>3, <2>1 DEF EndedType, TypeInv, TypeOK, HasPoint, hardware
<1> QED
  BY <1>4, <1>5

LEMMA StartType == TypeInv /\ StartMovement => TypeInv'
<1> SUFFICES ASSUME TypeInv, StartMovement PROVE TypeInv'
  OBVIOUS
<1>1. \A m \in Motors : ValueOf(register[m][currentMotionSlot]) \in Operand
  BY ValueIsOperand DEF TypeInv, TypeOK, Addressed
<1>2. target' \in [Motors -> Operand] /\ running' \in [Motors -> {0} \cup Slot]
  BY <1>1 DEF StartMovement, TypeInv, TypeOK
<1>3. CASE pc' = "idle"
  <2>1. EndedType'
    BY <1>3, EndType DEF StartMovement
  <2> QED
    BY <1>2, <2>1 DEF StartMovement, software, EndedType, TypeInv, TypeOK, HasPoint
<1>4. CASE pc' # "idle"
  <2>1. pc = "start" /\ pc' = "clear" /\ UNCHANGED call
    BY <1>4 DEF StartMovement, End
  <2> QED
    BY <1>2, <2>1 DEF StartMovement, software, call, TypeInv, TypeOK, HasPoint
<1> QED
  BY <1>3, <1>4

LEMMA OtherStepType == TypeInv /\ (WaitTillReady \/ PollFails \/ Clear) => TypeInv'
<1>1. TypeInv /\ WaitTillReady => TypeInv'
  BY DEF WaitTillReady, TypeInv, TypeOK, HasPoint, software, call, hardware
<1>2. TypeInv /\ PollFails => TypeInv'
  BY EndType DEF PollFails, EndedType, TypeInv, TypeOK, HasPoint, software, hardware
<1>3. TypeInv /\ Clear => TypeInv'
  <2> SUFFICES ASSUME TypeInv, Clear PROVE TypeInv'
    OBVIOUS
  <2>1. Head(path) \in Points /\ Tail(path) \in Seq(Points)
    BY DEF Clear, TypeInv, TypeOK, HasPoint
  <2> QED
    <3>1. CASE pc' = "idle"
      <4>1. EndedType' /\ UNCHANGED <<currentAngle, effectorLocation>>
        BY <3>1, EndType DEF Clear
      <4> QED
        BY <4>1 DEF Clear, EndedType, TypeInv, TypeOK, HasPoint, hardware
    <3>2. CASE pc' # "idle"
      <4>1. /\ pc' = "moveTo" /\ currentAngle' = setAngle
            /\ effectorLocation' = Head(path) /\ path' = Tail(path)
            /\ UNCHANGED <<writing, asked, answer>>
        BY <3>2 DEF Clear, End
      <4> QED
        BY <2>1, <4>1 DEF Clear, TypeInv, TypeOK, HasPoint, hardware
    <3> QED
      BY <3>1, <3>2
<1> QED
  BY <1>1, <1>2, <1>3

LEMMA ArriveType ==
  ASSUME TypeInv, NEW m \in Motors, Arrive(m) PROVE TypeInv'
BY DEF Arrive, TypeInv, TypeOK, HasPoint, software, call

LEMMA TransitionType == TypeInv /\ (Transition \/ Restart) => TypeInv'
<1> SUFFICES ASSUME TypeInv PROVE Transition \/ Restart => TypeInv'
  OBVIOUS
<1>0. /\ AnglesOf(Home) \in [Motors -> Values] /\ Values \subseteq Operand
      /\ Home \in Points /\ Origin \in Points
  BY AnglesAreValues, PointsAssumption, ValuesAssumption
<1>1. \A T : Calibrated(register, T) \in Addressed(Word)
  BY CalibratedType DEF TypeInv, TypeOK
<1>2. \A T : Calibrated(shadow, T) \in Addressed(Word \cup {None})
  BY CalibratedType DEF TypeInv, TypeOK
<1>3. transitionSetup => TypeInv'
  BY <1>0, <1>1, <1>2 DEF transitionSetup, call, TypeInv, TypeOK, HasPoint
<1>4. transitionShutdown => TypeInv'
  BY <1>0 DEF transitionShutdown, Unpowered, TypeInv, TypeOK, HasPoint
<1>5. transitionStart => TypeInv'
  BY DEF transitionStart, call, hardware, TypeInv, TypeOK, HasPoint
<1>6. transitionStop => TypeInv'
  BY DEF transitionStop, call, hardware, TypeInv, TypeOK, HasPoint
<1>7. Restart => TypeInv'
  <2> SUFFICES ASSUME Restart PROVE TypeInv'
    OBVIOUS
  <2>1. shadow' \in Addressed(Word \cup {None}) /\ register' \in Addressed(Word)
    BY <1>1 DEF Restart, Addressed
  <2> QED
    <3>1. /\ setAngle' \in [Motors -> Values] /\ currentAngle' \in [Motors -> Values]
          /\ target' \in [Motors -> Operand]
      BY <1>0 DEF Restart, Unpowered
    <3>2. /\ running' \in [Motors -> {0} \cup Slot]
          /\ position' \in [Motors -> Operand \cup {Unknown}]
          /\ calibrated' \in BOOLEAN
      <4>1. Unpowered
        BY DEF Restart
      <4> QED
        BY <4>1 DEF Unpowered
    <3>4. currentMotionSlot' \in Slot
      BY DEF Restart, Slot
    <3>3. /\ state' = "SAFE" /\ effectorLocation' \in Points /\ asked' \in Points
          /\ answer' = "none" /\ pc' = "idle" /\ UNCHANGED <<path, writing>>
      BY <1>0 DEF Restart
    <3> QED
      BY <2>1, <3>1, <3>2, <3>3, <3>4 DEF TypeInv, TypeOK, HasPoint
<1> QED
  BY <1>3, <1>4, <1>5, <1>6, <1>7 DEF Transition

\* Every step keeps the types, and a point for moveTo to move to.
LEMMA NextType == TypeInv /\ [Next]_vars => TypeInv'
<1> SUFFICES ASSUME TypeInv, [Next]_vars PROVE TypeInv'
  OBVIOUS
<1>1. CASE Service_
  BY <1>1, CallType DEF Service_
<1>2. CASE Step
  BY <1>2, MoveToType, WriteMotorType, StartType, OtherStepType DEF Step
<1>3. CASE PollFails
  BY <1>3, OtherStepType
<1>4. CASE \E m \in Motors : Arrive(m)
  BY <1>4, ArriveType
<1>5. CASE Transition \/ Restart
  BY <1>5, TransitionType
<1>6. CASE UNCHANGED vars
  BY <1>6 DEF vars, software, call, hardware, TypeInv, TypeOK, HasPoint
<1> QED
  BY <1>1, <1>2, <1>3, <1>4, <1>5, <1>6 DEF Next

\* Every variable keeps its type, whatever the faults; and whenever moveTo writes, waits
\* or starts, there is a point ahead that it moves to.
THEOREM TypeCorrect == Spec => [](TypeOK /\ HasPoint)
<1> QED
  BY InitType, NextType, PTL DEF Spec, TypeInv

-----------------------------------------------------------------------------
\* A request fails only before it is obeyed.
NoLateAnswers == "late" \notin Faults

\* writeU32 keeps the shadow agreeing with the driver.
LEMMA WriteAgrees ==
  ASSUME TypeInv, ShadowAgrees, NoLateAnswers,
         NEW m \in Motors, NEW s \in Slot, NEW value \in Values, NEW outcome \in Outcome,
         writeU32(m, s, value, outcome)
  PROVE  ShadowAgrees'
<1> DEFINE data == Halves(value)
           halves == NotShadowed(m, s, data)
<1>1. register \in Addressed(Word) /\ shadow \in Addressed(Word \cup {None})
  BY DEF TypeInv, TypeOK
<1>2. CASE outcome = "ok"
  <2>1. register' = Sent(register, m, s, halves, data)
        /\ shadow' = Sent(shadow, m, s, halves, data)
    BY <1>2 DEF writeU32
  <2> HIDE DEF data, halves
  <2>2. \A n \in Motors : \A t \in Slot : \A h \in Half :
          IF n = m /\ t = s /\ h \in halves
          THEN register'[n][t][h] = data[h] /\ shadow'[n][t][h] = data[h]
          ELSE register'[n][t][h] = register[n][t][h] /\ shadow'[n][t][h] = shadow[n][t][h]
    BY <1>1, <2>1 DEF Sent, Addressed
  <2> QED
    BY <2>2 DEF ShadowAgrees
<1>3. CASE outcome # "ok"
  <2>1. outcome = "lost"
    BY <1>3 DEF Outcome, NoLateAnswers
  <2> QED
    BY <2>1 DEF writeU32, ShadowAgrees
<1> QED
  BY <1>2, <1>3

\* So does a calibration, and the restart of the node forgets the shadow.
LEMMA SetupAgrees ==
  ASSUME TypeInv, ShadowAgrees, transitionSetup PROVE ShadowAgrees'
<1>1. CASE UNCHANGED <<register, shadow>>
  BY <1>1 DEF ShadowAgrees
<1>2. CASE register' = Calibrated(register, Motors) /\ shadow' = Calibrated(shadow, Motors)
  <2>1. register \in Addressed(Word) /\ shadow \in Addressed(Word \cup {None})
    BY DEF TypeInv, TypeOK
  <2>2. \A n \in Motors : \A h \in Half :
          /\ register'[n][1][h] = shadow'[n][1][h]
          /\ register'[n][2][h] = register[n][2][h] /\ shadow'[n][2][h] = shadow[n][2][h]
    BY <1>2, <2>1 DEF Calibrated, Addressed, Slot
  <2> QED
    BY <2>2 DEF ShadowAgrees, Slot
<1> QED
  BY <1>1, <1>2 DEF transitionSetup

LEMMA RestartAgrees == Restart => ShadowAgrees'
BY DEF Restart, ShadowAgrees

LEMMA NextAgrees ==
  TypeInv /\ ShadowAgrees /\ NoLateAnswers /\ [Next]_vars => ShadowAgrees'
<1> SUFFICES ASSUME TypeInv, ShadowAgrees, NoLateAnswers, [Next]_vars
             PROVE ShadowAgrees'
  OBVIOUS
<1>1. CASE \E m \in Motors : Write(m)
  <2> PICK m \in Motors : Write(m)
    BY <1>1
  <2>1. angle[m][Head(path)] \in Values
    BY AngleAssumption DEF TypeInv, TypeOK, HasPoint, Write
  <2>2. currentMotionSlot \in Slot
    BY DEF TypeInv, TypeOK
  <2> QED
    BY <2>1, <2>2, WriteAgrees DEF Write
<1>2. CASE transitionSetup
  BY <1>2, SetupAgrees
<1>3. CASE Restart
  BY <1>3, RestartAgrees
<1>4. CASE UNCHANGED <<register, shadow>>
  BY <1>4 DEF ShadowAgrees
<1>5. CASE Service_
  BY <1>4, <1>5 DEF Service_, Call
<1>6. CASE Step /\ ~\E m \in Motors : Write(m)
  BY <1>4, <1>6 DEF Step, MoveTo, WaitTillReady, StartMovement, Clear
<1>7. CASE PollFails \/ (\E m \in Motors : Arrive(m)) \/ UNCHANGED vars
  BY <1>4, <1>7 DEF PollFails, Arrive, vars
<1>8. CASE transitionShutdown \/ transitionStart \/ transitionStop
  BY <1>4, <1>8 DEF transitionShutdown, transitionStart, transitionStop
<1> QED
  BY <1>1, <1>2, <1>3, <1>5, <1>6, <1>7, <1>8 DEF Next, Step, Transition

\* As long as a request that fails was not obeyed, writeU32 never skips a half
\* that a driver does not have: for every number of motors, every word size and
\* every kinematics, with lost requests, failed calibrations and restarts.
THEOREM ShadowCorrect ==
  ASSUME NoLateAnswers PROVE Spec => []ShadowAgrees
<1>1. Init => ShadowAgrees
  BY DEF Init, ShadowAgrees
<1>2. TypeInv /\ ShadowAgrees /\ [Next]_vars => ShadowAgrees'
  BY NextAgrees
<1> QED
  BY <1>1, <1>2, InitType, NextType, PTL DEF Spec
-----------------------------------------------------------------------------
\* No answer is lost after the request was obeyed, and every driver hears every
\* broadcast.
Reliable == Faults \cap {"late", "deaf", "bus"} = {}

Moving == pc \in {"write", "ready", "start", "clear"}

\* Where the motors are or go: once started, to the point ahead.
Destination == IF pc = "clear" THEN Head(path) ELSE effectorLocation

\* What the parts of a motion know of each other while it is prepared.
InPlace     == calibrated => \A m \in Motors : Heading(m) = angle[m][Destination]
AnglesKnown == calibrated => currentAngle = AnglesOf(effectorLocation)
Written     == \A m \in Motors : Moving /\ ~(pc = "write" /\ m \in writing)
                 => /\ setAngle[m] = angle[m][Head(path)]
                    /\ ValueOf(register[m][currentMotionSlot]) = angle[m][Head(path)]
Checked     == Moving => checkPath(effectorLocation, Head(path))
Waited      == pc = "start" => AtRest

MotionInv == InPlace /\ AnglesKnown /\ Written /\ Checked /\ Waited

\* What is read from the two words of a value is the value.
LEMMA ValueOfHalves ==
  ASSUME NEW v \in Operand PROVE ValueOf(Halves(v)) = v
<1>1. v \in Nat
  BY RadixAssumption DEF Operand
<1>2. v = Radix * (v \div Radix) + (v % Radix)
  BY <1>1, RadixAssumption
<1>3. Radix * (v \div Radix) = (v \div Radix) * Radix
  BY <1>1, RadixAssumption
<1> QED
  BY <1>2, <1>3 DEF ValueOf, Halves, Half

\* After writeU32 returned, the driver holds the value.
LEMMA WriteArrives ==
  ASSUME TypeInv, ShadowAgrees, NEW m \in Motors, NEW s \in Slot, NEW value \in Values,
         writeU32(m, s, value, "ok")
  PROVE  /\ ValueOf(register'[m][s]) = value
         /\ \A n \in Motors \ {m} : register'[n] = register[n]
<1> DEFINE data == Halves(value)
           halves == NotShadowed(m, s, data)
<1>1. register \in Addressed(Word) /\ shadow \in Addressed(Word \cup {None})
  BY DEF TypeInv, TypeOK
<1>2. data \in [Half -> Word] /\ ValueOf(data) = value
  BY HalvesAreWords, ValueOfHalves, ValuesAssumption
<1>3. register' = Sent(register, m, s, halves, data)
  BY DEF writeU32
<1>4. \A h \in Half \ halves : register[m][s][h] = data[h]
  <2> SUFFICES ASSUME NEW h \in Half \ halves PROVE register[m][s][h] = data[h]
    OBVIOUS
  <2>1. shadow[m][s][h] = data[h]
    BY DEF NotShadowed
  <2>2. data[h] # None
    BY <1>2, RadixAssumption DEF Word, None
  <2> QED
    BY <2>1, <2>2 DEF ShadowAgrees
<1> HIDE DEF data, halves
<1>5. register'[m][s] = [h \in Half |-> IF h \in halves THEN data[h] ELSE register[m][s][h]]
  BY <1>1, <1>3 DEF Sent, Addressed
<1>6. register'[m][s] = data
  BY <1>2, <1>4, <1>5
<1>7. \A n \in Motors \ {m} : register'[n] = register[n]
  BY <1>1, <1>3 DEF Sent, Addressed
<1> QED
  BY <1>2, <1>6, <1>7

\* A call that ends leaves the motors and what is known of them alone.
LEMMA EndMotion ==
  ASSUME MotionInv, pc # "clear", NEW how, End(how),
         UNCHANGED <<currentAngle, effectorLocation, hardware>>
  PROVE  MotionInv'
BY DEF MotionInv, InPlace, AnglesKnown, Written, Checked, Waited, Moving, Destination,
       Heading, End, hardware, AnglesOf

LEMMA CallMotion ==
  ASSUME MotionInv, NEW service, NEW args, Call(service, args) PROVE MotionInv'
<1>1. pc = "idle" /\ UNCHANGED <<register, shadow, software, hardware>>
  BY DEF Call
<1>2. CASE pc' = "moveTo"
  BY <1>1, <1>2 DEF MotionInv, InPlace, AnglesKnown, Written, Checked, Waited, Moving,
       Destination, Heading, AnglesOf, software, hardware
<1>3. CASE End("false")
  BY <1>1, <1>3, EndMotion DEF software
<1> QED
  BY <1>2, <1>3 DEF Call

LEMMA MoveToMotion ==
  ASSUME MotionInv, MoveTo PROVE MotionInv'
<1>1. pc = "moveTo" /\ UNCHANGED <<register, setAngle, currentAngle, effectorLocation, hardware>>
  BY DEF MoveTo
<1>2. CASE \E how : End(how)
  BY <1>1, <1>2, EndMotion
<1>3. CASE pc' = "moveTo"
  BY <1>1, <1>3 DEF MotionInv, InPlace, AnglesKnown, Written, Checked, Waited, Moving,
       Destination, Heading, AnglesOf, hardware
<1>4. CASE /\ pc' = "write" /\ writing' = Motors /\ UNCHANGED path
           /\ checkPath(effectorLocation, Head(path))
  BY <1>1, <1>4 DEF MotionInv, InPlace, AnglesKnown, Written, Checked, Waited, Moving,
       Destination, Heading, AnglesOf, hardware, checkPath
<1> QED
  BY <1>1, <1>2, <1>3, <1>4 DEF MoveTo

LEMMA WriteMotion ==
  ASSUME TypeInv, ShadowAgrees, Reliable, MotionInv, NEW m \in Motors, Write(m)
  PROVE  MotionInv'
<1> DEFINE value == angle[m][Head(path)]
<1>0. value \in Values /\ currentMotionSlot \in Slot
  BY AngleAssumption DEF TypeInv, TypeOK, HasPoint, Write
<1>1. pc = "write" /\ UNCHANGED <<currentMotionSlot, currentAngle, effectorLocation, hardware>>
  BY DEF Write
<1>2. CASE \E how : End(how)
  BY <1>1, <1>2, EndMotion
<1>3. CASE /\ writeU32(m, currentMotionSlot, value, "ok")
           /\ setAngle' = [setAngle EXCEPT ![m] = value]
           /\ writing' = writing \ {m}
           /\ pc' = IF writing' = {} THEN "ready" ELSE "write"
           /\ UNCHANGED path
  <2> HIDE DEF value
  <2>1. /\ ValueOf(register'[m][currentMotionSlot]) = value
        /\ \A n \in Motors \ {m} : register'[n] = register[n]
    BY <1>0, <1>3, WriteArrives
  <2>2. setAngle'[m] = value /\ \A n \in Motors \ {m} : setAngle'[n] = setAngle[n]
    BY <1>3 DEF TypeInv, TypeOK
  <2>3. Written'
    <3> SUFFICES ASSUME NEW n \in Motors, ~(pc' = "write" /\ n \in writing')
                 PROVE  /\ setAngle'[n] = angle[n][Head(path')]
                        /\ ValueOf(register'[n][currentMotionSlot']) = angle[n][Head(path')]
      BY DEF Written
    <3>1. CASE n = m
      BY <1>1, <1>3, <2>1, <2>2, <3>1 DEF value
    <3>2. CASE n # m
      <4>1. n \notin writing
        BY <1>3, <3>2
      <4> QED
        BY <1>1, <1>3, <2>1, <2>2, <3>2, <4>1 DEF MotionInv, Written, Moving
    <3> QED
      BY <3>1, <3>2
  <2>4. InPlace' /\ AnglesKnown'
    BY <1>1, <1>3 DEF MotionInv, InPlace, AnglesKnown, Destination, Heading, AnglesOf, hardware
  <2>5. Checked' /\ Waited'
    BY <1>1, <1>3 DEF MotionInv, Checked, Waited, Moving, checkPath
  <2> QED
    BY <2>3, <2>4, <2>5 DEF MotionInv
<1> QED
  BY <1>2, <1>3 DEF Write

LEMMA ReadyMotion ==
  ASSUME MotionInv, WaitTillReady \/ PollFails PROVE MotionInv'
<1>1. CASE WaitTillReady
  BY <1>1 DEF WaitTillReady, MotionInv, InPlace, AnglesKnown, Written, Checked, Waited,
       Moving, Destination, Heading, AnglesOf, checkPath, AtRest, software, call, hardware
<1>2. CASE PollFails
  BY <1>2, EndMotion DEF PollFails, software
<1> QED
  BY <1>1, <1>2

\* A reliable broadcast starts every motor, towards what was written.
LEMMA StartedMotion ==
  ASSUME TypeInv, Reliable, MotionInv, StartMovement
  PROVE  /\ pc = "start" /\ pc' = "clear"
         /\ running' = [m \in Motors |-> currentMotionSlot]
         /\ target' = AnglesOf(Head(path))
         /\ UNCHANGED <<register, software, path, writing, asked, answer, calibrated>>
<1>1. "deaf" \notin Faults /\ "bus" \notin Faults
  BY DEF Reliable
<1>2. /\ pc = "start" /\ pc' = "clear" /\ UNCHANGED call
      /\ running' = [m \in Motors |-> currentMotionSlot]
      /\ target' = [m \in Motors |-> ValueOf(register[m][currentMotionSlot])]
      /\ UNCHANGED <<register, software, calibrated>>
  BY <1>1 DEF StartMovement
<1>3. \A m \in Motors : ValueOf(register[m][currentMotionSlot]) = angle[m][Head(path)]
  BY <1>2 DEF MotionInv, Written, Moving
<1> QED
  BY <1>2, <1>3 DEF AnglesOf, call

LEMMA StartMotion ==
  ASSUME TypeInv, Reliable, MotionInv, StartMovement PROVE MotionInv'
<1>1. /\ pc = "start" /\ pc' = "clear"
      /\ running' = [m \in Motors |-> currentMotionSlot]
      /\ target' = AnglesOf(Head(path))
      /\ UNCHANGED <<register, software, path, writing, calibrated>>
  BY StartedMotion
<1>2. currentMotionSlot # 0
  BY DEF TypeInv, TypeOK, Slot
<1>3. InPlace'
  BY <1>1, <1>2 DEF InPlace, Destination, Heading, AnglesOf
<1>4. AnglesKnown' /\ Written' /\ Checked' /\ Waited'
  BY <1>1 DEF MotionInv, AnglesKnown, Written, Checked, Waited, Moving, AnglesOf, checkPath,
       software
<1> QED
  BY <1>3, <1>4 DEF MotionInv

LEMMA ClearMotion ==
  ASSUME TypeInv, Reliable, MotionInv, Clear PROVE MotionInv'
<1>1. /\ pc = "clear" /\ pc' = "moveTo" /\ currentAngle' = setAngle
      /\ effectorLocation' = Head(path) /\ UNCHANGED hardware
  BY DEF Clear, Reliable
<1>2. setAngle = AnglesOf(Head(path))
  BY <1>1 DEF MotionInv, Written, Moving, AnglesOf, TypeInv, TypeOK
<1>3. InPlace'
  BY <1>1 DEF MotionInv, InPlace, Destination, Heading, hardware
<1>4. AnglesKnown'
  BY <1>1, <1>2 DEF AnglesKnown, AnglesOf
<1> QED
  BY <1>1, <1>3, <1>4 DEF MotionInv, Written, Checked, Waited, Moving

LEMMA ArriveMotion ==
  ASSUME TypeInv, MotionInv, NEW m \in Motors, Arrive(m) PROVE MotionInv'
<1>1. /\ running[m] # 0
      /\ running' = [running EXCEPT ![m] = 0]
      /\ position' = [position EXCEPT ![m] = IF calibrated THEN target[m] ELSE Unknown]
      /\ UNCHANGED <<register, software, pc, path, writing, target, calibrated>>
  BY DEF Arrive, call
<1>2. InPlace'
  <2> SUFFICES ASSUME calibrated, NEW n \in Motors
               PROVE  Heading(n)' = Heading(n)
    BY <1>1 DEF MotionInv, InPlace, Destination, software
  <2>1. CASE n = m
    BY <1>1, <2>1 DEF Heading, TypeInv, TypeOK
  <2>2. CASE n # m
    BY <1>1, <2>2 DEF Heading, TypeInv, TypeOK
  <2> QED
    BY <2>1, <2>2
<1>3. Waited'
  BY <1>1 DEF MotionInv, Waited, AtRest, TypeInv, TypeOK
<1>4. AnglesKnown' /\ Written' /\ Checked'
  BY <1>1 DEF MotionInv, AnglesKnown, Written, Checked, Moving, AnglesOf, checkPath, software
<1> QED
  BY <1>2, <1>3, <1>4 DEF MotionInv

LEMMA TransitionMotion ==
  ASSUME MotionInv, Transition \/ Restart PROVE MotionInv'
<1>0. pc = "idle" /\ UNCHANGED pc
  BY DEF Transition, transitionSetup, transitionShutdown, transitionStart, transitionStop, Restart
<1>1. Written' /\ Checked' /\ Waited'
  BY <1>0 DEF Written, Checked, Waited, Moving
<1>2. InPlace' /\ AnglesKnown'
  <2>1. CASE ~calibrated'
    BY <2>1 DEF InPlace, AnglesKnown
  <2>2. CASE transitionSetup /\ calibrated'
    BY <1>0, <2>2 DEF transitionSetup, InPlace, AnglesKnown, Destination, Heading, AnglesOf
  <2>3. CASE transitionStart \/ transitionStop
    BY <1>0, <2>3 DEF transitionStart, transitionStop, MotionInv, InPlace, AnglesKnown,
         Destination, Heading, AnglesOf, hardware
  <2>4. CASE transitionShutdown \/ Restart
    BY <2>1, <2>4 DEF transitionShutdown, Restart, Unpowered
  <2> QED
    BY <2>1, <2>2, <2>3, <2>4 DEF Transition
<1> QED
  BY <1>1, <1>2 DEF MotionInv

LEMMA NextMotion ==
  TypeInv /\ ShadowAgrees /\ Reliable /\ MotionInv /\ [Next]_vars => MotionInv'
<1> SUFFICES ASSUME TypeInv, ShadowAgrees, Reliable, MotionInv, [Next]_vars
             PROVE  MotionInv'
  OBVIOUS
<1>1. CASE Service_
  BY <1>1, CallMotion DEF Service_
<1>2. CASE Step
  BY <1>2, MoveToMotion, WriteMotion, ReadyMotion, StartMotion, ClearMotion DEF Step
<1>3. CASE PollFails
  BY <1>3, ReadyMotion
<1>4. CASE \E m \in Motors : Arrive(m)
  BY <1>4, ArriveMotion
<1>5. CASE Transition \/ Restart
  BY <1>5, TransitionMotion
<1>6. CASE UNCHANGED vars
  BY <1>6 DEF vars, software, call, hardware, MotionInv, InPlace, AnglesKnown, Written, Checked,
       Waited, Moving, Destination, Heading, AnglesOf, AtRest, checkPath
<1> QED
  BY <1>1, <1>2, <1>3, <1>4, <1>5, <1>6 DEF Next

LEMMA InitMotion == Init => MotionInv
BY DEF Init, MotionInv, InPlace, AnglesKnown, Written, Checked, Waited, Moving, AtRest

\* On a reliable bus MotionInv is an invariant of every run.
LEMMA MotionCorrect ==
  ASSUME Reliable PROVE Spec => [](TypeInv /\ ShadowAgrees /\ MotionInv)
<1>1. NoLateAnswers
  BY DEF NoLateAnswers, Reliable
<1>2. Init => ShadowAgrees
  BY DEF Init, ShadowAgrees
<1>3. Init => TypeInv /\ ShadowAgrees /\ MotionInv
  BY <1>2, InitType, InitMotion
<1>4. TypeInv /\ ShadowAgrees /\ MotionInv /\ [Next]_vars
        => (TypeInv /\ ShadowAgrees /\ MotionInv)'
  BY <1>1, NextType, NextAgrees, NextMotion
<1> QED
  BY <1>3, <1>4, PTL DEF Spec

\* Between service calls of a calibrated robot the motors are, or will be, where
\* effectorLocation says: LocationAgrees, for any number of motors, any kinematics
\* and any paths, with lost requests, failed polls, calibrations and restarts.
THEOREM LocationCorrect ==
  ASSUME Reliable PROVE Spec => []LocationAgrees
<1>1. MotionInv => LocationAgrees
  BY DEF MotionInv, InPlace, AnglesKnown, LocationAgrees, Destination
<1> QED
  BY <1>1, MotionCorrect, PTL

\* What StartMovement starts is the motion that was checked, from where the
\* motors stand still: MotionIsChecked, under the same assumptions.
THEOREM MotionIsCheckedCorrect ==
  ASSUME Reliable PROVE Spec => MotionIsChecked
<1> DEFINE A == pc = "start" /\ pc' = "clear" /\ calibrated
                  => /\ checkPath(effectorLocation, Head(path))
                     /\ position = AnglesOf(effectorLocation)
                     /\ AtRest
                     /\ target' = AnglesOf(Head(path))
<1>1. TypeInv /\ ShadowAgrees /\ MotionInv /\ [Next]_vars => [A]_vars
  <2> SUFFICES ASSUME TypeInv, MotionInv, [Next]_vars,
                      pc = "start", pc' = "clear", calibrated
               PROVE  A
    OBVIOUS
  <2>1. StartMovement
    BY DEF Next, vars, Service_, Call, End, Step, MoveTo, Write, WaitTillReady, Clear, PollFails,
         Arrive, Transition, transitionSetup, transitionShutdown, transitionStart,
         transitionStop, Restart
  <2>2. target' = AnglesOf(Head(path))
    BY <2>1, StartedMotion
  <2>3. checkPath(effectorLocation, Head(path)) /\ AtRest
    BY DEF MotionInv, Checked, Waited, Moving
  <2>4. \A m \in Motors : position[m] = angle[m][effectorLocation]
    BY <2>3 DEF MotionInv, InPlace, Destination, Heading, AtRest
  <2>5. position = AnglesOf(effectorLocation)
    BY <2>4 DEF AnglesOf, TypeInv, TypeOK
  <2> QED
    BY <2>2, <2>3, <2>5
<1> HIDE DEF A
<1>2. Spec => [][A]_vars
  BY <1>1, MotionCorrect, PTL DEF Spec
<1> QED
  BY <1>2 DEF A, MotionIsChecked
-----------------------------------------------------------------------------
\* moveToRelativePoint does not move where its documentation says.
AsDocumented == "relativePoint" \notin Services

\* How far a call is from the point it was asked to end at; where the angles of
\* two points are the same, effectorLocation may be the other one.
LastIsAsked ==
  pc # "idle" => IF path # <<>> THEN path[Len(path)] = asked
                 ELSE calibrated => AnglesOf(effectorLocation) = AnglesOf(asked)
TrueIsThere ==
  answer = "true" => /\ state # "SAFE"
                     /\ calibrated => AnglesOf(effectorLocation) = AnglesOf(asked)
BusyInNormal == pc # "idle" => state = "NORMAL" /\ answer # "true"

CallInv == LastIsAsked /\ TrueIsThere /\ BusyInNormal

\* The rest of a path ends where the path ends.
LEMMA TailKeepsLast ==
  ASSUME NEW p \in Seq(Points), p # <<>>
  PROVE  IF Tail(p) # <<>> THEN Tail(p)[Len(Tail(p))] = p[Len(p)] ELSE Head(p) = p[Len(p)]
<1>1. Len(p) \in Nat /\ Len(p) >= 1 /\ Len(Tail(p)) = Len(p) - 1
  OBVIOUS
<1>2. CASE Len(p) = 1
  <2>1. Tail(p) \in Seq(Points) /\ Len(Tail(p)) = 0
    BY <1>1, <1>2
  <2>2. Tail(p) = <<>>
    BY <2>1, EmptySeq
  <2> QED
    BY <1>2, <2>2
<1>3. CASE Len(p) > 1
  BY <1>1, <1>3
<1> QED
  BY <1>1, <1>2, <1>3

LEMMA CallCall ==
  ASSUME TypeInv, AsDocumented, CallInv, NEW service \in Services,
         NEW args \in Arguments(service), Call(service, args)
  PROVE  CallInv'
<1> DEFINE points == Passed(service, effectorLocation, args)
           wanted == Documented(service, effectorLocation, args)
<1>1. service \in Service \ {"relativePoint"}
  BY ServicesAssumption DEF AsDocumented
<1>2. wanted = points
  BY <1>1 DEF Passed, Documented, Service
<1>3. /\ pc = "idle" /\ state = "NORMAL"
      /\ UNCHANGED <<register, shadow, software, hardware>>
  BY DEF Call
<1>4. CASE pc' = "moveTo" /\ path' = points /\ answer' = "none" /\ asked' = wanted[Len(wanted)]
  <2>1. PICK n \in Nat : n >= 1 /\ args \in [1..n -> Coordinates(service)]
    BY PathAssumption DEF Arguments
  <2>2. Len(args) = n /\ args # <<>>
    BY <2>1
  <2>3. points # <<>>
    <3>1. Sums(effectorLocation, args) # <<>>
      BY <2>1, <2>2 DEF Sums
    <3> QED
      BY <2>2, <3>1 DEF Passed
  <2> HIDE DEF points, wanted
  <2> QED
    BY <1>2, <1>3, <1>4, <2>3 DEF CallInv, LastIsAsked, TrueIsThere, BusyInNormal, software
<1>5. CASE End("false")
  BY <1>3, <1>5 DEF CallInv, LastIsAsked, TrueIsThere, BusyInNormal, End
<1> QED
  BY <1>4, <1>5 DEF Call

\* A call that fails has nothing to keep.
LEMMA EndCall ==
  ASSUME NEW how, how # "true", End(how) PROVE CallInv'
BY DEF End, CallInv, LastIsAsked, TrueIsThere, BusyInNormal

LEMMA MoveToCall ==
  ASSUME TypeInv, MotionInv, CallInv, MoveTo PROVE CallInv'
<1>1. /\ pc = "moveTo"
      /\ UNCHANGED <<state, setAngle, currentAngle, effectorLocation, calibrated>>
  BY DEF MoveTo, hardware
<1>2. state = "NORMAL" /\ answer # "true"
  BY <1>1 DEF CallInv, BusyInNormal
<1>3. CASE path = <<>> /\ End("true")
  BY <1>1, <1>2, <1>3 DEF CallInv, LastIsAsked, TrueIsThere, BusyInNormal, End, AnglesOf
<1>4. CASE End("exception")
  BY <1>4, EndCall
<1>5. CASE /\ path # <<>> /\ path' = Tail(path) /\ UNCHANGED <<pc, asked, answer>>
           /\ calibrated => AnglesOf(Head(path)) = AnglesOf(effectorLocation)
  <2>1. IF path' # <<>> THEN path'[Len(path')] = path[Len(path)]
        ELSE Head(path) = path[Len(path)]
    BY <1>5, TailKeepsLast DEF TypeInv, TypeOK
  <2>2. path[Len(path)] = asked
    BY <1>1, <1>5 DEF CallInv, LastIsAsked
  <2> QED
    BY <1>1, <1>2, <1>5, <2>1, <2>2 DEF CallInv, LastIsAsked, TrueIsThere, BusyInNormal, AnglesOf
<1>6. CASE pc' = "write" /\ UNCHANGED <<path, asked, answer>> /\ path # <<>>
  BY <1>1, <1>2, <1>6 DEF CallInv, LastIsAsked, TrueIsThere, BusyInNormal
<1>7. calibrated => currentAngle = AnglesOf(effectorLocation)
  BY DEF MotionInv, AnglesKnown
<1> QED
  BY <1>3, <1>4, <1>5, <1>6, <1>7 DEF MoveTo

LEMMA ClearCall ==
  ASSUME TypeInv, Reliable, MotionInv, CallInv, Clear PROVE CallInv'
<1>1. /\ pc = "clear" /\ pc' = "moveTo"
      /\ effectorLocation' = Head(path) /\ path' = Tail(path)
      /\ UNCHANGED <<asked, answer, state, hardware>>
  BY DEF Clear, Reliable
<1>2. path # <<>> /\ path \in Seq(Points)
  BY <1>1 DEF TypeInv, TypeOK, HasPoint
<1>3. path[Len(path)] = asked /\ state = "NORMAL" /\ answer # "true"
  BY <1>1, <1>2 DEF CallInv, LastIsAsked, BusyInNormal
<1>4. IF path' # <<>> THEN path'[Len(path')] = asked ELSE effectorLocation' = asked
  BY <1>1, <1>2, <1>3, TailKeepsLast
<1> QED
  BY <1>1, <1>3, <1>4 DEF CallInv, LastIsAsked, TrueIsThere, BusyInNormal, AnglesOf

\* The steps between moveTo and its return leave the path and the point asked for.
LEMMA StepCall ==
  ASSUME TypeInv, CallInv,
         (\E m \in Motors : Write(m)) \/ WaitTillReady \/ PollFails \/ StartMovement
  PROVE  CallInv'
<1>1. CASE End("exception")
  BY <1>1, EndCall
<1>2. CASE UNCHANGED <<path, asked, answer>>
  <2>1. /\ pc # "idle" /\ pc' # "idle" /\ path # <<>>
        /\ UNCHANGED <<state, effectorLocation, calibrated>>
    BY <1>2 DEF Write, WaitTillReady, PollFails, StartMovement, software, hardware, End,
         TypeInv, HasPoint
  <2> QED
    BY <1>2, <2>1 DEF CallInv, LastIsAsked, TrueIsThere, BusyInNormal
<1>3. End("exception") \/ UNCHANGED <<path, asked, answer>>
  BY DEF Write, WaitTillReady, PollFails, StartMovement, call
<1> QED
  BY <1>1, <1>2, <1>3

LEMMA TransitionCall ==
  ASSUME TypeInv, CallInv, Transition \/ Restart PROVE CallInv'
<1>0. pc = "idle" /\ UNCHANGED pc
  BY DEF Transition, transitionSetup, transitionShutdown, transitionStart, transitionStop, Restart
<1>1. CASE transitionSetup
  <2>1. answer' # "true"
    BY <1>1 DEF transitionSetup, CallInv, TrueIsThere, call
  <2> QED
    BY <1>0, <2>1 DEF CallInv, LastIsAsked, TrueIsThere, BusyInNormal
<1>2. CASE transitionShutdown \/ Restart
  BY <1>0, <1>2 DEF transitionShutdown, Restart, CallInv, LastIsAsked, TrueIsThere, BusyInNormal
<1>3. CASE transitionStart \/ transitionStop
  BY <1>0, <1>3 DEF transitionStart, transitionStop, call, hardware, CallInv, LastIsAsked,
       TrueIsThere, BusyInNormal
<1> QED
  BY <1>1, <1>2, <1>3 DEF Transition

LEMMA NextCall ==
  TypeInv /\ Reliable /\ MotionInv /\ AsDocumented /\ CallInv /\ [Next]_vars => CallInv'
<1> SUFFICES ASSUME TypeInv, Reliable, MotionInv, AsDocumented, CallInv, [Next]_vars
             PROVE  CallInv'
  OBVIOUS
<1>1. CASE Service_
  BY <1>1, CallCall DEF Service_
<1>2. CASE Step \/ PollFails
  BY <1>2, MoveToCall, StepCall, ClearCall DEF Step
<1>3. CASE (\E m \in Motors : Arrive(m)) \/ UNCHANGED vars
  <2>1. UNCHANGED <<software, pc, call, calibrated>>
    BY <1>3 DEF Arrive, vars, hardware
  <2> QED
    BY <2>1 DEF software, call, CallInv, LastIsAsked, TrueIsThere, BusyInNormal
<1>4. CASE Transition \/ Restart
  BY <1>4, TransitionCall
<1> QED
  BY <1>1, <1>2, <1>3, <1>4 DEF Next

\* When a service has answered true every motor is at, or on its way to, its angle at the
\* point that was asked for: SucceededIsUnderway, for any paths and kinematics, without the
\* services whose code and documentation disagree.
THEOREM SucceededCorrect ==
  ASSUME Reliable, AsDocumented PROVE Spec => []SucceededIsUnderway
<1>1. Init => CallInv
  BY DEF Init, CallInv, LastIsAsked, TrueIsThere, BusyInNormal
<1>2. MotionInv /\ CallInv => SucceededIsUnderway
  BY DEF MotionInv, InPlace, Destination, CallInv, TrueIsThere, SucceededIsUnderway, AnglesOf
<1> QED
  BY <1>1, <1>2, NextCall, MotionCorrect, PTL DEF Spec

-----------------------------------------------------------------------------
\* No request, broadcast or motor fails.  A driver may still miss a broadcast, a calibration
\* may fail, and the node may be started again.
NothingFails == Faults \cap {"lost", "late", "bus", "alarm"} = {}

\* Between motions the motors execute the slot that was written last, if any; while
\* the next motion is written they execute the other one.
SlotInv ==
  /\ pc \in {"idle", "moveTo", "clear"} => \A m \in Motors : running[m] \in {0, currentMotionSlot}
  /\ pc \in {"write", "ready"} => \A m \in Motors : running[m] # currentMotionSlot
  /\ pc = "start" => AtRest

LEMMA OnlyOk == NothingFails => Outcome = {"ok"} /\ Faults \cap {"bus", "alarm"} = {}
BY DEF NothingFails, Outcome

\* No call ends on the way to a motion then, so no slot is taken twice.
LEMMA StepSlot ==
  ASSUME TypeInv, NothingFails, SlotInv, Step \/ PollFails
  PROVE  SlotInv'
<1>1. CASE MoveTo
  <2>1. /\ pc = "moveTo" /\ UNCHANGED running
        /\ \A m \in Motors : running[m] \in {0, currentMotionSlot}
        /\ currentMotionSlot \in {1, 2}
    BY <1>1 DEF MoveTo, hardware, SlotInv, TypeInv, TypeOK, Slot
  <2>2. \/ pc' \in {"idle", "moveTo"} /\ UNCHANGED currentMotionSlot
        \/ pc' = "write" /\ currentMotionSlot' = NextSlot
    BY <1>1 DEF MoveTo, End
  <2>3. NextSlot \notin {0, currentMotionSlot}
    BY <2>1 DEF NextSlot
  <2> QED BY <2>1, <2>2, <2>3 DEF SlotInv
<1>2. CASE \E m \in Motors : Write(m)
  <2>1. PICK m \in Motors : Write(m)
    BY <1>2
  <2>2. /\ pc = "write" /\ pc' \in {"write", "ready"} /\ UNCHANGED <<currentMotionSlot, running>>
    BY <2>1, OnlyOk DEF Write, hardware
  <2> QED BY <2>2 DEF SlotInv
<1>3. CASE WaitTillReady
  BY <1>3 DEF WaitTillReady, SlotInv, AtRest, software, hardware
<1>4. CASE PollFails
  BY <1>4, OnlyOk DEF PollFails
<1>5. CASE StartMovement
  <2>1. /\ pc' = "clear" /\ UNCHANGED currentMotionSlot
        /\ \E T \in SUBSET Motors :
             running' = [m \in Motors |-> IF m \in T THEN currentMotionSlot ELSE running[m]]
    BY <1>5, OnlyOk DEF StartMovement, software
  <2>2. \A m \in Motors : running[m] = 0
    BY <1>5 DEF StartMovement, SlotInv, AtRest
  <2> QED BY <2>1, <2>2 DEF SlotInv
<1>6. CASE Clear
  <2>1. pc = "clear" /\ pc' = "moveTo" /\ UNCHANGED <<currentMotionSlot, running>>
    BY <1>6, OnlyOk DEF Clear, hardware
  <2> QED BY <2>1 DEF SlotInv
<1> QED BY <1>1, <1>2, <1>3, <1>4, <1>5, <1>6 DEF Step

LEMMA NextSlotInv == TypeInv /\ NothingFails /\ SlotInv /\ [Next]_vars => SlotInv'
<1> SUFFICES ASSUME TypeInv, NothingFails, SlotInv, [Next]_vars PROVE SlotInv'
  OBVIOUS
<1>1. CASE Service_
  <2>1. pc = "idle" /\ pc' \in {"idle", "moveTo"} /\ UNCHANGED <<currentMotionSlot, running>>
    BY <1>1 DEF Service_, Call, End, software, hardware
  <2> QED BY <2>1 DEF SlotInv
<1>2. CASE Step \/ PollFails
  BY <1>2, StepSlot
<1>3. CASE \E m \in Motors : Arrive(m)
  <2>1. PICK m \in Motors : Arrive(m)
    BY <1>3
  <2>2. /\ UNCHANGED <<pc, currentMotionSlot>> /\ currentMotionSlot \in {1, 2}
        /\ running' = [running EXCEPT ![m] = 0] /\ running \in [Motors -> {0} \cup Slot]
    BY <2>1 DEF Arrive, software, TypeInv, TypeOK, Slot
  <2> QED BY <2>2 DEF SlotInv, AtRest
<1>4. CASE transitionSetup \/ transitionShutdown \/ Restart
  <2>1. pc = "idle" /\ UNCHANGED pc /\ running' = [m \in Motors |-> 0]
    BY <1>4 DEF transitionSetup, transitionShutdown, Restart, Unpowered
  <2> QED BY <2>1 DEF SlotInv
<1>5. CASE transitionStart \/ transitionStop \/ UNCHANGED vars
  BY <1>5 DEF transitionStart, transitionStop, vars, software, hardware, SlotInv, AtRest
<1> QED BY <1>1, <1>2, <1>3, <1>4, <1>5 DEF Next, Transition

\* What is written while motors run is the slot none of them executes.
LEMMA SlotLeftAlone ==
  ASSUME TypeInv, SlotInv, [Next]_vars,
         NEW m \in Motors, NEW s \in Slot, running[m] = s, running'[m] = s
  PROVE  register'[m][s] = register[m][s]
<1>1. CASE \E n \in Motors : Write(n)
  <2>1. PICK n \in Motors : Write(n)
    BY <1>1
  <2>2. s # currentMotionSlot
    BY <2>1 DEF Write, SlotInv
  <2>3. PICK outcome \in Outcome : writeU32(n, currentMotionSlot, angle[n][Head(path)], outcome)
    BY <2>1 DEF Write
  <2>4. \A halves, data :
          Sent(register, n, currentMotionSlot, halves, data)[m][s] = register[m][s]
    BY <2>2 DEF Sent, TypeInv, TypeOK, Addressed
  <2> QED BY <2>3, <2>4 DEF writeU32
<1>2. CASE transitionSetup \/ Restart
  <2>1. running' = [n \in Motors |-> 0]
    BY <1>2 DEF transitionSetup, Restart, Unpowered
  <2> QED BY <2>1 DEF Slot
<1>3. CASE UNCHANGED register
  BY <1>3
<1>4. UNCHANGED register \/ (\E n \in Motors : Write(n)) \/ transitionSetup \/ Restart
  BY DEF Next, Service_, Call, Step, MoveTo, WaitTillReady, StartMovement, Clear, PollFails,
       Arrive, Transition, transitionShutdown, transitionStart, transitionStop, vars
<1> QED BY <1>1, <1>2, <1>3, <1>4

\* The two motion slots serve their purpose as long as no request, broadcast or motor fails:
\* the next motion is written while the motors execute the last, and never into the slot they
\* execute: RunningSlotIsLeftAlone.  A request that fails, or a motor that reports an alarm
\* while it is polled, ends the call after the slot was changed; the next call changes it once
\* more, to the one the motors may still execute, and it does not hold (MCDeltaSlot.cfg).
THEOREM RunningSlotCorrect ==
  ASSUME NothingFails PROVE Spec => RunningSlotIsLeftAlone
<1>1. Init => SlotInv
  BY DEF Init, SlotInv
<1>2. TypeInv /\ SlotInv /\ [Next]_vars
        => [\A m \in Motors : \A s \in Slot :
              running[m] = s /\ running'[m] = s => register'[m][s] = register[m][s]]_vars
  BY SlotLeftAlone
<1> QED
  BY <1>1, <1>2, InitType, NextType, NextSlotInv, PTL DEF Spec, RunningSlotIsLeftAlone
-----------------------------------------------------------------------------
\* The motors that execute a motion.
Busy == {m \in Motors : running[m] # 0}

\* How far the main thread is from its next point, in steps of its own and of the motors.
StepsToPoint ==
  LET n == Cardinality(Motors) IN
  CASE pc = "idle"   -> 0
    [] pc = "moveTo" -> 2 * n + 5
    [] pc = "write"  -> n + 4 + Cardinality(writing)
    [] pc = "ready"  -> n + 3
    [] pc = "start"  -> n + 2
    [] pc = "clear"  -> 1

\* How many steps a call still has before it, at most, those of the motors included.
CallLeft == Len(path) * (2 * Cardinality(Motors) + 6) + StepsToPoint + Cardinality(Busy)

\* Every non-empty set of numbers has a least one.
LEMMA LeastOf ==
  ASSUME NEW T, T \subseteq Nat, T # {}
  PROVE  \E n \in T : \A m \in T : n <= m
<1> DEFINE R == {ss \in Nat \X Nat : ss[1] < ss[2]}
<1>1. IsWellFoundedOn(R, Nat)
  BY NatLessThanWellFounded, Zenon DEF OpToRel
<1> HIDE DEF R
<1>2. PICK n \in T : \A m \in T : <<m, n>> \notin R
  BY <1>1, WFMin
<1>3. \A m \in T : ~(m < n)
  BY <1>2 DEF R
<1> QED BY <1>3

\* While moveTo writes there is a motor to write to.
HasMotor == pc = "write" => writing # {}

\* The sizes CallLeft adds up.
LEMMA MotorCounts ==
  ASSUME TypeInv
  PROVE  /\ Cardinality(Motors) \in Nat /\ Len(path) \in Nat
         /\ Cardinality(writing) \in 0..Cardinality(Motors) /\ IsFiniteSet(writing)
         /\ Cardinality(Busy) \in 0..Cardinality(Motors) /\ IsFiniteSet(Busy)
<1>1. /\ IsFiniteSet(writing) /\ Cardinality(writing) <= Cardinality(Motors)
      /\ IsFiniteSet(Busy) /\ Cardinality(Busy) <= Cardinality(Motors)
  BY MotorsAssumption, FS_Subset DEF TypeInv, TypeOK, Busy
<1>2. Cardinality(writing) \in Nat /\ Cardinality(Busy) \in Nat /\ Cardinality(Motors) \in Nat
  BY <1>1, MotorsAssumption, FS_CardinalityType
<1> QED BY <1>1, <1>2 DEF TypeInv, TypeOK

\* A point less on the way.
LEMMA PathShorter ==
  ASSUME TypeInv, path # <<>>
  PROVE  /\ Len(path) * (2 * Cardinality(Motors) + 6) \in Nat
         /\ Len(Tail(path)) * (2 * Cardinality(Motors) + 6)
              = Len(path) * (2 * Cardinality(Motors) + 6) - (2 * Cardinality(Motors) + 6)
<1>1. Len(path) \in Nat /\ Len(Tail(path)) = Len(path) - 1 /\ Cardinality(Motors) \in Nat
  BY MotorCounts DEF TypeInv, TypeOK
<1> DEFINE P == 2 * Cardinality(Motors) + 6
<1>2. P \in Nat
  BY <1>1
<1> HIDE DEF P
<1>3. Len(path) * P \in Nat /\ (Len(path) - 1) * P = Len(path) * P - P
  BY <1>1, <1>2
<1> QED BY <1>1, <1>3 DEF P

\* The steps to the points still ahead, and to none.
LEMMA PathCounts ==
  ASSUME TypeInv
  PROVE  /\ Len(path) * (2 * Cardinality(Motors) + 6) \in Nat
         /\ Len(<<>>) * (2 * Cardinality(Motors) + 6) = 0
<1>1. Len(path) \in Nat /\ Cardinality(Motors) \in Nat
  BY MotorCounts
<1> DEFINE P == 2 * Cardinality(Motors) + 6
<1>2. P \in Nat
  BY <1>1
<1> HIDE DEF P
<1>3. Len(path) * P \in Nat /\ 0 * P = 0
  BY <1>1, <1>2
<1> QED BY <1>3 DEF P

\* A call that lasts has a step before it.
LEMMA StepsCounted ==
  ASSUME TypeInv
  PROVE  StepsToPoint \in Nat /\ (pc # "idle" => StepsToPoint > 0)
<1>1. pc \in {"idle", "moveTo", "write", "ready", "start", "clear"}
  BY DEF TypeInv, TypeOK
<1>2. Cardinality(Motors) \in Nat /\ Cardinality(writing) \in Nat
  BY MotorCounts
<1> QED BY <1>1, <1>2 DEF StepsToPoint

\* What each step takes off.
LEMMA MoveToLess == TypeInv /\ MoveTo => CallLeft' < CallLeft /\ HasMotor'
<1> SUFFICES ASSUME TypeInv, MoveTo PROVE CallLeft' < CallLeft /\ HasMotor'
  OBVIOUS
<1> DEFINE P == 2 * Cardinality(Motors) + 6
<1>1. /\ Cardinality(Motors) \in Nat /\ Cardinality(Busy) \in Nat
      /\ Len(path) * P \in Nat /\ Len(<<>>) * P = 0
      /\ path # <<>> => Len(Tail(path)) * P = Len(path) * P - P
  BY MotorCounts, PathShorter, PathCounts
<1>2. pc = "moveTo" /\ Busy' = Busy
  BY DEF MoveTo, hardware, Busy
<1>3. \/ pc' = "idle" /\ path' = <<>>
      \/ pc' = "moveTo" /\ path # <<>> /\ path' = Tail(path)
      \/ /\ pc' = "write" /\ path' = path /\ writing' = Motors
         /\ path # <<>> /\ AnglesOf(Head(path)) # currentAngle
  BY DEF MoveTo, End
<1>4. ASSUME path # <<>>, AnglesOf(Head(path)) # currentAngle PROVE Motors # {}
  BY <1>4 DEF AnglesOf, TypeInv, TypeOK
<1>5. HasMotor'
  BY <1>3, <1>4 DEF HasMotor
<1>6. CallLeft = Len(path) * P + (2 * Cardinality(Motors) + 5) + Cardinality(Busy)
  BY <1>2 DEF CallLeft, StepsToPoint
<1>7. CASE pc' = "idle" /\ path' = <<>>
  <2>1. CallLeft' = Len(<<>>) * P + 0 + Cardinality(Busy)
    BY <1>2, <1>7 DEF CallLeft, StepsToPoint
  <2> HIDE DEF P
  <2> QED BY <1>1, <1>5, <1>6, <2>1
<1>8. CASE pc' = "moveTo" /\ path # <<>> /\ path' = Tail(path)
  <2>1. CallLeft' = Len(Tail(path)) * P + (2 * Cardinality(Motors) + 5) + Cardinality(Busy)
    BY <1>2, <1>8 DEF CallLeft, StepsToPoint
  <2>2. P \in Nat \ {0}
    BY <1>1
  <2> HIDE DEF P
  <2> QED BY <1>1, <1>5, <1>6, <1>8, <2>1, <2>2
<1>9. CASE pc' = "write" /\ path' = path /\ writing' = Motors
  <2>1. CallLeft' = Len(path) * P + (Cardinality(Motors) + 4 + Cardinality(Motors))
                      + Cardinality(Busy)
    BY <1>2, <1>9 DEF CallLeft, StepsToPoint
  <2> HIDE DEF P
  <2> QED BY <1>1, <1>5, <1>6, <2>1
<1> QED BY <1>3, <1>7, <1>8, <1>9

\* A call that ends on the way has nothing before it but the motors.
LEMMA EndLess ==
  ASSUME TypeInv, pc \notin {"idle"}, NEW how, End(how), UNCHANGED running
  PROVE  CallLeft' < CallLeft /\ HasMotor'
<1> DEFINE P == 2 * Cardinality(Motors) + 6
<1>1. /\ Cardinality(Motors) \in Nat /\ Cardinality(Busy) \in Nat
      /\ Cardinality(writing) \in Nat
      /\ Len(path) * P \in Nat /\ Len(<<>>) * P = 0
  BY MotorCounts, PathCounts
<1>2. pc' = "idle" /\ path' = <<>> /\ Busy' = Busy
  BY DEF End, Busy
<1>3. StepsToPoint \in Nat /\ StepsToPoint > 0
  BY StepsCounted
<1>4. StepsToPoint' = 0
  BY <1>2 DEF StepsToPoint
<1>5. CallLeft' = Len(<<>>) * P + 0 + Cardinality(Busy)
  BY <1>2, <1>4 DEF CallLeft
<1>6. CallLeft = Len(path) * P + StepsToPoint + Cardinality(Busy)
  BY DEF CallLeft
<1> HIDE DEF P
<1> QED BY <1>1, <1>2, <1>3, <1>5, <1>6 DEF HasMotor

LEMMA WriteLess ==
  ASSUME TypeInv, NEW m \in Motors, Write(m) PROVE CallLeft' < CallLeft /\ HasMotor'
<1> DEFINE A == Len(path) * (2 * Cardinality(Motors) + 6)
<1>1. /\ Cardinality(Motors) \in Nat /\ Cardinality(Busy) \in Nat /\ A \in Nat
      /\ Cardinality(writing) \in Nat /\ IsFiniteSet(writing)
  BY MotorCounts, PathCounts
<1>2. pc = "write" /\ m \in writing /\ UNCHANGED running /\ Busy' = Busy
  BY DEF Write, hardware, Busy
<1>3. \/ End("exception")
      \/ /\ writing' = writing \ {m} /\ path' = path
         /\ pc' = IF writing' = {} THEN "ready" ELSE "write"
  BY DEF Write
<1>4. CASE End("exception")
  BY <1>2, <1>4, EndLess
<1>5. CASE /\ writing' = writing \ {m} /\ path' = path
           /\ pc' = IF writing' = {} THEN "ready" ELSE "write"
  <2>1. Cardinality(writing') = Cardinality(writing) - 1
    BY <1>1, <1>2, <1>5, FS_RemoveElement
  <2>2. CallLeft = A + (Cardinality(Motors) + 4 + Cardinality(writing)) + Cardinality(Busy)
    BY <1>2 DEF CallLeft, StepsToPoint
  <2>3. \/ CallLeft' = A + (Cardinality(Motors) + 3) + Cardinality(Busy)
        \/ CallLeft' = A + (Cardinality(Motors) + 4 + Cardinality(writing')) + Cardinality(Busy)
    BY <1>2, <1>5 DEF CallLeft, StepsToPoint
  <2> HIDE DEF A
  <2>4. CallLeft' < CallLeft
    BY <1>1, <2>1, <2>2, <2>3
  <2> QED BY <1>5, <2>4 DEF HasMotor
<1> QED BY <1>3, <1>4, <1>5

LEMMA OtherLess ==
  ASSUME TypeInv, WaitTillReady \/ PollFails \/ StartMovement \/ Clear
  PROVE  CallLeft' < CallLeft /\ HasMotor'
<1> DEFINE P == 2 * Cardinality(Motors) + 6
           n == Cardinality(Motors)
<1>1. /\ n \in Nat /\ Cardinality(Busy) \in Nat /\ Len(path) * P \in Nat
      /\ path # <<>> => Len(Tail(path)) * P = Len(path) * P - P
  BY MotorCounts, PathShorter, PathCounts
<1>2. CASE \E how : End(how) /\ UNCHANGED running
  BY <1>2, EndLess DEF WaitTillReady, PollFails, StartMovement, Clear
<1>3. CASE WaitTillReady
  <2>1. pc = "ready" /\ pc' = "start" /\ path' = path /\ Busy' = Busy
    BY <1>3 DEF WaitTillReady, call, hardware, Busy
  <2>2. CallLeft = Len(path) * P + (n + 3) + Cardinality(Busy)
    BY <2>1 DEF CallLeft, StepsToPoint
  <2>3. CallLeft' = Len(path) * P + (n + 2) + Cardinality(Busy)
    BY <2>1 DEF CallLeft, StepsToPoint
  <2> HIDE DEF P, n
  <2> QED BY <1>1, <2>1, <2>2, <2>3 DEF HasMotor
<1>4. CASE StartMovement /\ pc' = "clear"
  <2>1. pc = "start" /\ pc' = "clear" /\ path' = path
    BY <1>4 DEF StartMovement, call, End
  <2>2. Cardinality(Busy') \in 0..n
    <3>1. Busy' \subseteq Motors
      BY DEF Busy
    <3>2. IsFiniteSet(Busy') /\ Cardinality(Busy') <= n
      BY <3>1, MotorsAssumption, FS_Subset
    <3> QED BY <1>1, <3>2, FS_CardinalityType
  <2>3. CallLeft = Len(path) * P + (n + 2) + Cardinality(Busy)
    BY <2>1 DEF CallLeft, StepsToPoint
  <2>4. CallLeft' = Len(path) * P + 1 + Cardinality(Busy')
    BY <2>1 DEF CallLeft, StepsToPoint
  <2> HIDE DEF P, n
  <2> QED BY <1>1, <2>1, <2>2, <2>3, <2>4 DEF HasMotor
<1>5. CASE Clear /\ pc' = "moveTo"
  <2>1. pc = "clear" /\ path # <<>> /\ path' = Tail(path) /\ Busy' = Busy
    BY <1>5 DEF Clear, hardware, Busy, End, TypeInv, HasPoint
  <2>2. CallLeft = Len(path) * P + 1 + Cardinality(Busy)
    BY <2>1 DEF CallLeft, StepsToPoint
  <2>3. CallLeft' = Len(Tail(path)) * P + (2 * n + 5) + Cardinality(Busy)
    BY <1>5, <2>1 DEF CallLeft, StepsToPoint
  <2>4. P = 2 * n + 6
    OBVIOUS
  <2> HIDE DEF P, n
  <2> QED BY <1>1, <1>5, <2>1, <2>2, <2>3, <2>4 DEF HasMotor
<1> QED BY <1>2, <1>3, <1>4, <1>5 DEF PollFails, StartMovement, Clear, hardware

LEMMA ArriveLess ==
  ASSUME TypeInv, HasMotor, NEW m \in Motors, Arrive(m) PROVE CallLeft' < CallLeft /\ HasMotor'
<1>1. /\ Cardinality(Motors) \in Nat /\ Cardinality(Busy) \in Nat /\ IsFiniteSet(Busy)
      /\ Cardinality(writing) \in Nat
      /\ Len(path) * (2 * Cardinality(Motors) + 6) \in Nat
  BY MotorCounts, PathCounts
<1>2. UNCHANGED <<pc, path, writing>> /\ m \in Busy /\ Busy' = Busy \ {m}
  BY DEF Arrive, call, Busy, TypeInv, TypeOK
<1>3. Cardinality(Busy') = Cardinality(Busy) - 1
  BY <1>1, <1>2, FS_RemoveElement
<1>4. StepsToPoint' = StepsToPoint /\ StepsToPoint \in Nat
  BY <1>2, StepsCounted DEF StepsToPoint
<1> QED BY <1>1, <1>2, <1>3, <1>4 DEF CallLeft, HasMotor

\* A call of the node does not go round in circles: with each step that the main thread or
\* a motor takes there is less before it, whatever fails; and where it writes there is a motor
\* to write to.  So with the fairness of FairSpec it ends.
THEOREM CallGetsOnCorrect ==
  Spec => /\ [](CallLeft \in Nat)
          /\ [][pc # "idle" => CallLeft' < CallLeft]_vars
          /\ [](pc = "write" => \E m \in writing : \A n \in writing : m <= n)
<1>1. Init => HasMotor
  BY DEF Init, HasMotor
<1>2. TypeInv => CallLeft \in Nat
  <2> SUFFICES ASSUME TypeInv PROVE CallLeft \in Nat
    OBVIOUS
  <2>1. /\ Cardinality(Motors) \in Nat /\ Cardinality(Busy) \in Nat /\ Cardinality(writing) \in Nat
        /\ Len(path) * (2 * Cardinality(Motors) + 6) \in Nat
    BY MotorCounts, PathCounts
  <2>2. StepsToPoint \in Nat
    BY StepsCounted
  <2> QED BY <2>1, <2>2 DEF CallLeft
<1>3. TypeInv /\ HasMotor /\ [Next]_vars => HasMotor' /\ [pc # "idle" => CallLeft' < CallLeft]_vars
  <2> SUFFICES ASSUME TypeInv, HasMotor, [Next]_vars
               PROVE  HasMotor' /\ (pc # "idle" => CallLeft' < CallLeft \/ UNCHANGED vars)
    OBVIOUS
  <2>1. CASE Step \/ PollFails \/ \E m \in Motors : Arrive(m)
    BY <2>1, MoveToLess, WriteLess, OtherLess, ArriveLess DEF Step
  <2>2. CASE Service_ \/ Transition \/ Restart
    <3>1. pc = "idle" /\ pc' \in {"idle", "moveTo"}
      BY <2>2 DEF Service_, Call, End, Transition, transitionSetup, transitionShutdown,
               transitionStart, transitionStop, Restart
    <3> QED BY <3>1 DEF HasMotor
  <2>3. CASE UNCHANGED vars
    BY <2>3 DEF vars, call, HasMotor
  <2> QED BY <2>1, <2>2, <2>3 DEF Next
<1>4. TypeInv /\ HasMotor => (pc = "write" => \E m \in writing : \A n \in writing : m <= n)
  <2> SUFFICES ASSUME TypeInv, HasMotor, pc = "write"
               PROVE  \E m \in writing : \A n \in writing : m <= n
    OBVIOUS
  <2>1. writing \subseteq Nat /\ writing # {}
    BY MotorsAssumption DEF HasMotor, TypeInv, TypeOK
  <2> QED BY <2>1, LeastOf
<1> QED
  BY <1>1, <1>2, <1>3, <1>4, InitType, NextType, PTL DEF Spec
=============================================================================
