----------------------- MODULE CrateLocatorNodeProofs -----------------------
(***************************************************************************)
(* Proofs about CrateLocatorNode, for any numbers of measurements, errors   *)
(* and images.                                                              *)
(***************************************************************************)
EXTENDS CrateLocatorNodeProps, TLAPS

\* A source is there, has something in the queue, or its callback runs.
Live(s) == s \in open \cup pending \/ \E t \in Threads : Source(t) = s

\* A source lives only as long as the transitions say; the action thread runs a
\* callback only where it spins, and a subscription runs in one thread.
SourcesInv ==
  /\ Live("calibrate") => pc \in {"looping", "spinning", "leaving", "waiting"}
  /\ Live("camera") => pc \in {"starting", "normal", "stopping"}
  /\ Live("services") => pc \in {"normal", "stopping", "serving", "closing"}
  /\ pc = "waiting" => "calibrate" \notin open
  /\ pc = "stopping" => "camera" \notin open
  /\ pc = "closing" => "services" \notin open
  /\ busy["action"] # "none" => pc = "spinning"
  /\ ~(Source("main") = "calibrate" /\ Source("action") = "calibrate")

\* How many points are to be pushed into buffer i yet for the measurement a thread counted.
Left(i) ==
  IF \E t \in Threads : busy[t] = "push1" \/ (busy[t] = "push2" /\ i > 1)
                                          \/ (busy[t] = "push3" /\ i > 2)
  THEN 1 ELSE 0

BuffersInv == \A i \in 1..3 : buffer[i] + Left(i) = measurementCount

Inv == TypeOK /\ SourcesInv /\ BuffersInv

\* The effect of a push, by the buffer it goes to.
LEMMA PushEffect ==
  ASSUME TypeOK, NEW t \in Threads, PushPoint(t)
  PROVE  /\ UNCHANGED <<open, pending, measurementCount, failCount, markers, pixelCoordinates>>
         /\ \/ /\ busy[t] = "push1" /\ busy' = [busy EXCEPT ![t] = "push2"] /\ pc' = pc
               /\ buffer' = [buffer EXCEPT ![1] = @ + 1]
            \/ /\ busy[t] = "push2" /\ busy' = [busy EXCEPT ![t] = "push3"] /\ pc' = pc
               /\ buffer' = [buffer EXCEPT ![2] = @ + 1]
            \/ /\ busy[t] = "push3" /\ Done(t)
               /\ buffer' = [buffer EXCEPT ![3] = @ + 1]
<1>1. UNCHANGED <<open, pending, measurementCount, failCount, markers, pixelCoordinates>>
  BY DEF PushPoint, queue, marks
<1>2. PICK i \in 1..3 :
        /\ busy[t] = <<"push1", "push2", "push3">>[i]
        /\ buffer' = [buffer EXCEPT ![i] = @ + 1]
        /\ IF i = 3 THEN Done(t)
           ELSE busy' = [busy EXCEPT ![t] = <<"push2", "push3">>[i]] /\ UNCHANGED pc
  BY DEF PushPoint
<1>3. CASE i = 1
  <2>1. busy[t] = "push1" /\ busy' = [busy EXCEPT ![t] = "push2"] /\ pc' = pc
    BY <1>2, <1>3
  <2> QED BY <1>1, <1>2, <1>3, <2>1
<1>4. CASE i = 2
  <2>1. busy[t] = "push2" /\ busy' = [busy EXCEPT ![t] = "push3"] /\ pc' = pc
    BY <1>2, <1>4
  <2> QED BY <1>1, <1>2, <1>4, <2>1
<1>5. CASE i = 3
  <2>1. busy[t] = "push3" /\ Done(t)
    BY <1>2, <1>5
  <2> QED BY <1>1, <1>2, <1>5, <2>1
<1> QED BY <1>3, <1>4, <1>5

LEMMA TypeStep == TypeOK /\ [Next]_vars => TypeOK'
<1> SUFFICES ASSUME TypeOK, [Next]_vars PROVE TypeOK'
  OBVIOUS
<1>1. CASE Image
  BY <1>1 DEF TypeOK, Image, Sources, counts, marks
<1>2. CASE CallService
  BY <1>2 DEF TypeOK, CallService, Sources, counts, marks
<1>3. CASE Restart
  BY <1>3 DEF TypeOK, Restart, Sources, States, Threads
<1>4. ASSUME NEW t \in Threads, spinOnce(t) PROVE TypeOK'
  <2>1. PICK s \in pending : busy' = [busy EXCEPT ![t] = s] /\ pending' = pending \ {s}
    BY <1>4 DEF spinOnce
  <2>2. s \in Sources
    BY DEF TypeOK
  <2> QED BY <1>4, <2>1, <2>2 DEF TypeOK, spinOnce, Sources, counts, marks
<1>5. ASSUME NEW t \in Threads, Detect(t) PROVE TypeOK'
  BY <1>5 DEF TypeOK, Detect, Done, Pushing, queue, marks
<1>6. ASSUME NEW t \in Threads, Unconverted(t) PROVE TypeOK'
  BY <1>6 DEF TypeOK, Unconverted, Done, queue, counts, marks
<1>7. ASSUME NEW t \in Threads, PushPoint(t) PROVE TypeOK'
  BY <1>7, PushEffect DEF TypeOK, Done, Pushing
<1>8. ASSUME NEW t \in Threads, Finish(t) PROVE TypeOK'
  BY <1>8 DEF TypeOK, Finish, Done, queue, counts, marks
<1>9. CASE transitionSetup
  BY <1>9 DEF TypeOK, transitionSetup, Sources, marks
<1>10. CASE transitionStart
  BY <1>10 DEF TypeOK, transitionStart, Sources, States, counts, marks
<1>11. CASE transitionStop
  BY <1>11 DEF TypeOK, transitionStop, Close, Removed, States, counts, marks
<1>12. CASE transitionShutdown
  BY <1>12 DEF TypeOK, transitionShutdown, States, queue, counts, marks
<1>13. CASE CheckCounts
  BY <1>13 DEF TypeOK, CheckCounts, queue, counts, marks
<1>14. CASE SpinIdle
  BY <1>14 DEF TypeOK, SpinIdle, queue, counts, marks
<1>15. CASE LeaveLoop
  BY <1>15 DEF TypeOK, LeaveLoop, Close, Removed, counts, marks
<1>16. CASE Evaluate
  BY <1>16 DEF TypeOK, Evaluate, States, queue, counts, marks
<1>17. CASE UNCHANGED vars
  BY <1>17 DEF TypeOK, vars, queue, counts, marks
<1> QED BY <1>1, <1>2, <1>3, <1>4, <1>5, <1>6, <1>7, <1>8, <1>9, <1>10, <1>11, <1>12,
           <1>13, <1>14, <1>15, <1>16, <1>17 DEF Next, Callback

LEMMA SourcesStep == TypeOK /\ SourcesInv /\ [Next]_vars => SourcesInv'
<1> SUFFICES ASSUME TypeOK, SourcesInv, [Next]_vars PROVE SourcesInv'
  OBVIOUS
<1> USE DEF Threads, SourcesInv, Live, Source, Pushing
<1>1. CASE Image
  BY <1>1 DEF TypeOK, Image
<1>2. CASE CallService
  BY <1>2 DEF TypeOK, CallService
<1>3. CASE Restart
  BY <1>3 DEF Restart
<1>4. ASSUME NEW t \in Threads, spinOnce(t) PROVE SourcesInv'
  BY <1>4 DEF TypeOK, spinOnce, Sources
<1>5. ASSUME NEW t \in Threads, Detect(t) PROVE SourcesInv'
  BY <1>5 DEF TypeOK, Detect, Done, queue
<1>6. ASSUME NEW t \in Threads, Unconverted(t) PROVE SourcesInv'
  BY <1>6 DEF TypeOK, Unconverted, Done, queue
<1>7. ASSUME NEW t \in Threads, PushPoint(t) PROVE SourcesInv'
  BY <1>7, PushEffect DEF TypeOK, Done
<1>8. ASSUME NEW t \in Threads, Finish(t) PROVE SourcesInv'
  BY <1>8 DEF TypeOK, Finish, Done, queue
<1>9. CASE transitionSetup
  BY <1>9 DEF TypeOK, transitionSetup
<1>10. CASE transitionStart
  BY <1>10 DEF TypeOK, transitionStart
<1>11. CASE transitionStop
  <2>0. UNCHANGED busy
    BY <1>11 DEF transitionStop
  <2>1. CASE pc = "normal" /\ pc' = "stopping" /\ Close("camera") /\ UNCHANGED pending
    BY <2>0, <2>1 DEF Close
  <2>2. CASE pc = "stopping" /\ pc' = "serving" /\ Removed("camera") /\ UNCHANGED open
    BY <2>0, <2>2 DEF Removed
  <2>3. CASE pc = "serving" /\ pc' = "closing" /\ Close("services") /\ UNCHANGED pending
    BY <2>0, <2>3 DEF Close
  <2>4. CASE pc = "closing" /\ pc' = "standby" /\ Removed("services") /\ UNCHANGED open
    BY <2>0, <2>4 DEF Removed
  <2> QED BY <1>11, <2>1, <2>2, <2>3, <2>4 DEF transitionStop
<1>12. CASE transitionShutdown
  BY <1>12 DEF TypeOK, transitionShutdown, queue
<1>13. CASE CheckCounts
  BY <1>13 DEF TypeOK, CheckCounts, queue
<1>14. CASE SpinIdle
  BY <1>14 DEF TypeOK, SpinIdle, queue
<1>15. CASE LeaveLoop
  <2>0. UNCHANGED busy
    BY <1>15 DEF LeaveLoop
  <2>1. CASE pc = "leaving" /\ pc' = "waiting" /\ Close("calibrate") /\ UNCHANGED pending
    BY <2>0, <2>1 DEF Close
  <2>2. CASE pc = "waiting" /\ pc' = "evaluating" /\ Removed("calibrate") /\ UNCHANGED open
    BY <2>0, <2>2 DEF Removed
  <2> QED BY <1>15, <2>1, <2>2 DEF LeaveLoop
<1>16. CASE Evaluate
  BY <1>16 DEF TypeOK, Evaluate, queue
<1>17. CASE UNCHANGED vars
  BY <1>17 DEF vars, queue
<1> QED BY <1>1, <1>2, <1>3, <1>4, <1>5, <1>6, <1>7, <1>8, <1>9, <1>10, <1>11, <1>12,
           <1>13, <1>14, <1>15, <1>16, <1>17 DEF Next, Callback

LEMMA BuffersStep == Inv /\ [Next]_vars => BuffersInv'
<1> SUFFICES ASSUME Inv, [Next]_vars PROVE BuffersInv'
  OBVIOUS
<1> USE DEF Inv, Threads, BuffersInv, Left
<1>0. ASSUME UNCHANGED <<busy, measurementCount, buffer>> PROVE BuffersInv'
  BY <1>0
\* Which thread is in calibrateCallback is known.
<1>1. ASSUME NEW t \in Threads, busy[t] \in Pushing \cup {"calibrate"}
      PROVE  \A u \in Threads \ {t} : busy[u] \notin Pushing \cup {"calibrate"}
  BY <1>1 DEF SourcesInv, Source, Pushing
<1>3. CASE Restart
  BY <1>3 DEF Restart
<1>4. ASSUME NEW t \in Threads, spinOnce(t) PROVE BuffersInv'
  BY <1>4 DEF TypeOK, spinOnce, Sources, counts
<1>5. ASSUME NEW t \in Threads, Detect(t) PROVE BuffersInv'
  BY <1>1, <1>5 DEF TypeOK, Detect, Done, Pushing
<1>6. ASSUME NEW t \in Threads, Unconverted(t) PROVE BuffersInv'
  BY <1>6 DEF TypeOK, Unconverted, Done, counts
<1>7. ASSUME NEW t \in Threads, PushPoint(t) PROVE BuffersInv'
  BY <1>1, <1>7, PushEffect DEF TypeOK, Done, Pushing
<1>8. ASSUME NEW t \in Threads, Finish(t) PROVE BuffersInv'
  BY <1>8 DEF TypeOK, Finish, Done, counts
<1>9. CASE transitionSetup
  <2>1. \A t \in Threads : busy[t] \notin Pushing
    BY <1>9 DEF transitionSetup, SourcesInv, Live, Source
  <2> QED BY <1>9, <2>1 DEF transitionSetup, Pushing
<1>10. CASE Image \/ CallService \/ transitionStart \/ transitionStop \/ transitionShutdown
            \/ CheckCounts \/ SpinIdle \/ LeaveLoop \/ Evaluate \/ UNCHANGED vars
  BY <1>0, <1>10 DEF Image, CallService, transitionStart, transitionStop, transitionShutdown,
                     CheckCounts, SpinIdle, LeaveLoop, Evaluate, vars, counts
<1> QED BY <1>3, <1>4, <1>5, <1>6, <1>7, <1>8, <1>9, <1>10 DEF Next, Callback

LEMMA InvInit == Init => Inv
BY CountsAssumption DEF Init, Inv, TypeOK, SourcesInv, BuffersInv, Live, Left, Source, Threads,
                        Sources, States, Pushing

\* Every variable of the node keeps its type.
THEOREM TypeCorrect == Spec => []TypeOK
<1>1. Init => TypeOK
  BY InvInit DEF Inv
<1> QED BY <1>1, TypeStep, PTL DEF Spec

\* Whichever thread took the last image, the averages are of whole measurements: the
\* loop ends in the middle of a callback, but the subscription goes after it.
THEOREM WholeMeasurementsCorrect == Spec => []WholeMeasurements
<1>1. Inv /\ [Next]_vars => Inv'
  BY TypeStep, SourcesStep, BuffersStep DEF Inv
<1>2. Inv => WholeMeasurements
  <2> SUFFICES ASSUME Inv, pc = "evaluating", NEW i \in 1..3
               PROVE  buffer[i] = measurementCount
    BY DEF WholeMeasurements
  <2>1. \A t \in Threads : busy[t] \notin Pushing
    BY DEF Inv, SourcesInv, Live, Source
  <2> QED BY <2>1 DEF Inv, TypeOK, BuffersInv, Left, Pushing
<1> QED BY <1>1, <1>2, InvInit, PTL DEF Spec

\* The tracker and the transformer need no lock.
THEOREM TrackerIsAloneCorrect == Spec => []TrackerIsAlone
<1>1. (TypeOK /\ SourcesInv) /\ [Next]_vars => (TypeOK /\ SourcesInv)'
  BY TypeStep, SourcesStep
<1>2. SourcesInv => TrackerIsAlone
  BY DEF SourcesInv, TrackerIsAlone, Uses, Live, Source, Threads
<1>3. Init => TypeOK /\ SourcesInv
  BY InvInit DEF Inv
<1> QED BY <1>1, <1>2, <1>3, PTL DEF Spec
=============================================================================
