-------------------------- MODULE CrateLocatorNode --------------------------
(***************************************************************************)
(* The transitions of the crate locator node and the callbacks they turn   *)
(* on and off.  main spins for ever; a transition runs in a thread of its   *)
(* action server, and the calibration, which is part of SETUP, spins there  *)
(* too until it has counted enough images.  Both threads take callbacks     *)
(* from one queue.  What a callback does with the crates is CrateTracker's; *)
(* an image has the three fiducials or it has not.                          *)
(*                                                                          *)
(* roscpp runs the callback of one subscription in one thread at a time,    *)
(* and who removes a subscription or a service waits for those that run.    *)
(* One transition runs at a time, as in StateMachine without changes of the *)
(* mode.                                                                    *)
(***************************************************************************)
EXTENDS Naturals

CONSTANTS
  measurements, maxErrors,  \* of calibrate
  MaxFrames                 \* bound: images of one calibration

ASSUME CountsAssumption ==
  /\ measurements \in Nat \ {0} /\ maxErrors \in Nat \ {0}
  /\ MaxFrames \in Nat

VARIABLES
  pc,                \* the state of the node, or where its transition is
  open,              \* the subscriptions and services that are there
  pending,           \* those that have something in the callback queue
  busy,              \* per thread, the callback it runs
  measurementCount, failCount,
  buffer,            \* how many points fid1_buffer, fid2_buffer and fid3_buffer have
  markers,           \* how many coordinates markers has
  pixelCoordinates   \* how many of them the transformer works with, 0: those it was made with

counts == <<measurementCount, failCount, buffer>>
queue  == <<open, pending>>
marks  == <<markers, pixelCoordinates>>
vars   == <<pc, queue, busy, counts, marks>>

Threads == {"main", "action"}
Sources == {"calibrate", "camera", "services"}
States  == {"safe", "standby", "normal"}
Pushing == {"push1", "push2", "push3"}

TypeOK ==
  /\ pc \in States \cup {"looping", "spinning", "leaving", "waiting", "evaluating",
                         "starting", "stopping", "serving", "closing", "dead"}
  /\ open \subseteq Sources /\ pending \subseteq Sources
  /\ busy \in [Threads -> Pushing \cup {"none", "calibrate", "camera", "services"}]
  /\ measurementCount \in Nat /\ failCount \in Nat
  /\ buffer \in [1..3 -> Nat]
  /\ markers \in Nat /\ pixelCoordinates \in Nat

Init ==
  /\ pc = "safe"
  /\ open = {} /\ pending = {}
  /\ busy = [t \in Threads |-> "none"]
  /\ measurementCount = 0 /\ failCount = 0 /\ buffer = [i \in 1..3 |-> 0]
  /\ markers = 0 /\ pixelCoordinates = 0
-----------------------------------------------------------------------------
\* The camera publishes an image: each subscription keeps the last one.
Image ==
  /\ measurementCount + failCount < MaxFrames
  /\ pending' = pending \cup (open \cap {"calibrate", "camera"})
  /\ UNCHANGED <<pc, open, busy, counts, marks>>

\* Somebody calls getCrate or getAllCrates.
CallService ==
  /\ "services" \in open
  /\ pending' = pending \cup {"services"}
  /\ UNCHANGED <<pc, open, busy, counts, marks>>

\* The source whose callback a thread runs.
Source(t) == IF busy[t] \in Pushing THEN "calibrate" ELSE busy[t]

\* spinOnce in main's loop, or in the loop of the calibration.
spinOnce(t) ==
  /\ busy[t] = "none"
  /\ t = "action" => pc = "spinning"
  /\ t = "main" => pc # "dead"
  /\ \E s \in pending :
       /\ s # "services" => \A u \in Threads : Source(u) # s
       /\ busy' = [busy EXCEPT ![t] = s]
       /\ pending' = pending \ {s}
  /\ UNCHANGED <<pc, open, counts, marks>>

Done(t) ==
  /\ busy' = [busy EXCEPT ![t] = "none"]
  /\ pc' = IF t = "action" THEN "looping" ELSE pc

\* Mutant: an image without the three fiducials does not count.
DetectWithoutFailing(t) ==
  /\ busy[t] = "calibrate"
  /\ \/ /\ measurementCount' = measurementCount + 1
        /\ busy' = [busy EXCEPT ![t] = "push1"]
        /\ UNCHANGED <<pc, failCount>>
     \/ /\ Done(t)
        /\ UNCHANGED <<measurementCount, failCount>>
  /\ UNCHANGED <<queue, buffer, marks>>

\* calibrateCallback, up to the branch on what was detected.
Detect(t) ==
  /\ busy[t] = "calibrate"
  /\ \/ /\ measurementCount' = measurementCount + 1
        /\ busy' = [busy EXCEPT ![t] = "push1"]
        /\ UNCHANGED <<pc, failCount>>
     \/ /\ failCount' = failCount + 1
        /\ Done(t)
        /\ UNCHANGED measurementCount
  /\ UNCHANGED <<queue, buffer, marks>>

\* An image that cannot be converted counts for nothing.
Unconverted(t) ==
  /\ busy[t] = "calibrate"
  /\ Done(t)
  /\ UNCHANGED <<queue, counts, marks>>

\* The points go into their buffers, one after the other.
PushPoint(t) ==
  /\ \E i \in 1..3 :
       /\ busy[t] = <<"push1", "push2", "push3">>[i]
       /\ buffer' = [buffer EXCEPT ![i] = @ + 1]
       /\ IF i = 3 THEN Done(t)
          ELSE busy' = [busy EXCEPT ![t] = <<"push2", "push3">>[i]] /\ UNCHANGED pc
  /\ UNCHANGED <<queue, measurementCount, failCount, marks>>

\* crateLocateCallback, getCrate and getAllCrates come to their end.
Finish(t) ==
  /\ busy[t] \in {"camera", "services"}
  /\ Done(t)
  /\ UNCHANGED <<queue, counts, marks>>
-----------------------------------------------------------------------------
\* What removing a source does, first: nothing new comes from it.
Close(s) == open' = open \ {s}

\* And then: its callbacks have ended, what it still had in the queue is gone.
Removed(s) ==
  /\ \A t \in Threads : Source(t) # s
  /\ pending' = pending \ {s}

\* Mutant: the buffers keep the points of the calibration before.
SetupKeepsPoints ==
  /\ pc = "safe" /\ pc' = "looping"
  /\ measurementCount' = 0 /\ failCount' = 0
  /\ open' = open \cup {"calibrate"}
  /\ UNCHANGED <<pending, busy, buffer, marks>>

\* transitionSetup is calibrate: it clears and subscribes,
transitionSetup ==
  /\ pc = "safe" /\ pc' = "looping"
  /\ buffer' = [i \in 1..3 |-> 0]
  /\ measurementCount' = 0 /\ failCount' = 0
  /\ open' = open \cup {"calibrate"}
  /\ UNCHANGED <<pending, busy, marks>>

\* it spins while it has counted too few images of either kind,
CheckCounts ==
  /\ pc = "looping"
  /\ pc' = IF measurementCount < measurements /\ failCount < maxErrors
           THEN "spinning" ELSE "leaving"
  /\ UNCHANGED <<queue, busy, counts, marks>>

\* (the queue may be empty, or the image be with main)
SpinIdle ==
  /\ pc = "spinning" /\ busy["action"] = "none" /\ pc' = "looping"
  /\ UNCHANGED <<queue, busy, counts, marks>>

\* it removes the subscription,
LeaveLoop ==
  /\ \/ pc = "leaving" /\ pc' = "waiting" /\ Close("calibrate") /\ UNCHANGED pending
     \/ pc = "waiting" /\ pc' = "evaluating" /\ Removed("calibrate") /\ UNCHANGED open
  /\ UNCHANGED <<busy, counts, marks>>

\* and gives the averages to the transformer.  The markers of an earlier calibration
\* are still there, and with more coordinates than it was made with the transformer
\* throws, which nobody catches.  The result of calibrate is not looked at.
Evaluate ==
  /\ pc = "evaluating"
  /\ IF measurementCount >= measurements
     THEN /\ markers' = markers + 3 /\ pixelCoordinates' = markers + 3
          /\ pc' = IF markers + 3 = 3 THEN "standby" ELSE "dead"
     ELSE /\ pc' = "standby"
          /\ UNCHANGED marks
  /\ UNCHANGED <<queue, busy, counts>>

transitionStart ==
  /\ \/ pc = "standby" /\ pc' = "starting" /\ open' = open \cup {"camera"}
     \/ pc = "starting" /\ pc' = "normal" /\ open' = open \cup {"services"}
  /\ UNCHANGED <<pending, busy, counts, marks>>

\* Mutant: the camera subscription is left as it is.
StopServicesOnly ==
  /\ \/ pc = "normal" /\ pc' = "stopping" /\ UNCHANGED queue
     \/ pc = "stopping" /\ pc' = "serving" /\ UNCHANGED queue
     \/ pc = "serving" /\ pc' = "closing" /\ Close("services") /\ UNCHANGED pending
     \/ pc = "closing" /\ pc' = "standby" /\ Removed("services") /\ UNCHANGED open
  /\ UNCHANGED <<busy, counts, marks>>

\* The camera first, then the services.
transitionStop ==
  /\ \/ pc = "normal" /\ pc' = "stopping" /\ Close("camera") /\ UNCHANGED pending
     \/ pc = "stopping" /\ pc' = "serving" /\ Removed("camera") /\ UNCHANGED open
     \/ pc = "serving" /\ pc' = "closing" /\ Close("services") /\ UNCHANGED pending
     \/ pc = "closing" /\ pc' = "standby" /\ Removed("services") /\ UNCHANGED open
  /\ UNCHANGED <<busy, counts, marks>>

transitionShutdown ==
  /\ pc = "standby" /\ pc' = "safe"
  /\ UNCHANGED <<queue, busy, counts, marks>>

\* The process ends, at any time, and is launched again.
Restart ==
  /\ pc' = "safe"
  /\ open' = {} /\ pending' = {}
  /\ busy' = [t \in Threads |-> "none"]
  /\ measurementCount' = 0 /\ failCount' = 0 /\ buffer' = [i \in 1..3 |-> 0]
  /\ markers' = 0 /\ pixelCoordinates' = 0
-----------------------------------------------------------------------------
Callback(t) == Detect(t) \/ Unconverted(t) \/ PushPoint(t) \/ Finish(t)

\* What a transition that has begun does next.
Continue ==
  \/ CheckCounts \/ SpinIdle \/ LeaveLoop \/ Evaluate
  \/ pc = "starting" /\ transitionStart
  \/ pc # "normal" /\ transitionStop

Next ==
  \/ Image \/ CallService \/ Restart
  \/ \E t \in Threads : spinOnce(t) \/ Callback(t)
  \/ transitionSetup \/ transitionStart \/ transitionStop \/ transitionShutdown
  \/ CheckCounts \/ SpinIdle \/ LeaveLoop \/ Evaluate

Spec == Init /\ [][Next]_vars

\* The threads go on, the camera sends images, and of these, ever and again one that
\* can be converted.
Fairness ==
  /\ WF_vars(Image) /\ WF_vars(Continue)
  /\ \A t \in Threads : WF_vars(Callback(t))
  /\ WF_vars(spinOnce("main"))
  /\ SF_vars(\E t \in Threads : Detect(t))

FairSpec == Spec /\ Fairness
=============================================================================
