# REXOS in TLA+

REXOS runs an *equiplet*, a small production machine put together from exchangeable modules, as
a set of ROS nodes in C++ and a few agents in Java that meet at a MongoDB blackboard.  This
directory holds TLA+ models of the parts of REXOS where order, failure and sharing decide whether
it works, the TLC runs that check them, and TLAPS proofs of the most important results.  Paths
below are relative to `src/` of the repository.

## 1. The system

| Component | State | Operations | Talks to | What is hard | What makes it correct |
|---|---|---|---|---|---|
| `rexos_statemachine` (`StateMachine`) | current state and mode, a listener, transition action clients and servers | goals of `change_state` and `change_mode`, forced walks to an allowed state, four transition callbacks | its own transition servers through actionlib, a listener | two action threads share state and clients without a lock; transitions abort or are recalled; loops wait without a bound | rests in a stable state its mode allows; the state is that of the hardware; a change is all or nothing; every goal answered; every mode obeyed |
| `ModuleStateMachine` | names of services | registration when constructed, report of every change | the equiplet's services (synchronous calls) | refusal ends the process; reports fail unseen | the equiplet's picture agrees |
| `equiplet_node` (`EquipletNode`, `ModuleRegistry`, `ModuleProxy`) | registration flag, vector of proxies with state and mode, its own state machine | register a module, take a report, setup, shutdown, start, stop | modules (goals without waiting), blackboard | flag and vector are shared by the main thread and the transition's thread; crashes and restarts on either side | everybody is told; the proxies keep up; modules get where they were told |
| `delta_robot_node` | a `DeltaRobot`, its state machine | move to a point or along a path, absolute or relative, in two argument forms; four transitions | `rexos_delta_robot` | calls in the wrong state, failures half way a path, calibration that fails quietly | the checked motion is the motion made; a true answer means there or on the way there |
| `rexos_delta_robot` (`DeltaRobot`) | effector location, motion slot, calibration | `moveTo`, `checkPath`, `calibrateMotors`, power | `StepperMotor`, `MotorManager`, `EffectorBoundaries`, `InverseKinematics` | software picture ahead of the hardware | its picture is right between calls |
| `rexos_motor` (`StepperMotor`, `MotorManager`) | set and current angle, power | write a motion to a slot, start a slot on all motors, wait for ready | `rexos_modbus` | two slots used in turn while a motion still runs; broadcasts are not answered | the running slot is left alone |
| `rexos_modbus` (`ModbusController`) | shadow registers | `writeU16`, `writeU32`, `readU16` | motor drivers on a serial bus | requests or answers are lost; a shadow saves writes | the shadow agrees with the drivers |
| `rexos_vision` (`CrateTracker`) | known crates with situation flags and a countdown | update with the crates of a frame, `getCrate`, `getAllCrates` | `crate_locator_node` | debouncing over frames, misread and missed codes, copies that lose fields | events follow a protocol, agree with the services, leave a crate that moves in peace for a while, and do come |
| `crate_locator_node` | a tracker, a transformer, subscriptions, services, counts and buffers of a calibration | image callbacks, services, transitions, of which setup is the calibration | camera topic, events topic | two threads spin on one queue during setup, nothing has a lock; calibrations fail, or succeed twice | averages of whole measurements; one thread at the tracker; transitions end; events and answers agree |
| `rexos_vision` detectors, transformer | none between frames | find codes and fiducials, pixels to coordinates | OpenCV, zbar | real arithmetic | not modelled |
| `EffectorBoundaries` | a bitmap of legal voxels | search for the border, fill from the middle, `checkPath` | inverse kinematics | index arithmetic at the edges, a fill that trusts the border | the bitmap holds reachable voxels only, and all of them when nothing is dented; a legal path stays near it |
| `InverseKinematics` | none | point to three angles | - | real arithmetic | not modelled |
| `rexos_blackboard_cpp_client` | subscriptions, a reading thread | subscribe, unsubscribe, insert, remove the oldest message, read the oplog | MongoDB, `EquipletNode` | a tailing cursor that skips by a count of something else, threads that never end, find then remove | tells nothing old; loses no more than it counted too much; removes no message before it, or a later one, was told |
| `blackboard_client` (Java) | subscriptions, a monitor thread | subscribe, unsubscribe, close; insert, find, update, remove | MongoDB, the SCADA agent | switching monitors while entries come, interruptions that callbacks swallow, threads that die | the known monitor listens, misses nothing newer than itself, tells nothing older |
| `environment_cache`, `lookup_handler` | a map of objects | add, update, remove, look up | each other | one thread, hardly anything | not modelled |
| `rexos_mast`, `rexos_most` | the older state machine, module data in MongoDB | - | - | no node uses them any more | not modelled |
| `equiplet_scada_agent`, `knowledgedb_client`, tools, `www`, `libjson`, `mongoose` | - | show states, JDBC, hand-driven tests, vendored code | - | - | not modelled |

`PROJECT.json` lists the same components with their sources, and under `hazards` the places in
the code that are hard to test.

## 2. The modules

```
Lifecycle  <---implements---  StateMachine --- StateMachineProps --- StateMachineProofs
                                   : (transitions in two steps)
                              Equiplet ------- EquipletProps ------- EquipletProofs
                                                    MCEquiplet
ModbusController --extended by-- DeltaRobot --- DeltaRobotProps --- DeltaRobotProofs
                                                    MCDeltaRobot
CrateStream <---implements--- CrateTracker --- CrateTrackerProps --- CrateTrackerProofs
                                   : (its callback, as one source of work)
                              CrateLocatorNode --- CrateLocatorNodeProps --- CrateLocatorNodeProofs
EffectorBoundaries --- EffectorBoundariesProps --- EffectorBoundariesProofs
   : (Legal of DeltaRobot)   MCEffectorBoundaries
BlackboardClient    --- BlackboardClientProps    --- BlackboardClientProofs
BlackboardCppClient --- BlackboardCppClientProps --- BlackboardCppClientProofs
```

Each component has a module with its state, actions and specification, a `...Props` module with
what must be true of it, and, where something is proved, a `...Proofs` module.  Definitions whose
comment says *Mutant* are plausible mistakes in the definition they precede; no specification
uses them.  They show that every property can be broken by a change in the code it is about.

### StateMachine and Lifecycle

`StateMachine` is `rexos_statemachine::StateMachine`.  There are two threads of control, the
execute threads of the action servers `changeState` and `changeMode`; for each, `pc` is where it
is in the code, and a depth counts the calls of `changeState` it is in, since
`_forceToAllowedState` calls it too, in a loop.  `currentState` and `currentMode` are shared
without a lock, so each read and each write is a step.  A transition is a goal to one of four
transition servers: `client`, `queued` and `server` are what actionlib keeps, `device` is what
the derived node's transition function has done to its hardware.  `onTransitionAction` is the
callback around that function, which has no way to fail; `Accept` and `Refuse` are actionlib,
which may end a goal unexecuted (`Refusable`), and only then is an abort transition taken.  Two
of the four transitions have none, and the code follows a null pointer: `crashed`.
Two constants choose the environment: with `Concurrent` goals of both kinds arrive at any time,
without it a goal arrives only when both threads are idle.

`Lifecycle` is what a caller may believe: the state moves along the arrows of `transitionMap`
only, a transition starts in a mode that has it, an unsuccessful transition goes back through its
abort transition.  With one goal at a time `StateMachine` implements it (checked and proved).

### CrateTracker and CrateStream

A frame is a function from some of the crate names to places; `scene` is what the camera can see
and changes at any time, `crateLocateCallback` takes it as `frame`, applies `Update` (`See` for
crates that were read, `Miss` for the others) to each known crate, and the callback's loop
publishes the resulting `events`.  `heard` and `age` are history: `heard` is changed by every event
that is published, none is dropped (`Hear`).  Three facts of the code shape the model.  A new crate is copied into the map by a copy
constructor that gives it the values of a new object, so `NewCrate` has `stable = FALSE` and
`framesLeft = 0`, not the values `update` set just before: a crate comes in at its second sighting, although
`CrateTracker.h` documents `stableFrames` as the number of frames it must be unchanged.
`getAllCrates` copies crates the same way, so it lists the right crates, each with the state of a
new object (`state_non_existing`), whereas `getCrate` is assigned the whole crate and answers its
state.  And one countdown, `framesLeft`, serves both a crate that is missed and one that is read again:
it runs down through flicker, so after four still frames a crate that is missed once is told *out*, and
one missed for four frames and read once is told *moved* (`MCCrateObserved.cfg`).  QR names are
unique within a frame: the detector returns each code once.

`CrateStream` is the order of the events of a crate as they are published: *in*, *moving*, *moved*,
*out*, and besides them the *moving* of a crate that was never told in (`Stray`).  The code publishes those
for a crate that came to rest unannounced (`CrateTracker.cpp:83-86` and 139-140, after 100-119 without
an event), and such a crate then may vanish without an *out*.

### ModbusController and DeltaRobot

`ModbusController` keeps, per driver, slot and 16-bit half, the `register` of the driver and the
`shadow` of the controller; `writeU32` sends the halves that are not shadowed, and updates the
shadow only after an answer.  Of the four values of a motion slot (speed, position, acceleration,
deceleration), which are written alike, the position stands for all.  `DeltaRobot` is everything
above it: a service checks its path (`Call`), `moveTo` handles its points one by one, switching
the slot, writing to each motor (`Write`), waiting until all are ready, broadcasting START and
clearing it, then updating `currentAngle` and `effectorLocation`; the motors arrive on their own.
Kinematics and legal paths are the constants `angle` and `Legal`.  An exception in a service is
answered as an error; in a transition it ends the process (`Restart`).  A transition cannot overlap a
service: roscpp's service shutdown in `transitionStop` waits for a callback that runs.  `Faults` names what may
go wrong: `lost` requests, `late` answers, broadcasts that are not heard (`deaf`) or not sent
(`bus`), a calibration `sensor` that is not connected, a `crash`, and an `alarm`: a driver of a motor on its
way reports a warning or an alarm to the poll of `waitTillReady`, which then throws although every request was
answered (`StepperMotor.cpp:239-243`).  Calibration is one step with its two results.  `Origin` is the
point (0, 0, 0) the program takes the effector to be at before the first calibration.

### Equiplet

`EquipletNode`, `ModuleRegistry`, the `ModuleProxy` objects and the module processes.  The
transition's thread has three steps before its loop ends (clear or set the flag, copy the vector,
send a goal per proxy); the main thread handles a registration in two (test the flag, make and
push the proxy) and a report in one.  Modules start, register, take goals, report and crash;
the equiplet may crash and start with an empty registry; `Others` are goals from other clients
than the equiplet.  The state machines on both sides are those of `Lifecycle`, in two steps.

### BlackboardClient

The Java client and its `OplogMonitorThread`s; `BasicOperationSubscription` and `OplogEntry` are
membership of an operation in a set.  A thread that is interrupted may still have its next batch
from the driver (`GetMore`) before it notices.  The oplog holds the entries of one collection; a cursor is
the sequence of those its query selects, and a monitor is a position in it.
`createNewMonitorThread` is two steps, since entries come and the old monitor works between the
count (`Construct`) and the interruption (`Replace`).  The MongoDB driver (version 2.9.3 in
`lib`) is modelled from how it is used: a thread that is interrupted gets a
`MongoInterruptedException` when it next asks the driver for something.  In `run` this ends the
thread (`End`); in a callback like the SCADA agent's `onMessage`, which reads the blackboard and
catches what that throws, it uses the interruption up, so the old monitor lives on and every
entry is told twice (`Tell` with `left = FALSE`).  `run` catches nothing else (`Die`).  What is told at a switch
is therefore: entries that came after the new monitor counted, at least once; entries from before
that the old one has not fetched, perhaps never.  The properties draw that line; each speaks of one
monitor.

### BlackboardCppClient

The C++ client, in the use the equiplet node makes of it.  The oplog is one sequence with the
inserts (by topic), the removals the client makes itself, and entries of other collections
(`foreign`); a message is known by the place of its insert.  A reading thread goes through
`counting` (collStats of the oplog), `querying` (the tailing cursor), `reading`, and for a message
it tells, `callback` and `removing`, the two calls of `removeOldestMessage`.  Four facts of the
code shape the model.  The count is of the whole oplog, the cursor's entries are of one
collection, so a thread passes over as many new entries of its own as the oplog held others
(`skip`); what a server does with a skip that is larger than its result is left open (`Query`).
`operation.compare("i")` is true of everything (the text compared has the name of the field in it),
so what the comment calls a check for an insert lets every operation through; removals have no
topic and are told to nobody.  An interruption is never noticed, since nothing in the loop waits
on anything that looks for one; `unsubscribe` therefore only changes `subscriptions`.  And the
callback removes the *oldest* message of the collection, whichever it was told, with an empty
query that matches everything when it found none.  `told`, `missed` and `overlapped` are history.
Updates of messages by others are not modelled.

### CrateLocatorNode

What `CrateTracker` leaves out of the node: its transitions, and the two threads that take
callbacks from one queue while it calibrates.  `open` are the subscriptions and services that
exist, `pending` those with something in the queue (the image subscriptions keep one image),
`busy` the callback each thread is in.  `calibrate` is steps: clear and subscribe, test the two
counts, spin, remove the subscription, average.  `calibrateCallback` counts first and pushes three
points then.  roscpp is modelled by two rules: one subscription's callback runs in one thread at a
time, and removing a subscription or a service waits for its callbacks.  `markers` is never
cleared, so the second calibration that succeeds hands the transformer six coordinates for three
and the exception ends the process (`Evaluate`); the result of `calibrate` is not looked at, so a
node whose calibration failed can be started.  Transitions come one at a time, as from the serial
`StateMachine`.

### EffectorBoundaries

The bitmap is made by two searches: over the border of what is reachable, from the last reachable
voxel to the right of the middle, and from the middle over everything the border encloses.  The
second asks the kinematics of nothing and works on indices, so `bitmap` is a set of indices, and
`Index` and `Voxel` are the code's arithmetic.  `reach` is what the kinematics and the motors
allow, any of `Shapes`; the order of the stack is any fixed one (`Top`).  `checkPath` changes
nothing and is an operator with the set of its possible answers, for the bit it reads past the end
of the array can be anything.  Coordinates are whole parts (`Grain`) of a millimetre.

## 3. The runs

| Run | What it asks | Instance |
|---|---|---|
| `sm_concurrent` | `Settled`, `NoLostWakeup`, `NothingLeftRunning` under every interleaving of the two threads | modes NORMAL, ERROR, CRITICAL_ERROR |
| `sm_serial` | `DeviceAgrees`, `OneTransitionAtATime`, `AllOrNothing`, refinement of `Lifecycle`, `ModeIsObeyed`, `GoalIsAnswered` with one goal at a time | four modes, any transition goal may be recalled |
| `sm_race` (violation) | `SafeMeansOff` with concurrent goals | modes NORMAL, CRITICAL_ERROR |
| `sm_estop` (violation) | `ModeIsObeyed` with E_STOP | modes NORMAL, E_STOP |
| `crate` | `AnswersAgree`, `DriftBounded`, `MovingLasts`, refinement of `CrateStream`, `GoneIsTold`, `StillIsTold` | one name, five places, the node's own `stableFrames` |
| `locator` | `WholeMeasurements`, `TrackerIsAlone`, `TransitionsEnd` | two measurements, two errors, at most four images per calibration |
| `robot` | `ShadowAgrees`, `LocationAgrees`, `SucceededIsUnderway`, `MotionIsChecked`, `CallEnds` | lost requests, alarms, failed calibrations, restarts |
| `robot_shadow` (violation) | `MotionIsChecked` when answers may be lost | |
| `boundaries` | types (no write outside of the bitmap), `NothingOutOfReach`, `FillForgetsNothing`, `ConvexIsExact`, `LegalStaysNear` | a box of 5 by 4 by 5 voxels, blocks, octahedra, joined blocks and boxes with a hole, twelve ends of motions |
| `equiplet` | `AlmostAllTold`, `ShutdownTellsAll`, `ProxyAgrees`, `ModulesFollow` | two modules, one crashes, the equiplet restarts |
| `blackboard` | `CurrentListens`, `NothingMissed`, `OnlyNewEntries`, `EveryEntryIsTold` | two operations, three entries, two monitors |
| `bbcpp` | `OnlyNewEntries`, `LossIsBounded`, `NewestStays`, `NewIsTold` | one topic, three entries beside the removals, two threads |

The type invariants of `StateMachine`, `CrateTracker`, `DeltaRobot`, `Equiplet`, `BlackboardClient`,
`BlackboardCppClient` and `CrateLocatorNode` are theorems (section 4) and in no run.

The nine runs that pass show the properties hold for every behaviour of their instance.  The three
others each show one place where the code does not do what its own text says; `PROJECT.json`,
"findings", quotes both sides:

- `sm_race`: two unlocked threads can leave a machine at rest in SAFE with its hardware set up;
- `sm_estop`: E_STOP in STANDBY or NORMAL spins for ever, for it allows no transition to SAFE.
  This is why `sm_serial` has every other kind of mode but not E_STOP;
- `robot_shadow`: a write that was obeyed but not answered makes a later write be skipped.

More configurations are there to be run by hand.  Five of them show known limits of the code, and TLC
reports each as a violation:

- `MCCrateStable.cfg` (`CrateTrackerProps`, `StableIsAnnounced`): a crate that is missed before
  its *in* event can rest in front of the camera unknown to the services, until it moves.
  `removeUntrackedCrates` clears `newSituation` (`CrateTracker.cpp:146`), and `update` then sets
  `stable` (101) without taking either branch that causes an event (104-119);
- `MCCrateObserved.cfg` (`CrateTrackerProps`, `ChangeIsObserved`): `CrateTracker.h:131-134` wants a
  change observed for `stableFrames` frames; *out* and *moved* can come after a single frame that shows
  it, since both count down the same `framesLeft` (`CrateTracker.cpp:99`, 148);
- `MCCrateAll.cfg` (`CrateTrackerProps`, `AllCratesTellState`): the states `getAllCrates` answers are not
  those of the crates (`CrateTracker.cpp:194`, `Crate.cpp:69`, `CrateLocatorNode.cpp:173`);
- `MCDeltaSlot.cfg` (`MCDeltaRobot`, `RunningSlotIsLeftAlone`): `moveTo` switches the slot
  (`DeltaRobot.cpp:238`) before what can fail, so the move after a failed one writes into the slot the
  motors still execute.  Every request is answered here; the poll that meets an alarm is enough;
- `MCDeltaRelative.cfg` (`MCDeltaRobot`, `SucceededIsUnderway`): `moveToRelativePoint` goes to the
  coordinates as if they were absolute (`DeltaRobotNode.cpp:287`, 314) and answers true, against its
  documentation (271-278, 298-304).

`MCBlackboardCppTopics.cfg` passes: the safety properties of `bbcpp` with two topics, of which the
program subscribes to any.  It is larger and slower and says nothing new.

### Bounds, and why they are enough

- `MaxDepth` (2) is how many nested calls of `_forceToAllowedState` are told apart: each
  `changeState` of a forced walk ends in a forced walk of its own.  A deeper stack counts as one of
  `MaxDepth`, so its innermost calls return in fewer steps; the calls left out would each read
  the state and the mode and return.  The theorems hold for every `MaxDepth`.
- The four kinds of mode in `modePossibleStates` are ERROR, CRITICAL_ERROR, LOCK, E_STOP and all
  the others, which are alike; a run with NORMAL and the special ones covers the map.
- One crate name: `update` treats crates independently (`Update(n, f)` reads only `n`), and
  events of different crates only interleave.  Five places with threshold 1 allow drifting twice,
  jumping, and returning.  `stableFrames` is the 5 of the node.
- Two motors and three points with `Radix` 2: angles change in the low half, the high half, both
  or none, which is what the shadow distinguishes; the ends of the row of points cannot reach each other, so a
  path can be refused.  Two points per path give a first, a last and one part in between them.
- Two modules and `MaxProxies` 2: a racing registration and one that is not, or the two
  registrations of a module that crashed.

- `MaxFrames` 4: two measurements and two errors are one too many of each, and images past the
  last that counts; more images only find the loop ended.
- A box of 5 by 4 by 5 has an inside of several voxels in each direction, three different sides
  so that swapped strides show, and a middle that is off the centre along the even side.  `LegalStaysNear`
  looks at all pairs of twelve points in half millimetres, on and off the faces of the box and in the last
  millimetre below its top.
- `MaxWrites` 3 and `MaxReaders` 2: entries of other collections and of its own before and after a thread counts, a
  second thread after a restart or beside the first; a message that waits behind another.
- `MaxEntries` 3 and `MaxMonitors` 2: one switch from a monitor to another, with entries before,
  during and after it; a program that unsubscribes and subscribes again makes the same switch.  A
  run stops when the bounds are used up, and so does the program after `Close`: no deadlock check.

### Fairness

`StateMachine`: the execute threads, the transition callbacks and actionlib's threads run
(weak fairness per thread and server); nobody has to send a goal.  `CrateTracker`: the camera
keeps sending frames and the callback finishes.  `DeltaRobot`: the main thread goes on and a
motor reaches its target; failures are never required.  The second half is an assumption about the hardware and
not about the code: `waitTillReady` polls without a bound (`StepperMotor.cpp:238`), so on a motor that
never gets ready and reports no alarm the call hangs, and `CallEnds` says nothing of that.  `Equiplet`: a transition's thread and a
module run; the main thread serves a first-in first-out callback queue, so no module's
registration or report is passed over for ever, which is strong fairness for each.
`BlackboardClient`: a call returns and a monitor that has something to do goes on; nobody has to
change the collection, and no thread has to die.  `BlackboardCppClient`: a reading thread
goes on; nobody has to write.  `CrateLocatorNode`: the threads go on and the camera sends images (weak
fairness), and ever and again one of them can be converted and is looked at (strong fairness of
`Detect`): without images the loop of the calibration has no end, as in the code.
`EffectorBoundaries` has none: its properties are of safety, and that its steps come to an end is a
theorem about each of them (`StepsAreCountedCorrect`).

## 4. The proofs

| Theorem | Says, for every value of the constants |
|---|---|
| `StateMachineProofs!TypeCorrect` | types, and that the depth of calls agrees with each thread's place |
| `StateMachineProofs!SettledCorrect` | `Settled`: however the two threads interleave |
| `StateMachineProofs!NoLostWakeupCorrect` | `NoLostWakeup` |
| `StateMachineProofs!SerialImplementsLifecycle` | with one goal at a time every step is one of `Lifecycle` or a stutter |
| `StateMachineProofs!NothingLeftRunningCorrect` | `NothingLeftRunning`, if no goal ends unexecuted or goals are sent one by one |
| `StateMachineProofs!OneTransitionCorrect` | `OneTransitionAtATime`, with one goal at a time |
| `StateMachineProofs!DeviceAgreesCorrect` | `DeviceAgrees`, with one goal at a time |
| `StateMachineProofs!AllOrNothingCorrect` | `AllOrNothing`, with one goal at a time |
| `DeltaRobotProofs!TypeCorrect` | types, and that `moveTo` has a point to go to wherever it looks at its path (`HasPoint`) |
| `DeltaRobotProofs!ShadowCorrect` | `ShadowAgrees`, assuming only that no failed request was obeyed (`NoLateAnswers`) |
| `DeltaRobotProofs!LocationCorrect` | `LocationAgrees`, assuming `Reliable` |
| `DeltaRobotProofs!MotionIsCheckedCorrect` | `MotionIsChecked`, assuming `Reliable` |
| `DeltaRobotProofs!SucceededCorrect` | `SucceededIsUnderway`, assuming `Reliable` and `AsDocumented` |
| `DeltaRobotProofs!RunningSlotCorrect` | `RunningSlotIsLeftAlone`, assuming `NothingFails`: no lost request, no broadcast ended by an exception, no alarm |
| `DeltaRobotProofs!CallGetsOnCorrect` | each step during a call leaves less of it (`CallLeft`), whatever fails |
| `EquipletProofs!TypeCorrect` | types |
| `EquipletProofs!AlmostAllToldCorrect` | `AlmostAllTold` |
| `EquipletProofs!ShutdownTellsAllCorrect` | `ShutdownTellsAll` |
| `EquipletProofs!ProxyAgreesCorrect` | `ProxyAgrees` |
| `BlackboardClientProofs!TypeCorrect` | types |
| `BlackboardClientProofs!CurrentListensCorrect` | `CurrentListens` |
| `BlackboardClientProofs!NothingMissedCorrect` | `NothingMissed` |
| `BlackboardClientProofs!OnlyNewEntriesCorrect` | `OnlyNewEntries` |
| `BlackboardCppClientProofs!TypeCorrect` | types |
| `BlackboardCppClientProofs!OnlyNewEntriesCorrect` | `OnlyNewEntries` of the C++ client |
| `BlackboardCppClientProofs!LossIsBoundedCorrect` | `LossIsBounded` |
| `BlackboardCppClientProofs!NewestStaysCorrect` | `NewestStays` |
| `CrateTrackerProofs!TypeCorrect` | types |
| `CrateTrackerProofs!AnswersAgreeCorrect` | `AnswersAgree`: after the events of a frame, what `getCrate` answers and whom `getAllCrates` lists |
| `CrateTrackerProofs!DriftBoundedCorrect` | `DriftBounded` |
| `CrateTrackerProofs!MovingLastsCorrect` | `MovingLasts` |
| `CrateTrackerProofs!ImplementsCrateStreamCorrect` | `CrateTracker` implements `CrateStream`, with every event that is published |
| `CrateLocatorNodeProofs!TypeCorrect` | types |
| `CrateLocatorNodeProofs!WholeMeasurementsCorrect` | `WholeMeasurements` |
| `CrateLocatorNodeProofs!TrackerIsAloneCorrect` | `TrackerIsAlone` |
| `EffectorBoundariesProofs!TypeCorrect` | types: no index outside of the bitmap is ever set |
| `EffectorBoundariesProofs!NothingOutOfReachCorrect` | `NothingOutOfReach`, for boxes of any size and any reachable set |
| `EffectorBoundariesProofs!BorderIsFoundCorrect` | a border in one piece is found whole |
| `EffectorBoundariesProofs!ConnectedBorderSuffices` | the two together: a border in one piece around the middle keeps the bitmap within reach |
| `EffectorBoundariesProofs!FillForgetsNothingCorrect` | `FillForgetsNothing` |
| `EffectorBoundariesProofs!FillIsExactCorrect` | a border found whole around the middle gives the border and what is joined to the middle inside of it, nothing else |
| `EffectorBoundariesProofs!ConnectedBorderIsExact` | the same from a border in one piece |
| `EffectorBoundariesProofs!ColumnsAreExactCorrect` | the same from a reach in one piece without holes in its columns; and when the middle is left out |
| `EffectorBoundariesProofs!ConvexIsExactCorrect` | `ConvexIsExact` |
| `EffectorBoundariesProofs!StepsAreCountedCorrect` | the bitmap is finished, or refused, after at most 2 * width * depth * height + width + 3 steps |
| `EffectorBoundariesProofs!LegalStaysNearCorrect` | `LegalStaysNear`, for any bitmap and any ends, assuming `voxelSize # 1` |

*State machine.*  `Settled` speaks of the moment both threads are idle and is not inductive.
`SettleInv` strengthens it in two steps that survive any interleaving: while the state is a
transition state some thread is inside a transition, and while the state is not allowed in the
mode some thread must still check (`MustCheck`): it is in a transition, or in a forced walk in
which it has not passed its test, or has passed it by reading what is the state now.  A thread
cannot become idle but through that test, and what the other thread writes makes that other
thread one that must check.  It rests on `TypeInv`, which ties the depth of calls to the place in
the code.  For the refinement, `SerialInv` says what the one busy thread knows (`Knows`): that the
entry it looked up starts at the current state, that the mode has its transition, and which
transition states it can be in.

`WorkInv` gives every pending goal the thread that waits for it.  When actionlib ends a goal
unexecuted that had superseded another, nobody waits for the one that still executes; so either nothing is
refused or, with one goal at a time, no goal is superseded (`Calm`).  `DeviceInv` follows the hardware through a transition: it is
where the change started until the transition that runs has succeeded, and no transition of the map
has an outcome but the arrow's end, nor an abort transition one but the arrow's start.  For `AllOrNothing` that is not
enough: a callback that forces the state on after its transition would answer for something else.
`ChangeInv` shows it does not: a change of state that nobody disturbs starts in a state the mode allows and
ends in one, so its call of `_forceToAllowedState` finds nothing to do.

*Delta robot.*  `ShadowAgrees` needs the types of registers and shadows, and that calibration
writes both alike; each write is then followed half by half.  What a motion is started with needs more
than the moment of the start: `MotionInv` says what each step of `moveTo` has established, that
what was written is what was wanted (`Written`: a skipped half was in the driver already), that the way
ahead was checked (`Checked`), that the motors stand still before they are started (`Waited`), and where they
are or go (`InPlace`, `AnglesKnown`).  `CallInv` adds where a call is on the way to what it was asked.
`Reliable` excludes the three faults the code has no answer to: a request obeyed without an answer,
a driver that misses a broadcast, and a bus that ends a broadcast with an exception;
`robot_shadow` shows that the first really breaks `MotionIsChecked`.  `AsDocumented`
leaves out `moveToRelativePoint`, which `MCDeltaRelative.cfg` shows to go elsewhere.

`RunningSlotIsLeftAlone` fails once a `moveTo` ends with an exception after it switched the slot: the next
move then writes into the slot that is being executed.  A request that is not answered does it, a broadcast
that fails, and a motor that reports an alarm to the poll while every request is answered
(`MCDeltaSlot.cfg`).  `RunningSlotCorrect` excludes the three (`NothingFails`), and says that nothing else
in the model does it: the property then holds through drivers that miss a broadcast, failed calibrations and
restarts.  `SlotInv` says why: between motions the motors execute the slot written last, or
none, and from the switch of the slot to START none of them the slot that is written.

`CallEnds` itself is liveness and stays with TLC, but that a call cannot go round in circles is proved:
`CallLeft` counts the steps to the next point, those to the points after it and the motors that still move, and each step
during a call lowers it, be it of the main thread or of a motor.  With `MotorsAssumption` (finitely many, and
numbered) there is always a next motor where `moveTo` writes (`HasMotor`), for it writes only when some angle
changes.

*Equiplet.*  `AlmostAllTold` speaks of a state the equiplet reaches only at the end of its loop.
The invariant (`OneLate`) follows it from the moment the flag is cleared: from then on no
registration passes its test, so of the proxies whose turn is over at most one was not told, and only
if no other registration is still under way.  `AllCalledBack` is the same for the way back, where
no registration can spoil it: a proxy that is pushed has never been told anything.  `ProxyAgrees` needs
that a report under way is of the state the module is in, and that who registers is still in SAFE
(`Reports`, `Registers`), for that is what its new proxy takes it to be.

*Blackboard.*  `CurrentListens` needs that the monitor under construction is none the client has
interrupted (`NewIsFresh`).  `NothingMissed` and `OnlyNewEntries` rest on where a monitor stands
(`Stands`): what was in the oplog when it counted is behind it, it holds no more than there is,
and what it passed since is told.  The step that adds an entry is where counting matters: the new
entry's number is above what any monitor can have fetched.  The lemmas about counting
(`SelectedMonotone`, `SelectedCounts`, `InsertEffect`) are about the size of sets of positions.

*C++ blackboard.*  For one thread, `Stands` counts: a thread skips no fewer entries than it has
left of those it counted, so nothing older than its count is told; and what it missed together with what it
still skips is no more than that and the entries of other collections it counted.
`NewestStays` is about all threads, past and present, and not inductive.  `Newest` strengthens it
by counting again: while only one thread reads, messages leave the collection from the oldest on,
no more of them than were told, and one less between the telling and the removal.  If a
message were gone and nothing from it on had been told, more messages were gone than could have been
told.

*Crate tracker.*  The invariant speaks of one crate at a time (`Good`): the tracker's record of it,
what is still to be published, and the history of what was published are in one of a few shapes
(`GoodKnown`, `GoodGone`).  An empty row of events goes with a history that comes to what `getState`
answers (`Told`); a row with a *moving* in it goes with a countdown just begun; with *in* or *moved*,
with a crate at rest near the place in the event.  The *moving* of a crate that was not told in leaves it not told
in, which is all that is claimed for it.  One lemma each for a crate that is read (`SeeGood`), missed
(`MissGood`) and published (`PublishKnown`, `PublishGone`); the last two also give the step of
`CrateStream`.  A last conjunct keeps what is at rest within the threshold of where it was read.

*Crate locator.*  `SourcesInv` says in which part of which transition a subscription or a service
can still have a callback in a thread, `BuffersInv` that each buffer has a point for every
measurement but those still to be pushed.  Both survive every interleaving; with the wait of roscpp
they give the two properties where they are needed.

*Boundaries.*  `Voxel` undoes `Index` inside the box; this is arithmetic with quotients
and remainders, in lemmas of its own.  `FillInv`: from a voxel inside the border every neighbour is
reachable, and either on the border, which is marked already, or inside too.  `SearchInv`: what the
first search marked is closed under neighbours on the border but for what is on the stack, so with
an empty stack a border in one piece is marked whole.

That the second search is exact has two sides (`ExactInv`).  It forgets nothing: a voxel inside that is
marked, or the middle, is still on the stack or has all that share a face with it marked; a voxel at a
low edge, from which the search looks nowhere, is border.  And it marks nothing else: whatever set holds the
middle and is left by no step across a face, the marks stay in it.  `Joined` is the least such set.
`MiddleInv` adds what becomes of the middle itself, which is where the search starts and which it does
not mark: it is marked from the first voxel the search comes back from, so it is left out only if there is none.

`ConvexIsExact` asks in addition when the border is in one piece, and there convex is more than it
takes: it is enough that the reach is in one piece (`InOnePiece`) and that no column has a hole
(`ColumnsUnbroken`).  From a border voxel its column is border up to its top or down to its bottom, since the
voxel next to it that is out of reach has nothing above or nothing below it (`ToAnEnd`).  The tops of two
columns that share a face are joined by border, for what of one column is above the other's top is next to
what is out of reach (`EndsMeet`), and so for the bottoms; and a column that is furthest along an axis is border from
top to bottom (`SideColumn`).  So any part of the border that has all the border around its own has both ends of every
column, and there is only one such part (`BorderInOnePiece`).  The walks along columns are by induction: `LeastOf`, that
a set of numbers has a least one, follows from the library's theorem that `<` on them is well-founded.  With it
`ConnectedIsLeast` shows that the recursive function `Connected`, by which the property is stated, computes the
least set that is closed in this way, by induction on the voxels that are still missing.

`StepsLeft` bounds what is still to be done by twice the bits that are not set and the voxels on the stack.
A step may put many voxels there, but each with a bit it sets.  It is the half of termination that is a safety
property: the rest is that the constructor is never interrupted.

`LegalStaysNear` is arithmetic.  A place on the motion is less than a whole millimetre along the longest side from a
point that was checked, or from the start (`PlaceAlong`), so it is less than one away in each coordinate.
Cutting off moves a point by less than another, and two numbers less than two apart are in the same or in
neighbouring voxels of two millimetres or more (`NearSample`; the start itself is not cut, and `NearStart` asks
nothing of the voxels); that the cut is towards zero, and changes
direction there, is in `CutBounds` and `CutMonotone`.  `voxelSize # 1` is what this needs, and the node uses 2
(`DeltaRobotNode.cpp:550`).  A point that is checked lies between the ends (`SampleBetween`), so with both ends in the box
it is one of a voxel of the box, and with nothing marked at the low edges an index that wraps is never that of a
marked voxel (`KeptOffTheEdges`).  Nothing is assumed about the bitmap, so this holds also where the
fill leaks.

Only model-checked, and not proved: liveness (`ModeIsObeyed`, `GoalIsAnswered`, `GoneIsTold`,
`StillIsTold`, `CallEnds`, `ModulesFollow`, `EveryEntryIsTold`, `NewIsTold`, `TransitionsEnd`), which is beyond
the prover, as is `ENABLED`.  Every safety property of the runs that pass is a theorem, some under the assumptions
named in the table.

## 5. What is left out, and why

- Whatever is real arithmetic: kinematics, image processing, accelerations and speeds.
- Timing: intervals between writes, sleeps and the rate of frames.  Nothing in the code depends on
  them but the tracker, which counts frames.
- A driver that stays in alarm, so that every later poll throws, and a motor that never gets ready.
- `deaf` and `bus` failures of `DeltaRobot` are modelled, but no run allows them: the code has no
  answer to either, so `MotionIsChecked` and `LocationAgrees` fail at once.
- The reports of a module's mode, which are made like those of its state; goals to a proxy's mode,
  which nothing sends; a module's goal sent before its client is connected.
- In `BlackboardClient`: that MongoDB drops the oldest entries of a full oplog; a program that
  subscribes to one operation twice; what the SCADA agent makes of its calls.  It reads the
  modules and then sets them without a lock in several threads, so what it shows can be older
  than what it showed before; the ticker of `UpdateModulesBehaviour` that would refresh it is made
  and never added to the agent.
- In `BlackboardCppClient`: `setDatabase`, `setCollection`, `setCallback` and
  `readOldestMessage`; connections that fail; the unlocked `subscriptions` being read while
  they change, which the model takes one call at a time.  With two threads on one oplog
  (`overlapped`, which the node itself never makes, as it subscribes once) each message is told twice and two are
  removed, so a message nobody was told can go: `NewestStays` is stated without that.
- In `CrateLocatorNode`: the window, its mouse callback, drawing.  The name given to the state
  machine, `"crate_locator_node_" + moduleID`, is pointer arithmetic past the end of a literal
  (`CrateLocatorNode.cpp:72`); the model has one node and no names.
- In `EffectorBoundaries`: `NothingOutOfReach` has the condition that the middle lies inside a
  border that was found whole.  Without it the fill leaks: a middle on the border starts outside of what
  encloses it, and around a cavity that touches no other border the first search never comes.  `LegalStaysNear`
  leaves out ends that are above the top of the box when they are cut off and, unless both ends
  then are in the box, ends in its last layer: `checkPath` reads past the bitmap there, and answers by other
  memory.  That takes in the last millimetre below the top, where z is negative, so that cutting off lifts a point
  to the top.
- `environment_cache` and `lookup_handler`: one thread, one map, no step that could be
  interleaved, lost or fail half way.  `LookupHandler.cpp:58-59` uses what its lookup found without
  looking whether it did; its only caller, `callLookupHandler`, is never called.
- `rexos_mast` and `rexos_most` are built and used by no node.
- Vendored code: `libjson`, `mongoose` and `jquery` are more than half of the lines under `src/`, so the
  share of all lines that the models cover is small; of the nodes and libraries REXOS itself has,
  what holds state or runs concurrently is modelled.
- Motions of an uncalibrated robot happen in the run, but the properties speak of a calibrated
  one: a failed calibration is logged and otherwise ignored by the node.

## 6. Plan

In the order of importance, with what each step adds:

1. *Done*: `StateMachine`/`Lifecycle`, `CrateTracker`/`CrateStream`, `ModbusController` with
   `DeltaRobot`, `Equiplet`; their runs; their theorems.
2. *Done*: `BlackboardClient` and `BlackboardCppClient`: the same questions put to two clients
   that answer them differently.
3. *Done*: `EffectorBoundaries` and `CrateLocatorNode`, with their theorems; the theorems about
   `CrateTracker`.
4. Not planned any more: `EnvironmentCache`, for the reason in section 5.
5. *Done*: the device properties of the serial `StateMachine` and `NothingLeftRunning`; location,
   motion and success of `DeltaRobot` under lost requests; `ProxyAgrees`.
6. *Done*: `FillForgetsNothing`, `ConvexIsExact`, `LegalStaysNear` and the end of the searches proved for boxes
   of any size; the slot that is executed, while nothing fails.
7. *Done*: the safety half of termination, for the bitmap (`StepsLeft`) and for the calls of `DeltaRobot`
   (`CallLeft`).
8. *Left*: `changeMode` of the proxies, should something call it; the safety half of the other liveness
   properties, which wait for what others do and so need more than a number that goes down.
