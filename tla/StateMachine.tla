---------------------------- MODULE StateMachine ----------------------------
(***************************************************************************)
(* rexos_statemachine::StateMachine: the state and mode every equiplet and *)
(* every module keeps.  A change_state and a change_mode action server run *)
(* their callbacks on a thread each, and both threads read and write       *)
(* currentState and currentMode with no lock, so every access to a shared  *)
(* variable is an action of its own.  A change of state runs one of four   *)
(* transitions through an actionlib client and server of its own.          *)
(***************************************************************************)
EXTENDS Naturals, FiniteSets

CONSTANTS
  modes,        \* the modes the machine was constructed with
  Refusable,    \* the transitions whose goals actionlib may end unexecuted
  Concurrent,   \* may a goal arrive while the other thread is busy?
  MaxDepth      \* nested calls of _forceToAllowedState told apart

StableState     == {"SAFE", "STANDBY", "NORMAL"}
TransitionState == {"SETUP", "SHUTDOWN", "START", "STOP"}
State           == StableState \cup TransitionState
Mode == {"NORMAL", "SERVICE", "ERROR", "CRITICAL_ERROR", "E_STOP", "LOCK", "STEP"}

ASSUME ModesAssumption      == modes \subseteq Mode
ASSUME RefusableAssumption  == Refusable \subseteq TransitionState
ASSUME ConcurrentAssumption == Concurrent \in BOOLEAN
ASSUME DepthAssumption      == MaxDepth \in Nat \ {0}

Thread == {"changeState", "changeMode"}

\* A ChangeStateEntry; the transition's name is also its transitionState.
Entry(from, to, transition, abort) ==
  [from |-> from, to |-> to, transition |-> transition, abortTransition |-> abort]

transitionMap ==
  {Entry("SAFE", "STANDBY", "SETUP", "SHUTDOWN"),
   Entry("STANDBY", "SAFE", "SHUTDOWN", "NULL"),
   Entry("STANDBY", "NORMAL", "START", "STOP"),
   Entry("NORMAL", "STANDBY", "STOP", "NULL")}

\* Mutant: CRITICAL_ERROR without STATE_SHUTDOWN.
modePossibleStatesNoShutdown(mode) ==
  CASE mode = "ERROR"          -> State \ {"NORMAL", "START"}
    [] mode = "CRITICAL_ERROR" -> {"SAFE", "STOP"}
    [] mode = "LOCK"           -> {"NORMAL", "STANDBY", "SAFE", "STOP"}
    [] OTHER                   -> State

modePossibleStates(mode) ==
  CASE mode = "ERROR"          -> State \ {"NORMAL", "START"}
    [] mode = "CRITICAL_ERROR" -> {"SAFE", "STOP", "SHUTDOWN"}
    [] mode = "E_STOP"         -> {"SAFE"}
    [] mode = "LOCK"           -> {"NORMAL", "STANDBY", "SAFE", "STOP"}
    [] OTHER                   -> State

statePossibleInMode(state, mode) == state \in modePossibleStates(mode)

\* What a transition function has done to the hardware once it returns.
Outcome(transition) ==
  CASE transition = "START"    -> "NORMAL"
    [] transition = "SHUTDOWN" -> "SAFE"
    [] OTHER                   -> "STANDBY"

Location == {"idle", "lookup", "check", "enter", "loop", "send", "wait",
             "compare", "own", "other", "force", "test", "switch", "return",
             "setMode"}

VARIABLES
  currentState, currentMode,
  crashed,    \* the process died on the NULL abortTransition
  pc,         \* per thread, its place in changeState, changeMode or force
  desired,    \* per thread, the goal's desiredState or desiredMode
  newState,   \* per thread, the argument of the innermost changeState
  entry,      \* per thread, changeStateEntry of the innermost changeState
  running,    \* per thread, the transition of transitionActionClient
  seen,       \* per thread, the state _forceToAllowedState has just read
  depth,      \* per thread, the calls of _forceToAllowedState under way
  answer,     \* per thread, how its last goal ended
  client,     \* per transition, its action client's view of its last goal
  server,     \* per transition, what its action server executes
  queued,     \* the transitions whose server has a goal to accept
  device      \* the stable state the hardware was last brought to

shared  == <<currentState, currentMode, crashed>>
locals  == <<desired, newState, entry, running, seen, depth, answer>>
actions == <<client, server, queued, device>>
vars    == <<shared, pc, locals, actions>>

TypeOK ==
  /\ currentState \in State
  /\ currentMode \in Mode
  /\ crashed \in BOOLEAN
  /\ pc \in [Thread -> Location]
  /\ desired \in [Thread -> State \cup Mode]
  /\ newState \in [Thread -> State]
  /\ entry \in [Thread -> transitionMap]
  /\ running \in [Thread -> TransitionState]
  /\ seen \in [Thread -> State]
  /\ depth \in [Thread -> 0..MaxDepth]
  /\ answer \in [Thread -> {"none", "succeeded", "aborted"}]
  /\ client \in [TransitionState -> {"none", "waiting", "succeeded", "failed"}]
  /\ server \in [TransitionState -> {"idle", "executing", "superseded"}]
  /\ queued \subseteq TransitionState
  /\ device \in StableState

Init ==
  /\ currentState = "SAFE"
  /\ currentMode = "NORMAL"
  /\ crashed = FALSE
  /\ pc = [t \in Thread |-> "idle"]
  /\ desired = [t \in Thread |-> "SAFE"]
  /\ newState = [t \in Thread |-> "SAFE"]
  /\ entry = [t \in Thread |-> Entry("SAFE", "STANDBY", "SETUP", "SHUTDOWN")]
  /\ running = [t \in Thread |-> "SETUP"]
  /\ seen = [t \in Thread |-> "SAFE"]
  /\ depth = [t \in Thread |-> 0]
  /\ answer = [t \in Thread |-> "none"]
  /\ client = [tr \in TransitionState |-> "none"]
  /\ server = [tr \in TransitionState |-> "idle"]
  /\ queued = {}
  /\ device = "SAFE"
-----------------------------------------------------------------------------
Goto(t, from, to) == pc[t] = from /\ pc' = [pc EXCEPT ![t] = to]

Idle(t) == pc[t] = "idle"

Answer(t, ok) ==
  answer' = [answer EXCEPT ![t] = IF ok THEN "succeeded" ELSE "aborted"]

\* A changeState that returns false early goes back to the loop of the
\* _forceToAllowedState that called it, or ends its action.
ReturnFalse(t, from) ==
  IF depth[t] > 0 THEN Goto(t, from, "force") /\ UNCHANGED answer
                  ELSE Goto(t, from, "idle") /\ Answer(t, FALSE)

\* The execute threads of the two action servers take up a goal.
onChangeStateAction(state) ==
  /\ Concurrent \/ \A t \in Thread : Idle(t)
  /\ Goto("changeState", "idle", "lookup")
  /\ desired' = [desired EXCEPT !["changeState"] = state]
  /\ newState' = [newState EXCEPT !["changeState"] = state]
  /\ answer' = [answer EXCEPT !["changeState"] = "none"]
  /\ UNCHANGED <<shared, entry, running, seen, depth, actions>>

onChangeModeAction(mode) ==
  /\ Concurrent \/ \A t \in Thread : Idle(t)
  /\ Goto("changeMode", "idle", "setMode")
  /\ desired' = [desired EXCEPT !["changeMode"] = mode]
  /\ answer' = [answer EXCEPT !["changeMode"] = "none"]
  /\ UNCHANGED <<shared, newState, entry, running, seen, depth, actions>>

\* Mutant: changeMode without its _forceToAllowedState.
SetModeNoForce(t) ==
  /\ desired[t] \in modes
  /\ Goto(t, "setMode", "return")
  /\ currentMode' = desired[t]
  /\ UNCHANGED <<currentState, crashed, locals, actions>>

SetMode(t) ==
  \/ /\ desired[t] \in modes
     /\ Goto(t, "setMode", "force")
     /\ currentMode' = desired[t]
     /\ depth' = [depth EXCEPT ![t] = 1]
     /\ UNCHANGED <<currentState, crashed, desired, newState, entry, running, seen, answer, actions>>
  \/ /\ desired[t] \notin modes
     /\ Goto(t, "setMode", "idle")
     /\ Answer(t, FALSE)
     /\ UNCHANGED <<shared, desired, newState, entry, running, seen, depth, actions>>

\* changeState: find the entry for (currentState, newState).
Lookup(t) ==
  /\ \/ \E e \in transitionMap :
          /\ e.from = currentState /\ e.to = newState[t]
          /\ Goto(t, "lookup", "check")
          /\ entry' = [entry EXCEPT ![t] = e]
          /\ UNCHANGED answer
     \/ /\ \A e \in transitionMap : ~(e.from = currentState /\ e.to = newState[t])
        /\ ReturnFalse(t, "lookup")
        /\ UNCHANGED entry
  /\ UNCHANGED <<shared, desired, newState, running, seen, depth, actions>>

\* Mutant: changeState without its test of the mode.
CheckModeNone(t) ==
  /\ Goto(t, "check", "enter")
  /\ UNCHANGED <<shared, locals, actions>>

CheckMode(t) ==
  /\ IF statePossibleInMode(entry[t].transition, currentMode)
     THEN Goto(t, "check", "enter") /\ UNCHANGED answer
     ELSE ReturnFalse(t, "check")
  /\ UNCHANGED <<shared, desired, newState, entry, running, seen, depth, actions>>

_setState(state) == currentState' = state /\ UNCHANGED <<currentMode, crashed>>

Enter(t) ==
  /\ Goto(t, "enter", "loop")
  /\ _setState(entry[t].transition)
  /\ running' = [running EXCEPT ![t] = entry[t].transition]
  /\ UNCHANGED <<desired, newState, entry, seen, depth, answer, actions>>

\* Mutant: changeState without its _forceToAllowedState.
LoopNoForce(t) ==
  /\ Goto(t, "loop", IF currentState \in TransitionState THEN "send"
                     ELSE IF depth[t] > 0 THEN "force" ELSE "return")
  /\ UNCHANGED <<shared, locals, actions>>

\* The loop's condition; when it fails, _forceToAllowedState is called.
Loop(t) ==
  \/ /\ currentState \in TransitionState
     /\ Goto(t, "loop", "send")
     /\ UNCHANGED <<shared, locals, actions>>
  \/ /\ currentState \notin TransitionState
     /\ Goto(t, "loop", "force")
     /\ depth' = [depth EXCEPT ![t] = IF @ < MaxDepth THEN @ + 1 ELSE @]
     /\ UNCHANGED <<shared, desired, newState, entry, running, seen, answer, actions>>

\* A new goal of the same client replaces the one it waited for, and takes
\* the place of one the server has not accepted yet.
SendGoal(t) ==
  LET tr == running[t] IN
  /\ Goto(t, "send", "wait")
  /\ client' = [client EXCEPT ![tr] = "waiting"]
  /\ server' = [server EXCEPT ![tr] = IF @ = "idle" THEN "idle" ELSE "superseded"]
  /\ queued' = queued \cup {tr}
  /\ UNCHANGED <<shared, locals, device>>

\* Mutant: the result is not waited for.
WaitForResultNone(t) ==
  /\ Goto(t, "wait", "compare")
  /\ UNCHANGED <<shared, locals, actions>>

WaitForResult(t) ==
  /\ client[running[t]] \in {"succeeded", "failed"}
  /\ Goto(t, "wait", "compare")
  /\ UNCHANGED <<shared, locals, actions>>

Compare(t) ==
  /\ IF currentState = entry[t].transition
     THEN Goto(t, "compare", "own")
     ELSE Goto(t, "compare", "other")
  /\ UNCHANGED <<shared, locals, actions>>

\* The state is still this call's own: arrive, or fall back on the abort
\* transition, which two of the four entries do not have.
Own(t) ==
  LET done  == client[running[t]] = "succeeded"
      abort == entry[t].abortTransition
  IN
  /\ \/ /\ done
        /\ Goto(t, "own", "loop")
        /\ _setState(entry[t].to)
        /\ UNCHANGED running
     \/ /\ ~done /\ abort # "NULL"
        /\ Goto(t, "own", "loop")
        /\ _setState(abort)
        /\ running' = [running EXCEPT ![t] = abort]
     \/ /\ ~done /\ abort = "NULL"
        /\ Goto(t, "own", "own")
        /\ crashed' = TRUE
        /\ UNCHANGED <<currentState, currentMode, running>>
  /\ UNCHANGED <<desired, newState, entry, seen, depth, answer, actions>>

\* Mutant: after the abort transition the state is the desired one.
OtherDesired(t) ==
  /\ Goto(t, "other", "loop")
  /\ _setState(entry[t].to)
  /\ UNCHANGED <<locals, actions>>

\* The state is not this call's own any more: back to the source state,
\* whatever the client says of the goal.
Other(t) ==
  /\ Goto(t, "other", "loop")
  /\ _setState(entry[t].from)
  /\ UNCHANGED <<locals, actions>>
-----------------------------------------------------------------------------
\* _forceToAllowedState reads the state, then the mode, then the state again
\* for its switch, and changeState reads it once more.
ReadState(t) ==
  /\ Goto(t, "force", "test")
  /\ seen' = [seen EXCEPT ![t] = currentState]
  /\ UNCHANGED <<shared, desired, newState, entry, running, depth, answer, actions>>

\* An allowed state ends the innermost call; the thread goes back to the call
\* around it or to the return statement of the callback.
Test(t) ==
  \/ /\ ~statePossibleInMode(seen[t], currentMode)
     /\ Goto(t, "test", "switch")
     /\ UNCHANGED <<shared, locals, actions>>
  \/ /\ statePossibleInMode(seen[t], currentMode)
     /\ Goto(t, "test", IF depth[t] > 1 THEN "force" ELSE "return")
     /\ depth' = [depth EXCEPT ![t] = @ - 1]
     /\ UNCHANGED <<shared, desired, newState, entry, running, seen, answer, actions>>

Switch(t) ==
  /\ \/ /\ currentState \in {"NORMAL", "STANDBY"}
        /\ Goto(t, "switch", "lookup")
        /\ newState' = [newState EXCEPT ![t] =
                          IF currentState = "NORMAL" THEN "STANDBY" ELSE "SAFE"]
     \/ /\ currentState \notin {"NORMAL", "STANDBY"}
        /\ Goto(t, "switch", "force")
        /\ UNCHANGED newState
  /\ UNCHANGED <<shared, desired, entry, running, seen, depth, answer, actions>>

\* Mutant: changeState returns true once its transitions are over.
ReturnTrue(t) ==
  /\ Goto(t, "return", "idle")
  /\ Answer(t, TRUE)
  /\ UNCHANGED <<shared, desired, newState, entry, running, seen, depth, actions>>

\* changeMode has succeeded; changeState has if it finds the state it was
\* asked for.
Return(t) ==
  /\ Goto(t, "return", "idle")
  /\ Answer(t, t = "changeState" => currentState = desired[t])
  /\ UNCHANGED <<shared, desired, newState, entry, running, seen, depth, actions>>

Step(t) ==
  /\ ~crashed
  /\ \/ SetMode(t) \/ Lookup(t) \/ CheckMode(t) \/ Enter(t) \/ Loop(t)
     \/ SendGoal(t) \/ WaitForResult(t) \/ Compare(t) \/ Own(t) \/ Other(t)
     \/ ReadState(t) \/ Test(t) \/ Switch(t) \/ Return(t)
-----------------------------------------------------------------------------
\* The execute thread of a transition's server accepts the goal it was sent.
Accept(tr) ==
  /\ ~crashed
  /\ tr \in queued /\ server[tr] = "idle"
  /\ queued' = queued \ {tr}
  /\ server' = [server EXCEPT ![tr] = "executing"]
  /\ UNCHANGED <<shared, pc, locals, client, device>>

\* Mutant: the callback does not set its goal succeeded.
onTransitionActionNoResult(tr) ==
  /\ ~crashed
  /\ server[tr] # "idle"
  /\ device' = Outcome(tr)
  /\ server' = [server EXCEPT ![tr] = "idle"]
  /\ UNCHANGED <<shared, pc, locals, client, queued>>

\* The transition function returns and its callback sets the goal succeeded;
\* the client only listens when the goal is still its own.
onTransitionAction(tr) ==
  /\ ~crashed
  /\ server[tr] # "idle"
  /\ device' = Outcome(tr)
  /\ server' = [server EXCEPT ![tr] = "idle"]
  /\ client' = [client EXCEPT ![tr] = IF server[tr] = "executing" THEN "succeeded" ELSE @]
  /\ UNCHANGED <<shared, pc, locals, queued>>

\* actionlib ends a goal the server has not accepted (recalled or rejected).
Refuse(tr) ==
  /\ ~crashed
  /\ tr \in queued \cap Refusable
  /\ queued' = queued \ {tr}
  /\ client' = [client EXCEPT ![tr] = "failed"]
  /\ UNCHANGED <<shared, pc, locals, server, device>>

Server(tr) == Accept(tr) \/ onTransitionAction(tr)

Request ==
  /\ ~crashed
  /\ \/ \E state \in StableState : onChangeStateAction(state)
     \/ \E mode \in Mode : onChangeModeAction(mode)

Next ==
  \/ Request
  \/ \E t \in Thread : Step(t)
  \/ \E tr \in TransitionState : Server(tr) \/ Refuse(tr)

\* Both execute threads and the four servers' threads are scheduled for ever,
\* and a transition function returns.  Nobody has to send goals.
Fairness ==
  /\ \A t \in Thread : WF_vars(Step(t))
  /\ \A tr \in TransitionState : WF_vars(Server(tr))

Spec == Init /\ [][Next]_vars
FairSpec == Spec /\ Fairness
=============================================================================
