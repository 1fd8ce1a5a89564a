-------------------------- MODULE StateMachineProps --------------------------
(***************************************************************************)
(* What must be true of StateMachine.                                      *)
(***************************************************************************)
EXTENDS StateMachine

BothIdle == \A t \in Thread : Idle(t)

Allowed == statePossibleInMode(currentState, currentMode)

\* No interleaving of the two unlocked threads leaves the machine, once both
\* are done, in the middle of a transition or in a state its mode forbids.
Settled == BothIdle /\ ~crashed => currentState \in StableState /\ Allowed

\* A machine at rest that reports SAFE has its hardware shut down, also when
\* the two threads have overwritten each other's states.
SafeMeansOff ==
  BothIdle /\ ~crashed /\ currentState = "SAFE" => device = "SAFE"

\* A thread that waits for a transition always has a goal with its server,
\* even when the other thread has sent that client a goal of its own.
NoLostWakeup ==
  \A tr \in TransitionState :
    client[tr] = "waiting" => tr \in queued \/ server[tr] = "executing"

\* No transition outlives the callback that ran it.
NothingLeftRunning ==
  BothIdle /\ ~crashed
    => queued = {} /\ \A tr \in TransitionState : server[tr] = "idle"

\* The hardware of a machine at rest is where the machine says it is.
DeviceAgrees == BothIdle /\ ~crashed => device = currentState

\* One transition function at a time works on the hardware.
OneTransitionAtATime ==
  \A a, b \in TransitionState : server[a] # "idle" /\ server[b] # "idle" => a = b

\* A change_state callback answers for the hardware: succeeded means it is in
\* the desired state, aborted that it is back where the change started.
AllOrNothing ==
  [][pc["changeState"] = "return" /\ Idle("changeState")' =>
       device = IF answer'["changeState"] = "succeeded"
                THEN desired["changeState"] ELSE entry["changeState"].from]_vars

\* The serial machine keeps the promises of Lifecycle.
LC == INSTANCE Lifecycle WITH state <- currentState, mode <- currentMode
ImplementsLifecycle == LC!Spec

\* A mode that forbids the state is obeyed sooner or later.
ModeIsObeyed == ~Allowed ~> (Allowed \/ crashed)

\* Every goal is answered, unless the process dies.
GoalIsAnswered == \A t \in Thread : ~Idle(t) ~> (Idle(t) \/ crashed)
=============================================================================
