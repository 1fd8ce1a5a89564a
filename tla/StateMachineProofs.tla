------------------------- MODULE StateMachineProofs -------------------------
(***************************************************************************)
(* Proofs about StateMachine, for every set of modes, every set of         *)
(* refusable transitions, concurrent goals or not.                         *)
(***************************************************************************)
EXTENDS StateMachineProps, TLAPS

USE DepthAssumption, ModesAssumption

\* Inside _forceToAllowedState a call is counted, and at rest none is.
DepthInv ==
  \A t \in Thread :
    /\ pc[t] \in {"force", "test", "switch"} => depth[t] > 0
    /\ pc[t] \in {"idle", "return", "setMode"} => depth[t] = 0

InTransition(t) ==
  pc[t] \in {"loop", "send", "wait", "compare", "own", "other"}

\* t still has to find currentState allowed in currentMode before it is done.
MustCheck(t) ==
  \/ pc[t] = "enter" \/ InTransition(t)
  \/ depth[t] > 0 /\ (pc[t] = "test" => seen[t] = currentState)

TypeInv == TypeOK /\ DepthInv

SettleInv ==
  /\ currentState \in TransitionState => \E t \in Thread : InTransition(t)
  /\ ~crashed /\ ~Allowed => \E t \in Thread : MustCheck(t)

LEMMA InitTypeInv == Init => TypeInv
<1> SUFFICES ASSUME Init PROVE TypeInv
  OBVIOUS
<1> USE DEF Init
<1>1. entry \in [Thread -> transitionMap]
  BY DEF transitionMap
<1>2. desired \in [Thread -> State \cup Mode] /\ newState \in [Thread -> State]
      /\ seen \in [Thread -> State] /\ running \in [Thread -> TransitionState]
  BY DEF State, StableState, TransitionState
<1>3. pc \in [Thread -> Location] /\ depth \in [Thread -> 0..MaxDepth]
  BY DEF Location
<1>4. currentState \in State /\ currentMode \in Mode /\ device \in StableState
  BY DEF State, StableState, Mode
<1>5. TypeOK
  BY <1>1, <1>2, <1>3, <1>4 DEF TypeOK
<1>6. DepthInv
  BY DEF DepthInv
<1>7. QED
  BY <1>5, <1>6 DEF TypeInv

LEMMA EntryTypes ==
  ASSUME NEW e \in transitionMap
  PROVE  /\ e.from \in State /\ e.to \in State /\ e.transition \in TransitionState
         /\ e.abortTransition # "NULL" => e.abortTransition \in TransitionState
BY DEF transitionMap, Entry, State, StableState, TransitionState

LEMMA GotoType ==
  ASSUME NEW t \in Thread, NEW from, NEW to \in Location, Goto(t, from, to),
         pc \in [Thread -> Location]
  PROVE  /\ pc' \in [Thread -> Location]
         /\ pc[t] = from /\ pc'[t] = to
         /\ \A u \in Thread \ {t} : pc'[u] = pc[u]
BY DEF Goto

LEMMA StepTypeInv ==
  ASSUME TypeInv, NEW t \in Thread, Step(t)
  PROVE  TypeInv'
<1> USE DEF TypeInv, TypeOK, shared, locals, actions, Goto, Location
<1>0. TransitionState \subseteq State
  BY DEF State
<1>1. CASE SetMode(t)
  <2>1. TypeOK'
    BY <1>1 DEF SetMode, Answer
  <2>2. DepthInv'
    BY <1>1 DEF SetMode, Answer, DepthInv
  <2>3. QED
    BY <2>1, <2>2
<1>2. CASE Lookup(t)
  <2>1. TypeOK'
    BY <1>2 DEF Lookup, ReturnFalse, Answer
  <2>2. DepthInv'
    BY <1>2 DEF Lookup, ReturnFalse, Answer, DepthInv
  <2>3. QED
    BY <2>1, <2>2
<1>3. CASE CheckMode(t)
  <2>1. TypeOK'
    BY <1>3 DEF CheckMode, ReturnFalse, Answer
  <2>2. DepthInv'
    BY <1>3 DEF CheckMode, ReturnFalse, Answer, DepthInv
  <2>3. QED
    BY <2>1, <2>2
<1>4. CASE Enter(t)
  <2>1. TypeOK'
    BY <1>4, EntryTypes, <1>0 DEF Enter, _setState
  <2>2. DepthInv'
    BY <1>4 DEF Enter, _setState, DepthInv
  <2>3. QED
    BY <2>1, <2>2
<1>5. CASE Loop(t)
  <2>1. TypeOK'
    BY <1>5 DEF Loop
  <2>2. DepthInv'
    BY <1>5 DEF Loop, DepthInv
  <2>3. QED
    BY <2>1, <2>2
<1>6. CASE SendGoal(t)
  <2>1. TypeOK'
    BY <1>6 DEF SendGoal
  <2>2. DepthInv'
    BY <1>6 DEF SendGoal, DepthInv
  <2>3. QED
    BY <2>1, <2>2
<1>7. CASE WaitForResult(t)
  <2>1. TypeOK'
    BY <1>7 DEF WaitForResult
  <2>2. DepthInv'
    BY <1>7 DEF WaitForResult, DepthInv
  <2>3. QED
    BY <2>1, <2>2
<1>8. CASE Compare(t)
  <2>1. TypeOK'
    BY <1>8 DEF Compare
  <2>2. DepthInv'
    BY <1>8 DEF Compare, DepthInv
  <2>3. QED
    BY <2>1, <2>2
<1>9. CASE Own(t)
  <2>1. entry[t] \in transitionMap
    OBVIOUS
  <2>2. entry[t].to \in State
        /\ (entry[t].abortTransition # "NULL" => entry[t].abortTransition \in TransitionState)
    BY <2>1, EntryTypes
  <2>3. /\ pc' = [pc EXCEPT ![t] = "loop"] \/ pc' = pc
        /\ UNCHANGED <<currentMode, desired, newState, entry, seen, depth, answer,
                       client, server, queued, device>>
    BY <1>9 DEF Own, _setState
  <2>4. currentState' \in State /\ crashed' \in BOOLEAN
        /\ running' \in [Thread -> TransitionState]
    BY <1>9, <2>2, <1>0 DEF Own, _setState
  <2>5. QED
    BY <2>3, <2>4 DEF DepthInv
<1>10. CASE Other(t)
  <2>1. TypeOK'
    BY <1>10, EntryTypes DEF Other, _setState
  <2>2. DepthInv'
    BY <1>10 DEF Other, _setState, DepthInv
  <2>3. QED
    BY <2>1, <2>2
<1>11. CASE ReadState(t)
  <2>1. TypeOK'
    BY <1>11 DEF ReadState
  <2>2. DepthInv'
    BY <1>11 DEF ReadState, DepthInv
  <2>3. QED
    BY <2>1, <2>2
<1>12. CASE Test(t)
  <2>1. TypeOK'
    BY <1>12 DEF Test, DepthInv
  <2>2. DepthInv'
    BY <1>12 DEF Test, DepthInv
  <2>3. QED
    BY <2>1, <2>2
<1>13. CASE Switch(t)
  <2>1. TypeOK'
    BY <1>13 DEF Switch, State, StableState
  <2>2. DepthInv'
    BY <1>13 DEF Switch, DepthInv
  <2>3. QED
    BY <2>1, <2>2
<1>14. CASE Return(t)
  <2>1. TypeOK'
    BY <1>14 DEF Return, Answer
  <2>2. DepthInv'
    BY <1>14 DEF Return, Answer, DepthInv
  <2>3. QED
    BY <2>1, <2>2
<1>15. QED
  <2> HIDE DEF TypeInv, TypeOK
  <2>1. QED
    BY <1>1, <1>2, <1>3, <1>4, <1>5, <1>6, <1>7, <1>8, <1>9, <1>10, <1>11, <1>12, <1>13, <1>14 DEF Step

LEMMA NextTypeInv == TypeInv /\ [Next]_vars => TypeInv'
<1> SUFFICES ASSUME TypeInv, [Next]_vars PROVE TypeInv'
  OBVIOUS
<1> USE DEF shared, locals, actions
<1>1. CASE UNCHANGED vars
  BY <1>1 DEF vars, TypeInv, TypeOK, DepthInv
<1>2. ASSUME NEW state \in StableState, onChangeStateAction(state) PROVE TypeInv'
  BY <1>2 DEF onChangeStateAction, Goto, Idle, Thread, Location, State, TypeInv, TypeOK, DepthInv
<1>3. ASSUME NEW mode \in Mode, onChangeModeAction(mode) PROVE TypeInv'
  BY <1>3 DEF onChangeModeAction, Goto, Idle, Thread, Location, TypeInv, TypeOK, DepthInv
<1>4. ASSUME NEW tr \in TransitionState, Server(tr) \/ Refuse(tr) PROVE TypeInv'
  BY <1>4 DEF Server, Accept, onTransitionAction, Refuse, Outcome, StableState,
              TypeInv, TypeOK, DepthInv
<1>5. QED
  BY <1>1, <1>2, <1>3, <1>4, StepTypeInv DEF Next, Request

\* Every variable of the machine keeps its type, and _forceToAllowedState is
\* left exactly as often as it is entered.
THEOREM TypeCorrect == Spec => []TypeInv
BY InitTypeInv, NextTypeInv, PTL DEF Spec
-----------------------------------------------------------------------------
\* A step of t leaves the other thread's own variables alone.
OnlyThread(t) ==
  \A u \in Thread \ {t} :
    pc'[u] = pc[u] /\ depth'[u] = depth[u] /\ seen'[u] = seen[u]

LEMMA StepOnlyThread ==
  ASSUME TypeInv, NEW t \in Thread, Step(t)
  PROVE  OnlyThread(t)
<1> USE DEF TypeInv, TypeOK, OnlyThread, locals, Goto
<1>1. CASE SetMode(t)
  BY <1>1 DEF SetMode
<1>2. CASE Lookup(t)
  BY <1>2 DEF Lookup, ReturnFalse
<1>3. CASE CheckMode(t)
  BY <1>3 DEF CheckMode, ReturnFalse
<1>4. CASE Enter(t)
  BY <1>4 DEF Enter
<1>5. CASE Loop(t)
  BY <1>5 DEF Loop
<1>6. CASE SendGoal(t)
  BY <1>6 DEF SendGoal
<1>7. CASE WaitForResult(t)
  BY <1>7 DEF WaitForResult
<1>8. CASE Compare(t)
  BY <1>8 DEF Compare
<1>9. CASE Own(t)
  BY <1>9 DEF Own
<1>10. CASE Other(t)
  BY <1>10 DEF Other
<1>11. CASE ReadState(t)
  BY <1>11 DEF ReadState
<1>12. CASE Test(t)
  BY <1>12 DEF Test
<1>13. CASE Switch(t)
  BY <1>13 DEF Switch
<1>14. CASE Return(t)
  BY <1>14 DEF Return
<1>15. QED
  <2> HIDE DEF TypeInv, TypeOK, OnlyThread
  <2>1. QED
    BY <1>1, <1>2, <1>3, <1>4, <1>5, <1>6, <1>7, <1>8, <1>9, <1>10, <1>11, <1>12, <1>13, <1>14 DEF Step

\* A thread in the middle of a transition is enough.
LEMMA InTransitionSettles ==
  ASSUME NEW t \in Thread, InTransition(t)'
  PROVE  SettleInv'
BY DEF SettleInv, MustCheck

\* A step that writes nothing shared may only drop an obligation when it has
\* found the current state allowed.
LEMMA ReadingSettles ==
  ASSUME TypeInv, SettleInv, NEW t \in Thread, OnlyThread(t), UNCHANGED shared,
         currentState \in TransitionState => (InTransition(t) => InTransition(t)'),
         ~Allowed => (MustCheck(t) => MustCheck(t)')
  PROVE  SettleInv'
<1>1. \A u \in Thread \ {t} : InTransition(u)' = InTransition(u) /\ MustCheck(u)' = MustCheck(u)
  BY DEF OnlyThread, InTransition, MustCheck, shared
<1>2. Allowed' = Allowed
  BY DEF shared, Allowed, statePossibleInMode, modePossibleStates
<1>3. currentState' \in TransitionState => \E u \in Thread : InTransition(u)'
  BY <1>1 DEF SettleInv, shared
<1>4. ~crashed' /\ ~Allowed' => \E u \in Thread : MustCheck(u)'
  BY <1>1, <1>2 DEF SettleInv, shared
<1>5. QED
  BY <1>3, <1>4 DEF SettleInv

LEMMA StepSettleInv ==
  ASSUME TypeInv, SettleInv, NEW t \in Thread, Step(t)
  PROVE  SettleInv'
<1>0. OnlyThread(t)
  BY StepOnlyThread
<1> USE DEF Goto
<1>a. pc \in [Thread -> Location] /\ depth \in [Thread -> 0..MaxDepth]
      /\ seen \in [Thread -> State] /\ DepthInv
  BY DEF TypeInv, TypeOK
<1>1. CASE SetMode(t)
  <2>1. CASE desired[t] \in modes
    <3>0. pc[t] = "setMode" /\ pc' = [pc EXCEPT ![t] = "force"]
          /\ depth' = [depth EXCEPT ![t] = 1] /\ UNCHANGED currentState
      BY <1>1, <2>1 DEF SetMode
    <3>1. MustCheck(t)' /\ UNCHANGED currentState /\ ~InTransition(t)
      BY <1>a, <3>0 DEF MustCheck, InTransition
    <3>2. \A u \in Thread \ {t} : InTransition(u)' = InTransition(u)
      BY <1>0 DEF OnlyThread, InTransition
    <3>3. QED
      BY <3>1, <3>2 DEF SettleInv
  <2>2. CASE desired[t] \notin modes
    <3>0. pc[t] = "setMode" /\ UNCHANGED shared
      BY <1>1, <2>2 DEF SetMode
    <3>1. UNCHANGED shared /\ ~InTransition(t) /\ ~MustCheck(t)
      BY <1>a, <3>0 DEF MustCheck, InTransition, DepthInv
    <3>2. QED
      BY <1>0, <3>1, ReadingSettles
  <2>3. QED
    BY <2>1, <2>2
<1>2. CASE Lookup(t)
  <2>1. UNCHANGED shared /\ ~InTransition(t) /\ (MustCheck(t) => MustCheck(t)')
    BY <1>2, <1>a DEF Lookup, ReturnFalse, MustCheck, InTransition, DepthInv, shared
  <2>2. QED
    BY <1>0, <2>1, ReadingSettles
<1>3. CASE CheckMode(t)
  <2>1. UNCHANGED shared /\ ~InTransition(t) /\ (MustCheck(t) => MustCheck(t)')
    BY <1>3, <1>a DEF CheckMode, ReturnFalse, MustCheck, InTransition, DepthInv, shared
  <2>2. QED
    BY <1>0, <2>1, ReadingSettles
<1>4. CASE Enter(t)
  <2>1. InTransition(t)'
    BY <1>4, <1>a DEF Enter, InTransition
  <2>2. QED
    BY <2>1, InTransitionSettles
<1>5. CASE Loop(t)
  <2>1. CASE currentState \in TransitionState
    <3>1. InTransition(t)'
      BY <1>5, <1>a, <2>1 DEF Loop, InTransition
    <3>2. QED
      BY <3>1, InTransitionSettles
  <2>2. CASE currentState \notin TransitionState
    <3>1. UNCHANGED shared /\ MustCheck(t)'
      BY <1>5, <1>a, <2>2 DEF Loop, MustCheck
    <3>2. QED
      BY <1>0, <2>2, <3>1, ReadingSettles
  <2>3. QED
    BY <2>1, <2>2
<1>6. CASE SendGoal(t)
  <2>1. InTransition(t)'
    BY <1>6, <1>a DEF SendGoal, InTransition
  <2>2. QED
    BY <2>1, InTransitionSettles
<1>7. CASE WaitForResult(t)
  <2>1. InTransition(t)'
    BY <1>7, <1>a DEF WaitForResult, InTransition
  <2>2. QED
    BY <2>1, InTransitionSettles
<1>8. CASE Compare(t)
  <2>1. InTransition(t)'
    BY <1>8, <1>a DEF Compare, InTransition
  <2>2. QED
    BY <2>1, InTransitionSettles
<1>9. CASE Own(t)
  <2>1. InTransition(t)'
    BY <1>9, <1>a DEF Own, InTransition
  <2>2. QED
    BY <2>1, InTransitionSettles
<1>10. CASE Other(t)
  <2>1. InTransition(t)'
    BY <1>10, <1>a DEF Other, InTransition
  <2>2. QED
    BY <2>1, InTransitionSettles
<1>11. CASE ReadState(t)
  <2>1. UNCHANGED shared /\ ~InTransition(t) /\ (MustCheck(t) => MustCheck(t)')
    BY <1>11, <1>a DEF ReadState, MustCheck, InTransition, DepthInv, shared
  <2>2. QED
    BY <1>0, <2>1, ReadingSettles
<1>12. CASE Test(t)
  <2>1. CASE statePossibleInMode(seen[t], currentMode)
    <3>1. UNCHANGED shared /\ ~InTransition(t) /\ (MustCheck(t) => seen[t] = currentState)
      BY <1>12, <1>a, <2>1 DEF Test, MustCheck, InTransition, DepthInv
    <3>2. ~Allowed => ~MustCheck(t)
      BY <2>1, <3>1 DEF Allowed
    <3>3. QED
      BY <1>0, <3>1, <3>2, ReadingSettles
  <2>2. CASE ~statePossibleInMode(seen[t], currentMode)
    <3>1. UNCHANGED shared /\ ~InTransition(t) /\ (MustCheck(t) => MustCheck(t)')
      BY <1>12, <1>a, <2>2 DEF Test, MustCheck, InTransition, DepthInv, shared, locals
    <3>2. QED
      BY <1>0, <3>1, ReadingSettles
  <2>3. QED
    BY <2>1, <2>2
<1>13. CASE Switch(t)
  <2>1. UNCHANGED shared /\ ~InTransition(t) /\ (MustCheck(t) => MustCheck(t)')
    BY <1>13, <1>a DEF Switch, MustCheck, InTransition, DepthInv, shared
  <2>2. QED
    BY <1>0, <2>1, ReadingSettles
<1>14. CASE Return(t)
  <2>1. UNCHANGED shared /\ ~InTransition(t) /\ (MustCheck(t) => MustCheck(t)')
    BY <1>14, <1>a DEF Return, locals, MustCheck, InTransition, DepthInv, shared
  <2>2. QED
    BY <1>0, <2>1, ReadingSettles
<1>15. QED
  BY <1>1, <1>2, <1>3, <1>4, <1>5, <1>6, <1>7, <1>8, <1>9, <1>10, <1>11, <1>12, <1>13, <1>14 DEF Step

\* Whenever the state is not allowed in the mode some thread has yet to find
\* that out, and whenever it is a transition's some thread is inside one.
LEMMA NextSettleInv == TypeInv /\ SettleInv /\ [Next]_vars => SettleInv'
<1> SUFFICES ASSUME TypeInv, SettleInv, [Next]_vars PROVE SettleInv'
  OBVIOUS
<1>1. CASE UNCHANGED <<shared, pc, depth, seen>>
  BY <1>1 DEF shared, SettleInv, InTransition, MustCheck, Allowed, statePossibleInMode,
              modePossibleStates
<1>2. ASSUME NEW t \in Thread, pc[t] = "idle", OnlyThread(t), UNCHANGED <<shared, depth, seen>>
      PROVE  SettleInv'
  <2>1. ~InTransition(t) /\ ~MustCheck(t)
    BY <1>2 DEF InTransition, MustCheck, TypeInv, DepthInv
  <2>2. QED
    BY <1>2, <2>1, ReadingSettles
<1>3. ASSUME NEW state \in StableState, onChangeStateAction(state) PROVE SettleInv'
  <2>1. pc["changeState"] = "idle" /\ OnlyThread("changeState") /\ UNCHANGED <<shared, depth, seen>>
    BY <1>3 DEF onChangeStateAction, Goto, OnlyThread, TypeInv, TypeOK, Thread
  <2>2. QED
    BY <1>2, <2>1 DEF Thread
<1>4. ASSUME NEW mode \in Mode, onChangeModeAction(mode) PROVE SettleInv'
  <2>1. pc["changeMode"] = "idle" /\ OnlyThread("changeMode") /\ UNCHANGED <<shared, depth, seen>>
    BY <1>4 DEF onChangeModeAction, Goto, OnlyThread, TypeInv, TypeOK, Thread
  <2>2. QED
    BY <1>2, <2>1 DEF Thread
<1>5. ASSUME NEW tr \in TransitionState, Server(tr) \/ Refuse(tr) PROVE SettleInv'
  BY <1>1, <1>5 DEF Server, Accept, onTransitionAction, Refuse, locals
<1>6. CASE UNCHANGED vars
  BY <1>1, <1>6 DEF vars, locals
<1>7. QED
  BY <1>3, <1>4, <1>5, <1>6, StepSettleInv DEF Next, Request

\* However the two unlocked threads interleave, the machine they leave behind
\* is in a stable state that its mode allows.
THEOREM SettledCorrect == Spec => []Settled
<1>1. Init => SettleInv
  BY DEF Init, SettleInv, TransitionState, Allowed, statePossibleInMode, modePossibleStates,
         State, StableState
<1>2. TypeInv /\ SettleInv => Settled
  BY DEF TypeInv, TypeOK, DepthInv, SettleInv, Settled, BothIdle, Idle, InTransition,
         MustCheck, State
<1>3. QED
  BY <1>1, <1>2, TypeCorrect, NextSettleInv, PTL DEF Spec
-----------------------------------------------------------------------------
LEMMA NextNoLostWakeup == TypeInv /\ NoLostWakeup /\ [Next]_vars => NoLostWakeup'
<1> SUFFICES ASSUME TypeInv, NoLostWakeup, [Next]_vars PROVE NoLostWakeup'
  OBVIOUS
<1>0. client \in [TransitionState -> {"none", "waiting", "succeeded", "failed"}]
      /\ server \in [TransitionState -> {"idle", "executing", "superseded"}]
      /\ running \in [Thread -> TransitionState]
  BY DEF TypeInv, TypeOK
<1>1. CASE UNCHANGED actions
  BY <1>1 DEF actions, NoLostWakeup
<1>2. ASSUME NEW t \in Thread, SendGoal(t) PROVE NoLostWakeup'
  BY <1>0, <1>2 DEF SendGoal, NoLostWakeup
<1>3. ASSUME NEW t \in Thread, Step(t), ~SendGoal(t) PROVE UNCHANGED actions
  BY <1>3 DEF Step, SetMode, Lookup, CheckMode, Enter, Loop, WaitForResult, Compare, Own,
              Other, ReadState, Test, Switch, Return
<1>4. ASSUME NEW tr \in TransitionState, Server(tr) \/ Refuse(tr) PROVE NoLostWakeup'
  <2>1. CASE Accept(tr)
    BY <1>0, <2>1 DEF Accept, NoLostWakeup
  <2>2. CASE onTransitionAction(tr)
    BY <1>0, <2>2 DEF onTransitionAction, NoLostWakeup
  <2>3. CASE Refuse(tr)
    BY <1>0, <2>3 DEF Refuse, NoLostWakeup
  <2>4. QED
    BY <1>4, <2>1, <2>2, <2>3 DEF Server
<1>5. ASSUME Request PROVE UNCHANGED actions
  BY <1>5 DEF Request, onChangeStateAction, onChangeModeAction
<1>6. CASE UNCHANGED vars
  BY <1>1, <1>6 DEF vars
<1>7. QED
  BY <1>1, <1>2, <1>3, <1>4, <1>5, <1>6 DEF Next

\* A thread that shares its action client with the other one is still woken:
\* every awaited goal is on its way to the server or executed by it.
THEOREM NoLostWakeupCorrect == Spec => []NoLostWakeup
<1>1. Init => NoLostWakeup
  BY DEF Init, NoLostWakeup
<1>2. QED
  BY <1>1, TypeCorrect, NextNoLostWakeup, PTL DEF Spec
-----------------------------------------------------------------------------
Outside == {"idle", "setMode", "lookup", "check", "enter", "force", "test", "switch", "return"}

\* With one goal at a time, what the thread at work knows of the shared state.
AtMostOneBusy == \A t, u \in Thread : ~Idle(t) /\ ~Idle(u) => t = u

Knows(t) ==
  /\ pc[t] \in Outside \ {"idle"} => currentState \in StableState
  /\ pc[t] \in {"check", "enter"} => entry[t].from = currentState
  /\ pc[t] = "enter" => statePossibleInMode(entry[t].transition, currentMode)
  /\ pc[t] \in {"send", "wait", "compare"} => currentState \in TransitionState
  /\ InTransition(t) /\ currentState \in TransitionState =>
       currentState \in {entry[t].transition, entry[t].abortTransition}
  /\ pc[t] = "own" => currentState = entry[t].transition
  /\ pc[t] = "other" => currentState = entry[t].abortTransition

SerialInv ==
  /\ AtMostOneBusy
  /\ BothIdle => currentState \in StableState
  /\ \A t \in Thread : Knows(t)

LEMMA EntryShape ==
  ASSUME NEW e \in transitionMap
  PROVE  \/ e = Entry("SAFE", "STANDBY", "SETUP", "SHUTDOWN")
         \/ e = Entry("STANDBY", "SAFE", "SHUTDOWN", "NULL")
         \/ e = Entry("STANDBY", "NORMAL", "START", "STOP")
         \/ e = Entry("NORMAL", "STANDBY", "STOP", "NULL")
BY DEF transitionMap

\* A busy thread's step leaves the other one idle.
LEMMA SerialStep ==
  ASSUME TypeInv, SerialInv, NEW t \in Thread, OnlyThread(t), ~Idle(t), Knows(t)',
         Idle(t)' => currentState' \in StableState
  PROVE  SerialInv'
<1>1. \A u \in Thread \ {t} : Idle(u) /\ Idle(u)'
  BY DEF SerialInv, AtMostOneBusy, OnlyThread, Idle
<1>2. AtMostOneBusy' /\ (BothIdle => currentState \in StableState)'
  BY <1>1 DEF AtMostOneBusy, BothIdle
<1>3. \A u \in Thread \ {t} : Knows(u)'
  BY <1>1 DEF Knows, Idle, InTransition, Outside
<1>4. QED
  BY <1>2, <1>3 DEF SerialInv

LEMMA StepSerial ==
  ASSUME TypeInv, SerialInv, NEW t \in Thread, Step(t)
  PROVE  SerialInv' /\ [LC!Next]_<<currentState, currentMode>>
<1> DEFINE Quiet == UNCHANGED <<currentState, currentMode>>
<1>0. OnlyThread(t) /\ Knows(t)
  BY StepOnlyThread DEF SerialInv
<1>a. /\ pc \in [Thread -> Location] /\ entry \in [Thread -> transitionMap]
      /\ running \in [Thread -> TransitionState] /\ depth \in [Thread -> 0..MaxDepth]
      /\ currentState \in State
  BY DEF TypeInv, TypeOK
<1>b. entry[t] \in transitionMap
  BY <1>a
<1>c. ASSUME ~Idle(t), Knows(t)', Idle(t)' => currentState' \in StableState
      PROVE  SerialInv'
  BY <1>0, <1>c, SerialStep
<1> USE DEF Goto, Idle
<1>1. CASE SetMode(t)
  <2>1. pc[t] = "setMode" /\ pc'[t] \in {"force", "idle"} /\ UNCHANGED currentState
    BY <1>1, <1>a DEF SetMode, shared
  <2>2. currentState \in StableState
    BY <1>0, <2>1 DEF Knows, Outside
  <2>3. SerialInv'
    BY <1>c, <2>1, <2>2 DEF Knows, InTransition, Outside
  <2>4. Quiet \/ currentMode' \in modes
    BY <1>1 DEF SetMode, shared
  <2>5. QED
    BY <2>1, <2>2, <2>3, <2>4 DEF LC!Next, LC!ChangeMode, LC!Stable, StableState
<1>2. CASE Lookup(t)
  <2>1. /\ pc[t] = "lookup" /\ UNCHANGED shared
        /\ \/ pc'[t] = "check" /\ entry'[t].from = currentState
           \/ pc'[t] \in {"force", "idle"}
    BY <1>2, <1>a DEF Lookup, ReturnFalse
  <2>2. currentState \in StableState
    BY <1>0, <2>1 DEF Knows, Outside
  <2>3. QED
    BY <1>c, <2>1, <2>2 DEF Knows, InTransition, Outside, shared
<1>3. CASE CheckMode(t)
  <2>1. /\ pc[t] = "check" /\ UNCHANGED <<shared, entry>>
        /\ \/ pc'[t] = "enter" /\ statePossibleInMode(entry[t].transition, currentMode)
           \/ pc'[t] \in {"force", "idle"}
    BY <1>3, <1>a DEF CheckMode, ReturnFalse
  <2>2. currentState \in StableState /\ entry[t].from = currentState
    BY <1>0, <2>1 DEF Knows, Outside
  <2>3. statePossibleInMode(entry[t].transition, currentMode) =>
          statePossibleInMode(entry[t].transition, currentMode)'
    BY <2>1 DEF shared, statePossibleInMode, modePossibleStates
  <2>4. QED
    BY <1>c, <2>1, <2>2, <2>3 DEF Knows, InTransition, Outside, shared
<1>4. CASE Enter(t)
  <2>1. /\ pc[t] = "enter" /\ pc'[t] = "loop" /\ currentState' = entry[t].transition
        /\ UNCHANGED <<currentMode, entry>>
    BY <1>4, <1>a DEF Enter, _setState
  <2>2. entry[t].from = currentState /\ statePossibleInMode(entry[t].transition, currentMode)
    BY <1>0, <2>1 DEF Knows
  <2>3. SerialInv'
    BY <1>c, <2>1 DEF Knows, InTransition, Outside
  <2>4. LC!Begin
    BY <2>1, <2>2, <1>b, EntryShape
       DEF LC!Begin, LC!Move, LC!Possible, LC!Stable, Entry, statePossibleInMode,
           modePossibleStates, State, StableState, TransitionState
  <2>5. QED
    BY <2>3, <2>4 DEF LC!Next
<1>5. CASE Loop(t)
  <2>1. /\ pc[t] = "loop" /\ UNCHANGED <<shared, entry>>
        /\ \/ pc'[t] = "send" /\ currentState \in TransitionState
           \/ pc'[t] = "force" /\ currentState \notin TransitionState
    BY <1>5, <1>a DEF Loop, locals
  <2>2. QED
    BY <1>0, <1>a, <1>c, <2>1 DEF Knows, InTransition, Outside, shared, State
<1>6. CASE SendGoal(t) \/ WaitForResult(t)
  <2>1. /\ pc[t] \in {"send", "wait"} /\ pc'[t] \in {"wait", "compare"}
        /\ UNCHANGED <<shared, entry>>
    BY <1>6, <1>a DEF SendGoal, WaitForResult, locals
  <2>2. QED
    BY <1>0, <1>c, <2>1 DEF Knows, InTransition, Outside, shared
<1>7. CASE Compare(t)
  <2>1. /\ pc[t] = "compare" /\ UNCHANGED <<shared, entry>>
        /\ \/ pc'[t] = "own" /\ currentState = entry[t].transition
           \/ pc'[t] = "other" /\ currentState # entry[t].transition
    BY <1>7, <1>a DEF Compare, locals
  <2>2. QED
    BY <1>0, <1>c, <2>1 DEF Knows, InTransition, Outside, shared
<1>8. CASE Own(t)
  <2>1. /\ pc[t] = "own" /\ UNCHANGED <<currentMode, entry>>
        /\ \/ pc'[t] = "loop" /\ currentState' = entry[t].to
           \/ /\ pc'[t] = "loop" /\ currentState' = entry[t].abortTransition
              /\ entry[t].abortTransition # "NULL"
           \/ pc'[t] = "own" /\ UNCHANGED currentState
    BY <1>8, <1>a DEF Own, _setState
  <2>2. currentState = entry[t].transition
    BY <1>0, <2>1 DEF Knows
  <2>3. entry[t].to \notin TransitionState
    BY <1>b, EntryShape DEF Entry, TransitionState
  <2>4. SerialInv'
    BY <1>c, <2>1, <2>2, <2>3 DEF Knows, InTransition, Outside
  <2>5. LC!Finish \/ LC!Abort \/ Quiet
    BY <2>1, <2>2, <1>b, EntryShape DEF LC!Finish, LC!Abort, LC!Move, Entry
  <2>6. QED
    BY <2>4, <2>5 DEF LC!Next
<1>9. CASE Other(t)
  <2>1. /\ pc[t] = "other" /\ pc'[t] = "loop" /\ currentState' = entry[t].from
        /\ UNCHANGED <<currentMode, entry>>
    BY <1>9, <1>a DEF Other, _setState, locals
  <2>2. currentState = entry[t].abortTransition
    BY <1>0, <2>1 DEF Knows
  <2>3. entry[t].from \notin TransitionState
    BY <1>b, EntryShape DEF Entry, TransitionState
  <2>4. SerialInv'
    BY <1>c, <2>1, <2>3 DEF Knows, InTransition, Outside
  <2>5. currentState # "NULL"
    BY <1>a DEF State, StableState, TransitionState
  <2>6. LC!Finish
    BY <2>1, <2>2, <2>5, <1>b, EntryShape DEF LC!Finish, LC!Move, Entry
  <2>7. QED
    BY <2>4, <2>6 DEF LC!Next
<1>10. CASE ReadState(t) \/ Test(t) \/ Switch(t) \/ Return(t)
  <2>1. /\ pc[t] \in {"force", "test", "switch", "return"}
        /\ pc'[t] \in {"test", "switch", "lookup", "force", "return", "idle"}
        /\ UNCHANGED <<shared, entry>>
    BY <1>10, <1>a DEF ReadState, Test, Switch, Return, locals
  <2>2. currentState \in StableState
    BY <1>0, <2>1 DEF Knows, Outside
  <2>3. QED
    BY <1>c, <2>1, <2>2 DEF Knows, InTransition, Outside, shared
<1>11. QED
  BY <1>1, <1>2, <1>3, <1>4, <1>5, <1>6, <1>7, <1>8, <1>9, <1>10 DEF Step

LEMMA NextSerial ==
  ASSUME Concurrent = FALSE
  PROVE  TypeInv /\ SerialInv /\ [Next]_vars =>
           SerialInv' /\ [LC!Next]_<<currentState, currentMode>>
<1> SUFFICES ASSUME TypeInv, SerialInv, [Next]_vars
             PROVE  SerialInv' /\ [LC!Next]_<<currentState, currentMode>>
  OBVIOUS
<1>1. ASSUME NEW t \in Thread, BothIdle, OnlyThread(t), pc'[t] \in {"lookup", "setMode"},
             UNCHANGED <<shared, entry>>
      PROVE  SerialInv'
  <2>1. currentState \in StableState
    BY <1>1 DEF SerialInv
  <2>2. \A u \in Thread \ {t} : Idle(u)'
    BY <1>1 DEF BothIdle, Idle, OnlyThread
  <2>3. Knows(t)' /\ ~Idle(t)'
    BY <1>1, <2>1 DEF Knows, Idle, InTransition, Outside, shared
  <2>4. \A u \in Thread \ {t} : Knows(u)'
    BY <2>2 DEF Knows, Idle, InTransition, Outside
  <2>5. AtMostOneBusy' /\ ~BothIdle'
    BY <2>2, <2>3 DEF AtMostOneBusy, BothIdle
  <2>6. QED
    BY <2>3, <2>4, <2>5 DEF SerialInv
<1>2. ASSUME NEW state \in StableState, onChangeStateAction(state) PROVE SerialInv' /\ UNCHANGED shared
  <2>1. /\ BothIdle /\ OnlyThread("changeState") /\ pc'["changeState"] = "lookup"
        /\ UNCHANGED <<shared, entry>>
    BY <1>2 DEF onChangeStateAction, Goto, OnlyThread, TypeInv, TypeOK, Thread, BothIdle
  <2>2. QED
    BY <1>1, <2>1 DEF Thread
<1>3. ASSUME NEW mode \in Mode, onChangeModeAction(mode) PROVE SerialInv' /\ UNCHANGED shared
  <2>1. /\ BothIdle /\ OnlyThread("changeMode") /\ pc'["changeMode"] = "setMode"
        /\ UNCHANGED <<shared, entry>>
    BY <1>3 DEF onChangeModeAction, Goto, OnlyThread, TypeInv, TypeOK, Thread, BothIdle
  <2>2. QED
    BY <1>1, <2>1 DEF Thread
<1>4. CASE UNCHANGED <<shared, pc, entry>>
  <2>1. \A t \in Thread : Knows(t)'
    BY <1>4 DEF SerialInv, Knows, InTransition, Outside, shared, statePossibleInMode,
                modePossibleStates
  <2>2. AtMostOneBusy' /\ (BothIdle => currentState \in StableState)'
    BY <1>4 DEF SerialInv, AtMostOneBusy, BothIdle, Idle, shared
  <2>3. QED
    BY <1>4, <2>1, <2>2 DEF SerialInv, shared
<1>5. ASSUME NEW tr \in TransitionState, Server(tr) \/ Refuse(tr)
      PROVE  UNCHANGED <<shared, pc, entry>>
  BY <1>5 DEF Server, Accept, onTransitionAction, Refuse, locals
<1>6. CASE UNCHANGED vars
  BY <1>4, <1>6 DEF vars, locals
<1>7. QED
  BY <1>2, <1>3, <1>4, <1>5, <1>6, StepSerial DEF Next, Request, shared

\* A machine that is sent one goal at a time keeps Lifecycle's promises: the
\* arrows of transitionMap, modes that hold through a transition, and a
\* failed transition's way back.
THEOREM SerialImplementsLifecycle ==
  ASSUME Concurrent = FALSE
  PROVE  Spec => ImplementsLifecycle
<1>1. Init => LC!Init /\ SerialInv
  BY DEF Init, LC!Init, SerialInv, AtMostOneBusy, BothIdle, Idle, Knows, InTransition,
         Outside, StableState
<1>2. QED
  BY <1>1, TypeCorrect, NextSerial, PTL DEF Spec, ImplementsLifecycle, LC!Spec
-----------------------------------------------------------------------------
\* A goal that is queued or executed has a thread that waits for it.
Pending(tr) == tr \in queued \/ server[tr] # "idle"
WaitsFor(t, tr) == pc[t] = "wait" /\ running[t] = tr

WorkInv ==
  \A tr \in TransitionState :
    /\ Pending(tr) => client[tr] = "waiting" /\ \E t \in Thread : WaitsFor(t, tr)
    /\ server[tr] = "executing" => tr \notin queued
    /\ server[tr] = "superseded" => tr \in queued

Calm == \A tr \in TransitionState : server[tr] # "superseded"

\* Only SendGoal and WaitForResult change who waits, only SendGoal the servers.
LEMMA OtherStepsLetWait ==
  ASSUME TypeInv, NEW t \in Thread, Step(t), ~SendGoal(t)
  PROVE  /\ UNCHANGED actions
         /\ ~WaitForResult(t) => \A u \in Thread : pc[u] = "wait" =>
                                    pc'[u] = "wait" /\ running'[u] = running[u]
         /\ WaitForResult(t) => /\ pc[t] = "wait" /\ client[running[t]] # "waiting"
                                /\ pc' = [pc EXCEPT ![t] = "compare"] /\ UNCHANGED running
<1>1. UNCHANGED actions
  BY DEF Step, SetMode, Lookup, CheckMode, Enter, Loop, WaitForResult, Compare, Own,
         Other, ReadState, Test, Switch, Return
<1>2. CASE WaitForResult(t)
  BY <1>1, <1>2 DEF WaitForResult, Goto, locals
<1>3. CASE ~WaitForResult(t)
  <2>1. pc[t] # "wait" /\ \A u \in Thread \ {t} : running'[u] = running[u]
    BY <1>3 DEF Step, SetMode, Lookup, CheckMode, Enter, Loop, Compare, Own, Other, ReadState,
                Test, Switch, Return, ReturnFalse, Goto, locals, TypeInv, TypeOK
  <2>2. \A u \in Thread \ {t} : pc'[u] = pc[u]
    BY StepOnlyThread DEF OnlyThread
  <2>3. QED
    BY <1>1, <1>3, <2>1, <2>2
<1>4. QED
  BY <1>2, <1>3

LEMMA SendGoalWork ==
  ASSUME TypeInv, WorkInv, NEW t \in Thread, SendGoal(t) PROVE WorkInv'
<1> DEFINE sent == running[t]
<1>0. sent \in TransitionState
  BY DEF TypeInv, TypeOK
<1>1. /\ pc[t] = "send" /\ pc' = [pc EXCEPT ![t] = "wait"] /\ UNCHANGED running
      /\ client' = [client EXCEPT ![sent] = "waiting"]
      /\ server' = [server EXCEPT ![sent] = IF @ = "idle" THEN "idle" ELSE "superseded"]
      /\ queued' = queued \cup {sent}
  BY DEF SendGoal, Goto, locals
<1>2. /\ pc'[t] = "wait" /\ running'[t] = sent
      /\ \A u \in Thread : pc[u] = "wait" => pc'[u] = "wait" /\ running'[u] = running[u]
  BY <1>1 DEF TypeInv, TypeOK
<1>3. client'[sent] = "waiting" /\ sent \in queued' /\ server'[sent] # "executing"
  BY <1>0, <1>1 DEF TypeInv, TypeOK
<1>4. \A tr \in TransitionState \ {sent} :
        /\ client'[tr] = client[tr] /\ server'[tr] = server[tr]
        /\ tr \in queued' <=> tr \in queued
  BY <1>1 DEF TypeInv, TypeOK
<1> HIDE DEF sent
<1>5. QED
  BY <1>2, <1>3, <1>4 DEF WorkInv, Pending, WaitsFor

LEMMA ServerWork ==
  ASSUME TypeInv, WorkInv, Refusable = {} \/ Calm, NEW tr \in TransitionState,
         Server(tr) \/ Refuse(tr)
  PROVE  WorkInv' /\ (Calm => Calm')
<1>0. /\ \A u \in Thread : \A a : WaitsFor(u, a) => WaitsFor(u, a)'
      /\ \A a \in TransitionState \ {tr} :
           client'[a] = client[a] /\ server'[a] = server[a] /\ (a \in queued' <=> a \in queued)
  BY DEF Server, Accept, onTransitionAction, Refuse, WaitsFor, locals, TypeInv, TypeOK
<1>1. SUFFICES /\ Pending(tr)' => client'[tr] = "waiting" /\ Pending(tr)
               /\ server'[tr] = "executing" => tr \notin queued'
               /\ server'[tr] = "superseded" => tr \in queued' /\ server[tr] = "superseded"
  BY <1>0 DEF WorkInv, Pending, Calm
<1>2. CASE Accept(tr)
  BY <1>2 DEF Accept, WorkInv, Pending, TypeInv, TypeOK
<1>3. CASE onTransitionAction(tr)
  BY <1>3 DEF onTransitionAction, WorkInv, Pending, TypeInv, TypeOK
<1>4. CASE Refuse(tr)
  <2>1. server[tr] = "idle" /\ UNCHANGED server /\ tr \notin queued'
    BY <1>4 DEF Refuse, WorkInv, Calm, TypeInv, TypeOK
  <2>2. QED
    BY <2>1 DEF Pending
<1>5. QED
  BY <1>2, <1>3, <1>4 DEF Server

LEMMA NextWork ==
  TypeInv /\ WorkInv /\ (Refusable = {} \/ Calm) /\ [Next]_vars => WorkInv'
<1> SUFFICES ASSUME TypeInv, WorkInv, Refusable = {} \/ Calm, [Next]_vars PROVE WorkInv'
  OBVIOUS
<1>1. ASSUME UNCHANGED actions, \A tr \in TransitionState : \A u \in Thread :
               client[tr] = "waiting" /\ WaitsFor(u, tr) => WaitsFor(u, tr)'
      PROVE  WorkInv'
  BY <1>1 DEF actions, WorkInv, Pending
<1>2. ASSUME NEW t \in Thread, Step(t), ~SendGoal(t) PROVE WorkInv'
  BY <1>1, <1>2, OtherStepsLetWait DEF WaitsFor, TypeInv, TypeOK
<1>3. ASSUME Request PROVE WorkInv'
  <2>1. UNCHANGED <<actions, running>> /\ \A u \in Thread : pc[u] = "wait" => pc'[u] = "wait"
    BY <1>3 DEF Request, onChangeStateAction, onChangeModeAction, Goto, TypeInv, TypeOK
  <2>2. QED
    BY <1>1, <2>1 DEF WaitsFor
<1>4. CASE UNCHANGED vars
  BY <1>1, <1>4 DEF vars, locals, WaitsFor
<1>5. QED
  BY <1>2, <1>3, <1>4, SendGoalWork, ServerWork DEF Next

\* One goal at a time: no goal of a client replaces another.
LEMMA NextCalm ==
  TypeInv /\ SerialInv /\ WorkInv /\ Calm /\ [Next]_vars => Calm'
<1> SUFFICES ASSUME TypeInv, SerialInv, WorkInv, Calm, [Next]_vars PROVE Calm'
  OBVIOUS
<1>1. ASSUME NEW t \in Thread, SendGoal(t) PROVE Calm'
  <2>1. pc[t] = "send" /\ running[t] \in TransitionState
    BY <1>1 DEF SendGoal, Goto, TypeInv, TypeOK
  <2>2. ~Pending(running[t])
    BY <2>1 DEF WorkInv, WaitsFor, SerialInv, AtMostOneBusy, Idle
  <2>3. QED
    BY <1>1, <2>1, <2>2 DEF SendGoal, Pending, Calm, TypeInv, TypeOK
<1>2. ASSUME NEW t \in Thread, Step(t), ~SendGoal(t) PROVE Calm'
  BY <1>2, OtherStepsLetWait DEF actions, Calm
<1>3. CASE Request \/ UNCHANGED vars
  BY <1>3 DEF Request, onChangeStateAction, onChangeModeAction, vars, actions, Calm
<1>4. QED
  BY <1>1, <1>2, <1>3, ServerWork DEF Next

LEMMA InitWork == Init => WorkInv /\ Calm
BY DEF Init, WorkInv, Calm, Pending

\* What is invariant of a machine that is sent one goal at a time.
LEMMA SerialCorrect ==
  ASSUME Concurrent = FALSE
  PROVE  Spec => [](TypeInv /\ SerialInv /\ WorkInv /\ Calm)
<1>1. Init => SerialInv
  BY DEF Init, SerialInv, AtMostOneBusy, BothIdle, Idle, Knows, InTransition, Outside, StableState
<1>2. Init => TypeInv /\ SerialInv /\ WorkInv /\ Calm
  BY <1>1, InitTypeInv, InitWork
<1>3. TypeInv /\ SerialInv /\ WorkInv /\ Calm /\ [Next]_vars
        => (TypeInv /\ SerialInv /\ WorkInv /\ Calm)'
  BY NextTypeInv, NextSerial, NextWork, NextCalm
<1>4. QED
  BY <1>2, <1>3, PTL DEF Spec

\* No transition outlives the callback that ran it, as long as actionlib ends no
\* goal unexecuted, or goals are sent one after another.
THEOREM NothingLeftRunningCorrect ==
  ASSUME Refusable = {} \/ Concurrent = FALSE
  PROVE  Spec => []NothingLeftRunning
<1>1. TypeInv /\ WorkInv => NothingLeftRunning
  BY DEF TypeInv, TypeOK, WorkInv, Pending, WaitsFor, NothingLeftRunning, BothIdle, Idle
<1>2. CASE Concurrent = FALSE
  BY <1>1, <1>2, SerialCorrect, PTL
<1>3. CASE Refusable = {}
  <2>1. TypeInv /\ WorkInv /\ [Next]_vars => (TypeInv /\ WorkInv)'
    BY <1>3, NextTypeInv, NextWork
  <2>2. QED
    BY <1>1, <2>1, InitTypeInv, InitWork, PTL DEF Spec
<1>4. QED
  BY <1>2, <1>3

\* One transition function at a time works on the hardware of a machine that is
\* sent one goal at a time, whatever actionlib refuses.
THEOREM OneTransitionCorrect ==
  ASSUME Concurrent = FALSE PROVE Spec => []OneTransitionAtATime
<1>1. TypeInv /\ SerialInv /\ WorkInv => OneTransitionAtATime
  BY DEF SerialInv, AtMostOneBusy, Idle, WorkInv, Pending, WaitsFor, OneTransitionAtATime
<1>2. QED
  BY <1>1, SerialCorrect, PTL
-----------------------------------------------------------------------------
\* Where the hardware is while t runs a transition: where the change started,
\* until the transition that runs has succeeded.
DeviceIn(t) ==
  /\ running[t] = currentState
  /\ device = IF pc[t] \notin {"loop", "send"} /\ client[running[t]] = "succeeded"
              THEN Outcome(running[t]) ELSE entry[t].from

DeviceInv ==
  /\ currentState \in StableState => device = currentState
  /\ \A t \in Thread : InTransition(t) /\ currentState \in TransitionState => DeviceIn(t)

\* An arrow of transitionMap leads where its transition brings the hardware, and
\* its abort transition back.
LEMMA EntryOutcome ==
  ASSUME NEW e \in transitionMap
  PROVE  /\ Outcome(e.transition) = e.to
         /\ e.abortTransition # "NULL" => Outcome(e.abortTransition) = e.from
         /\ e.transition \in TransitionState
         /\ e.from \in StableState /\ e.to \in StableState
         /\ e.from \notin TransitionState /\ e.to \notin TransitionState
BY EntryShape DEF Outcome, Entry, StableState, TransitionState

\* The other thread is idle, so t alone decides.
LEMMA SerialDevice ==
  ASSUME TypeInv, SerialInv, DeviceInv, NEW t \in Thread, ~Idle(t), OnlyThread(t),
         currentState' \in StableState => device' = currentState',
         InTransition(t)' /\ currentState' \in TransitionState => DeviceIn(t)'
  PROVE  DeviceInv'
<1>1. \A u \in Thread \ {t} : Idle(u)'
  BY DEF SerialInv, AtMostOneBusy, OnlyThread, Idle
<1>2. \A u \in Thread \ {t} : ~InTransition(u)'
  BY <1>1 DEF Idle, InTransition
<1>3. QED
  BY <1>2 DEF DeviceInv

LEMMA StepDevice ==
  ASSUME TypeInv, SerialInv, DeviceInv, NEW t \in Thread, Step(t) PROVE DeviceInv'
<1>0. OnlyThread(t) /\ Knows(t)
  BY StepOnlyThread DEF SerialInv
<1>a. /\ pc \in [Thread -> Location] /\ entry \in [Thread -> transitionMap]
      /\ running \in [Thread -> TransitionState] /\ currentState \in State
      /\ client \in [TransitionState -> {"none", "waiting", "succeeded", "failed"}]
  BY DEF TypeInv, TypeOK
<1>b. entry[t] \in transitionMap
  BY <1>a
<1>c. ASSUME ~Idle(t), currentState' \in StableState => device' = currentState',
             InTransition(t)' /\ currentState' \in TransitionState => DeviceIn(t)'
      PROVE  DeviceInv'
  BY <1>0, <1>c, SerialDevice
<1> USE DEF Goto, Idle
<1>1. CASE SetMode(t) \/ Lookup(t) \/ CheckMode(t) \/ ReadState(t) \/ Test(t) \/ Switch(t)
           \/ Return(t)
  <2>1. /\ pc[t] # "idle" /\ UNCHANGED <<currentState, device>>
        /\ pc'[t] \in {"force", "idle", "check", "enter", "test", "switch", "return", "lookup"}
    BY <1>1, <1>a DEF SetMode, Lookup, CheckMode, ReadState, Test, Switch, Return, ReturnFalse,
                      shared, actions
  <2>2. QED
    BY <1>c, <2>1 DEF InTransition, DeviceInv
<1>2. CASE Enter(t)
  <2>1. /\ pc[t] = "enter" /\ pc'[t] = "loop"
        /\ currentState' = entry[t].transition /\ running'[t] = entry[t].transition
        /\ UNCHANGED <<entry, device>>
    BY <1>2, <1>a DEF Enter, _setState, actions
  <2>2. entry[t].from = device
    BY <1>0, <2>1 DEF Knows, Outside, DeviceInv
  <2>3. currentState' \notin StableState
    BY <2>1, <1>b, EntryOutcome DEF StableState, TransitionState
  <2>4. QED
    BY <1>c, <2>1, <2>2, <2>3 DEF DeviceIn
<1>3. CASE Loop(t) \/ SendGoal(t) \/ WaitForResult(t) \/ Compare(t)
  <2>1. /\ InTransition(t)
        /\ UNCHANGED <<currentState, device, entry, running>>
    BY <1>3 DEF Loop, SendGoal, WaitForResult, Compare, InTransition, shared, actions, locals
  <2>2. CASE currentState \in TransitionState
    <3>1. DeviceIn(t)
      BY <2>1, <2>2 DEF DeviceInv
    <3>2. \/ /\ pc[t] = "loop" /\ pc'[t] = "send" /\ UNCHANGED client
          \/ /\ pc[t] = "send" /\ pc'[t] = "wait" /\ client'[running[t]] = "waiting"
          \/ /\ pc[t] \in {"wait", "compare"} /\ pc'[t] \in {"compare", "own", "other"}
             /\ UNCHANGED client
      BY <1>3, <1>a, <2>2 DEF Loop, SendGoal, WaitForResult, Compare, actions
    <3>3. DeviceIn(t)'
      BY <2>1, <3>1, <3>2 DEF DeviceIn, Outcome
    <3>4. QED
      BY <1>c, <2>1, <2>2, <3>3 DEF InTransition, StableState, TransitionState
  <2>3. CASE currentState \notin TransitionState
    BY <1>c, <2>1, <2>3 DEF InTransition, DeviceInv
  <2>4. QED
    BY <2>2, <2>3
<1>4. CASE Own(t)
  <2>1. pc[t] = "own" /\ UNCHANGED <<entry, client, device>>
    BY <1>4 DEF Own, actions
  <2>2. currentState = entry[t].transition /\ DeviceIn(t)
    BY <1>0, <1>b, <2>1, EntryOutcome DEF Knows, DeviceInv, InTransition
  <2>3. CASE client[running[t]] = "succeeded" /\ currentState' = entry[t].to
    <3>1. device = entry[t].to
      BY <1>b, <2>1, <2>2, <2>3, EntryOutcome DEF DeviceIn
    <3>2. QED
      BY <1>c, <1>b, <2>1, <2>3, <3>1, EntryOutcome
  <2>4. CASE /\ client[running[t]] # "succeeded" /\ entry[t].abortTransition # "NULL"
             /\ pc' = [pc EXCEPT ![t] = "loop"]
             /\ currentState' = entry[t].abortTransition
             /\ running' = [running EXCEPT ![t] = entry[t].abortTransition]
    <3>1. device = entry[t].from
      BY <2>2, <2>4 DEF DeviceIn
    <3>2. currentState' \notin StableState
      BY <1>b, <2>4, EntryTypes DEF StableState, TransitionState
    <3>3. QED
      BY <1>c, <1>a, <2>1, <2>4, <3>1, <3>2 DEF DeviceIn
  <2>5. CASE UNCHANGED <<currentState, running>> /\ pc' = [pc EXCEPT ![t] = "own"]
    <3>1. DeviceIn(t)'
      BY <1>a, <2>1, <2>2, <2>5 DEF DeviceIn, Outcome
    <3>2. QED
      BY <1>c, <2>1, <2>5, <3>1 DEF DeviceInv
  <2>6. QED
    BY <1>4, <2>3, <2>4, <2>5 DEF Own, _setState
<1>5. CASE Other(t)
  <2>1. /\ pc[t] = "other" /\ currentState' = entry[t].from /\ UNCHANGED <<entry, client, device>>
    BY <1>5 DEF Other, _setState, locals, actions
  <2>2. currentState = entry[t].abortTransition
    BY <1>0, <2>1 DEF Knows
  <2>3. currentState # "NULL"
    BY <1>a DEF State, StableState, TransitionState
  <2>4. currentState \in TransitionState
    BY <1>b, <2>2, <2>3, EntryTypes
  <2>5. DeviceIn(t)
    BY <2>1, <2>4 DEF DeviceInv, InTransition
  <2>6. device = entry[t].from
    BY <1>b, <2>2, <2>3, <2>5, EntryOutcome DEF DeviceIn
  <2>7. QED
    BY <1>c, <1>b, <2>1, <2>6, EntryOutcome
<1>6. QED
  BY <1>1, <1>2, <1>3, <1>4, <1>5 DEF Step

LEMMA ServerDevice ==
  ASSUME TypeInv, SerialInv, WorkInv, Calm, DeviceInv, NEW tr \in TransitionState,
         Server(tr) \/ Refuse(tr)
  PROVE  DeviceInv'
<1>0. UNCHANGED <<currentState, pc, entry, running>>
  BY DEF Server, Accept, onTransitionAction, Refuse, shared, locals
<1>1. CASE Accept(tr)
  BY <1>0, <1>1 DEF Accept, DeviceInv, DeviceIn, InTransition, Outcome
<1>2. CASE onTransitionAction(tr) \/ Refuse(tr)
  <2>1. Pending(tr)
    BY <1>2 DEF onTransitionAction, Refuse, Pending
  <2>2. PICK u \in Thread : WaitsFor(u, tr)
    BY <2>1 DEF WorkInv
  <2>3. client[tr] = "waiting"
    BY <2>1 DEF WorkInv
  <2>4. currentState \in TransitionState /\ currentState \notin StableState
    BY <2>2 DEF WaitsFor, SerialInv, Knows, StableState, TransitionState
  <2>5. \A t \in Thread : InTransition(t) => t = u
    BY <2>2 DEF WaitsFor, SerialInv, AtMostOneBusy, Idle, InTransition
  <2>6. DeviceIn(u) /\ device = entry[u].from
    BY <2>2, <2>3, <2>4 DEF DeviceInv, WaitsFor, InTransition, DeviceIn
  <2>7. DeviceIn(u)'
    <3>1. CASE Refuse(tr)
      BY <1>0, <2>2, <2>6, <3>1 DEF Refuse, DeviceIn, WaitsFor, TypeInv, TypeOK
    <3>2. CASE onTransitionAction(tr)
      <4>1. server[tr] = "executing"
        BY <3>2 DEF onTransitionAction, Calm, TypeInv, TypeOK
      <4>2. device' = Outcome(tr) /\ client'[tr] = "succeeded"
        BY <3>2, <4>1 DEF onTransitionAction, TypeInv, TypeOK
      <4>3. QED
        BY <1>0, <2>2, <2>6, <4>2 DEF DeviceIn, WaitsFor, Outcome
    <3>3. QED
      BY <1>2, <3>1, <3>2
  <2>8. QED
    BY <1>0, <2>4, <2>5, <2>7 DEF DeviceInv, InTransition
<1>3. QED
  BY <1>1, <1>2 DEF Server

LEMMA NextDevice ==
  TypeInv /\ SerialInv /\ WorkInv /\ Calm /\ DeviceInv /\ [Next]_vars => DeviceInv'
<1> SUFFICES ASSUME TypeInv, SerialInv, WorkInv, Calm, DeviceInv, [Next]_vars PROVE DeviceInv'
  OBVIOUS
<1>1. ASSUME UNCHANGED <<currentState, device, entry, running, client>>,
             \A t \in Thread : InTransition(t)' => pc'[t] = pc[t]
      PROVE  DeviceInv'
  BY <1>1 DEF DeviceInv, DeviceIn, InTransition, Outcome
<1>2. ASSUME Request PROVE DeviceInv'
  <2>1. /\ UNCHANGED <<currentState, device, entry, running, client>>
        /\ \A t \in Thread : InTransition(t)' => pc'[t] = pc[t]
    BY <1>2 DEF Request, onChangeStateAction, onChangeModeAction, Goto, InTransition, shared,
                actions, TypeInv, TypeOK
  <2>2. QED
    BY <1>1, <2>1
<1>3. CASE UNCHANGED vars
  BY <1>1, <1>3 DEF vars, shared, locals, actions
<1>4. QED
  BY <1>2, <1>3, StepDevice, ServerDevice DEF Next

LEMMA DeviceCorrect ==
  ASSUME Concurrent = FALSE PROVE Spec => []DeviceInv
<1>1. Init => DeviceInv
  BY DEF Init, DeviceInv, InTransition
<1>2. QED
  BY <1>1, SerialCorrect, NextDevice, PTL DEF Spec

\* A machine at rest that is sent one goal at a time reports the state its
\* hardware is in, whatever actionlib refuses and whatever the modes.
THEOREM DeviceAgreesCorrect ==
  ASSUME Concurrent = FALSE PROVE Spec => []DeviceAgrees
<1>1. SerialInv /\ DeviceInv => DeviceAgrees
  BY DEF SerialInv, DeviceInv, DeviceAgrees
<1>2. QED
  BY <1>1, SerialCorrect, DeviceCorrect, PTL
-----------------------------------------------------------------------------
CS == "changeState"

Leaving == {"force", "test", "return"}

\* What a changeState that nobody interrupts knows of the change it makes: it
\* starts and ends in states the mode allows, so it forces nothing.
ChangeInv ==
  /\ depth[CS] = IF pc[CS] \in {"force", "test"} THEN 1 ELSE 0
  /\ pc[CS] \notin {"switch", "setMode"}
  /\ pc[CS] # "idle" => newState[CS] = desired[CS]
  /\ pc[CS] \in {"lookup", "check", "enter"} => Allowed
  /\ pc[CS] \in {"check", "enter"} \cup Leaving \/ InTransition(CS) => entry[CS].to = desired[CS]
  /\ InTransition(CS) => /\ statePossibleInMode(entry[CS].from, currentMode)
                         /\ statePossibleInMode(entry[CS].to, currentMode)
                         /\ currentState \in TransitionState \cup {entry[CS].from, entry[CS].to}
  /\ pc[CS] \in Leaving => currentState \in {entry[CS].from, entry[CS].to} /\ Allowed
  /\ pc[CS] = "test" => seen[CS] = currentState

\* A mode that allows a state and a transition from it allows where that leads.
LEMMA AllowedArrival ==
  ASSUME NEW e \in transitionMap, NEW mode, statePossibleInMode(e.from, mode),
         statePossibleInMode(e.transition, mode)
  PROVE  statePossibleInMode(e.to, mode)
BY EntryShape DEF Entry, statePossibleInMode, modePossibleStates, State, StableState,
                  TransitionState

LEMMA StepChange ==
  ASSUME TypeInv, SerialInv, ChangeInv, Step(CS) PROVE ChangeInv'
<1>0. Knows(CS) /\ entry[CS] \in transitionMap
  BY DEF SerialInv, TypeInv, TypeOK, CS, Thread
<1>a. /\ pc \in [Thread -> Location] /\ entry \in [Thread -> transitionMap]
      /\ depth \in [Thread -> 0..MaxDepth] /\ seen \in [Thread -> State]
      /\ newState \in [Thread -> State] /\ currentState \in State /\ CS \in Thread
  BY DEF TypeInv, TypeOK, CS, Thread
<1> USE DEF Goto
<1>1. CASE Lookup(CS)
  <2>0. depth[CS] = 0
    BY <1>1 DEF Lookup, ReturnFalse, ChangeInv
  <2>1. ~(depth[CS] > 0)
    BY <2>0
  <2>2. pc[CS] = "lookup" /\ UNCHANGED <<shared, desired, newState, depth>>
    BY <1>1 DEF Lookup, ReturnFalse
  <2>3. \/ pc'[CS] = "check" /\ entry'[CS].to = newState[CS]
        \/ pc'[CS] = "idle"
    BY <1>1, <1>a, <2>1 DEF Lookup, ReturnFalse
  <2>4. Allowed' = Allowed
    BY <2>2 DEF shared, Allowed, statePossibleInMode, modePossibleStates
  <2>5. QED
    BY <2>2, <2>3, <2>4 DEF ChangeInv, InTransition, Leaving
<1>2. CASE CheckMode(CS)
  <2>0. depth[CS] = 0
    BY <1>2 DEF CheckMode, ReturnFalse, ChangeInv
  <2>1. ~(depth[CS] > 0)
    BY <2>0
  <2>2. pc[CS] = "check" /\ UNCHANGED <<shared, desired, newState, depth, entry>>
    BY <1>2 DEF CheckMode, ReturnFalse
  <2>3. pc'[CS] \in {"enter", "idle"}
    BY <1>2, <1>a, <2>1 DEF CheckMode, ReturnFalse
  <2>4. Allowed' = Allowed
    BY <2>2 DEF shared, Allowed, statePossibleInMode, modePossibleStates
  <2>5. QED
    BY <2>2, <2>3, <2>4 DEF ChangeInv, InTransition, Leaving
<1>3. CASE Enter(CS)
  <2>1. /\ pc[CS] = "enter" /\ pc'[CS] = "loop"
        /\ currentState' = entry[CS].transition
        /\ UNCHANGED <<currentMode, desired, newState, depth, entry>>
    BY <1>3, <1>a DEF Enter, _setState
  <2>2. /\ statePossibleInMode(entry[CS].from, currentMode)
        /\ statePossibleInMode(entry[CS].to, currentMode)
    BY <1>0, <2>1, AllowedArrival DEF Knows, ChangeInv, Allowed
  <2>3. currentState' \in TransitionState
    BY <1>0, <2>1, EntryTypes
  <2>4. QED
    BY <2>1, <2>2, <2>3 DEF ChangeInv, InTransition, Leaving
<1>4. CASE Loop(CS)
  <2>1. /\ pc[CS] = "loop" /\ UNCHANGED <<shared, desired, newState, entry>>
        /\ \/ pc'[CS] = "send" /\ UNCHANGED depth
           \/ pc'[CS] = "force" /\ currentState \notin TransitionState /\ depth'[CS] = 1
    BY <1>4, <1>a DEF Loop, locals, ChangeInv
  <2>2. /\ statePossibleInMode(entry[CS].from, currentMode)
        /\ statePossibleInMode(entry[CS].to, currentMode)
        /\ currentState \in TransitionState \cup {entry[CS].from, entry[CS].to}
    BY <2>1 DEF ChangeInv, InTransition
  <2>3. currentState \notin TransitionState => Allowed'
    BY <2>1, <2>2 DEF Allowed, shared
  <2>4. QED
    BY <2>1, <2>2, <2>3 DEF ChangeInv, InTransition, Leaving, shared
<1>5. CASE SendGoal(CS) \/ WaitForResult(CS) \/ Compare(CS)
  <2>1. /\ InTransition(CS) /\ InTransition(CS)'
        /\ UNCHANGED <<shared, desired, newState, depth, entry>>
    BY <1>5, <1>a DEF SendGoal, WaitForResult, Compare, locals, InTransition
  <2>2. QED
    BY <2>1 DEF ChangeInv, InTransition, Leaving, shared
<1>6. CASE Own(CS) \/ Other(CS)
  <2>1. /\ InTransition(CS) /\ InTransition(CS)'
        /\ UNCHANGED <<currentMode, desired, newState, depth, entry>>
    BY <1>6, <1>a DEF Own, Other, _setState, locals, InTransition
  <2>2. currentState' \in {currentState, entry[CS].to, entry[CS].from}
          \/ (currentState' = entry[CS].abortTransition /\ entry[CS].abortTransition # "NULL")
    BY <1>6 DEF Own, Other, _setState
  <2>3. currentState' \in TransitionState \cup {entry[CS].from, entry[CS].to}
    BY <1>0, <2>1, <2>2, EntryTypes DEF ChangeInv
  <2>4. QED
    BY <2>1, <2>3 DEF ChangeInv, InTransition, Leaving
<1>7. CASE ReadState(CS) \/ Test(CS) \/ Return(CS)
  <2>1. UNCHANGED <<shared, desired, newState, entry>>
    BY <1>7 DEF ReadState, Test, Return, locals
  <2>2. Allowed' = Allowed
    BY <2>1 DEF shared, Allowed, statePossibleInMode, modePossibleStates
  <2>3. CASE ReadState(CS)
    <3>1. /\ pc[CS] = "force" /\ pc'[CS] = "test" /\ seen'[CS] = currentState
          /\ UNCHANGED depth
      BY <2>3, <1>a DEF ReadState
    <3>2. QED
      BY <2>1, <2>2, <3>1 DEF ChangeInv, InTransition, Leaving, shared
  <2>4. CASE Test(CS)
    <3>1. pc[CS] = "test" /\ seen[CS] = currentState /\ depth[CS] = 1 /\ Allowed
      BY <2>4 DEF Test, ChangeInv, Leaving
    <3>2. pc'[CS] = "return" /\ depth'[CS] = 0
      BY <1>a, <2>4, <3>1 DEF Test, Allowed
    <3>3. QED
      BY <2>1, <2>2, <3>1, <3>2 DEF ChangeInv, InTransition, Leaving, shared
  <2>5. CASE Return(CS)
    <3>1. pc[CS] = "return" /\ pc'[CS] = "idle" /\ UNCHANGED depth
      BY <2>5, <1>a DEF Return
    <3>2. QED
      BY <3>1 DEF ChangeInv, InTransition, Leaving
  <2>6. QED
    BY <1>7, <2>3, <2>4, <2>5
<1>8. CASE SetMode(CS) \/ Switch(CS)
  BY <1>8 DEF SetMode, Switch, ChangeInv
<1>9. QED
  BY <1>1, <1>2, <1>3, <1>4, <1>5, <1>6, <1>7, <1>8 DEF Step

\* A step of changeMode finds changeState idle.
LEMMA IdleChange ==
  ASSUME ChangeInv, pc[CS] = "idle", UNCHANGED <<pc[CS], depth[CS]>> PROVE ChangeInv'
BY DEF ChangeInv, InTransition, Leaving

LEMMA NextChange ==
  ASSUME Concurrent = FALSE
  PROVE  TypeInv /\ SerialInv /\ SettleInv /\ ChangeInv /\ [Next]_vars => ChangeInv'
<1> SUFFICES ASSUME TypeInv, SerialInv, SettleInv, ChangeInv, [Next]_vars PROVE ChangeInv'
  OBVIOUS
<1>a. pc \in [Thread -> Location] /\ CS \in Thread /\ Thread = {CS, "changeMode"}
  BY DEF TypeInv, TypeOK, CS, Thread
<1>1. CASE Step("changeMode")
  <2>1. pc["changeMode"] # "idle"
    BY <1>1 DEF Step, SetMode, Lookup, CheckMode, Enter, Loop, SendGoal, WaitForResult, Compare,
                Own, Other, ReadState, Test, Switch, Return, ReturnFalse, Goto
  <2>2. pc[CS] = "idle"
    BY <2>1 DEF SerialInv, AtMostOneBusy, Idle, CS, Thread
  <2>3. OnlyThread("changeMode")
    BY <1>1, StepOnlyThread DEF Thread
  <2>4. UNCHANGED <<pc[CS], depth[CS]>>
    BY <2>3 DEF OnlyThread, CS, Thread
  <2>5. QED
    BY <2>2, <2>4, IdleChange
<1>2. ASSUME NEW state \in StableState, ~crashed, onChangeStateAction(state) PROVE ChangeInv'
  <2>1. /\ pc[CS] = "idle" /\ pc'[CS] = "lookup"
        /\ newState'[CS] = state /\ desired'[CS] = state
        /\ UNCHANGED <<shared, depth>> /\ BothIdle
    BY <1>2 DEF onChangeStateAction, Goto, CS, BothIdle, Thread, TypeInv, TypeOK
  <2>2. Allowed
    BY <1>2, <2>1 DEF SettleInv, MustCheck, InTransition, BothIdle, Idle, TypeInv, DepthInv
  <2>3. Allowed'
    BY <2>1, <2>2 DEF shared, Allowed, statePossibleInMode, modePossibleStates
  <2>4. QED
    BY <2>1, <2>3 DEF ChangeInv, InTransition, Leaving
<1>3. ASSUME NEW mode \in Mode, onChangeModeAction(mode) PROVE ChangeInv'
  <2>1. pc[CS] = "idle" /\ UNCHANGED <<pc[CS], depth[CS]>>
    BY <1>a, <1>3 DEF onChangeModeAction, Goto, Idle, CS
  <2>2. QED
    BY <2>1, IdleChange
<1>4. CASE UNCHANGED <<shared, pc, locals>>
  BY <1>4 DEF shared, locals, ChangeInv, InTransition, Leaving, Allowed, statePossibleInMode,
              modePossibleStates
<1>5. CASE UNCHANGED vars \/ \E tr \in TransitionState : Server(tr) \/ Refuse(tr)
  BY <1>4, <1>5 DEF vars, Server, Accept, onTransitionAction, Refuse
<1>6. QED
  BY <1>a, <1>1, <1>2, <1>3, <1>5, StepChange DEF Next, Request

\* A change_state that is not disturbed answers for the hardware: what succeeded
\* is where it was asked to be, what was aborted is back where it started.
THEOREM AllOrNothingCorrect ==
  ASSUME Concurrent = FALSE PROVE Spec => AllOrNothing
<1> DEFINE A == pc["changeState"] = "return" /\ Idle("changeState")' =>
                  device = IF answer'["changeState"] = "succeeded"
                           THEN desired["changeState"] ELSE entry["changeState"].from
<1>1. Init => SettleInv /\ ChangeInv
  BY DEF Init, SettleInv, ChangeInv, CS, Thread, InTransition, Leaving, Allowed,
         TransitionState, statePossibleInMode, modePossibleStates, State, StableState
<1>2. TypeInv /\ SerialInv /\ DeviceInv /\ ChangeInv /\ [Next]_vars => [A]_vars
  <2> SUFFICES ASSUME TypeInv, SerialInv, DeviceInv, ChangeInv, [Next]_vars,
                      pc[CS] = "return", pc'[CS] = "idle"
               PROVE  device = IF answer'[CS] = "succeeded" THEN desired[CS] ELSE entry[CS].from
    BY DEF CS, Idle
  <2>0. CS \in Thread /\ pc \in [Thread -> Location]
        /\ answer \in [Thread -> {"none", "succeeded", "aborted"}]
    BY DEF CS, Thread, TypeInv, TypeOK
  <2>1. Step(CS)
    <3>1. ~Step("changeMode")
      <4>1. SUFFICES ASSUME Step("changeMode") PROVE FALSE
        OBVIOUS
      <4>2. OnlyThread("changeMode")
        BY <4>1, StepOnlyThread DEF Thread
      <4>3. QED
        BY <4>2 DEF OnlyThread, CS, Thread
    <3>2. QED
      BY <2>0, <3>1 DEF Next, Request, onChangeStateAction, onChangeModeAction, Goto, CS, Thread,
         vars, Server, Accept, onTransitionAction, Refuse
  <2>2. Return(CS)
    BY <2>1 DEF Step, SetMode, Lookup, CheckMode, Enter, Loop, SendGoal, WaitForResult, Compare,
         Own, Other, ReadState, Test, Switch, ReturnFalse, Goto
  <2>3. answer'[CS] = "succeeded" <=> currentState = desired[CS]
    BY <2>0, <2>2 DEF Return, Answer, CS
  <2>4. currentState \in {entry[CS].from, entry[CS].to} /\ entry[CS].to = desired[CS]
    BY DEF ChangeInv, Leaving
  <2>5. device = currentState
    BY <2>0 DEF SerialInv, Knows, Outside, DeviceInv
  <2>6. QED
    BY <2>3, <2>4, <2>5
<1> HIDE DEF A
<1>3. TypeInv /\ SerialInv /\ SettleInv /\ ChangeInv /\ [Next]_vars => SettleInv' /\ ChangeInv'
  BY NextSettleInv, NextChange
<1>4. Spec => [][A]_vars
  BY <1>1, <1>2, <1>3, SerialCorrect, DeviceCorrect, PTL DEF Spec
<1>5. QED
  BY <1>4 DEF A, AllOrNothing
=============================================================================
