------------------------------ MODULE Equiplet ------------------------------
(***************************************************************************)
(* The equiplet node and its modules.  Modules register with a service     *)
(* call, which the equiplet's main thread handles; its transitions run on  *)
(* threads of their own and send every registered module a goal, without   *)
(* waiting for it.  The newRegistrationsAllowed flag and the vector of     *)
(* proxies have no lock.  Modules report their changes of state with a     *)
(* synchronous service call.  The equiplet's and the modules' state        *)
(* machines are those of Lifecycle, with their transitions in two steps.   *)
(***************************************************************************)
EXTENDS Naturals, Sequences, FiniteSets

CONSTANTS
  Modules,      \* the module nodes
  Others,       \* what others than the equiplet ask of modules: pairs of a
                \* module and a state
  Crashing,     \* the modules whose process may end
  Restarting,   \* may the equiplet's process end, and start again?
  MaxProxies    \* bound: proxies in the registry, those to come included

StableState == {"SAFE", "STANDBY", "NORMAL"}
None        == "none"

ASSUME OthersAssumption  == Others \subseteq Modules \X StableState
ASSUME FaultsAssumption  == Crashing \subseteq Modules /\ Restarting \in BOOLEAN
ASSUME ProxiesAssumption == MaxProxies \in Nat

\* The transitions of a state machine: from, by way of, to.
transitions == {<<"SAFE", "SETUP", "STANDBY">>, <<"STANDBY", "SHUTDOWN", "SAFE">>,
                <<"STANDBY", "START", "NORMAL">>, <<"NORMAL", "STOP", "STANDBY">>}
State == StableState \cup {t[2] : t \in transitions}

Proxy == [module : Modules, currentState : State, goal : StableState \cup {None}]

VARIABLES
  state,                    \* of the equiplet
  newRegistrationsAllowed,
  registeredModules,        \* the proxies, in the order of registration
  pc,                       \* where the transition's thread is
  toTell,                   \* the proxies it still has to send its goal
  registering,              \* the module whose registration was let through
  process,                  \* per module, is its process off, calling or up?
  moduleState,              \* per module
  goal,                     \* per module, the goal its server has yet to accept
  notice                    \* per module, the state it is reporting

equiplet == <<state, newRegistrationsAllowed, registeredModules, pc, toTell, registering>>
module   == <<process, moduleState, goal, notice>>
vars     == <<equiplet, module>>

TypeOK ==
  /\ state \in State
  /\ newRegistrationsAllowed \in BOOLEAN
  /\ registeredModules \in Seq(Proxy)
  /\ pc \in {"idle", "allow", "copy", "tell"}
  /\ toTell \subseteq 1..Len(registeredModules)
  /\ registering \in Modules \cup {None}
  /\ process \in [Modules -> {"off", "calling", "up"}]
  /\ moduleState \in [Modules -> State]
  /\ goal \in [Modules -> StableState \cup {None}]
  /\ notice \in [Modules -> State \cup {None}]

Init ==
  /\ state = "SAFE" /\ newRegistrationsAllowed = TRUE /\ registeredModules = <<>>
  /\ pc = "idle" /\ toTell = {} /\ registering = None
  /\ process = [m \in Modules |-> "off"]
  /\ moduleState = [m \in Modules |-> "SAFE"]
  /\ goal = [m \in Modules |-> None] /\ notice = [m \in Modules |-> None]

ProxiesOf(m) == {i \in 1..Len(registeredModules) : registeredModules[i].module = m}
-----------------------------------------------------------------------------
\* The equiplet's own change_state, without the test of the mode and without the thread of
\* change_mode, which StateMachine has.  Only setup and shutdown do something.
ChangeState ==
  /\ pc = "idle"
  /\ \E t \in transitions :
       /\ t[1] = state
       /\ IF t[2] \in {"SETUP", "SHUTDOWN"}
          THEN state' = t[2] /\ pc' = "allow"
          ELSE state' = t[3] /\ UNCHANGED pc
  /\ UNCHANGED <<newRegistrationsAllowed, registeredModules, toTell, registering, module>>

\* Mutant: a setup leaves registrations allowed.
setNewRegistrationsAllowedAlways ==
  /\ pc = "allow" /\ pc' = "copy"
  /\ newRegistrationsAllowed' = TRUE
  /\ UNCHANGED <<state, registeredModules, toTell, registering, module>>

setNewRegistrationsAllowed ==
  /\ pc = "allow" /\ pc' = "copy"
  /\ newRegistrationsAllowed' = (state = "SHUTDOWN")
  /\ UNCHANGED <<state, registeredModules, toTell, registering, module>>

getRigisteredModules ==
  /\ pc = "copy" /\ pc' = "tell"
  /\ toTell' = 1..Len(registeredModules)
  /\ UNCHANGED <<state, newRegistrationsAllowed, registeredModules, registering, module>>

Desired == IF state = "SETUP" THEN "STANDBY" ELSE "SAFE"

\* Mutant: a goal that is still to be accepted stays.
SendBehind(m, s) ==
  goal' = [goal EXCEPT ![m] = IF process[m] = "off" THEN None ELSE IF @ # None THEN @ ELSE s]

\* A goal takes the place of one the module's server has not accepted; with no
\* process to receive it, it is lost.
Send(m, s) == goal' = [goal EXCEPT ![m] = IF process[m] = "off" THEN None ELSE s]

\* ModuleProxy::changeState of the next proxy in the copy.
changeState ==
  /\ pc = "tell" /\ toTell # {}
  /\ LET i == CHOOSE j \in toTell : \A k \in toTell : j <= k
         m == registeredModules[i].module
     IN  /\ toTell' = toTell \ {i}
         /\ registeredModules' = [registeredModules EXCEPT ![i].goal = Desired]
         /\ Send(m, Desired)
  /\ UNCHANGED <<state, newRegistrationsAllowed, pc, registering, process, moduleState,
                 notice>>

\* Mutant: the transition may return before its loop is over.
DoneEarly ==
  /\ pc = "tell"
  /\ pc' = "idle" /\ state' = Desired /\ toTell' = {}
  /\ UNCHANGED <<newRegistrationsAllowed, registeredModules, registering, module>>

\* The transition function returns; nobody has waited for the modules.
Done ==
  /\ pc = "tell" /\ toTell = {}
  /\ pc' = "idle" /\ state' = Desired
  /\ UNCHANGED <<newRegistrationsAllowed, registeredModules, toTell, registering, module>>

Transition == setNewRegistrationsAllowed \/ getRigisteredModules \/ changeState \/ Done
-----------------------------------------------------------------------------
\* The main thread, in callbacks that run one after another.  A registration
\* tests the flag first; a refused module throws and ends.
onRegisterServiceModuleCallback(m) ==
  /\ registering = None
  /\ process[m] = "calling"
  /\ IF newRegistrationsAllowed
     THEN registering' = m /\ UNCHANGED process
     ELSE process' = [process EXCEPT ![m] = "off"] /\ UNCHANGED registering
  /\ UNCHANGED <<state, newRegistrationsAllowed, registeredModules, pc, toTell,
                 moduleState, goal, notice>>

\* The proxy is made and pushed, and the module's constructor goes on.
Push ==
  /\ registering # None
  /\ registeredModules' = Append(registeredModules,
                            [module |-> registering, currentState |-> "SAFE", goal |-> None])
  /\ process' = [process EXCEPT ![registering] = "up"]
  /\ registering' = None
  /\ UNCHANGED <<state, newRegistrationsAllowed, pc, toTell, moduleState, goal, notice>>

\* The service of a name belongs to the first proxy that advertised it; without
\* one the module's call fails, which it does not look at.
onStateChangeServiceCallback(m) ==
  /\ registering = None
  /\ notice[m] # None
  /\ notice' = [notice EXCEPT ![m] = None]
  /\ registeredModules' =
       [i \in 1..Len(registeredModules) |->
          IF i \in ProxiesOf(m) /\ \A j \in ProxiesOf(m) : i <= j
          THEN [registeredModules[i] EXCEPT !.currentState = notice[m]]
          ELSE registeredModules[i]]
  /\ UNCHANGED <<state, newRegistrationsAllowed, pc, toTell, registering, process,
                 moduleState, goal>>

spinOnce ==
  \/ Push
  \/ \E m \in Modules : onRegisterServiceModuleCallback(m) \/ onStateChangeServiceCallback(m)
-----------------------------------------------------------------------------
\* A module's process starts; its constructor calls register_module.
Calling == {m \in Modules : process[m] = "calling"}

Start(m) ==
  /\ process[m] = "off"
  /\ Len(registeredModules) + Cardinality(Calling) < MaxProxies
  /\ process' = [process EXCEPT ![m] = "calling"]
  /\ moduleState' = [moduleState EXCEPT ![m] = "SAFE"]
  /\ UNCHANGED <<equiplet, goal, notice>>

\* The module's state machine takes up a goal: a transition, or no such one.
onChangeStateAction(m) ==
  /\ process[m] = "up" /\ notice[m] = None
  /\ goal[m] # None /\ moduleState[m] \in StableState
  /\ goal' = [goal EXCEPT ![m] = None]
  /\ LET way == {t \in transitions : t[1] = moduleState[m] /\ t[3] = goal[m]} IN
     \/ \E t \in way : /\ moduleState' = [moduleState EXCEPT ![m] = t[2]]
                       /\ notice' = [notice EXCEPT ![m] = t[2]]
     \/ way = {} /\ UNCHANGED <<moduleState, notice>>
  /\ UNCHANGED <<equiplet, process>>

\* Mutant: the end of a transition is not reported.
ArriveSilently(m) ==
  /\ process[m] = "up" /\ notice[m] = None
  /\ \E t \in transitions :
       /\ t[2] = moduleState[m]
       /\ moduleState' = [moduleState EXCEPT ![m] = t[3]]
  /\ UNCHANGED <<equiplet, process, goal, notice>>

\* The transition ends; onStateChanged reports the new state.
Arrive(m) ==
  /\ process[m] = "up" /\ notice[m] = None
  /\ \E t \in transitions :
       /\ t[2] = moduleState[m]
       /\ moduleState' = [moduleState EXCEPT ![m] = t[3]]
       /\ notice' = [notice EXCEPT ![m] = t[3]]
  /\ UNCHANGED <<equiplet, process, goal>>

\* Another client of the module's change_state server.
Command(m, s) ==
  /\ <<m, s>> \in Others /\ process[m] # "off"
  /\ Send(m, s)
  /\ UNCHANGED <<equiplet, process, moduleState, notice>>

CrashModule(m) ==
  /\ m \in Crashing
  /\ process[m] # "off" /\ registering # m
  /\ process' = [process EXCEPT ![m] = "off"]
  /\ goal' = [goal EXCEPT ![m] = None] /\ notice' = [notice EXCEPT ![m] = None]
  /\ UNCHANGED <<equiplet, moduleState>>

\* The equiplet starts again with an empty registry; a module that is calling
\* it gets an error and ends, the others are not told.
RestartEquiplet ==
  /\ Restarting
  /\ state' = "SAFE" /\ newRegistrationsAllowed' = TRUE /\ registeredModules' = <<>>
  /\ pc' = "idle" /\ toTell' = {} /\ registering' = None
  /\ process' = [m \in Modules |-> IF process[m] = "up" THEN "up" ELSE "off"]
  /\ notice' = [m \in Modules |-> None]
  /\ goal' = [m \in Modules |-> IF process[m] = "up" THEN goal[m] ELSE None]
  /\ UNCHANGED moduleState

Module(m) == onChangeStateAction(m) \/ Arrive(m)

Next ==
  \/ ChangeState \/ Transition \/ spinOnce
  \/ \E m \in Modules : Start(m) \/ Module(m) \/ CrashModule(m)
  \/ \E m \in Modules : \E s \in StableState : Command(m, s)
  \/ RestartEquiplet

\* The equiplet's main thread takes the callbacks in the order they came, so
\* no module is passed over for ever; its transition thread and the modules run.
Fairness ==
  /\ WF_vars(Push) /\ WF_vars(Transition)
  /\ \A m \in Modules : /\ SF_vars(onRegisterServiceModuleCallback(m))
                        /\ SF_vars(onStateChangeServiceCallback(m))
                        /\ WF_vars(Module(m))

Spec == Init /\ [][Next]_vars
FairSpec == Spec /\ Fairness
=============================================================================
