---------------------------- MODULE EquipletProofs ----------------------------
(***************************************************************************)
(* Proofs about Equiplet, for any number of modules, whatever crashes and  *)
(* whoever else commands the modules: the types, what the modules were     *)
(* told when the equiplet is set up and when it is shut down, and what the *)
(* proxies know of their modules.                                          *)
(***************************************************************************)
EXTENDS EquipletProps, FiniteSetTheorems, TLAPS

Proxies == 1..Len(registeredModules)

\* Whose turn is over in the transition's loop without a goal STANDBY.
Missed == {i \in Proxies \ toTell : registeredModules[i].goal # "STANDBY"}

\* The transition's thread and the state go together.
PcAgrees ==
  /\ pc = "idle" <=> state \in StableState
  /\ pc # "idle" => state \in {"SETUP", "SHUTDOWN"}
  /\ pc # "tell" => toTell = {}

SetUp == state \in {"STANDBY", "NORMAL"} \/ (state = "SETUP" /\ pc = "tell")

\* Once the flag is cleared no registration passes it; one may be past it.
OneLate ==
  /\ SetUp \/ (state = "SETUP" /\ pc = "copy") => ~newRegistrationsAllowed
  /\ SetUp => Missed = {} \/ (registering = None /\ \E i \in Missed : Missed = {i})

ShutDown == state = "SAFE" \/ (state = "SHUTDOWN" /\ pc = "tell")

AllCalledBack ==
  ShutDown => \A i \in Proxies \ toTell : registeredModules[i].goal # "STANDBY"

Inv == TypeOK /\ PcAgrees /\ OneLate /\ AllCalledBack
-----------------------------------------------------------------------------
\* The way out of a stable state, by the state a transition is in.
LEMMA TransitionsType ==
  \A t \in transitions : t[1] \in StableState /\ t[2] \in State \ StableState /\ t[3] \in StableState
BY DEF transitions, State, StableState

LEMMA DesiredType == Desired \in {"STANDBY", "SAFE"}
BY DEF Desired

\* What a goal and a report change in a proxy.
LEMMA GoalOfProxy ==
  ASSUME NEW p \in Proxy, NEW d \in StableState \cup {None}
  PROVE  [p EXCEPT !.goal = d] \in Proxy /\ [p EXCEPT !.goal = d].goal = d
BY DEF Proxy

LEMMA StateOfProxy ==
  ASSUME NEW p \in Proxy, NEW s \in State
  PROVE  /\ [p EXCEPT !.currentState = s] \in Proxy
         /\ [p EXCEPT !.currentState = s].goal = p.goal
BY DEF Proxy

\* Replacing one element of a sequence of proxies.
LEMMA ExceptSeq ==
  ASSUME NEW S, NEW q \in Seq(S), NEW i, NEW x \in S
  PROVE  /\ [q EXCEPT ![i] = x] \in Seq(S)
         /\ Len([q EXCEPT ![i] = x]) = Len(q)
         /\ \A j \in 1..Len(q) : [q EXCEPT ![i] = x][j] = IF j = i THEN x ELSE q[j]
<1> DEFINE r == [q EXCEPT ![i] = x]
<1>1. r = [j \in 1..Len(q) |-> IF j = i THEN x ELSE q[j]]
  OBVIOUS
<1>2. Len(q) \in Nat /\ \A j \in 1..Len(q) : q[j] \in S
  OBVIOUS
<1> HIDE DEF r
<1>3. r \in Seq(S) /\ Len(r) = Len(q)
  BY <1>1, <1>2
<1>4. \A j \in 1..Len(q) : r[j] = IF j = i THEN x ELSE q[j]
  BY <1>1
<1> QED
  BY <1>3, <1>4 DEF r

LEMMA InitInv == Init => Inv
<1> SUFFICES ASSUME Init PROVE Inv
  OBVIOUS
<1>1. registeredModules \in Seq(Proxy) /\ Len(registeredModules) = 0
  BY DEF Init
<1> QED
  BY <1>1 DEF Init, Inv, TypeOK, PcAgrees, OneLate, AllCalledBack, SetUp, ShutDown,
              Missed, Proxies, State, StableState

\* The steps of the transition's thread.
LEMMA ChangeStateInv == Inv /\ ChangeState => Inv'
<1> SUFFICES ASSUME Inv, ChangeState PROVE Inv'
  OBVIOUS
<1>1. PICK t \in transitions :
        /\ t[1] = state
        /\ IF t[2] \in {"SETUP", "SHUTDOWN"}
           THEN state' = t[2] /\ pc' = "allow"
           ELSE state' = t[3] /\ UNCHANGED pc
  BY DEF ChangeState
<1>2. /\ pc = "idle" /\ toTell = {}
      /\ UNCHANGED <<newRegistrationsAllowed, registeredModules, toTell, registering, module>>
  BY DEF ChangeState, Inv, PcAgrees
<1>3. state' \in State /\ pc' \in {"idle", "allow"}
  BY <1>1, <1>2, TransitionsType DEF State
<1>4. TypeOK'
  BY <1>2, <1>3 DEF Inv, TypeOK, module
<1>5. PcAgrees'
  BY <1>1, <1>2, TransitionsType DEF PcAgrees, StableState
<1>6. SetUp' => SetUp
  BY <1>1, <1>2 DEF SetUp, transitions, StableState
<1>7. ~(state' = "SETUP" /\ pc' = "copy") /\ ~ShutDown'
  BY <1>1, <1>2 DEF ShutDown, transitions
<1>8. Missed' = Missed
  BY <1>2 DEF Missed, Proxies
<1> QED
  BY <1>2, <1>4, <1>5, <1>6, <1>7, <1>8 DEF Inv, OneLate, AllCalledBack

LEMMA AllowInv == Inv /\ setNewRegistrationsAllowed => Inv'
BY DEF setNewRegistrationsAllowed, module, Inv, TypeOK, PcAgrees, OneLate, AllCalledBack,
       SetUp, ShutDown, StableState

LEMMA CopyInv == Inv /\ getRigisteredModules => Inv'
<1> SUFFICES ASSUME Inv, getRigisteredModules PROVE Inv'
  OBVIOUS
<1>1. Proxies' \ toTell' = {}
  BY DEF getRigisteredModules, Proxies
<1>2. Missed' = {}
  BY <1>1 DEF Missed
<1>3. TypeOK' /\ PcAgrees'
  BY DEF getRigisteredModules, module, Inv, TypeOK, PcAgrees, StableState
<1> QED
  BY <1>1, <1>2, <1>3
     DEF getRigisteredModules, Inv, PcAgrees, OneLate, AllCalledBack, SetUp, ShutDown

LEMMA DoneInv == Inv /\ Done => Inv'
<1> SUFFICES ASSUME Inv, Done PROVE Inv'
  OBVIOUS
<1>1. TypeOK' /\ PcAgrees'
  BY DEF Done, Desired, module, Inv, TypeOK, PcAgrees, State, StableState
<1>2. Missed' = Missed /\ Proxies' = Proxies
  BY DEF Done, Missed, Proxies
<1>3. (SetUp' => SetUp) /\ (ShutDown' => ShutDown)
  BY DEF Done, Desired, Inv, PcAgrees, SetUp, ShutDown
<1> QED
  BY <1>1, <1>2, <1>3 DEF Done, Inv, OneLate, AllCalledBack, PcAgrees, StableState

LEMMA TellInv == Inv /\ changeState => Inv'
<1> SUFFICES ASSUME Inv, changeState PROVE Inv'
  OBVIOUS
<1> DEFINE i == CHOOSE j \in toTell : \A k \in toTell : j <= k
<1>1. /\ pc = "tell" /\ toTell' = toTell \ {i}
      /\ registeredModules' = [registeredModules EXCEPT ![i].goal = Desired]
      /\ Send(registeredModules[i].module, Desired)
      /\ UNCHANGED <<state, newRegistrationsAllowed, pc, registering, process, moduleState,
                     notice>>
  BY DEF changeState
<1> HIDE DEF i
<1>2. registeredModules \in Seq(Proxy) /\ Desired \in StableState
  BY DesiredType DEF Inv, TypeOK, StableState
<1>3. /\ registeredModules' \in Seq(Proxy) /\ Proxies' = Proxies
      /\ \A j \in Proxies : registeredModules'[j].goal =
           IF j = i THEN Desired ELSE registeredModules[j].goal
  <2> DEFINE p == [registeredModules[i] EXCEPT !.goal = Desired]
  <2>1. CASE i \in Proxies
    <3>1. p \in Proxy /\ p.goal = Desired
      BY <1>2, <2>1, GoalOfProxy DEF Proxies
    <3>2. registeredModules' = [registeredModules EXCEPT ![i] = p]
      BY <1>1
    <3> HIDE DEF p
    <3>3. /\ registeredModules' \in Seq(Proxy) /\ Len(registeredModules') = Len(registeredModules)
          /\ \A j \in 1..Len(registeredModules) :
               registeredModules'[j] = IF j = i THEN p ELSE registeredModules[j]
      BY <1>2, <3>1, <3>2, ExceptSeq
    <3> QED
      BY <3>1, <3>3 DEF Proxies
  <2>2. CASE i \notin Proxies
    <3>1. registeredModules' = registeredModules
      BY <1>1, <1>2, <2>2 DEF Proxies
    <3> QED
      BY <1>2, <2>2, <3>1 DEF Proxies
  <2> QED
    BY <2>1, <2>2
<1>5. TypeOK'
  <2>1. goal' \in [Modules -> StableState \cup {None}]
    BY <1>1, <1>2 DEF Send, Inv, TypeOK
  <2>2. toTell' \subseteq 1..Len(registeredModules')
    BY <1>1, <1>3 DEF Inv, TypeOK, Proxies
  <2> QED
    BY <1>1, <1>3, <2>1, <2>2 DEF Inv, TypeOK
<1>6. PcAgrees'
  BY <1>1 DEF Inv, PcAgrees
<1>7. OneLate'
  <2>1. SetUp' => SetUp /\ Desired = "STANDBY"
    BY <1>1 DEF SetUp, Desired, Inv, PcAgrees, StableState
  <2>2. SetUp' => Missed' \subseteq Missed
    <3> SUFFICES ASSUME SetUp', NEW j \in Missed' PROVE j \in Missed
      OBVIOUS
    <3>1. j \in Proxies /\ j \notin toTell \ {i} /\ registeredModules'[j].goal # "STANDBY"
      BY <1>1, <1>3 DEF Missed
    <3>2. j # i /\ registeredModules[j].goal # "STANDBY"
      BY <1>3, <2>1, <3>1
    <3> QED
      BY <3>1, <3>2 DEF Missed
  <2>3. CASE SetUp'
    <3>1. Missed = {} \/ (registering = None /\ \E k \in Missed : Missed = {k})
      BY <2>1, <2>3 DEF Inv, OneLate
    <3>2. Missed' = {} \/ Missed' = Missed
      BY <2>2, <2>3, <3>1
    <3> QED
      BY <1>1, <2>1, <2>3, <3>1, <3>2 DEF Inv, OneLate
  <2>4. CASE ~SetUp'
    BY <1>1, <2>4 DEF Inv, OneLate
  <2> QED
    BY <2>3, <2>4
<1>8. AllCalledBack'
  <2>1. ShutDown' => ShutDown /\ Desired = "SAFE"
    BY <1>1 DEF ShutDown, Desired, Inv, PcAgrees, StableState
  <2> QED
    BY <1>1, <1>3, <2>1 DEF Inv, AllCalledBack
<1> QED
  BY <1>5, <1>6, <1>7, <1>8 DEF Inv
-----------------------------------------------------------------------------
\* The steps of the main thread.
LEMMA RegisterInv ==
  ASSUME Inv, NEW m \in Modules, onRegisterServiceModuleCallback(m) PROVE Inv'
<1>1. CASE newRegistrationsAllowed
  <2>1. ~SetUp
    BY <1>1 DEF Inv, OneLate
  <2>2. TypeOK'
    BY <1>1 DEF onRegisterServiceModuleCallback, Inv, TypeOK
  <2> QED
    BY <1>1, <2>1, <2>2 DEF onRegisterServiceModuleCallback, Inv, PcAgrees, OneLate,
                            AllCalledBack, SetUp, ShutDown, Proxies
<1>2. CASE ~newRegistrationsAllowed
  <2>1. TypeOK'
    BY <1>2 DEF onRegisterServiceModuleCallback, Inv, TypeOK
  <2>2. Missed' = Missed
    BY <1>2 DEF onRegisterServiceModuleCallback, Missed, Proxies
  <2> QED
    BY <1>2, <2>1, <2>2 DEF onRegisterServiceModuleCallback, Inv, PcAgrees, OneLate,
                            AllCalledBack, SetUp, ShutDown, Proxies
<1> QED
  BY <1>1, <1>2

LEMMA PushInv == Inv /\ Push => Inv'
<1> SUFFICES ASSUME Inv, Push PROVE Inv'
  OBVIOUS
<1> DEFINE n == Len(registeredModules)
           p == [module |-> registering, currentState |-> "SAFE", goal |-> None]
<1>1. registeredModules \in Seq(Proxy) /\ registering \in Modules /\ n \in Nat
  BY DEF Push, Inv, TypeOK
<1>2. p \in Proxy
  BY <1>1 DEF Proxy, State, StableState
<1>3. registeredModules' = Append(registeredModules, p)
  BY DEF Push
<1> HIDE DEF p
<1>4. /\ registeredModules' \in Seq(Proxy) /\ Len(registeredModules') = n + 1
      /\ registeredModules'[n + 1] = p
      /\ \A i \in 1..n : registeredModules'[i] = registeredModules[i]
  BY <1>1, <1>2, <1>3
<1>5. Proxies' = Proxies \cup {n + 1} /\ n + 1 \notin Proxies /\ n + 1 \notin toTell
  BY <1>1, <1>4 DEF Proxies, Inv, TypeOK
<1>6. p.goal = None
  BY DEF p
<1>7. TypeOK'
  <2>1. toTell' \subseteq 1..Len(registeredModules')
    BY <1>1, <1>4 DEF Push, Inv, TypeOK
  <2> QED
    BY <1>1, <1>4, <2>1 DEF Push, Inv, TypeOK
<1>8. PcAgrees'
  BY DEF Push, Inv, PcAgrees
<1>9. OneLate'
  <2>1. SetUp' <=> SetUp
    BY DEF Push, SetUp
  <2>2. CASE SetUp
    <3>1. Missed = {}
      BY <2>2 DEF Push, Inv, OneLate
    <3>2. Missed' = {n + 1}
      BY <1>4, <1>5, <1>6, <3>1 DEF Push, Missed, Proxies, None
    <3> QED
      BY <2>1, <2>2, <3>2 DEF Push, Inv, OneLate
  <2>3. CASE ~SetUp
    BY <2>1, <2>3 DEF Push, Inv, OneLate
  <2> QED
    BY <2>2, <2>3
<1>10. AllCalledBack'
  BY <1>4, <1>5, <1>6 DEF Push, Inv, AllCalledBack, ShutDown, Proxies, None
<1> QED
  BY <1>7, <1>8, <1>9, <1>10 DEF Inv

LEMMA StateChangeInv ==
  ASSUME Inv, NEW m \in Modules, onStateChangeServiceCallback(m) PROVE Inv'
<1>1. registeredModules \in Seq(Proxy) /\ notice[m] \in State
  BY DEF onStateChangeServiceCallback, Inv, TypeOK
<1>2. \A i \in Proxies :
        /\ registeredModules[i] \in Proxy
        /\ [registeredModules[i] EXCEPT !.currentState = notice[m]] \in Proxy
        /\ [registeredModules[i] EXCEPT !.currentState = notice[m]].goal = registeredModules[i].goal
  BY <1>1, StateOfProxy DEF Proxies
<1>3. registeredModules' = [i \in Proxies |->
        IF i \in ProxiesOf(m) /\ \A j \in ProxiesOf(m) : i <= j
        THEN [registeredModules[i] EXCEPT !.currentState = notice[m]]
        ELSE registeredModules[i]]
  BY DEF onStateChangeServiceCallback, Proxies
<1>4. registeredModules' \in Seq(Proxy) /\ Proxies' = Proxies
  BY <1>1, <1>2, <1>3 DEF Proxies
<1>5. \A i \in Proxies : registeredModules'[i].goal = registeredModules[i].goal
  BY <1>2, <1>3
<1>6. UNCHANGED <<state, newRegistrationsAllowed, pc, toTell, registering, process,
                 moduleState, goal>>
      /\ notice' = [notice EXCEPT ![m] = None]
  BY DEF onStateChangeServiceCallback
<1>7. TypeOK'
  BY <1>4, <1>6 DEF Inv, TypeOK, Proxies
<1>8. Missed' = Missed
  BY <1>4, <1>5, <1>6 DEF Missed
<1> QED
  BY <1>4, <1>5, <1>6, <1>7, <1>8
     DEF Inv, PcAgrees, OneLate, AllCalledBack, SetUp, ShutDown
-----------------------------------------------------------------------------
\* What the modules do leaves the equiplet alone.
LEMMA EquipletUnchanged ==
  ASSUME Inv, UNCHANGED equiplet, TypeOK' PROVE Inv'
BY DEF equiplet, Inv, PcAgrees, OneLate, AllCalledBack, SetUp, ShutDown, Missed, Proxies

LEMMA ModuleInv ==
  ASSUME Inv, NEW m \in Modules,
         Start(m) \/ Module(m) \/ CrashModule(m) \/ \E s \in StableState : Command(m, s)
  PROVE  Inv'
<1>1. UNCHANGED equiplet
  BY DEF Start, Module, onChangeStateAction, Arrive, CrashModule, Command
<1>2. CASE Start(m)
  BY <1>1, <1>2, EquipletUnchanged DEF Start, Inv, TypeOK, equiplet, State, StableState
<1>3. CASE onChangeStateAction(m)
  <2>1. moduleState' \in [Modules -> State] /\ notice' \in [Modules -> State \cup {None}]
        /\ goal' \in [Modules -> StableState \cup {None}] /\ process' = process
    BY <1>3, TransitionsType DEF onChangeStateAction, Inv, TypeOK
  <2> QED
    BY <1>1, <2>1, EquipletUnchanged DEF Inv, TypeOK, equiplet
<1>4. CASE Arrive(m)
  <2>1. moduleState' \in [Modules -> State] /\ notice' \in [Modules -> State \cup {None}]
        /\ UNCHANGED <<goal, process>>
    BY <1>4, TransitionsType DEF Arrive, Inv, TypeOK, State
  <2> QED
    BY <1>1, <2>1, EquipletUnchanged DEF Inv, TypeOK, equiplet
<1>5. CASE CrashModule(m)
  BY <1>1, <1>5, EquipletUnchanged DEF CrashModule, Inv, TypeOK, equiplet
<1>6. ASSUME NEW s \in StableState, Command(m, s) PROVE Inv'
  BY <1>1, <1>6, EquipletUnchanged DEF Command, Send, Inv, TypeOK, equiplet
<1> QED
  BY <1>2, <1>3, <1>4, <1>5, <1>6 DEF Module

LEMMA RestartInv == Inv /\ RestartEquiplet => Inv'
<1> SUFFICES ASSUME Inv, RestartEquiplet PROVE Inv'
  OBVIOUS
<1>1. registeredModules' \in Seq(Proxy) /\ Len(registeredModules') = 0
  BY DEF RestartEquiplet
<1>2. /\ process' \in [Modules -> {"off", "calling", "up"}]
      /\ goal' \in [Modules -> StableState \cup {None}]
      /\ notice' \in [Modules -> State \cup {None}]
  BY DEF RestartEquiplet, Inv, TypeOK
<1> QED
  BY <1>1, <1>2 DEF RestartEquiplet, Inv, TypeOK, PcAgrees, OneLate, AllCalledBack, SetUp,
                    ShutDown, Missed, Proxies, State, StableState

LEMMA NextInv == Inv /\ [Next]_vars => Inv'
<1> SUFFICES ASSUME Inv, [Next]_vars PROVE Inv'
  OBVIOUS
<1>1. CASE ChangeState \/ Transition
  BY <1>1, ChangeStateInv, AllowInv, CopyInv, TellInv, DoneInv DEF Transition
<1>2. CASE spinOnce
  BY <1>2, PushInv, RegisterInv, StateChangeInv DEF spinOnce
<1>3. CASE \E m \in Modules : Start(m) \/ Module(m) \/ CrashModule(m)
  BY <1>3, ModuleInv
<1>4. CASE \E m \in Modules : \E s \in StableState : Command(m, s)
  BY <1>4, ModuleInv
<1>5. CASE RestartEquiplet
  BY <1>5, RestartInv
<1>6. CASE UNCHANGED vars
  BY <1>6, EquipletUnchanged DEF vars, module, Inv, TypeOK, equiplet
<1> QED
  BY <1>1, <1>2, <1>3, <1>4, <1>5, <1>6 DEF Next

\* Every variable keeps its type.
THEOREM TypeCorrect == Spec => []TypeOK
<1>1. Inv => TypeOK
  BY DEF Inv
<1> QED
  BY <1>1, InitInv, NextInv, PTL DEF Spec

\* For any number of modules, at most one registered module has not been told
\* to be on standby while the equiplet is.
THEOREM AlmostAllToldCorrect == Spec => []AlmostAllTold
<1>1. Inv => AlmostAllTold
  <2> SUFFICES ASSUME Inv, state \in {"STANDBY", "NORMAL"}
               PROVE Cardinality((1..Len(registeredModules)) \ Told("STANDBY")) <= 1
    BY DEF AlmostAllTold
  <2>1. SetUp /\ toTell = {}
    BY DEF Inv, PcAgrees, SetUp, StableState
  <2>2. (1..Len(registeredModules)) \ Told("STANDBY") = Missed
    BY <2>1 DEF Missed, Told, Proxies
  <2>3. Missed = {} \/ \E i \in Missed : Missed = {i}
    BY <2>1 DEF Inv, OneLate
  <2>4. Cardinality(Missed) = 0 \/ Cardinality(Missed) = 1
    BY <2>3, FS_EmptySet, FS_Singleton
  <2>5. Cardinality(Missed) <= 1
    BY <2>4
  <2> QED
    BY <2>2, <2>5
<1> QED
  BY <1>1, InitInv, NextInv, PTL DEF Spec

\* For any number of modules, a shut down equiplet has called every module it
\* had put on standby back.
THEOREM ShutdownTellsAllCorrect == Spec => []ShutdownTellsAll
<1>1. Inv => ShutdownTellsAll
  BY DEF Inv, PcAgrees, AllCalledBack, ShutDown, ShutdownTellsAll, Told, Proxies, StableState
<1> QED
  BY <1>1, InitInv, NextInv, PTL DEF Spec
-----------------------------------------------------------------------------
\* A report is of the state the module is in, and a module that registers has
\* nothing to report yet.
Reports ==
  \A m \in Modules :
    /\ process[m] # "up" => notice[m] = None
    /\ process[m] = "calling" => moduleState[m] = "SAFE"
    /\ notice[m] # None => notice[m] = moduleState[m]

Registers == registering # None => process[registering] = "calling"

\* The only proxy of a module that has nothing to report.
Agrees(m) ==
  process[m] = "up" /\ notice[m] = None =>
    \A i \in ProxiesOf(m) :
      ProxiesOf(m) = {i} => registeredModules[i].currentState = moduleState[m]

ProxyInv == Reports /\ Registers /\ \A m \in Modules : Agrees(m)

LEMMA NoneIsNoState == None \notin State
BY DEF None, State, StableState, transitions

\* Proxies that keep their module and its state go on agreeing.
LEMMA SameProxies ==
  ASSUME TypeOK, NEW m, Agrees(m), UNCHANGED <<process[m], notice[m], moduleState[m]>>,
         Len(registeredModules') = Len(registeredModules),
         \A i \in Proxies : /\ registeredModules'[i].module = registeredModules[i].module
                            /\ i \in ProxiesOf(m) => registeredModules'[i].currentState
                                                       = registeredModules[i].currentState
  PROVE  Agrees(m)'
<1>1. ProxiesOf(m)' = ProxiesOf(m)
  BY DEF ProxiesOf, Proxies
<1>2. ProxiesOf(m) \subseteq Proxies
  BY DEF ProxiesOf, Proxies
<1> QED
  BY <1>1, <1>2 DEF Agrees

LEMMA InitProxy == Init => ProxyInv
BY DEF Init, ProxyInv, Reports, Registers, Agrees

\* The steps of the transition's thread write goals only.
LEMMA ThreadProxy == TypeOK /\ ProxyInv /\ (ChangeState \/ Transition) => ProxyInv'
<1> SUFFICES ASSUME TypeOK, ProxyInv, ChangeState \/ Transition PROVE ProxyInv'
  OBVIOUS
<1>1. UNCHANGED <<registering, process, moduleState, notice>>
  BY DEF ChangeState, Transition, setNewRegistrationsAllowed, getRigisteredModules, changeState,
         Done, module
<1>2. Len(registeredModules') = Len(registeredModules)
      /\ \A j \in Proxies : /\ registeredModules'[j].module = registeredModules[j].module
                            /\ registeredModules'[j].currentState = registeredModules[j].currentState
  <2>1. CASE UNCHANGED registeredModules
    BY <2>1
  <2>2. CASE changeState
    <3> DEFINE i == CHOOSE j \in toTell : \A k \in toTell : j <= k
    <3>1. registeredModules' = [registeredModules EXCEPT ![i].goal = Desired]
      BY <2>2 DEF changeState
    <3> HIDE DEF i
    <3>2. registeredModules \in Seq(Proxy)
      BY DEF TypeOK
    <3>3. \A j \in Proxies : registeredModules[j] \in Proxy
      BY <3>2 DEF Proxies
    <3> QED
      BY <3>1, <3>2, <3>3 DEF Proxies, Proxy
  <2> QED
    BY <2>1, <2>2 DEF ChangeState, Transition, setNewRegistrationsAllowed, getRigisteredModules, Done
<1>3. \A m \in Modules : Agrees(m)'
  BY <1>1, <1>2, SameProxies DEF ProxyInv
<1> QED
  BY <1>1, <1>3 DEF ProxyInv, Reports, Registers

\* A proxy that is pushed is a second one, or the first one of a module in SAFE.
LEMMA PushProxy == TypeOK /\ ProxyInv /\ Push => ProxyInv'
<1> SUFFICES ASSUME TypeOK, ProxyInv, Push PROVE ProxyInv'
  OBVIOUS
<1> DEFINE n == Len(registeredModules)
           p == [module |-> registering, currentState |-> "SAFE", goal |-> None]
<1>1. /\ registeredModules \in Seq(Proxy) /\ registering \in Modules /\ n \in Nat
      /\ process \in [Modules -> {"off", "calling", "up"}]
  BY DEF Push, TypeOK
<1>2. p \in Proxy
  BY <1>1 DEF Proxy, State, StableState
<1>3. /\ registeredModules' = Append(registeredModules, p)
      /\ process' = [process EXCEPT ![registering] = "up"] /\ registering' = None
      /\ UNCHANGED <<moduleState, notice>>
      /\ process[registering] = "calling"
  BY DEF Push, ProxyInv, Registers
<1>4. p.module = registering /\ p.currentState = "SAFE"
  OBVIOUS
<1> HIDE DEF p
<1>5. /\ Len(registeredModules') = n + 1 /\ registeredModules'[n + 1] = p
      /\ \A i \in 1..n : registeredModules'[i] = registeredModules[i]
  BY <1>1, <1>2, <1>3
<1>6. ASSUME NEW m \in Modules
      PROVE  ProxiesOf(m)' = ProxiesOf(m) \cup (IF m = registering THEN {n + 1} ELSE {})
  BY <1>1, <1>4, <1>5 DEF ProxiesOf
<1>7. \A m \in Modules : Agrees(m)'
  <2> SUFFICES ASSUME NEW m \in Modules, process'[m] = "up", notice'[m] = None,
                      NEW i \in ProxiesOf(m)', ProxiesOf(m)' = {i}
               PROVE  registeredModules'[i].currentState = moduleState'[m]
    BY DEF Agrees
  <2>1. CASE m = registering
    <3>1. i = n + 1
      BY <1>6, <2>1
    <3>2. moduleState[m] = "SAFE"
      BY <1>3, <2>1 DEF ProxyInv, Reports
    <3> QED
      BY <1>3, <1>4, <1>5, <3>1, <3>2
  <2>2. CASE m # registering
    <3>1. ProxiesOf(m)' = ProxiesOf(m) /\ i \in 1..n
      BY <1>6, <2>2 DEF ProxiesOf
    <3>2. process[m] = "up" /\ notice[m] = None
      BY <1>1, <1>3, <2>2
    <3> QED
      BY <1>3, <1>5, <3>1, <3>2 DEF ProxyInv, Agrees
  <2> QED
    BY <2>1, <2>2
<1>8. Reports' /\ Registers'
  BY <1>1, <1>3 DEF ProxyInv, Reports, Registers
<1> QED
  BY <1>7, <1>8 DEF ProxyInv

LEMMA RegisterProxy ==
  ASSUME TypeOK, ProxyInv, NEW m \in Modules, onRegisterServiceModuleCallback(m)
  PROVE  ProxyInv'
<1>1. /\ registering = None /\ process[m] = "calling"
      /\ UNCHANGED <<registeredModules, moduleState, notice>>
      /\ \/ registering' = m /\ UNCHANGED process
         \/ process' = [process EXCEPT ![m] = "off"] /\ UNCHANGED registering
  BY DEF onRegisterServiceModuleCallback
<1>2. \A n \in Modules : process'[n] = "up" => process[n] = "up"
  BY <1>1 DEF TypeOK
<1>3. \A n \in Modules : Agrees(n)'
  BY <1>1, <1>2 DEF ProxyInv, Agrees, ProxiesOf
<1>4. Reports' /\ Registers'
  BY <1>1 DEF ProxyInv, Reports, Registers, TypeOK
<1> QED
  BY <1>3, <1>4 DEF ProxyInv

LEMMA StateChangeProxy ==
  ASSUME TypeOK, ProxyInv, NEW m \in Modules, onStateChangeServiceCallback(m)
  PROVE  ProxyInv'
<1>1. /\ registering = None /\ notice[m] # None
      /\ notice' = [notice EXCEPT ![m] = None]
      /\ UNCHANGED <<registering, process, moduleState>>
      /\ registeredModules' = [i \in Proxies |->
          IF i \in ProxiesOf(m) /\ \A j \in ProxiesOf(m) : i <= j
          THEN [registeredModules[i] EXCEPT !.currentState = notice[m]]
          ELSE registeredModules[i]]
  BY DEF onStateChangeServiceCallback, Proxies
<1>2. /\ registeredModules \in Seq(Proxy) /\ Len(registeredModules) \in Nat
      /\ \A i \in Proxies : registeredModules[i] \in Proxy
  BY DEF TypeOK, Proxies
<1>3. Len(registeredModules') = Len(registeredModules)
      /\ \A i \in Proxies : registeredModules'[i].module = registeredModules[i].module
  BY <1>1, <1>2 DEF Proxies, Proxy
<1>4. Agrees(m)'
  <2> SUFFICES ASSUME NEW i \in ProxiesOf(m)', ProxiesOf(m)' = {i}
               PROVE  registeredModules'[i].currentState = moduleState'[m]
    BY DEF Agrees
  <2>1. ProxiesOf(m) = {i} /\ i \in Proxies
    BY <1>3 DEF ProxiesOf, Proxies
  <2>2. \A j \in ProxiesOf(m) : i <= j
    BY <2>1 DEF Proxies
  <2>3. registeredModules'[i] = [registeredModules[i] EXCEPT !.currentState = notice[m]]
    BY <1>1, <2>1, <2>2
  <2>4. registeredModules'[i].currentState = notice[m]
    BY <1>2, <2>1, <2>3 DEF Proxy
  <2> QED
    BY <1>1, <2>4 DEF ProxyInv, Reports
<1>5. ASSUME NEW n \in Modules \ {m} PROVE Agrees(n)'
  <2>1. \A i \in ProxiesOf(n) : i \notin ProxiesOf(m)
    BY DEF ProxiesOf
  <2>2. \A i \in Proxies : i \in ProxiesOf(n) =>
          registeredModules'[i].currentState = registeredModules[i].currentState
    BY <1>1, <2>1
  <2>3. UNCHANGED <<process[n], notice[n], moduleState[n]>>
    BY <1>1 DEF TypeOK
  <2> QED
    BY <1>3, <2>2, <2>3, SameProxies DEF ProxyInv
<1>6. Reports' /\ Registers'
  BY <1>1 DEF ProxyInv, Reports, Registers, TypeOK
<1> QED
  BY <1>4, <1>5, <1>6 DEF ProxyInv

\* What a module does on its own: its state and its report change together.
LEMMA ModuleProxy ==
  ASSUME TypeOK, ProxyInv, NEW m \in Modules,
         Start(m) \/ Module(m) \/ CrashModule(m) \/ \E s \in StableState : Command(m, s)
  PROVE  ProxyInv'
<1>0. UNCHANGED <<registering, registeredModules>>
  BY DEF Start, Module, onChangeStateAction, Arrive, CrashModule, Command, equiplet
<1>1. \A n \in Modules \ {m} : UNCHANGED <<process[n], notice[n], moduleState[n]>>
  BY DEF Start, Module, onChangeStateAction, Arrive, CrashModule, Command, TypeOK
<1>2. \A n \in Modules \ {m} : Agrees(n)'
  BY <1>0, <1>1, SameProxies DEF ProxyInv
<1>3. SUFFICES /\ process'[m] # "up" => notice'[m] = None
               /\ process'[m] = "calling" => moduleState'[m] = "SAFE"
               /\ notice'[m] # None => notice'[m] = moduleState'[m]
               /\ Registers' /\ Agrees(m)'
  BY <1>0, <1>1, <1>2 DEF ProxyInv, Reports, Registers, TypeOK
<1>4. CASE Start(m)
  BY <1>0, <1>4 DEF Start, ProxyInv, Reports, Registers, Agrees, TypeOK
<1>5. CASE onChangeStateAction(m)
  <2>1. /\ process[m] = "up" /\ UNCHANGED <<process, registering, registeredModules>>
        /\ \/ \E t \in transitions : moduleState'[m] = t[2] /\ notice'[m] = t[2]
           \/ UNCHANGED <<moduleState, notice>>
    BY <1>5 DEF onChangeStateAction, TypeOK, equiplet
  <2>2. \A t \in transitions : t[2] # None
    BY TransitionsType, NoneIsNoState
  <2> QED
    BY <2>1, <2>2 DEF ProxyInv, Reports, Registers, Agrees, ProxiesOf
<1>6. CASE Arrive(m)
  <2>1. /\ process[m] = "up" /\ UNCHANGED <<process, registering, registeredModules>>
        /\ \E t \in transitions : moduleState'[m] = t[3] /\ notice'[m] = t[3]
    BY <1>6 DEF Arrive, TypeOK, equiplet
  <2>2. \A t \in transitions : t[3] # None
    BY TransitionsType, NoneIsNoState DEF State
  <2> QED
    BY <2>1, <2>2 DEF ProxyInv, Reports, Registers, Agrees
<1>7. CASE CrashModule(m)
  BY <1>0, <1>7 DEF CrashModule, ProxyInv, Reports, Registers, Agrees, TypeOK
<1>8. CASE \E s \in StableState : Command(m, s)
  <2>1. UNCHANGED <<equiplet, process, moduleState, notice>>
    BY <1>8 DEF Command
  <2> QED
    BY <2>1 DEF equiplet, ProxyInv, Reports, Registers, Agrees, ProxiesOf
<1> QED
  BY <1>4, <1>5, <1>6, <1>7, <1>8 DEF Module

LEMMA RestartProxy == TypeOK /\ ProxyInv /\ RestartEquiplet => ProxyInv'
<1> SUFFICES ASSUME TypeOK, ProxyInv, RestartEquiplet PROVE ProxyInv'
  OBVIOUS
<1>1. \A m \in Modules : ProxiesOf(m)' = {}
  BY DEF RestartEquiplet, ProxiesOf
<1>2. \A m \in Modules : notice'[m] = None /\ process'[m] \in {"up", "off"}
  BY DEF RestartEquiplet
<1> QED
  BY <1>1, <1>2 DEF RestartEquiplet, ProxyInv, Reports, Registers, Agrees

LEMMA NextProxy == TypeOK /\ ProxyInv /\ [Next]_vars => ProxyInv'
<1> SUFFICES ASSUME TypeOK, ProxyInv, [Next]_vars PROVE ProxyInv'
  OBVIOUS
<1>1. CASE UNCHANGED vars
  BY <1>1 DEF vars, equiplet, module, ProxyInv, Reports, Registers, Agrees, ProxiesOf
<1> QED
  BY <1>1, ThreadProxy, PushProxy, RegisterProxy, StateChangeProxy, ModuleProxy, RestartProxy
     DEF Next, spinOnce

\* For any number of modules that crash, start again and are commanded by others,
\* the proxy of one that registered once has its state: ProxyAgrees.
THEOREM ProxyAgreesCorrect == Spec => []ProxyAgrees
<1>1. TypeOK /\ ProxyInv => ProxyAgrees
  <2> SUFFICES ASSUME ProxyInv, NEW m \in Modules, process[m] = "up", notice[m] = None,
                      Cardinality(ProxiesOf(m)) = 1, NEW i \in ProxiesOf(m), TypeOK
               PROVE  registeredModules[i].currentState = moduleState[m]
    BY DEF ProxyAgrees
  <2>1. IsFiniteSet(ProxiesOf(m))
    <3>1. IsFiniteSet(1..Len(registeredModules))
      BY FS_Interval DEF TypeOK
    <3> QED
      BY <3>1, FS_Subset DEF ProxiesOf
  <2>2. ProxiesOf(m) = {i}
    BY <2>1, FS_Singleton
  <2> QED
    BY <2>2 DEF ProxyInv, Agrees
<1> QED
  BY <1>1, TypeCorrect, InitProxy, NextProxy, PTL DEF Spec
=============================================================================
