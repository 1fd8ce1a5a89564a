---------------------------- MODULE EquipletProps ----------------------------
(***************************************************************************)
(* What must be true of Equiplet.                                          *)
(***************************************************************************)
EXTENDS Equiplet

Told(s) == {i \in 1..Len(registeredModules) : registeredModules[i].goal = s}

\* Once the equiplet is set up every registered module has been told to be on
\* standby, but for at most one: the registration that was past its test of the
\* flag when the transition cleared it.
AlmostAllTold ==
  state \in {"STANDBY", "NORMAL"}
    => Cardinality((1..Len(registeredModules)) \ Told("STANDBY")) <= 1

\* When the equiplet is safe, no module was last told to be on standby.
ShutdownTellsAll == state = "SAFE" => Told("STANDBY") = {}

\* The proxy of a module that registered once has the state of the module,
\* unless the module is just reporting a new one.
ProxyAgrees ==
  \A m \in Modules :
    process[m] = "up" /\ notice[m] = None /\ Cardinality(ProxiesOf(m)) = 1
      => \A i \in ProxiesOf(m) : registeredModules[i].currentState = moduleState[m]

\* The equiplet rests, and all it told a module is s.
Follows(m, s) ==
  /\ pc = "idle" /\ state \in {"SAFE", "STANDBY", "NORMAL"}
  /\ process[m] = "up"
  /\ ProxiesOf(m) # {} /\ ProxiesOf(m) \subseteq Told(s)

\* A module nobody else commands gets to the state it was told, in spite of the
\* earlier goals, replaced ones included, that it may still be busy with.
ModulesFollow ==
  \A m \in Modules \ {o[1] : o \in Others} : \A s \in {"SAFE", "STANDBY"} :
    Follows(m, s) ~> (moduleState[m] = s \/ ~Follows(m, s))
=============================================================================
