------------------------------ MODULE Lifecycle ------------------------------
(***************************************************************************)
(* What a state machine promises: its state moves along the arrows of      *)
(* transitionMap only, a transition starts in a mode that possibly has it, *)
(* the mode does not change under a transition, and a transition that does *)
(* not succeed goes through its abort transition to where it started.      *)
(***************************************************************************)
CONSTANT modes

VARIABLES state, mode

Stable == {"SAFE", "STANDBY", "NORMAL"}

Possible(m) ==
  CASE m = "ERROR"          -> {"STANDBY", "SAFE", "SETUP", "SHUTDOWN", "STOP"}
    [] m = "CRITICAL_ERROR" -> {"SAFE", "STOP", "SHUTDOWN"}
    [] m = "E_STOP"         -> {"SAFE"}
    [] m = "LOCK"           -> Stable \cup {"STOP"}
    [] OTHER                -> Stable \cup {"SETUP", "SHUTDOWN", "START", "STOP"}

Init == state = "SAFE" /\ mode = "NORMAL"

Move(from, to) == state = from /\ state' = to /\ UNCHANGED mode

Begin ==
  /\ \/ Move("SAFE", "SETUP") \/ Move("STANDBY", "SHUTDOWN")
     \/ Move("STANDBY", "START") \/ Move("NORMAL", "STOP")
  /\ state' \in Possible(mode)

Finish ==
  \/ Move("SETUP", "STANDBY") \/ Move("SHUTDOWN", "SAFE")
  \/ Move("START", "NORMAL") \/ Move("STOP", "STANDBY")

Abort == Move("SETUP", "SHUTDOWN") \/ Move("START", "STOP")

ChangeMode ==
  /\ state \in Stable
  /\ mode' \in modes
  /\ UNCHANGED state

Next == Begin \/ Finish \/ Abort \/ ChangeMode

Spec == Init /\ [][Next]_<<state, mode>>
=============================================================================
