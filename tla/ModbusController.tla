-------------------------- MODULE ModbusController --------------------------
(***************************************************************************)
(* rexos_modbus::ModbusController: writes 32-bit values to pairs of 16-bit *)
(* registers of the motor drivers, and keeps a shadow of what it wrote so  *)
(* that a half a driver already has need not be sent again.  A register is *)
(* named by its driver and its motion slot: of the four values of a slot   *)
(* (speed, position, acceleration, deceleration), which are written alike, *)
(* the position stands for all.                                            *)
(***************************************************************************)
EXTENDS Integers, FiniteSets

CONSTANTS
  Motors,     \* the drivers on the bus
  Radix,      \* what a word can hold, 2^16 in the code
  Values,     \* what is written
  Faults      \* how a request may fail

Fault == {"lost",        \* the request never arrives, the answer times out
          "late",        \* it is obeyed, but the answer is lost
          "deaf",        \* a broadcast reaches some of the drivers only
          "bus",         \* the port refuses a broadcast, so its call fails
          "alarm",       \* a driver that is not ready reports a warning or an alarm
          "sensor",      \* a calibration sensor is not connected
          "crash"}       \* the process ends where no exception is caught

ASSUME RadixAssumption  == Radix \in Nat \ {0}
Operand == 0..(Radix * Radix - 1)      \* what two words can hold

ASSUME MotorsAssumption == Motors \subseteq Nat /\ IsFiniteSet(Motors)
ASSUME ValuesAssumption == Values \subseteq Operand
ASSUME FaultsAssumption == Faults \subseteq Fault

Slot == 1..2
Half == {"high", "low"}
Word == 0..(Radix - 1)
None == -1              \* an address the shadow map does not have

VARIABLES
  register,   \* per driver, slot and half: what the driver holds
  shadow      \* the same, as the controller remembers it

Halves(value) == [h \in Half |-> IF h = "high" THEN value \div Radix ELSE value % Radix]
ValueOf(pair) == pair["high"] * Radix + pair["low"]

Addressed(T) == [Motors -> [Slot -> [Half -> T]]]

\* How one unicast request may end.  A timeout is an exception to the caller.
Outcome == {"ok"} \cup (Faults \cap {"lost", "late"})

\* Mutant: a half that is skipped makes the other half skipped too.
NotShadowedBoth(m, s, data) ==
  IF \A h \in Half : shadow[m][s][h] # data[h] THEN Half ELSE {}

\* getShadow: the halves of a value that are not known to be there already.
NotShadowed(m, s, data) == {h \in Half : shadow[m][s][h] # data[h]}

Sent(table, m, s, halves, data) ==
  [table EXCEPT ![m][s] = [h \in Half |-> IF h \in halves THEN data[h] ELSE @[h]]]

\* Mutant: the shadow is set before the answer is known.
writeU32ShadowFirst(m, s, value, outcome) ==
  LET data   == Halves(value)
      halves == NotShadowed(m, s, data)
  IN
  /\ register' = IF outcome \in {"ok", "late"}
                 THEN Sent(register, m, s, halves, data) ELSE register
  /\ shadow' = Sent(shadow, m, s, halves, data)

\* writeU32 with useShadow, up to its return or its exception.
writeU32(m, s, value, outcome) ==
  LET data   == Halves(value)
      halves == NotShadowed(m, s, data)
  IN
  /\ register' = IF outcome \in {"ok", "late"}
                 THEN Sent(register, m, s, halves, data) ELSE register
  /\ shadow' = IF outcome = "ok" THEN Sent(shadow, m, s, halves, data) ELSE shadow
=============================================================================
