------------------------ MODULE CrateLocatorNodeProps ------------------------
(***************************************************************************)
(* What must be true of CrateLocatorNode.                                   *)
(***************************************************************************)
EXTENDS CrateLocatorNode

\* The averages are of whole measurements, one point per buffer for each, although
\* main may still have been in calibrateCallback when the loop saw the last count.
WholeMeasurements ==
  pc = "evaluating" => \A i \in 1..3 : buffer[i] = measurementCount

Uses(t) == Source(t) \in {"camera", "services"}

\* No two threads use the tracker, and nobody locates crates while the transformer
\* gets its coordinates: neither has a lock, only one thread spins outside of SETUP.
TrackerIsAlone ==
  /\ ~(Uses("main") /\ Uses("action"))
  /\ pc = "evaluating" => \A t \in Threads : ~Uses(t)

\* A transition ends, with measurements or without, as long as images come: the loop
\* of the calibration has no other end, and every shutdown waits for callbacks.  Only
\* a calibration after one that succeeded may end the node instead.
TransitionsEnd ==
  pc \notin States \cup {"dead"} ~> (pc \in States \/ (pc = "dead" /\ markers > 3))
=============================================================================
