-------------------------- MODULE CrateTrackerProps --------------------------
(***************************************************************************)
(* What must be true of CrateTracker.                                      *)
(***************************************************************************)
EXTENDS CrateTracker

Published(n) == events[n] = <<>>

\* What the events published so far say of a crate.  The moving events of a crate that was
\* not told in say nothing of it: the tracker may have dropped it without an out.
Told(h) ==
  IF h.inside THEN IF h.last = "moving" THEN "moving" ELSE "stable" ELSE "absent"

\* The events and the services agree: once the events of a frame are published, getCrate
\* answers what they say, a crate told in and not told out is one it knows, at rest unless
\* moving was the last event, and any other is unknown to it and not in the list of
\* getAllCrates, moving events or not.  The states in that list are wrong: see
\* AllCratesTellState.
AnswersAgree ==
  \A n \in Names :
    Published(n) => /\ getCrate(n) = Told(heard[n])
                    /\ n \in DOMAIN getAllCrates <=> heard[n].inside

\* A crate told to be at rest is near the place it was told to be at: within
\* the threshold of the place its tracking froze at, itself within the
\* threshold of the place that was told.
DriftBounded ==
  \A n \in Names :
    Published(n) /\ Told(heard[n]) = "stable" /\ n \in DOMAIN frame
      => /\ frame[n] - heard[n].place <= 2 * movementThreshold
         /\ heard[n].place - frame[n] <= 2 * movementThreshold

\* A moving event of a crate, told in or not, is followed by no event of that crate for
\* stableFrames frames, the one that showed the change included, however it flickers, goes
\* and comes back.  It is a bound on the pace of the events only: that what the next one
\* tells was seen for as long is not true (ChangeIsObserved).
MovingLasts ==
  \A n \in Names :
    ~Published(n) /\ heard[n].last = "moving" => age[n] >= stableFrames - 1

\* The events of a crate, as published, follow CrateStream.
CS == INSTANCE CrateStream
ImplementsCrateStream == CS!Spec

\* A crate taken away for good is not left told in, and is forgotten.
GoneIsTold ==
  \A n \in Names :
    <>[](n \notin DOMAIN scene) => <>[](~heard[n].inside /\ n \notin DOMAIN knownCrates)

\* A crate told in and left in one place for good is told to have come to rest.
StillIsTold ==
  \A n \in Names : \A p \in Places :
    <>[](n \in DOMAIN scene /\ scene[n] = p) => <>[](Told(heard[n]) # "moving")

\* A crate the tracker holds to be at rest is one the services know about.
StableIsAnnounced ==
  \A n \in DOMAIN knownCrates : knownCrates[n].stable => getCrate(n) = "stable"

\* CrateTracker.h:131-134: a change is present for stableFrames frames before it counts, so
\* at least the frame before the one that has a crate told out, or at rest again, showed
\* the same of it.
ChangeIsObserved ==
  [][\A n \in Names :
       Published(n) /\ ~Published(n)'
         => CASE events'[n][1].type = "out" -> n \notin DOMAIN frame
              [] events'[n][1].type = "moved" ->
                   n \in DOMAIN frame /\ ~hasChanged(frame[n], frame'[n])
              [] OTHER -> TRUE]_vars

\* CrateLocatorNode.cpp:164-167: getAllCrates answers with the state of each crate.
AllCratesTellState == \A n \in DOMAIN getAllCrates : getAllCrates[n] = getCrate(n)
=============================================================================
