---------------------------- MODULE CrateTracker ----------------------------
(***************************************************************************)
(* rexos_vision::CrateTracker and the callback of the crate locator node   *)
(* that drives it: every camera frame yields the crates whose QR code was  *)
(* read, the tracker debounces what changed, and the callback publishes    *)
(* the tracker's events on a topic before it takes the next frame.  A      *)
(* crate is a name at a place; the three corners of its code are one       *)
(* number, and the distance they moved is the difference of two of them.   *)
(***************************************************************************)
EXTENDS Integers, Sequences

CONSTANTS
  Names,              \* what the QR codes say
  Places,             \* where a code can be read
  stableFrames,
  movementThreshold

ASSUME PlacesAssumption    == Places \subseteq Int
ASSUME FramesAssumption    == stableFrames \in Nat \ {0}
ASSUME ThresholdAssumption == movementThreshold \in Nat

VARIABLES
  knownCrates,  \* the map: for the names it has, what the tracker knows
  scene,        \* what the camera can read now: for some names, the place
  frame,        \* the scene of the last image the callback worked on
  events,       \* per name, the events of that frame still to be published
  heard,        \* per name, a history of the events published
  age           \* per name, a history too: frames since its last event

vars == <<knownCrates, scene, frame, events, heard, age>>

Crate(old, new, stable, left, place) ==
  [oldSituation |-> old, newSituation |-> new, stable |-> stable,
   framesLeft |-> left, place |-> place]

Event(type, place) == [type |-> type, place |-> place]

EventTypes == {"in", "moving", "moved", "out"}

\* What the published events of a crate come to: the last of them, whether it was told in
\* and not out since, where the last in or moved event put it, and a beat that every event
\* turns, so that one that repeats another shows.
History == [last : EventTypes \cup {"none"}, inside : BOOLEAN, place : Places \cup {0},
            beat : {0, 1}]

\* A frame shows some of the codes, each once.
Frame == UNION {[seen -> Places] : seen \in SUBSET Names}

TypeOK ==
  /\ DOMAIN knownCrates \subseteq Names
  /\ \A n \in DOMAIN knownCrates :
       knownCrates[n] \in [oldSituation : BOOLEAN, newSituation : BOOLEAN, stable : BOOLEAN,
                           framesLeft : -1..stableFrames, place : Places]
  /\ scene \in Frame /\ frame \in Frame
  /\ \A n \in Names : \A i \in 1..Len(events[n]) :
       events[n][i] \in [type : EventTypes, place : Places \cup {0}]
  /\ heard \in [Names -> History]
  /\ age \in [Names -> 0..stableFrames]

Init ==
  /\ knownCrates = <<>>
  /\ scene = <<>> /\ frame = <<>>
  /\ events = [n \in Names |-> <<>>]
  /\ heard = [n \in Names |-> [last |-> "none", inside |-> FALSE, place |-> 0, beat |-> 0]]
  /\ age = [n \in Names |-> 0]
-----------------------------------------------------------------------------
hasChanged(p, q) == p - q > movementThreshold \/ q - p > movementThreshold

\* update sets five fields of a new crate, but the map stores a copy of it and
\* Crate's copy constructor gives the copy the values of a new object.
NewCrate(p) == Crate(FALSE, TRUE, FALSE, 0, p)

\* What a crate becomes, and the events it causes.
Result(crate, evs) == [crate |-> crate, events |-> evs]

\* Mutant: the timer of a crate that moved is reset, its place is not stored.
SeeKeepsPlace(c, p) ==
  IF hasChanged(c.place, p)
  THEN Result([c EXCEPT !.framesLeft = stableFrames, !.stable = FALSE],
              IF c.stable THEN <<Event("moving", p)>> ELSE <<>>)
  ELSE IF c.stable THEN Result(c, <<>>)
  ELSE Result([c EXCEPT !.stable = TRUE, !.oldSituation = TRUE],
              <<Event(IF c.oldSituation THEN "moved" ELSE "in", c.place)>>)

\* Mutant: every sighting of a crate at rest stores its place anew.
SeeFollows(c, p) ==
  IF hasChanged(c.place, p)
  THEN Result([c EXCEPT !.framesLeft = stableFrames, !.stable = FALSE, !.place = p],
              IF c.stable THEN <<Event("moving", p)>> ELSE <<>>)
  ELSE IF c.stable THEN Result([c EXCEPT !.place = p], <<>>)
  ELSE Result([c EXCEPT !.stable = TRUE, !.oldSituation = TRUE],
              <<Event(IF c.oldSituation THEN "moved" ELSE "in", c.place)>>)

\* Mutant: a crate that came in is not remembered to have been there.
SeeForgetsIn(c, p) ==
  IF hasChanged(c.place, p)
  THEN Result([c EXCEPT !.framesLeft = stableFrames, !.stable = FALSE, !.place = p],
              IF c.stable THEN <<Event("moving", p)>> ELSE <<>>)
  ELSE IF c.stable THEN Result(c, <<>>)
  ELSE Result([c EXCEPT !.stable = TRUE],
              <<Event(IF c.oldSituation THEN "moved" ELSE "in", c.place)>>)

\* A known crate is read at p: it began to move, it is still, it has been
\* still for long enough, or it was at rest already.
See(c, p) ==
  LET left == c.framesLeft - 1
      rest == [c EXCEPT !.stable = TRUE, !.framesLeft = left]
  IN
  CASE hasChanged(c.place, p) ->
         Result([c EXCEPT !.framesLeft = stableFrames, !.stable = FALSE,
                          !.newSituation = TRUE, !.place = p],
                IF c.stable THEN <<Event("moving", p)>> ELSE <<>>)
    [] ~hasChanged(c.place, p) /\ c.stable -> Result(c, <<>>)
    [] ~hasChanged(c.place, p) /\ ~c.stable /\ left > 0 ->
         Result([c EXCEPT !.framesLeft = left], <<>>)
    [] OTHER ->
         IF c.oldSituation
         THEN Result([rest EXCEPT !.place = p, !.newSituation = TRUE],
                     <<Event("moved", c.place)>>)
         ELSE IF c.newSituation
              THEN Result([rest EXCEPT !.oldSituation = TRUE], <<Event("in", c.place)>>)
              ELSE Result(rest, <<>>)

\* Mutant: a crate at rest that is missed causes no moving event.
MissSilently(c) ==
  LET left == IF c.stable THEN stableFrames - 1 ELSE c.framesLeft - 1 IN
  Result([c EXCEPT !.stable = FALSE, !.newSituation = FALSE, !.framesLeft = left],
         IF left <= 0 /\ c.oldSituation THEN <<Event("out", 0)>> ELSE <<>>)

\* Mutant: the timer of a crate at rest that is missed is not reset.
MissNoReset(c) ==
  LET left == c.framesLeft - 1 IN
  Result([c EXCEPT !.stable = FALSE, !.newSituation = FALSE, !.framesLeft = left],
         (IF c.stable THEN <<Event("moving", 0)>> ELSE <<>>)
         \o (IF left <= 0 /\ c.oldSituation THEN <<Event("out", 0)>> ELSE <<>>))

\* Mutant: a crate that is missed keeps its stable flag, so every frame resets it.
MissStaysStable(c) ==
  LET left == IF c.stable THEN stableFrames - 1 ELSE c.framesLeft - 1 IN
  Result([c EXCEPT !.newSituation = FALSE, !.framesLeft = left],
         (IF c.stable THEN <<Event("moving", 0)>> ELSE <<>>)
         \o (IF left <= 0 /\ c.oldSituation THEN <<Event("out", 0)>> ELSE <<>>))

\* removeUntrackedCrates, for a known crate the frame does not show: a moving
\* event without a place when it was at rest, and one frame less to wait.
Miss(c) ==
  LET left == IF c.stable THEN stableFrames - 1 ELSE c.framesLeft - 1 IN
  Result([c EXCEPT !.stable = FALSE, !.newSituation = FALSE, !.framesLeft = left],
         (IF c.stable THEN <<Event("moving", 0)>> ELSE <<>>)
         \o (IF left <= 0 /\ c.oldSituation THEN <<Event("out", 0)>> ELSE <<>>))

Update(n, f) ==
  IF n \in DOMAIN knownCrates
  THEN IF n \in DOMAIN f THEN See(knownCrates[n], f[n]) ELSE Miss(knownCrates[n])
  ELSE Result(NewCrate(f[n]), <<>>)

\* crateLocateCallback up to the publishing loop.
crateLocateCallback ==
  LET f       == scene
      touched == DOMAIN knownCrates \cup DOMAIN f
      gone    == {n \in touched \ DOMAIN f : Update(n, f).crate.framesLeft <= 0}
  IN
  /\ \A n \in Names : events[n] = <<>>
  /\ frame' = f
  /\ knownCrates' = [n \in touched \ gone |-> Update(n, f).crate]
  /\ events' = [n \in Names |-> IF n \in touched THEN Update(n, f).events ELSE <<>>]
  /\ age' = [n \in Names |-> IF age[n] < stableFrames THEN age[n] + 1 ELSE age[n]]
  /\ UNCHANGED <<scene, heard>>

\* Every event goes down in the history as it was published.
Hear(h, e) ==
  [last   |-> e.type,
   inside |-> e.type = "in" \/ (h.inside /\ e.type # "out"),
   place  |-> IF e.type \in {"in", "moved"} THEN e.place ELSE h.place,
   beat   |-> 1 - h.beat]

\* One turn of the publishing loop.
Publish(n) ==
  /\ events[n] # <<>>
  /\ heard' = [heard EXCEPT ![n] = Hear(@, Head(events[n]))]
  /\ events' = [events EXCEPT ![n] = Tail(@)]
  /\ age' = [age EXCEPT ![n] = 0]
  /\ UNCHANGED <<knownCrates, scene, frame>>

\* Crates come, go and are moved, and codes are misread, at any time.
Change ==
  /\ scene' \in Frame \ {scene}
  /\ UNCHANGED <<knownCrates, frame, events, heard, age>>

Next == Change \/ crateLocateCallback \/ \E n \in Names : Publish(n)

\* The camera goes on sending images and the callback runs to its end; nobody
\* has to move a crate.
Fairness == WF_vars(crateLocateCallback) /\ \A n \in Names : WF_vars(Publish(n))

Spec == Init /\ [][Next]_vars
FairSpec == Spec /\ Fairness
-----------------------------------------------------------------------------
getState(c) ==
  IF c.oldSituation THEN IF c.stable THEN "stable" ELSE "moving" ELSE "absent"

\* The state the getCrate service answers: the tracker assigns it the whole crate.
getCrate(n) == IF n \in DOMAIN knownCrates THEN getState(knownCrates[n]) ELSE "absent"

\* The crates the getAllCrates service lists, each with the state it answers for it: the
\* tracker fills the list with copies, which have the values of new objects.
getAllCrates ==
  [n \in {m \in DOMAIN knownCrates : getState(knownCrates[m]) # "absent"} |->
     getState(NewCrate(knownCrates[n].place))]
=============================================================================
