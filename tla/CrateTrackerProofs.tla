------------------------- MODULE CrateTrackerProofs -------------------------
(***************************************************************************)
(* Proofs about CrateTracker, for any crates, places, threshold and number  *)
(* of frames.  The invariant speaks of one crate at a time, so the work is  *)
(* in lemmas about See, Miss and the publishing of one event.               *)
(***************************************************************************)
EXTENDS CrateTrackerProps, SequenceTheorems, TLAPS

\* What a crate, an event and a row of events are.
CrateType == [oldSituation : BOOLEAN, newSituation : BOOLEAN, stable : BOOLEAN,
              framesLeft : -1..stableFrames, place : Places]

Near(p, q) == p - q <= movementThreshold /\ q - p <= movementThreshold

\* The last event was no moving, or it is long enough ago.
Quiet(h, a) == h.last = "moving" => a >= stableFrames - 1

\* A crate the tracker knows, with the history of its events (h), the events still to be
\* published (e) and the frames since the last (a).
GoodKnown(c, h, e, a) ==
  /\ ~c.stable => c.framesLeft >= 0
  /\ \/ /\ e = <<>> /\ Told(h) = getState(c)
        /\ c.stable /\ c.oldSituation => Near(h.place, c.place)
        /\ Quiet(h, IF c.stable THEN a ELSE a + c.framesLeft)
     \/ /\ c.stable /\ c.oldSituation /\ Quiet(h, a)
        /\ \E p \in Places :
             /\ Near(p, c.place)
             /\ \/ e = <<Event("in", p)>> /\ Told(h) = "absent"
                \/ e = <<Event("moved", p)>> /\ Told(h) = "moving"
     \/ /\ ~c.stable /\ c.framesLeft >= stableFrames - 1 /\ Quiet(h, a)
        /\ Told(h) = IF c.oldSituation THEN "stable" ELSE "absent"
        /\ \E p \in Places \cup {0} : e = <<Event("moving", p)>>

\* A crate it does not know, or no more.
GoodGone(h, e, a) ==
  \/ e = <<>> /\ Told(h) = "absent" /\ Quiet(h, a)
  \/ e = <<Event("out", 0)>> /\ Told(h) = "moving" /\ Quiet(h, a)
  \/ e = <<Event("moving", 0)>> /\ Told(h) = "absent" /\ stableFrames = 1
  \/ e = <<Event("moving", 0), Event("out", 0)>> /\ Told(h) = "stable" /\ stableFrames = 1

GoodOne(n) ==
  IF n \in DOMAIN knownCrates
  THEN /\ GoodKnown(knownCrates[n], heard[n], events[n], age[n])
       /\ knownCrates[n].stable /\ n \in DOMAIN frame =>
            ~hasChanged(knownCrates[n].place, frame[n])
  ELSE GoodGone(heard[n], events[n], age[n])

Good == \A n \in Names : GoodOne(n)

EventType == [type : EventTypes, place : Places \cup {0}]

TypeInv ==
  /\ DOMAIN knownCrates \subseteq Names
  /\ \A n \in DOMAIN knownCrates : knownCrates[n] \in CrateType
  /\ scene \in Frame /\ frame \in Frame
  /\ events \in [Names -> Seq(EventType)]
  /\ heard \in [Names -> History]
  /\ age \in [Names -> 0..stableFrames]

Inv == TypeInv /\ Good

\* One frame more, as the callback counts it.
Older(a) == IF a < stableFrames THEN a + 1 ELSE a

\* An event that CrateStream allows after this history.
Allowed(h, e) ==
  \/ e.type = "in" /\ ~h.inside /\ e.place \in Places
  \/ e.type = "moved" /\ h.inside /\ h.last = "moving" /\ e.place \in Places
  \/ e.type = "out" /\ h.inside /\ h.last = "moving"
  \/ e.type = "moving" /\ (~h.inside \/ h.last # "moving")
-----------------------------------------------------------------------------
\* Rows of one and of two events.
LEMMA OneElement ==
  ASSUME NEW S, NEW x \in S
  PROVE  /\ <<x>> \in Seq(S) /\ Head(<<x>>) = x /\ Tail(<<x>>) = <<>>
         /\ <<x>> \o <<>> = <<x>> /\ <<>> \o <<x>> = <<x>>
OBVIOUS

LEMMA TwoElements ==
  ASSUME NEW S, NEW x \in S, NEW y \in S
  PROVE  /\ <<x, y>> \in Seq(S) /\ Head(<<x, y>>) = x /\ Tail(<<x, y>>) = <<y>>
         /\ <<x>> \o <<y>> = <<x, y>>
<1>1. <<x, y>> \in Seq(S) /\ Head(<<x, y>>) = x
  OBVIOUS
<1>2. Tail(<<x, y>>) = <<y>>
  OBVIOUS
<1>3. <<x>> \o <<y>> = <<x, y>>
  <2> DEFINE a == <<x>>
             b == <<y>>
  <2>1. a \in Seq(S) /\ b \in Seq(S) /\ Len(a) = 1 /\ Len(b) = 1 /\ a[1] = x /\ b[1] = y
    OBVIOUS
  <2> HIDE DEF a, b
  <2>2. /\ a \o b \in Seq(S) /\ Len(a \o b) = 2 /\ (a \o b)[1] = x /\ (a \o b)[2] = y
    <3>1. a \o b \in Seq(S) /\ Len(a \o b) = Len(a) + Len(b)
      BY <2>1, ConcatProperties, Zenon
    <3>2. \A i \in 1..(Len(a) + Len(b)) :
            (a \o b)[i] = IF i <= Len(a) THEN a[i] ELSE b[i - Len(a)]
      BY <2>1, ConcatProperties, Zenon
    <3>3. Len(a) + Len(b) = 2
      BY <2>1
    <3>4. (a \o b)[1] = x
      BY <2>1, <3>2
    <3>5. (a \o b)[2] = y
      BY <2>1, <3>2
    <3> QED BY <3>1, <3>3, <3>4, <3>5
  <2>3. \A s \in Seq(S) : Len(s) = 2 /\ s[1] = x /\ s[2] = y => s = <<x, y>>
    OBVIOUS
  <2>4. a \o b = <<x, y>>
    BY <2>2, <2>3
  <2> QED BY <2>4 DEF a, b
<1> QED BY <1>1, <1>2, <1>3

\* A crate that is read stays in one of the good shapes, and lies within the threshold
\* of the reading when it is at rest after it.
LEMMA SeeGood ==
  ASSUME NEW c \in CrateType, NEW p \in Places, NEW h \in History,
         NEW a \in 0..stableFrames, GoodKnown(c, h, <<>>, a)
  PROVE  LET r == See(c, p) IN
         /\ r.crate \in CrateType /\ r.events \in Seq(EventType)
         /\ GoodKnown(r.crate, h, r.events, Older(a))
         /\ r.crate.stable => ~hasChanged(r.crate.place, p)
<1> DEFINE left == c.framesLeft - 1
           r == See(c, p)
<1>0. /\ stableFrames \in Nat \ {0} /\ movementThreshold \in Nat
      /\ c.place \in Int /\ p \in Int /\ c.framesLeft \in -1..stableFrames
      /\ c.place \in Places
  BY FramesAssumption, ThresholdAssumption, PlacesAssumption DEF CrateType
<1>g. /\ Told(h) = getState(c) /\ (~c.stable => c.framesLeft >= 0)
      /\ c.stable /\ c.oldSituation => Near(h.place, c.place)
      /\ Quiet(h, IF c.stable THEN a ELSE a + c.framesLeft)
  BY DEF GoodKnown, Event
<1>e. \A ty \in {"in", "moving", "moved", "out"}, q \in Places \cup {0} :
        <<Event(ty, q)>> \in Seq(EventType)
  BY DEF Event, EventType, EventTypes
<1>1. CASE hasChanged(c.place, p)
  <2>1. /\ r.crate = [c EXCEPT !.framesLeft = stableFrames, !.stable = FALSE,
                               !.newSituation = TRUE, !.place = p]
        /\ r.events = IF c.stable THEN <<Event("moving", p)>> ELSE <<>>
    BY <1>1 DEF See, Result
  <2>2. r.crate \in CrateType /\ r.events \in Seq(EventType)
    <3>0. stableFrames \in -1..stableFrames /\ p \in Places
      BY <1>0
    <3>1. r.crate \in CrateType
      BY <2>1, <3>0, Zenon DEF CrateType
    <3>2. r.events = <<Event("moving", p)>> \/ r.events = <<>>
      BY <2>1
    <3>3. <<Event("moving", p)>> \in Seq(EventType) /\ <<>> \in Seq(EventType)
      BY <1>e
    <3> QED BY <3>1, <3>2, <3>3
  <2>3. GoodKnown(r.crate, h, r.events, Older(a))
    BY <2>1, <1>0, <1>g DEF GoodKnown, CrateType, getState, Quiet, Older
  <2> QED BY <2>1, <2>2, <2>3 DEF CrateType
<1>2. CASE ~hasChanged(c.place, p) /\ c.stable
  <2>1. r.crate = c /\ r.events = <<>>
    BY <1>2 DEF See, Result
  <2>2. GoodKnown(r.crate, h, r.events, Older(a))
    BY <2>1, <1>0, <1>2, <1>g DEF GoodKnown, Quiet, Older
  <2> QED BY <2>1, <2>2, <1>2
<1>3. CASE ~hasChanged(c.place, p) /\ ~c.stable /\ left > 0
  <2>1. r.crate = [c EXCEPT !.framesLeft = left] /\ r.events = <<>>
    BY <1>3 DEF See, Result
  <2>2. r.crate \in CrateType
    BY <2>1, <1>0, <1>3 DEF CrateType
  <2>3. GoodKnown(r.crate, h, r.events, Older(a))
    BY <2>1, <1>0, <1>g, <1>3 DEF GoodKnown, CrateType, getState, Quiet, Older
  <2> QED BY <2>1, <2>2, <2>3, <1>3 DEF CrateType
<1>4. CASE ~hasChanged(c.place, p) /\ ~c.stable /\ ~(left > 0)
  <2> DEFINE rest == [c EXCEPT !.stable = TRUE, !.framesLeft = left]
  <2>0. /\ Near(c.place, p) /\ Near(c.place, c.place) /\ ~hasChanged(p, p)
        /\ rest \in CrateType /\ rest.stable /\ rest.place = c.place
        /\ rest.oldSituation = c.oldSituation
    <3>1. Near(c.place, p) /\ Near(c.place, c.place) /\ ~hasChanged(p, p)
      BY <1>0, <1>4 DEF Near, hasChanged
    <3>2. left \in -1..stableFrames
      BY <1>0, <1>4, <1>g
    <3> HIDE DEF left
    <3>3. /\ rest \in CrateType /\ rest.stable /\ rest.place = c.place
      BY <3>2 DEF CrateType
    <3>4. rest.oldSituation = c.oldSituation
      BY Zenon DEF CrateType
    <3> QED BY <3>1, <3>3, <3>4
  <2>1. CASE c.oldSituation
    <3>1. /\ r.crate = [rest EXCEPT !.place = p, !.newSituation = TRUE]
          /\ r.events = <<Event("moved", c.place)>>
      BY <1>4, <2>1 DEF See, Result
    <3>2. r.crate \in CrateType /\ r.events \in Seq(EventType)
      BY <3>1, <2>0, <1>0, <1>e DEF CrateType
    <3>3. r.crate.stable /\ r.crate.oldSituation /\ r.crate.place = p
      BY <3>1, <2>0, <2>1 DEF CrateType
    <3>4. Told(h) = "moving" /\ Older(a) >= stableFrames - 1
      BY <1>0, <1>g, <1>4, <2>1 DEF getState, Quiet, Told, Older
    <3>5. GoodKnown(r.crate, h, r.events, Older(a))
      BY <3>1, <3>3, <3>4, <2>0, <1>0 DEF GoodKnown, Quiet
    <3> QED BY <3>2, <3>3, <3>5, <2>0
  <2>2. CASE ~c.oldSituation /\ c.newSituation
    <3>1. /\ r.crate = [rest EXCEPT !.oldSituation = TRUE]
          /\ r.events = <<Event("in", c.place)>>
      BY <1>4, <2>2 DEF See, Result
    <3>2. r.crate \in CrateType /\ r.events \in Seq(EventType)
      BY <3>1, <2>0, <1>0, <1>e DEF CrateType
    <3>3. r.crate.stable /\ r.crate.oldSituation /\ r.crate.place = c.place
      BY <3>1, <2>0, <2>2 DEF CrateType
    <3>4. Told(h) = "absent" /\ Quiet(h, Older(a))
      BY <1>0, <1>4, <1>g, <2>2 DEF getState, Quiet, Older
    <3>5. GoodKnown(r.crate, h, r.events, Older(a))
      BY <3>1, <3>3, <3>4, <2>0, <1>0 DEF GoodKnown, Quiet
    <3> QED BY <3>2, <3>3, <3>5, <1>4
  <2>3. CASE ~c.oldSituation /\ ~c.newSituation
    <3>1. r.crate = rest /\ r.events = <<>>
      BY <1>4, <2>3 DEF See, Result
    <3>2. GoodKnown(r.crate, h, r.events, Older(a))
      BY <3>1, <2>0, <2>3, <1>0, <1>4, <1>g DEF GoodKnown, getState, Quiet, Older
    <3> QED BY <3>1, <3>2, <2>0, <1>4
  <2> QED BY <2>1, <2>2, <2>3
<1> QED BY <1>1, <1>2, <1>3, <1>4

\* A crate that is missed stays in one of the good shapes, or is gone in a good way.
LEMMA MissGood ==
  ASSUME NEW c \in CrateType, NEW h \in History,
         NEW a \in 0..stableFrames, GoodKnown(c, h, <<>>, a)
  PROVE  LET r == Miss(c) IN
         /\ r.crate \in CrateType /\ r.events \in Seq(EventType)
         /\ r.crate.framesLeft > 0 => GoodKnown(r.crate, h, r.events, Older(a))
         /\ r.crate.framesLeft <= 0 => GoodGone(h, r.events, Older(a))
         /\ ~r.crate.stable
<1> DEFINE left == IF c.stable THEN stableFrames - 1 ELSE c.framesLeft - 1
           r == Miss(c)
<1>0. stableFrames \in Nat \ {0} /\ c.framesLeft \in -1..stableFrames
  BY FramesAssumption DEF CrateType
<1>g. /\ Told(h) = getState(c) /\ (~c.stable => c.framesLeft >= 0)
      /\ Quiet(h, IF c.stable THEN a ELSE a + c.framesLeft)
  BY DEF GoodKnown, Event
<1>1. /\ r.crate = [c EXCEPT !.stable = FALSE, !.newSituation = FALSE, !.framesLeft = left]
      /\ r.crate \in CrateType /\ ~r.crate.stable /\ r.crate.framesLeft = left
      /\ r.crate.oldSituation = c.oldSituation
  <2>1. r.crate = [c EXCEPT !.stable = FALSE, !.newSituation = FALSE, !.framesLeft = left]
    BY DEF Miss, Result
  <2>2. left \in -1..stableFrames
    BY <1>0, <1>g
  <2> HIDE DEF left, r
  <2>3. r.crate \in CrateType /\ ~r.crate.stable /\ r.crate.framesLeft = left
    BY <2>1, <2>2 DEF CrateType
  <2>4. r.crate.oldSituation = c.oldSituation
    BY <2>1, Zenon DEF CrateType
  <2> QED BY <2>1, <2>3, <2>4
<1>2. r.events = (IF c.stable THEN <<Event("moving", 0)>> ELSE <<>>)
                 \o (IF left <= 0 /\ c.oldSituation THEN <<Event("out", 0)>> ELSE <<>>)
  BY DEF Miss, Result
<1>3. Event("moving", 0) \in EventType /\ Event("out", 0) \in EventType
  BY DEF Event, EventType, EventTypes
<1> DEFINE mv == Event("moving", 0)
           ou == Event("out", 0)
<1>4. /\ c.stable /\ left <= 0 /\ c.oldSituation => r.events = <<mv, ou>>
      /\ c.stable /\ ~(left <= 0 /\ c.oldSituation) => r.events = <<mv>>
      /\ ~c.stable /\ left <= 0 /\ c.oldSituation => r.events = <<ou>>
      /\ ~c.stable /\ ~(left <= 0 /\ c.oldSituation) => r.events = <<>>
  <2> HIDE DEF mv, ou, left
  <2>1. /\ <<mv>> \o <<ou>> = <<mv, ou>> /\ <<mv>> \o <<>> = <<mv>>
        /\ <<>> \o <<ou>> = <<ou>> /\ <<>> \o <<>> = <<>>
    <3>1. mv \in EventType /\ ou \in EventType
      BY <1>3 DEF mv, ou
    <3> QED BY <3>1, OneElement, TwoElements
  <2> QED BY <2>1, <1>2 DEF mv, ou, left
<1>5. r.events \in Seq(EventType)
  <2>1. mv \in EventType /\ ou \in EventType
    BY <1>3
  <2> HIDE DEF mv, ou, r, left
  <2>2. <<mv>> \in Seq(EventType) /\ <<ou>> \in Seq(EventType) /\ <<mv, ou>> \in Seq(EventType)
    BY <2>1, OneElement, TwoElements
  <2>3. <<>> \in Seq(EventType)
    OBVIOUS
  <2> QED BY <1>4, <2>2, <2>3
<1>6. ASSUME r.crate.framesLeft > 0
      PROVE  GoodKnown(r.crate, h, r.events, Older(a))
  <2>1. CASE c.stable
    BY <2>1, <1>0, <1>1, <1>4, <1>6, <1>g DEF GoodKnown, getState, Quiet, Older
  <2>2. CASE ~c.stable
    BY <2>2, <1>0, <1>1, <1>4, <1>6, <1>g DEF GoodKnown, getState, Quiet, Older
  <2> QED BY <2>1, <2>2
<1>7. ASSUME r.crate.framesLeft <= 0
      PROVE  GoodGone(h, r.events, Older(a))
  <2>1. CASE c.stable
    BY <2>1, <1>0, <1>1, <1>4, <1>7, <1>g DEF GoodGone, getState
  <2>2. CASE ~c.stable
    BY <2>2, <1>0, <1>1, <1>4, <1>7, <1>g DEF GoodGone, getState, Quiet, Older
  <2> QED BY <2>1, <2>2
<1> QED BY <1>1, <1>5, <1>6, <1>7

\* What the history of a crate says, and what an event makes of it.
LEMMA HearTells ==
  ASSUME NEW h \in History, NEW e \in EventType
  PROVE  /\ Hear(h, e) \in History /\ Hear(h, e).last = e.type
         /\ e.type = "in" => Told(Hear(h, e)) = "stable" /\ Hear(h, e).place = e.place
         /\ e.type = "moved" /\ Told(h) # "absent" =>
              Told(Hear(h, e)) = "stable" /\ Hear(h, e).place = e.place
         /\ e.type = "moving" =>
              Told(Hear(h, e)) = IF Told(h) = "absent" THEN "absent" ELSE "moving"
         /\ e.type = "out" => Told(Hear(h, e)) = "absent"
<1> DEFINE in2 == e.type = "in" \/ (h.inside /\ e.type # "out")
           place2 == IF e.type \in {"in", "moved"} THEN e.place ELSE h.place
           beat2 == 1 - h.beat
<1>1. Hear(h, e) = [last |-> e.type, inside |-> in2, place |-> place2, beat |-> beat2]
  BY DEF Hear
<1>2. /\ e.type \in EventTypes \cup {"none"} /\ in2 \in BOOLEAN
      /\ place2 \in Places \cup {0}
  BY DEF EventType, EventTypes, History
<1>3. beat2 \in {0, 1}
  BY DEF History
<1>4. h.inside \in BOOLEAN /\ e.type \in EventTypes
  BY DEF History, EventType, EventTypes
<1>5. Hear(h, e) \in History
  <2> HIDE DEF in2, place2, beat2
  <2> QED BY <1>1, <1>2, <1>3 DEF History
<1>6. /\ Hear(h, e).last = e.type /\ Hear(h, e).inside = in2
      /\ Hear(h, e).place = place2
  <2> HIDE DEF in2, place2, beat2
  <2> QED BY <1>1
<1>7. Told(h) = "absent" <=> ~h.inside
  BY <1>4, Zenon DEF Told
<1> HIDE DEF beat2
<1> QED BY <1>4, <1>5, <1>6, <1>7 DEF Told, EventTypes

\* Publishing the first event of a crate that is known leaves a good shape, and CrateStream
\* allows the event.
LEMMA PublishKnown ==
  ASSUME NEW c \in CrateType, NEW h \in History, NEW e \in Seq(EventType),
         NEW a \in 0..stableFrames, e # <<>>, GoodKnown(c, h, e, a)
  PROVE  /\ GoodKnown(c, Hear(h, Head(e)), Tail(e), 0)
         /\ Allowed(h, Head(e))
<1>0. /\ stableFrames \in Nat \ {0} /\ c.framesLeft \in -1..stableFrames
      /\ Head(e) \in EventType
  BY FramesAssumption DEF CrateType
<1> DEFINE h2 == Hear(h, Head(e))
<1>1. CASE c.stable /\ c.oldSituation
  <2>1. PICK p \in Places :
          /\ Near(p, c.place)
          /\ \/ e = <<Event("in", p)>> /\ Told(h) = "absent"
             \/ e = <<Event("moved", p)>> /\ Told(h) = "moving"
    BY <1>1 DEF GoodKnown
  <2>2. /\ Tail(e) = <<>> /\ Head(e).place = p
        /\ \/ Head(e).type = "in" /\ Told(h) = "absent"
           \/ Head(e).type = "moved" /\ Told(h) = "moving"
    <3>1. Event("in", p) \in EventType /\ Event("moved", p) \in EventType
      BY DEF Event, EventType, EventTypes
    <3>2. Tail(e) = <<>>
      BY <2>1, <3>1, OneElement
    <3>3. \A ty : Head(<<Event(ty, p)>>) = Event(ty, p)
      OBVIOUS
    <3>4. \A ty : Event(ty, p).place = p /\ Event(ty, p).type = ty
      BY DEF Event
    <3> QED BY <2>1, <3>2, <3>3, <3>4
  <2>3. Told(h2) = "stable" /\ h2.place = p /\ h2.last # "moving"
    BY <1>0, <2>2, HearTells
  <2>4. GoodKnown(c, h2, Tail(e), 0)
    <3> HIDE DEF h2
    <3> QED BY <1>1, <2>1, <2>2, <2>3 DEF GoodKnown, getState, Quiet
  <2>5. Allowed(h, Head(e))
    BY <2>2 DEF Allowed, Told, History
  <2> QED BY <2>4, <2>5
<1>2. CASE ~c.stable
  <2>1. /\ c.framesLeft >= stableFrames - 1
        /\ Told(h) = IF c.oldSituation THEN "stable" ELSE "absent"
        /\ \E p \in Places \cup {0} : e = <<Event("moving", p)>>
    BY <1>2 DEF GoodKnown
  <2>2. Tail(e) = <<>> /\ Head(e).type = "moving"
    <3>1. PICK p \in Places \cup {0} : e = <<Event("moving", p)>>
      BY <2>1
    <3>2. Event("moving", p) \in EventType /\ Event("moving", p).type = "moving"
      BY DEF Event, EventType, EventTypes
    <3> QED BY <3>1, <3>2, OneElement
  <2>3. Told(h2) = IF c.oldSituation THEN "moving" ELSE "absent"
    BY <1>0, <2>1, <2>2, HearTells
  <2>4. GoodKnown(c, h2, Tail(e), 0)
    <3> HIDE DEF h2
    <3> QED BY <1>0, <1>2, <2>1, <2>2, <2>3 DEF GoodKnown, getState, Quiet
  <2>5. Allowed(h, Head(e))
    BY <2>1, <2>2 DEF Allowed, Told, History
  <2> QED BY <2>4, <2>5
<1>3. CASE c.stable /\ ~c.oldSituation
  BY <1>3 DEF GoodKnown
<1> QED BY <1>1, <1>2, <1>3

\* The same for a crate the tracker does not know, or no more.
LEMMA PublishGone ==
  ASSUME NEW h \in History, NEW e \in Seq(EventType),
         NEW a \in 0..stableFrames, e # <<>>, GoodGone(h, e, a)
  PROVE  /\ GoodGone(Hear(h, Head(e)), Tail(e), 0)
         /\ Allowed(h, Head(e))
<1>0. stableFrames \in Nat \ {0} /\ Head(e) \in EventType
  BY FramesAssumption
<1>t. /\ Event("out", 0) \in EventType /\ Event("out", 0).type = "out"
      /\ Event("moving", 0) \in EventType /\ Event("moving", 0).type = "moving"
  BY DEF Event, EventType, EventTypes
<1> DEFINE h2 == Hear(h, Head(e))
<1>1. CASE e = <<Event("out", 0)>> /\ Told(h) = "moving"
  <2>1. Tail(e) = <<>> /\ Head(e).type = "out"
    BY <1>1, <1>t, OneElement
  <2>2. Told(h2) = "absent" /\ h2.last # "moving"
    BY <1>0, <2>1, HearTells
  <2>3. Allowed(h, Head(e))
    BY <1>1, <2>1 DEF Allowed, Told, History
  <2> QED BY <2>1, <2>2, <2>3 DEF GoodGone, Quiet
<1>2. CASE e = <<Event("moving", 0)>> /\ Told(h) = "absent" /\ stableFrames = 1
  <2>1. Tail(e) = <<>> /\ Head(e).type = "moving"
    BY <1>2, <1>t, OneElement
  <2>2. Told(h2) = "absent"
    BY <1>0, <1>2, <2>1, HearTells
  <2>3. Allowed(h, Head(e))
    BY <1>2, <2>1 DEF Allowed, Told, History
  <2> QED BY <1>2, <2>1, <2>2, <2>3 DEF GoodGone, Quiet
<1>3. CASE e = <<Event("moving", 0), Event("out", 0)>> /\ Told(h) = "stable" /\ stableFrames = 1
  <2>1. Tail(e) = <<Event("out", 0)>> /\ Head(e).type = "moving"
    BY <1>3, <1>t, TwoElements
  <2>2. Told(h2) = "moving"
    BY <1>0, <1>3, <2>1, HearTells
  <2>3. Allowed(h, Head(e))
    BY <1>3, <2>1 DEF Allowed, Told, History
  <2> QED BY <1>3, <2>1, <2>2, <2>3 DEF GoodGone, Quiet
<1> QED BY <1>0, <1>1, <1>2, <1>3 DEF GoodGone
-----------------------------------------------------------------------------
LEMMA InvInit == Init => Inv
<1> SUFFICES ASSUME Init PROVE Inv
  OBVIOUS
<1>1. DOMAIN knownCrates = {}
  BY DEF Init
<1>2. scene \in Frame /\ frame \in Frame
  <2>1. <<>> \in [{} -> Places] /\ {} \in SUBSET Names
    OBVIOUS
  <2> QED BY <2>1 DEF Init, Frame
<1>3. TypeInv
  BY <1>1, <1>2, FramesAssumption DEF Init, TypeInv, History
<1>4. Good
  BY <1>1 DEF Init, Good, GoodOne, GoodGone, Told, Quiet
<1> QED BY <1>3, <1>4 DEF Inv

\* What one frame makes of one crate: its events, and its place in the map.
LEMMA UpdateGood ==
  ASSUME Inv, NEW n \in Names, n \in DOMAIN knownCrates \cup DOMAIN scene, events[n] = <<>>
  PROVE  LET r == Update(n, scene)
             b == Older(age[n])
         IN
         /\ r.crate \in CrateType /\ r.events \in Seq(EventType)
         /\ \/ /\ n \in DOMAIN scene \/ r.crate.framesLeft > 0
               /\ GoodKnown(r.crate, heard[n], r.events, b)
               /\ r.crate.stable /\ n \in DOMAIN scene => ~hasChanged(r.crate.place, scene[n])
            \/ /\ n \notin DOMAIN scene /\ r.crate.framesLeft <= 0
               /\ GoodGone(heard[n], r.events, b)
<1> DEFINE r == Update(n, scene)
           c == knownCrates[n]
<1>1. heard[n] \in History /\ age[n] \in 0..stableFrames
  BY DEF Inv, TypeInv
<1>2. ASSUME n \in DOMAIN scene PROVE scene[n] \in Places
  BY <1>2 DEF Inv, TypeInv, Frame
<1>3. ASSUME n \in DOMAIN knownCrates
      PROVE  c \in CrateType /\ GoodKnown(c, heard[n], <<>>, age[n])
  BY <1>3 DEF Inv, TypeInv, Good, GoodOne
<1>4. CASE n \in DOMAIN knownCrates /\ n \in DOMAIN scene
  <2>1. r = See(c, scene[n])
    BY <1>4 DEF Update
  <2> HIDE DEF c, r
  <2>2. /\ r.crate \in CrateType /\ r.events \in Seq(EventType)
        /\ GoodKnown(r.crate, heard[n], r.events, Older(age[n]))
        /\ r.crate.stable => ~hasChanged(r.crate.place, scene[n])
    BY <2>1, <1>1, <1>2, <1>3, <1>4, SeeGood
  <2> QED BY <2>2, <1>4 DEF r
<1>5. CASE n \in DOMAIN knownCrates /\ n \notin DOMAIN scene
  <2>1. r = Miss(c)
    BY <1>5 DEF Update
  <2> HIDE DEF c, r
  <2>2. /\ r.crate \in CrateType /\ r.events \in Seq(EventType)
        /\ r.crate.framesLeft > 0 => GoodKnown(r.crate, heard[n], r.events, Older(age[n]))
        /\ r.crate.framesLeft <= 0 => GoodGone(heard[n], r.events, Older(age[n]))
    BY <2>1, <1>1, <1>3, <1>5, MissGood
  <2>3. r.crate.framesLeft > 0 \/ r.crate.framesLeft <= 0
    BY <2>2, FramesAssumption DEF CrateType
  <2> QED BY <2>2, <2>3, <1>5 DEF r
<1>6. CASE n \notin DOMAIN knownCrates
  <2>1. n \in DOMAIN scene /\ scene[n] \in Places
    BY <1>2, <1>6
  <2>2. r.crate = NewCrate(scene[n]) /\ r.events = <<>>
    BY <1>6 DEF Update, Result
  <2>3. /\ r.crate \in CrateType /\ ~r.crate.stable /\ ~r.crate.oldSituation
        /\ r.crate.framesLeft = 0
    BY <2>1, <2>2, FramesAssumption DEF NewCrate, Crate, CrateType
  <2>4. Told(heard[n]) = "absent" /\ Quiet(heard[n], age[n])
    BY <1>6 DEF Inv, Good, GoodOne, GoodGone, Event, Quiet
  <2>5. GoodKnown(r.crate, heard[n], r.events, Older(age[n]))
    BY <2>2, <2>3, <2>4, <1>1, FramesAssumption DEF GoodKnown, getState, Quiet, Older
  <2>6. r.events \in Seq(EventType)
    BY <2>2
  <2> QED BY <1>6, <2>1, <2>3, <2>5, <2>6
<1> QED BY <1>4, <1>5, <1>6

LEMMA CallbackInv ==
  ASSUME Inv, crateLocateCallback
  PROVE  Inv'
<1> DEFINE touched == DOMAIN knownCrates \cup DOMAIN scene
           gone    == {n \in touched \ DOMAIN scene : Update(n, scene).crate.framesLeft <= 0}
<1>1. /\ \A n \in Names : events[n] = <<>>
      /\ frame' = scene
      /\ knownCrates' = [n \in touched \ gone |-> Update(n, scene).crate]
      /\ events' = [n \in Names |-> IF n \in touched THEN Update(n, scene).events ELSE <<>>]
      /\ age' = [n \in Names |-> Older(age[n])]
      /\ scene' = scene /\ heard' = heard
  BY DEF crateLocateCallback, Older
<1>2. touched \subseteq Names /\ gone \subseteq Names
  BY DEF Inv, TypeInv, Frame
<1>3. \A n \in Names : age[n] \in 0..stableFrames /\ Older(age[n]) \in 0..stableFrames
  BY FramesAssumption DEF Inv, TypeInv, Older
<1>4. \A n \in touched : /\ Update(n, scene).crate \in CrateType
                         /\ Update(n, scene).events \in Seq(EventType)
  BY <1>1, <1>2, UpdateGood
<1>5. TypeInv'
  <2> HIDE DEF touched, gone
  <2>1. DOMAIN knownCrates' = touched \ gone
    BY <1>1
  <2>2. \A n \in DOMAIN knownCrates' : knownCrates'[n] \in CrateType
    BY <1>1, <1>4, <2>1
  <2>3. events' \in [Names -> Seq(EventType)]
    <3>1. <<>> \in Seq(EventType)
      OBVIOUS
    <3> QED BY <1>1, <1>4, <3>1
  <2>4. age' \in [Names -> 0..stableFrames]
    BY <1>1, <1>3, FramesAssumption
  <2> QED BY <1>1, <1>2, <2>1, <2>2, <2>3, <2>4
      DEF Inv, TypeInv, CrateType, Frame, EventType, EventTypes, History
<1>6. ASSUME NEW n \in Names PROVE GoodOne(n)'
  <2> DEFINE r == Update(n, scene)
             b == Older(age[n])
  <2>0. /\ DOMAIN knownCrates' = touched \ gone
        /\ age'[n] = b /\ heard'[n] = heard[n]
        /\ events'[n] = IF n \in touched THEN r.events ELSE <<>>
    BY <1>1
  <2>1. CASE n \in touched
    <3>1. /\ r.crate \in CrateType
          /\ \/ /\ n \in DOMAIN scene \/ r.crate.framesLeft > 0
                /\ GoodKnown(r.crate, heard[n], r.events, b)
                /\ r.crate.stable /\ n \in DOMAIN scene => ~hasChanged(r.crate.place, scene[n])
             \/ /\ n \notin DOMAIN scene /\ r.crate.framesLeft <= 0
                /\ GoodGone(heard[n], r.events, b)
      BY <1>1, <2>1, UpdateGood
    <3>2. CASE n \in gone
      <4>1. n \notin DOMAIN scene /\ r.crate.framesLeft <= 0
        BY <3>2
      <4>2. ~(r.crate.framesLeft > 0)
        BY <4>1, <3>1, FramesAssumption DEF CrateType
      <4>3. GoodGone(heard'[n], events'[n], age'[n])
        BY <2>0, <2>1, <3>1, <4>1, <4>2
      <4> QED BY <2>0, <3>2, <4>3 DEF GoodOne, GoodGone, Event
    <3>3. CASE n \notin gone
      <4>1. n \in DOMAIN scene \/ ~(r.crate.framesLeft <= 0)
        BY <2>1, <3>3
      <4>2. /\ GoodKnown(r.crate, heard'[n], events'[n], age'[n])
            /\ r.crate.stable /\ n \in DOMAIN frame' => ~hasChanged(r.crate.place, frame'[n])
        BY <1>1, <2>0, <2>1, <3>1, <4>1
      <4>3. n \in DOMAIN knownCrates' /\ knownCrates'[n] = r.crate
        BY <1>1, <2>0, <2>1, <3>3
      <4> QED BY <4>2, <4>3 DEF GoodOne, GoodKnown, hasChanged, Event, Near, getState, Told, Quiet
    <3> QED BY <3>2, <3>3
  <2>2. CASE n \notin touched
    <3>0. GoodGone(heard[n], <<>>, age[n])
      BY <1>1, <2>2 DEF Inv, Good, GoodOne
    <3>1. Told(heard[n]) = "absent" /\ Quiet(heard[n], b)
      BY <3>0, <1>3, FramesAssumption DEF GoodGone, Quiet, Older
    <3> QED BY <2>0, <2>2, <3>1 DEF GoodOne, GoodGone
  <2> QED BY <2>1, <2>2
<1> QED BY <1>5, <1>6 DEF Inv, Good

\* A crate of which nothing changed is as good as before.
LEMMA GoodStays ==
  ASSUME NEW k \in Names, GoodOne(k), knownCrates' = knownCrates, frame' = frame,
         heard'[k] = heard[k], events'[k] = events[k], age'[k] = age[k]
  PROVE  GoodOne(k)'
BY DEF GoodOne, GoodKnown, GoodGone, hasChanged, Event, Near, getState, Told, Quiet

\* Publishing changes what is known of one crate only.
LEMMA PublishEffect ==
  ASSUME Inv, NEW n \in Names, Publish(n)
  PROVE  /\ events[n] # <<>> /\ events[n] \in Seq(EventType)
         /\ Head(events[n]) \in EventType /\ Tail(events[n]) \in Seq(EventType)
         /\ heard' = [heard EXCEPT ![n] = Hear(heard[n], Head(events[n]))]
         /\ events' = [events EXCEPT ![n] = Tail(events[n])]
         /\ age' = [age EXCEPT ![n] = 0]
         /\ UNCHANGED <<knownCrates, scene, frame>>
<1>1. events[n] # <<>> /\ events[n] \in Seq(EventType)
  BY DEF Publish, Inv, TypeInv
<1>2. Head(events[n]) \in EventType /\ Tail(events[n]) \in Seq(EventType)
  BY <1>1
<1> QED BY <1>1, <1>2 DEF Publish

\* Publishing keeps the crate in a good shape, and CrateStream allows the event.
LEMMA PublishGood ==
  ASSUME Inv, NEW n \in Names, Publish(n)
  PROVE  GoodOne(n)' /\ Allowed(heard[n], Head(events[n]))
<1> DEFINE h2 == Hear(heard[n], Head(events[n]))
<1>1. heard[n] \in History /\ age[n] \in 0..stableFrames /\ GoodOne(n)
  BY DEF Inv, TypeInv, Good
<1>2. /\ heard'[n] = h2 /\ events'[n] = Tail(events[n]) /\ age'[n] = 0
      /\ events[n] # <<>> /\ events[n] \in Seq(EventType)
      /\ knownCrates' = knownCrates /\ frame' = frame
  BY PublishEffect DEF Inv, TypeInv
<1>3. CASE n \in DOMAIN knownCrates
  <2>1. /\ knownCrates[n] \in CrateType
        /\ GoodKnown(knownCrates[n], heard[n], events[n], age[n])
        /\ knownCrates[n].stable /\ n \in DOMAIN frame =>
             ~hasChanged(knownCrates[n].place, frame[n])
    BY <1>1, <1>3 DEF Inv, TypeInv, GoodOne
  <2>2. /\ GoodKnown(knownCrates[n], h2, Tail(events[n]), 0)
        /\ Allowed(heard[n], Head(events[n]))
    BY <1>1, <1>2, <2>1, PublishKnown
  <2> HIDE DEF h2
  <2>3. GoodOne(n)'
    BY <1>2, <1>3, <2>1, <2>2
    DEF GoodOne, GoodKnown, hasChanged, Event, Near, getState, Told, Quiet
  <2> QED BY <2>2, <2>3
<1>4. CASE n \notin DOMAIN knownCrates
  <2>1. GoodGone(heard[n], events[n], age[n])
    BY <1>1, <1>4 DEF GoodOne
  <2>2. /\ GoodGone(h2, Tail(events[n]), 0)
        /\ Allowed(heard[n], Head(events[n]))
    BY <1>1, <1>2, <2>1, PublishGone
  <2> HIDE DEF h2
  <2>3. GoodOne(n)'
    BY <1>2, <1>4, <2>2 DEF GoodOne, GoodGone, Event, Told, Quiet
  <2> QED BY <2>2, <2>3
<1> QED BY <1>3, <1>4

LEMMA PublishInv ==
  ASSUME Inv, NEW n \in Names, Publish(n)
  PROVE  Inv'
<1>1. TypeInv'
  <2>1. Hear(heard[n], Head(events[n])) \in History
    BY PublishEffect, HearTells DEF Inv, TypeInv
  <2>3. 0 \in 0..stableFrames
    BY FramesAssumption
  <2>4. events' \in [Names -> Seq(EventType)]
    BY PublishEffect DEF Inv, TypeInv
  <2>5. heard' \in [Names -> History]
    <3> DEFINE h2 == Hear(heard[n], Head(events[n]))
    <3>1. heard' = [heard EXCEPT ![n] = h2] /\ h2 \in History /\ heard \in [Names -> History]
      BY <2>1, PublishEffect DEF Inv, TypeInv
    <3> HIDE DEF h2
    <3> QED BY <3>1
  <2>7. age' \in [Names -> 0..stableFrames]
    BY <2>3, PublishEffect DEF Inv, TypeInv
  <2>8. /\ DOMAIN knownCrates' \subseteq Names
        /\ \A k \in DOMAIN knownCrates' : knownCrates'[k] \in CrateType
        /\ scene' \in Frame /\ frame' \in Frame
    BY PublishEffect DEF Inv, TypeInv
  <2> QED BY <2>4, <2>5, <2>7, <2>8 DEF TypeInv, CrateType, Frame, EventType, EventTypes, History
<1>2. ASSUME NEW k \in Names PROVE GoodOne(k)'
  <2>1. CASE k = n
    BY <2>1, PublishGood
  <2>2. CASE k # n
    <3>1. /\ heard'[k] = heard[k] /\ events'[k] = events[k]
          /\ age'[k] = age[k] /\ knownCrates' = knownCrates /\ frame' = frame
      BY <2>2, PublishEffect DEF Inv, TypeInv
    <3>2. GoodOne(k)
      BY DEF Inv, Good
    <3> QED BY <3>1, <3>2, GoodStays
  <2> QED BY <2>1, <2>2
<1> QED BY <1>1, <1>2 DEF Inv, Good

LEMMA InvNext == Inv /\ [Next]_vars => Inv'
<1> SUFFICES ASSUME Inv, [Next]_vars PROVE Inv'
  OBVIOUS
<1>1. CASE Change
  <2>1. TypeInv'
    BY <1>1 DEF Change, Inv, TypeInv, CrateType, Frame, EventType, EventTypes, History
  <2>2. Good'
    BY <1>1, GoodStays DEF Change, Inv, Good
  <2> QED BY <2>1, <2>2 DEF Inv
<1>2. CASE crateLocateCallback
  BY <1>2, CallbackInv
<1>3. ASSUME NEW n \in Names, Publish(n) PROVE Inv'
  BY <1>3, PublishInv
<1>4. CASE UNCHANGED vars
  <2>1. TypeInv'
    BY <1>4 DEF vars, Inv, TypeInv, CrateType, Frame, EventType, EventTypes, History
  <2>2. Good'
    BY <1>4, GoodStays DEF vars, Inv, Good
  <2> QED BY <2>1, <2>2 DEF Inv
<1> QED BY <1>1, <1>2, <1>3, <1>4 DEF Next

\* The strengthening Inv of what CrateTracker.cpp keeps between images and calls is
\* an invariant of every run.
THEOREM InvCorrect == Spec => []Inv
BY InvInit, InvNext, PTL DEF Spec
-----------------------------------------------------------------------------
\* Every variable of the tracker and its publishing keeps its type, for any number of
\* crates, places and frames: TypeOK.
THEOREM TypeCorrect == Spec => []TypeOK
<1>1. Inv => TypeOK
  <2> SUFFICES ASSUME Inv PROVE TypeOK
    OBVIOUS
  <2>1. ASSUME NEW n \in Names, NEW i \in 1..Len(events[n]) PROVE events[n][i] \in EventType
    BY DEF Inv, TypeInv
  <2>2. /\ DOMAIN knownCrates \subseteq Names
        /\ \A n \in DOMAIN knownCrates : knownCrates[n] \in CrateType
        /\ scene \in Frame /\ frame \in Frame
        /\ heard \in [Names -> History]
        /\ age \in [Names -> 0..stableFrames]
    BY DEF Inv, TypeInv
  <2> QED BY <2>1, <2>2, Zenon DEF TypeOK, CrateType, EventType, EventTypes
<1> QED BY <1>1, InvCorrect, PTL

\* Once the events of a frame are published, getCrate answers what they say of every
\* crate and the list of getAllCrates has the crates told in and not out: AnswersAgree.
THEOREM AnswersAgreeCorrect == Spec => []AnswersAgree
<1>1. Inv => AnswersAgree
  <2> SUFFICES ASSUME Inv, NEW n \in Names, events[n] = <<>>
               PROVE  /\ getCrate(n) = Told(heard[n])
                      /\ n \in DOMAIN getAllCrates <=> heard[n].inside
    BY DEF AnswersAgree, Published
  <2>1. GoodOne(n) /\ heard[n] \in History
    BY DEF Inv, Good, TypeInv
  <2>2. getCrate(n) = Told(heard[n])
    BY <2>1 DEF GoodOne, GoodKnown, GoodGone, getCrate, Event
  <2>3. n \in DOMAIN getAllCrates <=> n \in DOMAIN knownCrates /\ getCrate(n) # "absent"
    BY DEF getAllCrates, getCrate
  <2>4. n \notin DOMAIN knownCrates => getCrate(n) = "absent"
    BY DEF getCrate
  <2>5. Told(heard[n]) # "absent" <=> heard[n].inside
    BY <2>1, Zenon DEF Told, History
  <2> QED BY <2>2, <2>3, <2>4, <2>5
<1> QED BY <1>1, InvCorrect, PTL

\* A crate told to be at rest is read within twice the threshold of the place it was told
\* to be at, however it drifted and flickered: DriftBounded.
THEOREM DriftBoundedCorrect == Spec => []DriftBounded
<1>1. Inv => DriftBounded
  <2> SUFFICES ASSUME Inv, NEW n \in Names, events[n] = <<>>, Told(heard[n]) = "stable",
                      n \in DOMAIN frame
               PROVE  /\ frame[n] - heard[n].place <= 2 * movementThreshold
                      /\ heard[n].place - frame[n] <= 2 * movementThreshold
    BY DEF DriftBounded, Published
  <2> DEFINE t == heard[n].place
  <2>1. GoodOne(n)
    BY DEF Inv, Good
  <2>2. n \in DOMAIN knownCrates
    BY <2>1 DEF GoodOne, GoodGone
  <2>3. /\ knownCrates[n].stable /\ knownCrates[n].oldSituation
        /\ Near(t, knownCrates[n].place)
    BY <2>1, <2>2 DEF GoodOne, GoodKnown, getState
  <2>4. ~hasChanged(knownCrates[n].place, frame[n])
    BY <2>1, <2>2, <2>3 DEF GoodOne
  <2>5. t \in Int /\ frame[n] \in Int /\ knownCrates[n].place \in Int
    <3>1. knownCrates[n] \in CrateType /\ heard[n] \in History /\ frame \in Frame
      BY <2>2 DEF Inv, TypeInv
    <3>2. frame[n] \in Places
      BY <3>1 DEF Frame
    <3>3. knownCrates[n].place \in Places
      BY <3>1 DEF CrateType
    <3>4. t \in Int
      <4>1. t \in Places \/ t = 0
        BY <3>1 DEF History
      <4>2. CASE t \in Places
        BY <4>2, PlacesAssumption, Zenon
      <4>3. CASE t = 0
        BY <4>3
      <4> QED BY <4>1, <4>2, <4>3
    <3>5. frame[n] \in Int /\ knownCrates[n].place \in Int
      BY <3>2, <3>3, PlacesAssumption
    <3> QED BY <3>4, <3>5
  <2> HIDE DEF t
  <2>6. frame[n] - t <= 2 * movementThreshold /\ t - frame[n] <= 2 * movementThreshold
    BY <2>3, <2>4, <2>5, ThresholdAssumption DEF Near, hasChanged
  <2> QED BY <2>6 DEF t
<1> QED BY <1>1, InvCorrect, PTL

\* No event of a crate follows a moving event of it for stableFrames frames, whether it was
\* told in or not: MovingLasts.
THEOREM MovingLastsCorrect == Spec => []MovingLasts
<1>1. Inv => MovingLasts
  <2> SUFFICES ASSUME Inv, NEW n \in Names, events[n] # <<>>, heard[n].last = "moving"
               PROVE  age[n] >= stableFrames - 1
    BY DEF MovingLasts, Published
  <2>1. GoodOne(n) /\ age[n] \in 0..stableFrames
    BY DEF Inv, Good, TypeInv
  <2>2. CASE n \in DOMAIN knownCrates
    BY <2>1, <2>2 DEF GoodOne, GoodKnown, Quiet
  <2>3. CASE n \notin DOMAIN knownCrates
    BY <2>1, <2>3, FramesAssumption DEF GoodOne, GoodGone, Quiet
  <2> QED BY <2>2, <2>3
<1> QED BY <1>1, InvCorrect, PTL

\* The events as they are published follow CrateStream, for any crates, places, threshold
\* and debouncing.
THEOREM ImplementsCrateStreamCorrect == Spec => ImplementsCrateStream
<1>1. Init => CS!Init
  BY DEF Init, CS!Init
<1>2. Inv /\ [Next]_vars => [CS!Next]_heard
  <2> SUFFICES ASSUME Inv, [Next]_vars PROVE [CS!Next]_heard
    OBVIOUS
  <2>1. ASSUME NEW n \in Names, Publish(n) PROVE [CS!Next]_heard
    <3> DEFINE e == Head(events[n])
               h == heard[n]
    <3>1. /\ heard' = [heard EXCEPT ![n] = Hear(h, e)] /\ Allowed(h, e)
          /\ h \in History /\ e \in EventType
      BY <2>1, PublishEffect, PublishGood DEF Inv, TypeInv
    <3> HIDE DEF e
    <3>2. CASE e.type = "in" /\ ~h.inside /\ e.place \in Places
      <4>1. Hear(h, e) = [last |-> "in", inside |-> TRUE, place |-> e.place,
                          beat |-> 1 - h.beat]
        BY <3>2 DEF Hear
      <4>2. CS!Tell(n, "in", TRUE, e.place)
        BY <3>1, <4>1, Zenon DEF CS!Tell
      <4> QED BY <3>2, <4>2 DEF CS!Next, CS!In
    <3>3. CASE e.type = "moved" /\ h.inside /\ h.last = "moving" /\ e.place \in Places
      <4>1. Hear(h, e) = [last |-> "moved", inside |-> TRUE, place |-> e.place,
                          beat |-> 1 - h.beat]
        BY <3>3 DEF Hear
      <4>2. CS!Tell(n, "moved", TRUE, e.place)
        BY <3>1, <4>1, Zenon DEF CS!Tell
      <4> QED BY <3>3, <4>2 DEF CS!Next, CS!Moved, CS!OnTheMove
    <3>4. CASE e.type = "out" /\ h.inside /\ h.last = "moving"
      <4>1. Hear(h, e) = [last |-> "out", inside |-> FALSE, place |-> h.place,
                          beat |-> 1 - h.beat]
        BY <3>4 DEF Hear
      <4>2. CS!Tell(n, "out", FALSE, h.place)
        BY <3>1, <4>1, Zenon DEF CS!Tell
      <4> QED BY <3>4, <4>2 DEF CS!Next, CS!Out, CS!OnTheMove
    <3>5. CASE e.type = "moving" /\ h.inside /\ h.last # "moving"
      <4>1. Hear(h, e) = [last |-> "moving", inside |-> TRUE, place |-> h.place,
                          beat |-> 1 - h.beat]
        BY <3>5 DEF Hear
      <4>2. CS!Tell(n, "moving", TRUE, h.place)
        BY <3>1, <4>1, Zenon DEF CS!Tell
      <4> QED BY <3>5, <4>2 DEF CS!Next, CS!Moving
    <3>6. CASE e.type = "moving" /\ ~h.inside
      <4>1. Hear(h, e) = [last |-> "moving", inside |-> FALSE, place |-> h.place,
                          beat |-> 1 - h.beat]
        BY <3>6 DEF Hear
      <4>2. CS!Tell(n, "moving", FALSE, h.place)
        BY <3>1, <4>1, Zenon DEF CS!Tell
      <4> QED BY <3>6, <4>2 DEF CS!Next, CS!Stray
    <3> QED BY <3>1, <3>2, <3>3, <3>4, <3>5, <3>6, Zenon DEF Allowed
  <2>2. CASE Change
    BY <2>2 DEF Change
  <2>3. CASE crateLocateCallback
    BY <2>3 DEF crateLocateCallback
  <2>4. CASE UNCHANGED vars
    BY <2>4 DEF vars
  <2> QED BY <2>1, <2>2, <2>3, <2>4 DEF Next
<1>3. Inv /\ [Next]_vars => Inv'
  BY InvNext
<1> QED BY <1>1, <1>2, <1>3, InvInit, PTL DEF Spec, ImplementsCrateStream, CS!Spec
=============================================================================
