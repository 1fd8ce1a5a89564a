----------------------- MODULE BlackboardClientProofs -----------------------
(***************************************************************************)
(* Proofs about BlackboardClient, for any operations, any number of        *)
(* entries and of monitors: the types, that the client's monitor listens,  *)
(* and that a monitor tells what came after it, all of it and only that.   *)
(***************************************************************************)
EXTENDS BlackboardClientProps, FiniteSetTheorems, TLAPS

\* The new monitor of a call is none that has been interrupted.
NewIsFresh ==
  caller = "replacing" =>
    /\ oplogMonitorThread < made
    /\ ~ monitors[made].interrupted
    /\ subscriptions \subseteq monitors[made].subscriptions

\* Where monitor m stands: what was there before it is behind it, and it holds
\* no more than there is.
Bounded(m) ==
  /\ monitors[m].since <= Len(oplog)
  /\ Count(monitors[m].subscriptions, monitors[m].since) <= monitors[m].passed
  /\ monitors[m].fetched <= Count(monitors[m].subscriptions, Len(oplog))

ToldAll(m) ==
  \A i \in 1..Len(oplog) :
    /\ i > monitors[m].since
    /\ oplog[i] \in monitors[m].subscriptions
    /\ Count(monitors[m].subscriptions, i) <= monitors[m].passed
    => i \in heard[m]

Stands(m) == Bounded(m) /\ ToldAll(m)
-----------------------------------------------------------------------------
\* Counting the entries of a log that are selected; Count(ops, n) is this for
\* the oplog.
Selected(log, ops, n) == Cardinality({i \in 1..n : log[i] \in ops})

LEMMA CountIsSelected == \A ops, n : Count(ops, n) = Selected(oplog, ops, n)
BY DEF Count, Selected

LEMMA SelectedType ==
  ASSUME NEW log, NEW ops, NEW n \in Nat
  PROVE  /\ IsFiniteSet({i \in 1..n : log[i] \in ops})
         /\ Selected(log, ops, n) \in Nat
<1>1. IsFiniteSet(1..n)
  BY FS_Interval
<1>2. {i \in 1..n : log[i] \in ops} \subseteq 1..n
  OBVIOUS
<1>3. IsFiniteSet({i \in 1..n : log[i] \in ops})
  BY <1>1, <1>2, FS_Subset
<1> QED
  BY <1>3, FS_CardinalityType DEF Selected

LEMMA SelectedMonotone ==
  ASSUME NEW log, NEW ops, NEW n \in Nat, NEW k \in 0..n
  PROVE  Selected(log, ops, k) <= Selected(log, ops, n)
<1>1. {i \in 1..k : log[i] \in ops} \subseteq {i \in 1..n : log[i] \in ops}
  OBVIOUS
<1>2. IsFiniteSet({i \in 1..n : log[i] \in ops})
  BY SelectedType
<1> QED
  BY <1>1, <1>2, FS_Subset DEF Selected

\* A selected entry counts.
LEMMA SelectedCounts ==
  ASSUME NEW log, NEW ops, NEW n \in Nat \ {0}, log[n] \in ops
  PROVE  Selected(log, ops, n) = Selected(log, ops, n - 1) + 1
<1> DEFINE S == {i \in 1..(n - 1) : log[i] \in ops}
<1>1. {i \in 1..n : log[i] \in ops} = S \cup {n}
  OBVIOUS
<1>2. n \notin S
  OBVIOUS
<1>3. IsFiniteSet(S)
  BY SelectedType, n - 1 \in Nat
<1>4. Cardinality(S \cup {n}) = Cardinality(S) + 1
  BY <1>2, <1>3, FS_AddElement
<1> QED
  BY <1>1, <1>4 DEF Selected

\* What an entry that is added does to the counts.
LEMMA InsertEffect ==
  ASSUME TypeOK, NEW op \in Operations, Insert(op)
  PROVE  /\ oplog' \in Seq(Operations)
         /\ Len(oplog') = Len(oplog) + 1
         /\ \A i \in 1..Len(oplog) : oplog'[i] = oplog[i]
         /\ \A ops : \A n \in 0..Len(oplog) : Selected(oplog', ops, n) = Count(ops, n)
         /\ \A ops : Selected(oplog', ops, Len(oplog')) \in Nat
         /\ \A ops : Count(ops, Len(oplog)) <= Selected(oplog', ops, Len(oplog'))
         /\ \A ops : oplog'[Len(oplog')] \in ops =>
              Selected(oplog', ops, Len(oplog')) = Count(ops, Len(oplog)) + 1
<1> DEFINE L == Len(oplog)
<1>1. /\ oplog' \in Seq(Operations)
      /\ Len(oplog') = L + 1
      /\ \A i \in 1..L : oplog'[i] = oplog[i]
      /\ L \in Nat
  BY DEF TypeOK, Insert
<1> HIDE DEF L
<1>2. ASSUME NEW ops, NEW n \in 0..L
      PROVE  Selected(oplog', ops, n) = Count(ops, n)
  <2>1. {i \in 1..n : oplog'[i] \in ops} = {i \in 1..n : oplog[i] \in ops}
    BY <1>1
  <2> QED
    BY <2>1 DEF Selected, Count
<1>3. \A ops : Selected(oplog', ops, L + 1) \in Nat
  BY <1>1, SelectedType, L + 1 \in Nat
<1>4. \A ops : Selected(oplog', ops, L) <= Selected(oplog', ops, L + 1)
  BY <1>1, SelectedMonotone, L + 1 \in Nat, L \in 0..(L + 1)
<1>5. ASSUME NEW ops, oplog'[L + 1] \in ops
      PROVE  Selected(oplog', ops, L + 1) = Selected(oplog', ops, L) + 1
  <2>1. Selected(oplog', ops, L + 1) = Selected(oplog', ops, L + 1 - 1) + 1
    BY <1>1, <1>5, SelectedCounts, L + 1 \in Nat \ {0}
  <2> QED
    BY <1>1, <2>1, L + 1 - 1 = L
<1>6. \A ops : Selected(oplog', ops, L) = Count(ops, L)
  BY <1>1, <1>2
<1>7. /\ \A ops : Selected(oplog', ops, Len(oplog')) \in Nat
      /\ \A ops : Count(ops, L) <= Selected(oplog', ops, Len(oplog'))
      /\ \A ops : oplog'[Len(oplog')] \in ops =>
           Selected(oplog', ops, Len(oplog')) = Count(ops, L) + 1
  BY <1>1, <1>3, <1>4, <1>5, <1>6
<1> QED
  BY <1>1, <1>2, <1>7 DEF L

LEMMA LogType ==
  ASSUME TypeOK
  PROVE  Len(oplog) \in Nat /\ \A ops : Count(ops, Len(oplog)) \in Nat
<1>1. Len(oplog) \in Nat
  BY DEF TypeOK
<1> QED
  BY <1>1, SelectedType, CountIsSelected

\* What the actions change in the monitors.
LEMMA InterruptEffect ==
  ASSUME TypeOK, NEW k
  PROVE  /\ Interrupt(k) \in [Monitors -> Monitor]
         /\ \A m \in Monitors :
              /\ Interrupt(k)[m].status = monitors[m].status
              /\ Interrupt(k)[m].passed = monitors[m].passed
              /\ Interrupt(k)[m].fetched = monitors[m].fetched
              /\ Interrupt(k)[m].since = monitors[m].since
              /\ Interrupt(k)[m].subscriptions = monitors[m].subscriptions
              /\ m # k \/ monitors[m].status # "running" => Interrupt(k)[m] = monitors[m]
<1>1. ASSUME NEW m \in Monitor
      PROVE  /\ [m EXCEPT !.interrupted = TRUE] \in Monitor
             /\ [m EXCEPT !.interrupted = TRUE].status = m.status
             /\ [m EXCEPT !.interrupted = TRUE].passed = m.passed
             /\ [m EXCEPT !.interrupted = TRUE].fetched = m.fetched
             /\ [m EXCEPT !.interrupted = TRUE].since = m.since
             /\ [m EXCEPT !.interrupted = TRUE].subscriptions = m.subscriptions
  BY DEF Monitor
<1> QED
  BY <1>1 DEF TypeOK, Interrupt

LEMMA ReplaceEffect ==
  ASSUME TypeOK, Replace
  PROVE  /\ made \in Monitors
         /\ monitors' \in [Monitors -> Monitor]
         /\ \A m \in Monitors :
              /\ monitors'[m].passed = monitors[m].passed
              /\ monitors'[m].fetched = monitors[m].fetched
              /\ monitors'[m].since = monitors[m].since
              /\ monitors'[m].subscriptions = monitors[m].subscriptions
         /\ monitors'[made].status = "running"
         /\ monitors'[made].interrupted = monitors[made].interrupted
<1> DEFINE I == Interrupt(oplogMonitorThread)
<1>1. made \in Monitors /\ monitors[made].status = "new"
  BY DEF TypeOK, Replace
<1>2. I \in [Monitors -> Monitor] /\ I[made] = monitors[made]
  BY <1>1, InterruptEffect
<1>3. monitors' = [I EXCEPT ![made].status = "running"]
  BY DEF Replace
<1>4. ASSUME NEW m \in Monitor
      PROVE  /\ [m EXCEPT !.status = "running"] \in Monitor
             /\ [m EXCEPT !.status = "running"].status = "running"
             /\ [m EXCEPT !.status = "running"].interrupted = m.interrupted
             /\ [m EXCEPT !.status = "running"].passed = m.passed
             /\ [m EXCEPT !.status = "running"].fetched = m.fetched
             /\ [m EXCEPT !.status = "running"].since = m.since
             /\ [m EXCEPT !.status = "running"].subscriptions = m.subscriptions
  BY DEF Monitor
<1> HIDE DEF I
<1>5. /\ monitors' \in [Monitors -> Monitor]
      /\ monitors'[made] = [I[made] EXCEPT !.status = "running"]
      /\ \A m \in Monitors : m # made => monitors'[m] = I[m]
  BY <1>1, <1>2, <1>3, <1>4
<1>6. \A m \in Monitors :
        /\ I[m].passed = monitors[m].passed
        /\ I[m].fetched = monitors[m].fetched
        /\ I[m].since = monitors[m].since
        /\ I[m].subscriptions = monitors[m].subscriptions
  BY InterruptEffect DEF I
<1>7. I[made] \in Monitor
  BY <1>1, <1>2
<1>8. /\ monitors'[made].status = "running"
      /\ monitors'[made].interrupted = monitors[made].interrupted
      /\ monitors'[made].passed = I[made].passed
      /\ monitors'[made].fetched = I[made].fetched
      /\ monitors'[made].since = I[made].since
      /\ monitors'[made].subscriptions = I[made].subscriptions
  BY <1>2, <1>4, <1>5, <1>7
<1>9. \A m \in Monitors :
        /\ monitors'[m].passed = monitors[m].passed
        /\ monitors'[m].fetched = monitors[m].fetched
        /\ monitors'[m].since = monitors[m].since
        /\ monitors'[m].subscriptions = monitors[m].subscriptions
  <2> SUFFICES ASSUME NEW m \in Monitors
               PROVE  /\ monitors'[m].passed = monitors[m].passed
                      /\ monitors'[m].fetched = monitors[m].fetched
                      /\ monitors'[m].since = monitors[m].since
                      /\ monitors'[m].subscriptions = monitors[m].subscriptions
    OBVIOUS
  <2>1. CASE m = made
    BY <1>1, <1>6, <1>8, <2>1
  <2>2. CASE m # made
    BY <1>5, <1>6, <2>2
  <2> QED
    BY <2>1, <2>2
<1> QED
  BY <1>1, <1>5, <1>8, <1>9

LEMMA ConstructEffect ==
  ASSUME TypeOK, NEW ops \in SUBSET Operations, Construct(ops)
  PROVE  /\ made + 1 \in Monitors
         /\ monitors' \in [Monitors -> Monitor]
         /\ \A m \in Monitors \ {made + 1} : monitors'[m] = monitors[m]
         /\ monitors'[made + 1].status = "new"
         /\ monitors'[made + 1].subscriptions = ops
         /\ monitors'[made + 1].passed = Count(ops, Len(oplog))
         /\ monitors'[made + 1].fetched = Count(ops, Len(oplog))
         /\ monitors'[made + 1].interrupted = FALSE
         /\ monitors'[made + 1].since = Len(oplog)
<1>1. made + 1 \in Monitors
  BY BoundsAssumption DEF TypeOK, Construct, Monitors
<1>2. Len(oplog) \in Nat /\ Count(ops, Len(oplog)) \in Nat
  BY LogType
<1> QED
  BY <1>1, <1>2 DEF TypeOK, Construct, Monitor

LEMMA TellEffect ==
  ASSUME TypeOK, NEW m \in Monitors, Tell(m)
  PROVE  /\ monitors' \in [Monitors -> Monitor]
         /\ \A k \in Monitors \ {m} : monitors'[k] = monitors[k]
         /\ monitors'[m].status = "running"
         /\ monitors'[m].subscriptions = monitors[m].subscriptions
         /\ monitors'[m].passed = monitors[m].passed + 1
         /\ monitors'[m].fetched = monitors[m].fetched
         /\ monitors'[m].since = monitors[m].since
         /\ monitors'[m].interrupted => monitors[m].interrupted
<1>1. PICK left \in {monitors[m].interrupted, FALSE} :
        monitors' = [monitors EXCEPT ![m].passed = monitors[m].passed + 1, ![m].interrupted = left]
  BY DEF Tell
<1>2. monitors[m] \in Monitor /\ monitors[m].status = "running"
  BY DEF TypeOK, Tell
<1>3. left \in BOOLEAN
  BY <1>2 DEF Monitor
<1> DEFINE new == [monitors[m] EXCEPT !.passed = monitors[m].passed + 1, !.interrupted = left]
<1>4. monitors' = [monitors EXCEPT ![m] = new]
  BY <1>1 DEF TypeOK
<1> DEFINE told == [monitors[m] EXCEPT !.passed = monitors[m].passed + 1]
<1>6. /\ told \in Monitor
      /\ told.status = "running"
      /\ told.subscriptions = monitors[m].subscriptions
      /\ told.passed = monitors[m].passed + 1
      /\ told.fetched = monitors[m].fetched
      /\ told.since = monitors[m].since
  BY <1>2 DEF Monitor
<1>7. new = [told EXCEPT !.interrupted = left]
  OBVIOUS
<1> HIDE DEF told, new
<1>5. /\ new \in Monitor
      /\ new.status = "running"
      /\ new.subscriptions = monitors[m].subscriptions
      /\ new.passed = monitors[m].passed + 1
      /\ new.fetched = monitors[m].fetched
      /\ new.since = monitors[m].since
      /\ new.interrupted = left
  BY <1>3, <1>6, <1>7 DEF Monitor
<1> QED
  BY <1>4, <1>5 DEF TypeOK

LEMMA GetMoreEffect ==
  ASSUME TypeOK, NEW m \in Monitors, GetMore(m)
  PROVE  /\ monitors' \in [Monitors -> Monitor]
         /\ \A k \in Monitors \ {m} : monitors'[k] = monitors[k]
         /\ monitors'[m].status = "running"
         /\ monitors'[m].subscriptions = monitors[m].subscriptions
         /\ monitors'[m].passed = monitors[m].passed
         /\ monitors'[m].fetched = Count(monitors[m].subscriptions, Len(oplog))
         /\ monitors'[m].since = monitors[m].since
         /\ monitors'[m].interrupted = monitors[m].interrupted
<1>1. Count(monitors[m].subscriptions, Len(oplog)) \in Nat
  BY LogType
<1> DEFINE new == [monitors[m] EXCEPT !.fetched = Count(monitors[m].subscriptions, Len(oplog))]
<1>2. monitors' = [monitors EXCEPT ![m] = new]
  BY DEF GetMore, TypeOK
<1>3. monitors[m] \in Monitor /\ monitors[m].status = "running"
  BY DEF TypeOK, GetMore, AsksForMore
<1>4. /\ new \in Monitor
      /\ new.status = "running"
      /\ new.subscriptions = monitors[m].subscriptions
      /\ new.passed = monitors[m].passed
      /\ new.fetched = Count(monitors[m].subscriptions, Len(oplog))
      /\ new.since = monitors[m].since
      /\ new.interrupted = monitors[m].interrupted
  BY <1>1, <1>3 DEF Monitor
<1> HIDE DEF new
<1> QED
  BY <1>2, <1>4 DEF TypeOK

LEMMA StopEffect ==
  ASSUME TypeOK, NEW m \in Monitors, End(m) \/ Die(m)
  PROVE  /\ monitors' \in [Monitors -> Monitor]
         /\ \A k \in Monitors \ {m} : monitors'[k] = monitors[k]
         /\ monitors[m].status = "running"
         /\ Die(m) => monitors'[m].status = "dead"
         /\ End(m) => monitors[m].interrupted
         /\ monitors'[m].status # "new"
         /\ monitors'[m].subscriptions = monitors[m].subscriptions
         /\ monitors'[m].passed = monitors[m].passed
         /\ monitors'[m].fetched = monitors[m].fetched
         /\ monitors'[m].since = monitors[m].since
<1>1. PICK s \in {"ended", "dead"} :
        monitors' = [monitors EXCEPT ![m].status = s] /\ (Die(m) => s = "dead")
  <2>1. CASE Die(m)
    BY <2>1 DEF Die
  <2>2. CASE End(m) /\ ~ Die(m)
    BY <2>2 DEF End
  <2> QED
    BY <2>1, <2>2
<1>2. monitors[m] \in Monitor /\ monitors[m].status = "running" /\ (End(m) => monitors[m].interrupted)
  BY DEF TypeOK, End, Die, AsksForMore
<1> DEFINE new == [monitors[m] EXCEPT !.status = s]
<1>3. /\ new \in Monitor
      /\ new.status = s
      /\ new.subscriptions = monitors[m].subscriptions
      /\ new.passed = monitors[m].passed
      /\ new.fetched = monitors[m].fetched
      /\ new.since = monitors[m].since
  BY <1>2 DEF Monitor
<1>4. monitors' = [monitors EXCEPT ![m] = new]
  BY <1>1 DEF TypeOK
<1> HIDE DEF new
<1> QED
  BY <1>1, <1>2, <1>3, <1>4 DEF TypeOK

-----------------------------------------------------------------------------
\* The types, and that a monitor has not passed more than it holds (run takes
\* an entry only when the cursor has one).
THEOREM TypeCorrect == Spec => []TypeOK
<1>1. Init => TypeOK
  BY BoundsAssumption DEF Init, TypeOK, Monitors, Monitor
<1>2. ASSUME TypeOK, [Next]_vars
      PROVE  TypeOK'
  <2> USE DEF TypeOK
  <2>1. ASSUME NEW op \in Operations, Insert(op)
        PROVE  TypeOK'
    <3>1. 1..Len(oplog) \subseteq 1..Len(oplog')
      BY <2>1, <1>2, InsertEffect
    <3> QED
      BY <1>2, <2>1, <3>1, InsertEffect DEF Insert, clientVars
  <2>2. ASSUME NEW ops \in SUBSET Operations, Construct(ops), subscriptions' \subseteq Operations
        PROVE  TypeOK'
    <3>1. Count(ops, Len(oplog)) \in Nat
      BY <1>2, LogType
    <3>5. monitors'[made + 1].passed = Count(ops, Len(oplog))
          /\ monitors'[made + 1].fetched = Count(ops, Len(oplog))
      BY <1>2, <2>2, ConstructEffect
    <3>4. monitors'[made + 1].passed <= monitors'[made + 1].fetched
      BY <3>1, <3>5
    <3>2. \A k \in Monitors : monitors'[k].passed <= monitors'[k].fetched
      BY <1>2, <2>2, <3>4, ConstructEffect
    <3>3. made' \in 0..MaxMonitors /\ oplogMonitorThread' \in 0..made'
      BY <1>2, <2>2, BoundsAssumption DEF Construct
    <3> QED
      BY <1>2, <2>2, <3>2, <3>3, ConstructEffect DEF Construct
  <2>3. ASSUME NEW op \in Operations, Subscribe(op)
        PROVE  TypeOK'
    BY <1>2, <2>2, <2>3 DEF Subscribe
  <2>4. ASSUME NEW op \in Operations, Unsubscribe(op)
        PROVE  TypeOK'
    <3>1. CASE Construct(subscriptions')
      BY <1>2, <2>2, <2>4, <3>1 DEF Unsubscribe
    <3>2. CASE UNCHANGED <<oplog, caller, oplogMonitorThread, made, monitors, heard>>
      BY <1>2, <2>4, <3>2 DEF Unsubscribe
    <3>3. CASE /\ monitors' = Interrupt(oplogMonitorThread)
               /\ UNCHANGED <<oplog, caller, oplogMonitorThread, made, heard>>
      BY <1>2, <2>4, <3>3, InterruptEffect DEF Unsubscribe
    <3> QED
      BY <2>4, <3>1, <3>2, <3>3 DEF Unsubscribe
  <2>5. ASSUME Replace
        PROVE  TypeOK'
    <3>1. made' = made /\ oplogMonitorThread' \in 0..made'
      BY <1>2, <2>5, ReplaceEffect, BoundsAssumption DEF Replace, Monitors
    <3> QED
      BY <1>2, <2>5, <3>1, ReplaceEffect DEF Replace
  <2>6. ASSUME Close
        PROVE  TypeOK'
    BY <1>2, <2>6, InterruptEffect DEF Close
  <2>7. ASSUME NEW m \in Monitors, GetMore(m)
        PROVE  TypeOK'
    <3>1. \A k \in Monitors : monitors'[k].passed <= monitors'[k].fetched
      BY <1>2, <2>7, GetMoreEffect, LogType DEF GetMore, AsksForMore, Monitor
    <3>2. caller = "replacing" => made # m
      BY <1>2, <2>7 DEF GetMore, AsksForMore
    <3> QED
      BY <1>2, <2>7, <3>1, <3>2, GetMoreEffect DEF GetMore, clientVars
  <2>8. ASSUME NEW m \in Monitors, Tell(m)
        PROVE  TypeOK'
    <3>4. monitors[m].passed \in Nat /\ monitors[m].fetched \in Nat
      BY <1>2 DEF Monitor
    <3>6. monitors'[m].passed = monitors[m].passed + 1 /\ monitors'[m].fetched = monitors[m].fetched
      BY <1>2, <2>8, TellEffect
    <3>7. monitors[m].passed < monitors[m].fetched
      BY <2>8 DEF Tell
    <3>5. monitors'[m].passed <= monitors'[m].fetched
      BY <3>4, <3>6, <3>7
    <3>1. \A k \in Monitors : monitors'[k].passed <= monitors'[k].fetched
      BY <1>2, <2>8, <3>5, TellEffect
    <3>2. heard' \in [Monitors -> SUBSET (1..Len(oplog'))]
      BY <1>2, <2>8 DEF Tell
    <3>3. caller = "replacing" => made # m
      BY <1>2, <2>8 DEF Tell
    <3> QED
      BY <1>2, <2>8, <3>1, <3>2, <3>3, TellEffect DEF Tell, clientVars
  <2>9. ASSUME NEW m \in Monitors, End(m) \/ Die(m)
        PROVE  TypeOK'
    <3>1. \A k \in Monitors : monitors'[k].passed <= monitors'[k].fetched
      BY <1>2, <2>9, StopEffect
    <3>2. caller = "replacing" => made # m
      BY <1>2, <2>9, StopEffect
    <3> QED
      BY <1>2, <2>9, <3>1, <3>2, StopEffect DEF End, Die, clientVars
  <2>10. CASE UNCHANGED vars
    BY <1>2, <2>10 DEF vars, clientVars
  <2> QED
    BY <1>2, <2>1, <2>3, <2>4, <2>5, <2>6, <2>7, <2>8, <2>9, <2>10 DEF Next, run
<1> QED
  BY <1>1, <1>2, PTL DEF Spec

\* The monitor the client knows listens to what the program subscribed to,
\* whatever the monitors do while a new one is made (createNewMonitorThread).
THEOREM CurrentListensCorrect == Spec => []CurrentListens
<1>1. Init => CurrentListens /\ NewIsFresh
  BY DEF Init, CurrentListens, NewIsFresh
<1>2. ASSUME TypeOK, TypeOK', CurrentListens, NewIsFresh, [Next]_vars
      PROVE  CurrentListens' /\ NewIsFresh'
  <2>1. ASSUME NEW op \in Operations, Insert(op)
        PROVE  CurrentListens' /\ NewIsFresh'
    BY <1>2, <2>1 DEF Insert, clientVars, CurrentListens, NewIsFresh
  <2>2. ASSUME NEW ops \in SUBSET Operations, Construct(ops), subscriptions' = ops
        PROVE  CurrentListens' /\ NewIsFresh'
    <3>1. caller' = "replacing" /\ made' = made + 1 /\ oplogMonitorThread' < made'
      BY <1>2, <2>2, BoundsAssumption DEF Construct, TypeOK
    <3> QED
      BY <1>2, <2>2, <3>1, ConstructEffect DEF CurrentListens, NewIsFresh
  <2>3. ASSUME NEW op \in Operations, Subscribe(op)
        PROVE  CurrentListens' /\ NewIsFresh'
    BY <1>2, <2>2, <2>3 DEF Subscribe, TypeOK
  <2>4. ASSUME NEW op \in Operations, Unsubscribe(op)
        PROVE  CurrentListens' /\ NewIsFresh'
    <3>1. CASE Construct(subscriptions')
      BY <1>2, <2>2, <2>4, <3>1 DEF Unsubscribe, TypeOK
    <3>2. CASE UNCHANGED <<oplog, caller, oplogMonitorThread, made, monitors, heard>>
      BY <1>2, <2>4, <3>2 DEF Unsubscribe, CurrentListens, NewIsFresh
    <3>3. CASE /\ subscriptions' = {}
               /\ UNCHANGED <<oplog, caller, oplogMonitorThread, made, heard>>
      BY <1>2, <2>4, <3>3 DEF Unsubscribe, CurrentListens, NewIsFresh
    <3> QED
      BY <2>4, <3>1, <3>2, <3>3 DEF Unsubscribe
  <2>5. ASSUME Replace
        PROVE  CurrentListens' /\ NewIsFresh'
    <3>1. /\ caller = "replacing" /\ caller' = "idle"
          /\ oplogMonitorThread' = made /\ subscriptions' = subscriptions
      BY <2>5 DEF Replace
    <3>2. made # 0
      BY <1>2, <2>5, ReplaceEffect DEF Monitors
    <3>3. /\ monitors'[made].status = "running"
          /\ ~ monitors'[made].interrupted
          /\ subscriptions \subseteq monitors'[made].subscriptions
      BY <1>2, <2>5, <3>1, ReplaceEffect DEF NewIsFresh
    <3> QED
      BY <3>1, <3>2, <3>3 DEF CurrentListens, NewIsFresh
  <2>6. ASSUME Close
        PROVE  CurrentListens' /\ NewIsFresh'
    BY <2>6 DEF Close, CurrentListens, NewIsFresh
  <2>7. ASSUME NEW m \in Monitors, UNCHANGED clientVars,
               monitors[m].status = "running",
               \A k \in Monitors \ {m} : monitors'[k] = monitors[k],
               monitors'[m].subscriptions = monitors[m].subscriptions,
               ~ monitors[m].interrupted =>
                 monitors'[m].status = "dead" \/ (monitors'[m].status = "running" /\ ~ monitors'[m].interrupted)
        PROVE  CurrentListens' /\ NewIsFresh'
    <3>1. NewIsFresh'
      BY <1>2, <2>7 DEF NewIsFresh, TypeOK, clientVars
    <3>2. SUFFICES ASSUME caller = "idle", subscriptions # {}
                   PROVE  CurrentListens'
      BY <2>7, <3>1 DEF CurrentListens, clientVars
    <3> DEFINE c == oplogMonitorThread
    <3>3. /\ c # 0 /\ subscriptions \subseteq monitors[c].subscriptions
          /\ monitors[c].status \in {"running", "dead"}
          /\ monitors[c].status = "running" => ~ monitors[c].interrupted
      BY <1>2, <3>2 DEF CurrentListens
    <3>4. c \in Monitors
      BY <1>2, <3>3, BoundsAssumption DEF TypeOK, Monitors
    <3>5. CASE c = m
      <4>1. ~ monitors[m].interrupted
        BY <2>7, <3>3, <3>5
      <4>2. monitors'[c].status = "dead" \/ (monitors'[c].status = "running" /\ ~ monitors'[c].interrupted)
        BY <2>7, <3>5, <4>1
      <4>3. subscriptions \subseteq monitors'[c].subscriptions
        BY <2>7, <3>3, <3>5
      <4> QED
        BY <2>7, <3>3, <4>2, <4>3 DEF CurrentListens, clientVars
    <3>6. CASE c # m
      <4>1. monitors'[c] = monitors[c]
        BY <2>7, <3>4, <3>6
      <4> QED
        BY <2>7, <3>3, <4>1 DEF CurrentListens, clientVars
    <3> QED
      BY <3>5, <3>6
  <2>8. ASSUME NEW m \in Monitors, run(m) \/ Die(m)
        PROVE  CurrentListens' /\ NewIsFresh'
    <3>1. CASE GetMore(m)
      BY <1>2, <2>7, <3>1, GetMoreEffect DEF GetMore, AsksForMore
    <3>2. CASE Tell(m)
      BY <1>2, <2>7, <3>2, TellEffect DEF Tell
    <3>3. CASE End(m) \/ Die(m)
      BY <1>2, <2>7, <3>3, StopEffect DEF End, Die
    <3> QED
      BY <2>8, <3>1, <3>2, <3>3 DEF run
  <2>9. CASE UNCHANGED vars
    BY <1>2, <2>9 DEF vars, clientVars, CurrentListens, NewIsFresh
  <2> QED
    BY <1>2, <2>1, <2>3, <2>4, <2>5, <2>6, <2>8, <2>9 DEF Next
<1> QED
  BY <1>1, <1>2, TypeCorrect, PTL DEF Spec

\* A monitor that stays where it is while the oplog does stands where it stood.
LEMMA StandKept ==
  ASSUME NEW k \in Monitors, Stands(k), UNCHANGED oplog, heard'[k] = heard[k],
         monitors'[k].since = monitors[k].since,
         monitors'[k].subscriptions = monitors[k].subscriptions,
         monitors'[k].passed = monitors[k].passed,
         monitors'[k].fetched = monitors[k].fetched
  PROVE  Stands(k)'
BY DEF Stands, Bounded, ToldAll, Count

LEMMA StandsInitially == Init => \A m \in Monitors : Stands(m)
<1> SUFFICES ASSUME Init, NEW m \in Monitors PROVE Stands(m)
  OBVIOUS
<1>1. /\ monitors[m].since = 0 /\ monitors[m].passed = 0 /\ monitors[m].fetched = 0
      /\ Len(oplog) = 0
  BY DEF Init
<1>2. \A ops : Count(ops, 0) = 0
  <2>1. \A ops : {i \in 1..0 : oplog[i] \in ops} = {}
    OBVIOUS
  <2> QED
    BY <2>1, FS_EmptySet DEF Count
<1> QED
  BY <1>1, <1>2 DEF Stands, Bounded, ToldAll

\* Every step leaves each monitor where it has told all that is behind it.
LEMMA StandsStep ==
  ASSUME TypeOK, \A m \in Monitors : Stands(m), [Next]_vars
  PROVE  \A m \in Monitors : Stands(m)'
<1> SUFFICES ASSUME NEW k \in Monitors PROVE Stands(k)'
  OBVIOUS
<1>0. /\ monitors[k].since \in Nat /\ monitors[k].passed \in Nat /\ monitors[k].fetched \in Nat
      /\ monitors[k].passed <= monitors[k].fetched
      /\ Len(oplog) \in Nat
      /\ Count(monitors[k].subscriptions, Len(oplog)) \in Nat
  BY LogType DEF TypeOK, Monitor
<1>1. ASSUME NEW op \in Operations, Insert(op)
      PROVE  Stands(k)'
  <2> DEFINE ops == monitors[k].subscriptions
  <2>1. monitors' = monitors /\ heard' = heard
    BY <1>1 DEF Insert
  <2>2. /\ monitors[k].since <= Len(oplog)
        /\ Count(ops, monitors[k].since) <= monitors[k].passed
        /\ monitors[k].fetched <= Count(ops, Len(oplog))
    BY DEF Stands, Bounded
  <2>3. Bounded(k)'
    <3>1. /\ monitors[k].since <= Len(oplog')
          /\ Selected(oplog', ops, monitors[k].since) <= monitors[k].passed
      BY <1>0, <1>1, <2>2, InsertEffect
    <3>2. monitors[k].fetched <= Selected(oplog', ops, Len(oplog'))
      <4>1. Selected(oplog', ops, Len(oplog')) \in Nat
            /\ Count(ops, Len(oplog)) <= Selected(oplog', ops, Len(oplog'))
        BY <1>1, InsertEffect
      <4> QED
        BY <1>0, <2>2, <4>1
    <3> QED
      BY <2>1, <3>1, <3>2 DEF Bounded, Count, Selected
  <2>4. ToldAll(k)'
    <3> SUFFICES ASSUME NEW i \in 1..Len(oplog'), i > monitors[k].since, oplog'[i] \in ops,
                        Selected(oplog', ops, i) <= monitors[k].passed
                 PROVE  i \in heard[k]
      BY <2>1 DEF ToldAll, Count, Selected
    <3>1. CASE i \in 1..Len(oplog)
      <4>1. oplog[i] \in ops /\ Count(ops, i) <= monitors[k].passed
        BY <1>0, <1>1, <3>1, InsertEffect
      <4> QED
        BY <3>1, <4>1 DEF Stands, ToldAll
    <3>2. CASE i = Len(oplog')
      <4>1. Selected(oplog', ops, i) = Count(ops, Len(oplog)) + 1
        BY <1>1, <3>2, InsertEffect
      <4> QED
        BY <1>0, <2>2, <4>1
    <3>3. i \in 1..Len(oplog) \/ i = Len(oplog')
      BY <1>0, <1>1, InsertEffect
    <3> QED
      BY <3>1, <3>2, <3>3
  <2> QED
    BY <2>3, <2>4 DEF Stands
<1>2. ASSUME NEW ops \in SUBSET Operations, Construct(ops)
      PROVE  Stands(k)'
  <2>1. UNCHANGED <<oplog, heard>>
    BY <1>2 DEF Construct
  <2>2. CASE k # made + 1
    BY <1>2, <2>1, <2>2, StandKept, ConstructEffect
  <2>3. CASE k = made + 1
    <3>1. /\ monitors'[k].since = Len(oplog) /\ monitors'[k].subscriptions = ops
          /\ monitors'[k].passed = Count(ops, Len(oplog))
          /\ monitors'[k].fetched = Count(ops, Len(oplog))
      BY <1>2, <2>3, ConstructEffect
    <3>2. Count(ops, Len(oplog)) \in Nat /\ Count(ops, Len(oplog))' = Count(ops, Len(oplog))
      BY LogType, <2>1 DEF Count
    <3>3. Bounded(k)'
      BY <1>0, <2>1, <3>1, <3>2 DEF Bounded
    <3>4. ToldAll(k)'
      BY <1>0, <2>1, <3>1 DEF ToldAll
    <3> QED
      BY <3>3, <3>4 DEF Stands
  <2> QED
    BY <2>2, <2>3
<1>3. ASSUME UNCHANGED <<oplog, heard>>, monitors' = Interrupt(oplogMonitorThread)
      PROVE  Stands(k)'
  BY <1>3, StandKept, InterruptEffect
<1>4. ASSUME NEW op \in Operations, Subscribe(op) \/ Unsubscribe(op)
      PROVE  Stands(k)'
  <2>1. CASE Construct(subscriptions')
    BY <1>2, <1>4, <2>1 DEF Subscribe, Unsubscribe, TypeOK
  <2>2. CASE UNCHANGED <<oplog, monitors, heard>>
    BY <2>2, StandKept
  <2> QED
    BY <1>3, <1>4, <2>1, <2>2 DEF Subscribe, Unsubscribe
<1>5. ASSUME Replace
      PROVE  Stands(k)'
  BY <1>5, StandKept, ReplaceEffect DEF Replace
<1>6. ASSUME Close
      PROVE  Stands(k)'
  BY <1>3, <1>6 DEF Close
<1>7. ASSUME NEW m \in Monitors, GetMore(m)
      PROVE  Stands(k)'
  <2>1. UNCHANGED <<oplog, heard>>
    BY <1>7 DEF GetMore
  <2>2. CASE k # m
    BY <1>7, <2>1, <2>2, StandKept, GetMoreEffect
  <2>3. CASE k = m
    <3>1. /\ monitors'[k].since = monitors[k].since
          /\ monitors'[k].subscriptions = monitors[k].subscriptions
          /\ monitors'[k].passed = monitors[k].passed
          /\ monitors'[k].fetched = Count(monitors[k].subscriptions, Len(oplog))
      BY <1>7, <2>3, GetMoreEffect
    <3>2. \A ops, n : Count(ops, n)' = Count(ops, n)
      BY <2>1 DEF Count
    <3>3. Bounded(k)'
      BY <1>0, <2>1, <3>1, <3>2 DEF Stands, Bounded
    <3>4. ToldAll(k)'
      BY <2>1, <3>1, <3>2 DEF Stands, ToldAll
    <3> QED
      BY <3>3, <3>4 DEF Stands
  <2> QED
    BY <2>2, <2>3
<1>8. ASSUME NEW m \in Monitors, Tell(m)
      PROVE  Stands(k)'
  <2>1. UNCHANGED oplog
    BY <1>8 DEF Tell
  <2>2. CASE k # m
    <3>1. heard'[k] = heard[k]
      BY <1>8, <2>2 DEF Tell, TypeOK
    <3> QED
      BY <1>8, <2>1, <2>2, <3>1, StandKept, TellEffect
  <2>3. CASE k = m
    <3>1. /\ monitors'[k].since = monitors[k].since
          /\ monitors'[k].subscriptions = monitors[k].subscriptions
          /\ monitors'[k].passed = monitors[k].passed + 1
          /\ monitors'[k].fetched = monitors[k].fetched
      BY <1>8, <2>3, TellEffect
    <3>2. \A ops, n : Count(ops, n)' = Count(ops, n)
      BY <2>1 DEF Count
    <3>3. Bounded(k)'
      <4>1. Count(monitors[k].subscriptions, monitors[k].since) \in Nat
        BY <1>0, SelectedType, CountIsSelected
      <4> QED
        BY <1>0, <2>1, <3>1, <3>2, <4>1 DEF Stands, Bounded
    <3>4. heard'[k] = heard[k] \cup {i \in 1..Len(oplog) :
                        IsNth(monitors[k].subscriptions, monitors[k].passed + 1, i)}
      BY <1>8, <2>3 DEF Tell, TypeOK
    <3>5. ToldAll(k)'
      <4> SUFFICES ASSUME NEW i \in 1..Len(oplog), i > monitors[k].since,
                          oplog[i] \in monitors[k].subscriptions,
                          Count(monitors[k].subscriptions, i) <= monitors[k].passed + 1
                   PROVE  i \in heard'[k]
        BY <2>1, <3>1, <3>2 DEF ToldAll
      <4>1. Count(monitors[k].subscriptions, i) \in Nat
        BY <1>0, SelectedType, CountIsSelected, i \in Nat
      <4>2. CASE Count(monitors[k].subscriptions, i) <= monitors[k].passed
        BY <3>4, <4>2 DEF Stands, ToldAll
      <4>3. CASE Count(monitors[k].subscriptions, i) = monitors[k].passed + 1
        BY <3>4, <4>3 DEF IsNth
      <4> QED
        BY <1>0, <4>1, <4>2, <4>3
    <3> QED
      BY <3>3, <3>5 DEF Stands
  <2> QED
    BY <2>2, <2>3
<1>9. ASSUME NEW m \in Monitors, End(m) \/ Die(m)
      PROVE  Stands(k)'
  <2>1. UNCHANGED <<oplog, heard>>
    BY <1>9 DEF End, Die
  <2> QED
    BY <1>9, <2>1, StandKept, StopEffect
<1>10. CASE UNCHANGED vars
  BY <1>10, StandKept DEF vars
<1> QED
  BY <1>1, <1>4, <1>5, <1>6, <1>7, <1>8, <1>9, <1>10 DEF Next, run

\* No entry is lost between the count, the skip and the first query, however
\* many come meanwhile (the constructor of OplogMonitorThread, and run).
THEOREM NothingMissedCorrect == Spec => []NothingMissed
<1>1. Init => \A m \in Monitors : Stands(m)
  BY StandsInitially
<1>2. TypeOK /\ (\A m \in Monitors : Stands(m)) /\ [Next]_vars => (\A m \in Monitors : Stands(m))'
  BY StandsStep
<1>3. (\A m \in Monitors : Stands(m)) => NothingMissed
  BY DEF Stands, ToldAll, NothingMissed
<1> QED
  BY <1>1, <1>2, <1>3, TypeCorrect, PTL DEF Spec

\* No subscriber hears of an entry from before its monitor, or of an operation
\* the monitor was not made for (OplogMonitorThread, matchesWithEntry).
THEOREM OnlyNewEntriesCorrect == Spec => OnlyNewEntries
<1> DEFINE New == \A m \in Monitors : \A i \in heard'[m] \ heard[m] :
                    i > monitors[m].since /\ oplog[i] \in monitors[m].subscriptions
<1>1. ASSUME TypeOK, \A m \in Monitors : Stands(m), [Next]_vars
      PROVE  [New]_vars
  <2> SUFFICES ASSUME NEW m \in Monitors, NEW i \in heard'[m] \ heard[m]
               PROVE  i > monitors[m].since /\ oplog[i] \in monitors[m].subscriptions
    OBVIOUS
  <2>1. Tell(m)
    <3>1. ASSUME NEW k \in Monitors, Tell(k) PROVE k = m
      BY <1>1, <3>1 DEF Tell, TypeOK
    <3> QED
      BY <1>1, <3>1 DEF Next, run, Insert, Subscribe, Unsubscribe, Construct, Replace, Close,
                        GetMore, End, Die, vars
  <2>2. /\ i \in 1..Len(oplog) /\ oplog[i] \in monitors[m].subscriptions
        /\ Count(monitors[m].subscriptions, i) = monitors[m].passed + 1
    BY <1>1, <2>1 DEF Tell, TypeOK, IsNth
  <2>3. monitors[m].since \in Nat /\ monitors[m].passed \in Nat /\ Len(oplog) \in Nat
    BY <1>1, LogType DEF TypeOK, Monitor
  <2>4. Count(monitors[m].subscriptions, monitors[m].since) <= monitors[m].passed
    BY <1>1 DEF Stands, Bounded
  <2>5. ASSUME i <= monitors[m].since
        PROVE  Count(monitors[m].subscriptions, i) <= Count(monitors[m].subscriptions, monitors[m].since)
    BY <2>2, <2>3, <2>5, SelectedMonotone, CountIsSelected
  <2>6. Count(monitors[m].subscriptions, monitors[m].since) \in Nat
    BY <2>3, SelectedType, CountIsSelected
  <2>7. ~ (i <= monitors[m].since)
    BY <2>2, <2>3, <2>4, <2>5, <2>6
  <2> QED
    BY <2>2, <2>3, <2>7
<1>2. Init => \A m \in Monitors : Stands(m)
  BY StandsInitially
<1>3. TypeOK /\ (\A m \in Monitors : Stands(m)) /\ [Next]_vars => (\A m \in Monitors : Stands(m))'
  BY StandsStep
<1> QED
  BY <1>1, <1>2, <1>3, TypeCorrect, PTL DEF Spec, OnlyNewEntries
=============================================================================
