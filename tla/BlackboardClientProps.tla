----------------------- MODULE BlackboardClientProps -----------------------
(***************************************************************************)
(* What must be true of the Java blackboard client and its monitors.       *)
(***************************************************************************)
EXTENDS BlackboardClient

\* Between two calls of a program that has subscriptions, the monitor the
\* client knows listens to them all and was not told to end: only an exception
\* can have silenced it (createNewMonitorThread: the old monitor is interrupted
\* and the new one started; when that fails, the old one is kept alive).
CurrentListens ==
  caller = "idle" /\ subscriptions # {} =>
    /\ oplogMonitorThread # 0
    /\ LET m == monitors[oplogMonitorThread]
       IN  /\ m.status \in {"running", "dead"}
           /\ m.status = "running" => ~ m.interrupted
           /\ subscriptions \subseteq m.subscriptions

\* A monitor passes over no entry: of those it listens to that came after it
\* was constructed, and so also while it was waiting to take its place, each
\* one it has passed it has told to a subscriber (OplogMonitorThread: the skip
\* and the count it is taken from agree).
NothingMissed ==
  \A m \in Monitors : \A i \in 1..Len(oplog) :
    /\ i > monitors[m].since
    /\ oplog[i] \in monitors[m].subscriptions
    /\ Count(monitors[m].subscriptions, i) <= monitors[m].passed
    => i \in heard[m]

\* A monitor tells only entries that came after it was constructed, of
\* operations it was made for: no subscriber hears what the oplog held before
\* (OplogMonitorThread: the skip; matchesWithEntry).
OnlyNewEntries ==
  [][\A m \in Monitors : \A i \in heard'[m] \ heard[m] :
       i > monitors[m].since /\ oplog[i] \in monitors[m].subscriptions]_vars

\* An entry the client's monitor listens to is told to a subscriber sooner or
\* later, unless that monitor is interrupted or dies (BlackboardSubscriber:
\* onMessage "is invoked whenever the subscribed event occurs").
EveryEntryIsTold ==
  \A m \in Monitors : \A i \in 1..MaxEntries :
    (/\ oplogMonitorThread = m
     /\ i \in (monitors[m].since + 1)..Len(oplog)
     /\ oplog[i] \in monitors[m].subscriptions)
    ~> (i \in heard[m] \/ monitors[m].interrupted \/ monitors[m].status \in {"ended", "dead"})
=============================================================================
