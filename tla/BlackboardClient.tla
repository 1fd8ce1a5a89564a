-------------------------- MODULE BlackboardClient --------------------------
(***************************************************************************)
(* The Java blackboard client: a program subscribes to operations on a     *)
(* collection, and a monitor thread tails MongoDB's oplog for them.  Every *)
(* change of the subscriptions makes a new monitor, which skips what the   *)
(* oplog already holds; the old one is then interrupted and the new one    *)
(* takes its place.  An interruption ends a monitor when it next asks the  *)
(* driver for entries, unless a callback has used it up before.            *)
(***************************************************************************)
EXTENDS Naturals, Sequences, FiniteSets

CONSTANTS
  Operations,   \* what can be subscribed to
  MaxEntries,   \* bound: entries the oplog gets
  MaxMonitors   \* bound: monitors the client makes

ASSUME BoundsAssumption == MaxEntries \in Nat /\ MaxMonitors \in Nat

VARIABLES
  oplog,               \* the operations on the collection, oldest first
  subscriptions,       \* of the client; a program has one per operation
  caller,              \* the program: in a call, between calls, or done
  oplogMonitorThread,  \* the monitor the client knows, 0 for null
  made,                \* how many monitors were constructed
  monitors,            \* the monitors, by number
  heard                \* per monitor, the entries it told (history)

clientVars == <<subscriptions, caller, oplogMonitorThread, made>>
vars == <<oplog, clientVars, monitors, heard>>

Monitors == 1..MaxMonitors

\* A monitor is constructed but not started, running, ended by an
\* interruption, or dead of an exception nothing caught.  Of the entries its
\* query selects it has passed some and holds some more, up to fetched, in the
\* driver's batch; since is the length of the oplog when it counted (history).
Monitor == [status : {"new", "running", "ended", "dead"}, subscriptions : SUBSET Operations,
            passed : Nat, fetched : Nat, interrupted : BOOLEAN, since : Nat]

TypeOK ==
  /\ oplog \in Seq(Operations)
  /\ subscriptions \subseteq Operations
  /\ caller \in {"idle", "replacing", "done"}
  /\ made \in 0..MaxMonitors
  /\ oplogMonitorThread \in 0..made
  /\ caller = "replacing" => made \in Monitors /\ monitors[made].status = "new"
  /\ monitors \in [Monitors -> Monitor]
  /\ \A m \in Monitors : monitors[m].passed <= monitors[m].fetched
  /\ heard \in [Monitors -> SUBSET (1..Len(oplog))]

Init ==
  /\ oplog = <<>>
  /\ subscriptions = {}
  /\ caller = "idle"
  /\ oplogMonitorThread = 0
  /\ made = 0
  /\ monitors = [m \in Monitors |->
       [status |-> "new", subscriptions |-> {}, passed |-> 0, fetched |-> 0,
        interrupted |-> FALSE, since |-> 0]]
  /\ heard = [m \in Monitors |-> {}]
-----------------------------------------------------------------------------
\* How many of the first n entries a query for the operations ops selects.
Count(ops, n) == Cardinality({i \in 1..n : oplog[i] \in ops})

\* Entry i is the n-th of those.
IsNth(ops, n, i) == oplog[i] \in ops /\ Count(ops, i) = n

\* Somebody changes the collection.
Insert(op) ==
  /\ Len(oplog) < MaxEntries
  /\ oplog' = Append(oplog, op)
  /\ UNCHANGED <<clientVars, monitors, heard>>

\* Mutant: skips the entries of every operation there is.
ConstructCountsAll(ops) ==
  /\ made < MaxMonitors
  /\ made' = made + 1
  /\ monitors' = [monitors EXCEPT ![made + 1] =
       [status |-> "new", subscriptions |-> ops, passed |-> Len(oplog),
        fetched |-> Len(oplog), interrupted |-> FALSE, since |-> Len(oplog)]]
  /\ caller' = "replacing"
  /\ UNCHANGED <<oplog, oplogMonitorThread, heard>>

\* Mutant: skips nothing.
ConstructNoSkip(ops) ==
  /\ made < MaxMonitors
  /\ made' = made + 1
  /\ monitors' = [monitors EXCEPT ![made + 1] =
       [status |-> "new", subscriptions |-> ops, passed |-> 0, fetched |-> 0,
        interrupted |-> FALSE, since |-> Len(oplog)]]
  /\ caller' = "replacing"
  /\ UNCHANGED <<oplog, oplogMonitorThread, heard>>

\* createNewMonitorThread as far as the constructor: a tailing cursor that
\* skips as many entries as its query selects now.
Construct(ops) ==
  /\ made < MaxMonitors
  /\ made' = made + 1
  /\ LET n == Count(ops, Len(oplog))
     IN  monitors' = [monitors EXCEPT ![made + 1] =
           [status |-> "new", subscriptions |-> ops, passed |-> n, fetched |-> n,
            interrupted |-> FALSE, since |-> Len(oplog)]]
  /\ caller' = "replacing"
  /\ UNCHANGED <<oplog, oplogMonitorThread, heard>>

\* The monitors after monitor m, if there is one and it lives, is interrupted.
Interrupt(m) ==
  [k \in Monitors |-> IF k = m /\ monitors[k].status = "running"
                      THEN [monitors[k] EXCEPT !.interrupted = TRUE]
                      ELSE monitors[k]]

\* Mutant: puts the new monitor in its place before it interrupts.
ReplaceFirst ==
  /\ caller = "replacing"
  /\ monitors' = [monitors EXCEPT ![made].status = "running", ![made].interrupted = TRUE]
  /\ oplogMonitorThread' = made
  /\ caller' = "idle"
  /\ UNCHANGED <<oplog, subscriptions, made, heard>>

\* The rest of createNewMonitorThread.
Replace ==
  /\ caller = "replacing"
  /\ monitors' = [Interrupt(oplogMonitorThread) EXCEPT ![made].status = "running"]
  /\ oplogMonitorThread' = made
  /\ caller' = "idle"
  /\ UNCHANGED <<oplog, subscriptions, made, heard>>

\* When the cursor cannot be made, subscribe takes its subscription back and
\* nothing has changed.
Subscribe(op) ==
  /\ caller = "idle"
  /\ op \notin subscriptions
  /\ subscriptions' = subscriptions \cup {op}
  /\ Construct(subscriptions')

\* Nothing looks at the result of createNewMonitorThread here: when the cursor
\* cannot be made, the old monitor goes on calling for op.
Unsubscribe(op) ==
  /\ caller = "idle"
  /\ op \in subscriptions
  /\ subscriptions' = subscriptions \ {op}
  /\ \/ subscriptions' # {} /\ Construct(subscriptions')
     \/ subscriptions' # {} /\ UNCHANGED <<oplog, caller, oplogMonitorThread, made, monitors, heard>>
     \/ /\ subscriptions' = {}
        /\ monitors' = Interrupt(oplogMonitorThread)
        /\ UNCHANGED <<oplog, caller, oplogMonitorThread, made, heard>>

\* close is the last call: it is made before the client is disposed of.
Close ==
  /\ caller = "idle"
  /\ caller' = "done"
  /\ monitors' = Interrupt(oplogMonitorThread)
  /\ UNCHANGED <<oplog, subscriptions, oplogMonitorThread, made, heard>>
-----------------------------------------------------------------------------
\* Monitor m is in run, and has worked off what the driver gave it.
AsksForMore(m) == monitors[m].status = "running" /\ monitors[m].passed = monitors[m].fetched

\* Mutant: a cursor that is not tailable has one batch.
GetMoreOnce(m) ==
  /\ AsksForMore(m)
  /\ monitors[m].fetched = Count(monitors[m].subscriptions, monitors[m].since)
  /\ Count(monitors[m].subscriptions, Len(oplog)) > monitors[m].fetched
  /\ monitors' = [monitors EXCEPT ![m].fetched = Count(monitors[m].subscriptions, Len(oplog))]
  /\ UNCHANGED <<oplog, clientVars, heard>>

\* hasNext waits for entries the query selects; a batch that is there may still be had after
\* an interruption.
GetMore(m) ==
  /\ AsksForMore(m)
  /\ Count(monitors[m].subscriptions, Len(oplog)) > monitors[m].fetched
  /\ monitors' = [monitors EXCEPT ![m].fetched = Count(monitors[m].subscriptions, Len(oplog))]
  /\ UNCHANGED <<oplog, clientVars, heard>>

\* hasNext throws MongoInterruptedException, or run's loop ends.
End(m) ==
  /\ AsksForMore(m)
  /\ monitors[m].interrupted
  /\ monitors' = [monitors EXCEPT ![m].status = "ended"]
  /\ UNCHANGED <<oplog, clientVars, heard>>

\* The next entry, and onMessage for the subscription that matches it.  When
\* onMessage asks the driver for something, as the SCADA agent's does, an
\* interruption makes that fail with an exception that onMessage catches, and
\* the thread is no longer interrupted.
Tell(m) ==
  /\ monitors[m].status = "running"
  /\ monitors[m].passed < monitors[m].fetched
  /\ \E left \in {monitors[m].interrupted, FALSE} :
       monitors' = [monitors EXCEPT ![m].passed = @ + 1, ![m].interrupted = left]
  /\ heard' = [heard EXCEPT ![m] = @ \cup
       {i \in 1..Len(oplog) : IsNth(monitors[m].subscriptions, monitors[m].passed + 1, i)}]
  /\ UNCHANGED <<oplog, clientVars>>

\* run catches no other exception, of the driver or of a callback.
Die(m) ==
  /\ monitors[m].status = "running"
  /\ monitors' = [monitors EXCEPT ![m].status = "dead"]
  /\ UNCHANGED <<oplog, clientVars, heard>>

run(m) == GetMore(m) \/ Tell(m) \/ End(m)

Next ==
  \/ \E op \in Operations : Insert(op) \/ Subscribe(op) \/ Unsubscribe(op)
  \/ Replace
  \/ Close
  \/ \E m \in Monitors : run(m) \/ Die(m)

Spec == Init /\ [][Next]_vars

\* Threads run: calls return, and a monitor goes on unless it waits.
FairSpec == Spec /\ WF_vars(Replace) /\ \A m \in Monitors : WF_vars(run(m))
=============================================================================
