------------------------ MODULE BlackboardCppClient ------------------------
(***************************************************************************)
(* The C++ blackboard client and the callback of the equiplet node that    *)
(* uses it.  A thread reads MongoDB's oplog for the collection, tells the   *)
(* callback of the inserts with a topic that is subscribed to, and the      *)
(* callback removes the oldest message of the collection - not the one it   *)
(* was told.  Before it reads, the thread skips as many entries as all of   *)
(* the oplog has, although its cursor gives it those of its collection      *)
(* only.                                                                    *)
(*                                                                          *)
(* A message is known by the place in the oplog of the entry that inserted  *)
(* it.  The calls on the database are atomic; the program and its threads   *)
(* take turns at the unlocked subscriptions, one call at a time.            *)
(***************************************************************************)
EXTENDS Naturals, Sequences, FiniteSets

CONSTANTS
  Topics,       \* that messages have
  MaxWrites,    \* bound: entries that are not removals by the client
  MaxReaders    \* bound: threads that are started

ASSUME BoundsAssumption == MaxWrites \in Nat /\ MaxReaders \in Nat
ASSUME TopicsAssumption == "remove" \notin Topics /\ "foreign" \notin Topics

VARIABLES
  oplog,          \* inserts, by their topics, removals, and entries of other collections
  writes,         \* how many entries the client did not make
  collection,     \* the messages in the collection
  subscriptions,  \* of the client
  made,           \* how many threads were started
  readers,        \* the threads, by number
  told,           \* per thread, the messages it told the callback (history)
  missed,         \* per thread, the messages after its count that it skipped (history)
  overlapped      \* whether a thread was started while another ran (history)

vars == <<oplog, writes, collection, subscriptions, made, readers, told, missed, overlapped>>
history == <<told, missed, overlapped>>

Readers == 1..MaxReaders
Entries == Topics \cup {"remove", "foreign"}

\* A thread counts the oplog, opens its cursor, and reads; for a message it runs the
\* callback, which finds the oldest message and removes it.  It has passed some
\* entries of the oplog, skips as many of its own yet, and since is the length of the
\* oplog when it counted (history).
Reader == [status : {"none", "counting", "querying", "reading", "callback", "removing", "dead"},
           passed : Nat, skip : Nat, since : Nat, found : Nat]

TypeOK ==
  /\ oplog \in Seq(Entries)
  /\ writes \in 0..MaxWrites
  /\ collection \subseteq {i \in 1..Len(oplog) : oplog[i] \in Topics}
  /\ subscriptions \subseteq Topics
  /\ made \in 0..MaxReaders
  /\ readers \in [Readers -> Reader]
  /\ \A r \in Readers : /\ r > made <=> readers[r].status = "none"
                        /\ readers[r].passed <= Len(oplog) /\ readers[r].since <= Len(oplog)
  /\ told \in [Readers -> SUBSET (1..Len(oplog))]
  /\ missed \in [Readers -> SUBSET (1..Len(oplog))]
  /\ overlapped \in BOOLEAN

Idle == [status |-> "none", passed |-> 0, skip |-> 0, since |-> 0, found |-> 0]

Init ==
  /\ oplog = <<>> /\ writes = 0 /\ collection = {}
  /\ subscriptions = {}
  /\ made = 0
  /\ readers = [r \in Readers |-> Idle]
  /\ told = [r \in Readers |-> {}] /\ missed = [r \in Readers |-> {}]
  /\ overlapped = FALSE

Running(r) == readers[r].status \notin {"none", "dead"}
-----------------------------------------------------------------------------
\* insertJson, by this or another program.
Insert(t) ==
  /\ writes < MaxWrites
  /\ writes' = writes + 1
  /\ oplog' = Append(oplog, t)
  /\ collection' = collection \cup {Len(oplog) + 1}
  /\ UNCHANGED <<subscriptions, made, readers, history>>

\* Somebody writes to another collection.
WriteElsewhere ==
  /\ writes < MaxWrites
  /\ writes' = writes + 1
  /\ oplog' = Append(oplog, "foreign")
  /\ UNCHANGED <<collection, subscriptions, made, readers, history>>

\* Starts a thread whenever one subscription exists afterwards.
subscribe(t) ==
  /\ subscriptions' = subscriptions \cup {t}
  /\ IF Cardinality(subscriptions') = 1
     THEN /\ made < MaxReaders
          /\ made' = made + 1
          /\ readers' = [readers EXCEPT ![made + 1].status = "counting"]
          /\ overlapped' = (overlapped \/ \E r \in Readers : Running(r))
     ELSE UNCHANGED <<made, readers, overlapped>>
  /\ UNCHANGED <<oplog, writes, collection, told, missed>>

\* Without subscriptions the thread is interrupted, which it never notices: nothing
\* in its loop looks for an interruption.
unsubscribe(t) ==
  /\ t \in subscriptions
  /\ subscriptions' = subscriptions \ {t}
  /\ UNCHANGED <<oplog, writes, collection, made, readers, history>>

\* The process ends, of an exception in a thread or otherwise, and with it all of the
\* threads; it is started again with a client that has no subscription yet.
Restart ==
  /\ made > 0
  /\ subscriptions' = {}
  /\ readers' = [r \in Readers |->
       IF Running(r) THEN [readers[r] EXCEPT !.status = "dead"] ELSE readers[r]]
  /\ UNCHANGED <<oplog, writes, collection, made, history>>
-----------------------------------------------------------------------------
\* The entries of the collection among the first n.
Own(n) == {i \in 1..n : oplog[i] # "foreign"}

Becomes(r, R) == readers' = [readers EXCEPT ![r] = R]

\* Mutant: counts one entry less.
CountTooFew(r) ==
  /\ readers[r].status = "counting"
  /\ Becomes(r, [readers[r] EXCEPT !.status = "querying",
                                         !.since = Len(oplog), !.skip = IF Len(oplog) > 0 THEN Len(oplog) - 1 ELSE 0])
  /\ UNCHANGED <<oplog, writes, collection, subscriptions, made, history>>

\* Mutant: counts one entry more.
CountTooMany(r) ==
  /\ readers[r].status = "counting"
  /\ Becomes(r, [readers[r] EXCEPT !.status = "querying",
                                         !.since = Len(oplog), !.skip = Len(oplog) + 1])
  /\ UNCHANGED <<oplog, writes, collection, subscriptions, made, history>>

\* collStats gives the number of all the entries of the oplog.
Count(r) ==
  /\ readers[r].status = "counting"
  /\ Becomes(r, [readers[r] EXCEPT !.status = "querying",
                                         !.since = Len(oplog), !.skip = Len(oplog)])
  /\ UNCHANGED <<oplog, writes, collection, subscriptions, made, history>>

\* The tailing cursor.  What it should skip and the oplog does not yet have, it skips
\* later or not at all, as the server has it.
Query(r) ==
  /\ readers[r].status = "querying"
  /\ \E n \in {readers[r].skip, Cardinality(Own(Len(oplog)))} :
       /\ n <= readers[r].skip
       /\ Becomes(r, [readers[r] EXCEPT !.status = "reading", !.skip = n])
  /\ UNCHANGED <<oplog, writes, collection, subscriptions, made, history>>

\* The next entry the cursor has for r: those before it are of other collections.
NextOwn(r, i) ==
  /\ i \in readers[r].passed + 1..Len(oplog) /\ oplog[i] # "foreign"
  /\ \A k \in readers[r].passed + 1..i - 1 : oplog[k] = "foreign"

Skip(r, i) ==
  /\ readers[r].skip > 0
  /\ Becomes(r, [readers[r] EXCEPT !.passed = i, !.skip = @ - 1])
  /\ missed' = IF oplog[i] \in Topics /\ i > readers[r].since
               THEN [missed EXCEPT ![r] = @ \cup {i}] ELSE missed
  /\ UNCHANGED told

\* The test for an insert lets every operation through; a removal has no topic.
Tell(r, i) ==
  /\ readers[r].skip = 0
  /\ IF oplog[i] \in subscriptions
     THEN /\ Becomes(r, [readers[r] EXCEPT !.passed = i, !.status = "callback"])
          /\ told' = [told EXCEPT ![r] = @ \cup {i}]
     ELSE /\ Becomes(r, [readers[r] EXCEPT !.passed = i])
          /\ UNCHANGED told
  /\ UNCHANGED missed

\* Mutant: the loop ends with the cursor's first batch.
ReadOnce(r) ==
  /\ readers[r].status = "reading" /\ readers[r].passed = 0
  /\ \E i \in 1..Len(oplog) : NextOwn(r, i) /\ (Skip(r, i) \/ Tell(r, i))
  /\ UNCHANGED <<oplog, writes, collection, subscriptions, made, overlapped>>

Read(r) ==
  /\ readers[r].status = "reading"
  /\ \E i \in 1..Len(oplog) : NextOwn(r, i) /\ (Skip(r, i) \/ Tell(r, i))
  /\ UNCHANGED <<oplog, writes, collection, subscriptions, made, overlapped>>

\* The first half of removeOldestMessage: 0 when the collection is empty.
Find(r) ==
  /\ readers[r].status = "callback"
  /\ \/ collection = {} /\ Becomes(r, [readers[r] EXCEPT !.status = "removing", !.found = 0])
     \/ \E i \in collection :
          /\ \A k \in collection : i <= k
          /\ Becomes(r, [readers[r] EXCEPT !.status = "removing", !.found = i])
  /\ UNCHANGED <<oplog, writes, collection, subscriptions, made, history>>

\* Mutant: the query for the message that was found is left out.
MatchesAny(r) == collection

\* What the second half removes: an empty message to look for matches everything.
Matches(r) == IF readers[r].found = 0 THEN collection ELSE collection \cap {readers[r].found}

\* The second half of removeOldestMessage.
Remove(r) ==
  /\ readers[r].status = "removing"
  /\ collection' = collection \ Matches(r)
  /\ oplog' = oplog \o [i \in 1..Cardinality(Matches(r)) |-> "remove"]
  /\ Becomes(r, [readers[r] EXCEPT !.status = "reading"])
  /\ UNCHANGED <<writes, subscriptions, made, history>>

run(r) == Count(r) \/ Query(r) \/ Read(r) \/ Find(r) \/ Remove(r)

Next ==
  \/ \E t \in Topics : Insert(t) \/ subscribe(t) \/ unsubscribe(t)
  \/ WriteElsewhere
  \/ Restart
  \/ \E r \in Readers : run(r)

Spec     == Init /\ [][Next]_vars
FairSpec == Spec /\ \A r \in Readers : WF_vars(run(r))
=============================================================================
