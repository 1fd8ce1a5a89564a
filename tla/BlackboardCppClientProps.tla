---------------------- MODULE BlackboardCppClientProps ----------------------
(***************************************************************************)
(* What must be true of BlackboardCppClient.                               *)
(***************************************************************************)
EXTENDS BlackboardCppClient

ToldToAny == UNION {told[r] : r \in Readers}

\* A thread tells nothing that was there when it counted: what an earlier process, or
\* an earlier thread, may have told already.
OnlyNewEntries ==
  \A r \in Readers : \A i \in told[r] : i > readers[r].since

\* What a thread passes over of the new messages, it counted as an entry of another
\* collection.
LossIsBounded ==
  \A r \in Readers :
    Cardinality(missed[r])
      <= Cardinality({i \in 1..readers[r].since : oplog[i] = "foreign"})

\* The callback removes the oldest message, not the one it was told.  While only one
\* thread reads, a message still stays in the collection until it, or one after it, was
\* told - whatever was lost, and however often the process was restarted.
NewestStays ==
  ~overlapped =>
    \A i \in 1..Len(oplog) :
      oplog[i] \in Topics /\ (\A t \in ToldToAny : t < i) => i \in collection

\* Entry i waits for a thread that will have skipped all it skips when it gets there.
Awaits(r, i) ==
  /\ readers[r].status \in {"reading", "callback", "removing"}
  /\ i \in readers[r].passed + 1..Len(oplog)
  /\ Cardinality(Own(i)) - Cardinality(Own(readers[r].passed)) > readers[r].skip

WantsAll(r) == Running(r) /\ subscriptions = Topics

\* A message past what a thread skips is told to the callback, if its topic stays
\* subscribed to and the process lives.
NewIsTold ==
  \A r \in Readers : \A i \in 1..2 * MaxWrites :
    Awaits(r, i) /\ oplog[i] \in Topics ~> (i \in told[r] \/ ~WantsAll(r))
=============================================================================
