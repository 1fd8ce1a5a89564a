--------------------- MODULE BlackboardCppClientProofs ---------------------
(***************************************************************************)
(* Proofs about BlackboardCppClient, for any topics, any number of writes,  *)
(* threads and restarts.                                                    *)
(***************************************************************************)
EXTENDS BlackboardCppClientProps, FiniteSetTheorems, SequenceTheorems, TLAPS

\* Sets of places in the oplog are finite.
LEMMA FinitePlaces ==
  ASSUME NEW n \in Nat, NEW S \in SUBSET (1..n)
  PROVE  IsFiniteSet(S) /\ Cardinality(S) \in Nat /\ Cardinality(S) <= n
<1>1. IsFiniteSet(1..n) /\ Cardinality(1..n) = n
  BY FS_Interval, 1 \in Int, n \in Int
<1>2. IsFiniteSet(S) /\ Cardinality(S) <= n
  BY <1>1, FS_Subset
<1> QED BY <1>2, FS_CardinalityType

\* The oplog only grows, and the client adds removals only.
LogGrows ==
  /\ oplog' \in Seq(Entries)
  /\ Len(oplog) \in Nat /\ Len(oplog') \in Nat /\ Len(oplog) <= Len(oplog')
  /\ \A i \in 1..Len(oplog) : oplog'[i] = oplog[i]

LEMMA AppendGrows ==
  ASSUME TypeOK, NEW e \in Entries, oplog' = Append(oplog, e)
  PROVE  LogGrows /\ Len(oplog') = Len(oplog) + 1 /\ oplog'[Len(oplog) + 1] = e
BY DEF TypeOK, LogGrows

LEMMA RemoveGrows ==
  ASSUME TypeOK, NEW r \in Readers, Remove(r)
  PROVE  /\ LogGrows
         /\ \A i \in Len(oplog) + 1..Len(oplog') : oplog'[i] = "remove"
<1> DEFINE c == Cardinality(Matches(r))
           s == [i \in 1..c |-> "remove"]
<1>1. c \in Nat
  <2>1. collection \in SUBSET (1..Len(oplog)) /\ Len(oplog) \in Nat
    BY DEF TypeOK
  <2>2. Matches(r) \in SUBSET (1..Len(oplog))
    BY <2>1 DEF Matches
  <2> QED BY <2>1, <2>2, FinitePlaces
<1>2. oplog' = oplog \o s
  BY DEF Remove
<1> HIDE DEF c
<1>3. s \in Seq(Entries) /\ Len(s) = c /\ \A i \in 1..c : s[i] = "remove"
  BY <1>1 DEF Entries
<1> HIDE DEF s
<1>4. oplog \in Seq(Entries) /\ Len(oplog) \in Nat
  BY DEF TypeOK
<1>5. /\ oplog' \in Seq(Entries) /\ Len(oplog') = Len(oplog) + c
      /\ \A i \in 1..Len(oplog) + c :
           oplog'[i] = IF i <= Len(oplog) THEN oplog[i] ELSE s[i - Len(oplog)]
  <2>1. \A t1, t2 \in Seq(Entries) :
          /\ t1 \o t2 \in Seq(Entries) /\ Len(t1 \o t2) = Len(t1) + Len(t2)
          /\ \A i \in 1..Len(t1) + Len(t2) :
               (t1 \o t2)[i] = IF i <= Len(t1) THEN t1[i] ELSE t2[i - Len(t1)]
    BY ConcatProperties
  <2> QED BY <2>1, <1>2, <1>3, <1>4, Zenon
<1> QED BY <1>1, <1>3, <1>4, <1>5 DEF LogGrows

\* What an action leaves alone keeps its type while the oplog grows.
LEMMA TypeOfSame ==
  ASSUME TypeOK, LogGrows
  PROVE  /\ collection \subseteq {i \in 1..Len(oplog') : oplog'[i] \in Topics}
         /\ told \in [Readers -> SUBSET (1..Len(oplog'))]
         /\ missed \in [Readers -> SUBSET (1..Len(oplog'))]
         /\ \A r \in Readers : readers[r].passed <= Len(oplog')
                               /\ readers[r].since <= Len(oplog')
<1>1. 1..Len(oplog) \subseteq 1..Len(oplog')
  BY DEF LogGrows
<1>2. \A r \in Readers : readers[r].passed \in Nat /\ readers[r].since \in Nat
  BY DEF TypeOK, Reader
<1> QED BY <1>1, <1>2 DEF TypeOK, LogGrows

\* Another thread keeps its record, and r gets one of the right type.
LEMMA TypeOfReaders ==
  ASSUME TypeOK, NEW r \in Readers, NEW R \in Reader, Becomes(r, R),
         readers[r].status # "none", R.status # "none",
         R.passed <= Len(oplog), R.since <= Len(oplog)
  PROVE  /\ readers' \in [Readers -> Reader]
         /\ readers'[r] = R /\ \A q \in Readers \ {r} : readers'[q] = readers[q]
         /\ \A q \in Readers : /\ q > made <=> readers'[q].status = "none"
                               /\ readers'[q].passed <= Len(oplog)
                               /\ readers'[q].since <= Len(oplog)
<1>1. readers \in [Readers -> Reader]
  BY DEF TypeOK
<1>2. readers' \in [Readers -> Reader] /\ readers'[r] = R
      /\ \A q \in Readers \ {r} : readers'[q] = readers[q]
  BY <1>1 DEF Becomes
<1>3. \A q \in Readers : /\ q > made <=> readers[q].status = "none"
                         /\ readers[q].passed <= Len(oplog)
                         /\ readers[q].since <= Len(oplog)
  BY DEF TypeOK
<1>4. ~(r > made)
  BY <1>3
<1> QED BY <1>2, <1>3, <1>4
-----------------------------------------------------------------------------
\* What the steps of a thread do to its record.
CountRecord(r, R) ==
  /\ R.status = "querying" /\ R.passed = readers[r].passed
  /\ R.since = Len(oplog) /\ R.skip = Len(oplog)

QueryRecord(r, R) ==
  /\ R.status = "reading" /\ R.passed = readers[r].passed
  /\ R.since = readers[r].since
  /\ R.skip <= readers[r].skip
  /\ R.skip \in {readers[r].skip, Cardinality(Own(Len(oplog)))}

SkipRecord(r, i, R) ==
  /\ R.status = "reading" /\ R.passed = i /\ R.since = readers[r].since
  /\ readers[r].skip > 0 /\ R.skip = readers[r].skip - 1

TellRecord(r, i, R) ==
  /\ R.passed = i /\ R.since = readers[r].since
  /\ readers[r].skip = 0 /\ R.skip = 0
  /\ R.status = IF oplog[i] \in subscriptions THEN "callback" ELSE "reading"

FindRecord(r, R) ==
  /\ R.status = "removing" /\ R.passed = readers[r].passed
  /\ R.since = readers[r].since /\ R.skip = readers[r].skip
  /\ collection = {} \/ (R.found \in collection /\ \A k \in collection : R.found <= k)

RemoveRecord(r, R) ==
  /\ R.status = "reading" /\ R.passed = readers[r].passed
  /\ R.since = readers[r].since /\ R.skip = readers[r].skip

LEMMA CountEffect ==
  ASSUME TypeOK, NEW r \in Readers, Count(r)
  PROVE  \E R \in Reader : Becomes(r, R) /\ CountRecord(r, R)
<1> DEFINE R == [readers[r] EXCEPT !.status = "querying", !.since = Len(oplog), !.skip = Len(oplog)]
<1>1. Becomes(r, R)
  BY DEF Count
<1>2. readers[r] \in Reader /\ Len(oplog) \in Nat
  BY DEF TypeOK
<1>3. R \in Reader /\ CountRecord(r, R)
  BY <1>2 DEF Reader, CountRecord
<1> QED BY <1>1, <1>3

LEMMA QueryEffect ==
  ASSUME TypeOK, NEW r \in Readers, Query(r)
  PROVE  \E R \in Reader : Becomes(r, R) /\ QueryRecord(r, R)
<1>1. PICK n \in {readers[r].skip, Cardinality(Own(Len(oplog)))} :
        n <= readers[r].skip /\ Becomes(r, [readers[r] EXCEPT !.status = "reading", !.skip = n])
  BY DEF Query
<1>2. readers[r] \in Reader
  BY DEF TypeOK
<1>3. n \in Nat
  <2>1. Own(Len(oplog)) \in SUBSET (1..Len(oplog)) /\ Len(oplog) \in Nat
    BY DEF TypeOK, Own
  <2> QED BY <2>1, <1>2, FinitePlaces DEF Reader
<1> DEFINE R == [readers[r] EXCEPT !.status = "reading", !.skip = n]
<1>4. R \in Reader /\ QueryRecord(r, R)
  BY <1>1, <1>2, <1>3 DEF Reader, QueryRecord
<1> QED BY <1>1, <1>4

LEMMA SkipEffect ==
  ASSUME TypeOK, NEW r \in Readers, readers[r].status = "reading",
         NEW i \in 1..Len(oplog), Skip(r, i)
  PROVE  \E R \in Reader : Becomes(r, R) /\ SkipRecord(r, i, R)
<1> DEFINE R == [readers[r] EXCEPT !.passed = i, !.skip = @ - 1]
<1>1. Becomes(r, R) /\ readers[r].skip > 0
  BY DEF Skip
<1>2. readers[r] \in Reader /\ i \in Nat
  BY DEF TypeOK
<1>3. readers[r].skip - 1 \in Nat
  BY <1>1, <1>2 DEF Reader
<1>4. R \in Reader /\ SkipRecord(r, i, R)
  BY <1>1, <1>2, <1>3 DEF Reader, SkipRecord
<1> QED BY <1>1, <1>4

LEMMA TellEffect ==
  ASSUME TypeOK, NEW r \in Readers, readers[r].status = "reading",
         NEW i \in 1..Len(oplog), Tell(r, i)
  PROVE  \E R \in Reader : Becomes(r, R) /\ TellRecord(r, i, R)
<1>0. readers[r] \in Reader /\ readers[r].skip = 0 /\ i \in Nat
  BY DEF TypeOK, Tell
<1>1. CASE oplog[i] \in subscriptions
  <2> DEFINE R == [readers[r] EXCEPT !.passed = i, !.status = "callback"]
  <2>1. Becomes(r, R)
    BY <1>1 DEF Tell
  <2>2. R \in Reader /\ TellRecord(r, i, R)
    BY <1>0, <1>1 DEF Reader, TellRecord
  <2> QED BY <2>1, <2>2
<1>2. CASE oplog[i] \notin subscriptions
  <2> DEFINE R == [readers[r] EXCEPT !.passed = i]
  <2>1. Becomes(r, R)
    BY <1>2 DEF Tell
  <2>2. R \in Reader /\ TellRecord(r, i, R)
    BY <1>0, <1>2 DEF Reader, TellRecord
  <2> QED BY <2>1, <2>2
<1> QED BY <1>1, <1>2

LEMMA FindEffect ==
  ASSUME TypeOK, NEW r \in Readers, Find(r)
  PROVE  \E R \in Reader : Becomes(r, R) /\ FindRecord(r, R)
<1>1. \E n \in collection \cup {0} :
        /\ Becomes(r, [readers[r] EXCEPT !.status = "removing", !.found = n])
        /\ collection = {} \/ (n \in collection /\ \A k \in collection : n <= k)
  BY DEF Find
<1>2. PICK n \in collection \cup {0} :
        /\ Becomes(r, [readers[r] EXCEPT !.status = "removing", !.found = n])
        /\ collection = {} \/ (n \in collection /\ \A k \in collection : n <= k)
  BY <1>1
<1> DEFINE R == [readers[r] EXCEPT !.status = "removing", !.found = n]
<1>3. n \in Nat /\ readers[r] \in Reader
  BY DEF TypeOK
<1>4. R \in Reader /\ FindRecord(r, R)
  BY <1>2, <1>3 DEF Reader, FindRecord
<1> QED BY <1>2, <1>4

LEMMA RemoveEffect ==
  ASSUME TypeOK, NEW r \in Readers, Remove(r)
  PROVE  \E R \in Reader : Becomes(r, R) /\ RemoveRecord(r, R)
<1> DEFINE R == [readers[r] EXCEPT !.status = "reading"]
<1>1. Becomes(r, R)
  BY DEF Remove
<1>2. readers[r] \in Reader
  BY DEF TypeOK
<1>3. R \in Reader /\ RemoveRecord(r, R)
  BY <1>2 DEF Reader, RemoveRecord
<1> QED BY <1>1, <1>3
-----------------------------------------------------------------------------
LEMMA TypeStep ==
  ASSUME TypeOK, [Next]_vars
  PROVE  TypeOK'
<1>0. /\ readers \in [Readers -> Reader] /\ made \in Nat /\ made <= MaxReaders
      /\ oplog \in Seq(Entries) /\ Len(oplog) \in Nat /\ MaxReaders \in Nat
      /\ \A q \in Readers : /\ q > made <=> readers[q].status = "none"
                            /\ readers[q].passed <= Len(oplog)
                            /\ readers[q].since <= Len(oplog)
  BY BoundsAssumption DEF TypeOK
<1>1. ASSUME NEW t \in Topics, Insert(t)
      PROVE  TypeOK'
  <2>1. LogGrows /\ Len(oplog') = Len(oplog) + 1 /\ oplog'[Len(oplog) + 1] = t
    BY <1>1, AppendGrows DEF Insert, Entries
  <2>2. collection' \subseteq {i \in 1..Len(oplog') : oplog'[i] \in Topics}
    <3>1. collection' = collection \cup {Len(oplog) + 1} /\ Len(oplog) + 1 \in 1..Len(oplog')
      BY <1>0, <1>1, <2>1 DEF Insert
    <3> QED BY <2>1, <3>1, TypeOfSame
  <2>3. writes' \in 0..MaxWrites
    BY <1>1, BoundsAssumption DEF Insert, TypeOK
  <2>4. UNCHANGED <<subscriptions, made, readers, told, missed, overlapped>>
    BY <1>1 DEF Insert, history
  <2> QED BY <2>1, <2>2, <2>3, <2>4, TypeOfSame DEF TypeOK, LogGrows
<1>2. ASSUME WriteElsewhere
      PROVE  TypeOK'
  <2>1. LogGrows
    BY <1>2, AppendGrows DEF WriteElsewhere, Entries
  <2>2. writes' \in 0..MaxWrites
    BY <1>2, BoundsAssumption DEF WriteElsewhere, TypeOK
  <2>3. UNCHANGED <<collection, subscriptions, made, readers, told, missed, overlapped>>
    BY <1>2 DEF WriteElsewhere, history
  <2> QED BY <2>1, <2>2, <2>3, TypeOfSame DEF TypeOK, LogGrows
<1>3. ASSUME NEW t \in Topics, subscribe(t)
      PROVE  TypeOK'
  <2>1. subscriptions' \subseteq Topics /\ UNCHANGED <<oplog, writes, collection, told, missed>>
    BY <1>3 DEF subscribe, TypeOK
  <2>2. CASE Cardinality(subscriptions') = 1
    <3>1. /\ made + 1 \in Readers /\ made' = made + 1
          /\ readers' = [readers EXCEPT ![made + 1].status = "counting"]
          /\ overlapped' \in BOOLEAN
      BY <1>0, <1>3, <2>2 DEF subscribe, TypeOK, Readers
    <3>2. readers[made + 1] \in Reader
      BY <1>0, <3>1
    <3> DEFINE R == [readers[made + 1] EXCEPT !.status = "counting"]
    <3>3. R \in Reader /\ R.status = "counting" /\ R.passed = readers[made + 1].passed
          /\ R.since = readers[made + 1].since
      BY <3>2 DEF Reader
    <3>4. readers' = [readers EXCEPT ![made + 1] = R]
      BY <3>1
    <3> HIDE DEF R
    <3>5. /\ readers' \in [Readers -> Reader]
          /\ \A q \in Readers : /\ q > made' <=> readers'[q].status = "none"
                                /\ readers'[q].passed <= Len(oplog)
                                /\ readers'[q].since <= Len(oplog)
      <4>1. readers' \in [Readers -> Reader] /\ readers'[made + 1] = R
            /\ \A q \in Readers \ {made + 1} : readers'[q] = readers[q]
        BY <1>0, <3>1, <3>3, <3>4
      <4>2. \A q \in Readers : q \in Nat
        BY DEF Readers
      <4> QED BY <1>0, <3>1, <3>3, <4>1, <4>2
    <3>6. made' \in 0..MaxReaders
      BY <1>0, <3>1 DEF Readers
    <3> QED BY <2>1, <3>1, <3>5, <3>6 DEF TypeOK
  <2>3. CASE Cardinality(subscriptions') # 1
    BY <1>3, <2>1, <2>3 DEF subscribe, TypeOK
  <2> QED BY <2>2, <2>3
<1>4. ASSUME NEW t \in Topics, unsubscribe(t)
      PROVE  TypeOK'
  BY <1>4 DEF unsubscribe, TypeOK, history
<1>5. ASSUME Restart
      PROVE  TypeOK'
  <2>1. ASSUME NEW q \in Readers
        PROVE  /\ readers'[q] \in Reader
               /\ readers'[q].passed = readers[q].passed /\ readers'[q].since = readers[q].since
               /\ readers'[q].status = "none" <=> readers[q].status = "none"
    <3>1. readers[q] \in Reader
      BY <1>0
    <3>2. readers'[q] = IF Running(q) THEN [readers[q] EXCEPT !.status = "dead"] ELSE readers[q]
      BY <1>5 DEF Restart
    <3>3. CASE Running(q)
      BY <3>1, <3>2, <3>3 DEF Running, Reader
    <3>4. CASE ~Running(q)
      BY <3>1, <3>2, <3>4
    <3> QED BY <3>3, <3>4
  <2>2. readers' \in [Readers -> Reader]
    BY <1>5, <2>1 DEF Restart
  <2> QED BY <1>5, <2>1, <2>2 DEF Restart, TypeOK, history
<1>6. ASSUME NEW r \in Readers, Count(r)
      PROVE  TypeOK'
  <2>1. PICK R \in Reader : Becomes(r, R) /\ CountRecord(r, R)
    BY <1>6, CountEffect
  <2>2. readers[r].status # "none" /\ R.status # "none"
        /\ R.passed <= Len(oplog) /\ R.since <= Len(oplog)
    BY <1>0, <1>6, <2>1 DEF Count, CountRecord
  <2> QED BY <1>6, <2>1, <2>2, TypeOfReaders DEF Count, TypeOK, history
<1>7. ASSUME NEW r \in Readers, Query(r)
      PROVE  TypeOK'
  <2>1. PICK R \in Reader : Becomes(r, R) /\ QueryRecord(r, R)
    BY <1>7, QueryEffect
  <2>2. readers[r].status # "none" /\ R.status # "none"
        /\ R.passed <= Len(oplog) /\ R.since <= Len(oplog)
    BY <1>0, <1>7, <2>1 DEF Query, QueryRecord
  <2> QED BY <1>7, <2>1, <2>2, TypeOfReaders DEF Query, TypeOK, history
<1>8. ASSUME NEW r \in Readers, Read(r)
      PROVE  TypeOK'
  <2>1. PICK i \in 1..Len(oplog) : NextOwn(r, i) /\ (Skip(r, i) \/ Tell(r, i))
    BY <1>8 DEF Read
  <2>2. readers[r].status = "reading"
        /\ UNCHANGED <<oplog, writes, collection, subscriptions, made, overlapped>>
    BY <1>8 DEF Read
  <2>3. /\ told' \in [Readers -> SUBSET (1..Len(oplog))]
        /\ missed' \in [Readers -> SUBSET (1..Len(oplog))]
    BY <2>1 DEF Skip, Tell, TypeOK
  <2>4. PICK R \in Reader : Becomes(r, R) /\ (SkipRecord(r, i, R) \/ TellRecord(r, i, R))
    BY <2>1, <2>2, SkipEffect, TellEffect
  <2>5. R.status # "none" /\ R.passed <= Len(oplog) /\ R.since <= Len(oplog)
    BY <1>0, <2>1, <2>4 DEF SkipRecord, TellRecord
  <2> QED BY <2>2, <2>3, <2>4, <2>5, TypeOfReaders DEF TypeOK
<1>9. ASSUME NEW r \in Readers, Find(r)
      PROVE  TypeOK'
  <2>1. PICK R \in Reader : Becomes(r, R) /\ FindRecord(r, R)
    BY <1>9, FindEffect
  <2>2. readers[r].status # "none" /\ R.status # "none"
        /\ R.passed <= Len(oplog) /\ R.since <= Len(oplog)
    BY <1>0, <1>9, <2>1 DEF Find, FindRecord
  <2> QED BY <1>9, <2>1, <2>2, TypeOfReaders DEF Find, TypeOK, history
<1>10. ASSUME NEW r \in Readers, Remove(r)
       PROVE  TypeOK'
  <2>1. PICK R \in Reader : Becomes(r, R) /\ RemoveRecord(r, R)
    BY <1>10, RemoveEffect
  <2>2. readers[r].status # "none" /\ R.status # "none"
        /\ R.passed <= Len(oplog) /\ R.since <= Len(oplog)
    BY <1>0, <1>10, <2>1 DEF Remove, RemoveRecord
  <2>3. LogGrows /\ Len(oplog) <= Len(oplog')
    BY <1>10, RemoveGrows DEF LogGrows
  <2>4. /\ readers' \in [Readers -> Reader]
        /\ \A q \in Readers : /\ q > made <=> readers'[q].status = "none"
                              /\ readers'[q].passed <= Len(oplog')
                              /\ readers'[q].since <= Len(oplog')
    <3>1. /\ readers' \in [Readers -> Reader]
          /\ \A q \in Readers : /\ q > made <=> readers'[q].status = "none"
                                /\ readers'[q].passed <= Len(oplog)
                                /\ readers'[q].since <= Len(oplog)
      BY <2>1, <2>2, TypeOfReaders
    <3>2. \A q \in Readers : readers'[q].passed \in Nat /\ readers'[q].since \in Nat
      BY <3>1 DEF Reader
    <3> QED BY <3>1, <3>2, <2>3 DEF LogGrows
  <2>5. collection' \subseteq collection /\ UNCHANGED <<writes, subscriptions, made, told, missed, overlapped>>
    BY <1>10 DEF Remove, history
  <2> QED BY <2>3, <2>4, <2>5, TypeOfSame DEF TypeOK, LogGrows
<1>11. CASE UNCHANGED vars
  BY <1>11 DEF vars, history, TypeOK
<1> QED BY <1>1, <1>2, <1>3, <1>4, <1>5, <1>6, <1>7, <1>8, <1>9, <1>10, <1>11 DEF Next, run

LEMMA TypeInit == Init => TypeOK
<1> SUFFICES ASSUME Init
             PROVE  TypeOK
  OBVIOUS
<1>1. Idle \in Reader /\ Idle.status = "none" /\ Idle.passed = 0 /\ Idle.since = 0
  BY DEF Idle, Reader
<1>2. readers \in [Readers -> Reader] /\ \A q \in Readers : readers[q] = Idle
  BY <1>1 DEF Init
<1>3. oplog = <<>> /\ Len(oplog) = 0 /\ oplog \in Seq(Entries)
  BY DEF Init
<1>4. \A q \in Readers : /\ q > 0 <=> readers[q].status = "none"
                         /\ readers[q].passed <= 0 /\ readers[q].since <= 0
  BY <1>1, <1>2 DEF Readers
<1>5. /\ told \in [Readers -> SUBSET (1..Len(oplog))]
      /\ missed \in [Readers -> SUBSET (1..Len(oplog))]
      /\ collection \subseteq {i \in 1..Len(oplog) : oplog[i] \in Topics}
  BY DEF Init
<1>6. made = 0 /\ made \in 0..MaxReaders /\ writes \in 0..MaxWrites
      /\ subscriptions \subseteq Topics
  BY BoundsAssumption DEF Init
<1>8. overlapped \in BOOLEAN
  BY DEF Init
<1>7. \A q \in Readers : /\ q > made <=> readers[q].status = "none"
                         /\ readers[q].passed <= Len(oplog) /\ readers[q].since <= Len(oplog)
  BY <1>3, <1>4, <1>6
<1> QED BY <1>2, <1>3, <1>5, <1>6, <1>7, <1>8 DEF TypeOK

\* Types, and that the collection holds messages of the oplog only.
THEOREM TypeCorrect == Spec => []TypeOK
BY TypeInit, TypeStep, PTL DEF Spec
-----------------------------------------------------------------------------
\* What r has yet to pass of the entries it wants to skip, and the entries it counted
\* for its own although they are not.
Left(r)    == {k \in readers[r].passed + 1..readers[r].since : oplog[k] # "foreign"}
Foreign(n) == {k \in 1..n : oplog[k] = "foreign"}

\* Where thread r stands: it skips no fewer entries than it has left, and no more than
\* that and the entries it counted too many, the messages it has missed included.
Stands(r) ==
  /\ Cardinality(Left(r)) <= readers[r].skip
  /\ Cardinality(missed[r]) + readers[r].skip
       <= Cardinality(Foreign(readers[r].since)) + Cardinality(Left(r))
  /\ \A i \in told[r] : i > readers[r].since /\ i <= readers[r].passed
                        /\ oplog[i] \in Topics

Fresh(r) ==
  /\ readers[r].passed = 0 /\ readers[r].since = 0 /\ readers[r].skip = 0
  /\ told[r] = {} /\ missed[r] = {}

Counted(r) ==
  /\ readers[r].passed = 0 /\ readers[r].since = readers[r].skip
  /\ told[r] = {} /\ missed[r] = {}

SkipInvOf(r) ==
  /\ Stands(r)
  /\ readers[r].status \in {"none", "counting"} => Fresh(r)
  /\ readers[r].status = "querying" => Counted(r)

SkipInv == \A r \in Readers : SkipInvOf(r)

LEMMA LeftFinite ==
  ASSUME TypeOK, NEW r \in Readers
  PROVE  /\ IsFiniteSet(Left(r)) /\ Cardinality(Left(r)) \in Nat
         /\ Cardinality(Foreign(readers[r].since)) \in Nat
         /\ Cardinality(missed[r]) \in Nat /\ IsFiniteSet(missed[r])
         /\ readers[r] \in Reader /\ readers[r].skip \in Nat
         /\ readers[r].passed \in Nat /\ readers[r].since \in Nat
         /\ readers[r].since <= Len(oplog) /\ readers[r].passed <= Len(oplog)
<1>1. /\ readers[r] \in Reader /\ readers[r].skip \in Nat
      /\ readers[r].passed \in Nat /\ readers[r].since \in Nat
      /\ readers[r].since <= Len(oplog) /\ readers[r].passed <= Len(oplog) /\ Len(oplog) \in Nat
  BY DEF TypeOK, Reader
<1>2. Left(r) \in SUBSET (1..readers[r].since)
  BY <1>1 DEF Left
<1>3. Foreign(readers[r].since) \in SUBSET (1..readers[r].since)
  BY DEF Foreign
<1>4. missed[r] \in SUBSET (1..Len(oplog))
  BY DEF TypeOK
<1> QED BY <1>1, <1>2, <1>3, <1>4, FinitePlaces

\* The first n entries are the collection's and the others'.
LEMMA OwnAndForeign ==
  ASSUME NEW n \in Nat
  PROVE  /\ Cardinality(Own(n)) \in Nat /\ Cardinality(Foreign(n)) \in Nat
         /\ Cardinality(Own(n)) + Cardinality(Foreign(n)) = n
<1>1. Own(n) \in SUBSET (1..n) /\ Foreign(n) \in SUBSET (1..n)
  BY DEF Own, Foreign
<1>2. /\ IsFiniteSet(Own(n)) /\ IsFiniteSet(Foreign(n))
      /\ Cardinality(Own(n)) \in Nat /\ Cardinality(Foreign(n)) \in Nat
  BY <1>1, FinitePlaces
<1>3. Own(n) \cup Foreign(n) = 1..n /\ Own(n) \cap Foreign(n) = {}
  BY DEF Own, Foreign
<1>4. Cardinality(1..n) = n
  BY FS_Interval, 1 \in Int, n \in Int
<1>5. Cardinality(Own(n) \cup Foreign(n))
        = Cardinality(Own(n)) + Cardinality(Foreign(n)) - Cardinality(Own(n) \cap Foreign(n))
  BY <1>2, FS_Union
<1>6. Cardinality({}) = 0
  BY FS_EmptySet
<1>7. Cardinality(Own(n) \cup Foreign(n)) = n
  BY <1>3, <1>4
<1>8. Cardinality(Own(n) \cap Foreign(n)) = 0
  BY <1>3, <1>6
<1> HIDE DEF Own, Foreign
<1> QED BY <1>2, <1>5, <1>7, <1>8

\* What has been read does not change: a thread that is left alone stands where it was.
LEMMA StandsStill ==
  ASSUME TypeOK, LogGrows, NEW r \in Readers,
         readers'[r].passed = readers[r].passed, readers'[r].since = readers[r].since,
         readers'[r].skip = readers[r].skip,
         told'[r] = told[r], missed'[r] = missed[r], Stands(r)
  PROVE  Stands(r)'
<1>1. \A k \in 1..readers[r].since : oplog'[k] = oplog[k]
  BY LeftFinite DEF LogGrows
<1>2. \A k \in told[r] : oplog'[k] = oplog[k]
  BY DEF TypeOK, LogGrows
<1>3. Left(r)' = Left(r)
  <2>1. \A k \in readers[r].passed + 1..readers[r].since : k \in 1..readers[r].since
    BY LeftFinite
  <2>2. Left(r)' = {k \in readers[r].passed + 1..readers[r].since : oplog'[k] # "foreign"}
    BY DEF Left
  <2> QED BY <1>1, <2>1, <2>2 DEF Left
<1>4. Foreign(readers[r].since)' = Foreign(readers[r].since)
  BY <1>1 DEF Foreign
<1> QED BY <1>2, <1>3, <1>4 DEF Stands

LEMMA KeepsSkipInv ==
  ASSUME TypeOK, LogGrows, NEW r \in Readers, SkipInvOf(r),
         readers'[r].passed = readers[r].passed, readers'[r].since = readers[r].since,
         readers'[r].skip = readers[r].skip,
         told'[r] = told[r], missed'[r] = missed[r],
         \/ readers'[r].status = readers[r].status
         \/ readers'[r].status \notin {"none", "counting", "querying"}
         \/ readers[r].status = "none" /\ readers'[r].status = "counting"
  PROVE  SkipInvOf(r)'
<1>1. Stands(r)'
  BY StandsStill DEF SkipInvOf
<1>2. Fresh(r) => Fresh(r)'
  BY DEF Fresh
<1>3. Counted(r) => Counted(r)'
  BY DEF Counted
<1> QED BY <1>1, <1>2, <1>3 DEF SkipInvOf

\* The thread counts: all it has before it is what it counted.
LEMMA CountStands ==
  ASSUME TypeOK, NEW r \in Readers, Fresh(r), NEW R \in Reader, CountRecord(r, R),
         readers'[r] = R, UNCHANGED <<oplog, told, missed>>
  PROVE  SkipInvOf(r)'
<1>1. Len(oplog) \in Nat
  BY DEF TypeOK
<1>2. /\ readers'[r].passed = 0 /\ readers'[r].since = Len(oplog)
      /\ readers'[r].skip = Len(oplog) /\ readers'[r].status = "querying"
      /\ told'[r] = {} /\ missed'[r] = {}
  BY DEF CountRecord, Fresh
<1>3. Left(r)' = Own(Len(oplog))
  <2>1. Left(r)' = {k \in 0 + 1..Len(oplog) : oplog[k] # "foreign"}
    BY <1>2 DEF Left
  <2> QED BY <2>1 DEF Own
<1>4. Foreign(readers[r].since)' = Foreign(Len(oplog))
  BY <1>2 DEF Foreign
<1>5. Cardinality(missed[r])' = 0
  BY <1>2, FS_EmptySet
<1>6. /\ Cardinality(Own(Len(oplog))) \in Nat /\ Cardinality(Foreign(Len(oplog))) \in Nat
      /\ Cardinality(Own(Len(oplog))) + Cardinality(Foreign(Len(oplog))) = Len(oplog)
  BY <1>1, OwnAndForeign
<1>7. Stands(r)'
  <2>1. /\ Cardinality(Left(r))' <= readers'[r].skip
        /\ Cardinality(missed[r])' + readers'[r].skip
             <= Cardinality(Foreign(readers[r].since))' + Cardinality(Left(r))'
    BY <1>1, <1>2, <1>3, <1>4, <1>5, <1>6
  <2> QED BY <1>2, <2>1 DEF Stands
<1>8. Counted(r)'
  BY <1>2 DEF Counted
<1> QED BY <1>2, <1>7, <1>8 DEF SkipInvOf

\* The cursor: what it does not skip is not there.
LEMMA QueryStands ==
  ASSUME TypeOK, NEW r \in Readers, SkipInvOf(r), readers[r].status = "querying",
         NEW R \in Reader, QueryRecord(r, R),
         readers'[r] = R, UNCHANGED <<oplog, told, missed>>
  PROVE  SkipInvOf(r)'
<1>1. /\ readers'[r].passed = readers[r].passed /\ readers'[r].since = readers[r].since
      /\ readers'[r].skip <= readers[r].skip /\ readers'[r].status = "reading"
      /\ told'[r] = {} /\ missed'[r] = {} /\ told[r] = {} /\ missed[r] = {}
      /\ readers'[r].skip \in {readers[r].skip, Cardinality(Own(Len(oplog)))}
      /\ readers'[r].skip \in Nat
  BY DEF QueryRecord, SkipInvOf, Counted, Reader
<1>2. Left(r)' = Left(r) /\ Foreign(readers[r].since)' = Foreign(readers[r].since)
  BY <1>1 DEF Left, Foreign
<1>3. Cardinality(Left(r)) <= Cardinality(Own(Len(oplog)))
  <2>1. Len(oplog) \in Nat /\ Own(Len(oplog)) \in SUBSET (1..Len(oplog))
    BY DEF TypeOK, Own
  <2>2. IsFiniteSet(Own(Len(oplog)))
    BY <2>1, FinitePlaces
  <2>3. ASSUME NEW k \in Left(r)
        PROVE  k \in Own(Len(oplog))
    <3>1. k \in readers[r].passed + 1..readers[r].since /\ oplog[k] # "foreign"
      BY DEF Left
    <3>2. k \in 1..Len(oplog)
      BY <2>1, <3>1, LeftFinite
    <3> QED BY <3>1, <3>2 DEF Own
  <2>4. Left(r) \in SUBSET Own(Len(oplog))
    BY <2>3
  <2> QED BY <2>2, <2>4, FS_Subset
<1>4. Cardinality(Left(r)) <= readers'[r].skip
  BY <1>1, <1>3 DEF SkipInvOf, Stands
<1>5. Cardinality(missed[r])' + readers'[r].skip
        <= Cardinality(Foreign(readers[r].since)) + Cardinality(Left(r))
  <2>1. Cardinality(missed[r])' = 0 /\ Cardinality(missed[r]) = 0
    BY <1>1, FS_EmptySet
  <2>2. Cardinality(missed[r]) + readers[r].skip
          <= Cardinality(Foreign(readers[r].since)) + Cardinality(Left(r))
    BY DEF SkipInvOf, Stands
  <2>3. readers[r].skip \in Nat /\ Cardinality(Foreign(readers[r].since)) \in Nat
        /\ Cardinality(Left(r)) \in Nat
    BY LeftFinite
  <2> QED BY <1>1, <2>1, <2>2, <2>3
<1>6. Stands(r)'
  BY <1>1, <1>2, <1>4, <1>5 DEF Stands
<1> QED BY <1>1, <1>6 DEF SkipInvOf

\* The next entry of the collection is what is left first, or nothing is left.
LEMMA NextIsLeft ==
  ASSUME TypeOK, NEW r \in Readers, NEW i \in 1..Len(oplog), NextOwn(r, i),
         readers'[r].passed = i, readers'[r].since = readers[r].since, UNCHANGED oplog
  PROVE  /\ i > readers[r].passed /\ i \in Nat
         /\ i <= readers[r].since => i \in Left(r) /\ Left(r)' = Left(r) \ {i}
         /\ i > readers[r].since => Left(r) = {} /\ Left(r)' = {}
<1>1. /\ readers[r].passed \in Nat /\ readers[r].since \in Nat /\ Len(oplog) \in Nat
  BY LeftFinite DEF TypeOK
<1>2. /\ i \in readers[r].passed + 1..Len(oplog) /\ oplog[i] # "foreign"
      /\ \A k \in readers[r].passed + 1..i - 1 : oplog[k] = "foreign"
  BY DEF NextOwn
<1>3. Left(r)' = {k \in i + 1..readers[r].since : oplog[k] # "foreign"}
  BY DEF Left
<1>4. i \in Nat /\ i > readers[r].passed
  BY <1>1, <1>2
<1>5. ASSUME i <= readers[r].since
      PROVE  i \in Left(r) /\ Left(r)' = Left(r) \ {i}
  <2>1. i \in Left(r)
    BY <1>1, <1>2, <1>4, <1>5 DEF Left
  <2>2. ASSUME NEW k \in Left(r) \ {i}
        PROVE  k \in i + 1..readers[r].since /\ oplog[k] # "foreign"
    <3>1. k \in readers[r].passed + 1..readers[r].since /\ oplog[k] # "foreign" /\ k # i
      BY DEF Left
    <3>2. k \notin readers[r].passed + 1..i - 1
      BY <1>2, <3>1
    <3> QED BY <1>1, <1>4, <3>1, <3>2
  <2>3. ASSUME NEW k \in i + 1..readers[r].since, oplog[k] # "foreign"
        PROVE  k \in Left(r) \ {i}
    BY <1>1, <1>4, <2>3 DEF Left
  <2> QED BY <1>3, <2>1, <2>2, <2>3
<1>6. ASSUME i > readers[r].since
      PROVE  Left(r) = {} /\ Left(r)' = {}
  <2>1. ASSUME NEW k \in Left(r)
        PROVE  FALSE
    <3>1. k \in readers[r].passed + 1..readers[r].since /\ oplog[k] # "foreign"
      BY DEF Left
    <3>2. k \in readers[r].passed + 1..i - 1
      BY <1>1, <1>4, <1>6, <3>1
    <3> QED BY <1>2, <3>1, <3>2
  <2>2. Left(r)' = {}
    BY <1>1, <1>3, <1>4, <1>6
  <2> QED BY <2>1, <2>2
<1> QED BY <1>4, <1>5, <1>6

LEMMA SkipStands ==
  ASSUME TypeOK, NEW r \in Readers, SkipInvOf(r), readers[r].status = "reading",
         NEW i \in 1..Len(oplog), NextOwn(r, i), Skip(r, i),
         NEW R \in Reader, SkipRecord(r, i, R), readers'[r] = R, UNCHANGED oplog
  PROVE  SkipInvOf(r)'
<1> DEFINE Extra == Cardinality(Foreign(readers[r].since))
<1>1. /\ readers'[r].passed = i /\ readers'[r].since = readers[r].since
      /\ readers[r].skip > 0 /\ readers'[r].skip = readers[r].skip - 1
      /\ readers'[r].status = "reading" /\ told' = told
  BY DEF SkipRecord, Skip
<1>2. /\ i > readers[r].passed /\ i \in Nat
      /\ i <= readers[r].since => i \in Left(r) /\ Left(r)' = Left(r) \ {i}
      /\ i > readers[r].since => Left(r) = {} /\ Left(r)' = {}
  BY <1>1, NextIsLeft
<1>3. /\ Cardinality(Left(r)) <= readers[r].skip
      /\ Cardinality(missed[r]) + readers[r].skip <= Extra + Cardinality(Left(r))
      /\ \A k \in told[r] : k > readers[r].since /\ k <= readers[r].passed /\ oplog[k] \in Topics
  BY DEF SkipInvOf, Stands
<1>4. /\ IsFiniteSet(Left(r)) /\ Cardinality(Left(r)) \in Nat /\ Extra \in Nat
      /\ Cardinality(missed[r]) \in Nat /\ IsFiniteSet(missed[r])
      /\ readers[r].skip \in Nat /\ readers[r].passed \in Nat /\ readers[r].since \in Nat
  BY LeftFinite
<1>5. Cardinality(Foreign(readers[r].since))' = Extra
  BY <1>1 DEF Foreign
<1>6. \A k \in told'[r] : k > readers'[r].since /\ k <= readers'[r].passed /\ oplog'[k] \in Topics
  <2>1. \A k \in told[r] : k \in Nat
    BY DEF TypeOK
  <2> QED BY <1>1, <1>2, <1>3, <1>4, <2>1
<1> HIDE DEF Extra
<1>7. CASE i <= readers[r].since
  <2>1. Cardinality(Left(r))' = Cardinality(Left(r)) - 1
    BY <1>2, <1>4, <1>7, FS_RemoveElement
  <2>2. missed' = missed
    BY <1>2, <1>4, <1>7 DEF Skip
  <2>3. /\ Cardinality(Left(r))' <= readers'[r].skip
        /\ Cardinality(missed[r])' + readers'[r].skip <= Extra + Cardinality(Left(r))'
    BY <1>1, <1>3, <1>4, <2>1, <2>2
  <2> QED BY <1>1, <1>5, <1>6, <2>3 DEF SkipInvOf, Stands
<1>8. CASE i > readers[r].since
  <2>1. Cardinality(Left(r))' = 0 /\ Cardinality(Left(r)) = 0
    BY <1>2, <1>8, FS_EmptySet
  <2>2. Cardinality(missed[r])' <= Cardinality(missed[r]) + 1 /\ Cardinality(missed[r])' \in Nat
    <3> DEFINE S == missed[r]
               T == missed'[r]
    <3>1. T = S \/ T = S \cup {i}
      BY DEF Skip, TypeOK
    <3>2. IsFiniteSet(S) /\ Cardinality(S) \in Nat
      BY <1>4
    <3> HIDE DEF S, T
    <3>3. Cardinality(S \cup {i}) = IF i \in S THEN Cardinality(S) ELSE Cardinality(S) + 1
      BY <3>2, FS_AddElement, Zenon
    <3> DEFINE Within == Cardinality(T) <= Cardinality(S) + 1 /\ Cardinality(T) \in Nat
    <3>4. T = S => Within
      BY <3>2
    <3>5. ASSUME T = S \cup {i} PROVE Within
      <4>1. Cardinality(T) = Cardinality(S \cup {i})
        BY <3>5
      <4> QED BY <3>2, <3>3, <4>1
    <3>6. Within
      BY <3>1, <3>4, <3>5
    <3> QED BY <3>6 DEF S, T
  <2>3. /\ Cardinality(Left(r))' <= readers'[r].skip
        /\ Cardinality(missed[r])' + readers'[r].skip <= Extra + Cardinality(Left(r))'
    BY <1>1, <1>3, <1>4, <2>1, <2>2
  <2> QED BY <1>1, <1>5, <1>6, <2>3 DEF SkipInvOf, Stands
<1> QED BY <1>2, <1>4, <1>7, <1>8

\* When it skips nothing more, nothing is left of what was there when it counted.
LEMMA TellStands ==
  ASSUME TypeOK, NEW r \in Readers, SkipInvOf(r), readers[r].status = "reading",
         NEW i \in 1..Len(oplog), NextOwn(r, i), Tell(r, i),
         NEW R \in Reader, TellRecord(r, i, R), readers'[r] = R, UNCHANGED oplog
  PROVE  /\ SkipInvOf(r)'
         /\ i > readers[r].since /\ i > readers[r].passed
<1> DEFINE Extra == Cardinality(Foreign(readers[r].since))
<1>1. /\ readers'[r].passed = i /\ readers'[r].since = readers[r].since
      /\ readers[r].skip = 0 /\ readers'[r].skip = 0
      /\ readers'[r].status \in {"callback", "reading"} /\ missed' = missed
  BY DEF TellRecord, Tell
<1>2. /\ i > readers[r].passed /\ i \in Nat
      /\ i <= readers[r].since => i \in Left(r)
      /\ i > readers[r].since => Left(r) = {} /\ Left(r)' = {}
  BY <1>1, NextIsLeft
<1>3. /\ Cardinality(Left(r)) <= readers[r].skip
      /\ Cardinality(missed[r]) + readers[r].skip <= Extra + Cardinality(Left(r))
      /\ \A k \in told[r] : k > readers[r].since /\ k <= readers[r].passed /\ oplog[k] \in Topics
  BY DEF SkipInvOf, Stands
<1>4. /\ IsFiniteSet(Left(r)) /\ Cardinality(Left(r)) \in Nat /\ Extra \in Nat
      /\ Cardinality(missed[r]) \in Nat
      /\ readers[r].skip \in Nat /\ readers[r].passed \in Nat /\ readers[r].since \in Nat
  BY LeftFinite
<1>5. Left(r) = {}
  BY <1>1, <1>3, <1>4, FS_EmptySet
<1>6. i > readers[r].since
  BY <1>2, <1>4, <1>5
<1>7. Cardinality(Foreign(readers[r].since))' = Extra
  BY <1>1 DEF Foreign
<1>8. \A k \in told'[r] : k > readers'[r].since /\ k <= readers'[r].passed /\ oplog'[k] \in Topics
  <2>1. \A k \in told[r] : k \in Nat
    BY DEF TypeOK
  <2>2. told'[r] = told[r] \/ (told'[r] = told[r] \cup {i} /\ oplog[i] \in Topics)
    BY DEF Tell, TypeOK
  <2> QED BY <1>1, <1>2, <1>3, <1>4, <1>6, <2>1, <2>2
<1> HIDE DEF Extra
<1>9. Cardinality(Left(r))' = 0 /\ Cardinality(Left(r)) = 0
  BY <1>2, <1>5, <1>6, FS_EmptySet
<1>10. /\ Cardinality(Left(r))' <= readers'[r].skip
       /\ Cardinality(missed[r])' + readers'[r].skip <= Extra + Cardinality(Left(r))'
  BY <1>1, <1>3, <1>4, <1>9
<1>11. SkipInvOf(r)'
  BY <1>1, <1>7, <1>8, <1>10 DEF SkipInvOf, Stands
<1> QED BY <1>2, <1>6, <1>11

LEMMA SkipInvStep ==
  ASSUME TypeOK, SkipInv, [Next]_vars
  PROVE  SkipInv'
<1>0. /\ readers \in [Readers -> Reader] /\ oplog \in Seq(Entries)
      /\ Len(oplog) \in Nat /\ (UNCHANGED oplog => LogGrows)
      /\ \A q \in Readers : SkipInvOf(q)
  BY DEF TypeOK, LogGrows, SkipInv
<1> DEFINE Same(q) ==
      /\ readers'[q].passed = readers[q].passed /\ readers'[q].since = readers[q].since
      /\ readers'[q].skip = readers[q].skip
      /\ told'[q] = told[q] /\ missed'[q] = missed[q]
<1>1. ASSUME NEW t \in Topics, Insert(t)
      PROVE  SkipInv'
  <2>1. LogGrows /\ UNCHANGED <<readers, told, missed>>
    BY <1>1, AppendGrows DEF Insert, Entries, history
  <2> QED BY <2>1, <1>0, KeepsSkipInv DEF SkipInv
<1>2. ASSUME WriteElsewhere
      PROVE  SkipInv'
  <2>1. LogGrows /\ UNCHANGED <<readers, told, missed>>
    BY <1>2, AppendGrows DEF WriteElsewhere, Entries, history
  <2> QED BY <2>1, <1>0, KeepsSkipInv DEF SkipInv
<1>3. ASSUME NEW t \in Topics, subscribe(t)
      PROVE  SkipInv'
  <2>1. LogGrows /\ UNCHANGED <<told, missed>>
    BY <1>0, <1>3 DEF subscribe
  <2>2. CASE Cardinality(subscriptions') = 1
    <3>1. /\ made + 1 \in Readers
          /\ readers' = [readers EXCEPT ![made + 1].status = "counting"]
      BY <1>3, <2>2, BoundsAssumption DEF subscribe, TypeOK, Readers
    <3>2. readers[made + 1].status = "none"
      BY <3>1 DEF TypeOK
    <3>3. ASSUME NEW q \in Readers
          PROVE  Same(q) /\ \/ readers'[q].status = readers[q].status
                            \/ readers[q].status = "none" /\ readers'[q].status = "counting"
      <4>1. readers[q] \in Reader
        BY <1>0
      <4>2. CASE q = made + 1
        BY <1>0, <2>1, <3>1, <3>2, <4>1, <4>2 DEF Reader
      <4>3. CASE q # made + 1
        BY <1>0, <2>1, <3>1, <4>3
      <4> QED BY <4>2, <4>3
    <3> QED BY <2>1, <3>3, <1>0, KeepsSkipInv DEF SkipInv
  <2>3. CASE Cardinality(subscriptions') # 1
    <3>1. UNCHANGED readers
      BY <1>3, <2>3 DEF subscribe
    <3> QED BY <2>1, <3>1, <1>0, KeepsSkipInv DEF SkipInv
  <2> QED BY <2>2, <2>3
<1>4. ASSUME NEW t \in Topics, unsubscribe(t)
      PROVE  SkipInv'
  <2>1. LogGrows /\ UNCHANGED <<readers, told, missed>>
    BY <1>0, <1>4 DEF unsubscribe, history
  <2> QED BY <2>1, <1>0, KeepsSkipInv DEF SkipInv
<1>5. ASSUME Restart
      PROVE  SkipInv'
  <2>1. LogGrows /\ UNCHANGED <<told, missed>>
    BY <1>0, <1>5 DEF Restart, history
  <2>2. ASSUME NEW q \in Readers
        PROVE  Same(q) /\ readers'[q].status \in {readers[q].status, "dead"}
    <3>1. readers[q] \in Reader
      BY <1>0
    <3>2. readers'[q] = IF Running(q) THEN [readers[q] EXCEPT !.status = "dead"] ELSE readers[q]
      BY <1>5 DEF Restart
    <3>3. CASE Running(q)
      BY <2>1, <3>1, <3>2, <3>3 DEF Reader
    <3>4. CASE ~Running(q)
      BY <2>1, <3>1, <3>2, <3>4
    <3> QED BY <3>3, <3>4
  <2> QED BY <2>1, <2>2, <1>0, KeepsSkipInv DEF SkipInv
<1>6. ASSUME NEW r \in Readers, NEW R \in Reader, Becomes(r, R), LogGrows,
             \A q \in Readers \ {r} : told'[q] = told[q] /\ missed'[q] = missed[q],
             SkipInvOf(r)'
      PROVE  SkipInv'
  <2>1. \A q \in Readers \ {r} : readers'[q] = readers[q]
    BY <1>0, <1>6 DEF Becomes
  <2>2. \A q \in Readers \ {r} : SkipInvOf(q)'
    BY <1>0, <1>6, <2>1, KeepsSkipInv
  <2> QED BY <1>6, <2>2 DEF SkipInv
<1>7. ASSUME NEW r \in Readers, NEW R \in Reader, Becomes(r, R)
      PROVE  readers'[r] = R
  BY <1>0, <1>7 DEF Becomes
<1>8. ASSUME NEW r \in Readers, Count(r)
      PROVE  SkipInv'
  <2>1. PICK R \in Reader : Becomes(r, R) /\ CountRecord(r, R)
    BY <1>8, CountEffect
  <2>2. Fresh(r) /\ UNCHANGED <<oplog, told, missed>>
    BY <1>0, <1>8 DEF Count, SkipInvOf, history
  <2>3. SkipInvOf(r)'
    BY <1>7, <2>1, <2>2, CountStands
  <2> QED BY <1>0, <1>6, <2>1, <2>2, <2>3
<1>9. ASSUME NEW r \in Readers, Query(r)
      PROVE  SkipInv'
  <2>1. PICK R \in Reader : Becomes(r, R) /\ QueryRecord(r, R)
    BY <1>9, QueryEffect
  <2>2. readers[r].status = "querying" /\ UNCHANGED <<oplog, told, missed>>
    BY <1>9 DEF Query, history
  <2>3. SkipInvOf(r)'
    BY <1>0, <1>7, <2>1, <2>2, QueryStands
  <2> QED BY <1>0, <1>6, <2>1, <2>2, <2>3
<1>10. ASSUME NEW r \in Readers, Read(r)
       PROVE  SkipInv'
  <2>1. PICK i \in 1..Len(oplog) : NextOwn(r, i) /\ (Skip(r, i) \/ Tell(r, i))
    BY <1>10 DEF Read
  <2>2. readers[r].status = "reading" /\ UNCHANGED oplog
    BY <1>10 DEF Read
  <2>3. \A q \in Readers \ {r} : told'[q] = told[q] /\ missed'[q] = missed[q]
    BY <2>1 DEF Skip, Tell, TypeOK
  <2>4. PICK R \in Reader : /\ Becomes(r, R)
                            /\ \/ Skip(r, i) /\ SkipRecord(r, i, R)
                               \/ Tell(r, i) /\ TellRecord(r, i, R)
    BY <2>1, <2>2, SkipEffect, TellEffect
  <2>5. SkipInvOf(r)'
    BY <1>0, <1>7, <2>1, <2>2, <2>4, SkipStands, TellStands
  <2> QED BY <1>0, <1>6, <2>2, <2>3, <2>4, <2>5
<1>11. ASSUME NEW r \in Readers, Find(r)
       PROVE  SkipInv'
  <2>1. PICK R \in Reader : Becomes(r, R) /\ FindRecord(r, R)
    BY <1>11, FindEffect
  <2>2. LogGrows /\ UNCHANGED <<told, missed>>
    BY <1>0, <1>11 DEF Find, history
  <2>3. Same(r) /\ readers'[r].status = "removing"
    BY <1>7, <2>1, <2>2 DEF FindRecord
  <2>4. SkipInvOf(r)'
    BY <1>0, <2>2, <2>3, KeepsSkipInv
  <2> QED BY <1>6, <2>1, <2>2, <2>4
<1>12. ASSUME NEW r \in Readers, Remove(r)
       PROVE  SkipInv'
  <2>1. PICK R \in Reader : Becomes(r, R) /\ RemoveRecord(r, R)
    BY <1>12, RemoveEffect
  <2>2. LogGrows /\ UNCHANGED <<told, missed>>
    BY <1>12, RemoveGrows DEF Remove, history
  <2>3. Same(r) /\ readers'[r].status = "reading"
    BY <1>7, <2>1, <2>2 DEF RemoveRecord
  <2>4. SkipInvOf(r)'
    BY <1>0, <2>2, <2>3, KeepsSkipInv
  <2> QED BY <1>6, <2>1, <2>2, <2>4
<1>13. CASE UNCHANGED vars
  <2>1. LogGrows /\ UNCHANGED <<readers, told, missed>>
    BY <1>0, <1>13 DEF vars, history
  <2> QED BY <2>1, <1>0, KeepsSkipInv DEF SkipInv
<1> QED BY <1>1, <1>2, <1>3, <1>4, <1>5, <1>8, <1>9, <1>10, <1>11, <1>12, <1>13 DEF Next, run

LEMMA SkipInit == Init => SkipInv
<1> SUFFICES ASSUME Init, NEW r \in Readers
             PROVE  SkipInvOf(r)
  BY DEF SkipInv
<1>1. /\ readers[r].status = "none" /\ readers[r].passed = 0 /\ readers[r].since = 0
      /\ readers[r].skip = 0 /\ told[r] = {} /\ missed[r] = {}
  BY DEF Init, Idle
<1>2. Left(r) = {} /\ Foreign(readers[r].since) = {}
  BY <1>1 DEF Left, Foreign
<1> QED BY <1>1, <1>2, FS_EmptySet DEF SkipInvOf, Stands, Fresh

\* A thread tells nothing that was there when it counted, whatever else was written
\* between the count and the query, and whatever the server skips.
THEOREM OnlyNewEntriesCorrect == Spec => []OnlyNewEntries
<1>1. (TypeOK /\ SkipInv) /\ [Next]_vars => (TypeOK /\ SkipInv)'
  BY TypeStep, SkipInvStep
<1>2. SkipInv => OnlyNewEntries
  BY DEF SkipInv, SkipInvOf, Stands, OnlyNewEntries
<1> QED BY <1>1, <1>2, TypeInit, SkipInit, PTL DEF Spec

\* The messages a thread misses are no more than the entries it counted for its own.
THEOREM LossIsBoundedCorrect == Spec => []LossIsBounded
<1>1. (TypeOK /\ SkipInv) /\ [Next]_vars => (TypeOK /\ SkipInv)'
  BY TypeStep, SkipInvStep
<1>2. TypeOK /\ SkipInv => LossIsBounded
  <2> SUFFICES ASSUME TypeOK, SkipInv, NEW r \in Readers
               PROVE  Cardinality(missed[r]) <= Cardinality(Foreign(readers[r].since))
    BY DEF LossIsBounded, Foreign
  <2>1. /\ Cardinality(Left(r)) <= readers[r].skip
        /\ Cardinality(missed[r]) + readers[r].skip
             <= Cardinality(Foreign(readers[r].since)) + Cardinality(Left(r))
    BY DEF SkipInv, SkipInvOf, Stands
  <2> QED BY <2>1, LeftFinite
<1> QED BY <1>1, <1>2, TypeInit, SkipInit, PTL DEF Spec
-----------------------------------------------------------------------------
\* The messages that were inserted, and those that are not in the collection any more.
Messages == {i \in 1..Len(oplog) : oplog[i] \in Topics}
Gone     == Messages \ collection

\* What was told lies behind the thread that reads.
Behind(r) == \A t \in ToldToAny : t <= readers[r].passed \/ t <= readers[r].since

\* The oldest message of the collection is the one that is to be removed.
Oldest(i) == i \in collection /\ \A k \in collection : i <= k

\* While one thread reads: the messages are removed from the oldest on, and no more of
\* them than were told.  In between telling and removing, one less was removed.
Newest ==
  /\ \A r \in Readers : Running(r) => r = made
  /\ ToldToAny \subseteq Messages
  /\ \A r \in Readers : Running(r) /\ readers[r].status # "counting" => Behind(r)
  /\ \A i \in Gone : \A k \in Messages : k < i => k \in Gone
  /\ Cardinality(Gone) <= Cardinality(ToldToAny)
  /\ \A r \in Readers : readers[r].status \in {"callback", "removing"} =>
                          Cardinality(Gone) < Cardinality(ToldToAny)
  /\ \A r \in Readers : readers[r].status = "removing" => Oldest(readers[r].found)

NewestInv == ~overlapped => Newest

LEMMA PlacesOfMessages ==
  ASSUME TypeOK
  PROVE  /\ Len(oplog) \in Nat
         /\ Messages \in SUBSET (1..Len(oplog)) /\ IsFiniteSet(Messages)
         /\ Gone \in SUBSET Messages /\ IsFiniteSet(Gone) /\ Cardinality(Gone) \in Nat
         /\ ToldToAny \in SUBSET (1..Len(oplog))
         /\ IsFiniteSet(ToldToAny) /\ Cardinality(ToldToAny) \in Nat
         /\ collection \subseteq Messages
<1>1. Len(oplog) \in Nat /\ collection \subseteq Messages
  BY DEF TypeOK, Messages
<1>2. Messages \in SUBSET (1..Len(oplog)) /\ Gone \in SUBSET Messages
  BY DEF Messages, Gone
<1>3. Gone \in SUBSET (1..Len(oplog))
  BY <1>2
<1>4. ToldToAny \in SUBSET (1..Len(oplog))
  BY DEF ToldToAny, TypeOK
<1> QED BY <1>1, <1>2, <1>3, <1>4, FinitePlaces

\* The oplog keeps the messages it has.
LEMMA MessagesKept ==
  ASSUME TypeOK, LogGrows
  PROVE  /\ Messages \subseteq Messages'
         /\ \A k \in Messages' : k \in Nat /\ (k \in Messages \/ k > Len(oplog))
<1>1. Messages' = {i \in 1..Len(oplog') : oplog'[i] \in Topics}
  BY DEF Messages
<1>2. \A i \in 1..Len(oplog) : i \in 1..Len(oplog') /\ oplog'[i] = oplog[i]
  BY DEF LogGrows
<1>3. ASSUME NEW k \in Messages'
      PROVE  k \in Nat /\ (k \in Messages \/ k > Len(oplog))
  <2>1. k \in 1..Len(oplog') /\ oplog'[k] \in Topics
    BY <1>1
  <2>2. CASE k \in 1..Len(oplog)
    BY <1>2, <2>1, <2>2 DEF Messages
  <2>3. CASE k \notin 1..Len(oplog)
    BY <2>1, <2>3 DEF LogGrows
  <2> QED BY <2>2, <2>3
<1> QED BY <1>1, <1>2, <1>3 DEF Messages

\* Steps that remove nothing and tell nothing.
LEMMA KeepsNewest ==
  ASSUME TypeOK, Newest, LogGrows, UNCHANGED told,
         collection \subseteq collection',
         \A k \in collection' \ collection : k \in Nat /\ k > Len(oplog),
         \A k \in Messages' \ Messages : k \in collection',
         \A q \in Readers : Running(q)' => q = made',
         \A q \in Readers :
           \/ readers'[q] = readers[q]
           \/ readers'[q].status \in {"dead", "counting"}
           \/ readers'[q].status \in {"querying", "reading"} /\ Behind(q)'
           \/ /\ readers[q].status = "callback" /\ readers'[q].status = "removing"
              /\ readers'[q].passed = readers[q].passed /\ readers'[q].since = readers[q].since
              /\ Oldest(readers'[q].found)
  PROVE  Newest'
<1>1. ToldToAny' = ToldToAny
  BY DEF ToldToAny
<1>2. Gone' = Gone
  <2>1. ASSUME NEW k \in Gone
        PROVE  k \in Gone'
    <3>1. k \in Messages /\ k \notin collection /\ ~(k > Len(oplog))
      BY PlacesOfMessages DEF Gone
    <3> QED BY <3>1, MessagesKept DEF Gone
  <2>2. ASSUME NEW k \in Gone'
        PROVE  k \in Gone
    <3>1. k \in Messages' /\ k \notin collection'
      BY DEF Gone
    <3> QED BY <3>1 DEF Gone
  <2> QED BY <2>1, <2>2
<1>3. ToldToAny' \subseteq Messages'
  BY <1>1, MessagesKept DEF Newest
<1>4. ASSUME NEW i \in Gone', NEW k \in Messages', k < i
      PROVE  k \in Gone'
  <2>1. i \in 1..Len(oplog)
    BY <1>2, PlacesOfMessages
  <2>2. k \in Messages
    BY <1>4, <2>1, MessagesKept, PlacesOfMessages
  <2> QED BY <1>2, <1>4, <2>2 DEF Newest
<1>5. ASSUME NEW q \in Readers
      PROVE  /\ Running(q)' /\ readers'[q].status # "counting" => Behind(q)'
             /\ readers'[q].status \in {"callback", "removing"} =>
                  readers[q].status \in {"callback", "removing"}
             /\ readers'[q].status = "removing" => Oldest(readers'[q].found)
  <2>1. CASE readers'[q] = readers[q]
    <3>1. Running(q)' <=> Running(q)
      BY <2>1 DEF Running
    <3>2. Behind(q)' <=> Behind(q)
      BY <1>1, <2>1 DEF Behind
    <3> QED BY <2>1, <3>1, <3>2 DEF Newest
  <2>2. CASE readers'[q].status \in {"dead", "counting"}
    BY <2>2 DEF Running
  <2>3. CASE readers'[q].status \in {"querying", "reading"} /\ Behind(q)'
    BY <2>3
  <2>4. CASE /\ readers[q].status = "callback" /\ readers'[q].status = "removing"
             /\ readers'[q].passed = readers[q].passed /\ readers'[q].since = readers[q].since
             /\ Oldest(readers'[q].found)
    <3>1. Behind(q)
      BY <2>4 DEF Newest, Running
    <3>2. Behind(q)'
      BY <1>1, <2>4, <3>1 DEF Behind
    <3> QED BY <2>4, <3>2
  <2> QED BY <2>1, <2>2, <2>3, <2>4
<1>6. ASSUME NEW q \in Readers, readers'[q].status = "removing"
      PROVE  Oldest(readers[q].found)'
  <2> DEFINE i == readers'[q].found
  <2>1. i \in collection /\ \A k \in collection : i <= k
    BY <1>5, <1>6 DEF Oldest
  <2>2. i \in 1..Len(oplog) /\ Len(oplog) \in Nat
    BY <2>1, PlacesOfMessages
  <2>3. ASSUME NEW k \in collection'
        PROVE  i <= k
    <3>1. k \in collection \/ (k \in Nat /\ k > Len(oplog))
      OBVIOUS
    <3> QED BY <2>1, <2>2, <3>1
  <2>4. i \in collection'
    BY <2>1
  <2> QED BY <2>3, <2>4 DEF Oldest
<1>7. \A q \in Readers : readers'[q].status = "removing" => Oldest(readers[q].found)'
  BY <1>6
<1> QED BY <1>1, <1>2, <1>3, <1>4, <1>5, <1>7 DEF Newest

\* Nothing but the reader that acts runs.
LEMMA OthersRest ==
  ASSUME TypeOK, Newest, NEW r \in Readers, Running(r), NEW R \in Reader, Becomes(r, R)
  PROVE  /\ readers'[r] = R
         /\ \A q \in Readers \ {r} : readers'[q] = readers[q] /\ ~Running(q)
BY DEF TypeOK, Newest, Becomes

LEMMA TellNewest ==
  ASSUME TypeOK, Newest, NEW r \in Readers, readers[r].status = "reading",
         NEW i \in 1..Len(oplog), Tell(r, i), oplog[i] \in subscriptions,
         i > readers[r].since, i > readers[r].passed,
         NEW R \in Reader, TellRecord(r, i, R), Becomes(r, R),
         UNCHANGED <<oplog, collection, made>>
  PROVE  Newest'
<1>1. /\ readers'[r].status = "callback" /\ readers'[r].passed = i
      /\ readers'[r].since = readers[r].since
      /\ \A q \in Readers \ {r} : readers'[q] = readers[q] /\ ~Running(q)
  BY OthersRest DEF Running, TellRecord
<1>2. readers[r].passed \in Nat /\ readers[r].since \in Nat /\ i \in Nat
  BY DEF TypeOK, Reader
<1>3. Behind(r) /\ r = made
  BY DEF Newest, Running
<1>4. i \notin ToldToAny
  BY <1>2, <1>3 DEF Behind
<1>5. ToldToAny' = ToldToAny \cup {i}
  <2>1. told'[r] = told[r] \cup {i} /\ \A q \in Readers \ {r} : told'[q] = told[q]
    BY DEF Tell, TypeOK
  <2> QED BY <2>1 DEF ToldToAny
<1>6. Cardinality(ToldToAny') = Cardinality(ToldToAny) + 1
  BY <1>4, <1>5, PlacesOfMessages, FS_AddElement
<1>7. Messages' = Messages /\ Gone' = Gone
  BY DEF Messages, Gone
<1>8. i \in Messages
  BY DEF TypeOK, Messages
<1>9. Behind(r)'
  <2>1. \A t \in ToldToAny : t \in Nat
    BY PlacesOfMessages
  <2> QED BY <1>1, <1>2, <1>3, <1>5, <2>1 DEF Behind
<1>10. \A q \in Readers : /\ Running(q)' => q = r
                          /\ readers'[q].status # "removing"
                          /\ readers'[q].status = "callback" => q = r
  BY <1>1 DEF Running
<1>11. Cardinality(Gone') < Cardinality(ToldToAny')
  BY <1>6, <1>7, PlacesOfMessages DEF Newest
<1>12. ToldToAny' \subseteq Messages'
  BY <1>5, <1>7, <1>8 DEF Newest
<1>13. \A k \in Gone' : \A j \in Messages' : j < k => j \in Gone'
  BY <1>7 DEF Newest
<1>14. Cardinality(Gone') <= Cardinality(ToldToAny')
  BY <1>6, <1>7, PlacesOfMessages DEF Newest
<1> QED BY <1>3, <1>9, <1>10, <1>11, <1>12, <1>13, <1>14 DEF Newest

\* The callback finds something: fewer were removed than were told.
LEMMA FindsOldest ==
  ASSUME TypeOK, Newest, NEW r \in Readers, readers[r].status = "callback",
         NEW R \in Reader, FindRecord(r, R)
  PROVE  Oldest(R.found)
<1>1. Cardinality(Gone) < Cardinality(ToldToAny) /\ ToldToAny \subseteq Messages
  BY DEF Newest
<1>2. Cardinality(ToldToAny) <= Cardinality(Messages)
  BY <1>1, PlacesOfMessages, FS_Subset
<1>3. Cardinality(Messages) \in Nat
  BY PlacesOfMessages, FS_CardinalityType
<1>4. collection # {}
  <2> SUFFICES ASSUME collection = {} PROVE FALSE
    OBVIOUS
  <2>1. Gone = Messages
    BY DEF Gone
  <2> QED BY <1>1, <1>2, <1>3, <2>1, PlacesOfMessages
<1> QED BY <1>4 DEF FindRecord, Oldest

LEMMA RemoveNewest ==
  ASSUME TypeOK, Newest, NEW r \in Readers, Remove(r),
         NEW R \in Reader, RemoveRecord(r, R), Becomes(r, R)
  PROVE  Newest'
<1> DEFINE f == readers[r].found
<1>1. readers[r].status = "removing" /\ Oldest(f) /\ r = made /\ Behind(r)
      /\ Cardinality(Gone) < Cardinality(ToldToAny)
  BY DEF Remove, Newest, Running
<1>2. /\ readers'[r].status = "reading" /\ readers'[r].passed = readers[r].passed
      /\ readers'[r].since = readers[r].since
      /\ \A q \in Readers \ {r} : readers'[q] = readers[q] /\ ~Running(q)
  BY <1>1, OthersRest DEF Running, RemoveRecord
<1>3. f \in collection /\ f \in Messages /\ f # 0 /\ f \notin Gone
  BY <1>1, PlacesOfMessages DEF Oldest, Gone
<1>4. collection' = collection \ {f} /\ UNCHANGED <<told, made>>
  BY <1>3 DEF Remove, Matches, history
<1>5. Messages' = Messages
  <2>1. ASSUME NEW k \in Messages'
        PROVE  k \in Messages
    <3>1. k \in 1..Len(oplog') /\ oplog'[k] \in Topics
      BY DEF Messages
    <3>2. k \in Messages \/ k > Len(oplog)
      BY RemoveGrows, MessagesKept
    <3>3. ~(k > Len(oplog))
      <4>1. ASSUME k > Len(oplog)
            PROVE  FALSE
        <5>1. k \in Len(oplog) + 1..Len(oplog')
          BY <3>1, <4>1, RemoveGrows DEF LogGrows
        <5> QED BY <3>1, <5>1, RemoveGrows, TopicsAssumption
      <4> QED BY <4>1
    <3> QED BY <3>2, <3>3
  <2> QED BY <2>1, RemoveGrows, MessagesKept
<1>6. Gone' = Gone \cup {f} /\ ToldToAny' = ToldToAny
  BY <1>3, <1>4, <1>5, PlacesOfMessages DEF Gone, ToldToAny
<1>7. Cardinality(Gone') = Cardinality(Gone) + 1
  BY <1>3, <1>6, PlacesOfMessages, FS_AddElement
<1>8. Cardinality(Gone') <= Cardinality(ToldToAny')
  BY <1>1, <1>6, <1>7, PlacesOfMessages
<1>9. ASSUME NEW i \in Gone', NEW k \in Messages', k < i
      PROVE  k \in Gone'
  <2>1. CASE i \in Gone
    BY <1>5, <1>6, <1>9, <2>1 DEF Newest
  <2>2. CASE i = f
    <3>1. k \notin collection
      BY <1>1, <1>3, <1>5, <1>9, <2>2, PlacesOfMessages DEF Oldest
    <3> QED BY <1>5, <1>6, <3>1 DEF Gone
  <2> QED BY <1>6, <2>1, <2>2
<1>10. Behind(r)'
  BY <1>1, <1>2, <1>6 DEF Behind
<1>11. \A q \in Readers : /\ Running(q)' => q = r
                          /\ readers'[q].status \notin {"callback", "removing"}
  BY <1>2 DEF Running
<1>12. ToldToAny' \subseteq Messages'
  BY <1>5, <1>6 DEF Newest
<1> QED BY <1>1, <1>4, <1>8, <1>9, <1>10, <1>11, <1>12 DEF Newest

LEMMA NewestStep ==
  ASSUME TypeOK, SkipInv, NewestInv, [Next]_vars
  PROVE  NewestInv'
<1> SUFFICES ASSUME ~overlapped' PROVE Newest'
  BY DEF NewestInv
<1>0. /\ readers \in [Readers -> Reader] /\ oplog \in Seq(Entries) /\ Len(oplog) \in Nat
      /\ \A q \in Readers : SkipInvOf(q)
      /\ (UNCHANGED oplog => LogGrows /\ Messages' = Messages)
  BY DEF TypeOK, LogGrows, SkipInv, Messages
<1>1. ASSUME NEW t \in Topics, Insert(t)
      PROVE  Newest'
  <2>1. LogGrows /\ Len(oplog') = Len(oplog) + 1
    BY <1>1, AppendGrows DEF Insert, Entries
  <2>2. UNCHANGED <<told, made, readers, overlapped>> /\ collection' = collection \cup {Len(oplog) + 1}
    BY <1>1 DEF Insert, history
  <2>3. Newest
    BY <2>2 DEF NewestInv
  <2>4. \A q \in Readers : Running(q)' => q = made'
    BY <2>2, <2>3 DEF Newest, Running
  <2>5. ASSUME NEW k \in Messages' \ Messages
        PROVE  k \in collection'
    <3>1. k \in 1..Len(oplog') /\ k > Len(oplog)
      BY <2>1, MessagesKept DEF Messages
    <3> QED BY <1>0, <2>1, <2>2, <3>1
  <2> QED BY <1>0, <2>1, <2>2, <2>3, <2>4, <2>5, KeepsNewest
<1>2. ASSUME WriteElsewhere
      PROVE  Newest'
  <2>1. LogGrows /\ Len(oplog') = Len(oplog) + 1 /\ oplog'[Len(oplog) + 1] = "foreign"
    BY <1>2, AppendGrows DEF WriteElsewhere, Entries
  <2>2. UNCHANGED <<told, made, readers, overlapped, collection>>
    BY <1>2 DEF WriteElsewhere, history
  <2>3. Newest
    BY <2>2 DEF NewestInv
  <2>4. \A q \in Readers : Running(q)' => q = made'
    BY <2>2, <2>3 DEF Newest, Running
  <2>5. ASSUME NEW k \in Messages' \ Messages
        PROVE  FALSE
    <3>1. k \in 1..Len(oplog') /\ oplog'[k] \in Topics /\ k > Len(oplog)
      BY <2>1, MessagesKept DEF Messages
    <3>2. k = Len(oplog) + 1
      BY <1>0, <2>1, <3>1
    <3> QED BY <2>1, <3>1, <3>2, TopicsAssumption
  <2> QED BY <2>1, <2>2, <2>3, <2>4, <2>5, KeepsNewest
<1>3. ASSUME NEW t \in Topics, subscribe(t)
      PROVE  Newest'
  <2>1. UNCHANGED <<oplog, collection, told>>
    BY <1>3 DEF subscribe
  <2>2. CASE Cardinality(subscriptions') = 1
    <3>1. /\ made + 1 \in Readers /\ made' = made + 1
          /\ readers' = [readers EXCEPT ![made + 1].status = "counting"]
          /\ ~overlapped /\ \A q \in Readers : ~Running(q)
      <4>1. made + 1 \in Readers /\ made' = made + 1
            /\ readers' = [readers EXCEPT ![made + 1].status = "counting"]
        BY <1>3, <2>2, BoundsAssumption DEF subscribe, TypeOK, Readers
      <4>2. overlapped' = (overlapped \/ \E q \in Readers : Running(q))
        BY <1>3, <2>2, Zenon DEF subscribe
      <4>3. ~overlapped /\ \A q \in Readers : ~Running(q)
        BY <4>2, Zenon
      <4> QED BY <4>1, <4>3
    <3>2. ASSUME NEW q \in Readers
          PROVE  /\ Running(q)' => q = made'
                 /\ readers'[q] = readers[q] \/ readers'[q].status = "counting"
      <4>1. readers[q] \in Reader
        BY <1>0
      <4>2. CASE q = made + 1
        BY <1>0, <3>1, <4>1, <4>2
      <4>3. CASE q # made + 1
        <5>1. readers'[q] = readers[q]
          BY <1>0, <3>1, <4>3
        <5> QED BY <3>1, <5>1 DEF Running
      <4> QED BY <4>2, <4>3
    <3>3. Newest
      BY <3>1 DEF NewestInv
    <3> QED BY <1>0, <2>1, <3>2, <3>3, KeepsNewest
  <2>3. CASE Cardinality(subscriptions') # 1
    <3>1. UNCHANGED <<readers, made, overlapped>>
      BY <1>3, <2>3 DEF subscribe
    <3>2. Newest
      BY <3>1 DEF NewestInv
    <3>3. \A q \in Readers : Running(q)' => q = made'
      BY <3>1, <3>2 DEF Newest, Running
    <3> QED BY <1>0, <2>1, <3>1, <3>2, <3>3, KeepsNewest
  <2> QED BY <2>2, <2>3
<1>4. ASSUME UNCHANGED <<oplog, collection, told, made, readers, overlapped>>
      PROVE  Newest'
  <2>1. Newest
    BY <1>4 DEF NewestInv
  <2>2. \A q \in Readers : Running(q)' => q = made'
    BY <1>4, <2>1 DEF Newest, Running
  <2> QED BY <1>0, <1>4, <2>1, <2>2, KeepsNewest
<1>5. ASSUME Restart
      PROVE  Newest'
  <2>1. UNCHANGED <<oplog, collection, told, made, overlapped>>
    BY <1>5 DEF Restart, history
  <2>2. \A q \in Readers : readers'[q] = readers[q] \/ readers'[q].status = "dead"
    <3> SUFFICES ASSUME NEW q \in Readers, Running(q) PROVE readers'[q].status = "dead"
      BY <1>0, <1>5 DEF Restart
    <3>1. readers'[q] = [readers[q] EXCEPT !.status = "dead"] /\ readers[q] \in Reader
      BY <1>0, <1>5 DEF Restart
    <3> QED BY <3>1 DEF Reader
  <2>3. Newest
    BY <2>1 DEF NewestInv
  <2>4. \A q \in Readers : Running(q)' => q = made'
    BY <2>1, <2>2, <2>3 DEF Newest, Running
  <2> QED BY <1>0, <2>1, <2>2, <2>3, <2>4, KeepsNewest
\* A step of a thread that removes nothing and tells nothing.
<1>6. ASSUME NEW r \in Readers, Running(r), NEW R \in Reader, Becomes(r, R), Newest,
             UNCHANGED <<oplog, collection, told, made>>,
             \/ R.status \in {"querying", "reading"}
                /\ \A k \in ToldToAny : k <= R.passed \/ k <= R.since
             \/ /\ readers[r].status = "callback" /\ R.status = "removing"
                /\ R.passed = readers[r].passed /\ R.since = readers[r].since
                /\ Oldest(R.found)
      PROVE  Newest'
  <2>1. readers'[r] = R /\ \A q \in Readers \ {r} : readers'[q] = readers[q] /\ ~Running(q)
    BY <1>6, OthersRest
  <2>2. r = made
    BY <1>6 DEF Newest
  <2>3. \A q \in Readers : Running(q)' => q = made'
    BY <1>6, <2>1, <2>2 DEF Running
  <2>4. ToldToAny' = ToldToAny
    BY <1>6 DEF ToldToAny
  <2>5. ASSUME NEW q \in Readers
        PROVE  \/ readers'[q] = readers[q]
               \/ readers'[q].status \in {"querying", "reading"} /\ Behind(q)'
               \/ /\ readers[q].status = "callback" /\ readers'[q].status = "removing"
                  /\ readers'[q].passed = readers[q].passed /\ readers'[q].since = readers[q].since
                  /\ Oldest(readers'[q].found)
    <3>1. CASE q # r
      BY <2>1, <3>1
    <3>2. CASE q = r /\ R.status \in {"querying", "reading"}
                     /\ \A k \in ToldToAny : k <= R.passed \/ k <= R.since
      BY <2>1, <2>4, <3>2 DEF Behind
    <3>3. CASE q = r /\ readers[r].status = "callback" /\ R.status = "removing"
                     /\ R.passed = readers[r].passed /\ R.since = readers[r].since
                     /\ Oldest(R.found)
      BY <2>1, <3>3
    <3> QED BY <1>6, <3>1, <3>2, <3>3
  <2> QED BY <1>0, <1>6, <2>3, <2>5, KeepsNewest
<1>7. ASSUME NEW r \in Readers, Count(r)
      PROVE  Newest'
  <2>1. PICK R \in Reader : Becomes(r, R) /\ CountRecord(r, R)
    BY <1>7, CountEffect
  <2>2. Running(r) /\ UNCHANGED <<oplog, collection, told, made, overlapped>>
    BY <1>7 DEF Count, Running, history
  <2>3. \A k \in ToldToAny : k <= R.since
    BY <2>1, PlacesOfMessages DEF CountRecord
  <2>4. R.status = "querying" /\ Newest
    BY <2>1, <2>2 DEF CountRecord, NewestInv
  <2> QED BY <1>6, <2>1, <2>2, <2>3, <2>4
<1>8. ASSUME NEW r \in Readers, Query(r)
      PROVE  Newest'
  <2>1. PICK R \in Reader : Becomes(r, R) /\ QueryRecord(r, R)
    BY <1>8, QueryEffect
  <2>2. Running(r) /\ readers[r].status = "querying"
        /\ UNCHANGED <<oplog, collection, told, made, overlapped>>
    BY <1>8 DEF Query, Running, history
  <2>3. Newest /\ Behind(r)
    BY <2>2 DEF NewestInv, Newest
  <2>4. R.status = "reading" /\ \A k \in ToldToAny : k <= R.passed \/ k <= R.since
    BY <2>1, <2>3 DEF QueryRecord, Behind
  <2> QED BY <1>6, <2>1, <2>2, <2>3, <2>4
<1>9. ASSUME NEW r \in Readers, Read(r)
      PROVE  Newest'
  <2>1. PICK i \in 1..Len(oplog) : NextOwn(r, i) /\ (Skip(r, i) \/ Tell(r, i))
    BY <1>9 DEF Read
  <2>2. Running(r) /\ readers[r].status = "reading"
        /\ UNCHANGED <<oplog, collection, made, overlapped>>
    BY <1>9 DEF Read, Running
  <2>3. Newest /\ Behind(r)
    BY <2>2 DEF NewestInv, Newest
  <2>4. readers[r].passed \in Nat /\ i \in Nat /\ i > readers[r].passed
    <3>1. readers[r] \in Reader /\ i \in Nat
      BY <1>0
    <3>2. readers[r].passed \in Nat
      BY <3>1 DEF Reader
    <3> QED BY <2>1, <3>1, <3>2 DEF NextOwn
  <2>5. ASSUME NEW R \in Reader, Becomes(r, R), UNCHANGED told,
               R.status = "reading", R.passed = i, R.since = readers[r].since
        PROVE  Newest'
    <3>1. \A k \in ToldToAny : k \in Nat
      BY PlacesOfMessages
    <3>2. \A k \in ToldToAny : k <= R.passed \/ k <= R.since
      BY <2>3, <2>4, <2>5, <3>1 DEF Behind
    <3> QED BY <1>6, <2>2, <2>3, <2>5, <3>2
  <2>6. CASE Skip(r, i)
    <3>1. PICK R \in Reader : Becomes(r, R) /\ SkipRecord(r, i, R)
      BY <2>2, <2>6, SkipEffect
    <3> QED BY <2>5, <2>6, <3>1 DEF SkipRecord, Skip
  <2>7. CASE Tell(r, i)
    <3>1. PICK R \in Reader : Becomes(r, R) /\ TellRecord(r, i, R)
      BY <2>2, <2>7, TellEffect
    <3>2. CASE oplog[i] \in subscriptions
      <4>1. readers'[r] = R
        BY <1>0, <3>1 DEF Becomes
      <4>2. i > readers[r].since /\ i > readers[r].passed
        BY <1>0, <2>1, <2>2, <2>7, <3>1, <4>1, TellStands
      <4> QED BY <2>2, <2>3, <2>7, <3>1, <3>2, <4>2, TellNewest
    <3>3. CASE oplog[i] \notin subscriptions
      BY <2>5, <2>7, <3>1, <3>3 DEF TellRecord, Tell
    <3> QED BY <3>2, <3>3
  <2> QED BY <2>1, <2>6, <2>7
<1>10. ASSUME NEW r \in Readers, Find(r)
       PROVE  Newest'
  <2>1. PICK R \in Reader : Becomes(r, R) /\ FindRecord(r, R)
    BY <1>10, FindEffect
  <2>2. Running(r) /\ readers[r].status = "callback"
        /\ UNCHANGED <<oplog, collection, told, made, overlapped>>
    BY <1>10 DEF Find, Running, history
  <2>3. Newest
    BY <2>2 DEF NewestInv
  <2>4. Oldest(R.found)
    BY <2>1, <2>2, <2>3, FindsOldest
  <2> QED BY <1>6, <2>1, <2>2, <2>3, <2>4 DEF FindRecord
<1>11. ASSUME NEW r \in Readers, Remove(r)
       PROVE  Newest'
  <2>1. PICK R \in Reader : Becomes(r, R) /\ RemoveRecord(r, R)
    BY <1>11, RemoveEffect
  <2>2. Newest
    BY <1>11 DEF Remove, history, NewestInv
  <2> QED BY <1>11, <2>1, <2>2, RemoveNewest
<1>12. ASSUME NEW t \in Topics, unsubscribe(t)
       PROVE  Newest'
  BY <1>4, <1>12 DEF unsubscribe, history
<1>13. CASE UNCHANGED vars
  BY <1>4, <1>13 DEF vars, history
<1> QED BY <1>1, <1>2, <1>3, <1>5, <1>7, <1>8, <1>9, <1>10, <1>11, <1>12, <1>13 DEF Next, run

LEMMA NewestInit == Init => NewestInv
<1> SUFFICES ASSUME Init PROVE Newest
  BY DEF NewestInv
<1>1. \A q \in Readers : readers[q].status = "none" /\ told[q] = {}
  BY DEF Init, Idle
<1>2. Messages = {} /\ Gone = {} /\ ToldToAny = {}
  <2>1. Len(oplog) = 0
    BY DEF Init
  <2> QED BY <1>1, <2>1 DEF Messages, Gone, ToldToAny
<1>3. Cardinality(Gone) = 0 /\ Cardinality(ToldToAny) = 0
  BY <1>2, FS_EmptySet
<1> QED BY <1>1, <1>2, <1>3 DEF Newest, Running

\* While one thread reads at a time, a message is in the collection until it, or one
\* after it, was told: whatever the thread skipped, whichever message the callback
\* removed, and however often the process was restarted.
THEOREM NewestStaysCorrect == Spec => []NewestStays
<1>1. (TypeOK /\ SkipInv /\ NewestInv) /\ [Next]_vars => (TypeOK /\ SkipInv /\ NewestInv)'
  BY TypeStep, SkipInvStep, NewestStep
<1>2. TypeOK /\ NewestInv => NewestStays
  <2> SUFFICES ASSUME TypeOK, NewestInv, ~overlapped, NEW i \in 1..Len(oplog),
                      oplog[i] \in Topics, \A t \in ToldToAny : t < i, i \notin collection
               PROVE  FALSE
    BY DEF NewestStays
  <2>1. i \in Gone /\ Newest
    BY DEF Gone, Messages, NewestInv
  <2>2. ASSUME NEW t \in ToldToAny
        PROVE  t \in Gone \ {i}
    BY <2>1, PlacesOfMessages DEF Newest
  <2>3. Cardinality(Gone \ {i}) = Cardinality(Gone) - 1 /\ IsFiniteSet(Gone \ {i})
    BY <2>1, PlacesOfMessages, FS_RemoveElement
  <2>4. Cardinality(ToldToAny) <= Cardinality(Gone \ {i})
    <3>1. ToldToAny \in SUBSET (Gone \ {i})
      BY <2>2
    <3> QED BY <2>3, <3>1, FS_Subset
  <2>5. Cardinality(Gone) <= Cardinality(ToldToAny)
    BY <2>1 DEF Newest
  <2> QED BY <2>3, <2>4, <2>5, PlacesOfMessages
<1>3. Init => TypeOK /\ SkipInv /\ NewestInv
  BY TypeInit, SkipInit, NewestInit
<1> QED BY <1>1, <1>2, <1>3, PTL DEF Spec
=============================================================================
