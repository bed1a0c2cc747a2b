---------------------------- MODULE Broker_proofs -----------------------------
(***************************************************************************)
(* The invariants of Broker for any connections, topics and number of      *)
(* messages.  What Publish does to the list it ranges over is described by *)
(* sets of connections first (ShiftedList, ShortenedList).                 *)
(***************************************************************************)
EXTENDS Broker, TLAPS, SequenceTheorems, WellFoundedInduction

Distinct(q) == \A i, j \in DOMAIN q : q[i] = q[j] => i = j
Live(s) == handler[s] = "reading" /\ conn[s] = "up"

\* Nothing is left of a Publish that is over.
Quiet == lock = None => /\ view = << >> /\ next = 1 /\ expected = {}
                        /\ got = [s \in Conn |-> 0] /\ failed = FALSE

\* Publish still has every live subscriber in the array it ranges over.
HealthyInView == \A s \in Conn : lock = TopicOf[s] /\ Live(s) => s \in Elements(view)

\* Before a callback fails the array is the list, and the messages are where
\* the loop has been.
Ranging ==
  lock # None /\ ~failed =>
    /\ view = subscribers[lock]
    /\ expected = Elements(view)
    /\ \A s \in Conn : got[s] > 0 <=> \E k \in 1 .. next - 1 : view[k] = s

\* Until a Publish saw two failures, a list has each of its subscribers once.
Listed(t) == /\ Distinct(subscribers[t])
             /\ \A s \in Elements(subscribers[t]) :
                  TopicOf[s] = t /\ handler[s] \in {"reading", "leaving"}
ListsExact == ~twice => \A t \in Topic : Listed(t)

IInv == TypeOK /\ Quiet /\ HealthyKept /\ HealthyInView /\ Ranging /\ ListsExact

-----------------------------------------------------------------------------
(* Lists *)

\* A new subscriber at the end of a list.
LEMMA AppendedList ==
  ASSUME NEW q \in Seq(Conn), NEW s \in Conn
  PROVE  /\ Append(q, s) \in Seq(Conn)
         /\ Elements(Append(q, s)) = Elements(q) \cup {s}
         /\ Distinct(q) /\ s \notin Elements(q) => Distinct(Append(q, s))
<1> DEFINE p == Append(q, s)
<1>1. /\ p \in Seq(Conn)
      /\ Len(q) \in Nat
      /\ DOMAIN q = 1 .. Len(q) /\ DOMAIN p = 1 .. (Len(q) + 1)
      /\ \A i \in 1 .. Len(q) : p[i] = q[i]
      /\ p[Len(q) + 1] = s
  OBVIOUS
<1> HIDE DEF p
<1>2. Elements(p) = Elements(q) \cup {s}
  BY <1>1 DEF Elements
<1>3. Distinct(q) /\ s \notin Elements(q) => Distinct(p)
  BY <1>1 DEF Elements, Distinct
<1> QED BY <1>1, <1>2, <1>3 DEF p

LEMMA Trichotomy == \A i, j \in Int : i < j \/ i = j \/ i > j
OBVIOUS

\* The array after append(a[:i], a[i+1:]...), and the list that the map gets.
LEMMA ShiftedList ==
  ASSUME NEW a \in Seq(Conn), NEW i \in 1 .. Len(a)
  PROVE  LET b == ShiftDown(a, i)
             p == SubSeq(b, 1, Len(a) - 1)
         IN  /\ b \in Seq(Conn) /\ Len(b) = Len(a)
             /\ p \in Seq(Conn)
             /\ Elements(a) \subseteq Elements(b) \cup {a[i]}
             /\ Elements(a) \subseteq Elements(p) \cup {a[i]}
             /\ Elements(p) \subseteq Elements(a)
             /\ Distinct(a) => Distinct(p)
<1> DEFINE b == ShiftDown(a, i)
           p == SubSeq(b, 1, Len(a) - 1)
           from(k) == IF i <= k THEN k + 1 ELSE k
<1>1. Len(a) \in Nat \ {0} /\ DOMAIN a = 1 .. Len(a) /\ \A k \in 1 .. Len(a) : a[k] \in Conn
  OBVIOUS
<1>2. /\ b \in Seq(Conn) /\ Len(b) = Len(a) /\ DOMAIN b = 1 .. Len(a)
      /\ \A k \in 1 .. Len(a) - 1 : b[k] = a[from(k)]
  <2>1. \A k \in 1 .. Len(a) : b[k] = IF i <= k /\ k < Len(a) THEN a[k + 1] ELSE a[k]
    BY <1>1 DEF ShiftDown
  <2>2. b \in [1 .. Len(a) -> Conn]
    BY <1>1 DEF ShiftDown
  <2>3. b \in Seq(Conn) /\ Len(b) = Len(a) /\ DOMAIN b = 1 .. Len(a)
    BY <1>1, <2>2
  <2> HIDE DEF b
  <2> QED BY <1>1, <2>1, <2>3
<1> HIDE DEF b
<1>3. /\ p \in Seq(Conn) /\ DOMAIN p = 1 .. Len(a) - 1
      /\ \A k \in 1 .. Len(a) - 1 : p[k] = a[from(k)]
  BY <1>1, <1>2
<1> HIDE DEF p
<1>4. \A k \in 1 .. Len(a) - 1 : from(k) \in 1 .. Len(a)
  BY <1>1
<1>5. ASSUME NEW j \in 1 .. Len(a), j # i
      PROVE  \E k \in 1 .. Len(a) - 1 : from(k) = j
  <2>1. CASE j < i
    BY <1>1, <2>1
  <2>2. CASE j > i
    <3>1. j - 1 \in 1 .. Len(a) - 1 /\ from(j - 1) = j
      BY <1>1, <2>2
    <3> QED BY <3>1
  <2>3. j < i \/ j > i
    <3>1. i \in Int /\ j \in Int
      BY <1>1
    <3> QED BY <1>5, <3>1, Trichotomy, Zenon
  <2> QED BY <2>1, <2>2, <2>3
<1>6. Elements(a) \subseteq Elements(p) \cup {a[i]}
  <2> SUFFICES ASSUME NEW j \in 1 .. Len(a), a[j] # a[i]
               PROVE  \E k \in DOMAIN p : p[k] = a[j]
    BY <1>1 DEF Elements
  <2>1. PICK k \in 1 .. Len(a) - 1 : from(k) = j
    BY <1>5
  <2> QED BY <1>3, <2>1
<1>7. Elements(p) \subseteq Elements(b)
  BY <1>1, <1>2, <1>3 DEF Elements
<1>8. Elements(p) \subseteq Elements(a)
  BY <1>1, <1>3, <1>4 DEF Elements
<1>9. ASSUME Distinct(a) PROVE Distinct(p)
  <2> SUFFICES ASSUME NEW k \in DOMAIN p, NEW l \in DOMAIN p, p[k] = p[l]
               PROVE  k = l
    BY DEF Distinct
  <2>1. from(k) = from(l)
    BY <1>1, <1>3, <1>4, <1>9 DEF Distinct
  <2> QED BY <1>1, <1>3, <2>1
<1> QED BY <1>2, <1>3, <1>6, <1>7, <1>8, <1>9 DEF b, p

\* What is in a list has a first place there.
LEMMA FirstOccurrence ==
  ASSUME NEW q \in Seq(Conn), NEW s, s \in Elements(q)
  PROVE  \E k \in DOMAIN q : q[k] = s /\ \A j \in 1 .. k - 1 : q[j] # s
<1> DEFINE T == {k \in 1 .. Len(q) : q[k] = s}
<1>1. Len(q) \in Nat /\ DOMAIN q = 1 .. Len(q)
  OBVIOUS
<1>2. T \subseteq Nat /\ T # {}
  BY <1>1 DEF Elements
<1>3. \E k \in T : \A j \in T : ~(<<j, k>> \in OpToRel(<, Nat))
  BY <1>2, NatLessThanWellFounded, WFMin
<1>4. PICK k \in T : \A j \in T : ~(<<j, k>> \in OpToRel(<, Nat))
  BY <1>3
<1>5. \A j \in T : ~(j < k)
  BY <1>2, <1>4 DEF OpToRel
<1> QED BY <1>1, <1>5

\* The list that Unsubscribe leaves.
LEMMA ShortenedList ==
  ASSUME NEW q \in Seq(Conn), NEW s \in Conn
  PROVE  LET p == Without(q, s)
         IN  /\ p \in Seq(Conn)
             /\ Elements(q) \ {s} \subseteq Elements(p)
             /\ Elements(p) \subseteq Elements(q)
             /\ Distinct(q) => Distinct(p) /\ s \notin Elements(p)
<1> DEFINE p == Without(q, s)
<1>1. Len(q) \in Nat /\ DOMAIN q = 1 .. Len(q) /\ \A k \in 1 .. Len(q) : q[k] \in Conn
  OBVIOUS
<1>2. CASE s \notin Elements(q)
  BY <1>2 DEF Without
<1>3. CASE s \in Elements(q)
  <2> DEFINE First(k) == q[k] = s /\ \A j \in 1 .. k - 1 : q[j] # s
             i == CHOOSE k \in DOMAIN q : First(k)
             from(k) == IF i <= k THEN k + 1 ELSE k
             l == SubSeq(q, 1, i - 1)
             r == SubSeq(q, i + 1, Len(q))
  <2>1. \E k \in DOMAIN q : First(k)
    <3>1. \E k \in DOMAIN q : q[k] = s /\ \A j \in 1 .. k - 1 : q[j] # s
      BY <1>3, FirstOccurrence
    <3> QED BY <3>1
  <2>2. i \in 1 .. Len(q) /\ q[i] = s
    BY <1>1, <2>1
  <2>3. p = l \o r
    BY <1>3 DEF Without
  <2> HIDE DEF i
  <2>4. /\ l \in Seq(Conn) /\ Len(l) = i - 1 /\ \A k \in 1 .. i - 1 : l[k] = q[k]
        /\ r \in Seq(Conn) /\ Len(r) = Len(q) - i
        /\ \A k \in 1 .. Len(q) - i : r[k] = q[k + i]
    <3>1. /\ i - 1 \in Int /\ i + 1 \in Int /\ Len(q) \in Int /\ 1 \in Int
          /\ \A k \in 1 .. i - 1 : q[k] \in Conn
          /\ \A k \in i + 1 .. Len(q) : q[k] \in Conn
      BY <1>1, <2>2
    <3>2. /\ l \in Seq(Conn) /\ Len(l) = IF 1 <= i - 1 THEN i - 1 - 1 + 1 ELSE 0
          /\ \A k \in 1 .. i - 1 - 1 + 1 : l[k] = q[1 + k - 1]
      BY <3>1, SubSeqProperties
    <3>3. /\ r \in Seq(Conn)
          /\ Len(r) = IF i + 1 <= Len(q) THEN Len(q) - (i + 1) + 1 ELSE 0
          /\ \A k \in 1 .. Len(q) - (i + 1) + 1 : r[k] = q[i + 1 + k - 1]
      BY <3>1, SubSeqProperties
    <3> HIDE DEF l, r
    <3>4. Len(l) = i - 1 /\ Len(r) = Len(q) - i
      <4>1. Len(l) = i - 1
        BY <2>2, <3>2
      <4>2. Len(r) = Len(q) - i
        <5>1. Len(r) = IF i + 1 <= Len(q) THEN Len(q) - (i + 1) + 1 ELSE 0
          BY <3>3
        <5>2. i \in Nat /\ Len(q) \in Nat /\ i <= Len(q)
          BY <1>1, <2>2
        <5> QED BY <5>1, <5>2
      <4> QED BY <4>1, <4>2
    <3>5. ASSUME NEW k \in 1 .. i - 1 PROVE l[k] = q[k]
      <4>1. k \in 1 .. i - 1 - 1 + 1 /\ 1 + k - 1 = k
        BY <2>2
      <4> QED BY <3>2, <4>1
    <3>6. ASSUME NEW k \in 1 .. Len(q) - i PROVE r[k] = q[k + i]
      <4>1. k \in 1 .. Len(q) - (i + 1) + 1 /\ i + 1 + k - 1 = k + i
        BY <1>1, <2>2
      <4> QED BY <3>3, <4>1
    <3> QED BY <3>2, <3>3, <3>4, <3>5, <3>6
  <2> HIDE DEF l, r
  <2>5. /\ p \in Seq(Conn) /\ Len(p) = Len(q) - 1 /\ DOMAIN p = 1 .. Len(q) - 1
        /\ \A k \in 1 .. Len(q) - 1 : p[k] = q[from(k)]
    <3>1. p \in Seq(Conn) /\ Len(p) = Len(q) - 1 /\ DOMAIN p = 1 .. Len(q) - 1
      <4>1. p \in Seq(Conn) /\ Len(p) = Len(l) + Len(r)
        BY <2>3, <2>4, ConcatProperties
      <4> HIDE DEF p
      <4> QED BY <1>1, <2>2, <2>4, <4>1
    <3>2. ASSUME NEW k \in 1 .. Len(q) - 1 PROVE p[k] = q[from(k)]
      <4>1. p[k] = IF k <= Len(l) THEN l[k] ELSE r[k - Len(l)]
        BY <1>1, <2>2, <2>3, <2>4, ConcatProperties
      <4>2. CASE k < i
        BY <1>1, <2>2, <2>4, <4>1, <4>2
      <4>3. CASE k >= i
        <5>1. k - (i - 1) \in 1 .. Len(q) - i /\ k - (i - 1) + i = k + 1
          BY <1>1, <2>2, <4>3
        <5>2. r[k - (i - 1)] = q[k + 1]
          BY <2>4, <5>1
        <5>3. ~(k <= i - 1)
          BY <2>2, <4>3
        <5> QED BY <2>4, <4>1, <4>3, <5>2, <5>3
      <4> QED BY <2>2, <4>2, <4>3
    <3> QED BY <3>1, <3>2
  <2> HIDE DEF p
  <2>6. \A k \in 1 .. Len(q) - 1 : from(k) \in 1 .. Len(q) /\ from(k) # i
    BY <1>1, <2>2
  <2>7. ASSUME NEW j \in 1 .. Len(q), j # i
        PROVE  \E k \in 1 .. Len(q) - 1 : from(k) = j
    <3>1. CASE j < i
      BY <1>1, <2>2, <3>1
    <3>2. CASE j > i
      <4>1. j - 1 \in 1 .. Len(q) - 1 /\ from(j - 1) = j
        BY <1>1, <2>2, <3>2
      <4> QED BY <4>1
    <3> QED BY <1>1, <2>2, <2>7, <3>1, <3>2
  <2>8. Elements(q) \ {s} \subseteq Elements(p)
    <3> SUFFICES ASSUME NEW j \in 1 .. Len(q), q[j] # s
                 PROVE  \E k \in DOMAIN p : p[k] = q[j]
      BY <1>1 DEF Elements
    <3>1. j # i
      BY <2>2
    <3>2. PICK k \in 1 .. Len(q) - 1 : from(k) = j
      BY <2>7, <3>1
    <3> QED BY <2>5, <3>2
  <2>9. Elements(p) \subseteq Elements(q)
    BY <1>1, <2>5, <2>6 DEF Elements
  <2>10. ASSUME Distinct(q) PROVE Distinct(p)
    <3> SUFFICES ASSUME NEW k \in DOMAIN p, NEW m \in DOMAIN p, p[k] = p[m]
                 PROVE  k = m
      BY DEF Distinct
    <3>1. from(k) = from(m)
      BY <1>1, <2>5, <2>6, <2>10 DEF Distinct
    <3> QED BY <1>1, <2>2, <2>5, <3>1
  <2>11. ASSUME Distinct(q) PROVE s \notin Elements(p)
    <3> SUFFICES ASSUME NEW k \in 1 .. Len(q) - 1, p[k] = s PROVE FALSE
      BY <2>5 DEF Elements
    <3>1. q[from(k)] = q[i] /\ from(k) \in DOMAIN q /\ i \in DOMAIN q
      BY <1>1, <2>2, <2>5, <2>6
    <3>2. from(k) = i
      BY <2>11, <3>1 DEF Distinct
    <3> QED BY <2>6, <3>2
  <2> QED BY <2>5, <2>8, <2>9, <2>10, <2>11 DEF p
<1> QED BY <1>2, <1>3
-----------------------------------------------------------------------------
(* The invariant *)

LEMMA InitIInv == Init => IInv
<1> SUFFICES ASSUME Init PROVE IInv
  OBVIOUS
<1>1. TypeOK
  <2>1. << >> \in Seq(Conn) /\ Len(<< >>) = 0
    OBVIOUS
  <2>2. view \in Seq(Conn) /\ next \in 1 .. Len(view) + 1
    BY <2>1 DEF Init
  <2>3. subscribers \in [Topic -> Seq(Conn)]
    BY <2>1 DEF Init
  <2>4. published \in [Topic -> 0 .. MaxPublish] /\ got \in [Conn -> Nat]
    BY BrokerAssumption DEF Init
  <2>5. /\ handler \in [Conn -> {"connecting", "reading", "leaving", "gone"}]
        /\ conn \in [Conn -> {"up", "broken"}]
        /\ connLock \in [Conn -> {"free", "pinger"}]
        /\ pinger \in [Conn -> {"unborn", "tick", "writing", "exited"}]
    BY DEF Init
  <2>6. /\ lock \in Topic \cup {None} /\ expected \subseteq Conn
        /\ failed \in BOOLEAN /\ twice \in BOOLEAN
    BY DEF Init
  <2> QED BY <2>2, <2>3, <2>4, <2>5, <2>6 DEF TypeOK
<1>2. \A t \in Topic : Elements(subscribers[t]) = {} /\ Distinct(subscribers[t])
  BY DEF Init, Elements, Distinct
<1>3. Quiet /\ Ranging
  BY DEF Init, Quiet, Ranging
<1>4. HealthyKept /\ HealthyInView
  BY DEF Init, HealthyKept, HealthyInView, Live
<1>5. ListsExact
  BY <1>2 DEF ListsExact, Listed
<1> QED BY <1>1, <1>3, <1>4, <1>5 DEF IInv

\* The lists, the lock and what Publish does stay; no connection comes back to life.
LEMMA ListsKept ==
  ASSUME IInv, TypeOK',
         UNCHANGED <<subscribers, lock, publishVars>>,
         \A s \in Conn : (Live(s))' => Live(s),
         \A s \in Conn : handler[s] \in {"reading", "leaving"}
                           => handler'[s] \in {"reading", "leaving"}
  PROVE  IInv'
<1>1. Quiet'
  BY DEF IInv, Quiet, publishVars
<1>2. HealthyKept' /\ HealthyInView'
  BY DEF IInv, HealthyKept, HealthyInView, Live, publishVars
<1>3. Ranging'
  BY DEF IInv, Ranging, publishVars
<1>4. ListsExact'
  <2> SUFFICES ASSUME ~twice, NEW t \in Topic PROVE Listed(t)'
    BY DEF ListsExact, publishVars
  <2>1. Listed(t) /\ Elements(subscribers[t]) \subseteq Conn
    BY DEF IInv, ListsExact, TypeOK, Elements
  <2> QED BY <2>1 DEF Listed
<1> QED BY <1>1, <1>2, <1>3, <1>4 DEF IInv

LEMMA TypeStep == TypeOK /\ [Next]_vars => TypeOK'
<1> SUFFICES ASSUME TypeOK, [Next]_vars PROVE TypeOK'
  OBVIOUS
<1> USE BrokerAssumption
<1>1. CASE UNCHANGED vars
  BY <1>1 DEF TypeOK, vars, publishVars
<1>2. ASSUME NEW t \in Topic, StartPublish(t) PROVE TypeOK'
  <2>1. Elements(subscribers[t]) \subseteq Conn /\ Len(subscribers[t]) \in Nat
    BY DEF TypeOK, Elements
  <2>2. view' \in Seq(Conn) /\ Len(view') \in Nat /\ next' = 1
    BY <1>2, <2>1 DEF StartPublish, TypeOK
  <2>3. next' \in 1 .. Len(view') + 1
    BY <2>2
  <2>4. published' \in [Topic -> 0 .. MaxPublish]
    <3>1. published[t] \in 0 .. MaxPublish /\ published[t] < MaxPublish
      BY <1>2 DEF StartPublish, TypeOK
    <3>2. published[t] + 1 \in 0 .. MaxPublish
      BY <3>1
    <3> QED BY <1>2, <3>2 DEF StartPublish, TypeOK
  <2>5. lock' \in Topic \cup {None} /\ expected' \subseteq Conn
    BY <1>2, <2>1 DEF StartPublish
  <2> QED BY <1>2, <2>2, <2>3, <2>4, <2>5 DEF StartPublish, TypeOK
<1>3. ASSUME NEW t \in Topic, CallbackOk(t) PROVE TypeOK'
  <2>1. /\ view \in Seq(Conn) /\ next \in 1 .. Len(view)
        /\ view' = view /\ next' = next + 1
    BY <1>3 DEF CallbackOk, TypeOK
  <2>2. next' \in 1 .. Len(view') + 1 /\ view[next] \in Conn
    BY <2>1
  <2>3. got \in [Conn -> Nat] /\ got' = [got EXCEPT ![view[next]] = got[view[next]] + 1]
    BY <1>3 DEF CallbackOk, TypeOK
  <2>4. got' \in [Conn -> Nat]
    BY <2>2, <2>3
  <2> QED BY <1>3, <2>2, <2>4 DEF CallbackOk, TypeOK
<1>4. ASSUME NEW t \in Topic, CallbackFails(t) PROVE TypeOK'
  <2>1. next \in 1 .. Len(view) /\ view \in Seq(Conn)
    BY <1>4 DEF CallbackFails, TypeOK
  <2>2. /\ view' \in Seq(Conn) /\ Len(view') = Len(view)
        /\ SubSeq(view', 1, Len(view) - 1) \in Seq(Conn)
    BY <1>4, <2>1, ShiftedList DEF CallbackFails
  <2>3. subscribers' \in [Topic -> Seq(Conn)]
    BY <1>4, <2>2 DEF CallbackFails, TypeOK
  <2>4. next' \in 1 .. Len(view') + 1
    BY <1>4, <2>1, <2>2 DEF CallbackFails
  <2>5. twice' \in BOOLEAN /\ failed' \in BOOLEAN
    BY <1>4, Zenon DEF CallbackFails, TypeOK
  <2>6. conn' \in [Conn -> {"up", "broken"}]
    BY <1>4, <2>1 DEF CallbackFails, TypeOK
  <2> QED BY <1>4, <2>2, <2>3, <2>4, <2>5, <2>6 DEF CallbackFails, TypeOK
<1>5. ASSUME NEW t \in Topic, EndPublish(t) PROVE TypeOK'
  <2>1. view' \in Seq(Conn) /\ next' \in 1 .. Len(view') + 1
    BY <1>5 DEF EndPublish
  <2> QED BY <1>5, <2>1 DEF EndPublish, TypeOK
<1>6. ASSUME NEW s \in Conn, Subscribe(s) PROVE TypeOK'
  <2>1. Append(subscribers[TopicOf[s]], s) \in Seq(Conn)
    BY DEF TypeOK
  <2> QED BY <1>6, <2>1 DEF Subscribe, TypeOK, publishVars
<1>7. ASSUME NEW s \in Conn, Unsubscribe(s) PROVE TypeOK'
  <2>1. Without(subscribers[TopicOf[s]], s) \in Seq(Conn)
    BY ShortenedList DEF TypeOK
  <2> QED BY <1>7, <2>1 DEF Unsubscribe, TypeOK, publishVars
<1>8. ASSUME NEW s \in Conn, ConnBreaks(s) \/ LeaveLoop(s) \/ PingerStep(s) PROVE TypeOK'
  BY <1>8 DEF ConnBreaks, LeaveLoop, PingerStep, PingLock, PingOk, PingFails, TypeOK, publishVars
<1> QED
  BY <1>1, <1>2, <1>3, <1>4, <1>5, <1>6, <1>7, <1>8 DEF Next, PublisherStep, ReadFails, ClientLeaves

LEMMA StartStep ==
  ASSUME IInv, TypeOK', NEW t \in Topic, StartPublish(t)
  PROVE  IInv'
<1>1. /\ lock = None /\ lock' = t /\ None \notin Topic
      /\ view' = subscribers[t] /\ next' = 1 /\ expected' = Elements(subscribers[t])
      /\ UNCHANGED <<got, failed, twice, subscribers, handler, conn>>
  BY BrokerAssumption DEF StartPublish
<1>2. Quiet' /\ HealthyKept'
  BY <1>1 DEF Quiet, IInv, HealthyKept
<1>3. HealthyInView'
  BY <1>1 DEF IInv, HealthyKept, HealthyInView, Live
<1>4. Ranging'
  <2>1. \A s \in Conn : got[s] = 0
    BY <1>1 DEF IInv, Quiet
  <2> QED BY <1>1, <2>1 DEF Ranging
<1>5. ListsExact'
  BY <1>1 DEF IInv, ListsExact, Listed
<1> QED BY <1>2, <1>3, <1>4, <1>5 DEF IInv

LEMMA CallbackOkStep ==
  ASSUME IInv, TypeOK', NEW t \in Topic, CallbackOk(t)
  PROVE  IInv'
<1>1. /\ lock = t /\ None \notin Topic
      /\ next \in 1 .. Len(view) /\ view \in Seq(Conn) /\ next' = next + 1
      /\ got' = [got EXCEPT ![view[next]] = @ + 1] /\ got \in [Conn -> Nat]
      /\ UNCHANGED <<subscribers, lock, view, expected, failed, twice, handler, conn>>
  BY BrokerAssumption DEF CallbackOk, IInv, TypeOK
<1>2. Quiet' /\ HealthyKept' /\ HealthyInView' /\ ListsExact'
  BY <1>1 DEF IInv, Quiet, HealthyKept, HealthyInView, Live, ListsExact, Listed
<1>3. Ranging'
  <2> SUFFICES ASSUME ~failed, NEW s \in Conn
               PROVE  got'[s] > 0 <=> \E k \in 1 .. next : view[k] = s
    BY <1>1 DEF IInv, Ranging
  <2>1. got[s] > 0 <=> \E k \in 1 .. next - 1 : view[k] = s
    BY <1>1 DEF IInv, Ranging
  <2>2. (\E k \in 1 .. next : view[k] = s) <=> view[next] = s \/ \E k \in 1 .. next - 1 : view[k] = s
    BY <1>1
  <2>3. CASE view[next] = s
    BY <1>1, <2>2, <2>3
  <2>4. CASE view[next] # s
    <3>1. got'[s] = got[s]
      BY <1>1, <2>4
    <3> QED BY <2>1, <2>2, <2>4, <3>1
  <2> QED BY <2>3, <2>4
<1> QED BY <1>2, <1>3 DEF IInv

\* The list that is stored is the array without the place of the failure: nobody
\* alive was there.
LEMMA CallbackFailsStep ==
  ASSUME IInv, TypeOK', NEW t \in Topic, CallbackFails(t)
  PROVE  IInv'
<1> DEFINE p == SubSeq(view', 1, Len(view) - 1)
           dead == view[next]
<1>1. /\ lock = t /\ None \notin Topic
      /\ next \in 1 .. Len(view) /\ view \in Seq(Conn)
      /\ view' = ShiftDown(view, next)
      /\ subscribers' = [subscribers EXCEPT ![t] = p] /\ subscribers \in [Topic -> Seq(Conn)]
      /\ conn' = [conn EXCEPT ![dead] = "broken"] /\ conn \in [Conn -> {"up", "broken"}]
      /\ failed' = TRUE /\ twice' = (twice \/ failed)
      /\ UNCHANGED <<lock, handler>>
  <2>1. /\ lock = t /\ None \notin Topic
        /\ next \in 1 .. Len(view) /\ view \in Seq(Conn)
    BY BrokerAssumption DEF CallbackFails, IInv, TypeOK
  <2>2. /\ view' = ShiftDown(view, next)
        /\ subscribers' = [subscribers EXCEPT ![t] = p] /\ subscribers \in [Topic -> Seq(Conn)]
        /\ conn' = [conn EXCEPT ![dead] = "broken"] /\ conn \in [Conn -> {"up", "broken"}]
        /\ UNCHANGED <<lock, handler>>
    BY DEF CallbackFails, IInv, TypeOK
  <2>3. failed' = TRUE /\ twice' = (twice \/ failed)
    BY Zenon DEF CallbackFails
  <2> QED BY <2>1, <2>2, <2>3
<1>2. /\ Elements(view) \subseteq Elements(view') \cup {dead}
      /\ Elements(view) \subseteq Elements(p) \cup {dead}
      /\ Elements(p) \subseteq Elements(view)
      /\ Distinct(view) => Distinct(p)
  BY <1>1, ShiftedList
<1> HIDE DEF p
<1>3. ASSUME NEW s \in Conn, (Live(s))' PROVE Live(s) /\ s # dead
  BY <1>1, <1>3 DEF Live
<1>4. ASSUME NEW s \in Conn, (Live(s))', TopicOf[s] = t
      PROVE  s \in Elements(view') /\ s \in Elements(p)
  BY <1>1, <1>2, <1>3, <1>4 DEF IInv, HealthyInView
<1>5. Quiet' /\ Ranging'
  BY <1>1 DEF Quiet, Ranging
<1>6. HealthyInView'
  BY <1>1, <1>4 DEF HealthyInView
<1>7. HealthyKept'
  <2> SUFFICES ASSUME NEW s \in Conn, (Live(s))'
               PROVE  s \in Elements(subscribers'[TopicOf[s]])
    BY DEF HealthyKept, Live
  <2>1. CASE TopicOf[s] = t
    BY <1>1, <1>4, <2>1
  <2>2. CASE TopicOf[s] # t
    <3>1. s \in Elements(subscribers[TopicOf[s]])
      BY <1>3 DEF IInv, HealthyKept, Live
    <3>2. subscribers'[TopicOf[s]] = subscribers[TopicOf[s]]
      BY <1>1, <2>2, BrokerAssumption
    <3> QED BY <3>1, <3>2
  <2> QED BY <2>1, <2>2
<1>8. ListsExact'
  <2> SUFFICES ASSUME ~twice, ~failed, NEW o \in Topic PROVE Listed(o)'
    BY <1>1 DEF ListsExact
  <2>1. Listed(o) /\ Listed(t) /\ view = subscribers[t]
    BY <1>1 DEF IInv, ListsExact, Ranging
  <2>2. CASE o = t
    <3>1. subscribers'[t] = p
      BY <1>1
    <3> QED BY <1>1, <1>2, <2>1, <2>2, <3>1 DEF Listed
  <2>3. CASE o # t
    <3>1. subscribers'[o] = subscribers[o]
      BY <1>1, <2>3
    <3> QED BY <1>1, <2>1, <3>1 DEF Listed
  <2> QED BY <2>2, <2>3
<1> QED BY <1>5, <1>6, <1>7, <1>8 DEF IInv

LEMMA EndStep ==
  ASSUME IInv, TypeOK', NEW t \in Topic, EndPublish(t)
  PROVE  IInv'
<1>1. /\ lock' = None /\ None \notin Topic
      /\ view' = << >> /\ next' = 1
      /\ expected' = {} /\ got' = [s \in Conn |-> 0] /\ failed' = FALSE
      /\ UNCHANGED <<twice, subscribers, handler, conn>>
  BY BrokerAssumption DEF EndPublish
<1> QED
  BY <1>1, BrokerAssumption
     DEF IInv, Quiet, HealthyKept, HealthyInView, Ranging, Live, ListsExact, Listed

LEMMA SubscribeStep ==
  ASSUME IInv, TypeOK', NEW s \in Conn, Subscribe(s)
  PROVE  IInv'
<1> DEFINE t == TopicOf[s]
           p == Append(subscribers[t], s)
<1>1. /\ handler[s] = "connecting" /\ lock = None /\ t \in Topic /\ None \notin Topic
      /\ subscribers' = [subscribers EXCEPT ![t] = p] /\ subscribers \in [Topic -> Seq(Conn)]
      /\ handler' = [handler EXCEPT ![s] = "reading"]
      /\ handler \in [Conn -> {"connecting", "reading", "leaving", "gone"}]
      /\ UNCHANGED <<lock, view, next, expected, got, failed, twice, conn>>
  <2>1. /\ subscribers \in [Topic -> Seq(Conn)]
        /\ handler \in [Conn -> {"connecting", "reading", "leaving", "gone"}]
    BY DEF IInv, TypeOK
  <2>2. t \in Topic /\ None \notin Topic
    BY BrokerAssumption
  <2> QED BY <2>1, <2>2 DEF Subscribe, publishVars
<1>2. /\ Elements(p) = Elements(subscribers[t]) \cup {s}
      /\ Distinct(subscribers[t]) /\ s \notin Elements(subscribers[t]) => Distinct(p)
  BY <1>1, AppendedList
<1> HIDE DEF p
<1>3. Quiet' /\ HealthyInView' /\ Ranging'
  <2>1. lock' = None /\ \A o \in Conn : TopicOf[o] # None
    BY <1>1, BrokerAssumption
  <2>2. HealthyInView' /\ Ranging'
    BY <2>1 DEF HealthyInView, Ranging
  <2>3. Quiet'
    BY <1>1 DEF IInv, Quiet
  <2> QED BY <2>2, <2>3
<1>4. HealthyKept'
  <2> SUFFICES ASSUME NEW o \in Conn, (Live(o))'
               PROVE  o \in Elements(subscribers'[TopicOf[o]])
    BY DEF HealthyKept, Live
  <2>1. CASE o = s
    BY <1>1, <1>2, <2>1
  <2>2. CASE o # s
    <3>1. o \in Elements(subscribers[TopicOf[o]]) /\ TopicOf[o] \in Topic
      BY <1>1, <2>2, BrokerAssumption DEF IInv, HealthyKept, Live
    <3> QED BY <1>1, <1>2, <3>1
  <2> QED BY <2>1, <2>2
<1>5. ListsExact'
  <2> SUFFICES ASSUME ~twice, NEW o \in Topic PROVE Listed(o)'
    BY <1>1 DEF ListsExact
  <2>1. Listed(o) /\ Listed(t) /\ Elements(subscribers[o]) \subseteq Conn
    BY <1>1 DEF IInv, ListsExact, Elements
  <2>2. s \notin Elements(subscribers[o]) /\ s \notin Elements(subscribers[t])
    BY <1>1, <2>1 DEF Listed
  <2>3. CASE o = t
    <3>1. subscribers'[o] = p
      BY <1>1, <2>3
    <3> QED BY <1>1, <1>2, <2>1, <2>2, <2>3, <3>1 DEF Listed
  <2>4. CASE o # t
    <3>1. subscribers'[o] = subscribers[o]
      BY <1>1, <2>4
    <3> QED BY <1>1, <2>1, <2>2, <3>1 DEF Listed
  <2> QED BY <2>3, <2>4
<1> QED BY <1>3, <1>4, <1>5 DEF IInv

LEMMA UnsubscribeStep ==
  ASSUME IInv, TypeOK', NEW s \in Conn, Unsubscribe(s)
  PROVE  IInv'
<1> DEFINE t == TopicOf[s]
           p == Without(subscribers[t], s)
<1>1. /\ handler[s] = "leaving" /\ lock = None /\ t \in Topic /\ None \notin Topic
      /\ subscribers' = [subscribers EXCEPT ![t] = p] /\ subscribers \in [Topic -> Seq(Conn)]
      /\ handler' = [handler EXCEPT ![s] = "gone"]
      /\ handler \in [Conn -> {"connecting", "reading", "leaving", "gone"}]
      /\ UNCHANGED <<lock, view, next, expected, got, failed, twice, conn>>
  <2>1. /\ subscribers \in [Topic -> Seq(Conn)]
        /\ handler \in [Conn -> {"connecting", "reading", "leaving", "gone"}]
    BY DEF IInv, TypeOK
  <2>2. t \in Topic /\ None \notin Topic
    BY BrokerAssumption
  <2> QED BY <2>1, <2>2 DEF Unsubscribe, publishVars
<1>2. /\ Elements(subscribers[t]) \ {s} \subseteq Elements(p)
      /\ Elements(p) \subseteq Elements(subscribers[t])
      /\ Distinct(subscribers[t]) => Distinct(p) /\ s \notin Elements(p)
  BY <1>1, ShortenedList
<1> HIDE DEF p
<1>3. Quiet' /\ HealthyInView' /\ Ranging'
  <2>1. lock' = None /\ \A o \in Conn : TopicOf[o] # None
    BY <1>1, BrokerAssumption
  <2>2. HealthyInView' /\ Ranging'
    BY <2>1 DEF HealthyInView, Ranging
  <2>3. Quiet'
    BY <1>1 DEF IInv, Quiet
  <2> QED BY <2>2, <2>3
<1>4. HealthyKept'
  <2> SUFFICES ASSUME NEW o \in Conn, (Live(o))'
               PROVE  o \in Elements(subscribers'[TopicOf[o]])
    BY DEF HealthyKept, Live
  <2>1. o # s /\ Live(o)
    BY <1>1 DEF Live
  <2>2. o \in Elements(subscribers[TopicOf[o]]) /\ TopicOf[o] \in Topic
    BY <2>1, BrokerAssumption DEF IInv, HealthyKept, Live
  <2> QED BY <1>1, <1>2, <2>1, <2>2
<1>5. ListsExact'
  <2> SUFFICES ASSUME ~twice, NEW o \in Topic PROVE Listed(o)'
    BY <1>1 DEF ListsExact
  <2>1. Listed(o) /\ Listed(t) /\ Elements(subscribers[o]) \subseteq Conn
    BY <1>1 DEF IInv, ListsExact, Elements
  <2>2. CASE o = t
    <3>1. subscribers'[o] = p
      BY <1>1, <2>2
    <3> QED BY <1>1, <1>2, <2>1, <2>2, <3>1 DEF Listed
  <2>3. CASE o # t
    <3>1. subscribers'[o] = subscribers[o] /\ s \notin Elements(subscribers[o])
      BY <1>1, <2>1, <2>3 DEF Listed
    <3> QED BY <1>1, <2>1, <3>1 DEF Listed
  <2> QED BY <2>2, <2>3
<1> QED BY <1>3, <1>4, <1>5 DEF IInv

LEMMA NextIInv == IInv /\ [Next]_vars => IInv'
<1> SUFFICES ASSUME IInv, [Next]_vars PROVE IInv'
  OBVIOUS
<1>1. TypeOK'
  BY TypeStep DEF IInv
<1>2. CASE UNCHANGED vars
  BY <1>1, <1>2, ListsKept DEF vars, Live
<1>3. ASSUME NEW t \in Topic, PublisherStep(t) PROVE IInv'
  BY <1>1, <1>3, StartStep, CallbackOkStep, CallbackFailsStep, EndStep DEF PublisherStep
<1>4. ASSUME NEW s \in Conn, Subscribe(s) PROVE IInv'
  BY <1>1, <1>4, SubscribeStep
<1>5. ASSUME NEW s \in Conn, Unsubscribe(s) PROVE IInv'
  BY <1>1, <1>5, UnsubscribeStep
<1>6. ASSUME NEW s \in Conn, ConnBreaks(s) \/ LeaveLoop(s) \/ PingerStep(s) PROVE IInv'
  <2>1. /\ UNCHANGED <<subscribers, lock, publishVars>>
        /\ \A o \in Conn :
             /\ handler[o] \in {"reading", "leaving"} => handler'[o] \in {"reading", "leaving"}
             /\ handler'[o] = "reading" => handler[o] = "reading"
             /\ conn'[o] = "up" => conn[o] = "up"
    BY <1>6 DEF ConnBreaks, LeaveLoop, PingerStep, PingLock, PingOk, PingFails, IInv, TypeOK
  <2>2. ASSUME NEW o \in Conn, (Live(o))' PROVE Live(o)
    BY <2>1, <2>2 DEF Live
  <2> QED BY <1>1, <2>1, <2>2, ListsKept
<1> QED
  BY <1>2, <1>3, <1>4, <1>5, <1>6 DEF Next, ReadFails, ClientLeaves

-----------------------------------------------------------------------------
\* The parts of IInv hold in every state of a broker with any connections.
THEOREM Invariance == Spec => []IInv
BY InitIInv, NextIInv, PTL DEF Spec

\* Every variable of the broker and of its connections stays in its type.
THEOREM TypeCorrect == Spec => []TypeOK
<1>1. IInv => TypeOK
  BY DEF IInv
<1> QED BY <1>1, Invariance, PTL

\* Publish never drops a live subscriber, wherever in the list others fail.
THEOREM HealthyStay == Spec => []HealthyKept
<1>1. IInv => HealthyKept
  BY DEF IInv
<1> QED BY <1>1, Invariance, PTL

\* A Publish without a failing callback has called all subscribers of the topic.
THEOREM AllServed == Spec => []DeliveredUnlessFailure
<1>1. IInv => DeliveredUnlessFailure
  <2> SUFFICES ASSUME IInv, PublishOver, ~failed, NEW s \in Conn
               PROVE  got[s] > 0 <=> s \in expected
    BY DEF DeliveredUnlessFailure
  <2>1. /\ next = Len(view) + 1 /\ DOMAIN view = 1 .. Len(view) /\ Len(view) \in Nat
        /\ expected = Elements(view)
        /\ got[s] > 0 <=> \E k \in 1 .. next - 1 : view[k] = s
    BY DEF IInv, TypeOK, Ranging, PublishOver
  <2> QED BY <2>1 DEF Elements
<1> QED BY <1>1, Invariance, PTL

\* A connection that is gone is in no list, as long as no Publish saw two failures.
THEOREM GoneForGood == Spec => []UnsubscribeIsFinal
<1>1. IInv => UnsubscribeIsFinal
  BY BrokerAssumption DEF IInv, ListsExact, Listed, UnsubscribeIsFinal
<1> QED BY <1>1, Invariance, PTL

=============================================================================
