------------------------------- MODULE Broker --------------------------------
(***************************************************************************)
(* Live progress of a crawl: internal/services/broker.go together with its *)
(* subscribers, the websocket connections of routes/crawl.go, wsHandler.   *)
(*                                                                         *)
(* A crawl publishes on the topic of its project, from one goroutine.  The *)
(* broker calls every subscriber of the topic while it holds its only      *)
(* lock.  Behind a subscriber are two goroutines that share a connection   *)
(* and its connLock: the handler, which reads until the connection fails   *)
(* and then unsubscribes, and the pinger, which writes a ping per tick.    *)
(***************************************************************************)
EXTENDS Naturals, Sequences

CONSTANTS
  Conn,        \* websocket connections, one subscriber each
  Topic,       \* projects being crawled, one publisher each
  TopicOf,     \* the project a connection watches
  MaxPublish,  \* bound: messages published on a topic
  None

ASSUME BrokerAssumption ==
  /\ TopicOf \in [Conn -> Topic]
  /\ MaxPublish \in Nat
  /\ None \notin Topic

VARIABLES
  subscribers,  \* b.subscribers
  lock,         \* b.lock: the topic whose Publish holds it, or None
  view,         \* Publish's slice of the topic's subscribers, backing array included
  next,         \* Publish's loop index
  published,    \* messages published on each topic so far
  handler,      \* where wsHandler is, for each connection
  conn,         \* whether writes on the connection succeed
  connLock,     \* held by the pinger or free (the callback's hold is one step)
  pinger,       \* where the ping goroutine is
  expected,     \* history: subscribers of the topic when Publish started
  got,          \* history: times each of them got the message
  failed,       \* history: a callback of this Publish returned an error
  twice         \* history: some Publish saw two callbacks fail

publishVars == <<view, next, published, expected, got, failed, twice>>
vars == <<subscribers, lock, publishVars, handler, conn, connLock, pinger>>

Elements(q) == {q[i] : i \in DOMAIN q}

TypeOK ==
  /\ subscribers \in [Topic -> Seq(Conn)]
  /\ lock \in Topic \cup {None}
  /\ view \in Seq(Conn)
  /\ next \in 1 .. Len(view) + 1
  /\ published \in [Topic -> 0 .. MaxPublish]
  /\ handler \in [Conn -> {"connecting", "reading", "leaving", "gone"}]
  /\ conn \in [Conn -> {"up", "broken"}]
  /\ connLock \in [Conn -> {"free", "pinger"}]
  /\ pinger \in [Conn -> {"unborn", "tick", "writing", "exited"}]
  /\ expected \subseteq Conn
  /\ got \in [Conn -> Nat]
  /\ failed \in BOOLEAN
  /\ twice \in BOOLEAN

Init ==
  /\ subscribers = [t \in Topic |-> << >>]
  /\ lock = None
  /\ view = << >>
  /\ next = 1
  /\ published = [t \in Topic |-> 0]
  /\ handler = [s \in Conn |-> "connecting"]
  /\ conn = [s \in Conn |-> "up"]
  /\ connLock = [s \in Conn |-> "free"]
  /\ pinger = [s \in Conn |-> "unborn"]
  /\ expected = {}
  /\ got = [s \in Conn |-> 0]
  /\ failed = FALSE
  /\ twice = FALSE

-----------------------------------------------------------------------------
(* Publish                                                                 *)

\* Mutant of StartPublish: the loop starts a subscriber late.
StartPublish_late(t) ==
  /\ lock = None
  /\ published[t] < MaxPublish
  /\ lock' = t
  /\ published' = [published EXCEPT ![t] = @ + 1]
  /\ view' = subscribers[t]
  /\ next' = 2
  /\ expected' = Elements(subscribers[t])
  /\ UNCHANGED <<got, failed, twice, subscribers, handler, conn, connLock, pinger>>

StartPublish(t) ==
  /\ lock = None
  /\ published[t] < MaxPublish
  /\ lock' = t
  /\ published' = [published EXCEPT ![t] = @ + 1]
  /\ view' = subscribers[t]
  /\ next' = 1
  /\ expected' = Elements(subscribers[t])
  /\ UNCHANGED <<got, failed, twice, subscribers, handler, conn, connLock, pinger>>

\* Mutant of ShiftDown: off by one.
ShiftDown_before(a, i) ==
  [k \in DOMAIN a |-> IF i <= k + 1 /\ k < Len(a) THEN a[k + 1] ELSE a[k]]

\* append(a[:i], a[i+1:]...) in place: the elements behind i move down one,
\* the last one stays where it is too.
ShiftDown(a, i) ==
  [k \in DOMAIN a |-> IF i <= k /\ k < Len(a) THEN a[k + 1] ELSE a[k]]

\* One callback.  It needs connLock; the write works, or fails and from then
\* on every write on this connection fails.
CallbackOk(t) ==
  /\ lock = t
  /\ next <= Len(view)
  /\ connLock[view[next]] = "free"
  /\ conn[view[next]] = "up"
  /\ got' = [got EXCEPT ![view[next]] = @ + 1]
  /\ next' = next + 1
  /\ UNCHANGED <<subscribers, lock, view, published, expected, failed, twice,
                 handler, conn, connLock, pinger>>

CallbackFails(t) ==
  /\ lock = t
  /\ next <= Len(view)
  /\ connLock[view[next]] = "free"
  /\ conn' = [conn EXCEPT ![view[next]] = "broken"]
  /\ view' = ShiftDown(view, next)
  /\ subscribers' = [subscribers EXCEPT ![t] = SubSeq(view', 1, Len(view) - 1)]
  /\ next' = next + 1
  /\ failed' = TRUE
  /\ twice' = (twice \/ failed)
  /\ UNCHANGED <<lock, published, expected, got, handler, connLock, pinger>>

\* Mutant of EndPublish: the lock is not given back.
EndPublish_locked(t) ==
  /\ lock = t
  /\ next > Len(view)
  /\ UNCHANGED vars

\* What was local to the call is gone.
EndPublish(t) ==
  /\ lock = t
  /\ next > Len(view)
  /\ lock' = None
  /\ view' = << >> /\ next' = 1
  /\ expected' = {} /\ got' = [s \in Conn |-> 0] /\ failed' = FALSE
  /\ UNCHANGED <<published, twice, subscribers, handler, conn, connLock, pinger>>

-----------------------------------------------------------------------------
(* wsHandler                                                               *)

\* NewSubscriber, then the ping goroutine starts.
Subscribe(s) ==
  /\ handler[s] = "connecting"
  /\ lock = None
  /\ subscribers' = [subscribers EXCEPT ![TopicOf[s]] = Append(@, s)]
  /\ handler' = [handler EXCEPT ![s] = "reading"]
  /\ pinger' = [pinger EXCEPT ![s] = "tick"]
  /\ UNCHANGED <<lock, publishVars, conn, connLock>>

\* The peer disappears: writes fail from now on, the reader notices later.
ConnBreaks(s) ==
  /\ handler[s] = "reading"
  /\ conn[s] = "up"
  /\ conn' = [conn EXCEPT ![s] = "broken"]
  /\ UNCHANGED <<subscribers, lock, publishVars, handler, connLock, pinger>>

LeaveLoop(s) ==
  /\ handler[s] = "reading"
  /\ handler' = [handler EXCEPT ![s] = "leaving"]
  /\ conn' = [conn EXCEPT ![s] = "broken"]
  /\ UNCHANGED <<subscribers, lock, publishVars, connLock, pinger>>

\* The read deadline passes on a dead connection, or the peer says goodbye;
\* the handler closes the connection in both cases.
ReadFails(s)    == conn[s] = "broken" /\ LeaveLoop(s)
ClientLeaves(s) == conn[s] = "up" /\ LeaveLoop(s)

\* The first occurrence is removed, whatever its position.
Without(q, s) ==
  LET i == CHOOSE k \in DOMAIN q : q[k] = s /\ \A j \in 1 .. k - 1 : q[j] # s
  IN  IF s \in Elements(q)
      THEN SubSeq(q, 1, i - 1) \o SubSeq(q, i + 1, Len(q))
      ELSE q

\* Mutant of Unsubscribe: without the broker's lock.
Unsubscribe_unlocked(s) ==
  /\ handler[s] = "leaving"
  /\ subscribers' = [subscribers EXCEPT ![TopicOf[s]] = Without(@, s)]
  /\ handler' = [handler EXCEPT ![s] = "gone"]
  /\ UNCHANGED <<lock, publishVars, conn, connLock, pinger>>

Unsubscribe(s) ==
  /\ handler[s] = "leaving"
  /\ lock = None
  /\ subscribers' = [subscribers EXCEPT ![TopicOf[s]] = Without(@, s)]
  /\ handler' = [handler EXCEPT ![s] = "gone"]
  /\ UNCHANGED <<lock, publishVars, conn, connLock, pinger>>

-----------------------------------------------------------------------------
(* The ping goroutine                                                      *)

PingLock(s) ==
  /\ pinger[s] = "tick"
  /\ connLock[s] = "free"
  /\ connLock' = [connLock EXCEPT ![s] = "pinger"]
  /\ pinger' = [pinger EXCEPT ![s] = "writing"]
  /\ UNCHANGED <<subscribers, lock, publishVars, handler, conn>>

PingOk(s) ==
  /\ pinger[s] = "writing"
  /\ conn[s] = "up"
  /\ connLock' = [connLock EXCEPT ![s] = "free"]
  /\ pinger' = [pinger EXCEPT ![s] = "tick"]
  /\ UNCHANGED <<subscribers, lock, publishVars, handler, conn>>

\* Mutant of PingFails: the goroutine goes on.
PingFails_continues(s) ==
  /\ pinger[s] = "writing"
  /\ conn' = [conn EXCEPT ![s] = "broken"]
  /\ connLock' = [connLock EXCEPT ![s] = "free"]
  /\ pinger' = [pinger EXCEPT ![s] = "tick"]
  /\ UNCHANGED <<subscribers, lock, publishVars, handler>>

\* The goroutine returns without unlocking.
PingFails(s) ==
  /\ pinger[s] = "writing"
  /\ conn' = [conn EXCEPT ![s] = "broken"]
  /\ pinger' = [pinger EXCEPT ![s] = "exited"]
  /\ UNCHANGED <<subscribers, lock, publishVars, handler, connLock>>

-----------------------------------------------------------------------------
PublisherStep(t) ==
  StartPublish(t) \/ CallbackOk(t) \/ CallbackFails(t) \/ EndPublish(t)

PingerStep(s) == PingLock(s) \/ PingOk(s) \/ PingFails(s)

Next ==
  \/ \E t \in Topic : PublisherStep(t)
  \/ \E s \in Conn :
       \/ Subscribe(s) \/ ConnBreaks(s) \/ ReadFails(s) \/ ClientLeaves(s)
       \/ Unsubscribe(s) \/ PingerStep(s)

Spec == Init /\ [][Next]_vars

\* Goroutines are scheduled, the mutexes serve every waiter eventually (their
\* starvation mode), reads and writes have deadlines and the ticker ticks.
\* Clients need not connect, leave or break.
Fairness ==
  /\ \A t \in Topic : SF_vars(PublisherStep(t))
  /\ \A s \in Conn : /\ WF_vars(ReadFails(s))
                     /\ SF_vars(Unsubscribe(s))
                     /\ WF_vars(PingLock(s))
                     /\ WF_vars(PingOk(s) \/ PingFails(s))

FairSpec == Spec /\ Fairness

-----------------------------------------------------------------------------
(* Properties                                                              *)

\* A live client stays subscribed: removing the subscriber whose callback
\* failed, by index and in the array being ranged over, never hits another.
HealthyKept ==
  \A s \in Conn : handler[s] = "reading" /\ conn[s] = "up"
                    => s \in Elements(subscribers[TopicOf[s]])

PublishOver == lock # None /\ next > Len(view)

\* As long as no callback of this Publish fails, every subscriber of the topic
\* gets the message, whatever earlier failures did to the list.
DeliveredUnlessFailure ==
  PublishOver /\ ~failed => \A s \in Conn : got[s] > 0 <=> s \in expected

\* Once wsHandler is gone its subscriber is not in the list any more, whatever
\* Publish did to the list meanwhile.  Two failures in one Publish break it:
\* the second one stores a list that holds the last subscriber twice, and
\* Unsubscribe removes the first occurrence only.
UnsubscribeIsFinal ==
  ~twice => \A s \in Conn : handler[s] = "gone"
                              => s \notin Elements(subscribers[TopicOf[s]])

\* A Publish ends, unless a ping goroutine took a connLock to its grave.
OrphanLock == \E s \in Conn : pinger[s] = "exited" /\ connLock[s] = "pinger"

PublishReturnsOrOrphan ==
  \A t \in Topic : (lock = t) ~> (lock # t \/ OrphanLock)

\* No ping goroutine outlives a connection for good.
PingerEnds == \A s \in Conn : (handler[s] = "gone") ~> (pinger[s] = "exited")

\* The comment on Publish: "Publishes a message to all subscribers of a
\* topic."  Those that are alive when Publish ends should have got it, once.
DeliveredToAll ==
  PublishOver => \A s \in expected : conn[s] = "up" => got[s] = 1
=============================================================================
