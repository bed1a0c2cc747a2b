--------------------------- MODULE Crawler_proofs ----------------------------
(***************************************************************************)
(* The safety properties of one crawl, for any set of URLs, any number of  *)
(* consumers, any limit and any options.  Consistent (module Crawler) is   *)
(* the inductive invariant; the properties and the refinement follow.      *)
(* The lemmas about its queue come first; last, the rules of a project:    *)
(* the full invariant IInv, what robots.txt blocks, and the limit.         *)
(***************************************************************************)
EXTENDS Crawler, TLAPS, FiniteSetTheorems

-----------------------------------------------------------------------------
(* What the steps of the queue do to its elements and to the active map.   *)

\* Appending a new URL keeps a queue free of duplicates.
LEMMA AppendElements ==
  ASSUME NEW q \in Seq(URL), NEW u \in URL
  PROVE  /\ Append(q, u) \in Seq(URL)
         /\ Append(q, u) # << >>
         /\ Elements(Append(q, u)) = Elements(q) \cup {u}
         /\ Distinct(q) /\ u \notin Elements(q) => Distinct(Append(q, u))
<1> DEFINE p == Append(q, u)
<1>1. /\ p \in Seq(URL) /\ p # << >>
      /\ Len(p) = Len(q) + 1
      /\ DOMAIN q = 1 .. Len(q) /\ DOMAIN p = 1 .. (Len(q) + 1)
      /\ \A i \in 1 .. Len(q) : p[i] = q[i]
      /\ p[Len(q) + 1] = u
      /\ Len(q) \in Nat
  OBVIOUS
<1> HIDE DEF p
<1>2. Elements(p) = Elements(q) \cup {u}
  BY <1>1 DEF Elements
<1>3. Distinct(q) /\ u \notin Elements(q) => Distinct(p)
  BY <1>1 DEF Elements, Distinct
<1> QED BY <1>1, <1>2, <1>3 DEF p

\* Taking the head off a queue without duplicates leaves the other elements.
LEMMA TailElements ==
  ASSUME NEW q \in Seq(URL), q # << >>
  PROVE  /\ Head(q) \in URL
         /\ Head(q) \in Elements(q)
         /\ Tail(q) \in Seq(URL)
         /\ Distinct(q) => /\ Distinct(Tail(q))
                           /\ Elements(Tail(q)) = Elements(q) \ {Head(q)}
<1> DEFINE t == Tail(q)
<1>1. /\ Len(q) \in Nat \ {0}
      /\ t \in Seq(URL)
      /\ Head(q) = q[1] /\ q[1] \in URL
      /\ DOMAIN q = 1 .. Len(q) /\ DOMAIN t = 1 .. (Len(q) - 1)
      /\ \A i \in 1 .. (Len(q) - 1) : t[i] = q[i + 1]
  OBVIOUS
<1> HIDE DEF t
<1>2. Head(q) \in Elements(q)
  BY <1>1 DEF Elements
<1>3. ASSUME Distinct(q) PROVE Distinct(t) /\ Elements(t) = Elements(q) \ {Head(q)}
  <2>1. Distinct(t)
    <3> SUFFICES ASSUME NEW i \in DOMAIN t, NEW j \in DOMAIN t, t[i] = t[j]
                 PROVE  i = j
      BY DEF Distinct
    <3>1. /\ i + 1 \in DOMAIN q /\ j + 1 \in DOMAIN q
          /\ q[i + 1] = q[j + 1]
      BY <1>1
    <3>2. i + 1 = j + 1
      BY <1>3, <3>1 DEF Distinct
    <3> QED BY <1>1, <3>2
  <2>2. Elements(t) \subseteq Elements(q) \ {Head(q)}
    BY <1>1, <1>3 DEF Distinct, Elements
  <2>3. ASSUME NEW x \in Elements(q) \ {Head(q)} PROVE x \in Elements(t)
    <3>1. PICK i \in 1 .. Len(q) : x = q[i] /\ i # 1
      BY <1>1 DEF Elements
    <3>2. i - 1 \in 1 .. (Len(q) - 1) /\ t[i - 1] = x
      BY <1>1, <3>1
    <3> QED BY <1>1, <3>2 DEF Elements
  <2> QED BY <2>1, <2>2, <2>3
<1> QED BY <1>1, <1>2, <1>3 DEF t

\* An empty queue has no elements.
LEMMA EmptyElements ==
  ASSUME NEW q \in Seq(URL)
  PROVE  q = << >> <=> Elements(q) = {}
<1>1. q # << >> => Elements(q) # {}
  BY TailElements
<1>2. q = << >> => Elements(q) = {}
  BY DEF Elements
<1> QED BY <1>1, <1>2

-----------------------------------------------------------------------------
\* The top of manage()'s loop either does nothing or moves one element of the
\* queue to the head and into the active map.
LEMMA TakeFirstMoves ==
  ASSUME NEW q \in Seq(URL), Distinct(q), NEW f \in URL \cup {Nil},
         NEW a \in SUBSET URL, TakeFirst(q, f, a)
  PROVE  /\ QueueTypeOK' <=> open' \in BOOLEAN
         /\ Distinct(queue')
         /\ \/ first' = f /\ active' = a /\ Waiting' = Elements(q)
            \/ /\ f = Nil
               /\ first' \in Elements(q) \cap URL
               /\ active' = a \cup {first'}
               /\ Waiting' = Elements(q) \ {first'}
<1>1. CASE f = Nil /\ q # << >>
  <2>1. first' = Head(q) /\ active' = a \cup {Head(q)} /\ queue' = Tail(q)
    BY <1>1 DEF TakeFirst
  <2>2. /\ Head(q) \in URL /\ Head(q) \in Elements(q)
        /\ Tail(q) \in Seq(URL) /\ Distinct(Tail(q))
        /\ Elements(Tail(q)) = Elements(q) \ {Head(q)}
    BY <1>1, TailElements
  <2> QED BY <1>1, <2>1, <2>2 DEF QueueTypeOK, Waiting
<1>2. CASE ~(f = Nil /\ q # << >>)
  <2>1. first' = f /\ active' = a /\ queue' = q
    BY <1>2 DEF TakeFirst
  <2> QED BY <2>1 DEF QueueTypeOK, Waiting
<1> QED BY <1>1, <1>2

\* Push(u), with u new to the queue, adds u to what is waiting or in the
\* active map, and takes nothing out.
LEMMA PushMoves ==
  ASSUME QueueTypeOK, Distinct(queue), NEW u \in URL, u \notin Waiting, Push(u)
  PROVE  /\ QueueTypeOK' /\ Distinct(queue') /\ open' = open
         /\ \/ first' = first /\ active' = active /\ Waiting' = Waiting \cup {u}
            \/ /\ first = Nil
               /\ first' \in (Waiting \cup {u}) \cap URL
               /\ active' = active \cup {first'}
               /\ Waiting' = (Waiting \cup {u}) \ {first'}
<1> DEFINE q == Append(queue, u)
<1>1. TakeFirst(q, first, active) /\ open' = open /\ open \in BOOLEAN
  BY DEF Push, QueueTypeOK
<1>2. /\ q \in Seq(URL) /\ Elements(q) = Waiting \cup {u} /\ Distinct(q)
      /\ first \in URL \cup {Nil} /\ active \in SUBSET URL
  BY AppendElements DEF QueueTypeOK, Waiting
<1> HIDE DEF q
<1> QED BY <1>1, <1>2, TakeFirstMoves

\* Poll takes the head away and leaves it in the active map.
LEMMA PollMoves ==
  ASSUME QueueTypeOK, Distinct(queue), Poll
  PROVE  /\ QueueTypeOK' /\ Distinct(queue') /\ open' = open
         /\ first # Nil
         /\ \/ first' = Nil /\ active' = active /\ Waiting' = Waiting
            \/ /\ first' \in Waiting \cap URL
               /\ active' = active \cup {first'}
               /\ Waiting' = Waiting \ {first'}
<1>1. /\ TakeFirst(queue, Nil, active) /\ open' = open /\ open \in BOOLEAN
      /\ first # Nil /\ queue \in Seq(URL) /\ active \in SUBSET URL
  BY DEF Poll, QueueTypeOK
<1> QED BY <1>1, TakeFirstMoves DEF Waiting

\* Ack(u) takes u out of the active map.
LEMMA AckMoves ==
  ASSUME QueueTypeOK, Distinct(queue), NEW u \in URL, Ack(u)
  PROVE  /\ QueueTypeOK' /\ Distinct(queue') /\ open' = open
         /\ \/ first' = first /\ active' = active \ {u} /\ Waiting' = Waiting
            \/ /\ first = Nil
               /\ first' \in Waiting \cap URL
               /\ active' = (active \ {u}) \cup {first'}
               /\ Waiting' = Waiting \ {first'}
<1>1. /\ TakeFirst(queue, first, active \ {u}) /\ open' = open /\ open \in BOOLEAN
      /\ first \in URL \cup {Nil}
      /\ queue \in Seq(URL) /\ active \ {u} \in SUBSET URL
  BY DEF Ack, QueueTypeOK
<1> QED BY <1>1, TakeFirstMoves DEF Waiting

-----------------------------------------------------------------------------
(* Which parts of the invariant a step can disturb.                        *)

Inductive == OnePlace /\ Ledger /\ RequestedByHolder

\* A step that moves no URL disturbs none of the bookkeeping.
LEMMA Frame ==
  ASSUME Inductive,
         UNCHANGED <<queue, first, active, storage, cur, poller, held,
                     consumer, item, requests, visited>>
  PROVE  Inductive'
BY DEF Inductive, OnePlace, Ledger, RequestedByHolder, ActiveIsInFlight,
       InFlight, Waiting

\* Looking at a URL for the first time, whether it is then queued or not.
LEMMA Admit ==
  ASSUME TypeOK, Inductive, NEW u \in URL, u \notin storage,
         storage' = storage \cup {u},
         Push(u) \/ UNCHANGED queueVars,
         UNCHANGED <<cur, poller, held, consumer, item, requests, visited>>
  PROVE  QueueTypeOK' /\ open' = open /\ storage' \subseteq URL /\ Inductive'
<1>1. u \notin Waiting /\ u \notin active /\ u \notin visited
  BY DEF Inductive, Ledger
<1>2. u # Nil /\ u \notin InFlight
  BY <1>1, NilAssumption DEF Inductive, Ledger, ActiveIsInFlight
<1>3. QueueTypeOK /\ Distinct(queue) /\ storage' \subseteq URL
  BY DEF TypeOK, Inductive, OnePlace
<1>4. CASE UNCHANGED queueVars
  <2>1. QueueTypeOK' /\ open' = open /\ Waiting' = Waiting
    BY <1>3, <1>4 DEF QueueTypeOK, queueVars, Waiting
  <2>2. OnePlace'
    BY <1>4 DEF queueVars, Inductive, OnePlace, Waiting
  <2>3. Ledger'
    BY <1>4 DEF queueVars, Inductive, Ledger, Waiting, ActiveIsInFlight, InFlight
  <2>4. RequestedByHolder'
    BY <1>4, <2>1 DEF queueVars, Inductive, RequestedByHolder
  <2> QED BY <1>3, <2>1, <2>2, <2>3, <2>4 DEF Inductive
<1>5. CASE Push(u)
  <2>1. /\ QueueTypeOK' /\ Distinct(queue') /\ open' = open
        /\ \/ first' = first /\ active' = active /\ Waiting' = Waiting \cup {u}
           \/ /\ first = Nil
              /\ first' \in (Waiting \cup {u}) \cap URL
              /\ active' = active \cup {first'}
              /\ Waiting' = (Waiting \cup {u}) \ {first'}
    BY <1>1, <1>3, <1>5, PushMoves
  <2>2. first' # first => first = Nil /\ first' # Nil /\ first' \notin InFlight
    BY <1>1, <1>2, <2>1, NilAssumption
      DEF Inductive, OnePlace, Ledger, ActiveIsInFlight
  <2>3. OnePlace'
    BY <1>1, <1>2, <2>1, <2>2 DEF Inductive, OnePlace, InFlight
  <2>4. Ledger'
    <3>1. \/ InFlight' = InFlight /\ active' = active
          \/ InFlight' = InFlight \cup {first'} /\ active' = active \cup {first'}
      <4>1. CASE first' = first /\ active' = active
        BY <4>1 DEF InFlight
      <4>2. CASE first = Nil /\ first' \in URL /\ active' = active \cup {first'}
        BY <4>2, NilAssumption DEF InFlight
      <4> QED BY <2>1, <4>1, <4>2
    <3>2. ActiveIsInFlight'
      BY <3>1 DEF Inductive, Ledger, ActiveIsInFlight
    <3>3. /\ (Waiting \cup active \cup visited \subseteq storage)'
          /\ ((Waiting \cup active) \cap visited = {})'
      BY <1>1, <2>1 DEF Inductive, Ledger
    <3> QED BY <3>2, <3>3 DEF Ledger
  <2>5. RequestedByHolder'
    <3>1. requests[u] = 0
      BY DEF Inductive, RequestedByHolder
    <3>2. Waiting' \cup {first'} \subseteq Waiting \cup {first, u}
      BY <2>1
    <3> QED BY <3>1, <3>2 DEF Inductive, RequestedByHolder
  <2> QED BY <1>3, <2>1, <2>3, <2>4, <2>5 DEF Inductive
<1> QED BY <1>4, <1>5

-----------------------------------------------------------------------------
\* The initial state.
LEMMA InitConsistent == Init => Consistent
<1> SUFFICES ASSUME Init PROVE Consistent
  OBVIOUS
<1> USE DEF Init, QueueInit
<1>1. TypeOK
  <2>1. QueueTypeOK
    BY DEF QueueTypeOK
  <2>2. requests \in [URL -> Nat] /\ item \in [Consumer -> URL \cup {Nil}]
    OBVIOUS
  <2> QED BY <2>1, <2>2 DEF TypeOK, MainPC
<1>2. Waiting = {} /\ InFlight = {}
  BY DEF Waiting, Elements, InFlight
<1>3. OnePlace
  BY <1>2 DEF OnePlace, Distinct
<1>4. Ledger
  BY <1>2 DEF Ledger, ActiveIsInFlight
<1>5. RequestedByHolder
  BY <1>2 DEF RequestedByHolder
<1>6. Control
  BY DEF Control, BeforeLoop, AfterLoop
<1>7. LimitCount
  BY CrawlerAssumption, FS_EmptySet DEF LimitCount
<1> QED BY <1>1, <1>3, <1>4, <1>5, <1>6, <1>7 DEF Consistent

\* Steps of main that only move main, load the sitemap list or cancel the
\* context.
LEMMA QuietStep ==
  ASSUME Consistent,
         \/ SetupSitemaps \/ Preload \/ Refill \/ SitemapQueued
         \/ ReceiveClosed \/ CallbackReturn \/ CallbackPanic \/ Decide
         \/ CancelContext \/ Stop
  PROVE  Consistent'
<1> USE DEF SetupSitemaps, Preload, Refill, LoadSitemap, SitemapQueued,
            ReceiveClosed, CallbackReturn, CallbackPanic, Decide,
            CancelContext, Stop, Goto, queueVars, mainVars, pollerVars,
            consumerVars, historyVars
<1>1. /\ UNCHANGED <<queue, first, active, open, storage, crawled, cur>>
      /\ UNCHANGED <<poller, held, respOpen, consumer, item, requests, visited>>
  OBVIOUS
<1>2. /\ sitemapStorage' \subseteq URL /\ todo' \subseteq URL
      /\ sitemapLoaded' \in BOOLEAN /\ cancelled' \in BOOLEAN
      /\ panicked' \in BOOLEAN /\ main' \in MainPC
  BY CrawlerAssumption DEF Consistent, TypeOK, MainPC
<1>3. TypeOK'
  BY <1>1, <1>2 DEF Consistent, TypeOK, QueueTypeOK
<1>4. Inductive'
  BY <1>1, Frame DEF Consistent, Inductive
<1>5. Control'
  <2>1. /\ cancelled => cancelled'
        /\ (main # "ack" /\ main' # "ack") \/ main' = main
        /\ main' \in BeforeLoop => main \in BeforeLoop
        /\ main \in BeforeLoop => main' \in BeforeLoop
        /\ main \in AfterLoop => main' \in AfterLoop
        /\ main' \in {"done", "returned"} =>
             main \in {"done", "returned"} \/ cancelled'
        /\ main' = "returned" <=> main = "returned"
    BY DEF Consistent, Control, BeforeLoop, AfterLoop
  <2> QED BY <1>1, <2>1 DEF Consistent, Control, ConsumersDone
<1>6. LimitCount'
  <2>1. main' \in {"recv", "ack"} => main \in {"recv", "ack"} \/ crawled < CrawlLimit
    BY CrawlerAssumption DEF LimitHit, Consistent, TypeOK
  <2> QED BY <1>1, <2>1 DEF Consistent, LimitCount
<1> QED BY <1>3, <1>4, <1>5, <1>6 DEF Consistent, Inductive

\* The three places that look at a URL for the first time.
LEMMA AdmitStep ==
  ASSUME Consistent,
         \/ AddRoot
         \/ \E u \in URL : QueueSitemapURL(u)
         \/ \E u \in URL, i \in BOOLEAN : CallbackRequest(u, i)
  PROVE  Consistent'
<1> USE DEF queueVars, mainVars, pollerVars, consumerVars, historyVars
<1>1. /\ UNCHANGED <<crawled, cur, cancelled, poller, held, respOpen>>
      /\ UNCHANGED <<consumer, item, requests, visited, panicked>>
      /\ UNCHANGED <<sitemapStorage, sitemapLoaded>>
      /\ todo' \subseteq todo
      /\ main' = main \/ (main = "init" /\ main' = "setup")
      /\ \/ UNCHANGED <<queue, first, active, open, storage>>
         \/ \E u \in URL : /\ u \notin storage
                           /\ storage' = storage \cup {u}
                           /\ Push(u) \/ UNCHANGED queueVars
  BY CrawlerAssumption
     DEF AddRoot, QueueSitemapURL, CallbackRequest, AddRequest, Goto
<1>2. QueueTypeOK' /\ open' = open /\ storage' \subseteq URL /\ Inductive'
  <2>1. CASE UNCHANGED <<queue, first, active, open, storage>>
    BY <1>1, <2>1, Frame DEF Consistent, TypeOK, QueueTypeOK, Inductive
  <2>2. CASE \E u \in URL : /\ u \notin storage
                            /\ storage' = storage \cup {u}
                            /\ Push(u) \/ UNCHANGED queueVars
    BY <1>1, <2>2, Admit DEF Consistent, Inductive
  <2> QED BY <1>1, <2>1, <2>2
<1>3. TypeOK'
  BY <1>1, <1>2 DEF Consistent, TypeOK, MainPC
<1>4. Control'
  BY <1>1, <1>2 DEF Consistent, Control, ConsumersDone, BeforeLoop, AfterLoop
<1>5. LimitCount'
  BY <1>1 DEF Consistent, LimitCount
<1> QED BY <1>2, <1>3, <1>4, <1>5 DEF Consistent, Inductive

\* The goroutines start, or the crawl ends at once; nothing is in flight yet.
LEMMA BeginStep ==
  ASSUME Consistent, Begin
  PROVE  Consistent'
<1> USE DEF Begin, Goto, queueVars, mainVars, pollerVars, consumerVars, historyVars
<1>1. /\ main = "begin" /\ poller = "unborn" /\ crawled = 0 /\ cur = Nil
      /\ \A c \in Consumer : item[c] = Nil
      /\ UNCHANGED <<queue, first, active, open, storage, cur, held, item>>
      /\ UNCHANGED <<requests, visited, crawled, cancelled, respOpen>>
  BY DEF Consistent, Control, LimitCount, BeforeLoop
<1>2. /\ poller' \in {"unborn", "poll"}
      /\ poller' = "unborn" => main' = "cancel" /\ UNCHANGED consumer
      /\ poller' = "poll" => main' = "recv" /\ consumer' = [c \in Consumer |-> "select"]
  BY <1>1
<1>3. TypeOK'
  BY <1>1, <1>2 DEF Consistent, TypeOK, QueueTypeOK, MainPC
<1>4. OnePlace' /\ RequestedByHolder'
  BY <1>1 DEF Consistent, OnePlace, RequestedByHolder, Waiting
<1>5. Ledger'
  BY <1>1, <1>2 DEF Consistent, Ledger, ActiveIsInFlight, InFlight, Waiting
<1>6. Control'
  <2>1. \A c \in Consumer : consumer'[c] \in {"unborn", "select"}
    BY <1>1, <1>2 DEF Consistent, Control
  <2>2. respOpen' /\ open'
    BY <1>1 DEF Consistent, Control
  <2> QED BY <1>1, <1>2, <2>1, <2>2 DEF Consistent, Control, BeforeLoop, AfterLoop
<1>7. LimitCount'
  BY <1>1, <1>2, CrawlerAssumption DEF Consistent, LimitCount
<1> QED BY <1>3, <1>4, <1>5, <1>6, <1>7 DEF Consistent

\* A response changes hands; the URL stays active.
LEMMA ReceiveStep ==
  ASSUME Consistent, NEW c \in Consumer, Receive(c)
  PROVE  Consistent'
<1> USE DEF Receive, Goto, queueVars, mainVars, pollerVars, consumerVars, historyVars
<1>1. /\ main = "recv" /\ main' = "ack" /\ cur = Nil /\ cur' = item[c]
      /\ consumer[c] = "respond" /\ item[c] # Nil /\ item[c] \in URL
      /\ consumer' = [consumer EXCEPT ![c] = "select"]
      /\ item' = [item EXCEPT ![c] = Nil]
      /\ UNCHANGED <<queue, first, active, open, storage, held, requests>>
      /\ UNCHANGED <<visited, crawled, cancelled, respOpen, poller>>
  BY DEF Consistent, Control, TypeOK
<1>2. TypeOK'
  BY <1>1 DEF Consistent, TypeOK, QueueTypeOK, MainPC
<1>3. \A d \in Consumer : /\ item'[d] = IF d = c THEN Nil ELSE item[d]
                          /\ consumer'[d] = IF d = c THEN "select" ELSE consumer[d]
  BY <1>1 DEF Consistent, TypeOK
<1>4. OnePlace'
  BY <1>1, <1>3 DEF Consistent, OnePlace, Waiting
<1>5. InFlight' = InFlight
  BY <1>1, <1>3 DEF InFlight
<1>6. Ledger'
  BY <1>1, <1>5 DEF Consistent, Ledger, ActiveIsInFlight, Waiting
<1>7. RequestedByHolder'
  <2>1. requests[item[c]] = 1
    BY <1>1 DEF Consistent, RequestedByHolder
  <2> QED BY <1>1, <1>3, <2>1 DEF Consistent, RequestedByHolder, Waiting
<1>8. Control'
  <2>1. respOpen /\ poller # "unborn"
    BY <1>1 DEF Consistent, Control, ConsumersDone
  <2> QED BY <1>1, <1>3, <2>1 DEF Consistent, Control, BeforeLoop, AfterLoop
<1>9. LimitCount'
  BY <1>1 DEF Consistent, LimitCount
<1> QED BY <1>2, <1>4, <1>6, <1>7, <1>8, <1>9 DEF Consistent

\* The acknowledged URL leaves the active map and becomes visited.
LEMMA AckStep ==
  ASSUME Consistent, AckResponse
  PROVE  Consistent'
<1> USE DEF AckResponse, Goto, pollerVars, consumerVars
<1>1. /\ main = "ack" /\ main' = "callback" /\ cur' = Nil
      /\ Ack(cur) /\ crawled' = crawled + 1 /\ visited' = visited \cup {cur}
      /\ UNCHANGED <<storage, sitemapStorage, sitemapLoaded, todo, cancelled>>
      /\ UNCHANGED <<poller, held, respOpen, consumer, item, requests, panicked>>
  OBVIOUS
<1>2. cur \in URL /\ cur # Nil /\ cur \in active
  BY <1>1 DEF Consistent, Control, TypeOK, Ledger, ActiveIsInFlight, InFlight
<1>3. /\ cur \notin Waiting /\ cur \notin visited
      /\ cur \notin {first, held} /\ \A c \in Consumer : item[c] # cur
  BY <1>2 DEF Consistent, OnePlace, Ledger
<1>4. /\ QueueTypeOK' /\ Distinct(queue') /\ open' = open
      /\ \/ first' = first /\ active' = active \ {cur} /\ Waiting' = Waiting
         \/ /\ first = Nil
            /\ first' \in Waiting \cap URL
            /\ active' = (active \ {cur}) \cup {first'}
            /\ Waiting' = Waiting \ {first'}
  BY <1>1, <1>2, AckMoves DEF Consistent, TypeOK, OnePlace
<1>5. first' # first => first = Nil /\ first' # Nil /\ first' \notin active
  BY <1>4, NilAssumption DEF Consistent, OnePlace
<1>6. first' # first => first' \notin InFlight /\ first' # cur
  BY <1>2, <1>5 DEF Consistent, Ledger, ActiveIsInFlight
<1>7. TypeOK'
  BY <1>1, <1>2, <1>4 DEF Consistent, TypeOK, MainPC
<1>8. OnePlace'
  BY <1>1, <1>3, <1>4, <1>5, <1>6 DEF Consistent, OnePlace, InFlight
<1>9. Ledger'
  <2>1. \/ InFlight' = InFlight \ {cur} /\ active' = active \ {cur}
        \/ /\ InFlight' = (InFlight \ {cur}) \cup {first'}
           /\ active' = (active \ {cur}) \cup {first'}
    <3>1. CASE first' = first /\ active' = active \ {cur}
      BY <1>1, <1>3, <3>1 DEF InFlight
    <3>2. CASE /\ first = Nil /\ first' \in URL
               /\ active' = (active \ {cur}) \cup {first'}
      BY <1>1, <1>3, <3>2, NilAssumption DEF InFlight
    <3> QED BY <1>4, <3>1, <3>2
  <2>2. ActiveIsInFlight'
    BY <1>1, <2>1 DEF Consistent, Ledger, ActiveIsInFlight
  <2>3. /\ (Waiting \cup active \cup visited \subseteq storage)'
        /\ ((Waiting \cup active) \cap visited = {})'
    BY <1>1, <1>2, <1>3, <1>4 DEF Consistent, Ledger
  <2> QED BY <2>2, <2>3 DEF Ledger
<1>10. RequestedByHolder'
  <2>1. requests[cur] = 1
    BY <1>2 DEF Consistent, RequestedByHolder
  <2>2. Waiting' \cup {first'} \subseteq Waiting \cup {first}
    BY <1>4
  <2> QED BY <1>1, <2>1, <2>2 DEF Consistent, RequestedByHolder
<1>11. Control'
  BY <1>1, <1>4 DEF Consistent, Control, ConsumersDone, BeforeLoop, AfterLoop
<1>12. LimitCount'
  <2>1. IsFiniteSet(visited') /\ Cardinality(visited') = Cardinality(visited) + 1
    BY <1>1, <1>3, FS_AddElement DEF Consistent, LimitCount
  <2>2. crawled < CrawlLimit /\ crawled \in Nat /\ CrawlLimit \in Nat
    BY <1>1, CrawlerAssumption DEF Consistent, LimitCount, TypeOK
  <2>3. poller # "unborn"
    BY <1>1 DEF Consistent, Control, BeforeLoop, AfterLoop
  <2> QED BY <1>1, <2>1, <2>2, <2>3 DEF Consistent, LimitCount
<1> QED BY <1>7, <1>8, <1>9, <1>10, <1>11, <1>12 DEF Consistent

\* Closing the queue: the context is cancelled already.
LEMMA QueueDoneStep ==
  ASSUME Consistent, QueueDone
  PROVE  Consistent'
<1> USE DEF QueueDone, Done, Goto, pollerVars, consumerVars, historyVars
<1>1. TypeOK'
  BY DEF Consistent, TypeOK, QueueTypeOK, MainPC
<1>2. Inductive'
  BY Frame DEF Consistent, Inductive
<1>3. Control'
  BY DEF Consistent, Control, ConsumersDone, BeforeLoop, AfterLoop
<1>4. LimitCount'
  BY DEF Consistent, LimitCount
<1> QED BY <1>1, <1>2, <1>3, <1>4 DEF Consistent, Inductive

-----------------------------------------------------------------------------
\* The poller takes the head of the queue, or nil from a closed queue.
LEMMA PollerPollStep ==
  ASSUME Consistent, PollerPoll
  PROVE  Consistent'
<1> USE DEF PollerPoll, mainVars, consumerVars, historyVars
<1>1. /\ poller = "poll" /\ poller' = "offer" /\ held = Nil
      /\ UNCHANGED <<storage, sitemapStorage, sitemapLoaded, crawled, main, cur>>
      /\ UNCHANGED <<todo, cancelled, respOpen, consumer, item, requests>>
      /\ UNCHANGED <<visited, panicked>>
  BY DEF Consistent, Control
<1>2. CASE Poll /\ held' = first
  <2>1. /\ QueueTypeOK' /\ Distinct(queue') /\ open' = open
        /\ first # Nil
        /\ \/ first' = Nil /\ active' = active /\ Waiting' = Waiting
           \/ /\ first' \in Waiting \cap URL
              /\ active' = active \cup {first'}
              /\ Waiting' = Waiting \ {first'}
    BY <1>2, PollMoves DEF Consistent, TypeOK, OnePlace
  <2>2. first' # Nil => first' \notin active
    BY <2>1 DEF Consistent, OnePlace
  <2>3. first' # Nil => first' \notin InFlight
    BY <2>2 DEF Consistent, Ledger, ActiveIsInFlight
  <2>4. TypeOK'
    BY <1>1, <1>2, <2>1 DEF Consistent, TypeOK, QueueTypeOK
  <2>5. OnePlace'
    BY <1>1, <1>2, <2>1, <2>2, <2>3 DEF Consistent, OnePlace, InFlight
  <2>6. Ledger'
    <3>1. \/ InFlight' = InFlight /\ active' = active
          \/ InFlight' = InFlight \cup {first'} /\ active' = active \cup {first'}
      <4>1. CASE first' = Nil /\ active' = active
        BY <1>1, <1>2, <2>1, <4>1 DEF InFlight
      <4>2. CASE first' \in URL /\ active' = active \cup {first'}
        BY <1>1, <1>2, <2>1, <4>2, NilAssumption DEF InFlight
      <4> QED BY <2>1, <4>1, <4>2
    <3>2. ActiveIsInFlight'
      BY <1>1, <3>1 DEF Consistent, Ledger, ActiveIsInFlight
    <3>3. /\ (Waiting \cup active \cup visited \subseteq storage)'
          /\ ((Waiting \cup active) \cap visited = {})'
      BY <1>1, <2>1 DEF Consistent, Ledger
    <3> QED BY <3>2, <3>3 DEF Ledger
  <2>7. RequestedByHolder'
    <3>1. Waiting' \cup {first', held'} \subseteq Waiting \cup {first, held}
      BY <1>1, <1>2, <2>1
    <3> QED BY <1>1, <3>1 DEF Consistent, RequestedByHolder
  <2>8. Control'
    BY <1>1, <1>2, <2>1 DEF Consistent, Control, ConsumersDone, BeforeLoop, AfterLoop
  <2>9. LimitCount'
    BY <1>1 DEF Consistent, LimitCount
  <2> QED BY <2>4, <2>5, <2>6, <2>7, <2>8, <2>9 DEF Consistent
<1>3. CASE ~open /\ held' = Nil /\ UNCHANGED queueVars
  <2> USE DEF queueVars
  <2>1. cancelled
    BY <1>3 DEF Consistent, Control
  <2>2. TypeOK'
    BY <1>1, <1>3 DEF Consistent, TypeOK, QueueTypeOK
  <2>3. OnePlace' /\ RequestedByHolder'
    BY <1>1, <1>3 DEF Consistent, OnePlace, RequestedByHolder, Waiting
  <2>4. Ledger'
    BY <1>1, <1>3 DEF Consistent, Ledger, ActiveIsInFlight, InFlight, Waiting
  <2>5. Control'
    BY <1>1, <1>3, <2>1 DEF Consistent, Control, ConsumersDone, BeforeLoop, AfterLoop
  <2>6. LimitCount'
    BY <1>1 DEF Consistent, LimitCount
  <2> QED BY <2>2, <2>3, <2>4, <2>5, <2>6 DEF Consistent
<1> QED BY <1>2, <1>3

\* A request changes hands; with the context alive it is not nil.
LEMMA DispatchStep ==
  ASSUME Consistent, NEW c \in Consumer, Dispatch(c)
  PROVE  Consistent'
<1> USE DEF Dispatch, queueVars, mainVars, historyVars
<1>1. /\ poller = "offer" /\ poller' = "poll" /\ held # Nil /\ held' = Nil
      /\ consumer[c] = "select" /\ item[c] = Nil /\ held \in URL
      /\ UNCHANGED <<queue, first, active, open, storage, cur, main, requests>>
      /\ UNCHANGED <<visited, crawled, cancelled, respOpen, sitemapStorage>>
      /\ UNCHANGED <<sitemapLoaded, todo, panicked>>
  BY DEF Consistent, Control, TypeOK
<1>2. \A d \in Consumer :
         /\ item'[d] = IF d = c THEN held ELSE item[d]
         /\ consumer'[d] = IF d = c THEN "request" ELSE consumer[d]
  BY DEF Consistent, TypeOK
<1>3. TypeOK'
  BY <1>1 DEF Consistent, TypeOK, QueueTypeOK
<1>4. OnePlace'
  BY <1>1, <1>2 DEF Consistent, OnePlace, Waiting
<1>5. InFlight' = InFlight
  BY <1>1, <1>2 DEF InFlight
<1>6. Ledger'
  BY <1>1, <1>5 DEF Consistent, Ledger, ActiveIsInFlight, Waiting
<1>7. RequestedByHolder'
  <2>1. requests[held] = 0
    BY <1>1 DEF Consistent, RequestedByHolder
  <2> QED BY <1>1, <1>2, <2>1, NilAssumption
      DEF Consistent, RequestedByHolder, Waiting, TypeOK
<1>8. Control'
  <2>1. respOpen
    BY <1>1 DEF Consistent, Control
  <2> QED BY <1>1, <1>2, <2>1 DEF Consistent, Control, BeforeLoop, AfterLoop
<1>9. LimitCount'
  BY <1>1 DEF Consistent, LimitCount
<1> QED BY <1>3, <1>4, <1>6, <1>7, <1>8, <1>9 DEF Consistent

\* The poller gives up: the URL it held stays in the active map.
LEMMA PollerStopStep ==
  ASSUME Consistent, PollerStop
  PROVE  Consistent'
<1> USE DEF PollerStop, queueVars, mainVars, consumerVars, historyVars
<1>1. TypeOK'
  BY DEF Consistent, TypeOK, QueueTypeOK
<1>2. OnePlace'
  BY DEF Consistent, OnePlace, Waiting
<1>3. Ledger'
  BY DEF Consistent, Ledger, ActiveIsInFlight, InFlight, Waiting
<1>4. RequestedByHolder'
  BY NilAssumption DEF Consistent, RequestedByHolder, Waiting, TypeOK
<1>5. Control'
  BY DEF Consistent, Control, ConsumersDone, BeforeLoop, AfterLoop
<1>6. LimitCount'
  BY DEF Consistent, LimitCount
<1> QED BY <1>1, <1>2, <1>3, <1>4, <1>5, <1>6 DEF Consistent

\* respStream is closed after the last consumer has left.
LEMMA CloseStreamsStep ==
  ASSUME Consistent, CloseStreams
  PROVE  Consistent'
<1> USE DEF CloseStreams, queueVars, mainVars, consumerVars, historyVars
<1>1. TypeOK'
  BY DEF Consistent, TypeOK, QueueTypeOK
<1>2. OnePlace' /\ RequestedByHolder'
  BY DEF Consistent, OnePlace, RequestedByHolder, Waiting
<1>3. Ledger'
  BY DEF Consistent, Ledger, ActiveIsInFlight, InFlight, Waiting
<1>4. Control'
  BY DEF Consistent, Control, ConsumersDone, BeforeLoop, AfterLoop
<1>5. LimitCount'
  BY DEF Consistent, LimitCount
<1> QED BY <1>1, <1>2, <1>3, <1>4, <1>5 DEF Consistent

\* The one step that requests a URL: nobody has requested it before.
LEMMA RequestStep ==
  ASSUME Consistent, NEW c \in Consumer, Request(c)
  PROVE  Consistent'
<1> USE DEF Request, queueVars, mainVars, pollerVars, historyVars
<1>1. /\ item[c] \in URL /\ item[c] # Nil /\ requests[item[c]] = 0
      /\ consumer[c] = "request"
      /\ UNCHANGED <<queue, first, active, open, storage, cur, main, held>>
      /\ UNCHANGED <<item, visited, crawled, cancelled, respOpen, poller>>
      /\ UNCHANGED <<sitemapStorage, sitemapLoaded, todo, panicked>>
  BY DEF Consistent, TypeOK, RequestedByHolder
<1>2. /\ \A d \in Consumer :
           consumer'[d] = IF d = c THEN "respond" ELSE consumer[d]
      /\ \A u \in URL : requests'[u] = IF u = item[c] THEN 1 ELSE requests[u]
  BY <1>1 DEF Consistent, TypeOK
<1>3. TypeOK'
  BY <1>1 DEF Consistent, TypeOK, QueueTypeOK
<1>4. OnePlace'
  BY <1>1 DEF Consistent, OnePlace, Waiting
<1>5. Ledger'
  BY <1>1 DEF Consistent, Ledger, ActiveIsInFlight, InFlight, Waiting
<1>6. RequestedByHolder'
  <2>1. item[c] \in active /\ item[c] \in storage
    BY <1>1 DEF Consistent, Ledger, ActiveIsInFlight, InFlight
  <2>2. /\ item[c] \notin Waiting \cup {first, held, cur} \cup visited
        /\ \A d \in Consumer : d # c => item[d] # item[c]
    BY <1>1, <2>1 DEF Consistent, OnePlace, Ledger
  <2>3. \A d \in Consumer : item[d] \in URL \cup {Nil}
    BY DEF Consistent, TypeOK
  <2>4. visited \subseteq URL /\ cur \in URL \cup {Nil}
    BY DEF Consistent, TypeOK
  <2>5. Waiting' = Waiting
    BY <1>1 DEF Waiting
  <2> QED BY <1>1, <1>2, <2>1, <2>2, <2>3, <2>4, <2>5 DEF Consistent, RequestedByHolder
<1>7. Control'
  <2>1. respOpen /\ poller # "unborn"
    BY <1>1 DEF Consistent, Control, ConsumersDone
  <2> QED BY <1>1, <1>2, <2>1 DEF Consistent, Control, BeforeLoop, AfterLoop
<1>8. LimitCount'
  BY <1>1 DEF Consistent, LimitCount
<1> QED BY <1>3, <1>4, <1>5, <1>6, <1>7, <1>8 DEF Consistent

\* A consumer that leaves holds no request.
LEMMA ConsumerStopStep ==
  ASSUME Consistent, NEW c \in Consumer, ConsumerStop(c)
  PROVE  Consistent'
<1> USE DEF ConsumerStop, queueVars, mainVars, pollerVars, historyVars
<1>1. /\ consumer[c] = "select" /\ item[c] = Nil
      /\ \A d \in Consumer :
           consumer'[d] = IF d = c THEN "exited" ELSE consumer[d]
  BY DEF Consistent, Control, TypeOK
<1>2. TypeOK'
  BY DEF Consistent, TypeOK, QueueTypeOK
<1>3. OnePlace'
  BY DEF Consistent, OnePlace, Waiting
<1>4. Ledger'
  BY DEF Consistent, Ledger, ActiveIsInFlight, InFlight, Waiting
<1>5. RequestedByHolder'
  BY <1>1 DEF Consistent, RequestedByHolder, Waiting
<1>6. Control'
  BY <1>1 DEF Consistent, Control, ConsumersDone, BeforeLoop, AfterLoop
<1>7. LimitCount'
  BY DEF Consistent, LimitCount
<1> QED BY <1>2, <1>3, <1>4, <1>5, <1>6, <1>7 DEF Consistent

-----------------------------------------------------------------------------
\* Every step keeps the invariant.
LEMMA NextConsistent == Consistent /\ [Next]_vars => Consistent'
<1> SUFFICES ASSUME Consistent, [Next]_vars PROVE Consistent'
  OBVIOUS
<1>1. CASE UNCHANGED vars
  <2>1. /\ UNCHANGED <<queue, first, active, open, storage, cur, main, held>>
        /\ UNCHANGED <<item, visited, crawled, cancelled, respOpen, poller>>
        /\ UNCHANGED <<sitemapStorage, sitemapLoaded, todo, panicked>>
        /\ UNCHANGED <<consumer, requests>>
    BY <1>1 DEF vars, queueVars, mainVars, pollerVars, consumerVars, historyVars
  <2>2. TypeOK'
    BY <2>1 DEF Consistent, TypeOK, QueueTypeOK
  <2>3. Inductive'
    BY <2>1, Frame DEF Consistent, Inductive
  <2>4. Control' /\ LimitCount'
    BY <2>1 DEF Consistent, Control, LimitCount, ConsumersDone
  <2> QED BY <2>2, <2>3, <2>4 DEF Consistent, Inductive
<1>2. CASE MainStep
  BY <1>2, QuietStep, AdmitStep, BeginStep, ReceiveStep, AckStep, QueueDoneStep
     DEF MainStep
<1>3. CASE PollerStep
  BY <1>3, PollerPollStep, PollerStopStep, CloseStreamsStep, DispatchStep
     DEF PollerStep
<1>4. CASE \E c \in Consumer : ConsumerStep(c)
  BY <1>4, RequestStep, ConsumerStopStep DEF ConsumerStep
<1>5. CASE Stop
  BY <1>5, QuietStep
<1> QED BY <1>1, <1>2, <1>3, <1>4, <1>5 DEF Next

\* Consistent is an invariant of every crawl.
THEOREM Invariance == Spec => []Consistent
<1> QED BY InitConsistent, NextConsistent, PTL DEF Spec

\* Every variable stays in its type.
THEOREM TypeCorrect == Spec => []TypeOK
<1>1. Consistent => TypeOK
  BY DEF Consistent
<1> QED BY <1>1, Invariance, PTL

\* No URL is requested twice, and only requested URLs reach the callback.
THEOREM RequestedAtMostOnce == Spec => []AtMostOnce
<1>1. Consistent => AtMostOnce
  BY DEF Consistent, RequestedByHolder, AtMostOnce
<1> QED BY <1>1, Invariance, PTL

\* The active map is exact, so that Active() can be trusted.
THEOREM ActiveExact == Spec => []ActiveIsInFlight
<1>1. Consistent => ActiveIsInFlight
  BY DEF Consistent, Ledger
<1> QED BY <1>1, Invariance, PTL

\* The nil a closed queue answers never reaches a consumer, and no consumer
\* sends on a closed channel.
THEOREM NoCrash == Spec => []NoGoroutineCrash
<1>1. Consistent => NoGoroutineCrash
  BY DEF Consistent, Control, ConsumersDone, NoGoroutineCrash
<1> QED BY <1>1, Invariance, PTL

-----------------------------------------------------------------------------
(* The crawl implements CrawlFrontier.                                     *)

Pending == Waiting \cup active
Running == main \notin AfterLoop
IsCut   == cancelled \/ panicked

\* A URL looked at for the first time is discovered, and pending if queued.
LEMMA AdmitDiscovers ==
  ASSUME Consistent, NEW u \in URL, u \notin storage, storage' = storage \cup {u},
         Push(u) \/ UNCHANGED queueVars
  PROVE  Pending' \in {Pending, Pending \cup {u}}
<1>1. QueueTypeOK /\ Distinct(queue) /\ u \notin Waiting
  BY DEF Consistent, TypeOK, OnePlace, Ledger
<1>2. CASE Push(u)
  BY <1>1, <1>2, PushMoves DEF Pending
<1>3. CASE UNCHANGED queueVars
  BY <1>3 DEF queueVars, Pending, Waiting
<1> QED BY <1>2, <1>3

\* Acknowledging a response visits one pending URL, below the limit.
LEMMA AckVisits ==
  ASSUME Consistent, AckResponse
  PROVE  \E u \in URL : Frontier!Visit(u)
<1>1. /\ main = "ack" /\ main' = "callback" /\ Ack(cur)
      /\ visited' = visited \cup {cur} /\ crawled' = crawled + 1
      /\ UNCHANGED <<storage, cancelled, panicked>>
  BY DEF AckResponse, Goto
<1>2. cur \in URL /\ cur \in active /\ cur \notin Waiting
  BY <1>1 DEF Consistent, Control, TypeOK, Ledger, ActiveIsInFlight, InFlight, OnePlace
<1>3. Pending' = Pending \ {cur}
  BY <1>1, <1>2, AckMoves DEF Consistent, TypeOK, OnePlace, Pending
<1>4. crawled < CrawlLimit
  BY <1>1 DEF Consistent, LimitCount
<1>5. Running /\ Running'
  BY <1>1 DEF Running, AfterLoop
<1> QED BY <1>1, <1>2, <1>3, <1>4, <1>5
    DEF Frontier!Visit, Pending, Running

\* Polling leaves the set of pending URLs alone.
LEMMA PollKeepsPending ==
  ASSUME Consistent, PollerPoll
  PROVE  Pending' = Pending
<1>1. CASE Poll
  BY <1>1, PollMoves DEF Consistent, TypeOK, OnePlace, Pending
<1>2. CASE UNCHANGED queueVars
  BY <1>2 DEF queueVars, Pending, Waiting
<1> QED BY <1>1, <1>2 DEF PollerPoll

\* When Active() says no, nothing is pending.
LEMMA IdleMeansDone ==
  ASSUME TypeOK, ~Active
  PROVE  Pending = {}
BY EmptyElements DEF TypeOK, QueueTypeOK, Active, Pending, Waiting

\* Every step of the crawl is a step of CrawlFrontier or leaves it alone.
LEMMA StepRefines ==
  ASSUME Consistent, [Next]_vars
  PROVE  [Frontier!Next]_(Frontier!vars)
<1> USE DEF Frontier!vars
<1> DEFINE Abs == <<storage, Pending, visited, crawled, Running, IsCut>>
<1>0. Frontier!vars = Abs /\ Frontier!vars' = Abs'
  BY DEF Pending, Running, IsCut
<1>1. ASSUME NEW u \in URL, u \notin storage, storage' = storage \cup {u},
             Push(u) \/ UNCHANGED queueVars, Running, Running',
             UNCHANGED <<visited, crawled, cancelled, panicked>>
      PROVE  Frontier!Next
  <2>1. Pending' \in {Pending, Pending \cup {u}}
    BY <1>1, AdmitDiscovers
  <2>2. Frontier!Discover(u)
    BY <1>1, <2>1 DEF Frontier!Discover, Pending, Running
  <2> QED BY <2>2 DEF Frontier!Next
<1>2. ASSUME UNCHANGED <<queue, first, active, storage, visited, crawled>>,
             Running, ~Running',
             \/ UNCHANGED IsCut /\ (Pending = {} \/ IsCut \/ LimitHit)
             \/ IsCut'
      PROVE  Frontier!Next
  <2>1. Pending' = Pending
    BY <1>2 DEF Pending, Waiting
  <2>2. Frontier!Finish
    BY <1>2, <2>1 DEF Frontier!Finish, Pending, Running, IsCut, LimitHit
  <2> QED BY <2>2 DEF Frontier!Next
<1>3. ASSUME UNCHANGED <<queue, first, active, storage, visited, crawled>>,
             Running' = Running, IsCut'
      PROVE  Frontier!Next
  <2>1. Pending' = Pending
    BY <1>3 DEF Pending, Waiting
  <2>2. Frontier!Cut
    BY <1>3, <2>1 DEF Frontier!Cut, Pending, Running, IsCut
  <2> QED BY <2>2 DEF Frontier!Next
<1>4. ASSUME UNCHANGED <<queue, first, active, storage, visited, crawled>>,
             Running' = Running, IsCut' = IsCut
      PROVE  UNCHANGED Abs
  BY <1>4 DEF Pending, Waiting
<1>5. CASE \/ AddRoot
           \/ \E u \in URL : QueueSitemapURL(u)
           \/ \E u \in URL, i \in BOOLEAN : CallbackRequest(u, i)
  <2> USE DEF mainVars, historyVars
  <2>1. /\ UNCHANGED <<visited, crawled, cancelled, panicked>>
        /\ Running /\ Running'
        /\ \/ UNCHANGED <<queue, first, active, storage>>
           \/ \E u \in URL : /\ u \notin storage
                             /\ storage' = storage \cup {u}
                             /\ Push(u) \/ UNCHANGED queueVars
    BY <1>5, CrawlerAssumption
       DEF AddRoot, QueueSitemapURL, CallbackRequest, AddRequest, Goto,
           Running, AfterLoop, queueVars
  <2>2. CASE UNCHANGED <<queue, first, active, storage>>
    <3>1. Running' = Running /\ IsCut' = IsCut
      BY <2>1 DEF IsCut, Running
    <3> QED BY <1>0, <1>4, <2>1, <2>2, <3>1
  <2> QED BY <1>1, <2>1, <2>2
<1>6. CASE SetupSitemaps \/ Preload \/ Refill \/ SitemapQueued \/ CallbackReturn
            \/ \E c \in Consumer : Receive(c) \/ Dispatch(c) \/ ConsumerStep(c)
  <2>1. UNCHANGED <<queue, first, active, storage, visited, crawled, cancelled, panicked>>
    BY <1>6 DEF SetupSitemaps, Preload, Refill, LoadSitemap, SitemapQueued,
         CallbackReturn, Receive, Dispatch, ConsumerStep, Request, ConsumerStop,
         queueVars, mainVars, historyVars
  <2>2. Running' = Running
    BY <1>6 DEF SetupSitemaps, Preload, Refill, LoadSitemap, SitemapQueued,
         CallbackReturn, Receive, Dispatch, ConsumerStep, Request, ConsumerStop,
         Goto, mainVars, Running, AfterLoop
  <2> QED BY <1>0, <1>4, <2>1, <2>2 DEF IsCut
<1>7. CASE Begin \/ Decide
  <2>1. UNCHANGED <<queue, first, active, storage, visited, crawled, cancelled, panicked>>
    BY <1>7 DEF Begin, Decide, queueVars, historyVars
  <2>2. \/ Running' = Running
        \/ Running /\ ~Running' /\ (~Active \/ LimitHit)
    BY <1>7 DEF Begin, Decide, Goto, Running, AfterLoop
  <2>3. ~Active => Pending = {}
    BY IdleMeansDone DEF Consistent
  <2>4. IsCut' = IsCut
    BY <2>1 DEF IsCut
  <2> QED BY <1>0, <1>2, <1>4, <2>1, <2>2, <2>3, <2>4
<1>8. CASE ReceiveClosed \/ CallbackPanic
  <2>1. UNCHANGED <<queue, first, active, storage, visited, crawled, cancelled>>
    BY <1>8 DEF ReceiveClosed, CallbackPanic, queueVars, historyVars
  <2>2. Running /\ ~Running'
    BY <1>8 DEF ReceiveClosed, CallbackPanic, Goto, Running, AfterLoop
  <2>3. IsCut'
    BY <1>8 DEF ReceiveClosed, CallbackPanic, historyVars, IsCut, Consistent, Control
  <2> QED BY <1>2, <2>1, <2>2, <2>3
<1>9. CASE CancelContext \/ Stop
  <2>1. UNCHANGED <<queue, first, active, storage, visited, crawled>> /\ IsCut'
    BY <1>9 DEF CancelContext, Stop, queueVars, mainVars, historyVars, IsCut
  <2>2. Running' = Running
    BY <1>9 DEF CancelContext, Stop, mainVars, Goto, Running, AfterLoop
  <2> QED BY <1>3, <2>1, <2>2
<1>10. CASE QueueDone \/ PollerStop \/ CloseStreams \/ UNCHANGED vars
  <2>1. UNCHANGED <<queue, first, active, storage, visited, crawled, cancelled, panicked>>
    BY <1>10 DEF QueueDone, Done, PollerStop, CloseStreams, queueVars, mainVars,
         historyVars, vars
  <2>2. Running' = Running
    BY <1>10 DEF QueueDone, PollerStop, CloseStreams, mainVars, vars, Goto,
         Running, AfterLoop
  <2> QED BY <1>0, <1>4, <2>1, <2>2 DEF IsCut
<1>11. CASE PollerPoll
  <2>1. UNCHANGED <<storage, visited, crawled, main, cancelled, panicked>>
    BY <1>11 DEF PollerPoll, mainVars, historyVars
  <2>2. Pending' = Pending
    BY <1>11, PollKeepsPending
  <2> QED BY <1>0, <2>1, <2>2 DEF Running, IsCut
<1>12. CASE AckResponse
  BY <1>12, AckVisits DEF Frontier!Next
<1> QED
  BY <1>5, <1>6, <1>7, <1>8, <1>9, <1>10, <1>11, <1>12
     DEF Next, MainStep, PollerStep

\* A crawl admits, visits and ends as CrawlFrontier allows: it stops by
\* itself only with every admitted URL visited.
THEOREM CrawlImplementsFrontier == Spec => FrontierSpec
<1>1. Init => Frontier!Init
  BY DEF Init, QueueInit, Frontier!Init, Waiting, Elements, AfterLoop
<1>2. Consistent /\ [Next]_vars => [Frontier!Next]_(Frontier!vars)
  BY StepRefines
<1> QED BY <1>1, <1>2, Invariance, PTL DEF Spec, FrontierSpec, Frontier!Spec

-----------------------------------------------------------------------------
\* No step of the poller or of a consumer changes what Active() answers, so
\* main may act on the answer.
LEMMA PollKeepsActive ==
  ASSUME Consistent, Consistent', PollerPoll
  PROVE  Active' = Active
<1>1. CASE Poll
  <2>1. first \in active
    BY <1>1 DEF Poll, Consistent, Ledger, ActiveIsInFlight, InFlight
  <2>2. active \subseteq active'
    BY <1>1, PollMoves DEF Consistent, TypeOK, OnePlace
  <2> QED BY <2>1, <2>2 DEF Active
<1>2. CASE UNCHANGED queueVars
  BY <1>2 DEF queueVars, Active
<1> QED BY <1>1, <1>2 DEF PollerPoll

\* Every other step of the poller and of the consumers leaves the queue alone.
LEMMA OthersKeepActive ==
  ASSUME Consistent, Consistent', [Next]_vars, poller' # poller \/ consumer' # consumer
  PROVE  Active' = Active
<1>1. CASE PollerPoll
  BY <1>1, PollKeepsActive
<1>2. CASE Begin \/ PollerStop \/ CloseStreams
           \/ \E c \in Consumer : Receive(c) \/ Dispatch(c) \/ ConsumerStep(c)
  BY <1>2 DEF Begin, PollerStop, CloseStreams, Receive, Dispatch, ConsumerStep,
              Request, ConsumerStop, queueVars, Active
<1>3. UNCHANGED <<poller, consumer>> \/ PollerPoll \/ Begin \/ PollerStop
      \/ CloseStreams
      \/ \E c \in Consumer : Receive(c) \/ Dispatch(c) \/ ConsumerStep(c)
  <2>1. CASE MainStep
    BY <2>1 DEF MainStep, AddRoot, SetupSitemaps, Preload, Refill, LoadSitemap,
         QueueSitemapURL, SitemapQueued, ReceiveClosed, AckResponse,
         CallbackRequest, CallbackReturn, CallbackPanic, Decide, CancelContext,
         QueueDone, pollerVars, consumerVars
  <2>2. CASE PollerStep
    BY <2>2 DEF PollerStep
  <2>3. CASE Stop \/ UNCHANGED vars
    BY <2>3 DEF Stop, vars, pollerVars, consumerVars
  <2> QED BY <2>1, <2>2, <2>3 DEF Next
<1> QED BY <1>1, <1>2, <1>3

\* Neither the poller nor a consumer ever changes what Active() answers.
THEOREM ActiveStable == Spec => ActiveIsMainsOwn
<1>1. Consistent /\ Consistent' /\ [Next]_vars
        => [poller' # poller \/ consumer' # consumer => Active' = Active]_vars
  BY OthersKeepActive
<1> QED BY <1>1, Invariance, PTL DEF Spec, ActiveIsMainsOwn

-----------------------------------------------------------------------------
(* The two rules a project sets for its crawls, robots.txt and the limit:  *)
(* where a URL that was requested, or that is blocked, can be.             *)

\* The steps of a goroutine that takes a URL from another one, and the HTTP
\* call; all the other steps leave the four variables alone.
LEMMA LocatedStep ==
  ASSUME Consistent, Located, [Next]_vars
  PROVE  Located'
<1> SUFFICES ASSUME NEW u \in URL, requests'[u] > 0
             PROVE  u \in visited' \cup {cur'} \cup {item'[c] : c \in Consumer}
  BY DEF Located
<1>1. /\ requests \in [URL -> Nat] /\ item \in [Consumer -> URL \cup {Nil}]
      /\ u # Nil
  BY NilAssumption DEF Consistent, TypeOK
<1>2. CASE UNCHANGED <<visited, cur, item, requests>>
  BY <1>2 DEF Located
<1>3. ASSUME NEW c \in Consumer, Receive(c)
      PROVE  u \in visited' \cup {cur'} \cup {item'[d] : d \in Consumer}
  <2>1. /\ requests' = requests /\ visited' = visited /\ cur' = item[c]
        /\ \A d \in Consumer : d # c => item'[d] = item[d]
    BY <1>1, <1>3 DEF Receive, historyVars
  <2>2. cur = Nil
    BY <1>3 DEF Receive, Goto, Consistent, Control
  <2> QED BY <1>1, <2>1, <2>2 DEF Located
<1>4. CASE AckResponse
  BY <1>1, <1>4 DEF AckResponse, consumerVars, Located
<1>5. ASSUME NEW c \in Consumer, Dispatch(c)
      PROVE  u \in visited' \cup {cur'} \cup {item'[d] : d \in Consumer}
  <2>1. /\ requests' = requests /\ visited' = visited /\ cur' = cur
        /\ \A d \in Consumer : d # c => item'[d] = item[d]
    BY <1>1, <1>5 DEF Dispatch, historyVars, mainVars
  <2>2. item[c] = Nil
    BY <1>5 DEF Dispatch, Consistent, Control
  <2> QED BY <1>1, <2>1, <2>2 DEF Located
<1>6. ASSUME NEW c \in Consumer, Request(c)
      PROVE  u \in visited' \cup {cur'} \cup {item'[d] : d \in Consumer}
  <2>1. /\ requests' = [requests EXCEPT ![item[c]] = @ + 1]
        /\ item' = item /\ visited' = visited /\ cur' = cur
    BY <1>6 DEF Request, historyVars, mainVars
  <2>2. CASE u = item[c]
    BY <2>1, <2>2
  <2>3. CASE u # item[c]
    BY <1>1, <2>1, <2>3 DEF Located
  <2> QED BY <2>2, <2>3
<1>7. \/ UNCHANGED <<visited, cur, item, requests>>
      \/ AckResponse
      \/ \E c \in Consumer : Receive(c) \/ Dispatch(c) \/ Request(c)
  <2> USE DEF mainVars, consumerVars, historyVars
  <2>1. CASE MainStep
    BY <2>1 DEF MainStep, AddRoot, SetupSitemaps, Preload, Refill, LoadSitemap,
         QueueSitemapURL, SitemapQueued, Begin, ReceiveClosed, CallbackRequest,
         CallbackReturn, CallbackPanic, Decide, CancelContext, QueueDone
  <2>2. CASE PollerStep
    BY <2>2 DEF PollerStep, PollerPoll, PollerStop, CloseStreams
  <2>3. CASE \E c \in Consumer : ConsumerStep(c)
    BY <2>3 DEF ConsumerStep, ConsumerStop
  <2>4. CASE Stop \/ UNCHANGED vars
    BY <2>4 DEF Stop, vars
  <2> QED BY <2>1, <2>2, <2>3, <2>4 DEF Next
<1> QED BY <1>2, <1>3, <1>4, <1>5, <1>6, <1>7

-----------------------------------------------------------------------------
(* SitemapOnly                                                             *)

Known == Waiting \cup active \cup visited

\* A URL becomes known by its admission only.
LEMMA KnownStep ==
  ASSUME Consistent, [Next]_vars
  PROVE  \/ Known' = Known
         \/ \E u \in URL : /\ Known' \subseteq Known \cup {u}
                           /\ \/ QueueSitemapURL(u)
                              \/ (AddRoot \/ CallbackRequest(u, TRUE)
                                    \/ CallbackRequest(u, FALSE))
                                 /\ (IgnoreRobotsTxt \/ u \notin Disallowed)
<1>1. ASSUME NEW u \in URL, u \notin storage, storage' = storage \cup {u},
             Push(u), visited' = visited
      PROVE  Known' \subseteq Known \cup {u}
  BY <1>1, AdmitDiscovers DEF Pending, Known
<1>2. ASSUME UNCHANGED <<queue, active, visited>>
      PROVE  Known' = Known
  BY <1>2 DEF Known, Waiting
<1>3. ASSUME NEW u \in URL, NEW i \in BOOLEAN, AddRequest(u, i), visited' = visited
      PROVE  \/ Known' = Known
             \/ /\ Known' \subseteq Known \cup {u}
                /\ IgnoreRobotsTxt \/ u \notin Disallowed
  BY <1>1, <1>2, <1>3 DEF AddRequest, Admissible, queueVars
<1>4. CASE AddRoot
  BY <1>3, <1>4, CrawlerAssumption DEF AddRoot, historyVars
<1>5. ASSUME NEW u \in URL, NEW i \in BOOLEAN, CallbackRequest(u, i)
      PROVE  \/ Known' = Known
             \/ /\ Known' \subseteq Known \cup {u}
                /\ CallbackRequest(u, TRUE) \/ CallbackRequest(u, FALSE)
                /\ IgnoreRobotsTxt \/ u \notin Disallowed
  <2>1. i = TRUE \/ i = FALSE
    OBVIOUS
  <2> QED BY <1>3, <1>5, <2>1 DEF CallbackRequest, historyVars
<1>6. ASSUME NEW u \in URL, QueueSitemapURL(u)
      PROVE  Known' \subseteq Known \cup {u}
  BY <1>1, <1>2, <1>6 DEF QueueSitemapURL, historyVars, queueVars
<1>7. CASE AckResponse
  <2>1. /\ main = "ack" /\ Ack(cur) /\ visited' = visited \cup {cur}
    BY <1>7 DEF AckResponse, Goto
  <2>2. cur \in URL /\ cur \in active
    BY <2>1 DEF Consistent, Control, TypeOK, Ledger, ActiveIsInFlight, InFlight
  <2>3. Waiting' \cup active' \cup {cur} = Waiting \cup active
    BY <2>1, <2>2, AckMoves DEF Consistent, TypeOK, OnePlace
  <2> QED BY <2>1, <2>3 DEF Known
<1>8. CASE PollerPoll
  BY <1>8, PollKeepsPending DEF PollerPoll, historyVars, Known, Pending
<1>9. CASE UNCHANGED <<queue, active, visited>>
  BY <1>2, <1>9
<1>10. \/ UNCHANGED <<queue, active, visited>>
       \/ AddRoot \/ AckResponse \/ PollerPoll
       \/ \E u \in URL : QueueSitemapURL(u)
       \/ \E u \in URL, i \in BOOLEAN : CallbackRequest(u, i)
  <2> USE DEF queueVars, historyVars
  <2>1. CASE MainStep
    BY <2>1 DEF MainStep, SetupSitemaps, Preload, Refill, LoadSitemap,
         SitemapQueued, Begin, Receive, ReceiveClosed, CallbackReturn,
         CallbackPanic, Decide, CancelContext, QueueDone, Done
  <2>2. CASE PollerStep
    BY <2>2 DEF PollerStep, Dispatch, PollerStop, CloseStreams
  <2>3. CASE \E c \in Consumer : ConsumerStep(c)
    BY <2>3 DEF ConsumerStep, Request, ConsumerStop
  <2>4. CASE Stop \/ UNCHANGED vars
    BY <2>4 DEF Stop, vars
  <2> QED BY <2>1, <2>2, <2>3, <2>4 DEF Next
<1>11. Root \in URL
  BY CrawlerAssumption
<1>12. CASE \E u \in URL : QueueSitemapURL(u)
  BY <1>6, <1>12
<1>13. CASE \E u \in URL, i \in BOOLEAN : CallbackRequest(u, i)
  BY <1>5, <1>13
<1> QED BY <1>4, <1>7, <1>8, <1>9, <1>10, <1>12, <1>13

\* What queueSitemapURLs() works on comes from the sitemap, and only it admits
\* a URL without asking robots.txt.
LEMMA SitemapOnlyStep ==
  ASSUME Consistent, SitemapOnly, [Next]_vars
  PROVE  SitemapOnly'
<1>1. \/ UNCHANGED <<sitemapStorage, todo, main>>
      \/ /\ UNCHANGED sitemapStorage
         /\ todo' \subseteq todo \cup sitemapStorage
         /\ main' \notin {"init", "setup"}
      \/ main = "init" /\ main' = "setup" /\ UNCHANGED <<sitemapStorage, todo>>
      \/ /\ main = "setup" /\ main' = "preload"
         /\ todo' = todo
  <2> USE DEF Goto, mainVars
  <2>1. CASE MainStep
    BY <2>1 DEF MainStep, AddRoot, SetupSitemaps, Preload, Refill, LoadSitemap,
         QueueSitemapURL, SitemapQueued, Begin, Receive, ReceiveClosed,
         AckResponse, CallbackRequest, CallbackReturn, CallbackPanic, Decide,
         CancelContext, QueueDone
  <2>2. CASE PollerStep \/ (\E c \in Consumer : ConsumerStep(c)) \/ Stop
             \/ UNCHANGED vars
    BY <2>2 DEF PollerStep, PollerPoll, Dispatch, PollerStop, CloseStreams,
         ConsumerStep, Request, ConsumerStop, Stop, vars
  <2> QED BY <2>1, <2>2 DEF Next
<1>2. sitemapStorage \subseteq sitemapStorage'
  BY <1>1 DEF SitemapOnly
<1>3. /\ todo' \subseteq sitemapStorage'
      /\ main' \in {"init", "setup"} => sitemapStorage' = {}
  BY <1>1, <1>2 DEF SitemapOnly
<1>4. ASSUME ~IgnoreRobotsTxt
      PROVE  Known' \cap Disallowed \subseteq sitemapStorage'
  <2>1. Known \cap Disallowed \subseteq sitemapStorage'
    BY <1>2, <1>4 DEF SitemapOnly, Known
  <2>2. \A u \in URL : QueueSitemapURL(u) => u \in sitemapStorage'
    BY <1>2 DEF QueueSitemapURL, SitemapOnly
  <2> QED BY <1>4, <2>1, <2>2, KnownStep
<1> QED BY <1>3, <1>4 DEF SitemapOnly, Known

-----------------------------------------------------------------------------
\* IInv is an invariant of every crawl.
THEOREM FullInvariance == Spec => []IInv
<1>1. Init => Located /\ SitemapOnly
  BY DEF Init, QueueInit, Located, SitemapOnly, Waiting, Elements
<1>2. IInv /\ [Next]_vars => IInv'
  BY NextConsistent, LocatedStep, SitemapOnlyStep DEF IInv
<1>3. Init => IInv
  BY <1>1, InitConsistent DEF IInv
<1> QED BY <1>2, <1>3, PTL DEF Spec

\* A URL blocked by robots.txt is requested only if the sitemap lists it,
\* unless the project ignores robots.txt.
THEOREM RobotsHonoured == Spec => []RobotsRespected
<1>1. IInv => RobotsRespected
  <2> SUFFICES ASSUME IInv, ~IgnoreRobotsTxt, NEW u \in Disallowed, requests[u] > 0
               PROVE  u \in sitemapStorage
    BY DEF RobotsRespected
  <2>1. u \in URL /\ u # Nil
    BY CrawlerAssumption, NilAssumption
  <2>2. u \in visited \cup InFlight
    BY <2>1 DEF IInv, Located, InFlight
  <2>3. u \in visited \cup active
    BY <2>2 DEF IInv, Consistent, Ledger, ActiveIsInFlight
  <2> QED BY <2>3 DEF IInv, SitemapOnly
<1> QED BY <1>1, FullInvariance, PTL

\* The URLs the consumers have in hand are no more than the consumers.
LEMMA HandsBound ==
  ASSUME Consistent
  PROVE  LET Hands == {item[c] : c \in Consumer} \ {Nil}
         IN  IsFiniteSet(Hands) /\ Cardinality(Hands) <= Cardinality(Consumer)
<1> DEFINE Busy == {c \in Consumer : item[c] # Nil}
           Hands == {item[c] : c \in Consumer} \ {Nil}
           hand == [c \in Busy |-> item[c]]
<1>1. IsFiniteSet(Busy) /\ Cardinality(Busy) <= Cardinality(Consumer)
  BY CrawlerAssumption, FS_Subset
<1>2. hand \in Surjection(Busy, Hands)
  BY DEF Surjection
<1>3. IsFiniteSet(Hands) /\ Cardinality(Hands) <= Cardinality(Busy)
  BY <1>1, <1>2, FS_Surjection
<1>4. /\ Cardinality(Hands) \in Nat /\ Cardinality(Busy) \in Nat
      /\ Cardinality(Consumer) \in Nat
  BY <1>1, <1>3, CrawlerAssumption, FS_CardinalityType
<1> HIDE DEF Busy, Hands
<1>5. Cardinality(Hands) <= Cardinality(Consumer)
  BY <1>1, <1>3, <1>4
<1> QED BY <1>3, <1>5 DEF Hands

\* The visited pages stay within the limit, and the requests overshoot it by
\* the number of consumers at most.
THEOREM LimitHonoured == Spec => []LimitRespected
<1>1. IInv => LimitRespected
  <2> SUFFICES ASSUME IInv PROVE LimitRespected
    OBVIOUS
  <2> DEFINE Requested == {u \in URL : requests[u] > 0}
             Hands == {item[c] : c \in Consumer} \ {Nil}
             Answered == IF cur = Nil THEN visited ELSE visited \cup {cur}
  <2>1. Requested \subseteq Answered \cup Hands
    BY NilAssumption DEF IInv, Located
  <2>2. IsFiniteSet(Answered) /\ Cardinality(Answered) <= CrawlLimit
    <3>1. /\ IsFiniteSet(visited) /\ Cardinality(visited) = crawled
          /\ crawled \in Nat /\ CrawlLimit \in Nat /\ crawled <= CrawlLimit
      BY CrawlerAssumption DEF IInv, Consistent, LimitCount, TypeOK
    <3>2. CASE cur = Nil
      BY <3>1, <3>2
    <3>3. CASE cur # Nil
      <4>1. crawled < CrawlLimit
        BY <3>3 DEF IInv, Consistent, Control, LimitCount
      <4>2. /\ IsFiniteSet(visited \cup {cur})
            /\ Cardinality(visited \cup {cur}) \in {crawled, crawled + 1}
        BY <3>1, FS_AddElement
      <4>3. Cardinality(visited \cup {cur}) <= CrawlLimit
        BY <3>1, <4>1, <4>2
      <4> QED BY <3>3, <4>2, <4>3
    <3> QED BY <3>2, <3>3
  <2>3. IsFiniteSet(Hands) /\ Cardinality(Hands) <= Cardinality(Consumer)
    BY HandsBound DEF IInv
  <2> HIDE DEF Answered, Hands, Requested
  <2>4. /\ Cardinality(Answered) \in Nat /\ Cardinality(Hands) \in Nat
        /\ Cardinality(Consumer) \in Nat /\ CrawlLimit \in Nat
        /\ Cardinality(Answered \cap Hands) \in Nat
    <3>1. IsFiniteSet(Answered \cap Hands)
      BY <2>2, FS_Subset, Answered \cap Hands \in SUBSET Answered
    <3> QED BY <2>2, <2>3, <3>1, CrawlerAssumption, FS_CardinalityType
  <2>5. /\ IsFiniteSet(Answered \cup Hands)
        /\ Cardinality(Answered \cup Hands) <= CrawlLimit + Cardinality(Consumer)
    <3>1. /\ IsFiniteSet(Answered \cup Hands)
          /\ Cardinality(Answered \cup Hands) = Cardinality(Answered)
               + Cardinality(Hands) - Cardinality(Answered \cap Hands)
      BY <2>2, <2>3, FS_Union
    <3> QED BY <2>2, <2>3, <2>4, <3>1
  <2>6. /\ IsFiniteSet(Requested)
        /\ Cardinality(Requested) <= Cardinality(Answered \cup Hands)
    BY <2>1, <2>5, FS_Subset
  <2>7. Cardinality(Requested) <= CrawlLimit + Cardinality(Consumer)
    BY <2>4, <2>5, <2>6, FS_CardinalityType
  <2> QED BY <2>7 DEF LimitRespected, Requested, IInv, Consistent, LimitCount
<1> QED BY <1>1, FullInvariance, PTL
=============================================================================
