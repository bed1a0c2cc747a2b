-------------------------------- MODULE Queue --------------------------------
(***************************************************************************)
(* The URL queue of internal/crawler/queue.go.  One goroutine, manage(),   *)
(* owns the state; everybody else meets it on an unbuffered channel.       *)
(* Between two meetings manage() only runs the top of its loop, which      *)
(* nobody can observe, so one meeting together with the pass over the top  *)
(* of the loop that follows it is one step here.                           *)
(*                                                                         *)
(* A request is represented by its URL: the queue tells two requests apart *)
(* by URL.String() only (the key of the active map and of Ack).            *)
(***************************************************************************)
EXTENDS Naturals, Sequences

CONSTANTS
  URL,    \* the URLs a crawl can come across
  Nil     \* the nil *RequestMessage

ASSUME NilAssumption == Nil \notin URL

VARIABLES
  queue,    \* the requests behind the head
  first,    \* the head, taken out of queue and offered on q.out, or Nil
  active,   \* URLs taken out of queue and not acknowledged yet
  open      \* FALSE once manage() has returned and closed every channel

queueVars == <<queue, first, active, open>>

QueueTypeOK ==
  /\ queue \in Seq(URL)
  /\ first \in URL \cup {Nil}
  /\ active \subseteq URL
  /\ open \in BOOLEAN

QueueInit ==
  /\ queue = << >>
  /\ first = Nil
  /\ active = {}
  /\ open = TRUE

-----------------------------------------------------------------------------
(* Mutant of TakeFirst: the head is not marked active.                     *)
TakeFirst_unmarked(q, f, a) ==
  /\ active' = a
  /\ IF f = Nil /\ q # << >>
     THEN first' = Head(q) /\ queue' = Tail(q)
     ELSE first' = f /\ queue' = q

(* The top of manage()'s loop: with no head in hand, take the next request *)
(* out of the queue and mark it active.                                    *)
TakeFirst(q, f, a) ==
  IF f = Nil /\ q # << >>
  THEN /\ first'  = Head(q)
       /\ active' = a \cup {Head(q)}
       /\ queue'  = Tail(q)
  ELSE /\ first'  = f
       /\ active' = a
       /\ queue'  = q

Push(u) ==
  /\ open
  /\ TakeFirst(Append(queue, u), first, active)
  /\ UNCHANGED open

\* The receiver of Poll() gets the value of first before this step.
Poll ==
  /\ open
  /\ first # Nil
  /\ TakeFirst(queue, Nil, active)
  /\ UNCHANGED open

Ack(u) ==
  /\ open
  /\ TakeFirst(queue, first, active \ {u})
  /\ UNCHANGED open

\* What Active() answers.
Active == active # {} \/ queue # << >>

Done ==
  /\ open
  /\ open' = FALSE
  /\ UNCHANGED <<queue, first, active>>

-----------------------------------------------------------------------------
Elements(q) == {q[i] : i \in DOMAIN q}
Distinct(q) == \A i, j \in DOMAIN q : q[i] = q[j] => i = j

Waiting == Elements(queue)
=============================================================================
