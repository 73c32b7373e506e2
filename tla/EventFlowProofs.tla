--------------------------- MODULE EventFlowProofs ---------------------------
(***************************************************************************)
(* What the path of an event promises for every number of publishers and   *)
(* events, every buffer and page size, and every number of failed posts.   *)
(***************************************************************************)
EXTENDS EventFlow, TLAPS

-----------------------------------------------------------------------------
(* The inductive invariant.                                                *)

Published(e) == kind[e] # "none"

\* An event is scheduled once, and the webhook has only events whose coroutine
\* has begun.
TakenOnce ==
    /\ IsInjective(ready)
    /\ \A e \in ToSet(ready) : Published(e)
    /\ ToSet(queue) \subseteq Taken
    /\ \A w \in posts : ToSet(w.events) \subseteq Taken

\* What a thread still has to store is of a kind that is stored, and a thread
\* that stores under the lock of the state holds it.
LockedWhileStoring ==
    \A p \in Publishers, e \in Events :
        publishing[p] = e => /\ kind[e] \in {"stored", "locked"}
                             /\ kind[e] = "locked" => lock = p

\* The client has the event, or it is on its way to the client.
Comes(e) ==
    \/ e \in received
    \/ e \in ToSet(ready)
    \/ [event |-> e, client |-> TRUE] \in held

\* Neither the stream nor the pages need have the event.
Slipped(e) == e \in early /\ kind[e] = "stored"

\* While a client is connected, an event that is stored comes to it, slipped by,
\* or is in one of its pages to come; one that is being stored comes to it,
\* slipped by, or keeps the first page waiting for the lock of the state.
Streamed ==
    /\ \A e \in log : Published(e)
    /\ client = "off" => next = 1 \/ open # "open"
    /\ open = "closed" => client = "off"
    /\ client # "off" =>
           /\ \A e \in log : \/ Comes(e) \/ Slipped(e)
                             \/ client = "reading" /\ next <= e
           /\ \A p \in Publishers, e \in Events :
                  publishing[p] = e =>
                      \/ Comes(e) \/ Slipped(e)
                      \/ kind[e] = "locked" /\ client = "reading" /\ next = 1

HookInv == OnceWithWebhook /\ TakenOnce

ClientInv == LockedWhileStoring /\ Streamed

IInv ==
    /\ EventFlowTypeOK
    /\ HookInv
    /\ NothingForgotten
    /\ BufferBounded
    /\ NoDeadTimer
    /\ ClientInv

USE EventFlowAssumption DEF publishVars, hookVars, clientVars

-----------------------------------------------------------------------------
(* The elements of a sequence.                                             *)

LEMMA EmptySequence == ToSet(<<>>) = {} /\ IsInjective(<<>>)
PROOF
  BY DEF ToSet, IsInjective

LEMMA AppendedElement ==
  ASSUME NEW S, NEW s \in Seq(S), NEW e \in S
  PROVE  /\ Append(s, e) \in Seq(S) \ {<<>>}
         /\ ToSet(Append(s, e)) = ToSet(s) \cup {e}
         /\ IsInjective(s) /\ e \notin ToSet(s) => IsInjective(Append(s, e))
PROOF
<1>1. /\ DOMAIN Append(s, e) = 1 .. Len(s) + 1
      /\ DOMAIN s = 1 .. Len(s) /\ Len(s) \in Nat
      /\ \A i \in 1 .. Len(s) : Append(s, e)[i] = s[i]
      /\ Append(s, e)[Len(s) + 1] = e
      /\ Append(s, e) \in Seq(S) /\ Append(s, e) # <<>>
  OBVIOUS
<1> QED
  BY <1>1 DEF ToSet, IsInjective

LEMMA HeadAndTail ==
  ASSUME NEW S, NEW s \in Seq(S), s # <<>>
  PROVE  /\ Head(s) \in S /\ Tail(s) \in Seq(S)
         /\ ToSet(s) = ToSet(Tail(s)) \cup {Head(s)}
         /\ IsInjective(s) => IsInjective(Tail(s)) /\ Head(s) \notin ToSet(Tail(s))
PROOF
<1>1. /\ DOMAIN s = 1 .. Len(s) /\ Len(s) \in Nat \ {0}
      /\ Tail(s) \in Seq(S)
      /\ DOMAIN Tail(s) = 1 .. Len(s) - 1
      /\ \A i \in 1 .. Len(s) - 1 : Tail(s)[i] = s[i + 1]
      /\ Head(s) = s[1] /\ s[1] \in S
  OBVIOUS
<1>2. ToSet(s) = ToSet(Tail(s)) \cup {Head(s)}
  <2>1. ASSUME NEW i \in DOMAIN s
        PROVE  s[i] \in ToSet(Tail(s)) \cup {Head(s)}
    <3>1. CASE i = 1
      BY <1>1, <3>1
    <3>2. CASE i # 1
      <4>1. i - 1 \in 1 .. Len(s) - 1 /\ s[i] = Tail(s)[i - 1]
        BY <1>1, <3>2
      <4> QED
        BY <1>1, <4>1 DEF ToSet
    <3> QED
      BY <3>1, <3>2
  <2>2. ASSUME NEW i \in DOMAIN Tail(s)
        PROVE  Tail(s)[i] \in ToSet(s)
    BY <1>1 DEF ToSet
  <2>3. Head(s) \in ToSet(s)
    BY <1>1 DEF ToSet
  <2> QED
    BY <2>1, <2>2, <2>3 DEF ToSet
<1>3. ASSUME IsInjective(s)
      PROVE  IsInjective(Tail(s)) /\ Head(s) \notin ToSet(Tail(s))
  BY <1>1, <1>3 DEF ToSet, IsInjective
<1> QED
  BY <1>1, <1>2, <1>3

LEMMA Concatenation ==
  ASSUME NEW S, NEW s \in Seq(S), NEW t \in Seq(S)
  PROVE  /\ s \o t \in Seq(S)
         /\ ToSet(s \o t) = ToSet(s) \cup ToSet(t)
         /\ /\ IsInjective(s) /\ IsInjective(t)
            /\ ToSet(s) \cap ToSet(t) = {}
            => IsInjective(s \o t)
PROOF
<1>1. /\ s \o t \in Seq(S)
      /\ DOMAIN s = 1 .. Len(s) /\ DOMAIN t = 1 .. Len(t)
      /\ Len(s) \in Nat /\ Len(t) \in Nat
      /\ DOMAIN (s \o t) = 1 .. Len(s) + Len(t)
      /\ \A i \in 1 .. Len(s) : (s \o t)[i] = s[i]
      /\ \A i \in 1 .. Len(t) : (s \o t)[Len(s) + i] = t[i]
  OBVIOUS
<1>2. \A i \in DOMAIN (s \o t) :
         \/ i \in DOMAIN s /\ (s \o t)[i] = s[i]
         \/ i - Len(s) \in DOMAIN t /\ (s \o t)[i] = t[i - Len(s)]
  <2> SUFFICES ASSUME NEW i \in DOMAIN (s \o t), i \notin DOMAIN s
               PROVE  i - Len(s) \in DOMAIN t /\ (s \o t)[i] = t[i - Len(s)]
    BY <1>1
  <2>1. i - Len(s) \in 1 .. Len(t) /\ i = Len(s) + (i - Len(s))
    BY <1>1
  <2> QED
    BY <1>1, <2>1
<1>3. ToSet(s \o t) = ToSet(s) \cup ToSet(t)
  <2>1. ToSet(s \o t) \subseteq ToSet(s) \cup ToSet(t)
    BY <1>2 DEF ToSet
  <2>2. ToSet(s) \subseteq ToSet(s \o t)
    BY <1>1 DEF ToSet
  <2>3. ASSUME NEW i \in DOMAIN t
        PROVE  t[i] \in ToSet(s \o t)
    <3>1. Len(s) + i \in DOMAIN (s \o t) /\ (s \o t)[Len(s) + i] = t[i]
      BY <1>1
    <3> QED
      BY <3>1 DEF ToSet
  <2> QED
    BY <2>1, <2>2, <2>3 DEF ToSet
<1>4. ASSUME IsInjective(s), IsInjective(t), ToSet(s) \cap ToSet(t) = {}
      PROVE  IsInjective(s \o t)
  <2> SUFFICES ASSUME NEW i \in DOMAIN (s \o t), NEW j \in DOMAIN (s \o t),
                      (s \o t)[i] = (s \o t)[j]
               PROVE  i = j
    BY DEF IsInjective
  <2>1. CASE i \in DOMAIN s /\ j \in DOMAIN s
    BY <1>1, <1>4, <2>1 DEF IsInjective
  <2>2. CASE i \notin DOMAIN s /\ j \notin DOMAIN s
    <3>1. i - Len(s) = j - Len(s)
      BY <1>2, <1>4, <2>2 DEF IsInjective
    <3> QED
      BY <1>1, <3>1
  <2>3. CASE ~(i \in DOMAIN s <=> j \in DOMAIN s)
    <3>1. ASSUME NEW k \in DOMAIN s, NEW l \in DOMAIN (s \o t), l \notin DOMAIN s
          PROVE  (s \o t)[k] # (s \o t)[l]
      <4>1. (s \o t)[k] \in ToSet(s) /\ (s \o t)[l] \in ToSet(t)
        BY <1>1, <1>2, <3>1 DEF ToSet
      <4> QED
        BY <1>4, <4>1
    <3> QED
      BY <2>3, <3>1
  <2> QED
    BY <2>1, <2>2, <2>3
<1> QED
  BY <1>1, <1>3, <1>4

\* The elements of a sequence of events are events.
LEMMA EventsOf ==
  ASSUME NEW s \in Seq(Events)
  PROVE  ToSet(s) \subseteq Events
PROOF
  BY DEF ToSet

-----------------------------------------------------------------------------
(* Types.                                                                  *)

LEMMA PostEvents ==
  ASSUME EventFlowTypeOK, NEW w \in posts
  PROVE  /\ w.event \in Events \cup {0} /\ w.timer \in Events \cup {0}
         /\ w.events \in Seq(Events) /\ w.events # <<>>
         /\ ToSet(w.events) \subseteq Events /\ ToSet(w.events) # {}
PROOF
<1>1. /\ w.event \in Events \cup {0} /\ w.timer \in Events \cup {0}
      /\ w.events \in Seq(Events) /\ w.events # <<>>
  BY DEF EventFlowTypeOK, PostType
<1> QED
  <2>1. ToSet(w.events) \subseteq Events
    BY <1>1, EventsOf
  <2>2. Head(w.events) \in ToSet(w.events)
    BY <1>1, HeadAndTail
  <2> QED
    BY <1>1, <2>1, <2>2

LEMMA CancelType ==
  ASSUME EventFlowTypeOK, Cancel
  PROVE  /\ flushTimer' \in Events \cup {0}
         /\ timer' \in [Events -> {"none", "sleeping", "posting", "cancelled"}]
         /\ dropped' \subseteq Events
         /\ Cancelled \subseteq posts
PROOF
<1>1. \A w \in posts : ToSet(w.events) \subseteq Events
  BY PostEvents
<1>2. Cancelled \subseteq posts
  BY DEF Cancelled
<1>3. UNION {ToSet(w.events) : w \in Cancelled} \subseteq Events
  BY <1>1, <1>2
<1> QED
  BY <1>2, <1>3 DEF Cancel, EventFlowTypeOK

LEMMA PostEndsType ==
  ASSUME EventFlowTypeOK, NEW w \in posts, PostEnds(w)
  PROVE  /\ posts' \subseteq posts
         /\ timer' \in [Events -> {"none", "sleeping", "posting", "cancelled"}]
         /\ flushTimer' \in Events \cup {0}
         /\ held' \subseteq held
         /\ received' \subseteq Events
         /\ open' \in {"open", "closing", "closed"}
         /\ client' \in {"off", "reading", "live"}
PROOF
<1>1. {h.event : h \in {x \in held : x.event = w.event /\ x.client}} \subseteq Events
  BY DEF EventFlowTypeOK, HeldType
<1>2. w.timer \in Events \cup {0}
  BY PostEvents
<1> QED
  BY <1>1, <1>2 DEF PostEnds, EventFlowTypeOK

\* The set of posts keeps its type when a post is added.
LEMMA PostTyped ==
  ASSUME NEW e \in Events \cup {0}, NEW t \in Events \cup {0},
         NEW s \in Seq(Events), s # <<>>
  PROVE  /\ Post(e, t, s) \in PostType
         /\ Post(e, t, s).event = e
         /\ Post(e, t, s).timer = t
         /\ Post(e, t, s).events = s
PROOF
  BY DEF Post, PostType

LEMMA PageType ==
  ASSUME EventFlowTypeOK
  PROVE  Page \subseteq Rest /\ Rest \subseteq log /\ log \subseteq Events
PROOF
  BY DEF Page, Rest, EventFlowTypeOK

LEMMA TypeStep ==
  ASSUME EventFlowTypeOK, [Next]_vars
  PROVE  EventFlowTypeOK'
PROOF
<1> USE DEF EventFlowTypeOK
<1>1. ASSUME NEW p \in Publishers, NEW e \in Events, Publish(p, e)
      PROVE  EventFlowTypeOK'
  <2>1. /\ ready' = Append(ready, e)
        /\ lock' \in {lock, p}
        /\ \E k \in {"stored", "locked", "transient"} : kind' = [kind EXCEPT ![e] = k]
        /\ publishing' \in {publishing, [publishing EXCEPT ![p] = e]}
        /\ UNCHANGED <<log, held, open, hookVars, clientVars>>
    BY <1>1 DEF Publish
  <2>2. ready' \in Seq(Events) /\ publishing' \in [Publishers -> Events \cup {0}]
    BY <2>1
  <2> QED
    BY <2>1, <2>2
<1>2. ASSUME NEW p \in Publishers, Store(p)
      PROVE  EventFlowTypeOK'
  <2>1. log' \subseteq Events
    BY <1>2 DEF Store
  <2> QED
    BY <1>2, <2>1 DEF Store
<1>3. CASE Begin
  <2> DEFINE e == Head(ready)
             w == Post(e, 0, Append(queue, e))
             h == [event |-> e, client |-> Subscribed]
  <2>1. e \in Events /\ Tail(ready) \in Seq(Events)
    BY <1>3, HeadAndTail DEF Begin
  <2>2. Append(queue, e) \in Seq(Events) \ {<<>>}
    BY <2>1, AppendedElement
  <2>3. CASE Full
    <3>1. w \in PostType
      BY <2>1, <2>2, PostTyped
    <3>2. h \in HeldType
      BY <2>1 DEF HeldType, Subscribed
    <3>3. /\ Cancel /\ posts' = (posts \ Cancelled) \cup {w}
          /\ queue' = <<>> /\ ready' = Tail(ready)
          /\ held' = held \cup {h}
          /\ UNCHANGED <<received, publishVars, open, delivered, faults, client, next, early>>
      BY <1>3, <2>3 DEF Begin
    <3> HIDE DEF w, h
    <3> QED
      BY <2>1, <3>1, <3>2, <3>3, CancelType
  <2>4. CASE ~Full
    <3>1. /\ queue' = Append(queue, e) /\ ready' = Tail(ready)
          /\ flushTimer' \in {e, flushTimer}
          /\ timer' \in {[timer EXCEPT ![e] = "sleeping"], timer}
          /\ received' \in {received \cup {e}, received}
          /\ UNCHANGED <<posts, held, dropped, publishVars, open, delivered, faults,
                         client, next, early>>
      BY <1>3, <2>4 DEF Begin, Deliver
    <3> QED
      BY <2>1, <2>2, <3>1
  <2> QED
    BY <2>3, <2>4
<1>4. CASE BeginClosed
  BY <1>4, HeadAndTail DEF BeginClosed
<1>5. ASSUME NEW t \in Events, TimerFires(t)
      PROVE  EventFlowTypeOK'
  <2>1. CASE queue # <<>>
    <3>1. Post(0, t, queue) \in PostType
      BY <2>1, PostTyped
    <3>2. /\ timer' = [timer EXCEPT ![t] = "posting"]
          /\ posts' = posts \cup {Post(0, t, queue)}
          /\ queue' = <<>>
          /\ UNCHANGED <<flushTimer, publishVars, ready, held, open, delivered, dropped,
                         faults, clientVars>>
      BY <1>5, <2>1 DEF TimerFires
    <3> QED
      BY <3>1, <3>2
  <2>2. CASE queue = <<>>
    BY <1>5, <2>2 DEF TimerFires
  <2> QED
    BY <2>1, <2>2
<1>6. ASSUME NEW t \in Events, TimerCleansUp(t)
      PROVE  EventFlowTypeOK'
  BY <1>6 DEF TimerCleansUp
<1>7. ASSUME NEW w \in posts, PostSucceeds(w)
      PROVE  EventFlowTypeOK'
  <2>1. ToSet(w.events) \subseteq Events
    BY PostEvents
  <2> QED
    BY <1>7, <2>1, PostEndsType DEF PostSucceeds
<1>8. ASSUME NEW w \in posts, RetryPost(w)
      PROVE  EventFlowTypeOK'
  <2> DEFINE again == [w EXCEPT !.attempt = @ + 1]
  <2>1. ToSet(w.events) \subseteq Events
    BY PostEvents
  <2>2. again \in PostType
    <3>1. w \in PostType /\ w.attempt < MaxAttempts
      BY <1>8 DEF RetryPost
    <3>2. again = [event |-> w.event, timer |-> w.timer, events |-> w.events,
                   attempt |-> w.attempt + 1]
      <4>1. DOMAIN w = {"event", "timer", "events", "attempt"}
        BY <3>1 DEF PostType
      <4>2. again = [f \in DOMAIN w |-> IF f = "attempt" THEN w.attempt + 1 ELSE w[f]]
        OBVIOUS
      <4> QED
        BY <4>1, <4>2
    <3>3. w.attempt + 1 \in 1 .. MaxAttempts
      BY <3>1 DEF PostType
    <3> QED
      BY <3>1, <3>2, <3>3 DEF PostType
  <2>3. posts' = (posts \ {w}) \cup {again}
    BY <1>8 DEF RetryPost
  <2> HIDE DEF again
  <2>4. posts' \subseteq PostType
    BY <2>2, <2>3
  <2>5. delivered' \subseteq Events /\ faults' \in 0 .. MaxFaults
    BY <1>8, <2>1 DEF RetryPost, AttemptFails
  <2> QED
    BY <1>8, <2>4, <2>5 DEF RetryPost
<1>9. ASSUME NEW w \in posts, GiveUp(w)
      PROVE  EventFlowTypeOK'
  <2>1. ToSet(w.events) \subseteq Events /\ queue \o w.events \in Seq(Events)
    BY PostEvents, Concatenation
  <2> QED
    BY <1>9, <2>1, PostEndsType DEF GiveUp, AttemptFails
<1>10. CASE Close
  <2>1. CASE queue = <<>>
    BY <1>10, <2>1, CancelType DEF Close
  <2>2. CASE queue # <<>>
    <3>1. Post(0, 0, queue) \in PostType
      BY <2>2, PostTyped
    <3> QED
      BY <1>10, <2>2, <3>1, CancelType DEF Close
  <2> QED
    BY <2>1, <2>2
<1>11. CASE Connect
  BY <1>11 DEF Connect
<1>12. CASE ReadPage
  <2>1. next' \in Events \cup {1} /\ received' \subseteq Events
    BY <1>12, PageType DEF ReadPage
  <2> QED
    BY <1>12, <2>1 DEF ReadPage
<1>13. CASE UNCHANGED vars
  BY <1>13 DEF vars
<1> QED
  BY <1>1, <1>2, <1>3, <1>4, <1>5, <1>6, <1>7, <1>8, <1>9, <1>10, <1>11, <1>12, <1>13
     DEF Next

-----------------------------------------------------------------------------
(* What the coroutines have taken from the loop.                           *)

LEMMA PublishTakes ==
  ASSUME EventFlowTypeOK, TakenOnce, NEW p \in Publishers, NEW e \in Events, Publish(p, e)
  PROVE  /\ Taken' = Taken
         /\ ToSet(ready') = ToSet(ready) \cup {e} /\ IsInjective(ready')
         /\ \A d \in Events : Published(d)' <=> Published(d) \/ d = e
         /\ ~Published(e)
         /\ \A d \in Events : Published(d) => kind'[d] = kind[d]
PROOF
<1>1. \A d \in Events : /\ Published(d)' <=> Published(d) \/ d = e
                        /\ Published(d) => kind'[d] = kind[d]
  <2>1. \E k \in {"stored", "locked", "transient"} : kind' = [kind EXCEPT ![e] = k]
    BY DEF Publish
  <2>2. ~Published(e)
    BY DEF Publish, NextEvent, Published
  <2> QED
    BY <2>1, <2>2 DEF Published, EventFlowTypeOK
<1>2. ~Published(e) /\ ready' = Append(ready, e)
  BY DEF Publish, NextEvent, Published
<1>3. e \notin ToSet(ready)
  BY <1>2 DEF TakenOnce
<1>4. ToSet(ready') = ToSet(ready) \cup {e} /\ IsInjective(ready')
  BY <1>2, <1>3, AppendedElement DEF EventFlowTypeOK, TakenOnce
<1> QED
  BY <1>1, <1>2, <1>3, <1>4 DEF Taken, Published

\* The next coroutine of the loop takes its event, and no other.
LEMMA LoopTakes ==
  ASSUME EventFlowTypeOK, TakenOnce, ready # <<>>, ready' = Tail(ready), UNCHANGED kind
  PROVE  /\ Head(ready) \in Events \ Taken
         /\ Taken' = Taken \cup {Head(ready)}
         /\ ToSet(ready) = ToSet(ready') \cup {Head(ready)} /\ IsInjective(ready')
         /\ \A e \in ToSet(ready') : Published(e)'
PROOF
<1>1. /\ Head(ready) \in Events
      /\ ToSet(ready) = ToSet(ready') \cup {Head(ready)}
      /\ IsInjective(ready') /\ Head(ready) \notin ToSet(ready')
  BY HeadAndTail DEF EventFlowTypeOK, TakenOnce
<1>2. Published(Head(ready))
  BY <1>1 DEF TakenOnce
<1>3. \A e \in ToSet(ready') : Published(e)'
  BY <1>1 DEF TakenOnce, Published
<1> QED
  BY <1>1, <1>2, <1>3 DEF Taken, Published

-----------------------------------------------------------------------------
(* No event is with the webhook twice.                                     *)

\* The posts P go on, w may be begun, and no two of them and of the queue then
\* have an event in common.
GoOn(P, w) ==
    /\ P \subseteq posts
    /\ posts' \subseteq P \cup {w}
    /\ w \in posts' \ P => /\ IsInjective(w.events)
                           /\ \A x \in P : ToSet(x.events) \cap ToSet(w.events) = {}
                           /\ ToSet(w.events) \subseteq Taken'
                           /\ ToSet(w.events) \cap ToSet(queue') = {}
    /\ IsInjective(queue')
    /\ ToSet(queue') \subseteq Taken'
    /\ \A x \in P : ToSet(x.events) \cap ToSet(queue') = {}

LEMMA PostsOnce ==
  ASSUME HookInv, NEW P, NEW w, GoOn(P, w), Taken \subseteq Taken',
         IsInjective(ready'), \A e \in ToSet(ready') : Published(e)'
  PROVE  HookInv'
PROOF
<1>a. /\ P \subseteq posts
      /\ IsInjective(queue') /\ ToSet(queue') \subseteq Taken'
      /\ \A x \in P : ToSet(x.events) \cap ToSet(queue') = {}
  BY DEF GoOn
<1>b. ASSUME w \in posts' \ P
      PROVE  /\ IsInjective(w.events)
             /\ \A x \in P : ToSet(x.events) \cap ToSet(w.events) = {}
             /\ ToSet(w.events) \subseteq Taken'
             /\ ToSet(w.events) \cap ToSet(queue') = {}
  BY <1>b DEF GoOn
<1>1. \A x \in posts' : x \in P \/ x = w
  BY DEF GoOn
<1>2. \A x \in P : /\ IsInjective(x.events) /\ ToSet(x.events) \subseteq Taken'
                   /\ \A y \in P \ {x} : ToSet(y.events) \cap ToSet(x.events) = {}
  BY <1>a DEF HookInv, OnceWithWebhook, TakenOnce
<1>3. ASSUME NEW x \in posts'
      PROVE  /\ IsInjective(x.events) /\ ToSet(x.events) \subseteq Taken'
             /\ ToSet(x.events) \cap ToSet(queue') = {}
             /\ \A y \in posts' \ {x} : ToSet(y.events) \cap ToSet(x.events) = {}
  <2>1. CASE x \notin P
    <3>1. x = w /\ \A y \in posts' \ {x} : y \in P
      BY <1>1, <2>1
    <3>2. \A y \in posts' \ {x} : ToSet(y.events) \cap ToSet(x.events) = {}
      BY <1>b, <2>1, <3>1
    <3> QED
      BY <1>b, <2>1, <3>1, <3>2
  <2>2. CASE x \in P
    <3>2. ASSUME NEW y \in posts' \ {x}
          PROVE  ToSet(y.events) \cap ToSet(x.events) = {}
      <4>1. CASE y \notin P
        <5>1. y = w
          BY <1>1, <4>1
        <5> QED
          BY <1>b, <2>2, <4>1, <5>1
      <4>2. CASE y \in P
        BY <1>2, <2>2, <4>2
      <4> QED
        BY <4>1, <4>2
    <3> QED
      BY <1>a, <1>2, <2>2, <3>2
  <2> QED
    BY <2>1, <2>2
<1>4. OnceWithWebhook'
  BY <1>a, <1>3 DEF OnceWithWebhook
<1>5. TakenOnce'
  BY <1>a, <1>3 DEF TakenOnce
<1> QED
  BY <1>4, <1>5 DEF HookInv

LEMMA HookStep ==
  ASSUME EventFlowTypeOK, EventFlowTypeOK', HookInv, [Next]_vars
  PROVE  HookInv'
PROOF
<1>a. /\ TakenOnce /\ IsInjective(queue)
      /\ \A w \in posts : /\ IsInjective(w.events) /\ ToSet(w.events) \subseteq Taken
                          /\ ToSet(w.events) \cap ToSet(queue) = {}
      /\ ToSet(queue) \subseteq Taken
      /\ IsInjective(ready) /\ \A e \in ToSet(ready) : Published(e)
  BY DEF HookInv, OnceWithWebhook, TakenOnce
<1>b. ASSUME UNCHANGED <<queue, posts>>, Taken \subseteq Taken',
             IsInjective(ready'), \A e \in ToSet(ready') : Published(e)'
      PROVE  HookInv'
  BY <1>a, <1>b DEF HookInv, OnceWithWebhook, TakenOnce
<1>c. ASSUME UNCHANGED <<kind, ready>>
      PROVE  /\ Taken' = Taken /\ IsInjective(ready')
             /\ \A e \in ToSet(ready') : Published(e)'
  BY <1>a, <1>c DEF Taken, Published
<1>1. ASSUME NEW p \in Publishers, NEW e \in Events, Publish(p, e)
      PROVE  HookInv'
  <2>1. \A d \in ToSet(ready') : Published(d)'
    BY <1>a, <1>1, PublishTakes, EventsOf DEF EventFlowTypeOK
  <2> QED
    BY <1>a, <1>b, <1>1, <2>1, PublishTakes DEF Publish
<1>2. ASSUME NEW p \in Publishers, Store(p)
      PROVE  HookInv'
  BY <1>b, <1>c, <1>2 DEF Store
<1>3. CASE Begin
  <2> DEFINE e == Head(ready)
             s == Append(queue, e)
             w == Post(e, 0, s)
  <2>1. /\ e \in Events \ Taken /\ Taken' = Taken \cup {e} /\ IsInjective(ready')
        /\ \A d \in ToSet(ready') : Published(d)'
    BY <1>3, <1>a, LoopTakes DEF Begin
  <2>2. ToSet(s) = ToSet(queue) \cup {e} /\ IsInjective(s) /\ s \in Seq(Events) \ {<<>>}
    <3>1. e \in Events /\ e \notin ToSet(queue) /\ queue \in Seq(Events)
      BY <1>a, <2>1 DEF EventFlowTypeOK
    <3> QED
      BY <1>a, <3>1, AppendedElement
  <2>3. \A x \in posts : ToSet(x.events) \cap ToSet(s) = {}
    BY <1>a, <2>1, <2>2
  <2>4. CASE Full
    <3>1. w.events = s
      BY DEF Post
    <3>2. posts' = (posts \ Cancelled) \cup {w} /\ queue' = <<>>
      BY <1>3, <2>4 DEF Begin
    <3> HIDE DEF w, s
    <3>3. GoOn(posts \ Cancelled, w)
      BY <1>a, <2>1, <2>2, <2>3, <3>1, <3>2, EmptySequence DEF GoOn
    <3> QED
      BY <2>1, <3>3, PostsOnce
  <2>5. CASE ~Full
    <3>1. queue' = s /\ posts' = posts
      BY <1>3, <2>5 DEF Begin
    <3> HIDE DEF s
    <3>2. GoOn(posts, w)
      BY <1>a, <2>1, <2>2, <2>3, <3>1 DEF GoOn
    <3> QED
      BY <2>1, <3>2, PostsOnce
  <2> QED
    BY <2>4, <2>5
<1>4. CASE BeginClosed
  BY <1>a, <1>b, <1>4, LoopTakes DEF BeginClosed
<1>5. ASSUME NEW t \in Events, TimerFires(t)
      PROVE  HookInv'
  <2> DEFINE w == Post(0, t, queue)
  <2>1. CASE queue # <<>>
    <3>1. w.events = queue
      BY DEF Post
    <3>2. posts' = posts \cup {w} /\ queue' = <<>> /\ UNCHANGED <<kind, ready>>
      BY <1>5, <2>1 DEF TimerFires
    <3> HIDE DEF w
    <3>3. GoOn(posts, w)
      BY <1>a, <1>c, <3>1, <3>2, EmptySequence DEF GoOn
    <3> QED
      BY <1>c, <3>2, <3>3, PostsOnce
  <2>2. CASE queue = <<>>
    BY <1>b, <1>c, <1>5, <2>2 DEF TimerFires
  <2> QED
    BY <2>1, <2>2
<1>6. ASSUME NEW t \in Events, TimerCleansUp(t)
      PROVE  HookInv'
  BY <1>b, <1>c, <1>6 DEF TimerCleansUp
<1>7. ASSUME NEW w \in posts, PostSucceeds(w)
      PROVE  HookInv'
  <2>1. posts' = posts \ {w} /\ UNCHANGED <<queue, kind, ready>>
    BY <1>7 DEF PostSucceeds, PostEnds
  <2>2. GoOn(posts \ {w}, w)
    BY <1>a, <1>c, <2>1 DEF GoOn
  <2> QED
    BY <1>c, <2>1, <2>2, PostsOnce
<1>8. ASSUME NEW w \in posts, RetryPost(w)
      PROVE  HookInv'
  <2> DEFINE again == [w EXCEPT !.attempt = @ + 1]
  <2>1. posts' = (posts \ {w}) \cup {again} /\ UNCHANGED <<queue, kind, ready>>
    BY <1>8 DEF RetryPost
  <2>2. again.events = w.events
    BY DEF EventFlowTypeOK, PostType
  <2>3. \A x \in posts \ {w} : ToSet(x.events) \cap ToSet(w.events) = {}
    BY DEF HookInv, OnceWithWebhook
  <2> HIDE DEF again
  <2>4. GoOn(posts \ {w}, again)
    BY <1>a, <1>c, <2>1, <2>2, <2>3 DEF GoOn
  <2> QED
    BY <1>c, <2>1, <2>4, PostsOnce
<1>9. ASSUME NEW w \in posts, GiveUp(w)
      PROVE  HookInv'
  <2>1. /\ posts' = posts \ {w} /\ queue' = queue \o w.events
        /\ UNCHANGED <<kind, ready>>
    BY <1>9 DEF GiveUp, PostEnds
  <2>2. w.events \in Seq(Events)
    BY PostEvents
  <2>3. ToSet(queue') = ToSet(queue) \cup ToSet(w.events) /\ IsInjective(queue')
    BY <1>a, <2>1, <2>2, Concatenation DEF EventFlowTypeOK
  <2>4. \A x \in posts \ {w} : ToSet(x.events) \cap ToSet(w.events) = {}
    BY DEF HookInv, OnceWithWebhook
  <2>5. GoOn(posts \ {w}, w)
    BY <1>a, <1>c, <2>1, <2>3, <2>4 DEF GoOn
  <2> QED
    BY <1>c, <2>1, <2>5, PostsOnce
<1>10. CASE Close
  <2> DEFINE w == Post(0, 0, queue)
  <2>1. queue' = <<>> /\ UNCHANGED <<kind, ready>>
    BY <1>10 DEF Close
  <2>2. CASE queue # <<>>
    <3>1. w.events = queue
      BY DEF Post
    <3>2. posts' = (posts \ Cancelled) \cup {w}
      BY <1>10, <2>2 DEF Close
    <3> HIDE DEF w
    <3>3. GoOn(posts \ Cancelled, w)
      BY <1>a, <1>c, <2>1, <3>1, <3>2, EmptySequence DEF GoOn
    <3> QED
      BY <1>c, <2>1, <3>3, PostsOnce
  <2>3. CASE queue = <<>>
    <3>1. posts' = posts \ Cancelled
      BY <1>10, <2>3 DEF Close
    <3>2. GoOn(posts \ Cancelled, w)
      BY <1>a, <1>c, <2>1, <3>1, EmptySequence DEF GoOn
    <3> QED
      BY <1>c, <2>1, <3>2, PostsOnce
  <2> QED
    BY <2>2, <2>3
<1>11. CASE Connect
  BY <1>b, <1>c, <1>11 DEF Connect
<1>12. CASE ReadPage
  BY <1>b, <1>c, <1>12 DEF ReadPage
<1>13. CASE UNCHANGED vars
  BY <1>b, <1>c, <1>13 DEF vars
<1> QED
  BY <1>1, <1>2, <1>3, <1>4, <1>5, <1>6, <1>7, <1>8, <1>9, <1>10, <1>11, <1>12, <1>13
     DEF Next

-----------------------------------------------------------------------------
(* No event is forgotten.                                                  *)

Posted(e) == \E w \in posts : e \in ToSet(w.events)

\* The webhook's server has the event, or the webhook still has it, or its post
\* was cancelled.
Kept(e) == e \in delivered \/ e \in dropped \/ e \in ToSet(queue) \/ Posted(e)

\* What was in a post that is cancelled is counted as dropped.
LEMMA CancelDrops ==
  ASSUME Cancel, NEW e, Posted(e)
  PROVE  e \in dropped' \/ \E w \in posts \ Cancelled : e \in ToSet(w.events)
PROOF
  BY DEF Cancel, Posted

LEMMA KeptStep ==
  ASSUME EventFlowTypeOK, TakenOnce, NothingForgotten, [Next]_vars
  PROVE  NothingForgotten'
PROOF
<1> SUFFICES ASSUME open' # "closed", NEW e \in Taken'
             PROVE  Kept(e)'
  BY DEF NothingForgotten, Kept, Posted
<1>a. ASSUME open # "closed", e \in Taken
      PROVE  Kept(e)
  BY <1>a DEF NothingForgotten, Kept, Posted
<1>b. ASSUME UNCHANGED <<kind, ready>>
      PROVE  e \in Taken
  BY <1>b DEF Taken
<1>1. ASSUME NEW p \in Publishers, NEW d \in Events, Publish(p, d)
      PROVE  Kept(e)'
  <2>1. e \in Taken
    BY <1>1, PublishTakes
  <2> QED
    BY <1>1, <1>a, <2>1 DEF Publish, Kept, Posted
<1>2. ASSUME NEW p \in Publishers, Store(p)
      PROVE  Kept(e)'
  BY <1>2, <1>a, <1>b DEF Store, Kept, Posted
<1>3. CASE Begin
  <2> DEFINE s == Append(queue, Head(ready))
             w == Post(Head(ready), 0, s)
  <2>1. e \in Taken \/ e = Head(ready)
    BY <1>3, LoopTakes DEF Begin
  <2>2. Kept(e) \/ e = Head(ready)
    BY <1>3, <1>a, <2>1 DEF Begin
  <2>3. ToSet(s) = ToSet(queue) \cup {Head(ready)}
    BY <1>3, HeadAndTail, AppendedElement DEF Begin, EventFlowTypeOK
  <2>4. CASE Full
    <3>1. w.events = s
      BY DEF Post
    <3>2. Cancel /\ posts' = (posts \ Cancelled) \cup {w} /\ delivered' = delivered
      BY <1>3, <2>4 DEF Begin
    <3>3. dropped \subseteq dropped'
      BY <3>2 DEF Cancel
    <3> HIDE DEF w, s
    <3>4. CASE e \in ToSet(s)
      BY <3>1, <3>2, <3>4 DEF Kept, Posted
    <3>5. CASE Posted(e)
      BY <3>2, <3>5, CancelDrops DEF Kept, Posted
    <3>6. CASE e \in delivered \cup dropped
      BY <3>2, <3>3, <3>6 DEF Kept
    <3> QED
      BY <2>2, <2>3, <3>4, <3>5, <3>6 DEF Kept
  <2>5. CASE ~Full
    <3>1. queue' = s /\ UNCHANGED <<posts, delivered, dropped>>
      BY <1>3, <2>5 DEF Begin
    <3> HIDE DEF s
    <3> QED
      BY <2>2, <2>3, <3>1 DEF Kept, Posted
  <2> QED
    BY <2>4, <2>5
<1>4. CASE BeginClosed
  BY <1>4 DEF BeginClosed
<1>5. ASSUME NEW t \in Events, TimerFires(t)
      PROVE  Kept(e)'
  <2> DEFINE w == Post(0, t, queue)
  <2>1. Kept(e) /\ UNCHANGED <<delivered, dropped>>
    BY <1>5, <1>a, <1>b DEF TimerFires
  <2>2. CASE queue # <<>>
    <3>1. w.events = queue
      BY DEF Post
    <3>2. posts' = posts \cup {w}
      BY <1>5, <2>2 DEF TimerFires
    <3> HIDE DEF w
    <3> QED
      BY <2>1, <3>1, <3>2 DEF Kept, Posted
  <2>3. CASE queue = <<>>
    BY <1>5, <2>1, <2>3 DEF TimerFires, Kept, Posted
  <2> QED
    BY <2>2, <2>3
<1>6. ASSUME NEW t \in Events, TimerCleansUp(t)
      PROVE  Kept(e)'
  BY <1>6, <1>a, <1>b DEF TimerCleansUp, Kept, Posted
<1>7. ASSUME NEW w \in posts, PostSucceeds(w)
      PROVE  Kept(e)'
  <2>1. /\ posts' = posts \ {w} /\ delivered' = delivered \cup ToSet(w.events)
        /\ UNCHANGED <<queue, dropped, kind, ready>>
        /\ open # "closed"
    BY <1>7 DEF PostSucceeds, PostEnds
  <2> QED
    BY <1>a, <1>b, <2>1 DEF Kept, Posted
<1>8. ASSUME NEW w \in posts, RetryPost(w)
      PROVE  Kept(e)'
  <2> DEFINE again == [w EXCEPT !.attempt = @ + 1]
  <2>1. /\ posts' = (posts \ {w}) \cup {again}
        /\ delivered \subseteq delivered'
        /\ UNCHANGED <<queue, dropped, kind, ready, open>>
    BY <1>8 DEF RetryPost, AttemptFails
  <2>2. again.events = w.events
    BY DEF EventFlowTypeOK, PostType
  <2> HIDE DEF again
  <2> QED
    BY <1>a, <1>b, <2>1, <2>2 DEF Kept, Posted
<1>9. ASSUME NEW w \in posts, GiveUp(w)
      PROVE  Kept(e)'
  <2>1. /\ posts' = posts \ {w} /\ queue' = queue \o w.events
        /\ delivered \subseteq delivered'
        /\ UNCHANGED <<dropped, kind, ready>>
        /\ open # "closed"
    BY <1>9 DEF GiveUp, PostEnds, AttemptFails
  <2>2. ToSet(queue') = ToSet(queue) \cup ToSet(w.events)
    BY <2>1, PostEvents, Concatenation DEF EventFlowTypeOK
  <2> QED
    BY <1>a, <1>b, <2>1, <2>2 DEF Kept, Posted
<1>10. CASE Close
  <2> DEFINE w == Post(0, 0, queue)
  <2>1. CASE queue # <<>>
    <3>1. w.events = queue
      BY DEF Post
    <3>2. /\ Cancel /\ posts' = (posts \ Cancelled) \cup {w}
          /\ UNCHANGED <<delivered, kind, ready>> /\ open # "closed"
      BY <1>10, <2>1 DEF Close
    <3>3. dropped \subseteq dropped' /\ Kept(e)
      BY <1>a, <1>b, <3>2 DEF Cancel
    <3> HIDE DEF w
    <3>4. CASE Posted(e)
      BY <3>2, <3>4, CancelDrops DEF Kept, Posted
    <3>5. CASE e \in delivered \cup dropped \cup ToSet(queue)
      BY <3>1, <3>2, <3>3, <3>5 DEF Kept, Posted
    <3> QED
      BY <3>3, <3>4, <3>5 DEF Kept
  <2>2. CASE queue = <<>>
    BY <1>10, <2>2 DEF Close
  <2> QED
    BY <2>1, <2>2
<1>11. CASE Connect
  BY <1>11, <1>a, <1>b DEF Connect, Kept, Posted
<1>12. CASE ReadPage
  BY <1>12, <1>a, <1>b DEF ReadPage, Kept, Posted
<1>13. CASE UNCHANGED vars
  BY <1>13, <1>a, <1>b DEF vars, Kept, Posted
<1> QED
  BY <1>1, <1>2, <1>3, <1>4, <1>5, <1>6, <1>7, <1>8, <1>9, <1>10, <1>11, <1>12, <1>13
     DEF Next

-----------------------------------------------------------------------------
(* The buffer and its timer.                                               *)

LEMMA BufferStep ==
  ASSUME EventFlowTypeOK, EventFlowTypeOK', BufferBounded, [Next]_vars
  PROVE  BufferBounded'
PROOF
<1> SUFFICES ASSUME faults' = 0
             PROVE  Len(queue') < BufferSize
  BY DEF BufferBounded
<1>a. faults = 0 => Len(queue) < BufferSize
  BY DEF BufferBounded
<1>b. faults \in Nat /\ BufferSize \in Nat \ {0} /\ Len(<<>>) = 0
  BY DEF EventFlowTypeOK
<1>c. ASSUME UNCHANGED <<queue, faults>>
      PROVE  Len(queue') < BufferSize
  BY <1>a, <1>c
<1>d. ASSUME queue' = <<>>
      PROVE  Len(queue') < BufferSize
  BY <1>b, <1>d
<1>1. ASSUME NEW p \in Publishers, NEW e \in Events, Publish(p, e)
      PROVE  Len(queue') < BufferSize
  BY <1>1, <1>c DEF Publish
<1>2. ASSUME NEW p \in Publishers, Store(p)
      PROVE  Len(queue') < BufferSize
  BY <1>2, <1>c DEF Store
<1>3. CASE Begin
  <2>1. CASE Full
    BY <1>3, <1>d, <2>1 DEF Begin
  <2>2. CASE ~Full
    <3>1. queue' = Append(queue, Head(ready)) /\ Head(ready) \in Events
      BY <1>3, <2>2, HeadAndTail DEF Begin, EventFlowTypeOK
    <3>2. Len(queue') = Len(queue) + 1 /\ Len(queue) \in Nat
      BY <3>1 DEF EventFlowTypeOK
    <3> QED
      BY <1>b, <2>2, <3>2 DEF Full
  <2> QED
    BY <2>1, <2>2
<1>4. CASE BeginClosed
  BY <1>4, <1>c DEF BeginClosed
<1>5. ASSUME NEW t \in Events, TimerFires(t)
      PROVE  Len(queue') < BufferSize
  BY <1>5, <1>c, <1>d DEF TimerFires
<1>6. ASSUME NEW t \in Events, TimerCleansUp(t)
      PROVE  Len(queue') < BufferSize
  BY <1>6, <1>c DEF TimerCleansUp
<1>7. ASSUME NEW w \in posts, PostSucceeds(w)
      PROVE  Len(queue') < BufferSize
  BY <1>7, <1>c DEF PostSucceeds
<1>8. ASSUME NEW w \in posts, AttemptFails(w)
      PROVE  FALSE
  BY <1>8, <1>b DEF AttemptFails
<1>9. CASE Close
  BY <1>9, <1>d DEF Close
<1>10. CASE Connect
  BY <1>10, <1>c DEF Connect
<1>11. CASE ReadPage
  BY <1>11, <1>c DEF ReadPage
<1>12. CASE UNCHANGED vars
  BY <1>12, <1>c DEF vars
<1> QED
  BY <1>1, <1>2, <1>3, <1>4, <1>5, <1>6, <1>7, <1>8, <1>9, <1>10, <1>11, <1>12
     DEF Next, RetryPost, GiveUp

LEMMA TimerStep ==
  ASSUME EventFlowTypeOK, NoDeadTimer, [Next]_vars
  PROVE  NoDeadTimer'
PROOF
<1> USE DEF NoDeadTimer
<1>a. /\ flushTimer \in Events \cup {0} /\ DOMAIN timer = Events
      /\ 0 \notin Events
  BY DEF EventFlowTypeOK, Events
<1>1. ASSUME NEW p \in Publishers, NEW e \in Events, Publish(p, e)
      PROVE  NoDeadTimer'
  BY <1>1 DEF Publish
<1>2. ASSUME NEW p \in Publishers, Store(p)
      PROVE  NoDeadTimer'
  BY <1>2 DEF Store
<1>3. CASE Begin
  <2>1. CASE Full
    BY <1>3, <2>1 DEF Begin, Cancel
  <2>2. CASE ~Full
    <3>1. Head(ready) \in Events
      BY <1>3, HeadAndTail DEF Begin, EventFlowTypeOK
    <3>2. CASE flushTimer = 0
      BY <1>3, <1>a, <2>2, <3>1, <3>2 DEF Begin, EventFlowTypeOK
    <3>3. CASE flushTimer # 0
      BY <1>3, <2>2, <3>3 DEF Begin
    <3> QED
      BY <3>2, <3>3
  <2> QED
    BY <2>1, <2>2
<1>4. CASE BeginClosed
  BY <1>4 DEF BeginClosed
<1>5. ASSUME NEW t \in Events, TimerFires(t)
      PROVE  NoDeadTimer'
  BY <1>5, <1>a DEF TimerFires, EventFlowTypeOK
<1>6. ASSUME NEW t \in Events, TimerCleansUp(t)
      PROVE  NoDeadTimer'
  BY <1>6, <1>a DEF TimerCleansUp, EventFlowTypeOK
<1>7. ASSUME NEW w \in posts, PostEnds(w)
      PROVE  NoDeadTimer'
  BY <1>7 DEF PostEnds
<1>8. ASSUME NEW w \in posts, RetryPost(w)
      PROVE  NoDeadTimer'
  BY <1>8 DEF RetryPost
<1>9. CASE Close
  BY <1>9 DEF Close, Cancel
<1>10. CASE Connect
  BY <1>10 DEF Connect
<1>11. CASE ReadPage
  BY <1>11 DEF ReadPage
<1>12. CASE UNCHANGED vars
  BY <1>12 DEF vars
<1> QED
  BY <1>1, <1>2, <1>3, <1>4, <1>5, <1>6, <1>7, <1>8, <1>9, <1>10, <1>11, <1>12
     DEF Next, PostSucceeds, GiveUp

-----------------------------------------------------------------------------
(* The client misses nothing.                                              *)

\* A step that stores nothing and sends no page leaves a client that stays with
\* everything that was to come.
LoopOnly ==
    /\ UNCHANGED <<publishVars, next, early>>
    /\ client' \in {client, "off"}
    /\ client' # "off" => \A e \in Events : Comes(e) => Comes(e)'
    /\ open' = "closed" => client' = "off"
    /\ client' = "off" => open' # "open" \/ (client = "off" /\ open = "open")

LEMMA LoopKeeps ==
  ASSUME EventFlowTypeOK, ClientInv, LoopOnly
  PROVE  ClientInv'
PROOF
<1>1. LockedWhileStoring'
  BY DEF ClientInv, LoopOnly, LockedWhileStoring
<1>2. log \subseteq Events
  BY DEF EventFlowTypeOK
<1>3. \A e \in Events : Slipped(e)' <=> Slipped(e)
  BY DEF LoopOnly, Slipped
<1>4. /\ \A e \in log' : Published(e)'
      /\ client' = "off" => next' = 1 \/ open' # "open"
      /\ open' = "closed" => client' = "off"
  BY DEF ClientInv, LoopOnly, Streamed, Published
<1>5. ASSUME client' # "off", NEW e \in log'
      PROVE  Comes(e)' \/ Slipped(e)' \/ (client' = "reading" /\ next' <= e)
  <2>1. e \in log /\ e \in Events /\ client' = client /\ next' = next
    BY <1>2, <1>5 DEF LoopOnly
  <2>2. Comes(e) \/ Slipped(e) \/ (client = "reading" /\ next <= e)
    BY <1>5, <2>1 DEF ClientInv, Streamed
  <2> QED
    BY <1>3, <1>5, <2>1, <2>2 DEF LoopOnly
<1>6. ASSUME client' # "off", NEW p \in Publishers, NEW e \in Events, publishing'[p] = e
      PROVE  \/ Comes(e)' \/ Slipped(e)'
             \/ kind'[e] = "locked" /\ client' = "reading" /\ next' = 1
  <2>1. publishing[p] = e /\ client' = client /\ next' = next /\ kind' = kind
    BY <1>6 DEF LoopOnly
  <2>2. \/ Comes(e) \/ Slipped(e)
        \/ kind[e] = "locked" /\ client = "reading" /\ next = 1
    BY <1>6, <2>1 DEF ClientInv, Streamed
  <2> QED
    BY <1>3, <1>6, <2>1, <2>2 DEF LoopOnly
<1> QED
  BY <1>1, <1>4, <1>5, <1>6 DEF ClientInv, Streamed

LEMMA PublishKeepsClient ==
  ASSUME EventFlowTypeOK, TakenOnce, ClientInv, NEW p \in Publishers, NEW e \in Events,
         Publish(p, e)
  PROVE  ClientInv'
PROOF
<1>1. /\ ~Published(e) /\ ToSet(ready') = ToSet(ready) \cup {e}
      /\ \A d \in Events : /\ Published(d)' <=> Published(d) \/ d = e
                           /\ Published(d) => kind'[d] = kind[d]
  BY PublishTakes
<1>2. UNCHANGED <<log, held, open, clientVars>>
  BY DEF Publish
<1>3. Comes(e)' /\ \A d : Comes(d) => Comes(d)'
  BY <1>1, <1>2 DEF Comes
<1>4. PICK k \in {"stored", "locked", "transient"} :
         /\ kind' = [kind EXCEPT ![e] = k]
         /\ publishing' = (IF k = "transient" THEN publishing
                           ELSE [publishing EXCEPT ![p] = e])
         /\ IF k = "locked" THEN lock = None /\ lock' = p ELSE UNCHANGED lock
  BY DEF Publish
<1>5. kind'[e] = k
  BY <1>4 DEF EventFlowTypeOK
<1>6. ASSUME NEW q \in Publishers, NEW d \in Events, publishing'[q] = d
      PROVE  \/ q = p /\ d = e /\ k # "transient"
             \/ publishing[q] = d /\ kind'[d] = kind[d] /\ Published(d)
  <2>1. publishing[q] = d \/ (q = p /\ d = e /\ k # "transient")
    BY <1>4, <1>6 DEF EventFlowTypeOK
  <2>2. CASE publishing[q] = d
    <3>1. kind[d] \in {"stored", "locked"}
      BY <2>2 DEF ClientInv, LockedWhileStoring
    <3> QED
      BY <1>1, <2>2, <3>1 DEF Published
  <2> QED
    BY <2>1, <2>2
<1>7. LockedWhileStoring'
  <2> SUFFICES ASSUME NEW q \in Publishers, NEW d \in Events, publishing'[q] = d
               PROVE  kind'[d] \in {"stored", "locked"} /\ (kind'[d] = "locked" => lock' = q)
    BY DEF LockedWhileStoring
  <2>1. CASE q = p /\ d = e /\ k # "transient"
    BY <1>4, <1>5, <2>1
  <2>2. CASE publishing[q] = d /\ kind'[d] = kind[d] /\ Published(d)
    <3>1. kind[d] \in {"stored", "locked"} /\ (kind[d] = "locked" => lock = q)
      BY <2>2 DEF ClientInv, LockedWhileStoring
    <3>2. q # None
      OBVIOUS
    <3> QED
      BY <1>4, <2>2, <3>1, <3>2
  <2> QED
    BY <1>6, <2>1, <2>2
<1>8. \A d \in Events : Slipped(d) => Slipped(d)'
  <2> SUFFICES ASSUME NEW d \in Events, Slipped(d)
               PROVE  Slipped(d)'
    OBVIOUS
  <2>1. Published(d)
    BY DEF Slipped, Published
  <2> QED
    BY <1>1, <1>2, <2>1 DEF Slipped
<1>9. log \subseteq Events /\ \A d \in log : Published(d)
  BY DEF EventFlowTypeOK, ClientInv, Streamed
<1>10. /\ \A d \in log' : Published(d)'
       /\ client' = "off" => next' = 1 \/ open' # "open"
       /\ open' = "closed" => client' = "off"
  BY <1>1, <1>2, <1>9 DEF ClientInv, Streamed
<1>11. ASSUME client' # "off", NEW d \in log'
       PROVE  Comes(d)' \/ Slipped(d)' \/ (client' = "reading" /\ next' <= d)
  <2>1. Comes(d) \/ Slipped(d) \/ (client = "reading" /\ next <= d)
    BY <1>2, <1>11 DEF ClientInv, Streamed
  <2> QED
    BY <1>2, <1>3, <1>8, <1>9, <1>11, <2>1
<1>12. ASSUME client' # "off", NEW q \in Publishers, NEW d \in Events, publishing'[q] = d
       PROVE  \/ Comes(d)' \/ Slipped(d)'
              \/ kind'[d] = "locked" /\ client' = "reading" /\ next' = 1
  <2>1. CASE d = e
    BY <1>3, <2>1
  <2>2. CASE publishing[q] = d /\ kind'[d] = kind[d]
    <3>1. \/ Comes(d) \/ Slipped(d)
          \/ kind[d] = "locked" /\ client = "reading" /\ next = 1
      BY <1>2, <1>12, <2>2 DEF ClientInv, Streamed
    <3> QED
      BY <1>2, <1>3, <1>8, <2>2, <3>1
  <2> QED
    BY <1>6, <1>12, <2>1, <2>2
<1>13. Streamed'
  BY <1>10, <1>11, <1>12 DEF Streamed
<1> QED
  BY <1>7, <1>13 DEF ClientInv

LEMMA StoreKeepsClient ==
  ASSUME EventFlowTypeOK, ClientInv, NEW p \in Publishers, Store(p)
  PROVE  ClientInv'
PROOF
<1> DEFINE e == publishing[p]
<1>1. /\ e \in Events /\ kind[e] \in {"stored", "locked"}
      /\ log' = log \cup {e}
      /\ publishing' = [publishing EXCEPT ![p] = 0]
      /\ lock' = (IF lock = p THEN None ELSE lock)
      /\ UNCHANGED <<kind, ready, held, open, clientVars>>
  <2>1. e \in Events
    BY DEF Store, EventFlowTypeOK
  <2> QED
    BY <2>1 DEF Store, ClientInv, LockedWhileStoring
<1>2. \A d : /\ Comes(d)' <=> Comes(d)
             /\ Slipped(d)' <=> Slipped(d)
  BY <1>1 DEF Comes, Slipped
<1>3. \A q \in Publishers, d \in Events : publishing'[q] = d => q # p /\ publishing[q] = d
  BY <1>1 DEF EventFlowTypeOK, Events
<1> HIDE DEF e
<1>4. LockedWhileStoring'
  BY <1>1, <1>3 DEF ClientInv, LockedWhileStoring
<1>5. ASSUME client' # "off", NEW d \in log'
      PROVE  Comes(d)' \/ Slipped(d)' \/ (client' = "reading" /\ next' <= d)
  <2>1. CASE d \in log
    BY <1>1, <1>2, <1>5, <2>1 DEF ClientInv, Streamed
  <2>2. CASE d = e
    <3>1. \/ Comes(e) \/ Slipped(e)
          \/ client = "reading" /\ next = 1
      BY <1>1, <1>5 DEF e, ClientInv, Streamed
    <3>2. 1 <= e
      BY <1>1 DEF Events
    <3> QED
      BY <1>1, <1>2, <2>2, <3>1, <3>2
  <2> QED
    BY <1>1, <1>5, <2>1, <2>2
<1>6. ASSUME client' # "off", NEW q \in Publishers, NEW d \in Events, publishing'[q] = d
      PROVE  \/ Comes(d)' \/ Slipped(d)'
             \/ kind'[d] = "locked" /\ client' = "reading" /\ next' = 1
  BY <1>1, <1>2, <1>3, <1>6 DEF ClientInv, Streamed
<1>7. /\ \A d \in log' : Published(d)'
      /\ client' = "off" => next' = 1 \/ open' # "open"
      /\ open' = "closed" => client' = "off"
  BY <1>1 DEF ClientInv, Streamed, Published
<1>8. Streamed'
  BY <1>5, <1>6, <1>7 DEF Streamed
<1> QED
  BY <1>4, <1>8 DEF ClientInv

\* What is being stored when the client subscribes comes to it, slips by, or
\* holds the lock of the state.
LEMMA ConnectKeepsClient ==
  ASSUME EventFlowTypeOK, ClientInv, Connect
  PROVE  ClientInv'
PROOF
<1>1. /\ client = "off" /\ open = "open" /\ client' = "reading"
      /\ early' = {e \in Events \ ToSet(ready) : \E p \in Publishers : publishing[p] = e}
      /\ UNCHANGED <<publishVars, ready, held, open, next, received>>
  BY DEF Connect
<1>2. next = 1
  BY <1>1 DEF ClientInv, Streamed
<1>3. LockedWhileStoring'
  BY <1>1 DEF ClientInv, LockedWhileStoring
<1>4. \A e \in log' : next' <= e
  BY <1>1, <1>2 DEF EventFlowTypeOK, Events
<1>5. ASSUME NEW p \in Publishers, NEW e \in Events, publishing'[p] = e
      PROVE  Comes(e)' \/ Slipped(e)' \/ kind'[e] = "locked"
  <2>1. publishing[p] = e /\ kind[e] \in {"stored", "locked"}
    BY <1>1, <1>5 DEF ClientInv, LockedWhileStoring
  <2>2. CASE e \in ToSet(ready)
    BY <1>1, <2>2 DEF Comes
  <2>3. CASE e \notin ToSet(ready)
    BY <1>1, <2>1, <2>3 DEF Slipped
  <2> QED
    BY <2>2, <2>3
<1>6. Streamed'
  BY <1>1, <1>2, <1>4, <1>5 DEF ClientInv, Streamed, Published
<1> QED
  BY <1>3, <1>6 DEF ClientInv

\* A page under the lock of the state: nothing is being stored under it.
LEMMA PageKeepsClient ==
  ASSUME EventFlowTypeOK, ClientInv, ReadPage
  PROVE  ClientInv'
PROOF
<1>1. /\ client = "reading" /\ lock = None
      /\ received' = received \cup Page
      /\ client' \in {"reading", "live"}
      /\ UNCHANGED <<publishVars, ready, held, open, early>>
  BY DEF ReadPage
<1>2. \A e : /\ Comes(e) => Comes(e)'
             /\ Slipped(e)' <=> Slipped(e)
  BY <1>1 DEF Comes, Slipped
<1>3. LockedWhileStoring'
  BY <1>1 DEF ClientInv, LockedWhileStoring
<1>4. \A p \in Publishers, e \in Events : publishing[p] = e => kind[e] # "locked"
  BY <1>1 DEF ClientInv, LockedWhileStoring
<1>5. ASSUME NEW e \in log'
      PROVE  Comes(e)' \/ Slipped(e)' \/ (client' = "reading" /\ next' <= e)
  <2>1. CASE e \in Page
    BY <1>1, <2>1 DEF Comes
  <2>2. CASE e \in Rest \ Page
    BY <2>2 DEF ReadPage
  <2>3. CASE e \notin Rest
    <3>1. ~(next <= e)
      BY <1>1, <2>3 DEF Rest, EventFlowTypeOK
    <3>2. Comes(e) \/ Slipped(e)
      BY <1>1, <3>1 DEF ClientInv, Streamed
    <3> QED
      BY <1>2, <3>2
  <2> QED
    BY <2>1, <2>2, <2>3
<1>6. ASSUME NEW p \in Publishers, NEW e \in Events, publishing'[p] = e
      PROVE  Comes(e)' \/ Slipped(e)'
  BY <1>1, <1>2, <1>4, <1>6 DEF ClientInv, Streamed
<1>7. Streamed'
  BY <1>1, <1>5, <1>6 DEF ClientInv, Streamed, Published
<1> QED
  BY <1>3, <1>7 DEF ClientInv

LEMMA ClientStep ==
  ASSUME EventFlowTypeOK, TakenOnce, ClientInv, [Next]_vars
  PROVE  ClientInv'
PROOF
<1>a. open = "closed" => client = "off"
  BY DEF ClientInv, Streamed
<1>1. ASSUME NEW p \in Publishers, NEW e \in Events, Publish(p, e)
      PROVE  ClientInv'
  BY <1>1, PublishKeepsClient
<1>2. ASSUME NEW p \in Publishers, Store(p)
      PROVE  ClientInv'
  BY <1>2, StoreKeepsClient
<1>3. CASE Begin
  <2>a. PICK d : d = Head(ready)
    OBVIOUS
  <2>1. ToSet(ready) = ToSet(ready') \cup {d}
    BY <1>3, <2>a, LoopTakes DEF Begin
  <2>2. ASSUME client # "off"
        PROVE  Comes(d)'
    <3>1. CASE Full
      BY <1>3, <2>2, <2>a, <3>1 DEF Begin, Subscribed, Comes
    <3>2. CASE ~Full
      BY <1>3, <2>2, <2>a, <3>2 DEF Begin, Subscribed, Deliver, Comes
    <3> QED
      BY <3>1, <3>2
  <2>3. /\ UNCHANGED <<publishVars, next, early, client, open>>
        /\ received \subseteq received' /\ held \subseteq held'
    BY <1>3 DEF Begin, Deliver
  <2>4. client # "off" => \A e \in Events : Comes(e) => Comes(e)'
    BY <2>1, <2>2, <2>3 DEF Comes
  <2>5. LoopOnly
    BY <1>a, <2>3, <2>4 DEF LoopOnly
  <2> QED
    BY <2>5, LoopKeeps
<1>4. CASE BeginClosed
  BY <1>4, <1>a, LoopKeeps DEF BeginClosed, LoopOnly
<1>5. ASSUME NEW w \in posts, PostEnds(w), UNCHANGED <<publishVars, ready, next, early>>
      PROVE  ClientInv'
  <2>1. ASSUME NEW e \in Events, Comes(e)
        PROVE  Comes(e)'
    <3>1. CASE [event |-> e, client |-> TRUE] \in held /\ e = w.event
      <4> DEFINE h == [event |-> e, client |-> TRUE]
      <4>1. h \in {x \in held : x.event = w.event /\ x.client} /\ h.event = e
        BY <3>1
      <4> HIDE DEF h
      <4>2. e \in received'
        BY <1>5, <4>1 DEF PostEnds
      <4> QED
        BY <4>2 DEF Comes
    <3>2. CASE [event |-> e, client |-> TRUE] \in held /\ e # w.event
      BY <1>5, <3>2 DEF PostEnds, Comes
    <3>3. CASE e \in received \cup ToSet(ready)
      BY <1>5, <3>3 DEF PostEnds, Comes
    <3> QED
      BY <2>1, <3>1, <3>2, <3>3 DEF Comes
  <2>2. LoopOnly
    BY <1>5, <1>a, <2>1 DEF LoopOnly, PostEnds
  <2> QED
    BY <2>2, LoopKeeps
<1>6. ASSUME UNCHANGED <<publishVars, next, early, received, ready, held>>,
             client' \in {client, "off"}, open' = "closed" => client' = "off",
             client' = "off" => open' # "open" \/ (client = "off" /\ open = "open")
      PROVE  ClientInv'
  <2>1. LoopOnly
    BY <1>6 DEF LoopOnly, Comes
  <2> QED
    BY <2>1, LoopKeeps
<1>b. client = "off" => open # "open" \/ (client = "off" /\ open = "open")
  OBVIOUS
<1>7. ASSUME NEW t \in Events, TimerFires(t) \/ TimerCleansUp(t)
      PROVE  ClientInv'
  BY <1>7, <1>6, <1>a, <1>b DEF TimerFires, TimerCleansUp
<1>8. ASSUME NEW w \in posts, RetryPost(w)
      PROVE  ClientInv'
  BY <1>8, <1>6, <1>a, <1>b DEF RetryPost
<1>9. CASE Close
  BY <1>9, <1>6, <1>a DEF Close
<1>10. CASE Connect
  BY <1>10, ConnectKeepsClient
<1>11. CASE ReadPage
  BY <1>11, PageKeepsClient
<1>12. CASE UNCHANGED vars
  BY <1>12, <1>6, <1>a, <1>b DEF vars
<1> QED
  BY <1>1, <1>2, <1>3, <1>4, <1>5, <1>7, <1>8, <1>9, <1>10, <1>11, <1>12
     DEF Next, PostSucceeds, GiveUp

-----------------------------------------------------------------------------
(* The theorems.                                                           *)

LEMMA InitInv == Init => IInv
PROOF
<1> SUFFICES ASSUME Init
             PROVE  IInv
  OBVIOUS
<1>1. log = {} /\ ToSet(ready) = {} /\ ToSet(queue) = {}
  BY EmptySequence DEF Init
<1>2. Taken = {}
  BY <1>1 DEF Init, Taken
<1>3. EventFlowTypeOK
  BY DEF Init, EventFlowTypeOK
<1>4. HookInv
  BY <1>1, EmptySequence DEF Init, HookInv, OnceWithWebhook, TakenOnce
<1>5. NothingForgotten
  BY <1>2 DEF NothingForgotten
<1>6. BufferBounded
  BY DEF Init, BufferBounded
<1>7. NoDeadTimer
  BY DEF Init, NoDeadTimer
<1>8. ClientInv
  <2>1. LockedWhileStoring
    BY DEF Init, LockedWhileStoring, Events
  <2>2. Streamed
    BY <1>1 DEF Init, Streamed
  <2> QED
    BY <2>1, <2>2 DEF ClientInv
<1> QED
  BY <1>3, <1>4, <1>5, <1>6, <1>7, <1>8 DEF IInv

LEMMA StepInv == IInv /\ [Next]_vars => IInv'
PROOF
  BY TypeStep, HookStep, KeptStep, BufferStep, TimerStep, ClientStep DEF IInv, HookInv

LEMMA AlwaysInv == Spec => []IInv
PROOF
  BY InitInv, StepInv, PTL DEF Spec

\* Every variable keeps its type.
THEOREM FlowTyped == Spec => []EventFlowTypeOK
PROOF
<1>1. IInv => EventFlowTypeOK
  BY DEF IInv
<1> QED
  BY <1>1, AlwaysInv, PTL

\* Whatever posts fail, are tried again, overlap or are cancelled with their
\* timer, an event the webhook was handed is delivered, dropped with a cancelled
\* post, or still with the webhook, for any number of events and failures.
THEOREM EventsKept == Spec => []NothingForgotten
PROOF
<1>1. IInv => NothingForgotten
  BY DEF IInv
<1> QED
  BY <1>1, AlwaysInv, PTL

\* The queue and the posts under way never share an event, so no event is put
\* back twice.
THEOREM WebhookHasOnce == Spec => []OnceWithWebhook
PROOF
<1>1. IInv => OnceWithWebhook
  BY DEF IInv, HookInv
<1> QED
  BY <1>1, AlwaysInv, PTL

\* Until a post fails the buffer stays below the size it is posted at, for every
\* size.
THEOREM BufferStaysBelowSize == Spec => []BufferBounded
PROOF
<1>1. IInv => BufferBounded
  BY DEF IInv
<1> QED
  BY <1>1, AlwaysInv, PTL

\* The timer the webhook knows of sleeps or posts, however the clean-up of a
\* cancelled timer is delayed.
THEOREM TimerIsAlive == Spec => []NoDeadTimer
PROOF
<1>1. IInv => NoDeadTimer
  BY DEF IInv
<1> QED
  BY <1>1, AlwaysInv, PTL

\* Between the pages of the log and the live stream a client misses no event but
\* one that, when it subscribed, the loop had already handed out and a run or
\* send_message had not yet stored; for any number of publishers, whatever kinds
\* of events they publish, any page size and any log.
THEOREM ClientMissesNothing == Spec => []NothingMissed
PROOF
<1>1. IInv => NothingMissed
  BY DEF IInv, ClientInv, Streamed, Comes, Slipped, NothingMissed
<1> QED
  BY <1>1, AlwaysInv, PTL
=============================================================================
