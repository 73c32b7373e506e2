----------------------------- MODULE EventFlow -----------------------------
(***************************************************************************)
(* What happens to an event of a conversation: the thread that publishes   *)
(* it schedules a coroutine on the event loop and then appends it to the   *)
(* log; the coroutine hands it to the subscribers one after the other,     *)
(* here a webhook and then a WebSocket client.  The webhook buffers events *)
(* and posts them when the buffer is full or its timer fires; the client   *)
(* subscribes and then has the stored events sent again, page by page.     *)
(*                                                                         *)
(* A search takes the lock of the conversation state.  The run loop and    *)
(* send_message publish without that lock, so a search may fall between    *)
(* the scheduling and the storing of their events; a rejection and the     *)
(* answer to a review publish theirs under it.  Events of the conversation *)
(* itself, published without the agent's id, are not stored (pauses,       *)
(* statistics).  An event stands for its number, which is also its place   *)
(* in time, and a timer for the event that started it.                     *)
(***************************************************************************)
EXTENDS Integers, Sequences, FiniteSets, SequencesExt

CONSTANTS
    Publishers,      \* the threads that publish
    Kinds,           \* of each, the kinds of events that its calls publish
    None,            \* nobody
    MaxEvents,       \* bound on the events
    BufferSize,      \* event_buffer_size
    MaxAttempts,     \* num_retries + 1
    PageSize,        \* limit of a search
    MaxFaults        \* bound on the attempts to post that fail

ASSUME EventFlowAssumption ==
    /\ None \notin Publishers
    /\ Kinds \in [Publishers -> SUBSET {"stored", "locked", "transient"}]
    /\ MaxEvents \in Nat
    /\ BufferSize \in Nat \ {0}
    /\ MaxAttempts \in Nat \ {0}
    /\ PageSize \in Nat \ {0}
    /\ MaxFaults \in Nat

Events == 1 .. MaxEvents

VARIABLES
    lock,        \* the publisher that holds the lock of the state
    kind,        \* of each event: stored, locked (stored under the lock of
                 \* the state), transient; or none yet
    publishing,  \* of each thread: the event it has still to store, or 0
    log,         \* the set of stored events; a search sorts them by time
    ready,       \* coroutines that are scheduled
    held,        \* coroutines that wait for a post of the webhook
    open,        \* the subscribers: open, closing, closed
    queue,       \* of the webhook
    timer,       \* of each event: the state of the timer it started
    flushTimer,  \* _flush_timer: the timer the webhook knows of, or 0
    posts,       \* posts under way, with the coroutine or timer of each
    delivered,   \* events the webhook's server has received
    dropped,     \* events whose post was cancelled
    faults,
    client,      \* off, reading (subscribed, being sent the log), live
    next,        \* the event the client's next page begins with (page_id)
    received,    \* events the client was sent
    early        \* history: what was not yet stored, and had already been
                 \* handed to the subscribers, when the client subscribed

publishVars == <<lock, kind, publishing, log>>
hookVars == <<queue, timer, flushTimer, posts, delivered, dropped, faults>>
clientVars == <<client, next, received, early>>
vars == <<publishVars, ready, held, open, hookVars, clientVars>>

Init ==
    /\ lock = None
    /\ kind = [e \in Events |-> "none"]
    /\ publishing = [p \in Publishers |-> 0]
    /\ log = {}
    /\ ready = <<>>
    /\ held = {}
    /\ open = "open"
    /\ queue = <<>>
    /\ timer = [e \in Events |-> "none"]
    /\ flushTimer = 0
    /\ posts = {}
    /\ delivered = {}
    /\ dropped = {}
    /\ faults = 0
    /\ client = "off"
    /\ next = 1
    /\ received = {}
    /\ early = {}

-----------------------------------------------------------------------------
(* Publishing.                                                             *)

NextEvent(e) == kind[e] = "none" /\ \A d \in 1 .. e - 1 : kind[d] # "none"

Publish(p, e) ==
    /\ publishing[p] = 0
    /\ NextEvent(e)
    /\ ready' = Append(ready, e)
    /\ \E k \in Kinds[p] :
        /\ kind' = [kind EXCEPT ![e] = k]
        /\ publishing' = IF k = "transient" THEN publishing
                         ELSE [publishing EXCEPT ![p] = e]
        /\ IF k = "locked" THEN lock = None /\ lock' = p ELSE UNCHANGED lock
    /\ UNCHANGED <<log, held, open, hookVars, clientVars>>

Store(p) ==
    /\ publishing[p] # 0
    /\ log' = log \cup {publishing[p]}
    /\ publishing' = [publishing EXCEPT ![p] = 0]
    /\ lock' = IF lock = p THEN None ELSE lock
    /\ UNCHANGED <<kind, ready, held, open, hookVars, clientVars>>

-----------------------------------------------------------------------------
(* The webhook.                                                            *)

\* Mutant: the socket subscribes only after it has read the log.
SubscribedLate == client = "live"

Subscribed == client # "off"

\* Cancelling a timer that posts ends its post: the events are not put back.
Cancelled == {w \in posts : w.timer # 0 /\ w.timer = flushTimer}

Cancel ==
    /\ flushTimer' = 0
    /\ timer' = [t \in Events |->
            IF t = flushTimer /\ timer[t] \in {"sleeping", "posting"}
                THEN "cancelled" ELSE timer[t]]
    /\ dropped' = dropped \cup UNION {ToSet(w.events) : w \in Cancelled}

\* By event e's coroutine, timer t, or the close (both 0).
Post(e, t, events) == [event |-> e, timer |-> t, events |-> events, attempt |-> 1]

Deliver(e) == received' = received \cup {e}

\* Mutant: the buffer is flushed one event too late.
FullLate == Len(queue) + 1 > BufferSize

Full == Len(queue) + 1 >= BufferSize

\* The next coroutine begins: the webhook takes its event; unless the buffer
\* has to be posted, the client is sent it in the same step.
Begin ==
    /\ ready # <<>>
    /\ open # "closed"
    /\ ready' = Tail(ready)
    /\ LET e == Head(ready) IN
       \/ /\ Full
          /\ Cancel
          /\ posts' = (posts \ Cancelled) \cup {Post(e, 0, Append(queue, e))}
          /\ queue' = <<>>
          /\ held' = held \cup {[event |-> e, client |-> Subscribed]}
          /\ UNCHANGED received
       \/ /\ ~Full
          /\ queue' = Append(queue, e)
          /\ IF flushTimer = 0
                THEN /\ flushTimer' = e
                     /\ timer' = [timer EXCEPT ![e] = "sleeping"]
                ELSE UNCHANGED <<flushTimer, timer>>
          /\ IF Subscribed THEN Deliver(e) ELSE UNCHANGED received
          /\ UNCHANGED <<posts, held, dropped>>
    /\ UNCHANGED <<publishVars, open, delivered, faults, client, next, early>>

\* Nobody is subscribed any more.
BeginClosed ==
    /\ ready # <<>>
    /\ open = "closed"
    /\ ready' = Tail(ready)
    /\ UNCHANGED <<publishVars, held, open, hookVars, clientVars>>

\* Mutant: the queue is not cleared when its events are posted.
TimerFiresKeeps(t) ==
    /\ timer[t] = "sleeping"
    /\ queue # <<>>
    /\ timer' = [timer EXCEPT ![t] = "posting"]
    /\ posts' = posts \cup {Post(0, t, queue)}
    /\ UNCHANGED <<publishVars, ready, held, open, queue, flushTimer, delivered,
                   dropped, faults, clientVars>>

TimerFires(t) ==
    /\ timer[t] = "sleeping"
    /\ \/ /\ queue # <<>>
          /\ timer' = [timer EXCEPT ![t] = "posting"]
          /\ posts' = posts \cup {Post(0, t, queue)}
          /\ queue' = <<>>
          /\ UNCHANGED flushTimer
       \/ /\ queue = <<>>
          /\ timer' = [timer EXCEPT ![t] = "none"]
          /\ flushTimer' = 0
          /\ UNCHANGED <<posts, queue>>
    /\ UNCHANGED <<publishVars, ready, held, open, delivered, dropped, faults,
                   clientVars>>

\* The finally of a cancelled timer, which may come after the next one began;
\* a timer that was cancelled before its first step has none.
TimerCleansUp(t) ==
    /\ timer[t] = "cancelled"
    /\ timer' = [timer EXCEPT ![t] = "none"]
    /\ flushTimer' \in {0, flushTimer}
    /\ UNCHANGED <<publishVars, ready, held, open, queue, posts, delivered,
                   dropped, faults, clientVars>>

\* Mutant: the timer that ends stays the webhook's timer.
PostEndsStays(w) ==
    /\ posts' = posts \ {w}
    /\ timer' = IF w.timer = 0 THEN timer ELSE [timer EXCEPT ![w.timer] = "none"]
    /\ held' = {h \in held : h.event # w.event}
    /\ received' = received \cup
            {h.event : h \in {x \in held : x.event = w.event /\ x.client}}
    /\ open' = IF w.event = 0 /\ w.timer = 0 THEN "closed" ELSE open
    /\ client' = IF w.event = 0 /\ w.timer = 0 THEN "off" ELSE client
    /\ UNCHANGED flushTimer

\* Mutant: the coroutine that posted does not go on to the client.
PostEndsStops(w) ==
    /\ posts' = posts \ {w}
    /\ timer' = IF w.timer = 0 THEN timer ELSE [timer EXCEPT ![w.timer] = "none"]
    /\ flushTimer' = IF w.timer = 0 THEN flushTimer ELSE 0
    /\ held' = {h \in held : h.event # w.event}
    /\ open' = IF w.event = 0 /\ w.timer = 0 THEN "closed" ELSE open
    /\ client' = IF w.event = 0 /\ w.timer = 0 THEN "off" ELSE client
    /\ UNCHANGED received

\* What waited for the post goes on: the timer ends, the coroutine comes to the
\* client if it was a subscriber when the coroutine began, the close is done.
PostEnds(w) ==
    /\ posts' = posts \ {w}
    /\ timer' = IF w.timer = 0 THEN timer ELSE [timer EXCEPT ![w.timer] = "none"]
    /\ flushTimer' = IF w.timer = 0 THEN flushTimer ELSE 0
    /\ held' = {h \in held : h.event # w.event}
    /\ received' = received \cup
            {h.event : h \in {x \in held : x.event = w.event /\ x.client}}
    /\ open' = IF w.event = 0 /\ w.timer = 0 THEN "closed" ELSE open
    /\ client' = IF w.event = 0 /\ w.timer = 0 THEN "off" ELSE client

PostSucceeds(w) ==
    /\ delivered' = delivered \cup ToSet(w.events)
    /\ PostEnds(w)
    /\ UNCHANGED <<publishVars, ready, queue, dropped, faults, next, early>>

\* The answer of an attempt that failed may have been lost after the request
\* was received.
AttemptFails(w) ==
    /\ faults < MaxFaults
    /\ faults' = faults + 1
    /\ delivered' \in {delivered, delivered \cup ToSet(w.events)}

RetryPost(w) ==
    /\ w.attempt < MaxAttempts
    /\ AttemptFails(w)
    /\ posts' = (posts \ {w}) \cup {[w EXCEPT !.attempt = @ + 1]}
    /\ UNCHANGED <<publishVars, ready, held, open, queue, timer, flushTimer,
                   dropped, clientVars>>

\* Mutant: the events of a failed post are not put back.
GiveUpForgets(w) ==
    /\ w.attempt = MaxAttempts
    /\ AttemptFails(w)
    /\ PostEnds(w)
    /\ UNCHANGED <<publishVars, ready, queue, dropped, next, early>>

\* The events go to the end of the queue, and no timer is started for them.
GiveUp(w) ==
    /\ w.attempt = MaxAttempts
    /\ AttemptFails(w)
    /\ queue' = queue \o w.events
    /\ PostEnds(w)
    /\ UNCHANGED <<publishVars, ready, dropped, next, early>>

\* The subscribers are closed: the webhook posts what it has left.
Close ==
    /\ open = "open"
    /\ Cancel
    /\ queue' = <<>>
    /\ \/ /\ queue = <<>>
          /\ open' = "closed"
          /\ client' = "off"
          /\ posts' = posts \ Cancelled
       \/ /\ queue # <<>>
          /\ open' = "closing"
          /\ posts' = (posts \ Cancelled) \cup {Post(0, 0, queue)}
          /\ UNCHANGED client
    /\ UNCHANGED <<publishVars, ready, held, delivered, faults, next, received, early>>

-----------------------------------------------------------------------------
(* The client.                                                             *)

Connect ==
    /\ client = "off" /\ open = "open"
    /\ client' = "reading"
    /\ early' = {e \in Events \ ToSet(ready) : \E p \in Publishers : publishing[p] = e}
    /\ UNCHANGED <<publishVars, ready, held, open, hookVars, next, received>>

\* What is stored now and was not sent in an earlier page.
Rest == {e \in log : e >= next}

Page == {e \in Rest : Cardinality({d \in Rest : d < e}) < PageSize}

\* One search, under the lock of the state, and the events of its page.
ReadPage ==
    /\ client = "reading"
    /\ lock = None
    /\ received' = received \cup Page
    /\ \/ /\ Rest = Page
          /\ client' = "live"
          /\ next' = 1
       \/ /\ next' \in Rest \ Page
          /\ \A e \in Rest \ Page : next' <= e
          /\ UNCHANGED client
    /\ UNCHANGED <<publishVars, ready, held, open, hookVars, early>>

Next ==
    \/ \E p \in Publishers, e \in Events : Publish(p, e)
    \/ \E p \in Publishers : Store(p)
    \/ Begin \/ BeginClosed
    \/ \E t \in Events : TimerFires(t) \/ TimerCleansUp(t)
    \/ \E w \in posts : PostSucceeds(w) \/ RetryPost(w) \/ GiveUp(w)
    \/ Close
    \/ Connect \/ ReadPage

Spec == Init /\ [][Next]_vars

\* The event loop runs what is ready; a post ends, at the latest by its timeout
\* and its last attempt.  Nobody has to publish, store or read.
FairSpec ==
    /\ Spec
    /\ WF_vars(Begin \/ BeginClosed)
    /\ WF_vars(\E w \in posts : PostSucceeds(w) \/ RetryPost(w) \/ GiveUp(w))

-----------------------------------------------------------------------------
(* What must hold.                                                         *)

Taken == {e \in Events : kind[e] # "none"} \ ToSet(ready)

\* What a post is made of; a post is never empty.
PostType ==
    [event : Events \cup {0}, timer : Events \cup {0},
     events : Seq(Events) \ {<<>>}, attempt : 1 .. MaxAttempts]

\* A coroutine that waits, and whether there was a client when it began.
HeldType == [event : Events, client : BOOLEAN]

\* Types.
EventFlowTypeOK ==
    /\ lock \in Publishers \cup {None}
    /\ kind \in [Events -> {"none", "stored", "locked", "transient"}]
    /\ publishing \in [Publishers -> Events \cup {0}]
    /\ log \subseteq Events /\ ready \in Seq(Events) /\ queue \in Seq(Events)
    /\ held \subseteq HeldType
    /\ open \in {"open", "closing", "closed"}
    /\ timer \in [Events -> {"none", "sleeping", "posting", "cancelled"}]
    /\ flushTimer \in Events \cup {0}
    /\ posts \subseteq PostType
    /\ delivered \subseteq Events /\ dropped \subseteq Events
    /\ faults \in 0 .. MaxFaults
    /\ client \in {"off", "reading", "live"}
    /\ next \in Events \cup {1}
    /\ received \subseteq Events /\ early \subseteq Events

\* However posts fail, are tried again and overlap, the webhook's server has
\* every event that was handed to the webhook, or the webhook still has it; the
\* one exception are the events of a post that was cancelled with its timer.
\* (WebhookSubscriber)
NothingForgotten ==
    open # "closed" =>
        \A e \in Taken :
            \/ e \in delivered \/ e \in dropped
            \/ e \in ToSet(queue)
            \/ \E w \in posts : e \in ToSet(w.events)

\* No event is with the webhook twice: what a failed post puts back was not
\* also left in the queue or taken by another post.  (_post_events)
OnceWithWebhook ==
    /\ IsInjective(queue)
    /\ \A w \in posts :
           /\ IsInjective(w.events)
           /\ ToSet(w.events) \cap ToSet(queue) = {}
           /\ \A x \in posts \ {w} : ToSet(x.events) \cap ToSet(w.events) = {}

\* The buffer is posted when it is full: it grows past that only by what failed
\* posts put back.  (WebhookSubscriber.__call__)
BufferBounded == faults = 0 => Len(queue) < BufferSize

\* The timer the webhook waits for is one that will fire or is posting, so it
\* never keeps the next event from starting one.  (_flush_timer)
NoDeadTimer == flushTimer # 0 => timer[flushTimer] \in {"sleeping", "posting"}

\* A client that was sent the log has or will be sent every stored event,
\* whatever was published and stored while its pages were read: the one
\* exception is an event of the run loop or of send_message whose turn on the
\* event loop came before the client subscribed and that was not yet stored
\* then, so that neither the stream nor the pages need have it.  What a
\* rejection or a review publishes, under the lock of the state, is never
\* missed.  (events_socket, search_events)
NothingMissed ==
    client = "live" =>
        \A e \in log :
            \/ e \in early /\ kind[e] = "stored"
            \/ e \in received
            \/ e \in ToSet(ready)
            \/ [event |-> e, client |-> TRUE] \in held

\* An event that is published while the client is connected reaches it, however
\* long the webhook before it retries, unless the conversation is closed.
EventReachesClient ==
    \A e \in Events :
        (Subscribed /\ e \in ToSet(ready)) ~> (e \in received \/ open = "closed")

\* "The delay in seconds after which buffered events will be flushed to the
\* webhook, even if the buffer is not full." (server/config.py:38-40): while
\* events are buffered there is a timer that will flush them.
BufferedHasTimer ==
    open = "open" /\ queue # <<>> => \E t \in Events : timer[t] = "sleeping"
=============================================================================
