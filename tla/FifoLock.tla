------------------------------- MODULE FifoLock -------------------------------
(***************************************************************************)
(* FIFOLock, the lock of a conversation's state: reentrant, with a queue   *)
(* of waiters and optional timeouts.  Each method runs under the internal  *)
(* mutex and gives it up only inside Condition.wait, so a call is cut at   *)
(* its waits and nowhere else.                                             *)
(***************************************************************************)
EXTENDS Naturals, Sequences, SequencesExt

CONSTANTS
  Threads,
  NoThread,   \* _owner is None
  Impatient,  \* the threads that call acquire with a timeout
  MaxDepth    \* bound: nested acquisitions of one thread

ASSUME LockAssumption ==
  /\ NoThread \notin Threads
  /\ Impatient \subseteq Threads
  /\ MaxDepth \in Nat \ {0}

VARIABLES
  owner,    \* _owner
  count,    \* _count
  waiters,  \* _waiters, a thread standing for its condition
  awake,    \* threads whose wait has returned and that ask for the mutex
  expired   \* threads whose timeout is over

vars == <<owner, count, waiters, awake, expired>>

Waiting == {waiters[i] : i \in DOMAIN waiters}

-----------------------------------------------------------------------------
Init ==
  /\ owner = NoThread
  /\ count = 0
  /\ waiters = <<>>
  /\ awake = {}
  /\ expired = {}

Reenter(t) ==
  /\ owner = t
  /\ count < MaxDepth
  /\ count' = count + 1
  /\ UNCHANGED <<owner, waiters, awake, expired>>

\* Mutant of Grab: a free lock is taken past those who wait for it.
GrabPast(t) ==
  /\ owner = NoThread /\ t \notin Waiting
  /\ owner' = t
  /\ count' = 1
  /\ UNCHANGED <<waiters, awake, expired>>

Grab(t) ==
  /\ owner = NoThread /\ waiters = <<>>
  /\ owner' = t
  /\ count' = 1
  /\ UNCHANGED <<waiters, awake, expired>>

\* A call that does not block gives up here and changes nothing.
Enqueue(t) ==
  /\ owner # t /\ t \notin Waiting
  /\ owner # NoThread \/ waiters # <<>>
  /\ waiters' = Append(waiters, t)
  /\ UNCHANGED <<owner, count, awake, expired>>

\* The wait of an impatient thread returns without a notification, perhaps a
\* tick of the clock before its time is over.
Expire(t) ==
  /\ t \in Waiting \cap Impatient
  /\ t \notin expired
  /\ expired' \in {expired, expired \cup {t}}
  /\ awake' = awake \cup {t}
  /\ UNCHANGED <<owner, count, waiters>>

AtFront(t) == waiters # <<>> /\ Head(waiters) = t

Acquire(t) ==
  /\ t \in awake
  /\ AtFront(t) /\ owner = NoThread
  /\ waiters' = Tail(waiters)
  /\ owner' = t
  /\ count' = 1
  /\ awake' = awake \ {t}
  /\ expired' = expired \ {t}

\* Mutant of GiveUp: the clock is looked at before the lock.
GiveUpFirst(t) ==
  /\ t \in awake
  /\ t \in expired
  /\ \E i \in DOMAIN waiters :
       waiters[i] = t /\ waiters' = RemoveAt(waiters, i)
  /\ awake' = awake \ {t}
  /\ expired' = expired \ {t}
  /\ UNCHANGED <<owner, count>>

GiveUp(t) ==
  /\ t \in awake
  /\ ~(AtFront(t) /\ owner = NoThread)
  /\ t \in expired
  /\ \E i \in DOMAIN waiters :
       waiters[i] = t /\ waiters' = RemoveAt(waiters, i)
  /\ awake' = awake \ {t}
  /\ expired' = expired \ {t}
  /\ UNCHANGED <<owner, count>>

WaitAgain(t) ==
  /\ t \in awake
  /\ ~(AtFront(t) /\ owner = NoThread)
  /\ t \notin expired
  /\ awake' = awake \ {t}
  /\ UNCHANGED <<owner, count, waiters, expired>>

\* The last release notifies the first waiter.
Release(t) ==
  /\ owner = t
  /\ count' = count - 1
  /\ IF count > 1
     THEN UNCHANGED <<owner, awake>>
     ELSE /\ owner' = NoThread
          /\ awake' = awake \cup {w \in Waiting : AtFront(w)}
  /\ UNCHANGED <<waiters, expired>>

-----------------------------------------------------------------------------
Look(t) == Acquire(t) \/ GiveUp(t) \/ WaitAgain(t)

Next ==
  \E t \in Threads :
    \/ Reenter(t) \/ Grab(t) \/ Enqueue(t) \/ Expire(t) \/ Look(t) \/ Release(t)

Spec == Init /\ [][Next]_vars

\* A woken thread gets the mutex, and who holds the lock leaves its with blocks
\* one by one: it may enter inner ones again and again, but not for ever.
Fairness ==
  \A t \in Threads :
    /\ WF_vars(Look(t))
    /\ WF_vars(Release(t))
    /\ SF_vars(count = 1 /\ Release(t))

FairSpec == Spec /\ Fairness

-----------------------------------------------------------------------------
(* Properties.                                                              *)

\* Every variable has its type; a thread waits once, never for its own lock,
\* and only those that wait are woken or out of time.
FifoLockTypeOK ==
  /\ owner \in Threads \cup {NoThread}
  /\ count \in 0..MaxDepth
  /\ owner = NoThread <=> count = 0
  /\ waiters \in Seq(Threads)
  /\ \A i, j \in DOMAIN waiters : waiters[i] = waiters[j] => i = j
  /\ owner \notin Waiting
  /\ awake \subseteq Waiting
  /\ expired \subseteq awake

\* No wakeup is lost: whenever the lock is free and somebody waits, the first
\* waiter is up and will take it, although release() wakes one thread only and
\* a waiter whose timeout is over leaves without waking the next one.
NoLostWakeup == owner = NoThread /\ waiters # <<>> => Head(waiters) \in awake

\* Nobody starves: who waits gets the lock or, with a timeout, gives up.  A
\* lock just released goes to its waiters before any newcomer.
WaiterServed == \A t \in Threads : t \in Waiting ~> t \notin Waiting
=============================================================================
