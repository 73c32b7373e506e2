---------------------------- MODULE FifoLockProofs ----------------------------
(***************************************************************************)
(* The FIFO lock neither loses a wakeup nor mixes up its queue, whatever   *)
(* the number of threads and whichever of them use timeouts.               *)
(***************************************************************************)
EXTENDS FifoLock, SequenceTheorems, TLAPS

\* A queue without duplicates stays one when an entry leaves it, and the entry
\* is gone; its front changes only when the front itself leaves.
LEMMA RemoveAtFacts ==
  ASSUME NEW s \in Seq(Threads), NEW i \in DOMAIN s,
         \A j, k \in DOMAIN s : s[j] = s[k] => j = k
  PROVE  /\ RemoveAt(s, i) \in Seq(Threads)
         /\ \A j, k \in DOMAIN RemoveAt(s, i) :
              RemoveAt(s, i)[j] = RemoveAt(s, i)[k] => j = k
         /\ {RemoveAt(s, i)[j] : j \in DOMAIN RemoveAt(s, i)}
              = {s[j] : j \in DOMAIN s} \ {s[i]}
         /\ i # 1 => RemoveAt(s, i) # <<>> /\ Head(RemoveAt(s, i)) = Head(s)
PROOF
<1> DEFINE r == RemoveAt(s, i)
           a == SubSeq(s, 1, i - 1)
           b == SubSeq(s, i + 1, Len(s))
           at(j) == IF j < i THEN j ELSE j + 1
<1>1. i \in 1..Len(s) /\ Len(s) \in Nat /\ DOMAIN s = 1..Len(s)
  OBVIOUS
<1>2. a \in Seq(Threads) /\ Len(a) = i - 1 /\ \A j \in 1..(i - 1) : a[j] = s[j]
  BY <1>1
<1>3. b \in Seq(Threads) /\ Len(b) = Len(s) - i /\ \A j \in 1..(Len(s) - i) : b[j] = s[i + j]
  <2>1. \A j \in (i + 1)..Len(s) : s[j] \in Threads
    BY <1>1
  <2> HIDE DEF b
  <2>2. /\ b \in Seq(Threads)
        /\ Len(b) = IF i + 1 <= Len(s) THEN Len(s) - (i + 1) + 1 ELSE 0
        /\ \A j \in 1..(Len(s) - (i + 1) + 1) : b[j] = s[i + 1 + j - 1]
    BY <1>1, <2>1, SubSeqProperties DEF b
  <2>3. \A j \in 1..(Len(s) - i) : /\ j \in 1..(Len(s) - (i + 1) + 1)
                                   /\ i + 1 + j - 1 = i + j
    BY <1>1
  <2>4. \A j \in 1..(Len(s) - i) : b[j] = s[i + j]
    BY <2>2, <2>3
  <2>5. Len(b) = Len(s) - i
    BY <1>1, <2>2
  <2> QED
    BY <2>2, <2>4, <2>5
<1>4. /\ r \in Seq(Threads)
      /\ Len(r) = Len(s) - 1
      /\ \A j \in 1..(Len(s) - 1) : r[j] = s[at(j)]
  <2>1. r = a \o b
    BY DEF RemoveAt
  <2> HIDE DEF a, b, r
  <2>2. /\ a \o b \in Seq(Threads)
        /\ Len(a \o b) = Len(a) + Len(b)
        /\ \A j \in 1..(Len(a) + Len(b)) :
             (a \o b)[j] = IF j <= Len(a) THEN a[j] ELSE b[j - Len(a)]
    BY <1>2, <1>3, ConcatProperties
  <2>3. ASSUME NEW j \in 1..(Len(s) - 1)
        PROVE  r[j] = s[at(j)]
    <3>1. j \in 1..(Len(a) + Len(b)) /\ (j <= Len(a) <=> j < i)
      BY <1>1, <1>2, <1>3
    <3>2. CASE j < i
      BY <1>1, <1>2, <2>1, <2>2, <3>1, <3>2
    <3>3. CASE ~(j < i)
      <4>1. j - Len(a) \in 1..(Len(s) - i) /\ i + (j - Len(a)) = j + 1
        BY <1>1, <1>2, <3>3
      <4> QED
        BY <1>3, <2>1, <2>2, <3>1, <3>3, <4>1
    <3> QED
      BY <3>2, <3>3
  <2> QED
    BY <1>1, <1>2, <1>3, <2>1, <2>2, <2>3
<1>a. /\ \A j \in 1..(Len(s) - 1) : at(j) \in DOMAIN s \ {i}
      /\ \A j, k \in 1..(Len(s) - 1) : at(j) = at(k) => j = k
      /\ \A k \in DOMAIN s \ {i} : \E j \in 1..(Len(s) - 1) : at(j) = k
  <2>1. ASSUME NEW k \in DOMAIN s \ {i}
        PROVE  \E j \in 1..(Len(s) - 1) : at(j) = k
    <3>1. k < i => k \in 1..(Len(s) - 1) /\ at(k) = k
      BY <1>1
    <3>2. k > i => k - 1 \in 1..(Len(s) - 1) /\ at(k - 1) = k
      BY <1>1
    <3> QED
      BY <1>1, <3>1, <3>2
  <2> QED
    BY <1>1, <2>1
<1>b. DOMAIN r = 1..(Len(s) - 1)
  BY <1>4
<1> HIDE DEF r, at
<1>5. \A j, k \in DOMAIN r : r[j] = r[k] => j = k
  BY <1>4, <1>a, <1>b
<1>6. {r[j] : j \in DOMAIN r} = {s[j] : j \in DOMAIN s} \ {s[i]}
  <2>1. \A j \in DOMAIN r : r[j] \in {s[k] : k \in DOMAIN s} \ {s[i]}
    BY <1>4, <1>a, <1>b
  <2>2. \A k \in DOMAIN s : k # i => \E j \in DOMAIN r : r[j] = s[k]
    BY <1>4, <1>a, <1>b
  <2> QED
    BY <2>1, <2>2
<1>7. i # 1 => r # <<>> /\ Head(r) = Head(s)
  BY <1>1, <1>4 DEF at
<1> QED
  BY <1>4, <1>5, <1>6, <1>7 DEF r

-----------------------------------------------------------------------------
LockInv == FifoLockTypeOK /\ NoLostWakeup

LEMMA AcquireKeeps ==
  ASSUME LockInv, NEW t \in Threads, Acquire(t)
  PROVE  LockInv'
PROOF
<1> USE LockAssumption DEF LockInv, FifoLockTypeOK, Acquire, AtFront
<1>1. waiters' \in Seq(Threads) /\ \A j \in DOMAIN waiters' :
        j + 1 \in DOMAIN waiters /\ waiters'[j] = waiters[j + 1]
  OBVIOUS
<1>2. \A j, k \in DOMAIN waiters' : waiters'[j] = waiters'[k] => j = k
  BY <1>1
<1>3. t = waiters[1] /\ 1 \in DOMAIN waiters
  OBVIOUS
<1>4. Waiting' = Waiting \ {t}
  <2>1. \A j \in DOMAIN waiters : j # 1 => /\ j - 1 \in DOMAIN waiters'
                                            /\ waiters'[j - 1] = waiters[j]
    OBVIOUS
  <2>2. \A j \in DOMAIN waiters' : waiters'[j] # t
    <3>1. \A j \in DOMAIN waiters' : j + 1 # 1
      OBVIOUS
    <3> QED
      BY <1>1, <1>3, <3>1
  <2> HIDE DEF LockInv, FifoLockTypeOK, Acquire
  <2>3. Waiting' \subseteq Waiting \ {t}
    BY <1>1, <2>2 DEF Waiting
  <2>4. Waiting \ {t} \subseteq Waiting'
    BY <1>3, <2>1 DEF Waiting
  <2> QED
    BY <2>3, <2>4
<1> QED
  BY <1>1, <1>2, <1>4 DEF NoLostWakeup

LEMMA GiveUpKeeps ==
  ASSUME LockInv, NEW t \in Threads, GiveUp(t)
  PROVE  LockInv'
PROOF
<1> USE DEF LockInv, FifoLockTypeOK, GiveUp
<1>1. PICK i \in DOMAIN waiters : waiters[i] = t /\ waiters' = RemoveAt(waiters, i)
  OBVIOUS
<1>2. /\ waiters' \in Seq(Threads)
      /\ \A j, k \in DOMAIN waiters' : waiters'[j] = waiters'[k] => j = k
      /\ Waiting' = Waiting \ {t}
      /\ i # 1 => waiters' # <<>> /\ Head(waiters') = Head(waiters)
  <2>1. waiters \in Seq(Threads) /\ \A j, k \in DOMAIN waiters : waiters[j] = waiters[k] => j = k
    OBVIOUS
  <2> HIDE DEF LockInv, FifoLockTypeOK, GiveUp
  <2> DEFINE r == RemoveAt(waiters, i)
  <2>2. /\ r \in Seq(Threads)
        /\ \A j, k \in DOMAIN r : r[j] = r[k] => j = k
        /\ {r[j] : j \in DOMAIN r} = {waiters[j] : j \in DOMAIN waiters} \ {waiters[i]}
        /\ i # 1 => r # <<>> /\ Head(r) = Head(waiters)
    BY <2>1, RemoveAtFacts
  <2>3. waiters' = r
    BY <1>1
  <2> HIDE DEF r
  <2> QED
    BY <1>1, <2>2, <2>3 DEF Waiting
<1>3. FifoLockTypeOK'
  BY <1>2
<1>4. NoLostWakeup'
  <2>1. CASE owner # NoThread
    BY <2>1 DEF NoLostWakeup
  <2>2. CASE owner = NoThread
    <3>1. i # 1 /\ Head(waiters) # t
      BY <1>1, <2>2 DEF AtFront
    <3> QED
      BY <1>1, <1>2, <2>2, <3>1 DEF NoLostWakeup
  <2> QED
    BY <2>1, <2>2
<1> QED
  BY <1>3, <1>4

LEMMA EnqueueKeeps ==
  ASSUME LockInv, NEW t \in Threads, Enqueue(t)
  PROVE  LockInv'
PROOF
<1> USE DEF LockInv, FifoLockTypeOK, Enqueue
<1>1. /\ waiters' \in Seq(Threads)
      /\ Len(waiters') = Len(waiters) + 1
      /\ \A j \in DOMAIN waiters : waiters'[j] = waiters[j]
      /\ waiters'[Len(waiters) + 1] = t
  OBVIOUS
<1>2. Waiting' = Waiting \cup {t}
  BY <1>1 DEF Waiting
<1>3. \A j, k \in DOMAIN waiters' : waiters'[j] = waiters'[k] => j = k
  BY <1>1 DEF Waiting
<1>4. waiters # <<>> => Head(waiters') = Head(waiters)
  OBVIOUS
<1> QED
  BY <1>1, <1>2, <1>3, <1>4 DEF NoLostWakeup

LEMMA ReleaseKeeps ==
  ASSUME LockInv, NEW t \in Threads, Release(t)
  PROVE  LockInv'
PROOF
<1> USE LockAssumption DEF LockInv, FifoLockTypeOK, Release
<1>1. Waiting' = Waiting
  BY DEF Waiting
<1>2. waiters # <<>> => Head(waiters) \in Waiting
  BY DEF Waiting
<1>3. CASE count > 1
  BY <1>1, <1>3 DEF NoLostWakeup
<1>4. CASE ~(count > 1)
  <2>1. count' = 0 /\ owner' = NoThread /\ NoThread \notin Waiting
    BY <1>4 DEF Waiting
  <2>2. waiters # <<>> => Head(waiters) \in awake'
    BY <1>2, <1>4 DEF AtFront
  <2>3. awake' \subseteq Waiting'
    BY <1>1, <1>4
  <2> QED
    BY <1>1, <2>1, <2>2, <2>3 DEF NoLostWakeup
<1> QED
  BY <1>3, <1>4

LEMMA LockInvInductive == LockInv /\ [Next]_vars => LockInv'
PROOF
<1> SUFFICES ASSUME LockInv, [Next]_vars
             PROVE  LockInv'
  OBVIOUS
<1>1. ASSUME NEW t \in Threads,
             Reenter(t) \/ Grab(t) \/ Expire(t) \/ WaitAgain(t)
      PROVE  LockInv'
  <2>1. waiters' = waiters /\ Waiting' = Waiting
    BY <1>1 DEF Reenter, Grab, Expire, WaitAgain, Waiting
  <2>2. CASE Reenter(t)
    BY <2>1, <2>2, LockAssumption DEF LockInv, FifoLockTypeOK, NoLostWakeup, Reenter
  <2>3. CASE Grab(t)
    BY <2>1, <2>3, LockAssumption DEF LockInv, FifoLockTypeOK, NoLostWakeup, Grab, Waiting
  <2>4. CASE Expire(t)
    BY <2>1, <2>4 DEF LockInv, FifoLockTypeOK, NoLostWakeup, Expire
  <2>5. CASE WaitAgain(t)
    BY <2>1, <2>5 DEF LockInv, FifoLockTypeOK, NoLostWakeup, WaitAgain, AtFront
  <2> QED
    BY <1>1, <2>2, <2>3, <2>4, <2>5
<1>2. CASE UNCHANGED vars
  BY <1>2 DEF LockInv, FifoLockTypeOK, NoLostWakeup, Waiting, vars
<1> QED
  BY <1>1, <1>2, AcquireKeeps, GiveUpKeeps, EnqueueKeeps, ReleaseKeeps DEF Next, Look

LEMMA LockInvAlways == Spec => []LockInv
PROOF
<1>1. Init => LockInv
  BY LockAssumption DEF Init, LockInv, FifoLockTypeOK, NoLostWakeup, Waiting
<1> QED
  BY <1>1, LockInvInductive, PTL DEF Spec

\* The queue holds every waiting thread once and never the owner.
THEOREM LockTypeCorrect == Spec => []FifoLockTypeOK
PROOF
<1>1. LockInv => FifoLockTypeOK
  BY DEF LockInv
<1> QED
  BY <1>1, LockInvAlways, PTL

\* A free lock with waiters has woken the first of them: release() needs to
\* notify one thread only, and a timeout that ends a wait needs to notify none.
THEOREM WakeupNeverLost == Spec => []NoLostWakeup
PROOF
<1>1. LockInv => NoLostWakeup
  BY DEF LockInv
<1> QED
  BY <1>1, LockInvAlways, PTL
=============================================================================
