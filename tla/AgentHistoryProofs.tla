------------------------- MODULE AgentHistoryProofs -------------------------
(***************************************************************************)
(* What holds of the agent's log, its view and the stuck detector for      *)
(* every value of the constants.                                           *)
(*                                                                         *)
(* The operators come first.  Only, Output and CallEvents are recursive    *)
(* functions; that each of them is one, and what it does at the next       *)
(* element, follows by induction over the least number at which it would   *)
(* fail (InductionUpTo, RecursionExists).  Then, for every log and view:   *)
(* what the three passes of a view leave is matched (ShownIsMatched), and  *)
(* the condenser forgets whole replies (GapsSplitNoReply,                  *)
(* ForgetsWholeReplies).                                                   *)
(*                                                                         *)
(* The specification has two inductive invariants.  HistoryInv says that   *)
(* the output holds all that belongs to a reply or none of it, and that    *)
(* the calls that will be answered are shown; one event more               *)
(* (SoundAppends, AppendsInPlace), and so all that one operation appends   *)
(* (GrowsInPlace), keeps it.  ViewMatched and CondensesInPlace follow.     *)
(* TurnInv says that a reply is asked for only when every call of the last *)
(* one has its answer and nothing is stuck; RepetitionBounded follows,     *)
(* because a longer loop would have been there when the last reply was     *)
(* asked for, and long enough to be found.                                 *)
(***************************************************************************)
EXTENDS AgentHistory, SequenceTheorems, FiniteSetTheorems,
        WellFoundedInduction, TLAPS

-----------------------------------------------------------------------------
(* Least elements, induction and recursion over the naturals *)

\* A nonempty set of naturals has its Min.
LEMMA MinOfNaturals ==
  ASSUME NEW S \in SUBSET Nat, S # {}
  PROVE  Min(S) \in S /\ \A x \in S : Min(S) <= x
<1>1. \E x \in S : \A y \in S : ~(<<y, x>> \in OpToRel(<, Nat))
  BY NatLessThanWellFounded, WFMin
<1>2. \A x, y \in Nat : y < x => <<y, x>> \in OpToRel(<, Nat)
  BY Zenon DEF OpToRel
<1>3. \E x \in S : \A y \in S : ~(y < x)
  BY <1>1, <1>2, Zenon
<1>4. \E x \in S : \A y \in S : x <= y
  BY <1>3
<1> QED BY <1>4 DEF Min

\* Induction, for the set of the numbers that have a property.
LEMMA InductionUpTo ==
  ASSUME NEW N \in Nat, NEW S, 0 \in S,
         \A n \in 0..(N - 1) : n \in S => n + 1 \in S
  PROVE  \A n \in 0..N : n \in S
<1> DEFINE Rest == (0..N) \ S
<1> SUFFICES ASSUME Rest # {} PROVE FALSE
  OBVIOUS
<1>1. Rest \in SUBSET Nat
  OBVIOUS
<1> DEFINE m == Min(Rest)
<1>2. m \in Rest /\ \A x \in Rest : m <= x
  <2> HIDE DEF Rest
  <2> QED BY <1>1, MinOfNaturals
<1> HIDE DEF m
<1>3. m \in 1..N
  BY <1>2
<1>4. m - 1 \in 0..(N - 1) /\ m - 1 \notin Rest
  BY <1>2, <1>3
<1>5. m - 1 \in S
  BY <1>3, <1>4
<1>6. (m - 1) + 1 = m
  BY <1>3
<1> QED BY <1>2, <1>4, <1>5, <1>6

\* Where a recursion over 0..N starts, and its steps, which stay in V.
Steps(N, V, base, step) ==
  N \in Nat /\ base \in V /\ step \in [1..N -> [V -> V]]

\* f is what the recursion from base by these steps defines.
Recursion(f, N, V, base, step) ==
  /\ f \in [0..N -> V] /\ f[0] = base
  /\ \A n \in 1..N : f[n] = step[n][f[n - 1]]

\* Such a recursion defines a function.
LEMMA RecursionExists ==
  ASSUME NEW N, NEW V, NEW base, NEW step, Steps(N, V, base, step)
  PROVE  \E f : Recursion(f, N, V, base, step)
<1> USE DEF Steps
<1> DEFINE Upto(m, f) == f \in [0..m -> V] /\ f[0] = base
                         /\ \A n \in 1..m : f[n] = step[n][f[n - 1]]
           S == {m \in 0..N : \E f : Upto(m, f)}
<1>1. 0 \in S
  <2> DEFINE g == [n \in 0..0 |-> base]
  <2>1. g \in [0..0 -> V] /\ g[0] = base
    OBVIOUS
  <2>2. \A n \in 1..0 : FALSE
    OBVIOUS
  <2> HIDE DEF g
  <2>3. Upto(0, g)
    BY <2>1, <2>2
  <2>4. 0 \in 0..N
    OBVIOUS
  <2> QED BY <2>3, <2>4
<1>2. ASSUME NEW n \in 0..(N - 1), n \in S
      PROVE  n + 1 \in S
  <2>1. PICK f : Upto(n, f)
    BY <1>2
  <2> DEFINE g == [k \in 0..(n + 1) |-> IF k = n + 1 THEN step[n + 1][f[n]] ELSE f[k]]
  <2>2. step[n + 1][f[n]] \in V
    BY <2>1
  <2>3. g \in [0..(n + 1) -> V]
    BY <2>1, <2>2
  <2>4. g[0] = base
    BY <2>1
  <2>5. \A k \in 1..(n + 1) : g[k] = step[k][g[k - 1]]
    <3> SUFFICES ASSUME NEW k \in 1..(n + 1) PROVE g[k] = step[k][g[k - 1]]
      OBVIOUS
    <3>1. k - 1 \in 0..(n + 1) /\ k - 1 # n + 1 /\ k \in 0..(n + 1)
      OBVIOUS
    <3>2. g[k - 1] = f[k - 1]
      BY <3>1
    <3>3. CASE k = n + 1
      <4>1. k - 1 = n
        BY <3>3
      <4> QED BY <3>1, <3>2, <3>3, <4>1
    <3>4. CASE k # n + 1
      <4>1. k \in 1..n
        BY <3>4
      <4>2. g[k] = f[k]
        BY <3>1, <3>4
      <4> QED BY <2>1, <3>2, <4>1, <4>2
    <3> QED BY <3>3, <3>4
  <2>6. n + 1 \in 0..N
    OBVIOUS
  <2> QED BY <2>3, <2>4, <2>5, <2>6
<1> HIDE DEF S
<1>3. \A n \in 0..N : n \in S
  BY <1>1, <1>2, InductionUpTo
<1>4. N \in S
  BY <1>3
<1> QED BY <1>4 DEF S, Recursion

\* f[n] are the elements of S among the first n of s.
Chooses(f, E, s, S) ==
  /\ f \in [0..Len(s) -> Seq(E)]
  /\ f[0] = <<>>
  /\ \A n \in 1..Len(s) :
       f[n] = IF s[n] \in S THEN Append(f[n - 1], s[n]) ELSE f[n - 1]
  /\ Only(s, S) = f[Len(s)]

\* The recursion that defines Only.
LEMMA OnlyRecursion ==
  ASSUME NEW E, NEW s, NEW S, s \in Seq(E)
  PROVE  \E f : Chooses(f, E, s, S)
<1> DEFINE N == Len(s)
           Is(k) == k = [n \in 0..N |->
                           IF n = 0 THEN <<>>
                           ELSE IF s[n] \in S THEN Append(k[n - 1], s[n])
                           ELSE k[n - 1]]
           add == [n \in 1..N |-> [t \in Seq(E) |->
                      IF s[n] \in S THEN Append(t, s[n]) ELSE t]]
<1>1. N \in Nat /\ \A n \in 1..N : s[n] \in E
  OBVIOUS
<1> HIDE DEF N
<1>2. add \in [1..N -> [Seq(E) -> Seq(E)]]
  BY <1>1
<1>3. PICK f \in [0..N -> Seq(E)] :
        f[0] = <<>> /\ \A n \in 1..N : f[n] = add[n][f[n - 1]]
  <2>1. Steps(N, Seq(E), <<>>, add)
    <3>1. <<>> \in Seq(E)
      OBVIOUS
    <3> QED BY <1>1, <1>2, <3>1 DEF Steps
  <2>2. \E f : Recursion(f, N, Seq(E), <<>>, add)
    BY <2>1, RecursionExists, Zenon
  <2> QED BY <2>2 DEF Recursion
<1>4. \A n \in 1..N : f[n] = IF s[n] \in S THEN Append(f[n - 1], s[n]) ELSE f[n - 1]
  <2> TAKE n \in 1..N
  <2>1. n - 1 \in 0..N
    BY <1>1
  <2>2. f[n - 1] \in Seq(E)
    BY <1>3, <2>1
  <2> QED BY <1>3, <2>2
<1>5. Is(f)
  <2>1. \A n \in 0..N : n = 0 \/ n \in 1..N
    BY <1>1
  <2> QED BY <1>3, <1>4, <2>1
<1> DEFINE k == CHOOSE g : Is(g)
<1>6. Is(k)
  BY <1>5, Zenon
<1>7. Only(s, S) = k[N]
  BY Zenon DEF Only, N
<1> HIDE DEF k
<1>8. k[0] = <<>> /\ \A n \in 1..N : k[n] = IF s[n] \in S THEN Append(k[n - 1], s[n]) ELSE k[n - 1]
  <2>1. 0 \in 0..N /\ \A n \in 1..N : n \in 0..N /\ n # 0
    BY <1>1
  <2> QED BY <1>6, <2>1
<1> HIDE DEF Is
<1>9. \A n \in 0..N : k[n] \in Seq(E)
  <2> DEFINE T == {n \in 0..N : k[n] \in Seq(E)}
  <2>1. 0 \in T
    <3>1. 0 \in 0..N /\ <<>> \in Seq(E)
      BY <1>1
    <3> QED BY <1>8, <3>1
  <2>2. ASSUME NEW n \in 0..(N - 1), n \in T PROVE n + 1 \in T
    <3>1. n + 1 \in 1..N /\ n + 1 \in 0..N /\ (n + 1) - 1 = n
      BY <1>1
    <3>2. s[n + 1] \in E
      BY <1>1, <3>1
    <3>3. k[n + 1] = IF s[n + 1] \in S THEN Append(k[(n + 1) - 1], s[n + 1]) ELSE k[(n + 1) - 1]
      BY <1>8, <3>1
    <3>4. k[n] \in Seq(E)
      BY <2>2
    <3>5. k[n + 1] \in Seq(E)
      BY <3>1, <3>2, <3>3, <3>4
    <3> QED BY <3>1, <3>5
  <2>3. \A n \in 0..N : n \in T
    <3> HIDE DEF T
    <3> QED BY <1>1, <2>1, <2>2, InductionUpTo
  <2> QED BY <2>3
<1>10. k \in [0..N -> Seq(E)]
  BY <1>6, <1>9 DEF Is
<1> QED BY <1>7, <1>8, <1>10 DEF N, Chooses

\* t are the elements of S among the first n of s: t[i] is s[at[i]].
Picks(at, t, s, S, n) ==
  /\ at \in [1..Len(t) -> 1..n]
  /\ \A i, j \in 1..Len(t) : i < j => at[i] < at[j]
  /\ \A i \in 1..Len(t) : t[i] = s[at[i]] /\ t[i] \in S
  /\ \A m \in 1..n : s[m] \in S => \E i \in 1..Len(t) : at[i] = m

\* Only leaves the elements of S in their order.
LEMMA OnlyPicks ==
  ASSUME NEW E, NEW s \in Seq(E), NEW S
  PROVE  Only(s, S) \in Seq(E) /\ \E at : Picks(at, Only(s, S), s, S, Len(s))
<1> DEFINE N == Len(s)
<1>1. N \in Nat /\ \A n \in 1..N : s[n] \in E
  OBVIOUS
<1>2. PICK f \in [0..N -> Seq(E)] :
        /\ f[0] = <<>>
        /\ \A n \in 1..N :
             f[n] = IF s[n] \in S THEN Append(f[n - 1], s[n]) ELSE f[n - 1]
        /\ Only(s, S) = f[N]
  <2>1. \E f : Chooses(f, E, s, S)
    BY OnlyRecursion
  <2> QED BY <2>1 DEF Chooses
<1> HIDE DEF N
<1> DEFINE T == {n \in 0..N : \E at : Picks(at, f[n], s, S, n)}
<1>3. 0 \in T
  <2> DEFINE none == [i \in 1..0 |-> 0]
  <2>1. Picks(none, f[0], s, S, 0)
    <3>1. Len(f[0]) = 0
      BY <1>2
    <3>2. \A i \in 1..0 : FALSE
      OBVIOUS
    <3>3. none \in [1..0 -> 1..0]
      BY <3>2
    <3> HIDE DEF none
    <3> QED BY <3>1, <3>2, <3>3 DEF Picks
  <2> QED BY <1>1, <2>1
<1>4. ASSUME NEW n \in 0..(N - 1), n \in T PROVE n + 1 \in T
  <2>1. PICK at : Picks(at, f[n], s, S, n)
    BY <1>4
  <2>2. n + 1 \in 1..N /\ n + 1 \in 0..N /\ (n + 1) - 1 = n /\ n \in 0..N /\ n \in Nat
    BY <1>1
  <2> DEFINE t == f[n]
  <2>3. t \in Seq(E) /\ Len(t) \in Nat
    BY <1>2, <2>2
  <2> HIDE DEF t
  <2>4. \/ s[n + 1] \in S /\ f[n + 1] = Append(t, s[n + 1])
        \/ s[n + 1] \notin S /\ f[n + 1] = t
    BY <1>2, <2>2 DEF t
  <2>5. /\ at \in [1..Len(t) -> 1..n]
        /\ \A i, j \in 1..Len(t) : i < j => at[i] < at[j]
        /\ \A i \in 1..Len(t) : t[i] = s[at[i]] /\ t[i] \in S
        /\ \A m \in 1..n : s[m] \in S => \E i \in 1..Len(t) : at[i] = m
    BY <2>1 DEF Picks, t
  <2>6. CASE s[n + 1] \notin S
    <3>1. at \in [1..Len(t) -> 1..(n + 1)]
      BY <2>2, <2>3, <2>5
    <3>2. \A m \in 1..(n + 1) : m \in 1..n \/ m = n + 1
      BY <2>2
    <3>3. Picks(at, t, s, S, n + 1)
      BY <2>5, <2>6, <3>1, <3>2 DEF Picks
    <3> QED BY <2>2, <2>4, <2>6, <3>3
  <2>7. CASE s[n + 1] \in S
    <3> DEFINE u == Append(t, s[n + 1])
               L == Len(t)
               b == [i \in 1..(L + 1) |-> IF i = L + 1 THEN n + 1 ELSE at[i]]
    <3>1. /\ L \in Nat /\ Len(u) = L + 1 /\ u[L + 1] = s[n + 1]
          /\ \A i \in 1..L : u[i] = t[i]
      <4>1. s[n + 1] \in E
        BY <1>1, <2>2
      <4> QED BY <2>3, <4>1
    <3> HIDE DEF u, L
    <3>2. \A i \in 1..(L + 1) : i \in 1..L \/ i = L + 1
      BY <3>1
    <3>2a. \A i \in 1..L : i \in 1..(L + 1) /\ i # L + 1
      BY <3>1
    <3>2b. L + 1 \in 1..(L + 1)
      BY <3>1
    <3>3. b[L + 1] = n + 1 /\ \A i \in 1..L : b[i] = at[i]
      BY <3>2a, <3>2b
    <3>4. \A i \in 1..L : at[i] \in 1..n
      BY <2>5 DEF L
    <3>5. b \in [1..(L + 1) -> 1..(n + 1)]
      <4>1. \A i \in 1..(L + 1) : b[i] \in 1..(n + 1)
        BY <2>2, <3>2, <3>3, <3>4
      <4> QED BY <4>1
    <3> HIDE DEF b
    <3>6. \A i, j \in 1..(L + 1) : i < j => b[i] < b[j]
      <4> SUFFICES ASSUME NEW i \in 1..(L + 1), NEW j \in 1..(L + 1), i < j
                   PROVE  b[i] < b[j]
        OBVIOUS
      <4>1. i \in 1..L
        BY <3>1
      <4>2. CASE j \in 1..L
        BY <2>5, <3>3, <4>1, <4>2 DEF L
      <4>3. CASE j = L + 1
        BY <2>2, <3>3, <3>4, <4>1, <4>3
      <4> QED BY <3>2, <4>2, <4>3
    <3>7. \A i \in 1..(L + 1) : u[i] = s[b[i]] /\ u[i] \in S
      BY <2>5, <2>7, <3>1, <3>2, <3>3 DEF L
    <3>8. ASSUME NEW m \in 1..(n + 1), s[m] \in S
          PROVE  \E i \in 1..(L + 1) : b[i] = m
      <4>1. CASE m = n + 1
        BY <3>2b, <3>3, <4>1
      <4>2. CASE m \in 1..n
        <5>1. \E i \in 1..L : at[i] = m
          BY <2>5, <3>8, <4>2 DEF L
        <5> QED BY <3>2a, <3>3, <5>1
      <4> QED BY <2>2, <4>1, <4>2
    <3>9. Picks(b, u, s, S, n + 1)
      BY <3>1, <3>5, <3>6, <3>7, <3>8 DEF Picks
    <3> QED BY <2>2, <2>4, <2>7, <3>9 DEF u
  <2> QED BY <2>6, <2>7
<1> HIDE DEF T
<1>5. \A n \in 0..N : n \in T
  BY <1>1, <1>3, <1>4, InductionUpTo
<1>6. N \in 0..N
  BY <1>1
<1>7. N \in T
  BY <1>5, <1>6
<1>8. f[N] \in Seq(E)
  BY <1>2, <1>6
<1> QED BY <1>2, <1>7, <1>8 DEF N, T

-----------------------------------------------------------------------------
(* The recursive functions on sequences *)

\* A sequence with e inserted at place i.
Inserted(t, s, i, e) ==
  /\ Len(t) = Len(s) + 1
  /\ t[i] = e
  /\ \A k \in 1..(i - 1) : t[k] = s[k]
  /\ \A k \in i..Len(s) : t[k + 1] = s[k]

\* The InsertAt of SequencesExt does so.
LEMMA InsertAtInserts ==
  ASSUME NEW E, NEW s, NEW i, NEW e, s \in Seq(E), e \in E, i \in 1..(Len(s) + 1)
  PROVE  InsertAt(s, i, e) \in Seq(E) /\ Inserted(InsertAt(s, i, e), s, i, e)
<1> DEFINE N == Len(s)
           head == SubSeq(s, 1, i - 1)
           rest == SubSeq(s, i, N)
           t == head \o <<e>> \o rest
<1>1. N \in Nat /\ i \in 1..(N + 1) /\ \A k \in 1..N : s[k] \in E
  OBVIOUS
<1> HIDE DEF N
<1>2. /\ head \in Seq(E) /\ Len(head) = i - 1
      /\ \A k \in 1..(i - 1) : head[k] = s[k]
  <2> DEFINE m == i - 1
  <2>1. m \in Int /\ \A k \in 1..m : s[k] \in E
    BY <1>1
  <2> HIDE DEF m
  <2>2. /\ SubSeq(s, 1, m) \in Seq(E)
        /\ Len(SubSeq(s, 1, m)) = IF 1 <= m THEN m - 1 + 1 ELSE 0
        /\ \A k \in 1..(m - 1 + 1) : SubSeq(s, 1, m)[k] = s[1 + k - 1]
    BY <2>1, SubSeqProperties
  <2>3. \A k \in 1..m : k \in 1..(m - 1 + 1) /\ 1 + k - 1 = k
    BY <2>1
  <2>4. m >= 0 /\ m = i - 1
    BY <1>1 DEF m
  <2>5. /\ Len(SubSeq(s, 1, m)) = m
        /\ \A k \in 1..m : SubSeq(s, 1, m)[k] = s[k]
    BY <2>1, <2>2, <2>3, <2>4
  <2> QED BY <2>2, <2>5 DEF m
<1>3. /\ rest \in Seq(E) /\ Len(rest) = N - i + 1
      /\ \A k \in i..N : rest[k - i + 1] = s[k]
  <2>1. i \in Int /\ N \in Int /\ \A k \in i..N : s[k] \in E
    BY <1>1
  <2>2. /\ SubSeq(s, i, N) \in Seq(E)
        /\ Len(SubSeq(s, i, N)) = IF i <= N THEN N - i + 1 ELSE 0
        /\ \A k \in 1..(N - i + 1) : SubSeq(s, i, N)[k] = s[i + k - 1]
    BY <2>1, SubSeqProperties
  <2>3. Len(SubSeq(s, i, N)) = N - i + 1
    BY <1>1, <2>2
  <2>4. \A k \in i..N : k - i + 1 \in 1..(N - i + 1) /\ i + (k - i + 1) - 1 = k
    BY <2>1
  <2> QED BY <2>2, <2>3, <2>4
<1> HIDE DEF head, rest
<1>4. t \in Seq(E) /\ Len(t) = Len(s) + 1
  BY <1>1, <1>2, <1>3 DEF N
<1>5. t[i] = e
  BY <1>1, <1>2, <1>3
<1>6. \A k \in 1..(i - 1) : t[k] = s[k]
  BY <1>1, <1>2, <1>3
<1>7. \A k \in i..Len(s) : t[k + 1] = s[k]
  <2> SUFFICES ASSUME NEW k \in i..N PROVE t[k + 1] = s[k]
    BY DEF N
  <2>1. t[k + 1] = rest[k + 1 - i]
    <3> DEFINE u == head \o <<e>>
    <3>1. u \in Seq(E) /\ Len(u) = i
      BY <1>1, <1>2
    <3> HIDE DEF u
    <3>2. (u \o rest)[k + 1] = rest[k + 1 - i]
      BY <1>1, <1>3, <3>1
    <3> QED BY <3>2 DEF u
  <2>2. k + 1 - i = k - i + 1
    BY <1>1
  <2> QED BY <1>3, <2>1, <2>2
<1> QED BY <1>4, <1>5, <1>6, <1>7 DEF InsertAt, Inserted, head, rest, N

-----------------------------------------------------------------------------

\* Only keeps what is in S.
LEMMA OnlyRange ==
  ASSUME NEW E, NEW s, NEW S, s \in Seq(E)
  PROVE  /\ Only(s, S) \in Seq(E)
         /\ Range(Only(s, S)) = {x \in Range(s) : x \in S}
<1> DEFINE t == Only(s, S)
           N == Len(s)
           M == Len(t)
<1>1. t \in Seq(E)
  BY OnlyPicks
<1>2. PICK at : Picks(at, t, s, S, N)
  BY OnlyPicks
<1>3. N \in Nat /\ DOMAIN s = 1..N /\ M \in Nat /\ DOMAIN t = 1..M
  <2> HIDE DEF t
  <2> QED BY <1>1
<1> HIDE DEF t, N, M
<1>4. /\ at \in [1..M -> 1..N]
      /\ \A i \in 1..M : t[i] = s[at[i]] /\ t[i] \in S
      /\ \A n \in 1..N : s[n] \in S => \E i \in 1..M : at[i] = n
  BY <1>2 DEF Picks, M
<1>5. \A x \in Range(t) : x \in Range(s) /\ x \in S
  BY <1>3, <1>4 DEF Range
<1>6. ASSUME NEW x \in Range(s), x \in S PROVE x \in Range(t)
  <2>1. PICK n \in 1..N : x = s[n]
    BY <1>3 DEF Range
  <2>2. PICK i \in 1..M : at[i] = n
    BY <1>4, <1>6, <2>1
  <2> QED BY <1>3, <1>4, <2>1, <2>2 DEF Range
<1> QED BY <1>1, <1>5, <1>6 DEF t

\* The events of a view are in the order of the log, and none is there twice.
Sorted(view) ==
  \A i, j \in DOMAIN view :
    i < j => /\ view[i] # view[j]
             /\ view[i] > 0 /\ view[j] > 0 => view[i] < view[j]

\* Only keeps the order.
LEMMA OnlySorted ==
  ASSUME NEW view, NEW S, view \in Seq(Int), Sorted(view)
  PROVE  Sorted(Only(view, S))
<1> DEFINE t == Only(view, S)
           N == Len(view)
           M == Len(t)
<1>1. t \in Seq(Int)
  BY OnlyPicks
<1>2. PICK at : Picks(at, t, view, S, N)
  BY OnlyPicks
<1>3. N \in Nat /\ DOMAIN view = 1..N /\ M \in Nat /\ DOMAIN t = 1..M
  <2> HIDE DEF t
  <2> QED BY <1>1
<1> HIDE DEF t, N, M
<1>4. /\ at \in [1..M -> 1..N]
      /\ \A i, j \in 1..M : i < j => at[i] < at[j]
      /\ \A i \in 1..M : t[i] = view[at[i]]
  BY <1>2 DEF Picks, M
<1>5. ASSUME NEW i \in 1..M, NEW j \in 1..M, i < j
      PROVE  t[i] # t[j] /\ (t[i] > 0 /\ t[j] > 0 => t[i] < t[j])
  <2>1. at[i] \in DOMAIN view /\ at[j] \in DOMAIN view /\ at[i] < at[j]
    BY <1>3, <1>4, <1>5
  <2> QED BY <1>4, <2>1 DEF Sorted
<1>6. Sorted(t)
  BY <1>3, <1>5 DEF Sorted
<1> QED BY <1>6 DEF t

\* A view all of which is in S is left as it is.
LEMMA OnlyAll ==
  ASSUME NEW E, NEW s, NEW S, s \in Seq(E), Range(s) \subseteq S
  PROVE  Only(s, S) = s
<1> DEFINE N == Len(s)
<1>1. N \in Nat /\ (\A n \in 1..N : s[n] \in E) /\ DOMAIN s = 1..N
  OBVIOUS
<1>2. PICK f : Chooses(f, E, s, S)
  BY OnlyRecursion
<1> DEFINE T == {n \in 0..N : f[n] = [i \in 1..n |-> s[i]]}
<1>3. /\ f[0] = <<>> /\ Only(s, S) = f[N]
      /\ \A n \in 1..N : f[n] = IF s[n] \in S THEN Append(f[n - 1], s[n]) ELSE f[n - 1]
  BY <1>2 DEF Chooses
<1>3a. s = [i \in 1..N |-> s[i]]
  OBVIOUS
<1> HIDE DEF N
<1>4. 0 \in T
  <2>1. [i \in 1..0 |-> s[i]] = <<>>
    OBVIOUS
  <2> QED BY <1>1, <1>3, <2>1
<1>5. ASSUME NEW n \in 0..(N - 1), n \in T PROVE n + 1 \in T
  <2>1. n + 1 \in 1..N /\ n + 1 \in 0..N /\ (n + 1) - 1 = n /\ n \in Nat
    BY <1>1
  <2>2. s[n + 1] \in S
    BY <1>1, <2>1 DEF Range
  <2>3. f[n + 1] = Append([i \in 1..n |-> s[i]], s[n + 1])
    BY <1>3, <1>5, <2>1, <2>2
  <2>4. Append([i \in 1..n |-> s[i]], s[n + 1]) = [i \in 1..(n + 1) |-> s[i]]
    <3> DEFINE u == [i \in 1..n |-> s[i]]
               v == Append(u, s[n + 1])
    <3>1. u \in Seq(E) /\ Len(u) = n
      <4>1. \A i \in 1..n : s[i] \in E
        BY <1>1, <2>1
      <4> QED BY <2>1, <4>1
    <3>1a. \A i \in 1..n : u[i] = s[i]
      OBVIOUS
    <3> HIDE DEF u
    <3>2. v \in Seq(E) /\ Len(v) = n + 1
      BY <1>1, <2>1, <3>1
    <3>3. \A i \in 1..(n + 1) : v[i] = s[i]
      BY <2>1, <3>1, <3>1a
    <3> HIDE DEF v
    <3>4. v = [i \in 1..(n + 1) |-> s[i]]
      BY <3>2, <3>3
    <3> QED BY <3>4 DEF u, v
  <2> QED BY <2>1, <2>3, <2>4
<1> HIDE DEF T
<1>6. \A n \in 0..N : n \in T
  BY <1>1, <1>4, <1>5, InductionUpTo
<1>7. N \in T
  BY <1>1, <1>6
<1> QED BY <1>3, <1>3a, <1>7 DEF T

-----------------------------------------------------------------------------
(* A sequence without one block of its elements *)

\* How many of the first n elements of a sequence remain when those from
\* start + 1 to stop are gone, ...
Remaining(start, stop, n) ==
  IF n <= start THEN n ELSE IF n <= stop THEN start ELSE n - (stop - start)

\* ... which element is the k-th that remains, ...
Place(start, stop, k) == IF k <= start THEN k ELSE k + (stop - start)

\* ... and what is left of the first n elements of s.
Left(s, start, stop, n) ==
  [k \in 1..Remaining(start, stop, n) |-> s[Place(start, stop, k)]]

\* What is left when there is one element more outside of the block.
LEMMA AppendToLeft ==
  ASSUME NEW E, NEW s, NEW start \in Nat, NEW stop \in Nat, NEW n \in Nat,
         s \in Seq(E), start <= stop, n < Len(s), n + 1 <= start \/ n + 1 > stop
  PROVE  Append(Left(s, start, stop, n), s[n + 1]) = Left(s, start, stop, n + 1)
<1> DEFINE N == Len(s)
           u == Left(s, start, stop, n)
           v == Append(u, s[n + 1])
           m == Remaining(start, stop, n)
<1>1. N \in Nat /\ n + 1 \in 1..N /\ \A i \in 1..N : s[i] \in E
  OBVIOUS
<1> HIDE DEF N
<1>2. /\ m \in Nat /\ m <= n
      /\ Remaining(start, stop, n + 1) = m + 1
      /\ Place(start, stop, m + 1) = n + 1
      /\ \A k \in 1..m : Place(start, stop, k) \in 1..N
  BY <1>1 DEF Remaining, Place
<1>3. u = [k \in 1..m |-> s[Place(start, stop, k)]]
  BY DEF Left
<1> HIDE DEF m
<1>4. Left(s, start, stop, n + 1) = [k \in 1..(m + 1) |-> s[Place(start, stop, k)]]
  BY <1>2 DEF Left
<1> HIDE DEF u
<1>5. \A k \in 1..m : s[Place(start, stop, k)] \in E
  BY <1>1, <1>2
<1>6. u \in Seq(E) /\ Len(u) = m /\ \A k \in 1..m : u[k] = s[Place(start, stop, k)]
  BY <1>2, <1>3, <1>5
<1>7. v \in Seq(E) /\ Len(v) = m + 1 /\ v[m + 1] = s[n + 1] /\ \A k \in 1..m : v[k] = u[k]
  BY <1>1, <1>2, <1>6
<1> HIDE DEF v
<1>8. v = [k \in 1..(m + 1) |-> v[k]]
  BY <1>7
<1>9. \A k \in 1..(m + 1) : v[k] = s[Place(start, stop, k)]
  <2> TAKE k \in 1..(m + 1)
  <2>1. CASE k \in 1..m
    BY <1>6, <1>7, <2>1
  <2>2. CASE k = m + 1
    BY <1>2, <1>7, <2>2
  <2>3. k \in 1..m \/ k = m + 1
    BY <1>2
  <2> QED BY <2>1, <2>2, <2>3
<1>10. v = [k \in 1..(m + 1) |-> s[Place(start, stop, k)]]
  BY <1>8, <1>9
<1> QED BY <1>4, <1>10 DEF u, v

\* A sequence without the elements of one block.
LEMMA OnlyLeft ==
  ASSUME NEW E, NEW s, NEW S, NEW start \in Nat, NEW stop \in Nat,
         s \in Seq(E), start <= stop, stop <= Len(s),
         \A i \in 1..Len(s) : s[i] \in S <=> i <= start \/ i > stop
  PROVE  Only(s, S) = Left(s, start, stop, Len(s))
<1> DEFINE N == Len(s)
<1>1. N \in Nat /\ stop <= N /\ \A i \in 1..N : s[i] \in S <=> i <= start \/ i > stop
  OBVIOUS
<1>2. PICK f : Chooses(f, E, s, S)
  BY OnlyRecursion
<1> DEFINE T == {n \in 0..N : f[n] = Left(s, start, stop, n)}
<1>3. /\ f[0] = <<>> /\ Only(s, S) = f[N]
      /\ \A n \in 1..N : f[n] = IF s[n] \in S THEN Append(f[n - 1], s[n]) ELSE f[n - 1]
  BY <1>2 DEF Chooses
<1>4. 0 \in T
  <2>1. Left(s, start, stop, 0) = <<>>
    BY DEF Left, Remaining
  <2> QED BY <1>1, <1>3, <2>1
<1>5. ASSUME NEW n \in 0..(N - 1), n \in T PROVE n + 1 \in T
  <2>1. n + 1 \in 1..N /\ n + 1 \in 0..N /\ (n + 1) - 1 = n /\ n \in Nat /\ n < N
    BY <1>1
  <2>2. CASE n + 1 <= start \/ n + 1 > stop
    <3>1. s[n + 1] \in S
      BY <1>1, <2>1, <2>2
    <3>2. f[n + 1] = Append(Left(s, start, stop, n), s[n + 1])
      BY <1>3, <1>5, <2>1, <3>1
    <3>3. Append(Left(s, start, stop, n), s[n + 1]) = Left(s, start, stop, n + 1)
      BY <2>1, <2>2, AppendToLeft
    <3> QED BY <2>1, <3>2, <3>3
  <2>3. CASE ~(n + 1 <= start \/ n + 1 > stop)
    <3>1. s[n + 1] \notin S
      BY <1>1, <2>1, <2>3
    <3>2. f[n + 1] = Left(s, start, stop, n)
      BY <1>3, <1>5, <2>1, <3>1
    <3>3. Remaining(start, stop, n) = Remaining(start, stop, n + 1)
      BY <2>1, <2>3 DEF Remaining
    <3>5. Left(s, start, stop, n) = Left(s, start, stop, n + 1)
      BY <3>3 DEF Left
    <3> QED BY <2>1, <3>2, <3>5
  <2> QED BY <2>2, <2>3
<1> HIDE DEF T, N
<1>6. \A n \in 0..N : n \in T
  BY <1>1, <1>4, <1>5, InductionUpTo
<1>7. N \in T
  BY <1>1, <1>6
<1> QED BY <1>3, <1>7 DEF T, N

-----------------------------------------------------------------------------
(* One event more: Forget and Extend *)

\* The ids that Output may put into a view of these events.
IdsOf(events) == DOMAIN events \cup {-n : n \in DOMAIN events}

\* One element more is in it.
LEMMA InsertedRange ==
  ASSUME NEW E, NEW t, NEW s, NEW i, NEW e, s \in Seq(E), t \in Seq(E),
         i \in 1..(Len(s) + 1), Inserted(t, s, i, e)
  PROVE  Range(t) = Range(s) \cup {e}
<1> DEFINE N == Len(s)
<1>1. /\ N \in Nat /\ DOMAIN s = 1..N /\ DOMAIN t = 1..(N + 1) /\ i \in 1..(N + 1)
      /\ t[i] = e
      /\ \A k \in 1..(i - 1) : t[k] = s[k]
      /\ \A k \in i..N : t[k + 1] = s[k]
  BY DEF Inserted
<1> HIDE DEF N
<1>2. ASSUME NEW x \in Range(t) PROVE x \in Range(s) \cup {e}
  <2>1. PICK k \in 1..(N + 1) : x = t[k]
    BY <1>1 DEF Range
  <2>2. CASE k = i
    BY <1>1, <2>1, <2>2
  <2>3. CASE k < i
    <3>1. k \in 1..(i - 1) /\ k \in 1..N
      BY <1>1, <2>3
    <3> QED BY <1>1, <2>1, <3>1 DEF Range
  <2>4. CASE k > i
    <3>1. k - 1 \in i..N /\ (k - 1) + 1 = k /\ k - 1 \in 1..N
      BY <1>1, <2>4
    <3>2. x = s[k - 1]
      BY <1>1, <2>1, <3>1
    <3> QED BY <1>1, <3>1, <3>2 DEF Range
  <2> QED BY <1>1, <2>2, <2>3, <2>4
<1>3. ASSUME NEW x \in Range(s) PROVE x \in Range(t)
  <2>1. PICK k \in 1..N : x = s[k]
    BY <1>1 DEF Range
  <2>2. CASE k < i
    <3>1. k \in 1..(i - 1) /\ k \in 1..(N + 1)
      BY <1>1, <2>2
    <3> QED BY <1>1, <2>1, <3>1 DEF Range
  <2>3. CASE k >= i
    <3>1. k \in i..N /\ k + 1 \in 1..(N + 1)
      BY <1>1, <2>3
    <3> QED BY <1>1, <2>1, <3>1 DEF Range
  <2> QED BY <1>1, <2>2, <2>3
<1>4. e \in Range(t)
  BY <1>1 DEF Range
<1> QED BY <1>2, <1>3, <1>4

\* A summary does not disturb the order.
LEMMA InsertedSorted ==
  ASSUME NEW t, NEW s, NEW i, NEW e, s \in Seq(Int), t \in Seq(Int), e \in Int,
         i \in 1..(Len(s) + 1), Inserted(t, s, i, e), Sorted(s), e < 0, e \notin Range(s)
  PROVE  Sorted(t)
<1> DEFINE N == Len(s)
           p == [k \in 1..(N + 1) |-> IF k < i THEN k ELSE k - 1]
<1>1. /\ N \in Nat /\ DOMAIN s = 1..N /\ DOMAIN t = 1..(N + 1) /\ i \in 1..(N + 1)
      /\ t[i] = e
      /\ \A k \in 1..(i - 1) : t[k] = s[k]
      /\ \A k \in i..N : t[k + 1] = s[k]
  BY DEF Inserted
<1> HIDE DEF N
<1>2. ASSUME NEW k \in 1..(N + 1), k # i
      PROVE  p[k] \in 1..N /\ t[k] = s[p[k]]
  <2>1. CASE k < i
    <3>1. p[k] = k /\ k \in 1..(i - 1) /\ k \in 1..N
      BY <1>1, <2>1
    <3> HIDE DEF p
    <3> QED BY <1>1, <3>1
  <2>2. CASE k > i
    <3>1. p[k] = k - 1 /\ k - 1 \in i..N /\ (k - 1) + 1 = k /\ k - 1 \in 1..N
      BY <1>1, <2>2
    <3> HIDE DEF p
    <3> QED BY <1>1, <3>1
  <2> QED BY <1>1, <1>2, <2>1, <2>2
<1>3. \A j, k \in 1..(N + 1) : j # i /\ k # i /\ j < k => p[j] < p[k]
  BY <1>1
<1> HIDE DEF p
<1>4. \A n \in 1..N : s[n] # e
  BY <1>1 DEF Range
<1>5. ASSUME NEW j \in 1..(N + 1), NEW k \in 1..(N + 1), j < k
      PROVE  t[j] # t[k] /\ (t[j] > 0 /\ t[k] > 0 => t[j] < t[k])
  <2>1. CASE j = i
    <3>1. k # i
      BY <1>1, <1>5, <2>1
    <3>2. p[k] \in 1..N /\ t[k] = s[p[k]] /\ t[j] = e
      BY <1>1, <1>2, <2>1, <3>1
    <3>3. t[k] # e
      BY <1>4, <3>2
    <3>4. ~(e > 0)
      OBVIOUS
    <3> QED BY <3>2, <3>3, <3>4
  <2>2. CASE k = i
    <3>1. j # i
      BY <1>1, <1>5, <2>2
    <3>2. p[j] \in 1..N /\ t[j] = s[p[j]] /\ t[k] = e
      BY <1>1, <1>2, <2>2, <3>1
    <3>3. t[j] # e
      BY <1>4, <3>2
    <3>4. ~(e > 0)
      OBVIOUS
    <3> QED BY <3>2, <3>3, <3>4
  <2>3. CASE j # i /\ k # i
    <3>1. p[j] \in DOMAIN s /\ p[k] \in DOMAIN s /\ p[j] < p[k]
      BY <1>1, <1>2, <1>3, <1>5, <2>3
    <3>2. s[p[j]] # s[p[k]] /\ (s[p[j]] > 0 /\ s[p[k]] > 0 => s[p[j]] < s[p[k]])
      BY <3>1 DEF Sorted
    <3> QED BY <1>2, <2>3, <3>2
  <2> QED BY <2>1, <2>2, <2>3
<1> QED BY <1>1, <1>5 DEF Sorted

-----------------------------------------------------------------------------

\* What the condensation c at position n leaves of a view.
Kept(c, view) == Only(view, Range(view) \ c.forgotten)

\* Condensation.apply: what is forgotten goes, and the summary comes in at the
\* offset, or at the end when the view has become shorter than that.
LEMMA ForgetIsView ==
  ASSUME NEW c, NEW view, NEW n, view \in Seq(Int), n \in Nat \ {0}, c.offset \in Nat
  PROVE  /\ Kept(c, view) \in Seq(Int)
         /\ Forget(c, view, n) \in Seq(Int)
         /\ Range(Kept(c, view)) = Range(view) \ c.forgotten
         /\ ~c.summary => Forget(c, view, n) = Kept(c, view)
         /\ c.summary =>
              \E at \in 1..(Len(Kept(c, view)) + 1) :
                /\ at = 1 + IF c.offset < Len(Kept(c, view)) THEN c.offset ELSE Len(Kept(c, view))
                /\ Inserted(Forget(c, view, n), Kept(c, view), at, -n)
<1> DEFINE kept == Kept(c, view)
           place == (IF c.offset < Len(kept) THEN c.offset ELSE Len(kept)) + 1
<1>1. kept \in Seq(Int) /\ Range(kept) = Range(view) \ c.forgotten
  <2>1. Only(view, Range(view) \ c.forgotten) \in Seq(Int)
        /\ Range(Only(view, Range(view) \ c.forgotten))
             = {x \in Range(view) : x \in Range(view) \ c.forgotten}
    BY OnlyRange
  <2> QED BY <2>1 DEF Kept
<1>2. Forget(c, view, n) = IF c.summary THEN InsertAt(kept, place, -n) ELSE kept
  BY DEF Forget, Kept
<1> HIDE DEF kept
<1>3. /\ place \in 1..(Len(kept) + 1) /\ -n \in Int
      /\ place = 1 + IF c.offset < Len(kept) THEN c.offset ELSE Len(kept)
  BY <1>1
<1> HIDE DEF place
<1>4. InsertAt(kept, place, -n) \in Seq(Int) /\ Inserted(InsertAt(kept, place, -n), kept, place, -n)
  BY <1>1, <1>3, InsertAtInserts
<1>5. CASE c.summary
  BY <1>1, <1>2, <1>3, <1>4, <1>5 DEF kept
<1>6. CASE ~c.summary
  BY <1>1, <1>2, <1>6 DEF kept
<1> QED BY <1>5, <1>6

\* Ids of events up to n.
UpTo(n) == {i \in Int : i # 0 /\ -n <= i /\ i <= n}

\* All the ids of a log are those up to its length.
LEMMA IdsAreUpTo ==
  ASSUME NEW E, NEW events, events \in Seq(E)
  PROVE  IdsOf(events) = UpTo(Len(events))
<1> DEFINE N == Len(events)
<1>1. N \in Nat /\ DOMAIN events = 1..N
  OBVIOUS
<1> HIDE DEF N
<1>2. \A i \in UpTo(N) : i \in 1..N \/ (-i \in 1..N /\ i = -(-i))
  BY <1>1 DEF UpTo
<1>3. \A i \in 1..N : i \in UpTo(N) /\ -i \in UpTo(N)
  BY <1>1 DEF UpTo
<1> QED BY <1>1, <1>2, <1>3 DEF IdsOf, N

\* The range of a view after the event at position n.
RangeAfter(e, ids, n) ==
  IF e.kind = "condensation"
  THEN (ids \ e.forgotten) \cup (IF e.summary THEN {-n} ELSE {})
  ELSE IF e.kind \in Convertible THEN ids \cup {n}
  ELSE ids

\* A condensation has an offset (it is meaningless without a summary).
HasOffset(e) == e.kind = "condensation" => e.offset \in Nat

\* One event more leaves a sorted view of the events there are.
LEMMA ExtendIsView ==
  ASSUME NEW e, NEW view, NEW m, view \in Seq(UpTo(m)), Sorted(view), m \in Nat, HasOffset(e)
  PROVE  /\ Extend(e, view, m + 1) \in Seq(UpTo(m + 1))
         /\ Sorted(Extend(e, view, m + 1))
         /\ Range(Extend(e, view, m + 1)) = RangeAfter(e, Range(view), m + 1)
<1> DEFINE n == m + 1
           N == Len(view)
<1>1. n \in Nat \ {0} /\ -n \in Int /\ UpTo(m) \subseteq UpTo(n) /\ UpTo(n) \subseteq Int
      /\ n \in UpTo(n) /\ -n \in UpTo(n)
  BY DEF UpTo
<1>2. view \in Seq(Int) /\ view \in Seq(UpTo(n)) /\ Range(view) \subseteq UpTo(m)
  BY <1>1 DEF Range
<1>3. n \notin Range(view) /\ -n \notin Range(view)
  <2>1. n \notin UpTo(m) /\ -n \notin UpTo(m)
    BY DEF UpTo
  <2> QED BY <1>2, <2>1
<1> HIDE DEF n
<1>4. CASE e.kind = "condensation"
  <2> DEFINE kept == Kept(e, view)
             t == Forget(e, view, n)
  <2>1. Extend(e, view, n) = t /\ e.offset \in Nat
    BY <1>4 DEF Extend, HasOffset
  <2>2. /\ kept \in Seq(Int) /\ t \in Seq(Int)
        /\ Range(kept) = Range(view) \ e.forgotten
        /\ ~e.summary => t = kept
        /\ e.summary => \E at \in 1..(Len(kept) + 1) : Inserted(t, kept, at, -n)
    BY <1>1, <1>2, <2>1, ForgetIsView
  <2>3. Sorted(kept)
    BY <1>2, OnlySorted DEF Kept
  <2> HIDE DEF kept, t
  <2>4. Range(t) = RangeAfter(e, Range(view), n) /\ Sorted(t)
    <3>1. CASE e.summary
      <4>1. PICK at \in 1..(Len(kept) + 1) : Inserted(t, kept, at, -n)
        BY <2>2, <3>1
      <4>2. Range(t) = Range(kept) \cup {-n}
        BY <2>2, <4>1, InsertedRange
      <4>3. -n < 0 /\ -n \notin Range(kept)
        BY <1>1, <1>3, <2>2
      <4>4. Sorted(t)
        BY <1>1, <2>2, <2>3, <4>1, <4>3, InsertedSorted
      <4> QED BY <1>4, <2>2, <3>1, <4>2, <4>4 DEF RangeAfter
    <3>2. CASE ~e.summary
      BY <1>4, <2>2, <2>3, <3>2 DEF RangeAfter
    <3> QED BY <3>1, <3>2
  <2>5. Range(t) \subseteq UpTo(n)
    <3>1. RangeAfter(e, Range(view), n) \subseteq Range(view) \cup {-n}
      BY <1>4 DEF RangeAfter
    <3> QED BY <1>1, <1>2, <2>4, <3>1
  <2>6. t \in Seq(UpTo(n))
    <3>1. \A i \in 1..Len(t) : t[i] \in UpTo(n)
      BY <2>2, <2>5 DEF Range
    <3> QED BY <2>2, <3>1
  <2> QED BY <2>1, <2>4, <2>6 DEF n
<1>5. CASE e.kind # "condensation" /\ e.kind \in Convertible
  <2> DEFINE t == Append(view, n)
  <2>1. N \in Nat /\ DOMAIN view = 1..N /\ \A i \in 1..N : view[i] \in UpTo(m)
    BY <1>2 DEF Range
  <2> HIDE DEF N
  <2>2. /\ t \in Seq(UpTo(n)) /\ DOMAIN t = 1..(N + 1) /\ t[N + 1] = n
        /\ \A i \in 1..N : t[i] = view[i]
    BY <1>1, <1>2, <2>1 DEF N
  <2>3. Extend(e, view, n) = t
    BY <1>5 DEF Extend
  <2> HIDE DEF t
  <2>4. Range(t) = Range(view) \cup {n}
    <3>1. \A i \in 1..(N + 1) : i \in 1..N \/ i = N + 1
      BY <2>1
    <3>2. \A i \in 1..N : i \in 1..(N + 1)
      BY <2>1
    <3>3. N + 1 \in 1..(N + 1)
      BY <2>1
    <3> QED BY <2>1, <2>2, <3>1, <3>2, <3>3 DEF Range
  <2>5. Sorted(t)
    <3>1. ASSUME NEW i \in 1..(N + 1), NEW j \in 1..(N + 1), i < j
          PROVE  t[i] # t[j] /\ (t[i] > 0 /\ t[j] > 0 => t[i] < t[j])
      <4>1. i \in 1..N
        BY <2>1, <3>1
      <4>2. CASE j \in 1..N
        BY <2>1, <2>2, <3>1, <4>1, <4>2 DEF Sorted
      <4>3. CASE j = N + 1
        <5>1. view[i] \in Int /\ view[i] <= m
          BY <2>1, <4>1 DEF UpTo
        <5>2. m < n /\ n \in Int
          BY DEF n
        <5> QED BY <2>2, <4>1, <4>3, <5>1, <5>2
      <4> QED BY <2>1, <4>2, <4>3
    <3> QED BY <2>2, <3>1 DEF Sorted
  <2> QED BY <1>5, <2>2, <2>3, <2>4, <2>5 DEF RangeAfter, n
<1>6. CASE e.kind # "condensation" /\ e.kind \notin Convertible
  <2>1. Extend(e, view, n) = view
    BY <1>6 DEF Extend
  <2> QED BY <1>2, <1>6, <2>1 DEF RangeAfter, n
<1> QED BY <1>4, <1>5, <1>6

-----------------------------------------------------------------------------
(* Output, event by event *)

\* Whatever the view is, one event more makes a sequence of ids of it.
LEMMA ExtendIsSequence ==
  ASSUME NEW e, NEW view, NEW n, view \in Seq(Int), n \in Nat \ {0}, HasOffset(e)
  PROVE  Extend(e, view, n) \in Seq(Int)
<1>1. CASE e.kind = "condensation"
  <2>1. e.offset \in Nat
    BY <1>1 DEF HasOffset
  <2>2. Forget(e, view, n) \in Seq(Int)
    BY <2>1, ForgetIsView
  <2> QED BY <1>1, <2>2 DEF Extend
<1>2. CASE e.kind # "condensation"
  BY <1>2 DEF Extend
<1> QED BY <1>1, <1>2

\* A log of which every condensation has an offset.
IsLog(events) ==
  /\ events \in Seq(Range(events))
  /\ \A n \in DOMAIN events : HasOffset(events[n])

\* f[n] is the output after the first n events.
Builds(f, events) ==
  /\ f \in [0..Len(events) -> Seq(Int)]
  /\ f[0] = <<>>
  /\ \A n \in 1..Len(events) : f[n] = Extend(events[n], f[n - 1], n)
  /\ Output(events) = f[Len(events)]

\* The recursion that defines Output.
LEMMA OutputRecursion ==
  ASSUME NEW events, IsLog(events)
  PROVE  \E f : Builds(f, events)
<1> DEFINE N == Len(events)
           Is(k) == k = [n \in 0..N |->
                           IF n = 0 THEN <<>> ELSE Extend(events[n], k[n - 1], n)]
           add == [n \in 1..N |-> [view \in Seq(Int) |-> Extend(events[n], view, n)]]
<1>1. N \in Nat /\ \A n \in 1..N : HasOffset(events[n])
  BY DEF IsLog
<1> HIDE DEF N
<1>2. \A n \in 1..N : \A view \in Seq(Int) : Extend(events[n], view, n) \in Seq(Int)
  <2> TAKE n \in 1..N
  <2> TAKE view \in Seq(Int)
  <2>1. n \in Nat \ {0} /\ HasOffset(events[n])
    BY <1>1
  <2> QED BY <2>1, ExtendIsSequence
<1>2a. add \in [1..N -> [Seq(Int) -> Seq(Int)]]
  BY <1>2
<1>3. PICK f \in [0..N -> Seq(Int)] :
        f[0] = <<>> /\ \A n \in 1..N : f[n] = add[n][f[n - 1]]
  <2>1. Steps(N, Seq(Int), <<>>, add)
    <3>1. <<>> \in Seq(Int)
      OBVIOUS
    <3> QED BY <1>1, <1>2a, <3>1 DEF Steps
  <2>2. \E f : Recursion(f, N, Seq(Int), <<>>, add)
    BY <2>1, RecursionExists, Zenon
  <2> QED BY <2>2 DEF Recursion
<1>4. \A n \in 1..N : f[n] = Extend(events[n], f[n - 1], n)
  <2> TAKE n \in 1..N
  <2>1. n - 1 \in 0..N
    BY <1>1
  <2>2. f[n - 1] \in Seq(Int)
    BY <1>3, <2>1
  <2> QED BY <1>3, <2>2
<1>5. Is(f)
  <2>1. \A n \in 0..N : n = 0 \/ n \in 1..N
    BY <1>1
  <2> QED BY <1>3, <1>4, <2>1
<1> DEFINE k == CHOOSE g : Is(g)
<1>6. Is(k)
  BY <1>5, Zenon
<1>7. Output(events) = k[N]
  BY Zenon DEF Output, N
<1> HIDE DEF k
<1>8. k[0] = <<>> /\ \A n \in 1..N : k[n] = Extend(events[n], k[n - 1], n)
  <2>1. 0 \in 0..N /\ \A n \in 1..N : n \in 0..N /\ n # 0
    BY <1>1
  <2> QED BY <1>6, <2>1
<1> HIDE DEF Is
<1>9. \A n \in 0..N : k[n] \in Seq(Int)
  <2> DEFINE T == {n \in 0..N : k[n] \in Seq(Int)}
  <2>1. 0 \in T
    <3>1. 0 \in 0..N /\ <<>> \in Seq(Int)
      BY <1>1
    <3> QED BY <1>8, <3>1
  <2>2. ASSUME NEW n \in 0..(N - 1), n \in T PROVE n + 1 \in T
    <3>1. n + 1 \in 1..N /\ n + 1 \in 0..N /\ (n + 1) - 1 = n
      BY <1>1
    <3>2. k[n + 1] = Extend(events[n + 1], k[n], n + 1)
      BY <1>8, <3>1
    <3>3. Extend(events[n + 1], k[n], n + 1) \in Seq(Int)
      BY <1>2, <2>2, <3>1
    <3> QED BY <3>1, <3>2, <3>3
  <2>3. \A n \in 0..N : n \in T
    <3> HIDE DEF T
    <3> QED BY <1>1, <2>1, <2>2, InductionUpTo
  <2> QED BY <2>3
<1>10. k \in [0..N -> Seq(Int)]
  BY <1>6, <1>9 DEF Is
<1> QED BY <1>7, <1>8, <1>10 DEF N, Builds

\* Nothing is shown of an empty log.
LEMMA OutputOfEmpty == Output(<<>>) = <<>>
<1>1. IsLog(<<>>)
  BY DEF IsLog
<1>2. PICK f : Builds(f, <<>>)
  BY <1>1, OutputRecursion
<1>3. Len(<<>>) = 0
  OBVIOUS
<1> QED BY <1>2, <1>3 DEF Builds

\* What one event more changes.
LEMMA OutputAppends ==
  ASSUME NEW events, NEW e, IsLog(events), HasOffset(e)
  PROVE  /\ IsLog(Append(events, e))
         /\ Output(Append(events, e)) = Extend(e, Output(events), Len(events) + 1)
<1> DEFINE N == Len(events)
           more == Append(events, e)
<1>1. /\ N \in Nat /\ DOMAIN events = 1..N /\ Len(more) = N + 1 /\ DOMAIN more = 1..(N + 1)
      /\ more[N + 1] = e /\ \A n \in 1..N : more[n] = events[n]
      /\ events \in Seq(Range(events))
  BY DEF IsLog
<1>2. IsLog(more)
  <2>1. \A n \in 1..(N + 1) : n = N + 1 \/ n \in 1..N
    BY <1>1
  <2>2. Range(more) = Range(events) \cup {e}
    <3>1. N + 1 \in 1..(N + 1) /\ \A n \in 1..N : n \in 1..(N + 1)
      BY <1>1
    <3> HIDE DEF N, more
    <3> QED BY <1>1, <2>1, <3>1 DEF Range
  <2>3. more \in Seq(Range(events) \cup {e})
    <3> DEFINE R == Range(events) \cup {e}
    <3>1. events \in Seq(R) /\ e \in R
      BY <1>1
    <3> HIDE DEF R
    <3> QED BY <3>1 DEF R
  <2>4. \A n \in 1..(N + 1) : HasOffset(more[n])
    BY <1>1, <2>1 DEF IsLog
  <2> HIDE DEF more, N
  <2> QED BY <1>1, <2>2, <2>3, <2>4 DEF IsLog
<1>3. PICK f : Builds(f, events)
  BY OutputRecursion
<1>4. PICK g : Builds(g, more)
  BY <1>2, OutputRecursion
<1> HIDE DEF more, N
<1>5. /\ f[0] = <<>> /\ Output(events) = f[N]
      /\ \A n \in 1..N : f[n] = Extend(events[n], f[n - 1], n)
  BY <1>3 DEF Builds, N
<1>6. /\ g[0] = <<>> /\ Output(more) = g[N + 1]
      /\ \A n \in 1..(N + 1) : g[n] = Extend(more[n], g[n - 1], n)
  BY <1>1, <1>4 DEF Builds
<1> DEFINE T == {n \in 0..N : g[n] = f[n]}
<1>7. 0 \in T
  BY <1>1, <1>5, <1>6
<1>8. ASSUME NEW n \in 0..(N - 1), n \in T PROVE n + 1 \in T
  <2>1. n + 1 \in 1..N /\ n + 1 \in 1..(N + 1) /\ n + 1 \in 0..N /\ (n + 1) - 1 = n
    BY <1>1
  <2>2. f[n + 1] = Extend(events[n + 1], f[n], n + 1)
    BY <1>5, <2>1
  <2>3. g[n + 1] = Extend(more[n + 1], g[n], n + 1)
    BY <1>6, <2>1
  <2>4. more[n + 1] = events[n + 1] /\ g[n] = f[n]
    BY <1>1, <1>8, <2>1
  <2> QED BY <2>1, <2>2, <2>3, <2>4
<1> HIDE DEF T
<1>9. \A n \in 0..N : n \in T
  BY <1>1, <1>7, <1>8, InductionUpTo
<1>10. g[N] = f[N]
  BY <1>1, <1>9 DEF T
<1>11. N + 1 \in 1..(N + 1) /\ (N + 1) - 1 = N
  BY <1>1
<1>12. g[N + 1] = Extend(more[N + 1], g[N], N + 1)
  BY <1>6, <1>11
<1> QED BY <1>1, <1>2, <1>5, <1>6, <1>10, <1>12 DEF more, N

\* What is shown of a log before the passes are views: sorted, without an event
\* twice, and of this log.
OutputIsView(events) ==
  /\ Output(events) \in Seq(UpTo(Len(events)))
  /\ Sorted(Output(events))

\* One event more leaves a view.
LEMMA AppendedIsView ==
  ASSUME NEW events, NEW e, IsLog(events), HasOffset(e), OutputIsView(events)
  PROVE  /\ OutputIsView(Append(events, e))
         /\ Range(Output(Append(events, e))) = RangeAfter(e, Range(Output(events)), Len(events) + 1)
<1>1. Output(Append(events, e)) = Extend(e, Output(events), Len(events) + 1)
  BY OutputAppends
<1> DEFINE m == Len(events)
<1>2. m \in Nat /\ Len(Append(events, e)) = m + 1
  BY DEF IsLog
<1> HIDE DEF m
<1>3. /\ Extend(e, Output(events), m + 1) \in Seq(UpTo(m + 1))
      /\ Sorted(Extend(e, Output(events), m + 1))
      /\ Range(Extend(e, Output(events), m + 1)) = RangeAfter(e, Range(Output(events)), m + 1)
  BY <1>2, ExtendIsView DEF OutputIsView, m
<1> QED BY <1>1, <1>2, <1>3 DEF OutputIsView, m

\* A nonempty set of naturals that is bounded has its Max.
LEMMA MaxOfBounded ==
  ASSUME NEW n \in Nat, NEW S \in SUBSET (0..n), S # {}
  PROVE  Max(S) \in S /\ \A x \in S : x <= Max(S)
<1> DEFINE D == {n - x : x \in S}
<1>0. \A x \in S : n - x \in Nat /\ n - x \in D
  OBVIOUS
<1>1. D \in SUBSET Nat /\ D # {}
  BY <1>0
<1>2. Min(D) \in D /\ \A y \in D : Min(D) <= y
  BY <1>1, MinOfNaturals
<1>3. PICK m \in S : Min(D) = n - m
  BY <1>2
<1>4. \A x \in S : x <= m
  <2> TAKE x \in S
  <2>1. n - m <= n - x
    BY <1>0, <1>2, <1>3
  <2> QED BY <2>1
<1>5. \E x \in S : \A y \in S : x >= y
  BY <1>4
<1> QED BY <1>5 DEF Max

-----------------------------------------------------------------------------
(* What the passes leave *)

\* No two actions of the log are the same call: the LLM names its calls itself.
CallsDiffer(events) ==
  \A a, b \in Actions(events) : events[a].call = events[b].call => a = b

\* After the passes every result is shown with the action it answers, an
\* action with its whole batch, and, if no two actions share a call, with a
\* result (View.from_events), whatever the log is and whichever of its events
\* were there before.
THEOREM ShownIsMatched ==
  ASSUME NEW Events, NEW events \in Seq(Events), NEW shown \in SUBSET IdsOf(events)
  PROVE  \A id \in FilterUnmatched(events, shown) :
           /\ KindIn(events, id) \in Results =>
                \E a \in FilterUnmatched(events, shown) :
                   KindIn(events, a) = "action" /\ events[a].call = events[id].call
           /\ KindIn(events, id) = "action" =>
                /\ BatchOf(events, id) \subseteq FilterUnmatched(events, shown)
                /\ CallsDiffer(events) =>
                     \E r \in FilterUnmatched(events, shown) :
                        KindIn(events, r) \in Results /\ events[r].call = events[id].call
<1> DEFINE matched == MatchedCalls(events, shown)
           kept == EnforceBatches(events, matched)
           removed == {events[a].call : a \in Actions(events) \ kept}
           left == FilterUnmatched(events, shown)
<1> USE DEF Results
<1>1. left = {id \in kept : KindIn(events, id) \in Results => events[id].call \notin removed}
  BY DEF FilterUnmatched
<1>2. kept = {id \in matched : KindIn(events, id) = "action" => BatchOf(events, id) \subseteq matched}
  BY DEF EnforceBatches
<1>3. \A id \in matched : /\ id \in shown
                          /\ KindIn(events, id) \in Results =>
                               \E a \in shown : KindIn(events, a) = "action" /\ events[a].call = events[id].call
                          /\ KindIn(events, id) = "action" =>
                               \E r \in shown : KindIn(events, r) \in Results /\ events[r].call = events[id].call
  BY DEF MatchedCalls, CallsOf
<1>4. \A id \in shown : /\ KindIn(events, id) \in Results
                        /\ \E a \in shown : KindIn(events, a) = "action" /\ events[a].call = events[id].call
                        => id \in matched
  BY DEF MatchedCalls, CallsOf
<1>5. \A id \in shown : KindIn(events, id) = "action" <=> id \in Actions(events)
  <2>1. \A n \in DOMAIN events : n \in Nat \ {0}
    OBVIOUS
  <2> QED BY <2>1 DEF IdsOf, KindIn, Actions
<1>6. \A a \in kept : KindIn(events, a) = "action" => BatchOf(events, a) \subseteq kept /\ a \in Actions(events)
  <2> TAKE a \in kept
  <2> HAVE KindIn(events, a) = "action"
  <2>1. a \in shown /\ a \in Actions(events) /\ BatchOf(events, a) \subseteq matched
    BY <1>2, <1>3, <1>5
  <2>2. \A b \in BatchOf(events, a) : b \in Actions(events) /\ BatchOf(events, b) = BatchOf(events, a)
    BY DEF BatchOf
  <2> QED BY <2>1, <2>2, <1>2
<1>7. \A a \in kept : KindIn(events, a) = "action" => a \in left
  BY <1>1
<1> SUFFICES ASSUME NEW id \in left
             PROVE  /\ KindIn(events, id) \in Results =>
                         \E a \in left : KindIn(events, a) = "action" /\ events[a].call = events[id].call
                    /\ KindIn(events, id) = "action" =>
                         /\ BatchOf(events, id) \subseteq left
                         /\ CallsDiffer(events) =>
                              \E r \in left : KindIn(events, r) \in Results /\ events[r].call = events[id].call
  OBVIOUS
<1>8. ASSUME KindIn(events, id) \in Results
      PROVE  \E a \in left : KindIn(events, a) = "action" /\ events[a].call = events[id].call
  <2>1. PICK a \in shown : KindIn(events, a) = "action" /\ events[a].call = events[id].call
    BY <1>1, <1>2, <1>3, <1>8
  <2>2. a \in Actions(events) /\ events[a].call \notin removed
    BY <1>1, <1>5, <1>8, <2>1
  <2>3. a \in kept
    BY <2>2
  <2> QED BY <1>7, <2>1, <2>3
<1>9. ASSUME KindIn(events, id) = "action"
      PROVE  BatchOf(events, id) \subseteq left
  <2>1. BatchOf(events, id) \subseteq kept
    BY <1>1, <1>6, <1>9
  <2>2. \A b \in BatchOf(events, id) : b \in shown /\ KindIn(events, b) = "action"
    BY <1>2, <1>3, <1>5, <2>1 DEF BatchOf
  <2> QED BY <1>7, <2>1, <2>2
<1>10. ASSUME KindIn(events, id) = "action", CallsDiffer(events)
       PROVE  \E r \in left : KindIn(events, r) \in Results /\ events[r].call = events[id].call
  <2>1. id \in kept /\ id \in matched /\ id \in shown /\ id \in Actions(events)
    BY <1>1, <1>2, <1>3, <1>6, <1>10
  <2>2. PICK r \in shown : KindIn(events, r) \in Results /\ events[r].call = events[id].call
    BY <1>3, <1>10, <2>1
  <2>3. r \in matched
    BY <1>4, <1>10, <2>1, <2>2
  <2>4. r \in kept
    BY <1>2, <2>2, <2>3
  <2>5. events[r].call \notin removed
    BY <1>10, <2>1, <2>2 DEF CallsDiffer
  <2> QED BY <1>1, <2>2, <2>4, <2>5
<1> QED BY <1>8, <1>9, <1>10

-----------------------------------------------------------------------------
(* Where a view may be cut *)

\* Position i of a view holds a call.
IsAction(events, view, i) == KindIn(events, view[i]) = "action"

\* Positions i and j of a view hold a call and, of the same reply, another
\* call or a result.
OneReply(events, view, i, j) ==
  /\ IsAction(events, view, i)
  /\ \/ view[j] \in BatchOf(events, view[i])
     \/ /\ KindIn(events, view[j]) \in Results
        /\ \E k \in DOMAIN view : /\ view[k] \in BatchOf(events, view[i])
                                  /\ events[view[k]].call = events[view[j]].call

\* A position of a view that holds an action is, with all that belongs to its
\* reply and comes later, in the span of the reply's first action.
LEMMA SpanCovers ==
  ASSUME NEW Events, NEW events \in Seq(Events), NEW view \in Seq(IdsOf(events)),
         NEW i \in DOMAIN view, NEW j \in DOMAIN view, OneReply(events, view, i, j)
  PROVE  \E f \in Firsts(events, view) :
           LET span == SpanFrom(events, view, f)
           IN span.first = f /\ f <= i /\ span.last \in Nat /\ j <= span.last
<1> DEFINE same == {k \in DOMAIN view : /\ IsAction(events, view, k)
                                        /\ events[view[k]].response = events[view[i]].response}
           f == Min(same)
           batch == {k \in DOMAIN view : view[k] \in BatchOf(events, view[f])}
           calls == {events[view[k]].call : k \in batch}
           answers == {k \in DOMAIN view : /\ KindIn(events, view[k]) \in Results
                                           /\ events[view[k]].call \in calls}
<1>1. DOMAIN view = 1..Len(view) /\ Len(view) \in Nat
  OBVIOUS
<1>2. i \in same /\ same \in SUBSET Nat
  BY <1>1 DEF OneReply
<1>3. f \in same /\ \A k \in same : f <= k
  <2> HIDE DEF same
  <2> QED BY <1>2, MinOfNaturals
<1>4. f \in DOMAIN view /\ f <= i /\ IsAction(events, view, f)
      /\ events[view[f]].response = events[view[i]].response
  <2>1. f \in same /\ f <= i
    <3> HIDE DEF same
    <3> QED BY <1>2, <1>3
  <2> QED BY <2>1
<1>5. f \in Firsts(events, view)
  <2>0. f \in 1..Len(view) /\ Len(view) \in Nat
    BY <1>1, <1>4
  <2>1. \A k \in 1..(f - 1) : k \in DOMAIN view /\ ~(f <= k)
    <3> HIDE DEF same, f
    <3> QED BY <1>1, <2>0
  <2>2. \A k \in 1..(f - 1) : k \notin same
    <3> HIDE DEF same
    <3> QED BY <1>3, <2>1
  <2>3. \A k \in 1..(f - 1) : IsAction(events, view, k) =>
                               events[view[k]].response # events[view[f]].response
    <3> HIDE DEF f
    <3> QED BY <1>4, <2>1, <2>2
  <2> HIDE DEF f
  <2> QED BY <1>4, <2>3 DEF Firsts, IsAction
<1> HIDE DEF f
<1>6. BatchOf(events, view[f]) = BatchOf(events, view[i])
  BY <1>4 DEF BatchOf
<1>7. j \in batch \cup answers
  BY <1>6 DEF OneReply
<1>8. batch \cup answers \in SUBSET (0..Len(view))
  BY <1>1
<1>9. Max(batch \cup answers) \in Nat /\ j <= Max(batch \cup answers)
  <2> DEFINE U == batch \cup answers
  <2> HIDE DEF U
  <2>1. U \in SUBSET (0..Len(view)) /\ j \in U
    BY <1>7, <1>8 DEF U
  <2>2. Max(U) \in U /\ \A x \in U : x <= Max(U)
    BY <1>1, <2>1, MaxOfBounded
  <2>3. Max(U) \in Nat /\ j <= Max(U)
    BY <2>1, <2>2
  <2> QED BY <2>3 DEF U
<1>10. SpanFrom(events, view, f).first = f /\ SpanFrom(events, view, f).last = Max(batch \cup answers)
  BY DEF SpanFrom
<1> QED BY <1>4, <1>5, <1>9, <1>10

\* No gap in which View.manipulation_indices lets the condenser cut lies
\* between a call and a later call or result of the same reply.
THEOREM GapsSplitNoReply ==
  ASSUME NEW Events, NEW events \in Seq(Events), NEW view \in Seq(IdsOf(events)),
         NEW i \in DOMAIN view, NEW j \in DOMAIN view, OneReply(events, view, i, j),
         NEW gap \in ManipulationIndices(events, view)
  PROVE  ~(i <= gap /\ gap < j)
<1> DEFINE spans == {SpanFrom(events, view, k) : k \in Firsts(events, view)}
<1>1. PICK f \in Firsts(events, view) :
        /\ SpanFrom(events, view, f).first = f /\ f <= i
        /\ SpanFrom(events, view, f).last \in Nat /\ j <= SpanFrom(events, view, f).last
  BY SpanCovers
<1> DEFINE s == SpanFrom(events, view, f)
<1>2. s \in spans
  OBVIOUS
<1>3. gap \in Nat /\ ~(s.first <= gap /\ gap < s.last)
  BY <1>2 DEF ManipulationIndices
<1>4. i \in Nat /\ j \in Nat /\ f \in Nat
  BY DEF Firsts
<1> QED BY <1>1, <1>3, <1>4

\* NextIndex leads on, to a gap or past the end of the view.
LEMMA NextIndexIsGap ==
  ASSUME NEW Events, NEW events \in Seq(Events), NEW view \in Seq(IdsOf(events)),
         NEW threshold \in Int
  PROVE  /\ NextIndex(events, view, threshold) \in Int
         /\ NextIndex(events, view, threshold) >= threshold
         /\ \/ NextIndex(events, view, threshold) \in ManipulationIndices(events, view)
            \/ NextIndex(events, view, threshold) > Len(view)
<1> DEFINE gaps == ManipulationIndices(events, view)
           later == {i \in gaps : i >= threshold}
           spans == {SpanFrom(events, view, k) : k \in Firsts(events, view)}
<1>1. gaps \in SUBSET Nat /\ Len(view) \in Nat
  BY DEF ManipulationIndices
<1>2. \A s \in spans : s.last \in 0..Len(view)
  <2> SUFFICES ASSUME NEW k \in Firsts(events, view)
               PROVE  SpanFrom(events, view, k).last \in 0..Len(view)
    OBVIOUS
  <2> DEFINE batch == {i \in DOMAIN view : view[i] \in BatchOf(events, view[k])}
             calls == {events[view[i]].call : i \in batch}
             U == batch \cup {i \in DOMAIN view : /\ KindIn(events, view[i]) \in Results
                                                  /\ events[view[i]].call \in calls}
  <2>1. SpanFrom(events, view, k).last = Max(U)
    BY DEF SpanFrom
  <2>2. k \in U
    <3>1. k \in DOMAIN view /\ KindIn(events, view[k]) = "action"
      BY DEF Firsts
    <3>2. view[k] \in Actions(events)
      BY <3>1 DEF KindIn, Actions, IdsOf
    <3> QED BY <3>1, <3>2 DEF BatchOf
  <2>3. U \in SUBSET (0..Len(view))
    OBVIOUS
  <2> HIDE DEF U
  <2> QED BY <1>1, <2>1, <2>2, <2>3, MaxOfBounded
<1>3. Len(view) \in gaps
  <2>1. Len(view) \in 0..Len(view)
    BY <1>1
  <2>2. \A t \in spans : ~(Len(view) < t.last)
    BY <1>1, <1>2
  <2> QED BY <2>1, <2>2 DEF ManipulationIndices
<1> HIDE DEF gaps, spans
<1>4. CASE later = {}
  <2>1. ~(Len(view) >= threshold)
    BY <1>3, <1>4
  <2>2. NextIndex(events, view, threshold) = threshold
    BY <1>4 DEF NextIndex, gaps
  <2> QED BY <1>1, <2>1, <2>2
<1>5. CASE later # {}
  <2>1. NextIndex(events, view, threshold) = Min(later)
    BY <1>5 DEF NextIndex, gaps
  <2>2. later \in SUBSET Nat
    BY <1>1
  <2>3. Min(later) \in later
    BY <1>5, <2>2, MinOfNaturals
  <2> QED BY <1>1, <2>1, <2>3 DEF gaps
<1> QED BY <1>4, <1>5

-----------------------------------------------------------------------------
(* What the condenser forgets *)

\* A nonempty set of at most two integers has its Min.
LEMMA MinOfTwo ==
  ASSUME NEW a \in Int, NEW b \in Int, NEW S \in SUBSET {a, b}, S # {}
  PROVE  Min(S) \in S /\ \A x \in S : Min(S) <= x
<1>1. S = {a} \/ S = {b} \/ S = {a, b}
  OBVIOUS
<1>2. \E x \in S : \A y \in S : x <= y
  BY <1>1
<1> QED BY <1>2 DEF Min

\* ... and so has a pair of them.
LEMMA MinOfPair ==
  ASSUME NEW a \in Int, NEW b \in Int
  PROVE  Min({a, b}) \in {a, b} /\ Min({a, b}) <= a /\ Min({a, b}) <= b
<1> DEFINE S == {a, b}
<1>1. S \in SUBSET {a, b} /\ S # {} /\ a \in S /\ b \in S
  OBVIOUS
<1> HIDE DEF S
<1>2. Min(S) \in S /\ \A x \in S : Min(S) <= x
  BY <1>1, MinOfTwo
<1>3. Min(S) \in S /\ Min(S) <= a /\ Min(S) <= b
  BY <1>1, <1>2
<1> QED BY <1>3 DEF S

\* The size of the tail is a number, whatever the reasons to condense.
LEMMA TailIsNumber ==
  ASSUME NEW events, NEW view, Len(view) \in Nat, Reasons(events, view) # {}
  PROVE  Min({TailFor(r, Len(view)) : r \in Reasons(events, view)}) \in Int
<1> DEFINE a == TailFor("request", Len(view))
           b == TailFor("events", Len(view))
           S == {TailFor(r, Len(view)) : r \in Reasons(events, view)}
<1>1. a \in Int /\ b \in Int
  BY CondenserAssumption DEF TailFor
<1>2. S \in SUBSET {a, b} /\ S # {}
  BY DEF Reasons
<1> HIDE DEF a, b, S
<1>3. Min(S) \in S
  BY <1>1, <1>2, MinOfTwo
<1> QED BY <1>1, <1>2, <1>3 DEF S

\* What is forgotten is a block of the view between two places, the first
\* behind the head, and neither within a reply.
LEMMA ForgetsBlock ==
  ASSUME NEW Events, NEW events \in Seq(Events), NEW view \in Seq(IdsOf(events)),
         IsInjective(view), Reasons(events, view) # {}
  PROVE  \E start, end \in Int :
           /\ start >= KeepFirst /\ Forgetting(events, view).start = start
           /\ Forgetting(events, view).ids \subseteq Range(view)
           /\ \A cut \in {start, end} :
                cut \in ManipulationIndices(events, view) \/ cut > Len(view)
           /\ \A i \in DOMAIN view :
                view[i] \in Forgetting(events, view).ids <=> start < i /\ i <= end
<1>1. Len(view) \in Nat /\ DOMAIN view = 1..Len(view)
  OBVIOUS
<1>2. PICK tail \in Int :
        tail = Min({TailFor(r, Len(view)) : r \in Reasons(events, view)})
  BY <1>1, TailIsNumber
<1>3. PICK start \in Int :
        /\ start = NextIndex(events, view, KeepFirst) /\ start >= KeepFirst
        /\ start \in ManipulationIndices(events, view) \/ start > Len(view)
  BY NextIndexIsGap, CondenserAssumption
<1>4. PICK end \in Int :
        /\ end = NextIndex(events, view, Len(view) - tail)
        /\ end \in ManipulationIndices(events, view) \/ end > Len(view)
  <2>1. Len(view) - tail \in Int
    BY <1>1
  <2> QED BY <2>1, NextIndexIsGap
<1>5. PICK stop \in Int :
        stop = Min({end, Len(view)}) /\ stop \in {end, Len(view)}
          /\ stop <= end /\ stop <= Len(view)
  <2> DEFINE size == Len(view)
  <2>1. size \in Int
    BY <1>1
  <2> HIDE DEF size
  <2>2. Min({end, size}) \in {end, size} /\ Min({end, size}) <= end /\ Min({end, size}) <= size
    BY <2>1, MinOfPair
  <2>3. Min({end, size}) \in Int
    BY <2>1, <2>2
  <2> QED BY <2>2, <2>3 DEF size
<1>6. Forgetting(events, view).ids = Range(SubSeq(view, start + 1, stop))
  BY <1>2, <1>3, <1>4, <1>5 DEF Forgetting
<1>7. start \in Nat
  BY <1>3, CondenserAssumption
<1> DEFINE block == SubSeq(view, start + 1, stop)
<1>8. DOMAIN block = 1..(IF start + 1 <= stop THEN stop - start ELSE 0)
      /\ \A k \in DOMAIN block : block[k] = view[start + k]
  <2> DEFINE from == start + 1
  <2>1. from \in Int /\ \A k \in from..stop : view[k] \in IdsOf(events)
    BY <1>1, <1>5, <1>7
  <2>2. /\ block \in Seq(IdsOf(events))
        /\ Len(block) = IF from <= stop THEN stop - from + 1 ELSE 0
        /\ \A k \in 1..(stop - from + 1) : block[k] = view[from + k - 1]
    <3> HIDE DEF from
    <3>1. /\ SubSeq(view, from, stop) \in Seq(IdsOf(events))
          /\ Len(SubSeq(view, from, stop)) = IF from <= stop THEN stop - from + 1 ELSE 0
          /\ \A k \in 1..(stop - from + 1) : SubSeq(view, from, stop)[k] = view[from + k - 1]
      BY <2>1, SubSeqProperties
    <3> QED BY <3>1 DEF from
  <2>3. DOMAIN block = 1..Len(block)
    <3> HIDE DEF block
    <3> QED BY <2>2
  <2> HIDE DEF block
  <2>4. stop - from + 1 = stop - start /\ \A k \in Int : from + k - 1 = start + k
    BY <1>7
  <2>5. Len(block) = IF start + 1 <= stop THEN stop - start ELSE 0
    BY <2>2, <2>4
  <2>6. \A k \in 1..Len(block) : k \in 1..(stop - from + 1) /\ k \in Int
    BY <1>7, <2>4, <2>5
  <2>7. \A k \in 1..Len(block) : block[k] = view[start + k]
    BY <2>2, <2>4, <2>6
  <2> QED BY <2>3, <2>5, <2>7
<1>9. \A k \in DOMAIN block : start + k \in DOMAIN view
  BY <1>1, <1>5, <1>7, <1>8
<1>10. Forgetting(events, view).ids \subseteq Range(view)
  BY <1>6, <1>8, <1>9 DEF Range
<1>11. Forgetting(events, view).start = start
  BY <1>3 DEF Forgetting
<1>12. ASSUME NEW i \in DOMAIN view
       PROVE  view[i] \in Forgetting(events, view).ids <=> start < i /\ i <= end
  <2>2. view[i] \in Range(block) <=> \E k \in DOMAIN block : view[start + k] = view[i]
    BY <1>8 DEF Range
  <2>4. \A k \in DOMAIN block : view[start + k] = view[i] <=> start + k = i
    BY <1>9 DEF IsInjective
  <2>5. (\E k \in DOMAIN block : start + k = i) <=> start < i /\ i <= stop
    <3> HIDE DEF block
    <3>1. ASSUME start < i, i <= stop
          PROVE  i - start \in DOMAIN block /\ start + (i - start) = i
      BY <1>1, <1>7, <1>8, <3>1
    <3> QED BY <1>1, <1>7, <1>8, <3>1
  <2>6. i <= stop <=> i <= end
    BY <1>1, <1>5
  <2> QED BY <1>6, <2>2, <2>4, <2>5, <2>6
<1> QED BY <1>3, <1>4, <1>10, <1>11, <1>12

\* The condenser forgets a call and all that its reply holds after it, or none
\* of them, and never one of the first KeepFirst events, whatever the log and
\* the reasons are (_get_forgotten_events).
THEOREM ForgetsWholeReplies ==
  ASSUME NEW Events, NEW events \in Seq(Events), NEW view \in Seq(IdsOf(events)),
         IsInjective(view), Reasons(events, view) # {}
  PROVE  /\ \A i, j \in DOMAIN view :
              i < j /\ OneReply(events, view, i, j) =>
                (view[i] \in Forgetting(events, view).ids
                   <=> view[j] \in Forgetting(events, view).ids)
         /\ \A i \in DOMAIN view :
              i <= KeepFirst => view[i] \notin Forgetting(events, view).ids
<1>1. PICK start, end \in Int :
        /\ start >= KeepFirst
        /\ \A cut \in {start, end} :
             cut \in ManipulationIndices(events, view) \/ cut > Len(view)
        /\ \A i \in DOMAIN view :
             view[i] \in Forgetting(events, view).ids <=> start < i /\ i <= end
  BY ForgetsBlock
<1>2. ASSUME NEW i \in DOMAIN view, NEW j \in DOMAIN view, i < j,
             OneReply(events, view, i, j)
      PROVE  view[i] \in Forgetting(events, view).ids
               <=> view[j] \in Forgetting(events, view).ids
  <2>1. \A gap \in ManipulationIndices(events, view) : ~(i <= gap /\ gap < j)
    BY <1>2, GapsSplitNoReply
  <2>2. \A cut \in {start, end} : ~(i <= cut /\ cut < j)
    BY <1>1, <2>1
  <2> QED BY <1>1, <1>2, <2>2
<1>3. ASSUME NEW i \in DOMAIN view, i <= KeepFirst
      PROVE  view[i] \notin Forgetting(events, view).ids
  BY <1>1, <1>3, CondenserAssumption
<1> QED BY <1>2, <1>3

-----------------------------------------------------------------------------
(* The view and what it shows *)

\* The ids that the passes leave.
Shown(events) == FilterUnmatched(events, EnforceBatches(events, Range(Output(events))))

\* View.from_events shows the output without what the passes take away, in the
\* order of the output.
LEMMA ViewIsShown ==
  ASSUME NEW events, IsLog(events), OutputIsView(events)
  PROVE  /\ ViewOf(events) \in Seq(UpTo(Len(events)))
         /\ Sorted(ViewOf(events))
         /\ Range(ViewOf(events)) = Shown(events)
         /\ ViewOf(events) = Only(Output(events), Shown(events))
<1> DEFINE output == Output(events)
           ids == UpTo(Len(events))
           S == Shown(events)
<1>1. output \in Seq(ids) /\ Sorted(output) /\ ids \subseteq Int
  BY DEF OutputIsView, UpTo
<1>2. ViewOf(events) = Only(output, S)
  BY DEF ViewOf, Shown
<1>3. S \subseteq Range(output)
  BY DEF Shown, FilterUnmatched, EnforceBatches, MatchedCalls
<1> HIDE DEF S, output, ids
<1>4. Only(output, S) \in Seq(ids) /\ Range(Only(output, S)) = {x \in Range(output) : x \in S}
  BY <1>1, OnlyRange
<1>5. Sorted(Only(output, S))
  <2>1. output \in Seq(Int)
    <3>0. output \in Seq(ids)
      BY <1>1
    <3>1. Len(output) \in Nat /\ \A n \in 1..Len(output) : output[n] \in ids
      BY <3>0
    <3>1a. \A n \in 1..Len(output) : output[n] \in Int
      BY <1>1, <3>1
    <3>2. output = [n \in 1..Len(output) |-> output[n]]
      BY <1>1
    <3> QED BY <3>1, <3>1a, <3>2
  <2> QED BY <1>1, <2>1, OnlySorted
<1>6. {x \in Range(output) : x \in S} = S
  BY <1>3
<1> QED BY <1>2, <1>4, <1>5, <1>6 DEF S, output, ids

\* A sorted view holds no event twice.
LEMMA SortedIsInjective ==
  ASSUME NEW view, view \in Seq(Int), Sorted(view)
  PROVE  IsInjective(view)
<1> SUFFICES ASSUME NEW i \in DOMAIN view, NEW j \in DOMAIN view, view[i] = view[j]
             PROVE  i = j
  BY DEF IsInjective
<1>1. i \in Nat /\ j \in Nat
  OBVIOUS
<1>2. ~(i < j) /\ ~(j < i)
  BY DEF Sorted
<1> QED BY <1>1, <1>2

\* Each action is of a reply whose first event is an action, ...
Replied(events) ==
  \A a \in Actions(events) :
    /\ events[a].response \in Actions(events) /\ events[a].response <= a
    /\ events[events[a].response].response = events[a].response

\* ... its call is named after it, and results name the call they answer.
Named(events) ==
  /\ \A a \in Actions(events) : events[a].call = a
  /\ \A m \in DOMAIN events :
       /\ events[m].kind \in Results => events[m].call \in Actions(events) /\ events[m].call < m
       /\ events[m].kind \in {"observation", "rejection"} => events[m].action = events[m].call

\* The view is matched: a result stands behind its call, a call before its
\* result and with its batch.
LEMMA ShownInOrder ==
  ASSUME NEW events, IsLog(events), OutputIsView(events), Named(events), NEW i \in DOMAIN ViewOf(events)
  PROVE  LET view == ViewOf(events)
             id == view[i]
         IN /\ KindIn(events, id) \in Results =>
                 \E j \in 1..(i - 1) : /\ j \in DOMAIN view /\ KindIn(events, view[j]) = "action"
                                       /\ events[view[j]].call = events[id].call
            /\ KindIn(events, id) = "action" =>
                 /\ BatchOf(events, id) \subseteq Range(view)
                 /\ \E j \in (i + 1)..Len(view) :
                      /\ j \in DOMAIN view /\ KindIn(events, view[j]) \in Results
                      /\ events[view[j]].call = events[id].call
<1> DEFINE view == ViewOf(events)
           id == view[i]
           N == Len(view)
           ids == UpTo(Len(events))
<1>1. view \in Seq(ids) /\ Sorted(view) /\ Range(view) = Shown(events)
  BY ViewIsShown
<1>2. N \in Nat /\ DOMAIN view = 1..N /\ i \in 1..N
  <2> HIDE DEF view
  <2>1. i \in DOMAIN view
    BY DEF view
  <2> QED BY <1>1, <2>1
<1>3. IdsOf(events) = ids /\ events \in Seq(Range(events))
  BY IdsAreUpTo DEF IsLog
<1>4. EnforceBatches(events, Range(Output(events))) \in SUBSET IdsOf(events)
  <2>1. Range(Output(events)) \subseteq ids
    BY DEF OutputIsView, Range
  <2> QED BY <1>3, <2>1 DEF EnforceBatches
<1>5. CallsDiffer(events)
  BY DEF CallsDiffer, Named
<1>6. \A x \in Shown(events) :
           /\ KindIn(events, x) \in Results =>
                \E a \in Shown(events) :
                   KindIn(events, a) = "action" /\ events[a].call = events[x].call
           /\ KindIn(events, x) = "action" =>
                /\ BatchOf(events, x) \subseteq Shown(events)
                /\ \E r \in Shown(events) :
                        KindIn(events, r) \in Results /\ events[r].call = events[x].call
  BY <1>3, <1>4, <1>5, ShownIsMatched DEF Shown
<1>7. \A x \in ids : /\ KindIn(events, x) = "action" => x \in Actions(events) /\ x > 0
                     /\ KindIn(events, x) \in Results =>
                          x > 0 /\ x \in DOMAIN events /\ events[x].kind \in Results
  <2> TAKE x \in ids
  <2>1. CASE x < 0
    BY <2>1 DEF KindIn, Results
  <2>2. CASE x > 0
    <3>1. x \in DOMAIN events
      BY <1>3, <2>2 DEF UpTo
    <3> QED BY <2>2, <3>1 DEF KindIn, Actions, UpTo
  <2> QED BY <2>1, <2>2 DEF UpTo
<1>8. \A j \in 1..N : view[j] \in ids /\ view[j] \in Shown(events) /\ view[j] \in Int
  <2> HIDE DEF view
  <2> QED BY <1>1, <1>2 DEF Range, UpTo
<1>9. \A x \in Shown(events) : \E j \in 1..N : x = view[j]
  <2> HIDE DEF view
  <2> QED BY <1>1, <1>2 DEF Range
<1>10. \A j, k \in 1..N : view[j] > 0 /\ view[k] > 0 /\ view[j] < view[k] => j < k
  <2> SUFFICES ASSUME NEW j \in 1..N, NEW k \in 1..N,
                      view[j] > 0, view[k] > 0, view[j] < view[k], ~(j < k)
               PROVE  FALSE
    OBVIOUS
  <2>1. view[j] \in Int /\ view[k] \in Int
    BY <1>8
  <2>2. k < j
    <3>1. j # k
      BY <2>1
    <3> QED BY <1>2, <3>1
  <2>3. view[k] < view[j]
    BY <1>1, <1>2, <2>2 DEF Sorted
  <2> QED BY <2>1, <2>3
<1> HIDE DEF view, N
<1>11. ASSUME KindIn(events, id) \in Results
       PROVE  \E j \in 1..(i - 1) : /\ j \in DOMAIN view /\ KindIn(events, view[j]) = "action"
                                    /\ events[view[j]].call = events[id].call
  <2>1. id > 0 /\ id \in DOMAIN events /\ events[id].kind \in Results /\ id \in Shown(events)
    BY <1>2, <1>7, <1>8, <1>11
  <2>2. PICK a \in Shown(events) : KindIn(events, a) = "action" /\ events[a].call = events[id].call
    BY <1>6, <1>11, <2>1
  <2>3. PICK j \in 1..N : a = view[j]
    BY <1>9
  <2>4. a \in Actions(events) /\ a > 0
    BY <1>7, <1>8, <2>2, <2>3
  <2>5. a < id
    BY <2>1, <2>2, <2>4 DEF Named
  <2>6. j < i
    BY <1>2, <1>10, <2>1, <2>3, <2>4, <2>5
  <2>7. j \in 1..(i - 1) /\ j \in DOMAIN view
    BY <1>2, <2>6
  <2> QED BY <2>2, <2>3, <2>7
<1>12. ASSUME KindIn(events, id) = "action"
       PROVE  \E j \in (i + 1)..N :
                      /\ j \in DOMAIN view /\ KindIn(events, view[j]) \in Results
                      /\ events[view[j]].call = events[id].call
  <2>1. id > 0 /\ id \in Actions(events) /\ id \in Shown(events)
    BY <1>2, <1>7, <1>8, <1>12
  <2>2. PICK r \in Shown(events) : KindIn(events, r) \in Results /\ events[r].call = events[id].call
    BY <1>6, <1>12, <2>1
  <2>3. PICK j \in 1..N : r = view[j]
    BY <1>9
  <2>4. r > 0 /\ r \in DOMAIN events /\ events[r].kind \in Results
    BY <1>7, <1>8, <2>2, <2>3
  <2>5. id < r
    BY <2>1, <2>2, <2>4 DEF Named
  <2>6. i < j
    BY <1>2, <1>10, <2>1, <2>3, <2>4, <2>5
  <2>7. j \in (i + 1)..N /\ j \in DOMAIN view
    BY <1>2, <2>6
  <2> QED BY <2>2, <2>3, <2>7
<1>13. KindIn(events, id) = "action" => BatchOf(events, id) \subseteq Range(view)
  BY <1>1, <1>2, <1>6, <1>8
<1> QED BY <1>11, <1>12, <1>13 DEF view, N

-----------------------------------------------------------------------------
(* Whole replies: what the three passes keep *)

\* The events of replies: actions and what answers them.
InReply(events) == {x \in DOMAIN events : events[x].kind \in Results \cup {"action"}}

\* The action that an event of a reply is or answers, and the reply's first.
ActionOf(events, x) == IF events[x].kind = "action" THEN x ELSE events[x].call

\* The first action of the reply that an event belongs to.
Root(events, x) == events[ActionOf(events, x)].response

\* Of a reply and all that answers it, everything is among ids or nothing.
Closed(events, ids) ==
  \A x \in InReply(events) : x \in ids <=> Root(events, x) \in ids

\* The first event of a reply is an action of the log, and its own root.
LEMMA RootsAreActions ==
  ASSUME NEW events, IsLog(events), Named(events), Replied(events), NEW x \in InReply(events)
  PROVE  /\ x \in Nat
         /\ ActionOf(events, x) \in Actions(events) /\ ActionOf(events, x) <= x
         /\ Root(events, x) \in Actions(events) /\ Root(events, x) \in InReply(events)
         /\ Root(events, x) <= x
         /\ events[ActionOf(events, x)].response = Root(events, x)
         /\ events[Root(events, x)].response = Root(events, x)
         /\ ActionOf(events, Root(events, x)) = Root(events, x)
<1> DEFINE a == ActionOf(events, x)
           r == Root(events, x)
<1>1. DOMAIN events \subseteq Nat
  BY DEF IsLog
<1>2. a \in Actions(events) /\ a <= x
  <2>1. CASE events[x].kind = "action"
    BY <1>1, <2>1 DEF ActionOf, InReply, Actions
  <2>2. CASE events[x].kind # "action"
    <3>1. events[x].kind \in Results /\ x \in DOMAIN events
      BY <2>2 DEF InReply
    <3>2. events[x].call \in Actions(events) /\ events[x].call < x /\ events[x].call \in Nat
      BY <1>1, <3>1 DEF Named, Actions
    <3> QED BY <1>1, <2>2, <3>1, <3>2 DEF ActionOf
  <2> QED BY <2>1, <2>2
<1>3. r = events[a].response
  BY DEF Root
<1>4. r \in Actions(events) /\ r <= a /\ events[r].response = r
  BY <1>2, <1>3 DEF Replied
<1>5. x \in Nat /\ a \in Nat /\ r \in Nat
  BY <1>1, <1>2, <1>4 DEF InReply, Actions
<1>6. r \in InReply(events) /\ ActionOf(events, r) = r
  BY <1>4 DEF InReply, Actions, ActionOf
<1> QED BY <1>2, <1>3, <1>4, <1>5, <1>6

\* A log whose views are sorted, with named calls and whole replies.
Ordered(events) == IsLog(events) /\ OutputIsView(events) /\ Named(events) /\ Replied(events)

\* What the passes leave is closed if the output is.
LEMMA PassesKeepClosed ==
  ASSUME NEW events, Ordered(events), Closed(events, Range(Output(events)))
  PROVE  /\ Closed(events, Shown(events))
         /\ (\A a \in Actions(events) :
               \E m \in DOMAIN events : events[m].kind \in Results /\ events[m].call = a)
              => Shown(events) = Range(Output(events))
<1> DEFINE R == Range(Output(events))
           M == MatchedCalls(events, R)
           K == EnforceBatches(events, M)
           removed == {events[a].call : a \in Actions(events) \ K}
           left == FilterUnmatched(events, R)
<1> USE DEF Ordered
<1>1. DOMAIN events \subseteq Nat \ {0}
  BY DEF IsLog
<1>2. R \subseteq UpTo(Len(events)) /\ IdsOf(events) = UpTo(Len(events))
  BY IdsAreUpTo DEF IsLog, OutputIsView, Range
<1>3. \A x \in R : /\ KindIn(events, x) = "action" <=> x \in Actions(events)
                   /\ KindIn(events, x) \in Results <=> x \in DOMAIN events /\ events[x].kind \in Results
                   /\ x \in DOMAIN events => KindIn(events, x) = events[x].kind
  <2>1. \A x \in R : x \in DOMAIN events \/ (x < 0 /\ x \notin DOMAIN events)
    <3>1. \A x \in R : x \in DOMAIN events \/ \E n \in DOMAIN events : x = -n
      BY <1>2 DEF IdsOf
    <3>2. \A n \in DOMAIN events : -n < 0 /\ -n \notin DOMAIN events
      BY <1>1
    <3> QED BY <3>1, <3>2
  <2>2. \A x \in DOMAIN events : ~(x < 0)
    BY <1>1
  <2> QED BY <2>1, <2>2 DEF KindIn, Actions, Results
<1>4. \A a \in Actions(events) : /\ a \in InReply(events) /\ ActionOf(events, a) = a
                              /\ Root(events, a) = events[a].response
  BY DEF Actions, InReply, ActionOf, Root
<1>5. \A m \in DOMAIN events : events[m].kind \in Results =>
        /\ m \in InReply(events) /\ events[m].call \in Actions(events)
        /\ ActionOf(events, m) = events[m].call
        /\ Root(events, m) = events[events[m].call].response
        /\ events[events[m].call].call = events[m].call
  BY DEF Actions, InReply, ActionOf, Root, Results, Named
<1>6. \A a \in Actions(events) : a \in R <=> events[a].response \in R
  BY <1>4 DEF Closed
<1>7. \A m \in DOMAIN events : events[m].kind \in Results => (m \in R <=> events[m].call \in R)
  BY <1>5, <1>6 DEF Closed
<1>8. EnforceBatches(events, R) = R
  <2>1. \A x \in R : KindIn(events, x) = "action" => BatchOf(events, x) \subseteq R
    BY <1>3, <1>6 DEF BatchOf
  <2> QED BY <2>1 DEF EnforceBatches
<1>9. left = Shown(events)
  BY <1>8 DEF Shown
<1>10. left = {id \in K : KindIn(events, id) \in Results => events[id].call \notin removed}
  BY DEF FilterUnmatched
<1>11. K = {id \in M : KindIn(events, id) = "action" => BatchOf(events, id) \subseteq M}
  BY DEF EnforceBatches
<1>12. M = {id \in R : /\ KindIn(events, id) \in Results =>
                            \E a \in R : KindIn(events, a) = "action" /\ events[a].call = events[id].call
                       /\ KindIn(events, id) = "action" =>
                            \E m \in R : KindIn(events, m) \in Results /\ events[m].call = events[id].call}
  BY DEF MatchedCalls, CallsOf
<1> HIDE DEF R, M, K, left
<1>13. \A m \in DOMAIN events : events[m].kind \in Results /\ m \in R => m \in M /\ m \in K
  <2> SUFFICES ASSUME NEW m \in DOMAIN events, events[m].kind \in Results, m \in R
               PROVE  m \in M /\ m \in K
    OBVIOUS
  <2>1. KindIn(events, m) \in Results /\ KindIn(events, m) # "action"
    BY <1>3 DEF Results
  <2>2. events[m].call \in R /\ KindIn(events, events[m].call) = "action"
        /\ events[events[m].call].call = events[m].call
    BY <1>3, <1>5, <1>7
  <2> QED BY <1>11, <1>12, <2>1, <2>2
<1>14. removed = Actions(events) \ K
  BY DEF Named
<1>15. \A a \in Actions(events) : a \in left <=> a \in K
  <2>1. \A a \in Actions(events) : a \in R => KindIn(events, a) \notin Results
    BY <1>3 DEF Results
  <2> QED BY <1>10, <1>11, <1>12, <2>1
<1>16. \A m \in DOMAIN events : events[m].kind \in Results => (m \in left <=> events[m].call \in K)
  <2> SUFFICES ASSUME NEW m \in DOMAIN events, events[m].kind \in Results
               PROVE  m \in left <=> events[m].call \in K
    OBVIOUS
  <2>1. events[m].call \in Actions(events)
    BY <1>5
  <2>2. events[m].call \in K => m \in R
    BY <1>7, <1>11, <1>12
  <2>3. m \in left => m \in R
    BY <1>10, <1>11, <1>12
  <2>4. m \in R => (m \in left <=> events[m].call \notin removed)
    BY <1>3, <1>10, <1>13
  <2> QED BY <1>14, <2>1, <2>2, <2>3, <2>4
<1>17. \A x \in InReply(events) : x \in left <=> ActionOf(events, x) \in K
  BY <1>15, <1>16 DEF InReply, ActionOf, Actions
<1>18. \A a \in Actions(events) : a \in K <=> events[a].response \in K
  <2> SUFFICES ASSUME NEW a \in Actions(events) PROVE a \in K <=> events[a].response \in K
    OBVIOUS
  <2> DEFINE r == events[a].response
  <2>1. r \in Actions(events) /\ events[r].response = r
    BY DEF Replied
  <2>2. BatchOf(events, r) = BatchOf(events, a) /\ a \in BatchOf(events, a) /\ r \in BatchOf(events, a)
    BY <2>1 DEF BatchOf
  <2>3. \A b \in Actions(events) : b \in K <=> b \in M /\ BatchOf(events, b) \subseteq M
    BY <1>3, <1>11, <1>12
  <2> QED BY <2>1, <2>2, <2>3
<1>19. Closed(events, left)
  <2> SUFFICES ASSUME NEW x \in InReply(events)
               PROVE  x \in left <=> Root(events, x) \in left
    BY DEF Closed
  <2>1. /\ ActionOf(events, x) \in Actions(events) /\ Root(events, x) \in Actions(events)
        /\ events[ActionOf(events, x)].response = Root(events, x)
    BY RootsAreActions
  <2> QED BY <1>15, <1>17, <1>18, <2>1
<1>20. ASSUME \A a \in Actions(events) :
               \E m \in DOMAIN events : events[m].kind \in Results /\ events[m].call = a
       PROVE  left = R
  <2>1. \A a \in Actions(events) : a \in R => a \in M
    <3> SUFFICES ASSUME NEW a \in Actions(events), a \in R PROVE a \in M
      OBVIOUS
    <3>1. PICK m \in DOMAIN events : events[m].kind \in Results /\ events[m].call = a
      BY <1>20
    <3>2. m \in R /\ KindIn(events, m) \in Results /\ events[m].call = events[a].call
      BY <1>3, <1>7, <3>1 DEF Named
    <3>3. KindIn(events, a) = "action"
      BY <1>3
    <3>4. KindIn(events, a) \notin Results
      BY <3>3 DEF Results
    <3> QED BY <1>12, <3>2, <3>4
  <2>2. \A a \in Actions(events) : a \in R => a \in K
    <3> SUFFICES ASSUME NEW a \in Actions(events), a \in R PROVE a \in K
      OBVIOUS
    <3>1. \A b \in BatchOf(events, a) : b \in Actions(events) /\ b \in R
      BY <1>6 DEF BatchOf
    <3> QED BY <1>11, <2>1, <3>1
  <2>3. \A x \in R : x \in left
    <3> SUFFICES ASSUME NEW x \in R PROVE x \in left
      OBVIOUS
    <3>1. CASE x \in Actions(events)
      BY <1>15, <2>2, <3>1
    <3>2. CASE x \in DOMAIN events /\ events[x].kind \in Results
      <4>1. events[x].call \in Actions(events) /\ events[x].call \in R
        BY <1>5, <1>7, <3>2
      <4> QED BY <1>16, <2>2, <3>2, <4>1
    <3>3. CASE KindIn(events, x) \notin Results \cup {"action"}
      BY <1>10, <1>11, <1>12, <3>3
    <3> QED BY <1>3, <3>1, <3>2, <3>3
  <2> QED BY <1>10, <1>11, <1>12, <2>3
<1> QED BY <1>9, <1>19, <1>20 DEF R

-----------------------------------------------------------------------------
(* Whole replies: what a condensation forgets *)

\* A condensation forgets whole replies.
LEMMA ForgottenClosed ==
  ASSUME NEW events, Ordered(events), Closed(events, Range(Output(events))),
         Reasons(events, ViewOf(events)) # {}
  PROVE  Closed(events, Range(Output(events)) \ Forgetting(events, ViewOf(events)).ids)
<1> DEFINE R == Range(Output(events))
           view == ViewOf(events)
           ids == Forgetting(events, view).ids
           E == Range(events)
<1>1. /\ view \in Seq(UpTo(Len(events))) /\ Sorted(view) /\ Range(view) = Shown(events)
  BY ViewIsShown DEF Ordered
<1>2. events \in Seq(E) /\ IdsOf(events) = UpTo(Len(events))
  BY IdsAreUpTo DEF Ordered, IsLog
<1>3. view \in Seq(IdsOf(events)) /\ view \in Seq(Int)
  <2>1. \A x \in UpTo(Len(events)) : x \in Int
    BY DEF UpTo
  <2> HIDE DEF view
  <2>2. view = [n \in 1..Len(view) |-> view[n]] /\ Len(view) \in Nat
        /\ \A n \in 1..Len(view) : view[n] \in UpTo(Len(events))
    BY <1>1
  <2>3. \A n \in 1..Len(view) : view[n] \in Int
    BY <2>1, <2>2
  <2> QED BY <1>1, <1>2, <2>2, <2>3
<1>4. IsInjective(view)
  BY <1>1, <1>3, SortedIsInjective
<1>5. ids \subseteq Range(view)
  BY <1>2, <1>3, <1>4, ForgetsBlock
<1>6. \A i, j \in DOMAIN view :
        i < j /\ OneReply(events, view, i, j) => (view[i] \in ids <=> view[j] \in ids)
  BY <1>2, <1>3, <1>4, ForgetsWholeReplies
<1>7. Closed(events, Shown(events))
  BY PassesKeepClosed
<1>8. Shown(events) \subseteq R
  BY DEF Shown, FilterUnmatched, EnforceBatches, MatchedCalls
<1>9. DOMAIN view = 1..Len(view) /\ Len(view) \in Nat
  <2> HIDE DEF view
  <2> QED BY <1>1
<1> HIDE DEF view, ids, R, E
<1> SUFFICES ASSUME NEW x \in InReply(events)
             PROVE  x \in R \ ids <=> Root(events, x) \in R \ ids
  BY DEF Closed, R, ids, view
<1> DEFINE r == Root(events, x)
           a == ActionOf(events, x)
<1>10. /\ x \in Nat /\ a \in Actions(events) /\ a <= x
       /\ r \in Actions(events) /\ r \in InReply(events) /\ r <= x
       /\ events[a].response = r /\ events[r].response = r
  BY RootsAreActions DEF Ordered
<1>11. x \in R <=> r \in R
  BY DEF Closed, R
<1>12. CASE r = x
  BY <1>12
<1>13. CASE r # x /\ x \notin Shown(events)
  <2>1. r \notin Shown(events)
    BY <1>7, <1>13 DEF Closed
  <2> QED BY <1>1, <1>5, <1>11, <1>13, <2>1
<1>14. CASE r # x /\ x \in Shown(events)
  <2>1. r \in Shown(events) /\ a \in Shown(events)
    <3>1. r \in Shown(events)
      BY <1>7, <1>14 DEF Closed
    <3>2. a \in InReply(events) /\ Root(events, a) = r
      BY <1>10 DEF InReply, Actions, Root, ActionOf
    <3> QED BY <1>7, <3>1, <3>2 DEF Closed
  <2>2. PICK i \in DOMAIN view : view[i] = r
    BY <1>1, <2>1 DEF Range
  <2>3. PICK j \in DOMAIN view : view[j] = x
    BY <1>1, <1>14 DEF Range
  <2>4. PICK k \in DOMAIN view : view[k] = a
    BY <1>1, <2>1 DEF Range
  <2>5. r \in Nat /\ r > 0 /\ r < x
    <3>1. DOMAIN events \subseteq Nat \ {0}
      BY <1>2
    <3> QED BY <1>10, <1>14, <3>1 DEF Actions
  <2>6. i < j
    <3>1. i # j
      BY <1>14, <2>2, <2>3
    <3>2. ~(j < i)
      BY <1>1, <1>10, <2>2, <2>3, <2>5 DEF Sorted
    <3> QED BY <1>9, <3>1, <3>2
  <2>7. KindIn(events, r) = "action"
    BY <1>10, <2>5 DEF KindIn, Actions
  <2>8. OneReply(events, view, i, j)
    <3>1. a \in BatchOf(events, r)
      BY <1>10 DEF BatchOf
    <3>2. CASE events[x].kind = "action"
      <4>1. a = x
        BY <3>2 DEF ActionOf
      <4> QED BY <2>2, <2>3, <2>7, <3>1, <4>1 DEF OneReply, IsAction
    <3>3. CASE events[x].kind # "action"
      <4>1. a = events[x].call /\ events[a].call = a /\ KindIn(events, x) \in Results
        BY <1>10, <3>3, <2>5 DEF ActionOf, Ordered, Named, InReply, KindIn
      <4> QED BY <2>2, <2>3, <2>4, <2>7, <3>1, <4>1 DEF OneReply, IsAction
    <3> QED BY <3>2, <3>3
  <2>9. r \in ids <=> x \in ids
    BY <1>6, <2>2, <2>3, <2>6, <2>8
  <2> QED BY <1>11, <2>9
<1> QED BY <1>12, <1>13, <1>14

\* Two sequences of the same elements are equal.
LEMMA SameElements ==
  ASSUME NEW E, NEW s, NEW t, NEW n \in Nat, s \in Seq(E), t \in Seq(E),
         Len(s) = n, Len(t) = n, \A k \in 1..n : s[k] = t[k]
  PROVE  s = t
<1>1. s = [k \in 1..n |-> s[k]] /\ t = [k \in 1..n |-> t[k]]
  OBVIOUS
<1> QED BY <1>1, Zenon

\* A block of a view replaced by a summary, or by nothing.
LEMMA BlockReplaced ==
  ASSUME NEW s, NEW i \in Nat, NEW j \in Nat, NEW e \in Int,
         s \in Seq(Int), i <= j, j <= Len(s)
  PROVE  LET left == Left(s, i, j, Len(s))
             u == SubSeq(s, 1, i) \o <<>> \o SubSeq(s, j + 1, Len(s))
             v == SubSeq(s, 1, i) \o <<e>> \o SubSeq(s, j + 1, Len(s))
         IN /\ u = left /\ Len(left) = Len(s) - (j - i)
            /\ \A t \in Seq(Int) : Inserted(t, left, i + 1, e) => t = v
<1> DEFINE N == Len(s)
           left == Left(s, i, j, N)
           A == SubSeq(s, 1, i)
           C == SubSeq(s, j + 1, N)
           u == A \o <<>> \o C
           v == A \o <<e>> \o C
<1>1. N \in Nat /\ j <= N /\ \A k \in 1..N : s[k] \in Int
  OBVIOUS
<1> HIDE DEF N
<1>2. Remaining(i, j, N) = N - (j - i) /\ N - (j - i) \in Nat
  BY <1>1 DEF Remaining
<1>3. left = [k \in 1..(N - (j - i)) |-> s[Place(i, j, k)]]
  BY <1>2 DEF Left
<1>4. \A k \in 1..(N - (j - i)) :
        Place(i, j, k) \in 1..N /\ Place(i, j, k) = (IF k <= i THEN k ELSE k + (j - i))
  BY <1>1 DEF Place
<1>5. left \in Seq(Int) /\ Len(left) = N - (j - i)
      /\ \A k \in 1..(N - (j - i)) : left[k] = s[Place(i, j, k)]
  BY <1>1, <1>2, <1>3, <1>4
<1> HIDE DEF left
<1>6. A \in Seq(Int) /\ Len(A) = i /\ \A k \in 1..i : A[k] = s[k]
  <2>1. /\ SubSeq(s, 1, i) \in Seq(Int)
        /\ Len(SubSeq(s, 1, i)) = IF 1 <= i THEN i - 1 + 1 ELSE 0
        /\ \A k \in 1..(i - 1 + 1) : SubSeq(s, 1, i)[k] = s[1 + k - 1]
    <3>1. 1 \in Int /\ i \in Int /\ \A k \in 1..i : s[k] \in Int
      BY <1>1
    <3> QED BY <3>1, SubSeqProperties
  <2>2. \A k \in 1..i : k \in 1..(i - 1 + 1) /\ 1 + k - 1 = k
    OBVIOUS
  <2>3. (IF 1 <= i THEN i - 1 + 1 ELSE 0) = i
    OBVIOUS
  <2> QED BY <2>1, <2>2, <2>3
<1>7. C \in Seq(Int) /\ Len(C) = N - j /\ \A k \in 1..(N - j) : C[k] = s[j + k]
  <2> DEFINE m == j + 1
  <2>1. m \in Int /\ N \in Int /\ \A k \in m..N : s[k] \in Int
    BY <1>1
  <2>2. /\ SubSeq(s, m, N) \in Seq(Int)
        /\ Len(SubSeq(s, m, N)) = IF m <= N THEN N - m + 1 ELSE 0
        /\ \A k \in 1..(N - m + 1) : SubSeq(s, m, N)[k] = s[m + k - 1]
    <3> HIDE DEF m
    <3> QED BY <2>1, SubSeqProperties
  <2>3. \A k \in 1..(N - j) : k \in 1..(N - m + 1) /\ m + k - 1 = j + k
    BY <1>1
  <2>4. (IF m <= N THEN N - m + 1 ELSE 0) = N - j
    BY <1>1
  <2> QED BY <2>2, <2>3, <2>4
<1> HIDE DEF A, C
<1>8. u = left
  <2>1. u = A \o C
    BY <1>6, <1>7
  <2>2. u \in Seq(Int) /\ Len(u) = i + (N - j)
    BY <1>6, <1>7, <2>1
  <2>3. i + (N - j) = N - (j - i)
    BY <1>1
  <2>4. ASSUME NEW k \in 1..(N - (j - i)) PROVE u[k] = left[k]
    <3>1. CASE k <= i
      <4>1. k \in 1..i
        BY <1>1, <3>1
      <4>2. u[k] = A[k]
        BY <1>6, <1>7, <2>1, <4>1
      <4> QED BY <1>4, <1>5, <1>6, <3>1, <4>1, <4>2
    <3>2. CASE ~(k <= i)
      <4>1. k - i \in 1..(N - j) /\ j + (k - i) = k + (j - i)
        BY <1>1, <3>2
      <4>2. u[k] = C[k - i]
        <5>1. \A n \in 1..Len(A) + Len(C) :
                (A \o C)[n] = IF n <= Len(A) THEN A[n] ELSE C[n - Len(A)]
          BY <1>6, <1>7, ConcatProperties
        <5>2. k \in 1..(i + (N - j))
          BY <2>3
        <5>3. Len(A) = i /\ Len(C) = N - j
          BY <1>6, <1>7
        <5>4. k \in 1..Len(A) + Len(C) /\ ~(k <= Len(A))
          BY <3>2, <5>2, <5>3
        <5>5. (A \o C)[k] = C[k - Len(A)]
          BY <5>1, <5>4, Zenon
        <5> DEFINE w == A \o C
        <5>6. w[k] = C[k - Len(A)] /\ u = w
          BY <2>1, <5>5
        <5> HIDE DEF u, w
        <5> QED BY <5>3, <5>6
      <4>3. left[k] = s[k + (j - i)]
        BY <1>4, <1>5, <3>2
      <4>4. C[k - i] = s[j + (k - i)]
        BY <1>7, <4>1
      <4> HIDE DEF u
      <4> QED BY <4>1, <4>2, <4>3, <4>4
    <3> QED BY <3>1, <3>2
  <2> HIDE DEF u
  <2>5. Len(u) = N - (j - i)
    BY <2>2, <2>3
  <2> QED BY <1>2, <1>5, <2>2, <2>4, <2>5, SameElements
<1>9. ASSUME NEW t \in Seq(Int), Inserted(t, left, i + 1, e) PROVE t = v
  <2>1. /\ Len(t) = N - (j - i) + 1 /\ t[i + 1] = e
        /\ \A k \in 1..i : t[k] = left[k]
        /\ \A k \in (i + 1)..(N - (j - i)) : t[k + 1] = left[k]
    <3>1. i + 1 - 1 = i
      OBVIOUS
    <3> QED BY <1>5, <1>9, <3>1 DEF Inserted
  <2> DEFINE w == A \o <<e>>
  <2>2. w \in Seq(Int) /\ Len(w) = i + 1 /\ w[i + 1] = e /\ \A k \in 1..i : w[k] = A[k]
    BY <1>6
  <2>3. v = w \o C
    OBVIOUS
  <2> HIDE DEF w, v
  <2>4. v \in Seq(Int) /\ Len(v) = (i + 1) + (N - j)
    <3>1. v \in Seq(Int) /\ Len(v) = Len(w) + Len(C)
      BY <1>7, <2>2, <2>3, ConcatProperties
    <3> QED BY <1>7, <2>2, <3>1
  <2>5. (i + 1) + (N - j) = N - (j - i) + 1
    BY <1>1
  <2>6. /\ \A k \in 1..(i + 1) : v[k] = w[k]
        /\ \A k \in 1..(N - j) : v[i + 1 + k] = C[k]
    <3>1. \A k \in 1..(i + 1) : v[k] = w[k]
      BY <1>7, <2>2, <2>3
    <3>2. ASSUME NEW k \in 1..(N - j) PROVE v[i + 1 + k] = C[k]
      <4> DEFINE L == Len(w)
      <4>1. L + k - L = k /\ L \in Nat /\ L + k > L /\ L + k <= L + Len(C) /\ L + k \in Nat
        BY <1>1, <1>7, <2>2
      <4>2. (w \o C)[L + k] = C[L + k - L]
        <5>1. \A n \in 1..Len(w) + Len(C) :
                (w \o C)[n] = IF n <= Len(w) THEN w[n] ELSE C[n - Len(w)]
          BY <1>7, <2>2, ConcatProperties
        <5>2. L + k \in 1..L + Len(C) /\ ~(L + k <= L)
          BY <4>1
        <5> QED BY <5>1, <5>2
      <4> QED BY <2>2, <2>3, <4>1, <4>2
    <3> QED BY <3>1, <3>2
  <2>7. ASSUME NEW k \in 1..(N - (j - i) + 1) PROVE t[k] = v[k]
    <3>1. CASE k <= i
      <4>1. k \in 1..i /\ k \in 1..(i + 1) /\ k \in 1..(N - (j - i))
        BY <1>1, <3>1
      <4>2. left[k] = s[k]
        BY <1>4, <1>5, <3>1, <4>1
      <4> QED BY <1>6, <2>1, <2>2, <2>6, <4>1, <4>2
    <3>2. CASE k = i + 1
      <4>1. k \in 1..(i + 1)
        BY <3>2
      <4> QED BY <2>1, <2>2, <2>6, <3>2, <4>1
    <3>3. CASE k > i + 1
      <4> DEFINE m == k - 1 - i
      <4>1. m \in 1..(N - j) /\ j + m = (k - 1) + (j - i) /\ i + 1 + m = k
        BY <1>1, <3>3
      <4>2. v[k] = s[j + m]
        BY <1>7, <2>6, <4>1
      <4>4. k - 1 \in (i + 1)..(N - (j - i)) /\ k - 1 \in 1..(N - (j - i)) /\ (k - 1) + 1 = k /\ ~(k - 1 <= i)
        BY <1>1, <3>3
      <4>5. t[k] = left[k - 1]
        BY <2>1, <4>4
      <4>6. left[k - 1] = s[(k - 1) + (j - i)]
        BY <1>4, <1>5, <4>4
      <4> HIDE DEF m
      <4> QED BY <4>1, <4>2, <4>5, <4>6
    <3> QED BY <3>1, <3>2, <3>3
  <2>8. N - (j - i) + 1 \in Nat
    BY <1>2
  <2>9. Len(v) = N - (j - i) + 1
    BY <2>4, <2>5
  <2> QED BY <2>1, <2>4, <2>7, <2>8, <2>9, SameElements
<1> QED BY <1>5, <1>8, <1>9 DEF left, u, v, A, C, N

-----------------------------------------------------------------------------
(* One event more: what may follow keeps the view sound *)

\* What the condenser forgets is a block of the view behind the head.
LEMMA BlockOfOutput ==
  ASSUME NEW events, IsLog(events), OutputIsView(events),
         Reasons(events, ViewOf(events)) # {}
  PROVE  LET view == ViewOf(events)
             forgetting == Forgetting(events, view)
         IN /\ forgetting.start \in Nat
            /\ forgetting.start >= KeepFirst
            /\ forgetting.ids \subseteq Range(view)
            /\ forgetting.ids # {} =>
                 \E stop \in Nat :
                   /\ forgetting.start < stop /\ stop <= Len(view)
                   /\ \A i \in 1..Len(view) :
                        view[i] \in forgetting.ids <=> forgetting.start < i /\ i <= stop
<1> DEFINE view == ViewOf(events)
           ids == Forgetting(events, view).ids
           E == Range(events)
<1>1. /\ view \in Seq(UpTo(Len(events))) /\ Sorted(view)
  BY ViewIsShown
<1>2. events \in Seq(E) /\ IdsOf(events) = UpTo(Len(events))
  BY IdsAreUpTo DEF IsLog
<1>3. view \in Seq(IdsOf(events)) /\ view \in Seq(Int) /\ Len(view) \in Nat
      /\ DOMAIN view = 1..Len(view)
  <2>1. UpTo(Len(events)) \subseteq Int
    BY DEF UpTo
  <2> HIDE DEF view
  <2> QED BY <1>1, <1>2, <2>1, SeqMonotonic
<1>4. IsInjective(view)
  BY <1>1, <1>3, SortedIsInjective
<1>5. PICK start, end \in Int :
           /\ start >= KeepFirst /\ Forgetting(events, view).start = start
           /\ ids \subseteq Range(view)
           /\ \A i \in DOMAIN view : view[i] \in ids <=> start < i /\ i <= end
  <2>1. \E start, end \in Int :
           /\ start >= KeepFirst /\ Forgetting(events, view).start = start
           /\ ids \subseteq Range(view)
           /\ \A cut \in {start, end} :
                cut \in ManipulationIndices(events, view) \/ cut > Len(view)
           /\ \A i \in DOMAIN view : view[i] \in ids <=> start < i /\ i <= end
    BY <1>2, <1>3, <1>4, ForgetsBlock
  <2> QED BY <2>1
<1>6. start \in Nat
  BY <1>5, CondenserAssumption
<1> HIDE DEF view, ids
<1>7. ASSUME ids # {}
      PROVE  \E stop \in Nat :
               /\ start < stop /\ stop <= Len(view)
               /\ \A i \in 1..Len(view) : view[i] \in ids <=> start < i /\ i <= stop
  <2>1. PICK i \in 1..Len(view) : view[i] \in ids
    BY <1>3, <1>5, <1>7 DEF Range
  <2>2. start < i /\ i <= end
    BY <1>3, <1>5, <2>1
  <2> DEFINE stop == IF end <= Len(view) THEN end ELSE Len(view)
  <2>3. stop \in Nat /\ start < stop /\ stop <= Len(view)
    BY <1>3, <1>6, <2>1, <2>2
  <2>4. \A k \in 1..Len(view) : k <= end <=> k <= stop
    BY <1>3
  <2> HIDE DEF stop
  <2> QED BY <1>3, <1>5, <2>3, <2>4
<1> QED BY <1>5, <1>6, <1>7 DEF view, ids

\* The condensation of a log that the passes leave as it is replaces one block.
LEMMA CondensesBlock ==
  ASSUME NEW events, NEW c, NEW n \in Nat \ {0}, Ordered(events), ViewOf(events) = Output(events),
         Reasons(events, ViewOf(events)) # {}, Forgetting(events, ViewOf(events)).ids # {},
         c.forgotten = Forgetting(events, ViewOf(events)).ids,
         c.offset = Forgetting(events, ViewOf(events)).start
  PROVE  \E i \in KeepFirst..Len(ViewOf(events)), j \in 1..Len(ViewOf(events)) :
           /\ i < j
           /\ Forget(c, ViewOf(events), n)
                = SubSeq(ViewOf(events), 1, i) \o (IF c.summary THEN <<-n>> ELSE <<>>)
                    \o SubSeq(ViewOf(events), j + 1, Len(ViewOf(events)))
<1> DEFINE view == ViewOf(events)
           N == Len(view)
           kept == Kept(c, view)
           t == Forget(c, view, n)
<1>1. view \in Seq(Int)
  <2>1. view \in Seq(UpTo(Len(events))) /\ UpTo(Len(events)) \subseteq Int
    BY ViewIsShown DEF Ordered, UpTo
  <2> HIDE DEF view
  <2> QED BY <2>1, SeqMonotonic
<1>2. PICK i \in Nat, j \in Nat :
        /\ c.offset = i /\ i >= KeepFirst /\ i < j /\ j <= N
        /\ \A k \in 1..N : view[k] \in c.forgotten <=> i < k /\ k <= j
  BY BlockOfOutput DEF Ordered
<1> HIDE DEF view
<1>3. N \in Nat /\ DOMAIN view = 1..N
  BY <1>1
<1>4. kept = Left(view, i, j, N)
  <2> DEFINE S == Range(view) \ c.forgotten
  <2>1. \A k \in 1..N : view[k] \in Range(view)
    BY <1>3 DEF Range
  <2>2. \A k \in 1..N : view[k] \in S <=> k <= i \/ k > j
    BY <1>2, <1>3, <2>1
  <2>3. i <= j
    BY <1>2
  <2> HIDE DEF S
  <2>4. Only(view, S) = Left(view, i, j, N)
    BY <1>1, <1>2, <2>2, <2>3, OnlyLeft
  <2> QED BY <2>4 DEF Kept, S
<1>5. -n \in Int /\ i <= j
  BY <1>2
<1>6. /\ SubSeq(view, 1, i) \o <<>> \o SubSeq(view, j + 1, N) = kept
      /\ Len(kept) = N - (j - i)
      /\ \A u \in Seq(Int) : Inserted(u, kept, i + 1, -n) =>
           u = SubSeq(view, 1, i) \o <<-n>> \o SubSeq(view, j + 1, N)
  <2> DEFINE m == -n
             left == Left(view, i, j, N)
  <2>1. m \in Int /\ i <= j /\ j <= Len(view)
    BY <1>2, <1>5
  <2> HIDE DEF m
  <2>2. /\ SubSeq(view, 1, i) \o <<>> \o SubSeq(view, j + 1, N) = left
        /\ Len(left) = N - (j - i)
        /\ \A u \in Seq(Int) : Inserted(u, left, i + 1, m) =>
             u = SubSeq(view, 1, i) \o <<m>> \o SubSeq(view, j + 1, N)
    BY <1>1, <2>1, BlockReplaced
  <2> HIDE DEF left, kept
  <2> QED BY <1>4, <2>2 DEF m, left
<1>7. /\ t \in Seq(Int)
      /\ ~c.summary => t = kept
      /\ c.summary => \E at \in 1..(Len(kept) + 1) :
                        /\ at = 1 + IF c.offset < Len(kept) THEN c.offset ELSE Len(kept)
                        /\ Inserted(t, kept, at, -n)
  BY <1>1, <1>2, ForgetIsView
<1> HIDE DEF kept, t
<1>8. (1 + IF c.offset < Len(kept) THEN c.offset ELSE Len(kept)) = i + 1
  BY <1>2, <1>3, <1>6
<1>9. t = SubSeq(view, 1, i) \o (IF c.summary THEN <<-n>> ELSE <<>>) \o SubSeq(view, j + 1, N)
  <2>1. CASE c.summary
    <3>1. Inserted(t, kept, i + 1, -n)
      BY <1>7, <1>8, <2>1
    <3>2. t = SubSeq(view, 1, i) \o <<-n>> \o SubSeq(view, j + 1, N)
      BY <1>6, <1>7, <3>1
    <3> QED BY <2>1, <3>2
  <2>2. CASE ~c.summary
    <3>1. t = SubSeq(view, 1, i) \o <<>> \o SubSeq(view, j + 1, N)
      BY <1>6, <1>7, <2>2
    <3> QED BY <2>2, <3>1
  <2> QED BY <2>1, <2>2
<1>10. i \in KeepFirst..N /\ j \in 1..N
  BY <1>2, <1>3, CondenserAssumption
<1> QED BY <1>2, <1>9, <1>10 DEF view, t

-----------------------------------------------------------------------------

\* A log whose actions are in order, and whose output holds whole replies.
Sound(events) == Ordered(events) /\ Closed(events, Range(Output(events)))

\* The events that may follow: a call of a new reply or of one that is shown, a
\* result of a call that is shown, what the condenser makes of the log, and
\* what belongs to no reply.
MayFollow(events, e) ==
  \/ e.kind \notin Results \cup {"action", "condensation"}
  \/ /\ e.kind = "action" /\ e.call = Len(events) + 1
     /\ \/ e.response = Len(events) + 1
        \/ /\ e.response \in Actions(events) /\ e.response \in Range(Output(events))
           /\ events[e.response].response = e.response
  \/ /\ e.kind \in Results
     /\ e.call \in Actions(events) /\ e.call \in Range(Output(events))
     /\ e.kind \in {"observation", "rejection"} => e.action = e.call
  \/ /\ e.kind = "condensation"
     /\ Reasons(events, ViewOf(events)) # {}
     /\ e.forgotten = Forgetting(events, ViewOf(events)).ids
     /\ e.offset = Forgetting(events, ViewOf(events)).start

\* One event more that may follow keeps the log sound, and the output is
\* extended by what the event does to it.
LEMMA SoundAppends ==
  ASSUME NEW events, NEW e, Sound(events), MayFollow(events, e)
  PROVE  /\ Sound(Append(events, e))
         /\ Range(Output(Append(events, e))) = RangeAfter(e, Range(Output(events)), Len(events) + 1)
         /\ Output(Append(events, e)) = Extend(e, Output(events), Len(events) + 1)
<1> DEFINE N == Len(events)
           more == Append(events, e)
           R == Range(Output(events))
           after == Range(Output(more))
<1> USE DEF Sound, Ordered
<1>1. /\ N \in Nat /\ DOMAIN events = 1..N /\ DOMAIN more = 1..(N + 1)
      /\ more[N + 1] = e /\ \A n \in 1..N : more[n] = events[n]
  BY DEF IsLog
<1>2. HasOffset(e)
  <2>1. e.kind = "condensation" => e.offset = Forgetting(events, ViewOf(events)).start
                                   /\ Reasons(events, ViewOf(events)) # {}
    BY DEF MayFollow, Results
  <2> QED BY <2>1, BlockOfOutput DEF HasOffset
<1>3. /\ IsLog(more) /\ OutputIsView(more)
      /\ Output(more) = Extend(e, Output(events), N + 1)
      /\ after = RangeAfter(e, R, N + 1)
  BY <1>2, OutputAppends, AppendedIsView
<1>4. R \subseteq UpTo(N) /\ N + 1 \notin R
  <2>1. R \subseteq UpTo(N)
    BY DEF OutputIsView, Range
  <2>2. N + 1 \notin UpTo(N)
    BY <1>1 DEF UpTo
  <2> QED BY <2>1, <2>2
<1> HIDE DEF more, N, R, after
<1>5. /\ \A n \in 1..(N + 1) : n \in 1..N \/ n = N + 1
      /\ \A n \in 1..N : n \in 1..(N + 1) /\ n # N + 1
      /\ N + 1 \in 1..(N + 1)
  BY <1>1
<1>6. /\ Actions(events) \subseteq 1..N
      /\ \A a \in Actions(events) : a \in Actions(more) /\ more[a] = events[a]
      /\ \A a \in Actions(more) : a \in Actions(events) \/ (a = N + 1 /\ e.kind = "action")
      /\ e.kind = "action" => N + 1 \in Actions(more)
  BY <1>1, <1>5 DEF Actions
<1>7. e.kind = "action" =>
        /\ e.call = N + 1
        /\ e.response \in Actions(more) /\ e.response <= N + 1
        /\ more[e.response].response = e.response
  <2> SUFFICES ASSUME e.kind = "action"
               PROVE  /\ e.call = N + 1
                      /\ e.response \in Actions(more) /\ e.response <= N + 1
                      /\ more[e.response].response = e.response
    OBVIOUS
  <2>1. /\ e.call = N + 1
        /\ \/ e.response = N + 1
           \/ e.response \in Actions(events) /\ events[e.response].response = e.response
    BY DEF MayFollow, Results, N
  <2>2. CASE e.response = N + 1
    BY <1>1, <1>6, <2>1, <2>2
  <2>3. CASE e.response \in Actions(events) /\ events[e.response].response = e.response
    BY <1>1, <1>6, <2>1, <2>3
  <2> QED BY <2>1, <2>2, <2>3
<1>8. e.kind \in Results => e.call \in Actions(events) /\ e.call \in R
  BY DEF MayFollow, Results, R
<1>9. Named(more)
  <2>1. \A a \in Actions(more) : more[a].call = a
    BY <1>1, <1>6, <1>7 DEF Named
  <2>2. ASSUME NEW m \in 1..(N + 1), more[m].kind \in Results
        PROVE  more[m].call \in Actions(more) /\ more[m].call < m
    <3>1. CASE m \in 1..N
      BY <1>1, <1>6, <2>2, <3>1 DEF Named
    <3>2. CASE m = N + 1
      <4>1. e.call \in Actions(events) /\ e.call \in 1..N
        BY <1>1, <1>6, <1>8, <2>2, <3>2
      <4>2. e.call < N + 1
        BY <1>1, <4>1
      <4> QED BY <1>1, <1>6, <3>2, <4>1, <4>2
    <3> QED BY <1>5, <3>1, <3>2
  <2>3. ASSUME NEW m \in 1..(N + 1), more[m].kind \in {"observation", "rejection"}
        PROVE  more[m].action = more[m].call
    <3>1. CASE m \in 1..N
      BY <1>1, <2>3, <3>1 DEF Named
    <3>2. CASE m = N + 1
      BY <1>1, <2>3, <3>2 DEF MayFollow, Results
    <3> QED BY <1>5, <3>1, <3>2
  <2> QED BY <1>1, <2>1, <2>2, <2>3 DEF Named
<1>10. Replied(more)
  <2> SUFFICES ASSUME NEW a \in Actions(more)
               PROVE  /\ more[a].response \in Actions(more) /\ more[a].response <= a
                      /\ more[more[a].response].response = more[a].response
    BY DEF Replied
  <2>1. CASE a \in Actions(events)
    BY <1>6, <2>1 DEF Replied
  <2>2. CASE a = N + 1 /\ e.kind = "action"
    BY <1>1, <1>7, <2>2
  <2> QED BY <1>6, <2>1, <2>2
<1>11. ASSUME NEW x \in InReply(events)
       PROVE  x \in 1..N /\ Root(more, x) = Root(events, x) /\ Root(events, x) \in 1..N
  <2>1. x \in 1..N /\ more[x] = events[x]
    BY <1>1 DEF InReply
  <2>2. ActionOf(events, x) \in Actions(events) /\ Root(events, x) \in Actions(events)
    BY RootsAreActions
  <2>3. ActionOf(more, x) = ActionOf(events, x)
    BY <2>1 DEF ActionOf
  <2> QED BY <1>6, <2>1, <2>2, <2>3 DEF Root
<1>12. \A x \in InReply(more) : x \in InReply(events) \/ (x = N + 1 /\ e.kind \in Results \cup {"action"})
  BY <1>1, <1>5 DEF InReply
<1>13. Closed(more, after)
  <2> SUFFICES ASSUME NEW x \in InReply(more)
               PROVE  x \in after <=> Root(more, x) \in after
    BY DEF Closed
  <2>1. CASE x \in InReply(events) /\ e.kind # "condensation"
    <3>1. \A y \in 1..N : y \in after <=> y \in R
      BY <1>3, <1>5, <2>1 DEF RangeAfter
    <3>2. x \in R <=> Root(events, x) \in R
      BY <2>1 DEF Closed, R
    <3> QED BY <1>11, <2>1, <3>1, <3>2
  <2>2. CASE x \in InReply(events) /\ e.kind = "condensation"
    <3> DEFINE left == R \ Forgetting(events, ViewOf(events)).ids
    <3>1. Closed(events, left)
      BY <2>2, ForgottenClosed DEF MayFollow, Results, R
    <3>2. after = left \/ after = left \cup {-(N + 1)}
      BY <1>3, <2>2 DEF RangeAfter, MayFollow, Results
    <3>3. \A y \in 1..N : y # -(N + 1)
      BY <1>1
    <3> HIDE DEF left
    <3>4. \A y \in 1..N : y \in after <=> y \in left
      BY <3>2, <3>3
    <3>5. x \in left <=> Root(events, x) \in left
      BY <2>2, <3>1 DEF Closed
    <3> QED BY <1>11, <2>2, <3>4, <3>5
  <2>3. CASE x = N + 1 /\ e.kind = "action"
    <3>1. x \in after /\ R \subseteq after
      BY <1>3, <2>3 DEF RangeAfter, Convertible
    <3>2. Root(more, x) = e.response
      BY <1>1, <2>3 DEF Root, ActionOf
    <3>3. e.response = N + 1 \/ e.response \in R
      BY <2>3 DEF MayFollow, Results, N, R
    <3> QED BY <2>3, <3>1, <3>2, <3>3
  <2>4. CASE x = N + 1 /\ e.kind \in Results
    <3>1. x \in after /\ R \subseteq after
      BY <1>3, <2>4 DEF RangeAfter, Convertible, Results
    <3>2. e.call \in Actions(events) /\ e.call \in R
      BY <1>8, <2>4
    <3>3. Root(more, x) = events[e.call].response
      BY <1>1, <1>6, <2>4, <3>2 DEF Root, ActionOf, Results
    <3>4. e.call \in InReply(events) /\ Root(events, e.call) = events[e.call].response
      BY <3>2 DEF InReply, Actions, Root, ActionOf
    <3>5. events[e.call].response \in R
      BY <3>2, <3>4 DEF Closed, R
    <3> QED BY <2>4, <3>1, <3>3, <3>5
  <2> QED BY <1>12, <2>1, <2>2, <2>3, <2>4
<1> QED BY <1>3, <1>9, <1>10, <1>13 DEF more, after, N, R

-----------------------------------------------------------------------------
(* A log of which every call is answered *)

\* Every action has a result.
AllAnswered(events) ==
  \A a \in Actions(events) : \E m \in DOMAIN events : events[m].kind \in Results /\ events[m].call = a

\* The passes take nothing from a log of which every action has a result.
LEMMA AnsweredIsShown ==
  ASSUME NEW events, Sound(events), AllAnswered(events)
  PROVE  ViewOf(events) = Output(events)
<1>1. Shown(events) = Range(Output(events))
  BY PassesKeepClosed DEF Sound, AllAnswered
<1>2. Output(events) \in Seq(UpTo(Len(events))) /\ ViewOf(events) = Only(Output(events), Shown(events))
  BY ViewIsShown DEF Sound, Ordered, OutputIsView
<1> QED BY <1>1, <1>2, OnlyAll

\* An event that is neither an action nor a condensation makes the LLM forget nothing.
LEMMA NothingForgotten ==
  ASSUME NEW events, NEW e, IsLog(events), OutputIsView(events),
         e.kind \notin {"action", "condensation"}
  PROVE  Range(ViewOf(events)) \subseteq Range(ViewOf(Append(events, e)))
<1> DEFINE N == Len(events)
           more == Append(events, e)
           R == Range(Output(events))
           after == Range(Output(more))
<1>1. /\ N \in Nat /\ DOMAIN events = 1..N /\ DOMAIN more = 1..(N + 1)
      /\ more[N + 1] = e /\ \A n \in 1..N : more[n] = events[n]
  BY DEF IsLog
<1>2. IsLog(more) /\ OutputIsView(more) /\ after = RangeAfter(e, R, N + 1)
  <2>1. HasOffset(e)
    BY DEF HasOffset
  <2> QED BY <2>1, OutputAppends, AppendedIsView
<1>3. R \subseteq UpTo(N) /\ IdsOf(events) = UpTo(N)
  BY IdsAreUpTo DEF OutputIsView, Range, IsLog
<1>4. Range(ViewOf(events)) = Shown(events) /\ Range(ViewOf(more)) = Shown(more)
  BY <1>2, ViewIsShown
<1> HIDE DEF more, R, after, N
<1>5. R \subseteq after
  BY <1>2 DEF RangeAfter
<1>6. Actions(more) = Actions(events) /\ \A a \in Actions(events) : more[a] = events[a] /\ a \in 1..N
  <2>1. \A n \in 1..(N + 1) : n \in 1..N \/ n = N + 1
    BY <1>1
  <2>2. \A n \in 1..N : n \in 1..(N + 1)
    BY <1>1
  <2> QED BY <1>1, <2>1, <2>2 DEF Actions
<1>7. \A id \in R : /\ KindIn(more, id) = KindIn(events, id)
                    /\ KindIn(events, id) \in Results \cup {"action"} => more[id] = events[id]
                    /\ KindIn(events, id) = "action" => id \in Actions(events)
  <2> SUFFICES ASSUME NEW id \in R
               PROVE  /\ KindIn(more, id) = KindIn(events, id)
                      /\ KindIn(events, id) \in Results \cup {"action"} => more[id] = events[id]
                      /\ KindIn(events, id) = "action" => id \in Actions(events)
    OBVIOUS
  <2>1. CASE id < 0
    BY <2>1 DEF KindIn, Results
  <2>2. CASE ~(id < 0)
    <3>1. id \in 1..N
      BY <1>1, <1>3, <2>2 DEF UpTo
    <3> QED BY <1>1, <2>2, <3>1 DEF KindIn, Actions
  <2> QED BY <2>1, <2>2
<1>8. \A a \in Actions(events) : BatchOf(more, a) = BatchOf(events, a)
  BY <1>6 DEF BatchOf
<1> DEFINE B == EnforceBatches(events, R)
           C == EnforceBatches(more, after)
           MB == MatchedCalls(events, B)
           MC == MatchedCalls(more, C)
           KB == EnforceBatches(events, MB)
           KC == EnforceBatches(more, MC)
<1>9. B \subseteq C /\ B \subseteq R
  BY <1>5, <1>7, <1>8 DEF EnforceBatches
<1>10. MB \subseteq MC /\ MB \subseteq B
  <2> HIDE DEF B, C
  <2>1. MB = {id \in B : /\ KindIn(events, id) \in Results =>
                              \E a \in B : KindIn(events, a) = "action" /\ events[a].call = events[id].call
                         /\ KindIn(events, id) = "action" =>
                              \E m \in B : KindIn(events, m) \in Results /\ events[m].call = events[id].call}
    BY DEF MatchedCalls, CallsOf
  <2>2. MC = {id \in C : /\ KindIn(more, id) \in Results =>
                              \E a \in C : KindIn(more, a) = "action" /\ more[a].call = more[id].call
                         /\ KindIn(more, id) = "action" =>
                              \E m \in C : KindIn(more, m) \in Results /\ more[m].call = more[id].call}
    BY DEF MatchedCalls, CallsOf
  <2> HIDE DEF MB, MC
  <2> SUFFICES ASSUME NEW id \in MB PROVE id \in MC /\ id \in B
    OBVIOUS
  <2>3. id \in B /\ id \in C /\ id \in R
    BY <1>9, <2>1
  <2>4. ASSUME KindIn(more, id) \in Results
        PROVE  \E a \in C : KindIn(more, a) = "action" /\ more[a].call = more[id].call
    <3>1. KindIn(events, id) \in Results
      BY <1>7, <2>3, <2>4
    <3>2. PICK a \in B : KindIn(events, a) = "action" /\ events[a].call = events[id].call
      BY <2>1, <3>1
    <3>3. a \in C /\ a \in R
      BY <1>9, <3>2
    <3> QED BY <1>7, <2>3, <3>1, <3>2, <3>3
  <2>5. ASSUME KindIn(more, id) = "action"
        PROVE  \E m \in C : KindIn(more, m) \in Results /\ more[m].call = more[id].call
    <3>1. KindIn(events, id) = "action"
      BY <1>7, <2>3, <2>5
    <3>2. PICK m \in B : KindIn(events, m) \in Results /\ events[m].call = events[id].call
      BY <2>1, <3>1
    <3>3. m \in C /\ m \in R
      BY <1>9, <3>2
    <3> QED BY <1>7, <2>3, <3>1, <3>2, <3>3
  <2> QED BY <2>2, <2>3, <2>4, <2>5
<1> HIDE DEF B, C, MB, MC
<1>11. KB \subseteq KC /\ KB \subseteq MB
  <2>1. MB \subseteq R
    BY <1>9, <1>10
  <2> QED BY <1>7, <1>8, <1>10, <2>1 DEF EnforceBatches
<1> DEFINE removed == {events[a].call : a \in Actions(events) \ KB}
           removedLater == {more[a].call : a \in Actions(more) \ KC}
<1>12. removedLater \subseteq removed
  <2> HIDE DEF KB, KC
  <2> QED BY <1>6, <1>11
<1>13. Shown(events) = {id \in KB : KindIn(events, id) \in Results => events[id].call \notin removed}
  BY DEF Shown, FilterUnmatched, B, MB, R
<1>14. Shown(more) = {id \in KC : KindIn(more, id) \in Results => more[id].call \notin removedLater}
  BY DEF Shown, FilterUnmatched, C, MC, after
<1> HIDE DEF KB, KC, removed, removedLater
<1>15. \A id \in KB : id \in R
  BY <1>9, <1>10, <1>11
<1>16. Shown(events) \subseteq Shown(more)
  BY <1>7, <1>11, <1>12, <1>13, <1>14, <1>15
<1> QED BY <1>4, <1>16 DEF more

-----------------------------------------------------------------------------
(* One event more: condensations stay in place *)

\* No call was left without its result by a crash (the premise of
\* CondensesInPlace), of any events.
WholeIn(events) ==
  \A a \in Actions(events) :
    events[a].valid \/ \E n \in DOMAIN events :
                          events[n].kind = "error" /\ events[n].call = events[a].call

\* CondensesInPlace, of any events.
InPlace(events) ==
  Len(events) > 1 /\ WholeIn(events) =>
    LET before == ViewOf(Front(events))
        after == ViewOf(events)
    IN IF Last(events).kind = "condensation"
       THEN \E i \in KeepFirst..Len(before), j \in 1..Len(before) :
              /\ i < j
              /\ after = SubSeq(before, 1, i)
                           \o (IF Last(events).summary THEN <<-Len(events)>> ELSE <<>>)
                           \o SubSeq(before, j + 1, Len(before))
       ELSE Last(events).kind # "action" => Range(before) \subseteq Range(after)

\* The condenser works when every call has its result.
Settled(events, e) ==
  e.kind = "condensation" =>
    Unanswered(events) = {} /\ Forgetting(events, ViewOf(events)).ids # {}

\* When no call waits for its answer, each has a result.
LEMMA SettledIsAnswered ==
  ASSUME NEW events, Sound(events), WholeIn(events), Unanswered(events) = {}
  PROVE  AllAnswered(events)
<1> SUFFICES ASSUME NEW a \in Actions(events)
             PROVE  \E m \in DOMAIN events :
                       events[m].kind \in Results /\ events[m].call = a
  BY DEF AllAnswered
<1> USE DEF Sound, Ordered
<1>1. CASE events[a].valid
  <2>1. PICK m \in DOMAIN events :
          events[m].kind \in {"observation", "rejection"} /\ events[m].action = a
    BY <1>1 DEF Unanswered
  <2> QED BY <2>1 DEF Named, Results
<1>2. CASE ~events[a].valid
  <2>1. PICK m \in DOMAIN events : events[m].kind = "error" /\ events[m].call = events[a].call
    BY <1>2 DEF WholeIn
  <2> QED BY <2>1 DEF Named, Results
<1> QED BY <1>1, <1>2

\* One event more that may follow a settled log keeps condensations in place.
LEMMA AppendsInPlace ==
  ASSUME NEW events, NEW e, Sound(events), MayFollow(events, e), Settled(events, e)
  PROVE  InPlace(Append(events, e))
<1> DEFINE more == Append(events, e)
           N == Len(events)
<1>1. /\ N \in Nat /\ Len(more) = N + 1 /\ Front(more) = events /\ Last(more) = e
      /\ DOMAIN events = 1..N /\ DOMAIN more = 1..(N + 1)
      /\ more[N + 1] = e /\ \A n \in 1..N : more[n] = events[n]
  <2> DEFINE E == Range(events) \cup {e}
  <2>1. events \in Seq(E) /\ e \in E
    <3>1. events \in Seq(Range(events))
      BY DEF Sound, Ordered, IsLog
    <3>2. Range(events) \subseteq E /\ e \in E
      OBVIOUS
    <3> QED BY <3>1, <3>2, SeqMonotonic
  <2> HIDE DEF E
  <2>2. Front(more) = events
    <3>1. Len(more) = N + 1 /\ N \in Nat /\ N + 1 - 1 = N
      BY <2>1
    <3>2. SubSeq(more, 1, N) = events
      BY <2>1, <3>1
    <3> QED BY <3>1, <3>2 DEF Front
  <2>3. Last(more) = e
    BY <2>1 DEF Last
  <2> QED BY <2>1, <2>2, <2>3
<1>2. /\ Sound(more)
      /\ Output(more) = Extend(e, Output(events), N + 1)
  BY SoundAppends
<1> HIDE DEF more, N
<1>3. CASE e.kind = "condensation"
  <2> SUFFICES ASSUME WholeIn(more)
               PROVE  \E i \in KeepFirst..Len(ViewOf(events)), j \in 1..Len(ViewOf(events)) :
                        /\ i < j
                        /\ ViewOf(more) = SubSeq(ViewOf(events), 1, i)
                             \o (IF e.summary THEN <<-(N + 1)>> ELSE <<>>)
                             \o SubSeq(ViewOf(events), j + 1, Len(ViewOf(events)))
    BY <1>1, <1>3 DEF InPlace, more
  <2>1. /\ Actions(more) = Actions(events)
        /\ \A a \in Actions(events) : more[a] = events[a]
    <3>1. \A n \in 1..(N + 1) : n \in 1..N \/ n = N + 1
      BY <1>1
    <3>2. \A n \in 1..N : n \in 1..(N + 1)
      BY <1>1
    <3> QED BY <1>1, <1>3, <3>1, <3>2 DEF Actions
  <2>2. WholeIn(events)
    <3> SUFFICES ASSUME NEW a \in Actions(events), ~events[a].valid
                 PROVE  \E n \in DOMAIN events :
                          events[n].kind = "error" /\ events[n].call = events[a].call
      BY DEF WholeIn
    <3>1. PICK n \in DOMAIN more : more[n].kind = "error" /\ more[n].call = more[a].call
      BY <2>1 DEF WholeIn
    <3>2. n \in 1..N
      BY <1>1, <1>3, <3>1
    <3> QED BY <1>1, <2>1, <3>1, <3>2
  <2>3. AllAnswered(events)
    BY <1>3, <2>2, SettledIsAnswered DEF Settled
  <2>4. AllAnswered(more)
    <3>1. \A n \in 1..N : n \in DOMAIN more
      BY <1>1
    <3> QED BY <1>1, <2>1, <2>3, <3>1 DEF AllAnswered
  <2>5. ViewOf(events) = Output(events) /\ ViewOf(more) = Output(more)
    BY <1>2, <2>3, <2>4, AnsweredIsShown
  <2>6. ViewOf(more) = Forget(e, ViewOf(events), N + 1)
    BY <1>2, <1>3, <2>5 DEF Extend
  <2>7. /\ Reasons(events, ViewOf(events)) # {}
        /\ e.forgotten = Forgetting(events, ViewOf(events)).ids
        /\ e.offset = Forgetting(events, ViewOf(events)).start
        /\ Forgetting(events, ViewOf(events)).ids # {}
    BY <1>3 DEF MayFollow, Settled, Results
  <2>8. N + 1 \in Nat \ {0} /\ Ordered(events)
    BY <1>1 DEF Sound
  <2>9. ViewOf(events) = Output(events)
    BY <2>5
  <2> DEFINE n == N + 1
  <2> HIDE DEF n
  <2>10. n \in Nat \ {0} /\ n = N + 1
    BY <2>8 DEF n
  <2>11. \E i \in KeepFirst..Len(ViewOf(events)), j \in 1..Len(ViewOf(events)) :
           /\ i < j
           /\ Forget(e, ViewOf(events), n)
                = SubSeq(ViewOf(events), 1, i) \o (IF e.summary THEN <<-n>> ELSE <<>>)
                    \o SubSeq(ViewOf(events), j + 1, Len(ViewOf(events)))
    BY <2>7, <2>8, <2>9, <2>10, CondensesBlock
  <2> QED BY <2>6, <2>10, <2>11, Zenon
<1>4. CASE e.kind # "condensation" /\ e.kind # "action"
  <2>1. Range(ViewOf(events)) \subseteq Range(ViewOf(more))
    BY <1>4, NothingForgotten DEF Sound, Ordered, more
  <2> QED BY <1>1, <1>4, <2>1 DEF InPlace, more
<1>5. CASE e.kind = "action"
  BY <1>1, <1>5 DEF InPlace, more
<1> QED BY <1>3, <1>4, <1>5

-----------------------------------------------------------------------------
(* The events of the log and of one reply *)

\* The kinds of the events without fields of interest.
PlainKinds == {"system", "user", "agent", "request", "failure", "update"}

\* The events of the log, by kind: those without fields of interest, ...
PlainEvents == [kind : PlainKinds]

\* ... the calls of a reply, ...
ActionEvents == [kind : {"action"}, response : Nat, call : Nat, thinking : BOOLEAN,
                 content : Contents, valid : BOOLEAN]

\* ... what answers a call, ...
ResultEvents == [kind : Results, call : Nat, action : Nat, content : Contents \cup {""}]

\* ... and condensations.
Condensations == [kind : {"condensation"}, forgotten : SUBSET Int, offset : Nat,
                  summary : BOOLEAN]

\* What one reply of the LLM may publish at once.
ReplyEvents == ActionEvents \cup ResultEvents

\* All the events of the log.
Events == PlainEvents \cup ReplyEvents \cup Condensations

\* The kind of an event tells its fields.
LEMMA EventKinds ==
  /\ \A e \in ActionEvents : /\ e.kind = "action" /\ e.response \in Nat /\ e.call \in Nat
                             /\ e.valid \in BOOLEAN
  /\ \A e \in ResultEvents : e.kind \in Results /\ e.call \in Nat /\ e.action \in Nat
  /\ \A e \in Events : /\ e.kind = "action" => e \in ActionEvents
                       /\ e.kind \in Results => e \in ResultEvents
                       /\ HasOffset(e)
<1>1. \A e \in ActionEvents : /\ e.kind = "action" /\ e.response \in Nat /\ e.call \in Nat
                             /\ e.valid \in BOOLEAN
  BY DEF ActionEvents
<1>2. \A e \in ResultEvents : e.kind \in Results /\ e.call \in Nat /\ e.action \in Nat
  BY DEF ResultEvents
<1>3. \A e \in PlainEvents : e.kind \notin Results \cup {"action", "condensation"}
  BY DEF PlainEvents, PlainKinds, Results
<1>4. \A e \in Condensations : e.kind = "condensation" /\ e.offset \in Nat
  BY DEF Condensations
<1> QED BY <1>1, <1>2, <1>3, <1>4 DEF Events, ReplyEvents, Results, HasOffset

\* Such events are a log.
LEMMA TypedIsLog ==
  ASSUME NEW events, events \in Seq(Events)
  PROVE  IsLog(events)
<1>1. \A n \in DOMAIN events : HasOffset(events[n])
  BY EventKinds
<1>2. events \in Seq(Range(events))
  <2>1. \A n \in 1..Len(events) : events[n] \in Range(events)
    BY DEF Range
  <2>2. events = [n \in 1..Len(events) |-> events[n]] /\ Len(events) \in Nat
    OBVIOUS
  <2> QED BY <2>1, <2>2
<1> QED BY <1>1, <1>2 DEF IsLog

\* A sequence has finitely many elements.
LEMMA RangeIsFinite ==
  ASSUME NEW E, NEW s, s \in Seq(E)
  PROVE  IsFiniteSet(Range(s))
<1>1. Len(s) \in Nat /\ DOMAIN s = 1..Len(s)
  OBVIOUS
<1>2. s \in Surjection(1..Len(s), Range(s))
  <2>1. s \in [1..Len(s) -> Range(s)]
    BY DEF Range
  <2> QED BY <1>1, <2>1 DEF Surjection, Range
<1>3. IsFiniteSet(1..Len(s))
  BY <1>1, FS_Interval
<1> QED BY <1>2, <1>3, FS_Surjection

\* The id that the reply converter gives a call is a number.
LEMMA CallIdIsNumber ==
  ASSUME IsLog(log), OutputIsView(log), NEW n \in Nat
  PROVE  CallId(n) \in Nat
<1> DEFINE shown == {id \in Range(View) : KindIn(log, id) = "action"}
<1>1. IsFiniteSet(Range(View))
  BY ViewIsShown, RangeIsFinite DEF View
<1>2. Cardinality(shown) \in Nat
  <2>1. shown \in SUBSET Range(View)
    OBVIOUS
  <2> HIDE DEF shown
  <2> QED BY <1>1, <2>1, FS_Subset, FS_CardinalityType
<1> QED BY <1>2 DEF CallId

-----------------------------------------------------------------------------
(* What a reply publishes *)

\* A tool call of a reply, as the LLM asks for it.
Call == [content : Contents, valid : BOOLEAN]

\* The event at place m of a reply that is published at the end of the log.
Published(events, m) ==
  \/ /\ events[m] \in ActionEvents
     /\ events[m].response = Len(log) + 1
     /\ events[m].call = CallId(Len(log) + m)
  \/ /\ events[m] \in ResultEvents /\ events[m].kind = "error"
     /\ m - 1 \in 1..Len(events) /\ events[m - 1] \in ActionEvents
     /\ events[m].call = events[m - 1].call

\* These events can be what a reply publishes at the end of the log.
IsReply(events) ==
  /\ events \in Seq(ReplyEvents)
  /\ \A m \in 1..Len(events) : Published(events, m)

\* Agent._get_action_event: one tool call more leaves such events.
LEMMA AddCallPublishes ==
  ASSUME log \in Seq(Events), OutputIsView(log), NEW events, IsReply(events),
         NEW call \in Call, NEW thinking \in BOOLEAN
  PROVE  IsReply(AddCall(events, call, thinking))
<1> DEFINE B == Len(log)
           L == Len(events)
           n == B + L + 1
           action == [kind |-> "action", response |-> B + 1, call |-> CallId(n),
                      thinking |-> thinking /\ n = B + 1,
                      content |-> call.content, valid |-> call.valid]
           error == Result("error", action.call, 0, call.content)
           one == Append(events, action)
           both == events \o <<action, error>>
<1>1. B \in Nat /\ L \in Nat /\ events \in Seq(ReplyEvents)
  BY DEF IsReply
<1>2. n \in Nat /\ n = B + (L + 1)
  BY <1>1
<1>3. CallId(n) \in Nat
  BY <1>2, TypedIsLog, CallIdIsNumber
<1>4. action \in ActionEvents /\ action.response = B + 1 /\ action.call = CallId(n)
  BY <1>1, <1>3 DEF ActionEvents, Call
<1>5. error \in ResultEvents /\ error.kind = "error" /\ error.call = action.call
  BY <1>3 DEF ResultEvents, Result, Results, Call
<1>6. AddCall(events, call, thinking) = IF call.valid THEN one ELSE both
  BY DEF AddCall
<1> HIDE DEF action, error, L, n, B
<1>7. action \in ReplyEvents /\ error \in ReplyEvents
  BY <1>4, <1>5 DEF ReplyEvents
<1>8. ASSUME NEW t, t \in Seq(ReplyEvents), Len(t) >= L + 1, Len(t) \in Nat,
             \A m \in 1..L : t[m] = events[m], t[L + 1] = action
      PROVE  \A m \in 1..(L + 1) : Published(t, m)
  <2> TAKE m \in 1..(L + 1)
  <2>1. CASE m \in 1..L
    <3>1. Published(events, m)
      BY <2>1 DEF IsReply, L
    <3>2. t[m] = events[m] /\ (m - 1 \in 1..L => t[m - 1] = events[m - 1])
      BY <1>8, <2>1
    <3>3. m - 1 \in 1..L => m - 1 \in 1..Len(t)
      BY <1>1, <1>8
    <3> QED BY <3>1, <3>2, <3>3 DEF Published, L
  <2>2. CASE m = L + 1
    <3>1. B + m = n
      BY <1>2, <2>2
    <3> QED BY <1>4, <1>8, <2>2, <3>1 DEF Published, B
  <2> QED BY <1>1, <2>1, <2>2
<1>9. IsReply(one)
  <2>1. /\ one \in Seq(ReplyEvents) /\ Len(one) = L + 1 /\ one[L + 1] = action
        /\ \A m \in 1..L : one[m] = events[m]
    BY <1>1, <1>7 DEF L
  <2> HIDE DEF one
  <2> QED BY <1>1, <1>8, <2>1 DEF IsReply
<1>10. IsReply(both)
  <2>1. /\ both \in Seq(ReplyEvents) /\ Len(both) = L + 2
        /\ \A m \in 1..L : both[m] = events[m]
        /\ both[L + 1] = action /\ both[L + 2] = error
    BY <1>1, <1>7 DEF L
  <2> HIDE DEF both
  <2>2. \A m \in 1..(L + 1) : Published(both, m)
    BY <1>1, <1>8, <2>1
  <2>3. Published(both, L + 2)
    <3>1. L + 2 - 1 = L + 1 /\ L + 1 \in 1..Len(both)
      BY <1>1, <2>1
    <3>2. both[L + 2 - 1] \in ActionEvents /\ L + 2 - 1 \in 1..Len(both)
      BY <1>4, <2>1, <3>1
    <3>3. both[L + 2] \in ResultEvents /\ both[L + 2].kind = "error"
          /\ both[L + 2].call = both[L + 2 - 1].call
      BY <1>5, <2>1, <3>1
    <3> DEFINE k == L + 2
    <3>4. both[k - 1] \in ActionEvents /\ k - 1 \in 1..Len(both)
          /\ both[k] \in ResultEvents /\ both[k].kind = "error"
          /\ both[k].call = both[k - 1].call
      BY <1>1, <3>2, <3>3
    <3> HIDE DEF k
    <3>5. Published(both, k)
      BY <3>4, Zenon DEF Published
    <3> QED BY <3>5 DEF k
  <2>4. \A m \in 1..(L + 2) : m \in 1..(L + 1) \/ m = L + 2
    BY <1>1
  <2> QED BY <2>1, <2>2, <2>3, <2>4 DEF IsReply
<1> QED BY <1>6, <1>9, <1>10

-----------------------------------------------------------------------------
(* CallEvents, call by call *)

\* All that a reply can publish at the end of the log.
ReplySet == {t \in Seq(ReplyEvents) : IsReply(t)}

\* f[k] is published for the first k calls.
Publishes(f, calls, thinking) ==
  /\ f \in [0..Len(calls) -> ReplySet]
  /\ f[0] = <<>>
  /\ \A k \in 1..Len(calls) : f[k] = AddCall(f[k - 1], calls[k], thinking)
  /\ CallEvents(calls, thinking) = f[Len(calls)]

\* The recursion that defines CallEvents.
LEMMA CallEventsRecursion ==
  ASSUME log \in Seq(Events), OutputIsView(log), NEW calls \in Seq(Call), NEW thinking \in BOOLEAN
  PROVE  \E f : Publishes(f, calls, thinking)
<1> DEFINE N == Len(calls)
           Is(g) == g = [k \in 0..N |->
                           IF k = 0 THEN <<>> ELSE AddCall(g[k - 1], calls[k], thinking)]
           add == [k \in 1..N |-> [t \in ReplySet |-> AddCall(t, calls[k], thinking)]]
<1>1. N \in Nat /\ \A k \in 1..N : calls[k] \in Call
  OBVIOUS
<1> HIDE DEF N
<1>2. \A k \in 1..N : \A t \in ReplySet : AddCall(t, calls[k], thinking) \in ReplySet
  <2> TAKE k \in 1..N
  <2> TAKE t \in ReplySet
  <2>1. IsReply(t) /\ calls[k] \in Call
    BY <1>1 DEF ReplySet
  <2>2. IsReply(AddCall(t, calls[k], thinking))
    BY <2>1, AddCallPublishes
  <2> QED BY <2>2 DEF ReplySet, IsReply
<1>2a. add \in [1..N -> [ReplySet -> ReplySet]]
  BY <1>2
<1>2b. <<>> \in ReplySet
  <2>1. <<>> \in Seq(ReplyEvents) /\ \A m \in 1..Len(<<>>) : FALSE
    OBVIOUS
  <2> QED BY <2>1 DEF ReplySet, IsReply
<1>3. PICK f \in [0..N -> ReplySet] :
        f[0] = <<>> /\ \A k \in 1..N : f[k] = add[k][f[k - 1]]
  <2>1. Steps(N, ReplySet, <<>>, add)
    BY <1>1, <1>2a, <1>2b DEF Steps
  <2>2. \E f : Recursion(f, N, ReplySet, <<>>, add)
    BY <2>1, RecursionExists, Zenon
  <2> QED BY <2>2 DEF Recursion
<1>4. \A k \in 1..N : f[k] = AddCall(f[k - 1], calls[k], thinking)
  <2> TAKE k \in 1..N
  <2>1. k - 1 \in 0..N
    BY <1>1
  <2>2. f[k - 1] \in ReplySet
    BY <1>3, <2>1
  <2> QED BY <1>3, <2>2
<1>5. Is(f)
  <2>1. \A k \in 0..N : k = 0 \/ k \in 1..N
    BY <1>1
  <2> QED BY <1>3, <1>4, <2>1
<1> DEFINE h == CHOOSE g : Is(g)
<1>6. Is(h)
  BY <1>5, Zenon
<1>7. CallEvents(calls, thinking) = h[N]
  BY Zenon DEF CallEvents, N
<1> HIDE DEF h
<1>8. h[0] = <<>> /\ \A k \in 1..N : h[k] = AddCall(h[k - 1], calls[k], thinking)
  <2>1. 0 \in 0..N /\ \A k \in 1..N : k \in 0..N /\ k # 0
    BY <1>1
  <2> QED BY <1>6, <2>1
<1> HIDE DEF Is
<1>9. \A k \in 0..N : h[k] \in ReplySet
  <2> DEFINE T == {k \in 0..N : h[k] \in ReplySet}
  <2>1. 0 \in T
    <3>1. 0 \in 0..N
      BY <1>1
    <3> QED BY <1>2b, <1>8, <3>1
  <2>2. ASSUME NEW k \in 0..(N - 1), k \in T PROVE k + 1 \in T
    <3>1. k + 1 \in 1..N /\ k + 1 \in 0..N /\ (k + 1) - 1 = k
      BY <1>1
    <3>2. h[k + 1] = AddCall(h[k], calls[k + 1], thinking)
      BY <1>8, <3>1
    <3>3. AddCall(h[k], calls[k + 1], thinking) \in ReplySet
      BY <1>2, <2>2, <3>1
    <3> QED BY <3>1, <3>2, <3>3
  <2>3. \A k \in 0..N : k \in T
    <3> HIDE DEF T
    <3> QED BY <1>1, <2>1, <2>2, InductionUpTo
  <2> QED BY <2>3
<1>10. h \in [0..N -> ReplySet]
  BY <1>6, <1>9 DEF Is
<1> QED BY <1>7, <1>8, <1>10 DEF N, Publishes

\* A reply asks for at least one call and at most MaxBatch.
LEMMA AskedForIsCalls ==
  ASSUME NEW calls \in AskedFor
  PROVE  calls \in Seq(Call) /\ Len(calls) \in 1..MaxBatch
<1>1. PICK k \in 1..MaxBatch : calls \in [1..k -> Call]
  BY DEF AskedFor, Call
<1>2. k \in Nat
  BY <1>1, HistoryAssumption
<1> QED BY <1>1, <1>2

\* What a reply publishes is a reply.
LEMMA CallEventsAreReply ==
  ASSUME log \in Seq(Events), OutputIsView(log), NEW calls \in AskedFor, NEW thinking \in BOOLEAN
  PROVE  IsReply(CallEvents(calls, thinking))
<1>1. calls \in Seq(Call) /\ Len(calls) \in 0..Len(calls)
  BY AskedForIsCalls, HistoryAssumption
<1>2. PICK f : Publishes(f, calls, thinking)
  BY <1>1, CallEventsRecursion
<1> QED BY <1>1, <1>2 DEF Publishes, ReplySet

-----------------------------------------------------------------------------
(* Type correctness *)

\* The output of a log is a sorted view of its events.
LEMMA LogIsView ==
  ASSUME NEW events, IsLog(events)
  PROVE  OutputIsView(events)
<1> DEFINE N == Len(events)
<1>1. N \in Nat /\ \A n \in 1..N : HasOffset(events[n])
  BY DEF IsLog
<1>2. PICK f : Builds(f, events)
  BY OutputRecursion
<1>3. /\ f[0] = <<>> /\ Output(events) = f[N]
      /\ \A n \in 1..N : f[n] = Extend(events[n], f[n - 1], n)
  BY <1>2 DEF Builds
<1> DEFINE T == {n \in 0..N : f[n] \in Seq(UpTo(n)) /\ Sorted(f[n])}
<1> HIDE DEF N
<1>4. 0 \in T
  <2>1. <<>> \in Seq(UpTo(0)) /\ \A i \in DOMAIN <<>> : FALSE
    OBVIOUS
  <2>2. 0 \in 0..N
    BY <1>1
  <2> QED BY <1>3, <2>1, <2>2 DEF Sorted
<1>5. ASSUME NEW n \in 0..(N - 1), n \in T PROVE n + 1 \in T
  <2>1. n \in Nat /\ n + 1 \in 1..N /\ n + 1 \in 0..N /\ (n + 1) - 1 = n
    BY <1>1
  <2>2. f[n] \in Seq(UpTo(n)) /\ Sorted(f[n]) /\ HasOffset(events[n + 1])
    BY <1>1, <1>5, <2>1
  <2>3. f[n + 1] = Extend(events[n + 1], f[n], n + 1)
    BY <1>3, <2>1
  <2>4. /\ Extend(events[n + 1], f[n], n + 1) \in Seq(UpTo(n + 1))
        /\ Sorted(Extend(events[n + 1], f[n], n + 1))
    BY <2>1, <2>2, ExtendIsView
  <2> QED BY <2>1, <2>3, <2>4
<1>6. \A n \in 0..N : n \in T
  <2> HIDE DEF T
  <2> QED BY <1>1, <1>4, <1>5, InductionUpTo
<1>7. N \in 0..N
  BY <1>1
<1> QED BY <1>3, <1>6, <1>7 DEF OutputIsView, N

\* The events of a typed log are a log, and its output is a view.
LEMMA TypedIsView ==
  ASSUME NEW events, events \in Seq(Events)
  PROVE  IsLog(events) /\ OutputIsView(events)
BY TypedIsLog, LogIsView

-----------------------------------------------------------------------------
(* Types *)

\* The types of the state: the log holds events with the fields of their kind,
\* and the step has calls of the log to execute.
HistoryTypeOK ==
  /\ log \in Seq(Events)
  /\ status \in Statuses
  /\ todo \in Seq(Actions(log))

\* The actions of the log are calls with all their fields.
LEMMA ActionsAreTyped ==
  ASSUME log \in Seq(Events)
  PROVE  /\ DOMAIN log = 1..Len(log) /\ Len(log) \in Nat
         /\ Actions(log) \subseteq 1..Len(log)
         /\ \A a \in Actions(log) : log[a] \in ActionEvents /\ log[a].call \in Nat
<1>1. \A n \in DOMAIN log : log[n] \in Events
  OBVIOUS
<1>2. \A a \in Actions(log) : log[a] \in ActionEvents
  BY <1>1, EventKinds DEF Actions
<1>3. \A a \in Actions(log) : log[a].call \in Nat
  BY <1>2, EventKinds
<1> QED BY <1>2, <1>3 DEF Actions

\* The calls that wait for an answer, and those that can be rejected.
LEMMA PendingAreUnanswered ==
  ASSUME log \in Seq(Events)
  PROVE  /\ PendingActions \in Seq(Actions(log))
         /\ Range(PendingActions) = Unanswered(log)
         /\ Rejectable \in Seq(Actions(log))
         /\ Range(Rejectable) \subseteq Unanswered(log)
<1> DEFINE N == Len(log)
           all == [n \in DOMAIN log |-> n]
           U == Unanswered(log)
<1>1. N \in Nat /\ DOMAIN log = 1..N
  OBVIOUS
<1>2. U \subseteq Actions(log) /\ U \subseteq 1..N
  BY <1>1 DEF Unanswered, Actions
<1>3. all \in Seq(1..N) /\ Range(all) = 1..N
  BY <1>1 DEF Range
<1>4. PendingActions = Only(all, U)
  BY Zenon DEF PendingActions
<1> HIDE DEF all, U, N
<1>5. Only(all, U) \in Seq(1..N) /\ Range(Only(all, U)) = {x \in Range(all) : x \in U}
  <2> DEFINE E == 1..N
  <2>1. all \in Seq(E)
    BY <1>3
  <2> HIDE DEF E
  <2>2. Only(all, U) \in Seq(E) /\ Range(Only(all, U)) = {x \in Range(all) : x \in U}
    BY <2>1, OnlyRange
  <2> QED BY <2>2 DEF E
<1>6. PendingActions \in Seq(1..N) /\ Range(PendingActions) = U
  BY <1>2, <1>3, <1>4, <1>5
<1> DEFINE open == {n \in Actions(log) :
                      ~\E m \in DOMAIN log :
                         m > n /\ log[m].kind = "error" /\ log[m].call = log[n].call}
<1>7. Rejectable = Only(PendingActions, open)
  BY DEF Rejectable
<1> HIDE DEF open
<1>8. Only(PendingActions, open) \in Seq(1..N)
      /\ Range(Only(PendingActions, open)) = {x \in Range(PendingActions) : x \in open}
  BY <1>6, OnlyRange
<1>9. Rejectable \in Seq(1..N) /\ Range(Rejectable) \subseteq U
  BY <1>6, <1>7, <1>8
<1>10. ASSUME NEW s \in Seq(1..N), Range(s) \subseteq U PROVE s \in Seq(Actions(log))
  <2>1. Len(s) \in Nat /\ s = [i \in 1..Len(s) |-> s[i]] /\ \A i \in 1..Len(s) : s[i] \in Range(s)
    BY DEF Range
  <2> QED BY <1>2, <1>10, <2>1
<1> QED BY <1>6, <1>9, <1>10 DEF U

\* The actions of a reply that are executed.
LEMMA ValidPositionsAreActions ==
  ASSUME log \in Seq(Events), NEW events, events \in Seq(ReplyEvents)
  PROVE  /\ log \o events \in Seq(Events)
         /\ ValidPositions(events) \in Seq(Actions(log \o events))
         /\ Range(ValidPositions(events)) \subseteq (Len(log) + 1)..(Len(log) + Len(events))
<1> DEFINE B == Len(log)
           L == Len(events)
           all == [i \in DOMAIN events |-> B + i]
           P == {n \in B + 1..B + L : events[n - B].kind = "action" /\ events[n - B].valid}
           more == log \o events
<1>1. B \in Nat /\ L \in Nat /\ DOMAIN events = 1..L
  OBVIOUS
<1>2. events \in Seq(Events)
  <2>1. ReplyEvents \subseteq Events
    BY DEF Events
  <2> QED BY <2>1, SeqMonotonic
<1>3. /\ more \in Seq(Events) /\ Len(more) = B + L
      /\ \A n \in 1..(B + L) : more[n] = IF n <= B THEN log[n] ELSE events[n - B]
  BY <1>2, ConcatProperties
<1>4. ValidPositions(events) = Only(all, P)
  BY DEF ValidPositions
<1>5. all \in Seq((B + 1)..(B + L))
  BY <1>1
<1> HIDE DEF more, all, P, B, L
<1>6. P \subseteq Actions(more)
  <2> SUFFICES ASSUME NEW n \in P PROVE n \in Actions(more)
    OBVIOUS
  <2>1. n \in (B + 1)..(B + L) /\ events[n - B].kind = "action"
    BY DEF P
  <2>2. n \in 1..(B + L) /\ ~(n <= B)
    BY <1>1, <2>1
  <2>3. DOMAIN more = 1..(B + L)
    BY <1>3
  <2> QED BY <1>3, <2>1, <2>2, <2>3 DEF Actions
<1>7. Only(all, P) \in Seq((B + 1)..(B + L)) /\ Range(Only(all, P)) = {x \in Range(all) : x \in P}
  BY <1>5, OnlyRange
<1> DEFINE s == Only(all, P)
<1>8. s \in Seq((B + 1)..(B + L)) /\ Range(s) \subseteq P
  BY <1>7
<1> HIDE DEF s
<1>9. s \in Seq(Actions(more)) /\ Range(s) \subseteq (B + 1)..(B + L)
  <2>1. Len(s) \in Nat /\ s = [i \in 1..Len(s) |-> s[i]] /\ \A i \in 1..Len(s) : s[i] \in Range(s)
    BY <1>8 DEF Range
  <2>2. P \subseteq (B + 1)..(B + L)
    BY DEF P
  <2> QED BY <1>6, <1>8, <2>1, <2>2
<1> QED BY <1>3, <1>4, <1>9 DEF s, B, L, more

\* The actions of a log that grows remain actions.
LEMMA ActionsRemain ==
  ASSUME NEW events, NEW more, events \in Seq(Events), more \in Seq(Events), Len(events) <= Len(more),
         \A n \in 1..Len(events) : more[n] = events[n]
  PROVE  /\ Actions(events) \subseteq Actions(more)
         /\ Seq(Actions(events)) \subseteq Seq(Actions(more))
<1>1. Len(events) \in Nat /\ Len(more) \in Nat
      /\ DOMAIN events = 1..Len(events) /\ DOMAIN more = 1..Len(more)
  OBVIOUS
<1>2. \A n \in 1..Len(events) : n \in 1..Len(more)
  BY <1>1
<1>3. Actions(events) \subseteq Actions(more)
  BY <1>1, <1>2 DEF Actions
<1> QED BY <1>3, SeqMonotonic

\* Events appended to a log leave its actions what they are, ...
LEMMA ConcatTyped ==
  ASSUME NEW events, NEW tail, events \in Seq(Events), tail \in Seq(Events)
  PROVE  /\ events \o tail \in Seq(Events)
         /\ Actions(events) \subseteq Actions(events \o tail)
         /\ Seq(Actions(events)) \subseteq Seq(Actions(events \o tail))
<1> DEFINE more == events \o tail
<1>1. /\ more \in Seq(Events) /\ Len(more) = Len(events) + Len(tail)
      /\ \A n \in 1..Len(events) : more[n] = events[n]
  BY ConcatProperties
<1>2. Len(events) <= Len(more)
  BY <1>1
<1> HIDE DEF more
<1>3. Actions(events) \subseteq Actions(more) /\ Seq(Actions(events)) \subseteq Seq(Actions(more))
  BY <1>1, <1>2, ActionsRemain
<1> QED BY <1>1, <1>3 DEF more

\* ... and so does one event.
LEMMA AppendTyped ==
  ASSUME NEW events, NEW e, events \in Seq(Events), e \in Events
  PROVE  /\ Append(events, e) \in Seq(Events)
         /\ Actions(events) \subseteq Actions(Append(events, e))
         /\ Seq(Actions(events)) \subseteq Seq(Actions(Append(events, e)))
<1> DEFINE more == Append(events, e)
<1>1. /\ more \in Seq(Events) /\ Len(more) = Len(events) + 1
      /\ \A n \in 1..Len(events) : more[n] = events[n]
  OBVIOUS
<1>2. Len(events) <= Len(more)
  BY <1>1
<1> HIDE DEF more
<1>3. Actions(events) \subseteq Actions(more) /\ Seq(Actions(events)) \subseteq Seq(Actions(more))
  BY <1>1, <1>2, ActionsRemain
<1> QED BY <1>1, <1>3 DEF more

\* Sequences of events without fields are sequences of events.
LEMMA PlainTyped ==
  /\ \A kind \in PlainKinds : <<Event(kind)>> \in Seq(PlainEvents)
  /\ \A new : Changed(new) \in Seq(PlainEvents)
  /\ MarkedRunning \in Seq(PlainEvents)
  /\ \A s, t \in Seq(PlainEvents) : s \o t \in Seq(PlainEvents)
  /\ Seq(PlainEvents) \subseteq Seq(Events)
<1>1. \A kind \in PlainKinds : Event(kind) \in PlainEvents
  BY DEF Event, PlainEvents
<1>2. \A kind \in PlainKinds : <<Event(kind)>> \in Seq(PlainEvents)
  BY <1>1
<1>3. \A s, t \in Seq(PlainEvents) : s \o t \in Seq(PlainEvents)
  BY ConcatProperties
<1>4. <<Event("update")>> \in Seq(PlainEvents)
  BY <1>2 DEF PlainKinds
<1>5. \A new : Changed(new) \in Seq(PlainEvents)
  <2>1. <<>> \in Seq(PlainEvents)
    OBVIOUS
  <2> QED BY <1>4, <2>1 DEF Changed
<1>6. MarkedRunning \in Seq(PlainEvents)
  BY <1>3, <1>4, <1>5 DEF MarkedRunning
<1>7. PlainEvents \subseteq Events
  BY DEF Events
<1>8. Seq(PlainEvents) \subseteq Seq(Events)
  BY <1>7, SeqMonotonic
<1> QED BY <1>2, <1>3, <1>5, <1>6, <1>8

\* The Condensation of a log that must be condensed.
LEMMA CondensationTyped ==
  ASSUME log \in Seq(Events), MustCondense, NEW summary \in BOOLEAN
  PROVE  Condensation(summary) \in Condensations
<1> DEFINE view == ViewOf(log)
           forgetting == Forgetting(log, view)
<1>1. IsLog(log) /\ OutputIsView(log) /\ Reasons(log, view) # {}
  BY TypedIsView DEF MustCondense, View
<1>2. forgetting.start \in Nat /\ forgetting.ids \subseteq Range(view)
  BY <1>1, BlockOfOutput
<1>3. Range(view) \subseteq Int
  <2>1. view \in Seq(UpTo(Len(log))) /\ UpTo(Len(log)) \subseteq Int
    BY <1>1, ViewIsShown DEF UpTo
  <2> HIDE DEF view
  <2> QED BY <2>1 DEF Range
<1>4. Condensation(summary) = [kind |-> "condensation", forgotten |-> forgetting.ids,
                               offset |-> forgetting.start, summary |-> summary]
  BY DEF Condensation, View
<1> HIDE DEF forgetting, view
<1> QED BY <1>2, <1>3, <1>4 DEF Condensations

\* Rejections of calls are events.
LEMMA RejectionsTyped ==
  ASSUME log \in Seq(Events), NEW pending, pending \in Seq(Actions(log))
  PROVE  [i \in DOMAIN pending |-> Result("rejection", log[pending[i]].call, pending[i], "")]
           \in Seq(Events)
<1>1. Len(pending) \in Nat /\ DOMAIN pending = 1..Len(pending)
      /\ \A i \in 1..Len(pending) : pending[i] \in Actions(log)
  OBVIOUS
<1>2. \A i \in 1..Len(pending) : pending[i] \in Nat /\ log[pending[i]].call \in Nat
  BY <1>1, ActionsAreTyped
<1>3. \A i \in 1..Len(pending) :
        Result("rejection", log[pending[i]].call, pending[i], "") \in Events
  <2>1. \A c, a \in Nat : Result("rejection", c, a, "") \in ResultEvents
    BY DEF Result, ResultEvents, Results
  <2>2. ResultEvents \subseteq Events
    BY DEF Events, ReplyEvents
  <2> QED BY <1>2, <2>1, <2>2
<1> DEFINE N == Len(pending)
           R(i) == Result("rejection", log[pending[i]].call, pending[i], "")
<1>4. N \in Nat /\ DOMAIN pending = 1..N /\ \A i \in 1..N : R(i) \in Events
  BY <1>1, <1>3
<1> HIDE DEF N, R
<1>5. [i \in 1..N |-> R(i)] \in Seq(Events)
  BY <1>4
<1> QED BY <1>4, <1>5 DEF R

\* The first state is typed.
LEMMA TypesAtStart == Init => HistoryTypeOK
<1> SUFFICES ASSUME Init PROVE HistoryTypeOK
  OBVIOUS
<1>1. <<Event("system")>> \in Seq(Events)
  BY PlainTyped DEF PlainKinds
<1> QED BY <1>1 DEF Init, HistoryTypeOK, Statuses

\* Whatever is appended keeps the types, ...
LEMMA TypesAfterStored ==
  ASSUME HistoryTypeOK, NEW tail, tail \in Seq(Events), log' = log \o tail, status' \in Statuses,
         todo' \in Seq(Actions(log)) \/ todo' \in Seq(Actions(log'))
  PROVE  HistoryTypeOK'
<1>1. log \in Seq(Events)
  BY DEF HistoryTypeOK
<1>2. log' \in Seq(Events) /\ Seq(Actions(log)) \subseteq Seq(Actions(log'))
  BY <1>1, ConcatTyped
<1> QED BY <1>2 DEF HistoryTypeOK

\* ... events of no reply among them, ...
LEMMA TypesAfterPlain ==
  ASSUME HistoryTypeOK, NEW tail, tail \in Seq(PlainEvents), log' = log \o tail,
         status' \in Statuses, todo' \in Seq(Actions(log))
  PROVE  HistoryTypeOK'
<1>1. tail \in Seq(Events)
  BY PlainTyped
<1> QED BY <1>1, TypesAfterStored

\* ... and so do a failing run, ...
LEMMA TypesAfterFail ==
  ASSUME HistoryTypeOK, Fail
  PROVE  HistoryTypeOK'
<1>1. Changed("error") \o <<Event("failure")>> \in Seq(PlainEvents)
  BY PlainTyped DEF PlainKinds
<1>2. log' = log \o (Changed("error") \o <<Event("failure")>>)
  BY DEF Fail, Store
<1>3. status' \in Statuses /\ todo' \in Seq(Actions(log))
  BY DEF Fail, Statuses
<1> QED BY <1>1, <1>2, <1>3, TypesAfterPlain

\* ... the calls of a reply, ...
LEMMA TypesAfterReplyCalls ==
  ASSUME HistoryTypeOK, NEW thinking \in BOOLEAN, ReplyCalls(thinking)
  PROVE  HistoryTypeOK'
<1>1. PICK calls \in AskedFor :
        LET events == CallEvents(calls, thinking)
        IN /\ log' = log \o (events \o Changed(status'))
           /\ status' \in {status, "waiting_for_confirmation"}
           /\ todo' \in {todo, ValidPositions(events)}
  BY DEF ReplyCalls, Store
<1> DEFINE events == CallEvents(calls, thinking)
<1>2. log \in Seq(Events) /\ status \in Statuses /\ todo \in Seq(Actions(log))
  BY DEF HistoryTypeOK
<1>3. events \in Seq(ReplyEvents)
  BY <1>2, TypedIsView, CallEventsAreReply DEF IsReply
<1>4. /\ log' = log \o (events \o Changed(status')) /\ status' \in Statuses
      /\ (todo' = todo \/ todo' = ValidPositions(events))
  BY <1>1, <1>2 DEF Statuses
<1> HIDE DEF events
<1>5. events \in Seq(Events)
  <2>1. ReplyEvents \subseteq Events
    BY DEF Events
  <2> QED BY <1>3, <2>1, SeqMonotonic
<1> DEFINE updates == Changed(status')
<1>6. updates \in Seq(Events)
  BY PlainTyped
<1>7. log' = log \o (events \o updates)
  BY <1>4
<1> HIDE DEF updates
<1>8. events \o updates \in Seq(Events) /\ log' = (log \o events) \o updates
  BY <1>2, <1>5, <1>6, <1>7, ConcatProperties
<1>9. ValidPositions(events) \in Seq(Actions(log'))
  <2>1. ValidPositions(events) \in Seq(Actions(log \o events)) /\ log \o events \in Seq(Events)
    BY <1>2, <1>3, <1>5, ConcatTyped, ValidPositionsAreActions
  <2> DEFINE both == log \o events
  <2>2. both \in Seq(Events) /\ log' = both \o updates
    BY <1>8, <2>1
  <2>3. ValidPositions(events) \in Seq(Actions(both))
    BY <2>1
  <2> HIDE DEF both
  <2>4. Seq(Actions(both)) \subseteq Seq(Actions(log'))
    BY <1>6, <2>2, ConcatTyped
  <2> QED BY <2>3, <2>4
<1>10. todo' \in Seq(Actions(log)) \/ todo' \in Seq(Actions(log'))
  BY <1>2, <1>4, <1>9
<1> QED BY <1>4, <1>7, <1>8, <1>10, TypesAfterStored

\* ... what a crash leaves of them, ...
LEMMA TypesAfterTearReply ==
  ASSUME HistoryTypeOK, TearReply
  PROVE  HistoryTypeOK'
<1>1. PICK calls \in AskedFor : \E k \in 1..(Len(CallEvents(calls, FALSE)) - 1) :
        log' = log \o (SubSeq(CallEvents(calls, FALSE), 1, k) \o Changed("error"))
  BY DEF TearReply, Store
<1> DEFINE events == CallEvents(calls, FALSE)
<1>2. log \in Seq(Events) /\ todo \in Seq(Actions(log))
  BY DEF HistoryTypeOK
<1>3. events \in Seq(ReplyEvents)
  BY <1>2, TypedIsView, CallEventsAreReply DEF IsReply
<1>4. PICK k \in 1..(Len(events) - 1) : log' = log \o (SubSeq(events, 1, k) \o Changed("error"))
  BY <1>1
<1> HIDE DEF events
<1>5. SubSeq(events, 1, k) \in Seq(Events)
  <2>1. ReplyEvents \subseteq Events
    BY DEF Events
  <2>2. events \in Seq(Events)
    BY <1>3, <2>1, SeqMonotonic
  <2>3. 1 \in 1..(Len(events) + 1) /\ k \in 0..Len(events)
    BY <2>2
  <2> QED BY <2>2, <2>3, SubSeqProperties
<1>6. Changed("error") \in Seq(Events)
  BY PlainTyped
<1>7. SubSeq(events, 1, k) \o Changed("error") \in Seq(Events)
  BY <1>5, <1>6, ConcatProperties
<1>8. status' \in Statuses /\ todo' \in Seq(Actions(log))
  BY <1>2 DEF TearReply, Statuses
<1> QED BY <1>4, <1>7, <1>8, TypesAfterStored

\* ... the end of a tool call ...
LEMMA TypesAfterExecute ==
  ASSUME HistoryTypeOK, Execute
  PROVE  HistoryTypeOK'
<1>1. log \in Seq(Events) /\ status \in Statuses /\ todo \in Seq(Actions(log))
  BY DEF HistoryTypeOK
<1>2. CASE Fail
  BY <1>2, TypesAfterFail
<1>3. CASE ~Fail
  <2>1. todo # <<>>
    BY DEF Execute
  <2>2. Head(todo) \in Actions(log) /\ Tail(todo) \in Seq(Actions(log))
    BY <1>1, <2>1
  <2> DEFINE n == Head(todo)
  <2>3. PICK kind \in {"observation", "error"}, content \in Contents :
          log' = Append(log, Result(kind, log[n].call, IF kind = "error" THEN 0 ELSE n, content))
    BY <1>3 DEF Execute
  <2>4. todo' = Tail(todo) /\ status' = status
    BY <1>3 DEF Execute
  <2> HIDE DEF n
  <2>5. Result(kind, log[n].call, IF kind = "error" THEN 0 ELSE n, content) \in Events
    <3>1. log[n].call \in Nat /\ n \in Nat
      BY <1>1, <2>2, ActionsAreTyped DEF n
    <3> QED BY <3>1 DEF Result, Events, ReplyEvents, ResultEvents, Results
  <2>6. log' \in Seq(Events) /\ Seq(Actions(log)) \subseteq Seq(Actions(log'))
    BY <1>1, <2>3, <2>5, AppendTyped
  <2> QED BY <1>1, <2>2, <2>4, <2>6 DEF HistoryTypeOK
<1> QED BY <1>2, <1>3

\* What all the operations do that publish events of no reply only.
StoresPlain ==
  /\ \E tail \in Seq(PlainEvents) : log' = log \o tail
  /\ status' \in Statuses
  /\ \/ todo' = todo
     \/ todo' = <<>>
     \/ todo = <<>> /\ todo' = PendingActions

\* A failing run does so.
LEMMA FailIsPlain == Fail => StoresPlain
<1>1. Changed("error") \o <<Event("failure")>> \in Seq(PlainEvents)
  BY PlainTyped DEF PlainKinds
<1> QED BY <1>1 DEF Fail, Store, StoresPlain, Statuses

\* One of these is done in a step.
LEMMA NextByKind ==
  ASSUME log \in Seq(Events), status \in Statuses, Next
  PROVE  \/ StoresPlain \/ RejectPendingActions \/ Execute
         \/ /\ todo = <<>> /\ PendingActions = <<>> /\ ~IsStuck(log)
            /\ Condense \/ TearReply \/ \E thinking \in BOOLEAN : ReplyCalls(thinking)
<1>1. ASSUME NEW kind \in PlainKinds, NEW new
      PROVE  /\ <<Event(kind)>> \in Seq(PlainEvents)
             /\ Changed(new) \in Seq(PlainEvents)
             /\ Changed(new) \o <<Event(kind)>> \in Seq(PlainEvents)
             /\ <<Event(kind)>> \o Changed(new) \in Seq(PlainEvents)
  BY PlainTyped
<1>2. /\ <<>> \in Seq(PlainEvents) /\ MarkedRunning \in Seq(PlainEvents)
      /\ \A e : Append(log, e) = log \o <<e>>
  BY PlainTyped
<1>3. Fail => StoresPlain
  BY FailIsPlain
<1>4. CASE SendMessage
  BY <1>1, <1>4 DEF SendMessage, Store, StoresPlain, PlainKinds, Statuses
<1>5. CASE Pause
  BY <1>1, <1>5 DEF Pause, Store, StoresPlain, PlainKinds, Statuses
<1>6. CASE StartRun
  BY <1>2, <1>6 DEF StartRun, Store, StoresPlain, Statuses
<1>7. CASE DetectStuck
  BY <1>1, <1>7 DEF DetectStuck, Store, StoresPlain, PlainKinds, Statuses
<1>8. CASE Crash
  <2>1. status' \in Statuses
    BY <1>8 DEF Crash, Statuses
  <2> QED BY <1>1, <1>8, <2>1 DEF Crash, Store, StoresPlain, PlainKinds
<1>9. CASE Step
  <2>1. todo = <<>> /\ ~IsStuck(log)
    BY <1>9 DEF Step, AtStep, Runs
  <2>2. CASE ExecutePending
    BY <1>2, <2>1, <2>2 DEF ExecutePending, Store, StoresPlain, Statuses
  <2>3. CASE NothingToForget \/ SummaryFails
    BY <1>3, <2>3 DEF NothingToForget, SummaryFails
  <2>4. CASE Ask /\ PendingActions = <<>>
    <3>1. CASE \E kind \in {"user", "agent", "request"} :
                 log' = Append(log, Event(kind)) /\ UNCHANGED <<status, todo>>
      BY <1>1, <1>2, <3>1 DEF StoresPlain, PlainKinds
    <3>2. CASE /\ Store(<<Event("agent")>> \o Changed("finished"))
               /\ status' = "finished" /\ UNCHANGED todo
      BY <1>1, <3>2 DEF Store, StoresPlain, PlainKinds, Statuses
    <3> QED BY <1>3, <2>1, <2>4, <3>1, <3>2 DEF Ask
  <2> QED BY <1>9, <2>1, <2>2, <2>3, <2>4 DEF Step
<1> QED BY <1>4, <1>5, <1>6, <1>7, <1>8, <1>9 DEF Next

\* ... and rejections.
LEMMA TypesAfterReject ==
  ASSUME HistoryTypeOK, RejectPendingActions
  PROVE  HistoryTypeOK'
<1>1. log \in Seq(Events) /\ status \in Statuses /\ todo \in Seq(Actions(log))
  BY DEF HistoryTypeOK
<1> DEFINE pending == Rejectable
           rejections == [i \in DOMAIN pending |->
                            Result("rejection", log[pending[i]].call, pending[i], "")]
<1>2. rejections \in Seq(Events)
  BY <1>1, PendingAreUnanswered, RejectionsTyped
<1>3. log' = log \o (Changed(status') \o rejections)
  BY DEF RejectPendingActions, Store
<1> HIDE DEF rejections
<1>4. Changed(status') \o rejections \in Seq(Events)
  BY <1>2, PlainTyped, ConcatProperties
<1>5. status' \in Statuses /\ todo' \in Seq(Actions(log))
  BY <1>1 DEF RejectPendingActions, Statuses
<1> QED BY <1>3, <1>4, <1>5, TypesAfterStored

\* Every step keeps the types.
LEMMA TypesKept == HistoryTypeOK /\ [Next]_vars => HistoryTypeOK'
<1> SUFFICES ASSUME HistoryTypeOK, [Next]_vars PROVE HistoryTypeOK'
  OBVIOUS
<1>1. log \in Seq(Events) /\ status \in Statuses /\ todo \in Seq(Actions(log))
  BY DEF HistoryTypeOK
<1>2. CASE StoresPlain
  <2>1. PICK tail \in Seq(PlainEvents) : log' = log \o tail
    BY <1>2 DEF StoresPlain
  <2>2. status' \in Statuses /\ todo' \in {todo, <<>>, PendingActions}
    BY <1>2 DEF StoresPlain
  <2>3. PendingActions \in Seq(Actions(log)) /\ <<>> \in Seq(Actions(log))
    BY <1>1, PendingAreUnanswered
  <2>4. todo' \in Seq(Actions(log))
    BY <1>1, <2>2, <2>3
  <2> QED BY <2>1, <2>2, <2>4, TypesAfterPlain
<1>3. CASE RejectPendingActions
  BY <1>3, TypesAfterReject
<1>4. CASE Condense
  <2>1. PICK summary \in BOOLEAN : log' = Append(log, Condensation(summary))
    BY <1>4 DEF Condense
  <2>2. Condensation(summary) \in Events
    BY <1>1, <1>4, CondensationTyped DEF Condense, Events
  <2>3. log' \in Seq(Events) /\ Seq(Actions(log)) \subseteq Seq(Actions(log'))
    BY <1>1, <2>1, <2>2, AppendTyped
  <2> QED BY <1>1, <1>4, <2>3 DEF Condense, HistoryTypeOK
<1>5. CASE \E thinking \in BOOLEAN : ReplyCalls(thinking)
  BY <1>5, TypesAfterReplyCalls
<1>6. CASE TearReply
  BY <1>6, TypesAfterTearReply
<1>7. CASE Execute
  BY <1>7, TypesAfterExecute
<1>8. CASE UNCHANGED vars
  BY <1>1, <1>8 DEF vars, HistoryTypeOK
<1> QED BY <1>1, <1>2, <1>3, <1>4, <1>5, <1>6, <1>7, <1>8, NextByKind

\* The events of the log have the fields of their kind, and what a step has
\* still to execute are calls of the log.
THEOREM HistoryIsTyped == Spec => []HistoryTypeOK
BY TypesAtStart, TypesKept, PTL DEF Spec

-----------------------------------------------------------------------------
(* One operation: its events keep the view sound *)

\* What one operation appends to the log, other than a condensation: calls of a
\* new reply, results of calls of that reply or of calls that are shown, and
\* events of no reply.
Follows(tail, m) ==
  LET e == tail[m]
  IN \/ e.kind \notin Results \cup {"action", "condensation"}
     \/ /\ e.kind = "action" /\ e.call = Len(log) + m /\ e.response = Len(log) + 1
        /\ tail[1].kind = "action" /\ tail[1].response = Len(log) + 1
     \/ /\ e.kind \in Results
        /\ e.call \in Actions(log) /\ e.call \in Range(Output(log))
        /\ e.kind \in {"observation", "rejection"} => e.action = e.call
     \/ /\ e.kind = "error" /\ m > 1
        /\ tail[m - 1].kind = "action" /\ e.call = Len(log) + m - 1

\* tail is what one operation other than a condensation appends to the log.
Grows(tail) ==
  /\ tail \in Seq(Events)
  /\ \A m \in 1..Len(tail) : Follows(tail, m)

\* What is shown of the log remains so, and so does what is appended.
ShowsMore(events, n) ==
  /\ Range(Output(log)) \subseteq Range(Output(events))
  /\ \A m \in (Len(log) + 1)..n : events[m].kind \in Convertible => m \in Range(Output(events))

\* Such a tail keeps the log sound and its condensations in place, and the LLM
\* forgets nothing by it.
LEMMA GrowsInPlace ==
  ASSUME log \in Seq(Events), Sound(log), InPlace(log), NEW tail, Grows(tail)
  PROVE  /\ Sound(log \o tail) /\ InPlace(log \o tail)
         /\ ShowsMore(log \o tail, Len(log) + Len(tail))
<1> DEFINE B == Len(log)
           L == Len(tail)
           prefix(n) == log \o SubSeq(tail, 1, n)
           Good(n) == Sound(prefix(n)) /\ InPlace(prefix(n)) /\ ShowsMore(prefix(n), B + n)
           T == {n \in 0..L : Good(n)}
<1>1. /\ B \in Nat /\ L \in Nat /\ DOMAIN log = 1..B
      /\ \A m \in 1..L : tail[m] \in Events
      /\ tail \in Seq(Events)
  BY DEF Grows
<1>1a. ASSUME NEW n \in 0..L
       PROVE  /\ prefix(n) \in Seq(Events) /\ Len(prefix(n)) = B + n /\ DOMAIN prefix(n) = 1..(B + n)
              /\ \A i \in 1..B : prefix(n)[i] = log[i]
              /\ \A m \in 1..n : prefix(n)[B + m] = tail[m]
  <2> DEFINE t == SubSeq(tail, 1, n)
  <2>1. 1 \in 1..(L + 1) /\ n \in 0..L
    BY <1>1
  <2>2. t \in Seq(Events) /\ Len(t) = n /\ \A m \in 1..n : t[m] = tail[m]
    <3>1. n \in Nat
      BY <1>1
    <3> QED BY <1>1, <2>1, <3>1
  <2> HIDE DEF t, B
  <2>3. /\ log \o t \in Seq(Events) /\ Len(log \o t) = B + n
        /\ \A i \in 1..B : (log \o t)[i] = log[i]
        /\ \A m \in 1..n : (log \o t)[B + m] = t[m]
    <3>1. /\ log \o t \in Seq(Events) /\ Len(log \o t) = B + n
          /\ \A i \in 1..(B + n) : (log \o t)[i] = IF i <= B THEN log[i] ELSE t[i - B]
      BY <2>2, ConcatProperties DEF B
    <3>2. n \in Nat
      BY <1>1
    <3>3. \A i \in 1..B : i \in 1..(B + n) /\ i <= B
      BY <1>1, <3>2
    <3>4. \A m \in 1..n : B + m \in 1..(B + n) /\ ~(B + m <= B) /\ (B + m) - B = m
      BY <1>1, <3>2
    <3> QED BY <3>1, <3>3, <3>4
  <2>4. DOMAIN (log \o t) = 1..(B + n)
    BY <2>3
  <2> QED BY <2>2, <2>3, <2>4 DEF t
<1>2. prefix(0) = log /\ prefix(L) = log \o tail
  BY <1>1
<1> HIDE DEF L, B, prefix
<1>3. 0 \in T
  <2>1. ShowsMore(log, B)
    BY <1>1 DEF ShowsMore, B
  <2>2. 0 \in 0..L /\ B + 0 = B
    BY <1>1
  <2> QED BY <1>2, <2>1, <2>2
<1>4. ASSUME NEW n \in 0..(L - 1), n \in T
      PROVE  n + 1 \in T
  <2> DEFINE p == prefix(n)
             e == tail[n + 1]
             R == Range(Output(p))
  <2>1. /\ n \in Nat /\ n \in 0..L /\ n + 1 \in 0..L /\ n + 1 \in 1..L
    BY <1>1
  <2>2. Sound(p) /\ InPlace(p) /\ ShowsMore(p, B + n)
    BY <1>4
  <2>3. /\ p \in Seq(Events) /\ Len(p) = B + n /\ DOMAIN p = 1..(B + n)
        /\ \A i \in 1..B : p[i] = log[i]
        /\ \A m \in 1..n : p[B + m] = tail[m]
    BY <1>1a, <2>1
  <2>4. prefix(n + 1) = Append(p, e)
    <3> DEFINE q == prefix(n + 1)
    <3>1. /\ q \in Seq(Events) /\ Len(q) = B + (n + 1) /\ DOMAIN q = 1..(B + (n + 1))
          /\ \A i \in 1..B : q[i] = log[i]
          /\ \A m \in 1..(n + 1) : q[B + m] = tail[m]
      BY <1>1a, <2>1
    <3> HIDE DEF q, p, e
    <3>2. /\ Append(p, e) \in Seq(Events) /\ Len(Append(p, e)) = B + n + 1
          /\ Append(p, e)[B + n + 1] = e
          /\ \A i \in 1..(B + n) : Append(p, e)[i] = p[i]
      BY <1>1, <2>1, <2>3 DEF e
    <3>3. Len(q) = Len(Append(p, e))
      BY <1>1, <2>1, <3>1, <3>2
    <3>4. \A i \in 1..Len(q) : q[i] = Append(p, e)[i]
      <4> TAKE i \in 1..Len(q)
      <4>1. CASE i \in 1..B
        <5>1. i \in 1..(B + n)
          BY <1>1, <2>1, <4>1
        <5> QED BY <2>3, <3>1, <3>2, <4>1, <5>1
      <4>2. CASE i \in (B + 1)..(B + n)
        <5> DEFINE m == i - B
        <5>1. m \in 1..n /\ m \in 1..(n + 1) /\ i = B + m /\ i \in 1..(B + n)
          BY <1>1, <2>1, <4>2
        <5> HIDE DEF m
        <5>2. q[i] = tail[m]
          BY <3>1, <5>1
        <5>3. p[i] = tail[m]
          BY <2>3, <5>1
        <5>4. Append(p, e)[i] = p[i]
          BY <3>2, <5>1
        <5> QED BY <5>2, <5>3, <5>4
      <4>3. CASE i = B + n + 1
        <5>1. n + 1 \in 1..(n + 1) /\ i = B + (n + 1)
          BY <1>1, <2>1, <4>3
        <5>2. q[i] = tail[n + 1]
          BY <3>1, <5>1
        <5> QED BY <3>2, <4>3, <5>2 DEF e
      <4>4. i \in 1..B \/ i \in (B + 1)..(B + n) \/ i = B + n + 1
        BY <1>1, <2>1, <3>1
      <4> QED BY <4>1, <4>2, <4>3, <4>4
    <3> QED BY <3>1, <3>2, <3>3, <3>4, SeqEqual DEF q
  <2> HIDE DEF p, e, R
  <2>5. /\ \A a \in Actions(log) : a \in Actions(p)
        /\ Range(Output(log)) \subseteq R
        /\ \A m \in (B + 1)..(B + n) : p[m].kind \in Convertible => m \in R
    <3>1. \A i \in 1..B : i \in 1..(B + n)
      BY <1>1, <2>1
    <3> QED BY <1>1, <2>2, <2>3, <3>1 DEF ShowsMore, Actions, R, B
  <2>6. Follows(tail, n + 1)
    BY <2>1 DEF Grows, L
  <2>7. MayFollow(p, e)
    <3>1. CASE e.kind \notin Results \cup {"action", "condensation"}
      BY <3>1 DEF MayFollow
    <3>2. CASE e.kind \in Results /\ e.call \in Actions(log) /\ e.call \in Range(Output(log))
               /\ (e.kind \in {"observation", "rejection"} => e.action = e.call)
      BY <2>5, <3>2 DEF MayFollow, R
    <3>3. CASE /\ e.kind = "action" /\ e.call = B + (n + 1) /\ e.response = B + 1
               /\ tail[1].kind = "action" /\ tail[1].response = B + 1
      <4>1. e.call = Len(p) + 1
        BY <1>1, <2>1, <2>3, <3>3
      <4>2. CASE n = 0
        <5>1. e.response = Len(p) + 1
          BY <1>1, <2>1, <2>3, <3>3, <4>2
        <5> QED BY <3>3, <4>1, <5>1 DEF MayFollow
      <4>3. CASE n # 0
        <5>1. 1 \in 1..n /\ B + 1 \in (B + 1)..(B + n) /\ B + 1 \in 1..(B + n)
          BY <1>1, <2>1, <4>3
        <5>2. p[B + 1] = tail[1]
          BY <2>3, <5>1
        <5>3. B + 1 \in Actions(p) /\ B + 1 \in R /\ p[B + 1].response = B + 1
          BY <2>3, <2>5, <3>3, <5>1, <5>2 DEF Actions, Convertible
        <5> QED BY <3>3, <4>1, <5>3 DEF MayFollow, R
      <4> QED BY <4>2, <4>3
    <3>4. CASE /\ e.kind = "error" /\ n + 1 > 1
               /\ tail[n].kind = "action" /\ e.call = B + n
      <4>1. n \in 1..n /\ B + n \in (B + 1)..(B + n) /\ B + n \in 1..(B + n)
        BY <1>1, <2>1, <3>4
      <4>2. p[B + n] = tail[n]
        BY <2>3, <4>1
      <4>3. B + n \in Actions(p) /\ B + n \in R
        BY <2>3, <2>5, <3>4, <4>1, <4>2 DEF Actions, Convertible
      <4>4. e.kind \in Results
        BY <3>4 DEF Results
      <4> QED BY <3>4, <4>3, <4>4 DEF MayFollow, R
    <3>5. (n + 1) - 1 = n /\ B + (n + 1) - 1 = B + n
      BY <1>1, <2>1
    <3>6. \/ e.kind \notin Results \cup {"action", "condensation"}
          \/ /\ e.kind = "action" /\ e.call = B + (n + 1) /\ e.response = B + 1
             /\ tail[1].kind = "action" /\ tail[1].response = B + 1
          \/ /\ e.kind \in Results
             /\ e.call \in Actions(log) /\ e.call \in Range(Output(log))
             /\ e.kind \in {"observation", "rejection"} => e.action = e.call
          \/ /\ e.kind = "error" /\ n + 1 > 1
             /\ tail[n].kind = "action" /\ e.call = B + n
      BY <2>6, <3>5 DEF Follows, e, B
    <3> QED BY <3>1, <3>2, <3>3, <3>4, <3>6
  <2>8. e.kind # "condensation"
    BY <2>6 DEF Follows, Results, e
  <2>9. /\ Sound(Append(p, e)) /\ InPlace(Append(p, e))
        /\ Range(Output(Append(p, e))) = RangeAfter(e, R, B + n + 1)
    <3>1. Settled(p, e)
      BY <2>8 DEF Settled
    <3>2. Sound(Append(p, e)) /\ Range(Output(Append(p, e))) = RangeAfter(e, Range(Output(p)), Len(p) + 1)
      BY <2>2, <2>7, SoundAppends
    <3>3. InPlace(Append(p, e))
      BY <2>2, <2>7, <3>1, AppendsInPlace
    <3> QED BY <2>3, <3>2, <3>3 DEF R
  <2> DEFINE q == Append(p, e)
             after == Range(Output(q))
  <2>10. R \subseteq after /\ (e.kind \in Convertible => B + n + 1 \in after)
    BY <2>8, <2>9 DEF RangeAfter
  <2>11. q[B + n + 1] = e /\ \A i \in 1..(B + n) : q[i] = p[i]
    <3> DEFINE k == Len(p)
    <3>1. k = B + n /\ k \in Nat /\ DOMAIN p = 1..k /\ p \in Seq(Events)
      BY <1>1, <2>1, <2>3
    <3> HIDE DEF k
    <3>2. q[k + 1] = e /\ \A i \in 1..k : q[i] = p[i]
      BY <3>1 DEF k
    <3> QED BY <3>1, <3>2
  <2>12. q = prefix(n + 1)
    BY <2>4
  <2> HIDE DEF q
  <2>13. ShowsMore(q, B + (n + 1))
    <3>1. \A m \in (B + 1)..(B + (n + 1)) :
             (m \in (B + 1)..(B + n) /\ m \in 1..(B + n)) \/ m = B + n + 1
      BY <1>1, <2>1
    <3>2. \A m \in (B + 1)..(B + (n + 1)) : q[m].kind \in Convertible => m \in after
      BY <2>5, <2>10, <2>11, <3>1
    <3>3. Range(Output(log)) \subseteq after
      BY <2>5, <2>10
    <3> QED BY <3>2, <3>3 DEF ShowsMore, B
  <2>14. Sound(q) /\ InPlace(q)
    BY <2>9 DEF q
  <2> QED BY <2>1, <2>12, <2>13, <2>14
<1>5. \A n \in 0..L : n \in T
  <2> HIDE DEF T
  <2> QED BY <1>1, <1>3, <1>4, InductionUpTo
<1>6. L \in 0..L
  BY <1>1
<1> QED BY <1>2, <1>5, <1>6 DEF B, L

-----------------------------------------------------------------------------
(* The inductive invariant of the view *)

\* What waits for a result is shown: its result will belong to a call.
PendingShown == Range(todo) \cup Unanswered(log) \subseteq Range(Output(log))

\* The inductive invariant: views hold whole replies, condensations were in
\* place, and the calls that will be answered are shown.
HistoryInv ==
  /\ HistoryTypeOK
  /\ Sound(log)
  /\ InPlace(log)
  /\ PendingShown

\* When a log grows, only a new call can come to wait for its answer.
LEMMA UnansweredGrows ==
  ASSUME NEW events, NEW more, events \in Seq(Events), more \in Seq(Events), Len(events) <= Len(more),
         \A n \in 1..Len(events) : more[n] = events[n]
  PROVE  \A u \in Unanswered(more) :
           u \in Unanswered(events) \/ (u \in Actions(more) /\ u > Len(events))
<1>1. Len(events) \in Nat /\ Len(more) \in Nat
      /\ DOMAIN events = 1..Len(events) /\ DOMAIN more = 1..Len(more)
  OBVIOUS
<1>2. \A n \in 1..Len(events) : n \in 1..Len(more)
  BY <1>1
<1> SUFFICES ASSUME NEW u \in Unanswered(more), ~(u > Len(events))
             PROVE  u \in Unanswered(events)
  BY DEF Unanswered
<1>3. u \in Actions(more) /\ u \in 1..Len(events)
  BY <1>1 DEF Unanswered, Actions
<1>4. u \in Actions(events)
  BY <1>1, <1>3 DEF Actions
<1> QED BY <1>1, <1>2, <1>3, <1>4 DEF Unanswered

\* An operation that appends such a tail keeps the invariant.
LEMMA GrowsKeeps ==
  ASSUME HistoryInv, HistoryTypeOK', NEW tail, Grows(tail), log' = log \o tail,
         \A n \in Range(todo') :
           n \in Range(todo) \cup Unanswered(log) \/ (n \in Actions(log') /\ n > Len(log))
  PROVE  HistoryInv'
<1> DEFINE more == log \o tail
           B == Len(log)
           L == Len(tail)
<1>1. log \in Seq(Events) /\ tail \in Seq(Events) /\ B \in Nat /\ L \in Nat
  BY DEF HistoryInv, HistoryTypeOK, Grows
<1>2. /\ more \in Seq(Events) /\ Len(more) = B + L /\ DOMAIN more = 1..(B + L)
      /\ \A n \in 1..(B + L) : more[n] = IF n <= B THEN log[n] ELSE tail[n - B]
  BY <1>1, ConcatProperties
<1>3. Sound(more) /\ InPlace(more) /\ ShowsMore(more, B + L)
  BY <1>1, GrowsInPlace DEF HistoryInv
<1> HIDE DEF more, L
<1>4. Range(Output(log)) \subseteq Range(Output(more))
  BY <1>3 DEF ShowsMore
<1>5. \A n \in Actions(more) : n > B => n \in Range(Output(more))
  <2> TAKE n \in Actions(more)
  <2> HAVE n > B
  <2>1. n \in (B + 1)..(B + L)
    BY <1>1, <1>2 DEF Actions
  <2>2. more[n].kind \in Convertible
    BY DEF Actions, Convertible
  <2> QED BY <1>3, <2>1, <2>2 DEF ShowsMore
<1>6. \A u \in Unanswered(more) : u \in Unanswered(log) \/ (u \in Actions(more) /\ u > B)
  <2>1. B <= Len(more) /\ \A n \in 1..B : more[n] = log[n]
    BY <1>1, <1>2
  <2> QED BY <1>1, <1>2, <2>1, UnansweredGrows
<1>7. log' = more
  BY DEF more
<1>8. Range(todo') \cup Unanswered(more) \subseteq Range(Output(more))
  BY <1>4, <1>5, <1>6, <1>7 DEF HistoryInv, PendingShown
<1> QED BY <1>3, <1>7, <1>8 DEF HistoryInv, PendingShown

\* A single event that may follow is such a tail.
LEMMA GrowsByOne ==
  ASSUME log \in Seq(Events), NEW e, e \in Events, Follows(<<e>>, 1)
  PROVE  Grows(<<e>>) /\ Append(log, e) = log \o <<e>>
<1>1. <<e>> \in Seq(Events) /\ Len(<<e>>) = 1 /\ \A m \in 1..1 : m = 1
  OBVIOUS
<1>2. Append(log, e) = log \o <<e>>
  OBVIOUS
<1> QED BY <1>1, <1>2 DEF Grows

\* What events of no reply are.
LEMMA PlainByKind ==
  ASSUME NEW s, s \in Seq(PlainEvents)
  PROVE  \A m \in 1..Len(s) : s[m].kind \in PlainKinds
<1>1. \A m \in 1..Len(s) : s[m] \in PlainEvents
  OBVIOUS
<1>2. \A e \in PlainEvents : e.kind \in PlainKinds
  BY DEF PlainEvents
<1> QED BY <1>1, <1>2

\* Events of no reply are such a tail.
LEMMA PlainGrows ==
  ASSUME NEW s, s \in Seq(PlainEvents)
  PROVE  Grows(s)
<1>1. \A m \in 1..Len(s) : Follows(s, m)
  BY PlainByKind DEF Follows, PlainKinds, Results
<1> QED BY <1>1, PlainTyped DEF Grows

\* Events of no reply may come behind such a tail, ...
LEMMA GrowsThenPlain ==
  ASSUME NEW t, Grows(t), NEW s, s \in Seq(PlainEvents)
  PROVE  Grows(t \o s)
<1> DEFINE both == t \o s
           K == Len(t)
           L == Len(s)
<1>1. t \in Seq(Events) /\ s \in Seq(Events) /\ K \in Nat /\ L \in Nat
  BY PlainTyped DEF Grows
<1>2. /\ both \in Seq(Events) /\ Len(both) = K + L
      /\ \A m \in 1..(K + L) : both[m] = IF m <= K THEN t[m] ELSE s[m - K]
  BY <1>1, ConcatProperties
<1>3. \A m \in 1..K : Follows(t, m)
  BY DEF Grows
<1>4. \A m \in 1..L : s[m].kind \in PlainKinds
  BY PlainByKind
<1> HIDE DEF both, K, L
<1>5. ASSUME NEW m \in 1..(K + L) PROVE Follows(both, m)
  <2>1. CASE m <= K
    <3>1. m \in 1..K /\ both[m] = t[m] /\ both[1] = t[1] /\ (m > 1 => both[m - 1] = t[m - 1])
      <4>1. 1 \in 1..(K + L) /\ 1 <= K /\ m \in 1..K
        BY <1>1, <2>1
      <4>2. m > 1 => m - 1 \in 1..(K + L) /\ m - 1 <= K
        BY <1>1, <2>1
      <4> QED BY <1>2, <2>1, <4>1, <4>2
    <3> QED BY <1>3, <3>1 DEF Follows
  <2>2. CASE ~(m <= K)
    <3>1. m - K \in 1..L
      BY <1>1, <2>2
    <3>2. both[m].kind \in PlainKinds
      BY <1>2, <1>4, <2>2, <3>1
    <3> QED BY <3>2 DEF Follows, PlainKinds, Results
  <2> QED BY <2>1, <2>2
<1> QED BY <1>2, <1>5 DEF Grows, both

\* A result of a call that is shown.
ShownResult(e) ==
  /\ e \in Events
  /\ e.kind \in Results
  /\ e.call \in Actions(log) /\ e.call \in Range(Output(log))
  /\ e.kind \in {"observation", "rejection"} => e.action = e.call

\* ... and before results of calls that are shown.
LEMMA PlainThenResults ==
  ASSUME NEW s, s \in Seq(PlainEvents),
         NEW t, t \in Seq(Events), \A m \in 1..Len(t) : ShownResult(t[m])
  PROVE  Grows(s \o t)
<1> DEFINE both == s \o t
           K == Len(s)
           L == Len(t)
<1>1. t \in Seq(Events) /\ s \in Seq(Events) /\ K \in Nat /\ L \in Nat
  BY PlainTyped
<1>2. /\ both \in Seq(Events) /\ Len(both) = K + L
      /\ \A m \in 1..(K + L) : both[m] = IF m <= K THEN s[m] ELSE t[m - K]
  BY <1>1, ConcatProperties
<1>3. \A m \in 1..K : s[m].kind \in PlainKinds
  BY PlainByKind
<1>4. \A m \in 1..L : ShownResult(t[m])
  OBVIOUS
<1> HIDE DEF both, K, L
<1>5. ASSUME NEW m \in 1..(K + L) PROVE Follows(both, m)
  <2>1. CASE m <= K
    <3>1. m \in 1..K
      BY <1>1, <2>1
    <3>2. both[m].kind \in PlainKinds
      BY <1>2, <1>3, <2>1, <3>1
    <3> QED BY <3>2 DEF Follows, PlainKinds, Results
  <2>2. CASE ~(m <= K)
    <3>1. m - K \in 1..L
      BY <1>1, <2>2
    <3>2. ShownResult(both[m])
      BY <1>2, <1>4, <2>2, <3>1
    <3> QED BY <3>2 DEF Follows, ShownResult
  <2> QED BY <2>1, <2>2
<1> QED BY <1>2, <1>5 DEF Grows, both

\* A reply of an LLM that names its calls, or what a crash leaves of it.
LEMMA ReplyGrows ==
  ASSUME NativeCalls, log \in Seq(Events), NEW events, IsReply(events)
  PROVE  Grows(events)
<1> DEFINE B == Len(log)
           L == Len(events)
<1>1. B \in Nat /\ L \in Nat /\ events \in Seq(ReplyEvents)
  BY DEF IsReply
<1>2. events \in Seq(Events)
  <2>1. ReplyEvents \subseteq Events
    BY DEF Events
  <2> QED BY <1>1, <2>1, SeqMonotonic
<1>3. \A m \in 1..L : Published(events, m)
  BY DEF IsReply
<1>4. \A n \in Nat : CallId(n) = n
  BY DEF CallId
<1> HIDE DEF B, L
<1>5. ASSUME NEW m \in 1..L, events[m] \in ActionEvents
      PROVE  events[m].kind = "action" /\ events[m].response = B + 1 /\ events[m].call = B + m
  <2>1. events[m].kind = "action" /\ "action" \notin Results
    BY <1>5, EventKinds DEF Results
  <2>2. events[m] \notin ResultEvents
    BY <2>1, EventKinds
  <2>3. B + m \in Nat
    BY <1>1
  <2> QED BY <1>3, <1>4, <2>1, <2>2, <2>3 DEF Published, B
<1>6. 1 \in 1..L => events[1] \in ActionEvents
  <2>1. 1 - 1 \notin 1..L
    BY <1>1
  <2> QED BY <1>3, <2>1 DEF Published, L
<1>7. ASSUME NEW m \in 1..L PROVE Follows(events, m)
  <2>1. 1 \in 1..L
    BY <1>1
  <2>2. CASE events[m] \in ActionEvents
    BY <1>5, <1>6, <2>1, <2>2 DEF Follows, B
  <2>3. CASE events[m] \notin ActionEvents
    <3>1. /\ events[m].kind = "error" /\ m - 1 \in 1..L /\ events[m - 1] \in ActionEvents
          /\ events[m].call = events[m - 1].call
      BY <1>3, <2>3 DEF Published, L
    <3>2. events[m - 1].kind = "action" /\ events[m].call = B + (m - 1)
      BY <1>5, <3>1
    <3>3. m > 1 /\ B + (m - 1) = B + m - 1
      BY <1>1, <3>1
    <3> QED BY <3>1, <3>2, <3>3 DEF Follows, B
  <2> QED BY <2>2, <2>3
<1> QED BY <1>2, <1>7 DEF Grows, L

\* The first events of such a tail, which a crash may leave, are such a tail.
LEMMA PrefixGrows ==
  ASSUME NEW tail, Grows(tail), NEW k \in 1..Len(tail)
  PROVE  Grows(SubSeq(tail, 1, k))
<1> DEFINE t == SubSeq(tail, 1, k)
<1>1. tail \in Seq(Events) /\ k \in Nat /\ Len(tail) \in Nat
  BY DEF Grows
<1>2. t \in Seq(Events) /\ Len(t) = k /\ \A m \in 1..k : t[m] = tail[m]
  <2>1. 1 \in 1..(Len(tail) + 1) /\ k \in 0..Len(tail)
    BY <1>1
  <2> QED BY <1>1, <2>1, SubSeqProperties
<1> HIDE DEF t
<1>3. ASSUME NEW m \in 1..k PROVE Follows(t, m)
  <2>1. m \in 1..Len(tail) /\ 1 \in 1..k /\ (m > 1 => m - 1 \in 1..k)
    BY <1>1
  <2>2. Follows(tail, m)
    BY <2>1 DEF Grows
  <2>3. t[m] = tail[m] /\ t[1] = tail[1] /\ (m > 1 => t[m - 1] = tail[m - 1])
    BY <1>2, <2>1
  <2> QED BY <2>2, <2>3 DEF Follows
<1> QED BY <1>2, <1>3 DEF Grows, t

-----------------------------------------------------------------------------
(* The inductive invariant of the view: the actions *)

\* The invariant holds of the first state, ...
LEMMA HistoryInvAtStart == Init => HistoryInv
<1> SUFFICES ASSUME Init PROVE HistoryInv
  OBVIOUS
<1> DEFINE e == Event("system")
<1>1. HistoryTypeOK /\ log = <<e>> /\ todo = <<>>
  BY TypesAtStart DEF Init
<1>2. e.kind = "system"
  BY DEF Event
<1> HIDE DEF e
<1>3. Len(log) = 1 /\ DOMAIN log = {1} /\ log[1] = e
  BY <1>1
<1>4. IsLog(log) /\ OutputIsView(log)
  BY <1>1, TypedIsView DEF HistoryTypeOK
<1>5. Actions(log) = {} /\ \A n \in DOMAIN log : log[n].kind \notin Results
  BY <1>2, <1>3 DEF Actions, Results
<1>6. Named(log) /\ Replied(log)
  <2>1. \A n \in DOMAIN log : log[n].kind \notin {"observation", "rejection"}
    BY <1>2, <1>3
  <2> QED BY <1>5, <2>1 DEF Named, Replied
<1>7. Closed(log, Range(Output(log)))
  BY <1>5 DEF Closed, InReply, Actions
<1>8. InPlace(log)
  BY <1>3 DEF InPlace
<1>9. PendingShown
  BY <1>1, <1>5 DEF PendingShown, Unanswered, Range
<1> QED BY <1>1, <1>4, <1>6, <1>7, <1>8, <1>9 DEF HistoryInv, Sound, Ordered

\* ... a step that appends only events of no reply keeps it, ...
LEMMA PlainKeeps ==
  ASSUME HistoryInv, HistoryTypeOK', StoresPlain
  PROVE  HistoryInv'
<1>1. log \in Seq(Events)
  BY DEF HistoryInv, HistoryTypeOK
<1>2. PICK tail \in Seq(PlainEvents) : log' = log \o tail
  BY DEF StoresPlain
<1>3. Grows(tail)
  BY PlainGrows
<1>4. Range(todo') \subseteq Range(todo) \cup Unanswered(log)
  <2>1. Range(<<>>) = {}
    BY DEF Range
  <2>2. Range(PendingActions) = Unanswered(log)
    BY <1>1, PendingAreUnanswered
  <2>3. todo' = todo \/ todo' = <<>> \/ todo' = PendingActions
    BY DEF StoresPlain
  <2> QED BY <2>1, <2>2, <2>3
<1> QED BY <1>2, <1>3, <1>4, GrowsKeeps

\* ... the rejection of the pending calls, ...
LEMMA RejectKeeps ==
  ASSUME HistoryInv, HistoryTypeOK', RejectPendingActions
  PROVE  HistoryInv'
<1> DEFINE pending == Rejectable
           R(i) == Result("rejection", log[pending[i]].call, pending[i], "")
           N == Len(pending)
           tail == [i \in 1..N |-> R(i)]
<1>1. log \in Seq(Events) /\ Named(log) /\ Unanswered(log) \subseteq Range(Output(log))
  BY DEF HistoryInv, HistoryTypeOK, Sound, Ordered, PendingShown
<1>2. /\ pending \in Seq(Actions(log)) /\ N \in Nat /\ DOMAIN pending = 1..N
      /\ \A i \in 1..N : pending[i] \in Actions(log) /\ pending[i] \in Range(Output(log))
  <2>1. pending \in Seq(Actions(log)) /\ Range(pending) \subseteq Unanswered(log)
    BY <1>1, PendingAreUnanswered
  <2> HIDE DEF pending
  <2>2. N \in Nat /\ DOMAIN pending = 1..N /\ \A i \in 1..N : pending[i] \in Actions(log)
    BY <2>1
  <2>3. \A i \in 1..N : pending[i] \in Range(pending)
    BY <2>2 DEF Range
  <2> QED BY <1>1, <2>1, <2>2, <2>3
<1>3. log' = log \o (Changed(status') \o tail) /\ todo' = todo
  BY <1>2 DEF RejectPendingActions, Store
<1>4. tail \in Seq(Events)
  BY <1>1, <1>2, RejectionsTyped
<1>5. Grows(Changed(status') \o tail)
  <2>1. Len(tail) = N /\ \A m \in 1..N : tail[m] = R(m)
    BY <1>2
  <2>2. \A m \in 1..N : /\ R(m).kind = "rejection" /\ R(m).call = log[pending[m]].call
                        /\ R(m).action = pending[m]
    BY DEF Result
  <2> HIDE DEF tail, R
  <2>3. \A m \in 1..N : tail[m] \in Events
    BY <1>4, <2>1
  <2>4. \A m \in 1..N : ShownResult(tail[m])
    <3> TAKE m \in 1..N
    <3>1. pending[m] \in Actions(log) /\ pending[m] \in Range(Output(log))
          /\ log[pending[m]].call = pending[m]
      BY <1>1, <1>2 DEF Named
    <3>2. tail[m].kind = "rejection" /\ tail[m].call = pending[m] /\ tail[m].action = pending[m]
      BY <2>1, <2>2, <3>1
    <3>3. tail[m] \in Events
      BY <2>3
    <3> HIDE DEF pending
    <3> QED BY <3>1, <3>2, <3>3 DEF ShownResult, Results
  <2>5. Changed(status') \in Seq(PlainEvents)
    BY PlainTyped
  <2> QED BY <1>4, <2>1, <2>4, <2>5, PlainThenResults
<1> DEFINE stored == Changed(status') \o tail
<1>6. log' = log \o stored /\ Grows(stored)
  BY <1>3, <1>5
<1> HIDE DEF stored
<1> QED BY <1>3, <1>6, GrowsKeeps

\* ... a condensation, which comes when no call waits for its answer, ...
LEMMA CondenseKeeps ==
  ASSUME HistoryInv, HistoryTypeOK', todo = <<>>, PendingActions = <<>>, Condense
  PROVE  HistoryInv'
<1>1. PICK summary \in BOOLEAN : log' = Append(log, Condensation(summary))
  BY DEF Condense
<1> DEFINE e == Condensation(summary)
           more == Append(log, e)
<1>2. log \in Seq(Events) /\ Sound(log)
  BY DEF HistoryInv, HistoryTypeOK
<1>3. /\ e.kind = "condensation"
      /\ e.forgotten = Forgetting(log, ViewOf(log)).ids
      /\ e.offset = Forgetting(log, ViewOf(log)).start
  BY DEF Condensation, View
<1>4. e \in Events
  BY <1>2, CondensationTyped DEF Condense, Events
<1>5. Unanswered(log) = {}
  <2>1. Range(PendingActions) = Unanswered(log)
    BY <1>2, PendingAreUnanswered
  <2> QED BY <2>1 DEF Range
<1> HIDE DEF e
<1>6. MayFollow(log, e) /\ Settled(log, e)
  <2>1. Reasons(log, ViewOf(log)) # {} /\ Forgetting(log, ViewOf(log)).ids # {}
    BY DEF Condense, MustCondense, CanCondense, View
  <2> QED BY <1>3, <1>5, <2>1 DEF MayFollow, Settled
<1>7. Sound(more) /\ InPlace(more)
  BY <1>2, <1>6, SoundAppends, AppendsInPlace
<1>8. Unanswered(more) = {}
  <2>1. /\ more \in Seq(Events) /\ Len(log) \in Nat /\ Len(more) = Len(log) + 1
        /\ \A n \in 1..Len(log) : more[n] = log[n]
        /\ more[Len(log) + 1] = e /\ DOMAIN more = 1..(Len(log) + 1)
    BY <1>2, <1>4
  <2> HIDE DEF more
  <2>2. Len(log) <= Len(more)
    BY <2>1
  <2>3. \A u \in Unanswered(more) : u \in Actions(more) /\ u > Len(log)
    BY <1>2, <1>5, <2>1, <2>2, UnansweredGrows
  <2>4. \A u \in Actions(more) : u > Len(log) => u = Len(log) + 1
    BY <2>1 DEF Actions
  <2>5. Len(log) + 1 \notin Actions(more)
    BY <1>3, <2>1 DEF Actions
  <2> QED BY <2>3, <2>4, <2>5
<1>9. log' = more /\ todo' = <<>>
  BY <1>1 DEF Condense, e
<1> HIDE DEF more
<1>10. Range(todo') = {}
  BY <1>9 DEF Range
<1>11. Unanswered(log') = {}
  BY <1>8, <1>9
<1>12. PendingShown'
  BY <1>10, <1>11 DEF PendingShown
<1> QED BY <1>7, <1>9, <1>12 DEF HistoryInv

\* ... the calls of a reply, ...
LEMMA ReplyCallsKeep ==
  ASSUME NativeCalls, HistoryInv, HistoryTypeOK', todo = <<>>, NEW thinking \in BOOLEAN,
         ReplyCalls(thinking)
  PROVE  HistoryInv'
<1>1. PICK calls \in AskedFor :
        LET events == CallEvents(calls, thinking)
        IN /\ log' = log \o (events \o Changed(status'))
           /\ todo' = todo \/ todo' = ValidPositions(events)
  BY DEF ReplyCalls, Store
<1> DEFINE events == CallEvents(calls, thinking)
           stored == events \o Changed(status')
<1>2. log \in Seq(Events) /\ Len(log) \in Nat
  BY DEF HistoryInv, HistoryTypeOK
<1>3. IsReply(events)
  BY <1>2, TypedIsView, CallEventsAreReply
<1>4. log' = log \o stored /\ (todo' = todo \/ todo' = ValidPositions(events))
  BY <1>1
<1> HIDE DEF events
<1>5. Grows(stored)
  <2>1. Changed(status') \in Seq(PlainEvents)
    BY PlainTyped
  <2> QED BY <1>2, <1>3, <2>1, ReplyGrows, GrowsThenPlain
<1>6. events \in Seq(Events) /\ Changed(status') \in Seq(Events)
  BY <1>2, <1>3, PlainTyped, ReplyGrows DEF Grows
<1>7. log' = (log \o events) \o Changed(status')
  <2> DEFINE updates == Changed(status')
  <2>1. updates \in Seq(Events) /\ log' = log \o (events \o updates)
    BY <1>4, <1>6
  <2> HIDE DEF updates
  <2>2. log' = (log \o events) \o updates
    BY <1>2, <1>6, <2>1, ConcatProperties
  <2> QED BY <2>2 DEF updates
<1>8. \A n \in Range(todo') :
         n \in Range(todo) \cup Unanswered(log) \/ (n \in Actions(log') /\ n > Len(log))
  <2>1. CASE todo' = ValidPositions(events)
    <3> DEFINE s == ValidPositions(events)
               both == log \o events
    <3>1. s \in Seq(Actions(both)) /\ Range(s) \subseteq (Len(log) + 1)..(Len(log) + Len(events))
          /\ Len(events) \in Nat /\ both \in Seq(Events)
      BY <1>2, <1>3, <1>6, ValidPositionsAreActions, ConcatTyped DEF IsReply
    <3> HIDE DEF s, both
    <3>2. Actions(both) \subseteq Actions(log')
      <4> DEFINE updates == Changed(status')
      <4>1. updates \in Seq(Events) /\ log' = both \o updates
        BY <1>6, <1>7 DEF both
      <4> HIDE DEF updates
      <4> QED BY <3>1, <4>1, ConcatTyped
    <3>3. \A n \in Range(s) : n \in Actions(log')
      BY <3>1, <3>2 DEF Range
    <3>4. \A n \in Range(s) : n > Len(log)
      BY <1>2, <3>1
    <3> QED BY <2>1, <3>3, <3>4 DEF s
  <2> QED BY <1>4, <2>1
<1> HIDE DEF stored
<1> QED BY <1>4, <1>5, <1>8, GrowsKeeps

\* ... what a crash leaves of them, ...
LEMMA TearReplyKeeps ==
  ASSUME NativeCalls, HistoryInv, HistoryTypeOK', TearReply
  PROVE  HistoryInv'
<1>1. PICK calls \in AskedFor : \E k \in 1..(Len(CallEvents(calls, FALSE)) - 1) :
        log' = log \o (SubSeq(CallEvents(calls, FALSE), 1, k) \o Changed("error"))
  BY DEF TearReply, Store
<1> DEFINE events == CallEvents(calls, FALSE)
<1>2. log \in Seq(Events)
  BY DEF HistoryInv, HistoryTypeOK
<1>3. IsReply(events)
  BY <1>2, TypedIsView, CallEventsAreReply
<1>4. PICK k \in 1..(Len(events) - 1) : log' = log \o (SubSeq(events, 1, k) \o Changed("error"))
  BY <1>1
<1> HIDE DEF events
<1>5. Grows(events) /\ Len(events) \in Nat
  BY <1>2, <1>3, ReplyGrows DEF IsReply
<1>6. Grows(SubSeq(events, 1, k) \o Changed("error"))
  <2>1. k \in 1..Len(events)
    BY <1>5
  <2>2. Grows(SubSeq(events, 1, k))
    BY <1>5, <2>1, PrefixGrows
  <2> QED BY <2>2, PlainTyped, GrowsThenPlain
<1>7. todo' = todo
  BY DEF TearReply
<1> QED BY <1>4, <1>6, <1>7, GrowsKeeps

\* ... and the end of a tool call, which answers a call that is shown.
LEMMA ExecuteKeeps ==
  ASSUME HistoryInv, HistoryTypeOK', Execute
  PROVE  HistoryInv'
<1>1. CASE Fail
  <2>1. StoresPlain
    BY <1>1, FailIsPlain
  <2> QED BY <2>1, PlainKeeps
<1>2. CASE ~Fail
  <2> DEFINE n == Head(todo)
  <2>1. /\ log \in Seq(Events) /\ Named(log) /\ todo \in Seq(Actions(log)) /\ todo # <<>>
        /\ Range(todo) \subseteq Range(Output(log))
    BY DEF HistoryInv, HistoryTypeOK, Sound, Ordered, PendingShown, Execute
  <2>2. n \in Actions(log) /\ n \in Range(Output(log)) /\ Range(Tail(todo)) \subseteq Range(todo)
    <3>1. n \in Actions(log) /\ n = todo[1] /\ 1 \in DOMAIN todo
      BY <2>1
    <3>2. Range(Tail(todo)) \subseteq Range(todo)
      <4>1. /\ DOMAIN todo = 1..Len(todo) /\ Len(todo) \in Nat
            /\ DOMAIN Tail(todo) = 1..(Len(todo) - 1)
            /\ \A i \in 1..(Len(todo) - 1) : Tail(todo)[i] = todo[i + 1] /\ i + 1 \in 1..Len(todo)
        BY <2>1
      <4> QED BY <4>1 DEF Range
    <3> HIDE DEF n
    <3>3. n \in Range(todo)
      BY <3>1 DEF Range
    <3> QED BY <2>1, <3>1, <3>2, <3>3
  <2>3. PICK kind \in {"observation", "error"}, content \in Contents :
          log' = Append(log, Result(kind, log[n].call, IF kind = "error" THEN 0 ELSE n, content))
    BY <1>2 DEF Execute
  <2>4. todo' = Tail(todo)
    BY <1>2 DEF Execute
  <2> HIDE DEF n
  <2> DEFINE e == Result(kind, log[n].call, IF kind = "error" THEN 0 ELSE n, content)
  <2>5. /\ e.kind = kind /\ e.call = n /\ (kind = "observation" => e.action = n)
        /\ e \in Events
    <3>1. log[n].call = n /\ n \in Nat
      BY <2>1, <2>2, ActionsAreTyped DEF Named
    <3>2. e \in ResultEvents
      BY <3>1 DEF Result, ResultEvents, Results
    <3>3. ResultEvents \subseteq Events
      BY DEF Events, ReplyEvents
    <3>4. e.kind = kind /\ e.call = n /\ (kind = "observation" => e.action = n)
      BY <3>1 DEF Result
    <3> QED BY <3>2, <3>3, <3>4
  <2> HIDE DEF e
  <2>6. Follows(<<e>>, 1)
    <3>1. <<e>>[1] = e
      OBVIOUS
    <3> QED BY <2>2, <2>5, <3>1 DEF Follows, Results
  <2>7. Grows(<<e>>) /\ log' = log \o <<e>>
    BY <2>1, <2>3, <2>5, <2>6, GrowsByOne DEF e
  <2>8. Range(todo') \subseteq Range(todo)
    BY <2>2, <2>4
  <2> QED BY <2>7, <2>8, GrowsKeeps
<1> QED BY <1>1, <1>2

\* Every step keeps the invariant.
LEMMA HistoryInvKept == NativeCalls /\ HistoryInv /\ [Next]_vars => HistoryInv'
<1> SUFFICES ASSUME NativeCalls, HistoryInv, [Next]_vars PROVE HistoryInv'
  OBVIOUS
<1>1. HistoryTypeOK' /\ HistoryTypeOK
  BY TypesKept DEF HistoryInv
<1>2. CASE StoresPlain
  BY <1>1, <1>2, PlainKeeps
<1>3. CASE RejectPendingActions
  BY <1>1, <1>3, RejectKeeps
<1>4. CASE TearReply
  BY <1>1, <1>4, TearReplyKeeps
<1>5. CASE Execute
  BY <1>1, <1>5, ExecuteKeeps
<1>6. CASE todo = <<>> /\ PendingActions = <<>> /\ Condense
  BY <1>1, <1>6, CondenseKeeps
<1>7. CASE todo = <<>> /\ \E thinking \in BOOLEAN : ReplyCalls(thinking)
  BY <1>1, <1>7, ReplyCallsKeep
<1>8. CASE UNCHANGED vars
  BY <1>8 DEF vars, HistoryInv, HistoryTypeOK, PendingShown
<1> QED BY <1>1, <1>2, <1>3, <1>4, <1>5, <1>6, <1>7, <1>8, NextByKind DEF HistoryTypeOK

\* A sound log has a matched view.
LEMMA InvViewMatched ==
  ASSUME HistoryInv
  PROVE  ViewMatched
<1> DEFINE view == View
           kind == [i \in DOMAIN view |-> KindIn(log, view[i])]
           call == [i \in DOMAIN view |->
                      IF kind[i] \in Results \cup {"action"} THEN log[view[i]].call ELSE 0]
           N == Len(view)
<1>1. IsLog(log) /\ OutputIsView(log) /\ Named(log)
  BY DEF HistoryInv, Sound, Ordered
<1>2. N \in Nat /\ DOMAIN view = 1..N
  <2>1. view \in Seq(UpTo(Len(log)))
    BY <1>1, ViewIsShown DEF View
  <2> HIDE DEF view
  <2> QED BY <2>1
<1>3. \A i \in DOMAIN view : /\ kind[i] = KindIn(log, view[i])
                             /\ KindIn(log, view[i]) \in Results \cup {"action"} =>
                                  call[i] = log[view[i]].call
  OBVIOUS
<1>4. ASSUME NEW i \in DOMAIN view
      PROVE  /\ KindIn(log, view[i]) \in Results =>
                  \E j \in 1..(i - 1) : /\ j \in DOMAIN view /\ KindIn(log, view[j]) = "action"
                                        /\ log[view[j]].call = log[view[i]].call
             /\ KindIn(log, view[i]) = "action" =>
                  /\ BatchOf(log, view[i]) \subseteq Range(view)
                  /\ \E j \in (i + 1)..N :
                       /\ j \in DOMAIN view /\ KindIn(log, view[j]) \in Results
                       /\ log[view[j]].call = log[view[i]].call
  BY <1>1, ShownInOrder DEF View
<1> HIDE DEF kind, call
<1>5. ASSUME NEW i \in DOMAIN view
      PROVE  /\ kind[i] \in Results =>
                  \E j \in 1..(i - 1) : kind[j] = "action" /\ call[j] = call[i]
             /\ kind[i] = "action" =>
                  /\ BatchOf(log, view[i]) \subseteq Range(view)
                  /\ \E j \in (i + 1)..N : kind[j] \in Results /\ call[j] = call[i]
  <2> HIDE DEF view, N
  <2> QED BY <1>3, <1>4, <1>5
<1> QED BY <1>5 DEF ViewMatched, kind, call

\* The invariant says that condensations are in place.
LEMMA InvCondensesInPlace ==
  ASSUME HistoryInv
  PROVE  CondensesInPlace
BY DEF HistoryInv, InPlace, CondensesInPlace, Whole, WholeIn, Condensed

\* The invariant holds in every state of an agent whose LLM names its calls.
LEMMA HistoryInvariant ==
  ASSUME NativeCalls
  PROVE  Spec => []HistoryInv
BY HistoryInvAtStart, HistoryInvKept, PTL DEF Spec

\* In every state what the LLM is shown is matched (ViewMatched): every result
\* stands behind the call it answers, every call before its result and with its
\* whole batch, however replies, failing tools, rejections, crashes in the middle
\* of a reply and condensations came about. NativeCalls is needed: without it the
\* ids that the reply converter gives the calls can meet again.
THEOREM ViewStaysMatched ==
  ASSUME NativeCalls
  PROVE  Spec => []ViewMatched
BY HistoryInvariant, InvViewMatched, PTL

\* In every state, unless a crash has left a call without its result, the last
\* event changed what the LLM is shown only as it may (CondensesInPlace): a
\* condensation replaced one block of the view behind the head by its summary or
\* by nothing, and no other event made the LLM forget what it was shown before
\* (Condensation.apply, View.from_events).
THEOREM CondensationsStayInPlace ==
  ASSUME NativeCalls
  PROVE  Spec => []CondensesInPlace
BY HistoryInvariant, InvCondensesInPlace, PTL

-----------------------------------------------------------------------------
(* Loops: a tail of like calls and observations *)

\* The calls from place s on.
Calls(events, s) == {n \in s..Len(events) : events[n].kind = "action"}

\* The observations from place s on.
Seen(events, s) == {n \in s..Len(events) : events[n].kind = "observation"}

\* From place s on there are only valid calls and observations, all alike, and
\* updates.
Looping(events, s) ==
  /\ s \in 1..(Len(events) + 1)
  /\ \A n \in s..Len(events) :
       n \in Calls(events, s) \/ n \in Seen(events, s) \/ events[n].kind = "update"
  /\ \A n \in Calls(events, s) : events[n].valid
  /\ \A n, m \in Calls(events, s) : events[n].content = events[m].content
  /\ \A n, m \in Seen(events, s) : events[n].content = events[m].content

\* The actions of a reply follow one another: no other reply's is among them.
Blocks(events) ==
  \A a \in Actions(events) :
    /\ events[a].response \in 1..a
    /\ \A b \in Actions(events) :
         events[a].response <= b /\ b <= a => events[b].response = events[a].response

\* Observations and rejections answer an earlier call.
AnswersCalls(events) ==
  \A m \in DOMAIN events :
    events[m].kind \in {"observation", "rejection"} =>
      events[m].action \in Actions(events) /\ events[m].action < m

\* A reply has at most MaxBatch calls.
SmallBatches(events) ==
  \A a \in Actions(events) : Cardinality(BatchOf(events, a)) <= MaxBatch

\* The log is made of turns: a reply, then its answers, and then the next reply.
Turns(events) == Blocks(events) /\ AnswersCalls(events) /\ SmallBatches(events)

\* A log has finitely many actions.
LEMMA ActionsAreFinite ==
  ASSUME NEW events, events \in Seq(Events)
  PROVE  /\ Len(events) \in Nat /\ DOMAIN events = 1..Len(events)
         /\ Actions(events) \subseteq 1..Len(events)
         /\ IsFiniteSet(Actions(events))
         /\ \A S \in SUBSET (1..Len(events)) : IsFiniteSet(S) /\ Cardinality(S) \in Nat
<1>1. Len(events) \in Nat /\ DOMAIN events = 1..Len(events)
  OBVIOUS
<1>2. IsFiniteSet(1..Len(events))
  BY <1>1, FS_Interval
<1>3. \A S \in SUBSET (1..Len(events)) : IsFiniteSet(S) /\ Cardinality(S) \in Nat
  BY <1>2, FS_Subset, FS_CardinalityType
<1>4. Actions(events) \in SUBSET (1..Len(events))
  BY <1>1 DEF Actions
<1> QED BY <1>1, <1>3, <1>4

\* A loop has finitely many calls and observations.
LEMMA LoopIsFinite ==
  ASSUME NEW events, events \in Seq(Events), NEW s, Looping(events, s)
  PROVE  /\ Calls(events, s) \subseteq 1..Len(events) /\ Seen(events, s) \subseteq 1..Len(events)
         /\ IsFiniteSet(Calls(events, s)) /\ IsFiniteSet(Seen(events, s))
         /\ Cardinality(Calls(events, s)) \in Nat /\ Cardinality(Seen(events, s)) \in Nat
<1> DEFINE N == Len(events)
           C == Calls(events, s)
           O == Seen(events, s)
<1>1. N \in Nat /\ s \in 1..(N + 1)
  BY DEF Looping
<1>2. C \subseteq 1..N /\ O \subseteq 1..N
  BY <1>1 DEF Calls, Seen
<1> HIDE DEF C, O, N
<1>3. /\ IsFiniteSet(C) /\ IsFiniteSet(O) /\ Cardinality(C) \in Nat /\ Cardinality(O) \in Nat
  BY <1>2, ActionsAreFinite DEF N
<1> QED BY <1>2, <1>3 DEF C, O, N

\* When every call is answered, a loop has no more calls than observations.
LEMMA CallsAreSeen ==
  ASSUME NEW events, events \in Seq(Events), NEW s, Looping(events, s),
         AnswersCalls(events), Unanswered(events) = {}
  PROVE  Cardinality(Calls(events, s)) <= Cardinality(Seen(events, s))
<1> DEFINE N == Len(events)
           C == Calls(events, s)
           O == Seen(events, s)
           answers(a, m) == m \in O /\ events[m].action = a
           f == [a \in C |-> CHOOSE m \in O : events[m].action = a]
<1>1. N \in Nat /\ DOMAIN events = 1..N /\ s \in 1..(N + 1)
  BY DEF Looping
<1>2. \A a \in C : \E m \in O : events[m].action = a
  <2> TAKE a \in C
  <2>1. a \in s..N /\ a \in Actions(events) /\ events[a].valid
    BY <1>1 DEF Calls, Looping, Actions
  <2>2. PICK m \in DOMAIN events :
          events[m].kind \in {"observation", "rejection"} /\ events[m].action = a
    BY <2>1 DEF Unanswered
  <2>3. a < m
    BY <2>2 DEF AnswersCalls
  <2>4. m \in s..N
    BY <1>1, <2>1, <2>2, <2>3
  <2>5. m \in O
    BY <2>2, <2>4 DEF Looping, Calls, Seen
  <2> QED BY <2>2, <2>5
<1>3. IsFiniteSet(O)
  BY LoopIsFinite
<1> HIDE DEF C, O
<1>4. \A a \in C : f[a] \in O /\ events[f[a]].action = a
  BY <1>2
<1>5. f \in Injection(C, O)
  BY <1>4 DEF Injection, IsInjective
<1> QED BY <1>3, <1>5, FS_Injection DEF C, O

-----------------------------------------------------------------------------
(* Loops: what the stuck detector scans *)

\* Three integers have their Max.
LEMMA MaxOfThree ==
  ASSUME NEW a \in Int, NEW b \in Int, NEW c \in Int
  PROVE  Max({a, b, c}) \in {a, b, c} /\ \A x \in {a, b, c} : x <= Max({a, b, c})
<1>1. \E x \in {a, b, c} : \A y \in {a, b, c} : x >= y
  OBVIOUS
<1> DEFINE S == {a, b, c}
<1>2. S \subseteq Int /\ \E x \in S : \A y \in S : x >= y
  BY <1>1
<1> HIDE DEF S
<1>3. Max(S) \in S /\ \A y \in S : Max(S) >= y
  BY <1>2 DEF Max
<1>4. \A y \in S : y <= Max(S)
  BY <1>2, <1>3
<1> QED BY <1>3, <1>4 DEF S

\* What is scanned of a log that loops from place s on: its end, from s or
\* from before the window of the scan.
LEMMA LoopIsScanned ==
  ASSUME NEW events, events \in Seq(Events), NEW s, Looping(events, s)
  PROVE  \E first \in 1..(Len(events) + 1) :
           /\ Scanned(events) = first..Len(events)
           /\ first <= s \/ first = Len(events) - Window + 1
<1> DEFINE N == Len(events)
           users == {n \in DOMAIN events : events[n].kind = "user"}
           lastUser == Max({0} \cup users)
           low == N - Window + 1
           first == Max({1, low, lastUser + 1})
<1>1. N \in Nat /\ DOMAIN events = 1..N /\ s \in 1..(N + 1) /\ Window \in Nat \ {0}
  BY StuckAssumption DEF Looping
<1>2. lastUser \in 0..N /\ lastUser < s
  <2> DEFINE U == {0} \cup users
  <2>1. U \in SUBSET (0..N) /\ U # {}
    BY <1>1
  <2>2. \A n \in U : n < s
    <3> SUFFICES ASSUME NEW n \in users, ~(n < s) PROVE FALSE
      BY <1>1
    <3>1. n \in s..N /\ events[n].kind = "user"
      BY <1>1
    <3> QED BY <3>1 DEF Looping, Calls, Seen
  <2> HIDE DEF U
  <2>3. Max(U) \in U
    BY <1>1, <2>1, MaxOfBounded
  <2>4. lastUser = Max(U)
    BY DEF U
  <2> QED BY <2>1, <2>2, <2>3, <2>4
<1>3. Scanned(events) = first..N
  BY DEF Scanned
<1> HIDE DEF lastUser, N
<1>4. low \in Int /\ lastUser + 1 \in Int /\ low <= N /\ lastUser + 1 <= N + 1 /\ lastUser + 1 <= s
  BY <1>1, <1>2
<1> HIDE DEF low
<1>5. first \in {1, low, lastUser + 1} /\ \A x \in {1, low, lastUser + 1} : x <= first
  <2> DEFINE next == lastUser + 1
  <2>1. next \in Int /\ low \in Int /\ 1 \in Int
    BY <1>4
  <2> HIDE DEF next
  <2>2. Max({1, low, next}) \in {1, low, next} /\ \A x \in {1, low, next} : x <= Max({1, low, next})
    BY <2>1, MaxOfThree
  <2> QED BY <2>2 DEF next
<1> HIDE DEF first
<1>6. first \in 1..(N + 1) /\ (first <= s \/ first = low)
  BY <1>1, <1>4, <1>5
<1> QED BY <1>3, <1>6 DEF N, low

\* The latest events of these kinds are the last ones that are scanned.
LEMMA LatestAreLast ==
  ASSUME NEW events, events \in Seq(Events), NEW kinds, NEW first, NEW s, NEW k \in Nat,
         first \in 1..(Len(events) + 1), Scanned(events) = first..Len(events),
         s \in first..(Len(events) + 1),
         Cardinality({n \in s..Len(events) : events[n].kind \in kinds}) >= k
  PROVE  /\ Len(Latest(events, kinds)) >= k
         /\ \A i \in 1..k : /\ Latest(events, kinds)[i] \in s..Len(events)
                            /\ events[Latest(events, kinds)[i]].kind \in kinds
<1> DEFINE N == Len(events)
           M == Cardinality(Scanned(events))
           Y == {n \in s..N : events[n].kind \in kinds}
           S == {n \in Scanned(events) : events[n].kind \in kinds}
           base == [i \in 1..M |-> N + 1 - i]
           ids == Only(base, S)
           K == Len(ids)
<1>1. N \in Nat /\ first \in 1..(N + 1) /\ s \in first..(N + 1) /\ s \in 1..(N + 1)
  OBVIOUS
<1>2. M = N + 1 - first /\ M \in Nat
  <2>1. first \in Int /\ N \in Int
    BY <1>1
  <2>2. Cardinality(first..N) = IF first > N THEN 0 ELSE N - first + 1
    BY <2>1, FS_Interval
  <2> QED BY <1>1, <2>2
<1>3. Latest(events, kinds) = ids
  BY Zenon DEF Latest
<1>4. S = {n \in first..N : events[n].kind \in kinds}
  OBVIOUS
<1>5. Y \subseteq S /\ IsFiniteSet(Y) /\ Cardinality(Y) \in Nat /\ Cardinality(Y) >= k
      /\ Y = {n \in S : n >= s} /\ S \subseteq 1..N
  <2>1. Y \subseteq 1..N /\ Y \subseteq S
    BY <1>1
  <2>2. Y = {n \in S : n >= s} /\ S \subseteq 1..N
    BY <1>1
  <2>3. Cardinality(Y) >= k
    OBVIOUS
  <2> HIDE DEF Y
  <2> QED BY <2>1, <2>2, <2>3, ActionsAreFinite
<1> HIDE DEF M, N
<1>6. base \in Seq(Int) /\ Len(base) = M /\ \A i \in 1..M : base[i] = N + 1 - i
  BY <1>1, <1>2
<1> HIDE DEF base, Y, S
<1>7. PICK at : Picks(at, ids, base, S, M)
  BY <1>6, OnlyPicks
<1>8. ids \in Seq(Int)
  BY <1>6, OnlyPicks
<1> HIDE DEF ids
<1>9. K \in Nat
  BY <1>8
<1> HIDE DEF K
<1>10. /\ at \in [1..K -> 1..M]
       /\ \A i, j \in 1..K : i < j => at[i] < at[j]
       /\ \A i \in 1..K : ids[i] = base[at[i]] /\ ids[i] \in S
       /\ \A m \in 1..M : base[m] \in S => \E i \in 1..K : at[i] = m
  BY <1>7 DEF Picks, K
<1>11. \A i \in 1..K : ids[i] = N + 1 - at[i] /\ at[i] \in 1..M /\ ids[i] \in S /\ ids[i] \in 1..N
  BY <1>5, <1>6, <1>10
<1>12. \A i, j \in 1..K : i < j => ids[j] < ids[i]
  BY <1>1, <1>2, <1>10, <1>11
<1>13. \A y \in S : \E i \in 1..K : ids[i] = y
  <2> TAKE y \in S
  <2> DEFINE m == N + 1 - y
  <2>1. y \in first..N
    BY <1>4
  <2>2. m \in 1..M /\ N + 1 - m = y
    BY <1>1, <1>2, <2>1
  <2> HIDE DEF m
  <2>3. base[m] = y
    BY <1>6, <2>2
  <2>4. PICK i \in 1..K : at[i] = m
    BY <1>10, <2>2, <2>3
  <2> QED BY <1>11, <2>2, <2>4
<1>14. ASSUME NEW c \in 0..K, \A y \in Y : \E i \in 1..c : ids[i] = y
       PROVE  k <= c
  <2> DEFINE g == [y \in Y |-> CHOOSE i \in 1..c : ids[i] = y]
  <2>1. \A y \in Y : g[y] \in 1..c /\ ids[g[y]] = y
    BY <1>14
  <2>2. g \in Injection(Y, 1..c)
    BY <2>1 DEF Injection, IsInjective
  <2>3. c \in Nat
    BY <1>9
  <2>4. IsFiniteSet(1..c) /\ Cardinality(1..c) = c
    <3>1. 1 \in Int /\ c \in Int
      BY <2>3
    <3>2. IsFiniteSet(1..c) /\ Cardinality(1..c) = IF 1 > c THEN 0 ELSE c - 1 + 1
      BY <3>1, FS_Interval
    <3> QED BY <2>3, <3>2
  <2>5. Cardinality(Y) <= c
    BY <2>2, <2>4, FS_Injection
  <2> QED BY <1>5, <2>3, <2>5
<1>15. k <= K
  <2>1. K \in 0..K /\ \A y \in Y : \E i \in 1..K : ids[i] = y
    BY <1>5, <1>9, <1>13
  <2> QED BY <1>14, <2>1
<1>16. ASSUME NEW i \in 1..k PROVE ids[i] \in Y
  <2>1. i \in 1..K /\ ids[i] \in S /\ ids[i] \in 1..N
    BY <1>9, <1>11, <1>15
  <2> SUFFICES ASSUME ids[i] < s PROVE FALSE
    BY <1>1, <1>5, <2>1
  <2>2. \A y \in Y : \E j \in 1..(i - 1) : ids[j] = y
    <3> TAKE y \in Y
    <3>1. PICK j \in 1..K : ids[j] = y
      BY <1>5, <1>13
    <3>2. y >= s /\ y \in 1..N
      BY <1>5
    <3>3. ids[i] < ids[j]
      BY <1>1, <2>1, <3>1, <3>2
    <3>4. ~(i < j) /\ i # j
      BY <1>12, <2>1, <3>1, <3>2, <3>3
    <3>5. j \in 1..(i - 1)
      BY <1>9, <2>1, <3>4
    <3> QED BY <3>1, <3>5
  <2>3. i - 1 \in 0..K
    BY <1>9, <2>1
  <2>4. k <= i - 1
    BY <1>14, <2>2, <2>3
  <2> QED BY <2>4
<1> QED BY <1>3, <1>15, <1>16 DEF K, Y, N

-----------------------------------------------------------------------------
(* Loops: a long one is found *)

\* StuckDetector._event_eq does not tell the calls of a loop apart, nor its
\* observations.
LEMMA LoopEventsAreSame ==
  ASSUME NEW events, events \in Seq(Events), NEW f, Looping(events, f)
  PROVE  /\ \A n, m \in Calls(events, f) : SameEvent(events, n, m)
         /\ \A n, m \in Seen(events, f) : SameEvent(events, n, m)
<1>1. Len(events) \in Nat /\ DOMAIN events = 1..Len(events) /\ f \in 1..(Len(events) + 1)
  BY DEF Looping
<1>2. \A n \in Calls(events, f) : /\ events[n].kind = "action" /\ events[n].valid
                                  /\ events[n].valid \in BOOLEAN
  <2> TAKE n \in Calls(events, f)
  <2>1. events[n].kind = "action" /\ n \in DOMAIN events /\ events[n].valid
    BY <1>1 DEF Calls, Looping
  <2>2. events[n] \in ActionEvents
    BY <2>1, EventKinds
  <2> QED BY <2>1, <2>2, EventKinds
<1>3. \A n \in Seen(events, f) : events[n].kind = "observation"
  BY DEF Seen
<1>4. \A n, m \in Calls(events, f) : SameEvent(events, n, m)
  BY <1>2 DEF SameEvent, Looping
<1>5. \A n, m \in Seen(events, f) : SameEvent(events, n, m)
  BY <1>3 DEF SameEvent, Looping
<1> QED BY <1>4, <1>5

\* A loop of ActionObservation calls, all answered and in the window, is found.
LEMMA LoopIsStuck ==
  ASSUME NEW events, events \in Seq(Events), NEW s, Looping(events, s), AnswersCalls(events),
         Unanswered(events) = {}, Cardinality(Calls(events, s)) >= ActionObservation,
         Len(events) + 1 - s <= Window
  PROVE  IsStuck(events)
<1> DEFINE N == Len(events)
           A == ActionObservation
           C == Calls(events, s)
           O == Seen(events, s)
<1>1. N \in Nat /\ s \in 1..(N + 1) /\ A \in Nat \ {0} /\ Window \in Nat
  BY StuckAssumption DEF Looping
<1>2. PICK first \in 1..(N + 1) : Scanned(events) = first..N /\ first <= s
  <2>1. PICK first \in 1..(N + 1) :
          Scanned(events) = first..N /\ (first <= s \/ first = N - Window + 1)
    BY LoopIsScanned
  <2>2. first <= s
    BY <1>1, <2>1
  <2> QED BY <2>1, <2>2
<1>3. s \in first..(N + 1)
  BY <1>1, <1>2
<1>5. /\ Cardinality(C) \in Nat /\ Cardinality(O) \in Nat
      /\ Cardinality(C) <= Cardinality(O)
  BY LoopIsFinite, CallsAreSeen
<1>6. Cardinality(C) >= A /\ Cardinality(O) >= A
  <2>1. Cardinality(C) >= A
    OBVIOUS
  <2> HIDE DEF C, O, A
  <2> QED BY <1>1, <1>5, <2>1
<1> DEFINE calls == Latest(events, {"action"})
           answers == Latest(events, {"observation", "error", "rejection"})
<1>7. Len(calls) >= A /\ \A i \in 1..A : calls[i] \in C
  <2> DEFINE kinds == {"action"}
             Y == {n \in s..N : events[n].kind \in kinds}
  <2>1. Y = C
    BY DEF Calls
  <2>2. Cardinality(Y) >= A /\ A \in Nat
    BY <1>1, <1>6, <2>1
  <2> HIDE DEF kinds
  <2>3. /\ Len(Latest(events, kinds)) >= A
        /\ \A i \in 1..A : /\ Latest(events, kinds)[i] \in s..N
                           /\ events[Latest(events, kinds)[i]].kind \in kinds
    <3> HIDE DEF A
    <3> QED BY <1>2, <1>3, <2>2, LatestAreLast
  <2>4. \A i \in 1..A : Latest(events, kinds)[i] \in Y
    BY <2>3
  <2> QED BY <2>1, <2>3, <2>4 DEF kinds
<1>8. Len(answers) >= A /\ \A i \in 1..A : answers[i] \in O
  <2> DEFINE kinds == {"observation", "error", "rejection"}
             Y == {n \in s..N : events[n].kind \in kinds}
  <2>1. Y = O
    <3>1. \A n \in s..N : n \in Y <=> n \in O
      <4> TAKE n \in s..N
      <4>1. n \in C \/ n \in O \/ events[n].kind = "update"
        BY DEF Looping
      <4> QED BY <4>1 DEF Calls, Seen
    <3> QED BY <3>1 DEF Seen
  <2>2. Cardinality(Y) >= A /\ A \in Nat
    BY <1>1, <1>6, <2>1
  <2> HIDE DEF kinds
  <2>3. /\ Len(Latest(events, kinds)) >= A
        /\ \A i \in 1..A : /\ Latest(events, kinds)[i] \in s..N
                           /\ events[Latest(events, kinds)[i]].kind \in kinds
    <3> HIDE DEF A
    <3> QED BY <1>2, <1>3, <2>2, LatestAreLast
  <2>4. \A i \in 1..A : Latest(events, kinds)[i] \in Y
    BY <2>3
  <2> QED BY <2>1, <2>3, <2>4 DEF kinds
<1>9. RepeatsObservation(events)
  <2>1. 1 \in 1..A
    BY <1>1
  <2>2. \A i \in 1..A : SameEvent(events, calls[1], calls[i])
    BY <1>7, <2>1, LoopEventsAreSame
  <2>3. \A i \in 1..A : SameEvent(events, answers[1], answers[i])
    BY <1>8, <2>1, LoopEventsAreSame
  <2> QED BY <1>7, <1>8, <2>2, <2>3 DEF RepeatsObservation, AllSame
<1>10. Cardinality(Scanned(events)) >= Min({ActionObservation, ActionError, Monologue})
  <2> DEFINE S == {ActionObservation, ActionError, Monologue}
  <2>1. S \in SUBSET Nat /\ S # {} /\ A \in S
    BY StuckAssumption
  <2> HIDE DEF S
  <2>2. Min(S) <= A /\ Min(S) \in Nat
    BY <2>1, MinOfNaturals
  <2>3. IsFiniteSet(first..N) /\ Cardinality(first..N) \in Nat
    <3>1. first..N \subseteq 1..N
      BY <1>1, <1>2
    <3> QED BY <3>1, ActionsAreFinite
  <2>4. Cardinality(first..N) >= A
    <3>1. C \subseteq first..N
      BY <1>1, <1>2 DEF Calls
    <3> HIDE DEF C, O, A
    <3>2. Cardinality(C) <= Cardinality(first..N)
      BY <2>3, <3>1, FS_Subset
    <3> QED BY <1>1, <1>5, <1>6, <2>3, <3>2
  <2> HIDE DEF A
  <2>6. Cardinality(first..N) >= Min(S)
    BY <1>1, <2>2, <2>4, <2>3
  <2> QED BY <1>2, <2>6 DEF S
<1> QED BY <1>9, <1>10 DEF IsStuck

-----------------------------------------------------------------------------

\* A new reply was asked for when every call had its result and nothing was stuck.
StartedFresh(events) ==
  \A a \in Actions(events) :
    LET before == SubSeq(events, 1, events[a].response - 1)
    IN Unanswered(before) = {} /\ ~IsStuck(before)

\* The log was made of turns before.
LEMMA PrefixKeepsTurns ==
  ASSUME NEW events, events \in Seq(Events), Turns(events), NEW k \in 0..Len(events)
  PROVE  /\ SubSeq(events, 1, k) \in Seq(Events) /\ Len(SubSeq(events, 1, k)) = k
         /\ \A n \in 1..k : SubSeq(events, 1, k)[n] = events[n]
         /\ Turns(SubSeq(events, 1, k))
<1> DEFINE p == SubSeq(events, 1, k)
           N == Len(events)
<1>1. N \in Nat /\ k \in Nat /\ DOMAIN events = 1..N /\ k <= N
  OBVIOUS
<1>2. p \in Seq(Events) /\ Len(p) = k /\ \A n \in 1..k : p[n] = events[n]
  <2>1. 1 \in 1..(N + 1) /\ k \in 0..N
    BY <1>1
  <2> QED BY <2>1, SubSeqProperties
<1>3. DOMAIN p = 1..k /\ \A n \in 1..k : n \in 1..N
  BY <1>1, <1>2
<1> HIDE DEF p, N
<1>4. Actions(p) = {a \in Actions(events) : a <= k} /\ Actions(p) \subseteq 1..k
  BY <1>1, <1>2, <1>3 DEF Actions
<1>5. \A a \in Actions(p) : a \in Actions(events) /\ p[a] = events[a] /\ a \in 1..k
  BY <1>2, <1>4
<1>6. Blocks(p)
  BY <1>5 DEF Blocks, Turns
<1>7. AnswersCalls(p)
  <2> SUFFICES ASSUME NEW m \in 1..k, p[m].kind \in {"observation", "rejection"}
               PROVE  p[m].action \in Actions(p) /\ p[m].action < m
    BY <1>3 DEF AnswersCalls
  <2>1. events[m].action \in Actions(events) /\ events[m].action < m /\ p[m] = events[m]
    BY <1>1, <1>2, <1>3 DEF AnswersCalls, Turns
  <2>2. events[m].action \in 1..N
    BY <1>1, <2>1 DEF Actions
  <2>3. events[m].action <= k
    BY <1>1, <2>1, <2>2
  <2> QED BY <1>4, <2>1, <2>3
<1>9. SmallBatches(p)
  <2> SUFFICES ASSUME NEW a \in Actions(p) PROVE Cardinality(BatchOf(p, a)) <= MaxBatch
    BY DEF SmallBatches
  <2>1. BatchOf(p, a) \subseteq BatchOf(events, a)
    BY <1>5 DEF BatchOf
  <2>2. IsFiniteSet(BatchOf(events, a)) /\ Cardinality(BatchOf(events, a)) \in Nat
    <3>1. BatchOf(events, a) \subseteq 1..N
      BY ActionsAreFinite DEF BatchOf, N
    <3> QED BY <3>1, ActionsAreFinite DEF N
  <2>3. Cardinality(BatchOf(p, a)) <= Cardinality(BatchOf(events, a)) /\ IsFiniteSet(BatchOf(p, a))
    BY <2>1, <2>2, FS_Subset
  <2>4. Cardinality(BatchOf(p, a)) \in Nat
    BY <2>3, FS_CardinalityType
  <2>5. Cardinality(BatchOf(events, a)) <= MaxBatch
    BY <1>5 DEF SmallBatches, Turns
  <2> QED BY <2>2, <2>3, <2>4, <2>5, HistoryAssumption
<1> QED BY <1>2, <1>6, <1>7, <1>9 DEF Turns, p

-----------------------------------------------------------------------------
(* Loops: the bound *)

\* No loop that the window holds is longer than the threshold and one reply.
LEMMA LoopIsBounded ==
  ASSUME NEW events, events \in Seq(Events), Turns(events), StartedFresh(events),
         NEW s, Looping(events, s),
         \A n \in Calls(events, s) : events[n].response - s <= Window
  PROVE  Cardinality(Calls(events, s)) < ActionObservation + MaxBatch
<1> DEFINE N == Len(events)
           A == ActionObservation
           C == Calls(events, s)
<1>1. N \in Nat /\ DOMAIN events = 1..N /\ s \in 1..(N + 1) /\ A \in Nat \ {0} /\ MaxBatch \in Nat \ {0}
  BY StuckAssumption, HistoryAssumption DEF Looping
<1>2. C \subseteq 1..N /\ IsFiniteSet(C) /\ Cardinality(C) \in Nat
  BY LoopIsFinite
<1>3. C \subseteq Actions(events) /\ C = {n \in Actions(events) : n >= s}
  BY <1>1 DEF Calls, Actions
<1> SUFFICES ASSUME Cardinality(C) >= A + MaxBatch PROVE FALSE
  <2> HIDE DEF C
  <2> QED BY <1>1, <1>2 DEF C
<1> HIDE DEF C, N, A
<1>4. C # {}
  BY <1>1, <1>2, FS_EmptySet
<1>5. PICK last \in C : \A n \in C : n <= last
  <2>1. C \in SUBSET (0..N)
    BY <1>1, <1>2
  <2>2. Max(C) \in C /\ \A n \in C : n <= Max(C)
    BY <1>1, <1>4, <2>1, MaxOfBounded
  <2> QED BY <2>2
<1> DEFINE r == events[last].response
           p == SubSeq(events, 1, r - 1)
           early == {n \in C : n < r}
           late == {n \in C : ~(n < r)}
<1>6. r \in 1..last /\ last \in 1..N /\ last \in Actions(events) /\ Unanswered(p) = {} /\ ~IsStuck(p)
  BY <1>2, <1>3, <1>5 DEF Turns, Blocks, StartedFresh
<1>7. r - 1 \in 0..N /\ r \in Nat
  BY <1>1, <1>6
<1>8. /\ p \in Seq(Events) /\ Len(p) = r - 1 /\ Turns(p)
      /\ \A n \in 1..(r - 1) : p[n] = events[n]
  <2> DEFINE k == r - 1
  <2>1. k \in 0..Len(events)
    BY <1>7 DEF N
  <2> HIDE DEF k
  <2>2. /\ SubSeq(events, 1, k) \in Seq(Events) /\ Len(SubSeq(events, 1, k)) = k
        /\ \A n \in 1..k : SubSeq(events, 1, k)[n] = events[n]
        /\ Turns(SubSeq(events, 1, k))
    BY <2>1, PrefixKeepsTurns
  <2> QED BY <2>2 DEF k
<1> HIDE DEF p
<1>9. late \subseteq BatchOf(events, last)
  <2> SUFFICES ASSUME NEW n \in C, ~(n < r) PROVE n \in BatchOf(events, last)
    OBVIOUS
  <2>1. n \in Actions(events) /\ n \in 1..N /\ n <= last
    BY <1>2, <1>3, <1>5
  <2>2. r <= n
    BY <1>7, <2>1
  <2>3. events[n].response = r
    BY <1>6, <2>1, <2>2 DEF Turns, Blocks
  <2> QED BY <2>1, <2>3 DEF BatchOf
<1>10. Cardinality(late) <= MaxBatch /\ IsFiniteSet(late) /\ Cardinality(late) \in Nat
  <2> DEFINE D == BatchOf(events, last)
  <2>1. D \subseteq 1..N
    BY ActionsAreFinite DEF BatchOf, N
  <2>2. IsFiniteSet(D) /\ Cardinality(D) \in Nat
    BY <2>1, ActionsAreFinite DEF N
  <2>3. Cardinality(D) <= MaxBatch
    BY <1>6 DEF Turns, SmallBatches
  <2> HIDE DEF D, late
  <2>4. Cardinality(late) <= Cardinality(D) /\ IsFiniteSet(late)
    BY <1>9, <2>2, FS_Subset DEF D
  <2>5. Cardinality(late) \in Nat
    BY <2>4, FS_CardinalityType
  <2> QED BY <1>1, <2>2, <2>3, <2>4, <2>5
<1>11. Cardinality(early) >= A /\ Cardinality(early) \in Nat
  <2>1. early \subseteq C /\ C = early \cup late /\ early \cap late = {}
    OBVIOUS
  <2> HIDE DEF early, late
  <2>2. IsFiniteSet(early)
    BY <1>2, <2>1, FS_Subset
  <2>3. Cardinality(early) \in Nat
    BY <2>2, FS_CardinalityType
  <2>4. Cardinality(early \cup late) = Cardinality(early) + Cardinality(late) - Cardinality(early \cap late)
    BY <1>10, <2>2, FS_Union
  <2>5. Cardinality(early \cap late) = 0
    BY <2>1, FS_EmptySet
  <2>6. Cardinality(C) = Cardinality(early) + Cardinality(late) - 0
    BY <2>1, <2>4, <2>5
  <2> QED BY <1>1, <1>2, <1>10, <2>3, <2>6
<1>12. s \in 1..(r - 1)
  <2>1. early # {}
    <3> HIDE DEF early
    <3>1. Cardinality(early) # 0
      BY <1>1, <1>11
    <3> QED BY <3>1, FS_EmptySet
  <2>2. PICK n \in early : TRUE
    BY <2>1
  <2>3. n \in C /\ n < r /\ n \in 1..N /\ n >= s
    BY <1>2, <1>3, <2>2
  <2> QED BY <1>1, <1>7, <2>3
<1>13. /\ \A n \in s..(r - 1) : n \in 1..(r - 1) /\ n \in s..N /\ n < r
       /\ \A n \in C : n < r => n \in s..(r - 1)
       /\ s \in 1..((r - 1) + 1)
  <2>1. \A n \in s..(r - 1) : n \in 1..(r - 1) /\ n \in s..N /\ n < r
    BY <1>1, <1>7, <1>12
  <2>2. ASSUME NEW n \in C, n < r PROVE n \in s..(r - 1)
    <3>1. n \in 1..N /\ n >= s
      BY <1>2, <1>3
    <3> QED BY <1>1, <1>7, <2>2, <3>1
  <2>3. s \in 1..((r - 1) + 1)
    BY <1>7, <1>12
  <2> QED BY <2>1, <2>2, <2>3
<1>14. Calls(p, s) = early
  BY <1>1, <1>8, <1>13 DEF Calls, C, N
<1>15. Seen(p, s) \subseteq Seen(events, s)
  BY <1>1, <1>8, <1>13 DEF Seen, N
<1>16. Looping(p, s)
  <2>1. \A n \in s..(r - 1) : n \in Calls(p, s) \/ n \in Seen(p, s) \/ p[n].kind = "update"
    <3> TAKE n \in s..(r - 1)
    <3>1. n \in Calls(events, s) \/ n \in Seen(events, s) \/ events[n].kind = "update"
      BY <1>13 DEF Looping, N
    <3> QED BY <1>8, <1>13, <3>1 DEF Calls, Seen
  <2>2. \A n \in Calls(p, s) : p[n] = events[n] /\ n \in Calls(events, s)
    BY <1>8, <1>13, <1>14 DEF C
  <2>3. \A n \in Seen(p, s) : p[n] = events[n] /\ n \in Seen(events, s)
    BY <1>8, <1>13, <1>15 DEF Seen
  <2>4. s \in 1..(Len(p) + 1)
    BY <1>8, <1>13
  <2>5. /\ \A n \in Calls(events, s) : events[n].valid
        /\ \A n, m \in Calls(events, s) : events[n].content = events[m].content
        /\ \A n, m \in Seen(events, s) : events[n].content = events[m].content
    BY DEF Looping
  <2>6. \A n \in Calls(p, s) : p[n].valid
    BY <2>2, <2>5
  <2>7. \A n, m \in Calls(p, s) : p[n].content = p[m].content
    BY <2>2, <2>5
  <2>8. \A n, m \in Seen(p, s) : p[n].content = p[m].content
    BY <2>3, <2>5
  <2>9. \A n \in s..Len(p) : n \in Calls(p, s) \/ n \in Seen(p, s) \/ p[n].kind = "update"
    BY <1>8, <2>1
  <2> QED BY <2>4, <2>6, <2>7, <2>8, <2>9 DEF Looping
<1>17. Len(p) + 1 - s <= Window
  <2>1. r - s <= Window
    BY DEF C
  <2> QED BY <1>1, <1>7, <1>8, <2>1
<1>18. IsStuck(p)
  BY <1>6, <1>8, <1>11, <1>14, <1>16, <1>17, LoopIsStuck DEF A, Turns
<1> QED BY <1>6, <1>18

\* A repetition is such a loop.
LEMMA RepeatedIsLoop ==
  ASSUME log \in Seq(Events), NEW s \in DOMAIN log, Repeats(s)
  PROVE  Looping(log, s)
<1>1. Len(log) \in Nat /\ s \in 1..(Len(log) + 1)
  OBVIOUS
<1>2. \A n \in s..Len(log) : log[n].kind \in {"action", "observation", "update"}
  BY DEF Repeats
<1>3. \A n \in s..Len(log) :
         n \in Calls(log, s) \/ n \in Seen(log, s) \/ log[n].kind = "update"
  BY <1>2 DEF Calls, Seen
<1>4. \A n \in Calls(log, s) : log[n].valid
  BY DEF Repeats, Calls
<1>5. \A n, m \in Calls(log, s) : log[n].content = log[m].content
  BY DEF Repeats, Calls
<1>6. \A n, m \in Seen(log, s) : log[n].content = log[m].content
  BY DEF Repeats, Seen
<1> QED BY <1>1, <1>3, <1>4, <1>5, <1>6 DEF Looping

\* No loop is too long: that is RepetitionBounded.
LEMMA TurnsBoundRepetition ==
  ASSUME log \in Seq(Events), Turns(log), StartedFresh(log)
  PROVE  RepetitionBounded
<1> SUFFICES ASSUME NEW s \in DOMAIN log, Repeats(s),
                    \A n \in Calls(log, s) : log[n].response - s <= Window
             PROVE  Cardinality(Calls(log, s)) < ActionObservation + MaxBatch
  BY DEF RepetitionBounded, Calls
<1> QED BY RepeatedIsLoop, LoopIsBounded

-----------------------------------------------------------------------------
(* Turns: an operation keeps them *)

\* The calls of a reply.
Places(tail) == {m \in 1..Len(tail) : tail[m].kind = "action"}

\* The first events of a log stay what they are when it grows.
LEMMA PrefixOfLonger ==
  ASSUME NEW events, NEW tail, events \in Seq(Events), tail \in Seq(Events), NEW k \in 0..Len(events)
  PROVE  SubSeq(events \o tail, 1, k) = SubSeq(events, 1, k)
<1> DEFINE more == events \o tail
           p == SubSeq(events, 1, k)
           q == SubSeq(more, 1, k)
           N == Len(events)
           L == Len(tail)
<1>1. N \in Nat /\ L \in Nat /\ k \in Nat /\ k <= N
  OBVIOUS
<1>2. /\ more \in Seq(Events) /\ Len(more) = N + L
      /\ \A n \in 1..(N + L) : more[n] = IF n <= N THEN events[n] ELSE tail[n - N]
  BY ConcatProperties
<1>3. p \in Seq(Events) /\ Len(p) = k /\ \A n \in 1..k : p[n] = events[n]
  <2>1. 1 \in 1..(N + 1) /\ k \in 0..N
    BY <1>1
  <2> QED BY <2>1, SubSeqProperties
<1> HIDE DEF more, N, L
<1>4. q \in Seq(Events) /\ Len(q) = k /\ \A n \in 1..k : q[n] = more[n]
  <2>1. 1 \in 1..(Len(more) + 1) /\ k \in 0..Len(more)
    BY <1>1, <1>2
  <2> QED BY <1>2, <2>1, SubSeqProperties
<1>5. \A n \in 1..k : n \in 1..(N + L) /\ n <= N
  BY <1>1
<1>6. \A n \in 1..k : q[n] = p[n]
  BY <1>2, <1>3, <1>4, <1>5
<1> HIDE DEF p, q
<1>7. q = p
  BY <1>3, <1>4, <1>6, SeqEqual
<1> QED BY <1>7 DEF p, q, more

\* The event at place m of tail is no call, and what it answers is one.
NoCall(tail, m) ==
  /\ tail[m].kind # "action"
  /\ tail[m].kind \in {"observation", "rejection"} => tail[m].action \in Actions(log)

\* A tail without calls keeps the turns.
LEMMA AnswersKeepTurns ==
  ASSUME log \in Seq(Events), Turns(log), StartedFresh(log),
         NEW tail, tail \in Seq(Events), \A m \in 1..Len(tail) : NoCall(tail, m)
  PROVE  /\ Turns(log \o tail) /\ StartedFresh(log \o tail)
         /\ Actions(log \o tail) = Actions(log)
         /\ \A a \in Actions(log) : (log \o tail)[a] = log[a]
<1> DEFINE more == log \o tail
           N == Len(log)
           L == Len(tail)
<1>1. N \in Nat /\ L \in Nat /\ DOMAIN log = 1..N
  OBVIOUS
<1>2. /\ more \in Seq(Events) /\ Len(more) = N + L /\ DOMAIN more = 1..(N + L)
      /\ \A n \in 1..(N + L) : more[n] = IF n <= N THEN log[n] ELSE tail[n - N]
  BY ConcatProperties
<1>3. \A a \in Actions(log) : log[a].response - 1 \in 0..N
  BY <1>1 DEF Turns, Blocks, Actions
<1>4. \A a \in Actions(log) :
        SubSeq(more, 1, log[a].response - 1) = SubSeq(log, 1, log[a].response - 1)
  <2> TAKE a \in Actions(log)
  <2> DEFINE k == log[a].response - 1
  <2>1. k \in 0..Len(log)
    BY <1>3
  <2> HIDE DEF k
  <2>2. SubSeq(log \o tail, 1, k) = SubSeq(log, 1, k)
    BY <2>1, PrefixOfLonger
  <2> QED BY <2>2 DEF k
<1> HIDE DEF more, N, L
<1>5. ASSUME NEW n \in 1..(N + L)
      PROVE  \/ n \in 1..N /\ more[n] = log[n]
             \/ n > N /\ more[n] = tail[n - N] /\ n - N \in 1..L
  BY <1>1, <1>2
<1>6. \A n \in 1..N : n \in 1..(N + L) /\ more[n] = log[n]
  BY <1>1, <1>2
<1>7. \A m \in 1..L : NoCall(tail, m)
  BY DEF L
<1>8. Actions(more) = Actions(log) /\ \A a \in Actions(log) : more[a] = log[a] /\ a \in 1..N
  <2>1. \A n \in Actions(more) : n \in Actions(log)
    BY <1>1, <1>2, <1>5, <1>7 DEF Actions, NoCall
  <2> QED BY <1>1, <1>2, <1>6, <2>1 DEF Actions
<1>9. Blocks(more)
  BY <1>8 DEF Turns, Blocks
<1>10. AnswersCalls(more)
  <2> SUFFICES ASSUME NEW m \in 1..(N + L), more[m].kind \in {"observation", "rejection"}
               PROVE  more[m].action \in Actions(log) /\ more[m].action < m
    BY <1>2, <1>8 DEF AnswersCalls
  <2>1. CASE m \in 1..N
    BY <1>1, <1>6, <2>1 DEF Turns, AnswersCalls
  <2>2. CASE m > N
    <3>1. more[m] = tail[m - N] /\ m - N \in 1..L
      BY <1>1, <1>5, <2>2
    <3>2. more[m].action \in Actions(log)
      BY <1>7, <3>1 DEF NoCall
    <3>3. more[m].action \in 1..N
      BY <1>8, <3>2
    <3> QED BY <1>1, <2>2, <3>2, <3>3
  <2> QED BY <1>5, <2>1, <2>2
<1>13. SmallBatches(more)
  <2>1. \A a \in Actions(log) : BatchOf(more, a) = BatchOf(log, a)
    BY <1>8 DEF BatchOf
  <2> QED BY <1>8, <2>1 DEF Turns, SmallBatches
<1>14. StartedFresh(more)
  BY <1>4, <1>8 DEF StartedFresh
<1> QED BY <1>8, <1>9, <1>10, <1>13, <1>14 DEF Turns, more

\* The event at place m of tail is of a new reply, or of none.
NewReply(tail, m) ==
  /\ tail[m].kind \notin {"observation", "rejection"}
  /\ tail[m].kind = "action" => tail[m].response = Len(log) + 1

\* A new reply keeps the turns if every call had its answer.
LEMMA ReplyKeepsTurns ==
  ASSUME log \in Seq(Events), Turns(log), StartedFresh(log),
         Unanswered(log) = {}, ~IsStuck(log),
         NEW tail, tail \in Seq(Events), \A m \in 1..Len(tail) : NewReply(tail, m),
         Cardinality(Places(tail)) <= MaxBatch
  PROVE  Turns(log \o tail) /\ StartedFresh(log \o tail)
<1> DEFINE more == log \o tail
           N == Len(log)
           L == Len(tail)
<1>1. N \in Nat /\ L \in Nat /\ DOMAIN log = 1..N
  OBVIOUS
<1>2. /\ more \in Seq(Events) /\ Len(more) = N + L /\ DOMAIN more = 1..(N + L)
      /\ \A n \in 1..(N + L) : more[n] = IF n <= N THEN log[n] ELSE tail[n - N]
  BY ConcatProperties
<1>3. \A k \in 0..N : SubSeq(more, 1, k) = SubSeq(log, 1, k)
  BY PrefixOfLonger
<1>3a. SubSeq(log, 1, N) = log
  BY <1>1
<1> HIDE DEF more, N, L
<1>5. ASSUME NEW n \in 1..(N + L)
      PROVE  \/ n \in 1..N /\ more[n] = log[n]
             \/ n > N /\ more[n] = tail[n - N] /\ n - N \in 1..L
  BY <1>1, <1>2
<1>6. \A n \in 1..N : n \in 1..(N + L) /\ more[n] = log[n]
  BY <1>1, <1>2
<1>7. \A m \in 1..L : NewReply(tail, m)
  BY DEF L
<1>8. /\ \A a \in Actions(log) : /\ a \in Actions(more) /\ more[a] = log[a] /\ a \in 1..N
                                 /\ log[a].response \in 1..a
      /\ \A a \in Actions(more) : a \in Actions(log) \/ (a > N /\ a \in 1..(N + L) /\ more[a].response = N + 1)
  <2>1. \A a \in Actions(log) : a \in Actions(more) /\ more[a] = log[a] /\ a \in 1..N
    BY <1>1, <1>2, <1>6 DEF Actions
  <2>2. ASSUME NEW a \in Actions(more), a \notin Actions(log)
        PROVE  a > N /\ a \in 1..(N + L) /\ more[a].response = N + 1
    <3>1. a \in 1..(N + L) /\ more[a].kind = "action"
      BY <1>2 DEF Actions
    <3>2. a \notin 1..N
      BY <1>1, <1>6, <2>2, <3>1 DEF Actions
    <3>3. a > N /\ more[a] = tail[a - N] /\ a - N \in 1..L
      BY <1>5, <3>1, <3>2
    <3> QED BY <1>7, <3>1, <3>3 DEF NewReply, N
  <2> QED BY <2>1, <2>2 DEF Turns, Blocks
<1>9. Blocks(more)
  <2> SUFFICES ASSUME NEW a \in Actions(more)
               PROVE  /\ more[a].response \in 1..a
                      /\ \A b \in Actions(more) :
                           more[a].response <= b /\ b <= a => more[b].response = more[a].response
    BY DEF Blocks
  <2>1. CASE a \in Actions(log)
    <3>1. \A b \in Actions(more) : b <= a => b \in Actions(log)
      BY <1>1, <1>8, <2>1
    <3> QED BY <1>8, <2>1, <3>1 DEF Turns, Blocks
  <2>2. CASE a > N /\ a \in 1..(N + L) /\ more[a].response = N + 1
    <3>1. N + 1 \in 1..a
      BY <1>1, <2>2
    <3>2. \A b \in Actions(more) : N + 1 <= b => more[b].response = N + 1
      BY <1>1, <1>8
    <3> QED BY <2>2, <3>1, <3>2
  <2> QED BY <1>8, <2>1, <2>2
<1>10. \A m \in 1..(N + L) : more[m].kind \in {"observation", "rejection"} =>
         /\ m \in 1..N /\ more[m] = log[m]
         /\ log[m].action \in Actions(log) /\ log[m].action < m
  <2> SUFFICES ASSUME NEW m \in 1..(N + L), more[m].kind \in {"observation", "rejection"}
               PROVE  m \in 1..N /\ more[m] = log[m] /\ log[m].action \in Actions(log) /\ log[m].action < m
    OBVIOUS
  <2>1. m \in 1..N /\ more[m] = log[m]
    BY <1>5, <1>7 DEF NewReply
  <2> QED BY <1>1, <2>1 DEF Turns, AnswersCalls
<1>11. AnswersCalls(more)
  BY <1>2, <1>8, <1>10 DEF AnswersCalls
<1>14. SmallBatches(more)
  <2> SUFFICES ASSUME NEW a \in Actions(more) PROVE Cardinality(BatchOf(more, a)) <= MaxBatch
    BY DEF SmallBatches
  <2>1. CASE a \in Actions(log)
    <3>1. log[a].response # N + 1
      BY <1>1, <1>8, <2>1
    <3>2. BatchOf(more, a) = BatchOf(log, a)
      BY <1>8, <2>1, <3>1 DEF BatchOf
    <3> QED BY <2>1, <3>2 DEF Turns, SmallBatches
  <2>2. CASE a > N /\ a \in 1..(N + L) /\ more[a].response = N + 1
    <3> DEFINE D == BatchOf(more, a)
               P == Places(tail)
               f == [n \in D |-> n - N]
    <3>1. \A n \in D : n \in Actions(more) /\ n > N /\ n \in 1..(N + L)
      BY <1>1, <1>8, <2>2 DEF BatchOf
    <3>2. \A n \in D : n - N \in P
      <4> TAKE n \in D
      <4>1. more[n] = tail[n - N] /\ n - N \in 1..L
        BY <1>1, <1>5, <3>1
      <4> QED BY <3>1, <4>1 DEF Actions, Places, L
    <3>3. \A n, m \in D : n - N = m - N => n = m
      BY <1>1, <3>1
    <3> HIDE DEF D, P
    <3>4. f \in Injection(D, P)
      BY <3>2, <3>3 DEF Injection, IsInjective
    <3>5. IsFiniteSet(P)
      <4>1. P \subseteq 1..L
        BY DEF P, Places, L
      <4> QED BY <4>1, ActionsAreFinite DEF L
    <3>6. Cardinality(D) <= Cardinality(P) /\ IsFiniteSet(D)
      BY <3>4, <3>5, FS_Injection
    <3>7. Cardinality(D) \in Nat /\ Cardinality(P) \in Nat
      BY <3>5, <3>6, FS_CardinalityType
    <3>8. Cardinality(P) <= MaxBatch
      BY DEF P
    <3>9. Cardinality(D) <= MaxBatch
      BY <3>6, <3>7, <3>8, HistoryAssumption
    <3> QED BY <3>9 DEF D
  <2> QED BY <1>8, <2>1, <2>2
<1>15. StartedFresh(more)
  <2> SUFFICES ASSUME NEW a \in Actions(more)
               PROVE  LET before == SubSeq(more, 1, more[a].response - 1)
                      IN Unanswered(before) = {} /\ ~IsStuck(before)
    BY DEF StartedFresh
  <2>1. CASE a \in Actions(log)
    <3>1. log[a].response - 1 \in 0..N
      BY <1>1, <1>8, <2>1
    <3> QED BY <1>3, <1>8, <2>1, <3>1 DEF StartedFresh
  <2>2. CASE more[a].response = N + 1
    <3>1. (N + 1) - 1 = N /\ N \in 0..N
      BY <1>1
    <3> QED BY <1>3, <1>3a, <2>2, <3>1
  <2> QED BY <1>8, <2>1, <2>2
<1> QED BY <1>9, <1>11, <1>14, <1>15 DEF Turns, more

-----------------------------------------------------------------------------
(* Turns: the events of a new reply *)

\* AddCall adds one call.
LEMMA AddCallAddsPlace ==
  ASSUME log \in Seq(Events), OutputIsView(log), NEW events, IsReply(events),
         NEW call \in Call, NEW thinking \in BOOLEAN
  PROVE  Places(AddCall(events, call, thinking)) = Places(events) \cup {Len(events) + 1}
<1> DEFINE L == Len(events)
           t == AddCall(events, call, thinking)
<1>1. L \in Nat /\ events \in Seq(ReplyEvents)
  BY DEF IsReply
<1>2. PICK action, error :
        /\ action.kind = "action" /\ error.kind = "error"
        /\ t = Append(events, action) \/ t = events \o <<action, error>>
  <2> DEFINE n == Len(log) + Len(events) + 1
             response == Len(log) + 1
             action == [kind |-> "action", response |-> response, call |-> CallId(n),
                        thinking |-> thinking /\ n = response,
                        content |-> call.content, valid |-> call.valid]
             error == Result("error", action.call, 0, call.content)
  <2>1. action.kind = "action" /\ error.kind = "error"
    BY DEF Result
  <2>2. t = IF call.valid THEN Append(events, action) ELSE events \o <<action, error>>
    BY DEF AddCall
  <2> HIDE DEF action, error
  <2> QED BY <2>1, <2>2
<1> HIDE DEF t, L
<1>3. t \in Seq(ReplyEvents)
  BY AddCallPublishes DEF IsReply, t
<1>4. /\ Len(t) \in Nat /\ Len(t) >= L + 1 /\ t[L + 1].kind = "action"
      /\ \A m \in 1..L : t[m] = events[m]
      /\ \A m \in 1..Len(t) : m > L + 1 => t[m].kind = "error"
  <2>1. CASE t = Append(events, action)
    <3>1. Len(t) = L + 1 /\ t[L + 1] = action /\ \A m \in 1..L : t[m] = events[m]
      BY <1>1, <2>1 DEF L
    <3> QED BY <1>1, <1>2, <3>1
  <2>2. CASE t = events \o <<action, error>>
    <3>1. Len(t) = L + 2 /\ t[L + 1] = action /\ t[L + 2] = error /\ \A m \in 1..L : t[m] = events[m]
      BY <1>1, <2>2 DEF L
    <3>2. \A m \in 1..Len(t) : m > L + 1 => m = L + 2
      BY <1>1, <3>1
    <3> QED BY <1>1, <1>2, <3>1, <3>2
  <2> QED BY <1>2, <2>1, <2>2
<1>5. \A m \in 1..Len(t) : m \in 1..L \/ m = L + 1 \/ m > L + 1
  BY <1>1, <1>4
<1>6. \A m \in 1..L : m \in 1..Len(t)
  BY <1>1, <1>4
<1>7. L + 1 \in 1..Len(t)
  BY <1>1, <1>4
<1> QED BY <1>4, <1>5, <1>6, <1>7 DEF Places, t, L

\* A reply has as many calls as were asked for.
LEMMA CallEventsAreFew ==
  ASSUME log \in Seq(Events), OutputIsView(log), NEW calls \in AskedFor, NEW thinking \in BOOLEAN
  PROVE  /\ IsFiniteSet(Places(CallEvents(calls, thinking)))
         /\ Cardinality(Places(CallEvents(calls, thinking))) <= MaxBatch
<1> DEFINE N == Len(calls)
           few(t, k) == IsFiniteSet(Places(t)) /\ Cardinality(Places(t)) <= k
<1>1. calls \in Seq(Call) /\ N \in 1..MaxBatch /\ MaxBatch \in Nat
  BY AskedForIsCalls, HistoryAssumption
<1>2. PICK f : Publishes(f, calls, thinking)
  BY <1>1, CallEventsRecursion
<1>3. /\ f \in [0..N -> ReplySet] /\ f[0] = <<>>
      /\ \A k \in 1..N : f[k] = AddCall(f[k - 1], calls[k], thinking)
      /\ CallEvents(calls, thinking) = f[N]
      /\ N \in Nat /\ \A k \in 1..N : calls[k] \in Call
  BY <1>1, <1>2 DEF Publishes
<1> DEFINE T == {k \in 0..N : few(f[k], k)}
<1> HIDE DEF N
<1>4. 0 \in T
  <2>1. Places(<<>>) = {}
    BY DEF Places
  <2> QED BY <1>3, <2>1, FS_EmptySet
<1>5. ASSUME NEW k \in 0..(N - 1), k \in T PROVE k + 1 \in T
  <2>1. k \in Nat /\ k \in 0..N /\ k + 1 \in 0..N /\ k + 1 \in 1..N /\ (k + 1) - 1 = k
    BY <1>3
  <2> DEFINE t == f[k]
             u == f[k + 1]
  <2>2. IsReply(t) /\ u = AddCall(t, calls[k + 1], thinking) /\ calls[k + 1] \in Call
    BY <1>3, <2>1 DEF ReplySet
  <2>3. few(t, k)
    BY <1>5
  <2> HIDE DEF t, u
  <2>4. Places(u) = Places(t) \cup {Len(t) + 1}
    BY <2>2, AddCallAddsPlace
  <2>5. IsFiniteSet(Places(u)) /\ Cardinality(Places(t)) \in Nat
        /\ Cardinality(Places(u)) = IF Len(t) + 1 \in Places(t) THEN Cardinality(Places(t))
                                    ELSE Cardinality(Places(t)) + 1
    BY <2>3, <2>4, FS_AddElement, FS_CardinalityType
  <2>6. few(u, k + 1)
    BY <2>1, <2>3, <2>5
  <2> QED BY <2>1, <2>6 DEF u
<1>6. \A k \in 0..N : k \in T
  <2> HIDE DEF T
  <2> QED BY <1>3, <1>4, <1>5, InductionUpTo
<1>7. N \in 0..N
  BY <1>3
<1>8. few(CallEvents(calls, thinking), N)
  BY <1>3, <1>6, <1>7
<1>9. Cardinality(Places(CallEvents(calls, thinking))) \in Nat
  BY <1>8, FS_CardinalityType
<1> QED BY <1>1, <1>8, <1>9 DEF N

\* All that a reply publishes, and all that a crash leaves of it, is new.
LEMMA ReplyIsNew ==
  ASSUME log \in Seq(Events), NEW events, IsReply(events), NEW k \in 0..Len(events)
  PROVE  LET tail == SubSeq(events, 1, k)
         IN /\ tail \in Seq(Events) /\ Len(tail) = k
            /\ \A m \in 1..Len(tail) : NewReply(tail, m)
            /\ Places(tail) \subseteq Places(events)
<1> DEFINE tail == SubSeq(events, 1, k)
           L == Len(events)
<1>1. L \in Nat /\ k \in Nat /\ events \in Seq(ReplyEvents) /\ \A m \in 1..L : m \in DOMAIN events
  BY DEF IsReply
<1>2. tail \in Seq(ReplyEvents) /\ Len(tail) = k /\ \A m \in 1..k : tail[m] = events[m]
  <2>1. 1 \in 1..(L + 1) /\ k \in 0..L
    BY <1>1
  <2> QED BY <1>1, <2>1, SubSeqProperties
<1>3. tail \in Seq(Events)
  <2>1. ReplyEvents \subseteq Events
    BY DEF Events
  <2> HIDE DEF tail
  <2> QED BY <1>2, <2>1, SeqMonotonic
<1>4. \A m \in 1..k : m \in 1..L
  BY <1>1
<1>5. \A m \in 1..L : /\ events[m].kind \notin {"observation", "rejection"}
                      /\ events[m].kind = "action" => events[m].response = Len(log) + 1
  <2> TAKE m \in 1..L
  <2>1. Published(events, m)
    BY DEF IsReply
  <2>2. CASE events[m] \in ActionEvents
    <3>1. events[m].kind = "action" /\ "action" \notin Results
      BY <2>2, EventKinds DEF Results
    <3>2. events[m] \notin ResultEvents
      BY <3>1, EventKinds
    <3>3. events[m].response = Len(log) + 1
      BY <2>1, <3>2 DEF Published
    <3> QED BY <3>1, <3>3
  <2>3. CASE events[m] \notin ActionEvents
    BY <2>1, <2>3 DEF Published
  <2> QED BY <2>2, <2>3
<1> HIDE DEF tail
<1>6. \A m \in 1..Len(tail) : NewReply(tail, m)
  BY <1>2, <1>4, <1>5 DEF NewReply
<1>7. Places(tail) \subseteq Places(events)
  BY <1>2, <1>4 DEF Places, L
<1> QED BY <1>2, <1>3, <1>6, <1>7 DEF tail

\* Updates behind a reply are nothing new.
LEMMA ReplyThenPlain ==
  ASSUME NEW tail, tail \in Seq(Events), \A m \in 1..Len(tail) : NewReply(tail, m),
         NEW s, s \in Seq(PlainEvents)
  PROVE  /\ tail \o s \in Seq(Events)
         /\ \A m \in 1..Len(tail \o s) : NewReply(tail \o s, m)
         /\ Places(tail \o s) = Places(tail)
<1> DEFINE both == tail \o s
           K == Len(tail)
           L == Len(s)
<1>1. s \in Seq(Events) /\ K \in Nat /\ L \in Nat
  BY PlainTyped
<1>2. /\ both \in Seq(Events) /\ Len(both) = K + L
      /\ \A m \in 1..(K + L) : both[m] = IF m <= K THEN tail[m] ELSE s[m - K]
  BY <1>1, ConcatProperties
<1>3. \A m \in 1..K : NewReply(tail, m)
  OBVIOUS
<1>4. \A m \in 1..L : s[m].kind \in PlainKinds
  BY PlainByKind
<1>5. Places(tail) = {m \in 1..K : tail[m].kind = "action"}
  BY DEF Places
<1>6. Places(both) = {m \in 1..(K + L) : both[m].kind = "action"}
  BY <1>2 DEF Places
<1> HIDE DEF both, K, L
<1>7. ASSUME NEW m \in 1..(K + L)
      PROVE  \/ m \in 1..K /\ both[m] = tail[m]
             \/ m \notin 1..K /\ both[m].kind \in PlainKinds
  <2>1. CASE m <= K
    BY <1>1, <1>2, <2>1
  <2>2. CASE ~(m <= K)
    <3>1. m - K \in 1..L /\ m \notin 1..K
      BY <1>1, <2>2
    <3> QED BY <1>2, <1>4, <2>2, <3>1
  <2> QED BY <2>1, <2>2
<1>8. \A m \in 1..K : m \in 1..(K + L)
  BY <1>1
<1>9. \A m \in 1..(K + L) : NewReply(both, m)
  <2> TAKE m \in 1..(K + L)
  <2>1. CASE m \in 1..K /\ both[m] = tail[m]
    BY <1>3, <2>1 DEF NewReply
  <2>2. CASE both[m].kind \in PlainKinds
    BY <2>2 DEF NewReply, PlainKinds
  <2> QED BY <1>7, <2>1, <2>2
<1>10. Places(both) = Places(tail)
  <2>1. \A m \in 1..(K + L) : both[m].kind = "action" => m \in 1..K /\ both[m] = tail[m]
    BY <1>7 DEF PlainKinds
  <2>2. \A m \in 1..K : both[m] = tail[m]
    BY <1>7, <1>8
  <2> QED BY <1>5, <1>6, <1>8, <2>1, <2>2
<1> QED BY <1>2, <1>9, <1>10 DEF both

-----------------------------------------------------------------------------
(* The inductive invariant of the turns *)

\* The inductive invariant: the log is made of turns, and a reply was asked for
\* only when every call of the last one had its answer and nothing was stuck.
TurnInv ==
  /\ HistoryTypeOK
  /\ Turns(log)
  /\ StartedFresh(log)

\* Events that are no calls keep it, ...
LEMMA AnswersKeep ==
  ASSUME TurnInv, HistoryTypeOK', NEW tail, tail \in Seq(Events),
         \A m \in 1..Len(tail) : NoCall(tail, m), log' = log \o tail
  PROVE  TurnInv'
<1> DEFINE more == log \o tail
<1>1. Turns(more) /\ StartedFresh(more)
  BY AnswersKeepTurns DEF TurnInv, HistoryTypeOK
<1> HIDE DEF more
<1>2. log' = more
  BY DEF more
<1> QED BY <1>1, <1>2 DEF TurnInv

\* ... and so does a new reply.
LEMMA ReplyKeeps ==
  ASSUME TurnInv, HistoryTypeOK', Unanswered(log) = {}, ~IsStuck(log),
         NEW tail, tail \in Seq(Events), \A m \in 1..Len(tail) : NewReply(tail, m),
         Cardinality(Places(tail)) <= MaxBatch, log' = log \o tail
  PROVE  TurnInv'
<1> DEFINE more == log \o tail
<1>1. Turns(more) /\ StartedFresh(more)
  BY ReplyKeepsTurns DEF TurnInv, HistoryTypeOK
<1> HIDE DEF more
<1>2. log' = more
  BY DEF more
<1> QED BY <1>1, <1>2 DEF TurnInv

\* Steps that append only events of no reply keep it.
LEMMA PlainKeepsTurns ==
  ASSUME TurnInv, HistoryTypeOK', StoresPlain
  PROVE  TurnInv'
<1>1. PICK tail \in Seq(PlainEvents) : log' = log \o tail
  BY DEF StoresPlain
<1>2. tail \in Seq(Events)
  BY PlainTyped
<1>3. \A m \in 1..Len(tail) : NoCall(tail, m)
  BY PlainByKind DEF NoCall, PlainKinds
<1> QED BY <1>1, <1>2, <1>3, AnswersKeep

-----------------------------------------------------------------------------
(* The inductive invariant of the turns: the actions *)

\* The invariant holds of the first state.
LEMMA TurnsAtStart == Init => TurnInv
<1> SUFFICES ASSUME Init PROVE TurnInv
  OBVIOUS
<1> DEFINE e == Event("system")
<1>1. HistoryTypeOK /\ log = <<e>> /\ todo = <<>>
  BY TypesAtStart DEF Init
<1>2. e.kind = "system"
  BY DEF Event
<1> HIDE DEF e
<1>3. DOMAIN log = {1} /\ log[1] = e
  BY <1>1
<1>4. Actions(log) = {} /\ \A n \in DOMAIN log : log[n].kind \notin {"observation", "rejection"}
  BY <1>2, <1>3 DEF Actions
<1>5. Turns(log)
  BY <1>4 DEF Turns, Blocks, AnswersCalls, SmallBatches
<1>6. StartedFresh(log)
  BY <1>4 DEF StartedFresh
<1> QED BY <1>1, <1>5, <1>6 DEF TurnInv

\* A single event that is no call.
LEMMA EventKeepsTurns ==
  ASSUME TurnInv, HistoryTypeOK', NEW e, e \in Events, e.kind # "action",
         e.kind \in {"observation", "rejection"} => e.action \in Actions(log),
         log' = Append(log, e)
  PROVE  TurnInv'
<1> DEFINE tail == <<e>>
<1>1. tail \in Seq(Events) /\ Len(tail) = 1 /\ tail[1] = e /\ log' = log \o tail
  BY DEF TurnInv, HistoryTypeOK
<1> HIDE DEF tail
<1>2. \A m \in 1..Len(tail) : m = 1
  BY <1>1
<1>3. \A m \in 1..Len(tail) : NoCall(tail, m)
  BY <1>1, <1>2 DEF NoCall
<1> QED BY <1>1, <1>3, AnswersKeep

\* The rejection of the pending calls keeps it, ...
LEMMA RejectKeepsTurns ==
  ASSUME TurnInv, HistoryTypeOK', RejectPendingActions
  PROVE  TurnInv'
<1> DEFINE pending == Rejectable
           R(i) == Result("rejection", log[pending[i]].call, pending[i], "")
           N == Len(pending)
           tail == [i \in 1..N |-> R(i)]
<1>1. log \in Seq(Events) /\ Turns(log) /\ StartedFresh(log)
  BY DEF TurnInv, HistoryTypeOK
<1>2. pending \in Seq(Actions(log)) /\ Range(pending) \subseteq Unanswered(log)
  BY <1>1, PendingAreUnanswered
<1>3. N \in Nat /\ DOMAIN pending = 1..N /\ \A i \in 1..N : pending[i] \in Actions(log)
  <2> HIDE DEF pending
  <2> QED BY <1>2
<1>4. log' = log \o (Changed(status') \o tail)
  BY <1>3 DEF RejectPendingActions, Store
<1>5. tail \in Seq(Events)
  BY <1>1, <1>2, <1>3, RejectionsTyped
<1>6. Len(tail) = N /\ \A m \in 1..N : tail[m] = R(m)
  BY <1>3
<1>7. \A m \in 1..N : R(m).kind = "rejection" /\ R(m).action = pending[m]
  BY DEF Result
<1> HIDE DEF tail, R, pending
<1>8. \A m \in 1..Len(tail) : NoCall(tail, m)
  BY <1>3, <1>6, <1>7 DEF NoCall
<1> DEFINE updates == Changed(status')
           stored == updates \o tail
<1>9. updates \in Seq(PlainEvents) /\ updates \in Seq(Events)
  BY PlainTyped
<1> HIDE DEF updates
<1>10. /\ stored \in Seq(Events) /\ Len(stored) = Len(updates) + Len(tail)
       /\ \A m \in 1..(Len(updates) + Len(tail)) :
            stored[m] = IF m <= Len(updates) THEN updates[m] ELSE tail[m - Len(updates)]
  BY <1>5, <1>9, ConcatProperties
<1>11. log' = log \o stored
  BY <1>4 DEF updates
<1> HIDE DEF stored
<1>12. ASSUME NEW m \in 1..Len(stored) PROVE NoCall(stored, m)
  <2> DEFINE K == Len(updates)
  <2>1. K \in Nat /\ N \in Nat /\ m \in 1..(K + N) /\ Len(tail) = N
    BY <1>3, <1>6, <1>9, <1>10
  <2>2. \A k \in 1..K : updates[k].kind \in PlainKinds
    BY <1>9, PlainByKind
  <2>3. m <= K => stored[m] = updates[m]
    BY <1>10, <2>1
  <2>4. ~(m <= K) => stored[m] = tail[m - K]
    BY <1>10, <2>1
  <2> HIDE DEF K
  <2>5. CASE m <= K
    <3>1. m \in 1..K
      BY <2>1, <2>5
    <3> QED BY <2>2, <2>3, <2>5, <3>1 DEF NoCall, PlainKinds
  <2>6. CASE ~(m <= K)
    <3>1. m - K \in 1..Len(tail)
      BY <2>1, <2>6
    <3> QED BY <1>8, <2>4, <2>6, <3>1 DEF NoCall
  <2> QED BY <2>5, <2>6
<1> QED BY <1>10, <1>11, <1>12, AnswersKeep

\* ... a condensation, ...
LEMMA CondenseKeepsTurns ==
  ASSUME TurnInv, HistoryTypeOK', Condense
  PROVE  TurnInv'
<1>1. PICK summary \in BOOLEAN : log' = Append(log, Condensation(summary))
  BY DEF Condense
<1> DEFINE e == Condensation(summary)
<1>2. e \in Events /\ e.kind = "condensation"
  <2>1. e \in Condensations
    BY CondensationTyped DEF TurnInv, HistoryTypeOK, Condense
  <2>2. e.kind = "condensation"
    BY DEF Condensation
  <2> HIDE DEF e
  <2> QED BY <2>1, <2>2 DEF Events
<1> HIDE DEF e
<1> QED BY <1>1, <1>2, EventKeepsTurns DEF e

\* ... the calls of a reply that comes when every call has its answer, ...
LEMMA ReplyCallsKeepTurns ==
  ASSUME TurnInv, HistoryTypeOK', PendingActions = <<>>, ~IsStuck(log),
         NEW thinking \in BOOLEAN, ReplyCalls(thinking)
  PROVE  TurnInv'
<1>1. PICK calls \in AskedFor :
        log' = log \o (CallEvents(calls, thinking) \o Changed(status'))
  BY DEF ReplyCalls, Store
<1> DEFINE events == CallEvents(calls, thinking)
<1>2. log \in Seq(Events) /\ OutputIsView(log)
  BY TypedIsView DEF TurnInv, HistoryTypeOK
<1>3. IsReply(events) /\ Cardinality(Places(events)) <= MaxBatch
  BY <1>2, CallEventsAreReply, CallEventsAreFew
<1> DEFINE updates == Changed(status')
<1>4. log' = log \o (events \o updates) /\ updates \in Seq(PlainEvents)
  BY <1>1, PlainTyped
<1> HIDE DEF events, updates
<1>5. events \in Seq(ReplyEvents) /\ events \in Seq(Events)
  <2>1. ReplyEvents \subseteq Events
    BY DEF Events
  <2> QED BY <1>3, <2>1, SeqMonotonic DEF IsReply
<1>6. \A m \in 1..Len(events) : NewReply(events, m)
  <2> DEFINE k == Len(events)
             tail == SubSeq(events, 1, k)
  <2>1. k \in 0..Len(events) /\ tail = events
    BY <1>5
  <2> HIDE DEF k
  <2>2. \A m \in 1..Len(tail) : NewReply(tail, m)
    BY <1>2, <1>3, <2>1, ReplyIsNew
  <2> HIDE DEF tail
  <2> QED BY <2>1, <2>2
<1>7. Unanswered(log) = {}
  <2>1. Range(PendingActions) = Unanswered(log)
    BY <1>2, PendingAreUnanswered
  <2> QED BY <2>1 DEF Range
<1> DEFINE stored == events \o updates
<1>8. /\ stored \in Seq(Events) /\ \A m \in 1..Len(stored) : NewReply(stored, m)
      /\ Cardinality(Places(stored)) <= MaxBatch
  BY <1>3, <1>4, <1>5, <1>6, ReplyThenPlain
<1> HIDE DEF stored
<1> QED BY <1>4, <1>7, <1>8, ReplyKeeps DEF stored

\* ... what a crash leaves of them, ...
LEMMA TearReplyKeepsTurns ==
  ASSUME TurnInv, HistoryTypeOK', PendingActions = <<>>, ~IsStuck(log), TearReply
  PROVE  TurnInv'
<1>1. PICK calls \in AskedFor : \E k \in 1..(Len(CallEvents(calls, FALSE)) - 1) :
        log' = log \o (SubSeq(CallEvents(calls, FALSE), 1, k) \o Changed("error"))
  BY DEF TearReply, Store
<1> DEFINE events == CallEvents(calls, FALSE)
<1>2. log \in Seq(Events) /\ OutputIsView(log)
  BY TypedIsView DEF TurnInv, HistoryTypeOK
<1>3. IsReply(events) /\ Cardinality(Places(events)) <= MaxBatch /\ IsFiniteSet(Places(events))
  BY <1>2, CallEventsAreReply, CallEventsAreFew
<1>4. PICK k \in 1..(Len(events) - 1) : log' = log \o (SubSeq(events, 1, k) \o Changed("error"))
  BY <1>1
<1> HIDE DEF events
<1> DEFINE tail == SubSeq(events, 1, k)
<1>5. /\ tail \in Seq(Events) /\ \A m \in 1..Len(tail) : NewReply(tail, m)
      /\ Places(tail) \subseteq Places(events)
  <2>1. k \in 0..Len(events)
    BY <1>3 DEF IsReply
  <2> QED BY <1>2, <1>3, <2>1, ReplyIsNew
<1> HIDE DEF tail
<1>6. Cardinality(Places(tail)) <= MaxBatch
  <2>1. Cardinality(Places(tail)) <= Cardinality(Places(events)) /\ IsFiniteSet(Places(tail))
    BY <1>3, <1>5, FS_Subset
  <2>2. Cardinality(Places(tail)) \in Nat /\ Cardinality(Places(events)) \in Nat
    BY <1>3, <2>1, FS_CardinalityType
  <2> QED BY <1>3, <2>1, <2>2, HistoryAssumption
<1>7. Unanswered(log) = {}
  <2>1. Range(PendingActions) = Unanswered(log)
    BY <1>2, PendingAreUnanswered
  <2> QED BY <2>1 DEF Range
<1> DEFINE stored == tail \o Changed("error")
<1>8. /\ stored \in Seq(Events) /\ \A m \in 1..Len(stored) : NewReply(stored, m)
      /\ Cardinality(Places(stored)) <= MaxBatch
  <2>1. Changed("error") \in Seq(PlainEvents)
    BY PlainTyped
  <2> QED BY <1>5, <1>6, <2>1, ReplyThenPlain
<1>9. log' = log \o stored
  BY <1>4 DEF tail
<1> HIDE DEF stored
<1> QED BY <1>7, <1>8, <1>9, ReplyKeeps

\* ... and the end of a tool call.
LEMMA ExecuteKeepsTurns ==
  ASSUME TurnInv, HistoryTypeOK', Execute
  PROVE  TurnInv'
<1>1. CASE Fail
  BY <1>1, FailIsPlain, PlainKeepsTurns
<1>2. CASE ~Fail
  <2> DEFINE n == Head(todo)
  <2>1. log \in Seq(Events) /\ todo \in Seq(Actions(log)) /\ todo # <<>>
    BY DEF TurnInv, HistoryTypeOK, Execute
  <2>2. PICK kind \in {"observation", "error"}, content \in Contents :
          log' = Append(log, Result(kind, log[n].call, IF kind = "error" THEN 0 ELSE n, content))
    BY <1>2 DEF Execute
  <2>3. n \in Actions(log)
    BY <2>1
  <2> HIDE DEF n
  <2> DEFINE e == Result(kind, log[n].call, IF kind = "error" THEN 0 ELSE n, content)
  <2>4. e.kind = kind /\ (kind = "observation" => e.action = n) /\ e \in Events
    <3>1. log[n].call \in Nat /\ n \in Nat
      BY <2>1, <2>3, ActionsAreTyped
    <3>2. e \in ResultEvents
      BY <3>1 DEF Result, ResultEvents, Results
    <3>3. ResultEvents \subseteq Events
      BY DEF Events, ReplyEvents
    <3>4. e.kind = kind /\ (kind = "observation" => e.action = n)
      BY DEF Result
    <3> QED BY <3>2, <3>3, <3>4
  <2>5. log' = Append(log, e)
    BY <2>2
  <2> HIDE DEF e
  <2> QED BY <2>3, <2>4, <2>5, EventKeepsTurns
<1> QED BY <1>1, <1>2

\* Every step keeps the invariant.
LEMMA TurnsKept == TurnInv /\ [Next]_vars => TurnInv'
<1> SUFFICES ASSUME TurnInv, [Next]_vars PROVE TurnInv'
  OBVIOUS
<1>1. HistoryTypeOK' /\ HistoryTypeOK
  BY TypesKept DEF TurnInv
<1>2. CASE StoresPlain
  BY <1>1, <1>2, PlainKeepsTurns
<1>3. CASE RejectPendingActions
  BY <1>1, <1>3, RejectKeepsTurns
<1>4. CASE PendingActions = <<>> /\ ~IsStuck(log) /\ TearReply
  BY <1>1, <1>4, TearReplyKeepsTurns
<1>5. CASE Execute
  BY <1>1, <1>5, ExecuteKeepsTurns
<1>6. CASE Condense
  BY <1>1, <1>6, CondenseKeepsTurns
<1>7. CASE /\ PendingActions = <<>> /\ ~IsStuck(log)
           /\ \E thinking \in BOOLEAN : ReplyCalls(thinking)
  BY <1>1, <1>7, ReplyCallsKeepTurns
<1>8. CASE UNCHANGED vars
  BY <1>8 DEF vars, TurnInv, HistoryTypeOK
<1> QED BY <1>1, <1>2, <1>3, <1>4, <1>5, <1>6, <1>7, <1>8, NextByKind DEF HistoryTypeOK

\* The invariant holds in every state.
LEMMA TurnInvariant == Spec => []TurnInv
BY TurnsAtStart, TurnsKept, PTL DEF Spec

\* The agent does not go on repeating one call that always ends in the same way
\* (RepetitionBounded): as long as the window of the scan holds the repetition, it
\* has fewer calls than the threshold and one reply together, whatever updates of
\* the status the log holds among the calls and their observations
\* (StuckDetector.is_stuck, which AgentRunner.run asks before each step).
THEOREM RepetitionStaysBounded == Spec => []RepetitionBounded
<1>1. TurnInv => RepetitionBounded
  BY TurnsBoundRepetition DEF TurnInv, HistoryTypeOK
<1> QED BY <1>1, TurnInvariant, PTL
=============================================================================
