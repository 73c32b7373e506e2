--------------------------- MODULE AppendOnlyLog ---------------------------
(***************************************************************************)
(* What the event log of one agent promises to its readers: a sequence of  *)
(* event ids that only grows at its end, and holds no id twice.            *)
(***************************************************************************)
EXTENDS Sequences, Integers

CONSTANT Ids     \* the ids of the events that may be appended

VARIABLE log     \* the events, oldest first

Recorded == {log[k] : k \in 1..Len(log)}

Init == log = << >>

Add(e) ==
    /\ e \notin Recorded
    /\ log' = Append(log, e)

Next == \E e \in Ids : Add(e)

Spec == Init /\ [][Next]_log
=============================================================================
