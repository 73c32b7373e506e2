--------------------------- MODULE StuckDetection ---------------------------
(***************************************************************************)
(* StuckDetector.is_stuck on a log of event records.  By kind a record has *)
(* the fields                                                              *)
(*   "action"       content (thought, tool and arguments) and valid (its   *)
(*                  arguments were parsed: action is not None),            *)
(*   "observation"  content,   "error"  content (the error text).          *)
(* A "user" event is any MessageEvent whose source is the user.            *)
(***************************************************************************)
EXTENDS Integers, Sequences, SequencesExt, Subsequences

CONSTANTS
  ActionObservation,   \* thresholds.action_observation
  ActionError,         \* thresholds.action_error
  Monologue,           \* thresholds.monologue
  AlternatingPattern,  \* thresholds.alternating_pattern
  Window               \* MAX_EVENTS_TO_SCAN_FOR_STUCK_DETECTION

ASSUME StuckAssumption ==
  /\ ActionObservation \in Nat \ {0}
  /\ ActionError \in Nat \ {0}
  /\ Monologue \in Nat \ {0}
  /\ AlternatingPattern \in Nat \ {0}
  /\ Window \in Nat \ {0}

\* The positions scanned: the last Window, after the last user message there.
Scanned(log) ==
  LET lastUser == Max({0} \cup {n \in DOMAIN log : log[n].kind = "user"})
  IN Max({1, Len(log) - Window + 1, lastUser + 1})..Len(log)

\* The scanned events of these kinds, the latest first.
Latest(log, kinds) ==
  Only([i \in 1..Cardinality(Scanned(log)) |-> Len(log) + 1 - i],
       {n \in Scanned(log) : log[n].kind \in kinds})

\* _event_eq: rejections carry the id of their action and equal only themselves.
SameEvent(log, n, m) ==
  \/ n = m
  \/ /\ log[n].kind = log[m].kind
     /\ log[n].kind # "rejection"
     /\ log[n].content = log[m].content
     /\ log[n].kind = "action" => log[n].valid = log[m].valid

AllSame(log, ids, threshold) ==
  /\ Len(ids) >= threshold
  /\ \A i \in 1..threshold : SameEvent(log, ids[1], ids[i])

RepeatsObservation(log) ==
  /\ AllSame(log, Latest(log, {"action"}), ActionObservation)
  /\ AllSame(log, Latest(log, {"observation", "error", "rejection"}), ActionObservation)

RepeatsError(log) ==
  LET answers == Latest(log, {"observation", "error", "rejection"})
  IN /\ AllSame(log, Latest(log, {"action"}), ActionError)
     /\ Len(answers) >= ActionError
     /\ \A i \in 1..ActionError : log[answers[i]].kind = "error"

\* The log holds no CondensationSummaryEvent, which the scan would skip, but
\* Condensation events, which end it.
TalksToItself(log) ==
  LET tail == Len(log) - Monologue + 1
  IN /\ tail \in Scanned(log)
     /\ \A n \in tail..Len(log) : log[n].kind = "agent"

Alternates(log) ==
  \A ids \in {Latest(log, {"action"}), Latest(log, {"observation", "error"})} :
    /\ Len(ids) >= AlternatingPattern
    /\ \A i \in 1..(AlternatingPattern - 2) : SameEvent(log, ids[i], ids[i + 2])

\* Mutant of IsStuck: one repetition more is let through.
IsStuckLate(log) ==
  /\ AllSame(log, Latest(log, {"action"}), ActionObservation + 1)
  /\ RepeatsObservation(log)

IsStuck(log) ==
  /\ Cardinality(Scanned(log)) >= Min({ActionObservation, ActionError, Monologue})
  /\ \/ RepeatsObservation(log)
     \/ RepeatsError(log)
     \/ TalksToItself(log)
     \/ Alternates(log)
=============================================================================
