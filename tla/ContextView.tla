---------------------------- MODULE ContextView ----------------------------
(***************************************************************************)
(* What the LLM is shown of an agent's event log, and what the condenser   *)
(* forgets of it: View.from_events, View.manipulation_indices and the      *)
(* LLMSummarizingCondenser.                                                *)
(*                                                                         *)
(* A log is a sequence of event records; the id of an event is its         *)
(* position in the log.  A view is a sequence of such ids, none of them    *)
(* twice; the summary that the condensation at position n leaves behind    *)
(* has the id -n.  The records have the field kind and, by kind,           *)
(*   "action"        response (the LLM response it came with), call (its   *)
(*                   tool_call_id) and thinking (it has thinking blocks),  *)
(*   Results         call,                                                 *)
(*   "condensation"  forgotten (a set of ids), summary (whether there is   *)
(*                   one) and offset.                                      *)
(***************************************************************************)
EXTENDS Integers, Sequences, SequencesExt, Subsequences

CONSTANTS
  KeepFirst,  \* LLMSummarizingCondenser.keep_first
  MaxSize     \* LLMSummarizingCondenser.max_size

\* The validator of the condenser: there is room for a tail.
ASSUME CondenserAssumption ==
  /\ KeepFirst \in Nat
  /\ MaxSize \in Nat \ {0}
  /\ MaxSize \div 2 - KeepFirst - 1 > 0

Results == {"observation", "error", "rejection"}  \* ObservationBaseEvent
Convertible == {"system", "user", "agent", "action"} \cup Results

KindIn(log, id) == IF id < 0 THEN "summary" ELSE log[id].kind

Actions(log) == {n \in DOMAIN log : log[n].kind = "action"}

\* The ActionEvents that came with the LLM response of action n.
BatchOf(log, n) == {a \in Actions(log) : log[a].response = log[n].response}

\* The tool_call_ids of the events of these kinds among ids.
CallsOf(log, ids, kinds) ==
  {log[n].call : n \in {i \in ids : KindIn(log, i) \in kinds}}

-----------------------------------------------------------------------------
(* View.from_events *)

\* Condensation.apply, for the condensation c at position n.
Forget(c, view, n) ==
  LET kept == Only(view, Range(view) \ c.forgotten)
      at == IF c.offset < Len(kept) THEN c.offset ELSE Len(kept)
  IN IF c.summary THEN InsertAt(kept, at + 1, -n) ELSE kept

\* The view with the event at position n.
Extend(event, view, n) ==
  IF event.kind = "condensation" THEN Forget(event, view, n)
  ELSE IF event.kind \in Convertible THEN Append(view, n)
  ELSE view

Output(log) ==
  LET view[n \in 0..Len(log)] ==
        IF n = 0 THEN <<>> ELSE Extend(log[n], view[n - 1], n)
  IN view[Len(log)]

\* A batch of which any action is missing loses all of them.
EnforceBatches(log, shown) ==
  {id \in shown : KindIn(log, id) = "action" => BatchOf(log, id) \subseteq shown}

MatchedCalls(log, shown) ==
  LET asked == CallsOf(log, shown, {"action"})
      answered == CallsOf(log, shown, Results)
  IN {id \in shown : /\ KindIn(log, id) \in Results => log[id].call \in asked
                     /\ KindIn(log, id) = "action" => log[id].call \in answered}

\* Mutant of FilterUnmatched: results of actions that the second pass
\* removed stay.
WithoutThirdPass(log, shown) == EnforceBatches(log, MatchedCalls(log, shown))

\* The third pass goes over the actions of the whole log.
FilterUnmatched(log, shown) ==
  LET kept == EnforceBatches(log, MatchedCalls(log, shown))
      removed == {log[a].call : a \in Actions(log) \ kept}
  IN {id \in kept : KindIn(log, id) \in Results => log[id].call \notin removed}

\* The filters look at ids only and leave the events in their order.
ViewOf(log) ==
  LET output == Output(log)
      shown == FilterUnmatched(log, EnforceBatches(log, Range(output)))
  IN Only(output, shown)

\* View.unhandled_condensation_request_exists
Requested(log) ==
  LET last == SelectLastInSeq(log, LAMBDA e : e.kind \in {"condensation", "request"})
  IN last # 0 /\ log[last].kind = "request"

-----------------------------------------------------------------------------
(* View.manipulation_indices: index i is the gap after the first i events.  *)

Firsts(log, view) ==
  {i \in DOMAIN view : /\ KindIn(log, view[i]) = "action"
                       /\ \A j \in 1..(i - 1) :
                            KindIn(log, view[j]) = "action" =>
                              log[view[j]].response # log[view[i]].response}

\* From the first action of a response to the last of its actions and results.
SpanFrom(log, view, first) ==
  LET batch == {i \in DOMAIN view : view[i] \in BatchOf(log, view[first])}
      calls == {log[view[i]].call : i \in batch}
      answers == {i \in DOMAIN view : /\ KindIn(log, view[i]) \in Results
                                      /\ log[view[i]].call \in calls}
  IN [first |-> first, last |-> Max(batch \cup answers),
      thinking |-> log[view[first]].thinking]

\* A tool loop runs from a response with thinking blocks over all responses
\* that follow it with no other event in between.
SameLoop(log, view, spans, s, t) ==
  /\ s.thinking
  /\ s.first <= t.first
  /\ \A i \in s.first..t.first :
       \/ KindIn(log, view[i]) \in Results \cup {"action"}
       \/ \E u \in spans : u.first \in s.first..i /\ i <= u.last

\* Mutant of ManipulationIndices: any gap will do.
AllGaps(log, view) == 0..Len(view)

ManipulationIndices(log, view) ==
  LET spans == {SpanFrom(log, view, i) : i \in Firsts(log, view)}
  IN {i \in 0..Len(view) :
        ~\E s, t \in spans : /\ s = t \/ SameLoop(log, view, spans, s, t)
                             /\ s.first <= i /\ i < t.last}

NextIndex(log, view, threshold) ==
  LET later == {i \in ManipulationIndices(log, view) : i >= threshold}
  IN IF later = {} THEN threshold ELSE Min(later)

-----------------------------------------------------------------------------
(* LLMSummarizingCondenser, with max_tokens not set *)

Reasons(log, view) ==
  {r \in {"request", "events"} :
     \/ r = "request" /\ Requested(log)
     \/ r = "events" /\ Len(view) > MaxSize}

TailFor(reason, size) ==
  (IF reason = "request" THEN size ELSE MaxSize) \div 2 - KeepFirst - 1

\* _get_forgotten_events: what is forgotten and the summary's offset.
Forgetting(log, view) ==
  LET tail == Min({TailFor(r, Len(view)) : r \in Reasons(log, view)})
      start == NextIndex(log, view, KeepFirst)
      end == NextIndex(log, view, Len(view) - tail)
  IN [start |-> start,
      ids |-> Range(SubSeq(view, start + 1, Min({end, Len(view)})))]
=============================================================================
