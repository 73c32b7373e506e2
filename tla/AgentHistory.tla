---------------------------- MODULE AgentHistory ----------------------------
(***************************************************************************)
(* The main agent's event log as Agent.step grows it: what is appended by  *)
(* the LLM's replies, the tools, the user, the condenser and a failing     *)
(* run, and what the next step reads back (the pending actions, the view,  *)
(* the stuck patterns).  AgentEventPersistentConsumer stores in it every   *)
(* event published with the agent's id, the AgentStateUpdateEvents of a    *)
(* changed status among them.                                              *)
(*                                                                         *)
(* AgentRunner models the threads around the step and keeps of the log     *)
(* only how its actions are answered; here the log itself is the state     *)
(* and one thread at a time works on it, but for a pause or a rejection    *)
(* during a step.  No hooks and no skills are configured, the LLM does not *)
(* call finish, and a stuck detector and the summarizing condenser are in  *)
(* place, as in the presets.                                               *)
(***************************************************************************)
EXTENDS ContextView, StuckDetection

CONSTANTS
  Contents,     \* what a call, an answer or an error may say
  Replies,      \* what the LLM may answer (see Ask)
  Answers,      \* how a tool call may end (see Execute)
  NativeCalls,  \* the LLM names its tool calls itself (native_tool_calling)
  MaxBatch,     \* bound: tool calls in one reply
  MaxLog,       \* bound: events in the log when a step or an operation begins, ...
  MaxRare,      \* ... those other than calls, answers, requests, condensations, ...
  MaxUpdates    \* ... and updates, and the updates

ASSUME HistoryAssumption ==
  /\ NativeCalls \in BOOLEAN
  /\ MaxBatch \in Nat \ {0}
  /\ NativeCalls \/ MaxBatch = 1
  /\ MaxLog \in Nat
  /\ MaxRare \in Nat
  /\ MaxUpdates \in Nat

VARIABLES
  log,     \* the agent's EventLog
  status,  \* AgentState.execution_status
  todo     \* the actions the current step has still to execute

vars == <<log, status, todo>>

Statuses == {"idle", "running", "paused", "waiting_for_confirmation", "finished",
             "error", "stuck"}

Event(kind) == [kind |-> kind]
Result(kind, call, action, content) ==
  [kind |-> kind, call |-> call, action |-> action, content |-> content]

Init ==
  /\ log = <<Event("system")>>
  /\ status = "idle"
  /\ todo = <<>>

\* The bounds, as a guard of every operation that may add an event.
Stored(kinds) == Cardinality({n \in DOMAIN log : log[n].kind \in kinds})

Room ==
  /\ Len(log) < MaxLog
  /\ Len(log) - Stored({"update", "action", "observation", "request", "condensation"}) <= MaxRare
  /\ Stored({"update"}) <= MaxUpdates

\* AgentState.set_execution_status publishes a status that changes, ...
Changed(new) == IF status = new THEN <<>> ELSE <<Event("update")>>

\* ... mark_running the time as well.
MarkedRunning == Changed("running") \o <<Event("update")>>

Store(events) == log' = log \o events

\* RunnerContext.get_unmatched_actions: an AgentErrorEvent answers nothing.
Unanswered(events) ==
  {n \in Actions(events) :
     /\ events[n].valid
     /\ \A m \in DOMAIN events :
          events[m].kind \in {"observation", "rejection"} => events[m].action # n}

PendingActions == Only([n \in DOMAIN log |-> n], Unanswered(log))

-----------------------------------------------------------------------------
(* The user *)

SendMessage ==
  /\ Room
  /\ todo = <<>>
  /\ status' = IF status = "finished" THEN "idle" ELSE status
  /\ Store(Changed(status') \o <<Event("user")>>)
  /\ UNCHANGED todo

\* AgentState.get_unmatched_actions: an AgentErrorEvent does answer.
Rejectable ==
  Only(PendingActions,
       {n \in Actions(log) :
          ~\E m \in DOMAIN log :
             m > n /\ log[m].kind = "error" /\ log[m].call = log[n].call})

RejectPendingActions ==
  /\ Room
  /\ status' = IF status = "waiting_for_confirmation" THEN "idle" ELSE status
  /\ LET pending == Rejectable
         rejections == [i \in DOMAIN pending |->
                          Result("rejection", log[pending[i]].call, pending[i], "")]
     IN Store(Changed(status') \o rejections)
  /\ UNCHANGED todo

\* From any thread, during a step as well.
Pause ==
  /\ Room
  /\ status # "paused"
  /\ Store(Changed("paused"))
  /\ status' = "paused"
  /\ UNCHANGED todo

-----------------------------------------------------------------------------
(* The run loop *)

StartRun ==
  /\ Room
  /\ status \in {"idle", "paused", "error"} /\ todo = <<>>
  /\ Store(MarkedRunning)
  /\ status' = "running"
  /\ UNCHANGED todo

\* A run that finds the agent waiting is there to execute what it waits for.
Runs == status \in {"running", "waiting_for_confirmation"} /\ todo = <<>>

DetectStuck ==
  /\ Runs
  /\ IsStuck(log)
  /\ Store(Changed("stuck"))
  /\ status' = "stuck"
  /\ UNCHANGED todo

\* The head of every iteration that goes on to Agent.step.
AtStep ==
  /\ Room
  /\ Runs
  /\ ~IsStuck(log)

\* The run ends with an exception: ERROR and a ConversationErrorEvent.
Fail ==
  /\ Store(Changed("error") \o <<Event("failure")>>)
  /\ status' = "error"
  /\ todo' = <<>>

-----------------------------------------------------------------------------
(* Agent.step *)

\* An agent that waited is marked as running first.
ExecutePending ==
  /\ PendingActions # <<>>
  /\ todo' = PendingActions
  /\ Store(IF status = "running" THEN <<>> ELSE MarkedRunning)
  /\ status' = "running"

View == ViewOf(log)

Condensation(summary) ==
  LET forgetting == Forgetting(log, View)
  IN [kind |-> "condensation", forgotten |-> forgetting.ids,
      offset |-> forgetting.start, summary |-> summary]

MustCondense == Reasons(log, View) # {}
CanCondense == Forgetting(log, View).ids # {}

Condense ==
  /\ MustCondense /\ CanCondense
  /\ \E summary \in BOOLEAN : log' = Append(log, Condensation(summary))
  /\ UNCHANGED <<status, todo>>

\* A request that cannot be met ends the run, ...
NothingToForget ==
  /\ Requested(log) /\ ~CanCondense
  /\ Fail

\* ... and so does an exception of the LLM that writes the summary.
SummaryFails ==
  /\ "failure" \in Replies
  /\ MustCondense /\ CanCondense
  /\ Fail

\* The LLM is called when no condensation is needed or, for the size alone,
\* none is available.
CallsLLM ==
  /\ ~Requested(log)
  /\ MustCondense => ~CanCondense

\* prompt-mocked tool calls are numbered by the calls shown in the prompt
CallId(n) ==
  IF NativeCalls THEN n
  ELSE Cardinality({id \in Range(View) : KindIn(log, id) = "action"}) + 1

\* After these events of a reply its next call: the ActionEvent and, right after
\* one that is not valid, its AgentErrorEvent.
AddCall(events, call, thinking) ==
  LET response == Len(log) + 1
      n == Len(log) + Len(events) + 1
      action == [kind |-> "action", response |-> response, call |-> CallId(n),
                 thinking |-> thinking /\ n = response,
                 content |-> call.content, valid |-> call.valid]
  IN IF call.valid THEN Append(events, action)
     ELSE events \o <<action, Result("error", action.call, 0, call.content)>>

\* The events of a reply with these calls.
CallEvents(calls, thinking) ==
  LET published[k \in 0..Len(calls)] ==
        IF k = 0 THEN <<>> ELSE AddCall(published[k - 1], calls[k], thinking)
  IN published[Len(calls)]

AskedFor == UNION {[1..k -> [content : Contents, valid : BOOLEAN]] : k \in 1..MaxBatch}

ValidPositions(events) ==
  Only([i \in DOMAIN events |-> Len(log) + i],
       {n \in Len(log) + 1..Len(log) + Len(events) :
          events[n - Len(log)].kind = "action" /\ events[n - Len(log)].valid})

ReplyCalls(thinking) ==
  \E calls \in AskedFor, confirm \in {"confirm" \in Replies, FALSE} :
    LET events == CallEvents(calls, thinking)
        actions == ValidPositions(events)
    IN /\ \A i \in DOMAIN calls : ~calls[i].valid => "invalid" \in Replies
       /\ confirm => actions # <<>>
       /\ status' = IF confirm THEN "waiting_for_confirmation" ELSE status
       /\ Store(events \o Changed(status'))
       /\ todo' = IF confirm THEN todo ELSE actions

Ask ==
  \/ /\ "exceeded" \in Replies   \* LLMContextWindowExceedError
     /\ log' = Append(log, Event("request"))
     /\ UNCHANGED <<status, todo>>
  \/ /\ "malformed" \in Replies  \* FunctionCallValidationError
     /\ log' = Append(log, Event("user"))
     /\ UNCHANGED <<status, todo>>
  \/ /\ "quiet" \in Replies      \* reasoning only, or an empty answer
     /\ log' = Append(log, Event("agent"))
     /\ UNCHANGED <<status, todo>>
  \/ /\ "message" \in Replies
     /\ Store(<<Event("agent")>> \o Changed("finished"))
     /\ status' = "finished"
     /\ UNCHANGED todo
  \/ "failure" \in Replies /\ Fail  \* any other exception
  \/ "thinking" \in Replies /\ ReplyCalls(TRUE)
  \/ "calls" \in Replies /\ ReplyCalls(FALSE)

\* The server dies while a reply with several events is being stored; after a
\* restart the conversation is in ERROR.
TearReply ==
  /\ "torn" \in Replies
  /\ \E calls \in AskedFor :
       LET events == CallEvents(calls, FALSE)
       IN \E k \in 1..(Len(events) - 1) : Store(SubSeq(events, 1, k) \o Changed("error"))
  /\ status' = "error"
  /\ UNCHANGED todo

Step ==
  /\ AtStep
  /\ \/ ExecutePending
     \/ /\ PendingActions = <<>>   \* and so status = "running"
        /\ \/ Condense
           \/ NothingToForget
           \/ SummaryFails
           \/ CallsLLM /\ (Ask \/ TearReply)

-----------------------------------------------------------------------------
(* Agent._execute_actions *)

Execute ==
  /\ todo # <<>>
  /\ LET n == Head(todo) IN
     \/ /\ \E kind \in Answers \cap {"observation", "error"}, content \in Contents :
             log' = Append(log, Result(kind, log[n].call,
                                       IF kind = "error" THEN 0 ELSE n, content))
        /\ todo' = Tail(todo)
        /\ UNCHANGED status
     \/ "exception" \in Answers /\ Fail

\* The server dies during a step and the conversation is restored.
Crash ==
  /\ todo # <<>>
  /\ "crash" \in Answers
  /\ status' = IF status = "running" THEN "error" ELSE status
  /\ Store(Changed(status'))
  /\ todo' = <<>>

-----------------------------------------------------------------------------
Next ==
  \/ SendMessage \/ RejectPendingActions \/ Pause \/ StartRun
  \/ DetectStuck \/ Step \/ Execute \/ Crash

Spec == Init /\ [][Next]_vars

-----------------------------------------------------------------------------
(* Properties *)

\* What is sent to the LLM (view.py, "Filter out unmatched tool call events"):
\* every action in it has a result that follows it, every result the action it
\* answers before it, and of an LLM response all actions are there or none,
\* however the log was condensed, torn by a crash or extended while an
\* action waited.
ViewMatched ==
  LET view == View
      kind == [i \in DOMAIN view |-> KindIn(log, view[i])]
      call == [i \in DOMAIN view |->
                 IF kind[i] \in Results \cup {"action"} THEN log[view[i]].call ELSE 0]
  IN \A i \in DOMAIN view :
       /\ kind[i] \in Results =>
            \E j \in 1..(i - 1) : kind[j] = "action" /\ call[j] = call[i]
       /\ kind[i] = "action" =>
            /\ BatchOf(log, view[i]) \subseteq Range(view)
            /\ \E j \in (i + 1)..Len(view) : kind[j] \in Results /\ call[j] = call[i]

Condensed == Last(log).kind = "condensation"

\* No crash has separated an invalid call from its error.
Whole ==
  \A a \in Actions(log) :
    log[a].valid \/ \E n \in DOMAIN log : log[n].kind = "error" /\ log[n].call = log[a].call

\* A condensation replaces one block of the view, behind its first KeepFirst
\* events, by the summary: the pairing and batch filters of the next view
\* remove nothing more.  And no other event makes the LLM forget one, but a
\* further action of the response that is being stored.  (For Whole logs: the
\* offset counts the view, the summary is put into what still holds events
\* that the view leaves out.)
CondensesInPlace ==
  Len(log) > 1 /\ Whole =>
    LET before == ViewOf(Front(log))
        after == ViewOf(log)
    IN IF Condensed
       THEN \E i \in KeepFirst..Len(before), j \in 1..Len(before) :
              /\ i < j
              /\ after = SubSeq(before, 1, i)
                           \o (IF Last(log).summary THEN <<-Len(log)>> ELSE <<>>)
                           \o SubSeq(before, j + 1, Len(before))
       ELSE Last(log).kind # "action" => Range(before) \subseteq Range(after)

\* A condensation leaves a shorter view (_get_forgotten_events: "how many
\* events we need to drop in order to maintain our resource constraints").
CondensingShrinks == Condensed => Len(ViewOf(log)) < Len(ViewOf(Front(log)))

\* No summary stands between a call and its result (view.py, "Inserting new
\* events: any returned index is safe").
SummaryBetweenUnits ==
  LET view == View
      kind == [i \in DOMAIN view |-> KindIn(log, view[i])]
  IN \A j, i, k \in DOMAIN view :
       /\ j < i /\ i < k
       /\ kind[j] = "action" /\ kind[i] = "summary" /\ kind[k] \in Results
       => log[view[j]].call # log[view[k]].call

\* An agent that is stuck for repeating an action and its observation has the
\* observations of these actions (stuck_detector.py, "Check for a loop of
\* identical action-observation pairs").
StuckOnPairs ==
  status = "stuck" /\ IsStuck(log) =>
    \/ RepeatsError(log) \/ TalksToItself(log) \/ Alternates(log)
    \/ LET actions == Latest(log, {"action"})
       IN \A i \in 1..ActionObservation :
            \E n \in DOMAIN log : log[n].kind = "observation" /\ log[n].action = actions[i]

\* From position s on the log holds valid calls, observations, all calls alike
\* and all observations alike, and updates.
Repeats(s) ==
  \A n \in s..Len(log) :
    /\ log[n].kind \in {"action", "observation", "update"}
    /\ log[n].kind = "action" => log[n].valid
    /\ \A m \in s..Len(log) :
         log[n].kind # "update" /\ log[m].kind = log[n].kind => log[m].content = log[n].content

\* The agent does not go on repeating one call that always ends in the same
\* way, as long as what it repeats is in the window of the stuck detector:
\* the calls are not more than the step that completed the threshold could
\* make (stuck_detector.py, "Check for a loop of identical action-observation
\* pairs").  The updates of a status count for the window: a call that is
\* confirmed takes five events of it, one that is paused and resumed as well,
\* eight.
RepetitionBounded ==
  \A s \in DOMAIN log :
    LET calls == {n \in s..Len(log) : log[n].kind = "action"}
    IN Repeats(s) /\ (\A n \in calls : log[n].response - s <= Window)
       => Cardinality(calls) < ActionObservation + MaxBatch
=============================================================================
