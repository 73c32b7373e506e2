----------------------------- MODULE AgentRunner -----------------------------
(***************************************************************************)
(* One conversation's main agent: AgentRunner.run and send_message, the    *)
(* Agent.step they drive, and the LocalConversation operations that other  *)
(* threads call meanwhile (pause, reject_pending_actions,                  *)
(* respond_to_memory_review, condense).                                    *)
(*                                                                         *)
(* Two locks protect this state and they are different locks: run and      *)
(* send_message hold AgentRunner._lock (runnerLock), the LocalConversation *)
(* operations hold ConversationState._lock (stateLock).  A thread is       *)
(* cut where it reads or writes state another thread may write, so that    *)
(* everything the other lock's holders can do in between does happen.      *)
(*                                                                         *)
(* The event log is kept as what its readers ask of it: how many           *)
(* executable ActionEvents it holds (their ids are 1..issued, in log       *)
(* order), which observation, rejection and error events answer each of    *)
(* them, and whether the last user message was blocked by a hook, or has    *)
(* been shown to the LLM.                                                   *)
(***************************************************************************)
EXTENDS Naturals

CONSTANTS
  Runs,           \* invocations of AgentRunner.run, one thread each
  Senders,        \* invocations of send_message
  Rejecters,      \* invocations of reject_pending_actions
  Reviewers,      \* invocations of respond_to_memory_review
  Condensers,     \* invocations of condense
  NoThread,       \* owner of a free lock
  MaxActions,     \* bound: executable actions the LLM may ask for in total
  MaxBatch,       \* bound: executable actions in one LLM response
  MaxIterations,  \* max_iteration_per_run
  MaxPauses,      \* bound: calls of pause() that find the agent not paused
  Policy,         \* RunnerContext.confirmation_policy
  StuckDetection, \* a stuck detector is configured
  Hooks,          \* the configured hooks that may block
  Replies,        \* what the LLM may answer
  ToolResults,    \* how a tool call may end
  Kinds           \* the tools the LLM may call

Threads == Runs \cup Senders \cup Rejecters \cup Reviewers \cup Condensers
ActionIds == 1..MaxActions

Statuses == {"idle", "running", "paused", "waiting_for_confirmation",
             "finished", "error", "stuck"}
Policies == {"never", "always", "risky"}
Answers == {"observation", "rejection", "error"}

ASSUME ThreadAssumption ==
  /\ NoThread \notin Threads
  /\ Runs \cap (Senders \cup Rejecters \cup Reviewers \cup Condensers) = {}
  /\ Condensers \cap (Senders \cup Rejecters \cup Reviewers) = {}
  /\ Senders \cap (Rejecters \cup Reviewers) = {}
  /\ Rejecters \cap Reviewers = {}

ASSUME BoundAssumption ==
  /\ MaxActions \in Nat
  /\ MaxBatch \in Nat
  /\ MaxIterations \in Nat \ {0}
  /\ MaxPauses \in Nat

ASSUME EnvironmentAssumption ==
  /\ Policy \in Policies
  /\ StuckDetection \in BOOLEAN
  /\ Hooks \subseteq {"stop", "pre_tool_use", "user_prompt_submit"}
  /\ Replies \subseteq {"message", "quiet", "malformed", "tools", "failure"}
  /\ ToolResults \subseteq {"observation", "value_error", "exception"}
  /\ Kinds \subseteq {"plain", "finish", "think", "memory_review"}

VARIABLES
  status,      \* AgentState.execution_status
  runnerLock,  \* owner of AgentRunner._lock
  stateLock,   \* owner of ConversationState._lock, held across several steps
  pc,          \* where each thread is
  iteration,   \* run()'s local iteration counter
  queue,       \* local list of actions a step executes or a call answers
  issued,      \* executable ActionEvents in the log
  kind,        \* tool_name of each of them
  answers,     \* the events of the log that answer each of them
  blocked,     \* AgentState.blocked_actions
  prompt,      \* last user message: "blocked" by a hook, "open", or "seen" by a step
  pauses,      \* calls of pause() that took effect
  invoked,     \* history: executions started of each action
  denied,      \* history: actions a PreToolUse hook blocked
  pausedIn     \* history: where the last pause() found each run, until a
               \* message or a pause undoes FINISHED

logVars == <<issued, kind, answers, blocked, prompt>>
histVars == <<pauses, invoked, denied, pausedIn>>
vars == <<status, runnerLock, stateLock, pc, iteration, queue, logVars, histVars>>

(***************************************************************************)
(* Where a thread can be.  Inside a step ("step" to "over") a run holds    *)
(* the runner lock, a condense() the state lock.                           *)
(***************************************************************************)
StepPCs == {"step", "llm", "emit", "decide", "exec", "reject", "tool", "finish", "over"}
HookPCs == {"stopHook", "denied"}
CheckPCs == {"finishedCheck", "stuckCheck", "waitCheck", "unwait"}
PCs == StepPCs \cup HookPCs \cup CheckPCs
       \cup {"ready", "entry", "mark", "loop", "limit", "raise", "done"}
       \cup {"post", "reopen", "answer", "publish"}

InStep(t) == pc[t] \in StepPCs

Goto(t, place) == pc' = [pc EXCEPT ![t] = place]

(***************************************************************************)
(* The two versions of get_unmatched_actions.  The one a step uses ignores *)
(* AgentErrorEvent; the one the conversation's calls use does not.         *)
(***************************************************************************)
RunnerUnmatched ==
  {a \in 1..issued : answers[a] \cap {"observation", "rejection"} = {}}
StateUnmatched == {a \in 1..issued : answers[a] = {}}

IsFirst(a, S) == a \in S /\ \A b \in S : a <= b

\* A user message reaches the log; the UserPromptSubmit hook may block it.
PublishUserMessage ==
  prompt' \in {"open"} \cup (IF "user_prompt_submit" \in Hooks THEN {"blocked"} ELSE {})

-----------------------------------------------------------------------------
Init ==
  /\ status = "idle"
  /\ runnerLock = NoThread
  /\ stateLock = NoThread
  /\ pc = [t \in Threads |-> "ready"]
  /\ iteration = [r \in Runs |-> 0]
  /\ queue = [t \in Threads |-> {}]
  /\ issued = 0
  /\ kind = [a \in ActionIds |-> "plain"]
  /\ answers = [a \in ActionIds |-> {}]
  /\ blocked = {}
  /\ prompt = "none"
  /\ pauses = 0
  /\ invoked = [a \in ActionIds |-> 0]
  /\ denied = {}
  /\ pausedIn = [r \in Runs |-> "never"]

-----------------------------------------------------------------------------
(* AgentRunner.run: entry, and the checks at the top of each iteration.     *)

Launch(r) ==
  /\ pc[r] = "ready"
  /\ Goto(r, "entry")
  /\ UNCHANGED <<status, runnerLock, stateLock, iteration, queue, logVars, histVars>>

Enter(r) ==
  /\ pc[r] = "entry"
  /\ runnerLock = NoThread
  /\ \/ /\ status \in {"idle", "paused", "error"}
        /\ runnerLock' = r
        /\ Goto(r, "mark")
     \/ /\ status \notin {"idle", "paused", "error"}
        /\ Goto(r, "loop")
        /\ UNCHANGED runnerLock
  /\ UNCHANGED <<status, stateLock, iteration, queue, logVars, histVars>>

\* mark_running at the entry, and the release at the end of its with block.
MarkRunning(r) ==
  /\ pc[r] = "mark"
  /\ status' = "running"
  /\ runnerLock' = NoThread
  /\ Goto(r, "loop")
  /\ UNCHANGED <<stateLock, iteration, queue, logVars, histVars>>

\* Mutant of MustBreak: the pause flag is not looked at.
BreakIfStuck == status = "stuck"

MustBreak == status \in {"paused", "stuck"}

TopOfLoop(r) ==
  /\ pc[r] = "loop"
  /\ runnerLock = NoThread
  /\ \/ /\ MustBreak
        /\ Goto(r, "done")
        /\ UNCHANGED runnerLock
     \/ /\ ~MustBreak
        /\ runnerLock' = r
        /\ Goto(r, "finishedCheck")
  /\ UNCHANGED <<status, stateLock, iteration, queue, logVars, histVars>>

CheckFinished(r) ==
  /\ pc[r] = "finishedCheck"
  /\ \/ /\ status = "finished" /\ "stop" \in Hooks
        /\ Goto(r, "stopHook")
        /\ UNCHANGED runnerLock
     \/ /\ status = "finished" /\ "stop" \notin Hooks
        /\ Goto(r, "done")
        /\ runnerLock' = NoThread
     \/ /\ status # "finished"
        /\ Goto(r, "stuckCheck")
        /\ UNCHANGED runnerLock
  /\ UNCHANGED <<status, stateLock, iteration, queue, logVars, histVars>>

StopHookAllows(r) ==
  /\ pc[r] = "stopHook"
  /\ runnerLock' = NoThread
  /\ Goto(r, "done")
  /\ UNCHANGED <<status, stateLock, iteration, queue, logVars, histVars>>

\* The hook refuses the stop; its feedback, if any, is a user message.
StopHookDenies(r) ==
  /\ pc[r] = "stopHook"
  /\ PublishUserMessage \/ UNCHANGED prompt
  /\ Goto(r, "denied")
  /\ UNCHANGED <<status, runnerLock, stateLock, iteration, queue,
                 issued, kind, answers, blocked, histVars>>

\* Mutant of ResumeAfterDenial: the run goes on, its status stays FINISHED.
ResumeFinished(r) ==
  /\ pc[r] = "denied"
  /\ runnerLock' = NoThread
  /\ Goto(r, "loop")
  /\ UNCHANGED <<status, stateLock, iteration, queue, logVars, histVars>>

ResumeAfterDenial(r) ==
  /\ pc[r] = "denied"
  /\ status' = "running"
  /\ runnerLock' = NoThread
  /\ Goto(r, "loop")
  /\ UNCHANGED <<stateLock, iteration, queue, logVars, histVars>>

\* The detector reads the log only; AgentRunner sees just its verdict.
DetectStuck(r) ==
  /\ pc[r] = "stuckCheck"
  /\ \/ /\ StuckDetection
        /\ status' = "stuck"
        /\ runnerLock' = NoThread
        /\ Goto(r, "loop")
     \/ /\ Goto(r, "waitCheck")
        /\ UNCHANGED <<status, runnerLock>>
  /\ UNCHANGED <<stateLock, iteration, queue, logVars, histVars>>

\* Mutant of CheckWaiting: the lock is not kept for the duration of the step.
CheckWaitingUnlocks(r) ==
  /\ pc[r] = "waitCheck"
  /\ Goto(r, IF status = "waiting_for_confirmation" THEN "unwait" ELSE "step")
  /\ runnerLock' = NoThread
  /\ UNCHANGED <<status, stateLock, iteration, queue, logVars, histVars>>

CheckWaiting(r) ==
  /\ pc[r] = "waitCheck"
  /\ Goto(r, IF status = "waiting_for_confirmation" THEN "unwait" ELSE "step")
  /\ UNCHANGED <<status, runnerLock, stateLock, iteration, queue, logVars, histVars>>

ResetWaiting(r) ==
  /\ pc[r] = "unwait"
  /\ status' = "running"
  /\ Goto(r, "step")
  /\ UNCHANGED <<runnerLock, stateLock, iteration, queue, logVars, histVars>>

-----------------------------------------------------------------------------
(* Agent.step, by a run or by a condense.                                   *)

\* Actions the log leaves unanswered are executed before anything else.
ExecutePending(t) ==
  /\ pc[t] = "step"
  /\ RunnerUnmatched # {}
  /\ queue' = [queue EXCEPT ![t] = RunnerUnmatched]
  /\ Goto(t, "exec")
  /\ UNCHANGED <<status, runnerLock, stateLock, iteration, logVars, histVars>>

SkipBlockedPrompt(t) ==
  /\ pc[t] = "step"
  /\ RunnerUnmatched = {}
  /\ prompt = "blocked"
  /\ prompt' = "seen"
  /\ Goto(t, "finish")
  /\ UNCHANGED <<status, runnerLock, stateLock, iteration, queue,
                 issued, kind, answers, blocked, histVars>>

AskLLM(t) ==
  /\ pc[t] = "step"
  /\ RunnerUnmatched = {}
  /\ prompt # "blocked"
  /\ prompt' = IF prompt = "open" THEN "seen" ELSE prompt
  /\ Goto(t, "llm")
  /\ UNCHANGED <<status, runnerLock, stateLock, iteration, queue,
                 issued, kind, answers, blocked, histVars>>

\* An agent message with content ends the task; one without (reasoning only),
\* a condensation or a condensation request leaves the loop to go on.
ReplyMessage(t) ==
  /\ pc[t] = "llm"
  /\ "message" \in Replies
  /\ Goto(t, "finish")
  /\ UNCHANGED <<status, runnerLock, stateLock, iteration, queue, logVars, histVars>>

ReplyQuiet(t) ==
  /\ pc[t] = "llm"
  /\ "quiet" \in Replies
  /\ Goto(t, "over")
  /\ UNCHANGED <<status, runnerLock, stateLock, iteration, queue, logVars, histVars>>

\* A malformed function call comes back to the LLM as a user message.
ReplyMalformed(t) ==
  /\ pc[t] = "llm"
  /\ "malformed" \in Replies
  /\ PublishUserMessage
  /\ Goto(t, "over")
  /\ UNCHANGED <<status, runnerLock, stateLock, iteration, queue,
                 issued, kind, answers, blocked, histVars>>

ReplyToolCalls(t) ==
  /\ pc[t] = "llm"
  /\ "tools" \in Replies
  /\ Goto(t, "emit")
  /\ UNCHANGED <<status, runnerLock, stateLock, iteration, queue, logVars, histVars>>

\* _get_action_event for a valid call: the hook's verdict, then the log.  An
\* invalid call leaves an action-less event and its error: nothing to execute.
EmitAction(t, k) ==
  LET a == issued + 1 IN
  /\ pc[t] = "emit"
  /\ issued < MaxActions
  /\ \A b \in queue[t] : b + MaxBatch > a
  /\ issued' = a
  /\ kind' = [kind EXCEPT ![a] = k]
  /\ queue' = [queue EXCEPT ![t] = @ \cup {a}]
  /\ \/ UNCHANGED <<blocked, denied>>
     \/ /\ "pre_tool_use" \in Hooks
        /\ blocked' = blocked \cup {a}
        /\ denied' = denied \cup {a}
  /\ UNCHANGED <<status, runnerLock, stateLock, pc, iteration, answers, prompt,
                 pauses, invoked, pausedIn>>

LastCallEmitted(t) ==
  /\ pc[t] = "emit"
  /\ Goto(t, IF queue[t] = {} THEN "over" ELSE "decide")
  /\ UNCHANGED <<status, runnerLock, stateLock, iteration, queue, logVars, histVars>>

\* _requires_user_confirmation over this response's actions.  A single finish
\* or think is exempt.  should_confirm is given the risk in the place of the
\* action, which the policy that looks at the action does not survive.
Confirmable(batch) ==
  \A a \in batch : batch = {a} => kind[a] \notin {"finish", "think"}

PolicyRaises(batch) == Confirmable(batch) /\ Policy = "risky"

NeedsConfirmation(batch) ==
  /\ Confirmable(batch)
  /\ Policy = "always" \/ \E a \in batch : kind[a] = "memory_review"

AskConfirmation(t) ==
  /\ pc[t] = "decide"
  /\ NeedsConfirmation(queue[t]) /\ ~PolicyRaises(queue[t])
  /\ status' = "waiting_for_confirmation"
  /\ queue' = [queue EXCEPT ![t] = {}]
  /\ Goto(t, "over")
  /\ UNCHANGED <<runnerLock, stateLock, iteration, logVars, histVars>>

ExecuteBatch(t) ==
  /\ pc[t] = "decide"
  /\ ~NeedsConfirmation(queue[t]) /\ ~PolicyRaises(queue[t])
  /\ Goto(t, "exec")
  /\ UNCHANGED <<status, runnerLock, stateLock, iteration, queue, logVars, histVars>>

\* The list is done with a and moves to the next action, or is through.
Advance(t, a) ==
  /\ queue' = [queue EXCEPT ![t] = @ \ {a}]
  /\ Goto(t, IF queue[t] = {a} THEN "over" ELSE "exec")

Answer(a, what) == answers' = [answers EXCEPT ![a] = @ \cup {what}]

\* The block is consumed first, the log told after.
PopBlockedAction(t, a) ==
  /\ pc[t] = "exec" /\ IsFirst(a, queue[t])
  /\ a \in blocked
  /\ blocked' = blocked \ {a}
  /\ Goto(t, "reject")
  /\ UNCHANGED <<status, runnerLock, stateLock, iteration, queue, issued, kind,
                 answers, prompt, histVars>>

\* Mutant of PublishRejection: the log is never told.
DropRejection(t, a) ==
  /\ pc[t] = "reject" /\ IsFirst(a, queue[t])
  /\ Advance(t, a)
  /\ UNCHANGED <<status, runnerLock, stateLock, iteration, logVars, histVars>>

PublishRejection(t, a) ==
  /\ pc[t] = "reject" /\ IsFirst(a, queue[t])
  /\ Answer(a, "rejection")
  /\ Advance(t, a)
  /\ UNCHANGED <<status, runnerLock, stateLock, iteration, issued, kind, blocked,
                 prompt, histVars>>

StartTool(t, a) ==
  /\ pc[t] = "exec" /\ IsFirst(a, queue[t])
  /\ a \notin blocked
  /\ invoked' = [invoked EXCEPT ![a] = @ + 1]
  /\ Goto(t, "tool")
  /\ UNCHANGED <<status, runnerLock, stateLock, iteration, queue, logVars,
                 pauses, denied, pausedIn>>

\* The observation; the finish tool then sets FINISHED, in a step of its own.
ToolReturns(t, a) ==
  /\ pc[t] = "tool" /\ IsFirst(a, queue[t])
  /\ "observation" \in ToolResults
  /\ Answer(a, "observation")
  /\ IF kind[a] = "finish"
     THEN Goto(t, "finish") /\ queue' = [queue EXCEPT ![t] = @ \ {a}]
     ELSE Advance(t, a)
  /\ UNCHANGED <<status, runnerLock, stateLock, iteration, issued, kind, blocked,
                 prompt, histVars>>

ToolValueError(t, a) ==
  /\ pc[t] = "tool" /\ IsFirst(a, queue[t])
  /\ "value_error" \in ToolResults
  /\ Answer(a, "error")
  /\ Advance(t, a)
  /\ UNCHANGED <<status, runnerLock, stateLock, iteration, issued, kind, blocked,
                 prompt, histVars>>

SetFinished(t) ==
  /\ pc[t] = "finish"
  /\ status' = "finished"
  /\ Goto(t, IF queue[t] = {} THEN "over" ELSE "exec")
  /\ UNCHANGED <<runnerLock, stateLock, iteration, queue, logVars, histVars>>

\* Any other exception leaves the step, and the locks its callers hold.
RaisesIn(t) ==
  \/ pc[t] = "llm" /\ "failure" \in Replies
  \/ pc[t] = "decide" /\ PolicyRaises(queue[t])
  \/ pc[t] = "tool" /\ "exception" \in ToolResults

StepRaises(t) ==
  /\ RaisesIn(t)
  /\ queue' = [queue EXCEPT ![t] = {}]
  /\ \/ /\ t \in Runs
        /\ runnerLock' = NoThread
        /\ Goto(t, "raise")
        /\ UNCHANGED stateLock
     \/ /\ t \in Condensers
        /\ stateLock' = NoThread
        /\ Goto(t, "done")
        /\ UNCHANGED runnerLock
  /\ UNCHANGED <<status, iteration, logVars, histVars>>

Step(t) ==
  \/ ExecutePending(t) \/ SkipBlockedPrompt(t) \/ AskLLM(t)
  \/ ReplyMessage(t) \/ ReplyQuiet(t) \/ ReplyMalformed(t) \/ ReplyToolCalls(t)
  \/ \E k \in Kinds : EmitAction(t, k)
  \/ LastCallEmitted(t) \/ AskConfirmation(t) \/ ExecuteBatch(t)
  \/ \E a \in queue[t] : \/ PopBlockedAction(t, a) \/ PublishRejection(t, a)
                         \/ StartTool(t, a)
                         \/ ToolReturns(t, a) \/ ToolValueError(t, a)
  \/ SetFinished(t) \/ StepRaises(t)

-----------------------------------------------------------------------------
(* The end of an iteration, and of a run that fails.                        *)

LimitReached(r) == iteration[r] + 1 >= MaxIterations

StepOver(r) ==
  /\ pc[r] = "over"
  /\ iteration' = [iteration EXCEPT ![r] = @ + 1]
  /\ \/ /\ status = "waiting_for_confirmation"
        /\ Goto(r, "done")
        /\ runnerLock' = NoThread
     \/ /\ status # "waiting_for_confirmation"
        /\ LimitReached(r)
        /\ Goto(r, "limit")
        /\ UNCHANGED runnerLock
     \/ /\ status # "waiting_for_confirmation"
        /\ ~LimitReached(r)
        /\ Goto(r, "loop")
        /\ runnerLock' = NoThread
  /\ UNCHANGED <<status, stateLock, queue, logVars, histVars>>

\* MaxIterationsReached: whatever the step left in status is overwritten.
ReachLimit(r) ==
  /\ pc[r] = "limit"
  /\ status' = "error"
  /\ runnerLock' = NoThread
  /\ Goto(r, "done")
  /\ UNCHANGED <<stateLock, iteration, queue, logVars, histVars>>

\* The except clause of run: the runner lock is already released.
\* Mutant of FailRun: the exception is only passed on.
FailRunSilently(r) ==
  /\ pc[r] = "raise"
  /\ Goto(r, "done")
  /\ UNCHANGED <<status, runnerLock, stateLock, iteration, queue, logVars, histVars>>

FailRun(r) ==
  /\ pc[r] = "raise"
  /\ status' = "error"
  /\ Goto(r, "done")
  /\ UNCHANGED <<runnerLock, stateLock, iteration, queue, logVars, histVars>>

RunNext(r) ==
  \/ Enter(r) \/ MarkRunning(r) \/ TopOfLoop(r) \/ CheckFinished(r)
  \/ StopHookAllows(r) \/ StopHookDenies(r) \/ ResumeAfterDenial(r)
  \/ DetectStuck(r) \/ CheckWaiting(r) \/ ResetWaiting(r)
  \/ Step(r) \/ StepOver(r) \/ ReachLimit(r) \/ FailRun(r)

-----------------------------------------------------------------------------
(* send_message: the runner lock is held from the status check to the log.  *)

\* Mutant of SendMessage: a finished agent is not reopened.
SendOnly(s) ==
  /\ pc[s] = "ready"
  /\ runnerLock = NoThread
  /\ runnerLock' = s
  /\ Goto(s, "post")
  /\ UNCHANGED <<status, stateLock, iteration, queue, logVars, histVars>>

SendMessage(s) ==
  /\ pc[s] = "ready"
  /\ runnerLock = NoThread
  /\ runnerLock' = s
  /\ Goto(s, IF status = "finished" THEN "reopen" ELSE "post")
  /\ UNCHANGED <<status, stateLock, iteration, queue, logVars, histVars>>

ReopenFinished(s) ==
  /\ pc[s] = "reopen"
  /\ status' = "idle"
  /\ Goto(s, "post")
  /\ pausedIn' = [r \in Runs |-> "never"]
  /\ UNCHANGED <<runnerLock, stateLock, iteration, queue, logVars, pauses, invoked, denied>>

PostMessage(s) ==
  /\ pc[s] = "post"
  /\ PublishUserMessage
  /\ runnerLock' = NoThread
  /\ Goto(s, "done")
  /\ UNCHANGED <<status, stateLock, iteration, queue,
                 issued, kind, answers, blocked, histVars>>

SendNext(s) == ReopenFinished(s) \/ PostMessage(s)

-----------------------------------------------------------------------------
(* The calls that answer pending actions.  They read what is pending before *)
(* they ask for the state lock.                                             *)

ReadPending(j) ==
  /\ pc[j] = "ready"
  /\ j \in Rejecters
  /\ queue' = [queue EXCEPT ![j] = StateUnmatched]
  /\ Goto(j, "answer")
  /\ UNCHANGED <<status, runnerLock, stateLock, iteration, logVars, histVars>>

PendingReviews == {a \in StateUnmatched : kind[a] = "memory_review"}

ReadPendingReview(j) ==
  /\ pc[j] = "ready"
  /\ j \in Reviewers
  /\ \/ /\ PendingReviews = {}
        /\ Goto(j, "done")
        /\ UNCHANGED queue
     \/ \E a \in PendingReviews :
          /\ IsFirst(a, PendingReviews)
          /\ queue' = [queue EXCEPT ![j] = {a}]
          /\ Goto(j, "answer")
  /\ UNCHANGED <<status, runnerLock, stateLock, iteration, logVars, histVars>>

ClearWaiting(j) ==
  /\ pc[j] = "answer"
  /\ stateLock = NoThread
  /\ status' = IF status = "waiting_for_confirmation" THEN "idle" ELSE status
  /\ \/ /\ queue[j] = {}
        /\ Goto(j, "done")
        /\ UNCHANGED stateLock
     \/ /\ queue[j] # {}
        /\ stateLock' = j
        /\ Goto(j, "publish")
  /\ UNCHANGED <<runnerLock, iteration, queue, logVars, histVars>>

PublishAnswer(j, a) ==
  /\ pc[j] = "publish" /\ IsFirst(a, queue[j])
  /\ Answer(a, IF j \in Rejecters THEN "rejection" ELSE "observation")
  /\ queue' = [queue EXCEPT ![j] = @ \ {a}]
  /\ IF queue[j] = {a}
     THEN Goto(j, "done") /\ stateLock' = NoThread
     ELSE UNCHANGED <<pc, stateLock>>
  /\ UNCHANGED <<status, runnerLock, iteration, issued, kind, blocked, prompt,
                 histVars>>

AnswerNext(j) == ClearWaiting(j) \/ \E a \in queue[j] : PublishAnswer(j, a)

-----------------------------------------------------------------------------
(* pause and condense.                                                      *)

Pause ==
  /\ pauses < MaxPauses
  /\ stateLock = NoThread
  /\ status # "paused"
  /\ status' = "paused"
  /\ pauses' = pauses + 1
  /\ pausedIn' = [r \in Runs |-> IF InStep(r) THEN "step"
                                 ELSE IF pc[r] \in {"mark", "loop"} THEN "between"
                                 ELSE IF status = "finished" THEN "never"
                                 ELSE pausedIn[r]]
  /\ UNCHANGED <<runnerLock, stateLock, pc, iteration, queue, logVars, invoked, denied>>

\* The CondensationRequest goes to the conversation's consumers only, not to
\* the agent's event log; then one step is taken under the state lock.
Condense(c) ==
  /\ pc[c] = "ready"
  /\ stateLock = NoThread
  /\ stateLock' = c
  /\ Goto(c, "step")
  /\ UNCHANGED <<status, runnerLock, iteration, queue, logVars, histVars>>

CondenseOver(c) ==
  /\ pc[c] = "over"
  /\ stateLock' = NoThread
  /\ Goto(c, "done")
  /\ UNCHANGED <<status, runnerLock, iteration, queue, logVars, histVars>>

CondenseNext(c) == Step(c) \/ CondenseOver(c)

-----------------------------------------------------------------------------
AllDone == (\A t \in Threads : pc[t] = "done") /\ UNCHANGED vars

Next ==
  \/ \E r \in Runs : Launch(r) \/ RunNext(r)
  \/ \E s \in Senders : SendMessage(s) \/ SendNext(s)
  \/ \E j \in Rejecters : ReadPending(j) \/ AnswerNext(j)
  \/ \E j \in Reviewers : ReadPendingReview(j) \/ AnswerNext(j)
  \/ \E c \in Condensers : Condense(c) \/ CondenseNext(c)
  \/ Pause
  \/ AllDone

\* Users owe nothing; a thread that has started its call goes on, the LLM and
\* the tools answer.
Fairness ==
  /\ \A r \in Runs : WF_vars(RunNext(r))
  /\ \A s \in Senders : WF_vars(SendNext(s))
  /\ \A j \in Rejecters \cup Reviewers : WF_vars(AnswerNext(j))
  /\ \A c \in Condensers : WF_vars(CondenseNext(c))

Spec == Init /\ [][Next]_vars
FairSpec == Spec /\ Fairness

-----------------------------------------------------------------------------
(* Properties.                                                              *)

\* Every variable has its type; queues hold actions that are in the log.
TypeOK ==
  /\ status \in Statuses
  /\ runnerLock \in Threads \cup {NoThread}
  /\ stateLock \in Threads \cup {NoThread}
  /\ pc \in [Threads -> PCs]
  /\ iteration \in [Runs -> 0..MaxIterations]
  /\ queue \in [Threads -> SUBSET ActionIds]
  /\ issued \in 0..MaxActions
  /\ kind \in [ActionIds -> {"plain", "finish", "think", "memory_review"}]
  /\ answers \in [ActionIds -> SUBSET Answers]
  /\ blocked \subseteq ActionIds
  /\ prompt \in {"none", "open", "blocked", "seen"}
  /\ pauses \in 0..MaxPauses
  /\ invoked \in [ActionIds -> Nat]
  /\ denied \subseteq ActionIds
  /\ pausedIn \in [Runs -> {"never", "step", "between"}]

Active(r) == pc[r] \notin {"ready", "done"}

\* The agent never stays RUNNING with nobody running it: whichever way the last
\* run leaves its loop (a break, the iteration limit, an exception), and
\* whatever other threads did to the status meanwhile, it has left a status
\* from which the user can start a run again.
NoOrphanRunning == status = "running" => \E r \in Runs : Active(r)

\* Steps of different runs never overlap, whatever number of runs the callers
\* start: each iteration is under the runner's lock.
OneRunSteps == \A r, s \in Runs : InStep(r) /\ InStep(s) => r = s

\* Once the log holds the observation of an action, no run executes its tool
\* again: the pending list is computed and worked off under one lock.
ObservedNeverRerun ==
  [][\A a \in ActionIds : "observation" \in answers[a] => invoked'[a] = invoked[a]]_vars

\* The tool of an action that a PreToolUse hook blocked is never executed, not
\* even when the action waits for confirmation and a later run picks it up.
DeniedNeverRuns == \A a \in denied : invoked[a] = 0

\* A pause() that comes while a step is in progress makes that step the run's
\* last one, whatever status the step itself ends with; only a message or a
\* second pause() that undoes the FINISHED of that step lets the run go on.
PauseIsLastStep ==
  [][\A r \in Runs : pausedIn[r] = "step" /\ ~InStep(r) => pc'[r] # "step"]_vars

\* When the agent rests FINISHED the last user message has been shown to the
\* LLM (or skipped because a hook blocked it): it is not left behind.
FinishedSawPrompt ==
  status = "finished" /\ runnerLock = NoThread => prompt \in {"none", "seen"}

\* Every started run returns: no break is lost to a concurrent status change,
\* and a refused stop or a stuck loop does not go round for ever.
RunTerminates == \A r \in Runs : pc[r] = "entry" ~> pc[r] = "done"

\* What condense()'s docstring says: it waits for the step in progress.
CondenseWaitsForStep ==
  \A c \in Condensers, r \in Runs : ~(InStep(c) /\ InStep(r))

\* What pause()'s docstring says: it takes effect at the next iteration, so a
\* run that is paused before it starts one takes no step any more.
PauseTakesEffect ==
  [][\A r \in Runs : pausedIn[r] = "between" => pc'[r] # "step"]_vars

\* What the comment on ToolValueError's handler says: the error goes back to
\* the agent, which corrects itself, instead of the call being repeated.
ErrorGoesBackToAgent ==
  [][\A a \in ActionIds : "error" \in answers[a] => invoked'[a] = invoked[a]]_vars
=============================================================================
