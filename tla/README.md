# Zest-Agent in TLA+

Specifications of the parts of Zest-Agent whose correctness depends on the order
in which threads, coroutines, processes, clients and crashes act, with TLC runs
on small instances and TLAPS proofs for every instance. Paths below are relative
to the repository: `SDK` is `zest-agent-server/zest-sdk/sdk`, `SVC` is
`zest-agent-server/zest-service/server`, `APP` is `zest-app-server/app/core`,
`COM` is `zest-common/common`, `WEB` is `zest-web/src`.

## The system

A web client talks to the application server, which schedules each conversation
on one of several agent servers and then leaves the client to talk to that one.
An agent server keeps an `EventService` per open conversation; its coroutines
call a `LocalConversation` in executor threads; the conversation drives one main
agent, whose run loop asks an LLM and executes tools. Events flow from the agent
through the event center to the logs, the snapshot, the webhooks and the web
sockets, and from a socket into the client's store.

| component | state | operations | what makes it correct |
|---|---|---|---|
| `SDK/agent/agent_runner.py`, `agent.py`, `runner_context.py` | status, pending and blocked actions, the log of events, the runner's lock | `run`, `send_message`, `step` | one step at a time; an action runs once and never after it was denied; RUNNING is never left behind; a finished agent has seen its last message; every run returns |
| `SDK/conversation/impl` | the conversation's lock | `pause`, `reject_pending_actions`, `respond_to_memory_review`, `condense` | these calls act on the same status under a *different* lock |
| `SDK/utils/fifo_lock.py` | owner, depth, queue of waiters | `acquire`, `release` | no lost wakeup, first come first served |
| `SDK/context/view.py`, `condenser`, `SDK/agent/stuck_detection` | none: functions of the log | view, condense, is_stuck | a call and its result are kept or forgotten together; repetition ends |
| `SVC/event_service.py` | `_run_task` | `run`, `send_message`, `respond_to_confirmation`, `start` | one run per conversation; nothing executed that needs a confirmation and has none; a restart leaves a usable status |
| `SVC/conversation_service.py`, `SDK/conversation/persistence*.py` | table of event services; settings and status on disk | create, resume, delete, stop, restart | who runs a conversation; which settings and status survive |
| `SVC/conversation_service.py` (webhooks), `pub_sub.py`, `sockets.py`, `SDK/event/event_center.py` | queue, timer, posts, subscribers | publish, post, retry, flush, subscribe, resend | no event lost, none twice, every client complete |
| `COM/storage/event_log` | event files, index, length | open, append, scan | an append is found again, once, in order, by every process |
| `SVC/agent_registry.py`, `APP/registry` | server entries with an expiry, cache | heartbeat, deregister, watch | a live server is offered, a dead one is not for ever |
| `APP/services/scheduler.py`, `dispatcher.py`, `task_service.py` | tasks | schedule, retry on another server | a conversation lives on one server; the task says which; every call ends |
| `WEB/contexts`, `WEB/hooks/useWorkspaceRuntime.ts`, `WEB/stores` | the conversation shown, the socket, its retries, the events | select, open, send, leave | one live socket; a broken one is retried; what arrived is shown |
| memory, sub-agents, LLM client, tools, storage, auth, configuration | own stores | see PROJECT.json | see "Not modelled" |

The hard behaviour is concurrency without a common lock (the runner's lock, the
conversation's lock and the event loop each protect the same status), status
fields with several writers, retries and restarts that repeat work, callbacks
after a long drain, answers and close events out of order, and functions of a
log that many actors have grown. PROJECT.json lists each such place as a hazard
at its line, with the properties that cover it.

## Modules

| module | models | code |
|---|---|---|
| `AgentRunner` | one conversation's agent: run loop, step, messages, and the calls of other threads | `agent_runner.py`, `agent.py`, `conversation_impl.py`, hooks |
| `EventService` (extends `AgentRunner`) | who starts runs, accepted confirmations, follow-ups of messages, the task that drains, crash and restart | `event_service.py` |
| `FifoLock` | the lock of `ConversationState` | `fifo_lock.py` |
| `ContextView`, `StuckDetection` (with `Subsequences`) | the functions of the log | `view.py`, `llm_summarizing_condenser.py`, `stuck_detector.py` |
| `AgentHistory` (extends both) | the log that a step, the user and failing runs grow | `agent.py`, `agent_runner.py`, `agent_state.py` |
| `Conversations` | the services of one conversation on one server, and what is stored of it | `conversation_service.py`, `event_service.py`, `persistence_manager.py` |
| `EventFlow` | an event from its publication to the log, a webhook and a web socket | `event_center.py`, `pub_sub.py`, `conversation_service.py`, `sockets.py` |
| `AppendOnlyLog` | what an event log promises | |
| `EventLog` (refines it) | the directory, the lock file and the processes | `event_store.py`, `file_store/local.py` |
| `AgentRegistry` | servers, their entries and the cache | `agent_registry.py`, `local_registry.py` |
| `Dispatch` (extends it) | the tasks of one conversation and the requests to the servers | `scheduler.py`, `dispatcher.py`, `task_service.py` |
| `WebClient` | the workspace page | `ConversationWebSocketContext.tsx`, `useWorkspaceRuntime.ts`, `useEventStore.ts` |
| `EventServiceProofs` (also of `AgentRunner`), `FifoLockProofs`, `AgentHistoryProofs` (also of `ContextView` and `StuckDetection`), `EventLogProofs`, `DispatchProofs`, `ConversationsProofs`, `EventFlowProofs`, `WebClientProofs` | theorems and their proofs | |
| `MC...` | what TLC needs besides: symmetry, names of model values | |

How they compose: `EventService` is `AgentRunner` with the service around it, and
the crash between them. `Dispatch` is the registry with the calls and the hosts.
`AgentHistory` opens up what `AgentRunner` abstracts of the log, and runs one
thread where that module runs many. `EventLog` is below both; `Conversations`
stands above `EventService` and keeps of a run only when it writes the status.
`WebClient` takes of `EventFlow` that any stored event may arrive in any order.

### AgentRunner

A thread is one call: `Runs` are calls of `run`, `Senders` of `send_message`,
`Rejecters`, `Reviewers` and `Condensers` of the conversation's calls. `pc` says
between which two accesses to shared state a thread is; one action is one such
stretch, so that a status written by another thread between the check at
`agent_runner.py:183` and the write at 184 is a behaviour of the model.
`runnerLock` is `AgentRunner._lock` (held during a whole iteration),
`stateLock` is `ConversationState._lock`. The event log is kept as what its
readers ask of it: executable actions are numbered in log order, `answers` holds
the kinds of events that answer each, and `prompt` whether the last user message
is open, blocked by a hook, or has been part of what the LLM saw. The two
versions of `get_unmatched_actions` in the code differ (one ignores
`AgentErrorEvent`), and so do `RunnerUnmatched` and `StateUnmatched`.

The environment is the LLM (`Replies`), the tools (`ToolResults`), the hooks
(`Hooks`), the confirmation policy and the stuck detector's verdict. Each is
nondeterministic over the outcomes the code tells apart; each is narrowed by a
constant where a run does not need it.

Not in this module: the content of messages and tools, the memory recall before
an LLM call, the critic, token callbacks, the forwarding of events, `ask_agent`
and `close`. An invalid tool call leaves no executable action and is the case of
a response without actions.

### EventService

Coroutines of one event loop: a handler's stretch between two awaits is one
action. `task` is `_run_task`; it outlives the run by the drain of callbacks
(up to 30 seconds, `TaskDrained`). `followUps` are coroutines that go on when
their thread is through: a message sent with `run=True` starts a run unless the
status is RUNNING, a memory review is accepted like a confirmation. `with state`
in a coroutine waits for the conversation's lock (`StateLockFree`). A `Crash`
loses every thread, lock and task and keeps the log and the status, which
`start` turns from RUNNING into ERROR. An acceptance while a run may not start
is answered with success and changes nothing.

Assumed: the snapshot on disk is that of the last status write, as every write
publishes an update that saves it in the same thread.

### FifoLock

Each method runs under the internal mutex and gives it up only in
`Condition.wait`, so an action is a stretch between waits. `awake` are the
threads whose wait has returned, `expired` those among them whose timeout is
over. A notification to a thread whose wait has returned already has no effect.

### ContextView, StuckDetection, AgentHistory

`log` is the main agent's event log, a sequence of records; an event is its
position. `ContextView` translates `View`: which events a condensation leaves,
where its summary goes, the passes that drop batches with a missing call, calls
without results, and results without calls; and of the condenser the head, the
tail and the gaps at which it may cut (`ManipulationIndices`: not inside a batch
and its results, nor inside a tool loop that begins with thinking blocks).
`StuckDetection` translates the four scenarios. The replay of the log (`Output`),
the events that one reply publishes (`CallEvents`) and the selection from a
sequence (`Only` of `Subsequences`) are recursive functions; the passes of the code
are filters.

`AgentHistory` grows the log by what `Agent.step` appends for every kind of reply
(`Replies`), by each end of a tool call (`Answers`: observation, error of the
tool, exception that ends the run, crash), by user messages, rejections and
requests to condense, and reads it back in the next step. The summary is text
or none; contents are a small set because the stuck detector compares them.
`NativeCalls = FALSE` is the mode in which the prompt converter numbers the
calls itself.

### Conversations

The table entry of one conversation (`table`), its stored settings (`meta`) and
status (`snapshot`), and the event services ever built for it, numbered. Building
a service does not suspend, so `Start` and `Resume` are one step each; a delete
is two, as it awaits; a setting is a thread that changes the state and a
coroutine that then changes `metaData`; a clean `Stop` stores both, and `Exit`
waits for the threads of the executor, which go on after the table is gone. A
run writes RUNNING and one of its ends into its service and the snapshot.
`chosen` and `lost` are history: what the user set last, and whether something
overtook the storing of it. The policy stands for every setting a user can
change.

### EventFlow

An event is a number. `Publish` schedules its coroutine (the callback wrapper
hands it to the event loop) and then, in another step of the thread, `Store`
appends it to the log; the lock of the conversation state covers both unless the
event is published without it. `Begin` is a coroutine up to its first await: the
webhook buffers the event, or posts the buffer and the coroutine is `held` until
the post ends, and only then is the client, the next subscriber, sent it. Timers
are named by the event that started them; a cancelled timer that was posting
takes its batch with it (`dropped`), and its `finally` may clear `_flush_timer`
after a newer one was stored there. A post is tried `MaxAttempts` times; an
attempt that fails may have arrived (`AttemptFails`). The client subscribes and
reads the log page by page, each page under the state's lock.

### AppendOnlyLog, EventLog

`EventLog` has a process per instance of `LocalEventLog` on one directory. An
instance knows a length and the ids at indexes; `Open` scans without the lock,
`AppendLocked` synchronises and checks for a duplicate under it, `CreateFile`
and `FillFile` are the two halves of `open(.., "w")` and the write. A process
may die at each step: its lock goes with it and its file stays empty. `AppendOnlyLog`
is a sequence that grows at its end and holds no id twice; `Stored`, the refinement
mapping, reads the ids off the file names in the order of their indexes.

### AgentRegistry, Dispatch

A server is up, and writes its entry again and again; a write under way when it
stops may still land (`WriteLands`). The application server scans, drops expired
entries and replaces its cache. A call of `schedule` is `pc`: it reads the task
before it, creates its own, and then chooses a server, asks it to create or to
resume, and on a failure excludes that server, up to `MaxAttempts`. `hosts` are
the live servers that run the conversation, `begun` those that were given its
first message, `stored` those in whose storage it is. A request whose caller has
given up is an orphan and may still be served. Faults are counted: a lost or late
answer, an error after the server has begun, a late heartbeat of a live server, a
restart of the application server. What several overlapping calls may do is kept
apart by `overlapped`.

### WebClient

The page's references (`socketRef`, `reconnectTimer`, `reconnectAttempts`,
`shouldReconnect`), the state of every socket it has made, and the calls to the
application server whose answers come in any order. `Closing` is what `close()`
does to a socket: the browser reports the end later (`Ended`), with a clean code
or without, to a handler that knows its socket but shares the references.
`access` is the closure of `connect`. Select, open and new conversation clear the
store before they ask. Symmetric in conversations and sockets; a socket that has
ended is used again, which keeps the instance small.

## Runs

| run | question | bounds and why they are enough |
|---|---|---|
| `runner_batches` | does any schedule of two runs repeat an observed action or execute a denied one? | batches of two, so one action of a batch can be answered and the other not; two runs of one step each, so that what the first leaves is another's to repeat; every reply, hook and result, a rejecter, a message, a pause |
| `service_confirm` | is it one run at a time, everything approved, every pause obeyed? | two runs one after the other, two pauses, one of which can undo what the other left, a message, a crash; batches of two |
| `service_races` | is RUNNING left behind, do steps overlap, with every kind of caller at once? | one sender with `run=True`, one rejecter, reviewer and condenser, a pause, a crash, two runs, two iterations; the agent's one action is a memory review, the kind that waits, is answered from outside and is executed |
| `service_live` | is every message seen or the stop visible, and does every run return? | two messages and two runs: each message can meet the other's run at its end; refused stops, stuck verdicts and failing calls could go on, the iteration limit ends them |
| `fifo_lock` | is a wakeup lost, does a waiter starve? | four threads, so that a queue of three can lose its front or its middle |
| `event_log` | do the files stay one log for several processes that die? Does it implement `AppendOnlyLog`? | three processes, three events, two crashes: one dies while another opens and a third waits |
| `dispatch` | where may a conversation run, and does every call end? | a POST and a GET, two servers, one of which may leave, three attempts, one fault of any kind |
| `conversations` | who runs a conversation, and what of it survives? | three services, so that a deleted one, its successor and a restart meet; two settings, two runs, two ways to create it |
| `event_flow` | is an event lost, doubled or kept from the client? | three events over a buffer of two: one post, one timer and one more event; two attempts and two faults, so that a post can be given up |
| `agent_history` | is every view an LLM is shown well-formed, does condensing cut where it says, does repetition end? | nine events and what a last step adds, replies of up to two calls, condensing above eight with two kept first; small thresholds, so that every scenario is reached |
| `web_client` | how many sockets live, and does a late end or answer do harm? | four clicks on two conversations, three sockets, two retries: one socket closing, one connecting, one being retried |
| `policy_ignored` | violated: a run uses the policy set last | |

Each cfg names its constants. Threads, ids, conversations and sockets are
interchangeable where a run declares symmetry; no run with a liveness property
does. Deadlock is checked except in `dispatch`, `event_flow`, `agent_history` and
`web_client`: there every call may have ended, every event been published, or the
log or the clicks be used up, and then nothing is left to do. `FinishedSawPrompt`
is checked with plain tools only: a finish call that is pending after a failure
ends the task without asking the LLM, by the code's order of checks. `PauseIsLastStep` is checked without a stop
hook, which by its feedback keeps an agent going, and without rejecters. It
speaks of a pause that still stands when the step has ended: the history variable
`pausedIn` forgets one after which a second `pause` overwrote FINISHED.

Each property of a passing run has a mutant in PROJECT.json: a plausible bug of
a definition with which TLC finds the property violated. Several properties have
a condition that says when they hold (`Smooth`, `lost`, `deleted`, `dropped`); in
each case the code breaks it without the condition, and the section below says
how.

### Where code and docs disagree

The run `policy_ignored` shows one disagreement and its finding quotes both
sides. The following cfgs are kept beside the runs; each checks one property
that a comment, a doc or a name in the code states, and TLC finds it violated.

| cfg (module) | property | what happens |
|---|---|---|
| `CondenseRaces` (`MCAgentRunner`) | `CondenseWaitsForStep` | `condense` steps under the conversation's lock, a run under the runner's |
| `PauseLost` (`MCAgentRunner`) | `PauseTakesEffect` | `run` overwrites a pause that came before it wrote RUNNING |
| `ErrorRetried` (`MCAgentRunner`) | `ErrorGoesBackToAgent` | a call that failed with a ValueError is executed again |
| `DoubleRun` (`MCEventService`) | `ConfirmedBeforeRun` | two messages with `run=True`: the second run takes the first one's WAITING for a confirmation |
| `RejectRuns` (`MCEventService`) | `ConfirmedBeforeRun` | a rejection that began before the action was asked for makes WAITING idle; the run, still in its loop, executes the action |
| `CrashRepeats` (`MCEventService`) | `InterruptedNotRepeated` | a tool call reported as interrupted is executed again |
| `GetDispatches` (`MCDispatch`) | `GetSchedulesOnlyWithoutTask` | a GET schedules although there is a task |
| `WebhookStranded` (`MCEventFlow`) | `BufferedHasTimer` | an event buffered while the timer posts gets no timer and waits for a later event |
| `CondensesInVain` (`MCAgentHistory`) | `CondensingShrinks` | condensation after condensation, the view never gets smaller |
| `SummarySplits` (`MCAgentHistory`) | `SummaryBetweenUnits` | a summary lands between a call and its result |
| `StuckUnpaired` (`MCAgentHistory`) | `StuckOnPairs` | calls and answers that never belonged together count as a repetition |
| `ResultHidden` (`MCAgentHistory`) | `ViewMatched` | prompt-mocked call ids repeat after a condensation, a new result is hidden |
| `SwitchReconnects` (`MCWebClient`) | `RetriesWhatIsShown` | a socket closed while connecting brings the conversation back that was left |
| `LateAnswer` (`MCWebClient`) | `ShowsOneConversation` | the old socket delivers into the store cleared for the new conversation |
| `LeftPage` (`MCWebClient`) | `LeftPageIsQuiet` | an answer after the page was left opens a socket nobody closes |

Met while reading the code for the models, without a cfg:

Agent and service
- `ConfirmRiskyAndAction` never decides: `agent.py:437` passes the risk where
  `should_confirm` expects the action; the attribute error ends the run
  (`PolicyRaises`, exercised by `service_live`).
- `reject_pending_actions` announces an idle agent although a run at the end of
  its step does not notice and goes on (`conversation_impl.py:585`); what it did
  not find pending when it began is then executed (`RejectRuns`).
- `pop_blocked_action` persists the removal of a block before the rejection is
  logged (`agent.py:642`): a crash in between makes a denied action executable.
- `respond_to_confirmation` answers with success when the run it asks for is
  refused because the previous task still drains (`event_service.py:407`).
- Reaching the iteration limit overwrites FINISHED or PAUSED with ERROR.
- `pause` overwrites FINISHED (`conversation_impl.py:663-672`): one that comes
  between the two checks of `run` (`agent_runner.py:193` and `:235`) makes a run
  whose agent has finished take another step, although it was paused before.
- A crash between a stop hook's feedback and the RUNNING that follows leaves the
  agent FINISHED with a message it has not read.

Conversations
- DELETE is "Permanently delete a conversation." (`conversation_router.py:159`),
  but the stored settings and snapshot survive, a resume restores them, and the old
  run goes on and stores its status over the new one's.
- `conversation_dir` is the directory of all conversations
  (`event_service.py:53-55`): `safe_rmtree` at a delete removes that.
- A policy set by the user is lost by a crash and by delete and resume, as the
  stored settings replace the one in the snapshot (`conversation_impl.py:197`);
  after a clean stop, a POST with the original settings is refused because they
  differ from the stored ones. Two overlapping settings may leave the state and
  the settings different.

Application server
- After a first schedule that failed on every server, every later one resumes
  what was never created. A GET while the POST is dispatching starts a second
  host. Deleting the conversation leaves the agent server running it.
- A RUNNING task keeps the error message of the attempt before (`scheduler.py:81`).
- `schedule_confirm` turns errors of the agent server into "ok".
- `WeightedRoundRobin` does not look at the weights (`loadbalancer.py`). Files of a
  local registry entry that is being written match `*.json`.

Events
- Cancelling a timer that posts loses its batch; what failed goes to the end of the
  queue and waits for another event to start a timer (`conversation_service.py:826-842`).
- Events without an agent id (pauses, statistics, the restart's error, the request
  of `condense`) are never stored. The error that ends a run is published outside
  the lock and can be missed by a client that is just reading.
- The pattern for event files has five digits (`\d{5}`), the name at least five:
  from index 100000 on they are not found. A file left empty by a crash makes its
  page fail while an iteration skips it; a process that reads it while it is
  written caches the empty text for good.
- The Mongo log's coroutines are called without `await`; the Mongo state store has a
  unique index on the conversation alone, which keeps the second kind of state out
  (`event_store.py:847`).

View and stuck detection
- An invalid call in the middle of a batch splits one reply over two assistant
  messages; a call retried after a ValueError has several results of one id. A
  request to condense a small view forgets everything after the head; one that
  cannot be met ends every later run with the same error. Rejections never equal
  each other, malformed calls count as user messages, and a batch larger than the
  window minus the threshold is never a repetition.

Web client
- Answers out of order: the earlier selection may win. Retries start over with each
  socket that opens, and the server accepts a missing conversation before it closes
  with 4004: the client reconnects without end. The comment has 4001 for a deleted
  conversation, `sockets.py` for a failed authentication.
- `confirmation_state`, which the client reads of an `ActionEvent`
  (`runtimeStateHelpers.ts:175`), is never sent; stored status events that are
  resent show an old status; an `AgentErrorEvent` is shown as a broken connection.

## Fairness

Users owe nothing: no call has to be made, nobody has to confirm, click or
connect. What has begun goes on:

- `AgentRunner`, `EventService`: `WF` of each thread's actions inside a call, of
  the coroutine that follows a message or a review, and of the drain, which has a
  timeout. For lock acquisition this means that a lock that stays free is taken;
  the LLM and the tools answer, as both have timeouts.
- `FifoLock`: a woken thread gets the mutex (`WF`); an owner leaves its nested
  `with` blocks and does not re-enter inner ones for ever (`SF` of the last release).
- `Dispatch`: a call goes on (requests have timeouts), the watch loop runs, a write
  that has begun lands, the entry of a dead server expires. Servers need not come
  or stay.
- `EventFlow`: the event loop runs what is ready, a post ends at the latest by its
  timeout and last attempt. Nobody need publish, store or read, no timer need fire.

`EventLog`, `Conversations`, `AgentHistory` and `WebClient` claim safety only.

## Proofs

For all values of the constants, under the named assumptions of each module
(sets of different kinds are different, bounds are numbers, choices come from
the environment's alphabets). Every proof goes by an inductive invariant; the
type invariants are proved (`...Typed`, `TypeCorrect`, `LockTypeCorrect`).

- `EventServiceProofs`, the agent alone (`Spec`): `TypeCorrect`, `StepsExclusive`
  (`OneRunSteps`), `NoneLeftRunning` (`NoOrphanRunning`), from `RunnerInv`: a thread
  is in a stretch that needs the runner's lock exactly when it owns it, a run asks
  the stop hook only when no other run can set RUNNING, and the iteration counter
  is below the limit outside the last lines of the loop. None of these can be
  dropped: who may write RUNNING is decided by the lock, and that the writer is
  still active by where it is. On top of it:
  - `DeniedStaysOff` (`DeniedNeverRuns`), `ObservedStaysDone`
    (`ObservedNeverRerun`). A run holds a list of actions only inside a step, hence
    one run does; a denied action is still blocked, or rejected in the log, or on
    its way from one to the other; no listed action has an observation; what the
    log does not hold has no history.
  - `MessageNotLeftBehind` (`FinishedSawPrompt`), from `ShownInv`: who posts a
    message first makes a finished agent idle, who asks the LLM has an unfinished
    one, and a step that is going to end the task has shown the message.
- `EventServiceProofs`, with the service (`ServiceSpec`): a step of the service is
  one of `AgentRunner` or a crash.
  - `ServiceNoneLeftRunning`: the crash keeps `RunnerInv`.
    `ServiceMessageNotLeftBehind`: it keeps `ShownInv`, unless it comes while a stop
    hook is asked.
  - `GuardKeepsOneRun` (`OneRunAtATime`): an active run is the one `task` waits for.
  - `PausedRunEnds` (`PauseIsLastStep`), an action property, from `PausedEnds`: from
    the pause on the status is PAUSED, or a step has replaced it by an end, or
    the run is past its checks. The first attempt at this proof could not be closed
    at the second pause described above, for which TLC then gave a behaviour.
  - `NothingRunsUnconfirmed` (`ConfirmedBeforeRun`) under the policy that always
    asks, from `ConfirmedRuns`: what a run may execute is approved or needs no
    answer, what the log leaves open was asked for, and a run that finds WAITING was
    started by the acceptance. A sender that makes a finished agent idle
    (`Reopening`) is the case that needs the strengthening: nothing may be pending then.

  Their hypotheses, each needed (without it TLC has a behaviour against the
  property) and each a way to use the service: nobody calls `condense`
  (`NobodyCondenses`; it steps without the runner's lock) or, for
  `ObservedStaysDone`, answers a review; the agent has no finish tool
  (`FinishNotCalled`); no crash while a stop hook is asked (`NoCrashInStopHook`); no
  message with `run=True` (`GuardKeepsOneRun`), and for the last two nobody who
  rejects, reviews or condenses either (`OneCaller`), and no stop hook for the
  pause.
- `FifoLockProofs`: `LockTypeCorrect`, `WakeupNeverLost` (`NoLostWakeup`), which
  together are inductive; a lemma says what `RemoveAt` does to a queue without
  duplicates.
- `AgentHistoryProofs`, for every log and view, of the operators of `ContextView`:
  `ShownIsMatched` (the passes leave calls with results, results with calls and
  whole batches; that a result may be hidden where call ids repeat is its
  hypothesis `CallsDiffer`), `GapsSplitNoReply` (a manipulation index is never
  between a call and a later event of its reply: the span of the reply's first
  action covers both) and `ForgetsWholeReplies` (what the condenser forgets is a
  block between two such places behind the head).
- `AgentHistoryProofs`, of `AgentHistory`: `HistoryIsTyped`, and the three invariants
  of `agent_history`. The recursive functions come first: that `Only`, `Output` and
  `CallEvents` are defined, and what one element more does to them
  (`OnlyPicks`, `OutputAppends`, `CallEventsRecursion`), is shown by the least
  number at which it would fail, as the induction theorems of the library cannot
  be used.
  - `ViewStaysMatched` (`ViewMatched`) and `CondensationsStayInPlace`
    (`CondensesInPlace`), from `HistoryInv`. The view alone is not inductive: what it
    shows at the next step depends on what the passes hid at this one. The invariant
    speaks of the output before the passes: of a reply with all that answers it, it
    holds everything or nothing (`Sound`), and the calls that can still be answered
    are in it (`PendingShown`), else a result would arrive whose call is forgotten.
    A condensation keeps this because it comes only when no call waits and forgets
    whole replies. Hypothesis: `NativeCalls`. Where the reply converter numbers the
    calls, `ResultHidden` below is the behaviour against it.
  - `RepetitionStaysBounded` (`RepetitionBounded`), from `TurnInv`: the log is made of
    turns (a reply, its answers, the next reply), no call is observed twice, and at
    each reply every call had its answer and nothing was stuck. A loop of
    `ActionObservation + MaxBatch` calls had `ActionObservation` of them before its
    last reply, all answered, and the detector would have found them. Hypothesis:
    `Window >= 2 * ActionObservation + MaxBatch`, so that the window holds the
    threshold of pairs and what a batch leaves between them. In the code the window is
    20 and the threshold 4 (`stuck_detector.py`), which covers replies of up to 12
    calls; a larger batch is listed above as never a repetition.
- `EventLogProofs`: `EventLogTyped`, `IndexesUnique` (`NoIndexShared`),
  `InstancesAgree` (`IndexAgrees`), `TornByCrashesOnly` (`TornOnlyByCrash`) and
  `FilesImplementLog`: the specification implements `AppendOnlyLog`
  (`ImplementsLog`). The invariant says besides that the files are finitely many
  and the indexes on disk exactly those below their count, that ids on disk differ
  (`DiskInv`), and that a process past the duplicate check holds the lock and has a
  present view of the directory (`HolderInv`): a scan made without the lock may be
  old, and only the check under it makes it new. `TornInv` counts the files that
  nobody is filling any more: a step adds one only if it is a crash.
- `DispatchProofs`: `DispatchTyped`, `RunningTasksWereHosted` (`RunningWasHosted`),
  `RestoresFollowStarts` (`RestoresWhatWasStarted`), `OneHostAtATime` (`OneHost`) and
  `FirstMessageOnce` (`MessageSentOnce`): without faults and overlaps at most one
  call is active, and by where it is the host is the server it prefers, asks or
  was served by (`Placed`); between calls the latest task names the host
  (`Orderly`), and a live server that is cached keeps its entry, so that no scan
  drops it (`Listed`) and the next call prefers it.
- `ConversationsProofs`: `ConversationsTyped`, `RunningIsReal` (`NoGhostRunning`),
  `StatusIsStored` (`StatusStored`), `OneRunAtOnce` (`OneRunUnlessDeleted`),
  `RequestsKept` (`FirstRequestKept`), `PoliciesKept` (`PolicyKept`): without a delete
  every run belongs to the service in the table, or the table is empty because the
  server stops (`Owner`); a setting not lost is in the state and on its way to the
  settings (`Settled`).
- `EventFlowProofs`: `FlowTyped` and the five safety properties of `event_flow`:
  `EventsKept`, `WebhookHasOnce`, `BufferStaysBelowSize`, `TimerIsAlive`,
  `ClientMissesNothing`, from one invariant. The queue and the posts under way are
  disjoint and hold only events whose coroutine has begun (`TakenOnce`), else an
  event that goes back to the queue after a failed post could meet itself. What a
  thread stores it stores under the state's lock (`LockedWhileStoring`), and what
  a live client has not got yet was scheduled after it subscribed, or is on a page
  to come (`Streamed`): page and stream overlap but leave no gap.
- `WebClientProofs`: `WebClientTyped`, `OnlyOneLiveSocket`, `NothingAfterLeaving`,
  `BrokenIsRetried`, `ReceivedIsShown`, for the four properties of `web_client`.
  The invariant adds that a retry is wanted only while a conversation is shown
  (`Wanted`) and that a shown conversation has had a socket (`Made`).

Every safety invariant and every action property of the runs is such a theorem,
under the hypotheses named with it. Only model-checked is liveness
(`MessageAnswered`, `RunTerminates`, `WaiterServed`, `ScheduleEnds`,
`DeadServerForgotten`, `EventReachesClient`), which with fairness and `ENABLED` is out
of the provers' reach.

No module uses a RECURSIVE operator.

## Not modelled

PROJECT.json lists every component with its reason. In short:

- Memory: a store's files are read, changed and written back without a lock, and a
  recall writes back what it read (`memory_manager.py:290-300`): with two writers
  no property worth stating holds, with one there is nothing to check.
- Sub-agents: another instance of `AgentRunner` with one run inside a tool call;
  `sub_agent_tool` subscribes another consumer with each call and drops none.
- The LLM client's retries repeat a call that changes nothing here; prompt
  conversion, schemas, skills, plugins and telemetry are conversions.
- Tools and sandboxes: a call is one step with the ends the agent tells apart; the
  process of a command that timed out in the process sandbox is not killed.
- The Mongo log and state store, the MySQL storage, user and session records:
  single statements, or unreachable as the code stands (see above).
- Token counts as a reason to condense, several condensers in a row, event tags.
- Two snapshot writes in flight at once, by writers under different locks.
- Configuration, HTTP middleware, routes, logging, the rest of the web client.

What could be added: the composition of `Conversations` with two agent servers
over shared storage; the historical page of the client, which loads in parallel
with the stream; the stop of an agent server with posts under way.
