----------------------------- MODULE EventService ------------------------------
(***************************************************************************)
(* The service around one conversation: EventService decides which calls   *)
(* of its clients start a run of the agent, and what a restart of the      *)
(* server makes of a conversation that was interrupted.                    *)
(*                                                                         *)
(* Its handlers are coroutines of one event loop.  Between two awaits a    *)
(* handler is one action here; "with state" inside it waits for the        *)
(* conversation's lock.  The work itself runs in executor threads: those   *)
(* are the threads of AgentRunner.                                         *)
(***************************************************************************)
EXTENDS AgentRunner

CONSTANTS
  RunSenders,       \* the senders that call send_message with run=True
  GuardedStarts,    \* clients call run() or accept a confirmation
  MaxCrashes        \* bound: crashes of the server

ASSUME ServiceAssumption ==
  /\ RunSenders \subseteq Senders
  /\ GuardedStarts \in BOOLEAN
  /\ MaxCrashes \in Nat

VARIABLES
  task,         \* the run that _run_task waits for
  followUps,    \* calls whose thread is through and whose coroutine goes on
  crashes,      \* crashes so far
  approved,     \* history: actions that were pending when a user started a run
  interrupted   \* history: actions a restart declared interrupted

serviceVars == <<task, followUps, crashes, approved, interrupted>>
allVars == <<vars, serviceVars>>

ServiceInit ==
  /\ Init
  /\ task = NoThread
  /\ followUps = RunSenders \cup Reviewers
  /\ crashes = 0
  /\ approved = {}
  /\ interrupted = {}

-----------------------------------------------------------------------------
(* Starting a run.  The user who starts one approves what is pending then.  *)

StateLockFree == stateLock = NoThread

\* Mutant of MayStart: the task that still drains is not asked for.
MayStartUnlessRunning == status # "running"

MayStart == status # "running" /\ task = NoThread

\* run(), or an accepted confirmation.  When a run may not start, run() answers
\* with an error and an acceptance with success; neither changes anything.
StartRun(r) ==
  /\ GuardedStarts
  /\ StateLockFree
  /\ MayStart
  /\ Launch(r)
  /\ task' = r
  /\ approved' = approved \cup RunnerUnmatched
  /\ UNCHANGED <<followUps, crashes, interrupted>>

\* send_message(run=True): when its thread has posted the message the coroutine
\* starts a run unless one is RUNNING.  It neither looks at _run_task nor sets it.
RunAfterSend(s) ==
  /\ s \in followUps \cap RunSenders
  /\ pc[s] = "done"
  /\ StateLockFree
  /\ followUps' = followUps \ {s}
  /\ \/ /\ status = "running"
        /\ UNCHANGED <<vars, approved>>
     \/ /\ status # "running"
        /\ \E r \in Runs : Launch(r)
        /\ approved' = approved \cup RunnerUnmatched
  /\ UNCHANGED <<task, crashes, interrupted>>

\* A memory review is answered first, then accepted like any confirmation.
RunAfterReview(v) ==
  /\ v \in followUps \cap Reviewers
  /\ pc[v] = "done"
  /\ StateLockFree
  /\ followUps' = followUps \ {v}
  /\ \/ /\ ~MayStart
        /\ UNCHANGED <<vars, task, approved>>
     \/ /\ MayStart
        /\ \E r \in Runs : Launch(r) /\ task' = r
        /\ approved' = approved \cup RunnerUnmatched
  /\ UNCHANGED <<crashes, interrupted>>

\* The finally of _run_and_publish, up to 30 seconds after the run's end.
TaskDrained ==
  /\ task # NoThread
  /\ pc[task] = "done"
  /\ task' = NoThread
  /\ UNCHANGED <<vars, followUps, crashes, approved, interrupted>>

-----------------------------------------------------------------------------
(* The server goes down and comes up again.  The event log and the last     *)
(* snapshot are on disk, every thread and every lock is gone.  start()      *)
(* turns RUNNING into ERROR, and reports the first pending action as        *)
(* interrupted, in an event that no consumer of the agent's log receives.    *)

\* Mutant of RestartStatus: the snapshot's status is taken as it is.
RestartAsSaved == status

RestartStatus == IF status = "running" THEN "error" ELSE status

Crash ==
  /\ crashes < MaxCrashes
  /\ crashes' = crashes + 1
  /\ status' = RestartStatus
  /\ runnerLock' = NoThread
  /\ stateLock' = NoThread
  /\ pc' = [t \in Threads |-> IF pc[t] = "ready" THEN "ready" ELSE "done"]
  /\ queue' = [t \in Threads |-> {}]
  /\ task' = NoThread
  /\ followUps' = {t \in followUps : pc[t] = "ready"}
  /\ interrupted' = interrupted \cup
       {a \in StateUnmatched : status = "running" /\ IsFirst(a, StateUnmatched)}
  /\ UNCHANGED <<iteration, logVars, histVars, approved>>

-----------------------------------------------------------------------------
\* The actions of AgentRunner's threads, none of which starts a run.
ThreadNext ==
  \/ \E r \in Runs : RunNext(r)
  \/ \E s \in Senders : SendMessage(s) \/ SendNext(s)
  \/ \E j \in Rejecters : ReadPending(j) \/ AnswerNext(j)
  \/ \E j \in Reviewers : ReadPendingReview(j) \/ AnswerNext(j)
  \/ \E c \in Condensers : Condense(c) \/ CondenseNext(c)
  \/ Pause

Quiet ==
  /\ \A t \in Threads : pc[t] \in {"ready", "done"}
  /\ UNCHANGED allVars

ServiceNext ==
  \/ ThreadNext /\ UNCHANGED serviceVars
  \/ \E r \in Runs : StartRun(r)
  \/ \E s \in RunSenders : RunAfterSend(s)
  \/ \E v \in Reviewers : RunAfterReview(v)
  \/ TaskDrained
  \/ Crash
  \/ Quiet

ServiceSpec == ServiceInit /\ [][ServiceNext]_allVars

\* The threads go on as in AgentRunner, and so do the coroutines.
ServiceFairness ==
  /\ \A r \in Runs : WF_allVars(RunNext(r) /\ UNCHANGED serviceVars)
  /\ \A s \in Senders : WF_allVars(SendNext(s) /\ UNCHANGED serviceVars)
  /\ \A s \in RunSenders : WF_allVars(RunAfterSend(s))
  /\ \A v \in Reviewers :
       /\ WF_allVars(AnswerNext(v) /\ UNCHANGED serviceVars)
       /\ WF_allVars(RunAfterReview(v))
  /\ \A c \in Condensers : WF_allVars(CondenseNext(c) /\ UNCHANGED serviceVars)
  /\ WF_allVars(TaskDrained)

FairServiceSpec == ServiceSpec /\ ServiceFairness

-----------------------------------------------------------------------------
(* Properties.                                                              *)

\* Every variable has its type.
ServiceTypeOK ==
  /\ TypeOK
  /\ task \in Runs \cup {NoThread}
  /\ followUps \subseteq RunSenders \cup Reviewers
  /\ crashes \in 0..MaxCrashes
  /\ approved \subseteq 1..issued
  /\ interrupted \subseteq 1..issued

\* run()'s two guards together keep a conversation to one run: neither the
\* time before the run writes RUNNING nor the time its task still drains opens
\* a gap, whatever pause() or the agent do to the status meanwhile.
OneRunAtATime == \A r, s \in Runs : Active(r) /\ Active(s) => r = s

NeedsNoAnswer(a) == kind[a] \in {"finish", "think"}

\* Confirmation mode: an action that a response asked for is executed only if
\* it was pending when a user started a run.  Neither a pause, nor a message
\* sent meanwhile, nor a restart lets it slip through.
ConfirmedBeforeRun ==
  [][\A a \in ActionIds :
       invoked'[a] # invoked[a] => a \in approved \/ NeedsNoAnswer(a)]_allVars

\* A user message sent with run=True reaches a step of the agent, or the agent
\* stops in a status that tells the user why it did not.  The check whether a
\* run is needed and the end of a run that is just finishing never miss each
\* other.
MessageAnswered ==
  prompt = "open" ~> prompt # "open" \/ status \in {"error", "paused", "stuck"}

\* What the restart's error event says of the tool that was running: its
\* execution was interrupted and did not complete; no later run repeats it.
InterruptedNotRepeated ==
  [][\A a \in interrupted : invoked'[a] = invoked[a]]_allVars
=============================================================================
