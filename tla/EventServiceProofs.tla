-------------------------- MODULE EventServiceProofs --------------------------
(***************************************************************************)
(* What AgentRunner promises for every number of runs, senders and other   *)
(* callers, every iteration limit and every configuration of hooks, and    *)
(* what of it survives the service's starts, its clients and its crashes.  *)
(* The first theorems are about AgentRunner's own specification, Spec; the *)
(* last, about ServiceSpec, reuse their invariants.                        *)
(***************************************************************************)
EXTENDS EventService, TLAPS

-----------------------------------------------------------------------------
(* Types.                                                                   *)

\* run() counts an iteration only while it has one left; the count reaches the
\* limit on the way out.
IterationsLeft ==
  \A r \in Runs : pc[r] \notin {"limit", "done"} => iteration[r] < MaxIterations

TypeInv == TypeOK /\ IterationsLeft

USE DEF Goto, logVars, histVars

\* The types survive every action of Agent.step, whoever takes it.
LEMMA StepType ==
  ASSUME TypeInv, NEW t \in Runs \cup Condensers, Step(t)
  PROVE  TypeInv'
PROOF
<1> USE BoundAssumption, EnvironmentAssumption, ThreadAssumption
        DEF TypeInv, TypeOK, IterationsLeft, PCs, StepPCs, HookPCs, CheckPCs,
            Threads, ActionIds, Statuses, Answers
<1>1. CASE ExecutePending(t)
  <2>1. RunnerUnmatched \subseteq ActionIds
    BY DEF RunnerUnmatched
  <2>2. queue' \in [Threads -> SUBSET ActionIds]
    BY <1>1, <2>1 DEF ExecutePending
  <2>3. pc' \in [Threads -> PCs] /\ IterationsLeft'
    BY <1>1 DEF ExecutePending
  <2> HIDE DEF PCs, IterationsLeft, Threads
  <2> QED
    BY <1>1, <2>2, <2>3 DEF ExecutePending
<1>2. CASE SkipBlockedPrompt(t)
  BY <1>2 DEF SkipBlockedPrompt
<1>3. CASE AskLLM(t)
  BY <1>3 DEF AskLLM
<1>4. CASE ReplyMessage(t)
  BY <1>4 DEF ReplyMessage
<1>5. CASE ReplyQuiet(t)
  BY <1>5 DEF ReplyQuiet
<1>6. CASE ReplyMalformed(t)
  BY <1>6 DEF ReplyMalformed, PublishUserMessage
<1>7. CASE ReplyToolCalls(t)
  BY <1>7 DEF ReplyToolCalls
<1>8. ASSUME NEW k \in Kinds, EmitAction(t, k)
      PROVE  TypeInv'
  <2>1. issued + 1 \in ActionIds /\ issued + 1 \in 0..MaxActions
    BY <1>8 DEF EmitAction
  <2>2. queue' \in [Threads -> SUBSET ActionIds]
    BY <1>8, <2>1 DEF EmitAction
  <2>3. kind' \in [ActionIds -> {"plain", "finish", "think", "memory_review"}]
    BY <1>8, <2>1 DEF EmitAction
  <2>4. blocked' \subseteq ActionIds /\ denied' \subseteq ActionIds
    BY <1>8, <2>1 DEF EmitAction
  <2> QED
    BY <1>8, <2>1, <2>2, <2>3, <2>4 DEF EmitAction
<1>9. CASE LastCallEmitted(t)
  <2>1. Goto(t, "over") \/ Goto(t, "decide")
    BY <1>9 DEF LastCallEmitted
  <2>2. pc' \in [Threads -> PCs] /\ IterationsLeft'
    BY <1>9, <2>1 DEF LastCallEmitted
  <2> HIDE DEF PCs, IterationsLeft, Threads
  <2> QED
    BY <1>9, <2>2 DEF LastCallEmitted
<1>10. CASE AskConfirmation(t)
  BY <1>10 DEF AskConfirmation
<1>11. CASE ExecuteBatch(t)
  BY <1>11 DEF ExecuteBatch
<1>12. ASSUME NEW a \in queue[t],
              \/ PopBlockedAction(t, a) \/ PublishRejection(t, a)
              \/ StartTool(t, a)
              \/ ToolReturns(t, a) \/ ToolValueError(t, a)
       PROVE  TypeInv'
  <2>1. a \in ActionIds
    OBVIOUS
  <2>2. CASE PopBlockedAction(t, a)
    <3>1. pc' \in [Threads -> PCs] /\ IterationsLeft'
      BY <2>2 DEF PopBlockedAction
    <3> QED
      BY <2>2, <3>1 DEF PopBlockedAction
  <2>6. CASE PublishRejection(t, a)
    <3>1. Goto(t, "over") \/ Goto(t, "exec")
      BY <2>6 DEF PublishRejection, Advance
    <3>2. pc' \in [Threads -> PCs]
      BY <3>1
    <3>5. IterationsLeft'
      BY <2>6, <3>1 DEF PublishRejection
    <3>3. queue' \in [Threads -> SUBSET ActionIds]
      BY <2>6 DEF PublishRejection, Advance
    <3>4. answers' \in [ActionIds -> SUBSET Answers]
      BY <2>1, <2>6 DEF PublishRejection, Answer
    <3> HIDE DEF PCs, IterationsLeft, Threads
    <3> QED
      BY <2>6, <3>2, <3>3, <3>4, <3>5 DEF PublishRejection
  <2>3. CASE StartTool(t, a)
    <3>1. invoked' \in [ActionIds -> Nat]
      BY <2>1, <2>3 DEF StartTool
    <3>2. pc' \in [Threads -> PCs] /\ IterationsLeft'
      BY <2>3 DEF StartTool
    <3> HIDE DEF PCs, IterationsLeft, Threads
    <3> QED
      BY <2>3, <3>1, <3>2 DEF StartTool
  <2>4. CASE ToolReturns(t, a)
    <3>1. queue' = [queue EXCEPT ![t] = @ \ {a}]
      BY <2>4 DEF ToolReturns, Advance
    <3>2. queue' \in [Threads -> SUBSET ActionIds]
      BY <3>1
    <3>3. Goto(t, "finish") \/ Goto(t, "over") \/ Goto(t, "exec")
      BY <2>4 DEF ToolReturns, Advance
    <3>4. pc' \in [Threads -> PCs]
      <4>1. \E p \in PCs : Goto(t, p)
        BY <3>3
      <4> QED
        BY <4>1
    <3>6. IterationsLeft'
      BY <2>4, <3>3 DEF ToolReturns
    <3>5. answers' \in [ActionIds -> SUBSET Answers]
      BY <2>1, <2>4 DEF ToolReturns, Answer
    <3> QED
      BY <2>4, <3>2, <3>4, <3>5, <3>6 DEF ToolReturns
  <2>5. CASE ToolValueError(t, a)
    <3>1. Goto(t, "over") \/ Goto(t, "exec")
      BY <2>5 DEF ToolValueError, Advance
    <3>2. pc' \in [Threads -> PCs]
      BY <3>1
    <3>5. IterationsLeft'
      BY <2>5, <3>1 DEF ToolValueError
    <3>3. queue' \in [Threads -> SUBSET ActionIds]
      BY <2>5 DEF ToolValueError, Advance
    <3>4. answers' \in [ActionIds -> SUBSET Answers]
      BY <2>1, <2>5 DEF ToolValueError, Answer
    <3> HIDE DEF PCs, IterationsLeft, Threads
    <3> QED
      BY <2>5, <3>2, <3>3, <3>4, <3>5 DEF ToolValueError
  <2> QED
    BY <1>12, <2>2, <2>3, <2>4, <2>5, <2>6
<1>13. CASE SetFinished(t)
  BY <1>13 DEF SetFinished
<1>14. CASE StepRaises(t)
  <2>1. CASE t \in Runs /\ runnerLock' = NoThread /\ Goto(t, "raise") /\ UNCHANGED stateLock
    BY <1>14, <2>1 DEF StepRaises, RaisesIn
  <2>2. CASE t \in Condensers /\ stateLock' = NoThread /\ Goto(t, "done") /\ UNCHANGED runnerLock
    BY <1>14, <2>2 DEF StepRaises, RaisesIn
  <2> QED
    BY <1>14, <2>1, <2>2 DEF StepRaises
<1> QED
  BY <1>1, <1>2, <1>3, <1>4, <1>5, <1>6, <1>7, <1>8, <1>9, <1>10, <1>11,
     <1>12, <1>13, <1>14
     DEF Step

\* The types survive every action of a run around its steps.
LEMMA RunType ==
  ASSUME TypeInv, NEW r \in Runs, Launch(r) \/ RunNext(r)
  PROVE  TypeInv'
PROOF
<1>1. CASE Step(r)
  BY <1>1, StepType
<1> USE BoundAssumption, ThreadAssumption
        DEF TypeInv, TypeOK, IterationsLeft, PCs, StepPCs, HookPCs, CheckPCs,
            Threads, Statuses
<1>2. CASE Launch(r) \/ Enter(r) \/ MarkRunning(r) \/ TopOfLoop(r)
  BY <1>2 DEF Launch, Enter, MarkRunning, TopOfLoop
<1>3. CASE CheckFinished(r) \/ StopHookAllows(r) \/ ResumeAfterDenial(r)
  BY <1>3 DEF CheckFinished, StopHookAllows, ResumeAfterDenial
<1>4. CASE StopHookDenies(r)
  BY <1>4 DEF StopHookDenies, PublishUserMessage
<1>5. CASE DetectStuck(r) \/ CheckWaiting(r) \/ ResetWaiting(r)
  BY <1>5 DEF DetectStuck, CheckWaiting, ResetWaiting
<1>6. CASE StepOver(r)
  <2>1. iteration[r] < MaxIterations /\ iteration[r] \in Nat
    BY <1>6 DEF StepOver
  <2> QED
    BY <1>6, <2>1 DEF StepOver, LimitReached
<1>7. CASE ReachLimit(r) \/ FailRun(r)
  BY <1>7 DEF ReachLimit, FailRun
<1> QED
  BY <1>1, <1>2, <1>3, <1>4, <1>5, <1>6, <1>7 DEF RunNext

\* The types survive the calls of the other threads.
LEMMA CallType ==
  ASSUME TypeInv,
         \/ \E s \in Senders : SendMessage(s) \/ SendNext(s)
         \/ \E j \in Rejecters : ReadPending(j) \/ AnswerNext(j)
         \/ \E j \in Reviewers : ReadPendingReview(j) \/ AnswerNext(j)
         \/ \E c \in Condensers : Condense(c) \/ CondenseNext(c)
         \/ Pause
  PROVE  TypeInv'
PROOF
<1>1. ASSUME NEW c \in Condensers, Step(c)
      PROVE  TypeInv'
  BY <1>1, StepType
<1> USE BoundAssumption, ThreadAssumption
        DEF TypeInv, TypeOK, IterationsLeft, PCs, StepPCs, HookPCs, CheckPCs,
            Threads, Statuses, ActionIds, Answers
<1>2. ASSUME NEW s \in Senders, SendMessage(s) \/ SendNext(s)
      PROVE  TypeInv'
  <2>1. CASE SendMessage(s)
    <3>1. Goto(s, "reopen") \/ Goto(s, "post")
      BY <2>1 DEF SendMessage
    <3>2. pc' \in [Threads -> PCs] /\ IterationsLeft'
      BY <2>1, <3>1 DEF SendMessage
    <3> QED
      BY <2>1, <3>2 DEF SendMessage
  <2>2. CASE ReopenFinished(s)
    BY <2>2 DEF ReopenFinished
  <2>3. CASE PostMessage(s)
    BY <2>3 DEF PostMessage, PublishUserMessage
  <2> QED
    BY <1>2, <2>1, <2>2, <2>3 DEF SendNext
<1>3. ASSUME NEW j \in Rejecters, ReadPending(j)
      PROVE  TypeInv'
  BY <1>3 DEF ReadPending, StateUnmatched
<1>4. ASSUME NEW j \in Reviewers, ReadPendingReview(j)
      PROVE  TypeInv'
  <2>1. PendingReviews \subseteq ActionIds
    BY DEF PendingReviews, StateUnmatched
  <2>2. queue' \in [Threads -> SUBSET ActionIds]
    <3>1. CASE UNCHANGED queue
      BY <3>1
    <3>2. ASSUME NEW a \in PendingReviews, queue' = [queue EXCEPT ![j] = {a}]
          PROVE  queue' \in [Threads -> SUBSET ActionIds]
      BY <2>1, <3>2
    <3> QED
      BY <1>4, <3>1, <3>2 DEF ReadPendingReview
  <2>3. pc' \in [Threads -> PCs] /\ IterationsLeft'
    BY <1>4 DEF ReadPendingReview
  <2> QED
    BY <1>4, <2>2, <2>3 DEF ReadPendingReview
<1>5. ASSUME NEW j \in Rejecters \cup Reviewers, AnswerNext(j)
      PROVE  TypeInv'
  <2>1. CASE ClearWaiting(j)
    <3>1. pc' \in [Threads -> PCs] /\ IterationsLeft'
      BY <1>5, <2>1 DEF ClearWaiting
    <3>2. status' \in Statuses /\ stateLock' \in Threads \cup {NoThread}
      BY <1>5, <2>1 DEF ClearWaiting
    <3> QED
      BY <2>1, <3>1, <3>2 DEF ClearWaiting
  <2>2. ASSUME NEW a \in queue[j], PublishAnswer(j, a)
        PROVE  TypeInv'
    <3>1. answers' \in [ActionIds -> SUBSET Answers]
      BY <1>5, <2>2 DEF PublishAnswer, Answer
    <3>2. queue' \in [Threads -> SUBSET ActionIds]
      BY <1>5, <2>2 DEF PublishAnswer
    <3>3. pc' \in [Threads -> PCs] /\ stateLock' \in Threads \cup {NoThread}
      BY <1>5, <2>2 DEF PublishAnswer
    <3>4. IterationsLeft'
      BY <1>5, <2>2 DEF PublishAnswer
    <3> QED
      BY <2>2, <3>1, <3>2, <3>3, <3>4 DEF PublishAnswer
  <2> QED
    BY <1>5, <2>1, <2>2 DEF AnswerNext
<1>6. ASSUME NEW c \in Condensers, Condense(c) \/ CondenseOver(c)
      PROVE  TypeInv'
  <2>1. CASE Condense(c)
    BY <1>6, <2>1 DEF Condense
  <2>2. CASE CondenseOver(c)
    BY <1>6, <2>2 DEF CondenseOver
  <2> QED
    BY <1>6, <2>1, <2>2
<1>7. CASE Pause
  BY <1>7 DEF Pause, InStep
<1> QED
  BY <1>1, <1>2, <1>3, <1>4, <1>5, <1>6, <1>7 DEF CondenseNext

LEMMA TypeInductive ==
  ASSUME TypeInv, [Next]_vars
  PROVE  TypeInv'
PROOF
<1>1. CASE UNCHANGED vars
  BY <1>1 DEF vars, TypeInv, TypeOK, IterationsLeft
<1>2. CASE AllDone
  BY <1>1, <1>2 DEF AllDone
<1> QED
  BY <1>1, <1>2, RunType, CallType DEF Next

\* Every variable keeps its type in every execution.
THEOREM TypeCorrect == Spec => []TypeOK
PROOF
<1>1. Init => TypeInv
  BY BoundAssumption, ThreadAssumption
     DEF Init, TypeInv, TypeOK, IterationsLeft, PCs, Threads, ActionIds, Statuses
<1>2. TypeInv /\ [Next]_vars => TypeInv'
  BY TypeInductive
<1>3. TypeInv => TypeOK
  BY DEF TypeInv
<1> QED
  BY <1>1, <1>2, <1>3, PTL DEF Spec

-----------------------------------------------------------------------------
(* The runner's lock, and who may leave the agent RUNNING.                  *)

\* Where a run holds the runner's lock.
LockPCs == StepPCs \cup HookPCs \cup CheckPCs \cup {"mark", "limit"}

RunnerLockHeld ==
  /\ \A r \in Runs : pc[r] \in LockPCs => runnerLock = r
  /\ \A s \in Senders : pc[s] \in {"reopen", "post"} => runnerLock = s

\* While the stop hook decides the agent rests: only the holder of the lock
\* writes RUNNING, and that is the run that asks the hook.
HookAskedAtRest == \A r \in Runs : pc[r] = "stopHook" => status # "running"

RunnerInv == TypeInv /\ RunnerLockHeld /\ HookAskedAtRest /\ NoOrphanRunning

\* What Agent.step leaves alone: it never writes RUNNING, moves nobody else,
\* and gives a lock back only when it raises.
LEMMA StepFrame ==
  ASSUME TypeInv, NEW t \in Runs \cup Condensers, Step(t)
  PROVE  /\ status' = "running" => status = "running"
         /\ \A u \in Threads \ {t} : pc'[u] = pc[u]
         /\ pc[t] \in StepPCs
         /\ t \in Runs => \/ pc'[t] \in StepPCs /\ runnerLock' = runnerLock
                          \/ pc'[t] = "raise" /\ runnerLock' = NoThread
         /\ t \in Condensers => runnerLock' = runnerLock
PROOF
<1> USE ThreadAssumption DEF TypeInv, TypeOK, StepPCs, Threads
<1> DEFINE Frame == /\ status' = "running" => status = "running"
                    /\ \A u \in Threads \ {t} : pc'[u] = pc[u]
                    /\ pc[t] \in StepPCs
           Stays == pc'[t] \in StepPCs /\ runnerLock' = runnerLock
           Raises == pc'[t] = "raise" /\ runnerLock' = NoThread
<1> SUFFICES Frame /\ (t \in Runs => Stays \/ Raises)
                   /\ (t \in Condensers => runnerLock' = runnerLock)
  OBVIOUS
<1> HIDE DEF Frame, Stays, Raises
<1>0. Stays => runnerLock' = runnerLock
  BY DEF Stays
<1>1. CASE ExecutePending(t) \/ SkipBlockedPrompt(t) \/ AskLLM(t)
  <2>1. Frame /\ Stays
    BY <1>1 DEF Frame, Stays, ExecutePending, SkipBlockedPrompt, AskLLM
  <2> QED
    BY <1>0, <2>1
<1>2. CASE ReplyMessage(t) \/ ReplyQuiet(t) \/ ReplyMalformed(t) \/ ReplyToolCalls(t)
  <2>1. Frame /\ Stays
    BY <1>2 DEF Frame, Stays, ReplyMessage, ReplyQuiet, ReplyMalformed, ReplyToolCalls
  <2> QED
    BY <1>0, <2>1
<1>3. ASSUME NEW k \in Kinds, EmitAction(t, k)
      PROVE  Frame /\ Stays
  BY <1>3 DEF Frame, Stays, EmitAction
<1>4. CASE LastCallEmitted(t) \/ AskConfirmation(t) \/ ExecuteBatch(t)
  <2>1. Frame /\ Stays
    BY <1>4 DEF Frame, Stays, LastCallEmitted, AskConfirmation, ExecuteBatch
  <2> QED
    BY <1>0, <2>1
<1>5. ASSUME NEW a \in queue[t],
             \/ PopBlockedAction(t, a) \/ PublishRejection(t, a)
             \/ StartTool(t, a)
             \/ ToolReturns(t, a) \/ ToolValueError(t, a)
      PROVE  Frame /\ Stays
  BY <1>5 DEF Frame, Stays, PopBlockedAction, PublishRejection, StartTool, ToolReturns,
              ToolValueError, Advance
<1>6. CASE SetFinished(t)
  <2>1. Frame /\ Stays
    BY <1>6 DEF Frame, Stays, SetFinished
  <2> QED
    BY <1>0, <2>1
<1>7. CASE StepRaises(t)
  <2>1. pc[t] \in StepPCs /\ status' = status
    BY <1>7 DEF StepRaises, RaisesIn
  <2>2. CASE t \in Runs /\ runnerLock' = NoThread /\ Goto(t, "raise")
    BY <2>1, <2>2 DEF Frame, Raises
  <2>3. CASE t \in Condensers /\ Goto(t, "done") /\ UNCHANGED runnerLock
    BY <2>1, <2>3 DEF Frame
  <2> QED
    BY <1>7, <2>2, <2>3 DEF StepRaises
<1> QED
  BY <1>0, <1>1, <1>2, <1>3, <1>4, <1>5, <1>6, <1>7 DEF Step

\* A run that acts keeps the invariant: what it does it does under its lock,
\* and each of its ways out leaves a status other than RUNNING behind.
LEMMA RunKeeps ==
  ASSUME RunnerInv, NEW r \in Runs, Launch(r) \/ RunNext(r)
  PROVE  RunnerLockHeld' /\ HookAskedAtRest' /\ NoOrphanRunning'
PROOF
<1> USE ThreadAssumption
        DEF RunnerInv, RunnerLockHeld, HookAskedAtRest, NoOrphanRunning, Active,
            LockPCs, HookPCs, CheckPCs, Threads
<1>1. CASE Step(r)
  <2>1. TypeInv
    OBVIOUS
  <2> QED
    BY <1>1, <2>1, StepFrame DEF StepPCs
<1> USE DEF StepPCs, TypeInv, TypeOK
<1>2. CASE Launch(r)
  BY <1>2 DEF Launch
<1>3. CASE Enter(r)
  BY <1>3 DEF Enter
<1>4. CASE MarkRunning(r)
  BY <1>4 DEF MarkRunning
<1>5. CASE TopOfLoop(r)
  BY <1>5 DEF TopOfLoop, MustBreak
<1>6. CASE CheckFinished(r)
  BY <1>6 DEF CheckFinished
<1>7. CASE StopHookAllows(r)
  BY <1>7 DEF StopHookAllows
<1>8. CASE StopHookDenies(r)
  BY <1>8 DEF StopHookDenies
<1>9. CASE ResumeAfterDenial(r)
  BY <1>9 DEF ResumeAfterDenial
<1>10. CASE DetectStuck(r)
  BY <1>10 DEF DetectStuck
<1>11. CASE CheckWaiting(r)
  BY <1>11 DEF CheckWaiting
<1>12. CASE ResetWaiting(r)
  BY <1>12 DEF ResetWaiting
<1>13. CASE StepOver(r)
  BY <1>13 DEF StepOver
<1>14. CASE ReachLimit(r)
  BY <1>14 DEF ReachLimit
<1>15. CASE FailRun(r)
  BY <1>15 DEF FailRun
<1> QED
  BY <1>1, <1>2, <1>3, <1>4, <1>5, <1>6, <1>7, <1>8, <1>9, <1>10, <1>11, <1>12,
     <1>13, <1>14, <1>15
     DEF RunNext

\* The other threads never write RUNNING, and move no run.
LEMMA CallKeeps ==
  ASSUME RunnerInv,
         \/ \E s \in Senders : SendMessage(s) \/ SendNext(s)
         \/ \E j \in Rejecters : ReadPending(j) \/ AnswerNext(j)
         \/ \E j \in Reviewers : ReadPendingReview(j) \/ AnswerNext(j)
         \/ \E c \in Condensers : Condense(c) \/ CondenseNext(c)
         \/ Pause
  PROVE  RunnerLockHeld' /\ HookAskedAtRest' /\ NoOrphanRunning'
PROOF
<1> USE ThreadAssumption
        DEF RunnerInv, RunnerLockHeld, HookAskedAtRest, NoOrphanRunning, Active,
            Threads
<1>1. ASSUME NEW c \in Condensers, Step(c)
      PROVE  RunnerLockHeld' /\ HookAskedAtRest' /\ NoOrphanRunning'
  <2>1. TypeInv
    OBVIOUS
  <2>2. \A u \in Runs \cup Senders : pc'[u] = pc[u]
    BY <1>1, <2>1, StepFrame
  <2>3. runnerLock' = runnerLock /\ (status' = "running" => status = "running")
    BY <1>1, <2>1, StepFrame
  <2> QED
    BY <2>2, <2>3
<1> USE DEF LockPCs, StepPCs, HookPCs, CheckPCs, TypeInv, TypeOK
<1>2. ASSUME NEW s \in Senders, SendMessage(s)
      PROVE  RunnerLockHeld' /\ HookAskedAtRest' /\ NoOrphanRunning'
  BY <1>2 DEF SendMessage
<1>3. ASSUME NEW s \in Senders, SendNext(s)
      PROVE  RunnerLockHeld' /\ HookAskedAtRest' /\ NoOrphanRunning'
  BY <1>3 DEF SendNext, ReopenFinished, PostMessage
<1>4. ASSUME NEW j \in Rejecters \cup Reviewers,
             \/ j \in Rejecters /\ ReadPending(j)
             \/ j \in Reviewers /\ ReadPendingReview(j)
             \/ AnswerNext(j)
      PROVE  RunnerLockHeld' /\ HookAskedAtRest' /\ NoOrphanRunning'
  <2>1. \A u \in Runs \cup Senders : pc'[u] = pc[u]
    BY <1>4 DEF ReadPending, ReadPendingReview, AnswerNext, ClearWaiting, PublishAnswer
  <2>2. runnerLock' = runnerLock /\ (status' = "running" => status = "running")
    BY <1>4 DEF ReadPending, ReadPendingReview, AnswerNext, ClearWaiting, PublishAnswer
  <2> QED
    BY <2>1, <2>2
<1>5. ASSUME NEW c \in Condensers, Condense(c) \/ CondenseOver(c)
      PROVE  RunnerLockHeld' /\ HookAskedAtRest' /\ NoOrphanRunning'
  BY <1>5 DEF Condense, CondenseOver
<1>6. CASE Pause
  BY <1>6 DEF Pause
<1> QED
  BY <1>1, <1>2, <1>3, <1>4, <1>5, <1>6 DEF CondenseNext

LEMMA RunnerInvInductive ==
  ASSUME RunnerInv, [Next]_vars
  PROVE  RunnerInv'
PROOF
<1>1. CASE UNCHANGED vars
  BY <1>1 DEF vars, RunnerInv, TypeInv, TypeOK, IterationsLeft, RunnerLockHeld,
              HookAskedAtRest, NoOrphanRunning, Active
<1>2. CASE AllDone
  BY <1>1, <1>2 DEF AllDone
<1>3. TypeInv'
  BY TypeInductive DEF RunnerInv
<1> QED
  BY <1>1, <1>2, <1>3, RunKeeps, CallKeeps DEF Next, RunnerInv

LEMMA InitRunnerInv == Init => RunnerInv
PROOF
  BY BoundAssumption, ThreadAssumption
     DEF Init, RunnerInv, TypeInv, TypeOK, IterationsLeft, RunnerLockHeld, LockPCs,
         StepPCs, HookPCs, CheckPCs, HookAskedAtRest, NoOrphanRunning, PCs, Threads,
         ActionIds, Statuses

LEMMA RunnerInvAlways == Spec => []RunnerInv
PROOF
<1>1. RunnerInv /\ [Next]_vars => RunnerInv'
  BY RunnerInvInductive
<1> QED
  BY <1>1, InitRunnerInv, PTL DEF Spec

\* However many runs are started, at most one of them is inside a step.
THEOREM StepsExclusive == Spec => []OneRunSteps
PROOF
<1>1. RunnerInv => OneRunSteps
  BY DEF RunnerInv, RunnerLockHeld, LockPCs, OneRunSteps, InStep
<1> QED
  BY <1>1, RunnerInvAlways, PTL

\* The agent is never left RUNNING with no run behind it.
THEOREM NoneLeftRunning == Spec => []NoOrphanRunning
PROOF
<1>1. RunnerInv => NoOrphanRunning
  BY DEF RunnerInv
<1> QED
  BY <1>1, RunnerInvAlways, PTL
-----------------------------------------------------------------------------
(* One executable action: once observed it is not run again, once denied it *)
(* is never run.  Both rest on the runner's lock, which condense() does not *)
(* take; they are theorems of the conversations that nobody condenses.      *)

NobodyCondenses == Condensers = {}
NobodyReviews == Reviewers = {}

\* Where a run may hold a list of actions.
BatchPCs == {"emit", "decide", "exec", "reject", "tool", "finish"}

\* A run holds a list only inside a step.
BatchInStep == \A r \in Runs : pc[r] \notin BatchPCs => queue[r] = {}

\* Lists name actions of the log; what is not in the log has no history.
OnlyLogged ==
  /\ \A t \in Threads : queue[t] \subseteq 1..issued
  /\ \A a \in ActionIds : a > issued => answers[a] = {} /\ invoked[a] = 0 /\ a \notin denied

\* A run that tells the log of a rejection is past popping the block.
BeingRejected(r, a) == pc[r] = "reject" /\ IsFirst(a, queue[r])

\* A denied action is still blocked, or answered, or being rejected...
DeniedSettled ==
  \A a \in denied : \/ a \in blocked
                    \/ "rejection" \in answers[a]
                    \/ \E r \in Runs : BeingRejected(r, a)

\* ...and one that a run is about to work off is not merely answered.
DeniedInQueue ==
  \A r \in Runs : \A a \in queue[r] \cap denied : a \in blocked \/ BeingRejected(r, a)

DeniedInv == BatchInStep /\ OnlyLogged /\ DeniedSettled /\ DeniedInQueue /\ DeniedNeverRuns

\* What a run is about to work off has no observation yet.
UnobservedInQueue == \A r \in Runs : \A a \in queue[r] : "observation" \notin answers[a]

\* While a run is in a step no other run holds a list.
LEMMA StepAlone ==
  ASSUME RunnerInv, BatchInStep, NEW t \in Runs, pc[t] \in StepPCs
  PROVE  \A r \in Runs \ {t} : pc[r] \notin BatchPCs /\ queue[r] = {}
PROOF
  BY DEF RunnerInv, RunnerLockHeld, LockPCs, StepPCs, BatchPCs, BatchInStep

\* A thread that is not telling the log of a rejection moves on, with a list in
\* which every denied action is blocked, and the log stays as it is.
LEMMA MoveKeepsDenied ==
  ASSUME TypeInv, DeniedInv, NEW t \in Threads,
         UNCHANGED <<issued, answers, blocked, invoked, denied>>,
         \A u \in Threads \ {t} : pc'[u] = pc[u] /\ queue'[u] = queue[u],
         t \in Runs => pc[t] # "reject",
         queue'[t] \subseteq 1..issued,
         t \in Runs => /\ pc'[t] \notin BatchPCs => queue'[t] = {}
                       /\ queue'[t] \cap denied \subseteq blocked
  PROVE  DeniedInv'
PROOF
<1> USE DEF DeniedInv, Threads
<1>1. BatchInStep'
  BY DEF BatchInStep
<1>2. OnlyLogged'
  BY DEF OnlyLogged
<1>3. \A r \in Runs : \A a \in ActionIds : BeingRejected(r, a) => BeingRejected(r, a)'
  BY DEF BeingRejected, IsFirst
<1>4. DeniedSettled'
  BY <1>3 DEF DeniedSettled, TypeInv, TypeOK
<1>5. DeniedInQueue'
  BY <1>3 DEF DeniedInQueue, TypeInv, TypeOK
<1>6. DeniedNeverRuns'
  BY DEF DeniedNeverRuns
<1> QED
  BY <1>1, <1>2, <1>4, <1>5, <1>6

\* A step that changes neither the log nor what is known of an action.
LEMMA QuietStepKeepsDenied ==
  ASSUME RunnerInv, DeniedInv, NEW t \in Runs,
         \/ ExecutePending(t) \/ SkipBlockedPrompt(t) \/ AskLLM(t)
         \/ ReplyMessage(t) \/ ReplyQuiet(t) \/ ReplyMalformed(t) \/ ReplyToolCalls(t)
         \/ LastCallEmitted(t) \/ AskConfirmation(t) \/ ExecuteBatch(t)
         \/ SetFinished(t) \/ StepRaises(t)
  PROVE  DeniedInv'
PROOF
<1> USE DEF Threads
<1> DEFINE Moved == /\ UNCHANGED <<issued, answers, blocked, invoked, denied>>
                    /\ \A u \in Threads \ {t} : pc'[u] = pc[u] /\ queue'[u] = queue[u]
                    /\ pc[t] # "reject"
           Listed == /\ queue'[t] \subseteq 1..issued
                     /\ pc'[t] \notin BatchPCs => queue'[t] = {}
                     /\ queue'[t] \cap denied \subseteq blocked
<1>1. TypeInv /\ pc \in [Threads -> PCs] /\ queue \in [Threads -> SUBSET ActionIds]
  BY DEF RunnerInv, TypeInv, TypeOK
<1>2. pc[t] \notin BatchPCs => queue[t] = {}
  BY DEF DeniedInv, BatchInStep
<1>3. queue[t] \subseteq 1..issued
  BY DEF DeniedInv, OnlyLogged
<1>4. pc[t] # "reject" => queue[t] \cap denied \subseteq blocked
  BY DEF DeniedInv, DeniedInQueue, BeingRejected
<1>5. SUFFICES Moved /\ Listed
  BY <1>1, MoveKeepsDenied
<1>6. CASE ExecutePending(t)
  <2>1. RunnerUnmatched \cap denied \subseteq blocked
    <3>1. \A r \in Runs : pc[r] # "reject"
      BY <1>6, StepAlone DEF ExecutePending, StepPCs, BatchPCs, DeniedInv
    <3> QED
      BY <3>1 DEF DeniedInv, DeniedSettled, BeingRejected, RunnerUnmatched
  <2>2. RunnerUnmatched \subseteq 1..issued
    BY DEF RunnerUnmatched
  <2> QED
    BY <1>1, <1>6, <2>1, <2>2 DEF ExecutePending, BatchPCs
<1>7. CASE SkipBlockedPrompt(t) \/ AskLLM(t)
  BY <1>1, <1>2, <1>3, <1>4, <1>7 DEF SkipBlockedPrompt, AskLLM, BatchPCs
<1>8. CASE ReplyMessage(t) \/ ReplyQuiet(t) \/ ReplyMalformed(t) \/ ReplyToolCalls(t)
  BY <1>1, <1>2, <1>3, <1>4, <1>8
     DEF ReplyMessage, ReplyQuiet, ReplyMalformed, ReplyToolCalls, BatchPCs
<1>9. CASE LastCallEmitted(t) \/ ExecuteBatch(t) \/ SetFinished(t)
  BY <1>1, <1>3, <1>4, <1>9 DEF LastCallEmitted, ExecuteBatch, SetFinished, BatchPCs
<1>10. CASE AskConfirmation(t)
  BY <1>1, <1>10 DEF AskConfirmation
<1>11. CASE StepRaises(t)
  <2>1. queue' = [queue EXCEPT ![t] = {}] /\ pc[t] # "reject"
    BY <1>11 DEF StepRaises, RaisesIn
  <2>2. \A u \in Threads \ {t} : pc'[u] = pc[u]
    BY <1>1, <1>11 DEF StepRaises
  <2>3. UNCHANGED <<issued, answers, blocked, invoked, denied>>
    BY <1>11 DEF StepRaises
  <2> QED
    BY <1>1, <2>1, <2>2, <2>3
<1> QED
  BY <1>6, <1>7, <1>8, <1>9, <1>10, <1>11

\* An action is appended to the log: it has no history, and it is blocked before
\* it is listed if the hook denied it.
LEMMA EmitKeepsDenied ==
  ASSUME RunnerInv, DeniedInv, NEW t \in Runs, NEW k \in Kinds, EmitAction(t, k)
  PROVE  DeniedInv'
PROOF
<1> DEFINE new == issued + 1
<1> USE DEF Threads
<1>1. TypeInv /\ issued \in Nat /\ issued < MaxActions
  BY BoundAssumption DEF RunnerInv, TypeInv, TypeOK, EmitAction
<1>2. /\ new \in ActionIds /\ new > issued /\ issued' = new
      /\ pc[t] = "emit" /\ UNCHANGED <<pc, answers, invoked>>
      /\ queue' = [queue EXCEPT ![t] = @ \cup {new}]
  BY <1>1, BoundAssumption DEF EmitAction, ActionIds
<1>3. new \notin denied /\ invoked[new] = 0
  BY <1>2 DEF DeniedInv, OnlyLogged
<1>4. /\ denied' \subseteq denied \cup {new} /\ blocked \subseteq blocked'
      /\ new \in denied' => new \in blocked'
  BY <1>3 DEF EmitAction
<1>5. queue \in [Threads -> SUBSET ActionIds] /\ denied \subseteq ActionIds
  BY <1>1 DEF TypeInv, TypeOK
<1>6. \A r \in Runs : \A a \in ActionIds : BeingRejected(r, a) => BeingRejected(r, a)'
  BY <1>2, <1>5 DEF BeingRejected, IsFirst
<1> HIDE DEF new
<1>7. BatchInStep'
  BY <1>2, <1>5 DEF DeniedInv, BatchInStep, BatchPCs
<1>8. OnlyLogged'
  <2>1. \A u \in Threads : queue'[u] \subseteq 1..issued'
    BY <1>1, <1>2, <1>5 DEF DeniedInv, OnlyLogged, new
  <2>2. \A a \in ActionIds : a > issued' => a > issued /\ a # new
    BY <1>1, <1>2 DEF new, ActionIds
  <2> QED
    BY <1>2, <1>4, <2>1, <2>2 DEF DeniedInv, OnlyLogged
<1>9. DeniedSettled'
  BY <1>2, <1>4, <1>5, <1>6 DEF DeniedInv, DeniedSettled
<1>10. DeniedInQueue'
  BY <1>2, <1>4, <1>5, <1>6 DEF DeniedInv, DeniedInQueue
<1>11. DeniedNeverRuns'
  BY <1>2, <1>3, <1>4 DEF DeniedInv, DeniedNeverRuns
<1> QED
  BY <1>7, <1>8, <1>9, <1>10, <1>11 DEF DeniedInv

\* The block of the first listed action is consumed: it is being rejected now,
\* and no other run lists it.
LEMMA PopKeepsDenied ==
  ASSUME RunnerInv, DeniedInv, NEW t \in Runs, NEW a \in queue[t], PopBlockedAction(t, a)
  PROVE  DeniedInv'
PROOF
<1> USE DEF Threads
<1>1. /\ pc \in [Threads -> PCs] /\ denied \subseteq ActionIds
  BY DEF RunnerInv, TypeInv, TypeOK
<1>2. /\ pc[t] = "exec" /\ pc' = [pc EXCEPT ![t] = "reject"] /\ IsFirst(a, queue[t])
      /\ blocked' = blocked \ {a}
      /\ UNCHANGED <<queue, issued, answers, invoked, denied>>
  BY DEF PopBlockedAction
<1>3. BeingRejected(t, a)'
  BY <1>1, <1>2 DEF BeingRejected, IsFirst
<1>4. \A r \in Runs \ {t} : pc[r] \notin BatchPCs /\ queue[r] = {}
  BY <1>2, StepAlone DEF DeniedInv, StepPCs
<1>5. \A r \in Runs : \A b \in ActionIds : ~BeingRejected(r, b)
  BY <1>2, <1>4 DEF BeingRejected, BatchPCs
<1>6. BatchInStep'
  BY <1>1, <1>2, <1>4 DEF BatchInStep, BatchPCs
<1>7. OnlyLogged'
  BY <1>2 DEF DeniedInv, OnlyLogged
<1>8. DeniedSettled'
  BY <1>1, <1>2, <1>3, <1>5 DEF DeniedInv, DeniedSettled
<1>9. DeniedInQueue'
  <2>1. \A b \in queue[t] \cap denied : b \in blocked
    BY <1>1, <1>5 DEF DeniedInv, DeniedInQueue
  <2> QED
    BY <1>2, <1>3, <1>4, <2>1 DEF DeniedInQueue
<1>10. DeniedNeverRuns'
  BY <1>2 DEF DeniedInv, DeniedNeverRuns
<1> QED
  BY <1>6, <1>7, <1>8, <1>9, <1>10 DEF DeniedInv

\* The tool of an action starts: its block has been looked at, so the hook has
\* not denied it.
LEMMA StartKeepsDenied ==
  ASSUME RunnerInv, DeniedInv, NEW t \in Runs, NEW a \in queue[t], StartTool(t, a)
  PROVE  DeniedInv'
PROOF
<1> USE DEF Threads
<1>1. /\ pc \in [Threads -> PCs] /\ denied \subseteq ActionIds
      /\ invoked \in [ActionIds -> Nat] /\ issued \in 0..MaxActions
  BY DEF RunnerInv, TypeInv, TypeOK
<1>2. /\ pc[t] = "exec" /\ pc' = [pc EXCEPT ![t] = "tool"] /\ a \notin blocked
      /\ invoked' = [invoked EXCEPT ![a] = @ + 1]
      /\ UNCHANGED <<queue, issued, answers, blocked, denied>>
  BY DEF StartTool
<1>3. a \in 1..issued /\ a \in ActionIds
  BY <1>1, BoundAssumption DEF DeniedInv, OnlyLogged, ActionIds
<1>4. a \notin denied
  BY <1>2 DEF DeniedInv, DeniedInQueue, BeingRejected
<1>5. \A r \in Runs : \A b \in ActionIds : BeingRejected(r, b) => BeingRejected(r, b)'
  BY <1>1, <1>2 DEF BeingRejected, IsFirst
<1>6. BatchInStep'
  BY <1>1, <1>2 DEF DeniedInv, BatchInStep, BatchPCs
<1>7. OnlyLogged'
  <2>1. \A b \in ActionIds : b > issued => b # a
    BY <1>1, <1>3 DEF ActionIds
  <2> QED
    BY <1>1, <1>2, <2>1 DEF DeniedInv, OnlyLogged
<1>8. DeniedSettled' /\ DeniedInQueue'
  BY <1>1, <1>2, <1>5 DEF DeniedInv, DeniedSettled, DeniedInQueue
<1>9. DeniedNeverRuns'
  BY <1>1, <1>2, <1>4 DEF DeniedInv, DeniedNeverRuns
<1> QED
  BY <1>6, <1>7, <1>8, <1>9 DEF DeniedInv

\* The run answers an action and strikes it off its list; if the action was
\* being rejected the answer is the rejection.
LEMMA AnswerKeepsDenied ==
  ASSUME RunnerInv, DeniedInv, NEW t \in Runs, NEW a \in queue[t],
         PublishRejection(t, a) \/ ToolReturns(t, a) \/ ToolValueError(t, a)
  PROVE  DeniedInv'
PROOF
<1> USE DEF Threads
<1>1. /\ pc \in [Threads -> PCs] /\ denied \subseteq ActionIds
      /\ queue \in [Threads -> SUBSET ActionIds]
      /\ answers \in [ActionIds -> SUBSET Answers] /\ issued \in 0..MaxActions
  BY DEF RunnerInv, TypeInv, TypeOK
<1>2. /\ pc[t] \in {"reject", "tool"} /\ IsFirst(a, queue[t])
      /\ queue' = [queue EXCEPT ![t] = @ \ {a}]
      /\ UNCHANGED <<issued, blocked, invoked, denied>>
  BY DEF PublishRejection, ToolReturns, ToolValueError, Advance
<1>3. PICK p \in {"over", "exec", "finish"} :
        pc' = [pc EXCEPT ![t] = p] /\ (p = "over" => queue[t] = {a})
  BY DEF PublishRejection, ToolReturns, ToolValueError, Advance
<1>4. PICK what \in Answers :
        /\ answers' = [answers EXCEPT ![a] = @ \cup {what}]
        /\ pc[t] = "reject" => what = "rejection"
  BY DEF PublishRejection, ToolReturns, ToolValueError, Answer, Answers
<1>5. a \in 1..issued /\ a \in ActionIds
  BY <1>1, BoundAssumption DEF DeniedInv, OnlyLogged, ActionIds
<1>6. \A r \in Runs \ {t} : pc[r] \notin BatchPCs /\ queue[r] = {}
  BY <1>2, StepAlone DEF DeniedInv, StepPCs
<1>7. \A r \in Runs : \A b \in queue[r] : BeingRejected(r, b) =>
         r = t /\ b = a /\ pc[t] = "reject"
  BY <1>1, <1>2, <1>6 DEF BeingRejected, BatchPCs, IsFirst, ActionIds
<1>8. BatchInStep'
  BY <1>1, <1>2, <1>3 DEF DeniedInv, BatchInStep, BatchPCs
<1>9. OnlyLogged'
  <2>1. \A b \in ActionIds : b > issued => b # a
    BY <1>1, <1>5 DEF ActionIds
  <2> QED
    BY <1>1, <1>2, <1>4, <2>1 DEF DeniedInv, OnlyLogged
<1>10. DeniedSettled'
  <2>1. ASSUME NEW b \in denied
        PROVE  b \in blocked \/ "rejection" \in answers'[b]
    <3>1. CASE "rejection" \in answers[b]
      BY <1>1, <1>4, <3>1
    <3>2. ASSUME NEW r \in Runs, BeingRejected(r, b)
          PROVE  "rejection" \in answers'[b]
      BY <1>1, <1>4, <1>5, <1>7, <3>2 DEF BeingRejected, IsFirst
    <3> QED
      BY <3>1, <3>2 DEF DeniedInv, DeniedSettled
  <2> QED
    BY <1>2, <2>1 DEF DeniedSettled
<1>11. DeniedInQueue'
  BY <1>1, <1>2, <1>6, <1>7 DEF DeniedInv, DeniedInQueue
<1>12. DeniedNeverRuns'
  BY <1>2 DEF DeniedInv, DeniedNeverRuns
<1> QED
  BY <1>8, <1>9, <1>10, <1>11, <1>12 DEF DeniedInv

LEMMA StepKeepsDenied ==
  ASSUME RunnerInv, DeniedInv, NEW t \in Runs, Step(t)
  PROVE  DeniedInv'
PROOF
  BY QuietStepKeepsDenied, EmitKeepsDenied, PopKeepsDenied, StartKeepsDenied,
     AnswerKeepsDenied
     DEF Step

\* Around its steps a run holds no list.
LEMMA RunKeepsDenied ==
  ASSUME RunnerInv, DeniedInv, NEW r \in Runs, Launch(r) \/ RunNext(r)
  PROVE  DeniedInv'
PROOF
<1>1. CASE Step(r)
  BY <1>1, StepKeepsDenied
<1>2. TypeInv /\ pc \in [Threads -> PCs] /\ r \in Threads
  BY DEF RunnerInv, TypeInv, TypeOK, Threads
<1>3. ASSUME /\ pc[r] \notin BatchPCs
             /\ UNCHANGED <<queue, issued, answers, blocked, invoked, denied>>
             /\ \A u \in Threads \ {r} : pc'[u] = pc[u]
      PROVE  DeniedInv'
  <2>1. queue[r] = {} /\ pc[r] # "reject"
    BY <1>3 DEF DeniedInv, BatchInStep, BatchPCs
  <2> QED
    BY <1>2, <1>3, <2>1, MoveKeepsDenied
<1> USE DEF BatchPCs
<1>4. CASE Launch(r) \/ Enter(r) \/ MarkRunning(r) \/ TopOfLoop(r)
  BY <1>2, <1>3, <1>4 DEF Launch, Enter, MarkRunning, TopOfLoop
<1>5. CASE CheckFinished(r) \/ StopHookAllows(r) \/ StopHookDenies(r)
           \/ ResumeAfterDenial(r)
  BY <1>2, <1>3, <1>5 DEF CheckFinished, StopHookAllows, StopHookDenies, ResumeAfterDenial
<1>6. CASE DetectStuck(r) \/ CheckWaiting(r) \/ ResetWaiting(r)
  BY <1>2, <1>3, <1>6 DEF DetectStuck, CheckWaiting, ResetWaiting
<1>7. CASE StepOver(r) \/ ReachLimit(r) \/ FailRun(r)
  BY <1>2, <1>3, <1>7 DEF StepOver, ReachLimit, FailRun
<1> QED
  BY <1>1, <1>4, <1>5, <1>6, <1>7 DEF RunNext

\* A user who answers what is pending answers actions of the log only.
LEMMA CallKeepsDenied ==
  ASSUME RunnerInv, DeniedInv,
         \/ \E s \in Senders : SendMessage(s) \/ SendNext(s)
         \/ \E j \in Rejecters : ReadPending(j) \/ AnswerNext(j)
         \/ \E j \in Reviewers : ReadPendingReview(j) \/ AnswerNext(j)
         \/ Pause
  PROVE  DeniedInv'
PROOF
<1> USE ThreadAssumption DEF Threads
<1>1. /\ TypeInv /\ pc \in [Threads -> PCs] /\ queue \in [Threads -> SUBSET ActionIds]
      /\ answers \in [ActionIds -> SUBSET Answers] /\ denied \subseteq ActionIds
      /\ issued \in 0..MaxActions
  BY DEF RunnerInv, TypeInv, TypeOK
<1>2. \A u \in Threads : queue[u] \subseteq 1..issued
  BY DEF DeniedInv, OnlyLogged
<1>3. ASSUME NEW u \in Threads \ Runs,
             \A v \in Threads \ {u} : pc'[v] = pc[v] /\ queue'[v] = queue[v],
             UNCHANGED <<issued, answers, blocked, invoked, denied>>,
             queue'[u] \subseteq 1..issued
      PROVE  DeniedInv'
  BY <1>1, <1>3, MoveKeepsDenied
<1>4. ASSUME NEW s \in Senders, SendMessage(s) \/ SendNext(s)
      PROVE  DeniedInv'
  BY <1>1, <1>2, <1>3, <1>4 DEF SendMessage, SendNext, ReopenFinished, PostMessage
<1>5. ASSUME NEW j \in Rejecters \cup Reviewers,
             ReadPending(j) \/ ReadPendingReview(j) \/ ClearWaiting(j)
      PROVE  DeniedInv'
  <2>1. StateUnmatched \subseteq 1..issued /\ PendingReviews \subseteq 1..issued
    BY DEF StateUnmatched, PendingReviews
  <2>2. queue'[j] \subseteq 1..issued
    <3>1. CASE ReadPending(j) \/ ClearWaiting(j)
      BY <1>1, <1>2, <2>1, <3>1 DEF ReadPending, ClearWaiting
    <3>2. CASE ReadPendingReview(j)
      <4>1. CASE UNCHANGED queue
        BY <1>2, <4>1
      <4>2. ASSUME NEW a \in PendingReviews, queue' = [queue EXCEPT ![j] = {a}]
            PROVE  queue'[j] \subseteq 1..issued
        BY <1>1, <2>1, <4>2
      <4> QED
        BY <3>2, <4>1, <4>2 DEF ReadPendingReview
    <3> QED
      BY <1>5, <3>1, <3>2
  <2>3. \A u \in Threads \ {j} : pc'[u] = pc[u] /\ queue'[u] = queue[u]
    BY <1>1, <1>5 DEF ReadPending, ReadPendingReview, ClearWaiting
  <2>4. UNCHANGED <<issued, answers, blocked, invoked, denied>>
    BY <1>5 DEF ReadPending, ReadPendingReview, ClearWaiting
  <2>5. j \in Threads \ Runs
    OBVIOUS
  <2> QED
    BY <1>3, <2>2, <2>3, <2>4, <2>5
<1>6. ASSUME NEW j \in Rejecters \cup Reviewers, NEW a \in queue[j], PublishAnswer(j, a)
      PROVE  DeniedInv'
  <2>1. a \in 1..issued /\ a \in ActionIds /\ j \notin Runs
    BY <1>1, <1>2, BoundAssumption DEF ActionIds
  <2>2. /\ queue' = [queue EXCEPT ![j] = @ \ {a}]
        /\ \A r \in Runs : pc'[r] = pc[r] /\ queue'[r] = queue[r]
        /\ UNCHANGED <<issued, blocked, invoked, denied>>
    BY <1>1, <1>6, <2>1 DEF PublishAnswer
  <2>3. \A b \in ActionIds : answers[b] \subseteq answers'[b] /\ (b # a => answers'[b] = answers[b])
    BY <1>1, <1>6, <2>1 DEF PublishAnswer, Answer
  <2>4. \A r \in Runs : \A b \in ActionIds : BeingRejected(r, b) => BeingRejected(r, b)'
    BY <2>2 DEF BeingRejected, IsFirst
  <2>5. BatchInStep'
    BY <2>2 DEF DeniedInv, BatchInStep
  <2>6. OnlyLogged'
    <3>1. \A b \in ActionIds : b > issued => b # a
      BY <1>1, <2>1 DEF ActionIds
    <3> QED
      BY <1>1, <2>2, <2>3, <3>1 DEF DeniedInv, OnlyLogged
  <2>7. DeniedSettled' /\ DeniedInQueue'
    BY <1>1, <2>2, <2>3, <2>4 DEF DeniedInv, DeniedSettled, DeniedInQueue
  <2>8. DeniedNeverRuns'
    BY <2>2 DEF DeniedInv, DeniedNeverRuns
  <2> QED
    BY <2>5, <2>6, <2>7, <2>8 DEF DeniedInv
<1>7. CASE Pause
  <2>1. UNCHANGED <<pc, queue, issued, answers, blocked, invoked, denied>>
    BY <1>7 DEF Pause
  <2> QED
    BY <2>1 DEF DeniedInv, BatchInStep, OnlyLogged, DeniedSettled, DeniedInQueue,
                DeniedNeverRuns, BeingRejected
<1> QED
  BY <1>4, <1>5, <1>6, <1>7 DEF AnswerNext

LEMMA DeniedInvAlways ==
  ASSUME NobodyCondenses
  PROVE  Spec => [](RunnerInv /\ DeniedInv)
PROOF
<1>1. Init => DeniedInv
  BY BoundAssumption
     DEF Init, DeniedInv, BatchInStep, OnlyLogged, DeniedSettled, DeniedInQueue,
         DeniedNeverRuns, ActionIds, Threads
<1>2. ASSUME RunnerInv, DeniedInv, [Next]_vars
      PROVE  DeniedInv'
  <2>1. CASE UNCHANGED vars
    BY <1>2, <2>1
       DEF vars, DeniedInv, BatchInStep, OnlyLogged, DeniedSettled, DeniedInQueue,
           DeniedNeverRuns, BeingRejected
  <2>2. CASE AllDone
    BY <2>1, <2>2 DEF AllDone
  <2> QED
    BY <1>2, <2>1, <2>2, RunKeepsDenied, CallKeepsDenied DEF Next, NobodyCondenses
<1>3. RunnerInv /\ DeniedInv /\ [Next]_vars => RunnerInv' /\ DeniedInv'
  BY <1>2, RunnerInvInductive
<1> QED
  BY <1>1, <1>3, InitRunnerInv, PTL DEF Spec

\* An action that a PreToolUse hook blocked is never executed, whatever number
\* of runs picks it up, and whoever pauses, writes or answers meanwhile.
THEOREM DeniedStaysOff ==
  ASSUME NobodyCondenses
  PROVE  Spec => []DeniedNeverRuns
PROOF
<1>1. RunnerInv /\ DeniedInv => DeniedNeverRuns
  BY DEF DeniedInv
<1> QED
  BY <1>1, DeniedInvAlways, PTL

-----------------------------------------------------------------------------
(* Observed actions.                                                        *)

ObservedInv == RunnerInv /\ DeniedInv /\ UnobservedInQueue

LEMMA StepKeepsUnobserved ==
  ASSUME ObservedInv, NEW t \in Runs, Step(t)
  PROVE  UnobservedInQueue'
PROOF
<1> USE DEF ObservedInv, UnobservedInQueue, Threads
<1>1. /\ queue \in [Threads -> SUBSET ActionIds]
      /\ answers \in [ActionIds -> SUBSET Answers] /\ issued \in 0..MaxActions
  BY DEF RunnerInv, TypeInv, TypeOK
<1>2. ASSUME \A r \in Runs : queue'[r] \subseteq queue[r], UNCHANGED answers
      PROVE  UnobservedInQueue'
  BY <1>2
<1>3. CASE ExecutePending(t)
  BY <1>1, <1>3 DEF ExecutePending, RunnerUnmatched
<1>4. CASE SkipBlockedPrompt(t) \/ AskLLM(t) \/ ReplyMessage(t) \/ ReplyQuiet(t)
           \/ ReplyMalformed(t) \/ ReplyToolCalls(t) \/ LastCallEmitted(t)
           \/ ExecuteBatch(t) \/ SetFinished(t)
  BY <1>4
     DEF SkipBlockedPrompt, AskLLM, ReplyMessage, ReplyQuiet, ReplyMalformed,
         ReplyToolCalls, LastCallEmitted, ExecuteBatch, SetFinished
<1>5. CASE AskConfirmation(t) \/ StepRaises(t)
  <2>1. queue' = [queue EXCEPT ![t] = {}] /\ UNCHANGED answers
    BY <1>5 DEF AskConfirmation, StepRaises
  <2> QED
    BY <1>1, <1>2, <2>1
<1>6. ASSUME NEW k \in Kinds, EmitAction(t, k)
      PROVE  UnobservedInQueue'
  <2>1. answers[issued + 1] = {}
    BY <1>1, <1>6, BoundAssumption DEF EmitAction, DeniedInv, OnlyLogged, ActionIds
  <2> QED
    BY <1>1, <1>6, <2>1 DEF EmitAction
<1>7. ASSUME NEW a \in queue[t], PopBlockedAction(t, a) \/ StartTool(t, a)
      PROVE  UnobservedInQueue'
  BY <1>7 DEF PopBlockedAction, StartTool
<1>8. ASSUME NEW a \in queue[t],
             PublishRejection(t, a) \/ ToolReturns(t, a) \/ ToolValueError(t, a)
      PROVE  UnobservedInQueue'
  <2>1. /\ pc[t] \in StepPCs
        /\ queue' = [queue EXCEPT ![t] = @ \ {a}]
        /\ \E what \in Answers : Answer(a, what)
    BY <1>8 DEF PublishRejection, ToolReturns, ToolValueError, Advance, StepPCs, Answers
  <2>2. \A r \in Runs \ {t} : queue[r] = {}
    BY <2>1, StepAlone DEF DeniedInv
  <2> QED
    BY <1>1, <2>1, <2>2 DEF Answer
<1> QED
  BY <1>3, <1>4, <1>5, <1>6, <1>7, <1>8 DEF Step

\* Who does not step changes no run's list, and observes nothing.
LEMMA OthersKeepUnobserved ==
  ASSUME ObservedInv, NobodyCondenses, NobodyReviews, [Next]_vars,
         \A r \in Runs : ~Step(r)
  PROVE  UnobservedInQueue' /\ UNCHANGED invoked
PROOF
<1> USE ThreadAssumption DEF Threads
<1>1. /\ queue \in [Threads -> SUBSET ActionIds]
      /\ answers \in [ActionIds -> SUBSET Answers]
  BY DEF ObservedInv, RunnerInv, TypeInv, TypeOK
<1> DEFINE Kept == /\ \A r \in Runs : queue'[r] = queue[r]
                   /\ \A a \in ActionIds : "observation" \in answers'[a]
                                            => "observation" \in answers[a]
                   /\ UNCHANGED invoked
<1>2. SUFFICES Kept
  BY <1>1 DEF ObservedInv, UnobservedInQueue
<1>3. CASE UNCHANGED vars
  BY <1>3 DEF vars
<1>4. ASSUME NEW r \in Runs, Launch(r) \/ RunNext(r)
      PROVE  Kept
  BY <1>4
     DEF RunNext, Launch, Enter, MarkRunning, TopOfLoop, CheckFinished, StopHookAllows,
         StopHookDenies, ResumeAfterDenial, DetectStuck, CheckWaiting, ResetWaiting,
         StepOver, ReachLimit, FailRun
<1>5. ASSUME NEW s \in Senders, SendMessage(s) \/ SendNext(s)
      PROVE  Kept
  BY <1>5 DEF SendMessage, SendNext, ReopenFinished, PostMessage
<1>6. ASSUME NEW j \in Rejecters, ReadPending(j) \/ ClearWaiting(j)
      PROVE  Kept
  BY <1>1, <1>6 DEF ReadPending, ClearWaiting
<1>7. ASSUME NEW j \in Rejecters, NEW a \in queue[j], PublishAnswer(j, a)
      PROVE  Kept
  <2>1. answers' = [answers EXCEPT ![a] = @ \cup {"rejection"}]
    BY <1>7 DEF PublishAnswer, Answer
  <2> QED
    BY <1>1, <1>7, <2>1 DEF PublishAnswer
<1>8. CASE Pause
  BY <1>8 DEF Pause
<1> QED
  BY <1>3, <1>4, <1>5, <1>6, <1>7, <1>8
     DEF Next, AllDone, AnswerNext, NobodyCondenses, NobodyReviews

\* Once the log holds the observation of an action no run executes its tool
\* again, whatever number of runs and rejections there are.
THEOREM ObservedStaysDone ==
  ASSUME NobodyCondenses, NobodyReviews
  PROVE  Spec => ObservedNeverRerun
PROOF
<1>1. ASSUME ObservedInv, [Next]_vars
      PROVE  UnobservedInQueue'
  BY <1>1, StepKeepsUnobserved, OthersKeepUnobserved
<1>2. ASSUME ObservedInv, [Next]_vars
      PROVE  [\A a \in ActionIds : "observation" \in answers[a]
                                   => invoked'[a] = invoked[a]]_vars
  <2>1. ASSUME NEW t \in Runs, Step(t), NEW a \in ActionIds, "observation" \in answers[a]
        PROVE  invoked'[a] = invoked[a]
    <3>1. invoked \in [ActionIds -> Nat]
      BY <1>2 DEF ObservedInv, RunnerInv, TypeInv, TypeOK
    <3>2. ASSUME NEW b \in queue[t], StartTool(t, b)
          PROVE  b # a /\ invoked' = [invoked EXCEPT ![b] = @ + 1]
      BY <1>2, <2>1, <3>2 DEF StartTool, ObservedInv, UnobservedInQueue
    <3>3. ASSUME \A b \in queue[t] : ~StartTool(t, b)
          PROVE  UNCHANGED invoked
      BY <2>1, <3>3
         DEF Step, ExecutePending, SkipBlockedPrompt, AskLLM, ReplyMessage, ReplyQuiet,
             ReplyMalformed, ReplyToolCalls, EmitAction, LastCallEmitted, AskConfirmation,
             ExecuteBatch, PopBlockedAction, PublishRejection, ToolReturns,
             ToolValueError, SetFinished, StepRaises
    <3> QED
      BY <3>1, <3>2, <3>3
  <2> QED
    BY <1>2, <2>1, OthersKeepUnobserved
<1>3. Init => UnobservedInQueue
  BY DEF Init, UnobservedInQueue, Threads
<1>4. /\ UnobservedInQueue /\ RunnerInv /\ DeniedInv /\ [Next]_vars => UnobservedInQueue'
      /\ UnobservedInQueue /\ RunnerInv /\ DeniedInv /\ [Next]_vars
           => [\A a \in ActionIds : "observation" \in answers[a]
                                     => invoked'[a] = invoked[a]]_vars
  BY <1>1, <1>2 DEF ObservedInv
<1> QED
  BY <1>3, <1>4, DeniedInvAlways, PTL DEF Spec, ObservedNeverRerun

-----------------------------------------------------------------------------
(* The last user message of an agent that rests FINISHED.  A finish action  *)
(* that an earlier run left pending is executed before the LLM is asked, so *)
(* the message is certain to be shown only where the agent has no finish    *)
(* tool; condense() sets FINISHED without the runner's lock.                *)

FinishNotCalled == "finish" \notin Kinds

Shown == prompt \in {"none", "seen"}

\* A finish action is never in the log.
NoFinishAction == \A a \in ActionIds : kind[a] # "finish"

\* Who publishes a message found the agent not FINISHED, or has reopened it.
PostsToUnfinished == \A s \in Senders : pc[s] = "post" => status # "finished"

\* A run asks the LLM with an unfinished agent, and ends the task only with
\* the last message shown.
AsksUnfinished ==
  \A r \in Runs :
    pc[r] \in {"stuckCheck", "waitCheck", "unwait", "step", "llm"} => status # "finished"
EndsShown == \A r \in Runs : pc[r] \in {"llm", "finish"} => Shown

\* The feedback of a stop hook is the one message that meets a FINISHED agent,
\* and the run that published it is about to write RUNNING.
FinishedShown == status = "finished" => Shown \/ \E r \in Runs : pc[r] = "denied"

ShownInv ==
  NoFinishAction /\ PostsToUnfinished /\ AsksUnfinished /\ EndsShown /\ FinishedShown

\* A step finds nobody else at work on the messages.
LEMMA StepKeepsShown ==
  ASSUME RunnerInv, ShownInv, FinishNotCalled, NEW t \in Runs, Step(t)
  PROVE  ShownInv'
PROOF
<1>1. /\ pc[t] \in StepPCs /\ runnerLock = t
      /\ \A u \in Threads \ {t} : pc'[u] = pc[u]
  BY StepFrame DEF RunnerInv, RunnerLockHeld, LockPCs, Threads
<1>2. \A r \in Runs \ {t} : pc[r] \notin LockPCs /\ pc'[r] = pc[r]
  BY <1>1 DEF RunnerInv, RunnerLockHeld, Threads
<1>3. PostsToUnfinished'
  BY <1>1, ThreadAssumption DEF RunnerInv, RunnerLockHeld, PostsToUnfinished, Threads
<1>4. status = "finished" => Shown
  BY <1>1, <1>2 DEF ShownInv, FinishedShown, LockPCs, HookPCs, StepPCs
<1> DEFINE Ends == /\ pc'[t] \in {"step", "llm"} => status' # "finished"
                   /\ pc'[t] \in {"llm", "finish"} => Shown'
                   /\ status' = "finished" => Shown'
<1>5. SUFFICES NoFinishAction' /\ Ends
  <2>1. pc'[t] \notin {"stuckCheck", "waitCheck", "unwait"}
    BY StepFrame DEF RunnerInv, StepPCs
  <2>2. AsksUnfinished' /\ EndsShown'
    BY <1>2, <1>5, <2>1 DEF AsksUnfinished, EndsShown, LockPCs, StepPCs, CheckPCs
  <2> QED
    BY <1>3, <1>5, <2>2 DEF ShownInv, FinishedShown
<1>6. /\ pc[t] \in {"step", "llm"} => status # "finished"
      /\ pc[t] \in {"llm", "finish"} => Shown
      /\ NoFinishAction
      /\ pc \in [Threads -> PCs] /\ t \in Threads
      /\ kind \in [ActionIds -> {"plain", "finish", "think", "memory_review"}]
      /\ queue[t] \subseteq ActionIds
  BY DEF ShownInv, AsksUnfinished, EndsShown, RunnerInv, TypeInv, TypeOK, Threads
<1> DEFINE Goes == /\ pc'[t] \notin {"step", "llm", "finish"}
                   /\ UNCHANGED <<status, prompt>>
<1>7. Goes => Ends
  BY <1>4 DEF Shown
<1>8. CASE ExecutePending(t) \/ ReplyQuiet(t) \/ ReplyToolCalls(t) \/ LastCallEmitted(t)
           \/ ExecuteBatch(t) \/ StepRaises(t)
  <2>1. Goes /\ UNCHANGED kind
    BY <1>6, <1>8, ThreadAssumption
       DEF ExecutePending, ReplyQuiet, ReplyToolCalls, LastCallEmitted, ExecuteBatch,
           StepRaises
  <2> QED
    BY <1>6, <1>7, <2>1 DEF NoFinishAction
<1>9. CASE SkipBlockedPrompt(t) \/ AskLLM(t)
  <2>1. /\ Shown' /\ UNCHANGED <<status, kind>>
        /\ pc[t] = "step"
    BY <1>9 DEF SkipBlockedPrompt, AskLLM, Shown, RunnerInv, TypeInv, TypeOK
  <2> QED
    BY <1>6, <2>1 DEF NoFinishAction
<1>10. CASE ReplyMessage(t)
  BY <1>4, <1>6, <1>10 DEF ReplyMessage, NoFinishAction, Shown
<1>11. CASE ReplyMalformed(t)
  BY <1>6, <1>11 DEF ReplyMalformed, NoFinishAction
<1>12. ASSUME NEW k \in Kinds, EmitAction(t, k)
       PROVE  NoFinishAction' /\ Ends
  <2>1. kind' = [kind EXCEPT ![issued + 1] = k] /\ k # "finish"
    BY <1>12 DEF EmitAction, FinishNotCalled
  <2>2. NoFinishAction'
    BY <1>6, <2>1 DEF NoFinishAction
  <2>3. Goes
    BY <1>12 DEF EmitAction
  <2> QED
    BY <1>7, <2>2, <2>3
<1>13. CASE AskConfirmation(t)
  BY <1>6, <1>13 DEF AskConfirmation, NoFinishAction
<1>14. ASSUME NEW a \in queue[t],
              \/ PopBlockedAction(t, a) \/ PublishRejection(t, a)
              \/ StartTool(t, a)
              \/ ToolReturns(t, a) \/ ToolValueError(t, a)
       PROVE  NoFinishAction' /\ Ends
  <2>1. kind[a] # "finish"
    BY <1>6 DEF NoFinishAction
  <2>2. Goes /\ UNCHANGED kind
    BY <1>6, <1>14, <2>1
       DEF PopBlockedAction, PublishRejection, StartTool, ToolReturns, ToolValueError,
           Advance
  <2> QED
    BY <1>6, <1>7, <2>2 DEF NoFinishAction
<1>15. CASE SetFinished(t)
  BY <1>6, <1>15 DEF SetFinished, NoFinishAction, Shown
<1> QED
  BY <1>8, <1>9, <1>10, <1>11, <1>12, <1>13, <1>14, <1>15 DEF Step

\* Around its steps a run writes a message for the stop hook only.
LEMMA RunKeepsShown ==
  ASSUME RunnerInv, ShownInv, FinishNotCalled, NEW r \in Runs, Launch(r) \/ RunNext(r)
  PROVE  ShownInv'
PROOF
<1> USE ThreadAssumption
        DEF ShownInv, PostsToUnfinished, AsksUnfinished, EndsShown, FinishedShown,
            NoFinishAction, Shown, Threads
<1>1. CASE Step(r)
  BY <1>1, StepKeepsShown
<1> USE DEF RunnerInv, RunnerLockHeld, LockPCs, StepPCs, HookPCs, CheckPCs, TypeInv, TypeOK
<1>2. CASE Launch(r) \/ Enter(r) \/ MarkRunning(r) \/ TopOfLoop(r)
  BY <1>2 DEF Launch, Enter, MarkRunning, TopOfLoop
<1>3. CASE CheckFinished(r) \/ StopHookAllows(r)
  BY <1>3 DEF CheckFinished, StopHookAllows
<1>4. CASE StopHookDenies(r)
  BY <1>4 DEF StopHookDenies
<1>5. CASE ResumeAfterDenial(r)
  BY <1>5 DEF ResumeAfterDenial
<1>6. CASE DetectStuck(r) \/ CheckWaiting(r) \/ ResetWaiting(r)
  BY <1>6 DEF DetectStuck, CheckWaiting, ResetWaiting
<1>7. CASE StepOver(r) \/ ReachLimit(r) \/ FailRun(r)
  BY <1>7 DEF StepOver, ReachLimit, FailRun
<1> QED
  BY <1>1, <1>2, <1>3, <1>4, <1>5, <1>6, <1>7 DEF RunNext

\* send_message publishes under the runner's lock; the other calls neither
\* publish a message nor write FINISHED.
LEMMA CallKeepsShown ==
  ASSUME RunnerInv, ShownInv,
         \/ \E s \in Senders : SendMessage(s) \/ SendNext(s)
         \/ \E j \in Rejecters : ReadPending(j) \/ AnswerNext(j)
         \/ \E j \in Reviewers : ReadPendingReview(j) \/ AnswerNext(j)
         \/ Pause
  PROVE  ShownInv'
PROOF
<1> USE ThreadAssumption
        DEF ShownInv, PostsToUnfinished, AsksUnfinished, EndsShown, FinishedShown,
            NoFinishAction, Shown, Threads
<1>1. ASSUME NEW s \in Senders, SendMessage(s) \/ SendNext(s)
      PROVE  ShownInv'
  BY <1>1
     DEF SendMessage, SendNext, ReopenFinished, PostMessage, RunnerInv, RunnerLockHeld,
         LockPCs, StepPCs, HookPCs, CheckPCs, TypeInv, TypeOK
<1>2. ASSUME \A u \in Runs \cup Senders : pc'[u] = pc[u],
             status' = "finished" => status = "finished", UNCHANGED <<kind, prompt>>
      PROVE  ShownInv'
  BY <1>2
<1>3. ASSUME NEW j \in Rejecters \cup Reviewers,
             \/ j \in Rejecters /\ ReadPending(j)
             \/ j \in Reviewers /\ ReadPendingReview(j)
             \/ AnswerNext(j)
      PROVE  ShownInv'
  BY <1>2, <1>3
     DEF ReadPending, ReadPendingReview, AnswerNext, ClearWaiting, PublishAnswer,
         RunnerInv, TypeInv, TypeOK
<1>4. CASE Pause
  BY <1>2, <1>4 DEF Pause
<1> QED
  BY <1>1, <1>3, <1>4

LEMMA ShownInvInductive ==
  ASSUME NobodyCondenses, FinishNotCalled, RunnerInv, ShownInv, [Next]_vars
  PROVE  ShownInv'
PROOF
<1>1. CASE UNCHANGED vars
  BY <1>1 DEF vars, ShownInv, PostsToUnfinished, AsksUnfinished, EndsShown, FinishedShown,
              NoFinishAction, Shown
<1>2. CASE AllDone
  BY <1>1, <1>2 DEF AllDone
<1> QED
  BY <1>1, <1>2, RunKeepsShown, CallKeepsShown DEF Next, NobodyCondenses

LEMMA InitShownInv == Init => ShownInv
PROOF
  BY DEF Init, ShownInv, PostsToUnfinished, AsksUnfinished, EndsShown, FinishedShown,
         NoFinishAction, Shown, Threads

LEMMA ShownSuffices == RunnerInv /\ ShownInv => FinishedSawPrompt
PROOF
  BY ThreadAssumption
     DEF RunnerInv, RunnerLockHeld, LockPCs, HookPCs, ShownInv, FinishedShown, Shown,
         FinishedSawPrompt, Threads

\* An agent without a finish tool never rests FINISHED with a user message its
\* LLM was not shown, however sends, runs, refused stops, pauses and answers
\* interleave.
THEOREM MessageNotLeftBehind ==
  ASSUME NobodyCondenses, FinishNotCalled
  PROVE  Spec => []FinishedSawPrompt
PROOF
<1>1. RunnerInv /\ ShownInv /\ [Next]_vars => RunnerInv' /\ ShownInv'
  BY ShownInvInductive, RunnerInvInductive
<1> QED
  BY <1>1, InitRunnerInv, InitShownInv, ShownSuffices, PTL DEF Spec

-----------------------------------------------------------------------------
(* The service.                                                             *)

\* A step of the service is a step of the runner's threads or a restart.
LEMMA ServiceSteps ==
  ASSUME [ServiceNext]_allVars
  PROVE  [Next]_vars \/ Crash
PROOF
<1>1. ThreadNext => Next
  BY DEF ThreadNext, Next
<1>2. ASSUME NEW r \in Runs, StartRun(r)
      PROVE  Next
  BY <1>2 DEF StartRun, Next
<1>3. ASSUME NEW s \in RunSenders, RunAfterSend(s)
      PROVE  Next \/ UNCHANGED vars
  BY <1>3 DEF RunAfterSend, Next
<1>4. ASSUME NEW v \in Reviewers, RunAfterReview(v)
      PROVE  Next \/ UNCHANGED vars
  BY <1>4 DEF RunAfterReview, Next
<1>5. TaskDrained \/ Quiet \/ UNCHANGED allVars => UNCHANGED vars
  BY DEF TaskDrained, Quiet, allVars
<1> QED
  BY <1>1, <1>2, <1>3, <1>4, <1>5 DEF ServiceNext

\* A restart leaves no thread and no RUNNING behind.
LEMMA CrashKeeps ==
  ASSUME RunnerInv, Crash
  PROVE  RunnerInv'
PROOF
<1> USE ThreadAssumption DEF RunnerInv, TypeInv, TypeOK, Crash, RestartStatus
<1>1. \A t \in Threads : pc'[t] \in {"ready", "done"}
  OBVIOUS
<1>2. status' # "running"
  OBVIOUS
<1>3. TypeOK'
  BY DEF PCs, Statuses
<1>4. IterationsLeft'
  BY <1>1 DEF IterationsLeft, Threads
<1>5. RunnerLockHeld' /\ HookAskedAtRest' /\ NoOrphanRunning'
  BY <1>1, <1>2 DEF RunnerLockHeld, LockPCs, StepPCs, HookPCs, CheckPCs,
                    HookAskedAtRest, NoOrphanRunning, Threads
<1> QED
  BY <1>3, <1>4, <1>5

LEMMA ServiceRunnerInv == ServiceSpec => []RunnerInv
PROOF
<1>1. ServiceInit => RunnerInv
  BY InitRunnerInv DEF ServiceInit
<1>2. RunnerInv /\ [ServiceNext]_allVars => RunnerInv'
  BY ServiceSteps, RunnerInvInductive, CrashKeeps
<1> QED
  BY <1>1, <1>2, PTL DEF ServiceSpec

\* Under the service too, crashes included, the agent is never left RUNNING
\* with no run behind it.
THEOREM ServiceNoneLeftRunning == ServiceSpec => []NoOrphanRunning
PROOF
<1>1. RunnerInv => NoOrphanRunning
  BY DEF RunnerInv
<1> QED
  BY <1>1, ServiceRunnerInv, PTL

-----------------------------------------------------------------------------
(* run()'s guard.                                                           *)

\* No thread sets a run going that is not under way.
LEMMA ThreadsStartNoRun ==
  ASSUME TypeInv, ThreadNext, NEW u \in Runs, pc[u] \in {"ready", "done"}
  PROVE  pc'[u] = pc[u]
PROOF
<1>1. ASSUME NEW t \in Runs \cup Condensers, Step(t)
      PROVE  pc'[u] = pc[u]
  BY <1>1, StepFrame DEF StepPCs, Threads
<1> USE ThreadAssumption DEF TypeInv, TypeOK, Threads
<1>2. ASSUME NEW r \in Runs, RunNext(r)
      PROVE  pc'[u] = pc[u]
  <2>1. CASE Enter(r) \/ MarkRunning(r) \/ TopOfLoop(r) \/ CheckFinished(r)
    BY <2>1 DEF Enter, MarkRunning, TopOfLoop, CheckFinished
  <2>2. CASE StopHookAllows(r) \/ StopHookDenies(r) \/ ResumeAfterDenial(r)
    BY <2>2 DEF StopHookAllows, StopHookDenies, ResumeAfterDenial
  <2>3. CASE DetectStuck(r) \/ CheckWaiting(r) \/ ResetWaiting(r)
    BY <2>3 DEF DetectStuck, CheckWaiting, ResetWaiting
  <2>4. CASE StepOver(r) \/ ReachLimit(r) \/ FailRun(r)
    BY <2>4 DEF StepOver, ReachLimit, FailRun
  <2> QED
    BY <1>1, <1>2, <2>1, <2>2, <2>3, <2>4 DEF RunNext
<1>3. ASSUME NEW s \in Senders, SendMessage(s) \/ SendNext(s)
      PROVE  pc'[u] = pc[u]
  BY <1>3 DEF SendMessage, SendNext, ReopenFinished, PostMessage
<1>4. ASSUME NEW j \in Rejecters \cup Reviewers,
             \/ j \in Rejecters /\ ReadPending(j)
             \/ j \in Reviewers /\ ReadPendingReview(j)
             \/ AnswerNext(j)
      PROVE  pc'[u] = pc[u]
  BY <1>4 DEF ReadPending, ReadPendingReview, AnswerNext, ClearWaiting, PublishAnswer
<1>5. ASSUME NEW c \in Condensers, Condense(c) \/ CondenseOver(c)
      PROVE  pc'[u] = pc[u]
  BY <1>5 DEF Condense, CondenseOver
<1>6. Pause => pc' = pc
  BY DEF Pause
<1> QED
  BY <1>1, <1>2, <1>3, <1>4, <1>5, <1>6 DEF ThreadNext, CondenseNext

\* The active run is the one the service's task waits for.
TaskIsTheRun == \A r \in Runs : Active(r) => task = r

LEMMA TaskIsTheRunInductive ==
  ASSUME RunSenders = {}, RunnerInv, TaskIsTheRun, [ServiceNext]_allVars
  PROVE  TaskIsTheRun'
PROOF
<1> USE ThreadAssumption DEF TaskIsTheRun, Active
<1>1. ASSUME ThreadNext, UNCHANGED serviceVars
      PROVE  TaskIsTheRun'
  <2>1. \A r \in Runs : pc[r] \in {"ready", "done"} => pc'[r] = pc[r]
    BY <1>1, ThreadsStartNoRun DEF RunnerInv
  <2> QED
    BY <1>1, <2>1 DEF serviceVars
<1>2. ASSUME NEW r \in Runs, StartRun(r) \/ (Launch(r) /\ MayStart /\ task' = r)
      PROVE  TaskIsTheRun'
  <2>1. task = NoThread /\ task' = r
    BY <1>2 DEF StartRun, MayStart
  <2>2. \A u \in Runs : ~Active(u)
    BY <2>1 DEF Threads
  <2>3. Launch(r)
    BY <1>2 DEF StartRun
  <2>4. \A u \in Runs \ {r} : pc'[u] = pc[u]
    BY <2>3 DEF Launch, RunnerInv, TypeInv, TypeOK, Threads
  <2> QED
    BY <2>1, <2>2, <2>4
<1>3. ASSUME NEW v \in Reviewers, RunAfterReview(v)
      PROVE  TaskIsTheRun'
  <2>1. CASE UNCHANGED <<vars, task>>
    BY <2>1 DEF vars
  <2> QED
    BY <1>2, <1>3, <2>1 DEF RunAfterReview
<1>4. CASE TaskDrained
  BY <1>4 DEF TaskDrained, vars
<1>5. CASE Quiet \/ UNCHANGED allVars
  BY <1>5 DEF Quiet, allVars, vars, serviceVars
<1>6. CASE Crash
  BY <1>6 DEF Crash, Threads
<1> QED
  BY <1>1, <1>2, <1>3, <1>4, <1>5, <1>6 DEF ServiceNext

\* As long as no client sends a message with run=True, run() keeps the
\* conversation to one run at a time, for ever and across restarts.
THEOREM GuardKeepsOneRun ==
  ASSUME RunSenders = {}
  PROVE  ServiceSpec => []OneRunAtATime
PROOF
<1> DEFINE Inv == RunnerInv /\ TaskIsTheRun
<1>1. ServiceInit => Inv
  BY InitRunnerInv DEF ServiceInit, Init, TaskIsTheRun, Active, Threads
<1>2. Inv /\ [ServiceNext]_allVars => Inv'
  BY RunSenders = {}, TaskIsTheRunInductive, ServiceSteps, RunnerInvInductive, CrashKeeps
<1>3. Inv => OneRunAtATime
  BY DEF TaskIsTheRun, OneRunAtATime
<1> QED
  BY <1>1, <1>2, <1>3, PTL DEF ServiceSpec

-----------------------------------------------------------------------------
(* The last message, across restarts.                                       *)

\* A crash between a stop hook's feedback and the RUNNING that follows leaves
\* the agent FINISHED with an unread message; no other crash does.
NoCrashInStopHook == "stop" \in Hooks => MaxCrashes = 0

OutOfStopHook ==
  IF "stop" \in Hooks THEN crashes = MaxCrashes ELSE \A r \in Runs : pc[r] \notin HookPCs

LEMMA OutOfStopHookInductive ==
  ASSUME NoCrashInStopHook, RunnerInv, OutOfStopHook, [ServiceNext]_allVars
  PROVE  OutOfStopHook'
PROOF
<1>1. CASE "stop" \in Hooks
  <2>1. crashes' = crashes
    BY <1>1, ServiceAssumption
       DEF OutOfStopHook, NoCrashInStopHook, ServiceNext, serviceVars, StartRun, RunAfterSend,
           RunAfterReview, TaskDrained, Crash, Quiet, allVars
  <2> QED
    BY <1>1, <2>1 DEF OutOfStopHook
<1>2. CASE "stop" \notin Hooks
  <2> DEFINE Out == \A r \in Runs : pc[r] \notin HookPCs
  <2>1. Out
    BY <1>2 DEF OutOfStopHook
  <2> SUFFICES Out'
    BY <1>2 DEF OutOfStopHook
  <2>2. ASSUME NEW t \in Runs \cup Condensers, Step(t)
        PROVE  Out'
    BY <2>1, <2>2, StepFrame DEF RunnerInv, Threads, StepPCs, HookPCs
  <2> USE ThreadAssumption DEF RunnerInv, TypeInv, TypeOK, Threads, HookPCs
  <2>3. CASE Crash
    BY <2>1, <2>3 DEF Crash
  <2>4. ASSUME NEW r \in Runs, Launch(r) \/ RunNext(r)
        PROVE  Out'
    <3>1. CASE Launch(r) \/ Enter(r) \/ MarkRunning(r) \/ TopOfLoop(r) \/ CheckFinished(r)
      BY <1>2, <2>1, <3>1 DEF Launch, Enter, MarkRunning, TopOfLoop, CheckFinished
    <3>2. CASE StopHookAllows(r) \/ StopHookDenies(r) \/ ResumeAfterDenial(r)
      BY <2>1, <3>2 DEF StopHookAllows, StopHookDenies, ResumeAfterDenial
    <3>3. CASE DetectStuck(r) \/ CheckWaiting(r) \/ ResetWaiting(r)
      BY <2>1, <3>3 DEF DetectStuck, CheckWaiting, ResetWaiting
    <3>4. CASE StepOver(r) \/ ReachLimit(r) \/ FailRun(r)
      BY <2>1, <3>4 DEF StepOver, ReachLimit, FailRun
    <3> QED
      BY <2>2, <2>4, <3>1, <3>2, <3>3, <3>4 DEF RunNext
  <2>5. ASSUME NEW s \in Senders, SendMessage(s) \/ SendNext(s)
        PROVE  Out'
    BY <2>1, <2>5 DEF SendMessage, SendNext, ReopenFinished, PostMessage
  <2>6. ASSUME NEW j \in Rejecters \cup Reviewers,
               \/ j \in Rejecters /\ ReadPending(j)
               \/ j \in Reviewers /\ ReadPendingReview(j)
               \/ AnswerNext(j)
        PROVE  Out'
    BY <2>1, <2>6 DEF ReadPending, ReadPendingReview, AnswerNext, ClearWaiting, PublishAnswer
  <2>7. ASSUME NEW c \in Condensers, Condense(c) \/ CondenseOver(c)
        PROVE  Out'
    BY <2>1, <2>7 DEF Condense, CondenseOver
  <2>8. CASE Pause
    BY <2>1, <2>8 DEF Pause
  <2>9. CASE AllDone \/ UNCHANGED vars
    BY <2>1, <2>9 DEF AllDone, vars
  <2> QED
    BY <2>2, <2>3, <2>4, <2>5, <2>6, <2>7, <2>8, <2>9, ServiceSteps DEF Next, CondenseNext
<1> QED
  BY <1>1, <1>2

\* A restart writes no FINISHED and publishes no message.
LEMMA CrashKeepsShown ==
  ASSUME NoCrashInStopHook, RunnerInv, ShownInv, OutOfStopHook, Crash
  PROVE  ShownInv'
PROOF
<1>1. \A t \in Threads : pc'[t] \in {"ready", "done"}
  BY DEF Crash
<1>2. UNCHANGED <<kind, prompt>> /\ (status' = "finished" => status = "finished")
  BY DEF Crash, RestartStatus
<1>3. \A r \in Runs : pc[r] # "denied"
  BY ServiceAssumption DEF Crash, OutOfStopHook, HookPCs
<1> QED
  BY <1>1, <1>2, <1>3
     DEF ShownInv, PostsToUnfinished, AsksUnfinished, EndsShown, FinishedShown,
         NoFinishAction, Shown, Threads

\* Under the service too, crashes included, an agent without a finish tool does
\* not rest FINISHED with a message its LLM was not shown.
THEOREM ServiceMessageNotLeftBehind ==
  ASSUME NobodyCondenses, FinishNotCalled, NoCrashInStopHook
  PROVE  ServiceSpec => []FinishedSawPrompt
PROOF
<1> DEFINE Inv == RunnerInv /\ ShownInv /\ OutOfStopHook
<1>1. ServiceInit => Inv
  BY InitRunnerInv, InitShownInv
     DEF ServiceInit, Init, OutOfStopHook, NoCrashInStopHook, HookPCs, Threads
<1>2. Inv /\ [ServiceNext]_allVars => Inv'
  BY ServiceSteps, RunnerInvInductive, CrashKeeps, ShownInvInductive, CrashKeepsShown,
     OutOfStopHookInductive
<1>3. Inv => FinishedSawPrompt
  BY ShownSuffices
<1> QED
  BY <1>1, <1>2, <1>3, PTL DEF ServiceSpec

-----------------------------------------------------------------------------
(* A pause in a step, and confirmation mode.  Both hold of a conversation   *)
(* whose runs run() starts and whose pending actions nobody answers: a      *)
(* rejection turns WAITING into IDLE under the step that just asked, and    *)
(* condense() and a run started by a message step in beside the run.        *)

NobodyAnswers == Rejecters = {} /\ Reviewers = {}
OneCaller == RunSenders = {} /\ NobodyAnswers /\ NobodyCondenses

\* Every step of the service is a run's, a sender's, a pause, a start or none
\* that moves a thread.
LEMMA OneCallerSteps ==
  ASSUME OneCaller, [ServiceNext]_allVars
  PROVE  \/ \E r \in Runs : RunNext(r) /\ UNCHANGED serviceVars
         \/ \E s \in Senders : (SendMessage(s) \/ SendNext(s)) /\ UNCHANGED serviceVars
         \/ Pause /\ UNCHANGED serviceVars
         \/ \E r \in Runs : StartRun(r)
         \/ Crash
         \/ UNCHANGED <<vars, approved>>
PROOF
  BY DEF OneCaller, NobodyAnswers, NobodyCondenses, ServiceNext, ThreadNext, TaskDrained,
         Quiet, allVars, serviceVars

\* What a run that was paused in a step may still be doing: the status that
\* will end it is not overwritten before it is read.
EndsWithStep(r) ==
  \/ InStep(r) /\ status \in {"paused", "finished", "waiting_for_confirmation"}
  \/ pc[r] \in {"limit", "raise", "done"}
  \/ pc[r] = "loop" /\ status \in {"paused", "finished"}
  \/ pc[r] = "finishedCheck" /\ status = "finished"

PausedEnds == \A r \in Runs : pausedIn[r] = "step" => EndsWithStep(r)

\* Of the statuses a step writes two.
LEMMA StepWrites ==
  ASSUME NEW t \in Runs \cup Condensers, Step(t)
  PROVE  /\ status' \in {status, "finished", "waiting_for_confirmation"}
         /\ UNCHANGED pausedIn
PROOF
  BY DEF Step, ExecutePending, SkipBlockedPrompt, AskLLM, ReplyMessage, ReplyQuiet,
         ReplyMalformed, ReplyToolCalls, EmitAction, LastCallEmitted, AskConfirmation,
         ExecuteBatch, PopBlockedAction, PublishRejection, StartTool, ToolReturns,
         ToolValueError, SetFinished, StepRaises

\* The paused run itself finds its way out.
LEMMA RunKeepsPaused ==
  ASSUME "stop" \notin Hooks, RunnerInv, NEW r \in Runs, RunNext(r), EndsWithStep(r)
  PROVE  EndsWithStep(r)' /\ (~InStep(r) => pc'[r] # "step")
PROOF
<1> USE DEF EndsWithStep, InStep
<1>1. CASE Step(r)
  BY <1>1, StepFrame, StepWrites DEF RunnerInv, StepPCs
<1> USE DEF RunnerInv, TypeInv, TypeOK, Threads, StepPCs
<1>2. CASE Enter(r) \/ MarkRunning(r)
  BY <1>2 DEF Enter, MarkRunning
<1>3. CASE TopOfLoop(r)
  BY <1>3 DEF TopOfLoop, MustBreak
<1>4. CASE CheckFinished(r)
  BY <1>4 DEF CheckFinished
<1>5. CASE StopHookAllows(r) \/ StopHookDenies(r) \/ ResumeAfterDenial(r)
  BY <1>5 DEF StopHookAllows, StopHookDenies, ResumeAfterDenial
<1>6. CASE DetectStuck(r) \/ CheckWaiting(r) \/ ResetWaiting(r)
  BY <1>6 DEF DetectStuck, CheckWaiting, ResetWaiting
<1>7. CASE StepOver(r)
  BY <1>7 DEF StepOver
<1>8. CASE ReachLimit(r) \/ FailRun(r)
  BY <1>8 DEF ReachLimit, FailRun
<1> QED
  BY <1>1, <1>2, <1>3, <1>4, <1>5, <1>6, <1>7, <1>8 DEF RunNext

\* While a run is under way the others stand still.
LEMMA RunMovesAlone ==
  ASSUME RunnerInv, TaskIsTheRun, NEW r \in Runs, RunNext(r)
  PROVE  /\ pc[r] \notin {"ready", "done"}
         /\ \A u \in Threads \ {r} : pc'[u] = pc[u]
         /\ \A u \in Runs \ {r} : pc[u] \in {"ready", "done"}
         /\ UNCHANGED pausedIn
PROOF
<1> DEFINE Moves == /\ pc[r] \notin {"ready", "done"}
                    /\ \A u \in Threads \ {r} : pc'[u] = pc[u]
                    /\ UNCHANGED pausedIn
<1>1. Step(r) => Moves
  BY StepFrame, StepWrites DEF RunnerInv, StepPCs
<1>2. Moves
  BY <1>1
     DEF RunNext, RunnerInv, TypeInv, TypeOK, Threads, Enter, MarkRunning, TopOfLoop,
         CheckFinished, StopHookAllows, StopHookDenies, ResumeAfterDenial, DetectStuck,
         CheckWaiting, ResetWaiting, StepOver, ReachLimit, FailRun
<1> QED
  BY <1>2 DEF TaskIsTheRun, Active

LEMMA PausedEndsInductive ==
  ASSUME OneCaller, "stop" \notin Hooks, RunnerInv, TaskIsTheRun, PausedEnds,
         [ServiceNext]_allVars
  PROVE  /\ PausedEnds'
         /\ \A r \in Runs : pausedIn[r] = "step" /\ ~InStep(r) => pc'[r] # "step"
PROOF
<1> USE DEF PausedEnds
<1> DEFINE Goal == /\ PausedEnds'
                   /\ \A r \in Runs : pausedIn[r] = "step" /\ ~InStep(r) => pc'[r] # "step"
<1>1. ASSUME NEW r \in Runs, RunNext(r)
      PROVE  Goal
  <2>1. \A u \in Runs \ {r} : pausedIn[u] = "step" => pc'[u] = "done"
    BY <1>1, RunMovesAlone DEF EndsWithStep, InStep, StepPCs, Threads
  <2>2. pausedIn[r] = "step" => EndsWithStep(r)' /\ (~InStep(r) => pc'[r] # "step")
    BY <1>1, RunKeepsPaused
  <2>3. pausedIn' = pausedIn
    BY <1>1, RunMovesAlone
  <2>4. \A u \in Runs : pc'[u] = "done" => EndsWithStep(u)'
    BY DEF EndsWithStep
  <2> QED
    BY <2>1, <2>2, <2>3, <2>4
<1> USE ThreadAssumption
    DEF EndsWithStep, InStep, RunnerInv, TypeInv, TypeOK, Threads, StepPCs
<1>2. ASSUME NEW s \in Senders, SendMessage(s) \/ SendNext(s)
      PROVE  Goal
  BY <1>2 DEF SendMessage, SendNext, ReopenFinished, PostMessage
<1>3. CASE Pause
  BY <1>3 DEF Pause
<1>4. ASSUME NEW r \in Runs, StartRun(r)
      PROVE  Goal
  BY <1>4 DEF StartRun, Launch
<1>5. CASE Crash
  BY <1>5 DEF Crash
<1>6. CASE UNCHANGED vars
  BY <1>6 DEF vars
<1> QED
  BY <1>1, <1>2, <1>3, <1>4, <1>5, <1>6, OneCallerSteps

\* A pause() in a step ends the run with that step: whatever the step writes
\* over PAUSED is a status that ends the run too, and nobody else writes before
\* it is read but who starts the agent anew.
THEOREM PausedRunEnds ==
  ASSUME OneCaller, "stop" \notin Hooks
  PROVE  ServiceSpec => PauseIsLastStep
PROOF
<1> DEFINE Inv == RunnerInv /\ TaskIsTheRun /\ PausedEnds
           LastStep == \A r \in Runs : pausedIn[r] = "step" /\ ~InStep(r) => pc'[r] # "step"
<1>1. ServiceInit => Inv
  BY InitRunnerInv
     DEF ServiceInit, Init, TaskIsTheRun, Active, Threads, PausedEnds
<1>2. Inv /\ [ServiceNext]_allVars => Inv' /\ LastStep
  BY TaskIsTheRunInductive, ServiceSteps, RunnerInvInductive, CrashKeeps,
     PausedEndsInductive DEF OneCaller
<1>3. Inv /\ [ServiceNext]_allVars => Inv' /\ [LastStep]_vars
  BY <1>2
<1> QED
  BY <1>1, <1>3, PTL DEF ServiceSpec, PauseIsLastStep

-----------------------------------------------------------------------------
(* Confirmation mode.                                                       *)

\* What a run may execute, and the state in which nothing else is pending.
MayRun == approved \cup {a \in ActionIds : NeedsNoAnswer(a)}
Settled == RunnerUnmatched \subseteq MayRun

\* A sender is about to write IDLE over whatever the status has become since it
\* was FINISHED.
Reopening == \E s \in Senders : pc[s] = "reopen"

\* The actions a response asks for are the only ones pending without an answer
\* until the batch is decided; after it was put off, the status keeps the run
\* from its next step.
ConfirmedAt(r) ==
  /\ pc[r] \notin BatchPCs => queue[r] = {}
  /\ pc[r] \in {"emit", "decide"} => RunnerUnmatched \ queue[r] \subseteq MayRun
  /\ pc[r] \in {"exec", "reject", "tool", "finish"} => Settled /\ queue[r] \subseteq MayRun
  /\ pc[r] = "over" => Settled \/ status \in {"waiting_for_confirmation", "paused"}
  /\ pc[r] = "loop" => Settled \/ (status = "paused" /\ ~Reopening)
  /\ pc[r] \in {"entry", "mark", "step", "llm"} \cup CheckPCs \cup HookPCs => Settled

ConfirmedRuns == \A r \in Runs : ConfirmedAt(r)

\* While nothing new enters the log, what is pending and allowed stays so.
LEMMA PendingOnlyShrinks ==
  ASSUME TypeInv, UNCHANGED <<issued, kind>>, approved \subseteq approved',
         \A a \in ActionIds : answers[a] \subseteq answers'[a]
  PROVE  RunnerUnmatched' \subseteq RunnerUnmatched /\ MayRun \subseteq MayRun'
PROOF
<1>1. 1..issued \subseteq ActionIds
  BY BoundAssumption DEF TypeInv, TypeOK, ActionIds
<1> QED
  BY <1>1 DEF RunnerUnmatched, MayRun, NeedsNoAnswer

\* Every action of a step but the one that logs a call only takes away from
\* what is pending.
LEMMA StepKeepsConfirmed ==
  ASSUME Policy = "always", RunnerInv, NEW r \in Runs, ConfirmedAt(r), Step(r),
         UNCHANGED approved
  PROVE  ConfirmedAt(r)'
PROOF
<1>1. /\ pc \in [Threads -> PCs] /\ queue \in [Threads -> SUBSET ActionIds]
      /\ answers \in [ActionIds -> SUBSET Answers] /\ issued \in 0..MaxActions
      /\ kind \in [ActionIds -> {"plain", "finish", "think", "memory_review"}]
      /\ r \in Threads /\ TypeInv
  BY DEF RunnerInv, TypeInv, TypeOK, Threads
<1> DEFINE Shrinks == RunnerUnmatched' \subseteq RunnerUnmatched /\ MayRun \subseteq MayRun'
<1>2. ASSUME UNCHANGED <<issued, kind>>, \A a \in ActionIds : answers[a] \subseteq answers'[a]
      PROVE  Shrinks
  BY <1>1, <1>2, PendingOnlyShrinks
<1> USE DEF BatchPCs, CheckPCs, HookPCs
<1>3. CASE ExecutePending(r)
  <2>1. /\ pc[r] = "step" /\ pc'[r] = "exec" /\ queue'[r] = RunnerUnmatched
        /\ Shrinks
    BY <1>1, <1>2, <1>3 DEF ExecutePending
  <2> QED
    BY <2>1 DEF ConfirmedAt, Settled
<1>4. CASE SkipBlockedPrompt(r) \/ AskLLM(r)
  <2>1. /\ pc[r] = "step" /\ pc'[r] \in {"finish", "llm"} /\ UNCHANGED queue
        /\ Shrinks
    BY <1>1, <1>2, <1>4 DEF SkipBlockedPrompt, AskLLM
  <2> QED
    BY <2>1 DEF ConfirmedAt, Settled
<1>5. CASE ReplyMessage(r) \/ ReplyQuiet(r) \/ ReplyMalformed(r) \/ ReplyToolCalls(r)
  <2>1. /\ pc[r] = "llm" /\ pc'[r] \in {"finish", "over", "emit"} /\ UNCHANGED queue
        /\ Shrinks
    BY <1>1, <1>2, <1>5 DEF ReplyMessage, ReplyQuiet, ReplyMalformed, ReplyToolCalls
  <2> QED
    BY <2>1 DEF ConfirmedAt, Settled
<1>6. ASSUME NEW k \in Kinds, EmitAction(r, k)
      PROVE  ConfirmedAt(r)'
  <2>1. /\ pc[r] = "emit" /\ pc' = pc /\ answers' = answers
        /\ queue'[r] = queue[r] \cup {issued + 1}
        /\ issued' = issued + 1 /\ kind' = [kind EXCEPT ![issued + 1] = k]
    BY <1>1, <1>6 DEF EmitAction
  <2>2. RunnerUnmatched' \subseteq RunnerUnmatched \cup {issued + 1}
    BY <1>1, <2>1 DEF RunnerUnmatched
  <2>3. \A a \in RunnerUnmatched : a # issued + 1 /\ (a \in MayRun => a \in MayRun')
    BY <1>1, <2>1 DEF RunnerUnmatched, MayRun, NeedsNoAnswer
  <2> QED
    BY <2>1, <2>2, <2>3 DEF ConfirmedAt
<1>7. CASE LastCallEmitted(r)
  <2>1. /\ pc[r] = "emit" /\ pc'[r] = (IF queue[r] = {} THEN "over" ELSE "decide")
        /\ UNCHANGED queue /\ Shrinks
    BY <1>1, <1>2, <1>7 DEF LastCallEmitted
  <2> QED
    BY <2>1 DEF ConfirmedAt, Settled
<1>8. CASE AskConfirmation(r)
  <2>1. /\ pc'[r] = "over" /\ queue'[r] = {} /\ status' = "waiting_for_confirmation"
    BY <1>1, <1>8 DEF AskConfirmation
  <2> QED
    BY <2>1 DEF ConfirmedAt
<1>9. CASE ExecuteBatch(r)
  <2>1. /\ pc[r] = "decide" /\ pc'[r] = "exec" /\ UNCHANGED queue /\ Shrinks
        /\ ~Confirmable(queue[r])
    BY <1>1, <1>2, <1>9 DEF ExecuteBatch, NeedsConfirmation
  <2>2. queue[r] \subseteq MayRun
    BY <1>1, <2>1 DEF Confirmable, MayRun, NeedsNoAnswer
  <2> QED
    BY <2>1, <2>2 DEF ConfirmedAt, Settled
<1>10. ASSUME NEW a \in queue[r], PopBlockedAction(r, a) \/ StartTool(r, a)
       PROVE  ConfirmedAt(r)'
  <2>1. /\ pc[r] = "exec" /\ pc'[r] \in {"reject", "tool"} /\ UNCHANGED queue
        /\ Shrinks
    BY <1>1, <1>2, <1>10 DEF PopBlockedAction, StartTool
  <2> QED
    BY <2>1 DEF ConfirmedAt, Settled
<1>11. ASSUME NEW a \in queue[r],
              PublishRejection(r, a) \/ ToolReturns(r, a) \/ ToolValueError(r, a)
       PROVE  ConfirmedAt(r)'
  <2>1. /\ pc[r] \in {"reject", "tool"}
        /\ queue'[r] = queue[r] \ {a}
        /\ \/ pc'[r] \in {"exec", "finish"}
           \/ pc'[r] = "over" /\ queue[r] = {a}
        /\ UNCHANGED <<issued, kind>>
    BY <1>1, <1>11 DEF PublishRejection, ToolReturns, ToolValueError, Advance
  <2>2. \A b \in ActionIds : answers[b] \subseteq answers'[b]
    BY <1>1, <1>11 DEF PublishRejection, ToolReturns, ToolValueError, Answer
  <2>3. Shrinks
    BY <1>2, <2>1, <2>2
  <2> QED
    BY <2>1, <2>3 DEF ConfirmedAt, Settled
<1>12. CASE SetFinished(r)
  <2>1. /\ pc[r] = "finish" /\ pc'[r] = (IF queue[r] = {} THEN "over" ELSE "exec")
        /\ UNCHANGED queue /\ Shrinks
    BY <1>1, <1>2, <1>12 DEF SetFinished
  <2> QED
    BY <2>1 DEF ConfirmedAt, Settled
<1>13. CASE StepRaises(r)
  <2>1. pc'[r] = "raise" /\ queue'[r] = {}
    BY <1>1, <1>13, ThreadAssumption DEF StepRaises
  <2> QED
    BY <2>1 DEF ConfirmedAt
<1> QED
  BY <1>3, <1>4, <1>5, <1>6, <1>7, <1>8, <1>9, <1>10, <1>11, <1>12, <1>13 DEF Step

\* A run that leaves the loop's top with something unsettled leaves it for good.
LEMMA RunKeepsConfirmed ==
  ASSUME Policy = "always", RunnerInv, TaskIsTheRun, NEW r \in Runs, ConfirmedAt(r),
         RunNext(r), UNCHANGED approved
  PROVE  ConfirmedAt(r)'
PROOF
<1>1. CASE Step(r)
  BY <1>1, StepKeepsConfirmed
<1>2. pc \in [Threads -> PCs] /\ r \in Threads /\ TypeInv
  BY DEF RunnerInv, TypeInv, TypeOK, Threads
<1> USE DEF logVars, BatchPCs, CheckPCs, HookPCs
<1>3. ASSUME UNCHANGED <<queue, logVars>>
      PROVE  /\ Settled => Settled'
             /\ UNCHANGED queue
  BY <1>2, <1>3, PendingOnlyShrinks DEF Settled
<1>4. CASE Enter(r) \/ MarkRunning(r) \/ TopOfLoop(r)
  BY <1>2, <1>3, <1>4 DEF Enter, MarkRunning, TopOfLoop, MustBreak, ConfirmedAt
<1>5. CASE CheckFinished(r) \/ StopHookAllows(r) \/ ResumeAfterDenial(r)
  BY <1>2, <1>3, <1>5 DEF CheckFinished, StopHookAllows, ResumeAfterDenial, ConfirmedAt
<1>6. CASE StopHookDenies(r)
  <2>1. /\ pc[r] = "stopHook" /\ pc'[r] = "denied" /\ UNCHANGED <<queue, issued, kind, answers>>
    BY <1>2, <1>6 DEF StopHookDenies
  <2>2. Settled => Settled'
    BY <1>2, <2>1, PendingOnlyShrinks DEF Settled
  <2> QED
    BY <2>1, <2>2 DEF ConfirmedAt
<1>7. CASE DetectStuck(r) \/ CheckWaiting(r) \/ ResetWaiting(r)
  BY <1>2, <1>3, <1>7 DEF DetectStuck, CheckWaiting, ResetWaiting, ConfirmedAt
<1>8. CASE StepOver(r)
  <2>1. ~Reopening'
    BY <1>8, RunMovesAlone, ThreadAssumption
       DEF StepOver, Reopening, RunnerInv, RunnerLockHeld, LockPCs, StepPCs, Threads
  <2> QED
    BY <1>2, <1>3, <1>8, <2>1 DEF StepOver, ConfirmedAt
<1>9. CASE ReachLimit(r) \/ FailRun(r)
  BY <1>2, <1>3, <1>9 DEF ReachLimit, FailRun, ConfirmedAt
<1> QED
  BY <1>1, <1>4, <1>5, <1>6, <1>7, <1>8, <1>9 DEF RunNext

\* What a run does to another thread's list: nothing.
LEMMA RunKeepsLists ==
  ASSUME TypeInv, NEW r \in Runs, RunNext(r)
  PROVE  \A u \in Threads \ {r} : queue'[u] = queue[u]
PROOF
  BY DEF TypeInv, TypeOK, Threads, RunNext, Enter, MarkRunning, TopOfLoop, CheckFinished,
         StopHookAllows, StopHookDenies, ResumeAfterDenial, DetectStuck, CheckWaiting,
         ResetWaiting, StepOver, ReachLimit, FailRun, Step, ExecutePending,
         SkipBlockedPrompt, AskLLM, ReplyMessage, ReplyQuiet, ReplyMalformed,
         ReplyToolCalls, EmitAction, LastCallEmitted, AskConfirmation, ExecuteBatch,
         PopBlockedAction, PublishRejection, StartTool, ToolReturns, ToolValueError,
         Advance, SetFinished, StepRaises

LEMMA ConfirmedInductive ==
  ASSUME OneCaller, Policy = "always", RunnerInv, TaskIsTheRun, ConfirmedRuns,
         [ServiceNext]_allVars
  PROVE  ConfirmedRuns'
PROOF
<1>1. TypeInv
  BY DEF RunnerInv
<1>2. ASSUME NEW r \in Runs, RunNext(r), UNCHANGED serviceVars
      PROVE  ConfirmedRuns'
  <2>1. ConfirmedAt(r)'
    BY <1>2, RunKeepsConfirmed DEF ConfirmedRuns, serviceVars
  <2>2. ASSUME NEW u \in Runs \ {r}
        PROVE  ConfirmedAt(u)'
    <3>1. pc[u] \in {"ready", "done"} /\ pc'[u] = pc[u]
      BY <1>2, RunMovesAlone DEF Threads
    <3>2. queue[u] = {} /\ queue'[u] = queue[u]
      BY <1>1, <1>2, <3>1, RunKeepsLists DEF ConfirmedRuns, ConfirmedAt, BatchPCs, Threads
    <3> QED
      BY <3>1, <3>2 DEF ConfirmedAt, CheckPCs, HookPCs
  <2> QED
    BY <2>1, <2>2 DEF ConfirmedRuns
<1>3. ASSUME \A r \in Runs : pc'[r] = pc[r] /\ queue'[r] = queue[r],
             UNCHANGED <<issued, kind, answers, approved>>,
             \A r \in Runs : pc[r] = "over" => status' \in {status, "paused"},
             status = "paused" => status' = status \/ Reopening,
             Reopening' => Reopening \/ status # "paused"
      PROVE  ConfirmedRuns'
  <2>1. UNCHANGED <<RunnerUnmatched, MayRun>>
    BY <1>3 DEF RunnerUnmatched, MayRun, NeedsNoAnswer
  <2> QED
    BY <1>3, <2>1 DEF ConfirmedRuns, ConfirmedAt, Settled
<1>4. ASSUME NEW s \in Senders, SendMessage(s) \/ SendNext(s), UNCHANGED serviceVars
      PROVE  ConfirmedRuns'
  BY <1>1, <1>3, <1>4, ThreadAssumption
     DEF SendMessage, SendNext, ReopenFinished, PostMessage, serviceVars, RunnerInv,
         RunnerLockHeld, LockPCs, StepPCs, TypeInv, TypeOK, Threads, Reopening
<1>5. CASE Pause /\ UNCHANGED serviceVars
  BY <1>3, <1>5 DEF Pause, serviceVars, Reopening
<1>6. ASSUME NEW r \in Runs, StartRun(r)
      PROVE  ConfirmedRuns'
  <2>1. /\ Settled'
        /\ \A u \in Runs \ {r} : pc[u] \in {"ready", "done"} /\ pc'[u] = pc[u]
        /\ pc'[r] = "entry" /\ pc[r] = "ready"
        /\ UNCHANGED queue
    <3>1. Settled'
      BY <1>6 DEF StartRun, Launch, Settled, MayRun, RunnerUnmatched
    <3>2. /\ \A u \in Runs \ {r} : pc'[u] = pc[u]
          /\ pc'[r] = "entry" /\ pc[r] = "ready" /\ UNCHANGED queue
      BY <1>1, <1>6 DEF StartRun, Launch, TypeInv, TypeOK, Threads
    <3>3. \A u \in Runs : pc[u] \in {"ready", "done"}
      BY <1>6, ThreadAssumption DEF StartRun, MayStart, TaskIsTheRun, Active, Threads
    <3> QED
      BY <3>1, <3>2, <3>3
  <2> QED
    BY <2>1 DEF ConfirmedRuns, ConfirmedAt, BatchPCs, CheckPCs, HookPCs
<1>7. CASE Crash
  <2>1. \A r \in Runs : pc'[r] \in {"ready", "done"} /\ queue'[r] = {}
    BY <1>7 DEF Crash, Threads
  <2> QED
    BY <2>1 DEF ConfirmedRuns, ConfirmedAt, BatchPCs, CheckPCs, HookPCs
<1>8. CASE UNCHANGED <<vars, approved>>
  BY <1>3, <1>8 DEF vars, Reopening
<1> QED
  BY <1>2, <1>4, <1>5, <1>6, <1>7, <1>8, OneCallerSteps

\* Where a tool is started, and what it is started for.
LEMMA StartsConfirmed ==
  ASSUME OneCaller, RunnerInv, ConfirmedRuns, [ServiceNext]_allVars,
         NEW a \in ActionIds, invoked'[a] # invoked[a]
  PROVE  a \in approved \/ NeedsNoAnswer(a)
PROOF
<1>1. PICK r \in Runs : RunNext(r)
  BY OneCallerSteps
     DEF SendMessage, SendNext, ReopenFinished, PostMessage, Pause, StartRun, Launch,
         Crash, vars
<1>2. PICK b \in queue[r] : StartTool(r, b)
  BY <1>1
     DEF RunNext, Enter, MarkRunning, TopOfLoop, CheckFinished, StopHookAllows,
         StopHookDenies, ResumeAfterDenial, DetectStuck, CheckWaiting, ResetWaiting,
         StepOver, ReachLimit, FailRun, Step, ExecutePending, SkipBlockedPrompt, AskLLM,
         ReplyMessage, ReplyQuiet, ReplyMalformed, ReplyToolCalls, EmitAction,
         LastCallEmitted, AskConfirmation, ExecuteBatch, PopBlockedAction,
         PublishRejection, ToolReturns, ToolValueError, SetFinished, StepRaises
<1>3. a = b /\ pc[r] = "exec"
  BY <1>2 DEF StartTool, RunnerInv, TypeInv, TypeOK
<1>4. b \in MayRun
  BY <1>2, <1>3 DEF ConfirmedRuns, ConfirmedAt
<1> QED
  BY <1>3, <1>4 DEF MayRun

\* Confirmation mode, for every number of runs, messages, pauses and restarts:
\* an action is executed only if it was pending when a user started a run.
THEOREM NothingRunsUnconfirmed ==
  ASSUME OneCaller, Policy = "always"
  PROVE  ServiceSpec => ConfirmedBeforeRun
PROOF
<1> DEFINE Inv == RunnerInv /\ TaskIsTheRun /\ ConfirmedRuns
           Confirmed == \A a \in ActionIds :
                          invoked'[a] # invoked[a] => a \in approved \/ NeedsNoAnswer(a)
<1>1. ServiceInit => Inv
  BY InitRunnerInv
     DEF ServiceInit, Init, TaskIsTheRun, Active, Threads, ConfirmedRuns, ConfirmedAt,
         BatchPCs, CheckPCs, HookPCs
<1>2. Inv /\ [ServiceNext]_allVars => Inv' /\ [Confirmed]_allVars
  BY TaskIsTheRunInductive, ServiceSteps, RunnerInvInductive, CrashKeeps,
     ConfirmedInductive, StartsConfirmed DEF OneCaller
<1> QED
  BY <1>1, <1>2, PTL DEF ServiceSpec, ConfirmedBeforeRun
================================================================================
