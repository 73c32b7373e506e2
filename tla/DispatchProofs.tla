--------------------------- MODULE DispatchProofs ---------------------------
(***************************************************************************)
(* Proofs about Dispatch: its types, that a task stored as RUNNING names a *)
(* server that took the conversation, that nothing is restored which was   *)
(* never started, and that without faults and overlapping calls there is   *)
(* one host and one start.                                                 *)
(***************************************************************************)
EXTENDS Dispatch, FiniteSetTheorems, TLAPS

\* The types, and that a request goes to a server.
Typed ==
    /\ DispatchTypeOK
    /\ \A c \in Calls :
        pc[c] \in {"waiting", "served", "failed"} => server[c] \in Servers

\* What the calls have done so far.
Recorded ==
    /\ RunningWasHosted
    /\ \A c \in Calls :
        /\ status[c] = "RUNNING" => pc[c] \in {"done", "dead"}
        /\ pc[c] = "served" => server[c] \in stored

\* What is stored or runs was begun somewhere.
Started ==
    /\ hosts \subseteq stored
    /\ stored # {} => begun # {}

\* A live server that is cached keeps its entry, so no scan drops it.
Listed ==
    /\ \A s \in Servers :
        /\ s \in writing => up[s] = "down"
        /\ up[s] = "off" => s \notin fresh \cup found \cup cache
        /\ up[s] = "up" /\ s \in found => s \in fresh
        /\ up[s] = "up" /\ s \in cache => s \in fresh /\ (scanning => s \in found)

\* A call has tried no server yet, and prefers the host if there is one.
AtFirst(c) == attempt[c] = 0 /\ excluded[c] = {} /\ hosts \subseteq {priority[c]}

\* Where the conversation runs, as the state of a call tells.
Placed(c) ==
    /\ pc[c] = "idle" => attempt[c] = 0 /\ excluded[c] = {}
    /\ pc[c] = "reading" => AtFirst(c)
    /\ pc[c] = "choosing" => hosts = {} \/ AtFirst(c)
    /\ pc[c] = "waiting" =>
        /\ up[server[c]] # "off"
        /\ up[server[c]] = "up" => server[c] \in cache
    /\ pc[c] \in {"waiting", "served"} => hosts \subseteq {server[c]}
    /\ pc[c] = "failed" => hosts = {}
    /\ pc[c] \in {"choosing", "waiting", "served", "failed"} => Latest = c
    /\ pc[c] \in {"reading", "choosing", "waiting", "failed"} /\ old[c] = NoTask
        => begun = {}

\* One call at a time; between calls the latest task names the host.
Orderly ==
    /\ Listed
    /\ orphans = {}
    /\ \A c, d \in Active : c = d
    /\ \A s \in hosts : up[s] = "up" /\ s \in cache
    /\ \A c \in Calls : Placed(c)
    /\ Active = {} => hosts \subseteq
        IF tasks = <<>> THEN {} ELSE {server[Latest]}
    /\ tasks = <<>> => begun = {}
    /\ Cardinality(begun) <= 1

SmoothOrderly == Smooth => Orderly

-----------------------------------------------------------------------------
(* Types.                                                                  *)

\* Calls have types whatever the rest does.
LEMMA LatestTyped ==
    ASSUME tasks \in Seq(Calls)
    PROVE  /\ Latest \in Calls \cup {NoTask}
           /\ tasks = <<>> => Latest = NoTask
           /\ tasks # <<>> => Latest \in Calls
BY DEF Latest

LEMMA EndedTyped ==
    ASSUME DispatchTypeOK, NEW ends, Ended(ends)
    PROVE  /\ old' \in [Calls -> Calls \cup {NoTask}]
           /\ priority' \in [Calls -> Servers \cup {NoServer}]
           /\ excluded' \in [Calls -> SUBSET Servers]
           /\ attempt' \in [Calls -> 0..MaxAttempts]
BY DispatchAssumption DEF DispatchAssumption, DispatchTypeOK, Ended

LEMMA TypeInit == Init => Typed
<1> SUFFICES ASSUME Init PROVE Typed
  OBVIOUS
<1>1. /\ up \in [Servers -> {"off", "up", "down"}]
      /\ fresh = {} /\ found = {} /\ cache = {} /\ writing = {}
      /\ scanning \in BOOLEAN /\ overlapped \in BOOLEAN
  BY DEF Init, RegistryInit
<1>2. /\ tasks \in Seq(Calls)
      /\ orphans \subseteq [to : Servers, resume : BOOLEAN]
      /\ stored = {} /\ hosts = {} /\ begun = {}
  BY DEF Init
<1>3. /\ status \in [Calls -> {"PENDING", "DISPATCHING", "RUNNING", "FAILED"}]
      /\ server \in [Calls -> Servers \cup {NoServer}]
      /\ pc \in [Calls -> {"idle", "reading", "choosing", "waiting", "served",
                            "failed", "done", "dead"}]
      /\ \A c \in Calls : pc[c] = "idle"
      /\ old \in [Calls -> Calls \cup {NoTask}]
      /\ priority \in [Calls -> Servers \cup {NoServer}]
  BY DEF Init
<1>4. /\ excluded \in [Calls -> SUBSET Servers]
      /\ attempt \in [Calls -> 0..MaxAttempts]
      /\ faults \in 0..MaxFaults
  BY DispatchAssumption DEF DispatchAssumption, Init
<1> QED
  BY <1>1, <1>2, <1>3, <1>4 DEF Typed, DispatchTypeOK

LEMMA TypeNext == Typed /\ [Next]_vars => Typed'
<1> SUFFICES ASSUME Typed, [Next]_vars PROVE Typed'
  OBVIOUS
<1> USE DispatchAssumption DEF DispatchAssumption
<1> DispatchTypeOK
  BY DEF Typed
<1>1. ASSUME NEW c \in Calls, Begin(c) PROVE Typed'
  BY <1>1, LatestTyped DEF Begin, Typed, DispatchTypeOK, registryVars, hostVars
<1>2. ASSUME NEW c \in Calls, CreateTask(c) PROVE Typed'
  BY <1>2 DEF CreateTask, Typed, DispatchTypeOK, registryVars, hostVars
<1>3. ASSUME NEW c \in Calls, Choose(c) PROVE Typed'
  BY <1>3 DEF Choose, Choices, Typed, DispatchTypeOK, registryVars, hostVars
<1>4. ASSUME NEW c \in Calls, GiveUp(c) PROVE Typed'
  BY <1>4, EndedTyped DEF GiveUp, Typed, DispatchTypeOK, registryVars, hostVars
<1>19. ASSUME NEW c \in Calls, BuildFails(c) PROVE Typed'
  BY <1>19, EndedTyped DEF BuildFails, Typed, DispatchTypeOK, registryVars, hostVars
<1>5. ASSUME NEW c \in Calls, Succeed(c) PROVE Typed'
  BY <1>5, EndedTyped DEF Succeed, Typed, DispatchTypeOK, registryVars, hostVars
<1>6. ASSUME NEW c \in Calls, Retry(c) PROVE Typed'
  BY <1>6 DEF Retry, Typed, DispatchTypeOK, registryVars, hostVars
<1>7. ASSUME NEW c \in Calls, Serve(c) PROVE Typed'
  BY <1>7 DEF Serve, HostEffect, Request, Accepts, Typed, DispatchTypeOK, registryVars, hostVars
<1>8. ASSUME NEW c \in Calls, Refuse(c) PROVE Typed'
  BY <1>8 DEF Refuse, Typed, DispatchTypeOK, registryVars, hostVars
<1>9. ASSUME NEW c \in Calls, ServeError(c) PROVE Typed'
  BY <1>9 DEF ServeError, HostEffect, Request, Accepts, Fault, Typed,
      DispatchTypeOK, registryVars, hostVars
<1>10. ASSUME NEW c \in Calls, LoseAnswer(c) PROVE Typed'
  <2>1. pc[c] = "waiting" => Request(c) \in [to : Servers, resume : BOOLEAN]
    BY DEF Request, Typed
  <2>2. orphans' \subseteq [to : Servers, resume : BOOLEAN]
    BY <1>10, <2>1 DEF LoseAnswer, DispatchTypeOK
  <2> QED
    BY <1>10, <2>2 DEF LoseAnswer, Fault, Typed, DispatchTypeOK, registryVars, hostVars
<1>11. ASSUME ServeOrphan PROVE Typed'
  BY <1>11 DEF ServeOrphan, HostEffect, Typed, DispatchTypeOK, registryVars, callVars
<1>12. ASSUME NEW s \in Servers,
             Registry(StartServer(s) \/ Heartbeat(s) \/ WriteLands(s))
      PROVE  Typed'
  BY <1>12 DEF Registry, StartServer, Heartbeat, WriteLands, Typed, DispatchTypeOK,
      callVars, hostVars
<1>13. ASSUME NEW s \in Servers, Registry(Expire(s)) PROVE Typed'
  BY <1>13 DEF Registry, Expire, Typed, DispatchTypeOK, callVars, hostVars
<1>14. ASSUME NEW s \in Servers, LateBeat(s) PROVE Typed'
  BY <1>14 DEF LateBeat, Expire, Fault, Typed, DispatchTypeOK, callVars, hostVars
<1>15. ASSUME NEW s \in Servers, Leave(s) PROVE Typed'
  BY <1>15 DEF Leave, Deregister, ServerDies, Typed, DispatchTypeOK, callVars
<1>16. ASSUME Registry(WatchStep) PROVE Typed'
  BY <1>16 DEF Registry, WatchStep, Scan, StoreScan, Typed, DispatchTypeOK, callVars,
      hostVars
<1>17. ASSUME Restart PROVE Typed'
  <2>2. \A c \in Calls : pc[c] = "waiting" =>
            Request(c) \in [to : Servers, resume : BOOLEAN]
    BY DEF Request, Typed
  <2>1. orphans' \subseteq [to : Servers, resume : BOOLEAN]
    BY <1>17, <2>2 DEF Restart, DispatchTypeOK
  <2>3. /\ old' \in [Calls -> Calls \cup {NoTask}]
        /\ priority' \in [Calls -> Servers \cup {NoServer}]
        /\ excluded' \in [Calls -> SUBSET Servers]
        /\ attempt' \in [Calls -> 0..MaxAttempts]
    BY <1>17, EndedTyped DEF Restart
  <2>4. /\ pc' \in [Calls -> {"idle", "reading", "choosing", "waiting", "served",
                               "failed", "done", "dead"}]
        /\ \A c \in Calls : pc'[c] \notin {"waiting", "served", "failed"}
    BY <1>17 DEF Restart, Active, DispatchTypeOK
  <2>5. /\ scanning' \in BOOLEAN /\ found' = {} /\ cache' = {}
        /\ UNCHANGED <<up, writing, fresh, stored, hosts, begun, overlapped,
                       tasks, status, server>>
    BY <1>17 DEF Restart, ForgetServers
  <2>6. faults' \in 0..MaxFaults
    <3>1. Fault
      BY <1>17 DEF Restart
    <3> QED
      BY <3>1 DEF Fault, DispatchTypeOK
  <2> QED
    BY <2>1, <2>3, <2>4, <2>5, <2>6 DEF Typed, DispatchTypeOK
<1>18. ASSUME UNCHANGED vars PROVE Typed'
  BY <1>18 DEF vars, registryVars, callVars, hostVars, Typed, DispatchTypeOK
<1> QED
  BY <1>1, <1>2, <1>3, <1>4, <1>5, <1>6, <1>7, <1>8, <1>9, <1>10, <1>11, <1>12, <1>13, <1>14, <1>15, <1>16, <1>17, <1>18, <1>19 DEF Next, CallStep

-----------------------------------------------------------------------------
(* Tasks and starts.                                                       *)

\* A step of a call, or one that leaves the calls as they are, or a restart.
LEMMA Steps ==
    ASSUME [Next]_vars
    PROVE  \/ \E c \in Calls : Begin(c) \/ CallStep(c)
           \/ UNCHANGED callVars /\ stored \subseteq stored'
           \/ Restart
<1>1. ASSUME ServeOrphan PROVE UNCHANGED callVars /\ stored \subseteq stored'
  BY <1>1 DEF ServeOrphan, HostEffect
<1>3. ASSUME NEW s \in Servers, LateBeat(s) \/ Leave(s)
      PROVE  UNCHANGED callVars /\ stored \subseteq stored'
  BY <1>3 DEF LateBeat, Leave, hostVars
<1>4. ASSUME UNCHANGED vars PROVE UNCHANGED callVars /\ stored \subseteq stored'
  BY <1>4 DEF vars, hostVars
<1>5. ASSUME NEW s \in Servers,
             \/ Registry(StartServer(s) \/ Heartbeat(s) \/ WriteLands(s))
             \/ up[s] = "down" /\ Registry(Expire(s))
      PROVE  UNCHANGED callVars /\ stored \subseteq stored'
  BY <1>5 DEF Registry, hostVars
<1>6. ASSUME Registry(WatchStep) PROVE UNCHANGED callVars /\ stored \subseteq stored'
  BY <1>6 DEF Registry, hostVars
<1> QED
  BY <1>1, <1>3, <1>4, <1>5, <1>6 DEF Next

LEMMA RecordedInit == Init => Recorded
BY DEF Init, Recorded, RunningWasHosted

LEMMA RecordedNext == Typed /\ Recorded /\ [Next]_vars => Recorded'
<1> SUFFICES ASSUME Typed, Recorded, [Next]_vars PROVE Recorded'
  OBVIOUS
<1> USE DEF Recorded, RunningWasHosted
<1> DispatchTypeOK
  BY DEF Typed
<1>1. ASSUME NEW c \in Calls, Begin(c) PROVE Recorded'
  BY <1>1 DEF Begin, DispatchTypeOK, hostVars
<1>2. ASSUME NEW c \in Calls, CreateTask(c) PROVE Recorded'
  BY <1>2 DEF CreateTask, DispatchTypeOK, hostVars
<1>3. ASSUME NEW c \in Calls, Choose(c) PROVE Recorded'
  BY <1>3 DEF Choose, DispatchTypeOK, hostVars
<1>4. ASSUME NEW c \in Calls, GiveUp(c) PROVE Recorded'
  BY <1>4 DEF GiveUp, DispatchTypeOK, hostVars
<1>12. ASSUME NEW c \in Calls, BuildFails(c) PROVE Recorded'
  BY <1>12 DEF BuildFails, DispatchTypeOK, hostVars
<1>5. ASSUME NEW c \in Calls, Succeed(c) PROVE Recorded'
  BY <1>5 DEF Succeed, DispatchTypeOK, hostVars
<1>6. ASSUME NEW c \in Calls, Retry(c) PROVE Recorded'
  BY <1>6 DEF Retry, DispatchTypeOK, hostVars
<1>7. ASSUME NEW c \in Calls, Serve(c) PROVE Recorded'
  BY <1>7 DEF Serve, HostEffect, Request, DispatchTypeOK
<1>8. ASSUME NEW c \in Calls, Refuse(c) \/ LoseAnswer(c) PROVE Recorded'
  BY <1>8 DEF Refuse, LoseAnswer, DispatchTypeOK, hostVars
<1>9. ASSUME NEW c \in Calls, ServeError(c) PROVE Recorded'
  BY <1>9 DEF ServeError, HostEffect, DispatchTypeOK
<1>10. ASSUME UNCHANGED callVars, stored \subseteq stored' PROVE Recorded'
  BY <1>10 DEF callVars
<1>11. ASSUME Restart PROVE Recorded'
  <2>1. /\ \A c \in Calls : pc'[c] = IF c \in Active THEN "dead" ELSE pc[c]
        /\ UNCHANGED <<status, server, stored>>
    BY <1>11 DEF Restart
  <2> QED
    BY <2>1 DEF Active
<1> QED
  BY <1>1, <1>2, <1>3, <1>4, <1>5, <1>6, <1>7, <1>8, <1>9, <1>10, <1>11, <1>12, Steps
  DEF CallStep

LEMMA StartedInit == Init => Started
BY DEF Init, Started

\* A request that is accepted finds the conversation, or begins it.
LEMMA HostStarted ==
    ASSUME Started, NEW r, Accepts(r), HostEffect(r)
    PROVE  Started'
BY DEF Started, Accepts, CanResume, HostEffect

LEMMA StartedNext == Started /\ [Next]_vars => Started'
<1> SUFFICES ASSUME Started, [Next]_vars PROVE Started'
  OBVIOUS
<1> USE DEF Started
<1>1. ASSUME NEW c \in Calls, Begin(c) \/ CallStep(c) PROVE Started'
  <2>1. ASSUME UNCHANGED <<stored, hosts, begun>> PROVE Started'
    BY <2>1
  <2>2. CASE Serve(c)
    BY <2>2, HostStarted DEF Serve
  <2>3. CASE ServeError(c)
    BY <2>3, <2>1, HostStarted DEF ServeError
  <2> QED
    BY <1>1, <2>1, <2>2, <2>3 DEF Begin, CallStep, CreateTask, Choose, BuildFails,
      GiveUp, Succeed, Retry, Refuse, LoseAnswer, hostVars
<1>2. ASSUME ServeOrphan PROVE Started'
  BY <1>2, HostStarted DEF ServeOrphan
<1>3. ASSUME NEW s \in Servers, Leave(s) PROVE Started'
  BY <1>3 DEF Leave
<1>4. ASSUME UNCHANGED <<stored, begun, hosts>> PROVE Started'
  BY <1>4
<1> QED
  BY <1>1, <1>2, <1>3, <1>4 DEF Next, Registry, LateBeat, Restart, vars, hostVars

-----------------------------------------------------------------------------
(* One host.                                                               *)

LEMMA ListedNext ==
    ASSUME Typed, Listed, [Next]_vars, faults' = 0
    PROVE  Listed'
<1> USE DEF Listed
<1> DispatchTypeOK
  BY DEF Typed
<1>1. ASSUME UNCHANGED registryVars PROVE Listed'
  BY <1>1 DEF registryVars
<1>2. ASSUME NEW c \in Calls, Begin(c) \/ CallStep(c) PROVE UNCHANGED registryVars
  BY <1>2 DEF Begin, CallStep, CreateTask, Choose, BuildFails, GiveUp, Succeed, Retry,
      Serve, Refuse, ServeError, LoseAnswer
<1>3. ASSUME NEW s \in Servers,
             Registry(StartServer(s) \/ Heartbeat(s) \/ WriteLands(s))
      PROVE  Listed'
  BY <1>3 DEF Registry, StartServer, Heartbeat, WriteLands, DispatchTypeOK
<1>4. ASSUME NEW s \in Servers, up[s] = "down" /\ Registry(Expire(s)) PROVE Listed'
  BY <1>4 DEF Registry, Expire, DispatchTypeOK
<1>5. ASSUME NEW s \in Servers, Leave(s) PROVE Listed'
  BY <1>5 DEF Leave, Deregister, ServerDies, DispatchTypeOK
<1>6. ASSUME Registry(WatchStep) PROVE Listed'
  BY <1>6 DEF Registry, WatchStep, Scan, StoreScan, DispatchTypeOK
<1>7. ASSUME Fault PROVE FALSE
  BY <1>7 DEF Fault, DispatchTypeOK
<1> QED
  BY <1>1, <1>2, <1>3, <1>4, <1>5, <1>6, <1>7
  DEF Next, LateBeat, Restart, ServeOrphan, vars

LEMMA AppendLatest ==
    ASSUME tasks \in Seq(Calls), NEW c \in Calls, tasks' = Append(tasks, c)
    PROVE  Latest' = c /\ tasks' # <<>>
BY DEF Latest

\* While a call is at work no other one is.
LEMMA OthersQuiet ==
    ASSUME Typed, Orderly, NEW c \in Active, NEW d \in Calls, d # c
    PROVE  pc[d] \in {"idle", "done", "dead"}
BY DEF Orderly, Active, Typed, DispatchTypeOK

\* What a step of a call has to leave behind.
LEMMA CallLeaves ==
    ASSUME Typed, Orderly, Listed', NEW c \in Active,
           UNCHANGED <<orphans, up, cache>>,
           \A d \in Calls \ {c} :
               /\ pc'[d] = pc[d]
               /\ attempt'[d] = attempt[d] /\ excluded'[d] = excluded[d],
           \A s \in hosts' : up[s] = "up" /\ s \in cache,
           Placed(c)',
           pc'[c] \in {"done", "dead"} => tasks # <<>> /\ hosts' \subseteq {server'[Latest]},
           tasks' = tasks,
           pc'[c] # "idle",
           tasks = <<>> => begun' = {},
           Cardinality(begun') <= 1
    PROVE  Orderly'
<1>1. \A d \in Calls \ {c} : pc[d] \in {"idle", "done", "dead"}
  BY OthersQuiet
<1>2. \A d \in Calls : Placed(d)'
  BY <1>1 DEF Placed, Orderly
<1>3. Active' \subseteq {c}
  BY <1>1 DEF Active
<1>4. Active' = {} => pc'[c] \in {"done", "dead"}
  BY DEF Active
<1>5. Latest' = Latest
  BY DEF Latest
<1> QED
  BY <1>2, <1>3, <1>4, <1>5 DEF Orderly

LEMMA OrderlyNext == Typed /\ SmoothOrderly /\ [Next]_vars => SmoothOrderly'
<1> SUFFICES ASSUME Typed, SmoothOrderly, [Next]_vars, Smooth' PROVE Orderly'
  BY DEF SmoothOrderly
<1> DispatchTypeOK
  BY DEF Typed
<1>1. faults' = 0 /\ ~overlapped'
  BY DEF Smooth
<1>2. ~Fault
  BY <1>1 DEF Fault, DispatchTypeOK
<1>3. UNCHANGED faults
  BY <1>2 DEF Next, CallStep, Begin, CreateTask, Choose, BuildFails, GiveUp, Succeed, Retry,
    Serve, Refuse, ServeError, LoseAnswer, ServeOrphan, Registry, LateBeat, Leave,
    Restart, vars
<1>4. ~overlapped
  BY <1>1 DEF Next, CallStep, Begin, CreateTask, Choose, BuildFails, GiveUp, Succeed, Retry,
    Serve, Refuse, ServeError, LoseAnswer, ServeOrphan, Registry, LateBeat, Leave,
    Restart, vars, DispatchTypeOK
<1> Orderly
  BY <1>1, <1>3, <1>4 DEF SmoothOrderly, Smooth
<1> Listed'
  BY <1>1, ListedNext DEF Orderly
<1>5. ASSUME NEW c \in Calls, Begin(c) PROVE Orderly'
  <2>1. Active = {}
    BY <1>5, <1>1 DEF Begin
  <2>2. /\ UNCHANGED <<registryVars, hostVars, tasks, server, excluded, attempt>>
        /\ old' = [old EXCEPT ![c] = Latest]
        /\ priority' = [priority EXCEPT
               ![c] = IF Latest = NoTask THEN NoServer ELSE server[Latest]]
        /\ pc' = [pc EXCEPT ![c] = "reading"]
        /\ pc[c] = "idle"
    BY <1>5 DEF Begin
  <2>3. Placed(c)'
    <3>1. attempt'[c] = 0 /\ excluded'[c] = {}
      BY <2>2 DEF Orderly, Placed
    <3>2. hosts' \subseteq {priority'[c]}
      <4>1. CASE tasks = <<>>
        BY <2>1, <2>2, <4>1 DEF Orderly, hostVars
      <4>2. CASE tasks # <<>>
        <5>1. Latest \in Calls /\ Latest # NoTask
          BY <4>2, LatestTyped, DispatchAssumption
          DEF DispatchAssumption, DispatchTypeOK
        <5>2. priority'[c] = server[Latest]
          BY <2>2, <5>1 DEF DispatchTypeOK
        <5> QED
          BY <2>1, <2>2, <4>2, <5>2 DEF Orderly, hostVars
      <4> QED
        BY <4>1, <4>2
    <3>3. old'[c] = NoTask => begun' = {}
      BY <2>2, LatestTyped, DispatchAssumption
      DEF DispatchAssumption, Orderly, DispatchTypeOK, hostVars
    <3> QED
      BY <2>2, <3>1, <3>2, <3>3 DEF Placed, AtFirst, DispatchTypeOK
  <2>4. \A d \in Calls \ {c} : Placed(d)'
    <3> SUFFICES ASSUME NEW d \in Calls, d # c PROVE Placed(d)'
      OBVIOUS
    <3>1. pc'[d] = pc[d] /\ pc[d] \in {"idle", "done", "dead"}
      BY <2>1, <2>2 DEF Active, DispatchTypeOK
    <3>2. attempt'[d] = attempt[d] /\ excluded'[d] = excluded[d]
      BY <2>2
    <3> QED
      BY <3>1, <3>2 DEF Orderly, Placed
  <2>5. Active' = {c}
    BY <2>1, <2>2 DEF Active, DispatchTypeOK
  <2> QED
    BY <2>2, <2>3, <2>4, <2>5 DEF Orderly, registryVars, hostVars
<1>6. ASSUME NEW c \in Calls, CreateTask(c) PROVE Orderly'
  <2>1. /\ UNCHANGED <<registryVars, hostVars, server, old, priority, excluded, attempt>>
        /\ tasks' = Append(tasks, c)
        /\ pc[c] = "reading" /\ c \in Active
        /\ pc' = [pc EXCEPT ![c] = "choosing"]
    BY <1>6 DEF CreateTask, Active
  <2>2. Latest' = c /\ tasks' # <<>>
    BY <2>1, AppendLatest DEF DispatchTypeOK
  <2>3. Placed(c)'
    BY <2>1, <2>2 DEF Orderly, Placed, AtFirst, DispatchTypeOK, hostVars
  <2>4. \A d \in Calls \ {c} : Placed(d)'
    BY <2>1, OthersQuiet DEF Orderly, Placed, DispatchTypeOK
  <2>5. Active' = {c}
    BY <2>1, OthersQuiet DEF Active, DispatchTypeOK
  <2> QED
    BY <2>1, <2>2, <2>3, <2>4, <2>5 DEF Orderly, registryVars, hostVars
<1> DEFINE Quiet(c) ==
        \A d \in Calls \ {c} :
            /\ pc'[d] = pc[d]
            /\ attempt'[d] = attempt[d] /\ excluded'[d] = excluded[d]
<1>7. ASSUME NEW c \in Calls, Choose(c) PROVE Orderly'
  <2>1. /\ c \in Active /\ Quiet(c)
        /\ UNCHANGED <<registryVars, hostVars, tasks, old>>
        /\ pc[c] = "choosing" /\ pc'[c] = "waiting"
        /\ server'[c] \in Choices(c)
    BY <1>7 DEF Choose, Active, DispatchTypeOK
  <2>2. Latest' = Latest
    BY <2>1 DEF Latest
  <2>3. hosts = {} \/ hosts = {server'[c]}
    BY <2>1 DEF Choices, Orderly, Placed, AtFirst
  <2>4. server'[c] \in cache /\ up[server'[c]] # "off"
    BY <2>1 DEF Choices, Orderly, Listed, DispatchTypeOK
  <2>5. Placed(c)'
    BY <2>1, <2>2, <2>3, <2>4 DEF Orderly, Placed, registryVars, hostVars
  <2> QED
    BY <2>1, <2>5, CallLeaves DEF Orderly, registryVars, hostVars
<1>8. ASSUME NEW c \in Calls, GiveUp(c) PROVE Orderly'
  <2>1. /\ c \in Active /\ Quiet(c)
        /\ UNCHANGED <<registryVars, hostVars, tasks>>
        /\ pc[c] = "choosing" /\ pc'[c] = "done"
        /\ attempt[c] = MaxAttempts \/ Choices(c) = {}
    BY <1>8 DEF GiveUp, Ended, Active, DispatchTypeOK
  <2>2. hosts = {}
    BY <2>1, DispatchAssumption DEF DispatchAssumption, Choices, Orderly, Placed, AtFirst
  <2>3. Latest = c /\ tasks # <<>>
    BY <2>1, DispatchAssumption DEF DispatchAssumption, Orderly, Placed, Latest
  <2>4. Placed(c)'
    BY <2>1 DEF Placed
  <2> QED
    BY <2>1, <2>2, <2>3, <2>4, CallLeaves DEF Orderly, registryVars, hostVars
<1>9. ASSUME NEW c \in Calls, Succeed(c) PROVE Orderly'
  <2>1. /\ c \in Active /\ Quiet(c)
        /\ UNCHANGED <<registryVars, hostVars, tasks, server>>
        /\ pc[c] = "served" /\ pc'[c] = "done"
    BY <1>9 DEF Succeed, Ended, Active, DispatchTypeOK
  <2>2. Latest = c /\ tasks # <<>>
    BY <2>1, DispatchAssumption DEF DispatchAssumption, Orderly, Placed, Latest
  <2>3. Placed(c)'
    BY <2>1 DEF Placed
  <2>4. hosts \subseteq {server[Latest]} /\ Latest' = Latest
    BY <2>1, <2>2 DEF Orderly, Placed, Latest
  <2> QED
    BY <2>1, <2>2, <2>3, <2>4, CallLeaves DEF Orderly, registryVars, hostVars
<1>19. ASSUME NEW c \in Calls, BuildFails(c) PROVE Orderly'
  <2>1. /\ c \in Active /\ Quiet(c)
        /\ UNCHANGED <<registryVars, hostVars, tasks, server>>
        /\ pc[c] = "waiting" /\ pc'[c] = "dead"
    BY <1>19 DEF BuildFails, Ended, Active, DispatchTypeOK
  <2>2. Latest = c /\ tasks # <<>>
    BY <2>1, DispatchAssumption DEF DispatchAssumption, Orderly, Placed, Latest
  <2>3. Placed(c)'
    BY <2>1 DEF Placed
  <2>4. hosts \subseteq {server[Latest]} /\ Latest' = Latest
    BY <2>1, <2>2 DEF Orderly, Placed, Latest
  <2> QED
    BY <2>1, <2>2, <2>3, <2>4, CallLeaves DEF Orderly, registryVars, hostVars
<1>10. ASSUME NEW c \in Calls, Retry(c) PROVE Orderly'
  <2>1. /\ c \in Active /\ Quiet(c)
        /\ UNCHANGED <<registryVars, hostVars, tasks, old>>
        /\ pc[c] = "failed" /\ pc'[c] = "choosing"
    BY <1>10 DEF Retry, Active, DispatchTypeOK
  <2>2. Placed(c)'
    BY <2>1 DEF Orderly, Placed, Latest, hostVars
  <2> QED
    BY <2>1, <2>2, CallLeaves DEF Orderly, registryVars, hostVars
<1>11. ASSUME NEW c \in Calls, Serve(c) PROVE Orderly'
  <2>1. /\ c \in Active /\ Quiet(c)
        /\ UNCHANGED <<registryVars, orphans, tasks, old, server>>
        /\ pc[c] = "waiting" /\ pc'[c] = "served"
        /\ up[server[c]] = "up"
        /\ hosts' = hosts \cup {server[c]}
        /\ begun' = IF old[c] # NoTask \/ server[c] \in hosts
                    THEN begun ELSE begun \cup {server[c]}
    BY <1>11 DEF Serve, Accepts, HostEffect, Request, Active, DispatchTypeOK
  <2>2. Placed(c)'
    BY <2>1 DEF Orderly, Placed, Latest
  <2>3. Cardinality(begun') <= 1
    <3>1. begun' = begun \/ begun' = {server[c]}
      BY <2>1 DEF Orderly, Placed
    <3>2. Cardinality({server[c]}) = 1
      BY FS_Singleton
    <3>3. Cardinality(begun) <= 1
      BY DEF Orderly
    <3>4. CASE begun' = begun
      BY <3>3, <3>4
    <3>5. CASE begun' = {server[c]}
      BY <3>2, <3>5
    <3> QED
      BY <3>1, <3>4, <3>5
  <2>4. tasks # <<>>
    BY <2>1, DispatchAssumption DEF DispatchAssumption, Orderly, Placed, Latest
  <2> QED
    BY <2>1, <2>2, <2>3, <2>4, CallLeaves DEF Orderly, Placed, registryVars
<1>12. ASSUME NEW c \in Calls, Refuse(c) PROVE Orderly'
  <2>1. /\ c \in Active /\ Quiet(c)
        /\ UNCHANGED <<registryVars, hostVars, tasks, old, server>>
        /\ pc[c] = "waiting" /\ pc'[c] = "failed"
        /\ up[server[c]] # "up" \/ server[c] \notin hosts
    BY <1>12 DEF Refuse, Accepts, Request, Active, DispatchTypeOK
  <2>2. hosts = {}
    BY <2>1 DEF Orderly, Placed
  <2>3. Placed(c)'
    BY <2>1, <2>2 DEF Orderly, Placed, Latest, hostVars
  <2> QED
    BY <2>1, <2>3, CallLeaves DEF Orderly, registryVars, hostVars
<1>13. ASSUME NEW c \in Calls, ServeError(c) \/ LoseAnswer(c) PROVE Orderly'
  BY <1>2, <1>13 DEF ServeError, LoseAnswer
<1>14. ASSUME ServeOrphan PROVE Orderly'
  BY <1>14 DEF ServeOrphan, Orderly
\* The calls stand still, and no live server leaves the cache.
<1>15. ASSUME UNCHANGED <<callVars, orphans, begun>>, hosts' \subseteq hosts,
              \A s \in Servers :
                /\ up[s] # "off" => up'[s] # "off"
                /\ up[s] # "off" /\ up'[s] = "up" => up[s] = "up"
                /\ s \in hosts' => up'[s] = "up"
                /\ s \in cache /\ up'[s] = "up" => s \in cache'
       PROVE  Orderly'
  <2>1. \A c \in Calls : Placed(c)'
    BY <1>15 DEF Orderly, Placed, AtFirst, Latest, callVars, Typed, DispatchTypeOK
  <2> QED
    BY <1>15, <2>1 DEF Orderly, Active, Latest, callVars, DispatchTypeOK
<1>16. ASSUME NEW s \in Servers,
              \/ Registry(StartServer(s) \/ Heartbeat(s) \/ WriteLands(s))
              \/ up[s] = "down" /\ Registry(Expire(s))
              \/ Leave(s)
       PROVE  Orderly'
  BY <1>15, <1>16 DEF Registry, StartServer, Heartbeat, WriteLands, Expire, Leave,
    Deregister, ServerDies, hostVars, Orderly, DispatchTypeOK
<1>17. ASSUME Registry(WatchStep) PROVE Orderly'
  BY <1>15, <1>17 DEF Registry, WatchStep, Scan, StoreScan, hostVars, Orderly,
    Listed, DispatchTypeOK
<1>18. ASSUME UNCHANGED vars PROVE Orderly'
  BY <1>15, <1>18 DEF vars, registryVars, hostVars, Orderly, DispatchTypeOK
<1> QED
  BY <1>2, <1>5, <1>6, <1>7, <1>8, <1>9, <1>10, <1>11, <1>12, <1>13, <1>14, <1>16,
    <1>17, <1>18, <1>19 DEF Next, CallStep, LateBeat, Restart

LEMMA OrderlyInit == Init => SmoothOrderly
<1> SUFFICES ASSUME Init PROVE Orderly
  BY DEF SmoothOrderly
<1>1. Active = {} /\ \A c \in Calls : Placed(c)
  BY DEF Init, Active, Placed
<1>2. Listed
  BY DEF Init, RegistryInit, Listed
<1>3. Cardinality(begun) <= 1
  BY FS_EmptySet DEF Init
<1> QED
  BY <1>1, <1>2, <1>3 DEF Init, Orderly

LEMMA OneHostHolds == Typed /\ SmoothOrderly => OneHost /\ MessageSentOnce
<1> SUFFICES ASSUME Typed, Orderly PROVE Cardinality(hosts) <= 1
  BY DEF SmoothOrderly, Orderly, OneHost, MessageSentOnce
<1>1. \E s : hosts \subseteq {s}
  <2>1. CASE Active = {}
    BY <2>1 DEF Orderly
  <2>2. ASSUME NEW c \in Active PROVE \E s : hosts \subseteq {s}
    <3>1. Placed(c) /\ c \in Calls
      BY DEF Orderly, Active
    <3>2. pc[c] \in {"reading", "choosing", "waiting", "served", "failed"}
      BY DEF Active, Typed, DispatchTypeOK
    <3>3. \/ hosts = {} \/ hosts \subseteq {priority[c]} \/ hosts \subseteq {server[c]}
      BY <3>1, <3>2 DEF Placed, AtFirst
    <3> QED
      BY <3>3
  <2> QED
    BY <2>1, <2>2
<1>2. PICK s : hosts \subseteq {s}
  BY <1>1
<1>3. CASE hosts = {}
  <2>1. Cardinality(hosts) = 0
    BY <1>3, FS_EmptySet
  <2> QED
    BY <2>1
<1>4. CASE hosts = {s}
  <2>1. Cardinality(hosts) = 1
    BY <1>4, FS_Singleton
  <2> QED
    BY <2>1
<1> QED
  BY <1>2, <1>3, <1>4

-----------------------------------------------------------------------------

\* The task, the call and the server keep their types: DispatchTypeOK for any
\* number of servers and calls.
THEOREM DispatchTyped == Spec => []DispatchTypeOK
<1>1. Typed => DispatchTypeOK
  BY DEF Typed
<1> QED
  BY <1>1, TypeInit, TypeNext, PTL DEF Spec

\* A task stored as RUNNING names a server that stored the conversation: the
\* status is set from the answer of that server alone (Scheduler.schedule).
THEOREM RunningTasksWereHosted == Spec => []RunningWasHosted
<1>1. Recorded => RunningWasHosted
  BY DEF Recorded
<1> QED
  BY <1>1, TypeInit, TypeNext, RecordedInit, RecordedNext, PTL DEF Spec

\* A restore finds only what some server began (resume_conversation).
THEOREM RestoresFollowStarts == Spec => []RestoresWhatWasStarted
<1>1. Started => RestoresWhatWasStarted
  BY DEF Started, RestoresWhatWasStarted
<1> QED
  BY <1>1, StartedInit, StartedNext, PTL DEF Spec

\* Without faults and overlapping calls the conversation runs on one server at
\* most and is started once, for any number of servers and calls (priority_id,
\* the cache of the registry and the task order of Scheduler.schedule).
THEOREM OneHostAtATime == Spec => []OneHost
<1>1. Typed /\ SmoothOrderly => OneHost
  BY OneHostHolds
<1> QED
  BY <1>1, TypeInit, TypeNext, OrderlyInit, OrderlyNext, PTL DEF Spec

\* ...and only one server was given its first message (Scheduler.schedule,
\* dispatch_task).
THEOREM FirstMessageOnce == Spec => []MessageSentOnce
<1>1. Typed /\ SmoothOrderly => MessageSentOnce
  BY OneHostHolds
<1> QED
  BY <1>1, TypeInit, TypeNext, OrderlyInit, OrderlyNext, PTL DEF Spec
=============================================================================
