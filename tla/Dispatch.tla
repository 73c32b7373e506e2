------------------------------ MODULE Dispatch ------------------------------
(***************************************************************************)
(* Scheduling one conversation: the application server creates a task for  *)
(* every call that opens the conversation, prefers the server of the task  *)
(* before it, and tries up to MaxAttempts servers.  A call is a coroutine: *)
(* others run at each of its awaits, and its request may reach an agent    *)
(* server after the call has given up.  The agent server starts the        *)
(* conversation (create) or restores it from what is stored (resume).      *)
(***************************************************************************)
EXTENDS AgentRegistry, Sequences

CONSTANTS
    Post,          \* the call that creates the conversation
    Gets,          \* the later calls that open it
    NoServer, NoTask,
    Shared,        \* whether the servers store conversations in one place
    MaxAttempts,   \* max_dispatch_attempts
    MaxLeaves,     \* bound on the servers that leave
    MaxFaults      \* bound on the faults: answers that are lost or too late,
                   \* requests a server fails, late heartbeats of a live
                   \* server, restarts of the application server

Calls == {Post} \cup Gets

ASSUME DispatchAssumption ==
    /\ Post \notin Gets
    /\ NoTask \notin Calls
    /\ NoServer \notin Servers
    /\ Shared \in BOOLEAN
    /\ MaxAttempts \in Nat \ {0}
    /\ MaxLeaves \in Nat /\ MaxFaults \in Nat

VARIABLES
    stored,     \* the servers in whose storage the conversation is
    hosts,      \* the live servers that run the conversation
    begun,      \* the servers that were given the initial message
    orphans,    \* requests whose caller has given up
    tasks,      \* the calls that have created their task, in that order
    status,     \* of each task, as stored
    server,     \* of each task, as stored
    pc,         \* idle, reading, choosing, waiting, served, failed, done, dead
    old,        \* the task each call found: old_task
    priority,   \* priority_id
    excluded,   \* excluded_servers
    attempt,
    faults,     \* how many faults happened
    overlapped  \* whether two calls were ever at work together

callVars == <<tasks, status, server, pc, old, priority, excluded, attempt>>
hostVars == <<stored, hosts, begun, orphans>>
vars == <<registryVars, callVars, hostVars, faults, overlapped>>

Active == {c \in Calls : pc[c] \notin {"idle", "done", "dead"}}

\* A call that ends, and what it kept to itself with it.
Ended(ends) ==
    /\ old' = [c \in Calls |-> IF c \in ends THEN NoTask ELSE old[c]]
    /\ priority' = [c \in Calls |-> IF c \in ends THEN NoServer ELSE priority[c]]
    /\ excluded' = [c \in Calls |-> IF c \in ends THEN {} ELSE excluded[c]]
    /\ attempt' = [c \in Calls |-> IF c \in ends THEN 0 ELSE attempt[c]]

Fault == faults < MaxFaults /\ faults' = faults + 1

Request(c) == [to |-> server[c], resume |-> old[c] # NoTask]

Init ==
    /\ RegistryInit
    /\ stored = {}
    /\ hosts = {}
    /\ begun = {}
    /\ orphans = {}
    /\ tasks = <<>>
    /\ status = [c \in Calls |-> "PENDING"]
    /\ server = [c \in Calls |-> NoServer]
    /\ pc = [c \in Calls |-> "idle"]
    /\ old = [c \in Calls |-> NoTask]
    /\ priority = [c \in Calls |-> NoServer]
    /\ excluded = [c \in Calls |-> {}]
    /\ attempt = [c \in Calls |-> 0]
    /\ faults = 0
    /\ overlapped = FALSE

-----------------------------------------------------------------------------
(* schedule.                                                               *)

Latest == IF tasks = <<>> THEN NoTask ELSE tasks[Len(tasks)]

\* Mutant: the task before is not read.
BeginBlind(c) ==
    /\ pc[c] = "idle"
    /\ c = Post \/ pc[Post] # "idle"
    /\ overlapped' = (overlapped \/ Active # {})
    /\ pc' = [pc EXCEPT ![c] = "reading"]
    /\ UNCHANGED <<registryVars, hostVars, faults,
                   tasks, status, server, old, priority, excluded, attempt>>

\* Only the conversation a POST has stored is found by a GET.
Begin(c) ==
    /\ pc[c] = "idle"
    /\ c = Post \/ pc[Post] # "idle"
    /\ overlapped' = (overlapped \/ Active # {})
    /\ old' = [old EXCEPT ![c] = Latest]
    /\ priority' = [priority EXCEPT
           ![c] = IF Latest = NoTask THEN NoServer ELSE server[Latest]]
    /\ pc' = [pc EXCEPT ![c] = "reading"]
    /\ UNCHANGED <<registryVars, hostVars, faults,
                   tasks, status, server, excluded, attempt>>

CreateTask(c) ==
    /\ pc[c] = "reading"
    /\ tasks' = Append(tasks, c)
    /\ pc' = [pc EXCEPT ![c] = "choosing"]
    /\ UNCHANGED <<registryVars, hostVars, faults, overlapped,
                   status, server, old, priority, excluded, attempt>>

\* Mutant: the load balancer is asked even when the preferred server is known.
ChoicesBalanced(c) == cache \ excluded[c]

\* _select_agent_server: the preferred server, else any the balancer likes.
Choices(c) ==
    IF priority[c] \in cache \ excluded[c]
    THEN {priority[c]}
    ELSE cache \ excluded[c]

\* A server is chosen, the task is stored as DISPATCHING, the request goes.
Choose(c) ==
    /\ pc[c] = "choosing"
    /\ attempt[c] < MaxAttempts
    /\ \E s \in Choices(c) : server' = [server EXCEPT ![c] = s]
    /\ attempt' = [attempt EXCEPT ![c] = @ + 1]
    /\ status' = [status EXCEPT ![c] = "DISPATCHING"]
    /\ pc' = [pc EXCEPT ![c] = "waiting"]
    /\ UNCHANGED <<registryVars, hostVars, faults, overlapped,
                   tasks, old, priority, excluded>>

\* The request that creates the conversation cannot be built.  Nobody catches
\* the exception: the call ends, its task stays DISPATCHING.
BuildFails(c) ==
    /\ pc[c] = "waiting"
    /\ ~Request(c).resume
    /\ pc' = [pc EXCEPT ![c] = "dead"]
    /\ Ended({c})
    /\ UNCHANGED <<registryVars, hostVars, faults, overlapped,
                   tasks, status, server>>

\* No server is left, or every attempt was used: the task is stored as FAILED.
GiveUp(c) ==
    /\ pc[c] = "choosing"
    /\ attempt[c] = MaxAttempts \/ Choices(c) = {}
    /\ status' = [status EXCEPT ![c] = "FAILED"]
    /\ pc' = [pc EXCEPT ![c] = "done"]
    /\ Ended({c})
    /\ UNCHANGED <<registryVars, hostVars, faults, overlapped,
                   tasks, server>>

Succeed(c) ==
    /\ pc[c] = "served"
    /\ status' = [status EXCEPT ![c] = "RUNNING"]
    /\ pc' = [pc EXCEPT ![c] = "done"]
    /\ Ended({c})
    /\ UNCHANGED <<registryVars, hostVars, faults, overlapped,
                   tasks, server>>

\* Mutant: a failure is followed by the same server again, without end.
RetryForever(c) ==
    /\ pc[c] = "failed"
    /\ attempt' = [attempt EXCEPT ![c] = 0]
    /\ pc' = [pc EXCEPT ![c] = "choosing"]
    /\ UNCHANGED <<registryVars, hostVars, faults, overlapped,
                   tasks, status, server, old, priority, excluded>>

\* Mutant: the error in the answer is not looked at.
RetryAsSuccess(c) ==
    /\ pc[c] = "failed"
    /\ status' = [status EXCEPT ![c] = "RUNNING"]
    /\ pc' = [pc EXCEPT ![c] = "done"]
    /\ Ended({c})
    /\ UNCHANGED <<registryVars, hostVars, faults, overlapped,
                   tasks, server>>

\* The failure stays in memory until the task is stored the next time.
Retry(c) ==
    /\ pc[c] = "failed"
    /\ excluded' = [excluded EXCEPT ![c] = @ \cup {server[c]}]
    /\ priority' = [priority EXCEPT ![c] = NoServer]
    /\ pc' = [pc EXCEPT ![c] = "choosing"]
    /\ UNCHANGED <<registryVars, hostVars, faults, overlapped,
                   tasks, status, server, old, attempt>>

-----------------------------------------------------------------------------
(* The request at the agent server.                                        *)

CanResume(s) == IF Shared THEN stored # {} ELSE s \in stored

\* Mutant: a conversation that was never stored is restored as well.
AcceptsAnything(r) == up[r.to] = "up"

\* A running conversation is answered for as it is; another one is started, or
\* restored when it is in the server's storage.
Accepts(r) ==
    /\ up[r.to] = "up"
    /\ ~r.resume \/ r.to \in hosts \/ CanResume(r.to)

HostEffect(r) ==
    /\ hosts' = hosts \cup {r.to}
    /\ stored' = stored \cup {r.to}
    /\ begun' = IF r.resume \/ r.to \in hosts THEN begun ELSE begun \cup {r.to}

Serve(c) ==
    /\ pc[c] = "waiting"
    /\ Accepts(Request(c))
    /\ HostEffect(Request(c))
    /\ pc' = [pc EXCEPT ![c] = "served"]
    /\ UNCHANGED <<registryVars, faults, overlapped, orphans,
                   tasks, status, server, old, priority, excluded, attempt>>

\* No connection, or nothing to restore.
Refuse(c) ==
    /\ pc[c] = "waiting"
    /\ ~Accepts(Request(c))
    /\ pc' = [pc EXCEPT ![c] = "failed"]
    /\ UNCHANGED <<registryVars, hostVars, faults, overlapped,
                   tasks, status, server, old, priority, excluded, attempt>>

\* The start fails; or it succeeds and what follows it (the initial message)
\* fails, which leaves the conversation running.
ServeError(c) ==
    /\ pc[c] = "waiting"
    /\ Accepts(Request(c))
    /\ Fault
    /\ \/ HostEffect(Request(c))
       \/ UNCHANGED <<hosts, stored, begun>>
    /\ pc' = [pc EXCEPT ![c] = "failed"]
    /\ UNCHANGED <<registryVars, overlapped, orphans,
                   tasks, status, server, old, priority, excluded, attempt>>

\* The answer does not come in time: the request may still be on its way, or
\* only the answer is lost.
LoseAnswer(c) ==
    /\ pc[c] \in {"waiting", "served"}
    /\ Fault
    /\ orphans' = IF pc[c] = "waiting" THEN orphans \cup {Request(c)} ELSE orphans
    /\ pc' = [pc EXCEPT ![c] = "failed"]
    /\ UNCHANGED <<registryVars, stored, hosts, begun,
                   overlapped, tasks, status, server, old, priority, excluded,
                   attempt>>

\* A request that nobody waits for any more is served or lost.
ServeOrphan ==
    \E r \in orphans :
        /\ orphans' = orphans \ {r}
        /\ \/ Accepts(r) /\ HostEffect(r)
           \/ UNCHANGED <<hosts, stored, begun>>
        /\ UNCHANGED <<registryVars, callVars, faults, overlapped>>

-----------------------------------------------------------------------------
(* The servers come and go.                                                *)

Registry(A) == A /\ UNCHANGED <<callVars, hostVars, faults, overlapped>>

\* The process ends, cleanly or not, and what it runs ends with it.
Leave(s) ==
    /\ Cardinality({r \in Servers : up[r] = "down"}) < MaxLeaves
    /\ Deregister(s) \/ ServerDies(s)
    /\ hosts' = hosts \ {s}
    /\ UNCHANGED <<callVars, stored, begun, orphans, faults, overlapped>>

\* A live server does not write its entry in time.
LateBeat(s) ==
    /\ up[s] = "up"
    /\ Fault
    /\ Expire(s)
    /\ UNCHANGED <<callVars, hostVars, overlapped>>

\* The application server dies: its calls end where they are and their tasks
\* stay as they are stored.
Restart ==
    /\ Fault
    /\ ForgetServers
    /\ orphans' = orphans \cup {Request(c) : c \in {d \in Calls : pc[d] = "waiting"}}
    /\ pc' = [c \in Calls |-> IF c \in Active THEN "dead" ELSE pc[c]]
    /\ Ended(Active)
    /\ UNCHANGED <<stored, hosts, begun, overlapped, tasks, status, server>>

CallStep(c) ==
    \/ CreateTask(c) \/ Choose(c) \/ BuildFails(c) \/ GiveUp(c) \/ Succeed(c)
    \/ Retry(c) \/ Serve(c) \/ Refuse(c) \/ ServeError(c) \/ LoseAnswer(c)

WatchStep == Scan \/ StoreScan

Next ==
    \/ \E c \in Calls : Begin(c) \/ CallStep(c)
    \/ ServeOrphan
    \/ \E s \in Servers :
        \/ Registry(StartServer(s) \/ Heartbeat(s) \/ WriteLands(s))
        \/ up[s] = "down" /\ Registry(Expire(s))
        \/ LateBeat(s)
        \/ Leave(s)
    \/ Registry(WatchStep)
    \/ Restart

Spec == Init /\ [][Next]_vars

\* Calls and the watch loop go on; a write that has begun lands; time passes.
Fairness ==
    /\ \A c \in Calls : WF_vars(CallStep(c))
    /\ WF_vars(Registry(WatchStep))
    /\ \A s \in Servers :
        /\ WF_vars(Registry(WriteLands(s)))
        /\ WF_vars(up[s] = "down" /\ Registry(Expire(s)))

FairSpec == Spec /\ Fairness

-----------------------------------------------------------------------------
(* Properties.                                                             *)

DispatchTypeOK ==
    /\ up \in [Servers -> {"off", "up", "down"}]
    /\ writing \subseteq Servers
    /\ fresh \subseteq Servers /\ found \subseteq Servers /\ cache \subseteq Servers
    /\ scanning \in BOOLEAN
    /\ stored \subseteq Servers /\ hosts \subseteq Servers /\ begun \subseteq Servers
    /\ orphans \subseteq [to : Servers, resume : BOOLEAN]
    /\ tasks \in Seq(Calls)
    /\ status \in [Calls -> {"PENDING", "DISPATCHING", "RUNNING", "FAILED"}]
    /\ server \in [Calls -> Servers \cup {NoServer}]
    /\ pc \in [Calls -> {"idle", "reading", "choosing", "waiting", "served",
                         "failed", "done", "dead"}]
    /\ old \in [Calls -> Calls \cup {NoTask}]
    /\ priority \in [Calls -> Servers \cup {NoServer}]
    /\ excluded \in [Calls -> SUBSET Servers]
    /\ attempt \in [Calls -> 0..MaxAttempts]
    /\ faults \in 0..MaxFaults
    /\ overlapped \in BOOLEAN

\* No fault and no overlap has happened that lets a call look elsewhere while
\* the server it leaves goes on.
Smooth == faults = 0 /\ ~overlapped

\* A task that is stored as RUNNING names a server that did take the
\* conversation, whatever retries, late requests and crashes came before.
RunningWasHosted ==
    \A c \in Calls : status[c] = "RUNNING" => server[c] \in stored

\* While no answer is lost or failed, no heartbeat late, no call overlapped and
\* no restart, the conversation never runs on two live servers (priority_id
\* together with the server cache).
OneHost == Smooth => Cardinality(hosts) <= 1

\* Under the same conditions the initial message is sent to one server only:
\* every later call restores the conversation instead of starting it again.
MessageSentOnce == Smooth => Cardinality(begun) <= 1

\* A restore never brings up a conversation that no server has ever stored.
RestoresWhatWasStarted == hosts # {} => begun # {}

\* Every call that began ends, with its task RUNNING or FAILED unless its
\* request could not be built or the application server died under it.
ScheduleEnds == <>[](Active = {})

\* A server that has gone is in the end no longer offered, though nobody
\* removes its entry and a last write may put it back.
DeadServerForgotten == <>[](\A s \in cache : up[s] # "down")

\* What the GET route says of itself: it schedules when there is no task.
GetSchedulesOnlyWithoutTask ==
    \A c \in Gets : (pc[c] = "waiting") => old[c] = NoTask
=============================================================================
