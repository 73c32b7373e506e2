--------------------------- MODULE Conversations ---------------------------
(***************************************************************************)
(* The conversations of one agent server, followed through one of them:    *)
(* the table of open event services, the settings (meta) and the status    *)
(* (snapshot) that are stored for it, and the process they live in.  A     *)
(* delete takes the service out of the table and closes it, but stops      *)
(* neither its run nor removes what is stored: the run of a deleted        *)
(* conversation goes on and stores its status, next to the service a       *)
(* resume builds.  Policies stand for all settings a user can change, and  *)
(* requests for those that stay as the conversation was created with.      *)
(*                                                                         *)
(* A change of the state is published and saved by the thread that makes   *)
(* it: the thread dumps the state (to_snapshot), opens the file, which     *)
(* empties it, and fills it.  A run saves under the runner's lock and the  *)
(* calls of the user under the lock of the state, so two saves of one      *)
(* conversation may overlap, and a crash may come inside one.              *)
(*                                                                         *)
(* Starting an event service does not suspend: create and resume are one   *)
(* step each, and the event loop does nothing else until a status they     *)
(* corrected is saved.  The policy in the snapshot is left out: the one in *)
(* the settings replaces it whenever a conversation is built.              *)
(***************************************************************************)
EXTENDS Naturals

CONSTANTS
    Requests,       \* the creations that are asked for, by their settings
    Policies,       \* confirmation policies
    FirstPolicy,    \* the policy every request comes with
    NoMeta,         \* no settings are stored
    MaxBuilds,      \* bound on the event services built
    MaxCalls        \* bound on the runs, the pauses and the settings

ASSUME ConversationsAssumption ==
    /\ FirstPolicy \in Policies
    /\ NoMeta \notin [request : Requests, policy : Policies]
    /\ {"start", "run", "pause", "stop"} \cap Policies = {}
    /\ MaxBuilds \in Nat /\ MaxCalls \in Nat

Services == 1 .. MaxBuilds
Metas == [request : Requests, policy : Policies]
\* FINISHED stands for every status a run ends in without an error.
Ends == {"FINISHED", "ERROR"}
Statuses == Ends \cup {"IDLE", "RUNNING", "PAUSED"}

\* A save is known by what it is part of: building the service, its run, a
\* pause, the stop of the server, or the setting of a policy.
Causes == {"start", "run", "pause", "stop"} \cup Policies

VARIABLES
    process,   \* serving, stopping (the table is gone, threads go on), down
    table,     \* _event_services: the service of the conversation, or 0
    built,     \* services are numbered in the order they are built
    meta,      \* the stored settings
    snapshot,  \* the stored status, "none", or what is no snapshot: "empty"
               \* (a save has opened the file) or "garbled" (two overlapped)
    writing,   \* the saves under way: of which service, by what, what was
               \* dumped ("due" before), and whether the file is open
    overlapped,   \* history: a save began while another one was under way,
                  \* and since then none began alone and no status was loaded
    metaData,  \* of each service: its settings in memory
    policy,    \* of each service: the policy of its conversation's state
    used,      \* of each service: the policy its agent was built with
    status,    \* of each service: execution_status
    run,       \* of each service: none, queued, running, ending
    sending,   \* services whose creator is sending the initial message
    closing,   \* services that are taken out of the table, not yet closed
    setting,   \* policies that are in the state and not yet in metaData
    calls,
    chosen,    \* the policy the user set last
    lost,      \* whether a setting was overtaken by a stop or another one
    deleted    \* whether the conversation was ever deleted

saveVars == <<snapshot, writing, overlapped>>
diskVars == <<meta, saveVars>>
serviceVars == <<metaData, policy, used, status, run>>
vars == <<process, table, built, diskVars, serviceVars, sending, closing,
          setting, calls, chosen, lost, deleted>>

Init ==
    /\ process = "serving"
    /\ table = 0
    /\ built = 0
    /\ meta = NoMeta
    /\ snapshot = "none"
    /\ writing = {}
    /\ overlapped = FALSE
    /\ metaData = [s \in Services |-> NoMeta]
    /\ policy = [s \in Services |-> FirstPolicy]
    /\ used = [s \in Services |-> FirstPolicy]
    /\ status = [s \in Services |-> "IDLE"]
    /\ run = [s \in Services |-> "none"]
    /\ sending = {}
    /\ closing = {}
    /\ setting = {}
    /\ calls = 0
    /\ chosen = FirstPolicy
    /\ lost = FALSE
    /\ deleted = FALSE

Asked(r) == [request |-> r, policy |-> FirstPolicy]

-----------------------------------------------------------------------------
(* Saving the state (PersistenceConsumer, called by the thread that has     *)
(* changed the state and published that).                                  *)

Due(s, by) == [service |-> s, by |-> by, dump |-> "due", open |-> FALSE]

BeginSave(s, by) ==
    /\ writing' = writing \cup {Due(s, by)}
    /\ overlapped' = (writing # {})

Saving(s, by) == \E w \in writing : w.service = s /\ w.by = by

\* Calls of the user hold the lock of the conversation's state.
StateLocked(s) == \E w \in writing : w.service = s /\ w.by \notin {"run", "stop"}

unsavedVars == <<process, table, built, meta, serviceVars, sending, closing,
                 setting, calls, chosen, lost, deleted>>

Dump(w) ==
    /\ w \in writing /\ w.dump = "due"
    /\ writing' = (writing \ {w}) \cup {[w EXCEPT !.dump = status[w.service]]}
    /\ UNCHANGED <<unsavedVars, snapshot, overlapped>>

\* open(path, "w").
OpenFile(w) ==
    /\ w \in writing /\ w.dump # "due" /\ ~w.open
    /\ writing' = (writing \ {w}) \cup {[w EXCEPT !.open = TRUE]}
    /\ snapshot' = "empty"
    /\ UNCHANGED <<unsavedVars, overlapped>>

\* What another save wrote since the file was opened is overwritten from its
\* start.  A change of the status is saved twice (once more for the event of
\* the conversation it is repeated as), one of other values again.
Fill(w) ==
    /\ w \in writing /\ w.open
    /\ snapshot' \in IF snapshot = "empty" THEN {w.dump} ELSE {w.dump, "garbled"}
    /\ \/ writing' = writing \ {w}
       \/ writing' = (writing \ {w}) \cup {Due(w.service, w.by)}
    /\ UNCHANGED <<unsavedVars, overlapped>>

-----------------------------------------------------------------------------
(* Building the event service of stored or given settings.                 *)

\* The event loop takes the next callback: it serves, and builds nothing.
LoopFree == process = "serving" /\ ~ \E s \in Services : Saving(s, "start")

\* A snapshot that is there and cannot be read fails the start.
Loadable == snapshot \in Statuses \cup {"none"}

\* Mutant: a status RUNNING that was stored is kept.
LoadedAsIs == IF snapshot = "none" THEN "IDLE" ELSE snapshot

\* The run of a stored RUNNING is not there any more.
Loaded ==
    IF snapshot = "none" THEN "IDLE"
    ELSE IF snapshot = "RUNNING" THEN "ERROR"
    ELSE snapshot

\* A new conversation is saved, and a corrected status.
Build(m) ==
    /\ Loadable
    /\ built < MaxBuilds
    /\ built' = built + 1
    /\ table' = built + 1
    /\ metaData' = [metaData EXCEPT ![built + 1] = m]
    /\ policy' = [policy EXCEPT ![built + 1] = m.policy]
    /\ used' = [used EXCEPT ![built + 1] = m.policy]
    /\ status' = [status EXCEPT ![built + 1] = Loaded]
    /\ \/ Loaded = snapshot /\ overlapped' = FALSE /\ UNCHANGED writing
       \/ Loaded # snapshot /\ BeginSave(built + 1, "start")
    /\ UNCHANGED <<process, snapshot, run, closing, setting, calls, deleted>>

\* Mutant: settings given by a creation replace the stored ones.
StartOver(r) ==
    /\ LoopFree
    /\ table = 0
    /\ meta' = Asked(r)
    /\ Build(Asked(r))
    /\ sending' = sending \cup {built + 1}
    /\ chosen' = IF meta = NoMeta THEN FirstPolicy ELSE chosen
    /\ lost' = lost

\* A conversation that is open is returned as it is; one that is stored must
\* have been created with the same settings, or the creation is refused.
Start(r) ==
    /\ LoopFree
    /\ table = 0
    /\ meta \in {NoMeta, Asked(r)}
    /\ meta' = Asked(r)
    /\ Build(Asked(r))
    /\ sending' = sending \cup {built + 1}
    /\ UNCHANGED <<chosen, lost>>

\* Mutant: a conversation that is open is built once more.
ResumeOpen ==
    /\ LoopFree
    /\ meta # NoMeta
    /\ Build(meta)
    /\ UNCHANGED <<meta, sending, chosen, lost>>

Resume ==
    /\ LoopFree
    /\ table = 0
    /\ meta # NoMeta
    /\ Build(meta)
    /\ UNCHANGED <<meta, sending, chosen, lost>>

-----------------------------------------------------------------------------
(* Runs.                                                                   *)

Queue(s) ==
    /\ run[s] = "none" /\ status[s] # "RUNNING"
    /\ calls < MaxCalls
    /\ calls' = calls + 1
    /\ run' = [run EXCEPT ![s] = "queued"]

\* The initial message of a creation, sent in a thread and then run; the
\* conversation may have been deleted meanwhile.
SendInitial(s) ==
    /\ LoopFree
    /\ s \in sending
    /\ sending' = sending \ {s}
    /\ \/ Queue(s)
       \/ run[s] # "none" /\ UNCHANGED <<run, calls>>
    /\ UNCHANGED <<process, table, built, diskVars, metaData, policy, used,
                   status, closing, setting, chosen, lost, deleted>>

Run ==
    /\ LoopFree
    /\ table # 0
    /\ Queue(table)
    /\ UNCHANGED <<process, table, built, diskVars, metaData, policy, used,
                   status, sending, closing, setting, chosen, lost,
                   deleted>>

\* What a step of a run or a call of the user leaves alone.
controlVars == <<process, table, built, meta, metaData, used, sending, closing>>

\* The status in memory changes, and the save of it begins.
SetStatus(s, by, st) ==
    /\ status' = [status EXCEPT ![s] = st]
    /\ BeginSave(s, by)
    /\ UNCHANGED snapshot

RunBegins(s) ==
    /\ run[s] = "queued"
    /\ run' = [run EXCEPT ![s] = "running"]
    /\ SetStatus(s, "run", "RUNNING")
    /\ UNCHANGED <<controlVars, policy, setting, calls, chosen, lost, deleted>>

\* Mutant: the state is dumped before the status is set.
RunEndsDumped(s) ==
    /\ run[s] = "running"
    /\ ~Saving(s, "run")
    /\ run' = [run EXCEPT ![s] = "ending"]
    /\ \E st \in Ends : status' = [status EXCEPT ![s] = st]
    /\ writing' = writing \cup {[Due(s, "run") EXCEPT !.dump = status[s]]}
    /\ overlapped' = (writing # {})
    /\ UNCHANGED <<snapshot, controlVars, policy, setting, calls, chosen,
                   lost, deleted>>

\* A step of the run ends it; a pause that came during the step is lost.
RunEnds(s) ==
    /\ run[s] = "running"
    /\ ~Saving(s, "run")
    /\ run' = [run EXCEPT ![s] = "ending"]
    /\ \E st \in Ends : SetStatus(s, "run", st)
    /\ UNCHANGED <<controlVars, policy, setting, calls, chosen, lost, deleted>>

\* The run has ended itself, or it finds that it was paused.
RunReturns(s) ==
    /\ \/ run[s] = "ending"
       \/ run[s] = "running" /\ status[s] # "RUNNING"
    /\ ~Saving(s, "run")
    /\ run' = [run EXCEPT ![s] = "none"]
    /\ UNCHANGED <<controlVars, policy, used, status, saveVars, setting,
                   calls, chosen, lost, deleted>>

\* A thread pauses the open conversation, under the lock of its state.
Pause ==
    /\ LoopFree
    /\ table # 0
    /\ ~StateLocked(table)
    /\ status[table] # "PAUSED"
    /\ calls < MaxCalls
    /\ calls' = calls + 1
    /\ SetStatus(table, "pause", "PAUSED")
    /\ UNCHANGED <<controlVars, policy, run, setting, chosen, lost,
                   deleted>>

-----------------------------------------------------------------------------
(* The user changes the policy: a thread sets it in the state, then the    *)
(* event loop in the settings, in memory only.                             *)

SetPolicy(p) ==
    /\ LoopFree
    /\ table # 0
    /\ calls < MaxCalls
    /\ calls' = calls + 1
    /\ ~StateLocked(table)
    /\ policy' = [policy EXCEPT ![table] = p]
    /\ \/ policy[table] # p /\ BeginSave(table, p)
       \/ policy[table] = p /\ UNCHANGED <<writing, overlapped>>
    /\ setting' = setting \cup {[service |-> table, policy |-> p]}
    /\ chosen' = p
    /\ lost' = (setting # {})
    /\ UNCHANGED <<controlVars, snapshot, status, run, deleted>>

SetPolicyReturns(w) ==
    /\ LoopFree
    /\ w \in setting
    /\ ~Saving(w.service, w.policy)
    /\ setting' = setting \ {w}
    /\ metaData' = [metaData EXCEPT ![w.service].policy = w.policy]
    /\ UNCHANGED <<process, table, built, diskVars, policy, used, status, run,
                   sending, closing, calls, chosen, lost, deleted>>

-----------------------------------------------------------------------------
(* Deleting the conversation and stopping the server.                      *)

\* What was set and is not stored is gone with the service.
Unstored == lost \/ (meta # NoMeta /\ chosen # meta.policy)

DeletePops ==
    /\ LoopFree
    /\ table # 0
    /\ table' = 0
    /\ closing' = closing \cup {table}
    /\ lost' = Unstored
    /\ deleted' = TRUE
    /\ UNCHANGED <<process, built, diskVars, serviceVars, sending, setting,
                   calls, chosen>>

\* Subscribers and tools are closed; the run and what is stored stay.
DeleteCloses(s) ==
    /\ LoopFree
    /\ s \in closing
    /\ closing' = closing \ {s}
    /\ UNCHANGED <<process, table, built, diskVars, serviceVars, sending,
                   setting, calls, chosen, lost, deleted>>

\* Requests are answered before the server stops.
Idle ==
    /\ sending = {} /\ closing = {} /\ setting = {}
    /\ \A w \in writing : w.by = "run"

\* Mutant: the settings are not stored at a stop.
StopForgets ==
    /\ LoopFree /\ Idle
    /\ process' = "stopping"
    /\ table' = 0
    /\ IF table = 0 THEN UNCHANGED <<writing, overlapped>>
                    ELSE BeginSave(table, "stop")
    /\ UNCHANGED <<built, meta, snapshot, serviceVars, sending, closing, setting,
                   calls, chosen, lost, deleted>>

\* __aexit__: the open services store their settings and save their state.
Stop ==
    /\ LoopFree /\ Idle
    /\ process' = "stopping"
    /\ table' = 0
    /\ \/ table = 0 /\ UNCHANGED diskVars
       \/ /\ table # 0
          /\ meta' = metaData[table]
          /\ BeginSave(table, "stop")
          /\ UNCHANGED snapshot
    /\ UNCHANGED <<built, serviceVars, sending, closing, setting, calls,
                   chosen, lost, deleted>>

Gone ==
    /\ run' = [s \in Services |-> "none"]
    /\ sending' = {}
    /\ closing' = {}
    /\ setting' = {}
    /\ writing' = {}
    /\ table' = 0
    /\ process' = "down"

\* The event loop has ended and its executor has no thread at work.
Exit ==
    /\ process = "stopping"
    /\ \A s \in Services : run[s] = "none"
    /\ writing = {}
    /\ Gone
    /\ UNCHANGED <<built, meta, snapshot, overlapped, metaData, policy, used,
                   status, calls, chosen, lost, deleted>>

Crash ==
    /\ process # "down"
    /\ Gone
    /\ lost' = Unstored
    /\ UNCHANGED <<built, meta, snapshot, overlapped, metaData, policy, used,
                   status, calls, chosen, deleted>>

Restart ==
    /\ process = "down"
    /\ process' = "serving"
    /\ UNCHANGED <<table, built, diskVars, serviceVars, sending, closing,
                   setting, calls, chosen, lost, deleted>>

Next ==
    \/ \E r \in Requests : Start(r)
    \/ Resume
    \/ \E s \in Services : SendInitial(s) \/ RunBegins(s)
                         \/ RunEnds(s) \/ RunReturns(s)
    \/ Run
    \/ Pause
    \/ \E w \in writing : Dump(w) \/ OpenFile(w) \/ Fill(w)
    \/ \E p \in Policies : SetPolicy(p)
    \/ \E w \in setting : SetPolicyReturns(w)
    \/ DeletePops
    \/ \E s \in Services : DeleteCloses(s)
    \/ Stop \/ Exit \/ Crash \/ Restart

Spec == Init /\ [][Next]_vars

-----------------------------------------------------------------------------
(* What must hold.                                                         *)

\* Types.  (ConversationService, EventService)
ConversationsTypeOK ==
    /\ process \in {"serving", "stopping", "down"}
    /\ built \in 0 .. MaxBuilds
    /\ table \in 0 .. built
    /\ meta \in Metas \cup {NoMeta}
    /\ snapshot \in Statuses \cup {"none", "empty", "garbled"}
    /\ writing \subseteq [service : 1 .. built, by : Causes,
                         dump : Statuses \cup {"due"}, open : BOOLEAN]
    /\ overlapped \in BOOLEAN
    /\ metaData \in [Services -> Metas \cup {NoMeta}]
    /\ policy \in [Services -> Policies]
    /\ used \in [Services -> Policies]
    /\ status \in [Services -> Statuses]
    /\ run \in [Services -> {"none", "queued", "running", "ending"}]
    /\ sending \subseteq 1 .. built
    /\ closing \subseteq 1 .. built
    /\ setting \subseteq [service : 1 .. built, policy : Policies]
    /\ calls \in 0 .. MaxCalls
    /\ chosen \in Policies
    /\ lost \in BOOLEAN /\ deleted \in BOOLEAN

\* An open conversation that says it is running has a run under way, however
\* the run before it ended: crash, stop, or a delete that let it go on and
\* store its status into the conversation restored since.  (start)
NoGhostRunning ==
    table # 0 /\ status[table] = "RUNNING" => run[table] = "running"

\* Two services run one conversation only if it was deleted, which stops no
\* run.  (resume_conversation, start_conversation, delete_conversation)
OneRunUnlessDeleted ==
    \A s, t \in Services :
        run[s] # "none" /\ run[t] # "none" => s = t \/ deleted

\* The open conversation has the policy its user set last, through any number
\* of stops and restarts, unless a crash, a delete or a second setting
\* overtook the storing of it.  (set_confirmation_policy, __aexit__)
PolicyKept == table # 0 /\ ~lost => policy[table] = chosen

\* Every service that is ever built for the conversation works with what it
\* was created with, never with another creation's.  (ConversationFactory)
FirstRequestKept ==
    \A s \in Services : s <= built => metaData[s].request = meta.request

\* When no save is under way the stored status is that of the open
\* conversation, and a crash now would leave it: through runs, pauses,
\* settings, restores and stops, unless a deleted service still stores into
\* it, or the last saves overlapped, which no lock prevents: then the file
\* may keep an older status or be unreadable.  (PersistenceConsumer.on_event)
StatusStored ==
    table # 0 /\ ~deleted /\ writing = {} /\ ~overlapped
        => snapshot = status[table]

\* "Set the confirmation policy for the conversation."
\* (sdk/conversation/base.py:166): a run of the open conversation that begins
\* asks for confirmation by the policy that was set last.
RunsUsePolicy ==
    [][\A s \in Services :
        s = table /\ run[s] = "queued" /\ run'[s] = "running"
            => used[s] = chosen]_vars
=============================================================================
