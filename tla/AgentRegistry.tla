---------------------------- MODULE AgentRegistry ----------------------------
(***************************************************************************)
(* The registry of agent servers.  A server writes its entry again and     *)
(* again (register_loop) and removes it when it stops; a write that runs   *)
(* on its thread at that time is not waited for and may land later.  The   *)
(* application server scans the entries, leaves out the expired ones and   *)
(* replaces its cache with the result.  Nobody removes the entry of a      *)
(* server that died: it only expires.  A server that is started again has  *)
(* a new id, so it is another member of Servers.                           *)
(***************************************************************************)
EXTENDS Integers, FiniteSets

CONSTANT Servers   \* the ids servers ever have

ASSUME RegistryAssumption == IsFiniteSet(Servers)

VARIABLES
    up,        \* off (not started yet), up, down
    writing,   \* the servers that stopped while a heartbeat was being written
    fresh,     \* the servers whose entry is there and has not expired
    scanning,  \* whether a scan runs
    found,     \* what it has found
    cache      \* _servers of the application server

registryVars == <<up, writing, fresh, scanning, found, cache>>

RegistryInit ==
    /\ up = [s \in Servers |-> "off"]
    /\ writing = {}
    /\ fresh = {}
    /\ scanning = FALSE
    /\ found = {}
    /\ cache = {}

-----------------------------------------------------------------------------
(* The agent servers.                                                      *)

StartServer(s) ==
    /\ up[s] = "off"
    /\ up' = [up EXCEPT ![s] = "up"]
    /\ UNCHANGED <<writing, fresh, scanning, found, cache>>

\* One round of register_loop.
Heartbeat(s) ==
    /\ up[s] = "up"
    /\ fresh' = fresh \cup {s}
    /\ UNCHANGED <<up, writing, scanning, found, cache>>

\* Mutant: the age of an entry is not looked at.
ExpireNever(s) == s \in fresh /\ UNCHANGED registryVars

\* The time-out passes since the last heartbeat (is_expired).
Expire(s) ==
    /\ s \in fresh
    /\ fresh' = fresh \ {s}
    /\ UNCHANGED <<up, writing, scanning, found, cache>>

\* A clean stop removes the entry before the loop is cancelled; it leaves a
\* write that has begun alone.
Deregister(s) ==
    /\ up[s] = "up"
    /\ up' = [up EXCEPT ![s] = "down"]
    /\ fresh' = fresh \ {s}
    /\ writing' \in {writing, writing \cup {s}}
    /\ UNCHANGED <<scanning, found, cache>>

\* That write lands.
WriteLands(s) ==
    /\ s \in writing
    /\ writing' = writing \ {s}
    /\ fresh' = fresh \cup {s}
    /\ UNCHANGED <<up, scanning, found, cache>>

\* The process dies: its entry stays.
ServerDies(s) ==
    /\ up[s] = "up"
    /\ up' = [up EXCEPT ![s] = "down"]
    /\ UNCHANGED <<writing, fresh, scanning, found, cache>>

-----------------------------------------------------------------------------
(* The application server.                                                 *)

\* A scan reads the entries on another thread,
Scan ==
    /\ ~scanning
    /\ scanning' = TRUE
    /\ found' = fresh
    /\ UNCHANGED <<up, writing, fresh, cache>>

\* and what it found replaces the cache when it is back.
StoreScan ==
    /\ scanning
    /\ scanning' = FALSE
    /\ cache' = found
    /\ found' = {}
    /\ UNCHANGED <<up, writing, fresh>>

\* The application server starts again with an empty cache.
ForgetServers ==
    /\ scanning' = FALSE
    /\ found' = {}
    /\ cache' = {}
    /\ UNCHANGED <<up, writing, fresh>>
=============================================================================
