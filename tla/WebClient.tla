----------------------------- MODULE WebClient -----------------------------
(***************************************************************************)
(* The workspace page of the web client: which conversation it shows, the  *)
(* WebSocket it receives events from, and the events in its store.         *)
(*                                                                         *)
(* The user's clicks ask the app server for a conversation and the answers *)
(* come in any order.  Closing a socket only starts its end: the browser   *)
(* reports it later, when another socket may have taken its place, to a    *)
(* handler that shares its references with that other socket's.  A socket  *)
(* that is still connecting when it is closed ends uncleanly.              *)
(*                                                                         *)
(* The server resends the stored events and adds the new ones: of a        *)
(* connection this keeps that any stored event may arrive, in any order    *)
(* and more than once.  Status, confirmations and the historical page are  *)
(* left out.                                                               *)
(***************************************************************************)
EXTENDS Integers

CONSTANTS
    Convs,        \* conversations
    Sockets,      \* sockets; one the browser has reported closed is reused
    None,         \* no conversation, no socket
    MaxRetries,   \* VITE_WS_RECONNECT_MAX_RETRIES
    MaxClicks,    \* bound on the requests of the user
    MaxEvents     \* bound on the events of a conversation

ASSUME WebClientAssumption ==
    /\ None \notin Convs
    /\ None \notin Sockets
    /\ MaxRetries \in Nat
    /\ MaxClicks \in Nat
    /\ MaxEvents \in Nat

VARIABLES
    conversationRecord,  \* the conversation shown
    socketRef,           \* the socket made last
    readyState,          \* of each socket; "aborting" is one closed while it
                         \* connected, "broken" one that ended otherwise
                         \* than by intent
    access,              \* the conversation a socket was made for
    got,                 \* the events a socket has received
    reconnectTimer,      \* the conversation a retry is scheduled for
    reconnectAttempts,
    shouldReconnect,
    uiEvents,            \* the events in the store
    mounted,             \* the page is shown
    busy,                \* the composer is disabled
    selects,             \* getConversation calls under way
    opens,               \* openConversation calls under way
    clicks,
    log                  \* the number of events each conversation has stored

socketVars == <<socketRef, readyState, access, got>>
retryVars == <<reconnectTimer, reconnectAttempts, shouldReconnect>>
userVars == <<mounted, busy, selects, opens, clicks>>
vars == <<conversationRecord, socketVars, retryVars, uiEvents, userVars, log>>

Clicks == 1 .. MaxClicks
Events == 1 .. MaxEvents
Live(s) == readyState[s] \in {"connecting", "open"}

Init ==
    /\ conversationRecord = None
    /\ socketRef = None
    /\ readyState = [s \in Sockets |-> "closed"]
    /\ access = [s \in Sockets |-> None]
    /\ got = [s \in Sockets |-> {}]
    /\ reconnectTimer = None
    /\ reconnectAttempts = 0
    /\ shouldReconnect = FALSE
    /\ uiEvents = [c \in Convs |-> {}]
    /\ mounted = TRUE
    /\ busy = FALSE
    /\ selects = {}
    /\ opens = {}
    /\ clicks = 0
    /\ log = [c \in Convs |-> 0]

-----------------------------------------------------------------------------
\* What close() makes of a socket: nothing if it was closed before.
Closing(state) ==
    IF state = "connecting" THEN "aborting"
    ELSE IF state = "open" THEN "closing" ELSE state

\* Mutant: connect() closes only a socket that is open.
PrevClosedIfOpen ==
    [s \in Sockets |->
        IF s = socketRef /\ readyState[s] = "open" THEN "closing" ELSE readyState[s]]

\* The sockets after the last one made was closed.
PrevClosed ==
    [s \in Sockets |->
        IF s = socketRef THEN Closing(readyState[s]) ELSE readyState[s]]

\* Any scheduled retry is off, the last socket is closed, and a new one takes
\* its place.
Connect(c) ==
    \E s \in Sockets :
        /\ PrevClosed[s] \in {"closed", "broken"}
        /\ readyState' = [PrevClosed EXCEPT ![s] = "connecting"]
        /\ access' = [access EXCEPT ![s] = c]
        /\ got' = [got EXCEPT ![s] = {}]
        /\ socketRef' = s
        /\ reconnectTimer' = None
        /\ shouldReconnect' = TRUE

\* Mutant: setConversationRecord(null) does not clear the timer.
DisconnectKeepsTimer ==
    /\ readyState' = PrevClosed
    /\ shouldReconnect' = FALSE
    /\ UNCHANGED <<socketRef, access, got, reconnectTimer>>

\* The last socket is closed and nothing follows it; it remains the last one.
Disconnect ==
    /\ readyState' = PrevClosed
    /\ reconnectTimer' = None
    /\ shouldReconnect' = FALSE
    /\ UNCHANGED <<socketRef, access, got>>

\* setConversationRecord: c is the conversation to show, or None.
SetRecord(c) ==
    /\ conversationRecord' = c
    /\ reconnectAttempts' = 0
    /\ IF c = None THEN Disconnect ELSE Connect(c)

-----------------------------------------------------------------------------
(* The socket's events *)

Opened(s) ==
    /\ readyState[s] = "connecting"
    /\ readyState' = [readyState EXCEPT ![s] = "open"]
    /\ reconnectAttempts' = 0
    /\ UNCHANGED <<conversationRecord, socketRef, access, got, reconnectTimer,
                   shouldReconnect, uiEvents, userVars, log>>

\* An event arrives and is added to the store, unless it is there already.
Message(s, n) ==
    /\ readyState[s] = "open"
    /\ n \in 1 .. log[access[s]]
    /\ got' = [got EXCEPT ![s] = @ \cup {n}]
    /\ uiEvents' = [uiEvents EXCEPT ![access[s]] = @ \cup {n}]
    /\ UNCHANGED <<conversationRecord, socketRef, readyState, access, retryVars,
                   userVars, log>>

\* How a socket can end: by intent is a clean end with a code that asks for
\* no retry, and one that never was open has no clean end.
Ends(state) ==
    IF state \in {"connecting", "aborting"} THEN {"broken"}
    ELSE IF state \in {"open", "closing"} THEN {"closed", "broken"} ELSE {}

\* Mutant: The handler clears the timer before it looks at the reason.
RetryClearsFirst(s, end) ==
    IF ~shouldReconnect \/ end = "closed" \/ reconnectAttempts >= MaxRetries
      THEN /\ reconnectTimer' = None
           /\ UNCHANGED reconnectAttempts
      ELSE /\ reconnectAttempts' = reconnectAttempts + 1
           /\ reconnectTimer' = access[s]

\* A retry is scheduled for the conversation of the socket that ended.
Retry(s, end) ==
    IF ~shouldReconnect \/ end = "closed" \/ reconnectAttempts >= MaxRetries
      THEN UNCHANGED <<reconnectAttempts, reconnectTimer>>
      ELSE /\ reconnectAttempts' = reconnectAttempts + 1
           /\ reconnectTimer' = access[s]

\* The browser reports the end of a socket, whichever it is.
Ended(s, end) ==
    /\ end \in Ends(readyState[s])
    /\ readyState' = [readyState EXCEPT ![s] = end]
    /\ Retry(s, end)
    /\ UNCHANGED <<conversationRecord, socketRef, access, got, shouldReconnect,
                   uiEvents, userVars, log>>

Reconnect ==
    /\ reconnectTimer # None
    /\ Connect(reconnectTimer)
    /\ UNCHANGED <<conversationRecord, reconnectAttempts, uiEvents, userVars, log>>

-----------------------------------------------------------------------------
(* The user and the answers of the app server *)

Click ==
    /\ mounted
    /\ clicks < MaxClicks
    /\ clicks' = clicks + 1

ClearEvents == uiEvents' = [c \in Convs |-> {}]

\* handleSelectConversation, up to the call.
Select(c) ==
    /\ Click
    /\ ClearEvents
    /\ busy' = TRUE
    /\ selects' = selects \cup {<<clicks', c>>}
    /\ UNCHANGED <<conversationRecord, socketVars, retryVars, mounted, opens, log>>

\* Mutant: A selection that fails leaves the conversation that was shown.
SelectAnsweredStays(call) ==
    /\ \/ SetRecord(call[2])
       \/ UNCHANGED <<conversationRecord, socketVars, retryVars>>
    /\ selects' = selects \ {call}
    /\ busy' = FALSE
    /\ UNCHANGED <<uiEvents, mounted, opens, clicks, log>>

\* The answer: the conversation, or an error, which shows none.
SelectAnswered(call) ==
    /\ \/ SetRecord(call[2])
       \/ SetRecord(None)
    /\ selects' = selects \ {call}
    /\ busy' = FALSE
    /\ UNCHANGED <<uiEvents, mounted, opens, clicks, log>>

\* A first message: handleSendMessage without a conversation opens one.
Open ==
    /\ Click
    /\ ~busy
    /\ conversationRecord = None
    /\ ClearEvents
    /\ busy' = TRUE
    /\ opens' = opens \cup {clicks'}
    /\ UNCHANGED <<conversationRecord, socketVars, retryVars, mounted, selects, log>>

\* The answer: a conversation, an error in it, or neither that can be used.
OpenAnswered(call) ==
    /\ \/ \E c \in Convs \cup {None} : SetRecord(c)
       \/ UNCHANGED <<conversationRecord, socketVars, retryVars>>
    /\ opens' = opens \ {call}
    /\ busy' = FALSE
    /\ UNCHANGED <<uiEvents, mounted, selects, clicks, log>>

NewConversation ==
    /\ Click
    /\ ClearEvents
    /\ SetRecord(None)
    /\ UNCHANGED <<mounted, busy, selects, opens, log>>

\* A conversation stores an event.
Stores(c) ==
    /\ log[c] < MaxEvents
    /\ log' = [log EXCEPT ![c] = @ + 1]
    /\ UNCHANGED <<conversationRecord, socketVars, retryVars, uiEvents>>

\* A message goes to whatever the last socket is connected to.
Send ==
    /\ Click
    /\ ~busy
    /\ conversationRecord # None
    /\ readyState[socketRef] = "open"
    /\ Stores(access[socketRef])
    /\ UNCHANGED <<mounted, busy, selects, opens>>

\* The user goes to another page; the calls under way are not cancelled.
Leave ==
    /\ mounted
    /\ mounted' = FALSE
    /\ Disconnect
    /\ UNCHANGED <<conversationRecord, reconnectAttempts, uiEvents, busy, selects,
                   opens, clicks, log>>

Next ==
    \/ \E s \in Sockets :
        \/ Opened(s)
        \/ \E n \in Events : Message(s, n)
        \/ \E end \in {"closed", "broken"} : Ended(s, end)
    \/ Reconnect
    \/ \E c \in Convs : Select(c)
    \/ \E call \in selects : SelectAnswered(call)
    \/ Open
    \/ \E call \in opens : OpenAnswered(call)
    \/ NewConversation
    \/ Send
    \/ Leave
    \/ \E c \in Convs : Stores(c) /\ UNCHANGED userVars

Spec == Init /\ [][Next]_vars

-----------------------------------------------------------------------------
(* Properties *)

\* The types of the client's references, its store and the calls under way.
WebClientTypeOK ==
    /\ conversationRecord \in Convs \cup {None}
    /\ socketRef \in Sockets \cup {None}
    /\ readyState \in [Sockets -> {"connecting", "open", "aborting", "closing",
                                   "closed", "broken"}]
    /\ access \in [Sockets -> Convs \cup {None}]
    /\ got \in [Sockets -> SUBSET Events]
    /\ reconnectTimer \in Convs \cup {None}
    /\ reconnectAttempts \in 0 .. MaxRetries
    /\ shouldReconnect \in BOOLEAN
    /\ uiEvents \in [Convs -> SUBSET Events]
    /\ mounted \in BOOLEAN
    /\ busy \in BOOLEAN
    /\ selects \in SUBSET (Clicks \X Convs)
    /\ opens \in SUBSET Clicks
    /\ clicks \in 0 .. MaxClicks
    /\ log \in [Convs -> 0 .. MaxEvents]

\* Whatever ends late, is retried or answered out of order, the page never
\* has two sockets that can receive: only the last one made is not closed.
OneLiveSocket == \A s \in Sockets : Live(s) => s = socketRef

\* A page that shows no conversation has no socket, and no retry is scheduled
\* that would bring back the conversation the user has left.
LeftStaysLeft ==
    conversationRecord = None =>
        /\ reconnectTimer = None
        /\ \A s \in Sockets : ~Live(s)

\* The connection of a conversation that is shown is there, or a retry is
\* scheduled, or the retries are used up, or the server ended it by intent:
\* no late report of another socket cancels the retry of a broken one.
RetriedOrGivenUp ==
    mounted /\ conversationRecord # None =>
        \/ Live(socketRef)
        \/ reconnectTimer # None
        \/ reconnectAttempts = MaxRetries
        \/ readyState[socketRef] = "closed"

\* The store is cleared before a conversation is asked for, not when its
\* socket is made: still, unless a selection waits for its answer, no event
\* that the connected socket has received was cleared away.
NothingBlanked ==
    selects = {} /\ socketRef # None /\ Live(socketRef) =>
        got[socketRef] \subseteq uiEvents[access[socketRef]]

\* Comment of connect(): the socket it closes "does NOT trigger a reconnect
\* cycle", so a retry is only for the conversation shown.  It is not so.
RetriesWhatIsShown == reconnectTimer \in {None, conversationRecord}

\* The page shows no event of another conversation than the one chosen last.
\* It is not so: the old socket delivers while the call is under way.
ShowsOneConversation ==
    \A c \in Convs : uiEvents[c] # {} /\ selects = {} => c = conversationRecord

\* A page that was left has no socket.  It is not so: a call is answered late.
LeftPageIsQuiet == ~mounted => \A s \in Sockets : ~Live(s)

=============================================================================
