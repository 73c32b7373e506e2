-------------------------- MODULE WebClientProofs --------------------------
(***************************************************************************)
(* Proofs about the web client, for any conversations, sockets, retries,   *)
(* clicks and events.                                                      *)
(***************************************************************************)
EXTENDS WebClient, TLAPS

\* A page that shows a conversation wants its connection, and one that shows
\* none does not.
Wanted ==
    /\ conversationRecord = None => ~shouldReconnect
    /\ mounted /\ conversationRecord # None => shouldReconnect

\* A page that shows a conversation has made a socket, for a conversation.
Made ==
    /\ conversationRecord # None => socketRef # None
    /\ \A s \in Sockets : readyState[s] \notin {"closed", "broken"} => access[s] # None
    /\ \A s \in Sockets : s = socketRef => access[s] # None

IInv ==
    /\ WebClientTypeOK
    /\ Wanted
    /\ Made
    /\ OneLiveSocket
    /\ LeftStaysLeft
    /\ RetriedOrGivenUp
    /\ NothingBlanked

-----------------------------------------------------------------------------
\* A closed socket is not live, and its state is still one of the states.
LEMMA PrevClosedIsClosed ==
    ASSUME WebClientTypeOK, OneLiveSocket
    PROVE  /\ PrevClosed \in [Sockets -> {"connecting", "open", "aborting",
                                          "closing", "closed", "broken"}]
           /\ \A s \in Sockets : PrevClosed[s] \notin {"connecting", "open"}
           /\ \A s \in Sockets :
                 PrevClosed[s] \notin {"closed", "broken"}
                    => readyState[s] \notin {"closed", "broken"}
BY DEF WebClientTypeOK, OneLiveSocket, Live, PrevClosed, Closing

\* What setConversationRecord leaves is a page that shows a conversation over
\* a socket that has received nothing, or none and nothing that could follow.
LEMMA ConnectKeeps ==
    ASSUME WebClientTypeOK, Made, OneLiveSocket, NEW c \in Convs, Connect(c)
    PROVE  /\ \E s \in Sockets : socketRef' = s
           /\ readyState' \in [Sockets -> {"connecting", "open", "aborting",
                                           "closing", "closed", "broken"}]
           /\ access' \in [Sockets -> Convs \cup {None}]
           /\ got' \in [Sockets -> SUBSET Events]
           /\ \A s \in Sockets : readyState'[s] \in {"connecting", "open"}
                                    <=> s = socketRef'
           /\ got'[socketRef'] = {}
           /\ reconnectTimer' = None
           /\ shouldReconnect' = TRUE
           /\ Made'
<1>1. PICK s \in Sockets :
        /\ readyState' = [PrevClosed EXCEPT ![s] = "connecting"]
        /\ access' = [access EXCEPT ![s] = c]
        /\ got' = [got EXCEPT ![s] = {}]
        /\ socketRef' = s
        /\ reconnectTimer' = None
        /\ shouldReconnect' = TRUE
    BY DEF Connect
<1>2. readyState' \in [Sockets -> {"connecting", "open", "aborting",
                                   "closing", "closed", "broken"}]
      /\ \A t \in Sockets : readyState'[t] \in {"connecting", "open"} <=> t = s
    BY <1>1, PrevClosedIsClosed
<1>3. access' \in [Sockets -> Convs \cup {None}] /\ got' \in [Sockets -> SUBSET Events]
      /\ got'[s] = {}
    BY <1>1 DEF WebClientTypeOK
<1>4. /\ s # None /\ c # None /\ access'[s] = c
      /\ \A t \in Sockets : t # s => access'[t] = access[t]
      /\ \A t \in Sockets : t # s => readyState'[t] = PrevClosed[t]
    BY <1>1, PrevClosedIsClosed, WebClientAssumption
       DEF WebClientAssumption, WebClientTypeOK
<1>5. Made'
    BY <1>1, <1>4, PrevClosedIsClosed DEF Made
<1> QED BY <1>1, <1>2, <1>3, <1>5

\* Disconnecting leaves no live socket and no retry.
LEMMA DisconnectKeeps ==
    ASSUME WebClientTypeOK, Made, OneLiveSocket, Disconnect
    PROVE  /\ UNCHANGED <<socketRef, access, got>>
           /\ readyState' \in [Sockets -> {"connecting", "open", "aborting",
                                           "closing", "closed", "broken"}]
           /\ \A s \in Sockets : readyState'[s] \notin {"connecting", "open"}
           /\ \A s \in Sockets : readyState'[s] \notin {"closed", "broken"}
                                    => access'[s] # None
           /\ reconnectTimer' = None
           /\ shouldReconnect' = FALSE
BY PrevClosedIsClosed DEF Disconnect, Made

\* After setConversationRecord every part of the invariant holds that does
\* not speak of the user's calls.
LEMMA SetRecordKeeps ==
    ASSUME IInv, NEW c \in Convs \cup {None}, SetRecord(c), UNCHANGED <<uiEvents, log>>
    PROVE  /\ conversationRecord' \in Convs \cup {None}
           /\ socketRef' \in Sockets \cup {None}
           /\ readyState' \in [Sockets -> {"connecting", "open", "aborting",
                                           "closing", "closed", "broken"}]
           /\ access' \in [Sockets -> Convs \cup {None}]
           /\ got' \in [Sockets -> SUBSET Events]
           /\ reconnectTimer' \in Convs \cup {None}
           /\ reconnectAttempts' \in 0 .. MaxRetries
           /\ shouldReconnect' \in BOOLEAN
           /\ Wanted'
           /\ Made'
           /\ OneLiveSocket'
           /\ LeftStaysLeft'
           /\ RetriedOrGivenUp'
           /\ NothingBlanked'
<1>1. 0 \in 0 .. MaxRetries
    BY WebClientAssumption DEF WebClientAssumption
<1>2. CASE c = None
  <2>1. Disconnect /\ conversationRecord' = None /\ reconnectAttempts' = 0
    BY <1>2 DEF SetRecord
  <2>2. WebClientTypeOK /\ Made /\ OneLiveSocket
    BY DEF IInv
  <2>3. /\ UNCHANGED <<socketRef, access, got>>
        /\ readyState' \in [Sockets -> {"connecting", "open", "aborting",
                                        "closing", "closed", "broken"}]
        /\ \A s \in Sockets : readyState'[s] \notin {"connecting", "open"}
        /\ \A s \in Sockets : readyState'[s] \notin {"closed", "broken"}
                                 => access'[s] # None
        /\ reconnectTimer' = None
        /\ shouldReconnect' = FALSE
    BY <2>1, <2>2, DisconnectKeeps
  <2>4. /\ socketRef' \in Sockets \cup {None}
        /\ access' \in [Sockets -> Convs \cup {None}]
        /\ got' \in [Sockets -> SUBSET Events]
    BY <2>2, <2>3 DEF WebClientTypeOK
  <2>5. Made' /\ Wanted'
    BY <2>1, <2>2, <2>3 DEF Made, Wanted
  <2>6. OneLiveSocket' /\ LeftStaysLeft' /\ RetriedOrGivenUp' /\ NothingBlanked'
    BY <2>1, <2>3, <2>4 DEF OneLiveSocket, LeftStaysLeft, RetriedOrGivenUp,
                            NothingBlanked, Live
  <2> QED BY <1>1, <2>1, <2>3, <2>4, <2>5, <2>6
<1>3. CASE c # None
  <2>1. Connect(c) /\ conversationRecord' = c /\ reconnectAttempts' = 0 /\ c \in Convs
    BY <1>3 DEF SetRecord
  <2>2. WebClientTypeOK /\ Made /\ OneLiveSocket
    BY DEF IInv
  <2>3. /\ \E s \in Sockets : socketRef' = s
        /\ readyState' \in [Sockets -> {"connecting", "open", "aborting",
                                        "closing", "closed", "broken"}]
        /\ access' \in [Sockets -> Convs \cup {None}]
        /\ got' \in [Sockets -> SUBSET Events]
        /\ \A s \in Sockets : readyState'[s] \in {"connecting", "open"}
                                 <=> s = socketRef'
        /\ got'[socketRef'] = {}
        /\ reconnectTimer' = None
        /\ shouldReconnect' = TRUE
        /\ Made'
    BY <2>1, <2>2, ConnectKeeps
  <2>4. Wanted'
    BY <1>3, <2>1, <2>3 DEF Wanted
  <2>5. OneLiveSocket' /\ LeftStaysLeft' /\ RetriedOrGivenUp' /\ NothingBlanked'
    BY <1>3, <2>1, <2>3 DEF OneLiveSocket, LeftStaysLeft, RetriedOrGivenUp,
                            NothingBlanked, Live
  <2> QED BY <1>1, <2>1, <2>3, <2>4, <2>5
<1> QED BY <1>2, <1>3

\* A click keeps the calls and the clicks typed.
LEMMA ClickTyped ==
    ASSUME WebClientTypeOK, Click
    PROVE  clicks' \in 0 .. MaxClicks /\ clicks' \in Clicks
BY WebClientAssumption DEF WebClientAssumption, WebClientTypeOK, Click, Clicks

\* The initial state.
LEMMA InitIInv == Init => IInv
<1> SUFFICES ASSUME Init PROVE IInv OBVIOUS
<1>1. /\ readyState \in [Sockets -> {"connecting", "open", "aborting", "closing",
                                    "closed", "broken"}]
      /\ access \in [Sockets -> Convs \cup {None}]
      /\ got \in [Sockets -> SUBSET Events]
      /\ uiEvents \in [Convs -> SUBSET Events]
    BY DEF Init
<1>2. /\ 0 \in 0 .. MaxRetries /\ 0 \in 0 .. MaxClicks /\ 0 \in 0 .. MaxEvents
    BY WebClientAssumption DEF WebClientAssumption
<1>3. log \in [Convs -> 0 .. MaxEvents]
    BY <1>2 DEF Init
<1>4. mounted \in BOOLEAN /\ busy \in BOOLEAN /\ shouldReconnect \in BOOLEAN
    BY DEF Init
<1>5. WebClientTypeOK
    BY <1>1, <1>2, <1>3, <1>4 DEF Init, WebClientTypeOK
<1>6. /\ conversationRecord = None /\ socketRef = None /\ reconnectTimer = None
      /\ shouldReconnect = FALSE
      /\ \A s \in Sockets : readyState[s] = "closed"
    BY DEF Init
<1>7. \A s \in Sockets : s # socketRef
    BY <1>6, WebClientAssumption DEF WebClientAssumption
<1>8. Wanted /\ RetriedOrGivenUp /\ NothingBlanked
    BY <1>6 DEF Wanted, RetriedOrGivenUp, NothingBlanked
<1>9. Made /\ OneLiveSocket /\ LeftStaysLeft
    BY <1>6, <1>7 DEF Made, OneLiveSocket, LeftStaysLeft, Live
<1> QED BY <1>5, <1>8, <1>9 DEF IInv

-----------------------------------------------------------------------------
\* A socket that opens was connecting, so it is the last one made.
LEMMA OpenedKeeps ==
    ASSUME IInv, NEW s \in Sockets, Opened(s)
    PROVE  IInv'
<1>1. /\ readyState[s] = "connecting"
      /\ readyState' = [readyState EXCEPT ![s] = "open"]
      /\ reconnectAttempts' = 0
      /\ UNCHANGED <<conversationRecord, socketRef, access, got, reconnectTimer,
                     shouldReconnect, uiEvents, mounted, busy, selects, opens,
                     clicks, log>>
    BY DEF Opened, userVars
<1>2. WebClientTypeOK'
    BY <1>1, WebClientAssumption DEF IInv, WebClientTypeOK, WebClientAssumption
<1>3. s = socketRef /\ readyState'[s] = "open"
      /\ \A t \in Sockets : t # s => readyState'[t] = readyState[t]
    BY <1>1 DEF IInv, OneLiveSocket, Live, WebClientTypeOK
<1>4. Wanted' /\ Made'
    BY <1>1, <1>3 DEF IInv, Wanted, Made
<1>5. OneLiveSocket' /\ LeftStaysLeft' /\ RetriedOrGivenUp' /\ NothingBlanked'
    BY <1>1, <1>3 DEF IInv, OneLiveSocket, LeftStaysLeft, RetriedOrGivenUp,
                      NothingBlanked, Live
<1> QED BY <1>2, <1>4, <1>5 DEF IInv

\* An event arrives over the last socket and is put into the store.
LEMMA MessageKeeps ==
    ASSUME IInv, NEW s \in Sockets, NEW n \in Events, Message(s, n)
    PROVE  IInv'
<1>1. /\ readyState[s] = "open"
      /\ got' = [got EXCEPT ![s] = @ \cup {n}]
      /\ uiEvents' = [uiEvents EXCEPT ![access[s]] = @ \cup {n}]
      /\ UNCHANGED <<conversationRecord, socketRef, readyState, access,
                     reconnectTimer, reconnectAttempts, shouldReconnect, mounted,
                     busy, selects, opens, clicks, log>>
    BY DEF Message, retryVars, userVars
<1>2. access[s] \in Convs /\ s = socketRef
    BY <1>1 DEF IInv, WebClientTypeOK, Made, OneLiveSocket, Live
<1>3. got' \in [Sockets -> SUBSET Events] /\ uiEvents' \in [Convs -> SUBSET Events]
      /\ got'[s] = got[s] \cup {n}
      /\ uiEvents'[access[s]] = uiEvents[access[s]] \cup {n}
    BY <1>1, <1>2 DEF IInv, WebClientTypeOK
<1>4. WebClientTypeOK'
    BY <1>1, <1>3 DEF IInv, WebClientTypeOK
<1>5. Wanted' /\ Made' /\ OneLiveSocket' /\ LeftStaysLeft' /\ RetriedOrGivenUp'
    BY <1>1 DEF IInv, Wanted, Made, OneLiveSocket, LeftStaysLeft, RetriedOrGivenUp, Live
<1>6. NothingBlanked'
    BY <1>1, <1>2, <1>3 DEF IInv, NothingBlanked, Live
<1> QED BY <1>4, <1>5, <1>6 DEF IInv

\* A socket ends: a retry that was scheduled stays, or another takes its place.
LEMMA EndedKeeps ==
    ASSUME IInv, NEW s \in Sockets, NEW end \in {"closed", "broken"}, Ended(s, end)
    PROVE  IInv'
<1>1. /\ readyState' = [readyState EXCEPT ![s] = end]
      /\ UNCHANGED <<conversationRecord, socketRef, access, got, shouldReconnect,
                     uiEvents, mounted, busy, selects, opens, clicks, log>>
      /\ readyState[s] \notin {"closed", "broken"}
    BY DEF Ended, Ends, userVars
<1>2. access[s] \in Convs /\ access[s] # None
    BY <1>1 DEF IInv, WebClientTypeOK, Made
<1>3. reconnectAttempts \in 0 .. MaxRetries /\ MaxRetries \in Nat
    BY WebClientAssumption DEF IInv, WebClientTypeOK, WebClientAssumption
<1>4. \/ /\ ~shouldReconnect \/ end = "closed" \/ reconnectAttempts = MaxRetries
         /\ reconnectAttempts' = reconnectAttempts
         /\ reconnectTimer' = reconnectTimer
      \/ /\ shouldReconnect
         /\ reconnectAttempts' \in 0 .. MaxRetries
         /\ reconnectTimer' = access[s]
    BY <1>3 DEF Ended, Retry
<1>5. readyState'[s] = end /\ \A t \in Sockets : t # s => readyState'[t] = readyState[t]
    BY <1>1 DEF IInv, WebClientTypeOK
<1>6. WebClientTypeOK'
  <2>1. readyState' \in [Sockets -> {"connecting", "open", "aborting", "closing",
                                     "closed", "broken"}]
    BY <1>1 DEF IInv, WebClientTypeOK
  <2>2. reconnectTimer' \in Convs \cup {None} /\ reconnectAttempts' \in 0 .. MaxRetries
    BY <1>2, <1>3, <1>4 DEF IInv, WebClientTypeOK
  <2> QED BY <1>1, <2>1, <2>2 DEF IInv, WebClientTypeOK
<1>7. Wanted' /\ Made' /\ OneLiveSocket' /\ NothingBlanked'
    BY <1>1, <1>5 DEF IInv, Wanted, Made, OneLiveSocket, NothingBlanked, Live
<1>8. LeftStaysLeft'
    BY <1>1, <1>4, <1>5 DEF IInv, LeftStaysLeft, Live, Wanted
<1>9. RetriedOrGivenUp'
  <2> SUFFICES ASSUME mounted', conversationRecord' # None, ~Live(socketRef)',
                      readyState'[socketRef'] # "closed"
               PROVE  reconnectTimer' # None \/ reconnectAttempts' = MaxRetries
    BY DEF RetriedOrGivenUp
  <2>1. mounted /\ conversationRecord # None /\ shouldReconnect /\ socketRef' = socketRef
    BY <1>1 DEF IInv, Wanted
  <2>2. CASE reconnectTimer' = access[s]
    BY <1>2, <2>2
  <2>3. CASE /\ end = "closed" \/ reconnectAttempts = MaxRetries
             /\ reconnectAttempts' = reconnectAttempts
             /\ reconnectTimer' = reconnectTimer
    <3>1. CASE reconnectAttempts = MaxRetries
      BY <2>3, <3>1
    <3>2. CASE end = "closed"
      <4>1. socketRef # s /\ socketRef \in Sockets
        BY <1>5, <2>1, <3>2 DEF IInv, Made, WebClientTypeOK
      <4>2. readyState'[socketRef] = readyState[socketRef]
        BY <1>5, <4>1
      <4> QED BY <2>1, <2>3, <4>2 DEF IInv, RetriedOrGivenUp, Live
    <3> QED BY <2>3, <3>1, <3>2
  <2> QED BY <1>4, <2>1, <2>2, <2>3
<1> QED BY <1>6, <1>7, <1>8, <1>9 DEF IInv

\* A retry makes a new socket; a page without a conversation has none scheduled.
LEMMA ReconnectKeeps ==
    ASSUME IInv, Reconnect
    PROVE  IInv'
<1>1. /\ reconnectTimer # None /\ Connect(reconnectTimer)
      /\ UNCHANGED <<conversationRecord, reconnectAttempts, uiEvents, mounted, busy,
                     selects, opens, clicks, log>>
    BY DEF Reconnect, userVars
<1>2. reconnectTimer \in Convs /\ conversationRecord # None
    BY <1>1 DEF IInv, WebClientTypeOK, LeftStaysLeft
<1>3. WebClientTypeOK /\ Made /\ OneLiveSocket
    BY DEF IInv
<1>4. /\ \E s \in Sockets : socketRef' = s
      /\ readyState' \in [Sockets -> {"connecting", "open", "aborting",
                                      "closing", "closed", "broken"}]
      /\ access' \in [Sockets -> Convs \cup {None}]
      /\ got' \in [Sockets -> SUBSET Events]
      /\ \A s \in Sockets : readyState'[s] \in {"connecting", "open"}
                               <=> s = socketRef'
      /\ got'[socketRef'] = {}
      /\ reconnectTimer' = None
      /\ shouldReconnect' = TRUE
      /\ Made'
    BY <1>1, <1>2, <1>3, ConnectKeeps
<1>5. WebClientTypeOK'
    BY <1>1, <1>3, <1>4 DEF WebClientTypeOK
<1>6. Wanted' /\ OneLiveSocket' /\ LeftStaysLeft' /\ RetriedOrGivenUp' /\ NothingBlanked'
    BY <1>1, <1>2, <1>4 DEF Wanted, OneLiveSocket, LeftStaysLeft, RetriedOrGivenUp,
                            NothingBlanked, Live
<1> QED BY <1>4, <1>5, <1>6 DEF IInv

-----------------------------------------------------------------------------
\* A selection clears the store and waits for its answer.
LEMMA SelectKeeps ==
    ASSUME IInv, NEW c \in Convs, Select(c)
    PROVE  IInv'
<1>1. /\ uiEvents' = [d \in Convs |-> {}]
      /\ busy' = TRUE
      /\ selects' = selects \cup {<<clicks', c>>}
      /\ UNCHANGED <<conversationRecord, socketRef, readyState, access, got,
                     reconnectTimer, reconnectAttempts, shouldReconnect, mounted,
                     opens, log>>
    BY DEF Select, ClearEvents, socketVars, retryVars
<1>2. clicks' \in 0 .. MaxClicks /\ clicks' \in Clicks
    BY ClickTyped DEF Select, IInv
<1>3. WebClientTypeOK'
    BY <1>1, <1>2 DEF IInv, WebClientTypeOK
<1>4. selects' # {}
    BY <1>1
<1>5. Wanted' /\ Made' /\ OneLiveSocket' /\ LeftStaysLeft' /\ RetriedOrGivenUp'
    BY <1>1 DEF IInv, Wanted, Made, OneLiveSocket, LeftStaysLeft, RetriedOrGivenUp, Live
<1>6. NothingBlanked'
    BY <1>4 DEF NothingBlanked
<1> QED BY <1>3, <1>5, <1>6 DEF IInv

\* An answer shows the conversation over a new socket, or none.
LEMMA SelectAnsweredKeeps ==
    ASSUME IInv, NEW call \in selects, SelectAnswered(call)
    PROVE  IInv'
<1>1. PICK c \in Convs \cup {None} : SetRecord(c)
    BY DEF SelectAnswered, IInv, WebClientTypeOK
<1>2. /\ selects' = selects \ {call}
      /\ busy' = FALSE
      /\ UNCHANGED <<uiEvents, mounted, opens, clicks, log>>
    BY DEF SelectAnswered
<1>3. /\ conversationRecord' \in Convs \cup {None}
      /\ socketRef' \in Sockets \cup {None}
      /\ readyState' \in [Sockets -> {"connecting", "open", "aborting",
                                      "closing", "closed", "broken"}]
      /\ access' \in [Sockets -> Convs \cup {None}]
      /\ got' \in [Sockets -> SUBSET Events]
      /\ reconnectTimer' \in Convs \cup {None}
      /\ reconnectAttempts' \in 0 .. MaxRetries
      /\ shouldReconnect' \in BOOLEAN
      /\ Wanted' /\ Made' /\ OneLiveSocket' /\ LeftStaysLeft'
      /\ RetriedOrGivenUp' /\ NothingBlanked'
    BY <1>1, <1>2, SetRecordKeeps
<1>4. WebClientTypeOK'
    BY <1>2, <1>3 DEF IInv, WebClientTypeOK
<1> QED BY <1>3, <1>4 DEF IInv

\* A page that opens a conversation shows none, so there is nothing to blank.
LEMMA OpenKeeps ==
    ASSUME IInv, Open
    PROVE  IInv'
<1>1. /\ uiEvents' = [d \in Convs |-> {}]
      /\ busy' = TRUE
      /\ opens' = opens \cup {clicks'}
      /\ conversationRecord = None
      /\ UNCHANGED <<conversationRecord, socketRef, readyState, access, got,
                     reconnectTimer, reconnectAttempts, shouldReconnect, mounted,
                     selects, log>>
    BY DEF Open, ClearEvents, socketVars, retryVars
<1>2. clicks' \in 0 .. MaxClicks /\ clicks' \in Clicks
    BY ClickTyped DEF Open, IInv
<1>3. WebClientTypeOK'
    BY <1>1, <1>2 DEF IInv, WebClientTypeOK
<1>4. Wanted' /\ Made' /\ OneLiveSocket' /\ LeftStaysLeft' /\ RetriedOrGivenUp'
    BY <1>1 DEF IInv, Wanted, Made, OneLiveSocket, LeftStaysLeft, RetriedOrGivenUp, Live
<1>5. NothingBlanked'
    BY <1>1, <1>3 DEF IInv, NothingBlanked, LeftStaysLeft, Live, WebClientTypeOK
<1> QED BY <1>3, <1>4, <1>5 DEF IInv

\* The answer to an opening shows a conversation, none, or changes nothing.
LEMMA OpenAnsweredKeeps ==
    ASSUME IInv, NEW call \in opens, OpenAnswered(call)
    PROVE  IInv'
<1>1. /\ opens' = opens \ {call}
      /\ busy' = FALSE
      /\ UNCHANGED <<uiEvents, mounted, selects, clicks, log>>
    BY DEF OpenAnswered
<1>2. CASE \E c \in Convs \cup {None} : SetRecord(c)
  <2>1. PICK c \in Convs \cup {None} : SetRecord(c)
    BY <1>2
  <2>2. /\ conversationRecord' \in Convs \cup {None}
        /\ socketRef' \in Sockets \cup {None}
        /\ readyState' \in [Sockets -> {"connecting", "open", "aborting",
                                        "closing", "closed", "broken"}]
        /\ access' \in [Sockets -> Convs \cup {None}]
        /\ got' \in [Sockets -> SUBSET Events]
        /\ reconnectTimer' \in Convs \cup {None}
        /\ reconnectAttempts' \in 0 .. MaxRetries
        /\ shouldReconnect' \in BOOLEAN
        /\ Wanted' /\ Made' /\ OneLiveSocket' /\ LeftStaysLeft'
        /\ RetriedOrGivenUp' /\ NothingBlanked'
    BY <1>1, <2>1, SetRecordKeeps
  <2>3. WebClientTypeOK'
    BY <1>1, <2>2 DEF IInv, WebClientTypeOK
  <2> QED BY <2>2, <2>3 DEF IInv
<1>3. CASE UNCHANGED <<conversationRecord, socketVars, retryVars>>
  <2>1. UNCHANGED <<conversationRecord, socketRef, readyState, access, got,
                    reconnectTimer, reconnectAttempts, shouldReconnect>>
    BY <1>3 DEF socketVars, retryVars
  <2>2. WebClientTypeOK'
    BY <1>1, <2>1 DEF IInv, WebClientTypeOK
  <2>3. Wanted' /\ Made' /\ OneLiveSocket' /\ LeftStaysLeft' /\ RetriedOrGivenUp'
        /\ NothingBlanked'
    BY <1>1, <2>1 DEF IInv, Wanted, Made, OneLiveSocket, LeftStaysLeft,
                      RetriedOrGivenUp, NothingBlanked, Live
  <2> QED BY <2>2, <2>3 DEF IInv
<1> QED BY <1>2, <1>3 DEF OpenAnswered

\* A new conversation starts from an empty page.
LEMMA NewConversationKeeps ==
    ASSUME IInv, NewConversation
    PROVE  IInv'
<1>1. /\ uiEvents' = [d \in Convs |-> {}]
      /\ UNCHANGED <<mounted, busy, selects, opens, log>>
      /\ SetRecord(None)
    BY DEF NewConversation, ClearEvents
<1>2. clicks' \in 0 .. MaxClicks
    BY ClickTyped DEF NewConversation, IInv
<1>3. Disconnect /\ conversationRecord' = None /\ reconnectAttempts' = 0
      /\ WebClientTypeOK /\ Made /\ OneLiveSocket
    BY <1>1 DEF SetRecord, IInv
<1>4. /\ UNCHANGED <<socketRef, access, got>>
      /\ readyState' \in [Sockets -> {"connecting", "open", "aborting",
                                      "closing", "closed", "broken"}]
      /\ \A s \in Sockets : readyState'[s] \notin {"connecting", "open"}
      /\ \A s \in Sockets : readyState'[s] \notin {"closed", "broken"}
                               => access'[s] # None
      /\ reconnectTimer' = None
      /\ shouldReconnect' = FALSE
    BY <1>3, DisconnectKeeps
<1>5. WebClientTypeOK'
  <2>1. 0 \in 0 .. MaxRetries
    BY WebClientAssumption DEF WebClientAssumption
  <2> QED BY <1>1, <1>2, <1>3, <1>4, <2>1 DEF WebClientTypeOK
<1>6. Made' /\ Wanted'
    BY <1>3, <1>4 DEF Made, Wanted
<1>7. OneLiveSocket' /\ LeftStaysLeft' /\ RetriedOrGivenUp' /\ NothingBlanked'
    BY <1>3, <1>4, <1>5 DEF OneLiveSocket, LeftStaysLeft, RetriedOrGivenUp,
                            NothingBlanked, Live, WebClientTypeOK
<1> QED BY <1>5, <1>6, <1>7 DEF IInv

\* The server stores an event, whoever caused it.
LEMMA StoresKeeps ==
    ASSUME IInv, NEW c \in Convs, Stores(c), clicks' \in 0 .. MaxClicks,
           UNCHANGED <<mounted, busy, selects, opens>>
    PROVE  IInv'
<1>1. UNCHANGED <<conversationRecord, socketRef, readyState, access, got,
                  reconnectTimer, reconnectAttempts, shouldReconnect, uiEvents>>
    BY DEF Stores, socketVars, retryVars
<1>2. log' \in [Convs -> 0 .. MaxEvents]
    BY WebClientAssumption DEF IInv, WebClientTypeOK, Stores, WebClientAssumption
<1>3. WebClientTypeOK'
    BY <1>1, <1>2 DEF IInv, WebClientTypeOK
<1>4. Wanted' /\ Made' /\ OneLiveSocket' /\ LeftStaysLeft' /\ RetriedOrGivenUp'
      /\ NothingBlanked'
    BY <1>1 DEF IInv, Wanted, Made, OneLiveSocket, LeftStaysLeft, RetriedOrGivenUp,
                NothingBlanked, Live
<1> QED BY <1>3, <1>4 DEF IInv

\* A page that is left closes its socket and keeps what it showed.
LEMMA LeaveKeeps ==
    ASSUME IInv, Leave
    PROVE  IInv'
<1>1. /\ mounted' = FALSE
      /\ Disconnect
      /\ UNCHANGED <<conversationRecord, reconnectAttempts, uiEvents, busy, selects,
                     opens, clicks, log>>
      /\ WebClientTypeOK /\ Made /\ OneLiveSocket
    BY DEF Leave, IInv
<1>2. /\ UNCHANGED <<socketRef, access, got>>
      /\ readyState' \in [Sockets -> {"connecting", "open", "aborting",
                                      "closing", "closed", "broken"}]
      /\ \A s \in Sockets : readyState'[s] \notin {"connecting", "open"}
      /\ \A s \in Sockets : readyState'[s] \notin {"closed", "broken"}
                               => access'[s] # None
      /\ reconnectTimer' = None
      /\ shouldReconnect' = FALSE
    BY <1>1, DisconnectKeeps
<1>3. WebClientTypeOK'
    BY <1>1, <1>2 DEF WebClientTypeOK
<1>4. Made' /\ Wanted'
    BY <1>1, <1>2 DEF Made, Wanted
<1>5. OneLiveSocket' /\ LeftStaysLeft' /\ RetriedOrGivenUp' /\ NothingBlanked'
    BY <1>1, <1>2, <1>3 DEF OneLiveSocket, LeftStaysLeft, RetriedOrGivenUp,
                            NothingBlanked, Live, WebClientTypeOK
<1> QED BY <1>3, <1>4, <1>5 DEF IInv

\* Every step keeps the invariant.
LEMMA NextKeeps == IInv /\ [Next]_vars => IInv'
<1> SUFFICES ASSUME IInv, [Next]_vars PROVE IInv' OBVIOUS
<1>1. ASSUME NEW s \in Sockets, Opened(s) PROVE IInv'
    BY <1>1, OpenedKeeps
<1>2. ASSUME NEW s \in Sockets, NEW n \in Events, Message(s, n) PROVE IInv'
    BY <1>2, MessageKeeps
<1>3. ASSUME NEW s \in Sockets, NEW end \in {"closed", "broken"}, Ended(s, end)
      PROVE  IInv'
    BY <1>3, EndedKeeps
<1>4. CASE Reconnect
    BY <1>4, ReconnectKeeps
<1>5. ASSUME NEW c \in Convs, Select(c) PROVE IInv'
    BY <1>5, SelectKeeps
<1>6. ASSUME NEW call \in selects, SelectAnswered(call) PROVE IInv'
    BY <1>6, SelectAnsweredKeeps
<1>7. CASE Open
    BY <1>7, OpenKeeps
<1>8. ASSUME NEW call \in opens, OpenAnswered(call) PROVE IInv'
    BY <1>8, OpenAnsweredKeeps
<1>9. CASE NewConversation
    BY <1>9, NewConversationKeeps
<1>10. CASE Send
  <2>1. Click /\ Stores(access[socketRef]) /\ UNCHANGED <<mounted, busy, selects, opens>>
        /\ conversationRecord # None /\ readyState[socketRef] = "open"
    BY <1>10 DEF Send
  <2>2. clicks' \in 0 .. MaxClicks
    BY <2>1, ClickTyped DEF IInv
  <2>3. access[socketRef] \in Convs
    BY <2>1 DEF IInv, Made, WebClientTypeOK
  <2> QED BY <2>1, <2>2, <2>3, StoresKeeps
<1>11. CASE Leave
    BY <1>11, LeaveKeeps
<1>12. ASSUME NEW c \in Convs, Stores(c), UNCHANGED userVars PROVE IInv'
  <2>1. UNCHANGED <<mounted, busy, selects, opens, clicks>>
    BY <1>12 DEF userVars
  <2>2. clicks' \in 0 .. MaxClicks
    BY <2>1 DEF IInv, WebClientTypeOK
  <2> QED BY <1>12, <2>1, <2>2, StoresKeeps
<1>13. CASE UNCHANGED vars
  <2>1. UNCHANGED <<conversationRecord, socketRef, readyState, access, got,
                    reconnectTimer, reconnectAttempts, shouldReconnect, uiEvents,
                    mounted, busy, selects, opens, clicks, log>>
    BY <1>13 DEF vars, socketVars, retryVars, userVars
  <2> QED BY <2>1 DEF IInv, WebClientTypeOK, Wanted, Made, OneLiveSocket,
                      LeftStaysLeft, RetriedOrGivenUp, NothingBlanked, Live
<1> QED BY <1>1, <1>2, <1>3, <1>4, <1>5, <1>6, <1>7, <1>8, <1>9, <1>10, <1>11,
           <1>12, <1>13 DEF Next

-----------------------------------------------------------------------------
\* The parts of the invariant hold together in every state the page reaches.
THEOREM WebClientInvariant == Spec => []IInv
BY InitIInv, NextKeeps, PTL DEF Spec

\* The references, the store and the calls under way keep their types.
THEOREM WebClientTyped == Spec => []WebClientTypeOK
<1>1. IInv => WebClientTypeOK BY DEF IInv
<1> QED BY <1>1, WebClientInvariant, PTL

\* Of any number of sockets, only the last one made can receive.
THEOREM OnlyOneLiveSocket == Spec => []OneLiveSocket
<1>1. IInv => OneLiveSocket BY DEF IInv
<1> QED BY <1>1, WebClientInvariant, PTL

\* A page without a conversation has no socket and no retry to come.
THEOREM NothingAfterLeaving == Spec => []LeftStaysLeft
<1>1. IInv => LeftStaysLeft BY DEF IInv
<1> QED BY <1>1, WebClientInvariant, PTL

\* A broken connection of the conversation shown is retried or given up.
THEOREM BrokenIsRetried == Spec => []RetriedOrGivenUp
<1>1. IInv => RetriedOrGivenUp BY DEF IInv
<1> QED BY <1>1, WebClientInvariant, PTL

\* What the connected socket received is in the store.
THEOREM ReceivedIsShown == Spec => []NothingBlanked
<1>1. IInv => NothingBlanked BY DEF IInv
<1> QED BY <1>1, WebClientInvariant, PTL
=============================================================================
