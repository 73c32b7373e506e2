------------------------ MODULE ConversationsProofs ------------------------
(***************************************************************************)
(* Proofs about one conversation of an agent server, for any requests,     *)
(* policies and numbers of builds, runs and calls.                      *)
(***************************************************************************)
EXTENDS Conversations, TLAPS

\* Types, with what the steps need beside them: only a serving process has a
\* table, the open service is the youngest, and every service has settings.
Typed ==
    /\ ConversationsTypeOK
    /\ process # "serving" => table = 0
    /\ process = "down" => setting = {} /\ writing = {}
    /\ \A w \in writing : w.open => w.dump # "due"
    /\ \A s \in Services : run[s] # "none" => s <= built /\ process # "down"
    /\ table \in {0, built}
    /\ built > 0 => meta # NoMeta
    /\ \A s \in Services : s <= built => metaData[s] # NoMeta

\* Only the open service runs, or the last one while the server stops.
Owner ==
    ~deleted =>
        \A s \in Services :
            run[s] # "none" \/ s \in sending =>
                \/ process = "serving" /\ s = table
                \/ process = "stopping" /\ s = built

\* A run that is ending is not RUNNING any more.
EndingInv == \A s \in Services : run[s] = "ending" => status[s] # "RUNNING"

\* A save that is alone: what it dumped is still so, and it wrote last.
Alone(w) ==
    /\ writing = {w}
    /\ w.dump \in {"due", status[w.service]}
    /\ w.open => snapshot = "empty"

\* Only the open service is saved, or the last one while the server stops;
\* and what is stored is in memory unless two saves overlapped.
SavedInv ==
    ~deleted =>
        /\ \A w \in writing :
              \/ process = "serving" /\ w.service = table
              \/ process = "stopping" /\ w.service = built
        /\ table # 0 /\ ~overlapped =>
              \/ writing = {} /\ snapshot = status[table]
              \/ \E w \in writing : Alone(w)

\* Where the policy that was set last is found.
Settled ==
    ~lost =>
        /\ table # 0 =>
            /\ policy[table] = chosen
            /\ \A w \in setting : w.service = table => w.policy = chosen
            /\ (\A w \in setting : w.service # table)
                    => metaData[table].policy = chosen
        /\ table = 0 /\ meta # NoMeta => meta.policy = chosen
        /\ meta = NoMeta => chosen = FirstPolicy

-----------------------------------------------------------------------------
\* What is loaded is a status of no run.
LEMMA LoadedTyped ==
    ASSUME Loadable
    PROVE  Loaded \in Statuses /\ Loaded # "RUNNING"
BY DEF Loaded, Loadable, Statuses, Ends

\* The saves of the services 1 .. n.
Saves(n) == [service : 1 .. n, by : Causes, dump : Statuses \cup {"due"},
             open : BOOLEAN]

\* A save that begins is one of them.
LEMMA BeginSaveTyped ==
    ASSUME NEW n \in Nat, NEW s \in 1 .. n, NEW by \in Causes,
           writing \subseteq Saves(n), BeginSave(s, by)
    PROVE  /\ writing' \subseteq Saves(n)
           /\ overlapped' \in BOOLEAN
<1>1. Due(s, by) \in Saves(n)
    BY DEF Due, Saves
<1> QED BY <1>1 DEF BeginSave

\* What a creation is asked with are settings.
LEMMA AskedTyped ==
    ASSUME NEW r \in Requests
    PROVE  Asked(r) \in Metas /\ Asked(r).request = r
           /\ Asked(r).policy = FirstPolicy /\ Asked(r) # NoMeta
BY ConversationsAssumption DEF Asked, Metas

\* The initial state has the types.
LEMMA InitTyped == Init => Typed
<1> SUFFICES ASSUME Init PROVE Typed OBVIOUS
<1>1. "IDLE" \in Statuses /\ "none" \in {"none", "queued", "running", "ending"}
      /\ MaxBuilds \in Nat /\ MaxCalls \in Nat
      /\ FirstPolicy \in Policies
    BY ConversationsAssumption DEF Statuses
<1>2. built = 0 /\ built \in 0 .. MaxBuilds /\ table \in 0 .. built
      /\ calls \in 0 .. MaxCalls
    BY <1>1 DEF Init
<1>3. ConversationsTypeOK
    BY <1>1, <1>2 DEF Init, ConversationsTypeOK
<1> QED BY <1>2, <1>3, ConversationsAssumption DEF Init, Typed, Services

\* Building a service keeps the types.
LEMMA BuildTyped ==
    ASSUME Typed, NEW m \in Metas, Build(m), process = "serving",
           meta' = m, sending' \subseteq 1 .. built + 1,
           chosen' \in Policies, lost' \in BOOLEAN
    PROVE  Typed'
<1> USE ConversationsAssumption
<1>1. built \in Nat /\ built + 1 \in Services /\ MaxBuilds \in Nat
    BY DEF Typed, ConversationsTypeOK, Build, Services
<1>2. m # NoMeta /\ m.policy \in Policies
    BY DEF Metas
<1>3. Loaded \in Statuses
    BY LoadedTyped DEF Build
<1>4. metaData' \in [Services -> Metas \cup {NoMeta}]
      /\ policy' \in [Services -> Policies] /\ used' \in [Services -> Policies]
      /\ status' \in [Services -> Statuses]
    BY <1>1, <1>2, <1>3 DEF Typed, ConversationsTypeOK, Build
<1>5. setting' \subseteq [service : 1 .. built', policy : Policies]
    BY <1>1 DEF Typed, ConversationsTypeOK, Build
<1>6. closing' \subseteq 1 .. built' /\ sending' \subseteq 1 .. built'
    BY <1>1 DEF Typed, ConversationsTypeOK, Build
<1>7. writing' \subseteq Saves(built') /\ overlapped' \in BOOLEAN
    <2>1. writing \subseteq Saves(built + 1)
        <3>1. \A w \in Saves(built) : w \in Saves(built + 1)
            BY <1>1 DEF Saves
        <3> QED BY <3>1 DEF Typed, ConversationsTypeOK, Saves
    <2>2. built + 1 \in Nat /\ built + 1 \in 1 .. built + 1 /\ "start" \in Causes
        BY <1>1 DEF Causes
    <2> HIDE DEF Saves
    <2>3. CASE BeginSave(built + 1, "start")
        BY <2>1, <2>2, <2>3, BeginSaveTyped DEF Build
    <2>4. CASE ~BeginSave(built + 1, "start")
        BY <2>1, <2>4 DEF Build
    <2> QED BY <2>3, <2>4
<1>8. ConversationsTypeOK'
    <2>1. built' \in 0 .. MaxBuilds /\ table' \in 0 .. built'
        BY <1>1 DEF Build, Services
    <2>2. meta' \in Metas \cup {NoMeta}
          /\ snapshot' \in Statuses \cup {"none", "empty", "garbled"}
        BY DEF Build, Typed, ConversationsTypeOK
    <2>3. /\ process' = process /\ run' = run /\ calls' = calls
          /\ deleted' = deleted
        BY DEF Build
    <2> QED BY <1>4, <1>5, <1>6, <1>7, <2>1, <2>2, <2>3
            DEF Typed, ConversationsTypeOK, Saves
<1>9. \A s \in Services : s <= built' => metaData'[s] # NoMeta
    BY <1>1, <1>2 DEF Typed, ConversationsTypeOK, Build, Services
<1>10. \A w \in writing' : w.open => w.dump # "due"
    BY DEF Build, BeginSave, Due, Typed
<1>11. \A s \in Services : run'[s] # "none" => s <= built' /\ process' # "down"
    BY <1>1 DEF Build, Typed, Services
<1>12. process' = "serving" /\ table' = built' /\ meta' # NoMeta
    BY <1>2 DEF Build
<1> QED BY <1>8, <1>9, <1>10, <1>11, <1>12 DEF Typed

\* A step that changes the status of a service, or the policy, and begins a save.
LEMMA SavingStepTyped ==
    ASSUME Typed, NEW s \in 1 .. built, NEW by \in Causes,
           \/ BeginSave(s, by) \/ UNCHANGED <<writing, overlapped>>,
           status' \in [Services -> Statuses],
           policy' \in [Services -> Policies],
           run' \in [Services -> {"none", "queued", "running", "ending"}],
           setting' \subseteq [service : 1 .. built, policy : Policies],
           process # "down",
           \A x \in Services : run'[x] # "none" => x <= built,
           calls' \in 0 .. MaxCalls, chosen' \in Policies, lost' \in BOOLEAN,
           UNCHANGED <<controlVars, snapshot, deleted>>
    PROVE  Typed'
<1>1. built \in Nat /\ writing \subseteq Saves(built)
    BY ConversationsAssumption DEF Typed, ConversationsTypeOK, Saves
<1>2. writing' \subseteq Saves(built) /\ overlapped' \in BOOLEAN
    <2> HIDE DEF Saves
    <2> QED BY <1>1, BeginSaveTyped DEF Typed, ConversationsTypeOK
<1>3. \A w \in writing' : w.open => w.dump # "due"
    BY DEF BeginSave, Due, Typed
<1>4. ConversationsTypeOK'
    BY <1>2 DEF Typed, ConversationsTypeOK, controlVars, Saves
<1>5. \A x \in Services : run'[x] # "none" => x <= built' /\ process' # "down"
    BY DEF controlVars
<1> QED BY <1>3, <1>4, <1>5 DEF Typed, controlVars

\* A step of a save keeps the types.
LEMMA SaveTyped ==
    ASSUME Typed, NEW w \in writing, Dump(w) \/ OpenFile(w) \/ Fill(w)
    PROVE  Typed'
<1> USE ConversationsAssumption
<1>1. /\ w.service \in 1 .. built /\ w.by \in Causes
      /\ w.dump \in Statuses \cup {"due"} /\ w.open \in BOOLEAN
      /\ w \in Saves(built)
      /\ status[w.service] \in Statuses
      /\ process # "down"
      /\ w.open => w.dump \in Statuses
    BY DEF Typed, ConversationsTypeOK, Saves, Services
<1>2. /\ [w EXCEPT !.dump = status[w.service]] \in Saves(built)
      /\ [w EXCEPT !.open = TRUE] \in Saves(built)
      /\ Due(w.service, w.by) \in Saves(built)
    BY <1>1 DEF Saves, Due
<1>3. writing \subseteq Saves(built)
    BY DEF Typed, ConversationsTypeOK, Saves
<1>4. writing' \subseteq Saves(built)
    BY <1>2, <1>3 DEF Dump, OpenFile, Fill
<1>5. snapshot' \in Statuses \cup {"none", "empty", "garbled"}
    <2>1. CASE Dump(w) BY <2>1 DEF Dump, Typed, ConversationsTypeOK
    <2>2. CASE OpenFile(w) BY <2>2 DEF OpenFile
    <2>3. CASE Fill(w)
        BY <1>1, <2>3 DEF Fill
    <2> QED BY <2>1, <2>2, <2>3
<1>6. UNCHANGED <<unsavedVars, overlapped>>
    BY DEF Dump, OpenFile, Fill
<1>7. \A v \in writing' : v.open => v.dump # "due"
    <2>1. \A v \in writing : v.open => v.dump # "due"
        BY DEF Typed
    <2>2. "due" \notin Statuses
        BY DEF Statuses, Ends
    <2>3. CASE Dump(w)
        <3>1. [w EXCEPT !.dump = status[w.service]].dump # "due"
            BY <1>1, <2>2 DEF Saves
        <3> QED BY <2>1, <2>3, <3>1 DEF Dump
    <2>4. CASE OpenFile(w)
        <3>1. [w EXCEPT !.open = TRUE].dump # "due"
            BY <1>1, <2>4 DEF OpenFile, Saves
        <3> QED BY <2>1, <2>4, <3>1 DEF OpenFile
    <2>5. CASE Fill(w)
        BY <2>1, <2>5 DEF Fill, Due
    <2> QED BY <2>3, <2>4, <2>5
<1> QED BY <1>1, <1>4, <1>5, <1>6, <1>7
        DEF Typed, ConversationsTypeOK, unsavedVars, serviceVars, Saves

\* Every step keeps the types.
LEMMA NextTyped == Typed /\ [Next]_vars => Typed'
<1> SUFFICES ASSUME Typed, [Next]_vars PROVE Typed' OBVIOUS
<1> USE ConversationsAssumption
<1>0. built \in Nat /\ MaxBuilds \in Nat /\ built <= MaxBuilds
      /\ \A s \in 1 .. built : s \in Services
    BY DEF Typed, ConversationsTypeOK, Services
<1>1. ASSUME NEW r \in Requests, Start(r) PROVE Typed'
    <2>1. sending' \subseteq 1 .. built + 1
        BY <1>0, <1>1 DEF Start, Typed, ConversationsTypeOK
    <2> QED BY <1>1, <2>1, AskedTyped, BuildTyped
            DEF Start, LoopFree, Typed, ConversationsTypeOK
<1>2. CASE Resume
    <2>1. sending' \subseteq 1 .. built + 1
        BY <1>0, <1>2 DEF Resume, Typed, ConversationsTypeOK
    <2>2. meta \in Metas
        BY <1>2 DEF Resume, Typed, ConversationsTypeOK
    <2> QED BY <1>2, <2>1, <2>2, BuildTyped
            DEF Resume, LoopFree, Typed, ConversationsTypeOK
<1>3. ASSUME NEW s \in Services, SendInitial(s) PROVE Typed'
    <2>a. s \in sending /\ process = "serving"
        BY <1>3 DEF SendInitial, LoopFree
    <2>b. s \in 1 .. built
        BY <2>a DEF Typed, ConversationsTypeOK
    <2>1. s <= built /\ process = "serving"
        BY <1>0, <2>a, <2>b
    <2>c. run' \in [Services -> {"none", "queued", "running", "ending"}]
        BY <1>3 DEF SendInitial, Queue, Typed, ConversationsTypeOK
    <2>d. calls' \in 0 .. MaxCalls
        BY <1>3 DEF SendInitial, Queue, Typed, ConversationsTypeOK
    <2>2. ConversationsTypeOK'
        BY <1>3, <2>c, <2>d
           DEF SendInitial, Typed, ConversationsTypeOK, diskVars, saveVars
    <2>3. \A x \in Services : run'[x] # "none" => run[x] # "none" \/ x = s
        BY <1>3 DEF SendInitial, Queue, Typed, ConversationsTypeOK
    <2> QED BY <1>3, <2>1, <2>2, <2>3 DEF SendInitial, Typed, diskVars, saveVars
<1>4. ASSUME NEW s \in Services, RunBegins(s) PROVE Typed'
    <2>1. s \in 1 .. built
        BY <1>4, <1>0 DEF RunBegins, Typed, Services
    <2>2. "run" \in Causes /\ "RUNNING" \in Statuses /\ process # "down"
        BY <1>4 DEF Causes, Statuses, RunBegins, Typed
    <2>3. status' \in [Services -> Statuses]
          /\ run' \in [Services -> {"none", "queued", "running", "ending"}]
          /\ \A x \in Services : run'[x] # "none" => run[x] # "none"
        BY <1>4, <2>2 DEF RunBegins, SetStatus, Typed, ConversationsTypeOK
    <2>4. BeginSave(s, "run")
          /\ UNCHANGED <<controlVars, snapshot, policy, setting, calls, chosen,
                         lost, deleted>>
        BY <1>4 DEF RunBegins, SetStatus
    <2> QED BY <2>1, <2>2, <2>3, <2>4, SavingStepTyped
            DEF Typed, ConversationsTypeOK, controlVars
<1>5. ASSUME NEW s \in Services, RunEnds(s) PROVE Typed'
    <2>1. s \in 1 .. built
        BY <1>5, <1>0 DEF RunEnds, Typed, Services
    <2>2. "run" \in Causes /\ Ends \subseteq Statuses /\ process # "down"
        BY <1>5 DEF Causes, Statuses, RunEnds, Typed
    <2>3. status' \in [Services -> Statuses]
          /\ run' \in [Services -> {"none", "queued", "running", "ending"}]
          /\ \A x \in Services : run'[x] # "none" => run[x] # "none"
        BY <1>5, <2>2 DEF RunEnds, SetStatus, Typed, ConversationsTypeOK
    <2>4. BeginSave(s, "run")
          /\ UNCHANGED <<controlVars, snapshot, policy, setting, calls, chosen,
                         lost, deleted>>
        BY <1>5 DEF RunEnds, SetStatus
    <2> QED BY <2>1, <2>2, <2>3, <2>4, SavingStepTyped
            DEF Typed, ConversationsTypeOK, controlVars
<1>6. ASSUME NEW s \in Services, RunReturns(s) PROVE Typed'
    BY <1>6 DEF RunReturns, Typed, ConversationsTypeOK, controlVars, saveVars
<1>7. CASE Run
    <2>1. table \in Services
        BY <1>0, <1>7 DEF Run, Typed, ConversationsTypeOK
    <2>2. ConversationsTypeOK'
        BY <1>7, <2>1 DEF Run, Queue, Typed, ConversationsTypeOK, diskVars, saveVars
    <2>3. \A x \in Services : run'[x] # "none" => run[x] # "none" \/ x = table
        BY <1>7, <2>1 DEF Run, Queue, Typed, ConversationsTypeOK
    <2>4. table <= built /\ process = "serving"
        BY <1>0, <1>7 DEF Run, LoopFree, Typed, ConversationsTypeOK
    <2> QED BY <1>7, <2>2, <2>3, <2>4 DEF Run, Typed, diskVars, saveVars
<1>8. CASE Pause
    <2>1. table \in 1 .. built /\ table \in Services
        BY <1>0, <1>8 DEF Pause, Typed, ConversationsTypeOK
    <2>2. "pause" \in Causes /\ "PAUSED" \in Statuses /\ process = "serving"
          /\ calls' \in 0 .. MaxCalls
        BY <1>8 DEF Causes, Statuses, Pause, LoopFree, Typed, ConversationsTypeOK
    <2>3. status' \in [Services -> Statuses]
        BY <1>8, <2>1, <2>2 DEF Pause, SetStatus, Typed, ConversationsTypeOK
    <2>4. BeginSave(table, "pause")
          /\ UNCHANGED <<controlVars, snapshot, policy, run, setting, chosen,
                         lost, deleted>>
        BY <1>8 DEF Pause, SetStatus
    <2> QED BY <2>1, <2>2, <2>3, <2>4, SavingStepTyped
            DEF Typed, ConversationsTypeOK, controlVars
<1>9. ASSUME NEW p \in Policies, SetPolicy(p) PROVE Typed'
    <2>1. table \in 1 .. built /\ p \in Causes
        BY <1>0, <1>9 DEF SetPolicy, Typed, ConversationsTypeOK, Causes
    <2>2. setting' \subseteq [service : 1 .. built, policy : Policies]
        BY <1>9, <2>1 DEF SetPolicy, Typed, ConversationsTypeOK
    <2>3. policy' \in [Services -> Policies] /\ calls' \in 0 .. MaxCalls
          /\ chosen' \in Policies /\ lost' \in BOOLEAN /\ process # "down"
        BY <1>0, <1>9, <2>1 DEF SetPolicy, LoopFree, Typed, ConversationsTypeOK
    <2>4. BeginSave(table, p) \/ UNCHANGED <<writing, overlapped>>
        BY <1>9 DEF SetPolicy
    <2>5. UNCHANGED <<controlVars, snapshot, status, run, deleted>>
        BY <1>9 DEF SetPolicy
    <2> QED BY <2>1, <2>2, <2>3, <2>4, <2>5, SavingStepTyped
            DEF Typed, ConversationsTypeOK, controlVars
<1>10. ASSUME NEW w \in setting, SetPolicyReturns(w) PROVE Typed'
    <2>1. w.service \in 1 .. built /\ w.policy \in Policies
        BY DEF Typed, ConversationsTypeOK
    <2>2. metaData[w.service] \in Metas
        BY <1>0, <2>1 DEF Typed, ConversationsTypeOK
    <2>3. [metaData[w.service] EXCEPT !.policy = w.policy] \in Metas
        BY <2>1, <2>2 DEF Metas
    <2>4. metaData' \in [Services -> Metas \cup {NoMeta}]
        BY <1>10, <2>3 DEF SetPolicyReturns, Typed, ConversationsTypeOK
    <2>5. \A s \in Services : s <= built' => metaData'[s] # NoMeta
        BY <1>10, <2>3 DEF SetPolicyReturns, Typed, ConversationsTypeOK, Metas
    <2> QED BY <1>10, <2>4, <2>5 DEF SetPolicyReturns, Typed,
                                     ConversationsTypeOK, diskVars, saveVars
<1>11. CASE DeletePops
    <2>1. table \in 1 .. built
        BY <1>0, <1>11 DEF DeletePops, Typed, ConversationsTypeOK
    <2> QED BY <1>11, <2>1 DEF DeletePops, LoopFree, Unstored, Typed,
                               ConversationsTypeOK, diskVars, saveVars, serviceVars
<1>12. ASSUME NEW s \in Services, DeleteCloses(s) PROVE Typed'
    BY <1>12 DEF DeleteCloses, Typed, ConversationsTypeOK, diskVars, saveVars,
                 serviceVars
<1>13. CASE Stop
    <2>1. table # 0 => metaData[table] \in Metas /\ metaData[table] # NoMeta
                       /\ table \in 1 .. built
        BY <1>0 DEF Typed, ConversationsTypeOK
    <2>2. writing' \subseteq Saves(built) /\ overlapped' \in BOOLEAN
        <3>1. writing \subseteq Saves(built) /\ "stop" \in Causes
            BY DEF Typed, ConversationsTypeOK, Saves, Causes
        <3> HIDE DEF Saves
        <3>2. CASE table = 0
            BY <1>13, <3>1, <3>2 DEF Stop, diskVars, saveVars, Typed,
                                     ConversationsTypeOK
        <3>3. CASE table # 0
            BY <1>0, <1>13, <2>1, <3>1, <3>3, BeginSaveTyped DEF Stop
        <3> QED BY <3>2, <3>3
    <2>3. \A w \in writing' : w.open => w.dump # "due"
        BY <1>13 DEF Stop, diskVars, saveVars, BeginSave, Due, Typed
    <2> QED BY <1>13, <2>1, <2>2, <2>3
            DEF Stop, Saves, Typed, ConversationsTypeOK, serviceVars, diskVars,
                saveVars
<1>14. CASE Exit
    BY <1>14 DEF Exit, Gone, Typed, ConversationsTypeOK
<1>15. CASE Crash
    BY <1>15 DEF Crash, Gone, Unstored, Typed, ConversationsTypeOK
<1>16. CASE Restart
    BY <1>16 DEF Restart, Typed, ConversationsTypeOK, diskVars, saveVars,
                 serviceVars
<1>17. ASSUME NEW w \in writing, Dump(w) \/ OpenFile(w) \/ Fill(w) PROVE Typed'
    BY <1>17, SaveTyped
<1>18. CASE UNCHANGED vars
    BY <1>18 DEF vars, Typed, ConversationsTypeOK, diskVars, saveVars, serviceVars
<1> QED BY <1>1, <1>2, <1>3, <1>4, <1>5, <1>6, <1>7, <1>8, <1>9, <1>10, <1>11,
           <1>12, <1>13, <1>14, <1>15, <1>16, <1>17, <1>18 DEF Next


\* The process, the table and everything else keep their types.
THEOREM ConversationsTyped == Spec => []ConversationsTypeOK
<1>1. Typed => ConversationsTypeOK BY DEF Typed
<1> QED BY <1>1, InitTyped, NextTyped, PTL DEF Spec

-----------------------------------------------------------------------------
(* Who runs.                                                               *)

RunInv == NoGhostRunning /\ Owner /\ EndingInv /\ SavedInv

\* Nothing runs at first.
LEMMA InitRun == Init => RunInv
BY DEF Init, RunInv, NoGhostRunning, Owner, EndingInv, SavedInv

\* A save that begins is the only one, or overlaps another.
LEMMA BeginSaveAlone ==
    ASSUME NEW s, NEW by, BeginSave(s, by), ~overlapped'
    PROVE  Alone(Due(s, by))' /\ Due(s, by) \in writing'
BY DEF BeginSave, Due, Alone

\* A save that begins belongs to the service that may be saved.
LEMMA BeginSaveKeeps ==
    ASSUME SavedInv, NEW s, NEW by, BeginSave(s, by),
           UNCHANGED <<process, table, built, deleted>>,
           ~deleted => \/ process = "serving" /\ s = table
                       \/ process = "stopping" /\ s = built
    PROVE  SavedInv'
<1>1. SUFFICES ASSUME ~deleted PROVE SavedInv'
    BY DEF SavedInv
<1>2. \A w \in writing' : w \in writing \/ w.service = s
    BY DEF BeginSave, Due
<1>3. ~overlapped' => \E w \in writing' : Alone(w)'
    BY BeginSaveAlone
<1> QED BY <1>1, <1>2, <1>3 DEF SavedInv

\* A step of a save keeps what is said of the saves.
LEMMA SaveKeeps ==
    ASSUME Typed, SavedInv, NEW w \in writing, Dump(w) \/ OpenFile(w) \/ Fill(w)
    PROVE  SavedInv'
<1>1. SUFFICES ASSUME ~deleted PROVE SavedInv'
    BY DEF SavedInv, Dump, OpenFile, Fill, unsavedVars
<1>2. UNCHANGED <<process, table, built, deleted, overlapped, status>>
    BY DEF Dump, OpenFile, Fill, unsavedVars, serviceVars
<1>3. w \in [service : 1 .. built, by : Causes, dump : Statuses \cup {"due"},
             open : BOOLEAN]
      /\ (w.open => w.dump # "due")
    BY DEF Typed, ConversationsTypeOK
<1> DEFINE dumped == [w EXCEPT !.dump = status[w.service]]
           opened == [w EXCEPT !.open = TRUE]
           again == Due(w.service, w.by)
<1>4. /\ dumped.service = w.service /\ dumped.dump = status[w.service]
      /\ dumped.open = w.open
      /\ opened.service = w.service /\ opened.dump = w.dump /\ opened.open
      /\ again.service = w.service /\ again.dump = "due" /\ ~again.open
    BY <1>3 DEF Due
<1>5. \A v \in writing' : v \in writing \/ v.service = w.service
    BY <1>4 DEF Dump, OpenFile, Fill
<1>6. ASSUME NEW v \in writing, Alone(v)
      PROVE  \/ writing' = {} /\ snapshot' = status[w.service]
             \/ \E u \in writing' : Alone(u)'
    <2>1. v = w /\ writing = {w} /\ w.dump \in {"due", status[w.service]}
          /\ (w.open => snapshot = "empty")
        BY <1>6 DEF Alone
    <2> HIDE DEF dumped, opened, again
    <2>2. CASE Dump(w)
        <3>1. writing' = {dumped} /\ w.dump = "due" /\ snapshot' = snapshot
            BY <2>1, <2>2 DEF Dump, dumped
        <3> QED BY <1>2, <1>3, <1>4, <2>1, <3>1 DEF Alone
    <2>3. CASE OpenFile(w)
        <3>1. writing' = {opened} /\ snapshot' = "empty"
            BY <2>1, <2>3 DEF OpenFile, opened
        <3> QED BY <1>2, <1>4, <2>1, <3>1 DEF Alone
    <2>4. CASE Fill(w)
        <3>1. snapshot' = w.dump /\ w.dump = status[w.service]
            BY <1>3, <2>1, <2>4 DEF Fill
        <3>2. writing' = {} \/ writing' = {again}
            BY <2>1, <2>4 DEF Fill, again
        <3> QED BY <1>2, <1>4, <3>1, <3>2 DEF Alone
    <2> QED BY <2>2, <2>3, <2>4
<1>7. table # 0 => w.service = table
    BY <1>1 DEF SavedInv, Typed
<1> QED BY <1>1, <1>2, <1>5, <1>6, <1>7 DEF SavedInv

\* Every step keeps who runs.
LEMMA NextRun == Typed /\ RunInv /\ [Next]_vars => RunInv'
<1> SUFFICES ASSUME Typed, RunInv, [Next]_vars PROVE RunInv' OBVIOUS
<1> USE ConversationsAssumption DEF RunInv, NoGhostRunning, Owner, EndingInv
<1>0a. /\ \A w \in writing : w.service \in 1 .. built
       /\ \A s \in sending : s \in 1 .. built
    BY DEF Typed, ConversationsTypeOK
<1>0. /\ built \in Nat /\ MaxBuilds \in Nat /\ built <= MaxBuilds
      /\ \A s \in 1 .. built : s \in Services
      /\ table \in {0, built}
      /\ process # "serving" => table = 0
      /\ status \in [Services -> Statuses]
      /\ run \in [Services -> {"none", "queued", "running", "ending"}]
      /\ process = "down" => writing = {}
    BY <1>0a DEF Typed, ConversationsTypeOK, Services
<1>A. ASSUME UNCHANGED <<process, table, built, status, saveVars, deleted>>
      PROVE  SavedInv'
    BY <1>A DEF SavedInv, Alone, saveVars
<1>B. ASSUME NEW m, Build(m), process = "serving", table = 0,
             sending' \subseteq sending \cup {built + 1}
      PROVE  RunInv'
    <2>1. built + 1 \in Services /\ table' = built + 1 /\ built' = built + 1
          /\ process' = process /\ run' = run /\ deleted' = deleted
          /\ snapshot' = snapshot /\ built + 1 # 0
        BY <1>0, <1>B DEF Build, Services
    <2>2. status' = [status EXCEPT ![built + 1] = Loaded]
          /\ status'[built + 1] = Loaded
        BY <1>0, <1>B, <2>1 DEF Build
    <2>3. Loaded # "RUNNING"
        BY <1>B, LoadedTyped DEF Build
    <2>4. ASSUME ~deleted, NEW s \in Services, run[s] # "none" \/ s \in sending'
          PROVE  s = table'
        BY <1>0, <1>0a, <1>B, <2>1, <2>4 DEF Services
    <2>5. SavedInv'
        <3>1. SUFFICES ASSUME ~deleted PROVE SavedInv'
            BY <2>1 DEF SavedInv
        <3>2. writing = {}
            BY <1>0, <1>0a, <1>B, <3>1 DEF SavedInv
        <3>3. CASE BeginSave(built + 1, "start")
            <4>1. PICK n \in Services : n = built + 1
                BY <2>1
            <4>2. writing' = {Due(n, "start")}
                BY <3>2, <3>3, <4>1 DEF BeginSave
            <4>3. Alone(Due(n, "start"))'
                BY <4>2 DEF Alone, Due
            <4>4. Due(n, "start").service = n
                BY DEF Due
            <4> HIDE DEF Owner, EndingInv, NoGhostRunning
            <4> QED BY <1>B, <2>1, <4>1, <4>2, <4>3, <4>4 DEF SavedInv
        <3>4. CASE ~BeginSave(built + 1, "start")
            BY <1>B, <2>1, <2>2, <3>2, <3>4 DEF Build, SavedInv
        <3> QED BY <3>3, <3>4
    <2>6. EndingInv'
        BY <1>0, <2>1, <2>2, <2>3
    <2> QED BY <1>B, <2>1, <2>2, <2>3, <2>4, <2>5, <2>6
<1>1. ASSUME NEW r \in Requests, Start(r) PROVE RunInv'
    BY <1>1, <1>B DEF Start, LoopFree
<1>2. CASE Resume
    BY <1>2, <1>B DEF Resume, LoopFree
<1>3. ASSUME NEW s \in Services, SendInitial(s) PROVE RunInv'
    <2>1. SavedInv'
        BY <1>3, <1>A DEF SendInitial, diskVars
    <2> QED BY <1>0, <1>3, <2>1 DEF SendInitial, Queue, diskVars
<1>4. ASSUME NEW s \in Services, RunBegins(s) PROVE RunInv'
    <2>1. BeginSave(s, "run") /\ UNCHANGED <<controlVars, deleted>>
        BY <1>4 DEF RunBegins, SetStatus
    <2>2. run[s] # "none"
        BY <1>4 DEF RunBegins
    <2>3. SavedInv'
        BY <2>1, <2>2, BeginSaveKeeps DEF controlVars
    <2> QED BY <1>0, <1>4, <2>1, <2>3 DEF RunBegins, SetStatus, controlVars
<1>5. ASSUME NEW s \in Services, RunEnds(s) PROVE RunInv'
    <2>1. BeginSave(s, "run") /\ UNCHANGED <<controlVars, deleted>>
        BY <1>5 DEF RunEnds, SetStatus
    <2>2. run[s] # "none"
        BY <1>5 DEF RunEnds
    <2>3. SavedInv'
        BY <2>1, <2>2, BeginSaveKeeps DEF controlVars
    <2>4. PICK st \in Ends : status' = [status EXCEPT ![s] = st]
        BY <1>5 DEF RunEnds, SetStatus
    <2>5. st # "RUNNING"
        BY DEF Ends
    <2> QED BY <1>0, <1>5, <2>1, <2>3, <2>4, <2>5 DEF RunEnds, controlVars
<1>6. ASSUME NEW s \in Services, RunReturns(s) PROVE RunInv'
    <2>1. SavedInv'
        BY <1>6, <1>A DEF RunReturns, controlVars
    <2> QED BY <1>0, <1>6, <2>1 DEF RunReturns, controlVars
<1>7. CASE Run
    <2>1. SavedInv'
        BY <1>7, <1>A DEF Run, diskVars
    <2> QED BY <1>0, <1>7, <2>1 DEF Run, LoopFree, Queue, diskVars
<1>8. CASE Pause
    <2>1. BeginSave(table, "pause") /\ UNCHANGED <<controlVars, run, deleted>>
          /\ status' = [status EXCEPT ![table] = "PAUSED"]
          /\ process = "serving" /\ table \in Services
        BY <1>0, <1>8 DEF Pause, SetStatus, LoopFree
    <2>2. SavedInv'
        BY <2>1, BeginSaveKeeps DEF controlVars
    <2> QED BY <1>0, <2>1, <2>2 DEF controlVars
<1>9. ASSUME NEW p \in Policies, SetPolicy(p) PROVE RunInv'
    <2>1. UNCHANGED <<controlVars, snapshot, status, run, deleted>>
          /\ process = "serving"
        BY <1>9 DEF SetPolicy, LoopFree
    <2>2. SavedInv'
        <3>1. CASE BeginSave(table, p)
            BY <2>1, <3>1, BeginSaveKeeps DEF controlVars
        <3>2. CASE UNCHANGED <<writing, overlapped>>
            BY <2>1, <3>2, <1>A DEF controlVars, saveVars
        <3> QED BY <1>9, <3>1, <3>2 DEF SetPolicy
    <2> QED BY <2>1, <2>2 DEF controlVars
<1>10. ASSUME NEW w \in setting, SetPolicyReturns(w) PROVE RunInv'
    <2>1. SavedInv'
        BY <1>10, <1>A DEF SetPolicyReturns, diskVars
    <2> QED BY <1>10, <2>1 DEF SetPolicyReturns, diskVars
<1>11. CASE DeletePops
    <2>1. SavedInv'
        BY <1>11 DEF DeletePops, SavedInv
    <2> QED BY <1>0, <1>11, <2>1 DEF DeletePops, diskVars, serviceVars
<1>12. ASSUME NEW s \in Services, DeleteCloses(s) PROVE RunInv'
    <2>1. SavedInv'
        BY <1>12, <1>A DEF DeleteCloses, diskVars, serviceVars
    <2> QED BY <1>12, <2>1 DEF DeleteCloses, diskVars, serviceVars
<1>13. CASE Stop
    <2>1. process = "serving" /\ process' = "stopping" /\ table' = 0
          /\ built' = built /\ run' = run /\ status' = status
          /\ sending' = sending /\ deleted' = deleted /\ sending = {}
        BY <1>13 DEF Stop, LoopFree, Idle, serviceVars
    <2>2. SavedInv'
        <3>1. SUFFICES ASSUME ~deleted PROVE SavedInv'
            BY <2>1 DEF SavedInv
        <3>2. table # 0 => table = built
            BY <1>0
        <3>3. \A w \in writing : w.service = table /\ table # 0
            BY <1>0, <1>0a, <2>1, <3>1 DEF SavedInv
        <3>4. CASE table = 0
            <4>1. writing' = writing
                BY <1>13, <3>4 DEF Stop, diskVars, saveVars
            <4> QED BY <2>1, <3>3, <3>4, <4>1 DEF SavedInv
        <3>5. CASE table # 0
            <4>1. writing' = writing \cup {Due(table, "stop")}
                BY <1>13, <3>5 DEF Stop, BeginSave
            <4>2. Due(table, "stop").service = table
                BY DEF Due
            <4> QED BY <2>1, <3>2, <3>3, <3>5, <4>1, <4>2 DEF SavedInv
        <3> QED BY <3>4, <3>5
    <2> QED BY <1>0, <2>1, <2>2 DEF Services
<1>14. CASE Exit
    <2>1. SavedInv'
        BY <1>14 DEF Exit, Gone, SavedInv
    <2> QED BY <1>0, <1>14, <2>1 DEF Exit, Gone
<1>15. CASE Crash
    <2>1. SavedInv'
        BY <1>15 DEF Crash, Gone, SavedInv
    <2> QED BY <1>0, <1>15, <2>1 DEF Crash, Gone
<1>16. CASE Restart
    <2>1. SavedInv'
        BY <1>0, <1>16 DEF Restart, diskVars, saveVars, SavedInv
    <2> QED BY <1>0, <1>16, <2>1 DEF Restart, diskVars, serviceVars
<1>17. ASSUME NEW w \in writing, Dump(w) \/ OpenFile(w) \/ Fill(w)
       PROVE  RunInv'
    <2>1. UNCHANGED unsavedVars
        BY <1>17 DEF Dump, OpenFile, Fill
    <2>2. SavedInv'
        BY <1>17, SaveKeeps
    <2> QED BY <2>1, <2>2 DEF unsavedVars, serviceVars
<1>18. CASE UNCHANGED vars
    <2>1. SavedInv'
        BY <1>18, <1>A DEF vars, diskVars, serviceVars
    <2> QED BY <1>18, <2>1 DEF vars, diskVars, serviceVars
<1> QED BY <1>1, <1>2, <1>3, <1>4, <1>5, <1>6, <1>7, <1>8, <1>9, <1>10, <1>11,
           <1>12, <1>13, <1>14, <1>15, <1>16, <1>17, <1>18 DEF Next

\* What the invariant says of two runs.
LEMMA OwnerRunsAlone == Typed /\ Owner => OneRunUnlessDeleted
BY DEF Owner, OneRunUnlessDeleted

\* Whatever crashes, stops and deletes came before, an open conversation that
\* is RUNNING has a run (_create_event_service, AgentState restored).
THEOREM RunningIsReal == Spec => []NoGhostRunning
<1>1. RunInv => NoGhostRunning BY DEF RunInv
<1> QED BY <1>1, InitTyped, NextTyped, InitRun, NextRun, PTL DEF Spec

\* When the saves are done and did not overlap, what is stored of an undeleted
\* conversation is its status in memory, through restores, runs, pauses and
\* settings of any number (PersistenceConsumer, AgentState.set_execution_status).
THEOREM StatusIsStored == Spec => []StatusStored
<1>1. RunInv => StatusStored BY DEF RunInv, SavedInv, StatusStored
<1> QED BY <1>1, InitTyped, NextTyped, InitRun, NextRun, PTL DEF Spec

\* However many creations and restores there are, one service at a time runs a
\* conversation that was never deleted.
THEOREM OneRunAtOnce == Spec => []OneRunUnlessDeleted
<1>1. Typed /\ RunInv => OneRunUnlessDeleted BY OwnerRunsAlone DEF RunInv
<1> QED BY <1>1, InitTyped, NextTyped, InitRun, NextRun, PTL DEF Spec

-----------------------------------------------------------------------------
(* What is kept of the settings.                                           *)

KeptInv == FirstRequestKept /\ Settled

\* Nothing is set at first.
LEMMA InitKept == Init => KeptInv
BY ConversationsAssumption DEF Init, KeptInv, FirstRequestKept, Settled, Services

\* Every step keeps the settings.
LEMMA NextKept == Typed /\ KeptInv /\ [Next]_vars => KeptInv'
<1> SUFFICES ASSUME Typed, KeptInv, [Next]_vars PROVE KeptInv' OBVIOUS
<1> USE ConversationsAssumption DEF KeptInv, FirstRequestKept, Settled
<1>0. /\ built \in Nat /\ MaxBuilds \in Nat /\ built <= MaxBuilds
      /\ \A s \in 1 .. built : s \in Services
      /\ \A s \in Services : s <= built => s \in 1 .. built
      /\ table \in {0, built}
      /\ process # "serving" => table = 0
      /\ built > 0 => meta # NoMeta
      /\ meta \in Metas \cup {NoMeta}
      /\ metaData \in [Services -> Metas \cup {NoMeta}]
      /\ \A s \in Services : s <= built => metaData[s] # NoMeta
      /\ policy \in [Services -> Policies]
      /\ \A w \in setting : w.service \in 1 .. built
    BY DEF Typed, ConversationsTypeOK, Services
<1>B. ASSUME NEW m \in Metas, Build(m), table = 0, meta' = m,
             built > 0 => m.request = meta.request,
             m.policy = (IF meta = NoMeta THEN FirstPolicy ELSE meta.policy),
             chosen' = chosen, lost' = lost
      PROVE  KeptInv'
    <2>1. /\ built + 1 \in Services /\ table' = built + 1 /\ built' = built + 1
          /\ setting' = setting /\ built + 1 # 0
          /\ metaData' = [metaData EXCEPT ![built + 1] = m]
          /\ policy' = [policy EXCEPT ![built + 1] = m.policy]
        BY <1>0, <1>B DEF Build, Services
    <2>2. m # NoMeta
        BY DEF Metas
    <2>3. FirstRequestKept'
        <3> SUFFICES ASSUME NEW s \in Services, s <= built + 1
                     PROVE  metaData'[s].request = m.request
            BY <1>B, <2>1
        <3> QED BY <1>0, <1>B, <2>1 DEF Services
    <2>4. ~lost => m.policy = chosen
        BY <1>B
    <2>5. metaData'[built + 1] = m /\ policy'[built + 1] = m.policy
        BY <1>0, <2>1
    <2>6. \A w \in setting : w.service # built + 1
        BY <1>0
    <2> QED BY <1>B, <2>1, <2>2, <2>3, <2>4, <2>5, <2>6
<1>1. ASSUME NEW r \in Requests, Start(r) PROVE KeptInv'
    <2>1. built > 0 => Asked(r).request = meta.request
        BY <1>0, <1>1 DEF Start
    <2>2. Asked(r).policy = (IF meta = NoMeta THEN FirstPolicy ELSE meta.policy)
        BY <1>1, AskedTyped DEF Start
    <2> QED BY <1>1, <1>B, <2>1, <2>2, AskedTyped DEF Start
<1>2. CASE Resume
    <2>1. meta \in Metas
        BY <1>0, <1>2 DEF Resume
    <2> QED BY <1>2, <1>B, <2>1 DEF Resume
<1>3. ASSUME NEW s \in Services, SendInitial(s) PROVE KeptInv'
    BY <1>3 DEF SendInitial, diskVars
<1>4. ASSUME NEW s \in Services, RunBegins(s) PROVE KeptInv'
    BY <1>4 DEF RunBegins, controlVars
<1>5. ASSUME NEW s \in Services, RunEnds(s) PROVE KeptInv'
    BY <1>5 DEF RunEnds, controlVars
<1>6. ASSUME NEW s \in Services, RunReturns(s) PROVE KeptInv'
    BY <1>6 DEF RunReturns, controlVars
<1>7. CASE Run
    BY <1>7 DEF Run, diskVars
<1>8. CASE Pause
    BY <1>8 DEF Pause, controlVars
<1>9. ASSUME NEW p \in Policies, SetPolicy(p) PROVE KeptInv'
    <2>1. table \in Services /\ policy'[table] = p
        BY <1>0, <1>9 DEF SetPolicy, controlVars
    <2>2. ~lost' => setting' = {[service |-> table, policy |-> p]}
        BY <1>9 DEF SetPolicy, controlVars
    <2>3. meta' # NoMeta /\ table' = table /\ table # 0 /\ chosen' = p
        BY <1>0, <1>9 DEF SetPolicy, controlVars
    <2>4. ~lost' => \A w \in setting' : w.service = table /\ w.policy = p
        BY <2>2
    <2>5. ~lost' => ~(\A w \in setting' : w.service # table)
        <3> DEFINE w == [service |-> table, policy |-> p]
        <3>1. ~lost' => w \in setting'
            BY <2>2
        <3>2. w.service = table
            OBVIOUS
        <3> QED BY <3>1, <3>2
    <2>6. Settled'
        BY <2>1, <2>3, <2>4, <2>5
    <2> QED BY <1>9, <2>6 DEF SetPolicy, controlVars
<1>10. ASSUME NEW w \in setting, SetPolicyReturns(w) PROVE KeptInv'
    <2>1. w.service \in Services /\ metaData[w.service] \in Metas
        BY <1>0
    <2>2. \A s \in Services :
             /\ metaData'[s] = IF s = w.service
                               THEN [metaData[s] EXCEPT !.policy = w.policy]
                               ELSE metaData[s]
        BY <1>0, <1>10 DEF SetPolicyReturns
    <2>3. [metaData[w.service] EXCEPT !.policy = w.policy].request
              = metaData[w.service].request
          /\ [metaData[w.service] EXCEPT !.policy = w.policy].policy = w.policy
        BY <2>1 DEF Metas
    <2>4. FirstRequestKept'
        BY <1>10, <2>2, <2>3 DEF SetPolicyReturns, diskVars
    <2>5. Settled'
        BY <1>0, <1>10, <2>1, <2>2, <2>3 DEF SetPolicyReturns, diskVars
    <2> QED BY <2>4, <2>5
<1>11. CASE DeletePops
    BY <1>0, <1>11 DEF DeletePops, LoopFree, Unstored, diskVars, serviceVars
<1>12. ASSUME NEW s \in Services, DeleteCloses(s) PROVE KeptInv'
    BY <1>12 DEF DeleteCloses, diskVars, serviceVars
<1>13. CASE Stop
    BY <1>0, <1>13 DEF Stop, LoopFree, Idle, serviceVars, diskVars
<1>14. CASE Exit
    BY <1>0, <1>14 DEF Exit, Gone
<1>15. CASE Crash
    BY <1>0, <1>15 DEF Crash, Gone, Unstored
<1>16. CASE Restart
    BY <1>0, <1>16 DEF Restart, diskVars, serviceVars
<1>17. ASSUME NEW w \in writing, Dump(w) \/ OpenFile(w) \/ Fill(w)
       PROVE  KeptInv'
    BY <1>17 DEF Dump, OpenFile, Fill, unsavedVars, serviceVars
<1>18. CASE UNCHANGED vars
    BY <1>18 DEF vars, diskVars, serviceVars
<1> QED BY <1>1, <1>2, <1>3, <1>4, <1>5, <1>6, <1>7, <1>8, <1>9, <1>10, <1>11,
           <1>12, <1>13, <1>14, <1>15, <1>16, <1>17, <1>18 DEF Next

\* Every service works with the settings the conversation was created with.
THEOREM RequestsKept == Spec => []FirstRequestKept
<1>1. KeptInv => FirstRequestKept BY DEF KeptInv
<1> QED BY <1>1, InitTyped, NextTyped, InitKept, NextKept, PTL DEF Spec

\* The policy set last is the open conversation's, however often the server was
\* stopped and the conversation restored, unless the setting was overtaken.
THEOREM PoliciesKept == Spec => []PolicyKept
<1>1. KeptInv => PolicyKept BY DEF KeptInv, Settled, PolicyKept
<1> QED BY <1>1, InitTyped, NextTyped, InitKept, NextKept, PTL DEF Spec
=============================================================================
