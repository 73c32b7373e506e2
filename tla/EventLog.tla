------------------------------ MODULE EventLog ------------------------------
(***************************************************************************)
(* The event log kept in files (LocalEventLog over LocalFileStore).  Every *)
(* process that works on a conversation holds an instance of its own: a    *)
(* length and a map from index to event id, filled from the directory when *)
(* the instance is made and refreshed by an append that finds more files   *)
(* than it knows.  An append holds the lock file of the directory; making  *)
(* an instance does not.  A process may die at any point (the kernel drops *)
(* its lock) and a write may fail (append raises, and EventCenter logs that *)
(* and goes on): either way a file that was created and not filled stays   *)
(* as it is, and the log has it.                                           *)
(***************************************************************************)
EXTENDS Integers, FiniteSets

CONSTANTS
    Logs,         \* the instances, each in a process of its own
    Ids,          \* ids of the events that may be appended
    Nobody,       \* the lock file is free
    MaxFaults     \* bound on the processes that die and the writes that fail

ASSUME LogsAssumption == Nobody \notin Logs \cup Ids /\ MaxFaults \in Nat

VARIABLES
    files,     \* the event files: the index and the id in the name
    torn,      \* those of them that do not hold their event
    whole,     \* history: the files whose append has returned
    lock,      \* who holds the lock file
    pc,        \* closed, idle, writing (no file yet), filling
    pending,   \* the event an instance is appending
    length,    \* _length
    idAt,      \* _idx_to_id: a function on the indexes the instance knows
    faults     \* how many processes died and how many writes failed

vars == <<files, torn, whole, lock, pc, pending, length, idAt, faults>>

Name(i, e) == [idx |-> i, id |-> e]

\* The ids an instance knows (the keys of _id_to_idx).
Known(l) == {idAt[l][i] : i \in DOMAIN idAt[l]}

-----------------------------------------------------------------------------
(* The directory.                                                          *)

Count == Cardinality(files)

IndexesOnDisk == {f.idx : f \in files}

\* The length a scan finds: the first index that no file carries.
ScanLength ==
    CHOOSE n \in 0..Count :
        n \notin IndexesOnDisk /\ 0..(n - 1) \subseteq IndexesOnDisk

\* What a scan finds at the indexes below it; of two files with one index
\* the one listed last wins.
Scans == {m \in [0..(ScanLength - 1) -> Ids] :
             \A i \in 0..(ScanLength - 1) : Name(i, m[i]) \in files}

\* What was known stays where the scan has nothing.
Overlay(old, m) ==
    [i \in DOMAIN m \cup DOMAIN old |-> IF i \in DOMAIN m THEN m[i] ELSE old[i]]

-----------------------------------------------------------------------------
(* The operations.                                                         *)

Init ==
    /\ files = {}
    /\ torn = {}
    /\ whole = {}
    /\ lock = Nobody
    /\ pc = [l \in Logs |-> "closed"]
    /\ pending = [l \in Logs |-> Nobody]
    /\ length = [l \in Logs |-> 0]
    /\ idAt = [l \in Logs |-> [i \in {} |-> Nobody]]
    /\ faults = 0

\* A process makes its instance: it scans the directory without the lock.
Open(l) ==
    /\ pc[l] = "closed"
    /\ \E m \in Scans : idAt' = [idAt EXCEPT ![l] = m]
    /\ length' = [length EXCEPT ![l] = ScanLength]
    /\ pc' = [pc EXCEPT ![l] = "idle"]
    /\ UNCHANGED <<files, torn, whole, lock, pending, faults>>

\* Mutant: an append that trusts the length it knows.
SyncNever(l) == UNCHANGED <<idAt, length>>

\* Mutant: the length is taken from the count, the ids are not read.
SyncLengthOnly(l) ==
    /\ length' = [length EXCEPT ![l] = Count]
    /\ UNCHANGED idAt

\* _sync_from_disk: only when there are more files than the instance knows.
SyncFromDisk(l) ==
    IF Count > length[l]
    THEN /\ \E m \in Scans : idAt' = [idAt EXCEPT ![l] = Overlay(@, m)]
         /\ length' = [length EXCEPT
                ![l] = IF ScanLength > Count THEN ScanLength ELSE Count]
    ELSE UNCHANGED <<idAt, length>>

\* Mutant: the duplicate check is gone.
AppendUnchecked(l, e) ==
    /\ pc[l] = "idle"
    /\ lock = Nobody
    /\ SyncFromDisk(l)
    /\ lock' = l
    /\ pc' = [pc EXCEPT ![l] = "writing"]
    /\ pending' = [pending EXCEPT ![l] = e]
    /\ UNCHANGED <<files, torn, whole, faults>>

\* Mutant: no lock file.
AppendUnlocked(l, e) ==
    /\ pc[l] = "idle"
    /\ SyncFromDisk(l)
    /\ e \notin Known(l)'
    /\ lock' = l
    /\ pc' = [pc EXCEPT ![l] = "writing"]
    /\ pending' = [pending EXCEPT ![l] = e]
    /\ UNCHANGED <<files, torn, whole, faults>>

\* append up to the duplicate check, under the lock file.  An id that the
\* instance now knows is refused with ValueError and the lock is let go.
AppendLocked(l, e) ==
    /\ pc[l] = "idle"
    /\ lock = Nobody
    /\ SyncFromDisk(l)
    /\ \/ /\ e \in Known(l)'
          /\ UNCHANGED <<lock, pc, pending>>
       \/ /\ e \notin Known(l)'
          /\ lock' = l
          /\ pc' = [pc EXCEPT ![l] = "writing"]
          /\ pending' = [pending EXCEPT ![l] = e]
    /\ UNCHANGED <<files, torn, whole, faults>>

\* open(full_path, "w"): the file is there, and empty.
CreateFile(l) ==
    /\ pc[l] = "writing"
    /\ files' = files \cup {Name(length[l], pending[l])}
    /\ torn' = torn \cup {Name(length[l], pending[l])}
    /\ pc' = [pc EXCEPT ![l] = "filling"]
    /\ UNCHANGED <<whole, lock, pending, length, idAt, faults>>

\* The file cannot be created: append raises, the lock goes.
CreateFails(l) ==
    /\ pc[l] = "writing"
    /\ faults < MaxFaults
    /\ faults' = faults + 1
    /\ lock' = Nobody
    /\ pc' = [pc EXCEPT ![l] = "idle"]
    /\ UNCHANGED <<files, torn, whole, pending, length, idAt>>

\* The contents are written, the instance learns the event, the lock goes.
FillFile(l) ==
    /\ pc[l] = "filling"
    /\ torn' = torn \ {Name(length[l], pending[l])}
    /\ whole' = whole \cup {Name(length[l], pending[l])}
    /\ idAt' = [idAt EXCEPT
           ![l] = Overlay(@, [i \in {length[l]} |-> pending[l]])]
    /\ length' = [length EXCEPT ![l] = @ + 1]
    /\ lock' = Nobody
    /\ pc' = [pc EXCEPT ![l] = "idle"]
    /\ UNCHANGED <<files, pending, faults>>

\* The file is there and the write raises (the disk is full): append raises,
\* the lock goes, and the instance has learnt nothing.
FillFails(l) ==
    /\ pc[l] = "filling"
    /\ faults < MaxFaults
    /\ faults' = faults + 1
    /\ lock' = Nobody
    /\ pc' = [pc EXCEPT ![l] = "idle"]
    /\ UNCHANGED <<files, torn, whole, pending, length, idAt>>

\* The process dies.
Crash(l) ==
    /\ pc[l] # "closed"
    /\ faults < MaxFaults
    /\ faults' = faults + 1
    /\ lock' = IF lock = l THEN Nobody ELSE lock
    /\ pc' = [pc EXCEPT ![l] = "closed"]
    /\ UNCHANGED <<files, torn, whole, pending, length, idAt>>

Next == \E l \in Logs :
    \/ Open(l)
    \/ \E e \in Ids : AppendLocked(l, e)
    \/ CreateFile(l)
    \/ CreateFails(l)
    \/ FillFile(l)
    \/ FillFails(l)
    \/ Crash(l)

Spec == Init /\ [][Next]_vars

-----------------------------------------------------------------------------
(* A directory that cannot be listed: the count of _count_events_on_disk   *)
(* is then 0, so the append goes on with the length it had.                *)

AppendUnlisted(l, e) ==
    /\ pc[l] = "idle"
    /\ lock = Nobody
    /\ e \notin Known(l)
    /\ lock' = l
    /\ pc' = [pc EXCEPT ![l] = "writing"]
    /\ pending' = [pending EXCEPT ![l] = e]
    /\ UNCHANGED <<files, torn, whole, length, idAt, faults>>

FaultyNext == Next \/ \E l \in Logs, e \in Ids : AppendUnlisted(l, e)

FaultySpec == Init /\ [][FaultyNext]_vars

-----------------------------------------------------------------------------
(* Properties.                                                             *)

EventLogTypeOK ==
    /\ files \subseteq [idx : Nat, id : Ids]
    /\ torn \subseteq files
    /\ whole \subseteq files
    /\ lock \in Logs \cup {Nobody}
    /\ pc \in [Logs -> {"closed", "idle", "writing", "filling"}]
    /\ pending \in [Logs -> Ids \cup {Nobody}]
    /\ length \in [Logs -> Nat]
    /\ faults \in 0..MaxFaults
    /\ DOMAIN idAt = Logs
    /\ \A l \in Logs : \A i \in DOMAIN idAt[l] : i \in Nat /\ idAt[l][i] \in Ids

\* No two files carry one index, so no event hides another one in a scan
\* (append counts the files under the lock before it picks its index).
NoIndexShared == \A f, g \in files : f.idx = g.idx => f = g

\* What an instance believes about the log is what the directory holds: its
\* length never runs past the files and every id is the one on disk at that
\* index, whichever processes appended, opened or died meanwhile.
IndexAgrees ==
    \A l \in Logs : pc[l] # "closed" =>
        /\ DOMAIN idAt[l] = 0..(length[l] - 1)
        /\ \A i \in DOMAIN idAt[l] : Name(i, idAt[l][i]) \in files

\* An event whose append has returned stays on disk, whole: no later append,
\* whichever process makes it, and no death or failed write in the middle of
\* one opens that file for writing again (open with "w" would empty it).
AppendedStays == whole \subseteq files \ torn

\* The log that the directory stands for.
Stored ==
    [k \in 1..Count |-> (CHOOSE f \in files : f.idx = k - 1).id]

Promise == INSTANCE AppendOnlyLog WITH log <- Stored

\* The files implement a log that only grows at its end and holds no id twice,
\* with several processes appending, dying and failing to write.
ImplementsLog == Promise!Spec
=============================================================================
