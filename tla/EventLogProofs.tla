--------------------------- MODULE EventLogProofs ---------------------------
(***************************************************************************)
(* The event files implement an append-only log, whatever the number of    *)
(* processes, of events, of crashes and of failed writes.                  *)
(***************************************************************************)
EXTENDS EventLog, FiniteSetTheorems, SequenceTheorems, TLAPS

\* The files are numbered without a gap, and neither an index nor an id is
\* carried by two of them.
DiskInv ==
    /\ IsFiniteSet(files)
    /\ IndexesOnDisk = 0..(Count - 1)
    /\ NoIndexShared
    /\ \A f, g \in files : f.id = g.id => f = g

\* Whoever is past the duplicate check holds the lock, and its view of the
\* directory is the present one.
HolderInv ==
    \A l \in Logs :
        /\ pc[l] \in {"writing", "filling"} => lock = l
        /\ pc[l] = "writing" =>
              /\ length[l] = Count
              /\ pending[l] \in Ids
              /\ \A f \in files : f.id # pending[l]
        /\ pc[l] = "filling" =>
              /\ length[l] = Count - 1
              /\ Name(length[l], pending[l]) \in files

IInv == EventLogTypeOK /\ DiskInv /\ IndexAgrees /\ HolderInv /\ AppendedStays

\* A scan of such a directory finds every file.
LEMMA ScanFacts ==
  ASSUME EventLogTypeOK, DiskInv
  PROVE  /\ Count \in Nat
         /\ ScanLength = Count
         /\ \A m \in Scans :
              /\ m \in [0..(Count - 1) -> Ids]
              /\ \A i \in 0..(Count - 1) : Name(i, m[i]) \in files
         /\ \A f \in files : f.idx \in 0..(Count - 1) /\ f = Name(f.idx, f.id)
         /\ \A i \in 0..(Count - 1) : \E f \in files : f.idx = i
PROOF
<1>1. Count \in Nat
  BY FS_CardinalityType DEF Count, DiskInv
<1>2. ScanLength = Count
  <2> DEFINE P(n) == n \notin IndexesOnDisk /\ 0..(n - 1) \subseteq IndexesOnDisk
  <2>1. Count \in 0..Count /\ P(Count)
    BY <1>1 DEF DiskInv
  <2>2. \A n \in 0..Count : P(n) => n = Count
    BY <1>1 DEF DiskInv
  <2> QED
    BY <2>1, <2>2 DEF ScanLength
<1>3. \A f \in files : f.idx \in IndexesOnDisk /\ f = Name(f.idx, f.id)
  BY DEF IndexesOnDisk, Name, EventLogTypeOK
<1>4. \A i \in IndexesOnDisk : \E f \in files : f.idx = i
  BY DEF IndexesOnDisk
<1> QED
  BY <1>1, <1>2, <1>3, <1>4 DEF Scans, DiskInv

\* An instance never knows more events than there are files.
LEMMA LengthBelowCount ==
  ASSUME EventLogTypeOK, DiskInv, IndexAgrees, NEW l \in Logs, pc[l] # "closed"
  PROVE  length[l] \in Nat /\ length[l] <= Count
PROOF
<1>1. Count \in Nat /\ length[l] \in Nat
  BY ScanFacts DEF EventLogTypeOK
<1>2. ASSUME NEW i \in 0..(length[l] - 1)
      PROVE  i \in 0..(Count - 1)
  <2>1. Name(i, idAt[l][i]) \in files
    BY DEF IndexAgrees
  <2>2. Name(i, idAt[l][i]).idx = i
    BY DEF Name
  <2> QED
    BY <2>1, <2>2, ScanFacts
<1>3. length[l] # 0 => length[l] - 1 \in 0..(Count - 1)
  BY <1>1, <1>2
<1> QED
  BY <1>1, <1>3

\* After synchronising, an instance knows exactly the files of the directory.
LEMMA SyncFacts ==
  ASSUME EventLogTypeOK, DiskInv, IndexAgrees,
         NEW l \in Logs, pc[l] = "idle", SyncFromDisk(l)
  PROVE  /\ length' = [length EXCEPT ![l] = Count]
         /\ DOMAIN idAt' = Logs
         /\ \A k \in Logs \ {l} : idAt'[k] = idAt[k]
         /\ DOMAIN idAt'[l] = 0..(Count - 1)
         /\ \A i \in 0..(Count - 1) :
              idAt'[l][i] \in Ids /\ Name(i, idAt'[l][i]) \in files
         /\ \A f \in files : f.id \in Known(l)'
PROOF
<1>1. length[l] \in Nat /\ length[l] <= Count /\ Count \in Nat
  BY LengthBelowCount, ScanFacts
<1>2. /\ length' = [length EXCEPT ![l] = Count]
      /\ DOMAIN idAt' = Logs
      /\ \A k \in Logs \ {l} : idAt'[k] = idAt[k]
      /\ DOMAIN idAt'[l] = 0..(Count - 1)
      /\ \A i \in 0..(Count - 1) :
           idAt'[l][i] \in Ids /\ Name(i, idAt'[l][i]) \in files
  <2>1. CASE Count > length[l]
    <3>1. PICK m \in Scans : idAt' = [idAt EXCEPT ![l] = Overlay(@, m)]
      BY <2>1 DEF SyncFromDisk
    <3>2. idAt'[l] = Overlay(idAt[l], m)
      BY <3>1 DEF EventLogTypeOK
    <3>3. /\ DOMAIN m = 0..(Count - 1)
          /\ \A i \in 0..(Count - 1) : m[i] \in Ids /\ Name(i, m[i]) \in files
      BY ScanFacts
    <3>4. DOMAIN idAt[l] \subseteq 0..(Count - 1)
      BY <1>1 DEF IndexAgrees
    <3>5. DOMAIN Overlay(idAt[l], m) = 0..(Count - 1)
      BY <3>3, <3>4 DEF Overlay
    <3>6. \A i \in 0..(Count - 1) : Overlay(idAt[l], m)[i] = m[i]
      BY <3>3, <3>4 DEF Overlay
    <3>7. length' = [length EXCEPT ![l] = Count]
      BY <2>1, <1>1, ScanFacts DEF SyncFromDisk
    <3> QED
      BY <3>1, <3>2, <3>3, <3>5, <3>6, <3>7 DEF EventLogTypeOK
  <2>2. CASE ~(Count > length[l])
    <3>1. length[l] = Count /\ length' = length /\ idAt' = idAt
      BY <1>1, <2>2 DEF SyncFromDisk
    <3>2. length' = [length EXCEPT ![l] = Count]
      BY <3>1 DEF EventLogTypeOK
    <3> QED
      BY <3>1, <3>2 DEF EventLogTypeOK, IndexAgrees
  <2> QED
    BY <2>1, <2>2
<1>3. ASSUME NEW f \in files
      PROVE  f.id \in Known(l)'
  <2>1. f.idx \in 0..(Count - 1) /\ Name(f.idx, idAt'[l][f.idx]) \in files
    BY <1>2, ScanFacts
  <2>2. Name(f.idx, idAt'[l][f.idx]).idx = f.idx
    BY DEF Name
  <2>3. f = Name(f.idx, idAt'[l][f.idx])
    BY <2>1, <2>2 DEF DiskInv, NoIndexShared
  <2>4. f.id = idAt'[l][f.idx]
    BY <2>3 DEF Name
  <2> QED
    BY <1>2, <2>1, <2>4 DEF Known
<1> QED
  BY <1>2, <1>3

-----------------------------------------------------------------------------
(* The inductive invariant.                                                *)

LEMMA InitInv == Init => IInv
PROOF
<1> SUFFICES ASSUME Init PROVE IInv
  OBVIOUS
<1> USE DEF Init
<1>1. EventLogTypeOK
  BY LogsAssumption DEF EventLogTypeOK
<1>2. DiskInv
  BY FS_EmptySet DEF DiskInv, IndexesOnDisk, Count, NoIndexShared
<1>3. IndexAgrees /\ HolderInv /\ AppendedStays
  BY DEF IndexAgrees, HolderInv, AppendedStays
<1> QED
  BY <1>1, <1>2, <1>3 DEF IInv

LEMMA OpenInv ==
  ASSUME IInv, NEW l \in Logs, Open(l)
  PROVE  IInv'
PROOF
<1> USE DEF Open, IInv
<1>1. PICK m \in Scans : idAt' = [idAt EXCEPT ![l] = m]
  OBVIOUS
<1>2. /\ Count \in Nat
      /\ length' = [length EXCEPT ![l] = Count]
      /\ m \in [0..(Count - 1) -> Ids]
      /\ \A i \in 0..(Count - 1) : Name(i, m[i]) \in files
  BY ScanFacts
<1>3. EventLogTypeOK'
  BY <1>1, <1>2 DEF EventLogTypeOK
<1>4. DiskInv'
  BY DEF DiskInv, IndexesOnDisk, Count, NoIndexShared
<1>5. IndexAgrees'
  BY <1>1, <1>2 DEF IndexAgrees, EventLogTypeOK
<1>6. HolderInv'
  BY <1>2 DEF HolderInv, EventLogTypeOK, Count
<1>7. AppendedStays'
  BY DEF AppendedStays
<1> QED
  BY <1>3, <1>4, <1>5, <1>6, <1>7

LEMMA AppendLockedInv ==
  ASSUME IInv, NEW l \in Logs, NEW e \in Ids, AppendLocked(l, e)
  PROVE  IInv'
PROOF
<1> USE DEF AppendLocked, IInv
<1>1. /\ length' = [length EXCEPT ![l] = Count]
      /\ DOMAIN idAt' = Logs
      /\ \A k \in Logs \ {l} : idAt'[k] = idAt[k]
      /\ DOMAIN idAt'[l] = 0..(Count - 1)
      /\ \A i \in 0..(Count - 1) :
           idAt'[l][i] \in Ids /\ Name(i, idAt'[l][i]) \in files
      /\ \A f \in files : f.id \in Known(l)'
  BY SyncFacts
<1>2. Count \in Nat
  BY ScanFacts
<1>3. EventLogTypeOK'
  <2>1. length' \in [Logs -> Nat]
    BY <1>1, <1>2 DEF EventLogTypeOK
  <2>2. \A k \in Logs : \A i \in DOMAIN idAt'[k] : i \in Nat /\ idAt'[k][i] \in Ids
    <3>1. \A i \in DOMAIN idAt'[l] : i \in Nat /\ idAt'[l][i] \in Ids
      BY <1>1, <1>2
    <3>2. \A k \in Logs \ {l} : \A i \in DOMAIN idAt'[k] : i \in Nat /\ idAt'[k][i] \in Ids
      BY <1>1 DEF EventLogTypeOK
    <3> QED
      BY <3>1, <3>2
  <2>3. /\ lock' \in Logs \cup {Nobody}
        /\ pc' \in [Logs -> {"closed", "idle", "writing", "filling"}]
        /\ pending' \in [Logs -> Ids \cup {Nobody}]
    BY DEF EventLogTypeOK
  <2> QED
    BY <1>1, <2>1, <2>2, <2>3 DEF EventLogTypeOK
<1>4. DiskInv'
  BY DEF DiskInv, IndexesOnDisk, Count, NoIndexShared
<1>5. IndexAgrees'
  BY <1>1, <1>2 DEF IndexAgrees, EventLogTypeOK
<1>6. HolderInv'
  <2>1. \A k \in Logs : pc[k] \notin {"writing", "filling"}
    BY LogsAssumption DEF HolderInv
  <2>2. CASE e \in Known(l)'
    <3>1. pc' = pc
      BY <2>2
    <3> QED
      BY <2>1, <3>1 DEF HolderInv
  <2>3. CASE e \notin Known(l)'
    <3>1. \A f \in files : f.id # e
      BY <1>1, <2>3
    <3>2. /\ lock' = l
          /\ pc' = [pc EXCEPT ![l] = "writing"]
          /\ pending' = [pending EXCEPT ![l] = e]
      BY <2>3
    <3> QED
      BY <1>1, <2>1, <3>1, <3>2 DEF HolderInv, EventLogTypeOK, Count
  <2> QED
    BY <2>2, <2>3
<1>7. AppendedStays'
  BY DEF AppendedStays
<1> QED
  BY <1>3, <1>4, <1>5, <1>6, <1>7

\* The file that is created carries the next index and a new id.
LEMMA CreatedFile ==
  ASSUME IInv, NEW l \in Logs, CreateFile(l)
  PROVE  /\ Count \in Nat
         /\ pending[l] \in Ids
         /\ files' = files \cup {Name(Count, pending[l])}
         /\ Name(Count, pending[l]).idx = Count
         /\ Name(Count, pending[l]).id = pending[l]
         /\ Name(Count, pending[l]) \notin files
         /\ Count' = Count + 1
         /\ \A f \in files : f.id # pending[l] /\ f.idx # Count
PROOF
<1> USE DEF CreateFile, IInv
<1>1. length[l] = Count /\ pending[l] \in Ids /\ \A f \in files : f.id # pending[l]
  BY DEF HolderInv
<1>2. Count \in Nat /\ \A f \in files : f.idx \in 0..(Count - 1)
  BY ScanFacts
<1>3. Name(Count, pending[l]).idx = Count /\ Name(Count, pending[l]).id = pending[l]
  BY DEF Name
<1>4. \A f \in files : f.idx # Count
  BY <1>2
<1>5. Name(Count, pending[l]) \notin files
  BY <1>1, <1>3
<1>6. Cardinality(files \cup {Name(Count, pending[l])}) = Count + 1
  BY <1>5, FS_AddElement DEF DiskInv, Count
<1>7. Count' = Count + 1
  BY <1>1, <1>6 DEF Count
<1> QED
  BY <1>1, <1>2, <1>3, <1>4, <1>5, <1>7

LEMMA CreateFileInv ==
  ASSUME IInv, NEW l \in Logs, CreateFile(l)
  PROVE  IInv'
PROOF
<1> DEFINE new == Name(Count, pending[l])
<1>1. /\ Count \in Nat
      /\ pending[l] \in Ids
      /\ files' = files \cup {new}
      /\ new.idx = Count /\ new.id = pending[l]
      /\ new \in [idx : Nat, id : Ids]
      /\ Count' = Count + 1
      /\ \A f \in files : f.id # pending[l] /\ f.idx # Count
  BY CreatedFile DEF Name
<1>2. lock = l /\ length[l] = Count
  BY DEF CreateFile, IInv, HolderInv
<1> HIDE DEF new
<1> USE DEF CreateFile, IInv
<1>3. EventLogTypeOK'
  <2>1. torn' \subseteq files'
    BY DEF EventLogTypeOK
  <2> QED
    BY <1>1, <2>1 DEF EventLogTypeOK
<1>4. DiskInv'
  <2>1. IsFiniteSet(files')
    BY <1>1, FS_AddElement DEF DiskInv
  <2>2. \A i : i \in IndexesOnDisk' <=> i \in IndexesOnDisk \/ i = Count
    BY <1>1 DEF IndexesOnDisk
  <2>3. IndexesOnDisk' = 0..(Count' - 1)
    <3>1. IndexesOnDisk' = (0..(Count - 1)) \cup {Count}
      BY <2>2 DEF DiskInv
    <3> QED
      BY <1>1, <3>1
  <2>4. NoIndexShared'
    BY <1>1 DEF DiskInv, NoIndexShared
  <2> QED
    BY <1>1, <2>1, <2>3, <2>4 DEF DiskInv
<1>5. IndexAgrees'
  BY <1>1 DEF IndexAgrees, EventLogTypeOK
<1>6. HolderInv'
  <2>1. \A k \in Logs \ {l} : pc[k] \notin {"writing", "filling"}
    BY <1>2 DEF HolderInv
  <2>2. pc' = [pc EXCEPT ![l] = "filling"]
    OBVIOUS
  <2>3. length'[l] = Count' - 1 /\ Name(length'[l], pending'[l]) \in files'
    BY <1>1, <1>2 DEF new
  <2> QED
    BY <1>1, <1>2, <2>1, <2>2, <2>3 DEF HolderInv, EventLogTypeOK
<1>7. AppendedStays'
  <2>1. Name(length[l], pending[l]) = new
    BY <1>2 DEF new
  <2>2. new \notin files
    BY <1>1
  <2>3. torn' = torn \cup {new} /\ whole' = whole
    BY <2>1
  <2> QED
    BY <1>1, <2>2, <2>3 DEF AppendedStays
<1> QED
  BY <1>3, <1>4, <1>5, <1>6, <1>7

LEMMA FillFileInv ==
  ASSUME IInv, NEW l \in Logs, FillFile(l)
  PROVE  IInv'
PROOF
<1> DEFINE add == [i \in {length[l]} |-> pending[l]]
<1> USE DEF FillFile, IInv
<1>1. /\ length[l] \in Nat
      /\ length[l] = Count - 1
      /\ Count \in Nat
      /\ Name(length[l], pending[l]) \in files
      /\ pending[l] \in Ids
      /\ lock = l
  <2>1. Name(length[l], pending[l]).id = pending[l]
    BY DEF Name
  <2> QED
    BY <2>1, ScanFacts DEF HolderInv, EventLogTypeOK
<1>2. /\ DOMAIN idAt[l] = 0..(length[l] - 1)
      /\ \A i \in 0..(length[l] - 1) :
           idAt[l][i] \in Ids /\ Name(i, idAt[l][i]) \in files
  BY DEF IndexAgrees, EventLogTypeOK
<1>3. DOMAIN Overlay(idAt[l], add) = 0..length[l]
  <2>1. DOMAIN Overlay(idAt[l], add) = {length[l]} \cup (0..(length[l] - 1))
    BY <1>2 DEF Overlay
  <2>2. {length[l]} \cup (0..(length[l] - 1)) = 0..length[l]
    BY <1>1
  <2> QED
    BY <2>1, <2>2
<1>4. \A i \in 0..length[l] :
        /\ Overlay(idAt[l], add)[i] \in Ids
        /\ Name(i, Overlay(idAt[l], add)[i]) \in files
  <2>1. Overlay(idAt[l], add)[length[l]] = pending[l]
    BY DEF Overlay
  <2>2. \A i \in 0..(length[l] - 1) : Overlay(idAt[l], add)[i] = idAt[l][i]
    BY <1>1, <1>2 DEF Overlay
  <2>3. \A i \in 0..length[l] : i = length[l] \/ i \in 0..(length[l] - 1)
    BY <1>1
  <2> QED
    BY <1>1, <1>2, <2>1, <2>2, <2>3
<1>5. /\ DOMAIN idAt' = Logs
      /\ \A k \in Logs \ {l} : idAt'[k] = idAt[k]
      /\ idAt'[l] = Overlay(idAt[l], add)
      /\ length' = [length EXCEPT ![l] = length[l] + 1]
  BY DEF EventLogTypeOK
<1> HIDE DEF add
<1>6. EventLogTypeOK'
  BY <1>1, <1>3, <1>4, <1>5 DEF EventLogTypeOK
<1>7. DiskInv'
  BY DEF DiskInv, IndexesOnDisk, Count, NoIndexShared
<1>8. IndexAgrees'
  <2>1. length'[l] - 1 = length[l]
    BY <1>1, <1>5 DEF EventLogTypeOK
  <2>2. /\ DOMAIN idAt'[l] = 0..(length'[l] - 1)
        /\ \A i \in DOMAIN idAt'[l] : Name(i, idAt'[l][i]) \in files'
    BY <1>3, <1>4, <1>5, <2>1
  <2>3. \A k \in Logs \ {l} : length'[k] = length[k] /\ pc'[k] = pc[k]
    BY <1>5 DEF EventLogTypeOK
  <2> QED
    BY <1>5, <2>2, <2>3 DEF IndexAgrees
<1>9. HolderInv'
  <2>1. \A k \in Logs \ {l} : pc[k] \notin {"writing", "filling"}
    BY <1>1 DEF HolderInv
  <2> QED
    BY <2>1 DEF HolderInv, EventLogTypeOK
<1>10. AppendedStays'
  BY <1>1 DEF AppendedStays
<1> QED
  BY <1>6, <1>7, <1>8, <1>9, <1>10

\* A write that fails changes nothing but what its instance is doing.
LEMMA FailInv ==
  ASSUME IInv, NEW l \in Logs, CreateFails(l) \/ FillFails(l)
  PROVE  IInv'
PROOF
<1> USE DEF CreateFails, FillFails, IInv
<1>1. EventLogTypeOK'
  BY LogsAssumption DEF EventLogTypeOK
<1>2. DiskInv'
  BY DEF DiskInv, IndexesOnDisk, Count, NoIndexShared
<1>3. IndexAgrees' /\ AppendedStays'
  BY DEF IndexAgrees, AppendedStays, EventLogTypeOK
<1>4. HolderInv'
  <2>1. lock = l
    BY DEF HolderInv
  <2>2. \A k \in Logs \ {l} : pc[k] \notin {"writing", "filling"}
    BY <2>1 DEF HolderInv
  <2> QED
    BY <2>2 DEF HolderInv, EventLogTypeOK
<1> QED
  BY <1>1, <1>2, <1>3, <1>4

LEMMA CrashInv ==
  ASSUME IInv, NEW l \in Logs, Crash(l)
  PROVE  IInv'
PROOF
<1> USE DEF Crash, IInv
<1>1. EventLogTypeOK'
  BY LogsAssumption DEF EventLogTypeOK
<1>2. DiskInv'
  BY DEF DiskInv, IndexesOnDisk, Count, NoIndexShared
<1>3. IndexAgrees' /\ AppendedStays'
  BY DEF IndexAgrees, AppendedStays, EventLogTypeOK
<1>4. HolderInv'
  BY DEF HolderInv, EventLogTypeOK, Count
<1> QED
  BY <1>1, <1>2, <1>3, <1>4

LEMMA StepInv == IInv /\ [Next]_vars => IInv'
PROOF
<1> SUFFICES ASSUME IInv, [Next]_vars PROVE IInv'
  OBVIOUS
<1>1. ASSUME NEW l \in Logs, Open(l) PROVE IInv'
  BY <1>1, OpenInv
<1>2. ASSUME NEW l \in Logs, NEW e \in Ids, AppendLocked(l, e) PROVE IInv'
  BY <1>2, AppendLockedInv
<1>3. ASSUME NEW l \in Logs, CreateFile(l) PROVE IInv'
  BY <1>3, CreateFileInv
<1>4. ASSUME NEW l \in Logs, FillFile(l) PROVE IInv'
  BY <1>4, FillFileInv
<1>5. ASSUME NEW l \in Logs, CreateFails(l) \/ FillFails(l) PROVE IInv'
  BY <1>5, FailInv
<1>6. ASSUME NEW l \in Logs, Crash(l) PROVE IInv'
  BY <1>6, CrashInv
<1>7. CASE UNCHANGED vars
  BY <1>7 DEF vars, IInv, EventLogTypeOK, DiskInv, IndexesOnDisk, Count,
              NoIndexShared, IndexAgrees, HolderInv, AppendedStays
<1> QED
  BY <1>1, <1>2, <1>3, <1>4, <1>5, <1>6, <1>7 DEF Next

LEMMA AlwaysInv == Spec => []IInv
  BY InitInv, StepInv, PTL DEF Spec

\* The event log keeps its types, whatever the number of processes.
THEOREM EventLogTyped == Spec => []EventLogTypeOK
PROOF
<1>1. IInv => EventLogTypeOK
  BY DEF IInv
<1> QED
  BY <1>1, AlwaysInv, PTL

\* No two event files ever carry one index (append counts under the lock).
THEOREM IndexesUnique == Spec => []NoIndexShared
PROOF
<1>1. IInv => NoIndexShared
  BY DEF IInv, DiskInv
<1> QED
  BY <1>1, AlwaysInv, PTL

\* What an instance knows of the log is what the directory holds.
THEOREM InstancesAgree == Spec => []IndexAgrees
PROOF
<1>1. IInv => IndexAgrees
  BY DEF IInv
<1> QED
  BY <1>1, AlwaysInv, PTL

\* An event whose append returned keeps its file whole, whatever the other
\* appends, the deaths and the failed writes (LocalEventLog.append).
THEOREM AppendedEventsStay == Spec => []AppendedStays
PROOF
<1>1. IInv => AppendedStays
  BY DEF IInv
<1> QED
  BY <1>1, AlwaysInv, PTL

-----------------------------------------------------------------------------
(* The refinement.                                                         *)

\* The k-th entry is the id of the only file with index k - 1.
StoredOK ==
    /\ Stored \in [1..Count -> Ids]
    /\ Stored \in Seq(Ids)
    /\ Len(Stored) = Count
    /\ \A f \in files : f.idx + 1 \in 1..Count /\ Stored[f.idx + 1] = f.id
    /\ \A k \in 1..Count : \E f \in files : f.idx = k - 1 /\ Stored[k] = f.id

LEMMA StoredFacts == EventLogTypeOK /\ DiskInv => StoredOK
PROOF
<1> SUFFICES ASSUME EventLogTypeOK, DiskInv PROVE StoredOK
  OBVIOUS
<1>1. Count \in Nat
  BY ScanFacts
<1>2. ASSUME NEW k \in 1..Count
      PROVE  \E f \in files : f.idx = k - 1 /\ Stored[k] = f.id
  <2>1. PICK f \in files : f.idx = k - 1
    BY <1>1, ScanFacts
  <2>2. (CHOOSE g \in files : g.idx = k - 1) = f
    BY <2>1 DEF DiskInv, NoIndexShared
  <2> QED
    BY <2>1, <2>2 DEF Stored
<1>3. Stored = [k \in 1..Count |-> Stored[k]]
  BY DEF Stored
<1>4. \A k \in 1..Count : Stored[k] \in Ids
  BY <1>2 DEF EventLogTypeOK
<1>5. Stored \in [1..Count -> Ids]
  BY <1>3, <1>4
<1>6. Stored \in Seq(Ids) /\ Len(Stored) = Count
  BY <1>1, <1>5
<1>7. ASSUME NEW f \in files
      PROVE  f.idx + 1 \in 1..Count /\ Stored[f.idx + 1] = f.id
  <2>1. f.idx \in 0..(Count - 1)
    BY ScanFacts
  <2>2. f.idx + 1 \in 1..Count /\ (f.idx + 1) - 1 = f.idx
    BY <1>1, <2>1
  <2>3. PICK g \in files : g.idx = (f.idx + 1) - 1 /\ Stored[f.idx + 1] = g.id
    BY <1>2, <2>2
  <2>4. g = f
    BY <2>2, <2>3 DEF DiskInv, NoIndexShared
  <2> QED
    BY <2>2, <2>3, <2>4
<1> QED
  BY <1>2, <1>5, <1>6, <1>7 DEF StoredOK

LEMMA SameFilesSameLog ==
  ASSUME files' = files
  PROVE  Stored' = Stored
  BY DEF Stored, Count

\* Creating a file appends its event to the log.
LEMMA CreateAppends ==
  ASSUME IInv, NEW l \in Logs, CreateFile(l)
  PROVE  Promise!Add(pending[l])
PROOF
<1>1. /\ Count \in Nat
      /\ pending[l] \in Ids
      /\ files' = files \cup {Name(Count, pending[l])}
      /\ Name(Count, pending[l]).idx = Count
      /\ Name(Count, pending[l]).id = pending[l]
      /\ Count' = Count + 1
      /\ \A f \in files : f.id # pending[l] /\ f.idx # Count
  BY CreatedFile
<1>2. StoredOK
  BY StoredFacts DEF IInv
<1>3. IInv'
  BY CreateFileInv
<1>4. StoredOK'
  <2>1. (EventLogTypeOK /\ DiskInv => StoredOK)'
    BY StoredFacts, PTL
  <2> QED
    BY <1>3, <2>1 DEF IInv
<1> USE DEF StoredOK
<1>5. pending[l] \notin Promise!Recorded
  BY <1>1, <1>2 DEF Promise!Recorded
<1>6. Stored' = Append(Stored, pending[l])
  <2>1. \A k \in 1..Count : Stored'[k] = Stored[k]
    <3> TAKE k \in 1..Count
    <3>1. PICK f \in files : f.idx = k - 1 /\ Stored[k] = f.id
      BY <1>2
    <3>2. f \in files' /\ f.idx + 1 = k
      BY <1>1, <3>1
    <3> QED
      BY <1>4, <3>1, <3>2
  <2>2. Stored'[Count + 1] = pending[l]
    BY <1>1, <1>4
  <2>3. /\ Append(Stored, pending[l]) \in Seq(Ids)
        /\ Len(Append(Stored, pending[l])) = Count + 1
        /\ \A k \in 1..Count : Append(Stored, pending[l])[k] = Stored[k]
        /\ Append(Stored, pending[l])[Count + 1] = pending[l]
    BY <1>1, <1>2, AppendProperties
  <2>4. \A k \in 1..(Count + 1) : Stored'[k] = Append(Stored, pending[l])[k]
    BY <1>1, <2>1, <2>2, <2>3
  <2>5. Len(Stored') = Count + 1 /\ Stored' \in Seq(Ids)
    BY <1>1, <1>4
  <2> QED
    BY <2>3, <2>4, <2>5, SeqEqual
<1> QED
  BY <1>5, <1>6 DEF Promise!Add

\* The event files implement the append-only log.
THEOREM FilesImplementLog == Spec => ImplementsLog
PROOF
<1>1. Init => Promise!Init
  BY FS_EmptySet DEF Init, Promise!Init, Stored, Count
<1>2. IInv /\ [Next]_vars => [Promise!Next]_Stored
  <2> SUFFICES ASSUME IInv, [Next]_vars PROVE [Promise!Next]_Stored
    OBVIOUS
  <2>1. ASSUME NEW l \in Logs, CreateFile(l) PROVE Promise!Next
    <3>1. pending[l] \in Ids
      BY <2>1, CreatedFile
    <3>2. Promise!Add(pending[l])
      BY <2>1, CreateAppends
    <3> QED
      BY <3>1, <3>2 DEF Promise!Next
  <2>2. ASSUME NEW l \in Logs,
               \/ Open(l)
               \/ \E e \in Ids : AppendLocked(l, e)
               \/ CreateFails(l) \/ FillFile(l) \/ FillFails(l)
               \/ Crash(l)
        PROVE  Stored' = Stored
    BY <2>2, SameFilesSameLog
       DEF Open, AppendLocked, CreateFails, FillFile, FillFails, Crash
  <2>3. CASE UNCHANGED vars
    BY <2>3, SameFilesSameLog DEF vars
  <2> QED
    BY <2>1, <2>2, <2>3 DEF Next
<1> QED
  BY <1>1, <1>2, AlwaysInv, PTL DEF Spec, ImplementsLog, Promise!Spec
=============================================================================
