------------------------ MODULE ReportSessionProofs ------------------------
(***************************************************************************)
(* IInv is an inductive invariant of ReportSession, for every tree of test *)
(* items, every supply of ids and every bound; what the objects of the     *)
(* program and the server agree on follows from it.                        *)
(***************************************************************************)
EXTENDS ReportSession, FiniteSetTheorems, TLAPS

(* What no step undoes: an object that has started keeps its id, a record  *)
(* keeps its place, and counters only grow.                                *)

Grows ==
    /\ launchStarted => launchStarted' /\ launchId' = launchId
    /\ \A i \in Items :
          /\ itemStarted[i] => itemStarted'[i] /\ itemId'[i] = itemId[i]
          /\ logged[i] <= logged'[i]

RecordsKeep ==
    \A u \in Uuid : Known(u) =>
        /\ Known(u)'
        /\ records'[u].kind = records[u].kind
        /\ records'[u].launch = records[u].launch
        /\ records'[u].parent = records[u].parent
        /\ records[u].state = "finished" => records'[u].state = "finished"

\* A nil id is no id.
LEMMA NilIsNoId == NilUuid \notin Uuid
  BY IdAssumption DEF IdAssumption, Uuid

\* The parent of an item is the launch or an item.
LEMMA ParentIsObject ==
    \A i \in Items : Parent[i] \in Nat /\ (Parent[i] # 0 => Parent[i] \in Items)
  BY TreeAssumption DEF TreeAssumption, Items

-----------------------------------------------------------------------------
(* What a begin, a request or a record says of the objects stays true.     *)

LEMMA BeginOfStable ==
    ASSUME TypeOK, Grows, NEW i \in Items, NEW l, NEW p, BeginOf(i, l, p)
    PROVE  BeginOf(i, l, p)'
  BY ParentIsObject DEF BeginOf, Grows, ParentHasStarted

LEMMA OwnedStable ==
    ASSUME Grows, NEW u \in Owned
    PROVE  u \in Owned'
  BY DEF Owned, Started, Grows

LEMMA EntryStable ==
    ASSUME IdInv, Grows, NEW i \in Started, NEW k
    PROVE  i \in Started' /\ Entry(i, k)' = Entry(i, k)
  BY DEF IdInv, Grows, Started, Entry

LEMMA FirstEntriesStable ==
    ASSUME IdInv, Grows, NEW i \in Started, NEW m
    PROVE  FirstEntries(i, m)' = FirstEntries(i, m)
  BY EntryStable DEF FirstEntries

\* The type facts the lemmas below need of the counters.
LEMMA LoggedType ==
    ASSUME TypeOK, NEW i \in Items
    PROVE  logged[i] \in 0 .. MaxLogs /\ logged[i] \in Nat
  BY BoundAssumption DEF TypeOK, BoundAssumption

LEMMA RequestStable ==
    ASSUME TypeOK, TypeOK', IdInv, Grows, NEW r, RequestInv(r)
    PROVE  RequestInv(r)'
<1>1. CASE r.op = "begin_launch"
  BY <1>1 DEF RequestInv, Ends
<1>2. CASE r.op = "begin_item"
  BY <1>2, BeginOfStable DEF RequestInv, Ends
<1>3. CASE r.op \in Ends
  BY <1>3, OwnedStable DEF RequestInv, Ends
<1>4. CASE r.op = "logs"
  <2>a. PICK i \in Started : \E m \in 0 .. logged[i] :
                                r.logs = FirstEntries(i, m)
    BY <1>4 DEF RequestInv, Ends
  <2>1. PICK m \in 0 .. logged[i] : r.logs = FirstEntries(i, m)
    BY <2>a
  <2>2. i \in Started' /\ r.logs = FirstEntries(i, m)'
    BY <2>1, EntryStable, FirstEntriesStable
  <2>3. m \in 0 .. logged'[i]
    <3>1. i \in Items
      BY DEF Started
    <3>2. logged[i] \in Nat /\ logged'[i] \in Nat /\ logged[i] <= logged'[i]
      BY <3>1, LoggedType, BoundAssumption DEF Grows, TypeOK, BoundAssumption
    <3> QED BY <3>2
  <2> QED BY <1>4, <2>2, <2>3 DEF RequestInv
<1> QED BY <1>1, <1>2, <1>3, <1>4 DEF RequestInv

LEMMA RecordStable ==
    ASSUME TypeOK, Grows, NEW u \in Uuid, RecordInv(u),
           records'[u] = records[u]
    PROVE  RecordInv(u)'
<1>1. CASE records[u] = Absent
  BY <1>1 DEF RecordInv, Absent
<1>2. CASE records[u].kind = "launch"
  BY <1>2, OwnedStable DEF RecordInv, Absent
<1>3. CASE records[u].kind = "item"
  <2>1. PICK i \in Items : /\ u \in ServerIds \cup {ItemOwnId[i]}
                           /\ BeginOf(i, records[u].launch, records[u].parent)
    BY <1>3 DEF RecordInv, Absent
  <2>2. BeginOf(i, records[u].launch, records[u].parent)'
    BY <2>1, BeginOfStable DEF BeginOf, Grows, ParentHasStarted
  <2>3. records[u].state = "running" \/ u \in Owned'
    BY <1>3, OwnedStable DEF RecordInv, Absent
  <2> QED BY <1>3, <2>1, <2>2, <2>3 DEF RecordInv
<1> QED BY <1>1, <1>2, <1>3 DEF RecordInv

-----------------------------------------------------------------------------
(* What the server does with a request an object made.                     *)

\* A begin is processed under a new id: one of the server's, or the object's.
LEMMA FreshIds ==
    ASSUME NEW r \in Request, NEW u \in FreshFor(r)
    PROVE  /\ u \in Uuid
           /\ ~ Known(u)
           /\ u \in ServerIds \/ u = r.uuid
  BY DEF FreshFor, Uuid, UuidOrNil, Request

LEMMA RegisterRecords ==
    ASSUME TypeOK, TypeOK', IdInv, Grows, RecordsInv,
           NEW r \in Request, RequestInv(r), r.op \in Begins,
           NEW u \in Subjects(r), Register(r, u)
    PROVE  RecordsKeep /\ RecordsInv'
<1>1. u \in FreshFor(r)
  BY DEF Subjects, Begins
<1>2. /\ u \in Uuid
      /\ ~ Known(u)
      /\ u \in ServerIds \/ u = r.uuid
  BY <1>1, FreshIds
<1>3. \A v \in Uuid \ {u} : records'[v] = records[v]
  BY DEF Register, TypeOK
<1>4. records'[u] = [kind   |-> IF r.op = "begin_launch" THEN "launch" ELSE "item",
                     launch |-> r.launch,
                     parent |-> r.parent,
                     state  |-> "running",
                     status |-> Inherit]
  BY <1>2 DEF Register, TypeOK
<1>5. RecordsKeep
  BY <1>2, <1>3 DEF RecordsKeep, Known
<1>6. RecordInv(u)'
  <2>1. RequestInv(r)'
    BY RequestStable
  <2>2. CASE r.op = "begin_launch"
    BY <2>2, <2>1, <1>2, <1>4, NilIsNoId DEF RecordInv, RequestInv, Ends
  <2>3. CASE r.op = "begin_item"
    <3>1. PICK i \in Items : /\ r.uuid \in {NilUuid, ItemOwnId[i]}
                             /\ BeginOf(i, r.launch, r.parent)'
      BY <2>3, <2>1, BeginOfStable DEF RequestInv, Ends
    <3>2. u \in ServerIds \cup {ItemOwnId[i]}
      BY <3>1, <1>2, NilIsNoId
    <3>3. BeginOf(i, records[u].launch, records[u].parent)'
      BY <3>1, <1>4 DEF BeginOf, ParentHasStarted
    <3> QED BY <2>3, <3>2, <3>3, <1>4 DEF RecordInv
  <2> QED BY <2>2, <2>3 DEF Begins
<1>7. \A v \in Uuid \ {u} : RecordInv(v)'
  BY <1>3, RecordStable DEF RecordsInv
<1> QED BY <1>5, <1>6, <1>7 DEF RecordsInv

LEMMA FinishRecords ==
    ASSUME TypeOK, TypeOK', IdInv, Grows, RecordsInv,
           NEW r \in Request, RequestInv(r), r.op \in Ends,
           NEW u \in Subjects(r), Finish(r, u)
    PROVE  /\ RecordsKeep
           /\ RecordsInv'
           /\ u = r.uuid
           /\ u \in Uuid
           /\ records[u].kind = IF r.op = "end_launch" THEN "launch" ELSE "item"
           /\ records'[u].state = "finished"
<1>1. /\ u = r.uuid
      /\ Known(u)
      /\ u \in Uuid
      /\ records[u].kind = IF r.op = "end_launch" THEN "launch" ELSE "item"
  BY DEF Subjects, Ends, Known
<1>2. \A v \in Uuid \ {u} : records'[v] = records[v]
  BY DEF Finish, TypeOK
<1>3. records'[u] = [records[u] EXCEPT !.state = "finished", !.status = r.status]
  BY <1>1 DEF Finish, TypeOK
<1>4. records[u] \in Record
  BY <1>1 DEF TypeOK
<1>5. /\ records'[u].kind = records[u].kind
      /\ records'[u].launch = records[u].launch
      /\ records'[u].parent = records[u].parent
      /\ records'[u].state = "finished"
  BY <1>3, <1>4 DEF Record
<1>6. RecordsKeep
  BY <1>1, <1>2, <1>5 DEF RecordsKeep, Known
<1>7. RecordInv(u)'
  <2>1. u \in Owned'
    BY <1>1, OwnedStable DEF RequestInv, Begins, Ends
  <2>2. RecordInv(u)
    BY <1>1 DEF RecordsInv
  <2>3. CASE records[u].kind = "launch"
    BY <2>1, <2>2, <2>3, <1>5 DEF RecordInv, Absent
  <2>4. CASE records[u].kind = "item"
    <3>1. PICK i \in Items :
             /\ u \in ServerIds \cup {ItemOwnId[i]}
             /\ BeginOf(i, records[u].launch, records[u].parent)
      BY <2>2, <2>4 DEF RecordInv, Absent
    <3>2. BeginOf(i, records[u].launch, records[u].parent)'
      BY <3>1, <1>5, BeginOfStable DEF BeginOf, Grows, ParentHasStarted
    <3> QED BY <2>1, <2>4, <3>1, <3>2, <1>5 DEF RecordInv
  <2> QED BY <1>1, <2>3, <2>4
<1>8. \A v \in Uuid \ {u} : RecordInv(v)'
  BY <1>2, RecordStable DEF RecordsInv
<1> QED BY <1>1, <1>5, <1>6, <1>7, <1>8 DEF RecordsInv

-----------------------------------------------------------------------------
(* Steps that leave the identities of the objects alone.                   *)

SameIds == UNCHANGED <<launchId, launchStarted, itemId, itemStarted>>

Quiet == SameIds /\ UNCHANGED <<batchedLogs, logged>>

LEMMA QuietGrows ==
    ASSUME TypeOK, SameIds, UNCHANGED logged
    PROVE  Grows
  BY LoggedType DEF SameIds, Grows

\* The parent a begin names is the record of the parent item, nil for a launch.
LEMMA ParentUuidValue ==
    ASSUME IdInv, ReportedTree, NEW i \in Items, ParentHasStarted(i)
    PROVE  /\ launchStarted
           /\ ParentUuid(i) = IF Parent[i] = 0 THEN NilUuid
                                               ELSE itemId[Parent[i]]
<1>1. CASE Parent[i] = 0
  BY <1>1 DEF ParentUuid, ParentId, ParentLaunchId, ParentHasStarted
<1>2. CASE Parent[i] # 0
  <2>1. Parent[i] \in Started
    BY <1>2, ParentIsObject DEF Started, ParentHasStarted
  <2>2. launchStarted /\ itemId[Parent[i]] # launchId
    BY <2>1 DEF IdInv, ReportedTree
  <2> QED BY <1>2, <2>2 DEF ParentUuid, ParentId, ParentLaunchId
<1> QED BY <1>1, <1>2

LEMMA TreeKept ==
    ASSUME TypeOK, ReportedTree, DistinctIdentities, IdInv, SameIds, RecordsKeep,
           launchEnded' => launchStarted,
           \A i \in Items : endedBy'[i] # {} => itemStarted[i]
    PROVE  ReportedTree' /\ DistinctIdentities' /\ IdInv'
<1>1. launchId' = launchId /\ itemId' = itemId /\ Started' = Started
      /\ launchStarted' = launchStarted /\ itemStarted' = itemStarted
  BY DEF SameIds, Started
<1>2. DistinctIdentities' /\ IdInv'
  BY <1>1 DEF DistinctIdentities, IdInv
<1>3. \A i \in Items : ParentHasStarted(i)' = ParentHasStarted(i)
  BY <1>1 DEF ParentHasStarted
<1>4. launchStarted' =>
        Known(launchId)' /\ records'[launchId'].kind = "launch"
  BY <1>1 DEF ReportedTree, RecordsKeep, Known
<1>5. ASSUME NEW i \in Started'
      PROVE  /\ ParentHasStarted(i)'
             /\ Known(itemId[i])'
             /\ records'[itemId'[i]].kind = "item"
             /\ records'[itemId'[i]].launch = launchId'
             /\ records'[itemId'[i]].parent =
                    IF Parent[i] = 0 THEN NilUuid ELSE itemId'[Parent[i]]
  <2>1. i \in Started /\ i \in Items
    BY <1>1 DEF Started
  <2>2. itemId[i] \in Uuid /\ Known(itemId[i])
    BY <2>1 DEF ReportedTree, Known
  <2>3. /\ Known(itemId[i])'
        /\ records'[itemId[i]].kind = records[itemId[i]].kind
        /\ records'[itemId[i]].launch = records[itemId[i]].launch
        /\ records'[itemId[i]].parent = records[itemId[i]].parent
    BY <2>2, <1>1 DEF RecordsKeep, Known
  <2> QED BY <1>1, <1>3, <2>1, <2>3 DEF ReportedTree
<1> QED BY <1>2, <1>4, <1>5 DEF ReportedTree

LEMMA BatchKept ==
    ASSUME BatchInv, Quiet
    PROVE  BatchInv'
  BY DEF BatchInv, Quiet, SameIds, Entry

LEMMA EndsGrow ==
    ASSUME TypeOK, ReportedTree, EndFinishes, SameIds, RecordsKeep, IdInv,
           launchEnded' =>
              launchEnded \/ records'[launchId].state = "finished",
           \A i \in Items : "time" \in endedBy'[i] =>
              "time" \in endedBy[i] \/ records'[itemId[i]].state = "finished",
           \A i \in Items : "status" \in endedBy'[i] =>
              \/ "status" \in endedBy[i]
              \/ Parent[i] # 0 /\ records'[ParentId(i)].state = "finished"
    PROVE  EndFinishes'
<1>1. launchEnded' => records'[launchId'].state = "finished"
  BY DEF EndFinishes, SameIds, RecordsKeep, ReportedTree, Known, IdInv
<1>2. ASSUME NEW i \in Items, "time" \in endedBy'[i]
      PROVE  records'[itemId'[i]].state = "finished"
  <2>1. CASE "time" \in endedBy[i]
    <3>1. i \in Started
      BY <2>1 DEF IdInv, Started
    <3> QED BY <2>1, <3>1
            DEF EndFinishes, SameIds, RecordsKeep, ReportedTree, Known
  <2> QED BY <1>2, <2>1 DEF SameIds
<1>3. ASSUME NEW i \in Items, "status" \in endedBy'[i]
      PROVE  /\ Parent[i] # 0
             /\ records'[ParentId(i)'].state = "finished"
  <2>1. CASE "status" \in endedBy[i]
    <3>1. i \in Started
      BY <2>1 DEF IdInv, Started
    <3>2. /\ Parent[i] # 0
          /\ ParentId(i) = itemId[Parent[i]]
          /\ ParentId(i)' = itemId'[Parent[i]]
          /\ records[ParentId(i)].state = "finished"
      BY <2>1 DEF EndFinishes, ParentId
    <3>3. Parent[i] \in Started
      BY <3>1, <3>2, ParentIsObject
         DEF ReportedTree, ParentHasStarted, Started
    <3> QED BY <3>2, <3>3 DEF SameIds, RecordsKeep, ReportedTree, Known
  <2> QED BY <1>3, <2>1 DEF SameIds, ParentId
<1> QED BY <1>1, <1>2, <1>3 DEF EndFinishes

LEMMA EndsKept ==
    ASSUME TypeOK, ReportedTree, EndFinishes, SameIds, RecordsKeep, IdInv,
           UNCHANGED <<launchEnded, endedBy>>
    PROVE  EndFinishes'
  BY EndsGrow

-----------------------------------------------------------------------------
(* The log table.                                                          *)

LEMMA StoredKept ==
    ASSUME TypeOK, TypeOK', IdInv, Grows, StoredInv, stored' = stored
    PROVE  StoredInv'
<1> SUFFICES ASSUME NEW e \in stored
             PROVE  \E i \in Started' : e.n <= logged'[i] /\ e = Entry(i, e.n)'
  BY DEF StoredInv
<1>1. PICK i \in Started : e.n <= logged[i] /\ e = Entry(i, e.n)
  BY DEF StoredInv
<1>2. i \in Started' /\ Entry(i, e.n)' = Entry(i, e.n)
  BY EntryStable
<1>3. i \in Items /\ logged[i] <= logged'[i]
  BY DEF Started, Grows
<1>4. e.n \in Nat /\ logged[i] \in Nat /\ logged'[i] \in Nat
  BY <1>3, BoundAssumption DEF TypeOK, LogEntry, BoundAssumption
<1>5. e.n <= logged'[i]
  BY <1>1, <1>3, <1>4
<1> QED BY <1>1, <1>2, <1>5

LEMMA NoGapKept ==
    ASSUME NoGapInLogs, SameIds, stored' = stored
    PROVE  NoGapInLogs'
  BY DEF NoGapInLogs, SameIds, Entry, Started

\* Storing the first entries of one item leaves no gap.
LEMMA LogsStored ==
    ASSUME TypeOK, TypeOK', IdInv, StoredInv, NoGapInLogs, DistinctIdentities,
           SameIds, UNCHANGED logged,
           NEW j \in Started, NEW m \in 0 .. logged[j],
           stored' = stored \cup FirstEntries(j, m)
    PROVE  StoredInv' /\ NoGapInLogs'
<1>1. /\ Started' = Started
      /\ \A i, k : Entry(i, k)' = Entry(i, k)
      /\ itemId' = itemId
      /\ logged' = logged
  BY DEF SameIds, Started, Entry
<1>2. j \in Items /\ logged[j] \in Nat
  BY LoggedType DEF Started
<1>3. ASSUME NEW e \in stored'
      PROVE  \E i \in Started : e.n <= logged[i] /\ e = Entry(i, e.n)
  <2>1. CASE e \in stored
    BY <2>1 DEF StoredInv
  <2>2. CASE e \in FirstEntries(j, m)
    BY <2>2, <1>2 DEF FirstEntries, Entry
  <2> QED BY <2>1, <2>2
<1>4. ASSUME NEW i \in Started, NEW e \in stored', e.item = itemId[i],
             NEW k \in 1 .. e.n
      PROVE  Entry(i, k) \in stored'
  <2>1. CASE e \in stored
    BY <2>1, <1>4 DEF NoGapInLogs
  <2>2. CASE e \in FirstEntries(j, m)
    <3>1. PICK l \in 1 .. m : e = Entry(j, l)
      BY <2>2 DEF FirstEntries
    <3>2. i = j
      BY <1>4, <3>1 DEF DistinctIdentities, Entry
    <3>3. k \in 1 .. m
      BY <3>1, <1>2 DEF Entry
    <3> QED BY <3>2, <3>3 DEF FirstEntries
  <2> QED BY <2>1, <2>2
<1>5. StoredInv'
  BY <1>1, <1>3 DEF StoredInv
<1>6. NoGapInLogs'
  BY <1>1, <1>4 DEF NoGapInLogs
<1> QED BY <1>5, <1>6

-----------------------------------------------------------------------------
(* The wire.                                                               *)

LEMMA WireKept ==
    ASSUME TypeOK, TypeOK', IdInv, WireInv, Grows, wire' \subseteq wire
    PROVE  WireInv'
  BY RequestStable DEF WireInv

LEMMA WireAdded ==
    ASSUME TypeOK, TypeOK', IdInv, WireInv, Grows,
           NEW r, RequestInv(r), Aborted(r)
    PROVE  WireInv'
  BY RequestStable DEF WireInv, Aborted

-----------------------------------------------------------------------------
(* Types of what the calls change.                                         *)

LEMMA RequestTypes ==
    ASSUME NEW u \in UuidOrNil, NEW l \in UuidOrNil, NEW p \in UuidOrNil,
           NEW s \in Status, NEW es \in SUBSET LogEntry
    PROVE  /\ BeginLaunchRequest(u) \in Request
           /\ EndLaunchRequest(u) \in Request
           /\ BeginItemRequest(l, p, u) \in Request
           /\ EndItemRequest(u, l, s) \in Request
           /\ LogsRequest(es) \in Request
  BY DEF BeginLaunchRequest, EndLaunchRequest, BeginItemRequest,
         EndItemRequest, LogsRequest, Request, Begins, Ends, Status, UuidOrNil

LEMMA RegisterType ==
    ASSUME TypeOK, NEW r \in Request, NEW u, Register(r, u)
    PROVE  records' \in [Uuid -> Record]
  BY DEF TypeOK, Register, Record, Request, Status

LEMMA FinishType ==
    ASSUME TypeOK, NEW r \in Request, NEW u \in Uuid, Finish(r, u)
    PROVE  records' \in [Uuid -> Record]
<1>1. records[u] \in Record /\ r.status \in Status
  BY DEF TypeOK, Request
<1>2. [records[u] EXCEPT !.state = "finished"] \in Record
  BY <1>1 DEF Record
<1>3. [[records[u] EXCEPT !.state = "finished"] EXCEPT !.status = r.status]
        \in Record
  BY <1>1, <1>2 DEF Record
<1> QED BY <1>3 DEF TypeOK, Finish

LEMMA AbortedType ==
    ASSUME TypeOK, NEW r \in Request, Aborted(r)
    PROVE  /\ wire' \subseteq Flight
           /\ aborts' \in 0 .. MaxAborts
           /\ records' \in [Uuid -> Record]
<1>1. aborts + 1 \in 1 .. MaxAborts
  BY BoundAssumption DEF TypeOK, Aborted, BoundAssumption
<1> QED BY <1>1 DEF TypeOK, Aborted, Flight

LEMMA ParentIdType ==
    ASSUME TypeOK, NEW i \in Items
    PROVE  /\ ParentId(i) \in UuidOrNil
           /\ ParentUuid(i) \in UuidOrNil
           /\ itemId[i] \in UuidOrNil
           /\ itemStatus[i] \in Status
           /\ launchId \in UuidOrNil
  BY ParentIsObject DEF TypeOK, ParentId, ParentUuid, UuidOrNil

\* An object that has started has an id.
LEMMA StartedIds ==
    ASSUME IInv
    PROVE  /\ launchStarted => launchId \in Uuid /\ launchId \in Owned
           /\ \A i \in Started : /\ launchStarted
                                 /\ itemId[i] \in Uuid /\ itemId[i] \in Owned
                                 /\ ParentHasStarted(i)
                                 /\ ParentId(i) \in Owned
<1>1. launchStarted => launchId \in Uuid /\ launchId \in Owned
  BY DEF IInv, ReportedTree, Known, Owned
<1>2. ASSUME NEW i \in Started
      PROVE  /\ launchStarted
             /\ itemId[i] \in Uuid /\ itemId[i] \in Owned
             /\ ParentHasStarted(i)
  BY DEF IInv, ReportedTree, Known, Owned, IdInv
<1>3. ASSUME NEW i \in Started
      PROVE  ParentId(i) \in Owned
  <2>1. CASE Parent[i] = 0
    BY <2>1, <1>1, <1>2 DEF ParentId
  <2>2. CASE Parent[i] # 0
    <3>1. Parent[i] \in Started
      BY <2>2, <1>2, ParentIsObject DEF ParentHasStarted, Started
    <3> QED BY <2>2, <3>1, <1>2 DEF ParentId
  <2> QED BY <2>1, <2>2
<1> QED BY <1>1, <1>2, <1>3

-----------------------------------------------------------------------------
(* The requests the objects make are ones the invariant allows.            *)

LEMMA LaunchRequests ==
    ASSUME IInv
    PROVE  /\ ~ launchStarted => RequestInv(BeginLaunchRequest(launchId))
           /\ launchStarted => RequestInv(EndLaunchRequest(launchId))
  BY StartedIds
     DEF IInv, IdInv, RequestInv, BeginLaunchRequest, EndLaunchRequest, Ends

LEMMA ItemBegin ==
    ASSUME IInv, NEW i \in Items, ItemCanStart(i)
    PROVE  RequestInv(BeginItemRequest(ParentLaunchId, ParentUuid(i), itemId[i]))
<1>1. launchStarted /\ ParentUuid(i) = IF Parent[i] = 0 THEN NilUuid
                                                        ELSE itemId[Parent[i]]
  BY ParentUuidValue DEF IInv, ItemCanStart
<1>2. BeginOf(i, ParentLaunchId, ParentUuid(i))
  BY <1>1 DEF BeginOf, ItemCanStart, ParentLaunchId
<1>3. itemId[i] \in {NilUuid, ItemOwnId[i]}
  BY DEF IInv, IdInv, ItemCanStart
<1> QED BY <1>2, <1>3 DEF RequestInv, BeginItemRequest, Begins

LEMMA ItemEnds ==
    ASSUME IInv, NEW i \in Started, NEW s
    PROVE  /\ RequestInv(EndItemRequest(itemId[i], ParentId(i), s))
           /\ RequestInv(EndItemRequest(ParentId(i), itemId[i], s))
  BY StartedIds DEF RequestInv, EndItemRequest, Ends

\* A batch that is not empty is the log of a started item, from its beginning.
LEMMA BatchIsLog ==
    ASSUME IInv, NEW i \in Items, batchedLogs[i] # << >>
    PROVE  /\ i \in Started
           /\ Batch(i) = FirstEntries(i, logged[i])
           /\ Batch(i) \in SUBSET LogEntry
           /\ RequestInv(LogsRequest(Batch(i)))
<1>1. logged[i] \in Nat /\ batchedLogs[i] = [k \in 1 .. logged[i] |-> Entry(i, k)]
  BY LoggedType DEF IInv, BatchInv
<1>2. logged[i] > 0
  <2>1. ASSUME logged[i] = 0 PROVE FALSE
    <3>1. 1 .. logged[i] = {}
      BY <2>1
    <3>2. batchedLogs[i] = << >>
      BY <1>1, <3>1
    <3> QED BY <3>2
  <2> QED BY <1>1, <2>1
<1>3. i \in Started
  BY <1>2 DEF IInv, BatchInv, Started
<1>4. Batch(i) = FirstEntries(i, logged[i])
  BY <1>1 DEF Batch, Range, FirstEntries
<1>5. Batch(i) \in SUBSET LogEntry
  <2>1. batchedLogs[i] \in Seq(LogEntry)
    BY DEF IInv, TypeOK
  <2>2. \A k \in DOMAIN batchedLogs[i] : batchedLogs[i][k] \in LogEntry
    BY <2>1
  <2> QED BY <2>2 DEF Batch, Range
<1>6. RequestInv(LogsRequest(Batch(i)))
  BY <1>1, <1>3, <1>4 DEF RequestInv, LogsRequest
<1> QED BY <1>3, <1>4, <1>5, <1>6

LEMMA FlushStores ==
    ASSUME IInv, TypeOK', Quiet, NEW i \in Items, FlushReturns(i)
    PROVE  StoredInv' /\ NoGapInLogs'
<1>1. Grows
  BY QuietGrows DEF IInv, Quiet
<1>2. CASE stored' = stored
  BY <1>1, <1>2, StoredKept, NoGapKept DEF IInv, Quiet
<1>3. CASE batchedLogs[i] # << >> /\ stored' = stored \cup Batch(i)
  <2>1. i \in Started /\ Batch(i) = FirstEntries(i, logged[i])
    BY <1>3, BatchIsLog
  <2>2. i \in Items /\ logged[i] \in 0 .. logged[i]
    BY LoggedType DEF IInv
  <2>3. stored' = stored \cup FirstEntries(i, logged[i])
    BY <1>3, <2>1
  <2>4. UNCHANGED logged /\ SameIds
    BY DEF Quiet
  <2> QED BY <2>1, <2>2, <2>3, <2>4, LogsStored DEF IInv
<1> QED BY <1>2, <1>3 DEF FlushReturns, BatchLogsReturns, Store, LogsRequest

LEMMA FlushType ==
    ASSUME IInv, NEW i \in Items, FlushReturns(i)
    PROVE  stored' \subseteq LogEntry
  BY BatchIsLog
     DEF IInv, TypeOK, FlushReturns, BatchLogsReturns, Store, LogsRequest

-----------------------------------------------------------------------------
(* Every action keeps the invariant.                                       *)

LEMMA InitInv == Init => IInv
<1> SUFFICES ASSUME Init PROVE IInv
  OBVIOUS
<1> USE DEF Init, ServiceInit, ServerInit, LaunchInit, ItemInit
<1>1. TypeOK
  <2>1. Absent \in Record
    BY DEF Absent, Record, UuidOrNil, Status
  <2>2. aborts \in 0 .. MaxAborts /\ 0 \in 0 .. MaxLogs
    BY BoundAssumption DEF BoundAssumption
  <2>3. launchId \in UuidOrNil
    BY LaunchOwnIdAssumption DEF LaunchOwnIdAssumption, UuidOrNil, Uuid
  <2>4. << >> \in Seq(LogEntry)
    OBVIOUS
  <2>5. batchedLogs \in [Items -> Seq(LogEntry)]
    BY <2>4
  <2>6. /\ itemId \in [Items -> UuidOrNil]
        /\ itemStatus \in [Items -> Status]
        /\ logged \in [Items -> 0 .. MaxLogs]
    BY <2>2 DEF Status
  <2> QED BY <2>1, <2>2, <2>3, <2>5, <2>6 DEF TypeOK
<1>2. Started = {}
  BY DEF Started
<1>3. IdInv
  BY <1>2 DEF IdInv
<1>4. ReportedTree /\ DistinctIdentities /\ StoredInv /\ NoGapInLogs
  BY <1>2 DEF ReportedTree, DistinctIdentities, StoredInv, NoGapInLogs
<1>5. RecordsInv /\ WireInv /\ EndFinishes
  BY DEF RecordsInv, RecordInv, WireInv, EndFinishes
<1>6. BatchInv
  BY DEF BatchInv
<1> QED BY <1>1, <1>3, <1>4, <1>5, <1>6 DEF IInv

\* What is left to show of a step that changes no identity and no batch.
LEMMA QuietStep ==
    ASSUME IInv, TypeOK', Quiet, RecordsKeep, RecordsInv', WireInv',
           StoredInv', NoGapInLogs', EndFinishes',
           launchEnded' => launchStarted,
           \A i \in Items : endedBy'[i] # {} => itemStarted[i]
    PROVE  IInv'
<1>1. ReportedTree' /\ DistinctIdentities' /\ IdInv'
  BY TreeKept DEF IInv, Quiet
<1>2. BatchInv'
  BY BatchKept DEF IInv
<1> QED BY <1>1, <1>2 DEF IInv

\* The call has no answer: only the wire, and the life of the process, change.
LEMMA UnansweredStep ==
    ASSUME IInv, TypeOK', Quiet, NEW r \in Request, RequestInv(r), Aborted(r),
           StoredInv', NoGapInLogs', UNCHANGED <<launchEnded, endedBy>>
    PROVE  IInv'
<1>1. Grows
  BY QuietGrows DEF IInv, Quiet
<1>2. records' = records
  BY DEF Aborted
<1>3. RecordsKeep
  BY <1>2 DEF RecordsKeep, Known
<1>4. RecordsInv'
  BY <1>1, <1>2, RecordStable DEF IInv, RecordsInv
<1>5. WireInv'
  BY <1>1, WireAdded DEF IInv
<1>6. EndFinishes'
  BY <1>3, EndsKept DEF IInv, Quiet
<1>7. /\ launchEnded' => launchStarted
      /\ \A i \in Items : endedBy'[i] # {} => itemStarted[i]
  BY DEF IInv, IdInv
<1> QED BY <1>3, <1>4, <1>5, <1>6, <1>7, QuietStep

\* A call that changes no record and is not left on the wire.
LEMMA NoCallStep ==
    ASSUME IInv, TypeOK', Quiet, UNCHANGED <<records, launchEnded, endedBy>>,
           wire' \subseteq wire, StoredInv', NoGapInLogs'
    PROVE  IInv'
<1>1. Grows
  BY QuietGrows DEF IInv, Quiet
<1>3. RecordsKeep
  BY DEF RecordsKeep, Known
<1>4. RecordsInv'
  BY <1>1, RecordStable DEF IInv, RecordsInv
<1>5. WireInv'
  BY <1>1, WireKept DEF IInv
<1>6. EndFinishes'
  BY <1>3, EndsKept DEF IInv, Quiet
<1>7. /\ launchEnded' => launchStarted
      /\ \A i \in Items : endedBy'[i] # {} => itemStarted[i]
  BY DEF IInv, IdInv
<1> QED BY <1>3, <1>4, <1>5, <1>6, <1>7, QuietStep

LEMMA LogsKept ==
    ASSUME IInv, TypeOK', SameIds, UNCHANGED <<logged, stored>>
    PROVE  StoredInv' /\ NoGapInLogs'
  BY QuietGrows, StoredKept, NoGapKept DEF IInv

LEMMA LaunchStartStep ==
    ASSUME IInv, LaunchStart, UNCHANGED itemVars
    PROVE  IInv' /\ Grows
<1> DEFINE r == BeginLaunchRequest(launchId)
<1> USE DEF itemVars, historyVars
<1>1. r \in Request /\ RequestInv(r) /\ r.op = "begin_launch"
  <2>1. NilUuid \in UuidOrNil /\ Inherit \in Status /\ {} \in SUBSET LogEntry
    BY DEF UuidOrNil, Status
  <2>2. launchId \in UuidOrNil
    BY DEF IInv, TypeOK
  <2> QED BY <2>1, <2>2, RequestTypes, LaunchRequests
          DEF LaunchStart, LaunchCanStart, BeginLaunchRequest
<1>2. CASE Unanswered(r) /\ UNCHANGED <<launchId, launchStarted>>
  <2>1. TypeOK'
    BY <1>1, <1>2, AbortedType DEF IInv, TypeOK, Unanswered, LaunchStart
  <2>2. Quiet /\ UNCHANGED <<launchEnded, endedBy, stored>>
    BY <1>2 DEF Quiet, SameIds, LaunchStart
  <2>3. StoredInv' /\ NoGapInLogs'
    BY <2>1, <2>2, LogsKept DEF Quiet
  <2>4. Grows
    BY <2>2, QuietGrows DEF IInv, Quiet
  <2> QED BY <1>1, <1>2, <2>1, <2>2, <2>3, <2>4, UnansweredStep DEF Unanswered
<1>3. ASSUME NEW u \in Uuid, BeginAnswered(r, u),
             launchStarted' = TRUE, launchId' = AnsweredId(r, u)
      PROVE  IInv' /\ Grows
  <2>1. u \in Subjects(r) /\ Register(r, u) /\ launchId' = u
    BY <1>3 DEF BeginAnswered, AnsweredId
  <2>2. TypeOK'
    BY <1>1, <1>3, <2>1, RegisterType
       DEF IInv, TypeOK, BeginAnswered, LaunchStart, UuidOrNil
  <2>3. ~ launchStarted /\ Started = {} /\ Started' = {}
    BY DEF LaunchStart, LaunchCanStart, IInv, IdInv, Started
  <2>4. Grows
    BY <2>3, LoggedType DEF Grows, Started, IInv
  <2>5. RecordsKeep /\ RecordsInv'
    BY <1>1, <2>1, <2>2, <2>4, RegisterRecords DEF IInv, Begins
  <2>6. WireInv'
    BY <1>3, <2>2, <2>4, WireKept DEF IInv, BeginAnswered
  <2>7. records'[u].kind = "launch" /\ Known(u)'
    BY <1>1, <2>1, <2>2 DEF Register, IInv, TypeOK, Known
  <2>8. ReportedTree'
    BY <1>3, <2>1, <2>3, <2>7 DEF ReportedTree, Known
  <2>9. DistinctIdentities' /\ StoredInv' /\ NoGapInLogs'
    BY <2>3 DEF IInv, DistinctIdentities, StoredInv, NoGapInLogs, LaunchStart
  <2>10. IdInv'
    BY <1>3, <2>3 DEF IInv, IdInv, LaunchStart, Started
  <2>11. BatchInv'
    <3>1. ASSUME NEW i \in Items PROVE logged[i] = 0
      <4>1. ~ (logged[i] > 0)
        BY <2>3 DEF IInv, BatchInv, Started
      <4>2. logged[i] \in Nat
        BY LoggedType DEF IInv
      <4> QED BY <4>1, <4>2
    <3>2. \A i \in Items : batchedLogs[i] = [k \in 1 .. 0 |-> Entry(i, k)]
      BY <3>1 DEF IInv, BatchInv
    <3>3. \A i \in Items : [k \in 1 .. 0 |-> Entry(i, k)'] = [k \in 1 .. 0 |-> Entry(i, k)]
      OBVIOUS
    <3> QED BY <3>1, <3>2, <3>3 DEF BatchInv
  <2>12. EndFinishes'
    <3>1. ~ launchEnded' /\ \A i \in Items : endedBy'[i] = {}
      BY <2>3 DEF LaunchStart, LaunchCanStart, IInv, IdInv, Started
    <3> QED BY <3>1 DEF EndFinishes
  <2> QED BY <2>2, <2>4, <2>5, <2>6, <2>8, <2>9, <2>10, <2>11, <2>12 DEF IInv
<1> QED BY <1>2, <1>3 DEF LaunchStart

\* An end was answered: the record it names is finished.
LEMMA EndAnsweredKeeps ==
    ASSUME IInv, TypeOK', Grows,
           NEW r \in Request, RequestInv(r), r.op \in Ends, EndAnswered(r)
    PROVE  /\ RecordsKeep
           /\ RecordsInv'
           /\ records'[r.uuid].state = "finished"
           /\ records[r.uuid].kind =
                 IF r.op = "end_launch" THEN "launch" ELSE "item"
<1>1. PICK u \in Subjects(r) : Finish(r, u)
  BY DEF EndAnswered
<1> QED BY <1>1, FinishRecords DEF IInv

LEMMA EndAnsweredStep ==
    ASSUME IInv, TypeOK', Quiet,
           NEW r \in Request, RequestInv(r), r.op \in Ends, EndAnswered(r),
           StoredInv', NoGapInLogs', EndFinishes',
           launchEnded' => launchStarted,
           \A i \in Items : endedBy'[i] # {} => itemStarted[i]
    PROVE  IInv'
<1>1. Grows
  BY QuietGrows DEF IInv, Quiet
<1>2. RecordsKeep /\ RecordsInv'
  BY <1>1, EndAnsweredKeeps
<1>3. WireInv'
  BY <1>1, WireKept DEF IInv, EndAnswered
<1> QED BY <1>2, <1>3, QuietStep

LEMMA EndAnsweredType ==
    ASSUME TypeOK, NEW r \in Request, r.op \in Ends, EndAnswered(r)
    PROVE  /\ records' \in [Uuid -> Record]
           /\ UNCHANGED <<wire, aborts, alive>>
<1>1. PICK u \in Subjects(r) : Finish(r, u)
  BY DEF EndAnswered
<1>2. u \in Uuid
  BY DEF Subjects, Ends, Known
<1> QED BY <1>1, <1>2, FinishType DEF EndAnswered

LEMMA LaunchEndStep ==
    ASSUME IInv, LaunchEnd, UNCHANGED itemVars
    PROVE  IInv' /\ Grows
<1> DEFINE r == EndLaunchRequest(launchId)
<1> USE DEF itemVars, historyVars
<1>1. r \in Request /\ RequestInv(r) /\ r.op = "end_launch" /\ r.uuid = launchId
  <2>1. NilUuid \in UuidOrNil /\ Inherit \in Status /\ {} \in SUBSET LogEntry
    BY DEF UuidOrNil, Status
  <2>2. launchId \in UuidOrNil
    BY DEF IInv, TypeOK
  <2> QED BY <2>1, <2>2, RequestTypes, LaunchRequests
          DEF LaunchEnd, EndLaunchRequest
<1>2. Quiet /\ UNCHANGED <<endedBy, stored>> /\ launchStarted
  BY DEF Quiet, SameIds, LaunchEnd
<1>3. Grows
  BY <1>2, QuietGrows DEF IInv, Quiet
<1>4. CASE Unanswered(r) /\ UNCHANGED launchEnded
  <2>1. TypeOK'
    BY <1>1, <1>4, AbortedType DEF IInv, TypeOK, Unanswered, LaunchEnd
  <2>2. StoredInv' /\ NoGapInLogs'
    BY <2>1, <1>2, LogsKept DEF Quiet
  <2> QED BY <1>1, <1>2, <1>3, <1>4, <2>1, <2>2, UnansweredStep DEF Unanswered
<1>5. CASE EndAnswered(r) /\ launchEnded' = TRUE
  <2>1. TypeOK'
    BY <1>1, <1>5, EndAnsweredType DEF IInv, TypeOK, LaunchEnd, Ends
  <2>2. StoredInv' /\ NoGapInLogs'
    BY <2>1, <1>2, LogsKept DEF Quiet
  <2>3. RecordsKeep /\ records'[launchId].state = "finished"
    BY <1>1, <1>3, <1>5, <2>1, EndAnsweredKeeps DEF Ends
  <2>4. EndFinishes'
    BY <1>2, <2>3, EndsGrow DEF IInv, Quiet
  <2>5. \A i \in Items : endedBy'[i] # {} => itemStarted[i]
    BY <1>2 DEF IInv, IdInv
  <2> QED BY <1>1, <1>2, <1>3, <1>5, <2>1, <2>2, <2>4, <2>5, EndAnsweredStep
          DEF Ends
<1> QED BY <1>4, <1>5 DEF LaunchEnd

LEMMA ItemStartStep ==
    ASSUME IInv, NEW i \in Items, ItemStart(i), UNCHANGED launchVars
    PROVE  IInv' /\ Grows
<1> DEFINE r == BeginItemRequest(ParentLaunchId, ParentUuid(i), itemId[i])
<1> USE DEF launchVars, historyVars
<1>1. /\ r \in Request /\ RequestInv(r) /\ r.op = "begin_item"
      /\ r.launch = launchId /\ r.parent = ParentUuid(i)
  <2>1. NilUuid \in UuidOrNil /\ Inherit \in Status /\ {} \in SUBSET LogEntry
    BY DEF UuidOrNil, Status
  <2>2. ParentLaunchId \in UuidOrNil /\ ParentUuid(i) \in UuidOrNil
        /\ itemId[i] \in UuidOrNil
    BY ParentIdType DEF IInv, ParentLaunchId
  <2> QED BY <2>1, <2>2, RequestTypes, ItemBegin
          DEF ItemStart, BeginItemRequest, ParentLaunchId
<1>2. CASE Unanswered(r) /\ UNCHANGED <<itemId, itemStarted>>
  <2>1. TypeOK'
    BY <1>1, <1>2, AbortedType DEF IInv, TypeOK, Unanswered, ItemStart
  <2>2. Quiet /\ UNCHANGED <<launchEnded, endedBy, stored>>
    BY <1>2 DEF Quiet, SameIds, ItemStart
  <2>3. StoredInv' /\ NoGapInLogs'
    BY <2>1, <2>2, LogsKept DEF Quiet
  <2>4. Grows
    BY <2>2, QuietGrows DEF IInv, Quiet
  <2> QED BY <1>1, <1>2, <2>1, <2>2, <2>3, <2>4, UnansweredStep DEF Unanswered
<1>3. ASSUME NEW u \in Uuid, BeginAnswered(r, u),
             itemStarted' = [itemStarted EXCEPT ![i] = TRUE],
             itemId' = [itemId EXCEPT ![i] = AnsweredId(r, u)]
      PROVE  IInv' /\ Grows
  <2>1. /\ u \in Subjects(r) /\ Register(r, u)
        /\ itemId' = [itemId EXCEPT ![i] = u]
        /\ u \in FreshFor(r) /\ ~ Known(u)
    BY <1>1, <1>3 DEF BeginAnswered, AnsweredId, Subjects, FreshFor
  <2>2. TypeOK'
    BY <1>1, <1>3, <2>1, RegisterType
       DEF IInv, TypeOK, BeginAnswered, ItemStart, UuidOrNil
  <2>3. /\ ~ itemStarted[i] /\ i \notin Started
        /\ Started' = Started \cup {i}
        /\ \A j \in Items : j # i => itemId'[j] = itemId[j]
        /\ itemId'[i] = u
        /\ launchId' = launchId /\ launchStarted
    <3>1. launchStarted
      BY ParentUuidValue DEF ItemStart, ItemCanStart, IInv
    <3> QED BY <1>3, <2>1, <3>1
            DEF ItemStart, ItemCanStart, Started, IInv, TypeOK
  <2>4. Grows
    BY <1>3, <2>3, LoggedType DEF Grows, IInv, TypeOK, ItemStart
  <2>5. RecordsKeep /\ RecordsInv'
    BY <1>1, <2>1, <2>2, <2>4, RegisterRecords DEF IInv, Begins
  <2>6. WireInv'
    BY <1>3, <2>2, <2>4, WireKept DEF IInv, BeginAnswered
  <2>7. /\ Known(u)'
        /\ records'[u].kind = "item"
        /\ records'[u].launch = launchId
        /\ records'[u].parent = ParentUuid(i)
    BY <1>1, <2>1, <2>2 DEF Register, IInv, TypeOK, Known
  <2>8. ReportedTree'
    <3>1. Known(launchId)' /\ records'[launchId].kind = "launch"
      BY <2>3, <2>5 DEF IInv, ReportedTree, RecordsKeep, Known
    <3>2. \A j \in Items : ParentHasStarted(j) => ParentHasStarted(j)'
      BY <2>3, <2>4, ParentIsObject DEF Grows, ParentHasStarted
    <3>3. \A j \in Items : j \in Started =>
            /\ ParentHasStarted(j)
            /\ Parent[j] # 0 => Parent[j] \in Started
      BY ParentIsObject DEF IInv, ReportedTree, ParentHasStarted, Started
    <3>4. ASSUME NEW j \in Started
          PROVE  /\ ParentHasStarted(j)'
                 /\ Known(itemId[j])'
                 /\ itemId'[j] = itemId[j]
                 /\ records'[itemId[j]].kind = "item"
                 /\ records'[itemId[j]].launch = launchId
                 /\ records'[itemId[j]].parent =
                        IF Parent[j] = 0 THEN NilUuid ELSE itemId'[Parent[j]]
      <4>1. j \in Items /\ j # i
        BY <2>3 DEF Started
      <4>2. /\ Known(itemId[j])
            /\ itemId[j] \in Uuid
            /\ records[itemId[j]].kind = "item"
            /\ records[itemId[j]].launch = launchId
            /\ records[itemId[j]].parent =
                        IF Parent[j] = 0 THEN NilUuid ELSE itemId[Parent[j]]
        BY DEF IInv, ReportedTree, Known
      <4>3. Parent[j] # 0 => itemId'[Parent[j]] = itemId[Parent[j]]
        BY <3>3, <4>1, <2>3 DEF Started
      <4> QED BY <2>3, <2>5, <3>2, <3>3, <4>1, <4>2, <4>3 DEF RecordsKeep, Known
    <3>5. /\ ParentHasStarted(i)
          /\ ParentUuid(i) = IF Parent[i] = 0 THEN NilUuid ELSE itemId[Parent[i]]
      BY ParentUuidValue DEF ItemStart, ItemCanStart, IInv
    <3>6. Parent[i] # 0 => itemId'[Parent[i]] = itemId[Parent[i]]
      <4>1. Parent[i] # i
        BY TreeAssumption DEF TreeAssumption, Items
      <4> QED BY <4>1, <2>3, ParentIsObject
    <3>7. /\ ParentHasStarted(i)'
          /\ records'[itemId'[i]].parent =
                IF Parent[i] = 0 THEN NilUuid ELSE itemId'[Parent[i]]
      BY <2>3, <2>7, <3>2, <3>5, <3>6
    <3> QED BY <2>3, <2>7, <3>1, <3>4, <3>7 DEF ReportedTree, Known
  <2>9. DistinctIdentities'
    <3>1. \A j \in Started : itemId'[j] = itemId[j] /\ itemId[j] # u
      BY <2>1, <2>3 DEF IInv, ReportedTree, Started
    <3> QED BY <2>3, <3>1 DEF IInv, DistinctIdentities
  <2>10. IdInv'
    BY <1>3, <2>3 DEF IInv, IdInv, ItemStart, Started, TypeOK
  <2>11. \A k : \A j \in Items : j # i => Entry(j, k)' = Entry(j, k)
    BY <2>3 DEF Entry
  <2>12. logged[i] = 0 /\ batchedLogs[i] = << >>
    <3>1. ~ (logged[i] > 0) /\ logged[i] \in Nat
      BY <2>3, LoggedType DEF IInv, BatchInv
    <3>2. logged[i] = 0
      BY <3>1
    <3>3. batchedLogs[i] = [k \in 1 .. 0 |-> Entry(i, k)]
      BY <3>2 DEF IInv, BatchInv
    <3> QED BY <3>2, <3>3
  <2>13. BatchInv'
    <3>1. ASSUME NEW j \in Items
          PROVE  /\ logged'[j] > 0 => itemStarted'[j]
                 /\ batchedLogs'[j] = [k \in 1 .. logged'[j] |-> Entry(j, k)']
      <4>1. CASE j = i
        BY <4>1, <2>12 DEF ItemStart
      <4>2. CASE j # i
        BY <4>2, <1>3, <2>11 DEF IInv, BatchInv, ItemStart, TypeOK
      <4> QED BY <4>1, <4>2
    <3> QED BY <3>1 DEF BatchInv
  <2>14. StoredInv'
    BY <2>2, <2>4, StoredKept DEF IInv, ItemStart
  <2>15. NoGapInLogs'
    <3>1. SUFFICES ASSUME NEW j \in Started', NEW e \in stored,
                          e.item = itemId'[j], NEW k \in 1 .. e.n
                   PROVE  Entry(j, k)' \in stored
      BY DEF NoGapInLogs, ItemStart
    <3>2. PICK l \in Started : e = Entry(l, e.n)
      BY DEF IInv, StoredInv
    <3>3. e.item = itemId[l] /\ l \in Items /\ Known(e.item)
      BY <3>2 DEF Entry, IInv, ReportedTree, Started
    <3>4. j \in Started /\ j # i /\ j \in Items
      BY <3>1, <3>3, <2>1, <2>3 DEF Started
    <3>5. Entry(j, k) \in stored
      BY <3>1, <3>4, <2>3 DEF IInv, NoGapInLogs
    <3> QED BY <3>4, <3>5, <2>11
  <2>16. EndFinishes'
    <3>1. endedBy[i] = {}
      BY <2>3 DEF IInv, IdInv
    <3>2. launchEnded' => records'[launchId'].state = "finished"
      BY <2>3, <2>5 DEF IInv, EndFinishes, ReportedTree, RecordsKeep, Known, ItemStart
    <3>3. ASSUME NEW j \in Items, "time" \in endedBy'[j]
          PROVE  records'[itemId'[j]].state = "finished"
      <4>1. j # i /\ j \in Started /\ "time" \in endedBy[j]
        BY <3>1, <3>3 DEF ItemStart, IInv, IdInv, Started
      <4> QED BY <4>1, <2>3, <2>5
              DEF IInv, EndFinishes, ReportedTree, RecordsKeep, Known
    <3>4. ASSUME NEW j \in Items, "status" \in endedBy'[j]
          PROVE  Parent[j] # 0 /\ records'[ParentId(j)'].state = "finished"
      <4>1. j # i /\ j \in Started /\ "status" \in endedBy[j]
        BY <3>1, <3>4 DEF ItemStart, IInv, IdInv, Started
      <4>2. Parent[j] # 0 /\ records[itemId[Parent[j]]].state = "finished"
        BY <4>1 DEF IInv, EndFinishes, ParentId
      <4>3. Parent[j] \in Started /\ Parent[j] # i
        BY <4>1, <4>2, <2>3, ParentIsObject
           DEF IInv, ReportedTree, ParentHasStarted, Started
      <4>4. ParentId(j)' = itemId[Parent[j]]
        BY <4>2, <4>3, <2>3 DEF ParentId, Started
      <4> QED BY <4>2, <4>3, <4>4, <2>5
              DEF IInv, ReportedTree, RecordsKeep, Known
    <3> QED BY <3>2, <3>3, <3>4 DEF EndFinishes
  <2> QED BY <2>2, <2>4, <2>5, <2>6, <2>8, <2>9, <2>10, <2>13, <2>14, <2>15,
             <2>16 DEF IInv
<1> QED BY <1>2, <1>3 DEF ItemStart

LEMMA ItemSetStatusStep ==
    ASSUME IInv, NEW i \in Items, ItemSetStatus(i), UNCHANGED launchVars
    PROVE  IInv' /\ Grows
<1> USE DEF launchVars, historyVars, serviceVars, serverVars
<1>1. TypeOK'
  BY DEF IInv, TypeOK, ItemSetStatus, Status
<1>2. Quiet /\ UNCHANGED <<records, launchEnded, endedBy, stored, wire>>
  BY DEF Quiet, SameIds, ItemSetStatus
<1>3. StoredInv' /\ NoGapInLogs'
  BY <1>1, <1>2, LogsKept DEF Quiet
<1>4. Grows
  BY <1>2, QuietGrows DEF IInv, Quiet
<1> QED BY <1>1, <1>2, <1>3, <1>4, NoCallStep

LEMMA ItemLogStep ==
    ASSUME IInv, NEW i \in Items, ItemLog(i), UNCHANGED launchVars
    PROVE  IInv' /\ Grows
<1> USE DEF launchVars, serviceVars, serverVars
<1>1. /\ SameIds
      /\ UNCHANGED <<records, wire, stored, launchEnded, endedBy>>
      /\ i \in Started
      /\ logged' = [logged EXCEPT ![i] = @ + 1]
      /\ batchedLogs' = [batchedLogs EXCEPT ![i] = Append(@, Entry(i, logged[i] + 1))]
  BY DEF SameIds, ItemLog, ItemCanLog, NextEntry, Entry, ParentLaunchId, Started
<1>2. logged[i] \in Nat /\ logged[i] + 1 \in 1 .. MaxLogs
  BY BoundAssumption, LoggedType DEF ItemLog, ItemCanLog, IInv, BoundAssumption
<1>3. TypeOK'
  <2>1. Entry(i, logged[i] + 1) \in LogEntry
    BY <1>1, <1>2, StartedIds DEF Entry, LogEntry
  <2>2. logged' \in [Items -> 0 .. MaxLogs]
    BY <1>1, <1>2, BoundAssumption DEF IInv, TypeOK, BoundAssumption
  <2>3. batchedLogs' \in [Items -> Seq(LogEntry)]
    BY <1>1, <2>1 DEF IInv, TypeOK
  <2> QED BY <1>1, <2>2, <2>3 DEF IInv, TypeOK, ItemLog, SameIds
<1>4. Grows
  <2>1. \A j \in Items : logged[j] <= logged'[j]
    BY <1>1, <1>2, LoggedType DEF IInv, TypeOK
  <2> QED BY <1>1, <2>1 DEF Grows, SameIds
<1>5. RecordsKeep /\ RecordsInv'
  BY <1>1, <1>4, RecordStable DEF IInv, RecordsKeep, RecordsInv, Known
<1>6. WireInv'
  BY <1>1, <1>3, <1>4, WireKept DEF IInv
<1>7. EndFinishes'
  BY <1>1, <1>5, EndsKept DEF IInv
<1>8. StoredInv' /\ NoGapInLogs'
  BY <1>1, <1>3, <1>4, StoredKept, NoGapKept DEF IInv
<1>9. ReportedTree' /\ DistinctIdentities' /\ IdInv'
  <2>1. /\ launchEnded' => launchStarted
        /\ \A j \in Items : endedBy'[j] # {} => itemStarted[j]
    BY <1>1 DEF IInv, IdInv
  <2> QED BY <1>1, <1>5, <2>1, TreeKept DEF IInv
<1>10. BatchInv'
  <2>1. \A k : \A j \in Items : Entry(j, k)' = Entry(j, k)
    BY <1>1 DEF SameIds, Entry
  <2>2. ASSUME NEW j \in Items
        PROVE  /\ logged'[j] > 0 => itemStarted'[j]
               /\ batchedLogs'[j] = [k \in 1 .. logged'[j] |-> Entry(j, k)]
    <3>1. CASE j # i
      BY <3>1, <1>1 DEF IInv, BatchInv, TypeOK, SameIds
    <3>2. CASE j = i
      <4>1. itemStarted'[j]
        BY <3>2, <1>1 DEF Started, SameIds
      <4>2. batchedLogs[i] = [k \in 1 .. logged[i] |-> Entry(i, k)]
        BY DEF IInv, BatchInv
      <4>3. batchedLogs'[i] = Append(batchedLogs[i], Entry(i, logged[i] + 1))
        BY <1>1 DEF IInv, TypeOK
      <4>4. Len(batchedLogs[i]) = logged[i]
        BY <4>2, <1>2
      <4>5. batchedLogs'[i] = [k \in 1 .. logged[i] + 1 |-> Entry(i, k)]
        BY <4>2, <4>3, <4>4, <1>2
      <4>6. logged'[i] = logged[i] + 1
        BY <1>1 DEF IInv, TypeOK
      <4> QED BY <3>2, <4>1, <4>5, <4>6
    <3> QED BY <3>1, <3>2
  <2> QED BY <2>1, <2>2 DEF BatchInv
<1> QED BY <1>3, <1>4, <1>5, <1>6, <1>7, <1>8, <1>9, <1>10 DEF IInv

\* A flush that throws leaves its batch on the wire.
LEMMA FlushThrowsStep ==
    ASSUME IInv, NEW i \in Items, FlushThrows(i), Quiet,
           UNCHANGED <<launchEnded, endedBy, itemEnded, itemStatus>>
    PROVE  IInv' /\ Grows
<1> DEFINE r == LogsRequest(Batch(i))
<1>1. r \in Request /\ RequestInv(r)
  <2>1. NilUuid \in UuidOrNil /\ Inherit \in Status
    BY DEF UuidOrNil, Status
  <2> QED BY <2>1, BatchIsLog, RequestTypes DEF FlushThrows
<1>2. TypeOK'
  BY <1>1, AbortedType DEF IInv, TypeOK, FlushThrows, Quiet, SameIds
<1>3. StoredInv' /\ NoGapInLogs'
  BY <1>2, LogsKept DEF Quiet, FlushThrows
<1>4. Grows
  BY QuietGrows DEF IInv, Quiet
<1> QED BY <1>1, <1>2, <1>3, <1>4, UnansweredStep DEF FlushThrows

LEMMA ItemFlushLogsStep ==
    ASSUME IInv, NEW i \in Items, ItemFlushLogs(i), UNCHANGED launchVars
    PROVE  IInv' /\ Grows
<1> USE DEF launchVars, itemVars, historyVars
<1>1. /\ Quiet /\ UNCHANGED <<launchEnded, endedBy, itemEnded, itemStatus>>
  BY DEF ItemFlushLogs, Quiet, SameIds
<1>2. CASE FlushThrows(i)
  BY <1>1, <1>2, FlushThrowsStep
<1>3. CASE FlushReturns(i) /\ UNCHANGED <<records, wire, aborts, alive>>
  <2>1. TypeOK'
    BY <1>1, <1>3, FlushType DEF IInv, TypeOK, Quiet, SameIds
  <2>2. StoredInv' /\ NoGapInLogs'
    BY <1>1, <1>3, <2>1, FlushStores
  <2>3. Grows
    BY <1>1, QuietGrows DEF IInv, Quiet
  <2> QED BY <1>1, <1>3, <2>1, <2>2, <2>3, NoCallStep
<1> QED BY <1>2, <1>3 DEF ItemFlushLogs

LEMMA ItemEndStep ==
    ASSUME IInv, NEW i \in Items, ItemEnd(i), UNCHANGED launchVars
    PROVE  IInv' /\ Grows
<1> DEFINE r == TimedEnd(i)
<1> USE DEF launchVars
<1>1. r \in Request /\ RequestInv(r) /\ r.op = "end_item" /\ r.uuid = itemId[i]
  <2>1. NilUuid \in UuidOrNil /\ {} \in SUBSET LogEntry /\ i \in Started
    BY DEF UuidOrNil, ItemEnd, Started
  <2> QED BY <2>1, RequestTypes, ParentIdType, ItemEnds
          DEF IInv, TimedEnd, EndItemRequest
<1>2. Quiet /\ UNCHANGED <<launchEnded, stored>> /\ itemStarted[i]
  BY DEF Quiet, SameIds, ItemEnd
<1>3. Grows
  BY <1>2, QuietGrows DEF IInv, Quiet
<1>4. CASE Unanswered(r) /\ UNCHANGED endedBy
  <2>1. TypeOK'
    BY <1>1, <1>4, AbortedType DEF IInv, TypeOK, Unanswered, ItemEnd
  <2>2. StoredInv' /\ NoGapInLogs'
    BY <2>1, <1>2, LogsKept DEF Quiet
  <2> QED BY <1>1, <1>2, <1>3, <1>4, <2>1, <2>2, UnansweredStep DEF Unanswered
<1>5. CASE EndAnswered(r) /\ endedBy' = [endedBy EXCEPT ![i] = @ \cup {"time"}]
  <2>1. TypeOK'
    BY <1>1, <1>5, EndAnsweredType DEF IInv, TypeOK, ItemEnd, Ends
  <2>2. StoredInv' /\ NoGapInLogs'
    BY <2>1, <1>2, LogsKept DEF Quiet
  <2>3. RecordsKeep /\ records'[itemId[i]].state = "finished"
    BY <1>1, <1>3, <1>5, <2>1, EndAnsweredKeeps DEF Ends
  <2>4. \A j \in Items : /\ j # i => endedBy'[j] = endedBy[j]
                         /\ "status" \in endedBy'[j] => "status" \in endedBy[j]
    BY <1>5 DEF IInv, TypeOK
  <2>5. EndFinishes'
    BY <1>2, <2>3, <2>4, EndsGrow DEF IInv, Quiet
  <2>6. /\ launchEnded' => launchStarted
        /\ \A j \in Items : endedBy'[j] # {} => itemStarted[j]
    BY <1>2, <2>4 DEF IInv, IdInv
  <2> QED BY <1>1, <1>2, <1>3, <1>5, <2>1, <2>2, <2>5, <2>6, EndAnsweredStep
          DEF Ends
<1> QED BY <1>4, <1>5 DEF ItemEnd

LEMMA ItemEndWithStatusStep ==
    ASSUME IInv, NEW i \in Items, NEW s \in Status, ItemEndWithStatus(i, s),
           UNCHANGED launchVars
    PROVE  IInv' /\ Grows
<1> DEFINE r == EndItemRequest(ParentId(i), itemId[i], s)
<1> USE DEF launchVars
<1>1. r \in Request /\ RequestInv(r) /\ r.op = "end_item" /\ r.uuid = ParentId(i)
  <2>1. NilUuid \in UuidOrNil /\ {} \in SUBSET LogEntry /\ i \in Started
        /\ s \in Status
    BY DEF UuidOrNil, ItemEndWithStatus, Started, Status
  <2> QED BY <2>1, RequestTypes, ParentIdType, ItemEnds
          DEF IInv, EndItemRequest
<1>2. Quiet /\ UNCHANGED <<launchEnded, itemEnded>> /\ itemStarted[i]
  BY DEF Quiet, SameIds, ItemEndWithStatus
<1>3. Grows
  BY <1>2, QuietGrows DEF IInv, Quiet
<1>4. CASE FlushThrows(i) /\ UNCHANGED <<itemStatus, endedBy>>
  BY <1>2, <1>4, FlushThrowsStep
<1>5. ASSUME FlushReturns(i), itemStatus' = [itemStatus EXCEPT ![i] = s],
             \/ Unanswered(r) /\ UNCHANGED endedBy
             \/ EndRefused /\ UNCHANGED endedBy
             \/ /\ EndAnswered(r)
                /\ endedBy' = [endedBy EXCEPT ![i] = @ \cup {"status"}]
      PROVE  IInv' /\ Grows
  <2>1. stored' \subseteq LogEntry /\ itemStatus' \in [Items -> Status]
    BY <1>5, FlushType DEF IInv, TypeOK, Status
  <2>2. CASE Unanswered(r) /\ UNCHANGED endedBy
    <3>1. TypeOK'
      BY <1>1, <1>2, <2>1, <2>2, AbortedType
         DEF IInv, TypeOK, Unanswered, Quiet, SameIds
    <3>2. StoredInv' /\ NoGapInLogs'
      BY <3>1, <1>2, <1>5, FlushStores
    <3> QED BY <1>1, <1>2, <1>3, <2>2, <3>1, <3>2, UnansweredStep DEF Unanswered
  <2>3. CASE EndRefused /\ UNCHANGED endedBy
    <3>1. TypeOK'
      BY <1>2, <2>1, <2>3 DEF IInv, TypeOK, EndRefused, Quiet, SameIds
    <3>2. StoredInv' /\ NoGapInLogs'
      BY <3>1, <1>2, <1>5, FlushStores
    <3> QED BY <1>2, <1>3, <2>3, <3>1, <3>2, NoCallStep DEF EndRefused
  <2>4. CASE /\ EndAnswered(r)
             /\ endedBy' = [endedBy EXCEPT ![i] = @ \cup {"status"}]
    <3>1. TypeOK'
      BY <1>1, <1>2, <2>1, <2>4, EndAnsweredType
         DEF IInv, TypeOK, Ends, Quiet, SameIds
    <3>2. StoredInv' /\ NoGapInLogs'
      BY <3>1, <1>2, <1>5, FlushStores
    <3>3. /\ RecordsKeep /\ records'[ParentId(i)].state = "finished"
          /\ records[ParentId(i)].kind = "item"
      BY <1>1, <1>3, <2>4, <3>1, EndAnsweredKeeps DEF Ends
    <3>4. Parent[i] # 0
      BY <3>3, StartedIds, <1>2 DEF ParentId, IInv, ReportedTree, Started
    <3>5. \A j \in Items : /\ j # i => endedBy'[j] = endedBy[j]
                           /\ "time" \in endedBy'[j] => "time" \in endedBy[j]
      BY <2>4 DEF IInv, TypeOK
    <3>6. EndFinishes'
      BY <1>2, <3>3, <3>4, <3>5, EndsGrow DEF IInv, Quiet
    <3>7. /\ launchEnded' => launchStarted
          /\ \A j \in Items : endedBy'[j] # {} => itemStarted[j]
      BY <1>2, <3>5 DEF IInv, IdInv
    <3> QED BY <1>1, <1>2, <1>3, <2>4, <3>1, <3>2, <3>6, <3>7, EndAnsweredStep
            DEF Ends
  <2> QED BY <1>5, <2>2, <2>3, <2>4
<1> QED BY <1>4, <1>5 DEF ItemEndWithStatus

LEMMA LateStep ==
    ASSUME IInv, Late, UNCHANGED <<alive, launchVars, itemVars>>
    PROVE  IInv' /\ Grows
<1> USE DEF launchVars, itemVars, historyVars
<1>1. /\ Quiet /\ UNCHANGED <<launchEnded, endedBy, itemEnded, itemStatus>>
      /\ UNCHANGED <<alive, launchId, launchStarted>>
  BY DEF Quiet, SameIds
<1>2. Grows
  BY <1>1, QuietGrows DEF IInv, Quiet
<1>3. PICK f \in wire : LateBegin(f) \/ LateEnd(f) \/ LateLogs(f) \/ Drop(f)
  BY DEF Late
<1>4. f.req \in Request /\ RequestInv(f.req) /\ wire' \subseteq wire
  BY <1>3 DEF IInv, TypeOK, Flight, WireInv, LateBegin, LateEnd, LateLogs, Drop
<1>5. /\ launchEnded' => launchStarted
      /\ \A i \in Items : endedBy'[i] # {} => itemStarted[i]
  BY <1>1 DEF IInv, IdInv
<1>6. CASE LateBegin(f)
  <2>1. PICK u \in Subjects(f.req) : Register(f.req, u)
    BY <1>6 DEF LateBegin
  <2>2. TypeOK'
    BY <1>1, <1>4, <1>6, <2>1, RegisterType
       DEF IInv, TypeOK, LateBegin, Quiet, SameIds
  <2>3. RecordsKeep /\ RecordsInv'
    BY <1>2, <1>4, <1>6, <2>1, <2>2, RegisterRecords DEF IInv, LateBegin
  <2>4. StoredInv' /\ NoGapInLogs'
    BY <1>1, <1>6, <2>2, LogsKept DEF Quiet, LateBegin
  <2>5. WireInv'
    BY <1>2, <1>4, <2>2, WireKept DEF IInv
  <2>6. EndFinishes'
    BY <1>1, <2>3, EndsKept DEF IInv, Quiet
  <2> QED BY <1>1, <1>2, <1>5, <2>2, <2>3, <2>4, <2>5, <2>6, QuietStep
<1>7. CASE LateEnd(f)
  <2>1. PICK u \in Subjects(f.req) : Finish(f.req, u)
    BY <1>7 DEF LateEnd
  <2>2. TypeOK'
    <3>1. u \in Uuid
      BY <1>7, <2>1 DEF Subjects, Ends, Known, LateEnd
    <3> QED BY <1>1, <1>4, <1>7, <2>1, <3>1, FinishType
            DEF IInv, TypeOK, LateEnd, Quiet, SameIds
  <2>3. RecordsKeep /\ RecordsInv'
    BY <1>2, <1>4, <1>7, <2>1, <2>2, FinishRecords DEF IInv, LateEnd
  <2>4. StoredInv' /\ NoGapInLogs'
    BY <1>1, <1>7, <2>2, LogsKept DEF Quiet, LateEnd
  <2>5. WireInv'
    BY <1>2, <1>4, <2>2, WireKept DEF IInv
  <2>6. EndFinishes'
    BY <1>1, <2>3, EndsKept DEF IInv, Quiet
  <2> QED BY <1>1, <1>2, <1>5, <2>2, <2>3, <2>4, <2>5, <2>6, QuietStep
<1>8. CASE LateLogs(f)
  <2>1. PICK j \in Started : \E m \in 0 .. logged[j] :
            f.req.logs = FirstEntries(j, m)
    BY <1>4, <1>8 DEF LateLogs, RequestInv, Ends
  <2>2. PICK m \in 0 .. logged[j] : f.req.logs = FirstEntries(j, m)
    BY <2>1
  <2>3. stored' = stored \cup FirstEntries(j, m)
    BY <1>8, <2>2 DEF LateLogs, Store
  <2>4. TypeOK'
    <3>1. f.req.logs \subseteq LogEntry
      BY <1>4 DEF Request
    <3> QED BY <1>1, <1>8, <2>2, <2>3, <3>1
            DEF IInv, TypeOK, LateLogs, Quiet, SameIds
  <2>5. StoredInv' /\ NoGapInLogs'
    BY <1>1, <2>3, <2>4, LogsStored DEF IInv, Quiet
  <2> QED BY <1>1, <1>2, <1>4, <1>8, <2>4, <2>5, NoCallStep DEF LateLogs
<1>9. CASE Drop(f)
  <2>1. TypeOK'
    BY <1>1, <1>4, <1>9 DEF IInv, TypeOK, Drop, Quiet, SameIds
  <2>2. StoredInv' /\ NoGapInLogs'
    BY <1>1, <1>9, <2>1, LogsKept DEF Quiet, Drop
  <2> QED BY <1>1, <1>2, <1>4, <1>9, <2>1, <2>2, NoCallStep DEF Drop
<1> QED BY <1>3, <1>6, <1>7, <1>8, <1>9

LEMMA StutterStep ==
    ASSUME IInv, UNCHANGED vars
    PROVE  IInv' /\ Grows
<1> USE DEF vars, serviceVars, serverVars, launchVars, itemVars, historyVars
<1>1. TypeOK'
  BY DEF IInv, TypeOK
<1>2. Quiet /\ UNCHANGED <<records, wire, launchEnded, endedBy, stored>>
  BY DEF Quiet, SameIds
<1>3. StoredInv' /\ NoGapInLogs'
  BY <1>1, <1>2, LogsKept DEF Quiet
<1>4. Grows
  BY <1>2, QuietGrows DEF IInv, Quiet
<1> QED BY <1>1, <1>2, <1>3, <1>4, NoCallStep

LEMMA NextStep ==
    ASSUME IInv, [Next]_vars
    PROVE  IInv' /\ Grows
<1>1. CASE LaunchStart /\ UNCHANGED itemVars
  BY <1>1, LaunchStartStep
<1>2. CASE LaunchEnd /\ UNCHANGED itemVars
  BY <1>2, LaunchEndStep
<1>3. ASSUME NEW i \in Items, UNCHANGED launchVars,
             \/ ItemStart(i)
             \/ ItemSetStatus(i)
             \/ ItemLog(i)
             \/ ItemFlushLogs(i)
             \/ ItemEnd(i)
             \/ \E s \in Status : ItemEndWithStatus(i, s)
      PROVE  IInv' /\ Grows
  BY <1>3, ItemStartStep, ItemSetStatusStep, ItemLogStep, ItemFlushLogsStep,
     ItemEndStep, ItemEndWithStatusStep
<1>4. CASE Late /\ UNCHANGED <<alive, launchVars, itemVars>>
  BY <1>4, LateStep
<1>5. CASE UNCHANGED vars
  BY <1>5, StutterStep
<1> QED BY <1>1, <1>2, <1>3, <1>4, <1>5 DEF Next

-----------------------------------------------------------------------------
(* The theorems.                                                           *)

\* Where everything in a session came from: the invariant is inductive.
THEOREM InductiveInvariant == Spec => []IInv
<1>1. Init => IInv
  BY InitInv
<1>2. IInv /\ [Next]_vars => IInv'
  BY NextStep
<1> QED BY <1>1, <1>2, PTL DEF Spec

\* Every variable keeps its type: no object, request or record ever holds an
\* id that is none of the ids of the session.
THEOREM TypeCorrect == Spec => []TypeOK
<1>1. IInv => TypeOK
  BY DEF IInv
<1> QED BY <1>1, InductiveInvariant, PTL

\* test_item::start: the server shows the tree the program built.
THEOREM TreeIsReported == Spec => []ReportedTree
<1>1. IInv => ReportedTree
  BY DEF IInv
<1> QED BY <1>1, InductiveInvariant, PTL

\* test_item::start: no two started items report to one record.
THEOREM IdentitiesDistinct == Spec => []DistinctIdentities
<1>1. IInv => DistinctIdentities
  BY DEF IInv
<1> QED BY <1>1, InductiveInvariant, PTL

\* What a start() that threw left on the server is never used: it has no
\* children and no log, and is never finished.
LEMMA OrphansInert ==
    ASSUME IInv
    PROVE  OrphansAreInert
<1> SUFFICES ASSUME NEW u \in Uuid \ Owned, Known(u)
             PROVE  /\ records[u].state = "running"
                    /\ \A v \in Uuid :
                          u \notin {records[v].parent, records[v].launch}
                    /\ \A e \in stored : u \notin {e.item, e.launch}
  BY DEF OrphansAreInert
<1>1. RecordInv(u) /\ records[u] # Absent
  BY DEF IInv, RecordsInv, Known, Absent
<1>2. records[u].state = "running"
  BY <1>1 DEF RecordInv
<1>3. ASSUME NEW v \in Uuid
      PROVE  u \notin {records[v].parent, records[v].launch}
  <2>1. RecordInv(v)
    BY DEF IInv, RecordsInv
  <2>2. CASE records[v] = Absent
    BY <2>2, NilIsNoId DEF Absent
  <2>3. CASE records[v].kind = "launch"
    BY <2>1, <2>3, NilIsNoId DEF RecordInv, Absent
  <2>4. CASE records[v].kind = "item"
    <3>1. PICK i \in Items : BeginOf(i, records[v].launch, records[v].parent)
      BY <2>1, <2>4 DEF RecordInv, Absent
    <3>2. records[v].launch \in Owned
      BY <3>1, StartedIds DEF BeginOf
    <3>3. CASE Parent[i] = 0
      BY <3>1, <3>2, <3>3, NilIsNoId DEF BeginOf
    <3>4. CASE Parent[i] # 0
      <4>1. Parent[i] \in Started
        BY <3>1, <3>4, ParentIsObject DEF BeginOf, ParentHasStarted, Started
      <4> QED BY <3>1, <3>2, <3>4, <4>1, StartedIds DEF BeginOf
    <3> QED BY <3>3, <3>4
  <2> QED BY <2>1, <2>2, <2>3, <2>4 DEF RecordInv
<1>4. ASSUME NEW e \in stored
      PROVE  u \notin {e.item, e.launch}
  <2>1. PICK i \in Started : e = Entry(i, e.n)
    BY DEF IInv, StoredInv
  <2> QED BY <2>1, StartedIds DEF Entry
<1> QED BY <1>2, <1>3, <1>4

THEOREM OrphansStayInert == Spec => []OrphansAreInert
<1>1. IInv => OrphansAreInert
  BY OrphansInert
<1> QED BY <1>1, InductiveInvariant, PTL

\* launch::end and test_item::end: an end() that has returned has finished a
\* record, which one depends on the overload.
THEOREM EndsFinish == Spec => []EndFinishes
<1>1. IInv => EndFinishes
  BY DEF IInv
<1> QED BY <1>1, InductiveInvariant, PTL

\* test_item::log: an entry carries its launch and its item wherever it goes.
LEMMA LogsAttributed ==
    ASSUME IInv
    PROVE  LogAttribution
<1>1. ASSUME NEW i \in Items, NEW e \in Batch(i)
      PROVE  e = Entry(i, e.n)
  <2>1. batchedLogs[i] = [k \in 1 .. logged[i] |-> Entry(i, k)]
    BY DEF IInv, BatchInv
  <2> QED BY <2>1 DEF Batch, Range, Entry
<1>2. ASSUME NEW e \in stored
      PROVE  \E i \in Started : e = Entry(i, e.n)
  BY DEF IInv, StoredInv
<1>3. ASSUME NEW f \in wire, NEW e \in f.req.logs
      PROVE  \E i \in Started : e = Entry(i, e.n)
  <2>1. RequestInv(f.req)
    BY DEF IInv, WireInv
  <2>2. PICK i \in Started : \E m \in 0 .. logged[i] :
                                f.req.logs = FirstEntries(i, m)
    BY <1>3, <2>1 DEF RequestInv
  <2> QED BY <2>2 DEF FirstEntries, Entry
<1> QED BY <1>1, <1>2, <1>3 DEF LogAttribution

THEOREM LogsKeepTheirItem == Spec => []LogAttribution
<1>1. IInv => LogAttribution
  BY LogsAttributed
<1> QED BY <1>1, InductiveInvariant, PTL

\* test_item::flush_logs: the stored log of an item has no hole.
THEOREM LogsHaveNoGap == Spec => []NoGapInLogs
<1>1. IInv => NoGapInLogs
  BY DEF IInv
<1> QED BY <1>1, InductiveInvariant, PTL

\* test_item::flush_logs: what is not stored yet goes with the next flush.
LEMMA FlushCarriesRest ==
    ASSUME IInv
    PROVE  NextFlushCarriesRest
<1> SUFFICES ASSUME NEW i \in Items, NEW k \in 1 .. logged[i]
             PROVE  \E m \in 1 .. Len(batchedLogs[i]) :
                       /\ batchedLogs[i][m] = Entry(i, k)
                       /\ \A l \in 1 .. m - 1 : batchedLogs[i][l].n < k
  BY DEF NextFlushCarriesRest
<1>1. logged[i] \in Nat /\ batchedLogs[i] = [n \in 1 .. logged[i] |-> Entry(i, n)]
  BY LoggedType DEF IInv, BatchInv
<1>2. Len(batchedLogs[i]) = logged[i]
  BY <1>1
<1>3. \A l \in 1 .. k - 1 : batchedLogs[i][l].n < k
  BY <1>1 DEF Entry
<1> QED BY <1>1, <1>2, <1>3

THEOREM NothingLoggedIsLost == Spec => []NextFlushCarriesRest
<1>1. IInv => NextFlushCarriesRest
  BY FlushCarriesRest
<1> QED BY <1>1, InductiveInvariant, PTL

\* start() on an object that has started does not begin it again.
THEOREM IdentitiesKept == Spec => IdentityKept
<1>1. IInv /\ [Next]_vars =>
        [ /\ launchStarted => launchStarted' /\ launchId' = launchId
          /\ \A i \in Started : itemStarted'[i] /\ itemId'[i] = itemId[i] ]_vars
  BY NextStep DEF Grows, Started
<1> QED BY <1>1, InductiveInvariant, PTL DEF Spec, IdentityKept

-----------------------------------------------------------------------------
(* ReportSession implements ReportTree.                                    *)

Objects == 0 .. N

LEMMA ObjectsAre ==
    /\ 0 \in Objects
    /\ \A i \in Items : i \in Objects /\ i # 0 /\ Parent[i] \in Objects
    /\ \A o \in Objects : o = 0 \/ o \in Items
  BY TreeAssumption DEF TreeAssumption, Items, Objects

LEMMA TreeInit ==
    ASSUME Init
    PROVE  Tree!Init
<1> USE DEF Init, ServiceInit, ServerInit, LaunchInit, ItemInit
<1>1. TreeIds = {}
  BY DEF TreeIds, Known, Absent
<1>2. TreeUnder = [u \in Uuid |-> NilUuid]
  BY DEF TreeUnder, Above, Absent
<1>3. TreeDone = {}
  BY DEF TreeDone, Absent
<1>4. TreeNode = [o \in 0 .. N |-> NilUuid]
  BY ObjectsAre DEF TreeNode, NodeOf, Objects
<1>5. TreeLog = [o \in 0 .. N |-> {}]
  BY DEF TreeLog, LogOf
<1> QED BY <1>1, <1>2, <1>3, <1>4, <1>5 DEF Tree!Init, Tree!Objects

\* What each kind of change looks like in the tree.
LEMMA SameRecords ==
    ASSUME UNCHANGED records
    PROVE  UNCHANGED <<TreeIds, TreeUnder, TreeDone>>
  BY DEF TreeIds, TreeUnder, TreeDone, Known, Above

LEMMA SameNodes ==
    ASSUME SameIds
    PROVE  UNCHANGED TreeNode
  BY DEF SameIds, TreeNode, NodeOf

LEMMA SameLogs ==
    ASSUME SameIds, UNCHANGED stored
    PROVE  UNCHANGED TreeLog
  BY DEF SameIds, TreeLog, LogOf, Entry

\* A begin grows the tree by one record, under that of the object's parent.
LEMMA TreeGrows ==
    ASSUME IInv, IInv', NEW r \in Request, RequestInv(r), r.op \in Begins,
           NEW u \in Subjects(r), Register(r, u)
    PROVE  /\ u \in Uuid
           /\ u \notin TreeIds
           /\ TreeIds' = TreeIds \cup {u}
           /\ UNCHANGED TreeDone
           /\ r.op = "begin_launch" => TreeUnder' = [TreeUnder EXCEPT ![u] = NilUuid]
           /\ \A i \in Items : BeginOf(i, r.launch, r.parent) /\ r.op = "begin_item"
                 => /\ TreeUnder' = [TreeUnder EXCEPT ![u] = NodeOf(Parent[i])]
                    /\ NodeOf(Parent[i]) # NilUuid
<1>1. u \in Uuid /\ ~ Known(u)
  BY FreshIds DEF Subjects, Begins
<1>2. \A v \in Uuid \ {u} : records'[v] = records[v]
  BY DEF Register, IInv, TypeOK
<1>3. records'[u] = [kind   |-> IF r.op = "begin_launch" THEN "launch" ELSE "item",
                     launch |-> r.launch,
                     parent |-> r.parent,
                     state  |-> "running",
                     status |-> Inherit]
  BY <1>1 DEF Register, IInv, TypeOK
<1>4. records[u] = Absent
  BY <1>1 DEF IInv, RecordsInv, RecordInv, Known
<1>5. u \notin TreeIds /\ TreeIds' = TreeIds \cup {u}
  BY <1>1, <1>2, <1>3 DEF TreeIds, Known
<1>6. UNCHANGED TreeDone
  BY <1>1, <1>2, <1>3, <1>4 DEF TreeDone, Absent
<1>7. TreeUnder' = [TreeUnder EXCEPT ![u] = Above(u)']
  BY <1>1, <1>2 DEF TreeUnder, Above
<1>8. ASSUME r.op = "begin_launch"
      PROVE  Above(u)' = NilUuid
  BY <1>3, <1>8 DEF Above, RequestInv, Ends
<1>9. ASSUME NEW i \in Items, BeginOf(i, r.launch, r.parent), r.op = "begin_item"
      PROVE  Above(u)' = NodeOf(Parent[i]) /\ NodeOf(Parent[i]) # NilUuid
  <2>1. CASE Parent[i] = 0
    BY <1>3, <1>9, <2>1, StartedIds, NilIsNoId DEF Above, BeginOf, NodeOf
  <2>2. CASE Parent[i] # 0
    <3>1. Parent[i] \in Started
      BY <1>9, <2>2, ParentIsObject DEF BeginOf, ParentHasStarted, Started
    <3>2. itemId[Parent[i]] # NilUuid
      BY <3>1, StartedIds, NilIsNoId
    <3> QED BY <1>3, <1>9, <2>2, <3>1, <3>2 DEF Above, BeginOf, NodeOf, Started
  <2> QED BY <2>1, <2>2
<1> QED BY <1>1, <1>5, <1>6, <1>7, <1>8, <1>9

\* An end finishes the record of an object.
LEMMA TreeFinishes ==
    ASSUME IInv, NEW r \in Request, RequestInv(r), r.op \in Ends,
           NEW u \in Subjects(r), Finish(r, u)
    PROVE  /\ UNCHANGED <<TreeIds, TreeUnder>>
           /\ \E o \in Objects : /\ TreeNode[o] # NilUuid
                                 /\ TreeDone' = TreeDone \cup {TreeNode[o]}
<1>1. u = r.uuid /\ Known(u) /\ u \in Uuid /\ u \in Owned
  BY DEF Subjects, Ends, Known, RequestInv, Begins
<1>2. \A v \in Uuid \ {u} : records'[v] = records[v]
  BY DEF Finish, IInv, TypeOK
<1>3. records'[u] = [records[u] EXCEPT !.state = "finished", !.status = r.status]
  BY <1>1 DEF Finish, IInv, TypeOK
<1>4. records[u] \in Record
  BY <1>1 DEF IInv, TypeOK
<1>5. /\ records'[u].kind = records[u].kind
      /\ records'[u].launch = records[u].launch
      /\ records'[u].parent = records[u].parent
      /\ records'[u].state = "finished"
  BY <1>3, <1>4 DEF Record
<1>6. \A v \in Uuid : Known(v)' <=> Known(v)
  BY <1>2, <1>5 DEF Known
<1>7. TreeIds' = TreeIds
  BY <1>6 DEF TreeIds
<1>8. TreeUnder' = TreeUnder
  BY <1>2, <1>5 DEF TreeUnder, Above
<1>9. TreeDone' = TreeDone \cup {u}
  BY <1>1, <1>2, <1>5 DEF TreeDone
<1>10. PICK o \in Objects : TreeNode[o] = u
  <2>1. CASE launchStarted /\ u = launchId
    BY <2>1, ObjectsAre DEF TreeNode, NodeOf, Objects
  <2>2. CASE \E i \in Started : u = itemId[i]
    BY <2>2, ObjectsAre DEF TreeNode, NodeOf, Objects, Started
  <2> QED BY <1>1, <2>1, <2>2 DEF Owned
<1> QED BY <1>1, <1>7, <1>8, <1>9, <1>10, NilIsNoId

\* Storing the first entries of an item delivers them.
LEMMA TreeDelivers ==
    ASSUME IInv, SameIds, NEW j \in Started, NEW m \in 0 .. logged[j],
           stored' = stored \cup FirstEntries(j, m)
    PROVE  /\ j \in Objects
           /\ TreeNode[j] # NilUuid
           /\ TreeLog' = [TreeLog EXCEPT ![j] = @ \cup 1 .. m]
           /\ m \in 0 .. MaxLogs
<1>1. /\ j \in Items /\ j \in Objects /\ j # 0
      /\ itemStarted[j]
      /\ logged[j] \in 0 .. MaxLogs /\ logged[j] \in Nat
  BY ObjectsAre, LoggedType DEF Started, IInv
<1>2. m \in 0 .. MaxLogs
  BY <1>1, BoundAssumption DEF BoundAssumption
<1>3. TreeNode[j] # NilUuid
  BY <1>1, StartedIds, NilIsNoId DEF TreeNode, NodeOf, Objects
<1>4. \A i, k : Entry(i, k)' = Entry(i, k)
  BY DEF SameIds, Entry
<1>5. ASSUME NEW i \in Items, itemStarted[i], NEW k \in 1 .. MaxLogs
      PROVE  Entry(i, k) \in FirstEntries(j, m) <=> (i = j /\ k \in 1 .. m)
  <2>1. ASSUME Entry(i, k) \in FirstEntries(j, m)
        PROVE  i = j /\ k \in 1 .. m
    <3>1. PICK l \in 1 .. m : Entry(i, k) = Entry(j, l)
      BY <2>1 DEF FirstEntries
    <3>2. k = l /\ itemId[i] = itemId[j]
      BY <3>1 DEF Entry
    <3>3. i \in Started
      BY <1>5 DEF Started
    <3> QED BY <3>2, <3>3 DEF IInv, DistinctIdentities
  <2> QED BY <2>1 DEF FirstEntries
<1>6. ASSUME NEW i \in Items
      PROVE  LogOf(i)' = IF i = j THEN LogOf(i) \cup 1 .. m ELSE LogOf(i)
  <2>1. i # 0 /\ itemStarted' = itemStarted
    BY ObjectsAre DEF SameIds
  <2>2. LogOf(i)' = {k \in 1 .. MaxLogs :
                        itemStarted[i] /\ Entry(i, k) \in stored'}
    BY <1>4, <2>1 DEF LogOf
  <2>3. LogOf(i) = {k \in 1 .. MaxLogs :
                        itemStarted[i] /\ Entry(i, k) \in stored}
    BY <2>1 DEF LogOf
  <2>4. \A k \in 1 .. m : k \in 1 .. MaxLogs
    BY <1>2, BoundAssumption DEF BoundAssumption
  <2> QED BY <1>1, <1>5, <2>2, <2>3, <2>4
<1>7. LogOf(0)' = LogOf(0)
  BY DEF LogOf
<1>8. TreeLog' = [TreeLog EXCEPT ![j] = @ \cup 1 .. m]
  BY <1>1, <1>6, <1>7, ObjectsAre DEF TreeLog, Objects
<1> QED BY <1>1, <1>2, <1>3, <1>8

TreeStep == [Tree!Next]_(Tree!treeVars)

LEMMA TreeStutters ==
    ASSUME UNCHANGED <<TreeIds, TreeUnder, TreeDone, TreeNode, TreeLog>>
    PROVE  TreeStep
  BY DEF TreeStep, Tree!treeVars

LEMMA TreeUnanswered ==
    ASSUME SameIds, UNCHANGED <<stored, records>>
    PROVE  TreeStep
  BY SameRecords, SameNodes, SameLogs, TreeStutters

\* A begin was processed: the object gets the record, or nobody does.
LEMMA TreeStarts ==
    ASSUME NEW o \in Objects, NEW u \in Uuid, u \notin TreeIds,
           o # 0 => TreeNode[Parent[o]] # NilUuid,
           TreeIds' = TreeIds \cup {u},
           TreeUnder' = [TreeUnder EXCEPT ![u] =
                            IF o = 0 THEN NilUuid ELSE TreeNode[Parent[o]]],
           UNCHANGED <<TreeDone, TreeLog>>,
           \/ UNCHANGED TreeNode
           \/ /\ TreeNode[o] = NilUuid
              /\ TreeNode' = [TreeNode EXCEPT ![o] = u]
    PROVE  TreeStep
<1>1. Tree!Start(o, u) \/ Tree!Stray(o, u)
  BY DEF Tree!Start, Tree!Stray, Tree!Place
<1> QED BY <1>1 DEF TreeStep, Tree!Next, Tree!Objects, Objects

LEMMA LaunchStartTree ==
    ASSUME IInv, IInv', LaunchStart, UNCHANGED itemVars
    PROVE  TreeStep
<1> DEFINE r == BeginLaunchRequest(launchId)
<1> USE DEF itemVars, historyVars
<1>1. r \in Request /\ RequestInv(r) /\ r.op = "begin_launch"
  <2>1. NilUuid \in UuidOrNil /\ Inherit \in Status /\ {} \in SUBSET LogEntry
    BY DEF UuidOrNil, Status
  <2>2. launchId \in UuidOrNil
    BY DEF IInv, TypeOK
  <2> QED BY <2>1, <2>2, RequestTypes, LaunchRequests
          DEF LaunchStart, LaunchCanStart, BeginLaunchRequest
<1>2. CASE Unanswered(r) /\ UNCHANGED <<launchId, launchStarted>>
  BY <1>2, TreeUnanswered DEF Unanswered, Aborted, SameIds, LaunchStart
<1>3. ASSUME NEW u \in Uuid, BeginAnswered(r, u),
             launchStarted' = TRUE, launchId' = AnsweredId(r, u)
      PROVE  TreeStep
  <2>1. u \in Subjects(r) /\ Register(r, u) /\ launchId' = u
    BY <1>3 DEF BeginAnswered, AnsweredId
  <2>2. /\ u \notin TreeIds
        /\ TreeIds' = TreeIds \cup {u}
        /\ UNCHANGED TreeDone
        /\ TreeUnder' = [TreeUnder EXCEPT ![u] = NilUuid]
    BY <1>1, <2>1, TreeGrows DEF Begins
  <2>3. ~ launchStarted /\ \A i \in Items : ~ itemStarted[i]
    BY DEF LaunchStart, LaunchCanStart, IInv, IdInv, Started
  <2>4. TreeNode[0] = NilUuid /\ TreeNode' = [TreeNode EXCEPT ![0] = u]
    BY <1>3, <2>1, <2>3, ObjectsAre DEF TreeNode, NodeOf, Objects
  <2>5. UNCHANGED TreeLog
    BY <2>3, ObjectsAre DEF TreeLog, LogOf, Objects
  <2> QED BY <2>2, <2>4, <2>5, ObjectsAre, TreeStarts
<1> QED BY <1>2, <1>3 DEF LaunchStart

LEMMA ItemStartTree ==
    ASSUME IInv, IInv', NEW i \in Items, ItemStart(i), UNCHANGED launchVars
    PROVE  TreeStep
<1> DEFINE r == BeginItemRequest(ParentLaunchId, ParentUuid(i), itemId[i])
<1> USE DEF launchVars, historyVars
<1>1. /\ r \in Request /\ RequestInv(r) /\ r.op = "begin_item"
      /\ BeginOf(i, r.launch, r.parent)
  <2>1. NilUuid \in UuidOrNil /\ Inherit \in Status /\ {} \in SUBSET LogEntry
    BY DEF UuidOrNil, Status
  <2>2. ParentLaunchId \in UuidOrNil /\ ParentUuid(i) \in UuidOrNil
        /\ itemId[i] \in UuidOrNil
    BY ParentIdType DEF IInv, ParentLaunchId
  <2>3. ParentHasStarted(i) /\ launchStarted /\
        ParentUuid(i) = IF Parent[i] = 0 THEN NilUuid ELSE itemId[Parent[i]]
    BY ParentUuidValue DEF ItemStart, ItemCanStart, IInv
  <2> QED BY <2>1, <2>2, <2>3, RequestTypes, ItemBegin
          DEF ItemStart, BeginItemRequest, ParentLaunchId, BeginOf
<1>2. CASE Unanswered(r) /\ UNCHANGED <<itemId, itemStarted>>
  BY <1>2, TreeUnanswered DEF Unanswered, Aborted, SameIds, ItemStart
<1>3. ASSUME NEW u \in Uuid, BeginAnswered(r, u),
             itemStarted' = [itemStarted EXCEPT ![i] = TRUE],
             itemId' = [itemId EXCEPT ![i] = AnsweredId(r, u)]
      PROVE  TreeStep
  <2>1. /\ u \in Subjects(r) /\ Register(r, u)
        /\ itemId' = [itemId EXCEPT ![i] = u]
        /\ ~ itemStarted[i]
        /\ ~ Known(u)
    BY <1>1, <1>3 DEF BeginAnswered, AnsweredId, ItemStart, ItemCanStart,
                      Subjects, FreshFor
  <2>2. /\ u \notin TreeIds
        /\ TreeIds' = TreeIds \cup {u}
        /\ UNCHANGED TreeDone
        /\ TreeUnder' = [TreeUnder EXCEPT ![u] = NodeOf(Parent[i])]
        /\ NodeOf(Parent[i]) # NilUuid
    BY <1>1, <2>1, TreeGrows DEF Begins
  <2>3. i \in Objects /\ i # 0 /\ Parent[i] \in Objects
    BY ObjectsAre
  <2>4. \A j \in Items : j # i => itemId'[j] = itemId[j]
                                  /\ itemStarted'[j] = itemStarted[j]
    BY <1>3, <2>1 DEF IInv, TypeOK
  <2>5. itemId'[i] = u /\ itemStarted'[i]
    BY <1>3, <2>1 DEF IInv, TypeOK
  <2>6. TreeNode[i] = NilUuid /\ TreeNode' = [TreeNode EXCEPT ![i] = u]
    BY <2>1, <2>3, <2>4, <2>5, ObjectsAre
       DEF TreeNode, NodeOf, Objects, ItemStart
  <2>7. TreeNode[Parent[i]] = NodeOf(Parent[i])
    BY <2>3 DEF TreeNode, Objects
  <2>8. \A k : Entry(i, k)' \notin stored
    <3>1. SUFFICES ASSUME NEW k, Entry(i, k)' \in stored PROVE FALSE
      OBVIOUS
    <3>2. PICK l \in Started : Entry(i, k)' = Entry(l, Entry(i, k)'.n)
      BY <3>1 DEF IInv, StoredInv
    <3>3. u = itemId[l] /\ Known(itemId[l])
      BY <2>5, <3>2 DEF Entry, IInv, ReportedTree
    <3> QED BY <2>1, <3>3
  <2>9. UNCHANGED TreeLog
    <3>1. LogOf(i)' = {} /\ LogOf(i) = {}
      BY <2>1, <2>3, <2>8 DEF LogOf, ItemStart
    <3>2. \A j \in Items : j # i => LogOf(j)' = LogOf(j)
      BY <2>4, ObjectsAre DEF LogOf, Entry, ItemStart
    <3>3. LogOf(0)' = LogOf(0)
      BY DEF LogOf
    <3> QED BY <3>1, <3>2, <3>3, ObjectsAre DEF TreeLog, Objects
  <2> QED BY <2>2, <2>3, <2>6, <2>7, <2>9, TreeStarts
<1> QED BY <1>2, <1>3 DEF ItemStart

\* An end that was answered, after a flush or without one.
LEMMA TreeEnds ==
    ASSUME IInv, SameIds, NEW r \in Request, RequestInv(r), r.op \in Ends,
           NEW u \in Subjects(r), Finish(r, u),
           \/ UNCHANGED TreeLog
           \/ \E j \in Objects, m \in 1 .. MaxLogs :
                 /\ TreeNode[j] # NilUuid
                 /\ TreeLog' = [TreeLog EXCEPT ![j] = @ \cup 1 .. m]
    PROVE  TreeStep
<1>1. UNCHANGED <<TreeIds, TreeUnder, TreeNode>>
  BY TreeFinishes, SameNodes
<1>2. PICK o \in Objects : /\ TreeNode[o] # NilUuid
                           /\ TreeDone' = TreeDone \cup {TreeNode[o]}
  BY TreeFinishes
<1>3. CASE UNCHANGED TreeLog
  <2>1. Tree!Finish(o)
    BY <1>1, <1>2, <1>3 DEF Tree!Finish
  <2> QED BY <2>1 DEF TreeStep, Tree!Next, Tree!Objects, Objects
<1>4. ASSUME NEW j \in Objects, NEW m \in 1 .. MaxLogs,
             TreeNode[j] # NilUuid,
             TreeLog' = [TreeLog EXCEPT ![j] = @ \cup 1 .. m]
      PROVE  TreeStep
  <2>1. Tree!DeliverAndFinish(j, m, o)
    BY <1>1, <1>2, <1>4 DEF Tree!DeliverAndFinish
  <2> QED BY <2>1 DEF TreeStep, Tree!Next, Tree!Objects, Objects
<1> QED BY <1>3, <1>4

\* Entries were stored, and no record changed.
LEMMA TreeStores ==
    ASSUME IInv, SameIds, UNCHANGED records,
           \/ UNCHANGED TreeLog
           \/ \E j \in Objects, m \in 1 .. MaxLogs :
                 /\ TreeNode[j] # NilUuid
                 /\ TreeLog' = [TreeLog EXCEPT ![j] = @ \cup 1 .. m]
    PROVE  TreeStep
<1>1. UNCHANGED <<TreeIds, TreeUnder, TreeDone, TreeNode>>
  BY SameRecords, SameNodes
<1>2. CASE UNCHANGED TreeLog
  BY <1>1, <1>2, TreeStutters
<1>3. ASSUME NEW j \in Objects, NEW m \in 1 .. MaxLogs,
             TreeNode[j] # NilUuid,
             TreeLog' = [TreeLog EXCEPT ![j] = @ \cup 1 .. m]
      PROVE  TreeStep
  <2>1. Tree!Deliver(j, m)
    BY <1>1, <1>3 DEF Tree!Deliver
  <2> QED BY <2>1 DEF TreeStep, Tree!Next, Tree!Objects, Objects
<1> QED BY <1>2, <1>3

\* What storing the first m entries of item j does to the tree.
LEMMA TreeLogAfter ==
    ASSUME IInv, SameIds, NEW j \in Started, NEW m \in 0 .. logged[j],
           stored' = stored \cup FirstEntries(j, m)
    PROVE  \/ UNCHANGED TreeLog
           \/ \E i \in Objects, k \in 1 .. MaxLogs :
                 /\ TreeNode[i] # NilUuid
                 /\ TreeLog' = [TreeLog EXCEPT ![i] = @ \cup 1 .. k]
<1>1. CASE m = 0
  <2>1. FirstEntries(j, m) = {}
    BY <1>1 DEF FirstEntries
  <2> QED BY <2>1, SameLogs
<1>2. CASE m # 0
  <2>1. m \in 1 .. MaxLogs
    BY <1>2, TreeDelivers, BoundAssumption DEF BoundAssumption
  <2> QED BY <2>1, TreeDelivers
<1> QED BY <1>1, <1>2

LEMMA TreeLogAfterFlush ==
    ASSUME IInv, SameIds, NEW i \in Items, FlushReturns(i)
    PROVE  \/ UNCHANGED TreeLog
           \/ \E j \in Objects, m \in 1 .. MaxLogs :
                 /\ TreeNode[j] # NilUuid
                 /\ TreeLog' = [TreeLog EXCEPT ![j] = @ \cup 1 .. m]
<1>1. CASE UNCHANGED stored
  BY <1>1, SameLogs
<1>2. CASE batchedLogs[i] # << >> /\ stored' = stored \cup Batch(i)
  <2>1. /\ i \in Started
        /\ logged[i] \in 0 .. logged[i]
        /\ stored' = stored \cup FirstEntries(i, logged[i])
    BY <1>2, BatchIsLog, LoggedType DEF IInv
  <2> QED BY <2>1, TreeLogAfter
<1> QED BY <1>1, <1>2 DEF FlushReturns, BatchLogsReturns, Store, LogsRequest

\* The requests that end an object are of the type the server expects.
LEMMA EndRequests ==
    ASSUME IInv
    PROVE  /\ launchStarted =>
                 /\ EndLaunchRequest(launchId) \in Request
                 /\ RequestInv(EndLaunchRequest(launchId))
                 /\ EndLaunchRequest(launchId).op \in Ends
           /\ \A i \in Items, s \in Status : itemStarted[i] =>
                 /\ EndItemRequest(ParentId(i), itemId[i], s) \in Request
                 /\ RequestInv(EndItemRequest(ParentId(i), itemId[i], s))
                 /\ EndItemRequest(ParentId(i), itemId[i], s).op \in Ends
           /\ \A i \in Items : itemStarted[i] =>
                 /\ TimedEnd(i) \in Request
                 /\ RequestInv(TimedEnd(i))
                 /\ TimedEnd(i).op \in Ends
<1>1. NilUuid \in UuidOrNil /\ Inherit \in Status /\ {} \in SUBSET LogEntry
  BY DEF UuidOrNil, Status
<1>2. ASSUME launchStarted
      PROVE  /\ EndLaunchRequest(launchId) \in Request
             /\ RequestInv(EndLaunchRequest(launchId))
             /\ EndLaunchRequest(launchId).op \in Ends
  <2>1. launchId \in UuidOrNil
    BY DEF IInv, TypeOK
  <2> QED BY <1>1, <1>2, <2>1, RequestTypes, LaunchRequests
          DEF EndLaunchRequest, Ends
<1>3. ASSUME NEW i \in Items, itemStarted[i]
      PROVE  /\ i \in Started
             /\ ParentId(i) \in UuidOrNil /\ itemId[i] \in UuidOrNil
             /\ itemStatus[i] \in Status
  BY <1>3, ParentIdType DEF IInv, TypeOK, Started
<1>4. ASSUME NEW i \in Items, NEW s \in Status, itemStarted[i]
      PROVE  /\ EndItemRequest(ParentId(i), itemId[i], s) \in Request
             /\ RequestInv(EndItemRequest(ParentId(i), itemId[i], s))
             /\ EndItemRequest(ParentId(i), itemId[i], s).op \in Ends
  BY <1>1, <1>3, <1>4, RequestTypes, ItemEnds DEF EndItemRequest, Ends
<1>5. ASSUME NEW i \in Items, itemStarted[i]
      PROVE  /\ TimedEnd(i) \in Request
             /\ RequestInv(TimedEnd(i))
             /\ TimedEnd(i).op \in Ends
  BY <1>1, <1>3, <1>5, RequestTypes, ItemEnds DEF TimedEnd, EndItemRequest, Ends
<1> QED BY <1>2, <1>4, <1>5

LEMMA LaunchEndTree ==
    ASSUME IInv, LaunchEnd, UNCHANGED itemVars
    PROVE  TreeStep
<1> DEFINE r == EndLaunchRequest(launchId)
<1> USE DEF itemVars, historyVars
<1>1. SameIds /\ UNCHANGED stored
  BY DEF SameIds, LaunchEnd
<1>2. CASE Unanswered(r)
  BY <1>1, <1>2, TreeUnanswered DEF Unanswered, Aborted
<1>3. CASE EndAnswered(r)
  <2>1. PICK u \in Subjects(r) : Finish(r, u)
    BY <1>3 DEF EndAnswered
  <2>2. r \in Request /\ RequestInv(r) /\ r.op \in Ends
    BY EndRequests DEF LaunchEnd
  <2>3. UNCHANGED TreeLog
    BY <1>1, SameLogs
  <2> QED BY <1>1, <2>1, <2>2, <2>3, TreeEnds
<1> QED BY <1>2, <1>3 DEF LaunchEnd

LEMMA ItemFlushLogsTree ==
    ASSUME IInv, NEW i \in Items, ItemFlushLogs(i), UNCHANGED launchVars
    PROVE  TreeStep
<1> USE DEF launchVars, itemVars, historyVars
<1>1. SameIds
  BY DEF SameIds, ItemFlushLogs
<1>2. CASE FlushThrows(i)
  BY <1>1, <1>2, TreeUnanswered DEF FlushThrows, Aborted
<1>3. CASE FlushReturns(i) /\ UNCHANGED records
  BY <1>1, <1>3, TreeLogAfterFlush, TreeStores
<1> QED BY <1>2, <1>3 DEF ItemFlushLogs

LEMMA ItemEndTree ==
    ASSUME IInv, NEW i \in Items, ItemEnd(i), UNCHANGED launchVars
    PROVE  TreeStep
<1> DEFINE r == TimedEnd(i)
<1> USE DEF launchVars
<1>1. SameIds /\ UNCHANGED stored
  BY DEF SameIds, ItemEnd
<1>2. CASE Unanswered(r)
  BY <1>1, <1>2, TreeUnanswered DEF Unanswered, Aborted
<1>3. CASE EndAnswered(r)
  <2>1. PICK u \in Subjects(r) : Finish(r, u)
    BY <1>3 DEF EndAnswered
  <2>2. r \in Request /\ RequestInv(r) /\ r.op \in Ends
    BY EndRequests DEF ItemEnd
  <2>3. UNCHANGED TreeLog
    BY <1>1, SameLogs
  <2> QED BY <1>1, <2>1, <2>2, <2>3, TreeEnds
<1> QED BY <1>2, <1>3 DEF ItemEnd

LEMMA ItemEndWithStatusTree ==
    ASSUME IInv, NEW i \in Items, NEW s \in Status, ItemEndWithStatus(i, s),
           UNCHANGED launchVars
    PROVE  TreeStep
<1> DEFINE r == EndItemRequest(ParentId(i), itemId[i], s)
<1> USE DEF launchVars
<1>1. SameIds
  BY DEF SameIds, ItemEndWithStatus
<1>2. CASE FlushThrows(i)
  BY <1>1, <1>2, TreeUnanswered DEF FlushThrows, Aborted
<1>3. CASE FlushReturns(i) /\ UNCHANGED records
  BY <1>1, <1>3, TreeLogAfterFlush, TreeStores
<1>4. CASE FlushReturns(i) /\ EndAnswered(r)
  <2>1. PICK u \in Subjects(r) : Finish(r, u)
    BY <1>4 DEF EndAnswered
  <2>2. r \in Request /\ RequestInv(r) /\ r.op \in Ends
    BY EndRequests DEF ItemEndWithStatus, Status
  <2>3. \/ UNCHANGED TreeLog
        \/ \E j \in Objects, m \in 1 .. MaxLogs :
              /\ TreeNode[j] # NilUuid
              /\ TreeLog' = [TreeLog EXCEPT ![j] = @ \cup 1 .. m]
    BY <1>1, <1>4, TreeLogAfterFlush
  <2> QED BY <1>1, <2>1, <2>2, <2>3, TreeEnds
<1> QED BY <1>2, <1>3, <1>4
        DEF ItemEndWithStatus, EndRefused, Unanswered, Aborted

\* What the server does with a request nobody waits for any more.
LEMMA LateTree ==
    ASSUME IInv, IInv', Late, UNCHANGED <<alive, launchVars, itemVars>>
    PROVE  TreeStep
<1> USE DEF launchVars, itemVars, historyVars
<1>1. SameIds
  BY DEF SameIds
<1>2. PICK f \in wire : LateBegin(f) \/ LateEnd(f) \/ LateLogs(f) \/ Drop(f)
  BY DEF Late
<1>3. f.req \in Request /\ RequestInv(f.req)
  BY <1>2 DEF IInv, TypeOK, Flight, WireInv
<1>4. CASE LateBegin(f)
  <2>1. PICK u \in Subjects(f.req) : Register(f.req, u)
    BY <1>4 DEF LateBegin
  <2>2. f.req.op \in Begins
    BY <1>4 DEF LateBegin
  <2>3. UNCHANGED <<TreeLog, TreeNode>>
    BY <1>1, <1>4, SameLogs, SameNodes DEF LateBegin
  <2>4. u \in Uuid /\ u \notin TreeIds /\ TreeIds' = TreeIds \cup {u}
        /\ UNCHANGED TreeDone
    BY <1>3, <2>1, <2>2, TreeGrows
  <2>5. CASE f.req.op = "begin_launch"
    <3>1. TreeUnder' = [TreeUnder EXCEPT ![u] = NilUuid]
      BY <1>3, <2>1, <2>2, <2>5, TreeGrows
    <3> QED BY <2>3, <2>4, <3>1, ObjectsAre, TreeStarts
  <2>6. CASE f.req.op = "begin_item"
    <3>1. PICK i \in Items : BeginOf(i, f.req.launch, f.req.parent)
      BY <1>3, <2>6 DEF RequestInv, Ends
    <3>2. /\ TreeUnder' = [TreeUnder EXCEPT ![u] = NodeOf(Parent[i])]
          /\ NodeOf(Parent[i]) # NilUuid
      BY <1>3, <2>1, <2>2, <2>6, <3>1, TreeGrows
    <3>3. i \in Objects /\ i # 0 /\ TreeNode[Parent[i]] = NodeOf(Parent[i])
      BY ObjectsAre DEF TreeNode, Objects
    <3> QED BY <2>3, <2>4, <3>2, <3>3, TreeStarts
  <2> QED BY <2>2, <2>5, <2>6 DEF Begins
<1>5. CASE LateEnd(f)
  <2>1. PICK u \in Subjects(f.req) : Finish(f.req, u)
    BY <1>5 DEF LateEnd
  <2>2. f.req.op \in Ends /\ UNCHANGED TreeLog
    BY <1>1, <1>5, SameLogs DEF LateEnd
  <2> QED BY <1>1, <1>3, <2>1, <2>2, TreeEnds
<1>6. CASE LateLogs(f)
  <2>1. PICK j \in Started : \E m \in 0 .. logged[j] :
            f.req.logs = FirstEntries(j, m)
    BY <1>3, <1>6 DEF LateLogs, RequestInv, Ends
  <2>2. PICK m \in 0 .. logged[j] : f.req.logs = FirstEntries(j, m)
    BY <2>1
  <2>3. stored' = stored \cup FirstEntries(j, m) /\ UNCHANGED records
    BY <1>6, <2>2 DEF LateLogs, Store
  <2> QED BY <1>1, <2>3, TreeLogAfter, TreeStores
<1>7. CASE Drop(f)
  BY <1>1, <1>7, TreeUnanswered DEF Drop
<1> QED BY <1>2, <1>4, <1>5, <1>6, <1>7

LEMMA NextTree ==
    ASSUME IInv, IInv', [Next]_vars
    PROVE  TreeStep
<1>1. CASE LaunchStart /\ UNCHANGED itemVars
  BY <1>1, LaunchStartTree
<1>2. CASE LaunchEnd /\ UNCHANGED itemVars
  BY <1>2, LaunchEndTree
<1>3. ASSUME NEW i \in Items, UNCHANGED launchVars,
             ItemSetStatus(i) \/ ItemLog(i)
      PROVE  TreeStep
  <2>1. SameIds /\ UNCHANGED <<stored, records>>
    BY <1>3 DEF SameIds, ItemSetStatus, ItemLog, launchVars, serviceVars,
                serverVars
  <2> QED BY <2>1, TreeUnanswered
<1>4. ASSUME NEW i \in Items, UNCHANGED launchVars,
             \/ ItemStart(i)
             \/ ItemFlushLogs(i)
             \/ ItemEnd(i)
             \/ \E s \in Status : ItemEndWithStatus(i, s)
      PROVE  TreeStep
  BY <1>4, ItemStartTree, ItemFlushLogsTree, ItemEndTree, ItemEndWithStatusTree
<1>5. CASE Late /\ UNCHANGED <<alive, launchVars, itemVars>>
  BY <1>5, LateTree
<1>6. CASE UNCHANGED vars
  <2>1. SameIds /\ UNCHANGED <<stored, records>>
    BY <1>6 DEF SameIds, vars, serviceVars, serverVars, launchVars, itemVars,
                historyVars
  <2> QED BY <2>1, TreeUnanswered
<1> QED BY <1>1, <1>2, <1>3, <1>4, <1>5, <1>6 DEF Next

\* Whatever is refused, abandoned, retried or answered late, a session does to
\* the server only what ReportTree lets the library do.
THEOREM ReportSessionImplementsTree == Spec => ImplementsTree
<1>1. Init => Tree!Init
  BY TreeInit
<1>2. IInv /\ IInv' /\ [Next]_vars => [Tree!Next]_(Tree!treeVars)
  BY NextTree DEF TreeStep
<1>3. Spec => []IInv
  BY InductiveInvariant
<1> QED BY <1>1, <1>2, <1>3, PTL DEF Spec, ImplementsTree, Tree!Spec

-----------------------------------------------------------------------------
(* Who finished what.  While no call was given up nothing is on the wire,  *)
(* so only a call that returns can finish a record.                        *)

Finishers == (aborts = 0 => wire = {}) /\ FinishedByEnd

LEMMA FinishersGivenUp ==
    ASSUME IInv, NEW r, Aborted(r)
    PROVE  Finishers'
<1>1. aborts' # 0
  BY BoundAssumption DEF IInv, TypeOK, Aborted, BoundAssumption
<1> QED BY <1>1 DEF Finishers, FinishedByEnd

LEMMA FinishersKept ==
    ASSUME Finishers, SameIds,
           UNCHANGED <<records, wire, aborts, launchEnded, endedBy>>
    PROVE  Finishers'
  BY DEF Finishers, FinishedByEnd, SameIds, Started

\* A begin that is answered adds a record that runs, and is no object's yet.
LEMMA FinishersBegun ==
    ASSUME IInv, TypeOK', Finishers,
           NEW r \in Request, r.op \in Begins, NEW u, BeginAnswered(r, u)
    PROVE  /\ u \in Uuid
           /\ launchStarted => launchId # u
           /\ \A i \in Started : itemId[i] # u
           /\ records'[u].state = "running"
           /\ \A v \in Uuid \ {u} : records'[v] = records[v]
           /\ UNCHANGED <<wire, aborts>>
<1>1. u \in FreshFor(r)
  BY DEF BeginAnswered, Subjects, Begins
<1>2. u \in Uuid /\ ~ Known(u)
  BY <1>1, FreshIds
<1>3. /\ launchStarted => launchId # u
      /\ \A i \in Started : itemId[i] # u
  BY <1>2 DEF IInv, ReportedTree
<1> QED BY <1>2, <1>3 DEF BeginAnswered, Register, IInv, TypeOK

\* An end that is answered finishes the record it names and no other.
LEMMA FinishersEnded ==
    ASSUME IInv, NEW r \in Request, RequestInv(r), r.op \in Ends, EndAnswered(r)
    PROVE  /\ r.uuid \in Uuid
           /\ records[r.uuid].kind =
                 IF r.op = "end_launch" THEN "launch" ELSE "item"
           /\ \A v \in Uuid \ {r.uuid} : records'[v] = records[v]
           /\ UNCHANGED <<wire, aborts>>
<1>1. PICK u \in Subjects(r) : Finish(r, u)
  BY DEF EndAnswered
<1>2. /\ u = r.uuid
      /\ u \in Uuid
      /\ records[u].kind = IF r.op = "end_launch" THEN "launch" ELSE "item"
  BY DEF Subjects, Ends, Known
<1> QED BY <1>1, <1>2 DEF Finish, IInv, TypeOK, EndAnswered

LEMMA FinishersLaunchStart ==
    ASSUME IInv, IInv', Finishers, LaunchStart, UNCHANGED itemVars
    PROVE  Finishers'
<1> DEFINE r == BeginLaunchRequest(launchId)
<1> USE DEF itemVars, historyVars
<1>1. CASE Unanswered(r)
  BY <1>1, FinishersGivenUp DEF Unanswered
<1>2. ASSUME NEW u \in Uuid, BeginAnswered(r, u),
             launchStarted' = TRUE, launchId' = AnsweredId(r, u)
      PROVE  Finishers'
  <2>1. NilUuid \in UuidOrNil /\ Inherit \in Status /\ {} \in SUBSET LogEntry
    BY DEF UuidOrNil, Status
  <2>2. r \in Request /\ r.op \in Begins
    BY <2>1, RequestTypes DEF IInv, TypeOK, BeginLaunchRequest, Begins
  <2>3. /\ \A i \in Started : itemId[i] # u
        /\ records'[u].state = "running"
        /\ \A v \in Uuid \ {u} : records'[v] = records[v]
        /\ UNCHANGED <<wire, aborts>>
    BY <1>2, <2>2, FinishersBegun DEF IInv
  <2>4. \A i \in Started : itemId[i] \in Uuid
    BY StartedIds
  <2> QED BY <1>2, <2>3, <2>4 DEF Finishers, FinishedByEnd, AnsweredId, Started
<1> QED BY <1>1, <1>2 DEF LaunchStart

LEMMA FinishersItemStart ==
    ASSUME IInv, IInv', Finishers,
           NEW i \in Items, ItemStart(i), UNCHANGED launchVars
    PROVE  Finishers'
<1> DEFINE r == BeginItemRequest(ParentLaunchId, ParentUuid(i), itemId[i])
<1> USE DEF launchVars, historyVars
<1>1. CASE Unanswered(r)
  BY <1>1, FinishersGivenUp DEF Unanswered
<1>2. ASSUME NEW u \in Uuid, BeginAnswered(r, u),
             itemStarted' = [itemStarted EXCEPT ![i] = TRUE],
             itemId' = [itemId EXCEPT ![i] = AnsweredId(r, u)]
      PROVE  Finishers'
  <2>1. Inherit \in Status /\ {} \in SUBSET LogEntry
    BY DEF Status
  <2>2. r \in Request /\ r.op \in Begins
    BY <2>1, RequestTypes, ParentIdType
       DEF IInv, BeginItemRequest, Begins, ParentLaunchId
  <2>3. /\ launchStarted => launchId # u
        /\ \A j \in Started : itemId[j] # u
        /\ records'[u].state = "running"
        /\ \A v \in Uuid \ {u} : records'[v] = records[v]
        /\ UNCHANGED <<wire, aborts>>
    BY <1>2, <2>2, FinishersBegun DEF IInv
  <2>4. /\ launchStarted => launchId \in Uuid
        /\ \A j \in Started : itemId[j] \in Uuid
    BY StartedIds
  <2>5. UNCHANGED <<launchId, launchStarted, launchEnded, endedBy>>
    BY DEF ItemStart
  <2>6. \A j \in Items : j # i => /\ itemStarted'[j] = itemStarted[j]
                                 /\ itemId'[j] = itemId[j]
    BY <1>2 DEF IInv, TypeOK
  <2>7. itemId'[i] = u
    BY <1>2 DEF IInv, TypeOK, AnsweredId
  <2> QED BY <2>3, <2>4, <2>5, <2>6, <2>7 DEF Finishers, FinishedByEnd, Started
<1> QED BY <1>1, <1>2 DEF ItemStart

LEMMA FinishersLaunchEnd ==
    ASSUME IInv, Finishers, LaunchEnd, UNCHANGED itemVars
    PROVE  Finishers'
<1> DEFINE r == EndLaunchRequest(launchId)
<1> USE DEF itemVars, historyVars
<1>1. CASE Unanswered(r)
  BY <1>1, FinishersGivenUp DEF Unanswered
<1>2. CASE EndAnswered(r) /\ launchEnded' = TRUE
  <2>1. r \in Request /\ RequestInv(r) /\ r.op \in Ends /\ r.uuid = launchId
    BY EndRequests DEF LaunchEnd, EndLaunchRequest
  <2>2. /\ \A v \in Uuid \ {launchId} : records'[v] = records[v]
        /\ UNCHANGED <<wire, aborts>>
    BY <1>2, <2>1, FinishersEnded
  <2>3. \A i \in Started : itemId[i] \in Uuid /\ itemId[i] # launchId
    BY StartedIds DEF IInv, ReportedTree, LaunchEnd
  <2> QED BY <1>2, <2>2, <2>3 DEF Finishers, FinishedByEnd, LaunchEnd, Started
<1> QED BY <1>1, <1>2 DEF LaunchEnd

LEMMA FinishersItemEnd ==
    ASSUME IInv, Finishers, NEW i \in Items, ItemEnd(i), UNCHANGED launchVars
    PROVE  Finishers'
<1> DEFINE r == TimedEnd(i)
<1> USE DEF launchVars
<1>1. CASE Unanswered(r)
  BY <1>1, FinishersGivenUp DEF Unanswered
<1>2. CASE EndAnswered(r) /\ endedBy' = [endedBy EXCEPT ![i] = @ \cup {"time"}]
  <2>1. /\ r \in Request /\ RequestInv(r) /\ r.op \in Ends
        /\ r.uuid = itemId[i]
    BY EndRequests DEF ItemEnd, TimedEnd, EndItemRequest
  <2>2. /\ \A v \in Uuid \ {itemId[i]} : records'[v] = records[v]
        /\ UNCHANGED <<wire, aborts>>
    BY <1>2, <2>1, FinishersEnded
  <2>3. /\ i \in Started
        /\ launchStarted => launchId \in Uuid /\ launchId # itemId[i]
        /\ \A j \in Started : /\ itemId[j] \in Uuid
                              /\ j # i => itemId[j] # itemId[i]
    BY StartedIds DEF IInv, ReportedTree, DistinctIdentities, ItemEnd, Started
  <2>4. /\ "time" \in endedBy'[i]
        /\ \A j \in Items : endedBy[j] \subseteq endedBy'[j]
    BY <1>2 DEF IInv, TypeOK
  <2>5. SameIds /\ UNCHANGED launchEnded
    BY DEF SameIds, ItemEnd
  <2> QED BY <2>2, <2>3, <2>4, <2>5
          DEF Finishers, FinishedByEnd, SameIds, Started
<1> QED BY <1>1, <1>2 DEF ItemEnd

LEMMA FinishersItemEndWithStatus ==
    ASSUME IInv, Finishers, NEW i \in Items, NEW s \in Status,
           ItemEndWithStatus(i, s), UNCHANGED launchVars
    PROVE  Finishers'
<1> DEFINE r == EndItemRequest(ParentId(i), itemId[i], s)
<1> USE DEF launchVars
<1>1. CASE Unanswered(r) \/ FlushThrows(i)
  BY <1>1, FinishersGivenUp DEF Unanswered, FlushThrows
<1>2. SameIds /\ UNCHANGED launchEnded
  BY DEF SameIds, ItemEndWithStatus
<1>3. CASE EndRefused /\ UNCHANGED endedBy
  BY <1>2, <1>3, FinishersKept DEF EndRefused
<1>4. CASE EndAnswered(r) /\ endedBy' = [endedBy EXCEPT ![i] = @ \cup {"status"}]
  <2>1. /\ r \in Request /\ RequestInv(r) /\ r.op = "end_item"
        /\ r.op \in Ends /\ r.uuid = ParentId(i)
    BY EndRequests DEF ItemEndWithStatus, EndItemRequest, Status
  <2>2. /\ records[ParentId(i)].kind = "item"
        /\ \A v \in Uuid \ {ParentId(i)} : records'[v] = records[v]
        /\ UNCHANGED <<wire, aborts>>
    BY <1>4, <2>1, FinishersEnded
  <2>3. /\ i \in Started
        /\ launchStarted /\ launchId \in Uuid
        /\ records[launchId].kind = "launch"
        /\ \A j \in Started : itemId[j] \in Uuid
    BY StartedIds DEF IInv, ReportedTree, ItemEndWithStatus, Started
  <2>4. Parent[i] # 0
    BY <2>2, <2>3 DEF ParentId
  <2>5. /\ Parent[i] \in Started
        /\ ParentId(i) = itemId[Parent[i]]
    BY <2>3, <2>4, ParentIsObject, StartedIds DEF ParentHasStarted, ParentId, Started
  <2>6. /\ launchId # ParentId(i)
        /\ \A j \in Started : j # Parent[i] => itemId[j] # ParentId(i)
    BY <2>2, <2>3, <2>5 DEF IInv, DistinctIdentities
  <2>7. /\ "status" \in endedBy'[i]
        /\ \A j \in Items : endedBy[j] \subseteq endedBy'[j]
    BY <1>4 DEF IInv, TypeOK
  <2> QED BY <1>2, <2>2, <2>3, <2>5, <2>6, <2>7
          DEF Finishers, FinishedByEnd, SameIds, Started
<1> QED BY <1>1, <1>3, <1>4 DEF ItemEndWithStatus

LEMMA FinishersStep ==
    ASSUME IInv, IInv', Finishers, [Next]_vars
    PROVE  Finishers'
<1> USE DEF launchVars, itemVars, historyVars
<1>1. CASE LaunchStart /\ UNCHANGED itemVars
  BY <1>1, FinishersLaunchStart
<1>2. CASE LaunchEnd /\ UNCHANGED itemVars
  BY <1>2, FinishersLaunchEnd
<1>3. ASSUME NEW i \in Items, UNCHANGED launchVars, ItemStart(i)
      PROVE  Finishers'
  BY <1>3, FinishersItemStart
<1>4. ASSUME NEW i \in Items, UNCHANGED launchVars,
             ItemSetStatus(i) \/ ItemLog(i)
      PROVE  Finishers'
  BY <1>4, FinishersKept
     DEF ItemSetStatus, ItemLog, SameIds, serviceVars, serverVars
<1>5. ASSUME NEW i \in Items, UNCHANGED launchVars, ItemFlushLogs(i)
      PROVE  Finishers'
  <2>1. CASE FlushThrows(i)
    BY <2>1, FinishersGivenUp DEF FlushThrows
  <2>2. CASE UNCHANGED <<records, wire, aborts, alive>>
    BY <1>5, <2>2, FinishersKept DEF ItemFlushLogs, SameIds
  <2> QED BY <1>5, <2>1, <2>2 DEF ItemFlushLogs
<1>6. ASSUME NEW i \in Items, UNCHANGED launchVars, ItemEnd(i)
      PROVE  Finishers'
  BY <1>6, FinishersItemEnd
<1>7. ASSUME NEW i \in Items, UNCHANGED launchVars,
             NEW s \in Status, ItemEndWithStatus(i, s)
      PROVE  Finishers'
  BY <1>7, FinishersItemEndWithStatus
<1>8. CASE Late
  BY <1>8 DEF Late, LateBegin, LateEnd, LateLogs, Drop, Finishers, FinishedByEnd
<1>9. CASE UNCHANGED vars
  BY <1>9, FinishersKept DEF vars, serviceVars, serverVars, SameIds
<1> QED BY <1>1, <1>2, <1>3, <1>4, <1>5, <1>6, <1>7, <1>8, <1>9 DEF Next

LEMMA FinishersHold == Spec => []Finishers
<1>1. Init => Finishers
  BY DEF Init, ServiceInit, ServerInit, LaunchInit, ItemInit, Finishers,
         FinishedByEnd, Started
<1>2. IInv /\ IInv' /\ Finishers /\ [Next]_vars => Finishers'
  BY FinishersStep
<1> QED BY <1>1, <1>2, InductiveInvariant, PTL DEF Spec

\* While every call is answered, a record is finished only by an end() of the
\* object that answers for it or, with a status, of one of its children.
THEOREM OnlyEndsFinish == Spec => []FinishedByEnd
<1>1. Finishers => FinishedByEnd
  BY DEF Finishers
<1> QED BY <1>1, FinishersHold, PTL

-----------------------------------------------------------------------------
(* How many orphans there can be.  A begin that was given up is on the     *)
(* wire, or a record, or nowhere any more; a begin that is answered makes  *)
(* its record and an owner for it in one step.                             *)

Orphans == {u \in Uuid \ Owned : Known(u)}
BeginsOut == {f \in wire : f.req.op \in Begins}

Counted ==
    /\ IsFiniteSet(Orphans)
    /\ IsFiniteSet(BeginsOut)
    /\ Cardinality(Orphans) + Cardinality(BeginsOut) <= aborts

LEMMA CountKept ==
    ASSUME Counted, TypeOK, Orphans' \subseteq Orphans,
           BeginsOut' \subseteq BeginsOut, aborts' = aborts
    PROVE  Counted'
<1>1. aborts \in Nat
  BY BoundAssumption DEF TypeOK, BoundAssumption
<1>2. /\ IsFiniteSet(Orphans') /\ Cardinality(Orphans') <= Cardinality(Orphans)
      /\ IsFiniteSet(BeginsOut')
      /\ Cardinality(BeginsOut') <= Cardinality(BeginsOut)
  BY FS_Subset DEF Counted
<1>3. /\ Cardinality(Orphans) \in Nat /\ Cardinality(Orphans') \in Nat
      /\ Cardinality(BeginsOut) \in Nat /\ Cardinality(BeginsOut') \in Nat
  BY <1>2, FS_CardinalityType DEF Counted
<1>4. Cardinality(Orphans') + Cardinality(BeginsOut') <= aborts'
  BY <1>1, <1>2, <1>3 DEF Counted
<1> QED BY <1>2, <1>4 DEF Counted

\* A call is given up: one more request may be on the wire.
LEMMA CountGivenUp ==
    ASSUME Counted, TypeOK, Orphans' \subseteq Orphans, NEW r, Aborted(r)
    PROVE  Counted'
<1> DEFINE f == [n |-> aborts + 1, req |-> r]
           More == BeginsOut \cup {f}
<1>1. aborts \in Nat /\ aborts' = aborts + 1
  BY BoundAssumption DEF TypeOK, BoundAssumption, Aborted
<1>2. BeginsOut' \subseteq More
  BY DEF BeginsOut, Aborted
<1>3. /\ IsFiniteSet(More)
      /\ Cardinality(More) = IF f \in BeginsOut THEN Cardinality(BeginsOut)
                                                ELSE Cardinality(BeginsOut) + 1
  BY FS_AddElement DEF Counted
<1>4. /\ IsFiniteSet(Orphans') /\ Cardinality(Orphans') <= Cardinality(Orphans)
      /\ IsFiniteSet(BeginsOut') /\ Cardinality(BeginsOut') <= Cardinality(More)
  <2> HIDE DEF More
  <2> QED BY <1>2, <1>3, FS_Subset DEF Counted
<1>5. /\ Cardinality(Orphans) \in Nat /\ Cardinality(Orphans') \in Nat
      /\ Cardinality(BeginsOut) \in Nat /\ Cardinality(BeginsOut') \in Nat
      /\ Cardinality(More) \in Nat
  <2> HIDE DEF More
  <2> QED BY <1>3, <1>4, FS_CardinalityType DEF Counted
<1>6. Cardinality(Orphans') + Cardinality(BeginsOut') <= aborts'
  <2> HIDE DEF More
  <2> QED BY <1>1, <1>3, <1>4, <1>5 DEF Counted
<1> QED BY <1>4, <1>6 DEF Counted

\* A late begin leaves the wire and may become a record.
LEMMA CountLateBegin ==
    ASSUME Counted, TypeOK, NEW f \in BeginsOut, NEW u,
           Orphans' \subseteq Orphans \cup {u}, wire' = wire \ {f},
           aborts' = aborts
    PROVE  Counted'
<1> DEFINE More == Orphans \cup {u}
           Less == BeginsOut \ {f}
<1>1. aborts \in Nat
  BY BoundAssumption DEF TypeOK, BoundAssumption
<1>2. BeginsOut' \subseteq Less
  BY DEF BeginsOut
<1>3. /\ IsFiniteSet(More)
      /\ Cardinality(More) = IF u \in Orphans THEN Cardinality(Orphans)
                                              ELSE Cardinality(Orphans) + 1
  BY FS_AddElement DEF Counted
<1>4. IsFiniteSet(Less) /\ Cardinality(Less) = Cardinality(BeginsOut) - 1
  BY FS_RemoveElement DEF Counted
<1> HIDE DEF More, Less
<1>5. Orphans' \subseteq More
  BY DEF More
<1>6. /\ IsFiniteSet(Orphans') /\ Cardinality(Orphans') <= Cardinality(More)
      /\ IsFiniteSet(BeginsOut') /\ Cardinality(BeginsOut') <= Cardinality(Less)
  BY <1>2, <1>3, <1>4, <1>5, FS_Subset
<1>7. /\ Cardinality(Orphans) \in Nat /\ Cardinality(Orphans') \in Nat
      /\ Cardinality(BeginsOut) \in Nat /\ Cardinality(BeginsOut') \in Nat
      /\ Cardinality(More) \in Nat /\ Cardinality(Less) \in Nat
  BY <1>3, <1>4, <1>6, FS_CardinalityType DEF Counted
<1>8. Cardinality(Orphans') + Cardinality(BeginsOut') <= aborts'
  BY <1>1, <1>3, <1>4, <1>6, <1>7 DEF Counted
<1> QED BY <1>6, <1>8 DEF Counted

LEMMA OrphansKept ==
    ASSUME Grows, \A v \in Uuid : Known(v)' => Known(v)
    PROVE  Orphans' \subseteq Orphans
<1>1. Uuid' = Uuid
  BY DEF Uuid
<1> QED BY <1>1, OwnedStable DEF Orphans

LEMMA SameRecordsSameKnown ==
    ASSUME UNCHANGED records
    PROVE  \A v \in Uuid : Known(v)' => Known(v)
  BY DEF Known

LEMMA FinishedWasKnown ==
    ASSUME TypeOK, NEW r, NEW u \in Uuid, Finish(r, u)
    PROVE  \A v \in Uuid : Known(v)' => Known(v)
<1>1. records[u] \in Record
  BY DEF TypeOK
<1>2. records'[u] = [records[u] EXCEPT !.state = "finished", !.status = r.status]
  BY DEF Finish, TypeOK
<1>3. records'[u].kind = records[u].kind
  BY <1>1, <1>2 DEF Record
<1>4. \A v \in Uuid \ {u} : records'[v] = records[v]
  BY DEF Finish, TypeOK
<1> QED BY <1>3, <1>4 DEF Known

LEMMA RegisteredOrKnown ==
    ASSUME TypeOK, NEW r, NEW u, Register(r, u)
    PROVE  \A v \in Uuid : Known(v)' => v = u \/ Known(v)
  BY DEF Register, TypeOK, Known

LEMMA CountEndAnswered ==
    ASSUME IInv, Counted, Grows, NEW r, r.op \in Ends, EndAnswered(r)
    PROVE  Counted'
<1>1. PICK u \in Subjects(r) : Finish(r, u)
  BY DEF EndAnswered
<1>2. u \in Uuid
  BY DEF Subjects, Ends, Known
<1>3. Orphans' \subseteq Orphans
  BY <1>1, <1>2, FinishedWasKnown, OrphansKept DEF IInv
<1>4. BeginsOut' \subseteq BeginsOut
  BY DEF EndAnswered, BeginsOut
<1> QED BY <1>3, <1>4, CountKept DEF IInv, EndAnswered

LEMMA CountBeginAnswered ==
    ASSUME IInv, Counted, Grows, NEW r, NEW u, BeginAnswered(r, u), u \in Owned'
    PROVE  Counted'
<1>1. \A v \in Uuid : Known(v)' => v = u \/ Known(v)
  BY RegisteredOrKnown DEF BeginAnswered, IInv
<1>2. Uuid' = Uuid
  BY DEF Uuid
<1>3. Orphans' \subseteq Orphans
  BY <1>1, <1>2, OwnedStable DEF Orphans
<1>4. BeginsOut' \subseteq BeginsOut
  BY DEF BeginAnswered, BeginsOut
<1> QED BY <1>3, <1>4, CountKept DEF IInv, BeginAnswered

LEMMA CountAborted ==
    ASSUME IInv, Counted, Grows, NEW r, Aborted(r)
    PROVE  Counted'
<1>1. Orphans' \subseteq Orphans
  BY SameRecordsSameKnown, OrphansKept DEF Aborted
<1> QED BY <1>1, CountGivenUp DEF IInv

LEMMA CountNothing ==
    ASSUME IInv, Counted, Grows, UNCHANGED <<records, wire, aborts>>
    PROVE  Counted'
<1>1. Orphans' \subseteq Orphans
  BY SameRecordsSameKnown, OrphansKept
<1>2. BeginsOut' \subseteq BeginsOut
  BY DEF BeginsOut
<1> QED BY <1>1, <1>2, CountKept DEF IInv

LEMMA CountLate ==
    ASSUME IInv, Counted, Grows, Late
    PROVE  Counted'
<1>1. PICK f \in wire : LateBegin(f) \/ LateEnd(f) \/ LateLogs(f) \/ Drop(f)
  BY DEF Late
<1>2. BeginsOut' \subseteq BeginsOut /\ aborts' = aborts
  BY <1>1 DEF LateBegin, LateEnd, LateLogs, Drop, BeginsOut
<1>3. CASE LateBegin(f)
  <2>1. PICK u \in Subjects(f.req) : Register(f.req, u)
    BY <1>3 DEF LateBegin
  <2>2. \A v \in Uuid : Known(v)' => v = u \/ Known(v)
    BY <2>1, RegisteredOrKnown DEF IInv
  <2>3. Uuid' = Uuid
    BY DEF Uuid
  <2>4. Orphans' \subseteq Orphans \cup {u}
    BY <2>2, <2>3, OwnedStable DEF Orphans
  <2>5. f \in BeginsOut /\ wire' = wire \ {f}
    BY <1>3 DEF LateBegin, BeginsOut
  <2> QED BY <1>2, <2>4, <2>5, CountLateBegin DEF IInv
<1>4. CASE LateEnd(f)
  <2>1. PICK u \in Subjects(f.req) : Finish(f.req, u)
    BY <1>4 DEF LateEnd
  <2>2. u \in Uuid
    BY <1>4 DEF LateEnd, Subjects, Ends, Known
  <2>3. Orphans' \subseteq Orphans
    BY <2>1, <2>2, FinishedWasKnown, OrphansKept DEF IInv
  <2> QED BY <1>2, <2>3, CountKept DEF IInv
<1>5. CASE LateLogs(f) \/ Drop(f)
  <2>1. Orphans' \subseteq Orphans
    BY <1>5, SameRecordsSameKnown, OrphansKept DEF LateLogs, Drop
  <2> QED BY <1>2, <2>1, CountKept DEF IInv
<1> QED BY <1>1, <1>3, <1>4, <1>5

LEMMA CountLaunchStart ==
    ASSUME IInv, IInv', Counted, Grows, LaunchStart
    PROVE  Counted'
<1> DEFINE r == BeginLaunchRequest(launchId)
<1>1. CASE Unanswered(r)
  BY <1>1, CountAborted DEF Unanswered
<1>2. ASSUME NEW u \in Uuid, BeginAnswered(r, u),
             launchStarted' = TRUE, launchId' = AnsweredId(r, u)
      PROVE  Counted'
  <2>1. u \in Owned'
    BY <1>2 DEF Owned, AnsweredId, Uuid
  <2> QED BY <1>2, <2>1, CountBeginAnswered
<1> QED BY <1>1, <1>2 DEF LaunchStart

LEMMA CountItemStart ==
    ASSUME IInv, IInv', Counted, Grows, NEW i \in Items, ItemStart(i)
    PROVE  Counted'
<1> DEFINE r == BeginItemRequest(ParentLaunchId, ParentUuid(i), itemId[i])
<1>1. CASE Unanswered(r)
  BY <1>1, CountAborted DEF Unanswered
<1>2. ASSUME NEW u \in Uuid, BeginAnswered(r, u),
             itemStarted' = [itemStarted EXCEPT ![i] = TRUE],
             itemId' = [itemId EXCEPT ![i] = AnsweredId(r, u)]
      PROVE  Counted'
  <2>1. itemStarted'[i] /\ itemId'[i] = u
    BY <1>2 DEF IInv, TypeOK, AnsweredId
  <2>2. u \in Owned'
    BY <1>2, <2>1 DEF Owned, Started, Uuid
  <2> QED BY <1>2, <2>2, CountBeginAnswered
<1> QED BY <1>1, <1>2 DEF ItemStart

LEMMA CountStep ==
    ASSUME IInv, IInv', Counted, Grows, [Next]_vars
    PROVE  Counted'
<1>1. CASE LaunchStart
  BY <1>1, CountLaunchStart
<1>2. CASE LaunchEnd
  <2>1. EndLaunchRequest(launchId).op \in Ends
    BY DEF EndLaunchRequest, Ends
  <2> QED BY <1>2, <2>1, CountAborted, CountEndAnswered DEF LaunchEnd, Unanswered
<1>3. ASSUME NEW i \in Items, ItemStart(i)
      PROVE  Counted'
  BY <1>3, CountItemStart
<1>4. ASSUME NEW i \in Items, ItemSetStatus(i) \/ ItemLog(i)
      PROVE  Counted'
  BY <1>4, CountNothing DEF ItemSetStatus, ItemLog, serviceVars, serverVars
<1>5. ASSUME NEW i \in Items, ItemFlushLogs(i)
      PROVE  Counted'
  BY <1>5, CountNothing, CountAborted DEF ItemFlushLogs, FlushThrows
<1>6. ASSUME NEW i \in Items, ItemEnd(i)
      PROVE  Counted'
  <2>1. TimedEnd(i).op \in Ends
    BY DEF TimedEnd, EndItemRequest, Ends
  <2> QED BY <1>6, <2>1, CountAborted, CountEndAnswered DEF ItemEnd, Unanswered
<1>7. ASSUME NEW i \in Items, NEW s \in Status, ItemEndWithStatus(i, s)
      PROVE  Counted'
  <2> DEFINE r == EndItemRequest(ParentId(i), itemId[i], s)
  <2>1. r.op \in Ends
    BY DEF EndItemRequest, Ends
  <2>2. CASE FlushThrows(i) \/ Unanswered(r)
    BY <2>2, CountAborted DEF FlushThrows, Unanswered
  <2>3. CASE EndAnswered(r)
    BY <2>1, <2>3, CountEndAnswered
  <2>4. CASE EndRefused
    BY <2>4, CountNothing DEF EndRefused
  <2> QED BY <1>7, <2>2, <2>3, <2>4 DEF ItemEndWithStatus
<1>8. CASE Late
  BY <1>8, CountLate
<1>9. CASE UNCHANGED vars
  BY <1>9, CountNothing DEF vars, serviceVars, serverVars
<1> QED BY <1>1, <1>2, <1>3, <1>4, <1>5, <1>6, <1>7, <1>8, <1>9 DEF Next

LEMMA CountHolds == Spec => []Counted
<1>1. Init => Counted
  <2>1. ASSUME Init
        PROVE  Orphans = {} /\ BeginsOut = {} /\ aborts = 0
    BY <2>1 DEF Init, ServiceInit, ServerInit, Orphans, BeginsOut, Known, Absent
  <2> QED BY <2>1, FS_EmptySet DEF Counted
<1>2. IInv /\ IInv' /\ Counted /\ [Next]_vars => Counted'
  BY NextStep, CountStep
<1> QED BY <1>1, <1>2, InductiveInvariant, PTL DEF Spec

\* However often calls are retried, a start() that threw, or that ended the
\* process, leaves at most one record that no object answers for.
THEOREM OrphansAreFew == Spec => []OrphanPerAbort
<1>1. Counted => OrphanPerAbort
  BY DEF Counted, OrphanPerAbort, Orphans, BeginsOut
<1> QED BY <1>1, CountHolds, PTL
=============================================================================
