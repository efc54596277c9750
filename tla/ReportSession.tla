---------------------------- MODULE ReportSession ----------------------------
(***************************************************************************)
(* One use of the library: a launch, its test items, the service they      *)
(* share and the server.  The library has no threads of its own: its user  *)
(* makes one call at a time, in any order the objects allow, and may make  *)
(* a call that threw again.  The server goes on with the requests nobody   *)
(* waits for.                                                              *)
(***************************************************************************)
EXTENDS TestItem

vars == <<serviceVars, launchVars, itemVars>>

Init == ServiceInit /\ LaunchInit /\ ItemInit

Next ==
    \/ LaunchStart /\ UNCHANGED itemVars
    \/ LaunchEnd /\ UNCHANGED itemVars
    \/ \E i \in Items :
          /\ \/ ItemStart(i)
             \/ ItemSetStatus(i)
             \/ ItemLog(i)
             \/ ItemFlushLogs(i)
             \/ ItemEnd(i)
             \/ \E s \in Status : ItemEndWithStatus(i, s)
          /\ UNCHANGED launchVars
    \/ Late /\ UNCHANGED <<alive, launchVars, itemVars>>

Spec == Init /\ [][Next]_vars

-----------------------------------------------------------------------------
TypeOK ==
    /\ records \in [Uuid -> Record]
    /\ stored \subseteq LogEntry
    /\ wire \subseteq Flight
    /\ aborts \in 0 .. MaxAborts
    /\ alive \in BOOLEAN
    /\ launchId \in UuidOrNil
    /\ launchStarted \in BOOLEAN
    /\ launchEnded \in BOOLEAN
    /\ itemId \in [Items -> UuidOrNil]
    /\ itemStarted \in [Items -> BOOLEAN]
    /\ itemEnded \in [Items -> BOOLEAN]
    /\ itemStatus \in [Items -> Status]
    /\ batchedLogs \in [Items -> Seq(LogEntry)]
    /\ logged \in [Items -> 0 .. MaxLogs]
    /\ endedBy \in [Items -> SUBSET {"time", "status"}]

-----------------------------------------------------------------------------
\* What the objects of the program and the server agree on.

Started == {i \in Items : itemStarted[i]}

Owned == {u \in Uuid : \/ launchStarted /\ u = launchId
                       \/ \E i \in Started : u = itemId[i]}

\* The server shows the tree the program built: the record of a started item
\* is an item of the launch, under the record of the object it was
\* constructed with, all the way up to the launch.
ReportedTree ==
    /\ launchStarted => Known(launchId) /\ records[launchId].kind = "launch"
    /\ \A i \in Started :
          /\ ParentHasStarted(i)
          /\ Known(itemId[i])
          /\ records[itemId[i]].kind = "item"
          /\ records[itemId[i]].launch = launchId
          /\ records[itemId[i]].parent =
                IF Parent[i] = 0 THEN NilUuid ELSE itemId[Parent[i]]

\* Whatever was retried, two started items never report to one record.
DistinctIdentities ==
    \A i, j \in Started : itemId[i] = itemId[j] => i = j

\* A record no object answers for is what a start() that threw, or that ended
\* the process, left behind: there is at most one for each such call.
OrphanPerAbort ==
    Cardinality({u \in Uuid \ Owned : Known(u)})
        + Cardinality({f \in wire : f.req.op \in Begins}) <= aborts

\* Such a record stays running, and nothing is ever attached to it.
OrphansAreInert ==
    \A u \in Uuid \ Owned : Known(u) =>
        /\ records[u].state = "running"
        /\ \A v \in Uuid : u \notin {records[v].parent, records[v].launch}
        /\ \A e \in stored : u \notin {e.item, e.launch}

\* An end() that has returned has finished a record: the launch's, the item's
\* for end(time), and for end(time, status) the one of the item's parent.
EndFinishes ==
    /\ launchEnded => records[launchId].state = "finished"
    /\ \A i \in Items :
          /\ "time" \in endedBy[i] => records[itemId[i]].state = "finished"
          /\ "status" \in endedBy[i] =>
                /\ Parent[i] # 0
                /\ records[ParentId(i)].state = "finished"

\* While every call is answered, a record is finished only by such a call.
FinishedByEnd ==
    aborts = 0 =>
        /\ launchStarted /\ records[launchId].state = "finished"
              => launchEnded
        /\ \A i \in Started : records[itemId[i]].state = "finished" =>
              \/ "time" \in endedBy[i]
              \/ \E c \in Items : Parent[c] = i /\ "status" \in endedBy[c]

-----------------------------------------------------------------------------
\* Logs.

Entry(i, k) == [n |-> k, launch |-> launchId, item |-> itemId[i]]

\* Wherever an entry is, batched, on the wire or stored, it names the launch
\* and an item of it that has started, under the ids they still have.
LogAttribution ==
    /\ \A i \in Items : \A e \in Batch(i) : e = Entry(i, e.n)
    /\ \A e \in stored \cup UNION {f.req.logs : f \in wire} :
          \E i \in Started : e = Entry(i, e.n)

\* Batches may be refused, abandoned or arrive late; the log of an item on the
\* server still has no hole.
NoGapInLogs ==
    \A i \in Started : \A e \in stored :
        e.item = itemId[i] => \A k \in 1 .. e.n : Entry(i, k) \in stored

\* No message is lost while its item exists: what the server has not stored
\* is carried by the next flush, in the order it was logged.
NextFlushCarriesRest ==
    \A i \in Items : \A k \in 1 .. logged[i] :
        \/ Entry(i, k) \in stored
        \/ \E m \in 1 .. Len(batchedLogs[i]) :
              /\ batchedLogs[i][m] = Entry(i, k)
              /\ \A l \in 1 .. m - 1 : batchedLogs[i][l].n < k

-----------------------------------------------------------------------------
(* What the repository says of a test item and the code does not do: each  *)
(* of these is expected to be violated.                                    *)

\* iservice.hpp says the uuid given to end_test_item is that of the item
\* ending: an item whose end() has returned is finished on the server.
EndNamesItself ==
    \A i \in Items : endedBy[i] # {} => records[itemId[i]].state = "finished"

\* The guard of both overloads says an item that has ended refuses to end
\* again: at most one of them returns.
AtMostOneEnd == \A i \in Items : Cardinality(endedBy[i]) <= 1

\* The launch_uuid of end_test_item is the uuid of the launch, as the test of
\* the serializer passes it.  An item without children is ended in a request by
\* its own end(time) only, end(time, status) naming the parent: that request
\* names the launch the item is in.
EndNamesLaunch ==
    \A f \in wire, i \in Started :
        /\ f.req.op = "end_item" /\ f.req.uuid = itemId[i]
        /\ \A c \in Items : Parent[c] # i
        => f.req.launch = launchId

-----------------------------------------------------------------------------
\* An object that has started keeps its id and stays started, whatever call
\* is made again.
IdentityKept ==
    [][ /\ launchStarted => launchStarted' /\ launchId' = launchId
        /\ \A i \in Started : itemStarted'[i] /\ itemId'[i] = itemId[i] ]_vars

-----------------------------------------------------------------------------
\* The session as an implementation of ReportTree.

NodeOf(o) ==
    IF o = 0 THEN IF launchStarted THEN launchId ELSE NilUuid
             ELSE IF itemStarted[o] THEN itemId[o] ELSE NilUuid

\* The record a record is under: an item without a parent is under its launch.
Above(u) ==
    IF records[u].kind = "item" /\ records[u].parent = NilUuid
        THEN records[u].launch
        ELSE records[u].parent

LogOf(o) == IF o = 0 THEN {}
            ELSE {k \in 1 .. MaxLogs : itemStarted[o] /\ Entry(o, k) \in stored}

TreeIds == {u \in Uuid : Known(u)}
TreeUnder == [u \in Uuid |-> Above(u)]
TreeDone == {u \in Uuid : records[u].state = "finished"}
TreeNode == [o \in 0 .. N |-> NodeOf(o)]
TreeLog == [o \in 0 .. N |-> LogOf(o)]

Tree == INSTANCE ReportTree WITH
    Ids <- Uuid, NoId <- NilUuid, tree <- TreeIds, under <- TreeUnder,
    done <- TreeDone, node <- TreeNode, log <- TreeLog

\* Every step of the library and of the server, the late ones included, is a
\* step the abstract specification allows, or changes nothing it shows.
ImplementsTree == Tree!Spec

-----------------------------------------------------------------------------
(* The inductive invariant: where every record, request and log entry that *)
(* exists came from.                                                       *)

IdInv ==
    /\ launchStarted \/ launchId \in {NilUuid, LaunchOwnId}
    /\ \A i \in Items : itemStarted[i] \/ itemId[i] \in {NilUuid, ItemOwnId[i]}
    /\ \A i \in Started : launchStarted
    /\ launchEnded => launchStarted
    /\ \A i \in Items : endedBy[i] # {} => itemStarted[i]

\* A begin of item i names its launch and its parent.
BeginOf(i, launch, parent) ==
    /\ launchStarted
    /\ ParentHasStarted(i)
    /\ launch = launchId
    /\ parent = IF Parent[i] = 0 THEN NilUuid ELSE itemId[Parent[i]]

\* Every record comes from a begin of an object, under an id generated for it
\* or the object's own, and is finished only when an object answers for it.
RecordInv(u) ==
    \/ records[u] = Absent
    \/ /\ records[u].kind = "launch"
       /\ records[u].launch = NilUuid
       /\ records[u].parent = NilUuid
       /\ records[u].state = "running" \/ u \in Owned
       /\ u \in ServerIds \cup {LaunchOwnId}
    \/ /\ records[u].kind = "item"
       /\ records[u].state = "running" \/ u \in Owned
       /\ \E i \in Items :
             /\ u \in ServerIds \cup {ItemOwnId[i]}
             /\ BeginOf(i, records[u].launch, records[u].parent)

FirstEntries(i, m) == {Entry(i, k) : k \in 1 .. m}

\* Every request on the wire is one an object made, with ids that still hold.
RequestInv(r) ==
    \/ /\ r.op = "begin_launch"
       /\ r.uuid \in {NilUuid, LaunchOwnId}
       /\ r.launch = NilUuid
       /\ r.parent = NilUuid
       /\ r.logs = {}
    \/ /\ r.op = "begin_item"
       /\ r.logs = {}
       /\ \E i \in Items : /\ r.uuid \in {NilUuid, ItemOwnId[i]}
                           /\ BeginOf(i, r.launch, r.parent)
    \/ /\ r.op \in Ends
       /\ r.uuid \in Owned
       /\ r.logs = {}
    \/ /\ r.op = "logs"
       /\ \E i \in Started : \E m \in 0 .. logged[i] :
             r.logs = FirstEntries(i, m)

RecordsInv == \A u \in Uuid : RecordInv(u)

WireInv == \A f \in wire : RequestInv(f.req)

BatchInv == \A i \in Items :
    /\ logged[i] > 0 => itemStarted[i]
    /\ batchedLogs[i] = [k \in 1 .. logged[i] |-> Entry(i, k)]

StoredInv == \A e \in stored : \E i \in Started :
    e.n <= logged[i] /\ e = Entry(i, e.n)

IInv ==
    /\ TypeOK
    /\ IdInv
    /\ ReportedTree
    /\ DistinctIdentities
    /\ RecordsInv
    /\ WireInv
    /\ BatchInv
    /\ StoredInv
    /\ NoGapInLogs
    /\ EndFinishes
=============================================================================
