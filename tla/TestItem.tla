------------------------------ MODULE TestItem ------------------------------
(***************************************************************************)
(* report_portal::test_item (src/src/test_item.cpp).  The items 1 .. N     *)
(* form a tree under the launch, which is number 0: Parent[i] is the       *)
(* object the item's constructor was given, so it existed before.  Like    *)
(* the code, the handlers reach the parent only through itest_item_parent. *)
(***************************************************************************)
EXTENDS Launch, Sequences, Functions

CONSTANTS
    N,          \* how many test items the user constructs
    Parent,     \* [Items -> {0} \cup Items]
    ItemOwnId   \* the ids given to the constructors that take one

Items == 1 .. N

ASSUME TreeAssumption ==
    /\ N \in Nat
    /\ Parent \in [Items -> 0 .. N]
    /\ \A i \in Items : Parent[i] < i

\* The user gives no two objects the same id.
ASSUME ItemOwnIdAssumption ==
    /\ ItemOwnId \in [Items -> ClientIds]
    /\ \A i \in Items : ItemOwnId[i] # LaunchOwnId
    /\ \A i, j \in Items : ItemOwnId[i] = ItemOwnId[j] => i = j

VARIABLES
    itemId,         \* _id
    itemStarted,    \* _has_started
    itemEnded,      \* _has_ended
    itemStatus,     \* _status
    batchedLogs,    \* _batched_logs
    logged,         \* history: how many log() calls have returned
    endedBy         \* history: the overloads of end() that have returned

historyVars == <<logged, endedBy>>
itemVars == <<itemId, itemStarted, itemEnded, itemStatus, batchedLogs,
              historyVars>>

-----------------------------------------------------------------------------
\* itest_item_parent, as seen from item i.
ParentId(i) == IF Parent[i] = 0 THEN launchId ELSE itemId[Parent[i]]
ParentHasStarted(i) ==
    IF Parent[i] = 0 THEN launchStarted ELSE itemStarted[Parent[i]]
ParentHasEnded(i) ==
    IF Parent[i] = 0 THEN launchEnded ELSE itemEnded[Parent[i]]

\* Every item passes the question up until it reaches the launch.
ParentLaunchId == launchId

\* Mutation: the comparison the other way round.
ParentUuidFlipped(i) ==
    IF ParentId(i) = ParentLaunchId THEN ParentId(i) ELSE NilUuid

\* The parent a begin names: nil for an item directly under the launch.
ParentUuid(i) == IF ParentId(i) # ParentLaunchId THEN ParentId(i) ELSE NilUuid

-----------------------------------------------------------------------------
ItemInit ==
    /\ itemId \in {f \in [Items -> UuidOrNil] :
                        \A i \in Items : f[i] \in {NilUuid, ItemOwnId[i]}}
    /\ itemStarted = [i \in Items |-> FALSE]
    /\ itemEnded = [i \in Items |-> FALSE]
    /\ itemStatus = [i \in Items |-> Inherit]
    /\ batchedLogs = [i \in Items |-> << >>]
    /\ logged = [i \in Items |-> 0]
    /\ endedBy = [i \in Items |-> {}]

\* Mutation: the parent is not asked whether it has started.
ItemCanStartAnywhere(i) ==
    ~ ParentHasEnded(i) /\ ~ itemEnded[i] /\ ~ itemStarted[i]

\* Refused under a parent that has not started or has ended.
ItemCanStart(i) ==
    /\ ParentHasStarted(i)
    /\ ~ ParentHasEnded(i)
    /\ ~ itemEnded[i]
    /\ ~ itemStarted[i]

\* start(): the id is taken from the answer, after the call has returned.
ItemStart(i) ==
    /\ alive
    /\ ItemCanStart(i)
    /\ LET r == BeginItemRequest(ParentLaunchId, ParentUuid(i), itemId[i]) IN
         \/ \E u \in Uuid :
                /\ BeginAnswered(r, u)
                /\ itemStarted' = [itemStarted EXCEPT ![i] = TRUE]
                /\ itemId' = [itemId EXCEPT ![i] = AnsweredId(r, u)]
         \/ Unanswered(r) /\ UNCHANGED <<itemId, itemStarted>>
    /\ UNCHANGED <<stored, itemEnded, itemStatus, batchedLogs, historyVars>>

\* set_status(): at any time.
ItemSetStatus(i) ==
    /\ alive
    /\ \E s \in Status : itemStatus' = [itemStatus EXCEPT ![i] = s]
    /\ UNCHANGED <<serviceVars, itemId, itemStarted, itemEnded, batchedLogs,
                   historyVars>>

\* Mutation: an entry names the parent, as an end does.
NextEntryOfParent(i) ==
    [n |-> logged[i] + 1, launch |-> ParentId(i), item |-> itemId[i]]

\* log's constructor: the ids are those of the moment.
NextEntry(i) ==
    [n |-> logged[i] + 1, launch |-> ParentLaunchId, item |-> itemId[i]]

\* Mutation: an item that has not started takes entries.
ItemLogsEarly(i) == logged[i] < MaxLogs

ItemCanLog(i) == itemStarted[i] /\ logged[i] < MaxLogs

\* log(): both overloads; an attachment travels with its entry.
ItemLog(i) ==
    /\ alive
    /\ ItemCanLog(i)
    /\ batchedLogs' = [batchedLogs EXCEPT ![i] = Append(@, NextEntry(i))]
    /\ logged' = [logged EXCEPT ![i] = @ + 1]
    /\ UNCHANGED <<serviceVars, itemId, itemStarted, itemEnded, itemStatus,
                   endedBy>>

\* flush_logs(): the whole batch is sent and stays batched; nothing is sent
\* when there is none.
Batch(i) == Range(batchedLogs[i])

FlushReturns(i) ==
    IF batchedLogs[i] = << >> THEN UNCHANGED stored
                              ELSE BatchLogsReturns(LogsRequest(Batch(i)))

FlushThrows(i) ==
    /\ batchedLogs[i] # << >>
    /\ Aborted(LogsRequest(Batch(i)))
    /\ UNCHANGED <<stored, alive>>

\* Mutation: the batch is cleared once the call has returned.
ItemFlushLogsClears(i) ==
    /\ alive
    /\ FlushReturns(i)
    /\ batchedLogs' = [batchedLogs EXCEPT ![i] = << >>]
    /\ UNCHANGED <<records, wire, aborts, alive, itemId, itemStarted,
                   itemEnded, itemStatus, historyVars>>

ItemFlushLogs(i) ==
    /\ alive
    /\ \/ FlushReturns(i) /\ UNCHANGED <<records, wire, aborts, alive>>
       \/ FlushThrows(i)
    /\ UNCHANGED itemVars

\* Mutation: the arguments the other way round.
TimedEndSwapped(i) == EndItemRequest(ParentId(i), itemId[i], itemStatus[i])

\* The object's id, its parent's in place of the launch's, and its status.
TimedEnd(i) == EndItemRequest(itemId[i], ParentId(i), itemStatus[i])

\* end(end_time): _has_ended keeps its value.
ItemEnd(i) ==
    /\ alive
    /\ ~ itemEnded[i]
    /\ itemStarted[i]
    /\ \/ /\ EndAnswered(TimedEnd(i))
          /\ endedBy' = [endedBy EXCEPT ![i] = @ \cup {"time"}]
       \/ Unanswered(TimedEnd(i)) /\ UNCHANGED endedBy
    /\ UNCHANGED <<stored, itemId, itemStarted, itemEnded, itemStatus,
                   batchedLogs, logged>>

\* end(end_time, status): the logs first, and no end when that throws.  The
\* parent's id is passed as the id of the item, the item's as the launch's.
\* What the server does between the two calls it could as well do before
\* the first, so they are one step.
ItemEndWithStatus(i, s) ==
    /\ alive
    /\ ~ itemEnded[i]
    /\ itemStarted[i]
    /\ \/ FlushThrows(i) /\ UNCHANGED <<itemStatus, endedBy>>
       \/ /\ FlushReturns(i)
          /\ itemStatus' = [itemStatus EXCEPT ![i] = s]
          /\ LET r == EndItemRequest(ParentId(i), itemId[i], s) IN
               \/ /\ EndAnswered(r)
                  /\ endedBy' = [endedBy EXCEPT ![i] = @ \cup {"status"}]
               \/ EndRefused /\ UNCHANGED endedBy
               \/ Unanswered(r) /\ UNCHANGED endedBy
    /\ UNCHANGED <<itemId, itemStarted, itemEnded, batchedLogs, logged>>
=============================================================================
