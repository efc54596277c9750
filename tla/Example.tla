------------------------------ MODULE Example ------------------------------
(***************************************************************************)
(* The example program, src/src/main.cpp: one launch, a suite, a test in   *)
(* it and a step in that, each started, and ended in the reverse order.    *)
(* Nobody catches an exception: a call that throws ends the program, and   *)
(* the server may go on with its request.                                  *)
(***************************************************************************)
EXTENDS ReportSession

\* The objects main constructs: each the parent of the next.
ASSUME ProgramAssumption ==
    /\ N = 3
    /\ Parent = <<0, 1, 2>>
    /\ "passed" \in Statuses

VARIABLE pc     \* the next call of main; 0: an exception has ended the program

Suite == 1
Test == 2
Step == 3

Program == <<
    [call |-> "launch.start"],
    [call |-> "start", item |-> Suite],
    [call |-> "start", item |-> Test],
    [call |-> "start", item |-> Step],
    [call |-> "log", item |-> Step],
    [call |-> "log", item |-> Step],
    [call |-> "log", item |-> Step],
    [call |-> "end with status", item |-> Step, status |-> "passed"],
    [call |-> "end", item |-> Test],
    [call |-> "end", item |-> Suite],
    [call |-> "launch.end"] >>

Finished == Len(Program) + 1

\* No object is constructed with an id.
MainInit ==
    /\ Init
    /\ launchId = NilUuid
    /\ \A i \in Items : itemId[i] = NilUuid
    /\ pc = 1

\* The handler a call runs, and whether it has returned: main makes each call
\* of an object but log() once.
Runs(c) ==
    CASE c.call = "launch.start" -> LaunchStart /\ UNCHANGED itemVars
      [] c.call = "launch.end" -> LaunchEnd /\ UNCHANGED itemVars
      [] c.call = "start" -> ItemStart(c.item) /\ UNCHANGED launchVars
      [] c.call = "log" -> ItemLog(c.item) /\ UNCHANGED launchVars
      [] c.call = "end" -> ItemEnd(c.item) /\ UNCHANGED launchVars
      [] c.call = "end with status" ->
            ItemEndWithStatus(c.item, c.status) /\ UNCHANGED launchVars

Returned(c) ==
    CASE c.call = "launch.start" -> launchStarted
      [] c.call = "launch.end" -> launchEnded
      [] c.call = "start" -> itemStarted[c.item]
      [] c.call = "log" -> TRUE
      [] c.call = "end" -> "time" \in endedBy[c.item]
      [] c.call = "end with status" -> "status" \in endedBy[c.item]

\* Mutation: an exception is swallowed and main goes on.
MainStepSwallows ==
    /\ pc \in DOMAIN Program
    /\ \/ Runs(Program[pc])
       \/ UNCHANGED vars
    /\ pc' = pc + 1

\* A call the server, or the library, turns down changes nothing and throws.
MainStep ==
    /\ pc \in DOMAIN Program
    /\ \E c \in {Program[pc]} :
          \/ Runs(c) /\ pc' = IF alive' /\ Returned(c)' THEN pc + 1 ELSE 0
          \/ c.call # "log" /\ pc' = 0 /\ UNCHANGED vars

MainLate == Late /\ UNCHANGED <<alive, launchVars, itemVars, pc>>

MainNext == MainStep \/ MainLate

MainSpec == MainInit /\ [][MainNext]_<<vars, pc>>

-----------------------------------------------------------------------------
Reported == {u \in Uuid : Known(u)}

\* When main returns, the server shows its four objects and no others, one
\* under the other; the launch, the suite and the test are finished, and the
\* step still runs, because its end() finished the test; and its three
\* messages are there, or none of them and main has not been told.
WhatMainReports ==
    pc = Finished =>
        /\ Reported = {launchId} \cup {itemId[i] : i \in Items}
        /\ Cardinality(Reported) = 4
        /\ {u \in Reported : records[u].state = "finished"}
              = {launchId, itemId[Suite], itemId[Test]}
        /\ stored \in {{}, {Entry(Step, k) : k \in 1 .. 3}}

\* However main ends, and whatever the server does with the request of the
\* call that threw, no record is finished before its objects below have all
\* been reported: an end that was sent comes after every begin.
NothingEndsEarly ==
    (\E u \in Uuid : records[u].state = "finished") =>
        /\ launchStarted /\ \A i \in Items : itemStarted[i]
        /\ Cardinality(Reported) = 4
=============================================================================
