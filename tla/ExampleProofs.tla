--------------------------- MODULE ExampleProofs ---------------------------
(***************************************************************************)
(* Every run of the example program is a session, so what is proved of     *)
(* sessions holds of it; and where main is says which of its objects have  *)
(* started and ended.  What main reports, however it ends, follows.        *)
(***************************************************************************)
EXTENDS Example, ReportSessionProofs

AllStarted == launchStarted /\ \A i \in Items : itemStarted[i]

\* The calls that have been made before the one pc is at.
StartsMade ==
    /\ launchStarted <=> pc > 1
    /\ \A i \in Items : itemStarted[i] <=> pc > i + 1

EndsMade ==
    /\ launchEnded <=> pc > 11
    /\ endedBy[Suite] = IF pc > 10 THEN {"time"} ELSE {}
    /\ endedBy[Test] = IF pc > 9 THEN {"time"} ELSE {}
    /\ endedBy[Step] = IF pc > 8 THEN {"status"} ELSE {}

LogsMade ==
    /\ logged[Step] = IF pc > 7 THEN 3 ELSE IF pc > 5 THEN pc - 5 ELSE 0
    /\ \/ stored = {}
       \/ pc > 8 /\ stored = FirstEntries(Step, 3)

\* While no exception has been thrown every call was answered.
Answered ==
    pc # 0 => /\ alive
              /\ aborts = 0
              /\ StartsMade
              /\ EndsMade
              /\ LogsMade

\* No end is sent before every begin was answered, and no begin after that.
NoEnds ==
    /\ \A u \in Uuid : records[u].state # "finished"
    /\ \A f \in wire : f.req.op \notin Ends

NoBegins == Orphans = {} /\ BeginsOut = {}

BeginsFirst == IF AllStarted THEN NoBegins ELSE NoEnds

\* The inductive invariant.
MainInv ==
    /\ pc \in 0 .. Finished
    /\ Answered
    /\ BeginsFirst

-----------------------------------------------------------------------------
LEMMA ProgramItems ==
    /\ Items = {Suite, Test, Step}
    /\ Parent[Suite] = 0 /\ Parent[Test] = Suite /\ Parent[Step] = Test
    /\ Finished = 12
    /\ DOMAIN Program = 1 .. 11
  BY ProgramAssumption
     DEF ProgramAssumption, Items, Suite, Test, Step, Finished, Program

\* The call main makes, and where it goes when the call has returned.
Goes(returned) == pc' = IF alive' /\ returned THEN pc + 1 ELSE 0

LaunchCalls ==
    \/ pc = 1 /\ LaunchStart /\ Goes(launchStarted')
    \/ pc = 11 /\ LaunchEnd /\ Goes(launchEnded')

ItemCalls ==
    \/ \E i \in Items : pc = i + 1 /\ ItemStart(i) /\ Goes(itemStarted'[i])
    \/ pc \in 5 .. 7 /\ ItemLog(Step) /\ Goes(TRUE)
    \/ /\ pc = 8
       /\ ItemEndWithStatus(Step, "passed")
       /\ Goes("status" \in endedBy'[Step])
    \/ pc = 9 /\ ItemEnd(Test) /\ Goes("time" \in endedBy'[Test])
    \/ pc = 10 /\ ItemEnd(Suite) /\ Goes("time" \in endedBy'[Suite])

LEMMA RunsCall ==
    ASSUME NEW c, Runs(c)
    PROVE  /\ c.call = "launch.start" => LaunchStart /\ UNCHANGED itemVars
           /\ c.call = "launch.end" => LaunchEnd /\ UNCHANGED itemVars
           /\ c.call = "start" => ItemStart(c.item) /\ UNCHANGED launchVars
           /\ c.call = "log" => ItemLog(c.item) /\ UNCHANGED launchVars
           /\ c.call = "end" => ItemEnd(c.item) /\ UNCHANGED launchVars
           /\ c.call = "end with status" =>
                 ItemEndWithStatus(c.item, c.status) /\ UNCHANGED launchVars
  BY DEF Runs

LEMMA ReturnedCall ==
    ASSUME NEW c
    PROVE  /\ c.call = "launch.start" => Returned(c)' = launchStarted'
           /\ c.call = "launch.end" => Returned(c)' = launchEnded'
           /\ c.call = "start" => Returned(c)' = itemStarted'[c.item]
           /\ c.call = "log" => Returned(c)' = TRUE
           /\ c.call = "end" => Returned(c)' = ("time" \in endedBy'[c.item])
           /\ c.call = "end with status" =>
                 Returned(c)' = ("status" \in endedBy'[c.item])
  BY DEF Returned

LEMMA CallsMade ==
    ASSUME MainStep
    PROVE  /\ pc \in 1 .. 11
           /\ \/ LaunchCalls /\ UNCHANGED itemVars
              \/ ItemCalls /\ UNCHANGED launchVars
              \/ pc' = 0 /\ UNCHANGED vars
<1>1. pc \in 1 .. 11
  BY ProgramItems DEF MainStep
<1>2. ASSUME NEW c, c = Program[pc], Runs(c),
             pc' = IF alive' /\ Returned(c)' THEN pc + 1 ELSE 0
      PROVE  \/ LaunchCalls /\ UNCHANGED itemVars
             \/ ItemCalls /\ UNCHANGED launchVars
  <2>1. CASE pc = 1
    <3>1. c.call = "launch.start"
      BY <1>2, <2>1 DEF Program
    <3> QED BY <1>2, <2>1, <3>1, RunsCall, ReturnedCall
            DEF LaunchCalls, Goes
  <2>2. CASE pc = 2
    <3>1. c.call = "start" /\ c.item = Suite
      BY <1>2, <2>2 DEF Program
    <3>2. pc = Suite + 1 /\ Suite \in Items
      BY <2>2, ProgramItems DEF Suite
    <3>3. ItemStart(Suite) /\ UNCHANGED launchVars /\ Goes(itemStarted'[Suite])
      BY <1>2, <3>1, RunsCall, ReturnedCall DEF Goes
    <3> QED BY <3>2, <3>3 DEF ItemCalls
  <2>3. CASE pc = 3
    <3>1. c.call = "start" /\ c.item = Test
      BY <1>2, <2>3 DEF Program
    <3>2. pc = Test + 1 /\ Test \in Items
      BY <2>3, ProgramItems DEF Test
    <3>3. ItemStart(Test) /\ UNCHANGED launchVars /\ Goes(itemStarted'[Test])
      BY <1>2, <3>1, RunsCall, ReturnedCall DEF Goes
    <3> QED BY <3>2, <3>3 DEF ItemCalls
  <2>4. CASE pc = 4
    <3>1. c.call = "start" /\ c.item = Step
      BY <1>2, <2>4 DEF Program
    <3>2. pc = Step + 1 /\ Step \in Items
      BY <2>4, ProgramItems DEF Step
    <3>3. ItemStart(Step) /\ UNCHANGED launchVars /\ Goes(itemStarted'[Step])
      BY <1>2, <3>1, RunsCall, ReturnedCall DEF Goes
    <3> QED BY <3>2, <3>3 DEF ItemCalls
  <2>5. CASE pc = 5
    <3>1. c.call = "log" /\ c.item = Step
      BY <1>2, <2>5 DEF Program
    <3>2. pc \in 5 .. 7
      BY <2>5
    <3>3. ItemLog(Step) /\ UNCHANGED launchVars /\ Goes(TRUE)
      BY <1>2, <3>1, RunsCall, ReturnedCall DEF Goes
    <3> QED BY <3>2, <3>3 DEF ItemCalls
  <2>6. CASE pc = 6
    <3>1. c.call = "log" /\ c.item = Step
      BY <1>2, <2>6 DEF Program
    <3>2. pc \in 5 .. 7
      BY <2>6
    <3>3. ItemLog(Step) /\ UNCHANGED launchVars /\ Goes(TRUE)
      BY <1>2, <3>1, RunsCall, ReturnedCall DEF Goes
    <3> QED BY <3>2, <3>3 DEF ItemCalls
  <2>7. CASE pc = 7
    <3>1. c.call = "log" /\ c.item = Step
      BY <1>2, <2>7 DEF Program
    <3>2. pc \in 5 .. 7
      BY <2>7
    <3>3. ItemLog(Step) /\ UNCHANGED launchVars /\ Goes(TRUE)
      BY <1>2, <3>1, RunsCall, ReturnedCall DEF Goes
    <3> QED BY <3>2, <3>3 DEF ItemCalls
  <2>8. CASE pc = 8
    <3>1. c.call = "end with status" /\ c.item = Step /\ c.status = "passed"
      BY <1>2, <2>8 DEF Program
    <3> QED BY <1>2, <2>8, <3>1, RunsCall, ReturnedCall
            DEF ItemCalls, Goes
  <2>9. CASE pc = 9
    <3>1. c.call = "end" /\ c.item = Test
      BY <1>2, <2>9 DEF Program
    <3> QED BY <1>2, <2>9, <3>1, RunsCall, ReturnedCall
            DEF ItemCalls, Goes
  <2>10. CASE pc = 10
    <3>1. c.call = "end" /\ c.item = Suite
      BY <1>2, <2>10 DEF Program
    <3> QED BY <1>2, <2>10, <3>1, RunsCall, ReturnedCall
            DEF ItemCalls, Goes
  <2>11. CASE pc = 11
    <3>1. c.call = "launch.end"
      BY <1>2, <2>11 DEF Program
    <3> QED BY <1>2, <2>11, <3>1, RunsCall, ReturnedCall
            DEF LaunchCalls, Goes
  <2> QED BY <1>1, <2>1, <2>2, <2>3, <2>4, <2>5, <2>6, <2>7, <2>8, <2>9, <2>10, <2>11
<1> QED BY <1>1, <1>2 DEF MainStep

\* A step of main, or of the server behind its back, is a step of a session.
LEMMA MainStepsAreSteps ==
    ASSUME [MainNext]_<<vars, pc>>
    PROVE  [Next]_vars
<1>1. CASE MainStep
  <2>1. LaunchCalls /\ UNCHANGED itemVars => Next
    BY DEF LaunchCalls, Next
  <2>2. "passed" \in Status
    BY ProgramAssumption DEF ProgramAssumption, Status
  <2>3. ItemCalls /\ UNCHANGED launchVars => Next
    BY <2>2, ProgramItems DEF ItemCalls, Next
  <2> QED BY <1>1, <2>1, <2>3, CallsMade
<1>2. CASE MainLate
  BY <1>2 DEF MainLate, Next
<1>3. CASE UNCHANGED <<vars, pc>>
  BY <1>3
<1> QED BY <1>1, <1>2, <1>3 DEF MainNext

-----------------------------------------------------------------------------
(* What each call of main changes, when main goes on after it.             *)

LEMMA LaunchCallsAnswered ==
    ASSUME IInv, MainInv, LaunchCalls, UNCHANGED itemVars
    PROVE  Answered'
<1> SUFFICES ASSUME pc' # 0
             PROVE  Answered'
  BY DEF Answered
<1>1. UNCHANGED <<itemId, itemStarted, endedBy, logged>>
  BY DEF itemVars, historyVars
<1>2. CASE pc = 1 /\ LaunchStart /\ Goes(launchStarted')
  <2>1. /\ pc' = 2 /\ alive' /\ launchStarted' /\ ~ launchStarted
        /\ launchEnded' = launchEnded /\ stored' = stored
    BY <1>2 DEF Goes, LaunchStart, LaunchCanStart
  <2>2. aborts' = 0
    BY <1>2, <2>1 DEF LaunchStart, BeginAnswered, Unanswered, MainInv, Answered
  <2>3. StartsMade /\ EndsMade /\ LogsMade
    BY <1>2 DEF MainInv, Answered
  <2>4. StartsMade'
    BY <1>1, <1>2, <2>1, <2>3, ProgramItems DEF StartsMade, Suite, Test, Step
  <2>5. EndsMade'
    BY <1>1, <1>2, <2>1, <2>3 DEF EndsMade
  <2>6. LogsMade'
    BY <1>1, <1>2, <2>1, <2>3 DEF LogsMade
  <2> QED BY <2>1, <2>2, <2>4, <2>5, <2>6 DEF Answered
<1>3. CASE pc = 11 /\ LaunchEnd /\ Goes(launchEnded')
  <2>1. /\ pc' = 12 /\ alive' /\ launchEnded' /\ ~ launchEnded
        /\ UNCHANGED <<stored, launchId, launchStarted>>
    BY <1>3 DEF Goes, LaunchEnd
  <2>2. aborts' = 0
    <3>1. ~ (launchEnded' <=> launchEnded)
      BY <2>1
    <3>2. EndAnswered(EndLaunchRequest(launchId))
      BY <1>3, <3>1 DEF LaunchEnd
    <3> QED BY <1>3, <3>2 DEF EndAnswered, MainInv, Answered
  <2>3. StartsMade /\ EndsMade /\ LogsMade
    BY <1>3 DEF MainInv, Answered
  <2>4. StartsMade'
    BY <1>1, <1>3, <2>1, <2>3, ProgramItems DEF StartsMade, Suite, Test, Step
  <2>5. EndsMade'
    BY <1>1, <1>3, <2>1, <2>3 DEF EndsMade
  <2>6. FirstEntries(Step, 3)' = FirstEntries(Step, 3)
    BY <1>1, <2>1 DEF FirstEntries, Entry, Step
  <2>7. LogsMade'
    BY <1>1, <1>3, <2>1, <2>3, <2>6 DEF LogsMade
  <2> QED BY <2>1, <2>2, <2>4, <2>5, <2>7 DEF Answered
<1> QED BY <1>2, <1>3 DEF LaunchCalls

LEMMA ItemCallsAnswered ==
    ASSUME IInv, MainInv, ItemCalls, UNCHANGED launchVars
    PROVE  Answered'
<1> SUFFICES ASSUME pc' # 0
             PROVE  Answered'
  BY DEF Answered
<1>1. UNCHANGED <<launchId, launchStarted, launchEnded>>
  BY DEF launchVars
<1>2. pc # 0 => /\ aborts = 0 /\ StartsMade /\ EndsMade /\ LogsMade
  BY DEF MainInv, Answered
<1>3. /\ itemStarted \in [Items -> BOOLEAN]
      /\ endedBy \in [Items -> SUBSET {"time", "status"}]
      /\ logged \in [Items -> 0 .. MaxLogs]
  BY DEF IInv, TypeOK
<1>4. ASSUME NEW i \in Items, pc = i + 1, ItemStart(i), Goes(itemStarted'[i])
      PROVE  Answered'
  <2>1. /\ pc' = i + 2 /\ alive' /\ itemStarted'[i] /\ ~ itemStarted[i]
        /\ UNCHANGED <<stored, logged, endedBy>>
    BY <1>4 DEF Goes, ItemStart, ItemCanStart, historyVars, Items
  <2>2. /\ aborts' = aborts
        /\ itemStarted' = [itemStarted EXCEPT ![i] = TRUE]
    BY <1>4, <2>1 DEF ItemStart, BeginAnswered, Unanswered
  <2>3. pc \in 2 .. 4 /\ Items = 1 .. 3
    BY <1>4, ProgramItems DEF Suite, Test, Step
  <2>4. StartsMade'
    BY <1>1, <1>2, <1>3, <1>4, <2>1, <2>2, <2>3 DEF StartsMade
  <2>5. EndsMade'
    BY <1>1, <1>2, <1>4, <2>1, <2>3 DEF EndsMade
  <2>6. LogsMade'
    BY <1>1, <1>2, <1>4, <2>1, <2>3 DEF LogsMade
  <2> QED BY <1>2, <2>1, <2>2, <2>3, <2>4, <2>5, <2>6 DEF Answered
<1>5. CASE pc \in 5 .. 7 /\ ItemLog(Step) /\ Goes(TRUE)
  <2>1. /\ pc' = pc + 1 /\ alive' /\ pc \in 5 .. 7
        /\ UNCHANGED <<aborts, stored, itemStarted, endedBy>>
        /\ logged' = [logged EXCEPT ![Step] = @ + 1]
    BY <1>5 DEF Goes, ItemLog, serviceVars, serverVars
  <2>2. logged'[Step] = logged[Step] + 1 /\ Items = 1 .. 3
    BY <1>3, <2>1, ProgramItems DEF Suite, Test, Step
  <2>3. StartsMade'
    BY <1>1, <1>2, <2>1, <2>2 DEF StartsMade
  <2>4. EndsMade'
    BY <1>1, <1>2, <2>1 DEF EndsMade
  <2>5. LogsMade'
    BY <1>2, <2>1, <2>2 DEF LogsMade
  <2> QED BY <1>2, <2>1, <2>3, <2>4, <2>5 DEF Answered
<1>6. CASE /\ pc = 8
           /\ ItemEndWithStatus(Step, "passed")
           /\ Goes("status" \in endedBy'[Step])
  <2>1. /\ pc' = 9 /\ alive' /\ "status" \in endedBy'[Step]
        /\ UNCHANGED <<itemId, itemStarted, logged>>
    BY <1>6 DEF Goes, ItemEndWithStatus
  <2>2. endedBy[Step] = {} /\ stored = {} /\ logged[Step] = 3
    BY <1>2, <1>6 DEF EndsMade, LogsMade
  <2>3. /\ FlushReturns(Step)
        /\ endedBy' = [endedBy EXCEPT ![Step] = @ \cup {"status"}]
        /\ aborts' = aborts
    BY <1>6, <2>1, <2>2 DEF ItemEndWithStatus, EndAnswered
  <2>4. Suite # Step /\ Test # Step /\ {Suite, Test, Step} = Items
    BY ProgramItems DEF Suite, Test, Step
  <2>5. /\ endedBy'[Step] = {"status"}
        /\ endedBy'[Suite] = endedBy[Suite] /\ endedBy'[Test] = endedBy[Test]
    BY <1>3, <2>2, <2>3, <2>4
  <2>6. FirstEntries(Step, 3)' = FirstEntries(Step, 3)
    BY <1>1, <2>1 DEF FirstEntries, Entry, Step
  <2>7. stored' = {} \/ stored' = FirstEntries(Step, 3)'
    <3>1. CASE batchedLogs[Step] = << >>
      BY <2>2, <2>3, <3>1 DEF FlushReturns
    <3>2. CASE batchedLogs[Step] # << >>
      <4>1. Batch(Step) = FirstEntries(Step, 3)
        BY <2>2, <2>4, <3>2, BatchIsLog
      <4> QED BY <2>2, <2>3, <2>6, <3>2, <4>1
              DEF FlushReturns, BatchLogsReturns, Store, LogsRequest
    <3> QED BY <3>1, <3>2
  <2>8. StartsMade'
    BY <1>1, <1>2, <1>6, <2>1, ProgramItems DEF StartsMade, Suite, Test, Step
  <2>9. EndsMade'
    BY <1>1, <1>2, <1>6, <2>1, <2>5 DEF EndsMade
  <2>10. LogsMade'
    BY <2>1, <2>2, <2>7 DEF LogsMade
  <2> QED BY <1>2, <1>6, <2>1, <2>3, <2>8, <2>9, <2>10 DEF Answered
<1>7. ASSUME NEW i \in {Suite, Test}, pc = 11 - i, ItemEnd(i),
             Goes("time" \in endedBy'[i])
      PROVE  Answered'
  <2>1. i \in 1 .. 2 /\ i \in Items /\ pc \in 9 .. 10
    BY <1>7, ProgramItems DEF Suite, Test
  <2>2. /\ pc' = pc + 1 /\ alive' /\ "time" \in endedBy'[i]
        /\ UNCHANGED <<stored, itemId, itemStarted, logged>>
    BY <1>7, <2>1 DEF Goes, ItemEnd
  <2>3. endedBy[i] = {}
    BY <1>2, <1>7, <2>1 DEF EndsMade, Suite, Test
  <2>4. /\ endedBy' = [endedBy EXCEPT ![i] = @ \cup {"time"}]
        /\ aborts' = aborts
    BY <1>7, <2>2, <2>3 DEF ItemEnd, EndAnswered
  <2>5. /\ endedBy'[i] = {"time"}
        /\ \A j \in Items : j # i => endedBy'[j] = endedBy[j]
    BY <1>3, <2>1, <2>3, <2>4
  <2>6. FirstEntries(Step, 3)' = FirstEntries(Step, 3)
    BY <1>1, <2>2 DEF FirstEntries, Entry, Step
  <2>7. StartsMade'
    BY <1>1, <1>2, <2>1, <2>2, ProgramItems DEF StartsMade, Suite, Test, Step
  <2>8. EndsMade'
    BY <1>1, <1>2, <1>7, <2>1, <2>2, <2>5, ProgramItems
       DEF EndsMade, Suite, Test, Step
  <2>9. LogsMade'
    BY <1>2, <2>1, <2>2, <2>6 DEF LogsMade
  <2> QED BY <1>2, <2>1, <2>2, <2>4, <2>7, <2>8, <2>9 DEF Answered
<1>8. CASE pc = 9 /\ ItemEnd(Test) /\ Goes("time" \in endedBy'[Test])
  BY <1>7, <1>8 DEF Test
<1>9. CASE pc = 10 /\ ItemEnd(Suite) /\ Goes("time" \in endedBy'[Suite])
  BY <1>7, <1>9 DEF Suite
<1> QED BY <1>4, <1>5, <1>6, <1>8, <1>9 DEF ItemCalls

-----------------------------------------------------------------------------
(* No call of main is made before the begins it depends on are answered,   *)
(* and what a call that threw has left on the wire is one request.         *)

LEMMA RequestOps ==
    /\ \A u : BeginLaunchRequest(u).op = "begin_launch"
    /\ \A l, p, u : BeginItemRequest(l, p, u).op = "begin_item"
    /\ \A u : EndLaunchRequest(u).op = "end_launch"
    /\ \A u, l, s : EndItemRequest(u, l, s).op = "end_item"
    /\ \A e : LogsRequest(e).op = "logs"
  BY DEF BeginLaunchRequest, BeginItemRequest, EndLaunchRequest,
         EndItemRequest, LogsRequest

LEMMA RegisterNoEnds ==
    ASSUME TypeOK, NoEnds, NEW r, NEW u, Register(r, u), wire' \subseteq wire
    PROVE  NoEnds'
<1>1. \A v \in Uuid : records'[v].state # "finished"
  BY DEF TypeOK, NoEnds, Register
<1>2. Uuid' = Uuid /\ Ends' = Ends
  BY DEF Uuid, Ends
<1> QED BY <1>1, <1>2 DEF NoEnds

LEMMA BeginNoEnds ==
    ASSUME TypeOK, NoEnds, NEW r, r.op \notin Ends,
           Unanswered(r) \/ \E u \in Uuid : BeginAnswered(r, u)
    PROVE  NoEnds'
<1>1. CASE Unanswered(r)
  BY <1>1 DEF NoEnds, Unanswered, Aborted
<1>2. ASSUME NEW u \in Uuid, BeginAnswered(r, u)
      PROVE  NoEnds'
  BY <1>2, RegisterNoEnds DEF BeginAnswered
<1> QED BY <1>1, <1>2

\* A request that is no begin, answered or not, makes no new record.
LEMMA NoBeginsKept ==
    ASSUME Grows, NoBegins, \A v \in Uuid : Known(v)' => Known(v),
           \A f \in wire' : f \in wire \/ f.req.op \notin Begins
    PROVE  NoBegins'
<1>1. Orphans' = {}
  BY OrphansKept DEF NoBegins
<1>2. BeginsOut' = {}
  BY DEF NoBegins, BeginsOut, Begins
<1> QED BY <1>1, <1>2 DEF NoBegins

LEMMA AbortNoBegins ==
    ASSUME Grows, NoBegins, NEW r, r.op \notin Begins, Aborted(r)
    PROVE  NoBegins'
  BY NoBeginsKept, SameRecordsSameKnown DEF Aborted

LEMMA FinishNoBegins ==
    ASSUME IInv, Grows, NoBegins, NEW r, r.op \in Ends,
           \E u \in Subjects(r) : Finish(r, u), wire' \subseteq wire
    PROVE  NoBegins'
<1>1. PICK u \in Subjects(r) : Finish(r, u)
  OBVIOUS
<1>2. u \in Uuid
  BY DEF Subjects, Ends, Known
<1>3. \A v \in Uuid : Known(v)' => Known(v)
  BY <1>1, <1>2, FinishedWasKnown DEF IInv
<1> QED BY <1>3, NoBeginsKept

LEMMA EndNoBegins ==
    ASSUME IInv, Grows, NoBegins, NEW r, r.op \in Ends,
           EndAnswered(r) \/ Unanswered(r)
    PROVE  NoBegins'
<1>1. r.op \notin Begins
  BY DEF Ends, Begins
<1> QED BY <1>1, AbortNoBegins, FinishNoBegins DEF EndAnswered, Unanswered

LEMMA QuietNoBegins ==
    ASSUME Grows, NoBegins, UNCHANGED <<records, wire>>
    PROVE  NoBegins'
  BY NoBeginsKept, SameRecordsSameKnown

\* With every call answered there are no orphans.
LEMMA NoneLeft ==
    ASSUME NEW A, NEW B, IsFiniteSet(A), IsFiniteSet(B),
           Cardinality(A) + Cardinality(B) <= 0
    PROVE  A = {} /\ B = {}
<1>1. Cardinality(A) \in Nat /\ Cardinality(B) \in Nat
  BY FS_CardinalityType
<1>2. Cardinality(A) = 0 /\ Cardinality(B) = 0
  BY <1>1
<1> QED BY <1>2, FS_EmptySet

LEMMA StartedSoFar ==
    ASSUME MainInv, pc \in 1 .. 11
    PROVE  AllStarted <=> pc > 4
  BY ProgramItems
     DEF MainInv, Answered, StartsMade, AllStarted, Suite, Test, Step

LEMMA StartedStay ==
    ASSUME Grows, AllStarted
    PROVE  AllStarted'
  BY DEF Grows, AllStarted, Items

LEMMA LaunchCallsBeginFirst ==
    ASSUME IInv, Counted', Grows, MainInv, Answered', LaunchCalls,
           UNCHANGED itemVars
    PROVE  BeginsFirst'
<1>1. CASE pc = 1 /\ LaunchStart
  <2>1. NoEnds
    BY <1>1, StartedSoFar DEF MainInv, BeginsFirst
  <2>2. ~ AllStarted'
    <3>1. Suite \in Items /\ ~ itemStarted[Suite]
      BY <1>1, ProgramItems DEF MainInv, Answered, StartsMade, Suite
    <3> QED BY <3>1 DEF AllStarted, itemVars, Items
  <2>3. BeginLaunchRequest(launchId).op \notin Ends
    BY RequestOps DEF Ends
  <2>4. NoEnds'
    BY <1>1, <2>1, <2>3, BeginNoEnds DEF LaunchStart, IInv
  <2> QED BY <2>2, <2>4 DEF BeginsFirst
<1>2. CASE pc = 11 /\ LaunchEnd
  <2>1. AllStarted /\ NoBegins
    BY <1>2, StartedSoFar DEF MainInv, BeginsFirst
  <2>2. EndLaunchRequest(launchId).op \in Ends
    BY RequestOps DEF Ends
  <2>3. NoBegins'
    BY <1>2, <2>1, <2>2, EndNoBegins DEF LaunchEnd
  <2> QED BY <2>1, <2>3, StartedStay DEF BeginsFirst
<1> QED BY <1>1, <1>2 DEF LaunchCalls

LEMMA ItemCallsBeginFirst ==
    ASSUME IInv, Counted', Grows, MainInv, Answered', ItemCalls,
           UNCHANGED launchVars
    PROVE  BeginsFirst'
<1>1. ASSUME NEW i \in Items, pc = i + 1, ItemStart(i), Goes(itemStarted'[i])
      PROVE  BeginsFirst'
  <2>1. pc \in 2 .. 4
    BY <1>1, ProgramItems DEF Suite, Test, Step
  <2>2. NoEnds
    BY <2>1, StartedSoFar DEF MainInv, BeginsFirst
  <2> DEFINE r == BeginItemRequest(ParentLaunchId, ParentUuid(i), itemId[i])
  <2>3. r.op \notin Ends
    BY RequestOps DEF Ends
  <2>4. NoEnds'
    <3>1. Unanswered(r) \/ \E u \in Uuid : BeginAnswered(r, u)
      BY <1>1 DEF ItemStart
    <3> HIDE DEF r
    <3> QED BY <2>2, <2>3, <3>1, BeginNoEnds DEF IInv
  <2>5. ASSUME AllStarted'
        PROVE  NoBegins'
    <3>1. itemStarted'[i] /\ ~ itemStarted[i]
      BY <1>1, <2>5 DEF AllStarted, Items, ItemStart, ItemCanStart
    <3>2. PICK u \in Uuid : BeginAnswered(r, u)
      BY <1>1, <3>1 DEF ItemStart
    <3>3. alive'
      BY <1>1, <3>2 DEF BeginAnswered, ItemStart
    <3>4. pc' # 0
      BY <1>1, <2>1, <3>1, <3>3 DEF Goes
    <3>5. aborts' = 0
      BY <3>4 DEF Answered
    <3> QED BY <3>5, NoneLeft DEF NoBegins, Counted
  <2> QED BY <2>4, <2>5 DEF BeginsFirst
<1>2. ASSUME pc \in 5 .. 10
      PROVE  AllStarted /\ AllStarted' /\ NoBegins
  BY <1>2, StartedSoFar, StartedStay DEF MainInv, BeginsFirst
<1>3. CASE pc \in 5 .. 7 /\ ItemLog(Step)
  BY <1>2, <1>3, QuietNoBegins DEF ItemLog, serviceVars, serverVars, BeginsFirst
<1>4. CASE pc = 8 /\ ItemEndWithStatus(Step, "passed")
  <2> DEFINE r == EndItemRequest(ParentId(Step), itemId[Step], "passed")
             b == LogsRequest(Batch(Step))
  <2>1. r.op \in Ends /\ b.op \notin Begins
    BY RequestOps DEF Ends, Begins
  <2>2. AllStarted' /\ NoBegins
    BY <1>2, <1>4
  <2>3. \/ Aborted(b)
        \/ EndAnswered(r) \/ Unanswered(r)
        \/ UNCHANGED <<records, wire>>
    BY <1>4 DEF ItemEndWithStatus, FlushThrows, EndRefused
  <2> HIDE DEF r, b
  <2>4. NoBegins'
    BY <2>1, <2>2, <2>3, AbortNoBegins, EndNoBegins, QuietNoBegins
  <2> QED BY <2>2, <2>4 DEF BeginsFirst
<1>5. ASSUME NEW i \in Items, pc \in 9 .. 10, ItemEnd(i)
      PROVE  BeginsFirst'
  <2>1. TimedEnd(i).op \in Ends
    BY RequestOps DEF TimedEnd, Ends
  <2>2. EndAnswered(TimedEnd(i)) \/ Unanswered(TimedEnd(i))
    BY <1>5 DEF ItemEnd
  <2>3. AllStarted' /\ NoBegins
    BY <1>2, <1>5
  <2>4. NoBegins'
    BY <2>1, <2>2, <2>3, EndNoBegins
  <2> QED BY <2>3, <2>4 DEF BeginsFirst
<1>6. CASE pc = 9 /\ ItemEnd(Test)
  <2>1. pc \in 9 .. 10 /\ Test \in Items
    BY <1>6, ProgramItems
  <2> QED BY <1>5, <1>6, <2>1
<1>7. CASE pc = 10 /\ ItemEnd(Suite)
  <2>1. pc \in 9 .. 10 /\ Suite \in Items
    BY <1>7, ProgramItems
  <2> QED BY <1>5, <1>7, <2>1
<1> QED BY <1>1, <1>3, <1>4, <1>6, <1>7 DEF ItemCalls

LEMMA LateBeginsFirst ==
    ASSUME IInv, Grows, MainInv, MainLate
    PROVE  BeginsFirst'
<1>1. PICK f \in wire : LateBegin(f) \/ LateEnd(f) \/ LateLogs(f) \/ Drop(f)
  BY DEF MainLate, Late
<1>2. wire' \subseteq wire /\ (AllStarted' <=> AllStarted)
  BY <1>1 DEF LateBegin, LateEnd, LateLogs, Drop, MainLate, launchVars,
              itemVars, AllStarted, Items
<1>3. CASE AllStarted
  <2>1. NoBegins /\ f.req.op \notin Begins
    BY <1>3 DEF MainInv, BeginsFirst, NoBegins, BeginsOut
  <2>2. LateEnd(f) \/ UNCHANGED records
    BY <1>1, <2>1 DEF LateBegin, LateLogs, Drop
  <2>3. ASSUME LateEnd(f)
        PROVE  NoBegins'
    BY <1>2, <2>1, <2>3, FinishNoBegins DEF LateEnd
  <2>4. ASSUME UNCHANGED records
        PROVE  NoBegins'
    BY <1>2, <2>1, <2>4, NoBeginsKept, SameRecordsSameKnown
  <2>5. NoBegins'
    BY <2>2, <2>3, <2>4
  <2> QED BY <1>2, <1>3, <2>5 DEF BeginsFirst
<1>4. CASE ~ AllStarted
  <2>1. NoEnds /\ f.req.op \notin Ends
    BY <1>4 DEF MainInv, BeginsFirst, NoEnds
  <2>2. CASE LateBegin(f)
    <3>1. PICK u \in Subjects(f.req) : Register(f.req, u)
      BY <2>2 DEF LateBegin
    <3> QED BY <1>2, <1>4, <2>1, <3>1, RegisterNoEnds DEF IInv, BeginsFirst
  <2>3. CASE UNCHANGED records
    BY <1>2, <1>4, <2>1, <2>3 DEF NoEnds, BeginsFirst
  <2> QED BY <1>1, <2>1, <2>2, <2>3 DEF LateEnd, LateLogs, Drop
<1> QED BY <1>3, <1>4

LEMMA MainInvInit ==
    ASSUME MainInit
    PROVE  MainInv
<1>1. pc = 1 /\ Init
  BY DEF MainInit
<1>2. /\ ~ launchStarted /\ ~ launchEnded
      /\ itemStarted = [i \in Items |-> FALSE]
      /\ endedBy = [i \in Items |-> {}]
      /\ logged = [i \in Items |-> 0]
      /\ alive /\ aborts = 0 /\ stored = {} /\ wire = {}
      /\ records = [u \in Uuid |-> Absent]
  BY <1>1 DEF Init, ItemInit, LaunchInit, ServiceInit, ServerInit
<1>3. StartsMade
  BY <1>1, <1>2, ProgramItems DEF StartsMade, Suite, Test, Step
<1>4. EndsMade /\ LogsMade
  BY <1>1, <1>2, ProgramItems DEF EndsMade, LogsMade, Suite, Test, Step
<1>5. NoEnds /\ ~ AllStarted
  BY <1>2 DEF NoEnds, AllStarted, Absent
<1> QED BY <1>1, <1>2, <1>3, <1>4, <1>5, ProgramItems
        DEF MainInv, Answered, BeginsFirst

LEMMA MainInvStep ==
    ASSUME IInv, Finishers, Counted', MainInv, [MainNext]_<<vars, pc>>
    PROVE  MainInv'
<1>1. Grows
  BY MainStepsAreSteps, NextStep
<1>2. CASE MainStep
  <2>1. CASE LaunchCalls /\ UNCHANGED itemVars
    <3>1. Answered'
      BY <2>1, LaunchCallsAnswered
    <3>2. pc' \in 0 .. Finished
      BY <2>1, ProgramItems DEF LaunchCalls, Goes
    <3> QED BY <1>1, <2>1, <3>1, <3>2, LaunchCallsBeginFirst DEF MainInv
  <2>2. CASE ItemCalls /\ UNCHANGED launchVars
    <3>1. Answered'
      BY <2>2, ItemCallsAnswered
    <3>2. pc' \in 0 .. Finished
      BY <1>2, CallsMade, <2>2, ProgramItems DEF ItemCalls, Goes
    <3> QED BY <1>1, <2>2, <3>1, <3>2, ItemCallsBeginFirst DEF MainInv
  <2>3. CASE pc' = 0 /\ UNCHANGED vars
    <3>1. NoBegins' = NoBegins /\ NoEnds' = NoEnds /\ AllStarted' = AllStarted
      BY <2>3 DEF vars, serviceVars, serverVars, launchVars, itemVars,
                  NoBegins, NoEnds, AllStarted, Orphans, BeginsOut, Owned,
                  Started, Known, Uuid, Items
    <3>2. Answered' /\ pc' \in 0 .. Finished
      BY <2>3, ProgramItems DEF Answered
    <3> QED BY <3>1, <3>2 DEF MainInv, BeginsFirst
  <2> QED BY <1>2, <2>1, <2>2, <2>3, CallsMade
<1>3. CASE MainLate
  <2>1. pc = 0 /\ pc' = 0
    BY <1>3 DEF MainLate, Late, Finishers, MainInv, Answered
  <2>2. Answered' /\ pc' \in 0 .. Finished
    BY <2>1, ProgramItems DEF Answered
  <2> QED BY <1>1, <1>3, <2>2, LateBeginsFirst DEF MainInv
<1>4. CASE UNCHANGED <<vars, pc>>
  BY <1>4 DEF vars, serviceVars, serverVars, launchVars, itemVars, historyVars,
              MainInv, Answered, StartsMade, EndsMade, LogsMade, FirstEntries,
              Entry, BeginsFirst, NoBegins, NoEnds, AllStarted, Orphans,
              BeginsOut, Owned, Started, Known, Uuid, Items
<1> QED BY <1>2, <1>3, <1>4 DEF MainNext

\* Every run of the example program is a session: what is proved of sessions
\* holds of it.
THEOREM MainIsASession == MainSpec => Spec
<1>1. MainInit => Init
  BY DEF MainInit
<1>2. [MainNext]_<<vars, pc>> => [Next]_vars
  BY MainStepsAreSteps
<1> QED BY <1>1, <1>2, PTL DEF MainSpec, Spec

\* While main runs every call was answered; no end is sent before every begin
\* was, nor a begin after.
THEOREM MainInductive == MainSpec => [](IInv /\ Finishers /\ Counted /\ MainInv)
<1>1. MainSpec => []IInv
  BY MainIsASession, InductiveInvariant, PTL
<1>2. MainSpec => []Finishers
  BY MainIsASession, FinishersHold, PTL
<1>3. MainSpec => []Counted
  BY MainIsASession, CountHolds, PTL
<1>4. MainInit => MainInv
  BY MainInvInit
<1>5. IInv /\ Finishers /\ Counted' /\ MainInv /\ [MainNext]_<<vars, pc>>
          => MainInv'
  BY MainInvStep
<1> QED BY <1>1, <1>2, <1>3, <1>4, <1>5, PTL DEF MainSpec

-----------------------------------------------------------------------------
(* What the server shows.                                                  *)

LEMMA FourElements ==
    ASSUME NEW a, NEW b, NEW c, NEW d,
           a # b, a # c, a # d, b # c, b # d, c # d
    PROVE  Cardinality({a, b, c, d}) = 4
<1>1. IsFiniteSet({}) /\ Cardinality({}) = 0
  BY FS_EmptySet
<1>2. IsFiniteSet({} \cup {a}) /\ Cardinality({} \cup {a}) = 1
  BY <1>1, FS_AddElement
<1>3. {} \cup {a} = {a} /\ {a} \cup {b} = {a, b}
      /\ {a, b} \cup {c} = {a, b, c} /\ {a, b, c} \cup {d} = {a, b, c, d}
  OBVIOUS
<1>4. IsFiniteSet({a, b}) /\ Cardinality({a, b}) = 2
  BY <1>2, <1>3, FS_AddElement
<1>5. IsFiniteSet({a, b, c}) /\ Cardinality({a, b, c}) = 3
  BY <1>3, <1>4, FS_AddElement
<1> QED BY <1>3, <1>5, FS_AddElement

\* Once all four objects have started, theirs are the records there are.
LEMMA FourRecords ==
    ASSUME IInv, MainInv, AllStarted
    PROVE  /\ Reported = {launchId} \cup {itemId[i] : i \in Items}
           /\ Reported = {launchId, itemId[Suite], itemId[Test], itemId[Step]}
           /\ Cardinality(Reported) = 4
<1>1. Orphans = {}
  BY DEF MainInv, BeginsFirst, NoBegins
<1>2. /\ launchStarted /\ Started = Items
      /\ Known(launchId) /\ records[launchId].kind = "launch"
      /\ \A i \in Items : Known(itemId[i]) /\ records[itemId[i]].kind = "item"
  BY DEF AllStarted, Started, IInv, ReportedTree
<1>3. Reported = Owned
  <2>1. Reported \subseteq Owned
    BY <1>1 DEF Reported, Orphans
  <2>2. Owned \subseteq Reported
    BY <1>2 DEF Reported, Owned
  <2> QED BY <2>1, <2>2
<1>4. Owned = {launchId} \cup {itemId[i] : i \in Items}
  <2>1. launchId \in Uuid /\ \A i \in Items : itemId[i] \in Uuid
    BY <1>2 DEF Known
  <2> QED BY <1>2, <2>1 DEF Owned
<1>5. {itemId[i] : i \in Items} = {itemId[Suite], itemId[Test], itemId[Step]}
  BY ProgramItems
<1>6. Owned = {launchId, itemId[Suite], itemId[Test], itemId[Step]}
  BY <1>4, <1>5
<1>7. \A i, j \in Items : i # j => itemId[i] # itemId[j]
  BY <1>2 DEF IInv, DistinctIdentities
<1>8. Suite # Test /\ Suite # Step /\ Test # Step
  BY DEF Suite, Test, Step
<1>9. \A i \in Items : launchId # itemId[i]
  BY <1>2
<1>10. Cardinality(Owned) = 4
  <2> DEFINE a == launchId
             b == itemId[Suite]
             c == itemId[Test]
             d == itemId[Step]
  <2>1. Suite \in Items /\ Test \in Items /\ Step \in Items
    BY ProgramItems
  <2>2. a # b /\ a # c /\ a # d /\ b # c /\ b # d /\ c # d
    BY <2>1, <1>7, <1>8, <1>9
  <2>3. Owned = {a, b, c, d}
    BY <1>6
  <2> HIDE DEF a, b, c, d
  <2> QED BY <2>2, <2>3, FourElements
<1> QED BY <1>3, <1>4, <1>6, <1>10

\* However main ends, and whatever the server does with the request of the
\* call that threw, a record is finished only after all four were made.
THEOREM NothingEndsBeforeAllBegan == MainSpec => []NothingEndsEarly
<1>1. IInv /\ MainInv => NothingEndsEarly
  <2> SUFFICES ASSUME IInv, MainInv, NEW u \in Uuid,
                      records[u].state = "finished"
               PROVE  /\ launchStarted /\ \A i \in Items : itemStarted[i]
                      /\ Cardinality(Reported) = 4
    BY DEF NothingEndsEarly
  <2>1. AllStarted
    BY DEF MainInv, BeginsFirst, NoEnds
  <2> QED BY <2>1, FourRecords DEF AllStarted
<1> QED BY <1>1, MainInductive, PTL

LEMMA MainReports ==
    ASSUME IInv, Finishers, MainInv
    PROVE  WhatMainReports
<1> SUFFICES ASSUME pc = Finished
             PROVE  WhatMainReports
  BY DEF WhatMainReports
<1>1. pc = 12 /\ aborts = 0 /\ StartsMade /\ EndsMade /\ LogsMade
  BY ProgramItems DEF MainInv, Answered
<1>2. AllStarted /\ launchEnded
  BY <1>1, ProgramItems DEF AllStarted, StartsMade, EndsMade, Suite, Test, Step
<1>3. /\ endedBy[Suite] = {"time"} /\ endedBy[Test] = {"time"}
      /\ endedBy[Step] = {"status"}
  BY <1>1 DEF EndsMade
<1>4. stored \in {{}, {Entry(Step, k) : k \in 1 .. 3}}
  BY <1>1 DEF LogsMade, FirstEntries
<1>5. {u \in Reported : records[u].state = "finished"}
         = {launchId, itemId[Suite], itemId[Test]}
  <2>1. /\ records[launchId].state = "finished"
        /\ records[itemId[Suite]].state = "finished"
        /\ records[itemId[Test]].state = "finished"
    BY <1>2, <1>3, ProgramItems DEF IInv, EndFinishes
  <2>2. records[itemId[Step]].state # "finished"
    <3>1. \A c \in Items : Parent[c] # Step
      BY ProgramItems DEF Suite, Test, Step
    <3>2. Step \in Started /\ "time" \notin endedBy[Step]
      BY <1>2, <1>3, ProgramItems DEF AllStarted, Started
    <3> QED BY <1>1, <3>1, <3>2 DEF Finishers, FinishedByEnd
  <2> QED BY <1>2, <2>1, <2>2, FourRecords
<1> QED BY <1>2, <1>4, <1>5, FourRecords DEF WhatMainReports

\* When main returns, the server shows its four objects, the step still
\* running, and its three messages or none.
THEOREM MainReportsItsObjects == MainSpec => []WhatMainReports
<1>1. IInv /\ Finishers /\ MainInv => WhatMainReports
  BY MainReports
<1> QED BY <1>1, MainInductive, PTL
====
