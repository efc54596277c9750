------------------------------- MODULE Launch -------------------------------
(***************************************************************************)
(* report_portal::launch (src/src/launch.cpp): the root of what is         *)
(* reported.  A launch is constructed without an id or with one the user   *)
(* chose, is started once and ended once.  The calls that throw before     *)
(* they reach the service change nothing and are left out: the guards say  *)
(* when they do.                                                           *)
(***************************************************************************)
EXTENDS Service

CONSTANT LaunchOwnId    \* the id given to the second constructor

ASSUME LaunchOwnIdAssumption == LaunchOwnId \in ClientIds

VARIABLES
    launchId,       \* _uuid
    launchStarted,  \* _has_started
    launchEnded     \* _has_ended

launchVars == <<launchId, launchStarted, launchEnded>>

LaunchInit ==
    /\ launchId \in {NilUuid, LaunchOwnId}
    /\ launchStarted = FALSE
    /\ launchEnded = FALSE

LaunchCanStart == ~ launchEnded /\ ~ launchStarted

\* start(): the id is taken from the answer, after the call has returned.
LaunchStart ==
    /\ alive
    /\ LaunchCanStart
    /\ LET r == BeginLaunchRequest(launchId) IN
         \/ \E u \in Uuid :
                /\ BeginAnswered(r, u)
                /\ launchStarted' = TRUE
                /\ launchId' = AnsweredId(r, u)
         \/ Unanswered(r) /\ UNCHANGED <<launchId, launchStarted>>
    /\ UNCHANGED <<stored, launchEnded>>

\* Mutation: a launch that has ended counts as not started.
LaunchEndReopens ==
    /\ alive
    /\ ~ launchEnded
    /\ launchStarted
    /\ LET r == EndLaunchRequest(launchId) IN
         \/ EndAnswered(r) /\ launchEnded' = TRUE /\ launchStarted' = FALSE
         \/ Unanswered(r) /\ UNCHANGED <<launchEnded, launchStarted>>
    /\ UNCHANGED <<stored, launchId>>

\* end(): ended only once the server has said so.
LaunchEnd ==
    /\ alive
    /\ ~ launchEnded
    /\ launchStarted
    /\ LET r == EndLaunchRequest(launchId) IN
         \/ EndAnswered(r) /\ launchEnded' = TRUE
         \/ Unanswered(r) /\ UNCHANGED launchEnded
    /\ UNCHANGED <<stored, launchId, launchStarted>>
=============================================================================
