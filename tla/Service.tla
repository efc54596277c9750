------------------------------ MODULE Service ------------------------------
(***************************************************************************)
(* report_portal::service (src/src/service.cpp): the five calls of         *)
(* iservice, each a request to the server and the outcome the caller sees. *)
(*                                                                         *)
(*   answered  the server processed the request and the answer was read;   *)
(*   refused   the call throws and nothing has happened: a time that is    *)
(*             not valid, a request that cannot be serialised, a server    *)
(*             that cannot be reached or that answers with an errorCode.   *)
(*             The caller changes no state: a step that stutters, left     *)
(*             out except where a caller goes on after it (batch_logs);    *)
(*   aborted   curl_easy_perform fails once the request has left: the call *)
(*             throws, and the server may still process the request;       *)
(*   died      the answer is not the JSON expected: rapidjson's assertion  *)
(*             (or, without assertions, the null string it then returns)   *)
(*             ends the process, and the server may still process the      *)
(*             request.                                                    *)
(***************************************************************************)
EXTENDS ReportServer

VARIABLE alive  \* the process that uses the library is running

serviceVars == <<serverVars, alive>>

ServiceInit == ServerInit /\ alive = TRUE

-----------------------------------------------------------------------------
BeginLaunchRequest(uuid) ==
    [op |-> "begin_launch", uuid |-> uuid, launch |-> NilUuid,
     parent |-> NilUuid, status |-> Inherit, logs |-> {}]

EndLaunchRequest(uuid) ==
    [op |-> "end_launch", uuid |-> uuid, launch |-> NilUuid,
     parent |-> NilUuid, status |-> Inherit, logs |-> {}]

BeginItemRequest(launch_uuid, parent_uuid, uuid) ==
    [op |-> "begin_item", uuid |-> uuid, launch |-> launch_uuid,
     parent |-> parent_uuid, status |-> Inherit, logs |-> {}]

EndItemRequest(uuid, launch_uuid, status) ==
    [op |-> "end_item", uuid |-> uuid, launch |-> launch_uuid,
     parent |-> NilUuid, status |-> status, logs |-> {}]

LogsRequest(entries) ==
    [op |-> "logs", uuid |-> NilUuid, launch |-> NilUuid,
     parent |-> NilUuid, status |-> Inherit, logs |-> entries]

-----------------------------------------------------------------------------
\* The record a begin has made.
BeginAnswered(r, u) ==
    /\ u \in Subjects(r)
    /\ Register(r, u)
    /\ UNCHANGED <<wire, aborts, alive>>

\* Mutation: the id the request asked for, whatever the answer says.
EchoedId(r, u) == r.uuid

\* The id the answer to a begin carries.
AnsweredId(r, u) == u

\* Mutation: an answer with an errorCode is taken for success.
EndAnsweredUnchecked(r) ==
    /\ (\E u \in Subjects(r) : Finish(r, u)) \/ UNCHANGED records
    /\ UNCHANGED <<wire, aborts, alive>>

EndAnswered(r) ==
    /\ \E u \in Subjects(r) : Finish(r, u)
    /\ UNCHANGED <<wire, aborts, alive>>

EndRefused == UNCHANGED <<records, wire, aborts, alive>>

\* The request has left and nobody will read its answer.
Aborted(r) ==
    /\ aborts < MaxAborts
    /\ aborts' = aborts + 1
    /\ wire' = wire \cup {[n |-> aborts + 1, req |-> r]}
    /\ UNCHANGED records

\* The caller of a begin or an end sees an exception, or the process ends.
Unanswered(r) == Aborted(r) /\ alive' \in BOOLEAN

\* batch_logs returns: it never looks at the answer, so a batch the server
\* turned down, or one that no curl handle was there to send, returns like
\* one that was stored.
BatchLogsReturns(r) ==
    \/ Storable(r) /\ Store(r)
    \/ UNCHANGED stored
=============================================================================
