-------------------------------- MODULE Call --------------------------------
(***************************************************************************)
(* The calls of report_portal::service step by step: the checks of the     *)
(* arguments, the transfer, and what the deserialize functions make of the *)
(* answer.  The constructor is two of these calls.  A process makes one    *)
(* call after the other; the server may still process the requests of the  *)
(* calls that were given up.                                               *)
(***************************************************************************)
EXTENDS Naturals, Sequences

CONSTANT MaxCalls       \* bound: how many calls are made

ASSUME CallsAssumption == MaxCalls \in Nat

VARIABLES
    service,    \* how far the constructor is, or that the process ended
    ui_token,   \* the token get_ui_token returned, a local of the constructor
    api_token,  \* _api_token of the newest service, 0 when there is none;
                \* a token is the number of the call it answered
    step,       \* where the running call is
    op,         \* the running call, or the last one
    sent,       \* requests the server has neither processed nor turned down
    served,     \* requests it has processed
    reply,      \* its answer to the running call
    outcomes    \* history: how the calls ended

vars == <<service, ui_token, api_token, step, op, sent, served, reply, outcomes>>

Logins == {"ui_token", "api_token"}
Calls == {"begin_launch", "end_launch", "begin_item", "end_item", "logs"}

\* Exceptions thrown before the request has left, or because the server has
\* turned it down; and those thrown though it may have been processed.
Refusals == {"invalid_time", "nil_uuid", "no_connection", "error_code"}
Aborts == {"broken", "bad_uuid"}
Hows == {"returned", "died"} \cup Refusals \cup Aborts

Replies == {"good", "bad_uuid", "error", "malformed"}

Init ==
    /\ service = "none"
    /\ ui_token = 0 /\ api_token = 0
    /\ step = "idle"
    /\ op = "ui_token"
    /\ sent = {} /\ served = {}
    /\ reply = "none"
    /\ outcomes = << >>

-----------------------------------------------------------------------------
\* The number of the running call.
Current == Len(outcomes) + 1

\* A user may construct another service at any time.
Callable ==
    CASE service = "none" -> {"ui_token"}
      [] service = "ui" -> {"api_token"}
      [] service = "ready" -> Calls \cup {"ui_token"}
      [] OTHER -> {}

\* What can be wrong with the arguments: is_valid_time of begins and ends,
\* and the launch of an item.
Rejections(o) ==
    CASE o \in Logins \cup {"logs"} -> {}
      [] o \in {"begin_launch", "end_launch"} -> {"invalid_time"}
      [] OTHER -> {"invalid_time", "nil_uuid"}

\* Where the services are after a call.  A constructor that throws leaves the
\* service there was, with its _api_token; one that is done takes its place.
ServiceAfter(o, how) ==
    CASE how = "died" -> "died"
      [] how = "returned" /\ o = "ui_token" -> "ui"
      [] how = "returned" /\ o = "api_token" -> "ready"
      [] how \notin {"died", "returned"} /\ o \in Logins ->
            IF api_token = 0 THEN "none" ELSE "ready"
      [] OTHER -> service

\* Mutation: the token for the API is asked with the first ui token there was.
UiTokenCached(o, how) ==
    IF o = "ui_token" /\ how = "returned" /\ ui_token = 0 THEN Current
    ELSE ui_token

UiTokenAfter(o, how) ==
    IF o = "ui_token" /\ how = "returned" THEN Current ELSE ui_token

\* The running call returns, throws, or ends the process.
Ends(o, how) ==
    /\ step' = "idle"
    /\ outcomes' = Append(outcomes, [op |-> o, how |-> how])
    /\ service' = ServiceAfter(o, how)
    /\ ui_token' = UiTokenAfter(o, how)
    /\ api_token' = IF o = "api_token" /\ how = "returned"
                    THEN Current ELSE api_token
    /\ op' = o

-----------------------------------------------------------------------------
Rejected ==
    /\ step = "idle" /\ Len(outcomes) < MaxCalls
    /\ \E o \in Callable : \E how \in Rejections(o) : Ends(o, how)
    /\ UNCHANGED <<sent, served, reply>>

Begin ==
    /\ step = "idle" /\ Len(outcomes) < MaxCalls
    /\ op' \in Callable
    /\ step' = "open"
    /\ reply' = "none"
    /\ UNCHANGED <<service, ui_token, api_token, sent, served, outcomes>>

Auth == CASE op = "ui_token" -> 0
          [] op = "api_token" -> ui_token
          [] OTHER -> api_token

\* Mutation: a null string is handed to the caller.
HowReadNull(o, answer) ==
    CASE o = "logs" -> "returned"
      [] o # "logs" /\ answer = "error" -> "error_code"
      [] o # "logs" /\ answer = "bad_uuid" -> "bad_uuid"
      [] o # "logs" /\ answer = "malformed" -> "null"
      [] OTHER -> "returned"

\* throw_if_error, then the members the deserialize function of the call asks
\* for: one that is not there, or an answer that is no object, fails one of
\* rapidjson's assertions.  batch_logs does not look.
HowRead(o, answer) ==
    CASE o = "logs" -> "returned"
      [] o # "logs" /\ answer = "error" -> "error_code"
      [] o # "logs" /\ answer = "bad_uuid" -> "bad_uuid"
      [] o # "logs" /\ answer = "malformed" -> "died"
      [] OTHER -> "returned"

\* curl_easy_init gives no handle: the answer is the empty string.
NoHandle ==
    /\ step = "open"
    /\ Ends(op, HowRead(op, "malformed"))
    /\ UNCHANGED <<sent, served, reply>>

NoConnection ==
    /\ step = "open"
    /\ Ends(op, "no_connection")
    /\ UNCHANGED <<sent, served, reply>>

Send ==
    /\ step = "open"
    /\ sent' = sent \cup {[n |-> Current, op |-> op, auth |-> Auth]}
    /\ step' = "waiting"
    /\ UNCHANGED <<service, ui_token, api_token, op, served, reply, outcomes>>

\* Mutation: a request whose connection broke is sent once more.
BreakRetried ==
    /\ step = "waiting"
    /\ step' = "open"
    /\ UNCHANGED <<service, ui_token, api_token, op, sent, served, reply,
                   outcomes>>

\* curl_easy_perform fails once the request has left.
Break ==
    /\ step = "waiting"
    /\ Ends(op, "broken")
    /\ UNCHANGED <<sent, served, reply>>

\* Mutation: an error is answered by trying again.
ReceiveRetried ==
    /\ step = "waiting" /\ reply # "none"
    /\ IF reply = "error"
          THEN /\ step' = "open"
               /\ UNCHANGED <<service, ui_token, api_token, op, outcomes>>
          ELSE Ends(op, HowRead(op, reply))
    /\ reply' = "none"
    /\ UNCHANGED <<sent, served>>

Receive ==
    /\ step = "waiting" /\ reply # "none"
    /\ Ends(op, HowRead(op, reply))
    /\ UNCHANGED <<sent, served, reply>>

\* The server processes a request, or turns it down.  It has an uuid in the
\* answers that have one; what it says of a request it has processed is not
\* an errorCode.
Handles(r) ==
    /\ r \in sent
    /\ sent' = sent \ {r}
    /\ \E answer \in Replies :
          /\ \/ served' = served \cup {r} /\ answer # "error"
             \/ served' = served /\ answer \in {"error", "malformed"}
          /\ answer = "bad_uuid" => r.op \notin {"end_item", "logs"}
          /\ reply' = IF step = "waiting" /\ r.n = Current THEN answer ELSE reply
    /\ UNCHANGED <<service, ui_token, api_token, step, op, outcomes>>

Server == \E r \in sent : Handles(r)

Next ==
    Rejected \/ Begin \/ NoHandle \/ NoConnection \/ Send \/ Break \/ Receive
    \/ Server

Spec == Init /\ [][Next]_vars

\* A call that is running goes on, and one that waits is answered or loses its
\* connection: the code sets no time-out of its own.
AnsweredOrBroken == Break \/ \E r \in sent : r.n = Current /\ Handles(r)

FairSpec ==
    /\ Spec
    /\ WF_vars(NoHandle \/ NoConnection \/ Send)
    /\ WF_vars(Receive)
    /\ WF_vars(AnsweredOrBroken)

-----------------------------------------------------------------------------
Request == [n : 1 .. MaxCalls, op : Logins \cup Calls, auth : 0 .. MaxCalls]

TypeOK ==
    /\ service \in {"none", "ui", "ready", "died"}
    /\ ui_token \in 0 .. MaxCalls /\ api_token \in 0 .. MaxCalls
    /\ step \in {"idle", "open", "waiting"}
    /\ op \in Logins \cup Calls
    /\ sent \subseteq Request /\ served \subseteq Request
    /\ reply \in Replies \cup {"none"}
    /\ outcomes \in Seq([op : Logins \cup Calls, how : Hows])
    /\ Len(outcomes) <= MaxCalls

\* The login that gives a request of this kind its token.
LoginOf(o) == IF o = "api_token" THEN "ui_token" ELSE "api_token"

\* Every request carries the token its own service was given: one the server
\* issued, and the newest that a constructor has got, whatever was answered to
\* constructors that threw in between.
Authorised ==
    \A r \in sent \cup served : r.op # "ui_token" =>
        /\ \E t \in served :
              t.n = r.auth /\ t.n < r.n /\ t.op = LoginOf(r.op)
        /\ \A n \in r.auth + 1 .. r.n - 1 :
              outcomes[n].op = LoginOf(r.op) => outcomes[n].how # "returned"

\* How a call that ended in this way looks to its caller.
Outcome(o) ==
    [op |-> o.op,
     how |-> CASE o.how = "returned" -> "answered"
               [] o.how \in Refusals -> "refused"
               [] o.how \in Aborts -> "aborted"
               [] o.how = "died" -> "died"]

Abstract == INSTANCE CallOutcome WITH
    outcomes <- [n \in DOMAIN outcomes |-> Outcome(outcomes[n])],
    done <- {r.n : r \in served} \cap DOMAIN outcomes

\* A call as its caller sees it is one step: what has returned was processed,
\* what threw one of Refusals was not and never will be, and the rest may be
\* processed at any time.
OneStep == Abstract!Spec

\* Every call ends, whatever the server answers, so long as it answers or the
\* connection is lost.
CallEnds == step # "idle" ~> step = "idle"
=============================================================================
