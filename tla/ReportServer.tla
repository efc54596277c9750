---------------------------- MODULE ReportServer ----------------------------
(***************************************************************************)
(* The ReportPortal server as the client library uses it, and the network  *)
(* between them.  The server is not part of the repository: this module    *)
(* says only what the library relies on.  The server may turn down any     *)
(* request; it processes one only when the request names records it knows  *)
(* and, for a "begin", an id it does not know yet.                         *)
(*                                                                         *)
(* A call whose answer the client never reads (curl_easy_perform fails     *)
(* after the request has left) stays on `wire`: the server may process it  *)
(* at any later time, or never.                                            *)
(***************************************************************************)
EXTENDS Naturals, FiniteSets

CONSTANTS
    ServerIds,      \* the uuids the server can generate
    ClientIds,      \* the uuids the user of the library can choose
    NilUuid,        \* uuids::uuid(): "generate one for me", or "no parent"
    Statuses,       \* the values of test_item_status other than inherit
    Inherit,        \* test_item_status::inherit: no status is sent
    MaxAborts,      \* bound: calls whose answer is never read
    MaxLogs         \* bound: log entries of one test item

ASSUME IdAssumption ==
    /\ ServerIds \cap ClientIds = {}
    /\ NilUuid \notin ServerIds \cup ClientIds
    /\ Inherit \notin Statuses

ASSUME BoundAssumption == MaxAborts \in Nat /\ MaxLogs \in Nat

Uuid == ServerIds \cup ClientIds
UuidOrNil == Uuid \cup {NilUuid}
Status == Statuses \cup {Inherit}

VARIABLES
    records,    \* [Uuid -> Record]: the launches and test items it knows
    stored,     \* the log entries it has stored
    wire,       \* requests whose answer the client will never read
    aborts      \* how many requests were ever put on the wire

serverVars == <<records, stored, wire, aborts>>

Record == [kind   : {"absent", "launch", "item"},
           launch : UuidOrNil,
           parent : UuidOrNil,
           state  : {"none", "running", "finished"},
           status : Status]

Absent == [kind |-> "absent", launch |-> NilUuid, parent |-> NilUuid,
           state |-> "none", status |-> Inherit]

\* A log entry: the message is known by its number among those of its item.
LogEntry == [n : 1 .. MaxLogs, launch : Uuid, item : Uuid]

Begins == {"begin_launch", "begin_item"}
Ends == {"end_launch", "end_item"}

Request == [op     : Begins \cup Ends \cup {"logs"},
            uuid   : UuidOrNil,
            launch : UuidOrNil,
            parent : UuidOrNil,
            status : Status,
            logs   : SUBSET LogEntry]

Flight == [n : 1 .. MaxAborts, req : Request]

Known(u) == u \in Uuid /\ records[u].kind # "absent"

-----------------------------------------------------------------------------
(* The ids under which the server may process a request: for a begin, the  *)
(* id it carries or, when that is nil, one the server generates, and never *)
(* one in use; for an end, the id in the URL.                              *)

FreshFor(r) ==
    {u \in (IF r.uuid = NilUuid THEN ServerIds ELSE {r.uuid}) : ~ Known(u)}

Subjects(r) ==
    CASE r.op = "begin_launch" -> FreshFor(r)
      [] r.op = "begin_item"   ->
            {u \in FreshFor(r) :
                /\ Known(r.launch)
                /\ r.parent = NilUuid \/ Known(r.parent)}
      [] r.op = "end_launch"   ->
            {u \in {r.uuid} : Known(u) /\ records[u].kind = "launch"}
      [] r.op = "end_item"     ->
            {u \in {r.uuid} : Known(u) /\ records[u].kind = "item"}
      [] OTHER                 -> {}

\* A begin registers a running record.
Register(r, u) ==
    records' = [records EXCEPT ![u] =
        [kind   |-> IF r.op = "begin_launch" THEN "launch" ELSE "item",
         launch |-> r.launch,
         parent |-> r.parent,
         state  |-> "running",
         status |-> Inherit]]

\* An end finishes the record the URL names.
Finish(r, u) ==
    records' = [records EXCEPT ![u].state = "finished",
                               ![u].status = r.status]

\* POST /log: a batch is stored when every entry names an item it knows.
Storable(r) == \A e \in r.logs : Known(e.item) /\ Known(e.launch)

Store(r) == stored' = stored \cup r.logs

-----------------------------------------------------------------------------
ServerInit ==
    /\ records = [u \in Uuid |-> Absent]
    /\ stored = {}
    /\ wire = {}
    /\ aborts = 0

LateBegin(f) ==
    /\ f.req.op \in Begins
    /\ \E u \in Subjects(f.req) : Register(f.req, u)
    /\ wire' = wire \ {f}
    /\ UNCHANGED <<stored, aborts>>

LateEnd(f) ==
    /\ f.req.op \in Ends
    /\ \E u \in Subjects(f.req) : Finish(f.req, u)
    /\ wire' = wire \ {f}
    /\ UNCHANGED <<stored, aborts>>

LateLogs(f) ==
    /\ f.req.op = "logs"
    /\ Storable(f.req)
    /\ Store(f.req)
    /\ wire' = wire \ {f}
    /\ UNCHANGED <<records, aborts>>

\* Lost on the way, or turned down.
Drop(f) ==
    /\ wire' = wire \ {f}
    /\ UNCHANGED <<records, stored, aborts>>

\* The server handles, or never gets, a request nobody waits for any more.
Late == \E f \in wire : LateBegin(f) \/ LateEnd(f) \/ LateLogs(f) \/ Drop(f)
=============================================================================
