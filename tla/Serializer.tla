----------------------------- MODULE Serializer -----------------------------
(***************************************************************************)
(* What a server can tell from a request about the call that made it.  The *)
(* user of iservice makes calls with any arguments; each is serialised, or *)
(* throws and sends nothing.                                               *)
(***************************************************************************)
EXTENDS Messages, Timestamp

CONSTANTS
    BeginLaunchArgs, EndLaunchArgs, BeginItemArgs, EndItemArgs, Batches,
    Memory,     \* what an uninitialised string may hold
    MaxSent     \* bound: how many requests are sent

\* The user constructs an issue with a type and a locator id, and sets the
\* rest.
WithIssue(a) ==
    IF a.issue = None THEN a
    ELSE [a EXCEPT !.issue =
             [IssueOf(@.type, @.locator) EXCEPT
                 !.comment = a.issue.comment, !.auto = a.issue.auto,
                 !.ignore = a.issue.ignore]]

\* The user constructs an attachment and gives it to the entry.
Attached(file, memory) ==
    IF file = None THEN None
    ELSE AttachmentOf(file.name, file.data, file.type, memory)

\* The entries of a batch: nobody looks at their times.
Entries(logs, memory) ==
    [n \in DOMAIN logs |->
        [logs[n] EXCEPT !.attachment = Attached(@, memory),
                        !.time = ToIso8601(@)]]

\* The parameters of the calls, and of the constructor of log, have their
\* types; an argument that is given is not None.
ASSUME ArgsAssumption ==
    /\ \A a \in BeginLaunchArgs :
        /\ a.op = "begin_launch"
        /\ DOMAIN a = {"op", "name", "time", "description", "uuid", "attributes",
                       "mode", "is_rerun", "rerunof"}
        /\ a.is_rerun \in BOOLEAN \cup {None}
    /\ \A a \in EndLaunchArgs :
        /\ a.op = "end_launch"
        /\ DOMAIN a = {"op", "uuid", "time"}
    /\ \A a \in BeginItemArgs :
        /\ a.op = "begin_item"
        /\ DOMAIN a = {"op", "name", "time", "type", "launch", "parent",
                       "description", "attributes", "uuid", "coderef",
                       "parameters", "retry", "has_stats"}
        /\ a.type \in DOMAIN TypeText
        /\ a.retry \in BOOLEAN \cup {None}
        /\ a.has_stats \in BOOLEAN \cup {None}
    /\ \A a \in EndItemArgs :
        /\ a.op = "end_item"
        /\ DOMAIN a = {"op", "uuid", "launch", "time", "status", "issue"}
        /\ a.status \in 1 .. 7 \cup {None}
        /\ a.issue # None =>
            /\ DOMAIN a.issue = {"type", "locator", "comment", "auto", "ignore"}
            /\ a.issue.type \in 0 .. 4
            /\ WithIssue(a).issue # None
    /\ \A a \in BeginLaunchArgs \cup EndLaunchArgs \cup BeginItemArgs
                    \cup EndItemArgs : a.time \in Instants
    /\ \A logs \in Batches :
        /\ Len(logs) \in Nat /\ DOMAIN logs = 1 .. Len(logs)
        /\ \A n \in DOMAIN logs :
            /\ DOMAIN logs[n] = {"launch", "time", "item", "message", "level",
                                 "attachment"}
            /\ logs[n].time \in Instants
            /\ logs[n].item # None
            /\ logs[n].level \in 0 .. 6
            /\ \A m \in Memory : Attached(logs[n].attachment, m) = None
                                    <=> logs[n].attachment = None

\* The calls that have sent a request: what the user asked for, the arguments
\* of the serializer with their times printed, and what was sent.
VARIABLE calls

Init == calls = << >>

Send(asked, a) ==
    /\ Len(calls) < MaxSent
    /\ Serialisable(a)
    /\ calls' = Append(calls, [asked |-> asked, args |-> a, sent |-> Sent(a)])

\* A begin or an end at a time that is not valid throws.
SendChecked(asked, a) ==
    /\ IsValidTime(asked.time)
    /\ Send(asked, [a EXCEPT !.time = ToIso8601(@)])

BeginLaunch == \E a \in BeginLaunchArgs : SendChecked(a, a)

EndLaunch == \E a \in EndLaunchArgs : SendChecked(a, a)

BeginItem == \E a \in BeginItemArgs : SendChecked(a, a)

EndItem == \E a \in EndItemArgs : SendChecked(a, WithIssue(a))

BatchLogs ==
    \E logs \in Batches, m \in Memory :
        Send([op |-> "logs", logs |-> logs],
             [op |-> "logs", logs |-> Entries(logs, m)])

Next == BeginLaunch \/ EndLaunch \/ BeginItem \/ EndItem \/ BatchLogs

Spec == Init /\ [][Next]_calls

-----------------------------------------------------------------------------
\* A call up to what is not written, and with the defaults in place: no mode,
\* attributes and parameters, no locator id of an issue, no type of an
\* attachment, and a time to the microsecond.
Or(value, default) == IF value = None THEN default ELSE value

Told(a) ==
    CASE a.op = "begin_launch" ->
            [a EXCEPT !.uuid = Or(@, NilUuid), !.rerunof = Or(@, NilUuid),
                      !.is_rerun = Or(@, FALSE), !.mode = None,
                      !.attributes = None, !.time = Quotient(@, Nanos)]
      [] a.op = "end_launch" -> [a EXCEPT !.time = Quotient(@, Nanos)]
      [] a.op = "begin_item" ->
            [a EXCEPT !.uuid = Or(@, NilUuid), !.retry = Or(@, FALSE),
                      !.has_stats = Or(@, TRUE), !.parameters = None,
                      !.attributes = None, !.time = Quotient(@, Nanos)]
      [] a.op = "end_item" ->
            [a EXCEPT !.status = Or(@, Inherit), !.time = Quotient(@, Nanos),
                      !.issue = IF @ = None THEN None
                                ELSE <<@.type, @.comment, @.auto, @.ignore>>]
      [] a.op = "logs" ->
            [n \in DOMAIN a.logs |->
                [a.logs[n] EXCEPT !.time = Quotient(@, Nanos),
                    !.attachment = IF @ = None THEN None ELSE <<@.name, @.data>>]]

SameObject(b, c) ==
    /\ Len(b) = Len(c)
    /\ \A k \in DOMAIN b : b[k].member = c[k].member /\ b[k].value = c[k].value

SameSent(s, t) ==
    /\ s.method = t.method
    /\ s.path = t.path
    /\ IF s.method = "MIME"
       THEN /\ Len(s.body) = Len(t.body)
            /\ \A k \in DOMAIN s.body : SameObject(s.body[k], t.body[k])
       ELSE SameObject(s.body, t.body)

\* The times of a call, each with what was printed of it.
Times(call) ==
    IF call.asked.op = "logs"
    THEN {<<call.asked.logs[n].time, call.args.logs[n].time>> :
             n \in DOMAIN call.asked.logs}
    ELSE {<<call.asked.time, call.args.time>>}

WholeZones(call) == \A p \in Times(call) : WholeMinutes(p[1])

\* Apart from what Told leaves out nothing is lost on the way: two calls that
\* send the same request, at times whose zones print whole, asked for the
\* same, a default being as good as an argument that is not given.
RequestTellsCall ==
    \A j, k \in DOMAIN calls :
        /\ WholeZones(calls[j]) /\ WholeZones(calls[k])
        /\ SameSent(calls[j].sent, calls[k].sent)
        => Told(calls[j].asked) = Told(calls[k].asked)

\* Every member is read by name: what the server reads of the members that a
\* call always or by default determines is what the caller passed.
MembersReadBack ==
    \A k \in DOMAIN calls :
        LET a == calls[k].args
            Reads(member, absent) == ReadMember(calls[k].sent.body, member, absent)
        IN  CASE a.op = "begin_launch" ->
                    /\ Reads("description", None) = a.description
                    /\ Reads("uuid", NilUuid) = Or(a.uuid, NilUuid)
                    /\ Reads("rerunOf", NilUuid) = Or(a.rerunof, NilUuid)
                    /\ (Reads("rerun", "false") = "true") = Or(a.is_rerun, FALSE)
              [] a.op = "begin_item" ->
                    /\ Reads("description", None) = a.description
                    /\ Reads("coderef", None) = a.coderef
                    /\ Reads("uuid", NilUuid) = Or(a.uuid, NilUuid)
                    /\ (Reads("retry", "false") = "true") = Or(a.retry, FALSE)
                    /\ (Reads("hasStats", "true") = "true") = Or(a.has_stats, TRUE)
              [] OTHER -> TRUE

\* The fraction of a time is below one second from the epoch on, and before it
\* only at a whole second: an earlier time between two seconds is the one thing
\* that is printed with more digits.  Every other is read back as the same
\* microsecond where the zone prints whole, and less than a minute off where
\* %z leaves its seconds out.
TimeKept ==
    \A k \in DOMAIN calls : \A p \in Times(calls[k]) :
        LET time == Quotient(p[1], Nanos)
            off  == Denoted(p[2]) - time
        IN  /\ p[2].fraction < Micros <=> p[1] >= 0 \/ time % Micros = 0
            /\ p[2].fraction < Micros =>
                /\ - (Minute * Micros) < off /\ off < Minute * Micros
                /\ WholeMinutes(p[1]) => off = 0

\* Begins and ends at times whose zones print whole are read back in the order
\* of their times, across a change of the zone too: what is not printed right
\* is refused.
CheckedInOrder ==
    \A j, k \in DOMAIN calls :
        /\ calls[j].asked.op # "logs" /\ WholeZones(calls[j])
        /\ calls[k].asked.op # "logs" /\ WholeZones(calls[k])
        /\ calls[j].asked.time <= calls[k].asked.time
        => Denoted(calls[j].args.time) <= Denoted(calls[k].args.time)
=============================================================================
