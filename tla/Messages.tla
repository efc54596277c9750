------------------------------ MODULE Messages ------------------------------
(***************************************************************************)
(* The requests the library sends (src/src/rapidjson_serializer.cpp and    *)
(* the URLs of src/src/service.cpp).  The body is a JSON object: the       *)
(* sequence of its members in the order they are added.  Quoting and the   *)
(* text of times (module Timestamp) and of uuids are left out: a value     *)
(* stands for its text.                                                    *)
(***************************************************************************)
EXTENDS Naturals, Sequences

CONSTANTS
    None,       \* std::nullopt: the argument is not given
    NilUuid     \* uuids::uuid()

ASSUME NoneAssumption == None # NilUuid /\ None \notin BOOLEAN

\* The enumerators of ijson_serializer.hpp are numbers.
TypeText == <<"suite", "story", "test", "scenario", "step", "before_class",
    "before_groups", "before_method", "before_suite", "before_test",
    "after_class", "after_groups", "after_method", "after_suite", "after_test">>

Inherit == 1

\* Mutation: cancelled got the text of the line above it.
StatusTextPasted(status) ==
    <<"passed", "failed", "stopped", "skipped", "interrupted",
      "interrupted">>[status - 1]

StatusText(status) ==
    <<"passed", "failed", "stopped", "skipped", "interrupted",
      "cancelled">>[status - 1]

LevelText(level) ==
    <<"unknown", "trace", "debug", "info", "warn", "error", "fatal">>[level + 1]

DefectText(type) == <<"nd", "ti", "pd", "ab", "si">>[type + 1]

-----------------------------------------------------------------------------
Required(member, value) == <<[member |-> member, value |-> value]>>

Optional(member, value) ==
    IF value = None THEN << >> ELSE Required(member, value)

OptionalUuid(member, value) ==
    IF value \in {None, NilUuid} THEN << >> ELSE Required(member, value)

\* Mutation: one default for every flag.
OptionalBoolFalse(member, value, default) ==
    IF value \in {None, FALSE} THEN << >> ELSE Required(member, "true")

OptionalBool(member, value, default) ==
    IF value \in {None, default} THEN << >>
    ELSE Required(member, IF value THEN "true" ELSE "false")

OptionalStatus(member, status) ==
    IF status \in {None, Inherit} THEN << >>
                                  ELSE Required(member, StatusText(status))

\* issue's constructors: the one that takes a locator id does not keep it.
IssueOf(type, type_locator_id) ==
    [type |-> type, locator |-> 0, comment |-> "", auto |-> FALSE,
     ignore |-> FALSE]

\* The type and the locator, three digits at least, are one text.
OptionalIssue(member, issue) ==
    IF issue = None THEN << >> ELSE Required(member,
        Required("issueType", <<DefectText(issue.type), issue.locator>>)
        \o Required("comment", issue.comment)
        \o Required("autoAnalyzed", issue.auto)
        \o Required("ignoreAnalyzer", issue.ignore))

\* attachment's constructor initialises the type with itself: whatever the
\* memory holds.
AttachmentOf(name, data, mime_type, memory) ==
    [name |-> name, data |-> data, type |-> memory]

-----------------------------------------------------------------------------
\* The bodies.  attributes and parameters are not written, nor is mode: its
\* member is given the rerunof id.
BeginLaunchBody(a) ==
    Required("name", a.name)
    \o Required("startTime", a.time)
    \o Optional("description", a.description)
    \o OptionalUuid("uuid", a.uuid)
    \o OptionalUuid("mode", a.rerunof)
    \o OptionalUuid("rerunOf", a.rerunof)
    \o OptionalBool("rerun", a.is_rerun, FALSE)
    \o OptionalUuid("rerunOf", a.rerunof)

EndLaunchBody(a) == Required("endTime", a.time)

BeginItemBody(a) ==
    Required("name", a.name)
    \o Required("startTime", a.time)
    \o Required("type", TypeText[a.type])
    \o Required("launchUuid", a.launch)
    \o Optional("description", a.description)
    \o OptionalUuid("uuid", a.uuid)
    \o Optional("coderef", a.coderef)
    \o OptionalBool("retry", a.retry, FALSE)
    \o OptionalBool("hasStats", a.has_stats, TRUE)

\* The service gives no retry, so that member is never there.
EndItemBody(a) ==
    Required("endTime", a.time)
    \o Required("launchUuid", a.launch)
    \o OptionalStatus("status", a.status)
    \o OptionalIssue("issue", a.issue)

LogBody(log) ==
    Required("launchUuid", log.launch)
    \o Required("time", log.time)
    \o OptionalUuid("itemUuid", log.item)
    \o Required("message", log.message)
    \o Required("level", LevelText(log.level))
    \o IF log.attachment = None THEN << >> ELSE Required("file",
           Required("name", log.attachment.name)
           \o Required("data", log.attachment.data)
           \o Required("type", log.attachment.type))

LogsBody(a) == [k \in DOMAIN a.logs |-> LogBody(a.logs[k])]

\* add_required of a uuid throws on the nil one.
Serialisable(a) == a.op \in {"begin_item", "end_item"} => a.launch # NilUuid

BeginItemPath(parent) ==
    IF parent = NilUuid THEN <<"item">> ELSE <<"item", parent>>

\* What is sent, for a call of iservice with the arguments a.  Two of the
\* paths begin with a slash of their own, which makes an empty segment.
Sent(a) ==
    CASE a.op = "begin_launch" ->
            [method |-> "POST", path |-> <<"launch">>,
             body |-> BeginLaunchBody(a)]
      [] a.op = "end_launch" ->
            [method |-> "PUT", path |-> <<"launch", a.uuid, "finish">>,
             body |-> EndLaunchBody(a)]
      [] a.op = "begin_item" ->
            [method |-> "POST", path |-> BeginItemPath(a.parent),
             body |-> BeginItemBody(a)]
      [] a.op = "end_item" ->
            [method |-> "PUT", path |-> <<"", "item", a.uuid>>,
             body |-> EndItemBody(a)]
      [] a.op = "logs" ->
            [method |-> "MIME", path |-> <<"", "log">>, body |-> LogsBody(a)]

-----------------------------------------------------------------------------
\* What a reader of an object finds under a name.
ReadValues(body, member) ==
    {body[k].value : k \in {j \in DOMAIN body : body[j].member = member}}

ReadMember(body, member, absent) ==
    IF ReadValues(body, member) = {} THEN absent
    ELSE CHOOSE value \in ReadValues(body, member) : TRUE
=============================================================================
