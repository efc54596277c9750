# Verification of reportportal-client-cpp

TLA+ models of the client library, the TLC runs that check them on small
instances, and theorems about them checked by TLAPS. `PROJECT.json` lists the
components, the runs, the lines of code each definition stands for, the hazards
and the theorems.

## The system

The library reports the progress of a test run to a ReportPortal server. Its
user builds a tree of objects and calls them; there are no threads, callbacks
or queues in the library: every call is made by the user's thread and returns,
throws or (see below) ends the process before the next one is made.

| part | state | operations | module |
|---|---|---|---|
| `launch` (launch.cpp) | `_uuid`, `_has_started`, `_has_ended`, metadata | start, end, setters | Launch; setters in Metadata |
| `test_item` (test_item.cpp) | `_parent`, `_id`, `_has_started`, `_has_ended`, `_status`, `_batched_logs`, metadata | start, set_status, end ×2, log ×2, flush_logs, setters | TestItem; setters in Metadata |
| `itest_item_parent` | - | what an item asks of its parent | TestItem |
| `service` (service.cpp) | endpoint, `_api_token` | constructor (two tokens), begin/end launch, begin/end item, batch_logs | Call, CallOutcome; Service |
| post, mime, put, get_ui_token, get_api_token | curl's global count, a handle, a header list, a form per call | one transfer each | Transport |
| `read_function`, `write_function` | index into the body, collected answer | called by curl during a transfer | Transfer |
| `rapidjson_serializer` | - | requests to JSON, `to_iso_8601`, answers from JSON, `throw_if_error` | Messages, Serializer, Timestamp; answers in Call |
| `log`, `attachment` | ids, time, level, message | constructed by `test_item::log` | an entry in ReportServer; its members in Messages |
| `attribute_map` | attributes, tags | add, remove | AttributeMap |
| `main.cpp` | where it is | one launch, three nested items | Example |
| `issue` | type, locator id, flags | constructors, getters | its construction and members in Messages |
| `external_system_issue`, response classes | values | getters | not modelled: no behaviour |
| server and network | records, log entries, requests on their way | the REST API | ReportServer (external) |

Interactions: an item calls its parent (`id`, `launch_id`, `has_started`,
`has_ended`, `service`) and, through it, the one service of the launch; the
service turns a call into one HTTP request and its answer into a value or an
exception; the server acts on requests.

### What is hard

* **A call fails after its request has left.** `curl_easy_perform` returns an
  error, the call throws, the object keeps its old state, and the user may call
  again. The server may process the first request now, later or never, in any
  order with everything that follows. A retried `start()` can so register a
  second record.
* **Ids arrive late.** An object's id is nil or the user's until `start()` has
  returned; children, log entries and ends copy ids from other objects at
  different times.
* **The batch is never cleared.** Every flush sends all messages again, and
  `batch_logs` never looks at the answer.
* **`end(time, status)` is two calls**, with an exception possible between.
* **The process can end inside a call**: rapidjson asserts on an answer that is
  not the JSON expected.
* **An exception leaves between acquire and release** in all five transfer
  functions.
* **Metadata changes between attempts.** `start()` may have to be tried again,
  with setters called in between, while the first request is still on its way;
  members are left out of a request when they have their default, and not every
  flag has the same one.
* **Logging in is two calls** with tokens handed from one to the next, either of
  which may fail.
* **Nothing bounds a call in time** on this side.

What is not hard here: nothing is persisted, so there is no recovery; nothing
runs concurrently inside the library.

## Modules

```
ReportServer <- Service <- Launch <- TestItem <- ReportSession <- MCReportSession
ReportSession <- ReportSessionProofs;   Tree == INSTANCE ReportTree in ReportSession
ReportSession <- Example <- MCExample;  Example, ReportSessionProofs <- ExampleProofs
CallOutcome == instantiated by Call <- CallProofs
Transfer  <- MCTransfer,  TransferProofs
Transport <- MCTransport, TransportProofs
Messages, Timestamp    <- Serializer <- MCSerializer, SerializerProofs
AttributeMap, Messages <- Metadata <- MetadataProofs
MessagesProofs (of Messages)   used by SerializerProofs and MetadataProofs
```

**ReportServer** is external: what the library relies on, written from how it
uses the REST API. The server may turn down any request; it processes one only
when the request names records it knows, and registers a record only under an
id not in use. `wire` holds requests whose answer the client will never read;
`LateBegin`, `LateEnd`, `LateLogs` and `Drop` let the server deal with them at
any time in any order.

**Service** gives each of the five calls of `iservice` as a request record and
the outcomes its caller can see: *answered*, *refused* (nothing happened, the
call throws), *aborted* (the request is on the wire, the call throws), *died*
(the process ends; the request may still be processed). A refused call changes
no state of the caller, so it is a stuttering step and not written down, except
in `batch_logs`, which returns even then, and in the second half of
`end(time, status)`, which comes after the flush.

**Call** has the same calls, and the constructor's two, step by step: the check
of the arguments, `curl_easy_init` (or no handle, which makes the answer the
empty string), the connection, the request leaving with its token, the server
processing it or turning it down, and what the deserialize function of the call
makes of the answer: it returns, throws for an errorCode or an id that is no
uuid, or runs into an assertion. A user may construct another service at any
time: when its constructor throws, the service there was goes on with its own
token, and when it returns, its calls are the ones that are made from then on.
**CallOutcome** is what this promises a caller: each call is one step, and
*answered*, *refused*, *aborted* and *died* say what has become of the request.
`Call!OneStep` is the refinement; Service takes its outcomes from there. Its
mapping shows a call when it ends, with what the server has done by then.

**Launch** and **TestItem** have one action per operation with its guards,
early returns and assignments in the code's order. The items `1 .. N` are given
by `Parent`, the object each constructor was called with (0 is the launch).
`logged` and `endedBy` are history: they say which calls have returned. A log
entry is known by its number among the messages of its item. Setting metadata
touches none of the variables and has a module of its own.

`end(time, status)` is one action although it makes two calls: nobody else
observes the server in between, and what the server does with late requests
between them it can do before the first as well.

**ReportSession** composes them: one launch, its items, one service, the
server. `Next` is one call of the user or one late step of the server.

**ReportTree** is what the library promises: a tree of records that only grows,
in which each object answers for one record for good, placed under the record
its parent answers for; only records some object answers for are finished or
get log entries; the stored log of an object is a beginning of what it logged;
a call that was given up may leave a *stray* record in its object's place.
`ReportSession!ImplementsTree` is its specification under the mapping
`TreeIds`, `TreeUnder`, `TreeDone`, `TreeNode`, `TreeLog`.

**Transfer** is one `curl_easy_perform` of `put`: curl offers buffers of any of
the sizes `BufferSizes`, the server answers when it has a whole body or turns
the request down early, the answer comes in chunks, and the transfer may fail
at any point. Byte k of the body is the number k; what `strncpy` delivers from
beyond the end of the string is a nondeterministic choice. The conan recipe
pins libcurl 7.69.1, which asks for whole buffers until it has sent exactly
`CURLOPT_INFILESIZE` bytes; later versions ask for no more than what is left,
which is a buffer size like any other.

**Transport** is the constructor and then any sequence of `post`, `mime` and
`put`, step by step: `curl_global_init`, the handle (or none), the header list
and the form, the transfer or its exception, the release,
`curl_global_cleanup`, and what the caller makes of the answer.

**Messages** are the requests: the body as the sequence of its members in the
order they are added, with those that are left out for a nil id or a default,
and the path. A value stands for its text, except where two values could get
one text (status, level, type, defect). Messages has the code's slips: `mode`
from the rerunof id, `rerunOf` twice, no `attributes` or `parameters`, the
constructors of `issue` and `attachment`, the empty path segment of two calls.
**Serializer** is a user who makes calls of `iservice` with any arguments at
any times, with issues whose comment and flags are set or not; `Told` is what of a
call a server can know.

**Timestamp** is `to_iso_8601` and the check of `is_valid_time` before begins
and ends: ticks since the epoch, `to_time_t` truncating towards zero, the local
time and its zone, the microseconds in a `uint64_t`. Of the zone `%z` prints the
hours and minutes, so the offset of `localtime` loses its seconds on the way.
Zones have had such offsets (Africa/Monrovia, 44:30 behind, until 1972); in them
a text is up to a minute off, and two seconds can have the same text.

**AttributeMap** is the multimap and the vector of tags; `RemoveTag` has
`std::remove` and the `erase` of one iterator, whose result for an absent tag is
one of the outcomes a build can have (the last tag goes, or the process).
`StdRemove` puts the k-th tag that is kept in place k, and leaves behind those
what was to be removed or, where a tag was moved away, a moved-from string.
**Metadata** is one object, launch or item, its setters with their guards (a
launch refuses after its end, except for the description; an item never), and
`start()`, which puts the fields into a request of Messages. A launch's mode is
left out, because nothing of it is sent. `changed`, `wanted`, `careful` and
`once` are history: which fields were set since the answered start, which tags
are wanted, and whether every tag removed was one of them and every tag added
was not.

**Example** is `main.cpp`: its calls in their order over ReportSession, ended
by the first exception. Each handler is the session's own; a refusal, which the
session leaves out because it changes nothing, is here a step that ends main.

## Runs

| run | instance | what it shows |
|---|---|---|
| session_retries | 2 nested items, 5 server ids, 2 aborted calls, no logs | `OrphanPerAbort`, `OrphansAreInert`, `EndFinishes`, `FinishedByEnd`, `ReportedTree`, `DistinctIdentities`, `IdentityKept` |
| session_tree | 2 nested items, 4 server ids, 1 aborted call, 2 messages each | `TypeOK`, `LogAttribution`, the inductive invariant `IInv`, `NoGapInLogs`, `NextFlushCarriesRest`, `ImplementsTree` |
| transfer | bodies and answers up to 7 bytes, buffers of 3 and 4, 3 reads | `BodyArrives`, `ShortBodyReadOnce`, `ResultIsAnswer`, and `TransferEnds` under fairness |
| transport | 8 calls | `TypeOK`, `LeftBehind`, `CurlOutlivesHandles` |
| call | 5 calls | `TypeOK`, `Authorised`, `OneStep` (the refinement), and `CallEnds` under fairness |
| serializer | pairs of calls from 492, with all optional arguments, at times from -9 to 25 ticks | `RequestTellsCall`, `MembersReadBack`, `TimeKept`, `CheckedInOrder` |
| metadata | 1 object, 4 setters, 2 starts, 3 tags, 2 values | `TypeOK`, `RecordTells`, `RerunAgrees`, `TagsExact`, `TagsKept` |
| example | main's 11 calls, 1 aborted call, 4 server ids | `WhatMainReports`, `NothingEndsEarly` |
| end_names_itself | as session_tree, without logs | violated: `end(time, status)` ends the parent's record |
| at_most_one_end | as above | violated: an item can be ended twice |
| end_names_launch | as above | violated: `end(time)` of a nested item names its parent as its launch |
| always_cleanup | 4 calls | violated: a failed transfer keeps its handle and header list |

*Bounds.* `N`, `MaxAborts` (calls whose answer is never read), `MaxLogs`
(messages per item), the number of server ids, `MaxCalls`, `MaxLength` and
`MaxReads`. Two aborted calls are the least with which two retries of one
object, or of a parent and its child, are in flight together. There is a server
id for every begin the bounds allow (objects plus aborts). A chain of two items
has a parent that is itself an item; siblings are left to the theorems, which
hold for every tree. The one status of session_retries can be set, reset to
inherit and ended with; session_tree, whose properties are not about the status,
has inherit only. Two messages let an abandoned batch of one arrive after a
batch of both. Buffers of 3 and 4 bytes and bodies up to 7 put the end of the
body inside, at and beyond the end of the first and second buffer. Five calls
are two logins, with a failed one between them, or one login and three calls of
one service. A pair of requests is all that `RequestTellsCall` and
`CheckedInOrder` are about. In the serializer run a second has 3 microseconds of
2 ticks and a minute has 2 seconds; the zone is one minute behind until second
2, two minutes from then on, which shows the same local time twice, and from
second 4 a second more, which is not printed: seconds 3 and 4 have the same
text. Four setters are enough to add a tag, remove it, and
change a field before and after a failed start; three tags let a removal have
neighbours on both sides. The server ids are symmetric: nothing compares or
orders them.

*Deadlock* is not checked: a session may be over, the process may have ended,
and the bounds may be used up; no component waits for another.

*Fairness.* Two components have liveness properties. In Transfer, curl goes on
asking for buffers and delivering chunks (`curl_easy_perform` is a loop that
waits for nothing else), and a server that has a whole body answers it; then a
transfer ends, because `read_function` always delivers the whole body: were it
one byte short, curl and the server would wait for each other
(`AmountTerminated`). In Call, a running call goes on, and one that waits is
answered or loses its connection. The last is an assumption about the world: no
CURLOPT_TIMEOUT is set, so a server that accepts a request and says nothing
holds its caller for good. What is shown is that nothing on this side adds to
that. The session has no liveness: whether a user calls again is the user's
choice, and a request on the wire may be lost.

## What the violations say

Four statements the repository makes are not what the code does; each has a run.

1. `iservice.hpp:73`: the uuid given to `end_test_item` is that of the item
   ending. `test_item.cpp:271-273` passes the parent's. The record of an item
   ended with a status stays running and the record of its parent is finished;
   directly under the launch no such item exists and the server refuses.
   `EndFinishes` and `FinishedByEnd` state what the code does instead.
2. `test_item.cpp:245`, `261`: "test_item has already ended". Nothing sets
   `_has_ended`, so the guard never holds.
3. `iservice.hpp:79`: the second uuid of `end_test_item` is the launch's; the
   test of the serializer (`rapidjson_serializer_tests.cpp:232-244`) passes a
   launch's id and expects it as `launchUuid`. `end(time)` passes the parent's
   id (`test_item.cpp:253`), for a nested item the id of another item.
   `EndNamesLaunch` looks at the items without children, which only their own
   `end(time)` names, so that it is not about the arguments of 1: with
   `launch_id()` in line 253 the run finds no violation.
4. `service.cpp:225`: "ALWAYS CLEANUP". The exception for a failed transfer
   is thrown just before.

Other disagreements have no run of their own. The models do as the code does,
and the properties are stated around them:

* `iservice.hpp:22`: `begin_launch` takes a mode. `rapidjson_serializer.cpp:283`
  writes the rerunof id under that name and the mode nowhere. (`launch.cpp:35`
  drops the mode it is given, too: `launch.hpp:32`.)
* `iservice.hpp` gives begins attributes and parameters; the bodies have none.
* `issue.hpp:44`: the constructor takes a locator id. Line 48 stores 0.
* `log.hpp:17`: the constructor of `attachment` initialises the mime type with
  itself; the argument is not used.
* `rapidjson_serializer.cpp:101`: the rest of the time is appended "as
  fractional seconds". Before the epoch it is a negative difference in a
  `uint64_t`, except at a whole second. Begins and ends are checked; the time of
  a log entry is not. `TimeKept` says that these are the only fractions that are
  none.
* `rapidjson_serializer.cpp:105`: the zone is printed without its seconds, so
  that in a zone that has some the time read back is another, less than a minute
  off. `RequestTellsCall` and `CheckedInOrder` are about times in zones of whole
  minutes.

## Proofs

All theorems hold for every value of the constants, under the named assumptions:
`IdAssumption` (server and user ids are disjoint and nil is neither),
`ItemOwnIdAssumption` and `LaunchOwnIdAssumption` (the user gives no two objects
the same id), `TreeAssumption` (an item's parent was constructed before it),
`BoundAssumption`, `SizeAssumption`, `CallAssumption`, `CallsAssumption` (bounds
are numbers), `NoneAssumption`, `ArgsAssumption` and `MetadataAssumption`
(std::nullopt is no value, a text or an id is not nullopt, flags are Boolean),
`ClockAssumption` and `ZoneAssumption` (a minute has seconds and a second ticks,
a `uint64_t` holds its microseconds twice, the zone is known at every second
asked about, and is any number of seconds),
`ProgramAssumption` (the objects main.cpp constructs; it is that program the
theorems on Example are about, for any ids and bounds). The ids of users and the
server being disjoint is what uuids are for.

`ArgsAssumption` has the types of the parameters as `iservice.hpp` and `log.hpp`
declare them: an enumerator is one of those there are, the ids of a log entry
are not optional, and an issue or attachment that is given is not nullopt.

**ReportSessionProofs.** None of the properties is inductive alone: that two
items never share a record depends on what the server may do with a begin still
on the wire, and that depends on which object sent it. `IInv` says where
everything came from:

* `IdInv`: an object that has not started has the id it was constructed with;
* `RecordsInv`: every record is the trace of a begin of some object, with
  ancestors that still hold, and is finished only if an object answers for it;
* `WireInv`: so is every request in flight; ends name records objects answer
  for, batches are beginnings of one item's log;
* `BatchInv`, `StoredInv`: every entry is one of a started item under the ids
  it still has;
* and the properties that need no strengthening beyond these.

The proof has one lemma per action. `Grows` (started objects keep their ids)
and `RecordsKeep` (records keep kind, launch and parent) are what every step
guarantees; each part of `IInv` is stable under them, so the lemma of an action
has to look only at what that action adds. `InductiveInvariant` then gives
`TypeCorrect`, `TreeIsReported`, `IdentitiesDistinct`, `OrphansStayInert`,
`EndsFinish`, `LogsKeepTheirItem`, `LogsHaveNoGap`, `NothingLoggedIsLost` and
the action property `IdentitiesKept`.

`OnlyEndsFinish` and `OrphansAreFew` have invariants of their own on top of
`IInv`: while no call was given up nothing is on the wire (`Finishers`), and the
records nobody answers for, with the begins still on the wire, are finitely many
and no more than the calls given up (`Counted`).

`ReportSessionImplementsTree` is the refinement. An answered begin is `Start`, a
late one `Stray`; an end is `Finish` of the object whose record it names; a
stored batch is `Deliver`, and `end(time, status)` with both is
`DeliverAndFinish`; everything else changes nothing the tree shows.

**TransferProofs**: `BodiesArrive`, `ShortBodiesAreReadOnce`,
`ResultsAreAnswers`, for bodies, answers and buffers of any size. The invariant
adds that the index is the number of bytes delivered.

**TransportProofs**: `TypesHold`, `LeaksAreExact`, `CurlStaysOpen`, for any
number of calls. `CurlOutlivesHandles` follows from the exact account and not by
itself.

**MessagesProofs** has what the next two modules share: which member of which
body is read as what (`ReadMember` of a concatenation of optional members).

**SerializerProofs**: `MembersAreReadBack`, `TimesAreKept`,
`CheckedTimesInOrder`, `RequestsTellCalls`, for all arguments and times, any
clock resolution, word size and zone; that a time is read back exactly, in order
and told from another is stated of zones of whole minutes, and of the others
that it is less than a minute off. The invariant, `CallsInv`, is that every
call is one of the five with what was sent made of what was asked. The rest is
about single calls: the arithmetic of `to_iso_8601` (the two divisions, towards
zero, of a time into its second and the rest, `SplitTime`; the seconds of the
zone that are left out, `ZonePrinted`; the fraction that wraps, `Wrapped`), what the reader of a body finds
under each name, and for `RequestsTellCalls` that every reading has an inverse on
what `Told` keeps: the texts of enumerators differ, a member that is left out
stands for one default, the method and the first segment of the path tell the
five calls apart, and a printed time in a zone of whole minutes, on either side
of the epoch, tells the microsecond (`TextTellsTime`). The last needs a `uint64_t` to hold the
microseconds of a second twice. Holding them once is not enough: a rest below
zero would wrap around to one above, and in the model with such a word TLC shows
two entries, one before the epoch and one after, that send the same request.

**MetadataProofs**: `RecordsTell`, `RerunsAgree`, `MetadataTypes`,
`TagsAreExact`, `WantedTagsStay`, for any texts, ids, tags and bounds.
`RecordTells` is strengthened by where the object's record came from: while
nothing was changed since `start()` returned, its body is the one of the
object's fields. `TagsExact` compares sets; its invariant `TagsInv` adds that
each tag is there once and that there are as many as were wanted, which is why
the one place `erase` takes away is the one `std::remove` has emptied. Where a
tag may be there several times that is not so; `TagsKept` needs only that no tag
that is kept is among what `erase` takes away (`RemoveKeeps`). What
`std::remove` leaves is not computed by recursion but by counting: `Rank` is a
bijection from the positions kept to `1 ..` their number (`RankInjective`,
`KthIsKept`).

**ExampleProofs**: `MainIsASession` is the inclusion of main's behaviours in
those of a session, so every theorem of ReportSessionProofs holds of main.
`NothingEndsBeforeAllBegan` and `MainReportsItsObjects` need to know where main
is: `MainInv` says that as long as no exception was thrown every call was
answered and `pc` determines which objects have started, ended and logged
(`Answered`), and, whatever was thrown, that nothing is finished or about to be
while an object has not started, and no begin is on the wire once all have
(`BeginsFirst`). With `OrphanPerAbort` there is no record but the four.

**CallProofs**: `TypesHold`, `RequestsAuthorised`, and `CallsAreSteps`, the
refinement. The invariant orders the requests by the calls that made them, says
of every outcome what the server can have done, and of the two tokens which
processed login they came from and that no later one of its kind has returned.

*Only model-checked*: the liveness properties `TransferEnds` and `CallEnds`,
which are beyond the prover, as is ENABLED. Every invariant and action property
of the runs is also a theorem; the runs show it on states one can look at, and
that the theorem's hypotheses are met.

## Not modelled

* `external_system_issue` and the getters of the value classes: no behaviour,
  and nothing of them is sent.
* The text of JSON: rapidjson escapes and parses; a value stands for its text.
* That a server which does not recognise an entry it has stores messages twice
  (a flush before `end(time, status)`): the stored log is a set. How repeated
  entries are shown is the server's decision.
* That an item may be started below a launch that has ended, because only the
  direct parent is asked: the session has the behaviour, and nothing in the
  repository says whether it should.
* `end_test_item`'s `retry`, which the service never passes, and the tests,
  benchmarks and build files.

What is left to prove is that Service's outcomes are Call's, as one theorem over
both modules: today the two meet in CallOutcome's four outcomes.
