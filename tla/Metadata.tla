------------------------------ MODULE Metadata ------------------------------
(***************************************************************************)
(* What a launch or an item says about itself (the setters of launch.cpp   *)
(* and test_item.cpp), and what of it start() tells the server.  One       *)
(* object; a start() may fail after its request has left, setters may be   *)
(* called before it is tried again, and the server may process the request *)
(* of an attempt that was given up at any later time.                      *)
(***************************************************************************)
EXTENDS AttributeMap, Messages, FiniteSets

CONSTANTS
    Texts,      \* descriptions and code references, the empty one included
    Reruns,     \* the launches this one may be a rerun of
    OwnId,      \* the id given to the second constructor
    LaunchId,   \* the launch an item belongs to
    Values,     \* the values of attributes and parameters
    Tags,       \* the tags the user adds and removes
    MaxEdits,   \* bound: calls of setters
    MaxStarts   \* bound: calls of start()

ASSUME MetadataAssumption ==
    /\ "" \in Texts /\ None \notin Texts
    /\ NilUuid \notin Reruns \cup {OwnId}
    /\ None \notin Reruns
    /\ MovedFrom \notin Tags
    /\ MaxEdits \in Nat /\ MaxStarts \in Nat

VARIABLES
    kind,       \* the class of the object
    ownId,      \* the id it was constructed with
    meta,       \* its fields
    started,    \* _has_started
    ended,      \* _has_ended
    alive,      \* the process runs
    starts,     \* how often start() has reached the server
    wire,       \* begins given up, which the server may still process
    records,    \* begins the server has processed
    mine,       \* the one the object has its id from (0: none yet)
    edits,      \* history: how many setters have been called
    changed,    \* history: the fields set since start() returned
    wanted,     \* history: the tags added and not removed
    careful,    \* history: no tag was removed that was not wanted
    once        \* history: no tag was added that was wanted already

objectVars == <<kind, ownId>>
serverVars == <<starts, wire, records, mine>>
tagHistory == <<wanted, careful, once>>
historyVars == <<edits, changed, tagHistory>>
vars == <<objectVars, meta, started, ended, alive, serverVars, historyVars>>

Init ==
    /\ kind \in {"launch", "item"}
    /\ ownId \in {NilUuid, OwnId}
    /\ meta = [description |-> "", attributes |-> EmptyMap,
               is_rerun |-> FALSE, rerunof |-> NilUuid, coderef |-> "",
               parameters |-> [key \in Keys |-> None],
               retry |-> FALSE, has_stats |-> TRUE]
    /\ started = FALSE /\ ended = FALSE /\ alive = TRUE
    /\ starts = 0 /\ wire = {} /\ records = {} /\ mine = 0
    /\ edits = 0 /\ changed = {}
    /\ wanted = {} /\ careful = TRUE /\ once = TRUE

-----------------------------------------------------------------------------
\* A setter that returns, and the fields it sets.
Edit(fields, new) ==
    /\ alive
    /\ edits < MaxEdits
    /\ meta' = new
    /\ edits' = edits + 1
    /\ changed' = IF started THEN changed \cup fields ELSE changed
    /\ UNCHANGED <<objectVars, started, ended, serverVars>>

Set(field, new) ==
    Edit({field}, new) /\ UNCHANGED <<alive, tagHistory>>

\* A launch that has ended refuses, an item never does.
Editable == kind = "launch" => ~ ended

\* No setter of a description looks at what the object has done.
SetDescription ==
    \E d \in Texts : Set("description", [meta EXCEPT !.description = d])

SetAttributes ==
    /\ Editable
    /\ \E tags \in {<< >>} \cup {<<t>> : t \in Tags} :
          /\ Edit({"attributes"},
                  [meta EXCEPT !.attributes = [EmptyMap EXCEPT !.tags = tags]])
          /\ wanted' = Range(tags)
          /\ careful' = TRUE /\ once' = TRUE
    /\ UNCHANGED alive

SetAttribute ==
    /\ Editable
    /\ \E key \in Keys : \E map \in
            {AddAttribute(meta.attributes, key, v) : v \in Values}
                \cup {RemoveAttribute(meta.attributes, key)} :
          Set("attributes", [meta EXCEPT !.attributes = map])

AddsTag(t) ==
    /\ Editable
    /\ Edit({"attributes"}, [meta EXCEPT !.attributes = AddTag(@, t)])
    /\ wanted' = wanted \cup {t}
    /\ once' = (once /\ t \notin wanted)
    /\ UNCHANGED <<alive, careful>>

RemovesTag(t) ==
    /\ Editable
    /\ wanted' = wanted \ {t}
    /\ careful' = (careful /\ t \in wanted)
    /\ UNCHANGED once
    /\ \/ \E map \in RemoveTag(meta.attributes, t) :
            /\ Edit({"attributes"}, [meta EXCEPT !.attributes = map])
            /\ UNCHANGED alive
       \/ /\ RemoveTagMayDie(meta.attributes, t)
          /\ Edit({}, meta)
          /\ alive' = FALSE

\* Mutation: a nil id is still a rerun.
SetRerunofAlways ==
    /\ kind = "launch" /\ Editable
    /\ \E id \in Reruns \cup {NilUuid} :
          /\ Edit({"is_rerun", "rerunof"},
                  [meta EXCEPT !.is_rerun = TRUE, !.rerunof = id])
          /\ UNCHANGED <<alive, tagHistory>>

SetRerunof ==
    /\ kind = "launch" /\ Editable
    /\ \E id \in Reruns \cup {NilUuid} :
          /\ Edit({"is_rerun", "rerunof"},
                  [meta EXCEPT !.is_rerun = (id # NilUuid), !.rerunof = id])
          /\ UNCHANGED <<alive, tagHistory>>

SetCoderef ==
    kind = "item" /\ \E c \in Texts : Set("coderef", [meta EXCEPT !.coderef = c])

\* Mutation: parameters as a multimap, like attributes.
AddParameterMulti ==
    /\ kind = "item"
    /\ \E key \in Keys, v \in Values : Set("parameters",
          [meta EXCEPT !.parameters[key] = IF @ = None THEN v ELSE <<@, v>>])

\* map::insert keeps the value a key has.
AddParameter ==
    /\ kind = "item"
    /\ \E key \in Keys, v \in Values : Set("parameters",
          [meta EXCEPT !.parameters[key] = IF @ = None THEN v ELSE @])

SetParameters ==
    kind = "item" /\ \E p \in [Keys -> Values \cup {None}] :
        Set("parameters", [meta EXCEPT !.parameters = p])

RemoveParameter ==
    kind = "item" /\ \E key \in Keys :
        Set("parameters", [meta EXCEPT !.parameters[key] = None])

SetFlag ==
    /\ kind = "item"
    /\ \E b \in BOOLEAN : \/ Set("retry", [meta EXCEPT !.retry = b])
                          \/ Set("has_stats", [meta EXCEPT !.has_stats = b])

-----------------------------------------------------------------------------
\* The arguments start() gives begin_launch and begin_test_item.
Body ==
    IF kind = "launch"
    THEN BeginLaunchBody([name |-> "name", time |-> 1,
            description |-> meta.description, uuid |-> ownId,
            rerunof |-> meta.rerunof, is_rerun |-> meta.is_rerun])
    ELSE BeginItemBody([name |-> "name", time |-> 1, type |-> 1,
            launch |-> LaunchId, description |-> meta.description,
            uuid |-> ownId, coderef |-> meta.coderef, retry |-> meta.retry,
            has_stats |-> meta.has_stats])

\* The server knows a record under an id once, and generates a new one for nil.
Acceptable == ownId = NilUuid \/ records = {}

CanStart == alive /\ ~ ended /\ ~ started

\* A call that is turned down changes nothing and is left out.
Start ==
    /\ CanStart
    /\ starts < MaxStarts
    /\ starts' = starts + 1
    /\ LET begin == [n |-> starts + 1, body |-> Body] IN
         \/ /\ Acceptable
            /\ records' = records \cup {begin}
            /\ started' = TRUE
            /\ mine' = starts + 1
            /\ UNCHANGED <<wire, alive>>
         \/ /\ wire' = wire \cup {begin}
            /\ alive' \in BOOLEAN
            /\ UNCHANGED <<records, started, mine>>
    /\ UNCHANGED <<objectVars, meta, ended, historyVars>>

\* end(), once the server has answered; an item does not note it.
End ==
    /\ kind = "launch" /\ alive /\ started /\ ~ ended
    /\ ended' = TRUE
    /\ UNCHANGED <<objectVars, meta, started, alive, serverVars, historyVars>>

LateBegin ==
    /\ \E begin \in wire :
          /\ wire' = wire \ {begin}
          /\ \/ Acceptable /\ records' = records \cup {begin}
             \/ UNCHANGED records
    /\ UNCHANGED <<objectVars, meta, started, ended, alive, starts, mine,
                   historyVars>>

Next ==
    \/ SetDescription \/ SetAttributes \/ SetAttribute
    \/ \E t \in Tags : AddsTag(t) \/ RemovesTag(t)
    \/ SetRerunof
    \/ SetCoderef \/ AddParameter \/ SetParameters \/ RemoveParameter \/ SetFlag
    \/ Start \/ End \/ LateBegin

Spec == Init /\ [][Next]_vars

-----------------------------------------------------------------------------
TypeOK ==
    /\ kind \in {"launch", "item"}
    /\ ownId \in {NilUuid, OwnId}
    /\ meta.description \in Texts /\ meta.coderef \in Texts
    /\ meta.rerunof \in Reruns \cup {NilUuid}
    /\ meta.is_rerun \in BOOLEAN /\ meta.retry \in BOOLEAN
    /\ meta.has_stats \in BOOLEAN
    /\ meta.parameters \in [Keys -> Values \cup {None}]
    /\ Range(meta.attributes.tags) \subseteq Tags \cup {MovedFrom}
    /\ started \in BOOLEAN /\ ended \in BOOLEAN /\ alive \in BOOLEAN
    /\ starts \in 0 .. MaxStarts /\ mine \in 0 .. MaxStarts

\* What the server reads of a field, where a member says it.
Tells(body, field) ==
    CASE field = "description" ->
            ReadMember(body, "description", None) = meta.description
      [] field = "coderef" -> ReadMember(body, "coderef", None) = meta.coderef
      [] field = "rerunof" -> ReadMember(body, "rerunOf", NilUuid) = meta.rerunof
      [] field = "is_rerun" ->
            (ReadMember(body, "rerun", "false") = "true") = meta.is_rerun
      [] field = "retry" ->
            (ReadMember(body, "retry", "false") = "true") = meta.retry
      [] field = "has_stats" ->
            (ReadMember(body, "hasStats", "true") = "true") = meta.has_stats

ToldFields ==
    IF kind = "launch" THEN {"description", "rerunof", "is_rerun"}
                       ELSE {"description", "coderef", "retry", "has_stats"}

\* However often start() was tried, with whatever setters between, the record
\* the object answers for says of every field what the object says, until a
\* setter is called after start() has returned: that never reaches it.
RecordTells ==
    started => \E r \in records :
        /\ r.n = mine
        /\ \A field \in ToldFields \ changed : Tells(r.body, field)

\* The two fields about a rerun agree, in the object and wherever a begin of
\* it is: a launch is sent as a rerun just when it says of which launch.
RerunAgrees ==
    /\ meta.is_rerun = (meta.rerunof # NilUuid)
    /\ \A begin \in wire \cup records :
          (ReadMember(begin.body, "rerun", "false") = "true")
              = (ReadMember(begin.body, "rerunOf", NilUuid) # NilUuid)

\* A user who adds no tag twice and removes only tags that are there has the
\* tags added and not removed, each once, although remove_tag erases only one
\* element of what std::remove left.
TagsExact ==
    careful /\ once => LET tags == meta.attributes.tags IN
        /\ Range(tags) = wanted
        /\ Len(tags) = Cardinality(wanted)

\* A tag that is there more than once is removed like any other: no tag is
\* lost that was added and not removed, so long as only such tags are removed.
TagsKept == careful => wanted \subseteq Range(meta.attributes.tags)
=============================================================================
