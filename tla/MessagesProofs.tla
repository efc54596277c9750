--------------------------- MODULE MessagesProofs ---------------------------
(***************************************************************************)
(* What a reader finds in the bodies of Messages: lemmas for the proofs    *)
(* about the modules that send them.                                       *)
(***************************************************************************)
EXTENDS Messages, SequenceTheorems, TLAPS

Bodies(M, V) == Seq([member : M, value : V])

\* One optional member: the reader finds X under its name and nothing else.
Writes(b, M, V, member, X) ==
    /\ b \in Bodies(M, V)
    /\ \A n : ReadValues(b, n) = IF n = member THEN X ELSE {}

LEMMA RequiredWrites ==
    ASSUME NEW M, NEW V, NEW v \in V, NEW m \in M
    PROVE  Writes(Required(m, v), M, V, m, {v})
  <1>1. Required(m, v) \in Bodies(M, V) /\ DOMAIN Required(m, v) = {1}
    BY DEF Required, Bodies
  <1>2. Required(m, v)[1] = [member |-> m, value |-> v]
    BY DEF Required
  <1> QED
    BY <1>1, <1>2 DEF Writes, ReadValues

LEMMA NothingWritten ==
    ASSUME NEW M, NEW V, NEW m \in M
    PROVE  Writes(<< >>, M, V, m, {})
  BY DEF Writes, ReadValues, Bodies

LEMMA ConcatReads ==
    ASSUME NEW M, NEW V, NEW b \in Bodies(M, V), NEW c \in Bodies(M, V)
    PROVE  /\ b \o c \in Bodies(M, V)
           /\ \A n : ReadValues(b \o c, n) = ReadValues(b, n) \cup ReadValues(c, n)
  <1> DEFINE d == b \o c
  <1>1. /\ d \in Bodies(M, V) /\ Len(d) = Len(b) + Len(c)
        /\ Len(b) \in Nat /\ Len(c) \in Nat
        /\ DOMAIN b = 1 .. Len(b) /\ DOMAIN c = 1 .. Len(c)
        /\ DOMAIN d = 1 .. Len(b) + Len(c)
    BY ConcatProperties, LenProperties DEF Bodies
  <1>2. \A i \in 1 .. Len(b) + Len(c) :
            d[i] = IF i <= Len(b) THEN b[i] ELSE c[i - Len(b)]
    BY ConcatProperties DEF Bodies
  <1> HIDE DEF d
  <1>3. ASSUME NEW n, NEW x
        PROVE  x \in ReadValues(d, n)
                  <=> x \in ReadValues(b, n) \cup ReadValues(c, n)
    <2>1. ASSUME NEW i \in DOMAIN d, d[i].member = n, x = d[i].value
          PROVE  x \in ReadValues(b, n) \cup ReadValues(c, n)
      <3>1. CASE i <= Len(b)
        BY <1>1, <1>2, <2>1, <3>1 DEF ReadValues
      <3>2. CASE i > Len(b)
        <4>1. i - Len(b) \in DOMAIN c /\ d[i] = c[i - Len(b)]
          BY <1>1, <1>2, <2>1, <3>2
        <4> QED
          BY <2>1, <4>1 DEF ReadValues
      <3> QED
        BY <1>1, <3>1, <3>2
    <2>2. ASSUME NEW i \in DOMAIN b, b[i].member = n, x = b[i].value
          PROVE  x \in ReadValues(d, n)
      <3>1. i \in DOMAIN d /\ d[i] = b[i]
        BY <1>1, <1>2
      <3> QED
        BY <2>2, <3>1 DEF ReadValues
    <2>3. ASSUME NEW i \in DOMAIN c, c[i].member = n, x = c[i].value
          PROVE  x \in ReadValues(d, n)
      <3>1. Len(b) + i \in DOMAIN d /\ d[Len(b) + i] = c[i]
        BY <1>1, <1>2
      <3> QED
        BY <2>3, <3>1 DEF ReadValues
    <2> QED
      BY <2>1, <2>2, <2>3 DEF ReadValues
  <1> QED
    BY <1>1, <1>3 DEF d

-----------------------------------------------------------------------------
\* What the optional members leave to read.
TextRead(value) == IF value = None THEN {} ELSE {value}

UuidRead(value) == IF value \in {None, NilUuid} THEN {} ELSE {value}

BoolRead(value, default) ==
    IF value \in {None, default} THEN {}
    ELSE {IF value THEN "true" ELSE "false"}

StatusRead(status) ==
    IF status \in {None, Inherit} THEN {} ELSE {StatusText(status)}

IssueObject(issue) ==
    Required("issueType", <<DefectText(issue.type), issue.locator>>)
    \o Required("comment", issue.comment)
    \o Required("autoAnalyzed", issue.auto)
    \o Required("ignoreAnalyzer", issue.ignore)

IssueRead(issue) == IF issue = None THEN {} ELSE {IssueObject(issue)}

FileObject(file) ==
    Required("name", file.name) \o Required("data", file.data)
    \o Required("type", file.type)

FileRead(file) == IF file = None THEN {} ELSE {FileObject(file)}

LEMMA OptionalsWrite ==
    ASSUME NEW M, NEW V, NEW v \in V, NEW m \in M, NEW default,
           {"true", "false"} \subseteq V
    PROVE  /\ Writes(Optional(m, v), M, V, m, TextRead(v))
           /\ Writes(OptionalUuid(m, v), M, V, m, UuidRead(v))
           /\ Writes(OptionalBool(m, v, default), M, V, m, BoolRead(v, default))
  BY RequiredWrites, NothingWritten
     DEF Optional, OptionalUuid, OptionalBool, TextRead, UuidRead, BoolRead

\* The body of a begin_launch.
LEMMA BeginLaunchReads ==
    ASSUME NEW a
    PROVE  /\ \E M, V : BeginLaunchBody(a) \in Bodies(M, V)
           /\ ReadValues(BeginLaunchBody(a), "name") = {a.name}
           /\ ReadValues(BeginLaunchBody(a), "startTime") = {a.time}
           /\ ReadValues(BeginLaunchBody(a), "description")
                  = TextRead(a.description)
           /\ ReadValues(BeginLaunchBody(a), "uuid") = UuidRead(a.uuid)
           /\ ReadValues(BeginLaunchBody(a), "rerunOf") = UuidRead(a.rerunof)
           /\ ReadValues(BeginLaunchBody(a), "rerun")
                  = BoolRead(a.is_rerun, FALSE)
  <1> DEFINE M == {"name", "startTime", "description", "uuid", "mode",
                   "rerunOf", "rerun"}
             V == {a.name, a.time, a.description, a.uuid, a.rerunof, a.is_rerun,
                   "true", "false"}
             b1 == Required("name", a.name)
             b2 == Required("startTime", a.time)
             b3 == Optional("description", a.description)
             b4 == OptionalUuid("uuid", a.uuid)
             b5 == OptionalUuid("mode", a.rerunof)
             b6 == OptionalUuid("rerunOf", a.rerunof)
             b7 == OptionalBool("rerun", a.is_rerun, FALSE)
  <1> HIDE DEF V, M
  <1>0. /\ {"name", "startTime", "description", "uuid", "mode",
                   "rerunOf", "rerun"} \subseteq M
        /\ {"true", "false"} \subseteq V
        /\ a.name \in V
        /\ a.time \in V
        /\ a.description \in V
        /\ a.uuid \in V
        /\ a.rerunof \in V
        /\ a.is_rerun \in V
    BY DEF V, M
  <1>1. /\ Writes(b1, M, V, "name", {a.name})
        /\ Writes(b2, M, V, "startTime", {a.time})
        /\ Writes(b3, M, V, "description", TextRead(a.description))
        /\ Writes(b4, M, V, "uuid", UuidRead(a.uuid))
        /\ Writes(b5, M, V, "mode", UuidRead(a.rerunof))
        /\ Writes(b6, M, V, "rerunOf", UuidRead(a.rerunof))
        /\ Writes(b7, M, V, "rerun", BoolRead(a.is_rerun, FALSE))
    <2>1. Writes(b1, M, V, "name", {a.name})
      BY <1>0, RequiredWrites
    <2>2. Writes(b2, M, V, "startTime", {a.time})
      BY <1>0, RequiredWrites
    <2>3. Writes(b3, M, V, "description", TextRead(a.description))
      BY <1>0, OptionalsWrite
    <2>4. Writes(b4, M, V, "uuid", UuidRead(a.uuid))
      BY <1>0, OptionalsWrite
    <2>5. Writes(b5, M, V, "mode", UuidRead(a.rerunof))
      BY <1>0, OptionalsWrite
    <2>6. Writes(b6, M, V, "rerunOf", UuidRead(a.rerunof))
      BY <1>0, OptionalsWrite
    <2>7. Writes(b7, M, V, "rerun", BoolRead(a.is_rerun, FALSE))
      BY <1>0, OptionalsWrite
    <2> QED
      BY <2>1, <2>2, <2>3, <2>4, <2>5, <2>6, <2>7
  <1> HIDE DEF b1, b2, b3, b4, b5, b6, b7
  <1>2. BeginLaunchBody(a) = b1 \o b2 \o b3 \o b4 \o b5 \o b6 \o b7 \o b6
    BY DEF BeginLaunchBody, b1, b2, b3, b4, b5, b6, b7
  <1>3. /\ BeginLaunchBody(a) \in Bodies(M, V)
        /\ \A n : ReadValues(BeginLaunchBody(a), n) =
              ReadValues(b1, n) \cup ReadValues(b2, n) \cup ReadValues(b3, n)
              \cup ReadValues(b4, n) \cup ReadValues(b5, n) \cup ReadValues(b6, n)
              \cup ReadValues(b7, n) \cup ReadValues(b6, n)
    <2>1. /\ b1 \o b2 \in Bodies(M, V)
          /\ \A n : ReadValues(b1 \o b2, n) =
                ReadValues(b1, n) \cup ReadValues(b2, n)
      BY <1>1, ConcatReads DEF Writes
    <2>2. /\ b1 \o b2 \o b3 \in Bodies(M, V)
          /\ \A n : ReadValues(b1 \o b2 \o b3, n) =
                ReadValues(b1 \o b2, n) \cup ReadValues(b3, n)
      BY <1>1, <2>1, ConcatReads DEF Writes
    <2>3. /\ b1 \o b2 \o b3 \o b4 \in Bodies(M, V)
          /\ \A n : ReadValues(b1 \o b2 \o b3 \o b4, n) =
                ReadValues(b1 \o b2 \o b3, n) \cup ReadValues(b4, n)
      BY <1>1, <2>2, ConcatReads DEF Writes
    <2>4. /\ b1 \o b2 \o b3 \o b4 \o b5 \in Bodies(M, V)
          /\ \A n : ReadValues(b1 \o b2 \o b3 \o b4 \o b5, n) =
                ReadValues(b1 \o b2 \o b3 \o b4, n) \cup ReadValues(b5, n)
      BY <1>1, <2>3, ConcatReads DEF Writes
    <2>5. /\ b1 \o b2 \o b3 \o b4 \o b5 \o b6 \in Bodies(M, V)
          /\ \A n : ReadValues(b1 \o b2 \o b3 \o b4 \o b5 \o b6, n) =
                ReadValues(b1 \o b2 \o b3 \o b4 \o b5, n) \cup ReadValues(b6, n)
      BY <1>1, <2>4, ConcatReads DEF Writes
    <2>6. /\ b1 \o b2 \o b3 \o b4 \o b5 \o b6 \o b7 \in Bodies(M, V)
          /\ \A n : ReadValues(b1 \o b2 \o b3 \o b4 \o b5 \o b6 \o b7, n) =
                ReadValues(b1 \o b2 \o b3 \o b4 \o b5 \o b6, n) \cup ReadValues(b7, n)
      BY <1>1, <2>5, ConcatReads DEF Writes
    <2>7. /\ b1 \o b2 \o b3 \o b4 \o b5 \o b6 \o b7 \o b6 \in Bodies(M, V)
          /\ \A n : ReadValues(b1 \o b2 \o b3 \o b4 \o b5 \o b6 \o b7 \o b6, n) =
                ReadValues(b1 \o b2 \o b3 \o b4 \o b5 \o b6 \o b7, n) \cup ReadValues(b6, n)
      BY <1>1, <2>6, ConcatReads DEF Writes
    <2> QED
      BY <1>2, <2>1, <2>2, <2>3, <2>4, <2>5, <2>6, <2>7
  <1>4. \A n :
        /\ ReadValues(b1, n) = IF n = "name" THEN {a.name} ELSE {}
        /\ ReadValues(b2, n) = IF n = "startTime" THEN {a.time} ELSE {}
        /\ ReadValues(b3, n) = IF n = "description" THEN TextRead(a.description) ELSE {}
        /\ ReadValues(b4, n) = IF n = "uuid" THEN UuidRead(a.uuid) ELSE {}
        /\ ReadValues(b5, n) = IF n = "mode" THEN UuidRead(a.rerunof) ELSE {}
        /\ ReadValues(b6, n) = IF n = "rerunOf" THEN UuidRead(a.rerunof) ELSE {}
        /\ ReadValues(b7, n) = IF n = "rerun" THEN BoolRead(a.is_rerun, FALSE) ELSE {}
    BY <1>1, Zenon DEF Writes
  <1>5. ReadValues(BeginLaunchBody(a), "description") = TextRead(a.description)
    <2>1. /\ ReadValues(b1, "description") = {}
          /\ ReadValues(b2, "description") = {}
          /\ ReadValues(b3, "description") = TextRead(a.description)
          /\ ReadValues(b4, "description") = {}
          /\ ReadValues(b5, "description") = {}
          /\ ReadValues(b6, "description") = {}
          /\ ReadValues(b7, "description") = {}
      BY <1>4, Zenon
    <2> QED
      BY <1>3, <2>1, Zenon
  <1>6. ReadValues(BeginLaunchBody(a), "uuid") = UuidRead(a.uuid)
    <2>1. /\ ReadValues(b1, "uuid") = {}
          /\ ReadValues(b2, "uuid") = {}
          /\ ReadValues(b3, "uuid") = {}
          /\ ReadValues(b4, "uuid") = UuidRead(a.uuid)
          /\ ReadValues(b5, "uuid") = {}
          /\ ReadValues(b6, "uuid") = {}
          /\ ReadValues(b7, "uuid") = {}
      BY <1>4, Zenon
    <2> QED
      BY <1>3, <2>1, Zenon
  <1>7. ReadValues(BeginLaunchBody(a), "rerunOf") = UuidRead(a.rerunof)
    <2>1. /\ ReadValues(b1, "rerunOf") = {}
          /\ ReadValues(b2, "rerunOf") = {}
          /\ ReadValues(b3, "rerunOf") = {}
          /\ ReadValues(b4, "rerunOf") = {}
          /\ ReadValues(b5, "rerunOf") = {}
          /\ ReadValues(b6, "rerunOf") = UuidRead(a.rerunof)
          /\ ReadValues(b7, "rerunOf") = {}
      BY <1>4, Zenon
    <2> QED
      BY <1>3, <2>1, Zenon
  <1>8. ReadValues(BeginLaunchBody(a), "rerun") = BoolRead(a.is_rerun, FALSE)
    <2>1. /\ ReadValues(b1, "rerun") = {}
          /\ ReadValues(b2, "rerun") = {}
          /\ ReadValues(b3, "rerun") = {}
          /\ ReadValues(b4, "rerun") = {}
          /\ ReadValues(b5, "rerun") = {}
          /\ ReadValues(b6, "rerun") = {}
          /\ ReadValues(b7, "rerun") = BoolRead(a.is_rerun, FALSE)
      BY <1>4, Zenon
    <2> QED
      BY <1>3, <2>1, Zenon
  <1>9. ReadValues(BeginLaunchBody(a), "name") = {a.name}
    <2>1. /\ ReadValues(b1, "name") = {a.name}
          /\ ReadValues(b2, "name") = {}
          /\ ReadValues(b3, "name") = {}
          /\ ReadValues(b4, "name") = {}
          /\ ReadValues(b5, "name") = {}
          /\ ReadValues(b6, "name") = {}
          /\ ReadValues(b7, "name") = {}
      BY <1>4, Zenon
    <2> QED
      BY <1>3, <2>1, Zenon
  <1>10. ReadValues(BeginLaunchBody(a), "startTime") = {a.time}
    <2>1. /\ ReadValues(b1, "startTime") = {}
          /\ ReadValues(b2, "startTime") = {a.time}
          /\ ReadValues(b3, "startTime") = {}
          /\ ReadValues(b4, "startTime") = {}
          /\ ReadValues(b5, "startTime") = {}
          /\ ReadValues(b6, "startTime") = {}
          /\ ReadValues(b7, "startTime") = {}
      BY <1>4, Zenon
    <2> QED
      BY <1>3, <2>1, Zenon
  <1> QED
    BY <1>3, <1>5, <1>6, <1>7, <1>8, <1>9, <1>10

\* The body of a begin_test_item.
LEMMA BeginItemReads ==
    ASSUME NEW a
    PROVE  /\ \E M, V : BeginItemBody(a) \in Bodies(M, V)
           /\ ReadValues(BeginItemBody(a), "name") = {a.name}
           /\ ReadValues(BeginItemBody(a), "startTime") = {a.time}
           /\ ReadValues(BeginItemBody(a), "type") = {TypeText[a.type]}
           /\ ReadValues(BeginItemBody(a), "launchUuid") = {a.launch}
           /\ ReadValues(BeginItemBody(a), "description")
                  = TextRead(a.description)
           /\ ReadValues(BeginItemBody(a), "coderef") = TextRead(a.coderef)
           /\ ReadValues(BeginItemBody(a), "uuid") = UuidRead(a.uuid)
           /\ ReadValues(BeginItemBody(a), "retry") = BoolRead(a.retry, FALSE)
           /\ ReadValues(BeginItemBody(a), "hasStats")
                  = BoolRead(a.has_stats, TRUE)
           /\ ReadValues(BeginItemBody(a), "rerun") = {}
           /\ ReadValues(BeginItemBody(a), "rerunOf") = {}
  <1> DEFINE M == {"name", "startTime", "type", "launchUuid", "description", "uuid",
                   "coderef", "retry", "hasStats"}
             V == {a.name, a.time, TypeText[a.type], a.launch, a.description,
                   a.uuid, a.coderef, a.retry, a.has_stats, "true", "false"}
             b1 == Required("name", a.name)
             b2 == Required("startTime", a.time)
             b3 == Required("type", TypeText[a.type])
             b4 == Required("launchUuid", a.launch)
             b5 == Optional("description", a.description)
             b6 == OptionalUuid("uuid", a.uuid)
             b7 == Optional("coderef", a.coderef)
             b8 == OptionalBool("retry", a.retry, FALSE)
             b9 == OptionalBool("hasStats", a.has_stats, TRUE)
  <1> HIDE DEF V, M
  <1>0. /\ {"name", "startTime", "type", "launchUuid", "description", "uuid",
                   "coderef", "retry", "hasStats"} \subseteq M
        /\ {"true", "false"} \subseteq V
        /\ a.name \in V
        /\ a.time \in V
        /\ TypeText[a.type] \in V
        /\ a.launch \in V
        /\ a.description \in V
        /\ a.uuid \in V
        /\ a.coderef \in V
        /\ a.retry \in V
        /\ a.has_stats \in V
    BY DEF V, M
  <1>1. /\ Writes(b1, M, V, "name", {a.name})
        /\ Writes(b2, M, V, "startTime", {a.time})
        /\ Writes(b3, M, V, "type", {TypeText[a.type]})
        /\ Writes(b4, M, V, "launchUuid", {a.launch})
        /\ Writes(b5, M, V, "description", TextRead(a.description))
        /\ Writes(b6, M, V, "uuid", UuidRead(a.uuid))
        /\ Writes(b7, M, V, "coderef", TextRead(a.coderef))
        /\ Writes(b8, M, V, "retry", BoolRead(a.retry, FALSE))
        /\ Writes(b9, M, V, "hasStats", BoolRead(a.has_stats, TRUE))
    <2>1. Writes(b1, M, V, "name", {a.name})
      BY <1>0, RequiredWrites
    <2>2. Writes(b2, M, V, "startTime", {a.time})
      BY <1>0, RequiredWrites
    <2>3. Writes(b3, M, V, "type", {TypeText[a.type]})
      BY <1>0, RequiredWrites
    <2>4. Writes(b4, M, V, "launchUuid", {a.launch})
      BY <1>0, RequiredWrites
    <2>5. Writes(b5, M, V, "description", TextRead(a.description))
      BY <1>0, OptionalsWrite
    <2>6. Writes(b6, M, V, "uuid", UuidRead(a.uuid))
      BY <1>0, OptionalsWrite
    <2>7. Writes(b7, M, V, "coderef", TextRead(a.coderef))
      BY <1>0, OptionalsWrite
    <2>8. Writes(b8, M, V, "retry", BoolRead(a.retry, FALSE))
      BY <1>0, OptionalsWrite
    <2>9. Writes(b9, M, V, "hasStats", BoolRead(a.has_stats, TRUE))
      BY <1>0, OptionalsWrite
    <2> QED
      BY <2>1, <2>2, <2>3, <2>4, <2>5, <2>6, <2>7, <2>8, <2>9
  <1> HIDE DEF b1, b2, b3, b4, b5, b6, b7, b8, b9
  <1>2. BeginItemBody(a) = b1 \o b2 \o b3 \o b4 \o b5 \o b6 \o b7 \o b8 \o b9
    BY DEF BeginItemBody, b1, b2, b3, b4, b5, b6, b7, b8, b9
  <1>3. /\ BeginItemBody(a) \in Bodies(M, V)
        /\ \A n : ReadValues(BeginItemBody(a), n) =
              ReadValues(b1, n) \cup ReadValues(b2, n) \cup ReadValues(b3, n)
              \cup ReadValues(b4, n) \cup ReadValues(b5, n) \cup ReadValues(b6, n)
              \cup ReadValues(b7, n) \cup ReadValues(b8, n) \cup ReadValues(b9, n)
    <2>1. /\ b1 \o b2 \in Bodies(M, V)
          /\ \A n : ReadValues(b1 \o b2, n) =
                ReadValues(b1, n) \cup ReadValues(b2, n)
      BY <1>1, ConcatReads DEF Writes
    <2>2. /\ b1 \o b2 \o b3 \in Bodies(M, V)
          /\ \A n : ReadValues(b1 \o b2 \o b3, n) =
                ReadValues(b1 \o b2, n) \cup ReadValues(b3, n)
      BY <1>1, <2>1, ConcatReads DEF Writes
    <2>3. /\ b1 \o b2 \o b3 \o b4 \in Bodies(M, V)
          /\ \A n : ReadValues(b1 \o b2 \o b3 \o b4, n) =
                ReadValues(b1 \o b2 \o b3, n) \cup ReadValues(b4, n)
      BY <1>1, <2>2, ConcatReads DEF Writes
    <2>4. /\ b1 \o b2 \o b3 \o b4 \o b5 \in Bodies(M, V)
          /\ \A n : ReadValues(b1 \o b2 \o b3 \o b4 \o b5, n) =
                ReadValues(b1 \o b2 \o b3 \o b4, n) \cup ReadValues(b5, n)
      BY <1>1, <2>3, ConcatReads DEF Writes
    <2>5. /\ b1 \o b2 \o b3 \o b4 \o b5 \o b6 \in Bodies(M, V)
          /\ \A n : ReadValues(b1 \o b2 \o b3 \o b4 \o b5 \o b6, n) =
                ReadValues(b1 \o b2 \o b3 \o b4 \o b5, n) \cup ReadValues(b6, n)
      BY <1>1, <2>4, ConcatReads DEF Writes
    <2>6. /\ b1 \o b2 \o b3 \o b4 \o b5 \o b6 \o b7 \in Bodies(M, V)
          /\ \A n : ReadValues(b1 \o b2 \o b3 \o b4 \o b5 \o b6 \o b7, n) =
                ReadValues(b1 \o b2 \o b3 \o b4 \o b5 \o b6, n) \cup ReadValues(b7, n)
      BY <1>1, <2>5, ConcatReads DEF Writes
    <2>7. /\ b1 \o b2 \o b3 \o b4 \o b5 \o b6 \o b7 \o b8 \in Bodies(M, V)
          /\ \A n : ReadValues(b1 \o b2 \o b3 \o b4 \o b5 \o b6 \o b7 \o b8, n) =
                ReadValues(b1 \o b2 \o b3 \o b4 \o b5 \o b6 \o b7, n) \cup ReadValues(b8, n)
      BY <1>1, <2>6, ConcatReads DEF Writes
    <2>8. /\ b1 \o b2 \o b3 \o b4 \o b5 \o b6 \o b7 \o b8 \o b9 \in Bodies(M, V)
          /\ \A n : ReadValues(b1 \o b2 \o b3 \o b4 \o b5 \o b6 \o b7 \o b8 \o b9, n) =
                ReadValues(b1 \o b2 \o b3 \o b4 \o b5 \o b6 \o b7 \o b8, n) \cup ReadValues(b9, n)
      BY <1>1, <2>7, ConcatReads DEF Writes
    <2> QED
      BY <1>2, <2>1, <2>2, <2>3, <2>4, <2>5, <2>6, <2>7, <2>8
  <1>4. \A n :
        /\ ReadValues(b1, n) = IF n = "name" THEN {a.name} ELSE {}
        /\ ReadValues(b2, n) = IF n = "startTime" THEN {a.time} ELSE {}
        /\ ReadValues(b3, n) = IF n = "type" THEN {TypeText[a.type]} ELSE {}
        /\ ReadValues(b4, n) = IF n = "launchUuid" THEN {a.launch} ELSE {}
        /\ ReadValues(b5, n) = IF n = "description" THEN TextRead(a.description) ELSE {}
        /\ ReadValues(b6, n) = IF n = "uuid" THEN UuidRead(a.uuid) ELSE {}
        /\ ReadValues(b7, n) = IF n = "coderef" THEN TextRead(a.coderef) ELSE {}
        /\ ReadValues(b8, n) = IF n = "retry" THEN BoolRead(a.retry, FALSE) ELSE {}
        /\ ReadValues(b9, n) = IF n = "hasStats" THEN BoolRead(a.has_stats, TRUE) ELSE {}
    BY <1>1, Zenon DEF Writes
  <1>5. ReadValues(BeginItemBody(a), "description") = TextRead(a.description)
    <2>1. /\ ReadValues(b1, "description") = {}
          /\ ReadValues(b2, "description") = {}
          /\ ReadValues(b3, "description") = {}
          /\ ReadValues(b4, "description") = {}
          /\ ReadValues(b5, "description") = TextRead(a.description)
          /\ ReadValues(b6, "description") = {}
          /\ ReadValues(b7, "description") = {}
          /\ ReadValues(b8, "description") = {}
          /\ ReadValues(b9, "description") = {}
      BY <1>4, Zenon
    <2> QED
      BY <1>3, <2>1, Zenon
  <1>6. ReadValues(BeginItemBody(a), "coderef") = TextRead(a.coderef)
    <2>1. /\ ReadValues(b1, "coderef") = {}
          /\ ReadValues(b2, "coderef") = {}
          /\ ReadValues(b3, "coderef") = {}
          /\ ReadValues(b4, "coderef") = {}
          /\ ReadValues(b5, "coderef") = {}
          /\ ReadValues(b6, "coderef") = {}
          /\ ReadValues(b7, "coderef") = TextRead(a.coderef)
          /\ ReadValues(b8, "coderef") = {}
          /\ ReadValues(b9, "coderef") = {}
      BY <1>4, Zenon
    <2> QED
      BY <1>3, <2>1, Zenon
  <1>7. ReadValues(BeginItemBody(a), "uuid") = UuidRead(a.uuid)
    <2>1. /\ ReadValues(b1, "uuid") = {}
          /\ ReadValues(b2, "uuid") = {}
          /\ ReadValues(b3, "uuid") = {}
          /\ ReadValues(b4, "uuid") = {}
          /\ ReadValues(b5, "uuid") = {}
          /\ ReadValues(b6, "uuid") = UuidRead(a.uuid)
          /\ ReadValues(b7, "uuid") = {}
          /\ ReadValues(b8, "uuid") = {}
          /\ ReadValues(b9, "uuid") = {}
      BY <1>4, Zenon
    <2> QED
      BY <1>3, <2>1, Zenon
  <1>8. ReadValues(BeginItemBody(a), "retry") = BoolRead(a.retry, FALSE)
    <2>1. /\ ReadValues(b1, "retry") = {}
          /\ ReadValues(b2, "retry") = {}
          /\ ReadValues(b3, "retry") = {}
          /\ ReadValues(b4, "retry") = {}
          /\ ReadValues(b5, "retry") = {}
          /\ ReadValues(b6, "retry") = {}
          /\ ReadValues(b7, "retry") = {}
          /\ ReadValues(b8, "retry") = BoolRead(a.retry, FALSE)
          /\ ReadValues(b9, "retry") = {}
      BY <1>4, Zenon
    <2> QED
      BY <1>3, <2>1, Zenon
  <1>9. ReadValues(BeginItemBody(a), "hasStats") = BoolRead(a.has_stats, TRUE)
    <2>1. /\ ReadValues(b1, "hasStats") = {}
          /\ ReadValues(b2, "hasStats") = {}
          /\ ReadValues(b3, "hasStats") = {}
          /\ ReadValues(b4, "hasStats") = {}
          /\ ReadValues(b5, "hasStats") = {}
          /\ ReadValues(b6, "hasStats") = {}
          /\ ReadValues(b7, "hasStats") = {}
          /\ ReadValues(b8, "hasStats") = {}
          /\ ReadValues(b9, "hasStats") = BoolRead(a.has_stats, TRUE)
      BY <1>4, Zenon
    <2> QED
      BY <1>3, <2>1, Zenon
  <1>10. ReadValues(BeginItemBody(a), "rerun") = {}
    <2>1. /\ ReadValues(b1, "rerun") = {}
          /\ ReadValues(b2, "rerun") = {}
          /\ ReadValues(b3, "rerun") = {}
          /\ ReadValues(b4, "rerun") = {}
          /\ ReadValues(b5, "rerun") = {}
          /\ ReadValues(b6, "rerun") = {}
          /\ ReadValues(b7, "rerun") = {}
          /\ ReadValues(b8, "rerun") = {}
          /\ ReadValues(b9, "rerun") = {}
      BY <1>4, Zenon
    <2> QED
      BY <1>3, <2>1, Zenon
  <1>11. ReadValues(BeginItemBody(a), "rerunOf") = {}
    <2>1. /\ ReadValues(b1, "rerunOf") = {}
          /\ ReadValues(b2, "rerunOf") = {}
          /\ ReadValues(b3, "rerunOf") = {}
          /\ ReadValues(b4, "rerunOf") = {}
          /\ ReadValues(b5, "rerunOf") = {}
          /\ ReadValues(b6, "rerunOf") = {}
          /\ ReadValues(b7, "rerunOf") = {}
          /\ ReadValues(b8, "rerunOf") = {}
          /\ ReadValues(b9, "rerunOf") = {}
      BY <1>4, Zenon
    <2> QED
      BY <1>3, <2>1, Zenon
  <1>12. ReadValues(BeginItemBody(a), "name") = {a.name}
    <2>1. /\ ReadValues(b1, "name") = {a.name}
          /\ ReadValues(b2, "name") = {}
          /\ ReadValues(b3, "name") = {}
          /\ ReadValues(b4, "name") = {}
          /\ ReadValues(b5, "name") = {}
          /\ ReadValues(b6, "name") = {}
          /\ ReadValues(b7, "name") = {}
          /\ ReadValues(b8, "name") = {}
          /\ ReadValues(b9, "name") = {}
      BY <1>4, Zenon
    <2> QED
      BY <1>3, <2>1, Zenon
  <1>13. ReadValues(BeginItemBody(a), "startTime") = {a.time}
    <2>1. /\ ReadValues(b1, "startTime") = {}
          /\ ReadValues(b2, "startTime") = {a.time}
          /\ ReadValues(b3, "startTime") = {}
          /\ ReadValues(b4, "startTime") = {}
          /\ ReadValues(b5, "startTime") = {}
          /\ ReadValues(b6, "startTime") = {}
          /\ ReadValues(b7, "startTime") = {}
          /\ ReadValues(b8, "startTime") = {}
          /\ ReadValues(b9, "startTime") = {}
      BY <1>4, Zenon
    <2> QED
      BY <1>3, <2>1, Zenon
  <1>14. ReadValues(BeginItemBody(a), "type") = {TypeText[a.type]}
    <2>1. /\ ReadValues(b1, "type") = {}
          /\ ReadValues(b2, "type") = {}
          /\ ReadValues(b3, "type") = {TypeText[a.type]}
          /\ ReadValues(b4, "type") = {}
          /\ ReadValues(b5, "type") = {}
          /\ ReadValues(b6, "type") = {}
          /\ ReadValues(b7, "type") = {}
          /\ ReadValues(b8, "type") = {}
          /\ ReadValues(b9, "type") = {}
      BY <1>4, Zenon
    <2> QED
      BY <1>3, <2>1, Zenon
  <1>15. ReadValues(BeginItemBody(a), "launchUuid") = {a.launch}
    <2>1. /\ ReadValues(b1, "launchUuid") = {}
          /\ ReadValues(b2, "launchUuid") = {}
          /\ ReadValues(b3, "launchUuid") = {}
          /\ ReadValues(b4, "launchUuid") = {a.launch}
          /\ ReadValues(b5, "launchUuid") = {}
          /\ ReadValues(b6, "launchUuid") = {}
          /\ ReadValues(b7, "launchUuid") = {}
          /\ ReadValues(b8, "launchUuid") = {}
          /\ ReadValues(b9, "launchUuid") = {}
      BY <1>4, Zenon
    <2> QED
      BY <1>3, <2>1, Zenon
  <1> QED
    BY <1>3, <1>5, <1>6, <1>7, <1>8, <1>9, <1>10, <1>11, <1>12, <1>13, <1>14, <1>15

\* The body of an end_test_item.
LEMMA EndItemReads ==
    ASSUME NEW a
    PROVE  /\ \E M, V : EndItemBody(a) \in Bodies(M, V)
           /\ ReadValues(EndItemBody(a), "endTime") = {a.time}
           /\ ReadValues(EndItemBody(a), "launchUuid") = {a.launch}
           /\ ReadValues(EndItemBody(a), "status") = StatusRead(a.status)
           /\ ReadValues(EndItemBody(a), "issue") = IssueRead(a.issue)
  <1> DEFINE M == {"endTime", "launchUuid", "status", "issue"}
             V == {a.time, a.launch, StatusText(a.status), IssueObject(a.issue)}
             b1 == Required("endTime", a.time)
             b2 == Required("launchUuid", a.launch)
             b3 == OptionalStatus("status", a.status)
             b4 == OptionalIssue("issue", a.issue)
  <1> HIDE DEF V, M
  <1>0. /\ {"endTime", "launchUuid", "status", "issue"} \subseteq M
        /\ {a.time, a.launch, StatusText(a.status), IssueObject(a.issue)} \subseteq V
    BY DEF V, M
  <1>1. /\ Writes(b1, M, V, "endTime", {a.time})
        /\ Writes(b2, M, V, "launchUuid", {a.launch})
        /\ Writes(b3, M, V, "status", StatusRead(a.status))
        /\ Writes(b4, M, V, "issue", IssueRead(a.issue))
    <2>1. Writes(b1, M, V, "endTime", {a.time})
      BY <1>0, RequiredWrites
    <2>2. Writes(b2, M, V, "launchUuid", {a.launch})
      BY <1>0, RequiredWrites
    <2>3. Writes(b3, M, V, "status", StatusRead(a.status))
      BY <1>0, RequiredWrites, NothingWritten DEF OptionalStatus, StatusRead
    <2>4. Writes(b4, M, V, "issue", IssueRead(a.issue))
      BY <1>0, RequiredWrites, NothingWritten DEF OptionalIssue, IssueRead, IssueObject
    <2> QED
      BY <2>1, <2>2, <2>3, <2>4
  <1> HIDE DEF b1, b2, b3, b4
  <1>2. EndItemBody(a) = b1 \o b2 \o b3 \o b4
    BY DEF EndItemBody, b1, b2, b3, b4
  <1>3. /\ EndItemBody(a) \in Bodies(M, V)
        /\ \A n : ReadValues(EndItemBody(a), n) =
              ReadValues(b1, n) \cup ReadValues(b2, n) \cup ReadValues(b3, n)
              \cup ReadValues(b4, n)
    <2>1. /\ b1 \o b2 \in Bodies(M, V)
          /\ \A n : ReadValues(b1 \o b2, n) =
                ReadValues(b1, n) \cup ReadValues(b2, n)
      BY <1>1, ConcatReads DEF Writes
    <2>2. /\ b1 \o b2 \o b3 \in Bodies(M, V)
          /\ \A n : ReadValues(b1 \o b2 \o b3, n) =
                ReadValues(b1 \o b2, n) \cup ReadValues(b3, n)
      BY <1>1, <2>1, ConcatReads DEF Writes
    <2>3. /\ b1 \o b2 \o b3 \o b4 \in Bodies(M, V)
          /\ \A n : ReadValues(b1 \o b2 \o b3 \o b4, n) =
                ReadValues(b1 \o b2 \o b3, n) \cup ReadValues(b4, n)
      BY <1>1, <2>2, ConcatReads DEF Writes
    <2> QED
      BY <1>2, <2>1, <2>2, <2>3
  <1>4. \A n :
        /\ ReadValues(b1, n) = IF n = "endTime" THEN {a.time} ELSE {}
        /\ ReadValues(b2, n) = IF n = "launchUuid" THEN {a.launch} ELSE {}
        /\ ReadValues(b3, n) = IF n = "status" THEN StatusRead(a.status) ELSE {}
        /\ ReadValues(b4, n) = IF n = "issue" THEN IssueRead(a.issue) ELSE {}
    BY <1>1, Zenon DEF Writes
  <1>5. ReadValues(EndItemBody(a), "endTime") = {a.time}
    BY <1>3, <1>4
  <1>6. ReadValues(EndItemBody(a), "launchUuid") = {a.launch}
    BY <1>3, <1>4
  <1>7. ReadValues(EndItemBody(a), "status") = StatusRead(a.status)
    BY <1>3, <1>4
  <1>8. ReadValues(EndItemBody(a), "issue") = IssueRead(a.issue)
    BY <1>3, <1>4
  <1> QED
    BY <1>3, <1>5, <1>6, <1>7, <1>8

\* The object of one entry of the log.
LEMMA LogReads ==
    ASSUME NEW log
    PROVE  /\ \E M, V : LogBody(log) \in Bodies(M, V)
           /\ ReadValues(LogBody(log), "launchUuid") = {log.launch}
           /\ ReadValues(LogBody(log), "time") = {log.time}
           /\ ReadValues(LogBody(log), "itemUuid") = UuidRead(log.item)
           /\ ReadValues(LogBody(log), "message") = {log.message}
           /\ ReadValues(LogBody(log), "level") = {LevelText(log.level)}
           /\ ReadValues(LogBody(log), "file") = FileRead(log.attachment)
  <1> DEFINE M == {"launchUuid", "time", "itemUuid", "message", "level", "file"}
             V == {log.launch, log.time, log.item, log.message,
                   LevelText(log.level), FileObject(log.attachment)}
             b1 == Required("launchUuid", log.launch)
             b2 == Required("time", log.time)
             b3 == OptionalUuid("itemUuid", log.item)
             b4 == Required("message", log.message)
             b5 == Required("level", LevelText(log.level))
             b6 == IF log.attachment = None THEN << >>
                   ELSE Required("file", FileObject(log.attachment))
  <1> HIDE DEF V, M
  <1>0. /\ {"launchUuid", "time", "itemUuid", "message", "level", "file"} \subseteq M
        /\ {log.launch, log.time, log.item, log.message,
            LevelText(log.level), FileObject(log.attachment)} \subseteq V
    BY DEF V, M
  <1>1. /\ Writes(b1, M, V, "launchUuid", {log.launch})
        /\ Writes(b2, M, V, "time", {log.time})
        /\ Writes(b3, M, V, "itemUuid", UuidRead(log.item))
        /\ Writes(b4, M, V, "message", {log.message})
        /\ Writes(b5, M, V, "level", {LevelText(log.level)})
        /\ Writes(b6, M, V, "file", FileRead(log.attachment))
    <2>1. Writes(b1, M, V, "launchUuid", {log.launch})
      BY <1>0, RequiredWrites
    <2>2. Writes(b2, M, V, "time", {log.time})
      BY <1>0, RequiredWrites
    <2>3. Writes(b3, M, V, "itemUuid", UuidRead(log.item))
      BY <1>0, RequiredWrites, NothingWritten DEF OptionalUuid, UuidRead
    <2>4. Writes(b4, M, V, "message", {log.message})
      BY <1>0, RequiredWrites
    <2>5. Writes(b5, M, V, "level", {LevelText(log.level)})
      BY <1>0, RequiredWrites
    <2>6. Writes(b6, M, V, "file", FileRead(log.attachment))
      BY <1>0, RequiredWrites, NothingWritten DEF FileRead
    <2> QED
      BY <2>1, <2>2, <2>3, <2>4, <2>5, <2>6
  <1> HIDE DEF b1, b2, b3, b4, b5, b6
  <1>2. LogBody(log) = b1 \o b2 \o b3 \o b4 \o b5 \o b6
    BY DEF LogBody, b1, b2, b3, b4, b5, b6, FileObject
  <1>3. /\ LogBody(log) \in Bodies(M, V)
        /\ \A n : ReadValues(LogBody(log), n) =
              ReadValues(b1, n) \cup ReadValues(b2, n) \cup ReadValues(b3, n)
              \cup ReadValues(b4, n) \cup ReadValues(b5, n) \cup ReadValues(b6, n)
    <2>1. /\ b1 \o b2 \in Bodies(M, V)
          /\ \A n : ReadValues(b1 \o b2, n) =
                ReadValues(b1, n) \cup ReadValues(b2, n)
      BY <1>1, ConcatReads DEF Writes
    <2>2. /\ b1 \o b2 \o b3 \in Bodies(M, V)
          /\ \A n : ReadValues(b1 \o b2 \o b3, n) =
                ReadValues(b1 \o b2, n) \cup ReadValues(b3, n)
      BY <1>1, <2>1, ConcatReads DEF Writes
    <2>3. /\ b1 \o b2 \o b3 \o b4 \in Bodies(M, V)
          /\ \A n : ReadValues(b1 \o b2 \o b3 \o b4, n) =
                ReadValues(b1 \o b2 \o b3, n) \cup ReadValues(b4, n)
      BY <1>1, <2>2, ConcatReads DEF Writes
    <2>4. /\ b1 \o b2 \o b3 \o b4 \o b5 \in Bodies(M, V)
          /\ \A n : ReadValues(b1 \o b2 \o b3 \o b4 \o b5, n) =
                ReadValues(b1 \o b2 \o b3 \o b4, n) \cup ReadValues(b5, n)
      BY <1>1, <2>3, ConcatReads DEF Writes
    <2>5. /\ b1 \o b2 \o b3 \o b4 \o b5 \o b6 \in Bodies(M, V)
          /\ \A n : ReadValues(b1 \o b2 \o b3 \o b4 \o b5 \o b6, n) =
                ReadValues(b1 \o b2 \o b3 \o b4 \o b5, n) \cup ReadValues(b6, n)
      BY <1>1, <2>4, ConcatReads DEF Writes
    <2> QED
      BY <1>2, <2>1, <2>2, <2>3, <2>4, <2>5
  <1>4. \A n :
        /\ ReadValues(b1, n) = IF n = "launchUuid" THEN {log.launch} ELSE {}
        /\ ReadValues(b2, n) = IF n = "time" THEN {log.time} ELSE {}
        /\ ReadValues(b3, n) = IF n = "itemUuid" THEN UuidRead(log.item) ELSE {}
        /\ ReadValues(b4, n) = IF n = "message" THEN {log.message} ELSE {}
        /\ ReadValues(b5, n) = IF n = "level" THEN {LevelText(log.level)} ELSE {}
        /\ ReadValues(b6, n) = IF n = "file" THEN FileRead(log.attachment) ELSE {}
    BY <1>1, Zenon DEF Writes
  <1>5. ReadValues(LogBody(log), "launchUuid") = {log.launch}
    BY <1>3, <1>4
  <1>6. ReadValues(LogBody(log), "time") = {log.time}
    BY <1>3, <1>4
  <1>7. ReadValues(LogBody(log), "itemUuid") = UuidRead(log.item)
    BY <1>3, <1>4
  <1>8. ReadValues(LogBody(log), "message") = {log.message}
    BY <1>3, <1>4
  <1>9. ReadValues(LogBody(log), "level") = {LevelText(log.level)}
    BY <1>3, <1>4
  <1>10. ReadValues(LogBody(log), "file") = FileRead(log.attachment)
    BY <1>3, <1>4
  <1> QED
    BY <1>3, <1>5, <1>6, <1>7, <1>8, <1>9, <1>10

-----------------------------------------------------------------------------
\* Reading one value, or none.
LEMMA ReadOne ==
    ASSUME NEW body, NEW member, NEW absent
    PROVE  /\ ReadValues(body, member) = {} => ReadMember(body, member, absent) = absent
           /\ \A v : ReadValues(body, member) = {v}
                        => ReadMember(body, member, absent) = v
  BY DEF ReadMember

LEMMA TextReadsBack ==
    ASSUME NEW body, NEW member, NEW v, ReadValues(body, member) = TextRead(v)
    PROVE  ReadMember(body, member, None) = v
  BY ReadOne DEF TextRead

LEMMA UuidReadsBack ==
    ASSUME NEW body, NEW member, NEW v, ReadValues(body, member) = UuidRead(v)
    PROVE  ReadMember(body, member, NilUuid) = IF v = None THEN NilUuid ELSE v
  BY ReadOne DEF UuidRead

LEMMA FalseReadsBack ==
    ASSUME NEW body, NEW member, NEW v \in BOOLEAN \cup {None},
           ReadValues(body, member) = BoolRead(v, FALSE)
    PROVE  (ReadMember(body, member, "false") = "true")
              <=> (IF v = None THEN FALSE ELSE v)
  BY ReadOne DEF BoolRead

LEMMA TrueReadsBack ==
    ASSUME NEW body, NEW member, NEW v \in BOOLEAN \cup {None},
           ReadValues(body, member) = BoolRead(v, TRUE)
    PROVE  (ReadMember(body, member, "true") = "true")
              <=> (IF v = None THEN TRUE ELSE v)
  BY ReadOne DEF BoolRead
=============================================================================
