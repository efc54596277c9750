--------------------------- MODULE MetadataProofs ---------------------------
(***************************************************************************)
(* Theorems about Metadata, for all texts, ids, tags and bounds.  The      *)
(* invariant says what a reader finds in every begin there is; it is       *)
(* inductive because a setter called after start() puts the field it sets  *)
(* into changed.                                                           *)
(***************************************************************************)
EXTENDS Metadata, MessagesProofs, FiniteSetTheorems

MetaInv ==
    /\ meta \in [description : Texts, attributes : {meta.attributes},
                 is_rerun : BOOLEAN,
                 rerunof : Reruns \cup {NilUuid}, coderef : Texts,
                 parameters : {meta.parameters},
                 retry : BOOLEAN, has_stats : BOOLEAN]
    /\ meta.is_rerun <=> meta.rerunof # NilUuid

\* A body says of a launch, or of an item, what the object says of it.
SaysLaunch(body) ==
    /\ "description" \in changed
          \/ ReadValues(body, "description") = TextRead(meta.description)
    /\ "rerunof" \in changed
          \/ ReadValues(body, "rerunOf") = UuidRead(meta.rerunof)
    /\ "is_rerun" \in changed
          \/ ReadValues(body, "rerun") = BoolRead(meta.is_rerun, FALSE)

SaysItem(body) ==
    /\ "description" \in changed
          \/ ReadValues(body, "description") = TextRead(meta.description)
    /\ "coderef" \in changed
          \/ ReadValues(body, "coderef") = TextRead(meta.coderef)
    /\ "retry" \in changed
          \/ ReadValues(body, "retry") = BoolRead(meta.retry, FALSE)
    /\ "has_stats" \in changed
          \/ ReadValues(body, "hasStats") = BoolRead(meta.has_stats, TRUE)

Says(body) == IF kind = "launch" THEN SaysLaunch(body) ELSE SaysItem(body)

\* Every body of a launch carries the two fields about a rerun, or neither.
AgreesIn(body) ==
    \E b \in BOOLEAN, id \in Reruns \cup {NilUuid} :
        /\ b <=> id # NilUuid
        /\ ReadValues(body, "rerun") = BoolRead(b, FALSE)
        /\ ReadValues(body, "rerunOf") = UuidRead(id)

MInv ==
    /\ kind \in {"launch", "item"}
    /\ MetaInv
    /\ \A begin \in wire \cup records : AgreesIn(begin.body)
    /\ started => \E r \in records : r.n = mine /\ Says(r.body)

-----------------------------------------------------------------------------
\* What start() sends says everything, and agrees about the rerun.
LEMMA BodySays ==
    ASSUME MInv
    PROVE  Says(Body) /\ AgreesIn(Body)
  <1>1. CASE kind = "launch"
    <2> DEFINE a == [name |-> "name", time |-> 1,
            description |-> meta.description, uuid |-> ownId,
            rerunof |-> meta.rerunof, is_rerun |-> meta.is_rerun]
    <2>1. Body = BeginLaunchBody(a)
      BY <1>1 DEF Body
    <2>2. /\ a.description = meta.description /\ a.rerunof = meta.rerunof
          /\ a.is_rerun = meta.is_rerun
      OBVIOUS
    <2> HIDE DEF a
    <2>3. /\ ReadValues(Body, "description") = TextRead(meta.description)
          /\ ReadValues(Body, "rerunOf") = UuidRead(meta.rerunof)
          /\ ReadValues(Body, "rerun") = BoolRead(meta.is_rerun, FALSE)
      BY <2>1, <2>2, BeginLaunchReads, Zenon
    <2>4. /\ meta.is_rerun \in BOOLEAN /\ meta.rerunof \in Reruns \cup {NilUuid}
          /\ meta.is_rerun <=> meta.rerunof # NilUuid
      BY DEF MInv, MetaInv
    <2>5. AgreesIn(Body)
      BY <2>3, <2>4, Zenon DEF AgreesIn
    <2> QED
      BY <1>1, <2>3, <2>5, Zenon DEF Says, SaysLaunch
  <1>2. CASE kind = "item"
    <2> DEFINE a == [name |-> "name", time |-> 1, type |-> 1,
            launch |-> LaunchId, description |-> meta.description,
            uuid |-> ownId, coderef |-> meta.coderef, retry |-> meta.retry,
            has_stats |-> meta.has_stats]
    <2>1. Body = BeginItemBody(a)
      BY <1>2 DEF Body
    <2>2. /\ a.description = meta.description /\ a.coderef = meta.coderef
          /\ a.retry = meta.retry /\ a.has_stats = meta.has_stats
      OBVIOUS
    <2> HIDE DEF a
    <2>3. /\ ReadValues(Body, "description") = TextRead(meta.description)
          /\ ReadValues(Body, "coderef") = TextRead(meta.coderef)
          /\ ReadValues(Body, "retry") = BoolRead(meta.retry, FALSE)
          /\ ReadValues(Body, "hasStats") = BoolRead(meta.has_stats, TRUE)
          /\ ReadValues(Body, "rerun") = {} /\ ReadValues(Body, "rerunOf") = {}
      BY <2>1, <2>2, BeginItemReads, Zenon
    <2>4. BoolRead(FALSE, FALSE) = {} /\ UuidRead(NilUuid) = {}
      BY DEF BoolRead, UuidRead
    <2>5. AgreesIn(Body)
      BY <2>3, <2>4, Zenon DEF AgreesIn
    <2>6. kind # "launch"
      BY <1>2
    <2> QED
      BY <2>3, <2>5, <2>6, Zenon DEF Says, SaysItem
  <1> QED
    BY <1>1, <1>2 DEF MInv

\* A setter keeps the invariant if it keeps the fields well-formed and leaves
\* those alone that it does not name.
LEMMA EditKeeps ==
    ASSUME MInv, NEW fields, NEW new, Edit(fields, new), MetaInv',
           "description" \in fields \/ new.description = meta.description,
           "rerunof" \in fields \/ new.rerunof = meta.rerunof,
           "is_rerun" \in fields \/ new.is_rerun = meta.is_rerun,
           "coderef" \in fields \/ new.coderef = meta.coderef,
           "retry" \in fields \/ new.retry = meta.retry,
           "has_stats" \in fields \/ new.has_stats = meta.has_stats
    PROVE  MInv'
  <1>1. /\ kind' = kind /\ wire' = wire /\ records' = records /\ mine' = mine
        /\ started' = started /\ meta' = new
        /\ started => changed' = changed \cup fields
    BY Zenon DEF Edit, objectVars, serverVars
  <1>2. ASSUME started, NEW body, Says(body)
        PROVE  Says(body)'
    <2>1. changed' = changed \cup fields
      BY <1>1, <1>2
    <2>2. CASE kind = "launch"
      <3>1. SaysLaunch(body)
        BY <1>2, <2>2, Zenon DEF Says
      <3>2. SaysLaunch(body)'
        BY <1>1, <2>1, <3>1, Zenon DEF SaysLaunch
      <3> QED
        BY <1>1, <2>2, <3>2, Zenon DEF Says
    <2>3. CASE kind # "launch"
      <3>1. SaysItem(body)
        BY <1>2, <2>3, Zenon DEF Says
      <3>2. SaysItem(body)'
        BY <1>1, <2>1, <3>1, Zenon DEF SaysItem
      <3> QED
        BY <1>1, <2>3, <3>2, Zenon DEF Says
    <2> QED
      BY <2>2, <2>3
  <1> QED
    BY <1>1, <1>2 DEF MInv, AgreesIn

\* The setters keep the fields well-formed.
LEMMA SettersKeep ==
    ASSUME MInv,
           \/ SetDescription \/ SetAttributes \/ SetAttribute
           \/ \E t \in Tags : AddsTag(t) \/ RemovesTag(t)
           \/ SetRerunof
           \/ SetCoderef \/ AddParameter \/ SetParameters \/ RemoveParameter
           \/ SetFlag
    PROVE  MInv'
  <1>0. MetaInv
    BY DEF MInv
  <1>1. ASSUME NEW map, NEW fields, fields \in {{"attributes"}, {}},
               Edit(fields, [meta EXCEPT !.attributes = map])
        PROVE  MInv'
    <2>1. MetaInv'
      BY <1>0, <1>1 DEF MetaInv, Edit
    <2> QED
      BY <1>0, <1>1, <2>1, EditKeeps DEF MetaInv
  <1>2. ASSUME NEW p, Edit({"parameters"}, [meta EXCEPT !.parameters = p])
        PROVE  MInv'
    <2>1. MetaInv'
      BY <1>0, <1>2 DEF MetaInv, Edit
    <2> QED
      BY <1>0, <1>2, <2>1, EditKeeps DEF MetaInv
  <1>3. CASE SetDescription
    <2>1. PICK d \in Texts :
             Edit({"description"}, [meta EXCEPT !.description = d])
      BY <1>3 DEF SetDescription, Set
    <2>2. MetaInv'
      BY <1>0, <2>1 DEF MetaInv, Edit
    <2> QED
      BY <1>0, <2>1, <2>2, EditKeeps DEF MetaInv
  <1>4. CASE SetAttributes
    BY <1>1, <1>4 DEF SetAttributes
  <1>5. CASE SetAttribute
    BY <1>1, <1>5 DEF SetAttribute, Set
  <1>6. ASSUME NEW t \in Tags, AddsTag(t)
        PROVE  MInv'
    <2>1. Edit({"attributes"}, [meta EXCEPT !.attributes = AddTag(meta.attributes, t)])
      BY <1>0, <1>6 DEF AddsTag, MetaInv
    <2> QED
      BY <1>1, <2>1
  <1>7. ASSUME NEW t \in Tags, RemovesTag(t)
        PROVE  MInv'
    <2>1. CASE \E map \in RemoveTag(meta.attributes, t) :
                  Edit({"attributes"}, [meta EXCEPT !.attributes = map])
      BY <1>1, <2>1
    <2>2. CASE Edit({}, meta)
      <3>1. MetaInv'
        BY <1>0, <2>2 DEF MetaInv, Edit
      <3> QED
        BY <2>2, <3>1, EditKeeps
    <2> QED
      BY <1>7, <2>1, <2>2 DEF RemovesTag
  <1>8. CASE SetRerunof
    <2>1. PICK id \in Reruns \cup {NilUuid} : Edit({"is_rerun", "rerunof"},
             [meta EXCEPT !.is_rerun = (id # NilUuid), !.rerunof = id])
      BY <1>8 DEF SetRerunof
    <2>2. MetaInv'
      BY <1>0, <2>1 DEF MetaInv, Edit
    <2> QED
      BY <1>0, <2>1, <2>2, EditKeeps DEF MetaInv
  <1>9. CASE SetCoderef
    <2>1. PICK c \in Texts : Edit({"coderef"}, [meta EXCEPT !.coderef = c])
      BY <1>9 DEF SetCoderef, Set
    <2>2. MetaInv'
      BY <1>0, <2>1 DEF MetaInv, Edit
    <2> QED
      BY <1>0, <2>1, <2>2, EditKeeps DEF MetaInv
  <1>10. CASE AddParameter \/ SetParameters \/ RemoveParameter
    <2>1. \E p : Edit({"parameters"}, [meta EXCEPT !.parameters = p])
      BY <1>0, <1>10
         DEF AddParameter, SetParameters, RemoveParameter, Set, MetaInv
    <2> QED
      BY <1>2, <2>1
  <1>11. CASE SetFlag
    <2>1. PICK b \in BOOLEAN : \/ Edit({"retry"}, [meta EXCEPT !.retry = b])
                               \/ Edit({"has_stats"}, [meta EXCEPT !.has_stats = b])
      BY <1>11 DEF SetFlag, Set
    <2>2. MetaInv'
      BY <1>0, <2>1 DEF MetaInv, Edit
    <2>3. CASE Edit({"retry"}, [meta EXCEPT !.retry = b])
      BY <1>0, <2>3, <2>2, EditKeeps DEF MetaInv
    <2>4. CASE Edit({"has_stats"}, [meta EXCEPT !.has_stats = b])
      BY <1>0, <2>4, <2>2, EditKeeps DEF MetaInv
    <2> QED
      BY <2>1, <2>3, <2>4
  <1> QED
    BY <1>3, <1>4, <1>5, <1>6, <1>7, <1>8, <1>9, <1>10, <1>11

-----------------------------------------------------------------------------
LEMMA MetadataInductive == Spec => []MInv
  <1>1. Init => MInv
    <2> SUFFICES ASSUME Init PROVE MInv
      OBVIOUS
    <2>1. MetaInv
      BY MetadataAssumption DEF Init, MetaInv
    <2> QED
      BY <2>1 DEF Init, MInv
  <1>2. MInv /\ [Next]_vars => MInv'
    <2> SUFFICES ASSUME MInv, [Next]_vars PROVE MInv'
      OBVIOUS
    <2> DEFINE Same == /\ kind' = kind /\ meta' = meta /\ changed' = changed
    <2>1. ASSUME Same
          PROVE  /\ MetaInv'
                 /\ \A body : Says(body) => Says(body)'
      BY <2>1 DEF MInv, MetaInv, Says, SaysLaunch, SaysItem
    <2>2. CASE UNCHANGED vars
      <3>1. Same /\ UNCHANGED <<wire, records, started, mine>>
        BY <2>2 DEF vars, objectVars, serverVars, historyVars
      <3> QED
        BY <2>1, <3>1 DEF MInv, AgreesIn
    <2>3. CASE Start
      <3>1. Same
        BY <2>3 DEF Start, objectVars, historyVars
      <3>2. PICK begin :
               /\ begin.n = starts + 1 /\ begin.body = Body
               /\ \/ /\ records' = records \cup {begin} /\ started' = TRUE
                     /\ mine' = starts + 1 /\ wire' = wire
                  \/ /\ wire' = wire \cup {begin}
                     /\ records' = records /\ started' = started /\ mine' = mine
        BY <2>3 DEF Start
      <3>3. Says(Body) /\ AgreesIn(Body) /\ Says(Body)'
        <4>1. Says(Body) /\ AgreesIn(Body)
          BY BodySays
        <4>2. Body' = Body
          BY <3>1, <2>3 DEF Body, Start, objectVars
        <4> QED
          BY <2>1, <3>1, <4>1, <4>2 DEF Says, SaysLaunch, SaysItem
      <3>5. \A b \in wire' \cup records' : AgreesIn(b.body)
        BY <3>2, <3>3 DEF MInv
      <3>6. started' => \E r \in records' : r.n = mine' /\ Says(r.body)'
        <4>1. CASE records' = records \cup {begin} /\ mine' = starts + 1
          <5>1. begin \in records' /\ begin.n = mine'
            BY <3>2, <4>1, Zenon
          <5>2. Says(begin.body)'
            BY <2>1, <3>1, <3>2, <3>3
          <5> QED
            BY <5>1, <5>2
        <4>2. CASE /\ records' = records /\ started' = started /\ mine' = mine
          BY <2>1, <3>1, <4>2 DEF MInv
        <4> QED
          BY <3>2, <4>1, <4>2
      <3>7. kind' \in {"launch", "item"} /\ MetaInv'
        BY <2>1, <3>1 DEF MInv
      <3> QED
        BY <3>5, <3>6, <3>7 DEF MInv, AgreesIn
    <2>4. CASE End
      <3>1. Same /\ UNCHANGED <<wire, records, started, mine>>
        BY <2>4 DEF End, objectVars, serverVars, historyVars
      <3> QED
        BY <2>1, <3>1 DEF MInv, AgreesIn
    <2>5. CASE LateBegin
      <3>1. Same /\ UNCHANGED <<started, mine>>
        BY <2>5 DEF LateBegin, objectVars, historyVars
      <3>2. wire' \subseteq wire /\ records \subseteq records'
            /\ records' \subseteq records \cup wire
        BY <2>5 DEF LateBegin
      <3> QED
        BY <2>1, <3>1, <3>2 DEF MInv, AgreesIn
    <2> QED
      BY <2>2, <2>3, <2>4, <2>5, SettersKeep DEF Next
  <1> QED
    BY <1>1, <1>2, PTL DEF Spec

\* The record an object answers for says what the object says, but for the
\* fields set since start() returned.
THEOREM RecordsTell == Spec => []RecordTells
  <1>1. ASSUME MInv, started
        PROVE  \E r \in records : /\ r.n = mine
                  /\ \A field \in ToldFields \ changed : Tells(r.body, field)
    <2>1. PICK r \in records : r.n = mine /\ Says(r.body)
      BY <1>1 DEF MInv
    <2>2. /\ meta.rerunof # None /\ meta.is_rerun \in BOOLEAN
          /\ meta.retry \in BOOLEAN /\ meta.has_stats \in BOOLEAN
          /\ None \notin BOOLEAN
      BY <1>1, MetadataAssumption, NoneAssumption DEF MInv, MetaInv
    <2>3. CASE kind = "launch"
      <3>1. SaysLaunch(r.body)
        BY <2>1, <2>3, Zenon DEF Says
      <3>2. "description" \notin changed => Tells(r.body, "description")
        BY <3>1, TextReadsBack, Zenon DEF SaysLaunch, Tells
      <3>3. "rerunof" \notin changed => Tells(r.body, "rerunof")
        BY <2>2, <3>1, UuidReadsBack, Zenon DEF SaysLaunch, Tells
      <3>4. "is_rerun" \notin changed => Tells(r.body, "is_rerun")
        <4>1. ASSUME "is_rerun" \notin changed
              PROVE  (ReadMember(r.body, "rerun", "false") = "true") <=> meta.is_rerun
          <5>1. ReadValues(r.body, "rerun") = BoolRead(meta.is_rerun, FALSE)
            BY <3>1, <4>1, Zenon DEF SaysLaunch
          <5>2. /\ (ReadMember(r.body, "rerun", "false") = "true")
                      <=> (IF meta.is_rerun = None THEN FALSE ELSE meta.is_rerun)
                /\ meta.is_rerun # None
            BY <2>2, <5>1, FalseReadsBack, Zenon
          <5> QED
            BY <5>2, Zenon
        <4> QED
          BY <2>2, <4>1, Zenon DEF Tells
      <3> QED
        BY <2>1, <2>3, <3>2, <3>3, <3>4, Zenon DEF ToldFields
    <2>4. CASE kind # "launch"
      <3>1. SaysItem(r.body)
        BY <2>1, <2>4, Zenon DEF Says
      <3>2. "description" \notin changed => Tells(r.body, "description")
        BY <3>1, TextReadsBack, Zenon DEF SaysItem, Tells
      <3>3. "coderef" \notin changed => Tells(r.body, "coderef")
        BY <3>1, TextReadsBack, Zenon DEF SaysItem, Tells
      <3>4. "retry" \notin changed => Tells(r.body, "retry")
        <4>1. ASSUME "retry" \notin changed
              PROVE  (ReadMember(r.body, "retry", "false") = "true") <=> meta.retry
          <5>1. ReadValues(r.body, "retry") = BoolRead(meta.retry, FALSE)
            BY <3>1, <4>1, Zenon DEF SaysItem
          <5>2. /\ (ReadMember(r.body, "retry", "false") = "true")
                      <=> (IF meta.retry = None THEN FALSE ELSE meta.retry)
                /\ meta.retry # None
            BY <2>2, <5>1, FalseReadsBack, Zenon
          <5> QED
            BY <5>2, Zenon
        <4> QED
          BY <2>2, <4>1, Zenon DEF Tells
      <3>5. "has_stats" \notin changed => Tells(r.body, "has_stats")
        <4>1. ASSUME "has_stats" \notin changed
              PROVE  (ReadMember(r.body, "hasStats", "true") = "true") <=> meta.has_stats
          <5>1. ReadValues(r.body, "hasStats") = BoolRead(meta.has_stats, TRUE)
            BY <3>1, <4>1, Zenon DEF SaysItem
          <5>2. /\ (ReadMember(r.body, "hasStats", "true") = "true")
                      <=> (IF meta.has_stats = None THEN TRUE ELSE meta.has_stats)
                /\ meta.has_stats # None
            BY <2>2, <5>1, TrueReadsBack, Zenon
          <5> QED
            BY <5>2, Zenon
        <4> QED
          BY <2>2, <4>1, Zenon DEF Tells
      <3> QED
        BY <2>1, <2>4, <3>2, <3>3, <3>4, <3>5, Zenon DEF ToldFields
    <2> QED
      BY <2>3, <2>4
  <1>2. MInv => RecordTells
    BY <1>1 DEF RecordTells
  <1> QED
    BY <1>2, MetadataInductive, PTL

\* A launch is a rerun, in the object and in every begin of it, just when it
\* says of which launch.
THEOREM RerunsAgree == Spec => []RerunAgrees
  <1>1. ASSUME NEW body, AgreesIn(body)
        PROVE  (ReadMember(body, "rerun", "false") = "true")
                  = (ReadMember(body, "rerunOf", NilUuid) # NilUuid)
    <2>1. PICK b \in BOOLEAN, id \in Reruns \cup {NilUuid} :
             /\ b <=> id # NilUuid
             /\ ReadValues(body, "rerun") = BoolRead(b, FALSE)
             /\ ReadValues(body, "rerunOf") = UuidRead(id)
      BY <1>1, Zenon DEF AgreesIn
    <2>2. id # None /\ b # None
      BY MetadataAssumption, NoneAssumption
    <2>3. (ReadMember(body, "rerun", "false") = "true") <=> b
      <3>1. (ReadMember(body, "rerun", "false") = "true")
               <=> (IF b = None THEN FALSE ELSE b)
        <4>1. \A m, v : v \in BOOLEAN \cup {None} /\ ReadValues(body, m) = BoolRead(v, FALSE)
                   => ((ReadMember(body, m, "false") = "true")
                          <=> (IF v = None THEN FALSE ELSE v))
          BY FalseReadsBack
        <4> QED
          BY <2>1, <4>1
      <3> QED
        BY <2>2, <3>1, Zenon
    <2>4. ReadMember(body, "rerunOf", NilUuid) = id
      <3>1. ReadMember(body, "rerunOf", NilUuid) = IF id = None THEN NilUuid ELSE id
        BY <2>1, UuidReadsBack, Zenon
      <3> QED
        BY <2>2, <3>1, Zenon
    <2> QED
      BY <2>1, <2>3, <2>4, Zenon
  <1>2. MInv => RerunAgrees
    BY <1>1 DEF MInv, MetaInv, RerunAgrees
  <1> QED
    BY <1>2, MetadataInductive, PTL

-----------------------------------------------------------------------------
(* std::remove.  The tags it keeps are counted from the front: Rank is a   *)
(* bijection from their positions to 1 .. how many they are, and Kth is    *)
(* its inverse.                                                            *)

LEMMA KeptFinite ==
    ASSUME NEW n \in Nat, NEW S \in SUBSET (1 .. n)
    PROVE  /\ IsFiniteSet(S)
           /\ Cardinality(S) \in 0 .. n
           /\ \A p \in S : Rank(S, p) \in 1 .. Cardinality(S)
<1>1. IsFiniteSet(1 .. n) /\ Cardinality(1 .. n) = n
  BY FS_Interval
<1>2. IsFiniteSet(S) /\ Cardinality(S) <= n
  BY <1>1, FS_Subset
<1>3. Cardinality(S) \in Nat
  BY <1>2, FS_CardinalityType
<1>4. ASSUME NEW p \in S
      PROVE  Rank(S, p) \in 1 .. Cardinality(S)
  <2> DEFINE T == {q \in S : q <= p}
  <2>1. T \in SUBSET S /\ p \in T
    OBVIOUS
  <2> HIDE DEF T
  <2>2. IsFiniteSet(T) /\ Cardinality(T) <= Cardinality(S)
    BY <1>2, <2>1, FS_Subset
  <2>3. Cardinality(T) \in Nat /\ Cardinality(T) # 0
    BY <2>1, <2>2, FS_CardinalityType, FS_EmptySet
  <2> QED BY <1>3, <2>2, <2>3 DEF Rank, T
<1> QED BY <1>2, <1>3, <1>4

LEMMA RankInjective ==
    ASSUME NEW n \in Nat, NEW S \in SUBSET (1 .. n), NEW p \in S, NEW q \in S,
           p < q
    PROVE  Rank(S, p) # Rank(S, q)
<1> DEFINE T == {r \in S : r <= p}
           U == {r \in S : r <= q}
<1>1. T \in SUBSET U /\ q \in U /\ q \notin T /\ U \in SUBSET S
  <2>1. \A r \in S : r \in Int
    OBVIOUS
  <2>2. T \in SUBSET U
    <3>1. \A r \in S : r <= p => r <= q
      BY <2>1
    <3> QED BY <3>1
  <2>3. q \in U /\ q \notin T
    BY <2>1
  <2> QED BY <2>2, <2>3
<1> HIDE DEF T, U
<1>2. IsFiniteSet(U)
  BY <1>1, KeptFinite, FS_Subset
<1>3. Cardinality(U) # Cardinality(T)
  BY <1>1, <1>2, FS_Subset
<1> QED BY <1>3 DEF Rank, T, U

\* There is a k-th position to keep for each k, and each has its number.
LEMMA KthIsKept ==
    ASSUME NEW n \in Nat, NEW S \in SUBSET (1 .. n)
    PROVE  /\ \A k \in 1 .. Cardinality(S) : Kth(S, k) \in S /\ Rank(S, Kth(S, k)) = k
           /\ \A p \in S : Kth(S, Rank(S, p)) = p
<1> DEFINE f == [p \in S |-> Rank(S, p)]
           T == 1 .. Cardinality(S)
<1>1. f \in [S -> T]
  BY KeptFinite
<1>2. \A p, q \in S : Rank(S, p) = Rank(S, q) => p = q
  <2>1. \A p \in S : p \in Nat
    OBVIOUS
  <2> QED BY <2>1, RankInjective
<1>3. f \in Injection(S, T)
  BY <1>1, <1>2 DEF Injection, IsInjective
<1>4. IsFiniteSet(T) /\ Cardinality(T) = Cardinality(S)
  <2>1. Cardinality(S) \in Nat
    BY KeptFinite
  <2> QED BY <2>1, FS_Interval
<1> HIDE DEF T
<1>5. f \in Surjection(S, T)
  BY <1>3, <1>4, FS_Injection
<1>6. \A k \in T : \E p \in S : Rank(S, p) = k
  BY <1>5 DEF Surjection
<1>7. \A k \in T : Kth(S, k) \in S /\ Rank(S, Kth(S, k)) = k
  BY <1>6 DEF Kth
<1>8. ASSUME NEW p \in S
      PROVE  Kth(S, Rank(S, p)) = p
  <2>1. Rank(S, p) \in T
    BY KeptFinite DEF T
  <2> QED BY <1>2, <1>7, <2>1
<1> QED BY <1>7, <1>8 DEF T

\* What is left after a tag was removed and the rest was moved to the front.
LEMMA StdRemoveKeeps ==
    ASSUME NEW S, MovedFrom \in S, NEW tags \in Seq(S), NEW tag
    PROVE  /\ Kept(tags, tag) \in SUBSET (1 .. Len(tags))
           /\ Cardinality(Kept(tags, tag)) \in 0 .. Len(tags)
           /\ StdRemove(tags, tag) \in Seq(S)
           /\ Len(StdRemove(tags, tag)) = Len(tags)
           /\ \A k \in 1 .. Cardinality(Kept(tags, tag)) :
                 StdRemove(tags, tag)[k] = tags[Kth(Kept(tags, tag), k)]
<1> DEFINE K == Kept(tags, tag)
           n == Len(tags)
           e(k) == IF k <= Cardinality(K) THEN tags[Kth(K, k)]
                   ELSE IF tags[k] = tag THEN tag ELSE MovedFrom
<1>1. n \in Nat /\ DOMAIN tags = 1 .. n /\ \A k \in 1 .. n : tags[k] \in S
  BY LenProperties, ElementOfSeq
<1>2. K \in SUBSET (1 .. n)
  BY <1>1 DEF Kept
<1>3. StdRemove(tags, tag) = [k \in 1 .. n |-> e(k)]
  BY <1>1 DEF StdRemove
<1> HIDE DEF K, n
<1>4. Cardinality(K) \in 0 .. n
  BY <1>1, <1>2, KeptFinite
<1>5. \A k \in 1 .. n : e(k) \in S
  <2> SUFFICES ASSUME NEW k \in 1 .. n
               PROVE  e(k) \in S
    OBVIOUS
  <2>1. CASE k <= Cardinality(K)
    <3>0. k \in 1 .. Cardinality(K)
      BY <1>1, <1>4, <2>1
    <3>1. Kth(K, k) \in K
      BY <1>1, <1>2, <3>0, KthIsKept
    <3> QED BY <1>1, <1>2, <2>1, <3>1
  <2>2. CASE ~ (k <= Cardinality(K))
    BY <1>1, <2>2
  <2> QED BY <2>1, <2>2
<1> DEFINE r == [k \in 1 .. n |-> e(k)]
<1>6. r \in Seq(S) /\ Len(r) = n /\ \A k \in 1 .. Cardinality(K) : r[k] = tags[Kth(K, k)]
  <2>1. r \in [1 .. n -> S]
    BY <1>5
  <2>2. \A k \in 1 .. Cardinality(K) : k \in 1 .. n /\ r[k] = tags[Kth(K, k)]
    BY <1>1, <1>4
  <2> HIDE DEF r
  <2>3. r \in Seq(S) /\ Len(r) = n
    BY <1>1, <2>1
  <2> QED BY <2>2, <2>3
<1> QED BY <1>2, <1>3, <1>4, <1>6 DEF K, n

LEMMA ErasesOne ==
    ASSUME NEW S, NEW s \in Seq(S), NEW k \in 1 .. Len(s)
    PROVE  /\ RemoveAt(s, k) \in Seq(S)
           /\ Len(RemoveAt(s, k)) = Len(s) - 1
           /\ \A i \in 1 .. k - 1 : RemoveAt(s, k)[i] = s[i]
<1>1. Len(s) \in Nat /\ \A i \in 1 .. Len(s) : s[i] \in S
  BY LenProperties, ElementOfSeq
<1> DEFINE a == SubSeq(s, 1, k - 1)
           b == SubSeq(s, k + 1, Len(s))
<1>2. a \in Seq(S) /\ Len(a) = k - 1 /\ \A i \in 1 .. k - 1 : a[i] = s[i]
  <2>1. 1 \in Int /\ k - 1 \in Int /\ \A i \in 1 .. k - 1 : s[i] \in S
    BY <1>1
  <2>2. /\ a \in Seq(S) /\ Len(a) = IF 1 <= k - 1 THEN k - 1 - 1 + 1 ELSE 0
        /\ \A i \in 1 .. k - 1 - 1 + 1 : a[i] = s[1 + i - 1]
    BY <2>1, SubSeqProperties
  <2> QED BY <1>1, <2>2
<1>3. b \in Seq(S) /\ Len(b) = Len(s) - k
  <2>1. k + 1 \in Int /\ Len(s) \in Int /\ \A i \in k + 1 .. Len(s) : s[i] \in S
    BY <1>1
  <2>2. b \in Seq(S) /\ Len(b) = IF k + 1 <= Len(s) THEN Len(s) - (k + 1) + 1 ELSE 0
    BY <2>1, SubSeqProperties
  <2> QED BY <1>1, <2>2
<1> HIDE DEF a, b
<1>4. /\ a \o b \in Seq(S)
      /\ Len(a \o b) = Len(a) + Len(b)
      /\ \A i \in 1 .. Len(a) + Len(b) :
            (a \o b)[i] = IF i <= Len(a) THEN a[i] ELSE b[i - Len(a)]
  BY <1>2, <1>3, ConcatProperties
<1>5. \A i \in 1 .. k - 1 : (a \o b)[i] = s[i]
  BY <1>1, <1>2, <1>3, <1>4
<1>6. RemoveAt(s, k) = a \o b
  BY DEF RemoveAt, a, b
<1> QED BY <1>1, <1>2, <1>3, <1>4, <1>5, <1>6

LEMMA FrontErases ==
    ASSUME NEW S, NEW s \in Seq(S), s # << >>
    PROVE  Front(s) \in Seq(S)
<1>1. Len(s) \in Nat /\ \A i \in 1 .. Len(s) : s[i] \in S
  BY LenProperties, ElementOfSeq
<1>2. 1 \in Int /\ Len(s) - 1 \in Int /\ \A i \in 1 .. Len(s) - 1 : s[i] \in S
  BY <1>1
<1> QED BY <1>2, SubSeqProperties DEF Front

\* A map as the user of the library can make it.
Maps == [attributes : [Keys -> Seq(Values)], tags : Seq(Tags \cup {MovedFrom})]

LEMMA RemoveTagMaps ==
    ASSUME NEW map \in Maps, NEW t \in Tags, NEW new \in RemoveTag(map, t)
    PROVE  new \in Maps
<1> DEFINE S == Tags \cup {MovedFrom}
           tags == StdRemove(map.tags, t)
           k == NewEnd(map.tags, t)
<1>1. map.tags \in Seq(S) /\ MovedFrom \in S
  BY DEF Maps
<1>2. tags \in Seq(S) /\ Len(tags) = Len(map.tags) /\ Len(tags) \in Nat
  BY <1>1, StdRemoveKeeps, LenProperties
<1>3. /\ k \in DOMAIN tags => RemoveAt(tags, k) \in Seq(S)
      /\ tags # << >> => Front(tags) \in Seq(S)
  <2> HIDE DEF tags, k, S
  <2> QED BY <1>2, ErasesOne, FrontErases, LenProperties
<1>4. \/ k \in DOMAIN tags /\ new = [map EXCEPT !.tags = RemoveAt(tags, k)]
      \/ tags # << >> /\ new = [map EXCEPT !.tags = Front(tags)]
  BY DEF RemoveTag
<1> HIDE DEF tags, k
<1> QED BY <1>3, <1>4 DEF Maps

\* No tag twice.
Distinct(tags) == \A i, j \in 1 .. Len(tags) : tags[i] = tags[j] => i = j

\* Removing a tag that is there once leaves the others, each once: the place
\* std::remove empties is the last, and that is the one erased.
LEMMA RemoveExact ==
    ASSUME NEW map \in Maps, Distinct(map.tags), NEW t, t \in Range(map.tags),
           NEW new \in RemoveTag(map, t)
    PROVE  /\ Distinct(new.tags)
           /\ Range(new.tags) = Range(map.tags) \ {t}
           /\ Len(new.tags) = Len(map.tags) - 1
<1> DEFINE S == Tags \cup {MovedFrom}
           tags == map.tags
           n == Len(tags)
           K == Kept(tags, t)
           r == StdRemove(tags, t)
<1>1. /\ tags \in Seq(S) /\ MovedFrom \in S
      /\ n \in Nat /\ DOMAIN tags = 1 .. n
  BY LenProperties DEF Maps
<1>2. /\ K \in SUBSET (1 .. n) /\ r \in Seq(S) /\ Len(r) = n
      /\ \A k \in 1 .. Cardinality(K) : r[k] = tags[Kth(K, k)]
  BY <1>1, StdRemoveKeeps
<1>3. PICK j \in 1 .. n : tags[j] = t
  BY <1>1 DEF Range
<1>4. K = (1 .. n) \ {j}
  BY <1>1, <1>3 DEF Kept, Distinct
<1>5. Cardinality(K) = n - 1
  <2>1. IsFiniteSet(1 .. n) /\ Cardinality(1 .. n) = n
    BY <1>1, FS_Interval
  <2> QED BY <1>3, <1>4, <2>1, FS_RemoveElement
<1>6. NewEnd(tags, t) = n /\ n \in DOMAIN r
  <2>1. NewEnd(tags, t) = Cardinality(K) + 1
    BY DEF NewEnd
  <2>2. DOMAIN r = 1 .. n
    BY <1>2, LenProperties
  <2> QED BY <1>1, <1>3, <1>5, <2>1, <2>2
<1>7. new = [map EXCEPT !.tags = RemoveAt(r, n)]
  BY <1>6 DEF RemoveTag
<1>8. new.tags = RemoveAt(r, n)
  BY <1>7 DEF Maps
<1> DEFINE w == new.tags
<1>9. /\ w \in Seq(S) /\ Len(w) = n - 1
      /\ \A k \in 1 .. n - 1 : w[k] = tags[Kth(K, k)]
  <2> HIDE DEF r, n, K, S
  <2>1. n \in 1 .. Len(r)
    BY <1>1, <1>2, <1>3
  <2>2. /\ RemoveAt(r, n) \in Seq(S) /\ Len(RemoveAt(r, n)) = n - 1
        /\ \A k \in 1 .. n - 1 : RemoveAt(r, n)[k] = r[k]
    BY <1>2, <2>1, ErasesOne
  <2> QED BY <1>2, <1>5, <1>8, <2>2
<1>10. DOMAIN w = 1 .. n - 1
  BY <1>9, LenProperties
<1>11. /\ \A k \in 1 .. n - 1 : Kth(K, k) \in K /\ Rank(K, Kth(K, k)) = k
       /\ \A p \in K : Rank(K, p) \in 1 .. n - 1 /\ Kth(K, Rank(K, p)) = p
  BY <1>1, <1>2, <1>5, KthIsKept, KeptFinite
<1>12. \A p \in K : p \in 1 .. n /\ tags[p] # t
  BY <1>1 DEF Kept
<1>13. \A p, q \in 1 .. n : tags[p] = tags[q] => p = q
  BY DEF Distinct
<1> HIDE DEF w, K, n, tags, r
<1>14. Distinct(w)
  <2> SUFFICES ASSUME NEW k \in 1 .. n - 1, NEW l \in 1 .. n - 1, w[k] = w[l]
               PROVE  k = l
    BY <1>9 DEF Distinct
  <2>1. tags[Kth(K, k)] = tags[Kth(K, l)]
    BY <1>9
  <2>2. Kth(K, k) = Kth(K, l)
    BY <1>11, <1>12, <1>13, <2>1
  <2> QED BY <1>11, <2>2
<1>15. Range(w) = Range(tags) \ {t}
  <2>1. ASSUME NEW x \in Range(w)
        PROVE  x \in Range(tags) \ {t}
    <3>1. PICK k \in 1 .. n - 1 : x = tags[Kth(K, k)]
      BY <1>9, <1>10, <2>1 DEF Range
    <3>2. Kth(K, k) \in 1 .. n /\ x # t
      BY <1>11, <1>12, <3>1
    <3> QED BY <1>1, <3>1, <3>2 DEF Range
  <2>2. ASSUME NEW x \in Range(tags) \ {t}
        PROVE  x \in Range(w)
    <3>1. PICK p \in 1 .. n : x = tags[p]
      BY <1>1, <2>2 DEF Range
    <3>2. p \in K
      BY <1>3, <1>4, <2>2, <3>1
    <3>3. Rank(K, p) \in 1 .. n - 1 /\ w[Rank(K, p)] = x
      BY <1>9, <1>11, <3>1, <3>2
    <3> QED BY <1>10, <3>3 DEF Range
  <2> QED BY <2>1, <2>2
<1> QED BY <1>9, <1>14, <1>15 DEF w, n, tags

\* Removing a tag, however often it is there, loses no other: all those kept
\* are in front of the place that is erased.
LEMMA RemoveKeeps ==
    ASSUME NEW map \in Maps, NEW t, t \in Range(map.tags),
           NEW new \in RemoveTag(map, t)
    PROVE  Range(map.tags) \ {t} \subseteq Range(new.tags)
<1> DEFINE S == Tags \cup {MovedFrom}
           tags == map.tags
           n == Len(tags)
           K == Kept(tags, t)
           m == Cardinality(K)
           r == StdRemove(tags, t)
<1>1. /\ tags \in Seq(S) /\ MovedFrom \in S
      /\ n \in Nat /\ DOMAIN tags = 1 .. n
  BY LenProperties DEF Maps
<1>2. /\ K \in SUBSET (1 .. n) /\ r \in Seq(S) /\ Len(r) = n
      /\ \A k \in 1 .. m : r[k] = tags[Kth(K, k)]
  BY <1>1, StdRemoveKeeps
<1>3. m \in 0 .. n - 1 /\ n >= 1
  <2>1. PICK j \in 1 .. n : tags[j] = t
    BY <1>1 DEF Range
  <2>2. K \subseteq (1 .. n) \ {j}
    BY <1>1, <2>1 DEF Kept
  <2>3. /\ IsFiniteSet((1 .. n) \ {j})
        /\ Cardinality((1 .. n) \ {j}) = n - 1
    <3>1. IsFiniteSet(1 .. n) /\ Cardinality(1 .. n) = n
      BY <1>1, FS_Interval
    <3> HIDE DEF n
    <3> QED BY <2>1, <3>1, FS_RemoveElement
  <2>4. m \in Nat /\ m <= n - 1
    BY <2>2, <2>3, FS_Subset, FS_CardinalityType
  <2> QED BY <1>1, <2>1, <2>4
<1>4. m + 1 \in 1 .. n /\ NewEnd(tags, t) = m + 1 /\ m + 1 \in DOMAIN r
  BY <1>1, <1>2, <1>3, LenProperties DEF NewEnd
<1>5. new.tags = RemoveAt(r, m + 1)
  <2>1. new = [map EXCEPT !.tags = RemoveAt(r, m + 1)]
    BY <1>4 DEF RemoveTag
  <2> QED BY <2>1 DEF Maps
<1>6. \A p \in K : /\ Rank(K, p) \in 1 .. m
                   /\ Kth(K, Rank(K, p)) = p
  BY <1>1, <1>2, KthIsKept, KeptFinite
<1>7. \A p \in 1 .. n : tags[p] # t => p \in K
  BY <1>1 DEF Kept
<1> HIDE DEF r, m, n, K, S, tags
<1>8. /\ RemoveAt(r, m + 1) \in Seq(S)
      /\ Len(RemoveAt(r, m + 1)) = n - 1
      /\ \A k \in 1 .. m : RemoveAt(r, m + 1)[k] = r[k]
  <2>1. m + 1 \in 1 .. Len(r)
    BY <1>2, <1>4
  <2>2. /\ RemoveAt(r, m + 1) \in Seq(S)
        /\ Len(RemoveAt(r, m + 1)) = Len(r) - 1
        /\ \A k \in 1 .. (m + 1) - 1 : RemoveAt(r, m + 1)[k] = r[k]
    BY <1>2, <2>1, ErasesOne
  <2>3. (m + 1) - 1 = m
    BY <1>3
  <2> QED BY <1>2, <2>2, <2>3
<1>9. \A k \in 1 .. m : k \in DOMAIN RemoveAt(r, m + 1)
  BY <1>1, <1>3, <1>8, LenProperties
<1>10. ASSUME NEW x \in Range(tags) \ {t}
       PROVE  x \in Range(new.tags)
  <2>1. PICK p \in 1 .. n : x = tags[p]
    BY <1>1, <1>10 DEF Range
  <2>2. p \in K
    BY <1>7, <1>10, <2>1
  <2>3. /\ Rank(K, p) \in 1 .. m
        /\ RemoveAt(r, m + 1)[Rank(K, p)] = x
    BY <1>2, <1>6, <1>8, <2>1, <2>2
  <2> QED BY <1>5, <1>9, <2>3 DEF Range
<1> QED BY <1>10 DEF tags

\* A tag is added behind those there are.
LEMMA AddKeeps ==
    ASSUME NEW map \in Maps, NEW t \in Tags
    PROVE  Range(AddTag(map, t).tags) = Range(map.tags) \cup {t}
<1> DEFINE S == Tags \cup {MovedFrom}
           tags == map.tags
           n == Len(tags)
           w == AddTag(map, t).tags
<1>1. tags \in Seq(S) /\ t \in S /\ w = Append(tags, t)
  BY DEF Maps, AddTag
<1>2. /\ n \in Nat /\ DOMAIN tags = 1 .. n
      /\ w \in Seq(S) /\ Len(w) = n + 1
      /\ \A i \in 1 .. n : w[i] = tags[i]
      /\ w[n + 1] = t
  BY <1>1, LenProperties, AppendProperties
<1>3. DOMAIN w = 1 .. n + 1
  BY <1>2, LenProperties
<1> HIDE DEF w, n, tags
<1>4. \A i \in 1 .. n + 1 : i \in 1 .. n \/ i = n + 1
  BY <1>2
<1>5. n + 1 \in 1 .. n + 1 /\ \A i \in 1 .. n : i \in 1 .. n + 1
  BY <1>2
<1>6. Range(w) = Range(tags) \cup {t}
  BY <1>2, <1>3, <1>4, <1>5 DEF Range
<1> QED BY <1>6 DEF w, tags

LEMMA AddExact ==
    ASSUME NEW map \in Maps, Distinct(map.tags), NEW t \in Tags,
           t \notin Range(map.tags)
    PROVE  /\ Distinct(AddTag(map, t).tags)
           /\ Range(AddTag(map, t).tags) = Range(map.tags) \cup {t}
           /\ Len(AddTag(map, t).tags) = Len(map.tags) + 1
<1> DEFINE S == Tags \cup {MovedFrom}
           tags == map.tags
           n == Len(tags)
           w == AddTag(map, t).tags
<1>1. tags \in Seq(S) /\ t \in S /\ w = Append(tags, t)
  BY DEF Maps, AddTag
<1>2. /\ n \in Nat /\ DOMAIN tags = 1 .. n
      /\ w \in Seq(S) /\ Len(w) = n + 1
      /\ \A i \in 1 .. n : w[i] = tags[i]
      /\ w[n + 1] = t
  BY <1>1, LenProperties, AppendProperties
<1>3. DOMAIN w = 1 .. n + 1
  BY <1>2, LenProperties
<1>4. \A i \in 1 .. n : tags[i] # t
  BY <1>2 DEF Range
<1>5. \A i, j \in 1 .. n : tags[i] = tags[j] => i = j
  BY DEF Distinct
<1> HIDE DEF w, n, tags
<1>6. Distinct(w)
  BY <1>2, <1>4, <1>5 DEF Distinct
<1>7. Range(w) = Range(tags) \cup {t}
  BY AddKeeps DEF w, tags
<1> QED BY <1>2, <1>6, <1>7 DEF w, n, tags

-----------------------------------------------------------------------------
\* The fields of an object, the attribute map included.
Fields == [description : Texts, attributes : Maps, is_rerun : BOOLEAN,
           rerunof : Reruns \cup {NilUuid}, coderef : Texts,
           parameters : [Keys -> Values \cup {None}],
           retry : BOOLEAN, has_stats : BOOLEAN]

Typed ==
    /\ kind \in {"launch", "item"}
    /\ ownId \in {NilUuid, OwnId}
    /\ meta \in Fields
    /\ started \in BOOLEAN /\ ended \in BOOLEAN /\ alive \in BOOLEAN
    /\ starts \in 0 .. MaxStarts /\ mine \in 0 .. MaxStarts

\* While the user is careful the tags wanted are there, and while none is
\* added twice they are there once, and no others.
KeptInv == careful => wanted \subseteq Range(meta.attributes.tags)

TagsInv ==
    careful /\ once => LET tags == meta.attributes.tags IN
        /\ IsFiniteSet(wanted)
        /\ Distinct(tags)
        /\ Range(tags) = wanted
        /\ Len(tags) = Cardinality(wanted)

LEMMA MapsClosed ==
    /\ EmptyMap \in Maps
    /\ \A map \in Maps, key \in Keys :
          /\ \A v \in Values : AddAttribute(map, key, v) \in Maps
          /\ RemoveAttribute(map, key) \in Maps
    /\ \A map \in Maps, t \in Tags : AddTag(map, t) \in Maps
    /\ \A tags \in {<< >>} \cup {<<t>> : t \in Tags} :
          [EmptyMap EXCEPT !.tags = tags] \in Maps
<1>1. EmptyMap \in Maps
  BY DEF EmptyMap, Maps
<1>2. ASSUME NEW map \in Maps, NEW key \in Keys
      PROVE  /\ \A v \in Values : AddAttribute(map, key, v) \in Maps
             /\ RemoveAttribute(map, key) \in Maps
  <2>1. map.attributes \in [Keys -> Seq(Values)] /\ map.attributes[key] \in Seq(Values)
    BY DEF Maps
  <2>2. \A v \in Values : Append(map.attributes[key], v) \in Seq(Values)
    BY <2>1, AppendProperties
  <2>3. \A q \in Seq(Values) : [map EXCEPT !.attributes[key] = q] \in Maps
    BY <2>1 DEF Maps
  <2>4. << >> \in Seq(Values)
    OBVIOUS
  <2> QED BY <2>2, <2>3, <2>4 DEF AddAttribute, RemoveAttribute
<1>3. ASSUME NEW map \in Maps, NEW t \in Tags
      PROVE  AddTag(map, t) \in Maps
  <2>1. Append(map.tags, t) \in Seq(Tags \cup {MovedFrom})
    BY AppendProperties DEF Maps
  <2> QED BY <2>1 DEF AddTag, Maps
<1>4. ASSUME NEW tags \in {<< >>} \cup {<<t>> : t \in Tags}
      PROVE  [EmptyMap EXCEPT !.tags = tags] \in Maps
  <2>1. ASSUME NEW t \in Tags
        PROVE  <<t>> \in Seq(Tags \cup {MovedFrom})
    <3> DEFINE S == Tags \cup {MovedFrom}
    <3>1. t \in S
      OBVIOUS
    <3> HIDE DEF S
    <3>2. <<t>> \in Seq(S)
      BY <3>1
    <3> QED BY <3>2 DEF S
  <2>2. << >> \in Seq(Tags \cup {MovedFrom})
    OBVIOUS
  <2> QED BY <1>1, <2>1, <2>2 DEF Maps
<1> QED BY <1>1, <1>2, <1>3, <1>4

\* A setter sets fields to what they may be.
LEMMA SettersTyped ==
    ASSUME Typed,
           \/ SetDescription \/ SetAttributes \/ SetAttribute
           \/ \E t \in Tags : AddsTag(t) \/ RemovesTag(t)
           \/ SetRerunof
           \/ SetCoderef \/ AddParameter \/ SetParameters \/ RemoveParameter
           \/ SetFlag
    PROVE  Typed'
<1>1. ASSUME NEW fields, NEW new \in Fields, Edit(fields, new),
             alive' = alive \/ alive' = FALSE
      PROVE  Typed'
  BY <1>1 DEF Edit, Typed, objectVars, serverVars
<1>2. meta \in Fields /\ meta.attributes \in Maps
  BY DEF Typed, Fields
<1>3. ASSUME NEW map \in Maps
      PROVE  [meta EXCEPT !.attributes = map] \in Fields
  BY <1>2 DEF Fields
<1>4. ASSUME NEW p \in [Keys -> Values \cup {None}]
      PROVE  [meta EXCEPT !.parameters = p] \in Fields
  BY <1>2 DEF Fields
<1>5. CASE SetDescription
  BY <1>1, <1>2, <1>5 DEF SetDescription, Set, Fields
<1>6. CASE SetAttributes
  BY <1>1, <1>3, <1>6, MapsClosed DEF SetAttributes
<1>7. CASE SetAttribute
  BY <1>1, <1>2, <1>3, <1>7, MapsClosed DEF SetAttribute, Set
<1>8. ASSUME NEW t \in Tags, AddsTag(t)
      PROVE  Typed'
  <2>1. Edit({"attributes"}, [meta EXCEPT !.attributes = AddTag(meta.attributes, t)])
    BY <1>2, <1>8 DEF AddsTag, Fields
  <2> QED BY <1>1, <1>2, <1>3, <1>8, <2>1, MapsClosed DEF AddsTag
<1>9. ASSUME NEW t \in Tags, RemovesTag(t)
      PROVE  Typed'
  BY <1>1, <1>2, <1>3, <1>9, RemoveTagMaps DEF RemovesTag
<1>10. CASE SetRerunof
  <2>1. PICK id \in Reruns \cup {NilUuid} :
           /\ Edit({"is_rerun", "rerunof"},
                   [meta EXCEPT !.is_rerun = (id # NilUuid), !.rerunof = id])
           /\ alive' = alive
    BY <1>10 DEF SetRerunof
  <2>2. [meta EXCEPT !.is_rerun = (id # NilUuid), !.rerunof = id] \in Fields
    BY <1>2 DEF Fields
  <2> QED BY <1>1, <2>1, <2>2
<1>11. CASE SetCoderef
  BY <1>1, <1>2, <1>11 DEF SetCoderef, Set, Fields
<1>12. CASE AddParameter \/ SetParameters \/ RemoveParameter
  <2>1. \E p \in [Keys -> Values \cup {None}] :
            Set("parameters", [meta EXCEPT !.parameters = p])
    <3>1. meta.parameters \in [Keys -> Values \cup {None}]
      BY <1>2 DEF Fields
    <3>2. \A key \in Keys, v \in Values \cup {None} :
             /\ [meta.parameters EXCEPT ![key] = v] \in [Keys -> Values \cup {None}]
             /\ [meta EXCEPT !.parameters[key] = v]
                   = [meta EXCEPT !.parameters = [meta.parameters EXCEPT ![key] = v]]
      BY <1>2, <3>1 DEF Fields
    <3>3. CASE SetParameters
      BY <3>3 DEF SetParameters
    <3>4. CASE RemoveParameter
      BY <3>2, <3>4 DEF RemoveParameter
    <3>5. CASE AddParameter
      <4>1. PICK key \in Keys, v \in Values : Set("parameters",
              [meta EXCEPT !.parameters[key] = IF @ = None THEN v ELSE @])
        BY <3>5 DEF AddParameter
      <4> DEFINE w == IF meta.parameters[key] = None THEN v ELSE meta.parameters[key]
      <4>2. w \in Values \cup {None}
        BY <3>1
      <4>3. Set("parameters", [meta EXCEPT !.parameters[key] = w])
        BY <1>2, <4>1 DEF Fields
      <4> HIDE DEF w
      <4> QED BY <3>2, <4>2, <4>3
    <3> QED BY <1>12, <3>3, <3>4, <3>5
  <2> QED BY <1>1, <1>4, <2>1 DEF Set
<1>13. CASE SetFlag
  BY <1>1, <1>2, <1>13 DEF SetFlag, Set, Fields
<1> QED BY <1>5, <1>6, <1>7, <1>8, <1>9, <1>10, <1>11, <1>12, <1>13

LEMMA TypedStep ==
    ASSUME Typed, [Next]_vars
    PROVE  Typed'
<1>1. CASE Start
  <2>1. starts + 1 \in 0 .. MaxStarts
    <3>1. MaxStarts \in Nat
      BY MetadataAssumption
    <3>2. starts \in 0 .. MaxStarts /\ starts < MaxStarts
      BY <1>1 DEF Typed, Start
    <3> QED BY <3>1, <3>2
  <2>2. /\ UNCHANGED <<kind, ownId, meta, ended>>
        /\ starts' = starts + 1
        /\ started' \in BOOLEAN /\ alive' \in BOOLEAN
        /\ mine' = starts + 1 \/ mine' = mine
    BY <1>1 DEF Typed, Start, objectVars
  <2> QED BY <2>1, <2>2 DEF Typed
<1>2. CASE End
  BY <1>2 DEF Typed, End, objectVars, serverVars
<1>3. CASE LateBegin
  BY <1>3 DEF Typed, LateBegin, objectVars
<1>4. CASE UNCHANGED vars
  BY <1>4 DEF Typed, vars, objectVars, serverVars
<1> QED BY <1>1, <1>2, <1>3, <1>4, SettersTyped DEF Next

\* What a setter that is not about tags leaves alone.
SameTags ==
    /\ meta'.attributes.tags = meta.attributes.tags
    /\ UNCHANGED tagHistory

LEMMA OtherSetters ==
    ASSUME Typed,
           \/ SetDescription \/ SetAttribute \/ SetRerunof \/ SetCoderef
           \/ AddParameter \/ SetParameters \/ RemoveParameter \/ SetFlag
    PROVE  SameTags
<1>1. meta \in Fields /\ meta.attributes \in Maps
  BY DEF Typed, Fields
<1>3. CASE SetAttribute
  <2>0. PICK key \in Keys : \E map \in
            {AddAttribute(meta.attributes, key, v) : v \in Values}
                \cup {RemoveAttribute(meta.attributes, key)} :
           Set("attributes", [meta EXCEPT !.attributes = map])
    BY <1>3 DEF SetAttribute
  <2>1. PICK map \in {AddAttribute(meta.attributes, key, v) : v \in Values}
                         \cup {RemoveAttribute(meta.attributes, key)} :
           Set("attributes", [meta EXCEPT !.attributes = map])
    BY <2>0
  <2>2. map.tags = meta.attributes.tags
    BY <1>1 DEF AddAttribute, RemoveAttribute, Maps
  <2>3. meta' = [meta EXCEPT !.attributes = map] /\ UNCHANGED tagHistory
    BY <2>1 DEF Set, Edit
  <2>4. meta'.attributes = map
    BY <1>1, <2>3 DEF Fields
  <2> QED BY <2>2, <2>3, <2>4 DEF SameTags
<1>4. CASE \/ SetDescription \/ SetRerunof \/ SetCoderef
           \/ AddParameter \/ SetParameters \/ RemoveParameter \/ SetFlag
  <2>1. meta'.attributes = meta.attributes /\ UNCHANGED tagHistory
    BY <1>1, <1>4 DEF SetDescription, SetRerunof, SetCoderef, AddParameter,
       SetParameters, RemoveParameter, SetFlag, Set, Edit, Fields
  <2> QED BY <2>1 DEF SameTags
<1> QED BY <1>3, <1>4

LEMMA KeptStep ==
    ASSUME Typed, KeptInv, [Next]_vars
    PROVE  KeptInv'
<1>1. meta \in Fields /\ meta.attributes \in Maps
  BY DEF Typed, Fields
<1>2. CASE SameTags
  BY <1>2 DEF SameTags, tagHistory, KeptInv
<1>3. CASE SetAttributes
  <2>1. PICK tags \in {<< >>} \cup {<<t>> : t \in Tags} :
           /\ meta' = [meta EXCEPT !.attributes = [EmptyMap EXCEPT !.tags = tags]]
           /\ wanted' = Range(tags)
    BY <1>3 DEF SetAttributes, Edit
  <2>2. meta'.attributes.tags = tags
    BY <1>1, <2>1 DEF Fields, EmptyMap
  <2> QED BY <2>1, <2>2 DEF KeptInv
<1>4. ASSUME NEW t \in Tags, AddsTag(t), careful'
      PROVE  KeptInv'
  <2>1. /\ careful /\ wanted' = wanted \cup {t}
        /\ meta' = [meta EXCEPT !.attributes = AddTag(meta.attributes, t)]
    BY <1>1, <1>4 DEF AddsTag, Edit, Fields
  <2>2. meta'.attributes = AddTag(meta.attributes, t)
    BY <1>1, <2>1 DEF Fields
  <2>3. Range(AddTag(meta.attributes, t).tags)
           = Range(meta.attributes.tags) \cup {t}
    BY <1>1, AddKeeps
  <2> QED BY <2>1, <2>2, <2>3 DEF KeptInv
<1>5. ASSUME NEW t \in Tags, RemovesTag(t), careful'
      PROVE  KeptInv'
  <2>1. careful /\ t \in wanted /\ wanted' = wanted \ {t}
    BY <1>5 DEF RemovesTag
  <2>2. t \in Range(meta.attributes.tags)
    BY <2>1 DEF KeptInv
  <2>3. PICK map \in RemoveTag(meta.attributes, t) :
           meta' = [meta EXCEPT !.attributes = map]
    BY <1>5, <2>2 DEF RemovesTag, RemoveTagMayDie, Edit
  <2>4. meta'.attributes = map
    BY <1>1, <2>3 DEF Fields
  <2>5. Range(meta.attributes.tags) \ {t} \subseteq Range(map.tags)
    BY <1>1, <2>2, <2>3, RemoveKeeps
  <2> QED BY <2>1, <2>4, <2>5 DEF KeptInv
<1>6. CASE Start \/ End \/ LateBegin
  BY <1>2, <1>6 DEF Start, End, LateBegin, historyVars, SameTags
<1>7. CASE UNCHANGED vars
  BY <1>2, <1>7 DEF vars, historyVars, SameTags
<1>8. careful' \/ KeptInv'
  BY DEF KeptInv
<1> QED BY <1>2, <1>3, <1>4, <1>5, <1>6, <1>7, <1>8, OtherSetters DEF Next

LEMMA TagsStep ==
    ASSUME Typed, TagsInv, [Next]_vars
    PROVE  TagsInv'
<1>1. meta \in Fields /\ meta.attributes \in Maps
  BY DEF Typed, Fields
<1>2. CASE SameTags
  BY <1>2 DEF SameTags, tagHistory, TagsInv, Distinct
<1>3. CASE SetAttributes
  <2>1. PICK tags \in {<< >>} \cup {<<t>> : t \in Tags} :
           /\ meta' = [meta EXCEPT !.attributes = [EmptyMap EXCEPT !.tags = tags]]
           /\ wanted' = Range(tags)
    BY <1>3 DEF SetAttributes, Edit
  <2>2. meta'.attributes.tags = tags
    BY <1>1, <2>1 DEF Fields, EmptyMap
  <2>3. CASE tags = << >>
    <3>1. Range(tags) = {} /\ Len(tags) = 0
      BY <2>3 DEF Range
    <3> QED BY <2>1, <2>2, <3>1, FS_EmptySet DEF TagsInv, Distinct
  <2>4. ASSUME NEW t \in Tags, tags = <<t>>
        PROVE  TagsInv'
    <3>1. /\ Len(tags) = 1 /\ Range(tags) = {t}
          /\ \A i, j \in 1 .. Len(tags) : i = j
      BY <2>4 DEF Range
    <3>2. IsFiniteSet({t}) /\ Cardinality({t}) = 1
      BY FS_Singleton
    <3> QED BY <2>1, <2>2, <3>1, <3>2 DEF TagsInv, Distinct
  <2> QED BY <2>1, <2>3, <2>4
<1>4. ASSUME NEW t \in Tags, AddsTag(t), careful', once'
      PROVE  TagsInv'
  <2>1. /\ careful /\ once /\ t \notin wanted
        /\ wanted' = wanted \cup {t}
        /\ meta' = [meta EXCEPT !.attributes = AddTag(meta.attributes, t)]
    BY <1>1, <1>4 DEF AddsTag, Edit, Fields
  <2>2. meta'.attributes = AddTag(meta.attributes, t)
    BY <1>1, <2>1 DEF Fields
  <2>3. /\ IsFiniteSet(wanted) /\ Distinct(meta.attributes.tags)
        /\ Range(meta.attributes.tags) = wanted
        /\ Len(meta.attributes.tags) = Cardinality(wanted)
    BY <2>1 DEF TagsInv
  <2>4. IsFiniteSet(wanted') /\ Cardinality(wanted') = Cardinality(wanted) + 1
    BY <2>1, <2>3, FS_AddElement
  <2>5. /\ Distinct(AddTag(meta.attributes, t).tags)
        /\ Range(AddTag(meta.attributes, t).tags) = wanted'
        /\ Len(AddTag(meta.attributes, t).tags) = Cardinality(wanted')
    BY <1>1, <2>1, <2>3, <2>4, AddExact
  <2> QED BY <2>2, <2>4, <2>5 DEF TagsInv, Distinct
<1>5. ASSUME NEW t \in Tags, RemovesTag(t), careful', once'
      PROVE  TagsInv'
  <2>1. careful /\ once /\ t \in wanted /\ wanted' = wanted \ {t}
    BY <1>5 DEF RemovesTag
  <2>2. /\ IsFiniteSet(wanted) /\ Distinct(meta.attributes.tags)
        /\ Range(meta.attributes.tags) = wanted
        /\ Len(meta.attributes.tags) = Cardinality(wanted)
    BY <2>1 DEF TagsInv
  <2>3. PICK map \in RemoveTag(meta.attributes, t) :
           meta' = [meta EXCEPT !.attributes = map]
    BY <1>5, <2>1, <2>2 DEF RemovesTag, RemoveTagMayDie, Edit
  <2>4. meta'.attributes = map
    BY <1>1, <2>3 DEF Fields
  <2>5. /\ IsFiniteSet(wanted')
        /\ Cardinality(wanted') = Cardinality(wanted) - 1
    BY <2>1, <2>2, FS_RemoveElement
  <2>6. /\ Distinct(map.tags) /\ Range(map.tags) = wanted'
        /\ Len(map.tags) = Cardinality(wanted')
    BY <1>1, <2>1, <2>2, <2>3, <2>5, RemoveExact
  <2> QED BY <2>4, <2>5, <2>6 DEF TagsInv, Distinct
<1>6. CASE Start \/ End \/ LateBegin
  BY <1>2, <1>6 DEF Start, End, LateBegin, historyVars, SameTags
<1>7. CASE UNCHANGED vars
  BY <1>2, <1>7 DEF vars, historyVars, SameTags
<1>8. (careful' /\ once') \/ TagsInv'
  BY DEF TagsInv
<1> QED BY <1>2, <1>3, <1>4, <1>5, <1>6, <1>7, <1>8, OtherSetters DEF Next

LEMMA TypedAndTags == Spec => [](Typed /\ KeptInv /\ TagsInv)
<1>1. Init => Typed
  <2> SUFFICES ASSUME Init
               PROVE  Typed
    OBVIOUS
  <2>1. "" \in Texts /\ EmptyMap \in Maps
    BY MapsClosed, MetadataAssumption
  <2>2. [key \in Keys |-> None] \in [Keys -> Values \cup {None}]
    OBVIOUS
  <2>3. meta \in Fields
    BY <2>1, <2>2, Zenon DEF Init, Fields
  <2>4. 0 \in 0 .. MaxStarts
    <3>1. MaxStarts \in Nat
      BY MetadataAssumption
    <3> QED BY <3>1
  <2> QED BY <2>3, <2>4 DEF Init, Typed
<1>2. Init => TagsInv
  <2> SUFFICES ASSUME Init
               PROVE  TagsInv
    OBVIOUS
  <2>1. meta.attributes.tags = << >> /\ wanted = {}
    BY DEF Init, EmptyMap
  <2>2. Range(<< >>) = {} /\ Len(<< >>) = 0
    BY DEF Range
  <2> QED BY <2>1, <2>2, FS_EmptySet DEF TagsInv, Distinct
<1>3. Init => KeptInv
  BY DEF Init, KeptInv
<1>4. Typed /\ KeptInv /\ TagsInv /\ [Next]_vars
        => Typed' /\ KeptInv' /\ TagsInv'
  BY TypedStep, KeptStep, TagsStep
<1> QED BY <1>1, <1>2, <1>3, <1>4, PTL DEF Spec

\* Every field keeps its type, and a tag is one the user added or what
\* std::remove left.
THEOREM MetadataTypes == Spec => []TypeOK
<1>1. Typed => TypeOK
  <2> SUFFICES ASSUME Typed
               PROVE  TypeOK
    OBVIOUS
  <2>1. meta.attributes.tags \in Seq(Tags \cup {MovedFrom})
    BY DEF Typed, Fields, Maps
  <2>2. Range(meta.attributes.tags) \subseteq Tags \cup {MovedFrom}
    BY <2>1, LenProperties, ElementOfSeq DEF Range
  <2> QED BY <2>2 DEF Typed, Fields, TypeOK
<1> QED BY <1>1, TypedAndTags, PTL

\* The tags of a user who adds none twice and removes only those there are
\* the ones added and not removed, each once.
THEOREM TagsAreExact == Spec => []TagsExact
<1>1. TagsInv => TagsExact
  BY DEF TagsInv, TagsExact
<1> QED BY <1>1, TypedAndTags, PTL

\* Tags may be added twice: what the user wants is there, so long as only what
\* is wanted is removed.
THEOREM WantedTagsStay == Spec => []TagsKept
<1>1. KeptInv => TagsKept
  BY DEF KeptInv, TagsKept
<1> QED BY <1>1, TypedAndTags, PTL
====
