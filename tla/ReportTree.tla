----------------------------- MODULE ReportTree -----------------------------
(***************************************************************************)
(* What the library promises its user about the server, whatever happens   *)
(* to single calls: the records form a tree that only grows, object by     *)
(* object; an object answers for one record for good; a record is put      *)
(* under the one its object's parent answers for; only records some object *)
(* answers for are finished or get log entries; and the stored log of an   *)
(* object is always the beginning of what it logged.                       *)
(*                                                                         *)
(* A call that was given up may still leave a stray record: it is put      *)
(* where its object's record belongs, and no object answers for it.        *)
(***************************************************************************)
EXTENDS Naturals

CONSTANTS
    N,          \* the objects are the launch, 0, and the items 1 .. N
    Parent,     \* [1 .. N -> 0 .. N]
    Ids, NoId,
    MaxLogs

Objects == 0 .. N

VARIABLES
    tree,       \* the ids in use
    under,      \* [Ids -> Ids \cup {NoId}]: the record a record is put under
    done,       \* the finished records
    node,       \* [Objects -> Ids \cup {NoId}]: the record it answers for
    log         \* [Objects -> SUBSET (1 .. MaxLogs)]: its stored messages

treeVars == <<tree, under, done, node, log>>

Init ==
    /\ tree = {}
    /\ under = [u \in Ids |-> NoId]
    /\ done = {}
    /\ node = [o \in Objects |-> NoId]
    /\ log = [o \in Objects |-> {}]

\* The record of o is put under that of its parent, which has one.
Place(o, u) ==
    /\ u \notin tree
    /\ o # 0 => node[Parent[o]] # NoId
    /\ tree' = tree \cup {u}
    /\ under' = [under EXCEPT ![u] = IF o = 0 THEN NoId ELSE node[Parent[o]]]
    /\ UNCHANGED <<done, log>>

Start(o, u) ==
    /\ node[o] = NoId
    /\ Place(o, u)
    /\ node' = [node EXCEPT ![o] = u]

Stray(o, u) == Place(o, u) /\ UNCHANGED node

Finish(o) ==
    /\ node[o] # NoId
    /\ done' = done \cup {node[o]}
    /\ UNCHANGED <<tree, under, node, log>>

\* The first m messages of o are stored, if they were not yet.
Deliver(o, m) ==
    /\ node[o] # NoId
    /\ log' = [log EXCEPT ![o] = @ \cup 1 .. m]
    /\ UNCHANGED <<tree, under, done, node>>

\* end(time, status) delivers the log of an object and finishes a record.
DeliverAndFinish(o, m, p) ==
    /\ node[o] # NoId
    /\ node[p] # NoId
    /\ log' = [log EXCEPT ![o] = @ \cup 1 .. m]
    /\ done' = done \cup {node[p]}
    /\ UNCHANGED <<tree, under, node>>

Next ==
    \E o \in Objects :
        \/ \E u \in Ids : Start(o, u) \/ Stray(o, u)
        \/ Finish(o)
        \/ \E m \in 1 .. MaxLogs :
              \/ Deliver(o, m)
              \/ \E p \in Objects : DeliverAndFinish(o, m, p)

Spec == Init /\ [][Next]_treeVars
=============================================================================
