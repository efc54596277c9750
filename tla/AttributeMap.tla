---------------------------- MODULE AttributeMap ----------------------------
(***************************************************************************)
(* report_portal::attribute_map: a multimap of attributes and a vector of  *)
(* tags.  A multimap keeps the values of a key in the order they came in.  *)
(***************************************************************************)
EXTENDS Naturals, FiniteSets, SequencesExt

CONSTANTS
    Keys,       \* the keys of attributes
    MovedFrom   \* the tag std::remove leaves where it moved one away

EmptyMap == [attributes |-> [k \in Keys |-> << >>], tags |-> << >>]

AddAttribute(map, key, value) ==
    [map EXCEPT !.attributes[key] = Append(@, value)]

RemoveAttribute(map, key) == [map EXCEPT !.attributes[key] = << >>]

AddTag(map, tag) == [map EXCEPT !.tags = Append(@, tag)]

\* The positions of the tags to keep, how many there are up to one of them,
\* and the k-th.
Kept(tags, tag) == {p \in DOMAIN tags : tags[p] # tag}
Rank(S, p) == Cardinality({q \in S : q <= p})
Kth(S, k) == CHOOSE p \in S : Rank(S, p) = k

\* std::remove: the tags to keep move to the front, in their order; behind
\* them the removed tags stay where they were, and the rest is moved-from.
StdRemove(tags, tag) ==
    LET kept == Kept(tags, tag) IN
    [k \in DOMAIN tags |->
        IF k <= Cardinality(kept) THEN tags[Kth(kept, k)]
        ELSE IF tags[k] = tag THEN tag ELSE MovedFrom]

\* The position of the iterator it returns.
NewEnd(tags, tag) == Cardinality(Kept(tags, tag)) + 1

\* Mutation: the element behind the new end is dropped.
RemoveTagNext(map, tag) ==
    LET tags == StdRemove(map.tags, tag)
        k == NewEnd(map.tags, tag) + 1
    IN  IF k \in DOMAIN tags THEN {[map EXCEPT !.tags = RemoveAt(tags, k)]}
                             ELSE {[map EXCEPT !.tags = tags]}

\* Mutation: the place the last tag ends in is taken for the one it came from.
RemoveTagUnmoved(map, tag) ==
    LET k == NewEnd(map.tags, tag)
    IN  IF k \in DOMAIN map.tags
        THEN {[map EXCEPT !.tags = RemoveAt(@, k)]}
        ELSE {}

\* One element is erased, the one at the new end.  For an absent tag that is
\* end(), which is undefined: the last tag goes (libstdc++), or the process
\* (see RemoveTagMayDie), which it always does when there is no tag at all.
RemoveTag(map, tag) ==
    LET tags == StdRemove(map.tags, tag)
        k == NewEnd(map.tags, tag)
    IN  IF k \in DOMAIN tags THEN {[map EXCEPT !.tags = RemoveAt(tags, k)]}
        ELSE IF tags = << >> THEN {}
        ELSE {[map EXCEPT !.tags = Front(tags)]}

RemoveTagMayDie(map, tag) == tag \notin Range(map.tags)
=============================================================================
