---------------------------- MODULE MCSerializer ----------------------------
EXTENDS Serializer
CONSTANTS u1, u2

\* Minutes of 2 seconds of 3 microseconds of 2 ticks.  At second 2 the clock
\* goes back by a minute, so that the same local time is shown twice.  At
\* second 4 it goes back by a second: that zone prints as the one before it,
\* and the second as the one before it.
SecondsMC == -2 .. 4
ZoneMC == [s \in SecondsMC |-> IF s < 2 THEN -2 ELSE IF s < 4 THEN -4 ELSE -5]
InstantsMC == -9 .. 25

Maybe(S) == S \cup {None}

BeginLaunchMC == [op : {"begin_launch"}, name : {"n"}, time : {1},
    description : Maybe({"d"}), uuid : Maybe({NilUuid, u1}), attributes : {None},
    mode : {"def", "debug"}, is_rerun : Maybe(BOOLEAN),
    rerunof : {NilUuid, u1, u2}]

EndLaunchMC == [op : {"end_launch"}, uuid : {u1, u2}, time : InstantsMC]

\* Every combination of the optional members, and every type.
BeginItems(types, parents, ids, texts, flags) ==
    [op : {"begin_item"}, name : {"n"}, time : {1}, type : types,
     launch : {NilUuid, u1}, parent : parents, description : texts,
     attributes : {None}, uuid : ids, coderef : texts, parameters : {None},
     retry : flags, has_stats : flags]

BeginItemMC ==
    BeginItems({1}, {NilUuid, u1}, {NilUuid, u2}, {"", "d"}, BOOLEAN)
    \cup BeginItems(1 .. 15, {u1, u2}, {NilUuid}, {None}, {None})

\* Every status, and issues with the locator ids 0 and 12 and all that can be
\* set.
EndItems(ids, launches, statuses, issues) ==
    [op : {"end_item"}, uuid : ids, launch : launches, time : {1},
     status : statuses, issue : issues]

EndItemMC ==
    EndItems({u1, u2}, {NilUuid, u1}, Maybe(1 .. 7), {None})
    \cup EndItems({u1}, {u1}, {3}, [type : {0, 3, 4}, locator : {0, 12},
             comment : {"", "c"}, auto : BOOLEAN, ignore : BOOLEAN])

File == [name : {"f"}, data : {"x", "y"}, type : {"text", "html"}]

Logs(times, items, levels, files) == [launch : {u1}, time : times,
    item : items, message : {"m"}, level : levels, attachment : files]

BatchesMC ==
    {<<log>> : log \in Logs({1}, {NilUuid, u2}, 0 .. 6, Maybe(File))}
    \cup {<<log>> : log \in Logs(InstantsMC, {u2}, {3}, {None})}
    \cup {<<a, b>> : a, b \in Logs({-1, 1}, {u2}, {3, 4}, {None})}
=============================================================================
