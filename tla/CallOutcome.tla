---------------------------- MODULE CallOutcome ----------------------------
(***************************************************************************)
(* What a call of a report_portal::service promises its caller: every call *)
(* is one step, with the outcome module Service is built on, and what the  *)
(* outcome says of the request is true from then on.                       *)
(***************************************************************************)
EXTENDS Naturals, Sequences

VARIABLES
    outcomes,   \* how each call ended: [op, how]
    done        \* the calls the server has processed, by their number

vars == <<outcomes, done>>

Init == outcomes = << >> /\ done = {}

\* Nobody learns from batch_logs whether the batch was stored.
Certain(op, how) == how = "answered" /\ op # "logs"

Call(op, how) ==
    /\ \A n \in DOMAIN outcomes : outcomes[n].how # "died"
    /\ outcomes' = Append(outcomes, [op |-> op, how |-> how])
    /\ \/ done' = done /\ ~ Certain(op, how)
       \/ done' = done \cup {Len(outcomes) + 1} /\ how # "refused"

\* A request whose answer was never read is processed after all.
Late ==
    \E n \in DOMAIN outcomes :
        /\ outcomes[n].how \in {"aborted", "died"}
        /\ done' = done \cup {n}
        /\ outcomes' = outcomes

Next ==
    \/ \E op \in {"ui_token", "api_token", "begin_launch", "end_launch",
                  "begin_item", "end_item", "logs"} :
          \E how \in {"answered", "refused", "aborted", "died"} : Call(op, how)
    \/ Late

Spec == Init /\ [][Next]_vars
=============================================================================
