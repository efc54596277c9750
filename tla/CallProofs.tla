----------------------------- MODULE CallProofs -----------------------------
(***************************************************************************)
(* Theorems about Call, for any number of calls: a call as its caller sees *)
(* it is one step of CallOutcome, and every request carries the token its  *)
(* own service was given.  The invariant says where the request of each    *)
(* call can be, given how far the call has come or how it ended.           *)
(***************************************************************************)
EXTENDS Call, TLAPS

Ops == Logins \cup Calls

\* No request of the call n is among the set.
NoneOf(n, requests) == \A r \in requests : r.n # n

Shape ==
    /\ step \in {"idle", "open", "waiting"}
    /\ op \in Ops
    /\ reply \in Replies \cup {"none"}
    /\ outcomes \in Seq([op : Ops, how : Hows])
    /\ service \in {"none", "ui", "ready", "died"}
    /\ ui_token \in Nat /\ api_token \in Nat
    /\ sent \subseteq [n : Nat, op : Ops, auth : Nat]
    /\ served \subseteq [n : Nat, op : Ops, auth : Nat]

\* A process that has died makes no call.
Alive ==
    /\ step # "idle" => op \in Callable
    /\ service # "died" => \A n \in DOMAIN outcomes : outcomes[n].how # "died"

\* The requests of calls that are over.
Past ==
    \A n \in DOMAIN outcomes :
        /\ outcomes[n].how = "returned" => NoneOf(n, sent)
        /\ outcomes[n].how \in Refusals => NoneOf(n, sent \cup served)
        /\ outcomes[n].how = "returned" /\ outcomes[n].op # "logs" =>
              \E r \in served : r.n = n

\* The request of the running call.
Present ==
    /\ \A r \in sent \cup served :
          /\ r.n \in 1 .. Len(outcomes) + 1
          /\ r.n = Len(outcomes) + 1 => step = "waiting" /\ r.op = op
    /\ \A r1, r2 \in sent : r1.n = r2.n => r1 = r2
    /\ step = "open" => reply = "none"
    /\ step = "waiting" =>
          /\ reply # "none" => NoneOf(Len(outcomes) + 1, sent)
          /\ reply \in {"none", "error"} => NoneOf(Len(outcomes) + 1, served)
          /\ reply = "good" => \E r \in served : r.n = Len(outcomes) + 1

CInv == Shape /\ Alive /\ Past /\ Present

-----------------------------------------------------------------------------
\* What may be said of an outcome when the call it is of ends.
Justified(o, how) ==
    /\ o \in Ops /\ how \in Hows /\ o \in Callable
    /\ \A r \in sent \cup served : r.n = Len(outcomes) + 1 => r.op = o
    /\ how = "returned" => NoneOf(Len(outcomes) + 1, sent)
    /\ how \in Refusals => NoneOf(Len(outcomes) + 1, sent \cup served)
    /\ how = "returned" /\ o # "logs" =>
          \E r \in served : r.n = Len(outcomes) + 1 /\ r.op = o

\* Every way a call ends is justified.
LEMMA EndsJustified ==
    ASSUME CInv, Rejected \/ NoHandle \/ NoConnection \/ Break \/ Receive
    PROVE  \E o, how : /\ Justified(o, how) /\ Ends(o, how)
                       /\ UNCHANGED <<sent, served, reply>>
  <1>1. CASE Rejected
    <2>1. PICK o \in Callable : \E how \in Rejections(o) : Ends(o, how)
      BY <1>1 DEF Rejected
    <2>2. PICK how \in Rejections(o) : Ends(o, how)
      BY <2>1
    <2>3. o \in Ops /\ how \in {"invalid_time", "nil_uuid"}
      BY <2>2 DEF Callable, Rejections, Ops, Logins, Calls
    <2>4. NoneOf(Len(outcomes) + 1, sent \cup served)
      BY <1>1 DEF CInv, Present, NoneOf, Rejected
    <2>5. Justified(o, how)
      BY <2>1, <2>3, <2>4 DEF Justified, Hows, Refusals, NoneOf
    <2> QED
      BY <1>1, <2>2, <2>5 DEF Rejected
  <1>2. CASE NoHandle
    <2>1. op \in Ops /\ op \in Callable
      BY <1>2 DEF CInv, Shape, Alive, NoHandle
    <2>2. NoneOf(Len(outcomes) + 1, sent \cup served)
      BY <1>2 DEF CInv, Present, NoneOf, NoHandle
    <2>3. \/ op = "logs" /\ HowRead(op, "malformed") = "returned"
          \/ HowRead(op, "malformed") = "died"
      BY DEF HowRead
    <2>4. Justified(op, HowRead(op, "malformed"))
      BY <2>1, <2>2, <2>3 DEF Justified, Hows, Refusals, NoneOf
    <2> QED
      BY <1>2, <2>4 DEF NoHandle
  <1>3. CASE NoConnection
    <2>1. op \in Ops /\ op \in Callable
      BY <1>3 DEF CInv, Shape, Alive, NoConnection
    <2>2. NoneOf(Len(outcomes) + 1, sent \cup served)
      BY <1>3 DEF CInv, Present, NoneOf, NoConnection
    <2>3. Justified(op, "no_connection")
      BY <2>1, <2>2 DEF Justified, Hows, Refusals, NoneOf
    <2> QED
      BY <1>3, <2>3 DEF NoConnection
  <1>4. CASE Break
    <2>1. op \in Ops /\ op \in Callable
      BY <1>4 DEF CInv, Shape, Alive, Break
    <2>2. Justified(op, "broken")
      BY <2>1 DEF CInv, Present, Justified, Hows, Refusals, Aborts
    <2> QED
      BY <1>4, <2>2 DEF Break
  <1>5. CASE Receive
    <2>1. op \in Ops /\ op \in Callable /\ step = "waiting" /\ reply \in Replies
      BY <1>5 DEF CInv, Shape, Alive, Receive
    <2>2. NoneOf(Len(outcomes) + 1, sent)
      BY <1>5, <2>1 DEF CInv, Present, Receive
    <2>3. CASE op = "logs"
      <3>1. HowRead(op, reply) = "returned"
        BY <2>3 DEF HowRead
      <3>2. Justified(op, "returned")
        BY <2>1, <2>2, <2>3 DEF CInv, Present, Justified, Hows, Refusals
      <3> QED
        BY <1>5, <3>1, <3>2 DEF Receive
    <2>4. CASE op # "logs" /\ reply = "error"
      <3>1. HowRead(op, reply) = "error_code"
        BY <2>4 DEF HowRead
      <3>2. NoneOf(Len(outcomes) + 1, served)
        BY <2>1, <2>4 DEF CInv, Present
      <3>3. Justified(op, "error_code")
        BY <2>1, <2>2, <3>2 DEF CInv, Present, Justified, Hows, Refusals, NoneOf
      <3> QED
        BY <1>5, <3>1, <3>3 DEF Receive
    <2>5. CASE op # "logs" /\ reply = "bad_uuid"
      <3>1. HowRead(op, reply) = "bad_uuid"
        BY <2>5 DEF HowRead
      <3>2. Justified(op, "bad_uuid")
        BY <2>1 DEF CInv, Present, Justified, Hows, Refusals, Aborts
      <3> QED
        BY <1>5, <3>1, <3>2 DEF Receive
    <2>6. CASE op # "logs" /\ reply = "malformed"
      <3>1. HowRead(op, reply) = "died"
        BY <2>6 DEF HowRead
      <3>2. Justified(op, "died")
        BY <2>1 DEF CInv, Present, Justified, Hows, Refusals
      <3> QED
        BY <1>5, <3>1, <3>2 DEF Receive
    <2>7. CASE op # "logs" /\ reply = "good"
      <3>1. HowRead(op, reply) = "returned"
        BY <2>7 DEF HowRead
      <3>2. \E r \in served : r.n = Len(outcomes) + 1 /\ r.op = op
        BY <2>1, <2>7 DEF CInv, Present
      <3>3. Justified(op, "returned")
        BY <2>1, <2>2, <2>7, <3>2 DEF CInv, Present, Justified, Hows, Refusals
      <3> QED
        BY <1>5, <3>1, <3>3 DEF Receive
    <2> QED
      BY <2>1, <2>3, <2>4, <2>5, <2>6, <2>7 DEF Replies
  <1> QED
    BY <1>1, <1>2, <1>3, <1>4, <1>5

-----------------------------------------------------------------------------
\* The sequence of outcomes after a call.
LEMMA OutcomeAppended ==
    ASSUME CInv, NEW o \in Ops, NEW how \in Hows, Ends(o, how)
    PROVE  /\ outcomes' \in Seq([op : Ops, how : Hows])
           /\ Len(outcomes') = Len(outcomes) + 1
           /\ DOMAIN outcomes' = DOMAIN outcomes \cup {Len(outcomes) + 1}
           /\ \A n \in DOMAIN outcomes : outcomes'[n] = outcomes[n]
           /\ outcomes'[Len(outcomes) + 1] = [op |-> o, how |-> how]
           /\ Len(outcomes) + 1 \notin DOMAIN outcomes
           /\ Len(outcomes) \in Nat
  BY DEF CInv, Shape, Ends

LEMMA EndsKeeps ==
    ASSUME CInv, NEW o, NEW how, Justified(o, how), Ends(o, how),
           UNCHANGED <<sent, served, reply>>
    PROVE  CInv'
  <1>0. o \in Ops /\ how \in Hows /\ step' = "idle"
    BY DEF Justified, Ends
  <1>1. /\ outcomes' \in Seq([op : Ops, how : Hows])
        /\ Len(outcomes') = Len(outcomes) + 1
        /\ DOMAIN outcomes' = DOMAIN outcomes \cup {Len(outcomes) + 1}
        /\ \A n \in DOMAIN outcomes : outcomes'[n] = outcomes[n]
        /\ outcomes'[Len(outcomes) + 1] = [op |-> o, how |-> how]
        /\ Len(outcomes) \in Nat
    BY <1>0, OutcomeAppended
  <1>2. Shape'
    <2>1. ui_token' \in Nat /\ api_token' \in Nat
      BY <1>1 DEF CInv, Shape, Ends, UiTokenAfter, Current
    <2>2. service' \in {"none", "ui", "ready", "died"}
      BY DEF CInv, Shape, Ends, ServiceAfter
    <2> QED
      BY <1>0, <1>1, <2>1, <2>2 DEF CInv, Shape, Ends
  <1>3. Alive'
    <2>1. service # "died"
      BY DEF Justified, Callable
    <2>2. how = "died" => service' = "died"
      BY DEF Ends, ServiceAfter
    <2> QED
      BY <1>0, <1>1, <2>1, <2>2 DEF CInv, Alive
  <1>4. Past'
    BY <1>1 DEF CInv, Past, Justified, NoneOf
  <1>5. Present'
    <2>1. \A r \in sent \cup served : r.n \in 1 .. Len(outcomes) + 1
      BY DEF CInv, Present
    <2>2. \A r \in sent' \cup served' :
             r.n \in 1 .. Len(outcomes') + 1 /\ r.n # Len(outcomes') + 1
      BY <1>1, <2>1
    <2> QED
      BY <1>0, <2>2 DEF CInv, Present
  <1> QED
    BY <1>2, <1>3, <1>4, <1>5 DEF CInv

LEMMA BeginKeeps ==
    ASSUME CInv, Begin PROVE CInv'
  <1>1. /\ step = "idle" /\ step' = "open" /\ reply' = "none"
        /\ op' \in Callable /\ op' \in Ops
        /\ UNCHANGED <<service, ui_token, api_token, sent, served, outcomes>>
    BY DEF Begin, Callable, Ops, Logins, Calls
  <1>2. Shape' /\ Past'
    BY <1>1 DEF CInv, Shape, Past, NoneOf
  <1>3. Alive'
    BY <1>1 DEF CInv, Alive, Callable
  <1>4. Present'
    BY <1>1 DEF CInv, Present, NoneOf
  <1> QED
    BY <1>2, <1>3, <1>4 DEF CInv

LEMMA SendKeeps ==
    ASSUME CInv, Send PROVE CInv'
  <1> DEFINE r == [n |-> Len(outcomes) + 1, op |-> op, auth |-> Auth]
  <1>1. /\ step = "open" /\ step' = "waiting"
        /\ sent' = sent \cup {r}
        /\ UNCHANGED <<service, ui_token, api_token, op, served, reply, outcomes>>
    BY DEF Send, Current
  <1>2. Auth \in Nat /\ Len(outcomes) \in Nat
    BY DEF CInv, Shape, Auth
  <1>3. r.n = Len(outcomes) + 1 /\ r.op = op
    OBVIOUS
  <1>4. Shape'
    BY <1>1, <1>2 DEF CInv, Shape
  <1> HIDE DEF r
  <1>5. Alive'
    BY <1>1 DEF CInv, Alive, Callable
  <1>6. Past'
    <2>1. Len(outcomes) + 1 \notin DOMAIN outcomes
      BY <1>2 DEF CInv, Shape
    <2> QED
      BY <1>1, <1>3, <2>1 DEF CInv, Past, NoneOf
  <1>7. Present'
    BY <1>1, <1>2, <1>3 DEF CInv, Present, NoneOf
  <1> QED
    BY <1>4, <1>5, <1>6, <1>7 DEF CInv

LEMMA HandlesKeeps ==
    ASSUME CInv, NEW r \in sent, Handles(r) PROVE CInv'
  <1>1. PICK answer \in Replies :
          /\ \/ served' = served \cup {r} /\ answer # "error"
             \/ served' = served /\ answer \in {"error", "malformed"}
          /\ reply' = IF step = "waiting" /\ r.n = Current THEN answer ELSE reply
    BY DEF Handles
  <1>2. /\ sent' = sent \ {r}
        /\ UNCHANGED <<service, ui_token, api_token, step, op, outcomes>>
    BY DEF Handles
  <1>3. Shape'
    BY <1>1, <1>2 DEF CInv, Shape
  <1>4. Alive'
    BY <1>2 DEF CInv, Alive, Callable
  <1>5. Past'
    BY <1>1, <1>2 DEF CInv, Past, NoneOf
  <1>6. Present'
    <2>1. CASE r.n = Len(outcomes) + 1
      <3>1. /\ step = "waiting" /\ reply = "none" /\ reply' = answer
            /\ NoneOf(Len(outcomes) + 1, served)
        BY <1>1, <2>1 DEF CInv, Present, NoneOf, Current
      <3>2. NoneOf(Len(outcomes) + 1, sent')
        BY <1>2, <2>1 DEF CInv, Present, NoneOf
      <3>3. answer = "error" => NoneOf(Len(outcomes) + 1, served')
        BY <1>1, <3>1
      <3>4. answer = "good" => r \in served'
        BY <1>1
      <3>5. answer # "none"
        BY DEF Replies
      <3>6. \A q \in sent' \cup served' : q \in sent \cup served
        BY <1>1, <1>2
      <3> QED
        BY <1>2, <2>1, <3>1, <3>2, <3>3, <3>4, <3>5, <3>6 DEF CInv, Present
    <2>2. CASE r.n # Len(outcomes) + 1
      <3>1. reply' = reply
        BY <1>1, <2>2 DEF Current
      <3> QED
        BY <1>1, <1>2, <2>2, <3>1 DEF CInv, Present, NoneOf
    <2> QED
      BY <2>1, <2>2
  <1> QED
    BY <1>3, <1>4, <1>5, <1>6 DEF CInv

LEMMA CallInductive == Spec => []CInv
  <1>1. Init => CInv
    BY DEF Init, CInv, Shape, Alive, Past, Present, NoneOf, Ops, Logins, Callable
  <1>2. CInv /\ [Next]_vars => CInv'
    <2> SUFFICES ASSUME CInv, [Next]_vars PROVE CInv'
      OBVIOUS
    <2>1. CASE Rejected \/ NoHandle \/ NoConnection \/ Break \/ Receive
      BY <2>1, EndsJustified, EndsKeeps
    <2>2. CASE Begin
      BY <2>2, BeginKeeps
    <2>3. CASE Send
      BY <2>3, SendKeeps
    <2>4. CASE Server
      BY <2>4, HandlesKeeps DEF Server
    <2>5. CASE UNCHANGED vars
      BY <2>5 DEF vars, CInv, Shape, Alive, Past, Present, NoneOf, Callable
    <2> QED
      BY <2>1, <2>2, <2>3, <2>4, <2>5 DEF Next
  <1> QED
    BY <1>1, <1>2, PTL DEF Spec

-----------------------------------------------------------------------------
\* The abstract state a state of Call stands for.
Seen == [n \in DOMAIN outcomes |-> Outcome(outcomes[n])]
Done == {r.n : r \in served} \cap DOMAIN outcomes

LEMMA ElementType ==
    ASSUME NEW S, NEW s \in Seq(S), NEW n \in DOMAIN s
    PROVE  s[n] \in S
  OBVIOUS

LEMMA OutcomeHow ==
    ASSUME NEW o \in Ops, NEW how \in Hows
    PROVE  LET x == Outcome([op |-> o, how |-> how]) IN
           /\ x.how \in {"answered", "refused", "aborted", "died"}
           /\ x = [op |-> o, how |-> x.how]
           /\ x.how = "answered" <=> how = "returned"
           /\ x.how = "refused" <=> how \in Refusals
           /\ x.how \in {"aborted", "died"} <=> how \in Aborts \cup {"died"}
           /\ x.how = "died" <=> how = "died"
  BY DEF Outcome, Hows, Refusals, Aborts

\* A call that ends is a step of the abstract specification.
LEMMA EndsIsCall ==
    ASSUME CInv, NEW o, NEW how, Justified(o, how), Ends(o, how),
           UNCHANGED <<sent, served, reply>>
    PROVE  Abstract!Next
  <1> DEFINE x == Outcome([op |-> o, how |-> how])
             k == Len(outcomes) + 1
  <1>1. o \in Ops /\ how \in Hows
    BY DEF Justified
  <1>2. /\ x.how \in {"answered", "refused", "aborted", "died"}
        /\ x = [op |-> o, how |-> x.how]
        /\ x.how = "answered" => how = "returned"
        /\ x.how = "refused" => how \in Refusals
    BY <1>1, OutcomeHow
  <1>3. /\ DOMAIN outcomes' = DOMAIN outcomes \cup {k}
        /\ \A n \in DOMAIN outcomes : outcomes'[n] = outcomes[n]
        /\ outcomes'[k] = [op |-> o, how |-> how]
        /\ k \notin DOMAIN outcomes
        /\ DOMAIN outcomes = 1 .. Len(outcomes) /\ Len(outcomes) \in Nat
    <2>1. DOMAIN outcomes = 1 .. Len(outcomes)
      BY DEF CInv, Shape
    <2> QED
      BY <1>1, <2>1, OutcomeAppended
  <1>4. Len(Seen) = Len(outcomes) /\ DOMAIN Seen = DOMAIN outcomes
        /\ Seen = [n \in 1 .. Len(outcomes) |-> Seen[n]]
    <2>1. Seen = [n \in 1 .. Len(outcomes) |-> Outcome(outcomes[n])]
      BY <1>3 DEF Seen
    <2> QED
      BY <1>3, <2>1
  <1>5. Seen' = Append(Seen, x)
    <2>1. Seen' = [n \in 1 .. k |-> Outcome(outcomes'[n])]
      <3>1. DOMAIN outcomes' = 1 .. k
        BY <1>3
      <3> QED
        BY <3>1 DEF Seen
    <2>2. \A n \in 1 .. k :
             Outcome(outcomes'[n]) = IF n = k THEN x ELSE Seen[n]
      BY <1>3 DEF Seen
    <2>3. Seen' = [n \in 1 .. k |-> IF n = k THEN x ELSE Seen[n]]
      BY <2>1, <2>2, Zenon
    <2> HIDE DEF x
    <2> QED
      BY <1>3, <1>4, <2>3
  <1>6. \/ Done' = Done /\ NoneOf(k, served)
        \/ Done' = Done \cup {k} /\ ~ NoneOf(k, served)
    <2> DEFINE numbers == {r.n : r \in served}
    <2>1. Done' = numbers \cap (DOMAIN outcomes \cup {k})
      BY <1>3 DEF Done
    <2>2. Done = numbers \cap DOMAIN outcomes
      BY DEF Done
    <2>3. NoneOf(k, served) <=> k \notin numbers
      BY DEF NoneOf
    <2> HIDE DEF numbers, k
    <2>4. CASE k \in numbers
      <3>1. numbers \cap (DOMAIN outcomes \cup {k})
               = (numbers \cap DOMAIN outcomes) \cup {k}
        BY <2>4
      <3> QED
        BY <2>1, <2>2, <2>3, <2>4, <3>1, Zenon
    <2>5. CASE k \notin numbers
      <3>1. numbers \cap (DOMAIN outcomes \cup {k}) = numbers \cap DOMAIN outcomes
        BY <2>5
      <3> QED
        BY <2>1, <2>2, <2>3, <2>5, <3>1, Zenon
    <2> QED
      BY <2>4, <2>5
  <1>7. /\ x.how = "refused" => NoneOf(k, served)
        /\ x.how = "answered" /\ o # "logs" => ~ NoneOf(k, served)
    BY <1>2 DEF Justified, NoneOf
  <1>8. \A n \in DOMAIN Seen : Seen[n].how # "died"
    <2>1. service # "died"
      BY DEF Justified, Callable
    <2>2. \A n \in DOMAIN outcomes :
             outcomes[n] \in [op : Ops, how : Hows] /\ outcomes[n].how # "died"
      <3>1. \A n \in DOMAIN outcomes : outcomes[n] \in [op : Ops, how : Hows]
        BY ElementType DEF CInv, Shape
      <3> QED
        BY <2>1, <3>1 DEF CInv, Alive
    <2>3. ASSUME NEW n \in DOMAIN outcomes
          PROVE  Outcome(outcomes[n]).how # "died"
      BY <2>2, <2>3 DEF Outcome, Hows, Refusals, Aborts
    <2> QED
      BY <2>3 DEF Seen
  <1> HIDE DEF x
  <1>9. Abstract!Call(o, x.how)
    BY <1>2, <1>4, <1>5, <1>6, <1>7, <1>8
       DEF Abstract!Call, Abstract!Certain, Seen, Done
  <1> QED
    BY <1>1, <1>2, <1>9 DEF Abstract!Next, Ops, Logins, Calls

\* What the server does is a late step, or none the caller could see.
LEMMA HandlesIsLate ==
    ASSUME CInv, NEW r \in sent, Handles(r)
    PROVE  Abstract!Late \/ (Seen' = Seen /\ Done' = Done)
  <1>1. outcomes' = outcomes /\ (served' = served \/ served' = served \cup {r})
    BY DEF Handles
  <1>2. Seen' = Seen
    BY <1>1 DEF Seen, Outcome
  <1>3. CASE served' = served \/ r.n \notin DOMAIN outcomes
    BY <1>1, <1>2, <1>3 DEF Done
  <1>4. CASE served' = served \cup {r} /\ r.n \in DOMAIN outcomes
    <2>1. Done' = Done \cup {r.n}
      BY <1>1, <1>4 DEF Done
    <2>2. /\ outcomes[r.n] \in [op : Ops, how : Hows]
          /\ outcomes[r.n].how \notin Refusals \cup {"returned"}
      <3>1. outcomes[r.n] \in [op : Ops, how : Hows]
        BY <1>4, ElementType DEF CInv, Shape
      <3> QED
        BY <1>4, <3>1 DEF CInv, Past, NoneOf
    <2>3. Outcome(outcomes[r.n]).how \in {"aborted", "died"}
      BY <2>2 DEF Outcome, Hows, Refusals, Aborts
    <2>4. r.n \in DOMAIN Seen /\ Seen[r.n].how \in {"aborted", "died"}
      BY <1>4, <2>3 DEF Seen
    <2> QED
      BY <1>2, <2>1, <2>4 DEF Abstract!Late, Seen, Done
  <1> QED
    BY <1>1, <1>3, <1>4

\* A call of the detailed module is, to its caller, one step: what returned was
\* processed (but for logs), what was refused never will be.
THEOREM CallsAreSteps == Spec => OneStep
  <1>1. Init => Abstract!Init
    BY DEF Init, Abstract!Init
  <1>2. CInv /\ [Next]_vars => [Abstract!Next]_(Abstract!vars)
    <2> SUFFICES ASSUME CInv, [Next]_vars
                 PROVE  Abstract!Next \/ (Seen' = Seen /\ Done' = Done)
      BY DEF Abstract!vars, Seen, Done
    <2>1. CASE Rejected \/ NoHandle \/ NoConnection \/ Break \/ Receive
      BY <2>1, EndsJustified, EndsIsCall
    <2>2. CASE Begin \/ Send \/ UNCHANGED vars
      <3>1. outcomes' = outcomes /\ served' = served
        BY <2>2 DEF Begin, Send, vars
      <3> QED
        BY <3>1 DEF Seen, Done, Outcome
    <2>3. CASE Server
      BY <2>3, HandlesIsLate DEF Server, Abstract!Next
    <2> QED
      BY <2>1, <2>2, <2>3 DEF Next
  <1> QED
    BY <1>1, <1>2, CallInductive, PTL DEF Spec, OneStep, Abstract!Spec

-----------------------------------------------------------------------------
\* The token of a login that was processed, no later one having returned.
Newest(o, token) ==
    /\ token \in 1 .. Len(outcomes)
    /\ \E t \in served : t.n = token /\ t.op = o
    /\ \A n \in token + 1 .. Len(outcomes) :
          outcomes[n].op = o => outcomes[n].how # "returned"

AInv ==
    /\ Authorised
    /\ service = "ui" => Newest("ui_token", ui_token)
    /\ service = "ready" => api_token # 0
    /\ api_token # 0 => Newest("api_token", api_token)

LEMMA EndsAuthorised ==
    ASSUME CInv, AInv, NEW o, NEW how, Justified(o, how), Ends(o, how),
           UNCHANGED <<sent, served, reply>>
    PROVE  AInv'
  <1>1. /\ Len(outcomes') = Len(outcomes) + 1
        /\ Len(outcomes) \in Nat
        /\ DOMAIN outcomes = 1 .. Len(outcomes)
        /\ \A n \in 1 .. Len(outcomes) : outcomes'[n] = outcomes[n]
        /\ outcomes'[Len(outcomes) + 1] = [op |-> o, how |-> how]
    <2>1. DOMAIN outcomes = 1 .. Len(outcomes)
      BY DEF CInv, Shape
    <2> QED
      BY <2>1, OutcomeAppended DEF Justified
  <1>2. Authorised'
    <2> SUFFICES ASSUME NEW r \in sent \cup served, r.op # "ui_token"
                 PROVE  /\ \E t \in served :
                              t.n = r.auth /\ t.n < r.n /\ t.op = LoginOf(r.op)
                        /\ \A n \in r.auth + 1 .. r.n - 1 :
                              outcomes'[n].op = LoginOf(r.op)
                                 => outcomes'[n].how # "returned"
      BY DEF Authorised
    <2>1. r.n \in 1 .. Len(outcomes) + 1 /\ r.auth \in Nat
      BY DEF CInv, Present, Shape
    <2>2. \A n \in r.auth + 1 .. r.n - 1 : n \in 1 .. Len(outcomes)
      BY <1>1, <2>1
    <2> QED
      BY <1>1, <2>2 DEF AInv, Authorised
  <1>3. ASSUME how = "returned", o # "logs", NEW token,
               token = Len(outcomes) + 1
        PROVE  Newest(o, token)'
    <2>1. \E t \in served : t.n = Len(outcomes) + 1 /\ t.op = o
      BY <1>3 DEF Justified
    <2> QED
      BY <1>1, <1>3, <2>1 DEF Newest
  <1>4. ASSUME NEW q, NEW token, Newest(q, token), ~ (o = q /\ how = "returned")
        PROVE  Newest(q, token)'
    <2>1. token \in 1 .. Len(outcomes) /\ \E t \in served : t.n = token /\ t.op = q
      BY <1>4 DEF Newest
    <2>2. ASSUME NEW n \in token + 1 .. Len(outcomes) + 1, outcomes'[n].op = q
          PROVE  outcomes'[n].how # "returned"
      <3>1. CASE n = Len(outcomes) + 1
        BY <1>1, <1>4, <2>2, <3>1
      <3>2. CASE n # Len(outcomes) + 1
        <4>1. n \in token + 1 .. Len(outcomes) /\ n \in 1 .. Len(outcomes)
          BY <1>1, <2>1, <3>2
        <4> QED
          BY <1>1, <1>4, <2>2, <4>1 DEF Newest
      <3> QED
        BY <3>1, <3>2
    <2> QED
      BY <1>1, <2>1, <2>2 DEF Newest
  <1>5. service' = "ui" => how = "returned" /\ o = "ui_token"
    BY DEF Ends, ServiceAfter, Justified, Callable, Logins, Calls
  <1>6. service' = "ready" => api_token' # 0
    BY <1>1 DEF AInv, Ends, ServiceAfter, Current, Justified, Callable, Logins,
                Calls
  <1>7. /\ how = "returned" /\ o = "ui_token" => ui_token' = Len(outcomes) + 1
        /\ IF how = "returned" /\ o = "api_token"
           THEN api_token' = Len(outcomes) + 1 ELSE api_token' = api_token
    BY DEF Ends, UiTokenAfter, Current
  <1>8. service' = "ui" => Newest("ui_token", ui_token)'
    BY <1>1, <1>3, <1>5, <1>7 DEF Newest
  <1>9. api_token' # 0 => Newest("api_token", api_token)'
    <2>1. CASE how = "returned" /\ o = "api_token"
      BY <1>1, <1>3, <1>7, <2>1 DEF Newest
    <2>2. CASE ~ (how = "returned" /\ o = "api_token")
      <3>1. api_token' = api_token
        BY <1>7, <2>2
      <3>2. api_token # 0 => Newest("api_token", api_token)
        BY DEF AInv
      <3>3. PICK token : token = api_token
        OBVIOUS
      <3>4. api_token # 0 => Newest("api_token", token)'
        BY <1>4, <2>2, <3>2, <3>3
      <3> QED
        BY <3>1, <3>3, <3>4 DEF Newest
    <2> QED
      BY <2>1, <2>2
  <1> QED
    BY <1>2, <1>6, <1>8, <1>9 DEF AInv

LEMMA SendAuthorised ==
    ASSUME CInv, AInv, Send PROVE AInv'
  <1> DEFINE r == [n |-> Len(outcomes) + 1, op |-> op, auth |-> Auth]
  <1>1. /\ step = "open" /\ sent' = sent \cup {r}
        /\ UNCHANGED <<service, ui_token, api_token, op, served, outcomes>>
    BY DEF Send, Current
  <1>2. r.n = Len(outcomes) + 1 /\ r.op = op /\ r.auth = Auth
    OBVIOUS
  <1>3. Len(outcomes) \in Nat
    BY DEF CInv, Shape
  <1> HIDE DEF r
  <1>4. op # "ui_token" => Newest(LoginOf(op), Auth)
    <2>1. op \in Callable
      BY <1>1 DEF CInv, Alive
    <2>2. CASE op = "api_token"
      <3>1. service = "ui" /\ Auth = ui_token
        BY <2>1, <2>2 DEF Callable, Calls, Auth
      <3> QED
        BY <2>2, <3>1 DEF AInv, LoginOf
    <2>3. CASE op # "api_token" /\ op # "ui_token"
      <3>1. service = "ready" /\ Auth = api_token
        BY <2>1, <2>3 DEF Callable, Calls, Auth
      <3> QED
        BY <2>3, <3>1 DEF AInv, LoginOf
    <2> QED
      BY <2>2, <2>3
  <1>5. Authorised'
    <2>1. ASSUME r.op # "ui_token"
          PROVE  /\ \E t \in served :
                       t.n = r.auth /\ t.n < r.n /\ t.op = LoginOf(r.op)
                 /\ \A n \in r.auth + 1 .. r.n - 1 :
                       outcomes[n].op = LoginOf(r.op)
                          => outcomes[n].how # "returned"
      <3>1. Newest(LoginOf(r.op), r.auth)
        BY <1>2, <1>4, <2>1
      <3>2. r.n - 1 = Len(outcomes) /\ \A n \in 1 .. Len(outcomes) : n < r.n
        BY <1>2, <1>3
      <3> QED
        BY <3>1, <3>2 DEF Newest
    <2> QED
      BY <1>1, <2>1 DEF AInv, Authorised
  <1>6. \A o, token : Newest(o, token) => Newest(o, token)'
    BY <1>1 DEF Newest
  <1> QED
    BY <1>1, <1>5, <1>6 DEF AInv

\* Every request goes out with the newest token a constructor has got, whatever
\* the constructors that threw were answered.
THEOREM RequestsAuthorised == Spec => []Authorised
  <1>1. Init => AInv
    BY DEF Init, AInv, Authorised
  <1>2. CInv /\ AInv /\ [Next]_vars => AInv'
    <2> SUFFICES ASSUME CInv, AInv, [Next]_vars PROVE AInv'
      OBVIOUS
    <2>1. CASE Rejected \/ NoHandle \/ NoConnection \/ Break \/ Receive
      BY <2>1, EndsJustified, EndsAuthorised
    <2>2. CASE Send
      BY <2>2, SendAuthorised
    <2>3. CASE Begin \/ UNCHANGED vars
      <3>1. UNCHANGED <<service, ui_token, api_token, sent, served, outcomes>>
        BY <2>3 DEF Begin, vars
      <3> QED
        BY <3>1 DEF AInv, Authorised, Newest
    <2>4. CASE Server
      <3>1. /\ sent' \cup served' \subseteq sent \cup served
            /\ served \subseteq served'
            /\ UNCHANGED <<service, ui_token, api_token, outcomes>>
        BY <2>4 DEF Server, Handles
      <3> QED
        BY <3>1 DEF AInv, Authorised, Newest
    <2> QED
      BY <2>1, <2>2, <2>3, <2>4 DEF Next
  <1>3. AInv => Authorised
    BY DEF AInv
  <1> QED
    BY <1>1, <1>2, <1>3, CallInductive, PTL DEF Spec

-----------------------------------------------------------------------------
\* What TypeOK says beyond Shape.
Bounded ==
    /\ Len(outcomes) <= MaxCalls
    /\ step # "idle" => Len(outcomes) < MaxCalls
    /\ ui_token <= MaxCalls /\ api_token <= MaxCalls
    /\ \A r \in sent \cup served : r.n \in 1 .. MaxCalls /\ r.auth <= MaxCalls

\* Every variable keeps its type and its bound, the answers read as one of the
\* outcomes the caller can see.
THEOREM TypesHold == Spec => []TypeOK
  <1>1. Init => Bounded
    BY CallsAssumption DEF Init, Bounded
  <1>2. CInv /\ Bounded /\ [Next]_vars => Bounded'
    <2> SUFFICES ASSUME CInv, Bounded, [Next]_vars PROVE Bounded'
      OBVIOUS
    <2>0. Len(outcomes) \in Nat
      BY DEF CInv, Shape
    <2>1. CASE Rejected \/ NoHandle \/ NoConnection \/ Break \/ Receive
      <3>1. PICK o, how : /\ Justified(o, how) /\ Ends(o, how)
                          /\ UNCHANGED <<sent, served, reply>>
        BY <2>1, EndsJustified
      <3>2. Len(outcomes') = Len(outcomes) + 1 /\ step' = "idle"
        BY <3>1, OutcomeAppended DEF Justified, Ends
      <3>3. Len(outcomes) < MaxCalls
        BY <2>1 DEF Bounded, Rejected, NoHandle, NoConnection, Break, Receive
      <3>4. ui_token' <= MaxCalls /\ api_token' <= MaxCalls
        BY <2>0, <3>1, <3>3, CallsAssumption
           DEF Bounded, Ends, UiTokenAfter, Current
      <3> QED
        BY <2>0, <3>1, <3>2, <3>3, <3>4, CallsAssumption DEF Bounded
    <2>2. CASE Send
      <3>1. Auth \in Nat /\ Auth <= MaxCalls
        BY CallsAssumption DEF CInv, Shape, Bounded, Auth
      <3> QED
        BY <2>0, <2>2, <3>1, CallsAssumption DEF Bounded, Send, Current
    <2>3. CASE Begin \/ UNCHANGED vars
      BY <2>3 DEF Bounded, Begin, vars
    <2>4. CASE Server
      BY <2>4 DEF Bounded, Server, Handles
    <2> QED
      BY <2>1, <2>2, <2>3, <2>4 DEF Next
  <1>3. CInv /\ Bounded => TypeOK
    BY CallsAssumption DEF CInv, Shape, Bounded, TypeOK, Request, Ops
  <1> QED
    BY <1>1, <1>2, <1>3, CallInductive, PTL DEF Spec
=============================================================================
