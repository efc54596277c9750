--------------------------- MODULE TransportProofs ---------------------------
(***************************************************************************)
(* What a sequence of calls of any length leaves behind in curl.           *)
(***************************************************************************)
EXTENDS Transport, TLAPS

AInv == TypeOK /\ LeftBehind

LEMMA StepKeeps ==
    ASSUME AInv, [Next]_vars
    PROVE  AInv'
<1> USE DEF AInv, TypeOK, LeftBehind, Holding, Running, curlVars, Logins, Requests
<1>1. CASE Open
  <2>1. call' \in Logins \cup Requests
    BY <1>1 DEF Open, Callable
  <2> QED BY <1>1, <2>1 DEF Open
<1>2. CASE NoHandle
  BY <1>2 DEF NoHandle
<1>3. CASE Acquire
  BY <1>3 DEF Acquire
<1>4. CASE Release
  BY <1>4 DEF Release
<1>5. CASE Throw
  BY <1>5 DEF Throw
<1>6. CASE Return
  <2>1. service' \in {"none", "ui_token", "ready", "died"}
    BY <1>6 DEF Return, Outcomes
  <2> QED BY <1>6, <2>1 DEF Return
<1>7. CASE UNCHANGED vars
  BY <1>7 DEF vars
<1> QED BY <1>1, <1>2, <1>3, <1>4, <1>5, <1>6, <1>7 DEF Next

LEMMA TransportInvariant == Spec => []AInv
<1>1. Init => AInv
  BY CallAssumption
     DEF CallAssumption, Init, AInv, TypeOK, LeftBehind, Holding, Running,
         Logins, Requests
<1>2. AInv /\ [Next]_vars => AInv'
  BY StepKeeps
<1> QED BY <1>1, <1>2, PTL DEF Spec

\* No count is ever negative: nothing is released that was not acquired.
THEOREM TypesHold == Spec => []TypeOK
<1>1. AInv => TypeOK
  BY DEF AInv
<1> QED BY <1>1, TransportInvariant, PTL

\* However many calls are made and however they end, what they leave behind
\* is exactly what the failed ones held, and the forms.
THEOREM LeaksAreExact == Spec => []LeftBehind
<1>1. AInv => LeftBehind
  BY DEF AInv
<1> QED BY <1>1, TransportInvariant, PTL

\* No call closes curl under a handle that an earlier one has left.
THEOREM CurlStaysOpen == Spec => []CurlOutlivesHandles
<1>1. AInv => CurlOutlivesHandles
  BY DEF AInv, TypeOK, LeftBehind, CurlOutlivesHandles, Holding, Running
<1> QED BY <1>1, TransportInvariant, PTL
=============================================================================
