------------------------------ MODULE Transport ------------------------------
(***************************************************************************)
(* What service.cpp acquires from curl and gives back: the constructor     *)
(* (get_ui_token, then get_api_token) and the calls of a service that      *)
(* exists (post, mime, put), one after the other.  Every function opens    *)
(* curl, takes a handle and a header list, performs the transfer, releases *)
(* them and closes curl; when the transfer fails it throws before the      *)
(* release.                                                                *)
(***************************************************************************)
EXTENDS Naturals

CONSTANT MaxCalls       \* bound: how many calls are made

ASSUME CallAssumption == MaxCalls \in Nat

Logins == {"get_ui_token", "get_api_token"}
Requests == {"post", "mime", "put"}

VARIABLES
    service,    \* how far the constructor has come, or that the process ended
    call,       \* the function running, or the last one that ran
    step,       \* where it is
    inits,      \* curl_global_init minus curl_global_cleanup
    handles,    \* easy handles that exist
    lists,      \* header lists that exist
    mimes,      \* curl_mime structures that exist
    calls,      \* how many calls were made
    threw,      \* history: how many of them threw inside the function
    forms       \* history: how many times mime() had a handle

curlVars == <<inits, handles, lists, mimes>>
vars == <<service, call, step, curlVars, calls, threw, forms>>

Init ==
    /\ service = "none"
    /\ call = "get_ui_token"
    /\ step = "idle"
    /\ inits = 0 /\ handles = 0 /\ lists = 0 /\ mimes = 0
    /\ calls = 0 /\ threw = 0 /\ forms = 0

-----------------------------------------------------------------------------
\* The constructor asks for the two tokens in turn; only then is there a
\* service to call.
Callable ==
    CASE service = "none" -> {"get_ui_token"}
      [] service = "ui_token" -> {"get_api_token"}
      [] service = "ready" -> Requests
      [] OTHER -> {}

\* curl_global_init
Open ==
    /\ step = "idle"
    /\ calls < MaxCalls
    /\ call' \in Callable
    /\ step' = "open"
    /\ inits' = inits + 1
    /\ calls' = calls + 1
    /\ UNCHANGED <<service, handles, lists, mimes, threw, forms>>

\* Mutation: what was acquired under `if (curl)` is released in any case.
NoHandleReleases ==
    /\ step = "open"
    /\ step' = "empty"
    /\ handles' = handles - 1
    /\ lists' = lists - 1
    /\ UNCHANGED <<service, call, inits, mimes, calls, threw, forms>>

\* curl_easy_init gives no handle: the function will return an empty string.
NoHandle ==
    /\ step = "open"
    /\ step' = "empty"
    /\ UNCHANGED <<service, call, curlVars, calls, threw, forms>>

\* The handle, the header list and, in mime(), the multipart form.
Acquire ==
    /\ step = "open"
    /\ step' = "held"
    /\ handles' = handles + 1
    /\ lists' = lists + 1
    /\ mimes' = IF call = "mime" THEN mimes + 1 ELSE mimes
    /\ forms' = IF call = "mime" THEN forms + 1 ELSE forms
    /\ UNCHANGED <<service, call, inits, calls, threw>>

\* Mutation: the list is not freed.
ReleaseHandleOnly ==
    /\ step = "held"
    /\ step' = "released"
    /\ handles' = handles - 1
    /\ UNCHANGED <<service, call, inits, lists, mimes, calls, threw, forms>>

\* curl_easy_perform has returned CURLE_OK: curl_easy_cleanup and
\* curl_slist_free_all.  Nobody calls curl_mime_free.
Release ==
    /\ step = "held"
    /\ step' = "released"
    /\ handles' = handles - 1
    /\ lists' = lists - 1
    /\ UNCHANGED <<service, call, inits, mimes, calls, threw, forms>>

\* Mutation: curl is closed before the exception leaves the function.
ThrowClosed ==
    /\ step = "held"
    /\ step' = "idle"
    /\ service' = IF call \in Logins THEN "none" ELSE service
    /\ threw' = threw + 1
    /\ inits' = inits - 1
    /\ UNCHANGED <<call, handles, lists, mimes, calls, forms>>

\* curl_easy_perform has failed.  A constructor that throws leaves no service:
\* the user may construct another.
Throw ==
    /\ step = "held"
    /\ step' = "idle"
    /\ service' = IF call \in Logins THEN "none" ELSE service
    /\ threw' = threw + 1
    /\ UNCHANGED <<call, curlVars, calls, forms>>

\* What the caller makes of the answer: an errorCode throws, an answer that is
\* not the JSON expected, such as an empty one, ends the process.  batch_logs
\* does not look.
Outcomes ==
    IF call = "mime" THEN {"ready"}
    ELSE IF step = "empty" THEN {"died"}
    ELSE CASE call = "get_ui_token"  -> {"ui_token", "none", "died"}
           [] call = "get_api_token" -> {"ready", "none", "died"}
           [] OTHER                  -> {"ready", "died"}

\* curl_global_cleanup, and back to the caller.
Return ==
    /\ step \in {"empty", "released"}
    /\ step' = "idle"
    /\ inits' = inits - 1
    /\ service' \in Outcomes
    /\ UNCHANGED <<call, handles, lists, mimes, calls, threw, forms>>

Next == Open \/ NoHandle \/ Acquire \/ Release \/ Throw \/ Return

Spec == Init /\ [][Next]_vars

-----------------------------------------------------------------------------
TypeOK ==
    /\ service \in {"none", "ui_token", "ready", "died"}
    /\ call \in Logins \cup Requests
    /\ step \in {"idle", "open", "empty", "held", "released"}
    /\ inits \in Nat /\ handles \in Nat /\ lists \in Nat /\ mimes \in Nat
    /\ calls \in Nat /\ threw \in Nat /\ forms \in Nat

Holding == IF step = "held" THEN 1 ELSE 0
Running == IF step = "idle" THEN 0 ELSE 1

\* What is left of the calls that are over, whatever their order and outcome:
\* a handle, a header list and an open curl for each that threw, a form for
\* each mime() that had a handle, and nothing else.
LeftBehind ==
    /\ handles = threw + Holding
    /\ lists = threw + Holding
    /\ inits = threw + Running
    /\ mimes = forms

\* curl is not closed while a handle of its exists: a call that throws keeps
\* both.
CurlOutlivesHandles == handles > 0 => inits > 0

-----------------------------------------------------------------------------
\* The comment in front of the release says it always happens.  Expected to
\* be violated: a failed transfer throws before it.
AlwaysCleanup == step = "idle" => handles = 0 /\ lists = 0
=============================================================================
