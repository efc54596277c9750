------------------------------ MODULE Transfer ------------------------------
(***************************************************************************)
(* One curl_easy_perform of service::put, and the two callbacks it is      *)
(* given (src/src/service.cpp).  curl asks read_function for the body one  *)
(* buffer at a time, until it has sent exactly CURLOPT_INFILESIZE bytes or *)
(* the server answers; it hands the answer to write_function in chunks.    *)
(* curl and the server are external: what they do here is what the         *)
(* callbacks have to cope with.                                            *)
(*                                                                         *)
(* The k-th byte of the body, and of the answer, is the number k.          *)
(***************************************************************************)
EXTENDS Integers, Sequences

CONSTANTS
    MaxLength,      \* bound: the length of a body or an answer
    BufferSizes,    \* the sizes of the buffers curl may offer
    MaxReads        \* bound: how often curl asks

ASSUME SizeAssumption ==
    /\ MaxLength \in Nat /\ MaxReads \in Nat
    /\ BufferSizes \subseteq Nat \ {0}
    /\ BufferSizes # {}

VARIABLES
    length,     \* read_function_data::data.length()
    answer,     \* the length of the server's answer
    phase,      \* what curl is doing
    whole,      \* the server has taken a whole body
    index,      \* read_function_data::index
    sent,       \* the bytes read_function has delivered
    reads,      \* how often it was called
    result      \* what write_function has collected

vars == <<length, answer, phase, whole, index, sent, reads, result>>

Nul == 0        \* the terminator of a string, and strncpy's padding
Alien == -1     \* a byte of memory that is not the body's

Init ==
    /\ length \in 1 .. MaxLength
    /\ answer \in 0 .. MaxLength
    /\ phase = "sending"
    /\ whole = FALSE
    /\ index = 0
    /\ sent = << >>
    /\ reads = 0
    /\ result = << >>

-----------------------------------------------------------------------------
\* Mutation: as much as the buffer holds.
AmountUnbounded(nitems) == nitems

\* Mutation: one byte is kept for the terminator.
AmountTerminated(nitems) == IF nitems < length THEN nitems ELSE length - 1

\* How much one call of read_function says it has copied.
AmountCopied(nitems) == IF nitems < length THEN nitems ELSE length

\* strncpy stops at the end of the string and pads with NULs; begun beyond
\* the end, it reads memory that belongs to something else.
Copied(n) ==
    IF index <= length
        THEN {[k \in 1 .. n |-> IF index + k <= length THEN index + k ELSE Nul]}
        ELSE [1 .. n -> {Nul, Alien}]

\* Mutation: every call starts at the beginning.
IndexKept(n) == index

IndexAfter(n) == index + n

\* read_function, for the next buffer.
Read ==
    /\ phase = "sending"
    /\ Len(sent) # length
    /\ reads < MaxReads
    /\ \E nitems \in BufferSizes :
          LET n == AmountCopied(nitems) IN
          /\ \E bytes \in Copied(n) : sent' = sent \o bytes
          /\ index' = IndexAfter(n)
    /\ reads' = reads + 1
    /\ UNCHANGED <<length, answer, phase, whole, result>>

\* The server answers once it has a whole body, or turns the request down on
\* its headers; curl then sends no more.
Answer ==
    /\ phase = "sending"
    /\ phase' = "receiving"
    /\ whole' = (Len(sent) >= length)
    /\ UNCHANGED <<length, answer, index, sent, reads, result>>

\* Mutation: the string is assigned, not appended to.
CollectedLast(chunk) == chunk

Collected(chunk) == result \o chunk

\* write_function, for the next n bytes of the answer.
Write ==
    /\ phase = "receiving"
    /\ \E n \in 1 .. answer - Len(result) :
          result' = Collected([k \in 1 .. n |-> Len(result) + k])
    /\ UNCHANGED <<length, answer, phase, whole, index, sent, reads>>

Returns ==
    /\ phase = "receiving"
    /\ Len(result) = answer
    /\ phase' = "returned"
    /\ UNCHANGED <<length, answer, whole, index, sent, reads, result>>

\* The connection is lost: curl_easy_perform does not return CURLE_OK.
Fails ==
    /\ phase \in {"sending", "receiving"}
    /\ phase' = "failed"
    /\ UNCHANGED <<length, answer, whole, index, sent, reads, result>>

Next == Read \/ Answer \/ Write \/ Returns \/ Fails

Spec == Init /\ [][Next]_vars

\* curl goes on asking and delivering, and a server that has a whole body
\* answers it: nothing else bounds the time of a transfer.
FairSpec ==
    /\ Spec
    /\ WF_vars(Read)
    /\ WF_vars(Len(sent) >= length /\ Answer)
    /\ WF_vars(Write \/ Returns)

-----------------------------------------------------------------------------
TypeOK ==
    /\ length \in 1 .. MaxLength
    /\ answer \in 0 .. MaxLength
    /\ phase \in {"sending", "receiving", "returned", "failed"}
    /\ whole \in BOOLEAN
    /\ index \in Nat
    /\ sent \in Seq(Int)
    /\ reads \in 0 .. MaxReads
    /\ result \in Seq(Int)

\* Whatever buffers curl offers, the bytes it sends begin with the body, in
\* order and without a gap: what read_function adds comes after it, and a
\* request the server has taken as a whole is the one the caller made.
BodyArrives ==
    /\ \A k \in 1 .. length : k <= Len(sent) => sent[k] = k
    /\ whole => Len(sent) >= length

\* A body that fits in one buffer is read once and never beyond its end, even
\* though read_function does not look at what is left.
ShortBodyReadOnce ==
    (\A b \in BufferSizes : length <= b) =>
        /\ reads <= 1
        /\ index <= length
        /\ sent # << >> => sent = [k \in 1 .. length |-> k]

\* Whatever chunks the answer comes in, the caller gets all of it and nothing
\* else, and at any time what is there is its beginning.
ResultIsAnswer ==
    /\ \A k \in 1 .. Len(result) : result[k] = k
    /\ phase = "returned" => Len(result) = answer

\* A transfer ends: the callbacks deliver the whole body whatever the sizes of
\* the buffers, so a server that waits for it is not waited for in turn.
TransferEnds == <>(phase \in {"returned", "failed"})
=============================================================================
