--------------------------- MODULE TransferProofs ---------------------------
(***************************************************************************)
(* The two callbacks of a transfer do what they are for with bodies and    *)
(* answers of any length, cut in any way.                                  *)
(***************************************************************************)
EXTENDS Transfer, SequenceTheorems, TLAPS

\* A body that fits in one buffer: nothing was asked for yet, or all of it
\* was delivered at once, and curl has no reason to ask again.
ReadsInv ==
    /\ index = Len(sent)
    /\ (\A b \in BufferSizes : length <= b) =>
          \/ reads = 0 /\ sent = << >>
          \/ reads = 1 /\ sent = [k \in 1 .. length |-> k]

TInv ==
    /\ TypeOK
    /\ ReadsInv
    /\ BodyArrives
    /\ ResultIsAnswer

LEMMA ReadKeeps ==
    ASSUME TInv, Read
    PROVE  TInv'
<1> USE SizeAssumption DEF SizeAssumption
<1>1. PICK nitems \in BufferSizes :
          /\ \E bytes \in Copied(AmountCopied(nitems)) : sent' = sent \o bytes
          /\ index' = IndexAfter(AmountCopied(nitems))
  BY DEF Read
<1> DEFINE n == AmountCopied(nitems)
<1>2. PICK bytes \in Copied(n) : sent' = sent \o bytes
  BY <1>1
<1>3. /\ nitems \in Nat \ {0} /\ length \in Nat \ {0} /\ index \in Nat
      /\ sent \in Seq(Int) /\ Len(sent) = index /\ reads \in Nat
  BY DEF TInv, TypeOK, ReadsInv
<1>4. n \in Nat \ {0} /\ n <= length
  BY <1>3 DEF AmountCopied
<1>5. bytes \in [1 .. n -> Int]
  BY <1>2, <1>3, <1>4 DEF Copied, Nul, Alien
<1>6. bytes \in Seq(Int) /\ Len(bytes) = n
  BY <1>4, <1>5
<1>7. /\ sent' \in Seq(Int)
      /\ Len(sent') = index + n
      /\ \A k \in 1 .. index : sent'[k] = sent[k]
      /\ \A k \in 1 .. n : sent'[index + k] = bytes[k]
  <2>1. sent' \in Seq(Int) /\ Len(sent') = index + n
    BY <1>2, <1>3, <1>6, ConcatProperties
  <2>2. \A k \in 1 .. index + n :
            sent'[k] = IF k <= index THEN sent[k] ELSE bytes[k - index]
    BY <1>2, <1>3, <1>6, ConcatProperties
  <2>3. ASSUME NEW k \in 1 .. n
        PROVE  sent'[index + k] = bytes[k]
    <3>1. index + k \in 1 .. index + n /\ ~ (index + k <= index)
          /\ (index + k) - index = k
      BY <1>3, <1>4
    <3> QED BY <2>2, <3>1
  <2>4. \A k \in 1 .. index : sent'[k] = sent[k]
    BY <1>3, <1>4, <2>2
  <2> QED BY <2>1, <2>3, <2>4
<1>8. index' = index + n /\ index' = Len(sent') /\ index' \in Nat
  BY <1>1, <1>3, <1>4, <1>7 DEF IndexAfter
<1>9. reads' = reads + 1
      /\ UNCHANGED <<length, answer, phase, whole, result>> /\ reads < MaxReads
  BY DEF Read
<1>10. TypeOK'
  BY <1>3, <1>7, <1>8, <1>9 DEF TInv, TypeOK
<1>11. ASSUME NEW k \in 1 .. length, k <= Len(sent')
       PROVE  sent'[k] = k
  <2>1. CASE k <= index
    BY <1>3, <1>7, <1>11, <2>1 DEF TInv, BodyArrives
  <2>2. CASE k > index
    <3>1. k - index \in 1 .. n /\ index <= length
      BY <1>3, <1>4, <1>7, <1>11, <2>2
    <3>2. bytes = [m \in 1 .. n |-> IF index + m <= length THEN index + m ELSE Nul]
      BY <1>2, <3>1 DEF Copied
    <3>3. bytes[k - index] = k
      BY <1>3, <1>4, <1>11, <3>1, <3>2
    <3>4. sent'[index + (k - index)] = bytes[k - index]
      BY <1>7, <3>1
    <3>5. index + (k - index) = k
      BY <1>3, <1>11
    <3> QED BY <3>3, <3>4, <3>5
  <2> QED BY <1>3, <1>11, <2>1, <2>2
<1>12. BodyArrives'
  BY <1>3, <1>4, <1>7, <1>9, <1>11 DEF TInv, BodyArrives
<1>13. ASSUME \A b \in BufferSizes : length <= b
       PROVE  reads' = 1 /\ sent' = [k \in 1 .. length |-> k]
  <2>1. reads = 0 /\ sent = << >>
    <3>1. Len([k \in 1 .. length |-> k]) = length
      BY <1>3
    <3> QED BY <1>13, <3>1 DEF TInv, ReadsInv, Read
  <2>2. n = length
    BY <1>3, <1>13 DEF AmountCopied
  <2>3. index = 0
    BY <1>3, <2>1
  <2>4. Len(sent') = length
    BY <1>3, <1>7, <2>2, <2>3
  <2>5. \A k \in 1 .. length : sent'[k] = k
    BY <1>11, <1>3, <2>4
  <2>6. sent' = [k \in 1 .. length |-> sent'[k]]
    BY <1>7, <2>4
  <2> QED BY <1>9, <2>1, <2>5, <2>6
<1>14. ReadsInv'
  BY <1>8, <1>9, <1>13 DEF ReadsInv
<1>15. ResultIsAnswer'
  BY <1>9 DEF TInv, ResultIsAnswer
<1> QED BY <1>10, <1>12, <1>14, <1>15 DEF TInv

LEMMA WriteKeeps ==
    ASSUME TInv, Write
    PROVE  TInv'
<1>1. PICK n \in 1 .. answer - Len(result) :
          result' = Collected([k \in 1 .. n |-> Len(result) + k])
  BY DEF Write
<1> DEFINE chunk == [k \in 1 .. n |-> Len(result) + k]
<1>2. result \in Seq(Int) /\ answer \in Int /\ Len(result) \in Nat
  BY SizeAssumption DEF TInv, TypeOK, SizeAssumption
<1>3. n \in Nat /\ chunk \in Seq(Int) /\ Len(chunk) = n
  BY <1>2
<1>4. result' = result \o chunk
  BY <1>1 DEF Collected
<1> HIDE DEF chunk
<1>5. /\ result' \in Seq(Int)
      /\ Len(result') = Len(result) + n
      /\ \A k \in 1 .. Len(result) : result'[k] = result[k]
      /\ \A k \in 1 .. n : result'[Len(result) + k] = chunk[k]
  <2>1. result' \in Seq(Int) /\ Len(result') = Len(result) + n
    BY <1>2, <1>3, <1>4, ConcatProperties
  <2>2. \A k \in 1 .. Len(result) + n :
            result'[k] = IF k <= Len(result) THEN result[k]
                                             ELSE chunk[k - Len(result)]
    BY <1>2, <1>3, <1>4, ConcatProperties
  <2>3. ASSUME NEW k \in 1 .. n
        PROVE  result'[Len(result) + k] = chunk[k]
    <3>1. /\ Len(result) + k \in 1 .. Len(result) + n
          /\ ~ (Len(result) + k <= Len(result))
          /\ (Len(result) + k) - Len(result) = k
      BY <1>2, <1>3
    <3> QED BY <2>2, <3>1
  <2>4. \A k \in 1 .. Len(result) : result'[k] = result[k]
    BY <1>2, <1>3, <2>2
  <2> QED BY <2>1, <2>3, <2>4
<1>6. UNCHANGED <<length, answer, phase, whole, index, sent, reads>>
      /\ phase = "receiving"
  BY DEF Write
<1>7. ASSUME NEW k \in 1 .. Len(result')
      PROVE  result'[k] = k
  <2>1. CASE k <= Len(result)
    BY <1>2, <1>5, <1>7, <2>1 DEF TInv, ResultIsAnswer
  <2>2. CASE k > Len(result)
    <3>1. k - Len(result) \in 1 .. n /\ Len(result) + (k - Len(result)) = k
      BY <1>2, <1>3, <1>5, <1>7, <2>2
    <3>2. chunk[k - Len(result)] = k
      BY <3>1 DEF chunk
    <3> QED BY <1>5, <3>1, <3>2
  <2> QED BY <1>2, <1>3, <1>5, <1>7, <2>1, <2>2
<1> QED BY <1>5, <1>6, <1>7
        DEF TInv, TypeOK, ReadsInv, BodyArrives, ResultIsAnswer

LEMMA OthersKeep ==
    ASSUME TInv, Answer \/ Returns \/ Fails \/ UNCHANGED vars
    PROVE  TInv'
<1>1. Len(sent) \in Nat /\ length \in Nat
  BY DEF TInv, TypeOK
<1>2. CASE Answer
  BY <1>1, <1>2
     DEF Answer, TInv, TypeOK, ReadsInv, BodyArrives, ResultIsAnswer
<1>3. CASE Returns
  BY <1>3 DEF Returns, TInv, TypeOK, ReadsInv, BodyArrives, ResultIsAnswer
<1>4. CASE Fails
  BY <1>4 DEF Fails, TInv, TypeOK, ReadsInv, BodyArrives, ResultIsAnswer
<1>5. CASE UNCHANGED vars
  BY <1>5 DEF vars, TInv, TypeOK, ReadsInv, BodyArrives, ResultIsAnswer
<1> QED BY <1>2, <1>3, <1>4, <1>5

LEMMA TransferInvariant == Spec => []TInv
<1>1. Init => TInv
  <2> SUFFICES ASSUME Init PROVE TInv
    OBVIOUS
  <2>1. Len(sent) = 0 /\ Len(result) = 0
    BY DEF Init
  <2>2. TypeOK
    <3>1. << >> \in Seq(Int)
      BY EmptySeq
    <3>2. sent \in Seq(Int) /\ result \in Seq(Int)
      BY <3>1, Zenon DEF Init
    <3>3. 0 \in 0 .. MaxReads
      BY SizeAssumption DEF SizeAssumption
    <3> QED BY <3>2, <3>3 DEF Init, TypeOK
  <2>3. ReadsInv
    BY <2>1 DEF Init, ReadsInv
  <2>4. BodyArrives /\ ResultIsAnswer
    BY <2>1, <2>2 DEF Init, TypeOK, BodyArrives, ResultIsAnswer
  <2> QED BY <2>2, <2>3, <2>4 DEF TInv
<1>2. TInv /\ [Next]_vars => TInv'
  BY ReadKeeps, WriteKeeps, OthersKeep DEF Next
<1> QED BY <1>1, <1>2, PTL DEF Spec

\* What curl sends of a body begins with the body, for every length of it and
\* all buffers curl may offer.
THEOREM BodiesArrive == Spec => []BodyArrives
<1>1. TInv => BodyArrives
  BY DEF TInv
<1> QED BY <1>1, TransferInvariant, PTL

\* A body no longer than the smallest buffer is read in one call that stays
\* inside it.
THEOREM ShortBodiesAreReadOnce == Spec => []ShortBodyReadOnce
<1>1. TInv => ShortBodyReadOnce
  <2>1. ASSUME TInv, \A b \in BufferSizes : length <= b
        PROVE  /\ reads <= 1
               /\ index <= length
               /\ sent # << >> => sent = [k \in 1 .. length |-> k]
    <3>1. length \in Nat /\ index = Len(sent)
      BY <2>1 DEF TInv, TypeOK, ReadsInv
    <3>2. CASE reads = 0 /\ sent = << >>
      BY <3>1, <3>2
    <3>3. CASE reads = 1 /\ sent = [k \in 1 .. length |-> k]
      <4>1. Len([k \in 1 .. length |-> k]) = length
        BY <3>1
      <4> QED BY <3>1, <3>3, <4>1
    <3> QED BY <2>1, <3>2, <3>3 DEF TInv, ReadsInv
  <2> QED BY <2>1 DEF ShortBodyReadOnce
<1> QED BY <1>1, TransferInvariant, PTL

\* The caller gets the whole answer, whatever chunks it came in.
THEOREM ResultsAreAnswers == Spec => []ResultIsAnswer
<1>1. TInv => ResultIsAnswer
  BY DEF TInv
<1> QED BY <1>1, TransferInvariant, PTL
=============================================================================
