-------------------------- MODULE Dvb1Stream_proofs --------------------------
(***************************************************************************)
(* Proofs about Dvb1Stream for any frame size and any size of a source.    *)
(***************************************************************************)
EXTENDS Dvb1Stream, SequenceTheorems, TLAPS

\* The units left after i full frames, and the plaintext of the first i frames.
Left(i) == IF i * ChunkSize < size THEN size - i * ChunkSize ELSE 0
Staged(i) == [k \in 1..i |-> [from |-> "own", place |-> k - 1]]

\* The frames written so far, each of which still had something to hold.
WrittenInv ==
  \A k \in 1..Len(written) : written[k] = SealedFrame(k - 1, Left(k - 1)) /\ Left(k - 1) > 0

SealedInv ==
  phase \notin {"sealing", "done"} \/ sink # "open" =>
    available = size /\ Left(Len(written)) = 0

\* Encrypt and decrypt walk through the same frames; nothing is judged on the way.
WalkInv ==
  /\ phase # "done" => sink = "open" /\ outcome = "none" /\ same = TRUE /\ rejected = FALSE
  /\ phase = "sealing" => index = Len(written)
  /\ phase = "header" => index = 0
  /\ phase \in {"sealing", "sealed", "header"} => staged = <<>>
  /\ phase \in {"frames", "deciding"} => staged = Staged(index) /\ index <= Len(written)
  /\ phase \in {"sealing", "frames", "deciding"} => remaining = Left(index)
  /\ phase = "deciding" => remaining = 0

IInv == TypeOK /\ WrittenInv /\ SealedInv /\ WalkInv
        /\ CommittedIsOriginal /\ FailureAborts /\ OnlyDamageAccuses

-----------------------------------------------------------------------------
(* Arithmetic of the frames.                                               *)

\* Successive products, and an index below its product.
LEMMA Products ==
  ASSUME NEW i \in Nat
  PROVE  /\ i * ChunkSize \in Nat /\ (i + 1) * ChunkSize = i * ChunkSize + ChunkSize
         /\ i <= i * ChunkSize
  BY FramingAssumption

\* One frame takes FrameLength of what is left.
LEMMA FrameTakes ==
  ASSUME TypeOK, NEW i \in Nat, Left(i) > 0
  PROVE  /\ Left(i + 1) = Left(i) - FrameLength(Left(i))
         /\ FrameLength(Left(i)) \in 1..ChunkSize
         /\ i \in 0..MaxSize
  <1> DEFINE p == i * ChunkSize
             q == (i + 1) * ChunkSize
  <1>1. p \in Nat /\ q = p + ChunkSize /\ i <= p
    BY Products
  <1>2. /\ Left(i) = IF p < size THEN size - p ELSE 0
        /\ Left(i + 1) = IF q < size THEN size - q ELSE 0
    BY DEF Left
  <1> HIDE DEF p, q
  <1>3. QED
    BY <1>1, <1>2, FramingAssumption DEF FrameLength, Least, TypeOK

\* What is left of a source is one of its sizes.
LEMMA LeftType == ASSUME TypeOK, NEW i \in Nat PROVE Left(i) \in 0..MaxSize
  BY FramingAssumption, Products DEF Left, TypeOK

\* Staging one more frame.
LEMMA StagesNext ==
  ASSUME NEW i \in Nat
  PROVE  Append(Staged(i), [from |-> "own", place |-> i]) = Staged(i + 1)
  <1> DEFINE P == [from : {"own"}, place : Nat]
  <1>1. Staged(i) \in Seq(P) /\ Len(Staged(i)) = i
    BY DEF Staged
  <1>2. QED
    BY <1>1 DEF Staged

\* What was staged up to the last frame is the original.
LEMMA WholeIsOriginal ==
  ASSUME TypeOK, WrittenInv PROVE Staged(Len(written)) = Original
  <1>1. \A k \in 1..Len(written) : Plaintext(written[k]) = [from |-> "own", place |-> k - 1]
    <2> TAKE k \in 1..Len(written)
    <2>1. written[k] = SealedFrame(k - 1, Left(k - 1))
      BY DEF WrittenInv
    <2>2. QED
      BY <2>1 DEF SealedFrame, Plaintext
  <1>2. QED
    BY <1>1 DEF Staged, Original

\* The frame the reader admits is the one that was written there.
LEMMA AdmittedIsGenuine ==
  ASSUME TypeOK, WrittenInv, NEW f \in Frames, index < Len(written), remaining = Left(index)
  PROVE  FrameAdmitted(f) <=> Genuine(f)
  <1> DEFINE g == written[index + 1]
  <1>1. g = SealedFrame(index, remaining)
    <2>1. index \in Nat /\ Len(written) \in Nat
      BY LenProperties DEF TypeOK
    <2>2. index + 1 \in 1..Len(written) /\ (index + 1) - 1 = index
      BY <2>1
    <2>3. QED
      BY <2>2 DEF WrittenInv
  <1>2. /\ g.index = index /\ g.length = FrameLength(remaining) /\ g.from = "own" /\ g.place = index
    BY <1>1 DEF SealedFrame
  <1>3. f.index = index /\ f.length = FrameLength(remaining) /\ f.from = "own" /\ f.place = index
        => f = g
    BY <1>1 DEF SealedFrame, Frames
  <1>4. QED
    BY <1>2, <1>3 DEF FrameAdmitted, Opens, Genuine

-----------------------------------------------------------------------------
(* IInv is inductive.                                                      *)

\* The initial states satisfy the invariant.
LEMMA InitEstablishes == Init => IInv
  <1> SUFFICES ASSUME Init PROVE IInv
    OBVIOUS
  <1>1. same \in BOOLEAN /\ rejected \in BOOLEAN
    BY Zenon DEF Init
  <1>2. TypeOK
    BY <1>1, FramingAssumption DEF Init, TypeOK, Phases, Outcomes
  <1>3. Left(0) = size
    BY <1>2, FramingAssumption DEF Left, TypeOK
  <1>4. QED
    BY <1>2, <1>3 DEF IInv, Init, WrittenInv, SealedInv, WalkInv, CommittedIsOriginal,
       FailureAborts, OnlyDamageAccuses

\* A failure of decrypt aborts the sink and judges only by what was read.
LEMMA FailPreserves ==
  ASSUME IInv, NEW code \in {"corrupt", "operational", "sink"}, Aborts(code),
         phase \in {"header", "frames", "deciding"},
         same' \in BOOLEAN, rejected' \in BOOLEAN,
         code = "corrupt" => ~same' \/ expected = "other" \/ rejected'
  PROVE  IInv'
  <1> USE DEF IInv, Aborts, file
  <1>1. TypeOK'
    BY DEF TypeOK, Phases, Outcomes, SinkAfter
  <1>2. WrittenInv'
    BY DEF WrittenInv, Left, SealedFrame
  <1>3. SealedInv' /\ WalkInv'
    BY DEF SealedInv, WalkInv, Left
  <1>4. CommittedIsOriginal' /\ FailureAborts'
    BY DEF CommittedIsOriginal, FailureAborts, SinkAfter
  <1>5. OnlyDamageAccuses'
    BY DEF OnlyDamageAccuses
  <1>6. QED
    BY <1>1, <1>2, <1>3, <1>4, <1>5

\* The stream's own failures accuse only what was read.
LEMMA StreamFailPreserves ==
  ASSUME IInv, NEW code \in {"corrupt", "operational"}, Fail(code),
         phase \in {"header", "frames", "deciding"},
         same' \in BOOLEAN, code = "corrupt" => ~same' \/ expected = "other"
  PROVE  IInv'
  <1>1. rejected' \in BOOLEAN
    BY Zenon DEF Fail, IInv, TypeOK
  <1>2. QED
    BY <1>1, FailPreserves DEF Fail

\* The sink's failures carry the sink's code.
LEMMA SinkFailPreserves ==
  ASSUME IInv, NEW code \in SinkErrors, SinkFails(code), phase \in {"frames", "deciding"}
  PROVE  IInv'
  <1>1. same' \in BOOLEAN /\ rejected' \in BOOLEAN
    BY Zenon DEF SinkFails, IInv, TypeOK
  <1>2. code = "corrupt" => rejected'
    BY Zenon DEF SinkFails
  <1>3. QED
    BY <1>1, <1>2, FailPreserves DEF SinkFails, SinkErrors

\* Sealing a frame extends the walk by one.
LEMMA SealFramePreserves == ASSUME IInv, SealFrame PROVE IInv'
  <1> DEFINE f == SealedFrame(index, remaining)
  <1>1. /\ index = Len(written) /\ index \in Nat /\ remaining = Left(index) /\ Left(index) > 0
        /\ phase = "sealing" /\ sink = "open"
    BY LenProperties DEF SealFrame, IInv, WalkInv, TypeOK
  <1>2. /\ Left(index + 1) = remaining - FrameLength(remaining)
        /\ FrameLength(remaining) \in 1..ChunkSize /\ index \in 0..MaxSize
    BY <1>1, FrameTakes DEF IInv
  <1>3. f \in Frames
    BY <1>2 DEF SealedFrame, Frames
  <1>4. /\ written' \in Seq(Frames) /\ Len(written') = Len(written) + 1
        /\ \A k \in 1..Len(written) : written'[k] = written[k]
        /\ written'[Len(written) + 1] = f
    BY <1>3, AppendProperties DEF SealFrame, IInv, TypeOK
  <1>5. /\ UNCHANGED <<phase, outcome, size, available, staged, sink, expected, same, rejected>>
        /\ index' = index + 1 /\ remaining' = Left(index + 1)
    BY <1>2 DEF SealFrame
  <1>6. \A i : Left(i)' = Left(i)
    BY <1>5 DEF Left
  <1>7. Left(index + 1) \in 0..MaxSize
    BY <1>1, LeftType DEF IInv
  <1>8. TypeOK'
    BY <1>1, <1>4, <1>5, <1>7 DEF IInv, TypeOK
  <1>9. WrittenInv'
    <2> SUFFICES ASSUME NEW k \in 1..Len(written')
                 PROVE written'[k] = SealedFrame(k - 1, Left(k - 1)) /\ Left(k - 1) > 0
      BY <1>6 DEF WrittenInv, SealedFrame
    <2>1. CASE k \in 1..Len(written)
      BY <2>1, <1>4 DEF IInv, WrittenInv
    <2>2. CASE k = Len(written) + 1
      BY <2>2, <1>1, <1>4
    <2>3. QED
      BY <2>1, <2>2, <1>1, <1>4
  <1>10. WalkInv'
    BY <1>1, <1>4, <1>5, <1>6 DEF IInv, WalkInv
  <1>11. SealedInv'
    BY <1>1, <1>5 DEF SealedInv
  <1>12. CommittedIsOriginal' /\ FailureAborts' /\ OnlyDamageAccuses'
    BY <1>1, <1>5 DEF IInv, WalkInv, CommittedIsOriginal, FailureAborts, OnlyDamageAccuses
  <1>13. QED
    BY <1>8, <1>9, <1>10, <1>11, <1>12 DEF IInv

\* A frame that is admitted is the genuine next one and extends the walk by one.
LEMMA ReadFramePreserves == ASSUME IInv, NEW f \in Frames, ReadFrame(f) PROVE IInv'
  <1>1. /\ index \in Nat /\ remaining = Left(index) /\ Left(index) > 0 /\ index <= Len(written)
        /\ Left(Len(written)) = 0 /\ staged = Staged(index) /\ same = TRUE
        /\ phase = "frames" /\ sink = "open" /\ Len(written) \in Nat
    BY LenProperties DEF ReadFrame, IInv, WalkInv, SealedInv, TypeOK
  <1>2. index < Len(written)
    BY <1>1
  <1>3. Genuine(f)
    BY <1>1, <1>2, AdmittedIsGenuine DEF ReadFrame, IInv
  <1>4. /\ f.length = FrameLength(remaining) /\ Plaintext(f) = [from |-> "own", place |-> index]
    BY DEF ReadFrame, FrameAdmitted, Opens, Plaintext
  <1>5. Left(index + 1) = remaining - FrameLength(remaining) /\ index \in 0..MaxSize
    BY <1>1, FrameTakes DEF IInv
  <1>6. staged' = Staged(index + 1)
    BY <1>1, <1>4, StagesNext DEF ReadFrame
  <1>7. /\ UNCHANGED <<phase, outcome, size, available, written, sink, expected, rejected>>
        /\ index' = index + 1 /\ remaining' = Left(index + 1)
    BY <1>4, <1>5 DEF ReadFrame, file
  <1>8. same' = TRUE
    BY <1>1, <1>3, Zenon DEF ReadFrame
  <1>9. \A i : Left(i)' = Left(i) /\ Staged(i)' = Staged(i)
    BY <1>7 DEF Left, Staged
  <1>10. staged' \in Seq([from : {"own", "other", "damaged"}, place : 0..MaxSize])
    BY <1>1, <1>4, <1>5, AppendProperties DEF ReadFrame, IInv, TypeOK
  <1>11. Left(index + 1) \in 0..MaxSize
    BY <1>1, LeftType DEF IInv
  <1>12. TypeOK'
    BY <1>1, <1>7, <1>8, <1>10, <1>11 DEF IInv, TypeOK
  <1>13. WrittenInv'
    BY <1>7, <1>9 DEF IInv, WrittenInv, SealedFrame
  <1>14. WalkInv'
    BY <1>1, <1>2, <1>6, <1>7, <1>8, <1>9 DEF IInv, WalkInv
  <1>15. SealedInv'
    BY <1>7, <1>9 DEF IInv, SealedInv
  <1>16. CommittedIsOriginal' /\ FailureAborts' /\ OnlyDamageAccuses'
    BY <1>1, <1>7 DEF IInv, WalkInv, CommittedIsOriginal, FailureAborts, OnlyDamageAccuses
  <1>17. QED
    BY <1>12, <1>13, <1>14, <1>15, <1>16 DEF IInv

\* A step of encrypt or decrypt that only moves to another phase.
LEMMA StepPreserves == IInv /\ [Next]_vars => IInv'
  <1> SUFFICES ASSUME IInv, [Next]_vars PROVE IInv'
    OBVIOUS
  <1>1. CASE SealFrame
    BY <1>1, SealFramePreserves
  <1>2. CASE SourceUnreadable \/ OutputFails
    <2>1. /\ phase = "sealing" /\ phase' = "done" /\ outcome' \in {"source", "output"}
          /\ UNCHANGED <<file, reader>>
      BY <1>2 DEF SourceUnreadable, OutputFails, SealFails
    <2>2. \A i : Left(i)' = Left(i)
      BY <2>1 DEF Left, file
    <2>3. TypeOK'
      BY <2>1 DEF IInv, TypeOK, Phases, Outcomes, file, reader
    <2>4. WrittenInv'
      BY <2>1, <2>2 DEF IInv, WrittenInv, SealedFrame, file
    <2>5. QED
      BY <2>1, <2>3, <2>4 DEF IInv, WalkInv, SealedInv, CommittedIsOriginal, FailureAborts,
         OnlyDamageAccuses, file, reader
  <1>3. CASE SealEnd
    <2>1. /\ phase = "sealing" /\ phase' = "sealed" /\ available = size
          /\ UNCHANGED <<outcome, file, reader>> /\ Left(Len(written)) = 0
      BY <1>3 DEF SealEnd, WholeSource, IInv, WalkInv
    <2>2. \A i : Left(i)' = Left(i)
      BY <2>1 DEF Left, file
    <2>3. TypeOK'
      BY <2>1 DEF IInv, TypeOK, Phases, file, reader
    <2>4. WrittenInv' /\ SealedInv'
      BY <2>1, <2>2 DEF IInv, WrittenInv, SealedInv, SealedFrame, file
    <2>5. QED
      BY <2>1, <2>3, <2>4 DEF IInv, WalkInv, CommittedIsOriginal, FailureAborts,
         OnlyDamageAccuses, file, reader
  <1>4. ASSUME NEW receipt \in {"none", "original", "other"}, DecryptBegin(receipt) PROVE IInv'
    <2>1. /\ phase = "sealed" /\ phase' = "header" /\ index' = 0 /\ expected' = receipt
          /\ UNCHANGED <<outcome, file, remaining, staged, sink, same, rejected>>
      BY <1>4 DEF DecryptBegin
    <2>2. \A i : Left(i)' = Left(i)
      BY <2>1 DEF Left, file
    <2>3. TypeOK'
      BY <2>1 DEF IInv, TypeOK, Phases, file
    <2>4. WrittenInv' /\ SealedInv'
      BY <2>1, <2>2 DEF IInv, WrittenInv, SealedInv, SealedFrame, file
    <2>5. QED
      BY <2>1, <2>3, <2>4 DEF IInv, WalkInv, CommittedIsOriginal, FailureAborts,
         OnlyDamageAccuses, file
  <1>5. ASSUME NEW h \in Headers, ReadHeader(h) PROVE IInv'
    <2>1. /\ phase = "header" /\ phase' = "frames" /\ remaining' = size
          /\ UNCHANGED <<outcome, file, index, staged, sink, expected, rejected>>
      BY <1>5 DEF ReadHeader, HeaderAdmitted, Headers
    <2>2. h = SealedHeader
      BY <1>5 DEF ReadHeader, HeaderAdmitted, Headers, SealedHeader
    <2>3. same' = TRUE
      BY <1>5, <2>2, Zenon DEF ReadHeader, IInv, WalkInv
    <2>4. \A i : Left(i)' = Left(i) /\ Staged(i)' = Staged(i)
      BY <2>1 DEF Left, Staged, file
    <2>5. /\ index = 0 /\ Left(0) = size /\ staged = Staged(0) /\ sink = "open" /\ outcome = "none"
          /\ Len(written) \in Nat /\ rejected = FALSE
      BY <2>1, FramingAssumption, LenProperties DEF IInv, WalkInv, TypeOK, Left, Staged
    <2>6. TypeOK'
      BY <2>1, <2>3 DEF IInv, TypeOK, Phases, file
    <2>7. WrittenInv' /\ SealedInv'
      BY <2>1, <2>4 DEF IInv, WrittenInv, SealedInv, SealedFrame, file
    <2>8. WalkInv'
      BY <2>1, <2>3, <2>4, <2>5 DEF WalkInv, file
    <2>9. QED
      BY <2>1, <2>5, <2>6, <2>7, <2>8 DEF IInv, CommittedIsOriginal, FailureAborts,
         OnlyDamageAccuses, file
  <1>6. ASSUME NEW h \in Headers, RejectHeader(h) PROVE IInv'
    <2>1. ~same'
      <3>1. h # SealedHeader
        BY <1>6 DEF RejectHeader, HeaderAdmitted, SealedHeader
      <3>2. QED
        BY <1>6, <3>1, Zenon DEF RejectHeader
    <2>2. same' \in BOOLEAN
      BY <1>6, Zenon DEF RejectHeader
    <2>3. QED
      BY <1>6, <2>1, <2>2, StreamFailPreserves DEF RejectHeader
  <1>7. ASSUME NEW f \in Frames, ReadFrame(f) PROVE IInv'
    BY <1>7, ReadFramePreserves
  <1>8. ASSUME NEW f \in Frames, RejectFrame(f) PROVE IInv'
    <2>1. /\ index \in Nat /\ remaining = Left(index) /\ Left(index) > 0 /\ index <= Len(written)
          /\ Left(Len(written)) = 0 /\ Len(written) \in Nat
      BY <1>8, LenProperties DEF RejectFrame, IInv, WalkInv, SealedInv, TypeOK
    <2>2. ~Genuine(f)
      BY <1>8, <2>1, AdmittedIsGenuine DEF RejectFrame, IInv
    <2>3. ~same' /\ same' \in BOOLEAN
      BY <1>8, <2>2, Zenon DEF RejectFrame
    <2>4. QED
      BY <1>8, <2>3, StreamFailPreserves DEF RejectFrame
  <1>9. CASE Truncated \/ TrailingBytes
    BY <1>9, StreamFailPreserves DEF Truncated, TrailingBytes
  <1>10. CASE ReadFaults
    <2>1. phase \in {"header", "frames"} /\ same' = same /\ Fail("operational")
      BY <1>10 DEF ReadFaults, ReadError
    <2>2. same' \in BOOLEAN
      BY <2>1, Zenon DEF IInv, TypeOK
    <2>3. QED
      BY <2>1, <2>2, StreamFailPreserves
  <1>11. CASE EndOfFile
    <2>1. /\ phase = "frames" /\ phase' = "deciding" /\ remaining = 0
          /\ UNCHANGED <<outcome, file, reader>>
      BY <1>11 DEF EndOfFile
    <2>2. \A i : Left(i)' = Left(i) /\ Staged(i)' = Staged(i)
      BY <2>1 DEF Left, Staged, file
    <2>3. TypeOK'
      BY <2>1 DEF IInv, TypeOK, Phases, file, reader
    <2>4. WrittenInv' /\ SealedInv'
      BY <2>1, <2>2 DEF IInv, WrittenInv, SealedInv, SealedFrame, file
    <2>5. QED
      BY <2>1, <2>2, <2>3, <2>4 DEF IInv, WalkInv, CommittedIsOriginal, FailureAborts,
         OnlyDamageAccuses, file, reader
  <1>12. phase = "deciding" => staged = Original
    <2>1. ASSUME phase = "deciding" PROVE index = Len(written) /\ staged = Staged(index)
      <3>1. /\ index \in Nat /\ index <= Len(written) /\ Left(index) = 0 /\ staged = Staged(index)
            /\ Len(written) \in Nat
        BY <2>1, LenProperties DEF IInv, WalkInv, TypeOK
      <3>2. ~(index < Len(written))
        <4> SUFFICES ASSUME index < Len(written) PROVE FALSE
          OBVIOUS
        <4>1. index + 1 \in 1..Len(written) /\ (index + 1) - 1 = index
          BY <3>1
        <4>2. Left((index + 1) - 1) > 0
          BY <4>1 DEF IInv, WrittenInv
        <4>3. QED
          BY <3>1, <4>1, <4>2
      <3>3. QED
        BY <3>1, <3>2
    <2>2. QED
      BY <2>1, WholeIsOriginal DEF IInv
  <1>13. CASE Mismatch
    <2>1. /\ phase = "deciding" /\ same' = same /\ Fail("corrupt") /\ expected = "other"
      BY <1>12, <1>13 DEF Mismatch, Unexpected
    <2>2. same' \in BOOLEAN
      BY <2>1, Zenon DEF IInv, TypeOK
    <2>3. QED
      BY <2>1, <2>2, StreamFailPreserves
  <1>14. CASE Commit
    <2>1. /\ phase = "deciding" /\ phase' = "done" /\ outcome' = "ok" /\ sink' = "committed"
          /\ UNCHANGED <<file, index, remaining, staged, expected, same, rejected>>
          /\ staged = Original /\ same = TRUE
      BY <1>12, <1>14 DEF Commit, IInv, WalkInv
    <2>2. \A i : Left(i)' = Left(i)
      BY <2>1 DEF Left, file
    <2>3. TypeOK'
      BY <2>1 DEF IInv, TypeOK, Phases, Outcomes, file
    <2>4. WrittenInv' /\ SealedInv'
      BY <2>1, <2>2 DEF IInv, WrittenInv, SealedInv, SealedFrame, file
    <2>5. CommittedIsOriginal'
      BY <2>1 DEF CommittedIsOriginal, Original, file
    <2>6. QED
      BY <2>1, <2>3, <2>4, <2>5 DEF IInv, WalkInv, FailureAborts, OnlyDamageAccuses
  <1>15. CASE UNCHANGED vars
    <2>1. \A i : Left(i)' = Left(i) /\ Staged(i)' = Staged(i)
      BY <1>15 DEF Left, Staged, file, reader, vars
    <2>2. WrittenInv' /\ SealedInv'
      BY <1>15, <2>1 DEF IInv, WrittenInv, SealedInv, SealedFrame, file, reader, vars
    <2>3. TypeOK' /\ WalkInv'
      BY <1>15, <2>1 DEF IInv, TypeOK, WalkInv, file, reader, vars
    <2>4. QED
      BY <1>15, <2>2, <2>3 DEF IInv, CommittedIsOriginal, FailureAborts, OnlyDamageAccuses,
         Original, file, reader, vars
  <1>16. ASSUME NEW code \in SinkErrors, (\E f \in Frames : StageFails(f, code)) \/ CommitFails(code)
         PROVE IInv'
    BY <1>16, SinkFailPreserves DEF StageFails, CommitFails
  <1>17. QED
    BY <1>1, <1>2, <1>3, <1>4, <1>5, <1>6, <1>7, <1>8, <1>9, <1>10, <1>11, <1>13, <1>14, <1>15, <1>16
       DEF Next, Encrypt, Decrypt

\* The invariant holds in every reachable state.
LEMMA Invariance == Spec => []IInv
  BY InitEstablishes, StepPreserves, PTL DEF Spec

-----------------------------------------------------------------------------
(* Theorems.                                                               *)

\* Every variable keeps its type.
THEOREM SpecTypeOK == Spec => []TypeOK
  <1>1. IInv => TypeOK
    BY DEF IInv
  <1>2. QED
    BY <1>1, Invariance, PTL

\* A commit publishes the sealed original, whatever the file held when read.
THEOREM SpecCommittedIsOriginal == Spec => []CommittedIsOriginal
  <1>1. IInv => CommittedIsOriginal
    BY DEF IInv
  <1>2. QED
    BY <1>1, Invariance, PTL

\* The sink is committed on success and aborted on every failure.
THEOREM SpecFailureAborts == Spec => []FailureAborts
  <1>1. IInv => FailureAborts
    BY DEF IInv
  <1>2. QED
    BY <1>1, Invariance, PTL

\* decrypt calls only damage, or another receipt, corruption of its own accord; any
\* other BLOB_AUTH_FAILED is the sink's.
THEOREM SpecOnlyDamageAccuses == Spec => []OnlyDamageAccuses
  <1>1. IInv => OnlyDamageAccuses
    BY DEF IInv
  <1>2. QED
    BY <1>1, Invariance, PTL

\* A sealed blob holds the whole source, frame by frame.
THEOREM SpecSealedIsWholeSource == Spec => []SealedIsWholeSource
  <1>1. IInv => SealedIsWholeSource
    <2> SUFFICES ASSUME IInv, phase \notin {"sealing", "done"} \/ sink # "open"
                 PROVE  /\ size = available
                        /\ written = [k \in 1..Len(written) |-> SealedFrame(k - 1, size - (k - 1) * ChunkSize)]
                        /\ Len(written) * ChunkSize >= size
      BY DEF SealedIsWholeSource
    <2>1. size = available /\ Left(Len(written)) = 0 /\ Len(written) \in Nat /\ size \in Nat
      BY LenProperties DEF IInv, SealedInv, TypeOK
    <2>2. Len(written) * ChunkSize >= size
      <3> DEFINE p == Len(written) * ChunkSize
      <3>1. p \in Nat /\ Left(Len(written)) = IF p < size THEN size - p ELSE 0
        BY <2>1, Products DEF Left
      <3> HIDE DEF p
      <3>2. p >= size
        BY <2>1, <3>1
      <3>3. QED
        BY <3>2 DEF p
    <2>3. ASSUME NEW k \in 1..Len(written)
          PROVE written[k] = SealedFrame(k - 1, size - (k - 1) * ChunkSize)
      BY <2>3 DEF IInv, WrittenInv, Left
    <2>4. written = [k \in 1..Len(written) |-> written[k]]
      BY DEF IInv, TypeOK
    <2>5. QED
      BY <2>1, <2>2, <2>3, <2>4
  <1>2. QED
    BY <1>1, Invariance, PTL
=============================================================================
