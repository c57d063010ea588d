----------------------------- MODULE Dvb1Stream -----------------------------
(***************************************************************************)
(* The framing of the DVB1 blob format (crates/dvm-crypto/src/dvb1.rs):    *)
(* encrypt streams a source of a declared size into a header and numbered  *)
(* frames; decrypt reads whatever the file holds now, stages plaintext     *)
(* frame by frame and commits the sink only at the end.                    *)
(*                                                                         *)
(* The AEAD is ideal: what opens was sealed with the same header, counter  *)
(* and associated data.  A frame's plaintext is known by the blob it comes *)
(* from and its place there.  The stored bytes are arbitrary: each read    *)
(* may return any header or frame, genuine, damaged, renumbered, repeated  *)
(* or of another blob of the vault, the end of the file, or an I/O error.  *)
(* Sizes are in units of which ChunkSize make a full frame.  The sink is   *)
(* the caller's; its error is returned as it is, whatever code it carries. *)
(***************************************************************************)
EXTENDS Naturals, Sequences

CONSTANTS
  ChunkSize,  \* units in a full frame (4 MiB in the code)
  MaxSize     \* bound: units of a source

ASSUME FramingAssumption == ChunkSize \in Nat \ {0} /\ MaxSize \in Nat

VARIABLES
  phase,      \* of the one call that runs: sealing; sealed; then the reads of decrypt
  outcome,    \* none, ok, source or output (encrypt); corrupt (BLOB_AUTH_FAILED),
              \* operational, or another code of the sink (decrypt)
  size,       \* the declared size
  available,  \* units the source really yields
  written,    \* the frames of the sealed file
  index, remaining,
  staged,     \* plaintext given to the sink
  sink,       \* open, committed or aborted
  expected,   \* the receipt of the caller: none, original, other
  same,       \* history: what was read so far is what was written
  rejected    \* history: the sink itself answered BLOB_AUTH_FAILED

file == <<size, available, written>>
reader == <<index, remaining, staged, sink, expected, same, rejected>>
vars == <<phase, outcome, file, reader>>

Least(a, b) == IF a < b THEN a ELSE b
FrameLength(left) == Least(left, ChunkSize)

\* A frame: the number and length written before it, and what its ciphertext seals.
Frames == [index : 0..MaxSize, length : 1..ChunkSize,
           from : {"own", "other", "damaged"}, place : 0..MaxSize]
Plaintext(f) == [from |-> f.from, place |-> f.place]
SealedFrame(i, left) == [index |-> i, length |-> FrameLength(left), from |-> "own", place |-> i]

\* A header: the blob id, the size and whether its tag authenticates.  An
\* authentic header of this blob is the one encrypt wrote.
Headers == {h \in [id : {"own", "other"}, size : 0..MaxSize, authentic : BOOLEAN] :
              h.id = "own" /\ h.authentic => h.size = size}
SealedHeader == [id |-> "own", size |-> size, authentic |-> TRUE]

Phases == {"sealing", "sealed", "header", "frames", "deciding", "done"}
Outcomes == {"none", "ok", "source", "output", "corrupt", "operational", "sink"}
SinkErrors == {"corrupt", "sink"}

TypeOK ==
  /\ phase \in Phases /\ outcome \in Outcomes
  /\ size \in 0..MaxSize /\ available \in Nat
  /\ written \in Seq(Frames)
  /\ index \in Nat /\ remaining \in 0..MaxSize
  /\ staged \in Seq([from : {"own", "other", "damaged"}, place : 0..MaxSize])
  /\ sink \in {"open", "committed", "aborted"}
  /\ expected \in {"none", "original", "other"}
  /\ same \in BOOLEAN /\ rejected \in BOOLEAN

-----------------------------------------------------------------------------
(* Decisions of the code; those marked "mutant" are slips the properties   *)
(* must detect and are not used.                                           *)

AnyPlace(f) == f.from = "own"                 \* mutant: counter neither in nonce nor in the AAD
Opens(f) == f.from = "own" /\ f.place = index

AtLeastDeclared == available >= size          \* mutant: no read past the declared size
WholeSource == available = size

Accusing == "corrupt"                         \* mutant: every read error condemns the bytes
ReadError == "operational"

LeftOpen(code) == IF code = "sink" THEN "open" ELSE "aborted" \* mutant: a failed commit is not aborted
SinkAfter(code) == "aborted"

-----------------------------------------------------------------------------
Init ==
  /\ phase = "sealing" /\ outcome = "none"
  /\ size \in 0..MaxSize /\ available \in 0..MaxSize + 1
  /\ written = <<>>
  /\ index = 0 /\ remaining = size
  /\ staged = <<>> /\ sink = "open" /\ expected = "none"
  /\ same = TRUE /\ rejected = FALSE

-----------------------------------------------------------------------------
(* encrypt                                                                 *)

SealFrame ==
  /\ phase = "sealing" /\ remaining > 0
  /\ size - remaining + FrameLength(remaining) <= available
  /\ written' = Append(written, SealedFrame(index, remaining))
  /\ remaining' = remaining - FrameLength(remaining)
  /\ index' = index + 1
  /\ UNCHANGED <<phase, outcome, size, available, staged, sink, expected, same, rejected>>

SealFails(code) ==
  /\ phase = "sealing"
  /\ phase' = "done" /\ outcome' = code
  /\ UNCHANGED <<file, reader>>

\* The source ended early, or has more than was declared, or cannot be read.
SourceUnreadable == SealFails("source")
OutputFails == SealFails("output")

SealEnd ==
  /\ phase = "sealing" /\ remaining = 0
  /\ WholeSource
  /\ phase' = "sealed"
  /\ UNCHANGED <<outcome, file, reader>>

-----------------------------------------------------------------------------
(* decrypt                                                                 *)

DecryptBegin(receipt) ==
  /\ phase = "sealed"
  /\ phase' = "header" /\ expected' = receipt
  /\ index' = 0
  /\ UNCHANGED <<outcome, file, remaining, staged, sink, same, rejected>>

\* Every failure aborts the sink.
Aborts(code) ==
  /\ phase' = "done" /\ outcome' = code /\ sink' = SinkAfter(code)
  /\ UNCHANGED <<file, index, remaining, staged, expected>>

\* A failure of the stream, and one of the sink, whose code passes unchanged.
Fail(code) == Aborts(code) /\ UNCHANGED rejected
SinkFails(code) == Aborts(code) /\ rejected' = (code = "corrupt") /\ UNCHANGED same

HeaderAdmitted(h) == h.id = "own" /\ h.authentic

ReadHeader(h) ==
  /\ phase = "header" /\ HeaderAdmitted(h)
  /\ phase' = "frames" /\ remaining' = h.size
  /\ same' = (same /\ h = SealedHeader)
  /\ UNCHANGED <<outcome, file, index, staged, sink, expected, rejected>>

RejectHeader(h) ==
  /\ phase = "header" /\ ~HeaderAdmitted(h)
  /\ same' = (same /\ h = SealedHeader)
  /\ Fail("corrupt")

FrameAdmitted(f) == f.index = index /\ f.length = FrameLength(remaining) /\ Opens(f)
Genuine(f) == index < Len(written) /\ f = written[index + 1]

ReadFrame(f) ==
  /\ phase = "frames" /\ remaining > 0 /\ FrameAdmitted(f)
  /\ staged' = Append(staged, Plaintext(f))
  /\ remaining' = remaining - f.length
  /\ index' = index + 1
  /\ same' = (same /\ Genuine(f))
  /\ UNCHANGED <<phase, outcome, file, sink, expected, rejected>>

RejectFrame(f) ==
  /\ phase = "frames" /\ remaining > 0 /\ ~FrameAdmitted(f)
  /\ same' = (same /\ Genuine(f))
  /\ Fail("corrupt")

StageFails(f, code) ==
  /\ phase = "frames" /\ remaining > 0 /\ FrameAdmitted(f)
  /\ SinkFails(code)

\* The file ends where the format requires bytes.
Truncated ==
  /\ phase = "header" \/ (phase = "frames" /\ remaining > 0)
  /\ Fail("corrupt")
  /\ same' = FALSE

ReadFaults ==
  /\ phase \in {"header", "frames"}
  /\ Fail(ReadError)
  /\ UNCHANGED same

TrailingBytes ==
  /\ phase = "frames" /\ remaining = 0
  /\ Fail("corrupt")
  /\ same' = FALSE

EndOfFile ==
  /\ phase = "frames" /\ remaining = 0
  /\ phase' = "deciding"
  /\ UNCHANGED <<outcome, file, reader>>

\* The receipt hashes the staged plaintext.
Original == [k \in 1..Len(written) |-> Plaintext(written[k])]
Unexpected == expected = "other" \/ (expected = "original" /\ staged # Original)

Mismatch ==
  /\ phase = "deciding" /\ Unexpected
  /\ Fail("corrupt")
  /\ UNCHANGED same

Commit ==
  /\ phase = "deciding" /\ ~Unexpected
  /\ phase' = "done" /\ outcome' = "ok" /\ sink' = "committed"
  /\ UNCHANGED <<file, index, remaining, staged, expected, same, rejected>>

CommitFails(code) ==
  /\ phase = "deciding" /\ ~Unexpected
  /\ SinkFails(code)

Encrypt == SealFrame \/ SourceUnreadable \/ OutputFails \/ SealEnd
Decrypt ==
  \/ \E receipt \in {"none", "original", "other"} : DecryptBegin(receipt)
  \/ \E h \in Headers : ReadHeader(h) \/ RejectHeader(h)
  \/ \E f \in Frames : ReadFrame(f) \/ RejectFrame(f)
  \/ \E f \in Frames, code \in SinkErrors : StageFails(f, code)
  \/ \E code \in SinkErrors : CommitFails(code)
  \/ Truncated \/ ReadFaults \/ TrailingBytes \/ EndOfFile
  \/ Mismatch \/ Commit

Next == Encrypt \/ Decrypt
Spec == Init /\ [][Next]_vars

-----------------------------------------------------------------------------
(* Properties                                                              *)

\* Whatever the file holds, a commit publishes exactly the sealed original, in
\* order and to its end, also when the caller knows no receipt to compare.
CommittedIsOriginal == sink = "committed" => staged = Original /\ same

\* A blob is sealed only if its frames hold the whole source, neither short of it
\* nor a prefix of one that grew since its size was read.
SealedIsWholeSource ==
  phase \notin {"sealing", "done"} \/ sink # "open" =>
    size = available /\ written = [k \in 1..Len(written) |-> SealedFrame(k - 1, size - (k - 1) * ChunkSize)]
    /\ Len(written) * ChunkSize >= size

\* The sink is committed exactly when decrypt succeeds, and aborted on every
\* failure, a failed stage or commit included: no plaintext stays provisional.
FailureAborts ==
  phase = "done" /\ outcome \notin {"source", "output"} =>
    sink = IF outcome = "ok" THEN "committed" ELSE "aborted"

\* decrypt itself calls the bytes corrupt only when they are not what was written, or
\* not what the caller expected: never for an I/O error.  Otherwise it was the sink
\* that answered BLOB_AUTH_FAILED (dvb1.rs:178,251).
OnlyDamageAccuses ==
  outcome = "corrupt" => ~same \/ expected = "other" \/ rejected
=============================================================================
