-------------------------------- MODULE Cobs --------------------------------
(***************************************************************************)
(* The encoder of libs/cobszpe/cobszpe.c: consistent overhead byte stuffing*)
(* with zero pair elimination.  One action per iteration of its loop; what *)
(* the encoder returns if the source ends here is Encoded.  Bytes are zero *)
(* or One: only that matters to the encoder.                               *)
(***************************************************************************)
EXTENDS Integers, SequencesExt

CONSTANTS ZerolessMax,      \* AM_COBSZPE_ZEROLESS_MAX, 223
          ByteMax,          \* UINT8_MAX
          MaxSource         \* bound: bytes of the source

VARIABLES source,           \* the bytes read so far
          done,             \* the blocks that are finished, with their codes
          block,            \* the bytes of the block under way
          zero_cnt, block_finished

vars == <<source, done, block, zero_cnt, block_finished>>

One == ByteMax + 1

Init ==
  /\ source = <<>> /\ done = <<>> /\ block = <<>>
  /\ zero_cnt = 0 /\ block_finished = FALSE

Code(bytes) == Len(bytes) + 1

\* AM_FINISH_BLOCK
FinishBlock(before, x, bytes) ==
  /\ done' = before \o <<x>> \o bytes
  /\ block' = <<>> /\ zero_cnt' = 0 /\ block_finished' = TRUE

\* A zero that is pending ends the block before this byte.  That sets block_finished,
\* and the byte is the first one of a block that is not finished.
NonZero ==
  /\ source' = Append(source, One)
  /\ LET before == IF zero_cnt > 0 THEN done \o <<Code(block)>> \o block ELSE done
         bytes == IF zero_cnt > 0 THEN <<One>> ELSE Append(block, One)
     IN  IF Code(bytes) = ZerolessMax + 1
           THEN FinishBlock(before, Code(bytes), bytes)
           ELSE /\ done' = before /\ block' = bytes
                /\ zero_cnt' = 0 /\ block_finished' = (zero_cnt > 0)

\* Mutant: pairs of zeros are eliminated after blocks of any length.
ZeroAlwaysPairs ==
  /\ source' = Append(source, 0)
  /\ IF zero_cnt = 0
       THEN zero_cnt' = 1 /\ block_finished' = FALSE /\ UNCHANGED <<done, block>>
       ELSE FinishBlock(done, Code(block) + ZerolessMax + 1, block)

\* A second zero is eliminated when the code of the pair fits in a byte.
Zero ==
  /\ source' = Append(source, 0)
  /\ IF Code(block) >= ByteMax - ZerolessMax
       THEN FinishBlock(done, Code(block), block)
     ELSE IF zero_cnt = 0
       THEN zero_cnt' = 1 /\ block_finished' = FALSE /\ UNCHANGED <<done, block>>
       ELSE FinishBlock(done, Code(block) + ZerolessMax + 1, block)

Next ==
  \/ Len(source) < MaxSource /\ (NonZero \/ Zero)
  \/ Len(source) = MaxSource /\ UNCHANGED vars

Spec == Init /\ [][Next]_vars

\* Behind the blocks that are finished comes the place of the next code (code_ptr).
Encoded ==
  done \o (IF block_finished THEN <<0>> \o block ELSE <<Code(block)>> \o block \o <<0>>)

-----------------------------------------------------------------------------
\* AM_COBSZPE_ENCODED_SIZE_FOR
EncodedSizeFor(n) == n + (n + ZerolessMax) \div (ZerolessMax + 1) + 1

\* What a block with this code stands for behind its bytes (the codes of COBS/ZPE).
Bytes(code) == IF code > ZerolessMax + 1 THEN code - ZerolessMax - 2 ELSE code - 1
ZerosAfter(code) ==
  IF code > ZerolessMax + 1 THEN <<0, 0>> ELSE IF code = ZerolessMax + 1 THEN <<>> ELSE <<0>>

\* The source that an encoded sequence without its last zero stands for.
Decoded(encoded) ==
  LET d[i \in 1 .. Len(encoded) + 1] ==
        IF i = Len(encoded) + 1 THEN <<>>
        ELSE SubSeq(encoded, i + 1, i + Bytes(encoded[i])) \o ZerosAfter(encoded[i])
               \o d[i + 1 + Bytes(encoded[i])]
  IN  d[1]

\* Zero only ends the encoded sequence, codes are bytes, and the sequence can be
\* decoded: to the source, up to one zero at its end, which the encoder does not
\* tell from no zero.
StandsForSource(encoded) ==
  /\ \A i \in DOMAIN encoded : encoded[i] = 0 <=> i = Len(encoded)
  /\ \A i \in DOMAIN encoded : encoded[i] \in 0 .. ByteMax \cup {One}
  /\ Decoded(Front(encoded)) \in {source, Append(source, 0)}

\* What am_cobszpe_encode is for (README.rst: zero is the framing value to be
\* eliminated): whatever the source is, what it writes stands for it.
EncodesSource == source # <<>> => StandsForSource(Encoded)

\* The same with the last block as the loop left it, its code and the final zero.
Completed == done \o <<Code(block)>> \o block \o <<0>>

\* Every source is encoded so, but for those that end in a zero and one other byte:
\* the last block of these may lack its code and the final zero, and nothing else.
EncodesButLastCode ==
  source # <<>> =>
    \/ StandsForSource(Encoded)
    \/ /\ IsSuffix(<<0, One>>, source)
       /\ StandsForSource(Completed)

\* The room that is needed: a code for every ZerolessMax bytes, or part of them, and
\* the final zero.  AM_COBSZPE_ENCODED_SIZE_FOR, which the assertion on to_size insists
\* on, is as much for sources that are not longer than one block, and short by a byte
\* for some that are longer.
FitsCodes ==
  source # <<>> =>
    LET n == Len(source)
    IN  /\ Len(Encoded) <= n + (n + ZerolessMax - 1) \div ZerolessMax + 1
        /\ n <= ZerolessMax => Len(Encoded) <= EncodedSizeFor(n)

=============================================================================
