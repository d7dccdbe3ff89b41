--------------------------- MODULE ExamplesProofs ---------------------------
(***************************************************************************)
(* Proofs about RingBuffer, for every size of the buffer and every set of  *)
(* sizes the writer may ask for, and about the applications: what is       *)
(* exclusive in sync, workers, dpp and smokers, for every number of        *)
(* rounds, processors, philosophers and rounds of the smokers, and what    *)
(* the timers of watchdog and coro guarantee, for every period of them.    *)
(***************************************************************************)
EXTENDS Examples, SequenceTheorems, FiniteSetTheorems, TLAPS

Offset == 0 .. Size - 1

Wrapped == read_offset > write_offset

\* Where the data ends that the reader finds before it goes on at offset 0.
End == IF Wrapped THEN Size - read_skip ELSE write_offset

\* How many offsets there are up to that end.
Ahead == End - read_offset

Types ==
  /\ read_offset \in Offset /\ write_offset \in Offset /\ read_skip \in Offset
  /\ wpc \in {"idle", "skip", "wrap", "unskip", "publish"}
  /\ rpc \in {"idle", "getskip", "rewind", "seekskip", "seek", "datasize"}
  /\ w \in [rd : Offset, off : Offset, next : Offset]
  /\ r \in [wr : Offset, off : Offset, next : Offset, len : Offset]
  /\ wwin \in Windows /\ rwin \in Windows
  /\ want \in Requests \cup {None}

\* Wrapped data ends behind the reader's offset.
Ends == read_offset <= End

\* The unread offsets are one interval, or two when the data is wrapped around.
Unread ==
  /\ fifo \in Seq(Offset)
  /\ Len(fifo) = Ahead + IF Wrapped THEN write_offset ELSE 0
  /\ \A i \in 1 .. Len(fifo) :
       fifo[i] = IF i <= Ahead THEN read_offset + i - 1 ELSE i - Ahead - 1

\* What the writer has in its window begins at its offset and ends before the reader.
WriterWindow ==
  wwin.len > 0 =>
    /\ wwin.base = write_offset
    /\ IF Wrapped THEN wwin.base + wwin.len < read_offset
                  ELSE /\ wwin.base + wwin.len <= Size
                       /\ read_offset = 0 => wwin.base + wwin.len < Size

\* Between its steps the writer relies on what it loaded: the reader's offset only
\* grows while the data is not wrapped around.
Writer ==
  /\ wpc \in {"skip", "wrap"} => 0 < w.rd /\ w.rd <= read_offset /\ ~Wrapped
  /\ wpc = "wrap" => read_skip = Size - write_offset
  /\ wpc \in {"unskip", "publish"} =>
       /\ w.off <= wwin.len
       /\ IF write_offset + w.off = Size
          THEN w.next = 0 /\ 0 < read_offset /\ ~Wrapped
          ELSE w.next = write_offset + w.off
  /\ wpc = "unskip" => ~Wrapped
  /\ wpc = "publish" /\ write_offset + w.off = Size => read_skip = 0

\* The reader's window is at the front of the data.
ReaderWindow == rwin.len > 0 => rwin.base = read_offset /\ rwin.len <= Ahead

\* Between its steps the reader relies on what it loaded: the writer does not wrap
\* around again, nor change read_skip, while the data is wrapped around.
Reader ==
  /\ rpc \in {"getskip", "rewind", "seekskip", "datasize"} => Wrapped
  /\ rpc \in {"getskip", "rewind", "datasize"} => r.wr <= write_offset
  /\ rpc = "rewind" => read_offset = End
  /\ rpc = "datasize" => r.len = Size - read_offset - read_skip + r.wr
  /\ rpc \in {"seekskip", "seek"} => 1 <= r.off /\ r.off <= rwin.len
  /\ rpc = "seek" =>
       \/ r.next = read_offset + r.off
       \/ Wrapped /\ r.next = 0 /\ read_offset + r.off = End

IInv == Types /\ Ends /\ Unread /\ WriterWindow /\ Writer /\ ReaderWindow /\ Reader

-----------------------------------------------------------------------------
(* The unread offsets as intervals.                                        *)

\* f is the n offsets from lo on, followed by the m first offsets of the buffer.
Intervals(f, lo, n, m) ==
  /\ f \in Seq(Offset) /\ Len(f) = n + m
  /\ \A i \in 1 .. Len(f) : f[i] = IF i <= n THEN lo + i - 1 ELSE i - n - 1

Run(base, k) == [i \in 1 .. k |-> base + i - 1]

LEMMA RunSeq ==
  ASSUME NEW base \in Int, NEW k \in Nat, k > 0 => base >= 0 /\ base + k <= Size
  PROVE  /\ Run(base, k) \in Seq(Offset) /\ Len(Run(base, k)) = k
         /\ \A i \in 1 .. k : Run(base, k)[i] = base + i - 1
<1> USE RingBufferAssumption
<1>1. \A i \in 1 .. k : base + i - 1 \in Offset
  BY DEF Offset
<1> QED
  BY <1>1 DEF Run

IsConcat(h, f, g, T) ==
  /\ h \in Seq(T) /\ Len(h) = Len(f) + Len(g)
  /\ \A i \in 1 .. Len(f) : h[i] = f[i]
  /\ \A j \in 1 .. Len(g) : h[Len(f) + j] = g[j]

LEMMA ConcatAt ==
  ASSUME NEW T, NEW f \in Seq(T), NEW g \in Seq(T)
  PROVE  IsConcat(f \o g, f, g, T)
BY DEF IsConcat

\* Flushing k offsets behind the data, be it one interval or two, ...
LEMMA AppendFirst ==
  ASSUME NEW f, NEW lo \in Nat, NEW n \in Nat, NEW k \in Nat, NEW base \in Nat,
         Intervals(f, lo, n, 0), lo + n + k <= Size, k > 0 => base = lo + n
  PROVE  Intervals(f \o Run(base, k), lo, n + k, 0)
<1>1. PICK g, h : g = Run(base, k) /\ h = f \o g
  OBVIOUS
<1>2. g \in Seq(Offset) /\ Len(g) = k
  BY <1>1, RunSeq, RingBufferAssumption
<1>3. \A j \in 1 .. k : g[j] = lo + (n + j) - 1
  BY <1>1 DEF Run
<1>4. f \in Seq(Offset) /\ Len(f) = n
  BY DEF Intervals
<1>5. \A i \in 1 .. n : f[i] = lo + i - 1
  BY <1>4 DEF Intervals
<1>6. /\ h \in Seq(Offset) /\ Len(h) = n + k
      /\ \A i \in 1 .. n : h[i] = f[i]
      /\ \A j \in 1 .. k : h[n + j] = g[j]
  <2>1. IsConcat(h, f, g, Offset)
    BY <1>1, <1>2, <1>4, ConcatAt
  <2> QED
    BY <1>2, <1>4, <2>1 DEF IsConcat
<1>7. ASSUME NEW i \in 1 .. n + k
      PROVE  h[i] = lo + i - 1
  <2>1. CASE i <= n
    BY <1>5, <1>6, <2>1
  <2>2. CASE i > n
    <3>1. PICK j \in 1 .. k : i = n + j
      <4>1. i - n \in 1 .. k /\ i = n + (i - n)
        BY <2>2
      <4> QED
        BY <4>1
    <3> QED
      BY <1>3, <1>6, <3>1
  <2> QED
    BY <2>1, <2>2
<1> QED
  BY <1>1, <1>6, <1>7 DEF Intervals

LEMMA AppendSecond ==
  ASSUME NEW f, NEW lo \in Nat, NEW n \in Nat, NEW m \in Nat, NEW k \in Nat,
         NEW base \in Nat,
         Intervals(f, lo, n, m), m + k <= Size, k > 0 => base = m
  PROVE  Intervals(f \o Run(base, k), lo, n, m + k)
<1>1. PICK g, h : g = Run(base, k) /\ h = f \o g
  OBVIOUS
<1>2. g \in Seq(Offset) /\ Len(g) = k
  BY <1>1, RunSeq, RingBufferAssumption
<1>3. \A j \in 1 .. k : g[j] = m + j - 1
  BY <1>1 DEF Run
<1>4. f \in Seq(Offset) /\ Len(f) = n + m
  BY DEF Intervals
<1>5. \A i \in 1 .. n + m : f[i] = IF i <= n THEN lo + i - 1 ELSE i - n - 1
  BY <1>4 DEF Intervals
<1>6. /\ h \in Seq(Offset) /\ Len(h) = n + (m + k)
      /\ \A i \in 1 .. n + m : h[i] = f[i]
      /\ \A j \in 1 .. k : h[n + m + j] = g[j]
  <2>1. IsConcat(h, f, g, Offset)
    BY <1>1, <1>2, <1>4, ConcatAt
  <2> QED
    BY SMTT(30), <1>2, <1>4, <2>1 DEF IsConcat
<1>7. ASSUME NEW i \in 1 .. n + (m + k)
      PROVE  h[i] = IF i <= n THEN lo + i - 1 ELSE i - n - 1
  <2>1. CASE i <= n + m
    <3>1. i \in 1 .. n + m
      BY <2>1
    <3> QED
      BY <1>5, <1>6, <3>1
  <2>2. CASE i > n + m
    <3>1. PICK j \in 1 .. k : i = n + m + j
      <4>1. i - (n + m) \in 1 .. k /\ i = n + m + (i - (n + m))
        BY <2>2
      <4> QED
        BY <4>1
    <3>2. h[i] = m + j - 1
      BY <1>3, <1>6, <3>1
    <3> QED
      BY <3>1, <3>2
  <2> QED
    BY <2>1, <2>2
<1> QED
  BY <1>1, <1>6, <1>7 DEF Intervals

\* ... and seeking past k of the first one.
LEMMA DropFirst ==
  ASSUME NEW f, NEW lo \in Nat, NEW n \in Nat, NEW m \in Nat, NEW k \in 0 .. n,
         Intervals(f, lo, n, m)
  PROVE  Intervals(SubSeq(f, k + 1, Len(f)), lo + k, n - k, m)
<1> DEFINE g == SubSeq(f, k + 1, Len(f))
<1>1. /\ f \in Seq(Offset) /\ Len(f) = n + m
      /\ \A i \in 1 .. n + m : f[i] = IF i <= n THEN lo + i - 1 ELSE i - n - 1
  BY DEF Intervals
<1>2. /\ g \in Seq(Offset) /\ Len(g) = (n - k) + m
      /\ \A i \in 1 .. (n - k) + m : g[i] = f[i + k]
  BY <1>1
<1> HIDE DEF g
<1>3. ASSUME NEW i \in 1 .. (n - k) + m
      PROVE  g[i] = IF i <= n - k THEN (lo + k) + i - 1 ELSE i - (n - k) - 1
  <2>1. i + k \in 1 .. n + m /\ (i + k <= n <=> i <= n - k)
    OBVIOUS
  <2> QED
    BY <1>1, <1>2, <2>1
<1> QED
  BY <1>2, <1>3 DEF Intervals, g

\* When nothing is left of the first interval, the second one is the first.
LEMMA SecondIsFirst ==
  ASSUME NEW f, NEW lo \in Nat, NEW m \in Nat, Intervals(f, lo, 0, m)
  PROVE  Intervals(f, 0, m, 0)
BY DEF Intervals

-----------------------------------------------------------------------------
(* Steps that leave the unread offsets alone.                              *)

LEMMA WantsInv ==
  ASSUME IInv, NEW n \in Requests, Wants(n)
  PROVE  IInv'
<1> USE RingBufferAssumption DEF IInv, Wants, writerVars, readerVars
<1>1. Types'
  BY DEF Types, Offset, Windows, Ends, Ahead, End, Wrapped, Unread, WriterWindow, Writer, ReaderWindow, Reader
<1>2. Ends'
  BY DEF Types, Offset, Ends, End, Wrapped, Writer
<1>3. Unread'
  BY DEF Types, Offset, Ends, Unread, Ahead, End, Wrapped, Writer, Reader
<1>4. WriterWindow'
  BY DEF Types, Offset, WriterWindow, Wrapped, Windows, Writer, Reader
<1>5. Writer'
  BY DEF Types, Offset, WriterWindow, Wrapped, Windows, Writer, Reader
<1>6. ReaderWindow'
  BY DEF Types, Offset, Ends, Ahead, End, ReaderWindow, Wrapped, Windows, Writer, Reader
<1>7. Reader'
  BY DEF Types, Offset, Ends, Ahead, End, ReaderWindow, Wrapped, Windows, Writer, Reader, Unread
<1> QED
  BY <1>1, <1>2, <1>3, <1>4, <1>5, <1>6, <1>7

LEMMA GetWriteTailInv ==
  ASSUME IInv, GetWriteTail
  PROVE  IInv'
<1> USE RingBufferAssumption DEF IInv, GetWriteTail, Granted, TailRoom, TillEnd, Window, writerVars, readerVars
<1>1. Types'
  BY DEF Types, Offset, Windows, Ends, Ahead, End, Wrapped, Unread, WriterWindow, Writer, ReaderWindow, Reader
<1>2. Ends'
  BY DEF Types, Offset, Ends, End, Wrapped, Writer
<1>3. Unread'
  BY DEF Types, Offset, Ends, Unread, Ahead, End, Wrapped, Writer, Reader
<1>4. WriterWindow'
  BY DEF Types, Offset, WriterWindow, Wrapped, Windows, Writer, Reader
<1>5. Writer'
  BY DEF Types, Offset, WriterWindow, Wrapped, Windows, Writer, Reader
<1>6. ReaderWindow'
  BY DEF Types, Offset, Ends, Ahead, End, ReaderWindow, Wrapped, Windows, Writer, Reader
<1>7. Reader'
  BY DEF Types, Offset, Ends, Ahead, End, ReaderWindow, Wrapped, Windows, Writer, Reader, Unread
<1> QED
  BY <1>1, <1>2, <1>3, <1>4, <1>5, <1>6, <1>7

LEMMA GetWriteRefusedInv ==
  ASSUME IInv, GetWriteRefused
  PROVE  IInv'
<1> USE RingBufferAssumption DEF IInv, GetWriteRefused, Refused, NoWindow, Window, writerVars, readerVars
<1>1. Types'
  BY DEF Types, Offset, Windows, Ends, Ahead, End, Wrapped, Unread, WriterWindow, Writer, ReaderWindow, Reader
<1>2. Ends'
  BY DEF Types, Offset, Ends, End, Wrapped, Writer
<1>3. Unread'
  BY DEF Types, Offset, Ends, Unread, Ahead, End, Wrapped, Writer, Reader
<1>4. WriterWindow'
  BY DEF Types, Offset, WriterWindow, Wrapped, Windows, Writer, Reader
<1>5. Writer'
  BY DEF Types, Offset, WriterWindow, Wrapped, Windows, Writer, Reader
<1>6. ReaderWindow'
  BY DEF Types, Offset, Ends, Ahead, End, ReaderWindow, Wrapped, Windows, Writer, Reader
<1>7. Reader'
  BY DEF Types, Offset, Ends, Ahead, End, ReaderWindow, Wrapped, Windows, Writer, Reader, Unread
<1> QED
  BY <1>1, <1>2, <1>3, <1>4, <1>5, <1>6, <1>7

LEMMA GetWriteTooShortInv ==
  ASSUME IInv, GetWriteTooShort
  PROVE  IInv'
<1> USE RingBufferAssumption DEF IInv, GetWriteTooShort, writerVars, readerVars
<1>1. Types'
  BY DEF Types, Offset, Windows, Ends, Ahead, End, Wrapped, Unread, WriterWindow, Writer, ReaderWindow, Reader
<1>2. Ends'
  BY DEF Types, Offset, Ends, End, Wrapped, Writer
<1>3. Unread'
  BY DEF Types, Offset, Ends, Unread, Ahead, End, Wrapped, Writer, Reader
<1>4. WriterWindow'
  BY DEF Types, Offset, WriterWindow, Wrapped, Windows, Writer, Reader
<1>5. Writer'
  BY DEF Types, Offset, WriterWindow, Wrapped, Windows, Writer, Reader
<1>6. ReaderWindow'
  BY DEF Types, Offset, Ends, Ahead, End, ReaderWindow, Wrapped, Windows, Writer, Reader
<1>7. Reader'
  BY DEF Types, Offset, Ends, Ahead, End, ReaderWindow, Wrapped, Windows, Writer, Reader, Unread
<1> QED
  BY <1>1, <1>2, <1>3, <1>4, <1>5, <1>6, <1>7

LEMMA GetWriteSkipsInv ==
  ASSUME IInv, GetWriteSkips
  PROVE  IInv'
<1> USE RingBufferAssumption DEF IInv, GetWriteSkips, TillEnd, writerVars, readerVars
<1>1. Types'
  BY DEF Types, Offset, Windows, Ends, Ahead, End, Wrapped, Unread, WriterWindow, Writer, ReaderWindow, Reader
<1>2. Ends'
  BY DEF Types, Offset, Ends, End, Wrapped, Writer
<1>3. Unread'
  BY DEF Types, Offset, Ends, Unread, Ahead, End, Wrapped, Writer, Reader
<1>4. WriterWindow'
  BY DEF Types, Offset, WriterWindow, Wrapped, Windows, Writer, Reader
<1>5. Writer'
  BY DEF Types, Offset, WriterWindow, Wrapped, Windows, Writer, Reader
<1>6. ReaderWindow'
  BY DEF Types, Offset, Ends, Ahead, End, ReaderWindow, Wrapped, Windows, Writer, Reader
<1>7. Reader'
  BY DEF Types, Offset, Ends, Ahead, End, ReaderWindow, Wrapped, Windows, Writer, Reader, Unread
<1> QED
  BY <1>1, <1>2, <1>3, <1>4, <1>5, <1>6, <1>7

LEMMA GetWriteWrapsInv ==
  ASSUME IInv, GetWriteWraps
  PROVE  IInv'
<1> USE RingBufferAssumption DEF IInv, GetWriteWraps, Refused, Granted, NoLocals, NoWindow, Window, writerVars, readerVars
<1>1. Types'
  <2>1. w.rd \in 1 .. Size - 1
    BY DEF Types, Offset, Writer
  <2>2. Window(0, w.rd - 1) \in Windows /\ NoWindow \in Windows /\ NoLocals \in [rd : Offset, off : Offset, next : Offset]
    BY <2>1 DEF Windows, Offset
  <2>3. wwin' = Window(0, w.rd - 1) \/ wwin' = NoWindow
    BY DEF Window, NoWindow
  <2>4. write_offset' \in Offset /\ want' \in Requests \cup {None}
    BY DEF Types, Offset
  <2> QED
    BY <2>2, <2>3, <2>4 DEF Types
<1>2. Ends'
  BY DEF Types, Offset, Ends, End, Wrapped, Writer
<1>3. Unread'
  BY SMTT(30) DEF Types, Offset, Ends, Unread, Ahead, End, Wrapped, Writer, Reader
<1>4. WriterWindow'
  BY DEF Types, Offset, WriterWindow, Wrapped, Windows, Writer, Reader
<1>5. Writer'
  BY DEF Types, Offset, WriterWindow, Wrapped, Windows, Writer, Reader
<1>6. ReaderWindow'
  BY DEF Types, Offset, Ends, Ahead, End, ReaderWindow, Wrapped, Windows, Writer, Reader
<1>7. Reader'
  BY DEF Types, Offset, Ends, Ahead, End, ReaderWindow, Wrapped, Windows, Writer, Reader, Unread
<1> QED
  BY <1>1, <1>2, <1>3, <1>4, <1>5, <1>6, <1>7

LEMMA GetWriteHeadInv ==
  ASSUME IInv, GetWriteHead
  PROVE  IInv'
<1> USE RingBufferAssumption DEF IInv, GetWriteHead, Granted, Refused, NoWindow, Window, writerVars, readerVars
<1>1. Types'
  <2> DEFINE room == read_offset - write_offset - 1
  <2>1. room \in 0 .. Size - 1 /\ write_offset \in 0 .. Size
    BY DEF Types, Offset
  <2> HIDE DEF room
  <2>2. Window(write_offset, room) \in Windows /\ NoWindow \in Windows
    BY <2>1 DEF Windows
  <2>3. wwin' = Window(write_offset, room) \/ wwin' = NoWindow
    BY DEF room
  <2>4. want' \in Requests \cup {None}
    BY DEF Types
  <2> QED
    BY <2>2, <2>3, <2>4 DEF Types
<1>2. Ends'
  BY DEF Types, Offset, Ends, End, Wrapped, Writer
<1>3. Unread'
  BY DEF Types, Offset, Ends, Unread, Ahead, End, Wrapped, Writer, Reader
<1>4. WriterWindow'
  BY DEF Types, Offset, WriterWindow, Wrapped, Windows, Writer, Reader
<1>5. Writer'
  BY DEF Types, Offset, WriterWindow, Wrapped, Windows, Writer, Reader
<1>6. ReaderWindow'
  BY DEF Types, Offset, Ends, Ahead, End, ReaderWindow, Wrapped, Windows, Writer, Reader
<1>7. Reader'
  BY DEF Types, Offset, Ends, Ahead, End, ReaderWindow, Wrapped, Windows, Writer, Reader, Unread
<1> QED
  BY <1>1, <1>2, <1>3, <1>4, <1>5, <1>6, <1>7

LEMMA FlushUnskipsInv ==
  ASSUME IInv, FlushUnskips
  PROVE  IInv'
<1> USE RingBufferAssumption DEF IInv, FlushUnskips, writerVars, readerVars
<1>1. Types'
  BY DEF Types, Offset, Windows, Ends, Ahead, End, Wrapped, Unread, WriterWindow, Writer, ReaderWindow, Reader
<1>2. Ends'
  BY DEF Types, Offset, Ends, End, Wrapped, Writer
<1>3. Unread'
  BY DEF Types, Offset, Ends, Unread, Ahead, End, Wrapped, Writer, Reader
<1>4. WriterWindow'
  BY DEF Types, Offset, WriterWindow, Wrapped, Windows, Writer, Reader
<1>5. Writer'
  BY DEF Types, Offset, WriterWindow, Wrapped, Windows, Writer, Reader
<1>6. ReaderWindow'
  BY DEF Types, Offset, Ends, Ahead, End, ReaderWindow, Wrapped, Windows, Writer, Reader
<1>7. Reader'
  BY DEF Types, Offset, Ends, Ahead, End, ReaderWindow, Wrapped, Windows, Writer, Reader, Unread
<1> QED
  BY <1>1, <1>2, <1>3, <1>4, <1>5, <1>6, <1>7

LEMMA GetReadInv ==
  ASSUME IInv, GetRead
  PROVE  IInv'
<1> USE RingBufferAssumption DEF IInv, GetRead, NoWindow, Window, writerVars, readerVars
<1>1. Types'
  BY DEF Types, Offset, Windows, Ends, Ahead, End, Wrapped, Unread, WriterWindow, Writer, ReaderWindow, Reader
<1>2. Ends'
  BY DEF Types, Offset, Ends, End, Wrapped, Writer
<1>3. Unread'
  BY DEF Types, Offset, Ends, Unread, Ahead, End, Wrapped, Writer, Reader
<1>4. WriterWindow'
  BY DEF Types, Offset, WriterWindow, Wrapped, Windows, Writer, Reader
<1>5. Writer'
  BY DEF Types, Offset, WriterWindow, Wrapped, Windows, Writer, Reader
<1>6. ReaderWindow'
  BY DEF Types, Offset, Ends, Ahead, End, ReaderWindow, Wrapped, Windows, Writer, Reader
<1>7. Reader'
  BY DEF Types, Offset, Ends, Ahead, End, ReaderWindow, Wrapped, Windows, Writer, Reader, Unread
<1> QED
  BY <1>1, <1>2, <1>3, <1>4, <1>5, <1>6, <1>7

LEMMA GetReadWrappedInv ==
  ASSUME IInv, GetReadWrapped
  PROVE  IInv'
<1> USE RingBufferAssumption DEF IInv, GetReadWrapped, writerVars, readerVars
<1>1. Types'
  BY DEF Types, Offset, Windows, Ends, Ahead, End, Wrapped, Unread, WriterWindow, Writer, ReaderWindow, Reader
<1>2. Ends'
  BY DEF Types, Offset, Ends, End, Wrapped, Writer
<1>3. Unread'
  BY DEF Types, Offset, Ends, Unread, Ahead, End, Wrapped, Writer, Reader
<1>4. WriterWindow'
  BY DEF Types, Offset, WriterWindow, Wrapped, Windows, Writer, Reader
<1>5. Writer'
  BY DEF Types, Offset, WriterWindow, Wrapped, Windows, Writer, Reader
<1>6. ReaderWindow'
  BY DEF Types, Offset, Ends, Ahead, End, ReaderWindow, Wrapped, Windows, Writer, Reader
<1>7. Reader'
  BY DEF Types, Offset, Ends, Ahead, End, ReaderWindow, Wrapped, Windows, Writer, Reader, Unread
<1> QED
  BY <1>1, <1>2, <1>3, <1>4, <1>5, <1>6, <1>7

LEMMA GetReadTailInv ==
  ASSUME IInv, GetReadTail
  PROVE  IInv'
<1> USE RingBufferAssumption DEF IInv, GetReadTail, NoReads, ReadTail, Window, writerVars, readerVars
<1>1. Types'
  BY DEF Types, Offset, Windows, Ends, Ahead, End, Wrapped, Unread, WriterWindow, Writer, ReaderWindow, Reader
<1>2. Ends'
  BY DEF Types, Offset, Ends, End, Wrapped, Writer
<1>3. Unread'
  BY DEF Types, Offset, Ends, Unread, Ahead, End, Wrapped, Writer, Reader
<1>4. WriterWindow'
  BY DEF Types, Offset, WriterWindow, Wrapped, Windows, Writer, Reader
<1>5. Writer'
  BY DEF Types, Offset, WriterWindow, Wrapped, Windows, Writer, Reader
<1>6. ReaderWindow'
  BY DEF Types, Offset, Ends, Ahead, End, ReaderWindow, Wrapped, Windows, Writer, Reader
<1>7. Reader'
  BY DEF Types, Offset, Ends, Ahead, End, ReaderWindow, Wrapped, Windows, Writer, Reader, Unread
<1> QED
  BY <1>1, <1>2, <1>3, <1>4, <1>5, <1>6, <1>7

LEMMA GetReadAtEndInv ==
  ASSUME IInv, GetReadAtEnd
  PROVE  IInv'
<1> USE RingBufferAssumption DEF IInv, GetReadAtEnd, ReadTail, writerVars, readerVars
<1>1. Types'
  BY DEF Types, Offset, Windows, Ends, Ahead, End, Wrapped, Unread, WriterWindow, Writer, ReaderWindow, Reader
<1>2. Ends'
  BY DEF Types, Offset, Ends, End, Wrapped, Writer
<1>3. Unread'
  BY DEF Types, Offset, Ends, Unread, Ahead, End, Wrapped, Writer, Reader
<1>4. WriterWindow'
  BY DEF Types, Offset, WriterWindow, Wrapped, Windows, Writer, Reader
<1>5. Writer'
  BY DEF Types, Offset, WriterWindow, Wrapped, Windows, Writer, Reader
<1>6. ReaderWindow'
  BY DEF Types, Offset, Ends, Ahead, End, ReaderWindow, Wrapped, Windows, Writer, Reader
<1>7. Reader'
  BY DEF Types, Offset, Ends, Ahead, End, ReaderWindow, Wrapped, Windows, Writer, Reader, Unread
<1> QED
  BY <1>1, <1>2, <1>3, <1>4, <1>5, <1>6, <1>7

LEMMA GetReadRewindsInv ==
  ASSUME IInv, GetReadRewinds
  PROVE  IInv'
<1> USE RingBufferAssumption DEF IInv, GetReadRewinds, Window, NoReads, writerVars, readerVars
<1>1. Types'
  BY DEF Types, Offset, Windows, Ends, Ahead, End, Wrapped, Unread, WriterWindow, Writer, ReaderWindow, Reader
<1>2. Ends'
  BY DEF Types, Offset, Ends, End, Wrapped, Writer
<1>3. Unread'
  <2>1. read_offset = End /\ Wrapped /\ write_offset \in Int
    BY DEF Reader, Types, Offset
  <2>2. /\ fifo \in Seq(Offset) /\ Len(fifo) = write_offset
        /\ \A i \in 1 .. Len(fifo) : fifo[i] = i - 1
    BY <2>1 DEF Unread, Ahead, Types, Offset
  <2>3. ~Wrapped' /\ Ahead' = write_offset
    BY <2>1 DEF Ahead, End, Wrapped, Types, Offset
  <2>4. write_offset' = write_offset /\ fifo' = fifo /\ read_offset' = 0
    OBVIOUS
  <2> QED
    BY <2>1, <2>2, <2>3, <2>4 DEF Unread
<1>4. WriterWindow'
  BY DEF Types, Offset, WriterWindow, Wrapped, Windows, Writer, Reader
<1>5. Writer'
  BY DEF Types, Offset, WriterWindow, Wrapped, Windows, Writer, Reader
<1>6. ReaderWindow'
  BY DEF Types, Offset, Ends, Ahead, End, ReaderWindow, Wrapped, Windows, Writer, Reader
<1>7. Reader'
  BY DEF Types, Offset, Ends, Ahead, End, ReaderWindow, Wrapped, Windows, Writer, Reader, Unread
<1> QED
  BY <1>1, <1>2, <1>3, <1>4, <1>5, <1>6, <1>7

LEMMA SeekInv ==
  ASSUME IInv, NEW n \in 1 .. Size - 1, Seek(n)
  PROVE  IInv'
<1> USE RingBufferAssumption DEF IInv, Seek, writerVars, readerVars
<1>1. Types'
  <2>1. n \in Offset /\ rwin.len > 0 /\ n <= Ahead /\ rwin.len \in Int /\ Ahead \in Int
    BY DEF Types, Offset, Windows, ReaderWindow, Ahead, End, Wrapped
  <2>2. CASE Wrapped
    <3>1. r' = [r EXCEPT !.off = n] /\ rpc' = "seekskip"
      BY <2>2 DEF Wrapped
    <3> QED
      BY <2>1, <3>1 DEF Types
  <2>3. CASE ~Wrapped
    <3>1. r' = [r EXCEPT !.off = n, !.next = read_offset + n] /\ rpc' = "seek"
      BY <2>3 DEF Wrapped
    <3>2. read_offset + n \in Offset
      BY <2>1, <2>3 DEF Types, Offset, Ahead, End, Wrapped
    <3> QED
      BY <2>1, <3>1, <3>2 DEF Types
  <2> QED
    BY <2>2, <2>3
<1>2. Ends'
  BY DEF Types, Offset, Ends, End, Wrapped, Writer
<1>3. Unread'
  BY DEF Types, Offset, Ends, Unread, Ahead, End, Wrapped, Writer, Reader
<1>4. WriterWindow'
  BY DEF Types, Offset, WriterWindow, Wrapped, Windows, Writer, Reader
<1>5. Writer'
  BY DEF Types, Offset, WriterWindow, Wrapped, Windows, Writer, Reader
<1>6. ReaderWindow'
  BY DEF Types, Offset, Ends, Ahead, End, ReaderWindow, Wrapped, Windows, Writer, Reader
<1>7. Reader'
  <2>1. n >= 1 /\ n <= rwin.len /\ read_offset' = read_offset /\ write_offset' = write_offset
        /\ rwin' = rwin /\ Wrapped' = Wrapped
    BY DEF Wrapped
  <2>2. CASE Wrapped
    <3>1. r'.off = n /\ rpc' = "seekskip"
      BY <2>2 DEF Wrapped, Types
    <3> QED
      BY <2>1, <2>2, <3>1 DEF Reader
  <2>3. CASE ~Wrapped
    <3>1. r'.off = n /\ r'.next = read_offset + n /\ rpc' = "seek"
      BY <2>3 DEF Wrapped, Types
    <3> QED
      BY <2>1, <3>1 DEF Reader
  <2> QED
    BY <2>2, <2>3
<1> QED
  BY <1>1, <1>2, <1>3, <1>4, <1>5, <1>6, <1>7

LEMMA AskDataSizeInv ==
  ASSUME IInv, AskDataSize
  PROVE  IInv'
<1> USE RingBufferAssumption DEF IInv, AskDataSize, writerVars, readerVars
<1>1. Types'
  <2>1. Len(fifo) \in Offset
    BY SMTT(30) DEF Unread, Ahead, End, Wrapped, Ends, Types, Offset
  <2> QED
    BY <2>1 DEF Types
<1>2. Ends'
  BY DEF Types, Offset, Ends, End, Wrapped, Writer
<1>3. Unread'
  BY DEF Types, Offset, Ends, Unread, Ahead, End, Wrapped, Writer, Reader
<1>4. WriterWindow'
  BY DEF Types, Offset, WriterWindow, Wrapped, Windows, Writer, Reader
<1>5. Writer'
  BY DEF Types, Offset, WriterWindow, Wrapped, Windows, Writer, Reader
<1>6. ReaderWindow'
  BY DEF Types, Offset, Ends, Ahead, End, ReaderWindow, Wrapped, Windows, Writer, Reader
<1>7. Reader'
  <2>1. Len(fifo) = Size - read_offset - read_skip + write_offset
    BY DEF Unread, Ahead, End, Wrapped, Types, Offset
  <2>2. r'.wr = write_offset /\ r'.len = Len(fifo) /\ rpc' = "datasize"
    BY DEF Types
  <2>3. write_offset <= write_offset /\ Wrapped'
    BY DEF Types, Offset, Wrapped
  <2> QED
    BY <2>1, <2>2, <2>3 DEF Reader
<1> QED
  BY <1>1, <1>2, <1>3, <1>4, <1>5, <1>6, <1>7

LEMMA GetDataSizeInv ==
  ASSUME IInv, GetDataSize
  PROVE  IInv'
<1> USE RingBufferAssumption DEF IInv, GetDataSize, NoReads, writerVars, readerVars
<1>1. Types'
  BY DEF Types, Offset, Windows, Ends, Ahead, End, Wrapped, Unread, WriterWindow, Writer, ReaderWindow, Reader
<1>2. Ends'
  BY DEF Types, Offset, Ends, End, Wrapped, Writer
<1>3. Unread'
  BY DEF Types, Offset, Ends, Unread, Ahead, End, Wrapped, Writer, Reader
<1>4. WriterWindow'
  BY DEF Types, Offset, WriterWindow, Wrapped, Windows, Writer, Reader
<1>5. Writer'
  BY DEF Types, Offset, WriterWindow, Wrapped, Windows, Writer, Reader
<1>6. ReaderWindow'
  BY DEF Types, Offset, Ends, Ahead, End, ReaderWindow, Wrapped, Windows, Writer, Reader
<1>7. Reader'
  BY DEF Types, Offset, Ends, Ahead, End, ReaderWindow, Wrapped, Windows, Writer, Reader, Unread
<1> QED
  BY <1>1, <1>2, <1>3, <1>4, <1>5, <1>6, <1>7

-----------------------------------------------------------------------------
(* The steps that compute an offset or change what is unread.              *)

\* An offset that reached the end of the buffer, or of its data, goes on at 0.
LEMMA ModOnce ==
  ASSUME NEW e \in Nat \ {0}, NEW a \in 0 .. e
  PROVE  a % e = IF a = e THEN 0 ELSE a
OBVIOUS

LEMMA FlushInv ==
  ASSUME IInv, NEW n \in 0 .. Size - 1, Flush(n)
  PROVE  IInv'
<1> USE RingBufferAssumption DEF IInv
<1> DEFINE next == (write_offset + n) % Size
<1>1. /\ n <= wwin.len /\ wpc = "idle" /\ wpc' = FlushStep(n)
      /\ w' = [w EXCEPT !.off = n, !.next = next]
      /\ UNCHANGED <<write_offset, read_skip, want, wwin, read_offset, rpc, r, rwin, fifo>>
  BY DEF Flush, readerVars
<1>2. /\ read_offset \in Offset /\ write_offset \in Offset /\ wwin \in Windows
      /\ n \in Offset /\ wwin.len \in 0 .. Size - 1 /\ wwin.base \in 0 .. Size
  BY DEF Types, Offset, Windows
<1>3. /\ write_offset + n \in 0 .. Size
      /\ Wrapped => write_offset + n < read_offset
      /\ write_offset + n = Size => 0 < read_offset /\ ~Wrapped
  BY <1>1, <1>2 DEF WriterWindow, Wrapped, Offset
<1>4. next = IF write_offset + n = Size THEN 0 ELSE write_offset + n
  BY <1>3, ModOnce
<1>5. /\ FlushStep(n) \in {"unskip", "publish"}
      /\ FlushStep(n) = "unskip" => ~Wrapped
      /\ FlushStep(n) = "publish" => write_offset + n # Size
  <2>1. write_offset >= read_offset <=> ~Wrapped
    BY <1>2 DEF Wrapped, Offset
  <2>2. FlushStep(n) = IF ~Wrapped /\ next = 0 THEN "unskip" ELSE "publish"
    BY <2>1 DEF FlushStep
  <2> QED
    BY <1>3, <1>4, <2>2
<1> HIDE DEF next
<1>6. next \in Offset
  BY <1>2, <1>3, <1>4 DEF Offset
<1>7. w'.off = n /\ w'.next = next /\ w'.rd = w.rd
  BY <1>1 DEF Types
<1>8. Types'
  BY <1>1, <1>2, <1>5, <1>6 DEF Types
<1>9. Ends' /\ Unread' /\ WriterWindow' /\ ReaderWindow' /\ Reader'
  BY <1>1 DEF Ends, End, Wrapped, Unread, Ahead, WriterWindow, ReaderWindow, Reader
<1>10. Writer'
  BY <1>1, <1>3, <1>4, <1>5, <1>7 DEF Writer, Wrapped
<1> QED
  BY <1>8, <1>9, <1>10

LEMMA FlushPublishesInv ==
  ASSUME IInv, FlushPublishes
  PROVE  IInv'
<1> USE RingBufferAssumption
<1> DEFINE off == w.off
<1>1. /\ wpc = "publish" /\ wpc' = "idle" /\ w' = NoLocals
      /\ write_offset' = w.next
      /\ wwin' = Window(wwin.base + off, wwin.len - off)
      /\ fifo' = fifo \o Run(wwin.base, off)
      /\ UNCHANGED <<read_skip, want, read_offset, rpc, r, rwin>>
  BY DEF FlushPublishes, readerVars, Run
<1>2. /\ read_offset \in Offset /\ write_offset \in Offset /\ read_skip \in Offset
      /\ wwin.len \in 0 .. Size - 1 /\ wwin.base \in 0 .. Size
      /\ off \in Offset /\ w.next \in Offset /\ off <= wwin.len
  BY <1>1 DEF IInv, Types, Offset, Windows, Writer
<1> HIDE DEF off
<1>3. /\ off > 0 => wwin.base = write_offset
      /\ Wrapped => write_offset + off < read_offset
      /\ ~Wrapped => write_offset + off <= Size
  BY <1>2 DEF IInv, WriterWindow, Wrapped, Offset
<1>4. wwin'.base = wwin.base + off /\ wwin'.len = wwin.len - off
  BY <1>1 DEF Window
<1>5. /\ write_offset + off = Size =>
           w.next = 0 /\ 0 < read_offset /\ ~Wrapped /\ read_skip = 0 /\ off > 0
      /\ write_offset + off # Size => w.next = write_offset + off
  BY <1>1, <1>2 DEF IInv, Writer, Offset, off
<1>6. Types'
  <2>1. wwin.base + off \in 0 .. Size /\ wwin.len - off \in 0 .. Size - 1
    BY <1>2, <1>3 DEF Wrapped, Offset
  <2>2. wwin' \in Windows
    BY <1>1, <2>1 DEF Window, Windows
  <2>3. NoLocals \in [rd : Offset, off : Offset, next : Offset]
    BY DEF NoLocals, Offset
  <2> QED
    BY <1>1, <1>2, <2>2, <2>3 DEF IInv, Types
<1>7. /\ Ahead \in Nat /\ read_offset \in Nat /\ write_offset \in Nat
      /\ Intervals(fifo, read_offset, Ahead, IF Wrapped THEN write_offset ELSE 0)
      /\ ~Wrapped => Ahead = write_offset - read_offset
  BY <1>2 DEF IInv, Ends, Unread, Intervals, Ahead, End, Wrapped, Offset
<1>8. CASE write_offset + off = Size
  <2>1. /\ write_offset' = 0 /\ 0 < read_offset /\ ~Wrapped /\ read_skip' = 0 /\ off > 0
        /\ read_offset' = read_offset
    BY <1>1, <1>5, <1>8
  <2>2. Wrapped' /\ End' = Size
    BY <1>2, <2>1 DEF Wrapped, End, Offset
  <2>3. Ahead' = Size - read_offset /\ Ahead' = Ahead + off
    BY <1>2, <1>7, <1>8, <2>1, <2>2 DEF Ahead, Offset
  <2>4. Ends'
    BY <1>2, <2>1, <2>2 DEF Ends, Offset
  <2>5. Unread'
    <3>1. Intervals(fifo \o Run(wwin.base, off), read_offset, Ahead + off, 0)
      BY <1>2, <1>3, <1>7, <1>8, <2>1, AppendFirst DEF Offset
    <3> QED
      BY <1>1, <2>1, <2>2, <2>3, <3>1 DEF Unread, Intervals
  <2>6. WriterWindow'
    BY <1>2, <1>3, <1>4, <1>8, <2>1 DEF IInv, WriterWindow, Offset
  <2>7. Writer'
    BY <1>1 DEF Writer
  <2>8. ReaderWindow'
    BY SMTT(30), <1>1, <1>2, <1>7, <2>1, <2>3 DEF IInv, ReaderWindow, Types, Windows, Offset
  <2>9. Reader'
    BY <1>1, <2>1, <2>2 DEF IInv, Reader
  <2> QED
    BY <1>6, <2>4, <2>5, <2>6, <2>7, <2>8, <2>9 DEF IInv
<1>9. CASE write_offset + off # Size
  <2>1. write_offset' = write_offset + off /\ read_offset' = read_offset /\ read_skip' = read_skip
    BY <1>1, <1>5, <1>9
  <2>2. Wrapped' = Wrapped
    BY <1>2, <1>3, <2>1 DEF Wrapped, Offset
  <2>3. Ahead' = Ahead + (IF Wrapped THEN 0 ELSE off)
    BY <1>2, <2>1, <2>2 DEF Ahead, End, Offset
  <2>4. Ends'
    BY <1>2, <2>1, <2>2 DEF IInv, Ends, End, Offset
  <2>5. Unread'
    <3>1. CASE Wrapped
      <4>1. Intervals(fifo \o Run(wwin.base, off), read_offset, Ahead, write_offset + off)
        BY <1>2, <1>3, <1>7, <3>1, AppendSecond DEF Offset
      <4> QED
        BY SMTT(30), <1>1, <1>2, <1>7, <2>1, <2>2, <2>3, <3>1, <4>1 DEF Unread, Intervals
    <3>2. CASE ~Wrapped
      <4>1. Intervals(fifo \o Run(wwin.base, off), read_offset, Ahead + off, 0)
        BY <1>2, <1>3, <1>7, <3>2, AppendFirst DEF Offset
      <4> QED
        BY <1>1, <2>1, <2>2, <2>3, <3>2, <4>1 DEF Unread, Intervals
    <3> QED
      BY <3>1, <3>2
  <2>6. WriterWindow'
    BY <1>2, <1>3, <1>4, <2>1, <2>2 DEF IInv, WriterWindow, Offset
  <2>7. Writer'
    BY <1>1 DEF Writer
  <2>8. ReaderWindow'
    <3>1. Ahead' >= Ahead /\ Ahead' \in Int
      BY <1>2, <1>7, <2>3 DEF Offset
    <3>2. rwin' = rwin /\ rwin.len \in Int
      BY <1>1 DEF IInv, Types, Windows
    <3> QED
      BY <1>7, <2>1, <3>1, <3>2 DEF IInv, ReaderWindow
  <2>9. Reader'
    <3>1. Wrapped => End' = End
      BY <2>1, <2>2 DEF End
    <3>2. r' = r /\ rpc' = rpc /\ rwin' = rwin
      BY <1>1
    <3>3. ASSUME r.wr <= write_offset
          PROVE  r.wr <= write_offset'
      BY <1>2, <2>1, <3>3 DEF IInv, Types, Offset
    <3>4. rpc = "rewind" => Wrapped
      BY DEF IInv, Reader
    <3> QED
      BY <2>1, <2>2, <3>1, <3>2, <3>3, <3>4 DEF IInv, Reader
  <2> QED
    BY <1>6, <2>4, <2>5, <2>6, <2>7, <2>8, <2>9 DEF IInv
<1> QED
  BY <1>8, <1>9

LEMMA SeekWrapsInv ==
  ASSUME IInv, SeekWraps
  PROVE  IInv'
<1> USE RingBufferAssumption
<1> DEFINE next == (read_offset + r.off) % (Size - read_skip)
<1>1. /\ rpc = "seekskip" /\ rpc' = "seek" /\ r.off <= ReadTail
      /\ r' = [r EXCEPT !.next = next]
      /\ UNCHANGED <<read_offset, rwin, write_offset, read_skip, wpc, w, want, wwin, fifo>>
  BY DEF SeekWraps, writerVars
<1>2. /\ read_offset \in Offset /\ read_skip \in Offset /\ r.off \in Offset /\ Wrapped
  BY <1>1 DEF IInv, Types, Reader
<1>3. /\ Size - read_skip \in Nat \ {0} /\ read_offset + r.off \in 0 .. Size - read_skip
      /\ End = Size - read_skip
  BY <1>1, <1>2 DEF ReadTail, Offset, End
<1>4. next = IF read_offset + r.off = Size - read_skip THEN 0 ELSE read_offset + r.off
  BY <1>3, ModOnce
<1> HIDE DEF next
<1>5. next \in Offset
  BY <1>2, <1>3, <1>4 DEF Offset
<1>6. /\ r'.next = next /\ r'.off = r.off /\ r'.wr = r.wr /\ r'.len = r.len
  BY <1>1 DEF IInv, Types
<1>7. Types'
  BY <1>1, <1>5 DEF IInv, Types
<1>8. Ends' /\ Unread' /\ WriterWindow' /\ ReaderWindow' /\ Writer'
  BY <1>1 DEF IInv, Ends, End, Wrapped, Unread, Ahead, WriterWindow, ReaderWindow, Writer
<1>9. Reader'
  <2>1. End' = End /\ Wrapped'
    BY <1>1, <1>2 DEF End, Wrapped
  <2>2. 1 <= r.off /\ r.off <= rwin.len
    BY <1>1 DEF IInv, Reader
  <2> QED
    BY <1>1, <1>3, <1>4, <1>6, <2>1, <2>2 DEF Reader
<1> QED
  BY <1>7, <1>8, <1>9 DEF IInv

LEMMA SeekStoresInv ==
  ASSUME IInv, SeekStores
  PROVE  IInv'
<1> USE RingBufferAssumption
<1> DEFINE off == r.off
<1>1. /\ rpc = "seek" /\ rpc' = "idle" /\ r' = NoReads
      /\ read_offset' = r.next
      /\ rwin' = Window(rwin.base + off, rwin.len - off)
      /\ fifo' = SubSeq(fifo, off + 1, Len(fifo))
      /\ UNCHANGED <<write_offset, read_skip, wpc, w, want, wwin>>
  BY DEF SeekStores, writerVars
<1>2. /\ read_offset \in Offset /\ write_offset \in Offset /\ read_skip \in Offset
      /\ rwin.len \in 0 .. Size - 1 /\ rwin.base = read_offset
      /\ off \in Offset /\ r.next \in Offset /\ 1 <= off /\ off <= rwin.len
      /\ rwin.len <= Ahead
  BY SMTT(30), <1>1 DEF IInv, Types, Offset, Windows, Reader, ReaderWindow
<1>3. \/ r.next = read_offset + off
      \/ Wrapped /\ r.next = 0 /\ read_offset + off = End
  BY <1>1 DEF IInv, Reader
<1> HIDE DEF off
<1>4. rwin'.base = read_offset + off /\ rwin'.len = rwin.len - off
  BY <1>1, <1>2 DEF Window
<1>5. /\ Ahead \in Nat /\ read_offset \in Nat /\ write_offset \in Nat /\ off \in 0 .. Ahead
      /\ Intervals(fifo, read_offset, Ahead, IF Wrapped THEN write_offset ELSE 0)
      /\ Ahead = End - read_offset /\ End \in 0 .. Size
  BY <1>2 DEF IInv, Ends, Unread, Intervals, Ahead, End, Wrapped, Offset
<1>6. Intervals(fifo', read_offset + off, Ahead - off, IF Wrapped THEN write_offset ELSE 0)
  BY <1>1, <1>5, DropFirst
<1>7. Types'
  <2>1. read_offset + off \in 0 .. Size /\ rwin.len - off \in 0 .. Size - 1
    BY <1>2, <1>5
  <2>2. rwin' \in Windows
    BY <1>1, <1>2, <2>1 DEF Window, Windows
  <2>3. NoReads \in [wr : Offset, off : Offset, next : Offset, len : Offset]
    BY DEF NoReads, Offset
  <2> QED
    BY <1>1, <1>2, <2>2, <2>3 DEF IInv, Types
<1>8. CASE r.next = read_offset + off
  <2>1. read_offset' = read_offset + off /\ write_offset' = write_offset /\ read_skip' = read_skip
    BY <1>1, <1>8
  <2>2. Wrapped' = Wrapped /\ End' = End
    BY <1>2, <1>5, <2>1 DEF Wrapped, End, Offset
  <2>3. Ahead' = Ahead - off
    BY <1>2, <1>5, <2>1, <2>2 DEF Ahead, Offset
  <2>4. Ends'
    BY <1>2, <1>5, <2>1, <2>2 DEF Ends, Offset
  <2>5. Unread'
    BY <1>6, <2>1, <2>2, <2>3 DEF Unread, Intervals
  <2>6. WriterWindow'
    <3>1. wwin' = wwin /\ wwin.len \in Int /\ wwin.base \in Int
      BY <1>1 DEF IInv, Types, Windows
    <3>2. read_offset' > 0 /\ read_offset' >= read_offset
      BY <1>2, <2>1 DEF Offset
    <3>3. read_offset' \in Int /\ read_offset \in Int
      BY <1>2, <2>1 DEF Offset
    <3>4. CASE Wrapped
      BY <2>1, <2>2, <3>1, <3>2, <3>3, <3>4 DEF IInv, WriterWindow
    <3>5. CASE ~Wrapped
      BY <2>1, <2>2, <3>1, <3>2, <3>3, <3>5 DEF IInv, WriterWindow
    <3> QED
      BY <3>4, <3>5
  <2>7. Writer'
    BY SMTT(30), <1>1, <1>2, <2>1, <2>2 DEF IInv, Writer, Types, Offset
  <2>8. ReaderWindow'
    BY <1>2, <1>4, <1>5, <2>1, <2>3 DEF ReaderWindow
  <2>9. Reader'
    BY <1>1 DEF Reader
  <2> QED
    BY <1>7, <2>4, <2>5, <2>6, <2>7, <2>8, <2>9 DEF IInv
<1>9. CASE Wrapped /\ r.next = 0 /\ read_offset + off = End
  <2>1. read_offset' = 0 /\ write_offset' = write_offset /\ Wrapped /\ off = Ahead
    BY <1>1, <1>2, <1>5, <1>9 DEF Offset
  <2>2. ~Wrapped' /\ End' = write_offset /\ Ahead' = write_offset
    BY <1>2, <2>1 DEF Wrapped, End, Ahead, Offset
  <2>3. Ends'
    BY <1>2, <2>1, <2>2 DEF Ends, Offset
  <2>4. Unread'
    <3>1. Intervals(fifo', read_offset + off, 0, write_offset)
      BY <1>5, <1>6, <2>1
    <3>2. Intervals(fifo', 0, write_offset, 0)
      <4>1. PICK f : f = fifo'
        OBVIOUS
      <4>2. read_offset + off \in Nat
        BY <1>5
      <4> QED
        BY <1>5, <3>1, <4>1, <4>2, SecondIsFirst
    <3> QED
      BY <2>1, <2>2, <3>2 DEF Unread, Intervals
  <2>5. WriterWindow'
    <3>1. wwin.len > 0 => wwin.base = write_offset /\ wwin.base + wwin.len < read_offset
      BY <2>1 DEF IInv, WriterWindow
    <3>2. read_offset < Size /\ wwin.len \in Int /\ wwin.base \in Int
      BY <1>2 DEF IInv, Types, Offset, Windows
    <3>3. wwin.len > 0 => wwin.base + wwin.len < Size
      BY <1>2, <3>1, <3>2 DEF Offset
    <3>4. wwin.len > 0 => wwin.base + wwin.len <= Size
      BY <3>2, <3>3
    <3>5. wwin' = wwin
      BY <1>1
    <3> QED
      BY <2>1, <2>2, <3>1, <3>3, <3>4, <3>5 DEF WriterWindow
  <2>6. Writer'
    BY <1>1, <2>1 DEF IInv, Writer
  <2>7. ReaderWindow'
    BY <1>2, <1>4, <1>5, <2>1 DEF ReaderWindow
  <2>8. Reader'
    BY <1>1 DEF Reader
  <2> QED
    BY <1>7, <2>3, <2>4, <2>5, <2>6, <2>7, <2>8 DEF IInv
<1> QED
  BY <1>3, <1>8, <1>9

-----------------------------------------------------------------------------
(* The theorems.                                                           *)

LEMMA InitInv == Init => IInv
<1> SUFFICES ASSUME Init PROVE IInv
  OBVIOUS
<1> USE RingBufferAssumption DEF Init, NoLocals, NoReads, NoWindow, Window
<1>1. Types
  BY DEF Types, Offset, Windows
<1>2. ~Wrapped /\ End = 0 /\ Ahead = 0
  BY DEF Wrapped, End, Ahead
<1>3. Ends /\ Unread
  BY <1>2 DEF Ends, Unread
<1>4. WriterWindow /\ Writer /\ ReaderWindow /\ Reader
  BY DEF WriterWindow, Writer, ReaderWindow, Reader
<1> QED
  BY <1>1, <1>3, <1>4 DEF IInv

LEMMA NextInv ==
  ASSUME IInv, [Next]_vars
  PROVE  IInv'
<1>1. CASE Next
  BY <1>1, WantsInv, GetWriteTailInv, GetWriteRefusedInv, GetWriteTooShortInv,
     GetWriteSkipsInv, GetWriteWrapsInv, GetWriteHeadInv, FlushInv, FlushUnskipsInv,
     FlushPublishesInv, GetReadInv, GetReadWrappedInv, GetReadTailInv, GetReadAtEndInv,
     GetReadRewindsInv, SeekInv, SeekWrapsInv, SeekStoresInv, AskDataSizeInv,
     GetDataSizeInv DEF Next
<1>2. CASE UNCHANGED vars
  <2>1. UNCHANGED <<write_offset, read_skip, wpc, w, want, wwin, read_offset, rpc, r, rwin,
                    fifo>>
    BY <1>2 DEF vars, writerVars, readerVars
  <2> QED
    BY <2>1 DEF IInv, Types, Ends, End, Wrapped, Unread, Ahead, WriterWindow, Writer,
                ReaderWindow, Reader
<1> QED
  BY <1>1, <1>2

LEMMA Inv == Spec => []IInv
<1>1. Init => IInv
  BY InitInv
<1>2. IInv /\ [Next]_vars => IInv'
  BY NextInv
<1> QED
  BY <1>1, <1>2, PTL DEF Spec

\* What the parts of the invariant say about the numbers.
LEMMA Numbers ==
  ASSUME IInv
  PROVE  /\ read_offset \in 0 .. Size - 1 /\ write_offset \in 0 .. Size - 1
         /\ read_skip \in 0 .. Size - 1 /\ Size \in Nat \ {0}
         /\ Ahead = End - read_offset /\ Ahead >= 0 /\ Ahead \in Int
         /\ fifo \in Seq(0 .. Size - 1) /\ Len(fifo) \in Nat
         /\ Len(fifo) = Ahead + IF Wrapped THEN write_offset ELSE 0
         /\ Wrapped => End = Size - read_skip /\ read_offset > write_offset
         /\ ~Wrapped => End = write_offset /\ read_offset <= write_offset
BY RingBufferAssumption DEF IInv, Types, Ends, Unread, Ahead, End, Wrapped, Offset

\* Offsets, sizes and locals stay within the buffer, and what is unread is shorter
\* than the buffer: one offset is kept free.
THEOREM TypeCorrect == Spec => []TypeOK
<1>1. IInv => TypeOK
  <2> SUFFICES ASSUME IInv PROVE TypeOK
    OBVIOUS
  <2>1. fifo \in Seq(0 .. Size - 1) /\ Len(fifo) < Size
    BY Numbers
  <2> QED
    BY <2>1 DEF IInv, Types, TypeOK, Offset
<1> QED
  BY <1>1, Inv, PTL

\* The bytes that are not read yet are different bytes.
LEMMA Injective == IInv => IsInjective(fifo)
<1> SUFFICES ASSUME IInv, NEW a \in 1 .. Len(fifo), NEW b \in 1 .. Len(fifo),
                    fifo[a] = fifo[b]
             PROVE  a = b
  <2>1. DOMAIN fifo = 1 .. Len(fifo)
    BY Numbers
  <2> QED
    BY <2>1 DEF IsInjective
<1>1. /\ fifo[a] = IF a <= Ahead THEN read_offset + a - 1 ELSE a - Ahead - 1
      /\ fifo[b] = IF b <= Ahead THEN read_offset + b - 1 ELSE b - Ahead - 1
  BY DEF IInv, Unread
<1>2. /\ read_offset \in Int /\ write_offset \in Int /\ Ahead \in Int /\ a \in Int /\ b \in Int
      /\ a >= 1 /\ b >= 1 /\ a <= Len(fifo) /\ b <= Len(fifo) /\ Len(fifo) \in Int
      /\ Len(fifo) = Ahead + IF Wrapped THEN write_offset ELSE 0
      /\ Wrapped => read_offset > write_offset
  BY Numbers
<1>3. CASE a <= Ahead /\ b <= Ahead
  <2>1. read_offset + a - 1 = read_offset + b - 1
    BY <1>1, <1>3
  <2> QED
    BY <1>2, <2>1
<1>4. CASE ~(a <= Ahead) /\ ~(b <= Ahead)
  <2>1. a - Ahead - 1 = b - Ahead - 1
    BY <1>1, <1>4
  <2> QED
    BY <1>2, <2>1
<1>5. ASSUME NEW i \in 1 .. Len(fifo), NEW j \in 1 .. Len(fifo), i <= Ahead, ~(j <= Ahead)
      PROVE  fifo[i] # fifo[j]
  <2>1. fifo[i] = read_offset + i - 1 /\ fifo[j] = j - Ahead - 1
    BY <1>5 DEF IInv, Unread
  <2> QED
    BY <1>2, <1>5, <2>1
<1> QED
  BY <1>3, <1>4, <1>5

\* Data arrives whole and in order: the window that the reader is given holds the bytes
\* that were flushed first, and the window that the writer is given holds none that the
\* reader has not sought past, for every size of the buffer and whatever is asked for,
\* at every point between two loads or stores of the two.
THEOREM DataCorrect == Spec => []DataIntact
<1>1. IInv => ReadsInOrder
  <2> SUFFICES ASSUME IInv, NEW i \in 1 .. rwin.len
               PROVE  i <= Len(fifo) /\ fifo[i] = rwin.base + i - 1
    BY DEF ReadsInOrder
  <2>1. rwin.len \in Int /\ rwin.base \in Int
    BY DEF IInv, Types, Windows
  <2>2. rwin.base = read_offset /\ rwin.len <= Ahead
    BY <2>1 DEF IInv, ReaderWindow
  <2>3. i <= Ahead /\ i \in 1 .. Len(fifo)
    BY SMTT(30), <2>1, <2>2, Numbers
  <2> QED
    BY <2>2, <2>3 DEF IInv, Unread
<1>2. IInv => WritesApart
  <2> SUFFICES ASSUME IInv, NEW o \in Offsets(wwin)
               PROVE  o \in 0 .. Size - 1 /\ o \notin ToSet(fifo)
    BY Injective DEF WritesApart
  <2>1. wwin.len \in Int /\ wwin.base \in Int
    BY DEF IInv, Types, Windows
  <2>2. wwin.len > 0 /\ o \in Int /\ wwin.base <= o /\ o < wwin.base + wwin.len
    BY <2>1 DEF Offsets
  <2>3. /\ wwin.base = write_offset
        /\ IF Wrapped THEN wwin.base + wwin.len < read_offset
                      ELSE wwin.base + wwin.len <= Size
    BY <2>2 DEF IInv, WriterWindow
  <2>4. o \in 0 .. Size - 1
    BY SMTT(30), <2>1, <2>2, <2>3, Numbers
  <2>5. ASSUME NEW i \in 1 .. Len(fifo)
        PROVE  fifo[i] # o
    <3>1. fifo[i] = IF i <= Ahead THEN read_offset + i - 1 ELSE i - Ahead - 1
      BY DEF IInv, Unread
    <3>2. /\ read_offset \in Int /\ write_offset \in Int /\ Ahead \in Int /\ i \in Int
          /\ i >= 1 /\ i <= Len(fifo) /\ Len(fifo) \in Int
          /\ Len(fifo) = Ahead + IF Wrapped THEN write_offset ELSE 0
          /\ Wrapped => read_offset > write_offset
          /\ ~Wrapped => Ahead = write_offset - read_offset
      BY Numbers
    <3>3. CASE Wrapped
      BY <2>1, <2>2, <2>3, <3>1, <3>2, <3>3
    <3>4. CASE ~Wrapped
      BY <2>1, <2>2, <2>3, <3>1, <3>2, <3>4
    <3> QED
      BY <3>3, <3>4
  <2>6. DOMAIN fifo = 1 .. Len(fifo)
    BY Numbers
  <2> QED
    BY <2>4, <2>5, <2>6 DEF ToSet
<1>3. IInv => DataIntact
  BY <1>1, <1>2 DEF DataIntact
<1> QED
  BY <1>3, Inv, PTL

\* The sizes that ringbuf.c computes from three separate loads are those of the data and
\* of the room, and none of its assertions fails, whatever the other side does between
\* the loads.
THEOREM SizesCorrect == Spec => []SizesExact
<1>1. IInv => SizesExact
  <2> SUFFICES ASSUME IInv PROVE SizesExact
    OBVIOUS
  <2>1. DataSize = Len(fifo)
    BY Numbers DEF DataSize, Wrapped
  <2>2. rpc = "datasize" => Size - read_offset - read_skip + r.wr = r.len
    BY DEF IInv, Reader
  <2>3. DataSize + FreeSize \in {Size - 1, Size - 1 - read_skip}
    BY SMTT(30), Numbers DEF DataSize, FreeSize, Wrapped
  <2>4. write_offset < read_offset => read_offset <= Size - read_skip
    BY Numbers DEF Wrapped
  <2>5. rpc \in {"getskip", "datasize"} => ReadTail >= 0
    BY Numbers DEF IInv, Reader, ReadTail
  <2>6. rpc = "seekskip" => r.off <= ReadTail
    <3>1. r.off \in Int /\ rwin.len \in Int
      BY DEF IInv, Types, Offset, Windows
    <3> QED
      BY SMTT(30), <3>1, Numbers DEF IInv, Reader, ReaderWindow, ReadTail
  <2>7. rwin.len > 0 =>
          /\ read_offset # write_offset
          /\ read_offset < write_offset => rwin.len <= write_offset - read_offset
    <3>1. rwin.len \in Int
      BY DEF IInv, Types, Windows
    <3>2. rwin.len > 0 => rwin.len <= Ahead
      BY DEF IInv, ReaderWindow
    <3>3. /\ read_offset \in Int /\ write_offset \in Int /\ End \in Int
          /\ Ahead = End - read_offset
          /\ Wrapped => read_offset > write_offset
          /\ ~Wrapped => End = write_offset /\ read_offset <= write_offset
      BY Numbers
    <3> QED
      BY <3>1, <3>2, <3>3
  <2>8. wwin # NoWindow => FlushAllowed(wwin.len)
    <3>1. wwin.len \in 0 .. Size - 1 /\ wwin.base \in Int
      BY DEF IInv, Types, Windows
    <3>2. CASE Wrapped
      <4>1. write_offset < read_offset /\ read_offset \in Int /\ write_offset \in Int
        BY <3>2, Numbers
      <4>2. wwin.len > 0 => wwin.len < read_offset - write_offset
        BY <3>1, <3>2, <4>1 DEF IInv, WriterWindow
      <4> QED
        BY <3>1, <4>1, <4>2 DEF FlushAllowed
    <3>3. CASE ~Wrapped
      <4>1. /\ write_offset >= read_offset /\ read_offset \in 0 .. Size - 1
            /\ write_offset \in 0 .. Size - 1
        BY <3>3, Numbers
      <4>2. wwin.len > 0 => /\ write_offset + wwin.len <= Size
                            /\ read_offset = 0 => write_offset + wwin.len < Size
        BY <3>1, <3>3 DEF IInv, WriterWindow
      <4> QED
        BY <3>1, <4>1, <4>2, RingBufferAssumption DEF FlushAllowed, TailRoom, TillEnd
    <3> QED
      BY <3>2, <3>3
  <2> QED
    BY <2>1, <2>2, <2>3, <2>4, <2>5, <2>6, <2>7, <2>8 DEF SizesExact
<1> QED
  BY <1>1, Inv, PTL

-----------------------------------------------------------------------------
(* Events in a queue *)

HasIn(q, E) == \E i \in 1 .. Len(q) : q[i] \in E
OneIn(q, E) == \A i, j \in 1 .. Len(q) : q[i] \in E /\ q[j] \in E => i = j
Has(q, e) == HasIn(q, {e})
Once(q, e) == OneIn(q, {e})
Before(q, d, h) == \A i, j \in 1 .. Len(q) : q[i] = d /\ q[j] = h => i < j

LEMMA TailHasIn ==
  ASSUME NEW T, NEW q \in Seq(T), q # <<>>, NEW E
  PROVE  /\ Tail(q) \in Seq(T) /\ q[1] \in T /\ Head(q) = q[1]
         /\ q[1] \in E => HasIn(q, E)
         /\ HasIn(Tail(q), E) => HasIn(q, E)
         /\ HasIn(q, E) => q[1] \in E \/ HasIn(Tail(q), E)
         /\ OneIn(q, E) => OneIn(Tail(q), E)
         /\ OneIn(q, E) /\ q[1] \in E => ~HasIn(Tail(q), E)
<1>1. /\ Tail(q) \in Seq(T) /\ Len(Tail(q)) = Len(q) - 1 /\ Len(q) \in Nat /\ Len(q) > 0
      /\ \A i \in 1 .. Len(q) - 1 : Tail(q)[i] = q[i + 1]
      /\ Head(q) = q[1] /\ q[1] \in T
  OBVIOUS
<1> DEFINE t == Tail(q)
           n == Len(q)
<1>2. /\ t = Tail(q) /\ Len(t) = n - 1 /\ n \in Nat /\ n > 0 /\ n = Len(q)
      /\ \A i \in 1 .. n - 1 : t[i] = q[i + 1] /\ i + 1 \in 1 .. n
  BY <1>1
<1> HIDE DEF t, n
<1>3. q[1] \in E => HasIn(q, E)
  BY <1>2 DEF HasIn
<1>4. HasIn(t, E) => HasIn(q, E)
  BY <1>2 DEF HasIn
<1>5. ASSUME HasIn(q, E), q[1] \notin E PROVE HasIn(t, E)
  <2>1. PICK i \in 1 .. n : q[i] \in E
    BY <1>2, <1>5 DEF HasIn
  <2>2. i - 1 \in 1 .. n - 1 /\ (i - 1) + 1 = i
    BY <2>1, <1>2, <1>5
  <2>3. t[i - 1] \in E
    BY <2>1, <2>2, <1>2
  <2> QED
    BY <2>2, <2>3, <1>2 DEF HasIn
<1>6. ASSUME OneIn(q, E) PROVE OneIn(t, E)
  <2> SUFFICES ASSUME NEW i \in 1 .. n - 1, NEW j \in 1 .. n - 1, t[i] \in E, t[j] \in E
               PROVE  i = j
    BY <1>2 DEF OneIn
  <2>1. q[i + 1] \in E /\ q[j + 1] \in E /\ i + 1 \in 1 .. n /\ j + 1 \in 1 .. n
    BY <1>2
  <2>2. i + 1 = j + 1
    BY <2>1, <1>2, <1>6 DEF OneIn
  <2> QED
    BY <2>2
<1>7. ASSUME OneIn(q, E), q[1] \in E PROVE ~HasIn(t, E)
  <2> SUFFICES ASSUME NEW i \in 1 .. n - 1, t[i] \in E PROVE FALSE
    BY <1>2 DEF HasIn
  <2>1. q[i + 1] \in E /\ i + 1 \in 1 .. n /\ 1 \in 1 .. n /\ i + 1 # 1
    BY <1>2
  <2> QED
    BY <2>1, <1>2, <1>7 DEF OneIn
<1> QED
  BY <1>1, <1>2, <1>3, <1>4, <1>5, <1>6, <1>7

LEMMA TailHas ==
  ASSUME NEW T, NEW q \in Seq(T), q # <<>>, NEW e
  PROVE  /\ Tail(q) \in Seq(T) /\ q[1] \in T /\ Head(q) = q[1]
         /\ Has(q, q[1])
         /\ Has(Tail(q), e) => Has(q, e)
         /\ Has(q, e) => q[1] = e \/ Has(Tail(q), e)
         /\ Once(q, e) => Once(Tail(q), e)
         /\ Once(q, e) /\ q[1] = e => ~Has(Tail(q), e)
BY TailHasIn DEF Has, Once

LEMMA ConcatHasIn ==
  ASSUME NEW T, NEW q \in Seq(T), NEW s \in Seq(T), NEW E
  PROVE  /\ q \o s \in Seq(T)
         /\ HasIn(q \o s, E) <=> HasIn(q, E) \/ HasIn(s, E)
         /\ OneIn(q, E) /\ OneIn(s, E) /\ ~(HasIn(q, E) /\ HasIn(s, E)) => OneIn(q \o s, E)
<1> DEFINE c == q \o s
           n == Len(q)
           m == Len(s)
<1>1. /\ c = q \o s /\ c \in Seq(T) /\ Len(c) = n + m /\ n \in Nat /\ m \in Nat
      /\ n = Len(q) /\ m = Len(s)
      /\ \A i \in 1 .. n : c[i] = q[i]
      /\ \A i \in 1 .. m : c[n + i] = s[i]
  OBVIOUS
<1> HIDE DEF c, n, m
<1>2. \A i \in 1 .. n + m : (i \in 1 .. n /\ c[i] = q[i])
                              \/ (i - n \in 1 .. m /\ c[i] = s[i - n])
  <2> SUFFICES ASSUME NEW i \in 1 .. n + m, i \notin 1 .. n
               PROVE  i - n \in 1 .. m /\ c[i] = s[i - n]
    BY <1>1
  <2>1. i - n \in 1 .. m /\ n + (i - n) = i
    BY <1>1
  <2> QED
    BY <2>1, <1>1
<1>3. HasIn(c, E) => HasIn(q, E) \/ HasIn(s, E)
  BY <1>1, <1>2 DEF HasIn
<1>4. HasIn(q, E) => HasIn(c, E)
  <2> SUFFICES ASSUME NEW i \in 1 .. n, q[i] \in E PROVE HasIn(c, E)
    BY <1>1 DEF HasIn
  <2>1. i \in 1 .. n + m /\ c[i] \in E
    BY <1>1
  <2> QED
    BY <2>1, <1>1 DEF HasIn
<1>5. HasIn(s, E) => HasIn(c, E)
  <2> SUFFICES ASSUME NEW i \in 1 .. m, s[i] \in E PROVE HasIn(c, E)
    BY <1>1 DEF HasIn
  <2>1. n + i \in 1 .. n + m /\ c[n + i] \in E
    BY <1>1
  <2> QED
    BY <2>1, <1>1 DEF HasIn
<1>6. ASSUME OneIn(q, E), OneIn(s, E), ~(HasIn(q, E) /\ HasIn(s, E)) PROVE OneIn(c, E)
  <2> SUFFICES ASSUME NEW i \in 1 .. n + m, NEW j \in 1 .. n + m, c[i] \in E, c[j] \in E
               PROVE  i = j
    BY <1>1 DEF OneIn
  <2>1. CASE i \in 1 .. n /\ j \in 1 .. n
    BY <2>1, <1>1, <1>6 DEF OneIn
  <2>2. CASE i \notin 1 .. n /\ j \notin 1 .. n
    <3>1. /\ i - n \in 1 .. m /\ s[i - n] \in E
          /\ j - n \in 1 .. m /\ s[j - n] \in E
      BY <2>2, <1>2
    <3>2. i - n = j - n
      BY <3>1, <1>1, <1>6 DEF OneIn
    <3> QED
      BY <3>2, <1>1
  <2>3. CASE i \in 1 .. n /\ j \notin 1 .. n
    <3>1. q[i] \in E /\ j - n \in 1 .. m /\ s[j - n] \in E
      BY <2>3, <1>1, <1>2
    <3> QED
      BY <3>1, <2>3, <1>1, <1>6 DEF HasIn
  <2>4. CASE i \notin 1 .. n /\ j \in 1 .. n
    <3>1. q[j] \in E /\ i - n \in 1 .. m /\ s[i - n] \in E
      BY <2>4, <1>1, <1>2
    <3> QED
      BY <3>1, <2>4, <1>1, <1>6 DEF HasIn
  <2> QED
    BY <2>1, <2>2, <2>3, <2>4
<1> QED
  BY <1>1, <1>3, <1>4, <1>5, <1>6

LEMMA ConcatHas ==
  ASSUME NEW T, NEW q \in Seq(T), NEW s \in Seq(T), NEW e
  PROVE  /\ q \o s \in Seq(T)
         /\ Has(q \o s, e) <=> Has(q, e) \/ Has(s, e)
         /\ Once(q, e) /\ Once(s, e) /\ ~(Has(q, e) /\ Has(s, e)) => Once(q \o s, e)
BY ConcatHasIn DEF Has, Once

LEMMA TailBefore ==
  ASSUME NEW T, NEW q \in Seq(T), q # <<>>, NEW d, NEW h, Before(q, d, h)
  PROVE  Before(Tail(q), d, h) /\ (q[1] = h => ~Has(q, d))
<1> DEFINE t == Tail(q)
           n == Len(q)
<1>1. /\ t = Tail(q) /\ Len(t) = n - 1 /\ n \in Nat /\ n > 0 /\ n = Len(q)
      /\ \A i \in 1 .. n - 1 : t[i] = q[i + 1] /\ i + 1 \in 1 .. n
  OBVIOUS
<1> HIDE DEF t, n
<1>2. Before(t, d, h)
  <2> SUFFICES ASSUME NEW i \in 1 .. n - 1, NEW j \in 1 .. n - 1, t[i] = d, t[j] = h
               PROVE  i < j
    BY <1>1 DEF Before
  <2>1. q[i + 1] = d /\ q[j + 1] = h /\ i + 1 \in 1 .. n /\ j + 1 \in 1 .. n
    BY <1>1
  <2>2. i + 1 < j + 1
    BY <2>1, <1>1 DEF Before
  <2> QED
    BY <2>2
<1>3. ASSUME q[1] = h PROVE ~Has(q, d)
  <2> SUFFICES ASSUME NEW i \in 1 .. n, q[i] = d PROVE FALSE
    BY <1>1 DEF Has, HasIn
  <2>1. i < 1
    BY <1>1, <1>3 DEF Before
  <2> QED
    BY <2>1
<1> QED
  BY <1>1, <1>2, <1>3

LEMMA ConcatBefore ==
  ASSUME NEW T, NEW q \in Seq(T), NEW s \in Seq(T), NEW d, NEW h,
         Before(q, d, h), Before(s, d, h), ~(Has(q, h) /\ Has(s, d))
  PROVE  Before(q \o s, d, h)
<1> DEFINE c == q \o s
           n == Len(q)
           m == Len(s)
<1>1. /\ c = q \o s /\ c \in Seq(T) /\ Len(c) = n + m /\ n \in Nat /\ m \in Nat
      /\ n = Len(q) /\ m = Len(s)
      /\ \A i \in 1 .. n : c[i] = q[i]
      /\ \A i \in 1 .. m : c[n + i] = s[i]
  OBVIOUS
<1> HIDE DEF c, n, m
<1>2. \A i \in 1 .. n + m : (i \in 1 .. n /\ c[i] = q[i])
                              \/ (i - n \in 1 .. m /\ c[i] = s[i - n])
  <2> SUFFICES ASSUME NEW i \in 1 .. n + m, i \notin 1 .. n
               PROVE  i - n \in 1 .. m /\ c[i] = s[i - n]
    BY <1>1
  <2>1. i - n \in 1 .. m /\ n + (i - n) = i
    BY <1>1
  <2> QED
    BY <2>1, <1>1
<1> SUFFICES ASSUME NEW i \in 1 .. n + m, NEW j \in 1 .. n + m, c[i] = d, c[j] = h
             PROVE  i < j
  BY <1>1 DEF Before
<1>3. CASE i \in 1 .. n /\ j \in 1 .. n
  BY <1>3, <1>1 DEF Before
<1>4. CASE i \notin 1 .. n /\ j \notin 1 .. n
  <2>1. /\ i - n \in 1 .. m /\ s[i - n] = d
        /\ j - n \in 1 .. m /\ s[j - n] = h
    BY <1>4, <1>2
  <2>2. i - n < j - n
    BY <2>1, <1>1 DEF Before
  <2> QED
    BY <2>2, <1>1
<1>5. CASE i \in 1 .. n /\ j \notin 1 .. n
  BY <1>5, <1>1
<1>6. CASE i \notin 1 .. n /\ j \in 1 .. n
  <2>1. q[j] = h /\ i - n \in 1 .. m /\ s[i - n] = d
    BY <1>6, <1>1, <1>2
  <2> QED
    BY <2>1, <1>6, <1>1 DEF Has, HasIn
<1> QED
  BY <1>3, <1>4, <1>5, <1>6

\* One event is sent to the end of a queue.
LEMMA SendHas ==
  ASSUME NEW T, NEW q \in Seq(T), NEW x \in T, NEW e
  PROVE  /\ q \o <<x>> \in Seq(T)
         /\ Has(q \o <<x>>, e) <=> Has(q, e) \/ x = e
         /\ Once(q, e) /\ (x = e => ~Has(q, e)) => Once(q \o <<x>>, e)
<1> DEFINE s == <<x>>
<1>1. s \in Seq(T) /\ s = <<x>> /\ Len(s) = 1 /\ s[1] = x
  OBVIOUS
<1> HIDE DEF s
<1>2. (Has(s, e) <=> x = e) /\ Once(s, e)
  BY <1>1 DEF Has, HasIn, Once, OneIn
<1> QED
  BY <1>1, <1>2, ConcatHas

LEMMA SendBefore ==
  ASSUME NEW T, NEW q \in Seq(T), NEW x \in T, NEW d, NEW h,
         d # h, Before(q, d, h), x = d => ~Has(q, h)
  PROVE  Before(q \o <<x>>, d, h)
<1> DEFINE s == <<x>>
<1>1. s \in Seq(T) /\ s = <<x>> /\ Len(s) = 1 /\ s[1] = x
  OBVIOUS
<1> HIDE DEF s
<1>2. (Has(s, d) => x = d) /\ Before(s, d, h)
  BY <1>1 DEF Has, HasIn, Before
<1> QED
  BY <1>1, <1>2, ConcatBefore

-----------------------------------------------------------------------------
(* sync *)

SyncInv ==
  /\ rounds \in Int /\ yAsked \in Int /\ yLeft \in Nat /\ job_pend \in BOOLEAN
  /\ Y!OneJobPending

LEMMA SyncInitInv == Y!Init => SyncInv
<1> SUFFICES ASSUME Y!Init PROVE SyncInv
  OBVIOUS
<1>1. /\ job_pend = FALSE /\ rounds = Rounds /\ yLeft = 0 /\ yAsked = 0 /\ Rounds \in Nat
  BY AppsAssumption DEF Y!Init, Y!TopInit, Y!LowInit
<1>2. Rounds - Rounds + 0 = 0 /\ Rounds \in Int
  BY <1>1
<1>3. (IF job_pend THEN 1 ELSE 0) = 0
  BY <1>1
<1>4. job_pend <=> yLeft > 0
  BY <1>1
<1>5. yAsked = (Rounds - rounds) + (IF job_pend THEN 1 ELSE 0)
  BY <1>1, <1>2, <1>3
<1>6. rounds \in Int /\ yAsked \in Int /\ yLeft \in Nat
  BY <1>1
<1>7. job_pend \in BOOLEAN
  BY <1>1
<1> QED
  BY <1>4, <1>5, <1>6, <1>7 DEF SyncInv, Y!OneJobPending

LEMMA SyncNextInv ==
  ASSUME SyncInv, Y!Next \/ UNCHANGED yVars
  PROVE  SyncInv'
<1> USE AppsAssumption DEF SyncInv, Y!OneJobPending
<1>1. CASE Y!Commit
  <2>1. CASE Y!TopAsks
    BY <1>1, <2>1 DEF Y!Commit, Y!TopAsks, Y!LowArms
  <2>2. CASE ~Y!TopAsks
    BY <1>1, <2>2 DEF Y!Commit
  <2> QED
    BY <2>1, <2>2
<1>2. CASE Y!Tick
  <2>1. CASE yLeft = 1
    <3>1. /\ yLeft' = 0 /\ job_pend' = FALSE /\ rounds' = rounds - 1 /\ yAsked' = yAsked
      BY <1>2, <2>1 DEF Y!Tick, Y!TopDone
    <3>2. job_pend /\ yAsked = (Rounds - rounds) + 1
      BY <2>1
    <3>3. yAsked' = (Rounds - rounds') + 0 /\ rounds' \in Int
      BY <3>1, <3>2
    <3>4. (IF job_pend' THEN 1 ELSE 0) = 0
      BY <3>1
    <3>5. yAsked' = (Rounds - rounds') + (IF job_pend' THEN 1 ELSE 0)
      BY <3>3, <3>4
    <3>6. (job_pend' <=> yLeft' > 0) /\ yAsked' \in Int /\ yLeft' \in Nat
      BY <3>1
    <3>7. job_pend' \in BOOLEAN
      BY <3>1
    <3> QED
      BY <3>3, <3>5, <3>6, <3>7
  <2>2. CASE yLeft # 1
    BY <1>2, <2>2 DEF Y!Tick
  <2> QED
    BY <2>1, <2>2
<1>3. CASE UNCHANGED yVars
  BY <1>3 DEF yVars
<1> QED
  BY <1>1, <1>2, <1>3 DEF Y!Next, Y!Iterate, Y!vars, yVars

-----------------------------------------------------------------------------
(* workers *)

JobReq == K!Signal("JOB_REQ")
JobDone(k) == K!Event("JOB_DONE", k)
StartJobs == K!Signal("START")
StopJobs == K!Signal("STOP")

WorkersTypes ==
  /\ kRunning \subseteq K!Object /\ stopping \in BOOLEAN /\ DOMAIN kQueue = K!Object
  /\ \A k \in K!Worker : kQueue[k] \in Seq({JobReq, StopJobs})
  /\ kQueue[K!Balancer] \in Seq({StartJobs, K!Signal("STOPPED"), K!Signal("TIMEOUT")}
                                  \cup {JobDone(k) : k \in K!Worker})

Requested(k) == Has(kQueue[k], JobReq)
Reported(k) == Has(kQueue[K!Balancer], JobDone(k))
ToStart == Has(kQueue[K!Balancer], StartJobs)

\* A worker has a job or its report, not both and no two of them.
Token(k) ==
  /\ Once(kQueue[k], JobReq) /\ Once(kQueue[K!Balancer], JobDone(k))
  /\ ~(Requested(k) /\ Reported(k))
  /\ ToStart => ~Requested(k) /\ ~Reported(k)
  /\ ~stopping /\ ~ToStart => Requested(k) \/ Reported(k)
  /\ ~stopping => ~Has(kQueue[k], StopJobs)

WorkersInv ==
  /\ WorkersTypes
  /\ Once(kQueue[K!Balancer], StartJobs)
  /\ ~stopping => kRunning = K!Object
  /\ \A k \in K!Worker : Token(k)

BalancerEvents ==
  {StartJobs, K!Signal("STOPPED"), K!Signal("TIMEOUT")} \cup {JobDone(k) : k \in K!Worker}

\* Which object subscribes to what, and that the events are different.
LEMMA WorkersFacts ==
  /\ K!Balancer \notin K!Worker /\ K!Object = K!Worker \cup {K!Balancer}
  /\ K!New(K!Balancer).subscribes = {"JOB_DONE", "STOPPED"}
  /\ \A k \in K!Worker : K!New(k).subscribes = {"JOB_REQ", "STOP"}
  /\ JobReq # StopJobs /\ JobReq.id = "JOB_REQ" /\ StopJobs.id = "STOP"
  /\ StartJobs.id = "START" /\ K!Signal("STOPPED").id = "STOPPED"
  /\ K!Signal("TIMEOUT").id = "TIMEOUT"
  /\ \A k \in K!Worker : JobDone(k).id = "JOB_DONE" /\ JobDone(k).worker = k
<1>1. NCpus \in Nat
  BY AppsAssumption
<1>2. K!Balancer \notin K!Worker /\ K!Object = K!Worker \cup {K!Balancer}
  BY <1>1 DEF K!Balancer, K!Worker, K!Object
<1>3. K!New(K!Balancer).subscribes = {"JOB_DONE", "STOPPED"}
  BY DEF K!New, K!NewBalancer
<1>4. \A k \in K!Worker : K!New(k).subscribes = {"JOB_REQ", "STOP"}
  BY <1>2 DEF K!New, K!NewWorker
<1> QED
  BY <1>2, <1>3, <1>4 DEF JobReq, StopJobs, StartJobs, JobDone, K!Signal, K!Event

\* The event that a handles is the one of this id.
LEMMA WorkersHead ==
  ASSUME WorkersTypes, NEW a \in K!Object, NEW id, K!Handles(a, id)
  PROVE  /\ a \in kRunning /\ kQueue[a] # <<>> /\ Head(kQueue[a]) = kQueue[a][1]
         /\ kQueue[a][1].id = id
         /\ a \in K!Worker => kQueue[a][1] \in {JobReq, StopJobs}
         /\ a = K!Balancer => kQueue[a][1] \in BalancerEvents
<1>1. a \in kRunning /\ kQueue[a] # <<>> /\ Head(kQueue[a]).id = id
  BY DEF K!Handles, K!Receives
<1>2. CASE a \in K!Worker
  <2>1. kQueue[a] \in Seq({JobReq, StopJobs}) /\ a # K!Balancer
    BY <1>2, WorkersFacts DEF WorkersTypes
  <2> QED
    BY <1>1, <2>1
<1>3. CASE a = K!Balancer
  <2>1. kQueue[a] \in Seq(BalancerEvents) /\ a \notin K!Worker
    BY <1>3, WorkersFacts DEF WorkersTypes, BalancerEvents
  <2> QED
    BY <1>1, <2>1
<1> QED
  BY <1>2, <1>3, WorkersFacts

\* What is left of the queues when a has taken its event.
Rest(a, b) == IF b = a THEN Tail(kQueue[b]) ELSE kQueue[b]

LEMMA WorkersSent ==
  ASSUME WorkersTypes, NEW a \in K!Object, NEW to, NEW e,
         kQueue' = K!Send(K!Take(kQueue, a), to, <<e>>)
  PROVE  /\ DOMAIN kQueue' = K!Object
         /\ \A b \in K!Object :
              kQueue'[b] = IF b \in to THEN Rest(a, b) \o <<e>> ELSE Rest(a, b)
<1>1. DOMAIN kQueue = K!Object
  BY DEF WorkersTypes
<1>2. DOMAIN K!Take(kQueue, a) = K!Object
  BY <1>1 DEF K!Take
<1>3. \A b \in K!Object : K!Take(kQueue, a)[b] = Rest(a, b)
  BY <1>1 DEF K!Take, Rest
<1> QED
  BY <1>2, <1>3 DEF K!Send

LEMMA WorkersTaken ==
  ASSUME WorkersTypes, NEW a \in K!Object, kQueue' = K!Take(kQueue, a)
  PROVE  /\ DOMAIN kQueue' = K!Object
         /\ \A b \in K!Object : kQueue'[b] = Rest(a, b)
BY DEF WorkersTypes, K!Take, Rest

\* An event that a worker publishes reaches the balancer, if it runs.
LEMMA WorkerPublishes ==
  ASSUME WorkersTypes, NEW k \in K!Worker, NEW e, e.id \in {"JOB_DONE", "STOPPED"},
         K!Publish(k, e)
  PROVE  /\ DOMAIN kQueue' = K!Object
         /\ kQueue'[k] = Tail(kQueue[k])
         /\ \A j \in K!Worker : j # k => kQueue'[j] = kQueue[j]
         /\ kQueue'[K!Balancer] = IF K!Balancer \in kRunning THEN kQueue[K!Balancer] \o <<e>>
                                                            ELSE kQueue[K!Balancer]
<1> DEFINE to == {b \in kRunning : e.id \in K!New(b).subscribes}
<1>1. kQueue' = K!Send(K!Take(kQueue, k), to, <<e>>)
  BY DEF K!Publish
<1>2. K!Balancer \in to <=> K!Balancer \in kRunning
  BY WorkersFacts
<1>3. \A j \in K!Worker : j \notin to
  BY WorkersFacts
<1> HIDE DEF to
<1>4. k \in K!Object /\ K!Balancer \in K!Object /\ k # K!Balancer
  BY WorkersFacts
<1>5. /\ DOMAIN kQueue' = K!Object
      /\ \A b \in K!Object :
              kQueue'[b] = IF b \in to THEN Rest(k, b) \o <<e>> ELSE Rest(k, b)
  BY <1>1, <1>4, WorkersSent
<1> QED
  BY <1>2, <1>3, <1>4, <1>5, WorkersFacts DEF Rest

\* An event that the balancer publishes reaches the workers that run.
LEMMA BalancerPublishes ==
  ASSUME WorkersTypes, NEW e, e.id \in {"JOB_REQ", "STOP"}, K!Publish(K!Balancer, e)
  PROVE  /\ DOMAIN kQueue' = K!Object
         /\ kQueue'[K!Balancer] = Tail(kQueue[K!Balancer])
         /\ \A k \in K!Worker :
              kQueue'[k] = IF k \in kRunning THEN kQueue[k] \o <<e>> ELSE kQueue[k]
<1> DEFINE to == {b \in kRunning : e.id \in K!New(b).subscribes}
<1>1. kQueue' = K!Send(K!Take(kQueue, K!Balancer), to, <<e>>)
  BY DEF K!Publish
<1>2. K!Balancer \notin to
  BY WorkersFacts
<1>3. \A k \in K!Worker : k \in to <=> k \in kRunning
  BY WorkersFacts
<1> HIDE DEF to
<1>4. K!Balancer \in K!Object
  BY WorkersFacts
<1>5. /\ DOMAIN kQueue' = K!Object
      /\ \A b \in K!Object :
              kQueue'[b] = IF b \in to THEN Rest(K!Balancer, b) \o <<e>> ELSE Rest(K!Balancer, b)
  BY <1>1, <1>4, WorkersSent
<1> QED
  BY <1>2, <1>3, <1>4, <1>5, WorkersFacts DEF Rest

LEMMA WorkersInitInv == K!Init => WorkersInv
<1> SUFFICES ASSUME K!Init PROVE WorkersInv
  OBVIOUS
<1>1. /\ DOMAIN kQueue = K!Object /\ kQueue[K!Balancer] = <<StartJobs>>
      /\ \A k \in K!Worker : kQueue[k] = <<>>
      /\ kRunning = K!Object /\ stopping = FALSE
  BY WorkersFacts DEF K!Init, K!New, K!NewWorker, K!NewBalancer, StartJobs
<1>2. WorkersTypes
  <2>1. kQueue[K!Balancer] \in Seq(BalancerEvents)
    BY <1>1 DEF BalancerEvents
  <2>2. ASSUME NEW k \in K!Worker PROVE kQueue[k] \in Seq({JobReq, StopJobs})
    <3>1. kQueue[k] = <<>>
      BY <1>1
    <3>2. <<>> \in Seq({JobReq, StopJobs})
      OBVIOUS
    <3> QED
      BY <3>1, <3>2
  <2> QED
    BY <1>1, <2>1, <2>2 DEF WorkersTypes, BalancerEvents
<1>3. Once(kQueue[K!Balancer], StartJobs) /\ Has(kQueue[K!Balancer], StartJobs)
  BY <1>1 DEF Once, OneIn, Has, HasIn
<1>4. ASSUME NEW k \in K!Worker PROVE Token(k)
  <2>1. Once(kQueue[k], JobReq) /\ ~Has(kQueue[k], JobReq) /\ ~Has(kQueue[k], StopJobs)
    BY <1>1 DEF Once, OneIn, Has, HasIn
  <2>2. JobDone(k) # StartJobs
    BY WorkersFacts
  <2>3. Once(kQueue[K!Balancer], JobDone(k)) /\ ~Has(kQueue[K!Balancer], JobDone(k))
    BY <1>1, <2>2 DEF Once, OneIn, Has, HasIn
  <2> QED
    BY <1>1, <1>3, <2>1, <2>3 DEF Token, Requested, Reported, ToStart
<1> QED
  BY <1>1, <1>2, <1>3, <1>4 DEF WorkersInv

\* The balancer's queue, by the events it may hold.
LEMMA WorkersQueues ==
  ASSUME WorkersTypes
  PROVE  /\ \A k \in K!Worker : kQueue[k] \in Seq({JobReq, StopJobs})
         /\ kQueue[K!Balancer] \in Seq(BalancerEvents)
         /\ StartJobs \in BalancerEvents /\ K!Signal("STOPPED") \in BalancerEvents
         /\ K!Signal("TIMEOUT") \in BalancerEvents
         /\ \A k \in K!Worker : JobDone(k) \in BalancerEvents
BY DEF WorkersTypes, BalancerEvents

LEMMA WorkerProcInv == ASSUME WorkersInv, NEW k \in K!Worker, K!WorkerProc(k) PROVE WorkersInv'
<1> DEFINE q == kQueue[K!Balancer]
           t == kQueue[k]
<1>1. /\ WorkersTypes /\ Once(q, StartJobs) /\ \A j \in K!Worker : Token(j)
      /\ ~stopping => kRunning = K!Object
  BY DEF WorkersInv
<1>2. /\ K!Handles(k, "JOB_REQ") /\ K!Publish(k, JobDone(k))
      /\ UNCHANGED <<kRunning, stopping, kStops, timeout>>
  BY DEF K!WorkerProc, JobDone
<1>3. t # <<>> /\ t[1] = JobReq
  BY <1>1, <1>2, WorkersHead, WorkersFacts
<1>4. /\ DOMAIN kQueue' = K!Object
      /\ kQueue'[k] = Tail(t)
      /\ \A j \in K!Worker : j # k => kQueue'[j] = kQueue[j]
      /\ kQueue'[K!Balancer] = IF K!Balancer \in kRunning THEN q \o <<JobDone(k)>> ELSE q
  <2>1. JobDone(k).id \in {"JOB_DONE", "STOPPED"}
    BY WorkersFacts
  <2> QED
    BY <1>1, <1>2, <2>1, WorkerPublishes
<1>5. t \in Seq({JobReq, StopJobs}) /\ q \in Seq(BalancerEvents) /\ JobDone(k) \in BalancerEvents
  BY <1>1, WorkersQueues
<1>6. Requested(k) /\ ~Reported(k) /\ ~ToStart
  BY <1>1, <1>3, <1>5, TailHas DEF Token, Requested
<1>7. Once(kQueue'[k], JobReq) /\ ~Has(kQueue'[k], JobReq)
      /\ (Has(kQueue'[k], StopJobs) => Has(t, StopJobs)) /\ kQueue'[k] \in Seq({JobReq, StopJobs})
  BY <1>1, <1>3, <1>4, <1>5, TailHas DEF Token
<1>8. /\ kQueue'[K!Balancer] \in Seq(BalancerEvents)
      /\ \A e : Has(kQueue'[K!Balancer], e) => Has(q, e) \/ e = JobDone(k)
      /\ \A e : Has(q, e) => Has(kQueue'[K!Balancer], e)
      /\ \A e : Once(q, e) /\ (e = JobDone(k) => ~Has(q, e)) => Once(kQueue'[K!Balancer], e)
      /\ K!Balancer \in kRunning => Has(kQueue'[K!Balancer], JobDone(k))
  BY <1>4, <1>5, SendHas
<1> HIDE DEF q, t
<1>9. ~stopping => K!Balancer \in kRunning
  BY <1>1, WorkersFacts
<1>10. WorkersTypes'
  <2>1. \A j \in K!Worker : kQueue'[j] \in Seq({JobReq, StopJobs})
    BY <1>1, <1>4, <1>7, WorkersQueues
  <2> QED
    BY <1>1, <1>2, <1>4, <1>8, <2>1 DEF WorkersTypes, BalancerEvents
<1>11. ASSUME NEW j \in K!Worker PROVE Token(j)'
  <2>1. Token(j)
    BY <1>1
  <2>2. JobDone(k) # StartJobs /\ (j # k => JobDone(k) # JobDone(j))
    BY WorkersFacts
  <2>3. ToStart' <=> ToStart
    BY <1>8, <2>2 DEF ToStart, q
  <2>4. CASE j = k
    BY <1>1, <1>2, <1>6, <1>7, <1>8, <1>9, <2>1, <2>3, <2>4
       DEF Token, Requested, Reported, q, t
  <2>5. CASE j # k
    <3>1. kQueue'[j] = kQueue[j]
      BY <1>4, <2>5
    <3>2. Reported(j)' <=> Reported(j)
      BY <1>8, <2>2, <2>5 DEF Reported, q
    <3>3. Once(kQueue'[K!Balancer], JobDone(j))
      BY <1>8, <2>1, <2>2, <2>5 DEF Token, q
    <3>4. Requested(j)' <=> Requested(j)
      BY <3>1 DEF Requested
    <3> QED
      BY <1>2, <2>1, <2>3, <3>1, <3>2, <3>3, <3>4 DEF Token
  <2> QED
    BY <2>4, <2>5
<1>12. Once(kQueue'[K!Balancer], StartJobs)
  BY <1>1, <1>8, WorkersFacts DEF q
<1> QED
  BY <1>1, <1>2, <1>10, <1>11, <1>12 DEF WorkersInv

LEMMA WorkerStopInv == ASSUME WorkersInv, NEW k \in K!Worker, K!WorkerStop(k) PROVE WorkersInv'
<1> DEFINE q == kQueue[K!Balancer]
           t == kQueue[k]
           e == K!Signal("STOPPED")
<1>1. /\ WorkersTypes /\ Once(q, StartJobs) /\ \A j \in K!Worker : Token(j)
  BY DEF WorkersInv
<1>2. /\ K!Handles(k, "STOP") /\ K!Publish(k, e)
      /\ kRunning' = kRunning \ {k} /\ UNCHANGED <<stopping, kStops, timeout>>
  BY DEF K!WorkerStop
<1>3. t # <<>> /\ t[1] = StopJobs
  BY <1>1, <1>2, WorkersHead, WorkersFacts
<1>4. /\ DOMAIN kQueue' = K!Object
      /\ kQueue'[k] = Tail(t)
      /\ \A j \in K!Worker : j # k => kQueue'[j] = kQueue[j]
      /\ kQueue'[K!Balancer] = IF K!Balancer \in kRunning THEN q \o <<e>> ELSE q
  <2>1. e.id \in {"JOB_DONE", "STOPPED"}
    BY WorkersFacts
  <2> QED
    BY <1>1, <1>2, <2>1, WorkerPublishes
<1>5. t \in Seq({JobReq, StopJobs}) /\ q \in Seq(BalancerEvents) /\ e \in BalancerEvents
  BY <1>1, WorkersQueues
<1>6. stopping
  BY <1>1, <1>3, <1>5, TailHas DEF Token
<1>7. (Once(t, JobReq) => Once(kQueue'[k], JobReq)) /\ (Has(kQueue'[k], JobReq) => Has(t, JobReq))
      /\ kQueue'[k] \in Seq({JobReq, StopJobs})
  BY <1>3, <1>4, <1>5, TailHas
<1>8. /\ kQueue'[K!Balancer] \in Seq(BalancerEvents)
      /\ \A x : x # e => (Has(kQueue'[K!Balancer], x) <=> Has(q, x))
      /\ \A x : x # e /\ Once(q, x) => Once(kQueue'[K!Balancer], x)
  BY <1>4, <1>5, SendHas
<1> HIDE DEF q, t, e
<1>9. WorkersTypes'
  <2>1. \A j \in K!Worker : kQueue'[j] \in Seq({JobReq, StopJobs})
    BY <1>1, <1>4, <1>7, WorkersQueues
  <2>2. kRunning' \subseteq K!Object /\ stopping' \in BOOLEAN
    BY <1>1, <1>2 DEF WorkersTypes
  <2> QED
    BY <1>4, <1>8, <2>1, <2>2 DEF WorkersTypes, BalancerEvents
<1>10. StartJobs # e /\ \A j \in K!Worker : JobDone(j) # e
  BY WorkersFacts DEF e
<1>11. ASSUME NEW j \in K!Worker PROVE Token(j)'
  <2>1. Token(j)
    BY <1>1
  <2>2. (Reported(j)' <=> Reported(j)) /\ (ToStart' <=> ToStart)
    BY <1>8, <1>10 DEF Reported, ToStart, q
  <2>3. Once(kQueue'[K!Balancer], JobDone(j))
    BY <1>8, <1>10, <2>1 DEF Token, q
  <2>4. Once(kQueue'[j], JobReq) /\ (Requested(j)' => Requested(j))
    BY <1>4, <1>7, <2>1 DEF Token, Requested, t
  <2> QED
    BY <1>2, <1>6, <2>1, <2>2, <2>3, <2>4 DEF Token
<1>12. Once(kQueue'[K!Balancer], StartJobs)
  BY <1>1, <1>8, <1>10 DEF q
<1> QED
  BY <1>2, <1>6, <1>9, <1>11, <1>12 DEF WorkersInv

\* The balancer takes an event.
LEMMA BalancerTakes ==
  ASSUME WorkersTypes, kQueue[K!Balancer] # <<>>,
         kQueue'[K!Balancer] = Tail(kQueue[K!Balancer])
  PROVE  /\ kQueue'[K!Balancer] \in Seq(BalancerEvents)
         /\ \A x : Has(kQueue'[K!Balancer], x) => Has(kQueue[K!Balancer], x)
         /\ \A x : Has(kQueue[K!Balancer], x) =>
                     x = kQueue[K!Balancer][1] \/ Has(kQueue'[K!Balancer], x)
         /\ \A x : Once(kQueue[K!Balancer], x) =>
                     /\ Once(kQueue'[K!Balancer], x)
                     /\ x = kQueue[K!Balancer][1] => ~Has(kQueue'[K!Balancer], x)
         /\ Has(kQueue[K!Balancer], kQueue[K!Balancer][1])
BY WorkersQueues, TailHas

LEMMA BalancerStartInv == ASSUME WorkersInv, K!BalancerStart PROVE WorkersInv'
<1> DEFINE q == kQueue[K!Balancer]
<1>1. /\ WorkersTypes /\ Once(q, StartJobs) /\ \A j \in K!Worker : Token(j)
      /\ kRunning = K!Object /\ ~stopping
  BY DEF WorkersInv, K!BalancerStart
<1>2. /\ K!Handles(K!Balancer, "START") /\ K!Publish(K!Balancer, JobReq)
      /\ UNCHANGED <<kRunning, stopping, kStops, timeout>>
  BY DEF K!BalancerStart, JobReq
<1>3. q # <<>> /\ q[1] = StartJobs
  BY <1>1, <1>2, WorkersHead, WorkersFacts DEF BalancerEvents
<1>4. /\ DOMAIN kQueue' = K!Object
      /\ kQueue'[K!Balancer] = Tail(q)
      /\ \A j \in K!Worker : kQueue'[j] = kQueue[j] \o <<JobReq>>
  <2>1. JobReq.id \in {"JOB_REQ", "STOP"}
    BY WorkersFacts
  <2>2. /\ DOMAIN kQueue' = K!Object
        /\ kQueue'[K!Balancer] = Tail(q)
        /\ \A j \in K!Worker :
             kQueue'[j] = IF j \in kRunning THEN kQueue[j] \o <<JobReq>> ELSE kQueue[j]
    BY <1>1, <1>2, <2>1, BalancerPublishes
  <2>3. \A j \in K!Worker : j \in kRunning
    BY <1>1, WorkersFacts
  <2> QED
    BY <2>2, <2>3
<1>5. /\ kQueue'[K!Balancer] \in Seq(BalancerEvents)
      /\ \A x : Has(kQueue'[K!Balancer], x) => Has(q, x)
      /\ \A x : Once(q, x) => Once(kQueue'[K!Balancer], x)
      /\ ~Has(kQueue'[K!Balancer], StartJobs) /\ Has(q, StartJobs)
  BY <1>1, <1>3, <1>4, BalancerTakes
<1> HIDE DEF q
<1>6. ASSUME NEW j \in K!Worker
      PROVE  /\ kQueue'[j] \in Seq({JobReq, StopJobs}) /\ Requested(j)'
             /\ ~Requested(j) => Once(kQueue'[j], JobReq)
             /\ ~Has(kQueue[j], StopJobs) => ~Has(kQueue'[j], StopJobs)
  <2>1. kQueue[j] \in Seq({JobReq, StopJobs}) /\ JobReq \in {JobReq, StopJobs} /\ JobReq # StopJobs
    BY <1>1, WorkersQueues, WorkersFacts
  <2>2. kQueue'[j] = kQueue[j] \o <<JobReq>>
    BY <1>4
  <2>3. Once(kQueue[j], JobReq) => Once(kQueue'[j], JobReq) \/ Requested(j)
    BY <2>1, <2>2, SendHas DEF Requested
  <2>4. /\ kQueue'[j] \in Seq({JobReq, StopJobs}) /\ Requested(j)'
        /\ ~Has(kQueue[j], StopJobs) => ~Has(kQueue'[j], StopJobs)
    BY <2>1, <2>2, SendHas DEF Requested
  <2>5. Once(kQueue[j], JobReq)
    BY <1>1 DEF Token
  <2> QED
    BY <2>3, <2>4, <2>5
<1>7. WorkersTypes'
  BY <1>1, <1>2, <1>4, <1>5, <1>6 DEF WorkersTypes, BalancerEvents
<1>8. ASSUME NEW j \in K!Worker PROVE Token(j)'
  <2>1. Token(j) /\ ToStart
    BY <1>1, <1>5 DEF ToStart, q
  <2>2. ~Requested(j) /\ ~Reported(j)
    BY <2>1 DEF Token
  <2>3. ~Reported(j)' /\ ~ToStart' /\ Once(kQueue'[K!Balancer], JobDone(j))
    BY <1>5, <2>1, <2>2 DEF Reported, ToStart, Token, q
  <2> QED
    BY <1>1, <1>2, <1>6, <2>1, <2>2, <2>3 DEF Token
<1>9. Once(kQueue'[K!Balancer], StartJobs)
  BY <1>1, <1>5
<1> QED
  BY <1>1, <1>2, <1>7, <1>8, <1>9 DEF WorkersInv

LEMMA BalancerDoneInv ==
  ASSUME WorkersInv, NEW k \in K!Worker, K!BalancerDone(k)
  PROVE  WorkersInv'
<1> DEFINE q == kQueue[K!Balancer]
           t == kQueue[k]
<1>1. /\ WorkersTypes /\ Once(q, StartJobs) /\ \A j \in K!Worker : Token(j)
      /\ kRunning = K!Object /\ ~stopping
  BY DEF WorkersInv, K!BalancerDone
<1>2. /\ K!Handles(K!Balancer, "JOB_DONE") /\ Head(q).worker = k
      /\ kQueue' = K!Send(K!Take(kQueue, K!Balancer), {k}, <<JobReq>>)
      /\ UNCHANGED <<kRunning, stopping, kStops, timeout>>
  BY DEF K!BalancerDone, JobReq
<1>3. q # <<>> /\ q[1] = JobDone(k)
  BY <1>1, <1>2, WorkersHead, WorkersFacts DEF BalancerEvents
<1>4. /\ DOMAIN kQueue' = K!Object
      /\ kQueue'[K!Balancer] = Tail(q)
      /\ kQueue'[k] = t \o <<JobReq>>
      /\ \A j \in K!Worker : j # k => kQueue'[j] = kQueue[j]
  <2>1. /\ DOMAIN kQueue' = K!Object
        /\ \A b \in K!Object : kQueue'[b] = IF b \in {k} THEN Rest(K!Balancer, b) \o <<JobReq>>
                                                         ELSE Rest(K!Balancer, b)
    <3>1. K!Balancer \in K!Object
      BY WorkersFacts
    <3> QED
      BY <1>1, <1>2, <3>1, WorkersSent
  <2>2. k # K!Balancer /\ K!Balancer \in K!Object /\ k \in K!Object
    BY WorkersFacts
  <2>3. \A j \in K!Worker : j \in K!Object /\ j # K!Balancer
    BY WorkersFacts
  <2> QED
    BY <2>1, <2>2, <2>3 DEF Rest
<1>5. /\ kQueue'[K!Balancer] \in Seq(BalancerEvents)
      /\ \A x : Has(kQueue'[K!Balancer], x) => Has(q, x)
      /\ \A x : Has(q, x) => x = JobDone(k) \/ Has(kQueue'[K!Balancer], x)
      /\ \A x : Once(q, x) => Once(kQueue'[K!Balancer], x)
      /\ Once(q, JobDone(k)) => ~Has(kQueue'[K!Balancer], JobDone(k))
      /\ Has(q, JobDone(k))
  BY <1>1, <1>3, <1>4, BalancerTakes
<1>6. /\ kQueue'[k] \in Seq({JobReq, StopJobs}) /\ Requested(k)'
      /\ ~Requested(k) /\ Once(t, JobReq) => Once(kQueue'[k], JobReq)
      /\ ~Has(t, StopJobs) => ~Has(kQueue'[k], StopJobs)
  <2>1. t \in Seq({JobReq, StopJobs}) /\ JobReq \in {JobReq, StopJobs} /\ JobReq # StopJobs
    BY <1>1, WorkersQueues, WorkersFacts
  <2> QED
    BY <1>4, <2>1, SendHas DEF Requested
<1> HIDE DEF q, t
<1>7. WorkersTypes'
  <2>1. \A j \in K!Worker : kQueue'[j] \in Seq({JobReq, StopJobs})
    BY <1>1, <1>4, <1>6, WorkersQueues
  <2> QED
    BY <1>1, <1>2, <1>4, <1>5, <2>1 DEF WorkersTypes, BalancerEvents
<1>8. Token(k) /\ Reported(k) /\ ~Requested(k) /\ ~ToStart
  BY <1>1, <1>5 DEF Token, Reported, ToStart, q
<1>9. ~ToStart'
  BY <1>5, <1>8 DEF ToStart, q
<1>10. ASSUME NEW j \in K!Worker PROVE Token(j)'
  <2>1. CASE j = k
    <3>1. ~Reported(k)' /\ Once(kQueue'[K!Balancer], JobDone(k))
      BY <1>5, <1>8 DEF Token, Reported, q
    <3>2. Once(kQueue'[k], JobReq) /\ ~Has(kQueue'[k], StopJobs)
      BY <1>1, <1>6, <1>8 DEF Token, t
    <3> QED
      BY <1>6, <1>9, <2>1, <3>1, <3>2 DEF Token
  <2>2. CASE j # k
    <3>1. Token(j) /\ kQueue'[j] = kQueue[j] /\ JobDone(j) # JobDone(k)
      BY <1>1, <1>4, <2>2, WorkersFacts
    <3>2. (Reported(j)' <=> Reported(j)) /\ (Requested(j)' <=> Requested(j))
      BY <1>5, <3>1 DEF Reported, Requested, q
    <3>3. Once(kQueue'[K!Balancer], JobDone(j))
      BY <1>5, <3>1 DEF Token, q
    <3> QED
      BY <1>2, <1>8, <1>9, <3>1, <3>2, <3>3 DEF Token
  <2> QED
    BY <2>1, <2>2
<1>11. Once(kQueue'[K!Balancer], StartJobs)
  BY <1>1, <1>5
<1> QED
  BY <1>1, <1>2, <1>7, <1>10, <1>11 DEF WorkersInv

\* While the balancer is stopping, what is in the queues may only get less.
LEMMA BalancerTimeoutInv == ASSUME WorkersInv, K!BalancerTimeout PROVE WorkersInv'
<1> DEFINE q == kQueue[K!Balancer]
<1>1. /\ WorkersTypes /\ Once(q, StartJobs) /\ \A j \in K!Worker : Token(j)
      /\ kRunning = K!Object /\ ~stopping
  BY DEF WorkersInv, K!BalancerTimeout
<1>2. /\ K!Handles(K!Balancer, "TIMEOUT") /\ K!Publish(K!Balancer, StopJobs)
      /\ stopping' = TRUE /\ UNCHANGED <<kRunning, kStops, timeout>>
  BY DEF K!BalancerTimeout, StopJobs
<1>3. q # <<>>
  BY <1>1, <1>2, WorkersHead, WorkersFacts
<1>4. /\ DOMAIN kQueue' = K!Object
      /\ kQueue'[K!Balancer] = Tail(q)
      /\ \A j \in K!Worker : kQueue'[j] = kQueue[j] \o <<StopJobs>>
  <2>1. StopJobs.id \in {"JOB_REQ", "STOP"}
    BY WorkersFacts
  <2>2. /\ DOMAIN kQueue' = K!Object
        /\ kQueue'[K!Balancer] = Tail(q)
        /\ \A j \in K!Worker :
             kQueue'[j] = IF j \in kRunning THEN kQueue[j] \o <<StopJobs>> ELSE kQueue[j]
    BY <1>1, <1>2, <2>1, BalancerPublishes
  <2>3. \A j \in K!Worker : j \in kRunning
    BY <1>1, WorkersFacts
  <2> QED
    BY <2>2, <2>3
<1>5. /\ kQueue'[K!Balancer] \in Seq(BalancerEvents)
      /\ \A x : Has(kQueue'[K!Balancer], x) => Has(q, x)
      /\ \A x : Once(q, x) => Once(kQueue'[K!Balancer], x)
  BY <1>1, <1>3, <1>4, BalancerTakes
<1> HIDE DEF q
<1>6. ASSUME NEW j \in K!Worker
      PROVE  /\ kQueue'[j] \in Seq({JobReq, StopJobs})
             /\ Requested(j)' => Requested(j)
             /\ Once(kQueue[j], JobReq) => Once(kQueue'[j], JobReq)
  <2>1. kQueue[j] \in Seq({JobReq, StopJobs}) /\ StopJobs \in {JobReq, StopJobs} /\ JobReq # StopJobs
    BY <1>1, WorkersQueues, WorkersFacts
  <2>2. kQueue'[j] = kQueue[j] \o <<StopJobs>>
    BY <1>4
  <2> QED
    BY <2>1, <2>2, SendHas DEF Requested
<1>7. WorkersTypes'
  BY <1>1, <1>2, <1>4, <1>5, <1>6 DEF WorkersTypes, BalancerEvents
<1>8. ASSUME NEW j \in K!Worker PROVE Token(j)'
  <2>1. Token(j)
    BY <1>1
  <2>2. (Reported(j)' => Reported(j)) /\ (ToStart' => ToStart)
        /\ Once(kQueue'[K!Balancer], JobDone(j))
    BY <1>5, <2>1 DEF Reported, ToStart, Token, q
  <2> QED
    BY <1>2, <1>6, <2>1, <2>2 DEF Token
<1>9. Once(kQueue'[K!Balancer], StartJobs)
  BY <1>1, <1>5
<1> QED
  BY <1>2, <1>7, <1>8, <1>9 DEF WorkersInv

LEMMA BalancerTakesInv ==
  ASSUME WorkersInv, stopping, kQueue[K!Balancer] # <<>>, kQueue' = K!Take(kQueue, K!Balancer),
         kRunning' \subseteq kRunning, UNCHANGED stopping
  PROVE  WorkersInv'
<1> DEFINE q == kQueue[K!Balancer]
<1>1. /\ WorkersTypes /\ Once(q, StartJobs) /\ \A j \in K!Worker : Token(j)
  BY DEF WorkersInv
<1>2. /\ DOMAIN kQueue' = K!Object /\ kQueue'[K!Balancer] = Tail(q)
      /\ \A j \in K!Worker : kQueue'[j] = kQueue[j]
  <2>1. DOMAIN kQueue' = K!Object /\ \A b \in K!Object : kQueue'[b] = Rest(K!Balancer, b)
    BY <1>1, WorkersTaken, WorkersFacts
  <2>2. K!Balancer \in K!Object /\ \A j \in K!Worker : j \in K!Object /\ j # K!Balancer
    BY WorkersFacts
  <2> QED
    BY <2>1, <2>2 DEF Rest
<1>3. /\ kQueue'[K!Balancer] \in Seq(BalancerEvents)
      /\ \A x : Has(kQueue'[K!Balancer], x) => Has(q, x)
      /\ \A x : Once(q, x) => Once(kQueue'[K!Balancer], x)
  BY <1>1, <1>2, BalancerTakes
<1> HIDE DEF q
<1>4. WorkersTypes'
  BY <1>1, <1>2, <1>3 DEF WorkersTypes, BalancerEvents
<1>5. ASSUME NEW j \in K!Worker PROVE Token(j)'
  <2>1. Token(j)
    BY <1>1
  <2>2. (Reported(j)' => Reported(j)) /\ (ToStart' => ToStart)
        /\ Once(kQueue'[K!Balancer], JobDone(j))
    BY <1>3, <2>1 DEF Reported, ToStart, Token, q
  <2>3. Requested(j)' <=> Requested(j)
    BY <1>2 DEF Requested
  <2> QED
    BY <1>2, <2>1, <2>2, <2>3 DEF Token
<1>6. Once(kQueue'[K!Balancer], StartJobs)
  BY <1>1, <1>3
<1> QED
  BY <1>4, <1>5, <1>6 DEF WorkersInv

LEMMA WorkersTickInv == ASSUME WorkersInv, K!Tick PROVE WorkersInv'
<1> DEFINE q == kQueue[K!Balancer]
           e == K!Signal("TIMEOUT")
<1>1. /\ WorkersTypes /\ Once(q, StartJobs) /\ \A j \in K!Worker : Token(j)
      /\ ~stopping => kRunning = K!Object
  BY DEF WorkersInv
<1>2. UNCHANGED <<kRunning, stopping>>
  BY DEF K!Tick
<1>3. CASE UNCHANGED kQueue
  BY <1>1, <1>2, <1>3 DEF WorkersInv, WorkersTypes, Token, Requested, Reported, ToStart
<1>4. CASE kQueue' = K!Send(kQueue, {K!Balancer}, <<e>>)
  <2>1. /\ DOMAIN kQueue' = K!Object /\ kQueue'[K!Balancer] = q \o <<e>>
        /\ \A j \in K!Worker : kQueue'[j] = kQueue[j]
    BY <1>1, <1>4, WorkersFacts DEF K!Send, WorkersTypes
  <2>2. /\ kQueue'[K!Balancer] \in Seq(BalancerEvents)
        /\ \A x : x # e => (Has(kQueue'[K!Balancer], x) <=> Has(q, x))
        /\ \A x : x # e /\ Once(q, x) => Once(kQueue'[K!Balancer], x)
    BY <1>1, <2>1, WorkersQueues, SendHas
  <2>3. StartJobs # e /\ \A j \in K!Worker : JobDone(j) # e
    BY WorkersFacts
  <2> HIDE DEF q, e
  <2>4. WorkersTypes'
    BY <1>1, <1>2, <2>1, <2>2 DEF WorkersTypes, BalancerEvents
  <2>5. ASSUME NEW j \in K!Worker PROVE Token(j)'
    <3>1. Token(j)
      BY <1>1
    <3>2. (Reported(j)' <=> Reported(j)) /\ (ToStart' <=> ToStart)
          /\ Once(kQueue'[K!Balancer], JobDone(j))
      BY <2>2, <2>3, <3>1 DEF Reported, ToStart, Token, q
    <3>3. Requested(j)' <=> Requested(j)
      BY <2>1 DEF Requested
    <3> QED
      BY <1>2, <2>1, <3>1, <3>2, <3>3 DEF Token
  <2>6. Once(kQueue'[K!Balancer], StartJobs)
    BY <1>1, <2>2, <2>3 DEF q
  <2> QED
    BY <1>1, <1>2, <2>4, <2>5, <2>6 DEF WorkersInv
<1> QED
  BY <1>3, <1>4 DEF K!Tick

LEMMA WorkersNextInv == ASSUME WorkersInv, K!Next \/ UNCHANGED kVars PROVE WorkersInv'
<1>1. ASSUME NEW k \in K!Worker, K!WorkerStep(k) PROVE WorkersInv'
  BY <1>1, WorkerProcInv, WorkerStopInv DEF K!WorkerStep
<1>2. ASSUME NEW k \in K!Worker, K!BalancerDone(k) PROVE WorkersInv'
  BY <1>2, BalancerDoneInv
<1>3. CASE K!BalancerStart \/ K!BalancerTimeout
  BY <1>3, BalancerStartInv, BalancerTimeoutInv
<1>4. CASE K!BalancerStopping
  BY <1>4, BalancerTakesInv DEF K!BalancerStopping, K!Handles, K!Receives
<1>5. CASE K!BalancerIgnores
  BY <1>5, BalancerTakesInv DEF K!BalancerIgnores, K!Handles, K!Receives
<1>6. CASE K!Tick
  BY <1>6, WorkersTickInv
<1>7. CASE UNCHANGED kVars
  BY <1>7 DEF kVars, WorkersInv, WorkersTypes, Token, Requested, Reported, ToStart
<1> QED
  BY <1>1, <1>2, <1>3, <1>4, <1>5, <1>6, <1>7
     DEF K!Next, K!BalancerStep, K!vars, kVars

\* An event that is in a queue once at most has one place there at most.
LEMMA OnePlace ==
  ASSUME NEW a \in K!Object, NEW e, WorkersTypes, Once(kQueue[a], e)
  PROVE  /\ IsFiniteSet(K!Places(a, e))
         /\ Cardinality(K!Places(a, e)) = IF Has(kQueue[a], e) THEN 1 ELSE 0
<1>1. DOMAIN kQueue[a] = 1 .. Len(kQueue[a])
  <2>1. kQueue[a] \in Seq({JobReq, StopJobs}) \/ kQueue[a] \in Seq(BalancerEvents)
    BY WorkersQueues, WorkersFacts
  <2> QED
    BY <2>1
<1>2. CASE Has(kQueue[a], e)
  <2>1. PICK i \in 1 .. Len(kQueue[a]) : kQueue[a][i] = e
    BY <1>2 DEF Has, HasIn
  <2>2. K!Places(a, e) = {i}
    BY <1>1, <2>1 DEF K!Places, Once, OneIn
  <2> QED
    BY <1>2, <2>2, FS_Singleton
<1>3. CASE ~Has(kQueue[a], e)
  <2>1. K!Places(a, e) = {}
    BY <1>1, <1>3 DEF K!Places, Has, HasIn
  <2> QED
    BY <1>3, <2>1, FS_EmptySet
<1> QED
  BY <1>2, <1>3

LEMMA WorkersOneJob == WorkersInv => K!OneJobEach
<1> SUFFICES ASSUME WorkersInv, NEW k \in K!Worker
             PROVE  K!Jobs(k) <= 1 /\ (~stopping /\ K!Started => K!Jobs(k) = 1)
  BY DEF K!OneJobEach
<1>1. WorkersTypes /\ Token(k) /\ k \in K!Object /\ K!Balancer \in K!Object
  BY WorkersFacts DEF WorkersInv
<1>2. /\ Cardinality(K!Places(k, JobReq)) = IF Requested(k) THEN 1 ELSE 0
      /\ Cardinality(K!Places(K!Balancer, JobDone(k))) = IF Reported(k) THEN 1 ELSE 0
  BY <1>1, OnePlace DEF Token, Requested, Reported
<1>3. K!Jobs(k) = (IF Requested(k) THEN 1 ELSE 0) + (IF Reported(k) THEN 1 ELSE 0)
  <2>1. K!Jobs(k) = Cardinality(K!Places(k, JobReq))
                      + Cardinality(K!Places(K!Balancer, JobDone(k)))
    BY Zenon DEF K!Jobs, JobReq, JobDone, K!Cardinality, Cardinality, K!IsFiniteSet, IsFiniteSet
  <2> QED
    BY <1>2, <2>1
<1>4. K!Started => ~ToStart
  <2>1. kQueue[K!Balancer] \in Seq(BalancerEvents)
    BY <1>1, WorkersQueues
  <2>2. DOMAIN kQueue[K!Balancer] = 1 .. Len(kQueue[K!Balancer])
    BY <2>1
  <2> QED
    BY <2>2, WorkersFacts DEF K!Started, ToStart, Has, HasIn
<1> QED
  BY <1>1, <1>3, <1>4 DEF Token

-----------------------------------------------------------------------------
(* dining philosophers *)

Hungry(p) == D!Event("HUNGRY", p)
Done(p) == D!Event("DONE", p)
Eat(p) == D!Event("EAT", p)
Ids == {"STOP", "STOPPED", "EAT", "DONE", "HUNGRY", "TIMEOUT"}

DObject == D!Philo \cup {D!Table}
DEvent == [id : Ids, philo : D!Philo \cup {None}]
Mark == {"done", "hungry", "eating"}

DppTypes ==
  /\ dState \in [DObject ->
                  {"thinking", "hungry", "eating", "serving", "stopping"}]
  /\ dQueue \in [DObject -> Seq(DEvent)]
  /\ philo \in [D!Philo -> Mark]

\* Neighbours of a philosopher that eats by the table's record do not.
Apart(mark) ==
  \A p \in D!Philo : mark[p] = "eating" => D!TableCanServe(mark, p)

\* What the table knows of a philosopher, and is still to be told.
Known(p) ==
  LET q == dQueue[D!Table] mine == dQueue[p]
  IN  /\ dState[p] = "eating" => philo[p] = "eating" /\ ~Has(q, Done(p))
      /\ Has(mine, Eat(p)) =>
           /\ philo[p] = "eating" /\ dState[p] = "hungry"
           /\ ~Has(q, Done(p)) /\ ~Has(q, Hungry(p))
      /\ Has(q, Hungry(p)) => dState[p] = "hungry"
      /\ philo[p] = "hungry" =>
           dState[p] = "hungry" /\ ~Has(q, Done(p)) /\ ~Has(q, Hungry(p))
      /\ Once(mine, Eat(p)) /\ Once(q, Hungry(p)) /\ Before(q, Done(p), Hungry(p))

DppInv == DppTypes /\ Apart(philo) /\ \A p \in D!Philo : Known(p)

LEMMA Neighbours ==
  /\ D!Table \notin D!Philo
  /\ \A p \in D!Philo :
       /\ D!Left(p) \in D!Philo /\ D!Right(p) \in D!Philo
       /\ D!Left(p) # p /\ D!Right(p) # p
       /\ D!Left(D!Right(p)) = p /\ D!Right(D!Left(p)) = p
BY AppsAssumption DEF D!Table, D!Philo, D!Left, D!Right

LEMMA DppEvents ==
  /\ D!Stop \in DEvent /\ D!Stopped \in DEvent /\ D!Event("TIMEOUT", None) \in DEvent
  /\ \A p \in D!Philo :
       /\ Eat(p) \in DEvent /\ Done(p) \in DEvent /\ Hungry(p) \in DEvent
       /\ Done(p) # Hungry(p)
       /\ D!Stop # Eat(p) /\ D!Event("TIMEOUT", None) # Eat(p)
       /\ D!Stopped # Done(p) /\ D!Stopped # Hungry(p)
       /\ \A x \in D!Philo : /\ x # p => Eat(x) # Eat(p) /\ Done(x) # Done(p) /\ Hungry(x) # Hungry(p)
                             /\ Done(x) # Hungry(p)
BY DEF D!Stop, D!Stopped, D!Event, DEvent, Ids, Eat, Done, Hungry

-----------------------------------------------------------------------------
(* The marks of the table *)

LEMMA ApartFewer ==
  ASSUME NEW mark \in [D!Philo -> Mark], Apart(mark), NEW p \in D!Philo, NEW m, m # "eating"
  PROVE  Apart([mark EXCEPT ![p] = m])
<1> DEFINE less == [mark EXCEPT ![p] = m]
<1>1. \A x \in D!Philo : less[x] = "eating" => mark[x] = "eating"
  OBVIOUS
<1> HIDE DEF less
<1>2. Apart(less)
  BY <1>1, Neighbours DEF Apart, D!TableCanServe
<1> QED
  BY <1>2 DEF less

LEMMA ApartServed ==
  ASSUME NEW mark \in [D!Philo -> Mark], Apart(mark), NEW p \in D!Philo, D!TableCanServe(mark, p)
  PROVE  Apart([mark EXCEPT ![p] = "eating"])
<1> DEFINE more == [mark EXCEPT ![p] = "eating"]
<1>1. \A x \in D!Philo : more[x] = "eating" <=> mark[x] = "eating" \/ x = p
  OBVIOUS
<1> HIDE DEF more
<1>2. ASSUME NEW x \in D!Philo, more[x] = "eating"
      PROVE  more[D!Left(x)] # "eating" /\ more[D!Right(x)] # "eating"
  <2>1. CASE x = p
    BY <1>1, <2>1, Neighbours DEF D!TableCanServe
  <2>2. CASE x # p
    <3>1. mark[x] = "eating" /\ mark[D!Left(x)] # "eating" /\ mark[D!Right(x)] # "eating"
      BY <1>1, <1>2, <2>2 DEF Apart, D!TableCanServe
    <3>2. D!Left(x) # p /\ D!Right(x) # p
      BY <3>1, Neighbours DEF D!TableCanServe
    <3> QED
      BY <1>1, <3>1, <3>2, Neighbours
  <2> QED
    BY <2>1, <2>2
<1>3. Apart(more)
  BY <1>2 DEF Apart, D!TableCanServe
<1> QED
  BY <1>3 DEF more

\* Those who are served eat.
LEMMA MarkedServed ==
  ASSUME NEW mark \in [D!Philo -> Mark], NEW served \in Seq(DEvent),
         \A i \in 1 .. Len(served) : \E y \in D!Philo : served[i] = Eat(y)
  PROVE  /\ D!Marked(mark, served) \in [D!Philo -> Mark]
         /\ \A x \in D!Philo : D!Marked(mark, served)[x]
                                 = IF Has(served, Eat(x)) THEN "eating" ELSE mark[x]
<1>1. ASSUME NEW x \in D!Philo
      PROVE  (\E i \in DOMAIN served : served[i].philo = x) <=> Has(served, Eat(x))
  <2>1. DOMAIN served = 1 .. Len(served) /\ \A y : Eat(y).philo = y
    BY DEF Eat, D!Event
  <2> QED
    BY <2>1 DEF Has, HasIn
<1>2. \A x \in D!Philo : D!Marked(mark, served)[x]
                           = IF Has(served, Eat(x)) THEN "eating" ELSE mark[x]
  BY <1>1 DEF D!Marked
<1>3. D!Marked(mark, served) = [x \in D!Philo |-> D!Marked(mark, served)[x]]
  BY DEF D!Marked
<1>4. \A x \in D!Philo : D!Marked(mark, served)[x] \in Mark
  BY <1>2 DEF Mark
<1> QED
  BY <1>2, <1>3, <1>4

LEMMA MarkedOne ==
  ASSUME NEW mark \in [D!Philo -> Mark], NEW p \in D!Philo
  PROVE  /\ D!Marked(mark, <<Eat(p)>>) = [mark EXCEPT ![p] = "eating"]
         /\ D!Marked(mark, <<>>) = mark
<1>1. Eat(p).philo = p
  BY DEF Eat, D!Event
<1>2. DOMAIN <<Eat(p)>> = {1} /\ <<Eat(p)>>[1] = Eat(p)
  OBVIOUS
<1>3. \A x \in D!Philo : (\E i \in DOMAIN <<Eat(p)>> : <<Eat(p)>>[i].philo = x) <=> x = p
  BY <1>1, <1>2
<1>4. D!Marked(mark, <<Eat(p)>>) = [x \in D!Philo |-> IF x = p THEN "eating" ELSE mark[x]]
  BY <1>3 DEF D!Marked
<1>5. D!Marked(mark, <<>>) = [x \in D!Philo |-> mark[x]]
  BY DEF D!Marked
<1> QED
  BY <1>4, <1>5

-----------------------------------------------------------------------------
(* What the table knows *)

\* For x, the queues change in nothing that it could notice.
Kept(x) ==
  /\ Has(dQueue[x], Eat(x))' => Has(dQueue[x], Eat(x))
  /\ Once(dQueue[x], Eat(x)) => Once(dQueue[x], Eat(x))'
  /\ Has(dQueue[D!Table], Done(x))' => Has(dQueue[D!Table], Done(x))
  /\ Has(dQueue[D!Table], Hungry(x))' => Has(dQueue[D!Table], Hungry(x))
  /\ Once(dQueue[D!Table], Hungry(x)) => Once(dQueue[D!Table], Hungry(x))'
  /\ Before(dQueue[D!Table], Done(x), Hungry(x)) => Before(dQueue[D!Table], Done(x), Hungry(x))'

LEMMA KnownKept ==
  ASSUME NEW x \in D!Philo, Known(x), Kept(x), dState'[x] = dState[x], philo'[x] = philo[x]
  PROVE  Known(x)'
BY DEF Known, Kept

-----------------------------------------------------------------------------
(* The queues *)

\* What is left of the queues when a has taken its event.
DRest(a, b) == IF b = a THEN Tail(dQueue[b]) ELSE dQueue[b]

LEMMA DppSent ==
  ASSUME DppTypes, NEW a \in DObject, NEW to, NEW es
  PROVE  /\ D!Take(dQueue, a) = [b \in DObject |-> DRest(a, b)]
         /\ D!Send(D!Take(dQueue, a), to, es)
              = [b \in DObject |-> IF b \in to THEN DRest(a, b) \o es ELSE DRest(a, b)]
<1>1. dQueue = [b \in DObject |-> dQueue[b]] /\ DOMAIN dQueue = DObject
  BY DEF DppTypes
<1>2. D!Take(dQueue, a) = [b \in DObject |-> DRest(a, b)]
  BY <1>1 DEF D!Take, DRest
<1> QED
  BY <1>2 DEF D!Send

\* The first event of a queue is one of the events there are.
LEMMA DppHead ==
  ASSUME DppTypes, NEW a \in DObject, NEW id, D!Handles(a, id)
  PROVE  /\ dQueue[a] # <<>> /\ Head(dQueue[a]) = dQueue[a][1]
         /\ dQueue[a] \in Seq(DEvent) /\ dQueue[a][1] \in DEvent /\ dQueue[a][1].id = id
<1>1. dQueue[a] \in Seq(DEvent) /\ dQueue[a] # <<>> /\ Head(dQueue[a]).id = id
  BY DEF DppTypes, D!Handles, D!Receives
<1> QED
  BY <1>1

\* An event is known by its name and its philosopher.
LEMMA EventIs ==
  ASSUME NEW e \in DEvent, NEW id, NEW p, e.id = id, e.philo = p
  PROVE  e = D!Event(id, p)
BY DEF D!Event, DEvent

\* A philosopher takes an event, which nobody notices, and sends e to the table.
Turn(p, e) ==
  /\ dQueue' \in [DObject -> Seq(DEvent)]
  /\ \A x \in D!Philo : x # p => dQueue'[x] = dQueue[x]
  /\ dQueue'[p] = Tail(dQueue[p])
  /\ dQueue'[D!Table] \in {dQueue[D!Table], dQueue[D!Table] \o <<e>>}
  /\ UNCHANGED philo
  /\ \A x \in D!Philo : x # p => dState'[x] = dState[x]
  /\ dState' \in [DObject -> {"thinking", "hungry", "eating", "serving", "stopping"}]

LEMMA TurnOthers ==
  ASSUME DppInv, NEW p \in D!Philo, NEW e \in DEvent, Turn(p, e), dQueue[p] # <<>>,
         \A x \in D!Philo \ {p} : e # Done(x) /\ e # Hungry(x)
  PROVE  /\ \A x \in D!Philo \ {p} : Known(x)'
         /\ DppTypes' /\ Apart(philo)'
<1> DEFINE q == dQueue[D!Table]
<1>1. /\ DppTypes /\ Apart(philo) /\ q \in Seq(DEvent)
      /\ \A x \in D!Philo : Known(x)
  BY DEF DppInv, DppTypes, DObject
<1>2. DppTypes' /\ Apart(philo)'
  BY <1>1 DEF DppTypes, Turn, Apart, D!TableCanServe
<1>3. ASSUME NEW x \in D!Philo \ {p} PROVE Known(x)'
  <2>1. e # Done(x) /\ e # Hungry(x) /\ Done(x) # Hungry(x)
    BY DppEvents
  <2>2. dQueue'[x] = dQueue[x] /\ dState'[x] = dState[x] /\ philo'[x] = philo[x]
        /\ q' \in {q, q \o <<e>>}
    BY DEF Turn
  <2>3. /\ Has(q', Done(x)) => Has(q, Done(x))
        /\ Has(q', Hungry(x)) => Has(q, Hungry(x))
        /\ Once(q, Hungry(x)) => Once(q', Hungry(x))
    <3>1. CASE q' = q
      BY <3>1
    <3>2. CASE q' = q \o <<e>>
      BY <1>1, <2>1, <3>2, SendHas
    <3> QED
      BY <2>2, <3>1, <3>2
  <2>4. Before(q, Done(x), Hungry(x)) => Before(q', Done(x), Hungry(x))
    BY <1>1, <2>1, <2>2, SendBefore
  <2>5. Kept(x)
    BY <2>2, <2>3, <2>4 DEF Kept
  <2> QED
    BY <1>1, <2>2, <2>5, KnownKept
<1> QED
  BY <1>2, <1>3

\* The philosopher's own side of it.
LEMMA TurnOwn ==
  ASSUME DppInv, NEW p \in D!Philo, NEW e \in DEvent, Turn(p, e), dQueue[p] # <<>>
  PROVE  /\ Has(dQueue'[p], Eat(p)) => Has(dQueue[p], Eat(p))
         /\ dQueue[p][1] = Eat(p) => Has(dQueue[p], Eat(p)) /\ ~Has(dQueue'[p], Eat(p))
         /\ Once(dQueue'[p], Eat(p))
         /\ \A x : x # e => (Has(dQueue'[D!Table], x) => Has(dQueue[D!Table], x))
         /\ e # Hungry(p) \/ ~Has(dQueue[D!Table], Hungry(p)) => Once(dQueue'[D!Table], Hungry(p))
         /\ e # Done(p) \/ ~Has(dQueue[D!Table], Hungry(p)) =>
              Before(dQueue'[D!Table], Done(p), Hungry(p))
<1> DEFINE q == dQueue[D!Table]
           t == dQueue[p]
<1>1. /\ q \in Seq(DEvent) /\ t \in Seq(DEvent) /\ Known(p)
  BY DEF DppInv, DppTypes, DObject
<1>2. dQueue'[p] = Tail(t) /\ q' \in {q, q \o <<e>>}
  BY DEF Turn
<1>3. Once(t, Eat(p)) /\ Once(q, Hungry(p)) /\ Before(q, Done(p), Hungry(p))
  BY <1>1 DEF Known
<1>4. Done(p) # Hungry(p)
  BY DppEvents
<1>5. /\ Has(dQueue'[p], Eat(p)) => Has(t, Eat(p))
      /\ t[1] = Eat(p) => Has(t, Eat(p)) /\ ~Has(dQueue'[p], Eat(p))
      /\ Once(dQueue'[p], Eat(p))
  BY <1>1, <1>2, <1>3, TailHas
<1>6. /\ \A x : x # e => (Has(q', x) => Has(q, x))
      /\ e # Hungry(p) \/ ~Has(q, Hungry(p)) => Once(q', Hungry(p))
  <2>1. CASE q' = q
    BY <1>3, <2>1
  <2>2. CASE q' = q \o <<e>>
    BY <1>1, <1>3, <2>2, SendHas
  <2> QED
    BY <1>2, <2>1, <2>2
<1>7. e # Done(p) \/ ~Has(q, Hungry(p)) => Before(q', Done(p), Hungry(p))
  BY <1>1, <1>2, <1>3, <1>4, SendBefore
<1> QED
  BY <1>5, <1>6, <1>7

LEMMA PhiloTurn ==
  ASSUME DppTypes, NEW p \in D!Philo, NEW e \in DEvent, NEW to, dQueue[p] # <<>>,
         to \subseteq {D!Table},
         dQueue' = D!Send(D!Take(dQueue, p), to, <<e>>) \/ dQueue' = D!Take(dQueue, p),
         NEW st \in {"thinking", "hungry", "eating"},
         dState' = [dState EXCEPT ![p] = st] \/ UNCHANGED dState,
         UNCHANGED philo
  PROVE  Turn(p, e)
<1>1. p \in DObject /\ p # D!Table /\ D!Table \in DObject
  BY Neighbours DEF DObject
<1>2. \A b \in DObject : DRest(p, b) \in Seq(DEvent)
  BY DEF DppTypes, DRest
<1>3. \A b \in DObject : DRest(p, b) \o <<e>> \in Seq(DEvent)
  BY <1>2
<1>4. \/ dQueue' = [b \in DObject |-> DRest(p, b)]
      \/ dQueue' = [b \in DObject |-> IF b \in to THEN DRest(p, b) \o <<e>> ELSE DRest(p, b)]
  <2>1. /\ D!Take(dQueue, p) = [b \in DObject |-> DRest(p, b)]
        /\ D!Send(D!Take(dQueue, p), to, <<e>>)
             = [b \in DObject |-> IF b \in to THEN DRest(p, b) \o <<e>> ELSE DRest(p, b)]
    <3>1. p \in DObject
      BY <1>1
    <3>2. D!Take(dQueue, p) = [b \in DObject |-> DRest(p, b)]
      BY <3>1, DppSent
    <3>3. D!Send(D!Take(dQueue, p), to, <<e>>)
             = [b \in DObject |-> IF b \in to THEN DRest(p, b) \o <<e>> ELSE DRest(p, b)]
      BY <3>2 DEF D!Send
    <3> QED
      BY <3>2, <3>3
  <2> QED
    BY <2>1
<1>5. dQueue' \in [DObject -> Seq(DEvent)]
  BY <1>2, <1>3, <1>4
<1>6. /\ \A x \in D!Philo : x # p => dQueue'[x] = dQueue[x]
      /\ dQueue'[p] = Tail(dQueue[p])
      /\ dQueue'[D!Table] \in {dQueue[D!Table], dQueue[D!Table] \o <<e>>}
  <2>1. \A x \in D!Philo : x \in DObject /\ x \notin to
    BY Neighbours DEF DObject
  <2> QED
    BY <1>1, <1>4, <2>1 DEF DRest
<1>7. /\ \A x \in D!Philo : x # p => dState'[x] = dState[x]
      /\ dState' \in [DObject -> {"thinking", "hungry", "eating", "serving", "stopping"}]
  <2>1. CASE UNCHANGED dState
    BY <2>1 DEF DppTypes
  <2>2. CASE dState' = [dState EXCEPT ![p] = st]
    BY <1>1, <2>2 DEF DppTypes
  <2> QED
    BY <2>1, <2>2
<1> QED
  BY <1>5, <1>6, <1>7 DEF Turn

LEMMA PhiloThinkingInv ==
  ASSUME DppInv, NEW p \in D!Philo, D!PhiloThinking(p)
  PROVE  DppInv'
<1> DEFINE q == dQueue[D!Table]
<1>1. DppTypes /\ Known(p) /\ p \in DObject
  BY DEF DppInv, DObject
<1>2. /\ dState[p] = "thinking" /\ D!Handles(p, "TIMEOUT")
      /\ dQueue' = D!Send(D!Take(dQueue, p), {D!Table}, <<Hungry(p)>>)
      /\ dState' = [dState EXCEPT ![p] = "hungry"] /\ UNCHANGED philo
  BY DEF D!PhiloThinking, Hungry
<1>3. dQueue[p] # <<>> /\ Hungry(p) \in DEvent
  BY <1>1, <1>2, DppHead, DppEvents
<1>4. Turn(p, Hungry(p))
  BY <1>1, <1>2, <1>3, PhiloTurn
<1>5. \A x \in D!Philo \ {p} : Hungry(p) # Done(x) /\ Hungry(p) # Hungry(x)
  BY DppEvents
<1>6. ~Has(dQueue[p], Eat(p)) /\ ~Has(q, Hungry(p)) /\ philo[p] # "hungry"
  BY <1>1, <1>2 DEF Known
<1>7. dState'[p] = "hungry" /\ philo'[p] = philo[p]
  BY <1>1, <1>2 DEF DppTypes
<1>8. Hungry(p) # Done(p)
  BY DppEvents
<1>9. /\ ~Has(dQueue'[p], Eat(p)) /\ Once(dQueue'[p], Eat(p))
      /\ Once(q', Hungry(p)) /\ Before(q', Done(p), Hungry(p))
  BY <1>3, <1>4, <1>6, <1>8, TurnOwn
<1>10. Known(p)'
  BY <1>6, <1>7, <1>9 DEF Known
<1>11. (\A x \in D!Philo \ {p} : Known(x)') /\ DppTypes' /\ Apart(philo)'
  BY <1>3, <1>4, <1>5, TurnOthers
<1> QED
  BY <1>10, <1>11 DEF DppInv

LEMMA PhiloEatingInv ==
  ASSUME DppInv, NEW p \in D!Philo, D!PhiloEating(p)
  PROVE  DppInv'
<1> DEFINE q == dQueue[D!Table]
<1>1. DppTypes /\ Known(p) /\ p \in DObject
  BY DEF DppInv, DObject
<1>2. /\ dState[p] = "eating" /\ D!Handles(p, "TIMEOUT")
      /\ dQueue' = D!Send(D!Take(dQueue, p), D!Subscribers("DONE"), <<Done(p)>>)
      /\ dState' = [dState EXCEPT ![p] = "thinking"] /\ UNCHANGED philo
  BY DEF D!PhiloEating, Done
<1>3. dQueue[p] # <<>> /\ Done(p) \in DEvent
  BY <1>1, <1>2, DppHead, DppEvents
<1>4. Turn(p, Done(p))
  <2>1. D!Subscribers("DONE") \subseteq {D!Table}
    BY DEF D!Subscribers, D!New, D!NewPhilo, D!NewTable
  <2> QED
    BY <1>1, <1>2, <1>3, <2>1, PhiloTurn
<1>5. \A x \in D!Philo \ {p} : Done(p) # Done(x) /\ Done(p) # Hungry(x)
  BY DppEvents
<1>6. ~Has(dQueue[p], Eat(p)) /\ ~Has(q, Hungry(p)) /\ philo[p] = "eating"
  BY <1>1, <1>2 DEF Known
<1>7. dState'[p] = "thinking" /\ philo'[p] = philo[p]
  BY <1>1, <1>2 DEF DppTypes
<1>8. Hungry(p) # Done(p)
  BY DppEvents
<1>9. /\ ~Has(dQueue'[p], Eat(p)) /\ Once(dQueue'[p], Eat(p)) /\ ~Has(q', Hungry(p))
      /\ Once(q', Hungry(p)) /\ Before(q', Done(p), Hungry(p))
  BY <1>3, <1>4, <1>6, <1>8, TurnOwn
<1>10. Known(p)'
  BY <1>6, <1>7, <1>9 DEF Known
<1>11. (\A x \in D!Philo \ {p} : Known(x)') /\ DppTypes' /\ Apart(philo)'
  BY <1>3, <1>4, <1>5, TurnOthers
<1> QED
  BY <1>10, <1>11 DEF DppInv

LEMMA PhiloHungryInv ==
  ASSUME DppInv, NEW p \in D!Philo, D!PhiloHungry(p)
  PROVE  DppInv'
<1> DEFINE q == dQueue[D!Table]
           e == D!Stop
<1>1. DppTypes /\ Known(p) /\ p \in DObject
  BY DEF DppInv, DObject
<1>2. /\ dState[p] = "hungry" /\ D!Handles(p, "EAT") /\ Head(dQueue[p]).philo = p
      /\ dQueue' = D!Take(dQueue, p)
      /\ dState' = [dState EXCEPT ![p] = "eating"] /\ UNCHANGED philo
  BY DEF D!PhiloHungry, D!IsServed
<1>3. dQueue[p] # <<>> /\ e \in DEvent /\ dQueue[p][1] = Eat(p)
  BY <1>1, <1>2, DppHead, DppEvents, EventIs DEF Eat
<1>4. Turn(p, e)
  BY <1>1, <1>2, <1>3, PhiloTurn
<1>5. e # Done(p) /\ e # Hungry(p) /\ \A x \in D!Philo \ {p} : e # Done(x) /\ e # Hungry(x)
  BY DEF D!Stop, D!Event, Done, Hungry
<1> HIDE DEF e
<1>6. /\ Has(dQueue[p], Eat(p)) /\ ~Has(dQueue'[p], Eat(p)) /\ Once(dQueue'[p], Eat(p))
      /\ Has(q', Done(p)) => Has(q, Done(p))
      /\ Has(q', Hungry(p)) => Has(q, Hungry(p))
      /\ Once(q', Hungry(p)) /\ Before(q', Done(p), Hungry(p))
  BY <1>3, <1>4, <1>5, TurnOwn
<1>7. dState'[p] = "eating" /\ philo'[p] = philo[p]
  BY <1>1, <1>2 DEF DppTypes
<1>8. philo[p] = "eating" /\ ~Has(q, Done(p)) /\ ~Has(q, Hungry(p))
  BY <1>1, <1>6 DEF Known
<1>9. Known(p)'
  BY <1>6, <1>7, <1>8 DEF Known
<1>10. (\A x \in D!Philo \ {p} : Known(x)') /\ DppTypes' /\ Apart(philo)'
  BY <1>3, <1>4, <1>5, TurnOthers
<1> QED
  BY <1>9, <1>10 DEF DppInv

LEMMA PhiloTopInv ==
  ASSUME DppInv, NEW p \in D!Philo, D!PhiloTop(p) \/ D!PhiloIgnores(p)
  PROVE  DppInv'
<1> DEFINE q == dQueue[D!Table]
           e == D!Stopped
<1>1. DppTypes /\ Known(p) /\ p \in DObject
  BY DEF DppInv, DObject
<1>2. /\ dQueue[p] # <<>> /\ UNCHANGED <<dState, philo>>
      /\ dQueue' = D!Send(D!Take(dQueue, p), {D!Table}, <<e>>) \/ dQueue' = D!Take(dQueue, p)
  BY DEF D!PhiloTop, D!PhiloIgnores, D!Handles, D!Receives
<1>3. e \in DEvent
  BY DppEvents
<1>4. Turn(p, e)
  BY <1>1, <1>2, <1>3, PhiloTurn
<1>5. e # Done(p) /\ e # Hungry(p) /\ \A x \in D!Philo \ {p} : e # Done(x) /\ e # Hungry(x)
  BY DEF D!Stopped, D!Event, Done, Hungry
<1> HIDE DEF e
<1>6. /\ Has(dQueue'[p], Eat(p)) => Has(dQueue[p], Eat(p))
      /\ Once(dQueue'[p], Eat(p))
      /\ Has(q', Done(p)) => Has(q, Done(p))
      /\ Has(q', Hungry(p)) => Has(q, Hungry(p))
      /\ Once(q', Hungry(p)) /\ Before(q', Done(p), Hungry(p))
  BY <1>2, <1>3, <1>4, <1>5, TurnOwn
<1>7. Kept(p)
  BY <1>6 DEF Kept
<1>8. Known(p)'
  BY <1>1, <1>2, <1>7, KnownKept
<1>9. (\A x \in D!Philo \ {p} : Known(x)') /\ DppTypes' /\ Apart(philo)'
  BY <1>2, <1>3, <1>4, <1>5, TurnOthers
<1> QED
  BY <1>8, <1>9 DEF DppInv

-----------------------------------------------------------------------------
(* The table *)

\* What is served are EAT events.
Meals(served) ==
  served \in Seq(DEvent) /\ \A i \in 1 .. Len(served) : \E y \in D!Philo : served[i] = Eat(y)

\* The table takes an event, and philosophers find the meals at the end of their queues.
Fed(mark, served) ==
  /\ philo' = D!Marked(mark, served)
  /\ DppTypes'
  /\ dQueue'[D!Table] = Tail(dQueue[D!Table])
  /\ \A x \in D!Philo :
       /\ dState'[x] = dState[x]
       /\ Has(dQueue'[x], Eat(x)) => Has(dQueue[x], Eat(x)) \/ Has(served, Eat(x))
       /\ /\ Once(dQueue[x], Eat(x)) /\ Once(served, Eat(x))
          /\ ~(Has(dQueue[x], Eat(x)) /\ Has(served, Eat(x)))
          => Once(dQueue'[x], Eat(x))

LEMMA ServeServed ==
  ASSUME DppTypes, dQueue[D!Table] # <<>>, NEW mark \in [D!Philo -> Mark],
         NEW served, Meals(served), NEW m, D!Serve(mark, served, m)
  PROVE  Fed(mark, served)
<1> DEFINE toEat == D!Subscribers("EAT")
           toStop == D!Subscribers("STOP")
<1>1. D!Table \in DObject /\ D!Table \notin D!Philo /\ \A x \in D!Philo : x \in DObject
  BY Neighbours DEF DObject
<1>2. D!Table \notin toEat /\ D!Table \notin toStop
  BY Neighbours DEF D!Subscribers, D!New, D!NewTable
<1>3. PICK stop \in {<<>>, <<D!Stop>>}, st \in {"stopping", dState[D!Table]} :
        /\ dQueue' = D!Send(D!Send(D!Take(dQueue, D!Table), toEat, served), toStop, stop)
        /\ dState' = [dState EXCEPT ![D!Table] = st]
        /\ philo' = D!Marked(mark, served)
  BY DEF D!Serve
<1> HIDE DEF toEat, toStop
<1>4. D!Take(dQueue, D!Table) = [b \in DObject |-> DRest(D!Table, b)]
  BY <1>1, DppSent
<1>5. dQueue' = [b \in DObject |->
                  IF b \in toStop
                    THEN (IF b \in toEat THEN DRest(D!Table, b) \o served ELSE DRest(D!Table, b)) \o stop
                    ELSE (IF b \in toEat THEN DRest(D!Table, b) \o served ELSE DRest(D!Table, b))]
  BY <1>3, <1>4 DEF D!Send
<1>6. \A b \in DObject : DRest(D!Table, b) \in Seq(DEvent)
  BY DEF DppTypes, DRest
<1>7. served \in Seq(DEvent) /\ stop \in Seq(DEvent)
      /\ \A x \in D!Philo : ~Has(stop, Eat(x)) /\ Once(stop, Eat(x))
  <2>1. \A x \in D!Philo : Eat(x) # D!Stop
    BY DppEvents
  <2>2. D!Stop \in DEvent
    BY DppEvents
  <2>3. <<D!Stop>> \in Seq(DEvent) /\ <<>> \in Seq(DEvent)
    BY <2>2
  <2>4. stop \in Seq(DEvent) /\ \A i \in 1 .. Len(stop) : stop[i] = D!Stop /\ i = 1
    <3>1. CASE stop = <<>>
      BY <2>3, <3>1
    <3>2. CASE stop = <<D!Stop>>
      BY <2>3, <3>2
    <3> QED
      BY <3>1, <3>2
  <2> QED
    BY <2>1, <2>4 DEF Meals, Has, HasIn, Once, OneIn
<1>8. dQueue' \in [DObject -> Seq(DEvent)]
  <2> DEFINE mid(b) == IF b \in toEat THEN DRest(D!Table, b) \o served ELSE DRest(D!Table, b)
  <2>1. \A b \in DObject : mid(b) \in Seq(DEvent)
    BY <1>6, <1>7
  <2>2. dQueue' = [b \in DObject |-> IF b \in toStop THEN mid(b) \o stop ELSE mid(b)]
    BY <1>5
  <2> HIDE DEF mid
  <2>3. \A b \in DObject : mid(b) \o stop \in Seq(DEvent)
    BY <1>7, <2>1
  <2> QED
    BY <2>1, <2>2, <2>3
<1>9. dQueue'[D!Table] = Tail(dQueue[D!Table])
  BY <1>1, <1>2, <1>5 DEF DRest
<1>10. DppTypes'
  <2>1. D!Marked(mark, served) \in [D!Philo -> Mark]
    BY MarkedServed DEF Meals
  <2>2. dState' \in [DObject -> {"thinking", "hungry", "eating", "serving", "stopping"}]
    BY <1>1, <1>3 DEF DppTypes
  <2> QED
    BY <1>3, <1>8, <2>1, <2>2 DEF DppTypes
<1>11. ASSUME NEW x \in D!Philo
       PROVE  /\ dState'[x] = dState[x]
              /\ Has(dQueue'[x], Eat(x)) => Has(dQueue[x], Eat(x)) \/ Has(served, Eat(x))
              /\ /\ Once(dQueue[x], Eat(x)) /\ Once(served, Eat(x))
                 /\ ~(Has(dQueue[x], Eat(x)) /\ Has(served, Eat(x)))
                 => Once(dQueue'[x], Eat(x))
  <2> DEFINE t == dQueue[x]
             u == IF x \in toEat THEN t \o served ELSE t
  <2>1. x # D!Table /\ x \in DObject /\ dState'[x] = dState[x]
    BY <1>1, <1>3 DEF DppTypes
  <2>2. dQueue'[x] = (IF x \in toStop THEN u \o stop ELSE u)
    BY <1>5, <2>1 DEF DRest
  <2>3. t \in Seq(DEvent)
    BY <2>1 DEF DppTypes
  <2> HIDE DEF t
  <2>4. /\ u \in Seq(DEvent)
        /\ Has(u, Eat(x)) => Has(t, Eat(x)) \/ Has(served, Eat(x))
        /\ /\ Once(t, Eat(x)) /\ Once(served, Eat(x)) /\ ~(Has(t, Eat(x)) /\ Has(served, Eat(x)))
           => Once(u, Eat(x))
    <3>1. CASE x \in toEat
      BY <1>7, <2>3, <3>1, ConcatHas
    <3>2. CASE x \notin toEat
      BY <2>3, <3>2
    <3> QED
      BY <3>1, <3>2
  <2> HIDE DEF u
  <2>5. /\ Has(dQueue'[x], Eat(x)) => Has(u, Eat(x))
        /\ Once(u, Eat(x)) => Once(dQueue'[x], Eat(x))
    <3>1. CASE x \in toStop
      BY <1>7, <2>2, <2>4, <3>1, ConcatHas
    <3>2. CASE x \notin toStop
      BY <2>2, <3>2
    <3> QED
      BY <3>1, <3>2
  <2> QED
    BY <2>1, <2>4, <2>5 DEF t
<1> QED
  BY <1>3, <1>9, <1>10, <1>11 DEF Fed

\* The table's queue when it takes its first event.
LEMMA TableTakes ==
  ASSUME DppTypes, dQueue[D!Table] # <<>>, dQueue'[D!Table] = Tail(dQueue[D!Table]),
         NEW x \in D!Philo, Known(x)
  PROVE  /\ Has(dQueue'[D!Table], Done(x)) => Has(dQueue[D!Table], Done(x))
         /\ Has(dQueue'[D!Table], Hungry(x)) => Has(dQueue[D!Table], Hungry(x))
         /\ Once(dQueue'[D!Table], Hungry(x))
         /\ Before(dQueue'[D!Table], Done(x), Hungry(x))
         /\ Has(dQueue[D!Table], dQueue[D!Table][1])
         /\ dQueue[D!Table][1] = Hungry(x) =>
              ~Has(dQueue'[D!Table], Hungry(x)) /\ ~Has(dQueue[D!Table], Done(x))
<1> DEFINE q == dQueue[D!Table]
<1>1. q \in Seq(DEvent) /\ Once(q, Hungry(x)) /\ Before(q, Done(x), Hungry(x))
  BY DEF DppTypes, DObject, Known
<1>2. /\ Has(Tail(q), Done(x)) => Has(q, Done(x))
      /\ Has(Tail(q), Hungry(x)) => Has(q, Hungry(x))
      /\ Once(Tail(q), Hungry(x)) /\ Has(q, q[1])
      /\ q[1] = Hungry(x) => ~Has(Tail(q), Hungry(x))
  BY <1>1, TailHas
<1>3. Before(Tail(q), Done(x), Hungry(x)) /\ (q[1] = Hungry(x) => ~Has(q, Done(x)))
  BY <1>1, TailBefore
<1> QED
  BY <1>2, <1>3

\* Who is served was hungry, and nothing else of it is under way.
LEMMA ServedKnown ==
  ASSUME DppInv, dQueue[D!Table] # <<>>, NEW mark \in [D!Philo -> Mark], NEW served,
         Meals(served), Fed(mark, served), NEW x \in D!Philo,
         Has(served, Eat(x)), Once(served, Eat(x)), dState[x] = "hungry",
         ~Has(dQueue[x], Eat(x)),
         ~Has(dQueue'[D!Table], Done(x)), ~Has(dQueue'[D!Table], Hungry(x))
  PROVE  Known(x)'
<1>1. /\ philo' = D!Marked(mark, served) /\ dState'[x] = dState[x]
      /\ dQueue'[D!Table] = Tail(dQueue[D!Table])
      /\ Once(dQueue[x], Eat(x)) => Once(dQueue'[x], Eat(x))
  BY DEF Fed
<1>2. DppTypes /\ Known(x)
  BY DEF DppInv
<1>3. philo'[x] = "eating"
  BY <1>1, MarkedServed DEF Meals
<1>4. Once(dQueue'[x], Eat(x)) /\ Once(dQueue'[D!Table], Hungry(x))
      /\ Before(dQueue'[D!Table], Done(x), Hungry(x))
  <2>1. Once(dQueue[x], Eat(x))
    BY <1>2 DEF Known
  <2>2. Once(dQueue'[x], Eat(x))
    BY <1>1, <2>1
  <2> QED
    BY <1>1, <1>2, <2>2, TableTakes
<1> QED
  BY <1>1, <1>3, <1>4 DEF Known

\* Others keep what they had, if their marks do.
LEMMA ServedKept ==
  ASSUME DppInv, dQueue[D!Table] # <<>>, NEW mark \in [D!Philo -> Mark], NEW served,
         Meals(served), Fed(mark, served), NEW x \in D!Philo, ~Has(served, Eat(x))
  PROVE  Kept(x) /\ dState'[x] = dState[x] /\ philo'[x] = mark[x]
<1>1. /\ philo' = D!Marked(mark, served) /\ dState'[x] = dState[x]
      /\ dQueue'[D!Table] = Tail(dQueue[D!Table])
      /\ Has(dQueue'[x], Eat(x)) => Has(dQueue[x], Eat(x)) 
      /\ Once(dQueue[x], Eat(x)) /\ Once(served, Eat(x)) => Once(dQueue'[x], Eat(x))
  BY DEF Fed
<1>2. DppTypes /\ Known(x)
  BY DEF DppInv
<1>3. philo'[x] = mark[x]
  BY <1>1, MarkedServed DEF Meals
<1>4. Once(served, Eat(x))
  BY DEF Once, OneIn, Has, HasIn
<1>5. Kept(x)
  BY <1>1, <1>2, <1>4, TableTakes DEF Kept
<1> QED
  BY <1>1, <1>3, <1>5

LEMMA MealsOne ==
  ASSUME NEW p \in D!Philo
  PROVE  /\ Meals(<<Eat(p)>>) /\ Meals(<<>>)
         /\ \A x \in D!Philo : /\ Has(<<Eat(p)>>, Eat(x)) <=> x = p
                               /\ Once(<<Eat(p)>>, Eat(x))
                               /\ ~Has(<<>>, Eat(x)) /\ Once(<<>>, Eat(x))
<1>1. <<Eat(p)>> \in Seq(DEvent) /\ <<>> \in Seq(DEvent)
  BY DppEvents
<1>2. \A x \in D!Philo : Eat(p) = Eat(x) <=> x = p
  BY DppEvents
<1>3. Len(<<Eat(p)>>) = 1 /\ <<Eat(p)>>[1] = Eat(p) /\ Len(<<>>) = 0
  OBVIOUS
<1> QED
  BY <1>1, <1>2, <1>3 DEF Meals, Has, HasIn, Once, OneIn

LEMMA ServingHungryInv ==
  ASSUME DppInv, NEW p \in D!Philo, D!ServingHungry(p)
  PROVE  DppInv'
<1> DEFINE q == dQueue[D!Table]
<1>1. DppTypes /\ Apart(philo) /\ philo \in [D!Philo -> Mark] /\ \A x \in D!Philo : Known(x)
  BY DEF DppInv, DppTypes
<1>2. D!Table \in DObject
  BY DEF DObject
<1>3. q # <<>> /\ q[1] = Hungry(p)
  <2>1. D!Handles(D!Table, "HUNGRY") /\ Head(q).philo = p
    BY DEF D!ServingHungry
  <2> QED
    BY <1>1, <1>2, <2>1, DppHead, EventIs DEF Hungry
<1>4. CASE D!TableCanServe(philo, p)
  <2> DEFINE served == <<Eat(p)>>
  <2>1. D!Serve(philo, served, TRUE)
    BY <1>4 DEF D!ServingHungry, Eat
  <2>2. Meals(served)
    BY MealsOne
  <2>3. \A x \in D!Philo : (Has(served, Eat(x)) <=> x = p) /\ Once(served, Eat(x))
    BY MealsOne
  <2>4. Apart(D!Marked(philo, served))
    BY <1>1, <1>4, MarkedOne, ApartServed
  <2> HIDE DEF served
  <2>5. Fed(philo, served)
    BY <1>1, <1>3, <2>1, <2>2, ServeServed
  <2>6. philo' = D!Marked(philo, served) /\ DppTypes' /\ dQueue'[D!Table] = Tail(q)
    BY <2>5 DEF Fed
  <2>7. Known(p)'
    <3>1. ~Has(dQueue'[D!Table], Hungry(p)) /\ ~Has(dQueue'[D!Table], Done(p)) /\ Has(q, Hungry(p))
      BY <1>1, <1>3, <2>6, TableTakes
    <3>2. dState[p] = "hungry" /\ ~Has(dQueue[p], Eat(p))
      BY <1>1, <3>1 DEF Known
    <3> QED
      BY <1>1, <1>3, <2>2, <2>3, <2>5, <3>1, <3>2, ServedKnown
  <2>8. ASSUME NEW x \in D!Philo, x # p PROVE Known(x)'
    <3>1. Kept(x) /\ dState'[x] = dState[x] /\ philo'[x] = philo[x]
      BY <1>1, <1>3, <2>2, <2>3, <2>5, <2>8, ServedKept
    <3> QED
      BY <1>1, <3>1, KnownKept
  <2>9. Apart(philo)'
    BY <2>4, <2>6 DEF Apart, D!TableCanServe
  <2> QED
    BY <2>6, <2>7, <2>8, <2>9 DEF DppInv
<1>5. CASE ~D!TableCanServe(philo, p)
  <2> DEFINE served == <<>>
             mark == [philo EXCEPT ![p] = "hungry"]
  <2>1. D!Serve(mark, served, FALSE)
    BY <1>5 DEF D!ServingHungry
  <2>2. Meals(served)
    BY MealsOne
  <2>3. \A x \in D!Philo : ~Has(served, Eat(x))
    BY MealsOne
  <2>4. mark \in [D!Philo -> Mark] /\ mark[p] = "hungry" /\ \A x \in D!Philo : x # p => mark[x] = philo[x]
    BY <1>1 DEF Mark
  <2>5. Apart(mark)
    BY <1>1, ApartFewer
  <2>6. D!Marked(mark, served) = mark
    BY <2>4, MarkedOne
  <2> HIDE DEF served, mark
  <2>7. Fed(mark, served)
    BY <1>1, <1>3, <2>1, <2>2, <2>4, ServeServed
  <2>8. philo' = mark /\ DppTypes' /\ dQueue'[D!Table] = Tail(q)
    BY <2>6, <2>7 DEF Fed
  <2>9. Known(p)'
    <3>1. ~Has(dQueue'[D!Table], Hungry(p)) /\ ~Has(dQueue'[D!Table], Done(p)) /\ Has(q, Hungry(p))
      BY <1>1, <1>3, <2>8, TableTakes
    <3>2. dState[p] = "hungry" /\ ~Has(dQueue[p], Eat(p))
      BY <1>1, <3>1 DEF Known
    <3>3. Kept(p) /\ dState'[p] = dState[p] /\ philo'[p] = mark[p]
      BY <1>1, <1>3, <2>2, <2>3, <2>4, <2>7, ServedKept
    <3> QED
      BY <1>1, <2>4, <3>1, <3>2, <3>3 DEF Known, Kept
  <2>10. ASSUME NEW x \in D!Philo, x # p PROVE Known(x)'
    <3>1. Kept(x) /\ dState'[x] = dState[x] /\ philo'[x] = philo[x]
      BY <1>1, <1>3, <2>2, <2>3, <2>4, <2>7, <2>10, ServedKept
    <3> QED
      BY <1>1, <3>1, KnownKept
  <2>11. Apart(philo)'
    BY <2>5, <2>8 DEF Apart, D!TableCanServe
  <2> QED
    BY <2>8, <2>9, <2>10, <2>11 DEF DppInv
<1> QED
  BY <1>4, <1>5

LEMMA PairConcat ==
  ASSUME NEW T, NEW x \in T, NEW y \in T
  PROVE  Len(<<x>> \o <<y>>) = 2 /\ (<<x>> \o <<y>>)[1] = x /\ (<<x>> \o <<y>>)[2] = y
<1>1. <<x>> \in Seq(T) /\ <<y>> \in Seq(T) /\ Len(<<x>>) = 1 /\ Len(<<y>>) = 1
  OBVIOUS
<1> QED
  BY <1>1

\* The left neighbour, and then the right one, are served if they wait and can be.
LEMMA BothMeals ==
  ASSUME NEW mark \in [D!Philo -> Mark], Apart(mark),
         NEW a \in D!Philo, NEW b \in D!Philo, NEW f, NEW g,
         f = D!ServeIfHungry(mark, a), g = D!ServeIfHungry(D!Marked(mark, f), b)
  PROVE  /\ Meals(f \o g) /\ Apart(D!Marked(mark, f \o g))
         /\ \A x \in D!Philo : /\ Has(f \o g, Eat(x)) => mark[x] = "hungry"
                               /\ Once(f \o g, Eat(x))
<1> DEFINE first == D!Marked(mark, f)
<1>1. f \in {<<>>, <<Eat(a)>>} /\ (f # <<>> => mark[a] = "hungry" /\ D!TableCanServe(mark, a))
  BY DEF D!ServeIfHungry, Eat
<1>2. g \in {<<>>, <<Eat(b)>>} /\ (g # <<>> => first[b] = "hungry" /\ D!TableCanServe(first, b))
  BY DEF D!ServeIfHungry, Eat
<1>3. /\ Meals(f) /\ \A x \in D!Philo : Once(f, Eat(x))
      /\ \A x \in D!Philo : Has(f, Eat(x)) <=> f # <<>> /\ x = a
  <2> DEFINE one == <<Eat(a)>>
  <2>0. /\ Meals(one) /\ Meals(<<>>) /\ one # <<>>
        /\ \A x \in D!Philo : /\ Has(one, Eat(x)) <=> x = a
                              /\ Once(one, Eat(x))
                              /\ ~Has(<<>>, Eat(x)) /\ Once(<<>>, Eat(x))
    BY MealsOne
  <2> HIDE DEF one
  <2>1. CASE f = <<>>
    BY <2>0, <2>1
  <2>2. CASE f = one
    BY <2>0, <2>2
  <2> QED
    BY <1>1, <2>1, <2>2 DEF one
<1>4. /\ Meals(g) /\ \A x \in D!Philo : Once(g, Eat(x))
      /\ \A x \in D!Philo : Has(g, Eat(x)) <=> g # <<>> /\ x = b
  <2> DEFINE one == <<Eat(b)>>
  <2>0. /\ Meals(one) /\ Meals(<<>>) /\ one # <<>>
        /\ \A x \in D!Philo : /\ Has(one, Eat(x)) <=> x = b
                              /\ Once(one, Eat(x))
                              /\ ~Has(<<>>, Eat(x)) /\ Once(<<>>, Eat(x))
    BY MealsOne
  <2> HIDE DEF one
  <2>1. CASE g = <<>>
    BY <2>0, <2>1
  <2>2. CASE g = one
    BY <2>0, <2>2
  <2> QED
    BY <1>2, <2>1, <2>2 DEF one
<1>5. first \in [D!Philo -> Mark] /\ \A x \in D!Philo : first[x] = IF Has(f, Eat(x)) THEN "eating" ELSE mark[x]
  BY <1>3, MarkedServed DEF Meals
<1>6. Apart(first)
  <2>1. CASE f = <<>>
    <3>1. first = mark
      BY <2>1, MarkedOne
    <3> QED
      BY <3>1
  <2>2. CASE f = <<Eat(a)>>
    <3>1. D!TableCanServe(mark, a)
      BY <1>1, <2>2
    <3>2. first = [mark EXCEPT ![a] = "eating"]
      BY <2>2, MarkedOne
    <3> HIDE DEF first
    <3> QED
      BY <3>1, <3>2, ApartServed
  <2> QED
    BY <1>1, <2>1, <2>2
<1> HIDE DEF first
<1>7. ASSUME g # <<>> PROVE ~Has(f, Eat(b)) /\ mark[b] = "hungry"
  BY <1>2, <1>5, <1>7
<1>8. /\ f \o g \in Seq(DEvent)
      /\ \A x \in D!Philo : Has(f \o g, Eat(x)) <=> Has(f, Eat(x)) \/ Has(g, Eat(x))
      /\ \A x \in D!Philo : ~(Has(f, Eat(x)) /\ Has(g, Eat(x))) => Once(f \o g, Eat(x))
  BY <1>3, <1>4, ConcatHas DEF Meals
<1>9. \A x \in D!Philo : (Has(f \o g, Eat(x)) => mark[x] = "hungry") /\ Once(f \o g, Eat(x))
  BY <1>1, <1>3, <1>4, <1>7, <1>8
<1>10. Meals(f \o g)
  <2>1. ASSUME NEW i \in 1 .. Len(f \o g) PROVE \E y \in D!Philo : (f \o g)[i] = Eat(y)
    <3>1. CASE f = <<>> /\ g = <<>>
      BY <3>1
    <3>2. CASE f = <<Eat(a)>> /\ g = <<>>
      BY <3>2
    <3>3. CASE f = <<>> /\ g = <<Eat(b)>>
      BY <3>3
    <3>4. CASE f = <<Eat(a)>> /\ g = <<Eat(b)>>
      <4>1. Len(f \o g) = 2 /\ (f \o g)[1] = Eat(a) /\ (f \o g)[2] = Eat(b)
        <5>1. Eat(a) \in DEvent /\ Eat(b) \in DEvent
          BY DppEvents
        <5>2. /\ Len(<<Eat(a)>> \o <<Eat(b)>>) = 2
              /\ (<<Eat(a)>> \o <<Eat(b)>>)[1] = Eat(a)
              /\ (<<Eat(a)>> \o <<Eat(b)>>)[2] = Eat(b)
          BY <5>1, PairConcat
        <5> QED
          BY <3>4, <5>2
      <4>2. i \in {1, 2}
        BY <4>1
      <4> QED
        BY <4>1, <4>2
    <3> QED
      BY <1>1, <1>2, <3>1, <3>2, <3>3, <3>4
  <2> QED
    BY <1>8, <2>1 DEF Meals
<1>11. Apart(D!Marked(mark, f \o g))
  <2> DEFINE both == D!Marked(mark, f \o g)
             last == D!Marked(first, g)
  <2>1. both \in [D!Philo -> Mark]
        /\ \A x \in D!Philo : both[x] = IF Has(f \o g, Eat(x)) THEN "eating" ELSE mark[x]
    BY <1>10, MarkedServed DEF Meals
  <2>2. last \in [D!Philo -> Mark]
        /\ \A x \in D!Philo : last[x] = IF Has(g, Eat(x)) THEN "eating" ELSE first[x]
    BY <1>4, <1>5, MarkedServed DEF Meals
  <2>3. Apart(last)
    <3>1. CASE g = <<>>
      <4>1. last = first
        BY <1>5, <3>1, MarkedOne
      <4> QED
        BY <1>6, <4>1
    <3>2. CASE g = <<Eat(b)>>
      <4>1. D!TableCanServe(first, b)
        BY <1>2, <3>2
      <4>2. last = [first EXCEPT ![b] = "eating"]
        BY <1>5, <3>2, MarkedOne
      <4> HIDE DEF last
      <4> QED
        BY <1>5, <1>6, <4>1, <4>2, ApartServed
    <3> QED
      BY <1>2, <3>1, <3>2
  <2> HIDE DEF both, last
  <2>4. \A x \in D!Philo : both[x] = last[x]
    BY <1>5, <1>8, <2>1, <2>2
  <2>5. both = last
    BY <2>1, <2>2, <2>4
  <2> QED
    BY <2>3, <2>5 DEF both
<1> QED
  BY <1>9, <1>10, <1>11

LEMMA ServingDoneInv ==
  ASSUME DppInv, NEW p \in D!Philo, D!ServingDone(p)
  PROVE  DppInv'
<1> DEFINE q == dQueue[D!Table]
           mark == [philo EXCEPT ![p] = "done"]
           f == D!ServeIfHungry(mark, D!Left(p))
           g == D!ServeIfHungry(D!Marked(mark, f), D!Right(p))
           served == f \o g
<1>1. DppTypes /\ Apart(philo) /\ philo \in [D!Philo -> Mark] /\ \A x \in D!Philo : Known(x)
  BY DEF DppInv, DppTypes
<1>2. D!Table \in DObject
  BY DEF DObject
<1>3. q # <<>> /\ q[1] = Done(p)
  <2>1. D!Handles(D!Table, "DONE") /\ Head(q).philo = p
    BY DEF D!ServingDone
  <2> QED
    BY <1>1, <1>2, <2>1, DppHead, EventIs DEF Done
<1>4. D!Serve(mark, served, TRUE)
  BY DEF D!ServingDone
<1>5. mark \in [D!Philo -> Mark] /\ mark[p] = "done" /\ \A x \in D!Philo : x # p => mark[x] = philo[x]
  BY <1>1 DEF Mark
<1>6. Apart(mark)
  BY <1>1, ApartFewer
<1> HIDE DEF mark
<1>7. /\ Meals(served) /\ Apart(D!Marked(mark, served))
      /\ \A x \in D!Philo : (Has(served, Eat(x)) => mark[x] = "hungry") /\ Once(served, Eat(x))
  BY <1>5, <1>6, BothMeals, Neighbours
<1> HIDE DEF served
<1>8. Fed(mark, served)
  BY <1>1, <1>3, <1>4, <1>5, <1>7, ServeServed
<1>9. philo' = D!Marked(mark, served) /\ DppTypes' /\ dQueue'[D!Table] = Tail(q)
  BY <1>8 DEF Fed
<1>10. ASSUME NEW x \in D!Philo PROVE Known(x)'
  <2>1. Known(x)
    BY <1>1
  <2>2. (Has(dQueue'[D!Table], Done(x)) => Has(q, Done(x)))
        /\ (Has(dQueue'[D!Table], Hungry(x)) => Has(q, Hungry(x)))
    BY <1>1, <1>3, <1>9, TableTakes
  <2>3. CASE Has(served, Eat(x))
    <3>1. philo[x] = "hungry"
      BY <1>5, <1>7, <2>3
    <3>2. /\ dState[x] = "hungry" /\ ~Has(dQueue[x], Eat(x))
          /\ ~Has(q, Done(x)) /\ ~Has(q, Hungry(x))
      BY <2>1, <3>1 DEF Known
    <3> QED
      BY <1>3, <1>5, <1>7, <1>8, <2>2, <2>3, <3>2, ServedKnown
  <2>4. CASE ~Has(served, Eat(x))
    <3>1. Kept(x) /\ dState'[x] = dState[x] /\ philo'[x] = mark[x]
      BY <1>3, <1>5, <1>7, <1>8, <2>4, ServedKept
    <3>2. CASE x = p
      <4>1. Has(q, Done(p))
        <5>1. Has(q, q[1])
          BY <1>1, <1>3, <1>9, TableTakes
        <5> QED
          BY <1>3, <5>1
      <4>2. dState[p] # "eating" /\ ~Has(dQueue[p], Eat(p))
        BY <2>1, <3>2, <4>1 DEF Known
      <4> QED
        BY <1>5, <2>1, <3>1, <3>2, <4>2 DEF Known, Kept
    <3>3. CASE x # p
      BY <1>5, <2>1, <3>1, <3>3, KnownKept
    <3> QED
      BY <3>2, <3>3
  <2> QED
    BY <2>3, <2>4
<1>11. Apart(philo)'
  BY <1>7, <1>9 DEF Apart, D!TableCanServe
<1> QED
  BY <1>9, <1>10, <1>11 DEF DppInv

LEMMA TableTakesInv ==
  ASSUME DppInv, D!TableStopping \/ D!TableIgnores
  PROVE  DppInv'
<1> DEFINE q == dQueue[D!Table]
<1>1. DppTypes /\ Apart(philo) /\ D!Table \in DObject /\ \A x \in D!Philo : Known(x)
  BY DEF DppInv, DObject
<1>2. q # <<>> /\ dQueue' = D!Take(dQueue, D!Table) /\ UNCHANGED <<dState, philo>>
  BY DEF D!TableStopping, D!TableIgnores, D!Handles, D!Receives
<1>3. dQueue' = [b \in DObject |-> DRest(D!Table, b)]
  BY <1>1, <1>2, DppSent
<1>4. dQueue'[D!Table] = Tail(q) /\ \A x \in D!Philo : dQueue'[x] = dQueue[x]
  BY <1>1, <1>3, Neighbours DEF DRest, DObject
<1>5. DppTypes'
  <2>1. \A b \in DObject : DRest(D!Table, b) \in Seq(DEvent)
    BY <1>1, <1>2 DEF DppTypes, DRest
  <2> QED
    BY <1>1, <1>2, <1>3, <2>1 DEF DppTypes
<1>6. ASSUME NEW x \in D!Philo PROVE Known(x)'
  <2>1. Kept(x)
    BY <1>1, <1>2, <1>4, TableTakes DEF Kept
  <2> QED
    BY <1>1, <1>2, <2>1, KnownKept
<1>7. Apart(philo)'
  BY <1>1, <1>2 DEF Apart, D!TableCanServe
<1> QED
  BY <1>5, <1>6, <1>7 DEF DppInv

LEMMA DppTickPostInv ==
  ASSUME DppInv, D!TickPost
  PROVE  DppInv'
<1> DEFINE e == D!Event("TIMEOUT", None)
<1>1. DppTypes /\ Apart(philo) /\ \A x \in D!Philo : Known(x)
  BY DEF DppInv
<1>2. dQueue' = D!Send(dQueue, {dFired}, <<e>>) /\ UNCHANGED <<dState, philo>>
  BY DEF D!TickPost
<1>3. dQueue' = [b \in DObject |-> IF b \in {dFired} THEN dQueue[b] \o <<e>> ELSE dQueue[b]]
  BY <1>1, <1>2 DEF D!Send, DppTypes
<1>4. e \in DEvent /\ \A x \in D!Philo : e # Done(x) /\ e # Hungry(x) /\ e # Eat(x)
  BY DppEvents DEF D!Event, Done, Hungry, Eat
<1> HIDE DEF e
<1>5. \A b \in DObject : dQueue[b] \in Seq(DEvent)
  BY <1>1 DEF DppTypes
<1>6. \A b \in DObject : dQueue[b] \o <<e>> \in Seq(DEvent)
  BY <1>4, <1>5
<1>7. DppTypes'
  BY <1>1, <1>2, <1>3, <1>5, <1>6 DEF DppTypes
<1>8. ASSUME NEW x \in D!Philo PROVE Known(x)'
  <2> DEFINE q == dQueue[D!Table]
             t == dQueue[x]
  <2>1. q \in Seq(DEvent) /\ t \in Seq(DEvent)
    BY <1>5 DEF DObject
  <2>2. q' \in {q, q \o <<e>>} /\ t' \in {t, t \o <<e>>}
    BY <1>3 DEF DObject
  <2>3. Done(x) # Hungry(x)
    BY DppEvents
  <2> HIDE DEF q, t
  <2>4. (Has(t', Eat(x)) => Has(t, Eat(x))) /\ (Once(t, Eat(x)) => Once(t', Eat(x)))
    <3>1. CASE t' = t
      BY <3>1
    <3>2. CASE t' = t \o <<e>>
      BY <1>4, <2>1, <3>2, SendHas
    <3> QED
      BY <2>2, <3>1, <3>2
  <2>5. /\ Has(q', Done(x)) => Has(q, Done(x))
        /\ Has(q', Hungry(x)) => Has(q, Hungry(x))
        /\ Once(q, Hungry(x)) => Once(q', Hungry(x))
        /\ Before(q, Done(x), Hungry(x)) => Before(q', Done(x), Hungry(x))
    <3>1. CASE q' = q
      BY <3>1
    <3>2. CASE q' = q \o <<e>>
      BY <1>4, <2>1, <2>3, <3>2, SendHas, SendBefore
    <3> QED
      BY <2>2, <3>1, <3>2
  <2>6. Kept(x)
    BY <2>4, <2>5 DEF Kept, q, t
  <2> QED
    BY <1>1, <1>2, <2>6, KnownKept
<1>9. Apart(philo)'
  BY <1>1, <1>2 DEF Apart, D!TableCanServe
<1> QED
  BY <1>7, <1>8, <1>9 DEF DppInv

LEMMA DppNextInv == ASSUME DppInv, D!Next \/ UNCHANGED dVars PROVE DppInv'
<1>1. ASSUME NEW p \in D!Philo, D!PhiloStep(p) PROVE DppInv'
  BY <1>1, PhiloThinkingInv, PhiloHungryInv, PhiloEatingInv, PhiloTopInv DEF D!PhiloStep
<1>2. ASSUME NEW p \in D!Philo, D!ServingHungry(p) \/ D!ServingDone(p) PROVE DppInv'
  BY <1>2, ServingHungryInv, ServingDoneInv
<1>3. CASE D!TableStopping \/ D!TableIgnores
  BY <1>3, TableTakesInv
<1>4. CASE D!TickPost
  BY <1>4, DppTickPostInv
<1>5. CASE UNCHANGED <<dState, dQueue, philo>>
  BY <1>5 DEF DppInv, DppTypes, Apart, D!TableCanServe, Known
<1>6. ASSUME NEW p \in D!Philo, D!TickNext(p) \/ D!TickOf(p) PROVE DppInv'
  BY <1>5, <1>6 DEF D!TickNext, D!TickOf, D!TickStart
<1>7. CASE UNCHANGED dVars
  BY <1>5, <1>7 DEF dVars
<1> QED
  BY <1>1, <1>2, <1>3, <1>4, <1>6, <1>7
     DEF D!Next, D!TableStep, D!TickStep, D!vars, dVars

LEMMA DppInitInv == D!Init => DppInv
<1> SUFFICES ASSUME D!Init PROVE DppInv
  OBVIOUS
<1>1. /\ dState = [a \in DObject |-> D!New(a).state]
      /\ dQueue = [a \in DObject |-> <<>>]
      /\ philo = [p \in D!Philo |-> "done"]
  BY DEF D!Init, DObject
<1>2. \A a \in DObject : D!New(a).state \in {"thinking", "serving"}
  BY DEF D!New, D!NewPhilo, D!NewTable
<1>3. \A p \in D!Philo : dState[p] = "thinking" /\ philo[p] = "done"
  BY <1>1, Neighbours DEF D!New, D!NewPhilo, DObject
<1>4. \A a \in DObject : dQueue[a] = <<>>
  BY <1>1
<1>5. DppTypes
  <2>1. <<>> \in Seq(DEvent)
    OBVIOUS
  <2> QED
    BY <1>1, <1>2, <2>1 DEF DppTypes, Mark
<1>6. Apart(philo)
  BY <1>3 DEF Apart
<1>7. \A e, d : ~Has(<<>>, e) /\ Once(<<>>, e) /\ Before(<<>>, d, e)
  BY DEF Has, HasIn, Once, OneIn, Before
<1>8. ASSUME NEW p \in D!Philo PROVE Known(p)
  <2>1. dQueue[p] = <<>> /\ dQueue[D!Table] = <<>>
    BY <1>4 DEF DObject
  <2> QED
    BY <1>3, <1>7, <2>1 DEF Known
<1> QED
  BY <1>5, <1>6, <1>8 DEF DppInv

LEMMA DppForks == DppInv => D!ForksExclusive
BY Neighbours DEF DppInv, Known, Apart, D!TableCanServe, D!ForksExclusive

-----------------------------------------------------------------------------
(* smokers *)

Resource(a, n) == S!Event("RESOURCE", a, n)
Resources == {Resource(a, n) : a \in S!Smoker, n \in 0 .. IdModulus - 1}
StopSmoking == S!Signal("STOP")
Expires == S!Signal("DONE_SMOKING_TIMER")

\* The agent begins a round when it has one of these.
Smoked(s) == S!Event("DONE_SMOKING", s, 0)
Turns == {S!Signal("START")} \cup {Smoked(s) : s \in S!Smoker}

ForSmoker == Resources \cup {StopSmoking, Expires}
ForAgent == Turns \cup {S!Signal("TIMEOUT"), S!Signal("STOPPED")}

SmokersTypes ==
  /\ sState \in [S!Object -> {"proc", "stopping", "idle", "smoking"}]
  /\ sState[S!Agent] \in {"proc", "stopping"}
  /\ \A s \in S!Smoker : sState[s] # "proc"
  /\ DOMAIN sQueue = S!Object /\ sQueue[S!Agent] \in Seq(ForAgent)
  /\ \A s \in S!Smoker : sQueue[s] \in Seq(ForSmoker)
  /\ acquired \in [S!Smoker -> SUBSET S!Smoker]
  /\ idSeen \in [S!Smoker -> Nat] /\ resourceId \in 0 .. IdModulus - 1
  /\ sTimer \in [S!Object -> {"idle", "armed", "due"}]

Given(s) == HasIn(sQueue[s], Resources)
AgentsTurn == HasIn(sQueue[S!Agent], Turns)
Proc == sState[S!Agent] = "proc"

\* A smoker begins a round of another number with its own resource.
Fresh(s, n) == idSeen[s] # n \/ acquired[s] = {s}
Ready ==
  \A s \in S!Smoker : ~Given(s) /\ sState[s] # "smoking" /\ Fresh(s, resourceId)

\* s has taken none, one or both of the resources a and b of round n.
NoneAfter(q, k) == \A i \in 1 .. Len(q) : i > k => q[i] \notin Resources
BothLeft(q, a, b, n) ==
  /\ Len(q) >= 2 /\ q[1] = Resource(a, n) /\ q[2] = Resource(b, n)
  /\ NoneAfter(q, 2)
OneLeft(q, b, n) ==
  /\ Len(q) >= 1 /\ q[1] = Resource(b, n)
  /\ NoneAfter(q, 1)
GotNone(s, a, b, n) ==
  BothLeft(sQueue[s], a, b, n) /\ sState[s] = "idle" /\ Fresh(s, n)
GotOne(s, a, b, n) ==
  OneLeft(sQueue[s], b, n) /\ sState[s] = "idle" /\ idSeen[s] = n /\ acquired[s] = {s, a}
GotBoth(s, a, b, n) ==
  /\ ~Given(s)
  /\ sState[s] \in {IF s \in {a, b} THEN "idle" ELSE "smoking", "stopping"}
  /\ idSeen[s] = n /\ acquired[s] = {s, a, b}

Got(s, a, b, n) == GotNone(s, a, b, n) \/ GotOne(s, a, b, n) \/ GotBoth(s, a, b, n)

Round(a, b, n) ==
  /\ a # b /\ resourceId = (n + 1) % IdModulus
  /\ \A s \in S!Smoker : Got(s, a, b, n)
InRound == \E a, b \in S!Smoker, n \in 0 .. IdModulus - 1 : Round(a, b, n)

Phase ==
  \/ Ready /\ (Proc => AgentsTurn)
  \/ InRound /\ (Proc => ~AgentsTurn)

\* The timer of a smoker is armed, due, taken or posted, one of them at most, while it
\* smokes, and expires when every resource was taken.
Expiring(s) == sTimer[s] = "due" \/ sFired = s \/ Has(sQueue[s], Expires)
Chain(s) ==
  /\ Once(sQueue[s], Expires)
  /\ ~(Has(sQueue[s], Expires) /\ sFired = s)
  /\ sTimer[s] # "idle" => ~Has(sQueue[s], Expires) /\ sFired # s
  /\ sTimer[s] # "idle" \/ Expiring(s) => sState[s] \in {"smoking", "stopping"}
  /\ Expiring(s) => \A x \in S!Smoker : ~Given(x)

SmokersInv ==
  /\ SmokersTypes
  /\ Proc => /\ sRunning = S!Object /\ OneIn(sQueue[S!Agent], Turns)
             /\ \A s \in S!Smoker : ~Has(sQueue[s], StopSmoking) /\ sState[s] # "stopping"
  /\ Phase
  /\ \A s \in S!Smoker : Chain(s)

LEMMA SmokersFacts ==
  /\ S!Smoker = {0, 1, 2} /\ S!Agent = 3 /\ S!Agent \notin S!Smoker
  /\ S!Object = S!Smoker \cup {S!Agent} /\ None \notin S!Object
  /\ S!New(S!Agent).subscribes = {"DONE_SMOKING", "STOPPED"}
  /\ \A s \in S!Smoker : S!New(s).subscribes = {"RESOURCE", "STOP"}
<1>1. NSmokers = 3 /\ None \notin Nat
  BY AppsAssumption
<1>2. S!Smoker = {0, 1, 2} /\ S!Agent = 3
  BY <1>1 DEF S!Smoker, S!Agent
<1>3. S!Object = S!Smoker \cup {S!Agent} /\ None \notin S!Object
  BY <1>1, <1>2 DEF S!Object
<1>4. S!New(S!Agent).subscribes = {"DONE_SMOKING", "STOPPED"}
  BY DEF S!New, S!NewAgent
<1>5. \A s \in S!Smoker : S!New(s).subscribes = {"RESOURCE", "STOP"}
  BY <1>2 DEF S!New, S!NewSmoker
<1> QED
  BY <1>2, <1>3, <1>4, <1>5

LEMMA ResourceParts ==
  \A a, n : Resource(a, n).id = "RESOURCE" /\ Resource(a, n).who = a /\ Resource(a, n).n = n
BY DEF Resource, S!Event

\* What the identifier of an event says.
LEMMA SmokerEvents ==
  /\ StopSmoking \in ForSmoker \ Resources /\ StopSmoking.id = "STOP"
  /\ Expires \in ForSmoker \ Resources /\ Expires.id = "DONE_SMOKING_TIMER"
  /\ Expires # StopSmoking /\ Resources \subseteq ForSmoker
  /\ \A x \in Resources : x.id = "RESOURCE"
  /\ \A x \in ForSmoker : /\ x.id = "RESOURCE" => x \in Resources
                          /\ x.id = "STOP" => x = StopSmoking
                          /\ x.id = "DONE_SMOKING_TIMER" => x = Expires
<1>1. StopSmoking.id = "STOP" /\ Expires.id = "DONE_SMOKING_TIMER"
  BY DEF StopSmoking, Expires, S!Signal, S!Event
<1>2. \A x \in Resources : x.id = "RESOURCE"
  BY ResourceParts DEF Resources
<1> QED
  BY <1>1, <1>2 DEF ForSmoker

LEMMA AgentEvents ==
  /\ \A s \in S!Smoker : Smoked(s) \in Turns /\ Smoked(s).id = "DONE_SMOKING"
  /\ Turns \subseteq ForAgent
  /\ S!Signal("STOPPED") \in ForAgent \ Turns /\ S!Signal("STOPPED").id = "STOPPED"
  /\ S!Signal("TIMEOUT") \in ForAgent \ Turns
  /\ \A x \in ForAgent : x \in Turns <=> x.id \in {"START", "DONE_SMOKING"}
<1>1. \A s \in S!Smoker : Smoked(s) \in Turns /\ Smoked(s).id = "DONE_SMOKING"
  BY DEF Turns, Smoked, S!Event
<1>2. S!Signal("STOPPED").id = "STOPPED" /\ S!Signal("TIMEOUT").id = "TIMEOUT"
      /\ S!Signal("START").id = "START"
  BY DEF S!Signal, S!Event
<1>3. \A x \in Turns : x.id \in {"START", "DONE_SMOKING"}
  BY <1>1, <1>2 DEF Turns
<1> QED
  BY <1>1, <1>2, <1>3 DEF ForAgent

LEMMA SmokersQueues ==
  ASSUME SmokersTypes
  PROVE  /\ \A s \in S!Smoker : sQueue[s] \in Seq(ForSmoker)
         /\ sQueue[S!Agent] \in Seq(ForAgent)
BY DEF SmokersTypes

\* The event that a smoker, or the agent, handles is the one of this id.
LEMMA SmokerHead ==
  ASSUME SmokersTypes, NEW s \in S!Smoker, NEW id, S!Handles(s, id)
  PROVE  /\ s \in sRunning /\ sQueue[s] # <<>> /\ Head(sQueue[s]) = sQueue[s][1]
         /\ sQueue[s][1].id = id /\ sQueue[s][1] \in ForSmoker
<1>1. s \in sRunning /\ sQueue[s] # <<>> /\ Head(sQueue[s]).id = id
  BY DEF S!Handles, S!Receives
<1> QED
  BY <1>1, SmokersQueues, TailHasIn

LEMMA AgentHead ==
  ASSUME SmokersTypes, NEW id, S!Handles(S!Agent, id)
  PROVE  /\ sQueue[S!Agent] # <<>>
         /\ sQueue[S!Agent][1].id = id /\ sQueue[S!Agent][1] \in ForAgent
<1>1. sQueue[S!Agent] # <<>> /\ Head(sQueue[S!Agent]).id = id
  BY DEF S!Handles, S!Receives
<1> QED
  BY <1>1, SmokersQueues, TailHasIn

\* What is left of the queues when a has taken its event.
Left(a, b) == IF b = a THEN Tail(sQueue[b]) ELSE sQueue[b]

LEMMA SmokersTaken ==
  ASSUME SmokersTypes, NEW a \in S!Object, sQueue' = S!Take(sQueue, a)
  PROVE  /\ DOMAIN sQueue' = S!Object
         /\ \A b \in S!Object : sQueue'[b] = Left(a, b)
BY DEF SmokersTypes, S!Take, Left

LEMMA SmokersSent ==
  ASSUME SmokersTypes, NEW a \in S!Object, NEW to, NEW es,
         sQueue' = S!Send(S!Take(sQueue, a), to, es)
  PROVE  /\ DOMAIN sQueue' = S!Object
         /\ \A b \in S!Object :
              sQueue'[b] = IF b \in to THEN Left(a, b) \o es ELSE Left(a, b)
<1>1. DOMAIN sQueue = S!Object
  BY DEF SmokersTypes
<1>2. DOMAIN S!Take(sQueue, a) = S!Object
  BY <1>1 DEF S!Take
<1>3. \A b \in S!Object : S!Take(sQueue, a)[b] = Left(a, b)
  BY <1>1 DEF S!Take, Left
<1> QED
  BY <1>2, <1>3 DEF S!Send

\* An event that a smoker publishes reaches the agent, if it runs.
LEMMA SmokerPublishes ==
  ASSUME SmokersTypes, NEW s \in S!Smoker, NEW e, e.id \in {"DONE_SMOKING", "STOPPED"},
         S!Publish(s, <<e>>)
  PROVE  /\ DOMAIN sQueue' = S!Object
         /\ sQueue'[s] = Tail(sQueue[s])
         /\ \A x \in S!Smoker : x # s => sQueue'[x] = sQueue[x]
         /\ sQueue'[S!Agent] = IF S!Agent \in sRunning THEN sQueue[S!Agent] \o <<e>>
                                                       ELSE sQueue[S!Agent]
<1> DEFINE to == {b \in sRunning : Head(<<e>>).id \in S!New(b).subscribes}
<1>1. sQueue' = S!Send(S!Take(sQueue, s), to, <<e>>)
  BY DEF S!Publish
<1>2. Head(<<e>>) = e
  OBVIOUS
<1>3. S!Agent \in to <=> S!Agent \in sRunning
  BY <1>2, SmokersFacts
<1>4. \A x \in S!Smoker : x \notin to
  BY <1>2, SmokersFacts
<1> HIDE DEF to
<1>5. s \in S!Object /\ S!Agent \in S!Object /\ s # S!Agent
  BY SmokersFacts
<1>6. /\ DOMAIN sQueue' = S!Object
      /\ \A b \in S!Object :
              sQueue'[b] = IF b \in to THEN Left(s, b) \o <<e>> ELSE Left(s, b)
  BY <1>1, <1>5, SmokersSent
<1> QED
  BY <1>3, <1>4, <1>5, <1>6, SmokersFacts DEF Left

\* Events that the agent publishes reach the smokers that run.
LEMMA AgentPublishes ==
  ASSUME SmokersTypes, NEW es, Head(es).id \in {"RESOURCE", "STOP"}, S!Publish(S!Agent, es)
  PROVE  /\ DOMAIN sQueue' = S!Object
         /\ sQueue'[S!Agent] = Tail(sQueue[S!Agent])
         /\ \A s \in S!Smoker :
              sQueue'[s] = IF s \in sRunning THEN sQueue[s] \o es ELSE sQueue[s]
<1> DEFINE to == {b \in sRunning : Head(es).id \in S!New(b).subscribes}
<1>1. sQueue' = S!Send(S!Take(sQueue, S!Agent), to, es)
  BY DEF S!Publish
<1>2. S!Agent \notin to
  BY SmokersFacts
<1>3. \A s \in S!Smoker : s \in to <=> s \in sRunning
  BY SmokersFacts
<1> HIDE DEF to
<1>4. S!Agent \in S!Object
  BY SmokersFacts
<1>5. /\ DOMAIN sQueue' = S!Object
      /\ \A b \in S!Object :
              sQueue'[b] = IF b \in to THEN Left(S!Agent, b) \o es ELSE Left(S!Agent, b)
  BY <1>1, <1>4, SmokersSent
<1> QED
  BY <1>2, <1>3, <1>4, <1>5, SmokersFacts DEF Left

LEMMA PairOf == ASSUME NEW x, NEW y PROVE <<x>> \o <<y>> = <<x, y>>
<1> DEFINE c == <<x>> \o <<y>>
           T == {x, y}
<1>1. <<x>> \in Seq(T) /\ <<y>> \in Seq(T) /\ <<x, y>> \in Seq(T)
  OBVIOUS
<1>2. /\ c \in Seq(T) /\ Len(c) = 2 /\ c[1] = x /\ c[2] = y
  BY <1>1
<1> HIDE DEF c
<1>3. c = <<x, y>>
  BY <1>1, <1>2, SeqEqual
<1> QED
  BY <1>3 DEF c

\* The agent puts down two resources and keeps the third.
LEMMA PutDown ==
  ASSUME NEW missing \in S!Smoker
  PROVE  \E a, b \in S!Smoker :
           /\ a # b
           /\ S!Resources(missing) = <<Resource(a, resourceId), Resource(b, resourceId)>>
<1> DEFINE both == S!Smoker \ {missing}
           first == CHOOSE x \in both : \A y \in both : x <= y
           other == CHOOSE x \in both : x # first
<1>1. \E x \in both : \A y \in both : x <= y
  BY SmokersFacts
<1>2. first \in both
  BY <1>1
<1>3. \E x \in both : x # first
  BY <1>2, SmokersFacts
<1>4. other \in both /\ other # first
  BY <1>3
<1>5. S!Resources(missing) = <<Resource(first, resourceId)>> \o <<Resource(other, resourceId)>>
  BY DEF S!Resources, Resource
<1> HIDE DEF first, other
<1>6. S!Resources(missing) = <<Resource(first, resourceId), Resource(other, resourceId)>>
  BY <1>5, PairOf
<1> QED
  BY <1>2, <1>4, <1>6

(* What is left of a round in a smoker's queue. *)

LEMMA LeftTail ==
  ASSUME NEW q \in Seq(ForSmoker), q # <<>>, NEW a, NEW b, NEW n
  PROVE  /\ BothLeft(q, a, b, n) => q[1] = Resource(a, n) /\ OneLeft(Tail(q), b, n)
         /\ OneLeft(q, b, n) => q[1] = Resource(b, n) /\ ~HasIn(Tail(q), Resources)
<1> DEFINE t == Tail(q)
           m == Len(q)
<1>1. /\ t = Tail(q) /\ Len(t) = m - 1 /\ m \in Nat /\ m > 0 /\ m = Len(q)
      /\ \A i \in 1 .. m - 1 : t[i] = q[i + 1] /\ i + 1 \in 1 .. m
  OBVIOUS
<1> HIDE DEF t, m
<1>2. ASSUME BothLeft(q, a, b, n) PROVE OneLeft(t, b, n)
  <2>1. m >= 2 /\ q[2] = Resource(b, n) /\ NoneAfter(q, 2)
    BY <1>1, <1>2 DEF BothLeft
  <2>2. Len(t) >= 1 /\ t[1] = Resource(b, n)
    BY <1>1, <2>1
  <2>3. ASSUME NEW i \in 1 .. m - 1, i > 1 PROVE t[i] \notin Resources
    <3>1. t[i] = q[i + 1] /\ i + 1 \in 1 .. Len(q) /\ i + 1 > 2
      BY <1>1, <2>3
    <3> QED
      BY <3>1, <2>1 DEF NoneAfter
  <2> QED
    BY <1>1, <2>2, <2>3 DEF OneLeft, NoneAfter
<1>3. ASSUME OneLeft(q, b, n) PROVE ~HasIn(t, Resources)
  <2> SUFFICES ASSUME NEW i \in 1 .. m - 1, t[i] \in Resources PROVE FALSE
    BY <1>1 DEF HasIn
  <2>1. t[i] = q[i + 1] /\ i + 1 \in 1 .. Len(q) /\ i + 1 > 1
    BY <1>1
  <2> QED
    BY <2>1, <1>3 DEF OneLeft, NoneAfter
<1> QED
  BY <1>1, <1>2, <1>3 DEF BothLeft, OneLeft

LEMMA LeftSend ==
  ASSUME NEW q \in Seq(ForSmoker), NEW x \in ForSmoker \ Resources, NEW a, NEW b, NEW n
  PROVE  /\ q \o <<x>> \in Seq(ForSmoker)
         /\ HasIn(q \o <<x>>, Resources) <=> HasIn(q, Resources)
         /\ BothLeft(q, a, b, n) => BothLeft(q \o <<x>>, a, b, n)
         /\ OneLeft(q, b, n) => OneLeft(q \o <<x>>, b, n)
<1> DEFINE c == q \o <<x>>
           m == Len(q)
<1>1. /\ c \in Seq(ForSmoker) /\ Len(c) = m + 1 /\ m \in Nat /\ m = Len(q)
      /\ \A i \in 1 .. m : c[i] = q[i]
      /\ c[m + 1] = x /\ c = q \o <<x>>
  OBVIOUS
<1> HIDE DEF c, m
<1>2. \A i \in 1 .. m + 1 : (i \in 1 .. m /\ c[i] = q[i]) \/ c[i] \notin Resources
  BY <1>1
<1>3. HasIn(c, Resources) <=> HasIn(q, Resources)
  <2>1. HasIn(c, Resources) => HasIn(q, Resources)
    BY <1>1, <1>2 DEF HasIn
  <2>2. HasIn(q, Resources) => HasIn(c, Resources)
    <3> SUFFICES ASSUME NEW i \in 1 .. m, q[i] \in Resources PROVE HasIn(c, Resources)
      BY <1>1 DEF HasIn
    <3>1. i \in 1 .. m + 1 /\ c[i] \in Resources
      BY <1>1
    <3> QED
      BY <3>1, <1>1 DEF HasIn
  <2> QED
    BY <2>1, <2>2
<1>4. ASSUME NEW k, NoneAfter(q, k) PROVE NoneAfter(c, k)
  BY <1>1, <1>2, <1>4 DEF NoneAfter
<1>5. BothLeft(q, a, b, n) => BothLeft(c, a, b, n)
  BY <1>1, <1>4 DEF BothLeft
<1>6. OneLeft(q, b, n) => OneLeft(c, b, n)
  BY <1>1, <1>4 DEF OneLeft
<1> QED
  BY <1>1, <1>3, <1>5, <1>6

LEMMA LeftGiven ==
  ASSUME NEW q, NEW a \in S!Smoker, NEW b \in S!Smoker, NEW n \in 0 .. IdModulus - 1
  PROVE  /\ BothLeft(q, a, b, n) => HasIn(q, Resources) /\ q[1] = Resource(a, n)
         /\ OneLeft(q, b, n) => HasIn(q, Resources) /\ q[1] = Resource(b, n)
<1>1. Resource(a, n) \in Resources /\ Resource(b, n) \in Resources
  BY DEF Resources
<1>2. BothLeft(q, a, b, n) \/ OneLeft(q, b, n) => 1 \in 1 .. Len(q)
  BY DEF BothLeft, OneLeft
<1> QED
  BY <1>1, <1>2 DEF BothLeft, OneLeft, HasIn

\* Two resources in an empty queue.
LEMMA LeftPair ==
  ASSUME NEW a \in S!Smoker, NEW b \in S!Smoker, NEW n \in 0 .. IdModulus - 1
  PROVE  LET es == <<Resource(a, n), Resource(b, n)>>
         IN  es \in Seq(ForSmoker) /\ BothLeft(es, a, b, n) /\ ~Has(es, Expires)
<1> DEFINE es == <<Resource(a, n), Resource(b, n)>>
<1>1. Resource(a, n) \in Resources /\ Resource(b, n) \in Resources
  BY DEF Resources
<1>2. Resource(a, n) \in ForSmoker /\ Resource(b, n) \in ForSmoker
  BY <1>1, SmokerEvents
<1>3. es \in Seq(ForSmoker) /\ Len(es) = 2 /\ es[1] = Resource(a, n) /\ es[2] = Resource(b, n)
  BY <1>2
<1>4. Resource(a, n) # Expires /\ Resource(b, n) # Expires
  BY <1>1, SmokerEvents
<1> HIDE DEF es
<1>5. BothLeft(es, a, b, n)
  BY <1>3 DEF BothLeft, NoneAfter
<1>6. ~Has(es, Expires)
  BY <1>3, <1>4 DEF Has, HasIn
<1> QED
  BY <1>3, <1>5, <1>6 DEF es

LEMMA NothingLeft ==
  ASSUME NEW q \in Seq(ForSmoker), ~HasIn(q, Resources), ~Has(q, StopSmoking), ~Has(q, Expires)
  PROVE  q = <<>>
<1> SUFFICES ASSUME q # <<>> PROVE FALSE
  OBVIOUS
<1>1. q[1] \in ForSmoker /\ 1 \in 1 .. Len(q)
  <2>1. Len(q) \in Nat /\ Len(q) > 0
    OBVIOUS
  <2> QED
    BY <2>1
<1> QED
  BY <1>1 DEF ForSmoker, Has, HasIn

\* The numbers of successive rounds differ.
LEMMA NextNumber ==
  ASSUME NEW n \in 0 .. IdModulus - 1
  PROVE  (n + 1) % IdModulus \in 0 .. IdModulus - 1 /\ (n + 1) % IdModulus # n
<1>1. IdModulus \in Nat /\ IdModulus > 1
  BY AppsAssumption
<1>2. CASE n + 1 < IdModulus
  <2>1. (n + 1) % IdModulus = n + 1
    BY <1>1, <1>2
  <2> QED
    BY <2>1, <1>1, <1>2
<1>3. CASE n + 1 = IdModulus
  <2>1. (n + 1) % IdModulus = 0
    BY <1>1, <1>3
  <2> QED
    BY <2>1, <1>1, <1>3
<1> QED
  BY <1>1, <1>2, <1>3

(* What a step leaves as it is. *)

RoundNumbers == 0 .. IdModulus - 1

SameOrSent(x, e) == sQueue'[x] = sQueue[x] \/ sQueue'[x] = sQueue[x] \o <<e>>

LEMMA GotKept ==
  ASSUME SmokersTypes, NEW x \in S!Smoker, NEW e \in ForSmoker \ Resources, SameOrSent(x, e),
         sState'[x] = sState[x], idSeen'[x] = idSeen[x], acquired'[x] = acquired[x]
  PROVE  /\ sQueue'[x] \in Seq(ForSmoker) /\ (Given(x)' <=> Given(x))
         /\ \A a, b \in S!Smoker, n \in RoundNumbers : Got(x, a, b, n) => Got(x, a, b, n)'
<1>1. sQueue[x] \in Seq(ForSmoker)
  BY SmokersQueues
<1>2. CASE sQueue'[x] = sQueue[x]
  BY <1>1, <1>2 DEF Given, Got, GotNone, GotOne, GotBoth, Fresh
<1>3. CASE sQueue'[x] = sQueue[x] \o <<e>>
  <2>1. sQueue'[x] \in Seq(ForSmoker) /\ (Given(x)' <=> Given(x))
    <3>1. /\ sQueue[x] \o <<e>> \in Seq(ForSmoker)
          /\ HasIn(sQueue[x] \o <<e>>, Resources) <=> HasIn(sQueue[x], Resources)
      BY <1>1, LeftSend
    <3> QED
      BY <1>3, <3>1 DEF Given
  <2> SUFFICES ASSUME NEW a \in S!Smoker, NEW b \in S!Smoker, NEW n \in RoundNumbers,
                      Got(x, a, b, n)
               PROVE  Got(x, a, b, n)'
    BY <2>1
  <2>2. /\ BothLeft(sQueue[x], a, b, n) => BothLeft(sQueue'[x], a, b, n)
        /\ OneLeft(sQueue[x], b, n) => OneLeft(sQueue'[x], b, n)
    BY <1>1, <1>3, LeftSend
  <2> QED
    BY <2>1, <2>2 DEF Got, GotNone, GotOne, GotBoth, Fresh
<1> QED
  BY <1>2, <1>3 DEF SameOrSent

LEMMA PhaseKept ==
  ASSUME resourceId' = resourceId,
         \A x \in S!Smoker :
           /\ Given(x)' => Given(x)
           /\ sState'[x] = "smoking" => sState[x] = "smoking"
           /\ idSeen'[x] = idSeen[x] /\ acquired'[x] = acquired[x]
           /\ \A a, b \in S!Smoker, n \in RoundNumbers : Got(x, a, b, n) => Got(x, a, b, n)'
  PROVE  (Ready => Ready') /\ (InRound => InRound')
<1>1. Ready => Ready'
  BY DEF Ready, Fresh
<1>2. ASSUME NEW a \in S!Smoker, NEW b \in S!Smoker, NEW n \in RoundNumbers, Round(a, b, n)
      PROVE  Round(a, b, n)'
  BY <1>2 DEF Round
<1> QED
  BY <1>1, <1>2 DEF InRound, RoundNumbers

LEMMA PhaseStays ==
  ASSUME Phase, UNCHANGED <<sState, sQueue, acquired, idSeen, resourceId>>
  PROVE  Phase'
<1>1. (Proc' <=> Proc) /\ (AgentsTurn' <=> AgentsTurn) /\ resourceId' = resourceId
  BY DEF Proc, AgentsTurn
<1>2. \A x \in S!Smoker : Given(x)' <=> Given(x)
  BY DEF Given
<1>3. \A x, a, b \in S!Smoker, n \in RoundNumbers : Got(x, a, b, n) => Got(x, a, b, n)'
  BY DEF Got, GotNone, GotOne, GotBoth, Given, Fresh
<1>4. (Ready => Ready') /\ (InRound => InRound')
  BY <1>1, <1>2, <1>3, PhaseKept
<1> QED
  BY <1>1, <1>4 DEF Phase

LEMMA ChainKept ==
  ASSUME SmokersTypes, NEW x \in S!Smoker, Chain(x),
         NEW e \in ForSmoker \ {Expires}, SameOrSent(x, e), sState'[x] = sState[x],
         sTimer'[x] = sTimer[x], sFired' = sFired,
         \A y \in S!Smoker : Given(y)' => Given(y)
  PROVE  Chain(x)'
<1>1. sQueue[x] \in Seq(ForSmoker)
  BY SmokersQueues
<1>2. /\ Has(sQueue'[x], Expires) <=> Has(sQueue[x], Expires)
      /\ Once(sQueue[x], Expires) => Once(sQueue'[x], Expires)
  <2>1. CASE sQueue'[x] = sQueue[x]
    BY <2>1
  <2>2. CASE sQueue'[x] = sQueue[x] \o <<e>>
    BY <1>1, <2>2, SendHas
  <2> QED
    BY <2>1, <2>2 DEF SameOrSent
<1> QED
  BY <1>2 DEF Chain, Expiring

\* A smoker smokes only when it has taken both resources, and does so alone.
LEMMA OneSmoker ==
  ASSUME NEW a \in S!Smoker, NEW b \in S!Smoker, NEW n \in RoundNumbers, Round(a, b, n),
         NEW s \in S!Smoker, sState[s] = "smoking"
  PROVE  /\ GotBoth(s, a, b, n) /\ S!Smoker = {s, a, b}
         /\ \A x \in S!Smoker : sState[x] = "smoking" => x = s
<1>1. \A x \in S!Smoker : sState[x] = "smoking" => GotBoth(x, a, b, n) /\ x \notin {a, b}
  BY DEF Round, Got, GotNone, GotOne, GotBoth
<1>2. a # b
  BY DEF Round
<1> QED
  BY <1>1, <1>2, SmokersFacts

LEMMA SmokersInitInv == S!Init => SmokersInv
<1> SUFFICES ASSUME S!Init PROVE SmokersInv
  OBVIOUS
<1>1. S!Signal("START") \in Turns /\ S!Signal("START") \in ForAgent
  BY DEF Turns, ForAgent
<1>2. /\ DOMAIN sQueue = S!Object /\ sQueue[S!Agent] = <<S!Signal("START")>>
      /\ \A s \in S!Smoker : sQueue[s] = <<>>
      /\ sRunning = S!Object /\ sState[S!Agent] = "proc" /\ resourceId = 0
      /\ \A s \in S!Smoker : sState[s] = "idle" /\ sTimer[s] = "idle" /\ acquired[s] = {s}
      /\ sFired = None
  BY SmokersFacts DEF S!Init, S!New, S!NewAgent, S!NewSmoker
<1>3. SmokersTypes
  <2>1. sQueue[S!Agent] \in Seq(ForAgent) /\ \A s \in S!Smoker : sQueue[s] \in Seq(ForSmoker)
    <3>1. <<>> \in Seq(ForSmoker) /\ <<S!Signal("START")>> \in Seq(ForAgent)
      BY <1>1
    <3> QED
      BY <1>2, <3>1
  <2>2. /\ sState \in [S!Object -> {"proc", "stopping", "idle", "smoking"}]
        /\ sTimer \in [S!Object -> {"idle", "armed", "due"}]
    BY SmokersFacts DEF S!Init, S!New, S!NewAgent, S!NewSmoker
  <2>3. acquired \in [S!Smoker -> SUBSET S!Smoker] /\ idSeen \in [S!Smoker -> Nat]
    BY DEF S!Init
  <2>4. resourceId \in 0 .. IdModulus - 1
    BY <1>2, AppsAssumption
  <2> QED
    BY <1>2, <2>1, <2>2, <2>3, <2>4 DEF SmokersTypes
<1>4. OneIn(sQueue[S!Agent], Turns) /\ AgentsTurn
  BY <1>1, <1>2 DEF OneIn, AgentsTurn, HasIn
<1>5. \A s \in S!Smoker : /\ ~Given(s) /\ ~Has(sQueue[s], StopSmoking)
                          /\ ~Has(sQueue[s], Expires) /\ Once(sQueue[s], Expires)
  BY <1>2 DEF Given, HasIn, Has, Once, OneIn
<1>6. \A s \in S!Smoker : Chain(s)
  BY <1>2, <1>5, SmokersFacts DEF Chain, Expiring
<1>7. Phase
  BY <1>2, <1>4, <1>5 DEF Phase, Ready, Fresh
<1> QED
  BY <1>2, <1>3, <1>4, <1>5, <1>6, <1>7 DEF SmokersInv

\* The agent's queue after an event was sent to it.
LEMMA AgentSent ==
  ASSUME SmokersTypes, NEW e \in ForAgent, SameOrSent(S!Agent, e)
  PROVE  /\ sQueue'[S!Agent] \in Seq(ForAgent)
         /\ AgentsTurn => AgentsTurn'
         /\ e \notin Turns => (AgentsTurn' => AgentsTurn)
         /\ OneIn(sQueue[S!Agent], Turns) /\ (e \in Turns => ~AgentsTurn) =>
              OneIn(sQueue'[S!Agent], Turns)
         /\ e \in Turns /\ sQueue'[S!Agent] = sQueue[S!Agent] \o <<e>> => AgentsTurn'
<1> DEFINE q == sQueue[S!Agent]
           s == <<e>>
<1>1. q \in Seq(ForAgent) /\ s \in Seq(ForAgent)
  BY SmokersQueues
<1>2. (HasIn(s, Turns) <=> e \in Turns) /\ OneIn(s, Turns)
  <2>1. Len(s) = 1 /\ s[1] = e
    OBVIOUS
  <2> HIDE DEF s
  <2> QED
    BY <2>1 DEF HasIn, OneIn
<1> HIDE DEF q, s
<1>3. /\ q \o s \in Seq(ForAgent)
      /\ HasIn(q \o s, Turns) <=> HasIn(q, Turns) \/ HasIn(s, Turns)
      /\ OneIn(q, Turns) /\ OneIn(s, Turns) /\ ~(HasIn(q, Turns) /\ HasIn(s, Turns)) =>
           OneIn(q \o s, Turns)
  BY <1>1, ConcatHasIn
<1>4. CASE sQueue'[S!Agent] = q
  BY <1>1, <1>4 DEF AgentsTurn, q
<1>5. CASE sQueue'[S!Agent] = q \o s
  BY <1>2, <1>3, <1>5 DEF AgentsTurn, q
<1>6. (sQueue'[S!Agent] = q \/ sQueue'[S!Agent] = q \o s)
      /\ (sQueue'[S!Agent] = sQueue[S!Agent] \o <<e>> <=> sQueue'[S!Agent] = q \o s)
  BY DEF SameOrSent, q, s
<1>7. CASE sQueue'[S!Agent] = q \o s
  BY <1>2, <1>3, <1>5, <1>7
<1>8. CASE sQueue'[S!Agent] = q /\ sQueue'[S!Agent] # q \o s
  BY <1>4, <1>6, <1>8
<1> QED
  BY <1>6, <1>7, <1>8

\* A smoker takes a resource.
LEMMA SmokerIdleInv == ASSUME SmokersInv, NEW s \in S!Smoker, S!SmokerIdle(s) PROVE SmokersInv'
<1> DEFINE t == sQueue[s]
<1>1. /\ SmokersTypes /\ Phase /\ \A x \in S!Smoker : Chain(x)
      /\ Proc => /\ sRunning = S!Object /\ OneIn(sQueue[S!Agent], Turns)
                 /\ \A x \in S!Smoker : ~Has(sQueue[x], StopSmoking) /\ sState[x] # "stopping"
  BY DEF SmokersInv
<1>2. /\ S!Handles(s, "RESOURCE") /\ sState[s] = "idle"
      /\ acquired' = [acquired EXCEPT ![s] = S!Acquired(s)]
      /\ idSeen' = [idSeen EXCEPT ![s] = Head(t).n]
      /\ sQueue' = S!Take(sQueue, s)
      /\ UNCHANGED <<sRunning, resourceId, sStops, sFired>>
      /\ IF S!Acquired(s) = S!Smoker
           THEN /\ sState' = [sState EXCEPT ![s] = "smoking"]
                /\ sTimer' = [sTimer EXCEPT ![s] = "armed"]
           ELSE UNCHANGED <<sState, sTimer>>
  BY DEF S!SmokerIdle
<1>3. /\ t # <<>> /\ Head(t) = t[1] /\ t[1] \in Resources /\ t \in Seq(ForSmoker)
  BY <1>1, <1>2, SmokerHead, SmokerEvents, SmokersQueues
<1>4. Given(s)
  BY <1>3, TailHasIn DEF Given
<1>5. PICK a \in S!Smoker, b \in S!Smoker, n \in RoundNumbers : Round(a, b, n)
  BY <1>1, <1>4 DEF Phase, Ready, InRound, RoundNumbers
<1>6. GotNone(s, a, b, n) \/ GotOne(s, a, b, n)
  BY <1>4, <1>5 DEF Round, Got, GotBoth
<1>7. /\ DOMAIN sQueue' = S!Object /\ sQueue'[s] = Tail(t)
      /\ \A x \in S!Object : x # s => sQueue'[x] = sQueue[x]
  BY <1>1, <1>2, SmokersTaken, SmokersFacts DEF Left
<1>8. sQueue'[s] \in Seq(ForSmoker) /\ (Given(s)' => Given(s))
      /\ (Has(sQueue'[s], Expires) => Has(t, Expires))
      /\ (Has(sQueue'[s], StopSmoking) => Has(t, StopSmoking))
      /\ (Once(t, Expires) => Once(sQueue'[s], Expires))
  BY <1>3, <1>7, TailHasIn, TailHas DEF Given
<1>9. /\ acquired \in [S!Smoker -> SUBSET S!Smoker] /\ idSeen \in [S!Smoker -> Nat]
      /\ sState \in [S!Object -> {"proc", "stopping", "idle", "smoking"}]
      /\ sTimer \in [S!Object -> {"idle", "armed", "due"}]
      /\ s \in S!Object /\ s # S!Agent /\ S!Agent \in S!Object
  BY <1>1, SmokersFacts DEF SmokersTypes
<1>10. /\ acquired'[s] = S!Acquired(s) /\ idSeen'[s] = t[1].n
       /\ \A x \in S!Smoker : x # s => acquired'[x] = acquired[x] /\ idSeen'[x] = idSeen[x]
       /\ \A x \in S!Object : x # s => sState'[x] = sState[x] /\ sTimer'[x] = sTimer[x]
  BY <1>2, <1>3, <1>9
<1>11. S!Acquired(s) = (IF t[1].n # idSeen[s] THEN {s} ELSE acquired[s]) \cup {t[1].who}
  BY <1>3 DEF S!Acquired
<1>12. /\ Got(s, a, b, n)' /\ sState'[s] \in {"idle", "smoking"} /\ sTimer'[s] \in {sTimer[s], "armed"}
       /\ sTimer'[s] # sTimer[s] => sState'[s] = "smoking"
       /\ acquired'[s] \subseteq S!Smoker /\ idSeen'[s] = n
  <2>1. CASE GotNone(s, a, b, n)
    <3>1. BothLeft(t, a, b, n) /\ Fresh(s, n)
      BY <2>1 DEF GotNone
    <3>2. t[1] = Resource(a, n) /\ OneLeft(sQueue'[s], b, n)
      BY <1>3, <1>7, <3>1, LeftTail
    <3>3. t[1].who = a /\ t[1].n = n
      BY <3>2, ResourceParts
    <3>4. acquired'[s] = {s, a} /\ idSeen'[s] = n
      BY <1>10, <1>11, <3>1, <3>3 DEF Fresh
    <3>5. S!Acquired(s) # S!Smoker
      BY <1>10, <3>4, SmokersFacts
    <3>6. sState'[s] = "idle" /\ sTimer'[s] = sTimer[s]
      BY <1>2, <3>5
    <3> QED
      BY <3>2, <3>4, <3>6 DEF Got, GotOne
  <2>2. CASE GotOne(s, a, b, n)
    <3>1. OneLeft(t, b, n) /\ idSeen[s] = n /\ acquired[s] = {s, a}
      BY <2>2 DEF GotOne
    <3>2. t[1] = Resource(b, n) /\ ~HasIn(sQueue'[s], Resources)
      BY <1>3, <1>7, <3>1, LeftTail
    <3>3. t[1].who = b /\ t[1].n = n
      BY <3>2, ResourceParts
    <3>4. acquired'[s] = {s, a, b} /\ idSeen'[s] = n
      BY <1>10, <1>11, <3>1, <3>3
    <3>5. a # b
      BY <1>5 DEF Round
    <3>6. S!Acquired(s) = S!Smoker <=> s \notin {a, b}
      BY <1>10, <3>4, <3>5, SmokersFacts
    <3>7. /\ s \in {a, b} => sState'[s] = "idle" /\ sTimer'[s] = sTimer[s]
          /\ s \notin {a, b} => sState'[s] = "smoking" /\ sTimer'[s] = "armed"
      BY <1>2, <1>9, <3>6
    <3> QED
      BY <3>2, <3>4, <3>7 DEF Got, GotBoth, Given
  <2> QED
    BY <1>6, <2>1, <2>2
<1> HIDE DEF t
<1>13. SmokersTypes'
  <2>1. /\ acquired' \in [S!Smoker -> SUBSET S!Smoker] /\ idSeen' \in [S!Smoker -> Nat]
    <3>1. n \in Nat
      BY AppsAssumption DEF RoundNumbers
    <3>2. S!Acquired(s) \subseteq S!Smoker /\ Head(t).n = n
      BY <1>3, <1>10, <1>12
    <3> QED
      BY <1>2, <1>9, <3>1, <3>2 DEF t
  <2>2. /\ sState' \in [S!Object -> {"proc", "stopping", "idle", "smoking"}]
        /\ sTimer' \in [S!Object -> {"idle", "armed", "due"}]
    BY <1>2, <1>9
  <2>3. /\ sState'[S!Agent] \in {"proc", "stopping"}
        /\ \A x \in S!Smoker : sState'[x] # "proc"
    BY <1>1, <1>9, <1>10, <1>12, SmokersFacts DEF SmokersTypes
  <2>4. sQueue'[S!Agent] \in Seq(ForAgent) /\ \A x \in S!Smoker : sQueue'[x] \in Seq(ForSmoker)
    BY <1>1, <1>7, <1>8, <1>9, SmokersQueues, SmokersFacts
  <2> QED
    BY <1>1, <1>2, <1>7, <2>1, <2>2, <2>3, <2>4 DEF SmokersTypes
<1>14. sQueue'[S!Agent] = sQueue[S!Agent] /\ (AgentsTurn' <=> AgentsTurn) /\ (Proc' <=> Proc)
  BY <1>7, <1>9, <1>10 DEF AgentsTurn, Proc
<1>15. \A x \in S!Smoker : Given(x)' => Given(x)
  BY <1>7, <1>8, SmokersFacts DEF Given
<1>16. Phase'
  <2>1. \A x \in S!Smoker : Got(x, a, b, n)'
    <3> SUFFICES ASSUME NEW x \in S!Smoker, x # s PROVE Got(x, a, b, n)'
      BY <1>12
    <3>1. sQueue'[x] = sQueue[x] /\ Got(x, a, b, n)
      BY <1>5, <1>7, SmokersFacts DEF Round
    <3>2. sState'[x] = sState[x]
      BY <1>10, SmokersFacts
    <3> QED
      BY <1>10, <3>1, <3>2 DEF Got, GotNone, GotOne, GotBoth, Given, Fresh
  <2>2. Round(a, b, n)'
    BY <1>2, <1>5, <2>1 DEF Round
  <2>3. Proc => ~AgentsTurn
    BY <1>1, <1>4 DEF Phase, Ready
  <2> QED
    BY <1>14, <2>2, <2>3 DEF Phase, InRound, RoundNumbers
<1>17. ASSUME NEW x \in S!Smoker PROVE Chain(x)'
  <2>1. Chain(x) /\ ~Expiring(x)
    BY <1>1, <1>4 DEF Chain
  <2>2. CASE x = s
    <3>1. sTimer[s] = "idle" /\ sFired # s /\ ~Has(sQueue[s], Expires)
      BY <1>2, <1>9, <2>1, <2>2 DEF Chain, Expiring
    <3> QED
      BY <1>2, <1>8, <1>12, <2>1, <2>2, <3>1 DEF Chain, Expiring, t
  <2>3. CASE x # s
    <3>1. sQueue'[x] = sQueue[x] /\ sState'[x] = sState[x] /\ sTimer'[x] = sTimer[x]
      BY <1>7, <1>10, <2>3, SmokersFacts
    <3> QED
      BY <1>2, <2>1, <3>1 DEF Chain, Expiring
  <2> QED
    BY <2>2, <2>3
<1>18. ASSUME Proc'
       PROVE  /\ sRunning' = S!Object /\ OneIn(sQueue'[S!Agent], Turns)
              /\ \A x \in S!Smoker : ~Has(sQueue'[x], StopSmoking) /\ sState'[x] # "stopping"
  <2>1. \A x \in S!Smoker : Has(sQueue'[x], StopSmoking) => Has(sQueue[x], StopSmoking)
    BY <1>7, <1>8, SmokersFacts DEF t
  <2>2. \A x \in S!Smoker : sState'[x] = "stopping" => sState[x] = "stopping"
    BY <1>10, <1>12, SmokersFacts
  <2> QED
    BY <1>1, <1>2, <1>14, <1>18, <2>1, <2>2
<1> QED
  BY <1>13, <1>16, <1>17, <1>18 DEF SmokersInv

\* A smoker has smoked.
LEMMA SmokerSmokingInv ==
  ASSUME SmokersInv, NEW s \in S!Smoker, S!SmokerSmoking(s) PROVE SmokersInv'
<1> DEFINE t == sQueue[s]
           e == Smoked(s)
<1>1. /\ SmokersTypes /\ Phase /\ \A x \in S!Smoker : Chain(x)
      /\ Proc => /\ sRunning = S!Object /\ OneIn(sQueue[S!Agent], Turns)
                 /\ \A x \in S!Smoker : ~Has(sQueue[x], StopSmoking) /\ sState[x] # "stopping"
  BY DEF SmokersInv
<1>2. /\ S!Handles(s, "DONE_SMOKING_TIMER") /\ sState[s] = "smoking"
      /\ S!Publish(s, <<e>>)
      /\ sState' = [sState EXCEPT ![s] = "idle"]
      /\ sTimer' = [sTimer EXCEPT ![s] = "idle"]
      /\ UNCHANGED <<sRunning, acquired, idSeen, resourceId, sStops, sFired>>
  BY DEF S!SmokerSmoking, Smoked
<1>3. /\ t # <<>> /\ t[1] = Expires /\ t \in Seq(ForSmoker)
  BY <1>1, <1>2, SmokerHead, SmokerEvents, SmokersQueues
<1>4. Has(t, Expires) /\ Once(t, Expires) /\ sTimer[s] = "idle" /\ sFired # s
      /\ \A x \in S!Smoker : ~Given(x)
  <2>1. Has(t, Expires)
    BY <1>3, TailHas
  <2> QED
    BY <1>1, <2>1 DEF Chain, Expiring
<1>5. PICK a \in S!Smoker, b \in S!Smoker, n \in RoundNumbers : Round(a, b, n)
  BY <1>1, <1>2 DEF Phase, Ready, InRound, RoundNumbers
<1>6. Proc => ~AgentsTurn
  BY <1>1, <1>2 DEF Phase, Ready
<1>7. /\ DOMAIN sQueue' = S!Object /\ sQueue'[s] = Tail(t)
      /\ \A x \in S!Smoker : x # s => sQueue'[x] = sQueue[x]
      /\ sQueue'[S!Agent] = IF S!Agent \in sRunning THEN sQueue[S!Agent] \o <<e>>
                                                    ELSE sQueue[S!Agent]
  <2>1. e.id \in {"DONE_SMOKING", "STOPPED"}
    BY AgentEvents
  <2> QED
    BY <1>1, <1>2, <2>1, SmokerPublishes
<1>8. /\ sQueue'[s] \in Seq(ForSmoker) /\ ~HasIn(sQueue'[s], Resources)
      /\ ~Has(sQueue'[s], Expires) /\ Once(sQueue'[s], Expires)
      /\ Has(sQueue'[s], StopSmoking) => Has(t, StopSmoking)
  BY <1>3, <1>4, <1>7, TailHasIn, TailHas DEF Given
<1>9. e \in ForAgent /\ e \in Turns /\ SameOrSent(S!Agent, e)
  BY <1>7, AgentEvents DEF SameOrSent
<1>10. /\ sState \in [S!Object -> {"proc", "stopping", "idle", "smoking"}]
       /\ sTimer \in [S!Object -> {"idle", "armed", "due"}]
       /\ s \in S!Object /\ s # S!Agent /\ S!Agent \in S!Object
  BY <1>1, SmokersFacts DEF SmokersTypes
<1>11. /\ sState'[s] = "idle" /\ sTimer'[s] = "idle"
       /\ \A x \in S!Object : x # s => sState'[x] = sState[x] /\ sTimer'[x] = sTimer[x]
       /\ Proc' <=> Proc
  BY <1>2, <1>10 DEF Proc
<1>12. /\ sQueue'[S!Agent] \in Seq(ForAgent)
       /\ Proc => OneIn(sQueue'[S!Agent], Turns) /\ AgentsTurn'
  <2>1. Proc => sQueue'[S!Agent] = sQueue[S!Agent] \o <<e>>
    BY <1>1, <1>7, <1>10
  <2> HIDE DEF e
  <2> QED
    BY <1>1, <1>6, <1>9, <2>1, AgentSent
<1> HIDE DEF t, e
<1>13. SmokersTypes'
  <2>1. /\ sState' \in [S!Object -> {"proc", "stopping", "idle", "smoking"}]
        /\ sTimer' \in [S!Object -> {"idle", "armed", "due"}]
    BY <1>2, <1>10
  <2>2. /\ sState'[S!Agent] \in {"proc", "stopping"}
        /\ \A x \in S!Smoker : sState'[x] # "proc"
    BY <1>1, <1>10, <1>11, SmokersFacts DEF SmokersTypes
  <2>3. \A x \in S!Smoker : sQueue'[x] \in Seq(ForSmoker)
    BY <1>1, <1>7, <1>8, SmokersQueues
  <2> QED
    BY <1>1, <1>2, <1>7, <1>12, <2>1, <2>2, <2>3 DEF SmokersTypes
<1>14. \A x \in S!Smoker : ~Given(x)'
  BY <1>4, <1>7, <1>8 DEF Given
<1>15. Phase'
  <2>1. \A x \in S!Smoker : sState'[x] # "smoking"
    BY <1>2, <1>5, <1>11, OneSmoker, SmokersFacts
  <2>2. ASSUME NEW x \in S!Smoker PROVE Fresh(x, resourceId)'
    <3>1. Got(x, a, b, n)
      BY <1>5 DEF Round
    <3>2. ~GotNone(x, a, b, n) /\ ~GotOne(x, a, b, n)
      BY <1>4, LeftGiven DEF GotNone, GotOne, Given, RoundNumbers
    <3>3. idSeen[x] = n /\ resourceId # n
      BY <1>5, <3>1, <3>2, NextNumber DEF Got, GotBoth, Round, RoundNumbers
    <3> QED
      BY <1>2, <3>3 DEF Fresh
  <2> QED
    BY <1>11, <1>12, <1>14, <2>1, <2>2 DEF Phase, Ready
<1>16. ASSUME NEW x \in S!Smoker PROVE Chain(x)'
  <2>1. CASE x = s
    BY <1>2, <1>4, <1>8, <1>11, <1>14, <2>1 DEF Chain, Expiring
  <2>2. CASE x # s
    <3>1. sQueue'[x] = sQueue[x] /\ sState'[x] = sState[x] /\ sTimer'[x] = sTimer[x]
      BY <1>7, <1>11, <2>2, SmokersFacts
    <3> QED
      BY <1>1, <1>2, <1>14, <3>1 DEF Chain, Expiring
  <2> QED
    BY <2>1, <2>2
<1>17. ASSUME Proc'
       PROVE  /\ sRunning' = S!Object /\ OneIn(sQueue'[S!Agent], Turns)
              /\ \A x \in S!Smoker : ~Has(sQueue'[x], StopSmoking) /\ sState'[x] # "stopping"
  <2>1. \A x \in S!Smoker : Has(sQueue'[x], StopSmoking) => Has(sQueue[x], StopSmoking)
    BY <1>7, <1>8 DEF t
  <2>2. \A x \in S!Smoker : sState'[x] = "stopping" => sState[x] = "stopping"
    BY <1>11, SmokersFacts
  <2> QED
    BY <1>1, <1>2, <1>11, <1>12, <1>17, <2>1, <2>2
<1> QED
  BY <1>13, <1>15, <1>16, <1>17 DEF SmokersInv

\* A smoker stops.
LEMMA SmokerStopInv == ASSUME SmokersInv, NEW s \in S!Smoker, S!SmokerStop(s) PROVE SmokersInv'
<1> DEFINE t == sQueue[s]
           e == S!Signal("STOPPED")
<1>1. /\ SmokersTypes /\ Phase /\ \A x \in S!Smoker : Chain(x)
      /\ Proc => \A x \in S!Smoker : ~Has(sQueue[x], StopSmoking)
  BY DEF SmokersInv
<1>2. /\ S!Handles(s, "STOP") /\ S!Publish(s, <<e>>)
      /\ sState' = [sState EXCEPT ![s] = "stopping"]
      /\ sTimer' = [sTimer EXCEPT ![s] = "idle"]
      /\ UNCHANGED <<acquired, idSeen, resourceId, sStops, sFired>>
  BY DEF S!SmokerStop
<1>3. /\ t # <<>> /\ t[1] = StopSmoking /\ t \in Seq(ForSmoker)
  BY <1>1, <1>2, SmokerHead, SmokerEvents, SmokersQueues
<1>4. ~Proc
  BY <1>1, <1>3, TailHas
<1>5. /\ DOMAIN sQueue' = S!Object /\ sQueue'[s] = Tail(t)
      /\ \A x \in S!Smoker : x # s => sQueue'[x] = sQueue[x]
      /\ sQueue'[S!Agent] = IF S!Agent \in sRunning THEN sQueue[S!Agent] \o <<e>>
                                                    ELSE sQueue[S!Agent]
  <2>1. e.id \in {"DONE_SMOKING", "STOPPED"}
    BY AgentEvents
  <2> QED
    BY <1>1, <1>2, <2>1, SmokerPublishes
<1>6. /\ sQueue'[s] \in Seq(ForSmoker)
      /\ HasIn(sQueue'[s], Resources) => HasIn(t, Resources)
      /\ Has(sQueue'[s], Expires) => Has(t, Expires)
      /\ Once(t, Expires) => Once(sQueue'[s], Expires)
  BY <1>3, <1>5, TailHasIn, TailHas
<1>7. e \in ForAgent /\ SameOrSent(S!Agent, e)
  BY <1>5, AgentEvents DEF SameOrSent
<1>8. /\ sState \in [S!Object -> {"proc", "stopping", "idle", "smoking"}]
      /\ sTimer \in [S!Object -> {"idle", "armed", "due"}]
      /\ s \in S!Object /\ s # S!Agent /\ S!Agent \in S!Object
  BY <1>1, SmokersFacts DEF SmokersTypes
<1>9. /\ sState'[s] = "stopping" /\ sTimer'[s] = "idle"
      /\ \A x \in S!Object : x # s => sState'[x] = sState[x] /\ sTimer'[x] = sTimer[x]
      /\ ~Proc'
  BY <1>2, <1>4, <1>8 DEF Proc
<1> HIDE DEF e
<1>10. sQueue'[S!Agent] \in Seq(ForAgent)
  BY <1>1, <1>7, AgentSent
<1> HIDE DEF t
<1>11. SmokersTypes'
  <2>1. /\ sState' \in [S!Object -> {"proc", "stopping", "idle", "smoking"}]
        /\ sTimer' \in [S!Object -> {"idle", "armed", "due"}]
    BY <1>2, <1>8
  <2>2. /\ sState'[S!Agent] \in {"proc", "stopping"}
        /\ \A x \in S!Smoker : sState'[x] # "proc"
    BY <1>1, <1>8, <1>9, SmokersFacts DEF SmokersTypes
  <2>3. \A x \in S!Smoker : sQueue'[x] \in Seq(ForSmoker)
    BY <1>1, <1>5, <1>6, SmokersQueues
  <2> QED
    BY <1>1, <1>2, <1>5, <1>10, <2>1, <2>2, <2>3 DEF SmokersTypes
<1>12. \A x \in S!Smoker : Given(x)' => Given(x)
  BY <1>5, <1>6 DEF Given, t
<1>13. Phase'
  <2>1. ASSUME NEW x \in S!Smoker, NEW a \in S!Smoker, NEW b \in S!Smoker, NEW n \in RoundNumbers,
               Got(x, a, b, n)
        PROVE  Got(x, a, b, n)'
    <3>1. CASE x = s
      <4>1. StopSmoking # Resource(a, n) /\ StopSmoking # Resource(b, n)
        BY SmokerEvents, ResourceParts
      <4>2. GotBoth(s, a, b, n)
        BY <1>3, <2>1, <3>1, <4>1 DEF Got, GotNone, GotOne, BothLeft, OneLeft, t
      <4> QED
        BY <1>2, <1>9, <1>12, <3>1, <4>2 DEF Got, GotBoth
    <3>2. CASE x # s
      <4>1. sQueue'[x] = sQueue[x] /\ sState'[x] = sState[x]
        BY <1>5, <1>9, <3>2, SmokersFacts
      <4> QED
        BY <1>2, <2>1, <4>1 DEF Got, GotNone, GotOne, GotBoth, Given, Fresh
    <3> QED
      BY <3>1, <3>2
  <2>2. \A x \in S!Smoker : sState'[x] = "smoking" => sState[x] = "smoking"
    BY <1>9, SmokersFacts
  <2>3. (Ready => Ready') /\ (InRound => InRound')
    BY <1>2, <1>12, <2>1, <2>2, PhaseKept
  <2> QED
    BY <1>1, <1>9, <2>3 DEF Phase
<1>14. ASSUME NEW x \in S!Smoker PROVE Chain(x)'
  <2>1. CASE x = s
    BY <1>1, <1>2, <1>6, <1>9, <1>12, <2>1 DEF Chain, Expiring, t
  <2>2. CASE x # s
    <3>1. sQueue'[x] = sQueue[x] /\ sState'[x] = sState[x] /\ sTimer'[x] = sTimer[x]
      BY <1>5, <1>9, <2>2, SmokersFacts
    <3> QED
      BY <1>1, <1>2, <1>12, <3>1 DEF Chain, Expiring
  <2> QED
    BY <2>1, <2>2
<1> QED
  BY <1>9, <1>11, <1>13, <1>14 DEF SmokersInv

\* The agent begins a round.
LEMMA AgentProcInv ==
  ASSUME SmokersInv, NEW missing \in S!Smoker, S!AgentProc(missing) PROVE SmokersInv'
<1> DEFINE q == sQueue[S!Agent]
<1>n. PICK n \in RoundNumbers : n = resourceId
  BY DEF SmokersInv, SmokersTypes, RoundNumbers
<1>1. /\ SmokersTypes /\ Phase /\ \A x \in S!Smoker : Chain(x)
      /\ Proc => /\ sRunning = S!Object /\ OneIn(q, Turns)
                 /\ \A x \in S!Smoker : ~Has(sQueue[x], StopSmoking) /\ sState[x] # "stopping"
  BY DEF SmokersInv
<1>2. /\ Proc /\ (S!Handles(S!Agent, "START") \/ S!Handles(S!Agent, "DONE_SMOKING"))
      /\ S!Publish(S!Agent, S!Resources(missing))
      /\ resourceId' = (n + 1) % IdModulus
      /\ UNCHANGED <<sState, sRunning, acquired, idSeen, sStops, sTimer, sFired>>
  BY <1>n DEF S!AgentProc, Proc
<1>3. q # <<>> /\ q[1] \in Turns /\ q \in Seq(ForAgent)
  BY <1>1, <1>2, AgentHead, AgentEvents, SmokersQueues
<1>4. /\ AgentsTurn /\ Tail(q) \in Seq(ForAgent)
      /\ ~HasIn(Tail(q), Turns) /\ OneIn(Tail(q), Turns)
  BY <1>1, <1>2, <1>3, TailHasIn DEF AgentsTurn
<1>5. Ready
  BY <1>1, <1>2, <1>4 DEF Phase
<1>6. sState \in [S!Object -> {"proc", "stopping", "idle", "smoking"}]
  BY <1>1 DEF SmokersTypes
<1>7. ASSUME NEW x \in S!Smoker
      PROVE  /\ sState[x] = "idle" /\ Fresh(x, n) /\ sQueue[x] = <<>>
             /\ sTimer[x] = "idle" /\ sFired # x
  <2>1. x \in S!Object /\ sState[x] # "proc" /\ sState[x] # "stopping" /\ ~Has(sQueue[x], StopSmoking)
    BY <1>1, <1>2, SmokersFacts DEF SmokersTypes
  <2>2. sState[x] = "idle" /\ ~Given(x) /\ Fresh(x, n)
    BY <1>n, <1>5, <1>6, <2>1 DEF Ready
  <2>3. sTimer[x] = "idle" /\ sFired # x /\ ~Has(sQueue[x], Expires)
    BY <1>1, <2>2 DEF Chain, Expiring
  <2>4. sQueue[x] = <<>>
    BY <1>1, <2>1, <2>2, <2>3, NothingLeft, SmokersQueues DEF Given
  <2> QED
    BY <2>2, <2>3, <2>4
<1>8. PICK a \in S!Smoker, b \in S!Smoker :
        a # b /\ S!Resources(missing) = <<Resource(a, n), Resource(b, n)>>
  BY <1>n, PutDown
<1> DEFINE es == <<Resource(a, n), Resource(b, n)>>
<1>9. /\ DOMAIN sQueue' = S!Object /\ sQueue'[S!Agent] = Tail(q)
      /\ \A x \in S!Smoker : sQueue'[x] = IF x \in sRunning THEN sQueue[x] \o es ELSE sQueue[x]
  <2>1. Head(es).id \in {"RESOURCE", "STOP"} /\ S!Publish(S!Agent, es)
    BY <1>2, <1>8, ResourceParts
  <2> HIDE DEF es
  <2> QED
    BY <1>1, <2>1, AgentPublishes
<1>10. es \in Seq(ForSmoker) /\ BothLeft(es, a, b, n) /\ ~Has(es, Expires) /\ ~Has(es, StopSmoking)
  <2>1. Resource(a, n) # StopSmoking /\ Resource(b, n) # StopSmoking
    BY SmokerEvents, ResourceParts
  <2>2. ~Has(es, StopSmoking)
    <3>1. Len(es) = 2 /\ es[1] = Resource(a, n) /\ es[2] = Resource(b, n)
      OBVIOUS
    <3> HIDE DEF es
    <3> QED
      BY <2>1, <3>1 DEF Has, HasIn
  <2> QED
    BY <2>2, LeftPair DEF RoundNumbers
<1> HIDE DEF es, q
<1>11. \A x \in S!Smoker : sQueue'[x] = es
  <2> SUFFICES ASSUME NEW x \in S!Smoker PROVE sQueue'[x] = es
    OBVIOUS
  <2>1. sQueue'[x] = <<>> \o es
    BY <1>1, <1>2, <1>7, <1>9, SmokersFacts
  <2> QED
    BY <1>10, <2>1
<1>12. SmokersTypes'
  <2>1. resourceId' \in 0 .. IdModulus - 1
    BY <1>2, NextNumber DEF RoundNumbers
  <2> QED
    BY <1>1, <1>2, <1>4, <1>9, <1>10, <1>11, <2>1 DEF SmokersTypes
<1>13. Round(a, b, n)'
  <2>1. ASSUME NEW x \in S!Smoker PROVE Got(x, a, b, n)'
    BY <1>2, <1>7, <1>10, <1>11 DEF Got, GotNone, Fresh
  <2> QED
    BY <1>2, <1>8, <2>1 DEF Round
<1>14. ~AgentsTurn'
  BY <1>4, <1>9 DEF AgentsTurn
<1>15. Phase'
  BY <1>13, <1>14 DEF Phase, InRound, RoundNumbers
<1>16. \A x \in S!Smoker : Chain(x)'
  BY <1>2, <1>7, <1>10, <1>11 DEF Chain, Expiring, Has, HasIn, Once, OneIn
<1> QED
  BY <1>1, <1>2, <1>4, <1>9, <1>10, <1>11, <1>12, <1>15, <1>16 DEF SmokersInv

\* The agent stops the smokers.
LEMMA AgentTimeoutInv == ASSUME SmokersInv, S!AgentTimeout PROVE SmokersInv'
<1>1. SmokersTypes /\ Phase /\ \A x \in S!Smoker : Chain(x)
  BY DEF SmokersInv
<1>2. /\ S!Handles(S!Agent, "TIMEOUT") /\ S!Publish(S!Agent, <<StopSmoking>>)
      /\ sState' = [sState EXCEPT ![S!Agent] = "stopping"]
      /\ UNCHANGED <<sRunning, acquired, idSeen, resourceId, sStops, sTimer, sFired>>
  BY DEF S!AgentTimeout, StopSmoking
<1>3. /\ DOMAIN sQueue' = S!Object /\ sQueue'[S!Agent] = Tail(sQueue[S!Agent])
      /\ \A x \in S!Smoker : SameOrSent(x, StopSmoking)
  <2> DEFINE es == <<StopSmoking>>
  <2>1. Head(es).id \in {"RESOURCE", "STOP"} /\ S!Publish(S!Agent, es)
    BY <1>2, SmokerEvents
  <2> HIDE DEF es
  <2>2. /\ DOMAIN sQueue' = S!Object /\ sQueue'[S!Agent] = Tail(sQueue[S!Agent])
        /\ \A x \in S!Smoker : sQueue'[x] = IF x \in sRunning THEN sQueue[x] \o es ELSE sQueue[x]
    BY <1>1, <2>1, AgentPublishes
  <2> QED
    BY <2>2 DEF SameOrSent, es
<1>4. sQueue'[S!Agent] \in Seq(ForAgent)
  BY <1>1, <1>2, <1>3, AgentHead, TailHasIn, SmokersQueues
<1>5. /\ sState' \in [S!Object -> {"proc", "stopping", "idle", "smoking"}]
      /\ sState'[S!Agent] = "stopping" /\ ~Proc'
      /\ \A x \in S!Smoker : sState'[x] = sState[x]
  BY <1>1, <1>2, SmokersFacts DEF SmokersTypes, Proc
<1>6. /\ StopSmoking \in ForSmoker \ Resources /\ StopSmoking \in ForSmoker \ {Expires}
  BY SmokerEvents
<1>7. ASSUME NEW x \in S!Smoker
      PROVE  /\ sQueue'[x] \in Seq(ForSmoker) /\ (Given(x)' <=> Given(x))
             /\ \A a, b \in S!Smoker, n \in RoundNumbers : Got(x, a, b, n) => Got(x, a, b, n)'
  <2>1. idSeen'[x] = idSeen[x] /\ acquired'[x] = acquired[x]
    BY <1>2
  <2> QED
    BY <1>1, <1>3, <1>5, <1>6, <2>1, GotKept
<1>8. SmokersTypes'
  BY <1>1, <1>2, <1>3, <1>4, <1>5, <1>7 DEF SmokersTypes
<1>9. (Ready => Ready') /\ (InRound => InRound')
  BY <1>2, <1>5, <1>7, PhaseKept
<1>10. ASSUME NEW x \in S!Smoker PROVE Chain(x)'
  <2>1. sTimer'[x] = sTimer[x] /\ sFired' = sFired
    BY <1>2
  <2> QED
    BY <1>1, <1>3, <1>5, <1>6, <1>7, <2>1, ChainKept
<1> QED
  BY <1>1, <1>5, <1>8, <1>9, <1>10 DEF SmokersInv, Phase

\* The agent counts the smokers that stopped.
LEMMA AgentStoppingInv ==
  ASSUME SmokersInv, S!AgentStopping \/ S!AgentIgnores PROVE SmokersInv'
<1>1. SmokersTypes /\ Phase /\ \A x \in S!Smoker : Chain(x)
  BY DEF SmokersInv
<1>2. /\ sState[S!Agent] = "stopping" /\ sQueue[S!Agent] # <<>>
      /\ sQueue' = S!Take(sQueue, S!Agent)
      /\ UNCHANGED <<sState, acquired, idSeen, resourceId, sTimer, sFired>>
  BY DEF S!AgentStopping, S!AgentIgnores, S!Handles, S!Receives
<1>3. /\ DOMAIN sQueue' = S!Object /\ sQueue'[S!Agent] = Tail(sQueue[S!Agent])
      /\ \A x \in S!Smoker : sQueue'[x] = sQueue[x]
  BY <1>1, <1>2, SmokersTaken, SmokersFacts DEF Left
<1>4. sQueue'[S!Agent] \in Seq(ForAgent)
  BY <1>1, <1>2, <1>3, TailHasIn, SmokersQueues
<1>5. SmokersTypes' /\ ~Proc'
  BY <1>1, <1>2, <1>3, <1>4 DEF SmokersTypes, Proc
<1>6. \A x \in S!Smoker : Given(x)' <=> Given(x)
  BY <1>3 DEF Given
<1>7. (Ready => Ready') /\ (InRound => InRound')
  <2>1. \A x \in S!Smoker, a, b \in S!Smoker, n \in RoundNumbers : Got(x, a, b, n) => Got(x, a, b, n)'
    BY <1>2, <1>3 DEF Got, GotNone, GotOne, GotBoth, Given, Fresh
  <2> QED
    BY <1>2, <1>6, <2>1, PhaseKept
<1>8. \A x \in S!Smoker : Chain(x)'
  BY <1>1, <1>2, <1>3, <1>6 DEF Chain, Expiring
<1> QED
  BY <1>1, <1>5, <1>7, <1>8 DEF SmokersInv, Phase

\* The ticker takes the timers that expired,
LEMMA TickStartInv == ASSUME SmokersInv, NEW A, S!TickStart(A) PROVE SmokersInv'
<1>1. SmokersTypes /\ Phase /\ \A x \in S!Smoker : Chain(x)
  BY DEF SmokersInv
<1>2. /\ S!Idle(sQueue) /\ A # {} /\ \A a \in A : sTimer[a] = "armed"
      /\ sTimer' = [a \in S!Object |-> IF a \in A THEN "due" ELSE sTimer[a]]
      /\ UNCHANGED <<sState, sQueue, sRunning, acquired, idSeen, resourceId, sFired>>
  BY DEF S!TickStart
<1>3. sTimer \in [S!Object -> {"idle", "armed", "due"}] /\ S!Smoker \subseteq S!Object
  BY <1>1, SmokersFacts DEF SmokersTypes
<1>4. SmokersTypes'
  <2>1. sTimer' \in [S!Object -> {"idle", "armed", "due"}]
    BY <1>2, <1>3
  <2> QED
    BY <1>1, <1>2, <2>1 DEF SmokersTypes
<1>5. \A x \in S!Smoker : ~Given(x)
  <2>1. \A x \in S!Smoker : sQueue[x] = <<>>
    BY <1>1, <1>2, <1>3 DEF S!Idle, SmokersTypes
  <2> QED
    BY <2>1 DEF Given, HasIn
<1>6. ASSUME NEW x \in S!Smoker PROVE Chain(x)'
  <2>1. sTimer'[x] # "idle" => sTimer[x] # "idle"
    BY <1>2, <1>3
  <2> QED
    BY <1>1, <1>2, <1>5, <2>1 DEF Chain, Expiring, Given
<1>7. Phase'
  BY <1>1, <1>2, PhaseStays
<1> QED
  BY <1>2, <1>4, <1>6, <1>7 DEF SmokersInv, Proc

\* one after the other,
LEMMA TickNextInv == ASSUME SmokersInv, NEW a \in S!Object, S!TickNext(a) PROVE SmokersInv'
<1>1. SmokersTypes /\ Phase /\ \A x \in S!Smoker : Chain(x)
  BY DEF SmokersInv
<1>2. /\ sFired = None /\ sTimer[a] = "due"
      /\ sTimer' = [sTimer EXCEPT ![a] = "idle"]
      /\ sFired' = a
      /\ UNCHANGED <<sState, sQueue, sRunning, acquired, idSeen, resourceId>>
  BY DEF S!TickNext
<1>3. sTimer \in [S!Object -> {"idle", "armed", "due"}] /\ S!Smoker \subseteq S!Object
  BY <1>1, SmokersFacts DEF SmokersTypes
<1>4. SmokersTypes'
  <2>1. sTimer' \in [S!Object -> {"idle", "armed", "due"}]
    BY <1>2, <1>3
  <2> QED
    BY <1>1, <1>2, <2>1 DEF SmokersTypes
<1>5. ASSUME NEW x \in S!Smoker PROVE Chain(x)'
  <2>1. \A y \in S!Smoker : Given(y)' <=> Given(y)
    BY <1>2 DEF Given
  <2>2. CASE x = a
    <3>1. sTimer'[x] = "idle" /\ sTimer[x] = "due"
      BY <1>2, <1>3, <2>2
    <3> QED
      BY <1>1, <1>2, <2>1, <3>1 DEF Chain, Expiring
  <2>3. CASE x # a
    <3>1. sTimer'[x] = sTimer[x] /\ sFired # x
      BY <1>2, <1>3, <2>3, SmokersFacts
    <3> QED
      BY <1>1, <1>2, <2>1, <2>3, <3>1 DEF Chain, Expiring
  <2> QED
    BY <2>2, <2>3
<1>6. Phase'
  BY <1>1, <1>2, PhaseStays
<1> QED
  BY <1>2, <1>4, <1>5, <1>6 DEF SmokersInv, Proc

\* and posts the event of each.
LEMMA TickPostInv == ASSUME SmokersInv, S!TickPost PROVE SmokersInv'
<1>1. /\ SmokersTypes /\ Phase /\ \A x \in S!Smoker : Chain(x)
      /\ Proc => /\ sRunning = S!Object /\ OneIn(sQueue[S!Agent], Turns)
                 /\ \A x \in S!Smoker : ~Has(sQueue[x], StopSmoking) /\ sState[x] # "stopping"
  BY DEF SmokersInv
<1>2. /\ sFired # None
      /\ sQueue' = S!Send(sQueue, {sFired}, <<S!Expired(sFired)>>)
      /\ sFired' = None
      /\ UNCHANGED <<sState, sRunning, acquired, idSeen, resourceId, sTimer>>
  BY DEF S!TickPost
<1>3. /\ DOMAIN sQueue' = S!Object /\ S!Object = S!Smoker \cup {S!Agent}
      /\ \A x \in S!Object : sQueue'[x] = IF x = sFired THEN sQueue[x] \o <<S!Expired(x)>>
                                                        ELSE sQueue[x]
  <2>1. DOMAIN sQueue = S!Object
    BY <1>1 DEF SmokersTypes
  <2> QED
    BY <1>2, <2>1, SmokersFacts DEF S!Send
<1>4. /\ \A x \in S!Smoker : S!Expired(x) = Expires
      /\ S!Expired(S!Agent) = S!Signal("TIMEOUT")
  BY SmokersFacts DEF S!Expired, Expires
<1>5. /\ sQueue'[S!Agent] \in Seq(ForAgent) /\ (AgentsTurn' <=> AgentsTurn)
      /\ OneIn(sQueue[S!Agent], Turns) => OneIn(sQueue'[S!Agent], Turns)
  <2>1. SameOrSent(S!Agent, S!Signal("TIMEOUT"))
    BY <1>3, <1>4 DEF SameOrSent
  <2>2. S!Signal("TIMEOUT") \in ForAgent \ Turns
    BY AgentEvents
  <2> QED
    BY <1>1, <2>1, <2>2, AgentSent
<1>6. Expires \in ForSmoker \ Resources /\ Expires # StopSmoking
  BY SmokerEvents
<1>7. ASSUME NEW x \in S!Smoker
      PROVE  /\ sQueue'[x] \in Seq(ForSmoker) /\ (Given(x)' <=> Given(x))
             /\ \A b, c \in S!Smoker, n \in RoundNumbers : Got(x, b, c, n) => Got(x, b, c, n)'
  <2>1. SameOrSent(x, Expires)
    BY <1>3, <1>4 DEF SameOrSent
  <2>2. idSeen'[x] = idSeen[x] /\ acquired'[x] = acquired[x] /\ sState'[x] = sState[x]
    BY <1>2
  <2> QED
    BY <1>1, <1>6, <2>1, <2>2, GotKept
<1>8. SmokersTypes'
  BY <1>1, <1>2, <1>3, <1>5, <1>7 DEF SmokersTypes
<1>9. (Ready => Ready') /\ (InRound => InRound')
  BY <1>2, <1>7, PhaseKept
<1>10. Phase'
  BY <1>1, <1>2, <1>5, <1>9 DEF Phase, Proc
<1>11. ASSUME NEW x \in S!Smoker
       PROVE  /\ Chain(x)'
              /\ Has(sQueue'[x], StopSmoking) => Has(sQueue[x], StopSmoking)
  <2>1. CASE x = sFired
    <3>1. /\ sQueue[x] \in Seq(ForSmoker) /\ sQueue'[x] = sQueue[x] \o <<Expires>>
          /\ Expires \in ForSmoker
      BY <1>1, <1>3, <1>4, <1>6, <2>1, SmokersQueues
    <3>2. /\ Once(sQueue[x], Expires) /\ ~Has(sQueue[x], Expires) => Once(sQueue'[x], Expires)
          /\ Has(sQueue'[x], StopSmoking) => Has(sQueue[x], StopSmoking)
      BY <1>6, <3>1, SendHas
    <3>3. sFired' # x
      BY <1>2, <2>1
    <3> QED
      BY <1>1, <1>2, <1>7, <2>1, <3>2, <3>3 DEF Chain, Expiring
  <2>2. CASE x # sFired
    <3>1. sQueue'[x] = sQueue[x] /\ sFired' # x
      BY <1>2, <1>3, <2>2, SmokersFacts
    <3> QED
      BY <1>1, <1>2, <1>7, <2>2, <3>1 DEF Chain, Expiring
  <2> QED
    BY <2>1, <2>2
<1> QED
  BY <1>1, <1>2, <1>5, <1>8, <1>10, <1>11 DEF SmokersInv, Proc

LEMMA SmokersStutter == ASSUME SmokersInv, UNCHANGED sVars PROVE SmokersInv'
<1>1. UNCHANGED <<sState, sQueue, sRunning, acquired, idSeen, resourceId, sTimer, sFired>>
  BY DEF sVars
<1>2. SmokersTypes'
  BY <1>1 DEF SmokersInv, SmokersTypes
<1>3. Phase' /\ (Proc' <=> Proc)
  BY <1>1, PhaseStays DEF SmokersInv, Proc
<1>4. \A x \in S!Smoker : Chain(x)'
  BY <1>1 DEF SmokersInv, Chain, Expiring, Given
<1> QED
  BY <1>1, <1>2, <1>3, <1>4 DEF SmokersInv

LEMMA SmokersNextInv == ASSUME SmokersInv, S!Next PROVE SmokersInv'
<1>1. CASE \E missing \in S!Smoker : S!AgentProc(missing)
  BY <1>1, AgentProcInv
<1>2. CASE S!AgentTimeout
  BY <1>2, AgentTimeoutInv
<1>3. CASE S!AgentStopping \/ S!AgentIgnores
  BY <1>3, AgentStoppingInv
<1>4. CASE \E s \in S!Smoker : S!SmokerStep(s)
  BY <1>4, SmokerIdleInv, SmokerSmokingInv, SmokerStopInv DEF S!SmokerStep
<1>5. CASE \E a \in S!Object : S!TickOf(a)
  BY <1>5, TickStartInv DEF S!TickOf
<1>6. CASE \E a \in S!Object : S!TickNext(a)
  BY <1>6, TickNextInv
<1>7. CASE S!TickPost
  BY <1>7, TickPostInv
<1>8. CASE UNCHANGED S!vars
  BY <1>8, SmokersStutter DEF S!vars, sVars
<1> QED
  BY <1>1, <1>2, <1>3, <1>4, <1>5, <1>6, <1>7, <1>8 DEF S!Next, S!AgentStep, S!TickStep

\* Each round feeds one smoker.
LEMMA SmokersOne == SmokersInv => S!OneSmokes
<1> SUFFICES ASSUME SmokersInv PROVE S!OneSmokes
  OBVIOUS
<1> DEFINE smoking == {s \in S!Smoker : sState[s] = "smoking"}
<1>1. /\ SmokersTypes /\ Phase
      /\ Proc => \A x \in S!Smoker : sState[x] # "stopping"
  BY DEF SmokersInv
<1>2. ASSUME NEW s \in smoking PROVE smoking = {s} /\ ~S!Handles(s, "RESOURCE")
  <2>1. PICK a \in S!Smoker, b \in S!Smoker, n \in RoundNumbers : Round(a, b, n)
    BY <1>1, <1>2 DEF Phase, Ready, InRound, RoundNumbers
  <2>2. smoking = {s} /\ ~Given(s)
    BY <1>2, <2>1, OneSmoker DEF GotBoth
  <2>3. ASSUME S!Handles(s, "RESOURCE") PROVE FALSE
    <3>1. sQueue[s] # <<>> /\ sQueue[s] \in Seq(ForSmoker) /\ sQueue[s][1] \in Resources
      BY <1>1, <1>2, <2>3, SmokerHead, SmokerEvents, SmokersQueues
    <3> QED
      BY <2>2, <3>1, TailHasIn DEF Given
  <2> QED
    BY <2>2, <2>3
<1>3. ASSUME S!Idle(sQueue), Proc PROVE smoking # {}
  <2>1. sQueue[S!Agent] = <<>> /\ \A s \in S!Smoker : sQueue[s] = <<>>
    BY <1>1, <1>3, SmokersFacts DEF S!Idle, SmokersTypes
  <2>2. ~AgentsTurn /\ \A s \in S!Smoker : ~Given(s)
    BY <2>1 DEF AgentsTurn, Given, HasIn
  <2>3. PICK a \in S!Smoker, b \in S!Smoker, n \in RoundNumbers : Round(a, b, n)
    BY <1>1, <1>3, <2>2 DEF Phase, InRound, RoundNumbers
  <2>4. \A s \in S!Smoker : GotBoth(s, a, b, n)
    BY <2>2, <2>3, LeftGiven DEF Round, Got, GotNone, GotOne, Given, RoundNumbers
  <2>5. PICK s \in S!Smoker : s \notin {a, b}
    BY SmokersFacts
  <2>6. sState[s] = "smoking"
    BY <1>1, <1>3, <2>4, <2>5 DEF GotBoth
  <2> QED
    BY <2>6
<1>4. S!Cardinality(smoking) <= 1
  <2>1. smoking = {} \/ \E s : smoking = {s}
    BY <1>2
  <2> HIDE DEF smoking
  <2>2. S!Cardinality(smoking) = Cardinality(smoking)
    BY Zenon DEF S!Cardinality, Cardinality, S!IsFiniteSet, IsFiniteSet
  <2>3. Cardinality(smoking) <= 1
    <3>1. CASE smoking = {}
      <4>1. Cardinality(smoking) = 0
        BY <3>1, FS_EmptySet
      <4> QED
        BY <4>1
    <3>2. CASE \E s : smoking = {s}
      <4>1. Cardinality(smoking) = 1
        BY <3>2, FS_Singleton
      <4> QED
        BY <4>1
    <3> QED
      BY <2>1, <3>1, <3>2
  <2> QED
    BY <2>2, <2>3
<1> HIDE DEF smoking
<1>5. /\ S!Cardinality(smoking) <= 1
      /\ \A s \in smoking : ~S!Handles(s, "RESOURCE")
      /\ S!Idle(sQueue) /\ sFired = None /\ sState[S!Agent] = "proc" => smoking # {}
  BY <1>2, <1>3, <1>4 DEF Proc
<1> QED
  BY <1>5 DEF S!OneSmokes, smoking

-----------------------------------------------------------------------------
(* the traffic light *)

\* What the light's queue holds: an event of the user or START, and a TIMER.
Orders == {"START", "SWITCH_MODE", "EXIT"}
LightQueues == {<<>>, <<"TIMER">>} \cup {<<o>> : o \in Orders}
                 \cup {<<o, "TIMER">> : o \in Orders} \cup {<<"TIMER", o>> : o \in Orders}
NoTimer == {<<>>} \cup {<<o>> : o \in Orders}

LightInv ==
  /\ cQueue \in LightQueues
  /\ cFired => cQueue \in NoTimer
  /\ C!LightRuns

LEMMA PairTail == ASSUME NEW x, NEW y PROVE Tail(<<x, y>>) = <<y>> /\ Head(<<x, y>>) = x
<1> DEFINE T == {x, y}
           t == Tail(<<x, y>>)
<1>1. <<x, y>> \in Seq(T) /\ <<y>> \in Seq(T) /\ t \in Seq(T) /\ Head(<<x, y>>) = x
  OBVIOUS
<1>2. Len(t) = 1 /\ t[1] = y
  OBVIOUS
<1> HIDE DEF t
<1>3. t = <<y>>
  BY <1>1, <1>2, SeqEqual
<1> QED
  BY <1>1, <1>3 DEF t

LEMMA PairAppend == ASSUME NEW x, NEW y PROVE Append(<<x>>, y) = <<x, y>>
<1> DEFINE T == {x, y}
           t == Append(<<x>>, y)
<1>1. <<x, y>> \in Seq(T) /\ <<x>> \in Seq(T) /\ t \in Seq(T)
  OBVIOUS
<1>2. Len(t) = 2 /\ t[1] = x /\ t[2] = y
  OBVIOUS
<1> HIDE DEF t
<1>3. t = <<x, y>>
  BY <1>1, <1>2, SeqEqual
<1> QED
  BY <1>3 DEF t

LEMMA SingleTail == ASSUME NEW x PROVE /\ Tail(<<x>>) = <<>> /\ Head(<<x>>) = x
                                       /\ Append(<<>>, x) = <<x>>
<1>1. Head(<<x>>) = x /\ Append(<<>>, x) = <<x>>
  OBVIOUS
<1>2. Tail(<<x>>) \in Seq({x}) /\ Len(Tail(<<x>>)) = 0
  OBVIOUS
<1>3. Tail(<<x>>) = <<>>
  BY <1>2, EmptySeq
<1> QED
  BY <1>1, <1>3

\* Taking an event from the light's queue.
LEMMA LightTakes ==
  ASSUME NEW q \in LightQueues, q # <<>>
  PROVE  /\ Tail(q) \in LightQueues
         /\ Head(q) \in Orders => Tail(q) \in {<<>>, <<"TIMER">>}
         /\ q \in NoTimer => Tail(q) = <<>>
<1>1. CASE q = <<"TIMER">> \/ \E o \in Orders : q = <<o>>
  BY <1>1, SingleTail DEF LightQueues
<1>2. CASE \E o \in Orders : q = <<o, "TIMER">>
  <2>1. PICK o \in Orders : q = <<o, "TIMER">>
    BY <1>2
  <2>2. q \notin NoTimer
    <3>1. Len(q) = 2 /\ \A x : Len(<<x>>) = 1
      BY <2>1
    <3> QED
      BY <2>1, <3>1 DEF NoTimer
  <2> QED
    BY <2>1, <2>2, PairTail DEF LightQueues
<1>3. CASE \E o \in Orders : q = <<"TIMER", o>>
  <2>1. PICK o \in Orders : q = <<"TIMER", o>>
    BY <1>3
  <2>2. q \notin NoTimer
    <3>1. Len(q) = 2 /\ \A x : Len(<<x>>) = 1
      BY <2>1
    <3> QED
      BY <2>1, <3>1 DEF NoTimer
  <2>3. Tail(q) = <<o>> /\ Head(q) = "TIMER"
    BY <2>1, PairTail
  <2> QED
    BY <2>1, <2>2, <2>3 DEF LightQueues, Orders
<1> QED
  BY <1>1, <1>2, <1>3 DEF LightQueues

\* Sending one to it.
LEMMA LightSent ==
  /\ \A q \in {<<>>, <<"TIMER">>}, o \in Orders :
       /\ Append(q, o) \in LightQueues \ {<<>>} /\ Len(q) < CoroQueue
       /\ q = <<>> => Append(q, o) \in NoTimer
  /\ \A q \in NoTimer : Append(q, "TIMER") \in LightQueues \ {<<>>} /\ Len(q) < CoroQueue
<1>1. CoroQueue \in Nat /\ CoroQueue > 1
  BY AppsAssumption
<1>2. \A x : <<x>> # <<>> /\ Len(<<x>>) = 1
  OBVIOUS
<1>3. \A x, y : <<x, y>> # <<>>
  OBVIOUS
<1>4. Len(<<>>) = 0
  OBVIOUS
<1>5. \A o \in Orders : /\ <<o>> \in LightQueues /\ <<o>> \in NoTimer
                        /\ <<o, "TIMER">> \in LightQueues /\ <<"TIMER", o>> \in LightQueues
  BY DEF LightQueues, NoTimer
<1>6. <<"TIMER">> \in LightQueues
  BY DEF LightQueues
<1>7. ASSUME NEW q \in {<<>>, <<"TIMER">>}, NEW o \in Orders
      PROVE  /\ Append(q, o) \in LightQueues \ {<<>>} /\ Len(q) < CoroQueue
             /\ q = <<>> => Append(q, o) \in NoTimer
  <2>1. CASE q = <<>>
    <3>1. Append(q, o) = <<o>> /\ Len(q) = 0
      BY <1>4, <2>1, SingleTail
    <3>2. Append(q, o) \in LightQueues \ {<<>>} /\ Append(q, o) \in NoTimer
      BY <1>2, <1>5, <3>1
    <3>3. Len(q) < CoroQueue
      BY <1>1, <3>1
    <3> QED
      BY <3>2, <3>3
  <2>2. CASE q = <<"TIMER">>
    <3>1. Append(q, o) = <<"TIMER", o>> /\ q # <<>> /\ Len(q) = 1
      BY <1>2, <2>2, PairAppend
    <3>2. Append(q, o) \in LightQueues \ {<<>>}
      BY <1>3, <1>5, <3>1
    <3>3. Len(q) < CoroQueue
      BY <1>1, <3>1
    <3> QED
      BY <3>1, <3>2, <3>3
  <2> QED
    BY <2>1, <2>2
<1>8. ASSUME NEW q \in NoTimer
      PROVE  Append(q, "TIMER") \in LightQueues \ {<<>>} /\ Len(q) < CoroQueue
  <2>1. CASE q = <<>>
    BY <1>1, <1>2, <1>4, <1>6, <2>1, SingleTail
  <2>2. CASE \E o \in Orders : q = <<o>>
    BY <1>1, <1>2, <1>3, <1>5, <2>2, PairAppend
  <2> QED
    BY <2>1, <2>2 DEF NoTimer
<1> QED
  BY <1>7, <1>8

LEMMA LightInitInv == C!Init => LightInv
BY DEF C!Init, LightInv, LightQueues, NoTimer, Orders, C!LightRuns

LEMMA LightNextInv == ASSUME LightInv, C!Next \/ UNCHANGED cVars PROVE LightInv'
<1>1. /\ cQueue \in LightQueues /\ (cFired => cQueue \in NoTimer)
      /\ cRunning /\ ~trapped => armed \/ cFired \/ cQueue # <<>>
      /\ trapped => coro_blinking_green = "call" \/ ~cRunning
  BY DEF LightInv, C!LightRuns
<1>2. <<>> \in NoTimer
  BY DEF NoTimer
<1>3. CASE C!Resume
  <2>1. /\ ~trapped /\ cRunning /\ cQueue # <<>> /\ cQueue' = Tail(cQueue)
        /\ UNCHANGED <<cFired, cRunning>>
    BY <1>3 DEF C!Resume, C!Receives
  <2>2. cQueue' \in LightQueues /\ (cFired' => cQueue' \in NoTimer)
    BY <1>1, <1>2, <2>1, LightTakes
  <2>3. CASE C!RegularCoro
    <3>1. /\ trapped' => coro_blinking_green' = "call"
          /\ ~armed' => coro_blinking_green' = "call" /\ trapped'
      BY <2>3 DEF C!RegularCoro, C!BeginFails, C!CoroInit
    <3> QED
      BY <2>2, <3>1 DEF LightInv, C!LightRuns
  <2>4. CASE C!OffCoro
    BY <2>1, <2>2, <2>4 DEF C!OffCoro, LightInv, C!LightRuns
  <2> QED
    BY <1>3, <2>3, <2>4 DEF C!Resume
<1>4. CASE C!SwitchMode
  <2>1. /\ ~trapped /\ cQueue # <<>> /\ Head(cQueue) \in Orders
        /\ C!Post(Tail(cQueue), "START") /\ UNCHANGED <<cFired, cRunning>>
    BY <1>4 DEF C!SwitchMode, C!Receives, Orders
  <2>2. /\ Tail(cQueue) \in {<<>>, <<"TIMER">>} /\ (cFired => Tail(cQueue) = <<>>)
        /\ "START" \in Orders
    BY <1>1, <2>1, LightTakes DEF Orders
  <2>3. /\ cQueue' = Append(Tail(cQueue), "START") /\ ~trapped'
        /\ cQueue' \in LightQueues \ {<<>>} /\ (cFired' => cQueue' \in NoTimer)
    BY <2>1, <2>2, LightSent DEF C!Post
  <2> QED
    BY <2>3 DEF LightInv, C!LightRuns
<1>5. CASE C!Exit
  <2>1. cQueue' = <<>> /\ ~cRunning' /\ <<>> \in LightQueues
    BY <1>5 DEF C!Exit, LightQueues
  <2> QED
    BY <1>2, <2>1 DEF LightInv, C!LightRuns
<1>6. CASE C!TickNext
  <2>1. cFired' /\ cQueue' = cQueue /\ ~trapped' /\ ~C!Contains(cQueue, "TIMER")
    BY <1>6 DEF C!TickNext
  <2>2. cQueue \in NoTimer
    <3>1. \A i \in 1 .. Len(cQueue) : cQueue[i] # "TIMER"
      BY <2>1 DEF C!Contains
    <3>2. \A x : /\ <<"TIMER">>[1] = "TIMER" /\ <<"TIMER", x>>[1] = "TIMER"
                 /\ <<x, "TIMER">>[2] = "TIMER"
                 /\ 1 \in 1 .. Len(<<"TIMER">>) /\ 1 \in 1 .. Len(<<"TIMER", x>>)
                 /\ 2 \in 1 .. Len(<<x, "TIMER">>)
      OBVIOUS
    <3> QED
      BY <1>1, <3>1, <3>2 DEF LightQueues, NoTimer
  <2> QED
    BY <1>1, <2>1, <2>2 DEF LightInv, C!LightRuns
<1>7. CASE C!TickPost
  <2>1. /\ cFired /\ ~cFired' /\ UNCHANGED <<armed, cRunning>>
        /\ IF cRunning THEN C!Post(cQueue, "TIMER") ELSE trapped' = TRUE /\ cQueue' = cQueue
        /\ ~trapped
    BY <1>7 DEF C!TickPost
  <2>2. CASE cRunning
    <3>1. cQueue' \in LightQueues \ {<<>>} /\ ~trapped'
      BY <1>1, <2>1, <2>2, LightSent DEF C!Post
    <3> QED
      BY <2>1, <3>1 DEF LightInv, C!LightRuns
  <2>3. CASE ~cRunning
    BY <1>1, <2>1, <2>3 DEF LightInv, C!LightRuns
  <2> QED
    BY <2>2, <2>3
<1>8. ASSUME NEW e \in {"SWITCH_MODE", "EXIT"}, C!Enter(e) PROVE LightInv'
  <2>1. /\ ~trapped /\ cRunning /\ C!ToSet(cQueue) \subseteq {"TIMER"}
        /\ C!Post(cQueue, e) /\ UNCHANGED <<cFired, cRunning>> /\ e \in Orders
    BY <1>8 DEF C!Enter, Orders
  <2>2. cQueue \in {<<>>, <<"TIMER">>}
    <3>1. \A i \in DOMAIN cQueue : cQueue[i] = "TIMER"
      BY <2>1 DEF C!ToSet
    <3>2. \A x : /\ <<x>>[1] = x /\ <<"TIMER", x>>[2] = x /\ <<x, "TIMER">>[1] = x
                 /\ 1 \in DOMAIN <<x>> /\ 2 \in DOMAIN <<"TIMER", x>>
                 /\ 1 \in DOMAIN <<x, "TIMER">>
      OBVIOUS
    <3>3. "TIMER" \notin Orders
      BY DEF Orders
    <3> QED
      BY <1>1, <3>1, <3>2, <3>3 DEF LightQueues
  <2>3. cFired => cQueue = <<>>
    <3>1. <<"TIMER">> \notin NoTimer
      <4>1. \A x : <<x>>[1] = x
        OBVIOUS
      <4> QED
        BY <4>1 DEF NoTimer, Orders
    <3> QED
      BY <1>1, <2>2, <3>1
  <2>4. /\ ~trapped' /\ cQueue' \in LightQueues \ {<<>>}
        /\ cFired' => cQueue' \in NoTimer
    BY <2>1, <2>2, <2>3, LightSent DEF C!Post
  <2> QED
    BY <2>4 DEF LightInv, C!LightRuns
<1>9. CASE UNCHANGED cVars
  BY <1>1, <1>9 DEF cVars, LightInv, C!LightRuns
<1> QED
  BY <1>3, <1>4, <1>5, <1>6, <1>7, <1>8, <1>9 DEF C!Next, C!vars, cVars

-----------------------------------------------------------------------------
(* the watchdog *)

Feeds == W!Event("FEED")
ToFeed == W!Event("feed")
Barks == W!Event("bark")

WdtTypes ==
  /\ DOMAIN wQueue = W!Object
  /\ wQueue["watched"] \in {<<>>, <<ToFeed>>}
  /\ wQueue["wdt"] \in {<<>>, <<Feeds>>, <<Barks>>}
  /\ wLeft \in [W!Timer -> Nat] /\ wLeft["feed"] <= FeedTicks
  /\ due \subseteq W!Timer /\ wFired \subseteq W!Timer
  /\ age \in [W!Object -> 0 .. Lag] /\ \A a \in W!Object : wQueue[a] = <<>> => age[a] = 0
  /\ feedsNum \in 0 .. 3 /\ barked \in BOOLEAN

\* The feed timer runs since it expired last; a feed that followed is on its way for
\* no longer than both tasks may be late.
FeedOnTime ==
  /\ "feed" \in due <=> wLeft["feed"] = 0
  /\ "feed" \in wFired =>
       wLeft["feed"] = FeedTicks /\ wQueue["watched"] = <<>> /\ wQueue["wdt"] # <<Feeds>>
  /\ wQueue["watched"] # <<>> =>
       wLeft["feed"] = FeedTicks - age["watched"] /\ wQueue["wdt"] # <<Feeds>>
  /\ wQueue["wdt"] = <<Feeds>> => FeedTicks - wLeft["feed"] <= Lag + age["wdt"]

\* While a feed is to come the bark timer has the ticks left until it comes.
FeedToCome == feedsNum < 3 \/ wQueue["wdt"] = <<Feeds>>
OnItsWay == "feed" \in wFired \/ wQueue["watched"] # <<>> \/ wQueue["wdt"] = <<Feeds>>
Quiet ==
  /\ "bark" \notin wFired /\ wQueue["wdt"] # <<Barks>>
  /\ OnItsWay => wLeft["bark"] >= (BarkTicks - FeedTicks) - (FeedTicks - wLeft["feed"])
  /\ ~OnItsWay => wLeft["bark"] >= (BarkTicks - FeedTicks) + wLeft["feed"]

\* It barks once.
BarksOnce ==
  /\ "bark" \in due => wLeft["bark"] = 0
  /\ "bark" \in wFired \/ wQueue["wdt"] = <<Barks>> => wLeft["bark"] = 0 /\ "bark" \notin due
  /\ ~("bark" \in wFired /\ wQueue["wdt"] = <<Barks>>)

WdtInv ==
  W!LagIsSmall =>
    /\ WdtTypes /\ FeedOnTime /\ BarksOnce
    /\ FeedToCome => Quiet
    /\ barked => feedsNum = 3

LEMMA WdtNumbers ==
  ASSUME W!LagIsSmall
  PROVE  /\ FeedTicks \in Nat /\ BarkTicks \in Nat /\ Lag \in Nat /\ FeedTicks > 0
         /\ BarkTicks > FeedTicks /\ 2 * Lag < BarkTicks - FeedTicks
         /\ 2 * Lag < FeedTicks
BY AppsAssumption DEF W!LagIsSmall

\* The three events differ, and what sending and taking do to these short queues.
LEMMA WdtQueues ==
  /\ Feeds # ToFeed /\ Feeds # Barks /\ ToFeed # Barks
  /\ Feeds.id = "FEED" /\ ToFeed.id = "feed" /\ Barks.id = "bark"
  /\ <<Feeds>> # <<Barks>>
  /\ \A x : /\ <<x>> # <<>> /\ Head(<<x>>) = x /\ Tail(<<x>>) = <<>>
            /\ <<>> \o <<x>> = <<x>> /\ Len(<<x>>) = 1
  /\ W!Object = {"watched", "wdt"} /\ W!Timer = {"feed", "bark"}
<1>1. Feeds.id = "FEED" /\ ToFeed.id = "feed" /\ Barks.id = "bark"
  BY DEF Feeds, ToFeed, Barks, W!Event
<1>2. ASSUME NEW x
      PROVE  /\ <<x>> # <<>> /\ Head(<<x>>) = x /\ Tail(<<x>>) = <<>>
             /\ <<>> \o <<x>> = <<x>> /\ Len(<<x>>) = 1
  <2>1. <<x>> # <<>> /\ Head(<<x>>) = x /\ Len(<<x>>) = 1 /\ Tail(<<x>>) = <<>>
    BY SingleTail
  <2>2. <<>> \o <<x>> = <<x>>
    <3>1. <<x>> \in Seq({x})
      OBVIOUS
    <3> QED
      BY <3>1, ConcatEmptySeq
  <2> QED
    BY <2>1, <2>2
<1>3. Feeds = Barks \/ <<Feeds>> # <<Barks>>
  <2>1. Head(<<Feeds>>) = Feeds /\ Head(<<Barks>>) = Barks
    BY <1>2
  <2> QED
    BY <2>1
<1> QED
  BY <1>1, <1>2, <1>3 DEF W!Object, W!Timer

\* While a feed is to come the bark timer has ticks left.
LEMMA NotYet ==
  ASSUME W!LagIsSmall, WdtTypes, FeedOnTime, FeedToCome => Quiet, FeedToCome
  PROVE  wLeft["bark"] > 0
<1>1. /\ wLeft["feed"] \in Nat /\ wLeft["bark"] \in Nat /\ wLeft["feed"] <= FeedTicks
      /\ age["watched"] \in 0 .. Lag /\ age["wdt"] \in 0 .. Lag
  BY WdtQueues DEF WdtTypes
<1>2. CASE ~OnItsWay
  BY <1>1, <1>2, WdtNumbers DEF Quiet
<1>3. CASE OnItsWay
  <2>1. FeedTicks - wLeft["feed"] <= 2 * Lag
    BY <1>1, <1>3, WdtNumbers DEF OnItsWay, FeedOnTime
  <2> QED
    BY <1>1, <1>3, <2>1, WdtNumbers DEF Quiet
<1> QED
  BY <1>2, <1>3

LEMMA WdtInitInv == W!Init => WdtInv
<1> SUFFICES ASSUME W!Init, W!LagIsSmall PROVE WdtInv
  BY DEF WdtInv
<1>1. /\ DOMAIN wQueue = W!Object /\ wQueue["watched"] = <<>> /\ wQueue["wdt"] = <<>>
      /\ wLeft["feed"] = FeedTicks /\ wLeft["bark"] = BarkTicks /\ DOMAIN wLeft = W!Timer
      /\ due = {} /\ wFired = {} /\ feedsNum = 0 /\ barked = FALSE
      /\ age = [a \in W!Object |-> 0]
  BY WdtQueues DEF W!Init, W!WatchedArms, W!WdtArms
<1>2. wLeft \in [W!Timer -> Nat]
  BY WdtNumbers DEF W!Init, W!WatchedArms, W!WdtArms
<1>3. age \in [W!Object -> 0 .. Lag] /\ \A a \in W!Object : age[a] = 0
  BY <1>1, WdtNumbers
<1>4. WdtTypes
  <2>1. barked \in BOOLEAN
    BY <1>1
  <2>2. feedsNum \in 0 .. 3 /\ wLeft["feed"] <= FeedTicks
    BY <1>1, WdtNumbers
  <2> QED
    BY <1>1, <1>2, <1>3, <2>1, <2>2 DEF WdtTypes
<1>5. \A x : <<x>> # <<>>
  BY WdtQueues
<1>6. FeedOnTime /\ BarksOnce
  BY <1>1, <1>5, WdtNumbers DEF FeedOnTime, BarksOnce
<1>7. Quiet
  BY <1>1, <1>5, WdtNumbers DEF Quiet, OnItsWay
<1> QED
  BY <1>1, <1>4, <1>6, <1>7 DEF WdtInv

\* The task that is watched feeds the watchdog.
LEMMA WatchedTimeoutInv ==
  ASSUME WdtInv, W!LagIsSmall, W!WatchedTimeout PROVE WdtInv'
<1>1. WdtTypes /\ FeedOnTime /\ BarksOnce /\ (FeedToCome => Quiet) /\ (barked => feedsNum = 3)
  BY DEF WdtInv
<1>2. /\ ~barked /\ wQueue["watched"] # <<>>
      /\ UNCHANGED <<wLeft, due, wFired, barked>>
      /\ age' = [age EXCEPT !["watched"] = 0]
  BY DEF W!WatchedTimeout, W!Receives, W!Handled
<1>3. /\ DOMAIN wQueue = W!Object /\ W!Object = {"watched", "wdt"}
      /\ wQueue["watched"] = <<ToFeed>> /\ wQueue["wdt"] # <<Feeds>>
      /\ age \in [W!Object -> 0 .. Lag] /\ feedsNum \in 0 .. 3
  BY <1>1, <1>2, WdtQueues DEF WdtTypes, FeedOnTime
<1>4. /\ age' \in [W!Object -> 0 .. Lag] /\ age'["watched"] = 0 /\ age'["wdt"] = age["wdt"]
  BY <1>2, <1>3, WdtNumbers
<1>5. /\ "feed" \notin wFired /\ wLeft["feed"] = FeedTicks - age["watched"]
      /\ wLeft["feed"] \in Nat /\ wLeft["bark"] \in Nat /\ age["watched"] \in 0 .. Lag
      /\ age["wdt"] \in 0 .. Lag
  BY <1>1, <1>3, WdtQueues DEF FeedOnTime, WdtTypes
<1>6. DOMAIN wQueue' = W!Object /\ wQueue'["watched"] = <<>>
  BY <1>3, WdtQueues DEF W!WatchedTimeout, W!Handled, W!Send, W!Take
<1>7. CASE feedsNum < 3
  <2>1. Quiet /\ OnItsWay
    BY <1>1, <1>2, <1>7 DEF FeedToCome, OnItsWay
  <2>2. wQueue["wdt"] = <<>> /\ age["wdt"] = 0
    BY <1>1, <1>3, <2>1 DEF Quiet, WdtTypes
  <2>3. wQueue'["wdt"] = <<Feeds>> /\ feedsNum' = feedsNum + 1
    BY <1>3, <1>7, <2>2, WdtQueues DEF W!WatchedTimeout, W!Handled, W!Send, W!Take, Feeds
  <2>4. WdtTypes'
    BY <1>1, <1>2, <1>3, <1>4, <1>6, <1>7, <2>2, <2>3, WdtQueues DEF WdtTypes
  <2>5. FeedOnTime'
    BY <1>1, <1>2, <1>4, <1>5, <1>6, <2>2, <2>3, WdtNumbers DEF FeedOnTime
  <2>6. BarksOnce'
    BY <1>1, <1>2, <2>1, <2>3, WdtQueues DEF BarksOnce, Quiet
  <2>7. Quiet'
    BY <1>2, <2>1, <2>3, WdtQueues DEF Quiet, OnItsWay
  <2> QED
    BY <1>2, <2>4, <2>5, <2>6, <2>7 DEF WdtInv
<1>8. CASE ~(feedsNum < 3)
  <2>1. wQueue'["wdt"] = wQueue["wdt"] /\ feedsNum' = feedsNum
    BY <1>3, <1>8 DEF W!WatchedTimeout, W!Handled, W!Take
  <2>2. WdtTypes'
    BY <1>1, <1>2, <1>3, <1>4, <1>6, <2>1 DEF WdtTypes
  <2>3. FeedOnTime'
    BY <1>1, <1>2, <1>3, <1>5, <1>6, <2>1 DEF FeedOnTime
  <2>4. BarksOnce'
    BY <1>1, <1>2, <2>1 DEF BarksOnce
  <2>5. ~FeedToCome'
    BY <1>3, <1>8, <2>1 DEF FeedToCome
  <2> QED
    BY <1>2, <2>2, <2>3, <2>4, <2>5 DEF WdtInv
<1> QED
  BY <1>7, <1>8

\* The watchdog is fed.
LEMMA WdtFeedInv == ASSUME WdtInv, W!LagIsSmall, W!WdtFeed PROVE WdtInv'
<1>1. WdtTypes /\ FeedOnTime /\ BarksOnce /\ (FeedToCome => Quiet) /\ (barked => feedsNum = 3)
  BY DEF WdtInv
<1>2. /\ ~barked /\ wQueue["wdt"] # <<>> /\ Head(wQueue["wdt"]).id = "FEED"
      /\ wQueue' = W!Take(wQueue, "wdt")
      /\ age' = [age EXCEPT !["wdt"] = 0]
      /\ wLeft' = [wLeft EXCEPT !["bark"] = BarkTicks]
      /\ due' = due \ {"bark"}
      /\ UNCHANGED <<wFired, feedsNum, barked>>
  BY DEF W!WdtFeed, W!Receives, W!Handled
<1>3. /\ DOMAIN wQueue = W!Object /\ W!Object = {"watched", "wdt"} /\ W!Timer = {"feed", "bark"}
      /\ age \in [W!Object -> 0 .. Lag] /\ wLeft \in [W!Timer -> Nat]
      /\ wLeft["feed"] <= FeedTicks
  BY <1>1, WdtQueues DEF WdtTypes
<1>4. wQueue["wdt"] = <<Feeds>>
  BY <1>1, <1>2, WdtQueues DEF WdtTypes
<1>5. /\ DOMAIN wQueue' = W!Object /\ wQueue'["wdt"] = <<>>
      /\ wQueue'["watched"] = wQueue["watched"]
  BY <1>2, <1>3, <1>4, WdtQueues DEF W!Take
<1>6. /\ age' \in [W!Object -> 0 .. Lag] /\ age'["wdt"] = 0 /\ age'["watched"] = age["watched"]
  BY <1>2, <1>3, WdtNumbers
<1>7. /\ wLeft' \in [W!Timer -> Nat] /\ wLeft'["feed"] = wLeft["feed"]
      /\ wLeft'["bark"] = BarkTicks
  BY <1>2, <1>3, WdtNumbers
<1>8. /\ wQueue["watched"] = <<>> /\ "feed" \notin wFired /\ "bark" \notin wFired
  BY <1>1, <1>4 DEF FeedOnTime, FeedToCome, Quiet
<1>9. WdtTypes'
  BY <1>1, <1>2, <1>3, <1>5, <1>6, <1>7 DEF WdtTypes
<1>10. FeedOnTime'
  BY <1>1, <1>2, <1>5, <1>7, <1>8, WdtQueues DEF FeedOnTime
<1>11. BarksOnce'
  BY <1>2, <1>5, <1>8, WdtQueues DEF BarksOnce
<1>12. Quiet'
  <2>1. ~OnItsWay' /\ "bark" \notin wFired' /\ wQueue'["wdt"] # <<Barks>>
    BY <1>2, <1>5, <1>8, WdtQueues DEF OnItsWay
  <2>2. wLeft'["bark"] >= (BarkTicks - FeedTicks) + wLeft'["feed"]
    <3>1. wLeft["feed"] \in Nat
      BY <1>3
    <3> QED
      BY <1>3, <1>7, <3>1, WdtNumbers
  <2> QED
    BY <2>1, <2>2 DEF Quiet
<1> QED
  BY <1>2, <1>9, <1>10, <1>11, <1>12 DEF WdtInv

LEMMA WdtBarkInv == ASSUME WdtInv, W!LagIsSmall, W!WdtBark PROVE WdtInv'
<1>1. WdtTypes /\ FeedOnTime /\ BarksOnce /\ (FeedToCome => Quiet)
  BY DEF WdtInv
<1>2. /\ wQueue["wdt"] # <<>> /\ Head(wQueue["wdt"]).id = "bark"
      /\ wQueue' = W!Take(wQueue, "wdt")
      /\ age' = [age EXCEPT !["wdt"] = 0] /\ barked' = TRUE
      /\ UNCHANGED <<wLeft, due, wFired, feedsNum>>
  BY DEF W!WdtBark, W!Receives, W!Handled
<1>3. /\ DOMAIN wQueue = W!Object /\ W!Object = {"watched", "wdt"}
      /\ age \in [W!Object -> 0 .. Lag] /\ feedsNum \in 0 .. 3
  BY <1>1, WdtQueues DEF WdtTypes
<1>4. wQueue["wdt"] = <<Barks>>
  BY <1>1, <1>2, WdtQueues DEF WdtTypes
<1>5. /\ DOMAIN wQueue' = W!Object /\ wQueue'["wdt"] = <<>>
      /\ wQueue'["watched"] = wQueue["watched"]
  BY <1>2, <1>3, <1>4, WdtQueues DEF W!Take
<1>6. /\ age' \in [W!Object -> 0 .. Lag] /\ age'["wdt"] = 0 /\ age'["watched"] = age["watched"]
  BY <1>2, <1>3, WdtNumbers
<1>7. feedsNum = 3
  BY <1>1, <1>3, <1>4 DEF FeedToCome, Quiet
<1>8. ~FeedToCome'
  BY <1>2, <1>5, <1>7, WdtQueues DEF FeedToCome
<1>9. WdtTypes'
  BY <1>1, <1>2, <1>3, <1>5, <1>6 DEF WdtTypes
<1>10. FeedOnTime'
  BY <1>1, <1>2, <1>5, <1>6, WdtQueues DEF FeedOnTime
<1>11. BarksOnce'
  BY <1>1, <1>2, <1>5, WdtQueues DEF BarksOnce
<1> QED
  BY <1>2, <1>7, <1>8, <1>9, <1>10, <1>11 DEF WdtInv

\* A tick, which waits for no event longer than it may wait.
LEMMA WdtTickInv == ASSUME WdtInv, W!LagIsSmall, W!Tick PROVE WdtInv'
<1>1. WdtTypes /\ FeedOnTime /\ BarksOnce /\ (FeedToCome => Quiet) /\ (barked => feedsNum = 3)
  BY DEF WdtInv
<1>2. /\ due = {} /\ wFired = {}
      /\ \A a \in W!Object : wQueue[a] # <<>> => age[a] < Lag
      /\ wLeft' = [t \in W!Timer |-> IF wLeft[t] = 0 THEN 0 ELSE wLeft[t] - 1]
      /\ due' = {t \in W!Timer : wLeft[t] = 1}
      /\ age' = [a \in W!Object |-> IF wQueue[a] = <<>> THEN 0 ELSE age[a] + 1]
      /\ UNCHANGED <<wQueue, wFired, feedsNum, barked>>
  BY DEF W!Tick
<1>3. /\ W!Object = {"watched", "wdt"} /\ W!Timer = {"feed", "bark"}
      /\ age \in [W!Object -> 0 .. Lag] /\ wLeft["feed"] \in Nat /\ wLeft["bark"] \in Nat
      /\ wLeft["feed"] <= FeedTicks /\ wLeft["feed"] > 0
  <2>1. wLeft \in [W!Timer -> Nat] /\ wLeft["feed"] # 0
    BY <1>1, <1>2 DEF WdtTypes, FeedOnTime
  <2> QED
    BY <1>1, <2>1, WdtQueues DEF WdtTypes
<1>4. /\ wLeft' \in [W!Timer -> Nat] /\ wLeft'["feed"] = wLeft["feed"] - 1
      /\ wLeft["bark"] > 0 => wLeft'["bark"] = wLeft["bark"] - 1
      /\ wLeft["bark"] = 0 => wLeft'["bark"] = 0
      /\ "feed" \in due' <=> wLeft["feed"] = 1
      /\ "bark" \in due' <=> wLeft["bark"] = 1
  BY <1>2, <1>3
<1>5. /\ age' \in [W!Object -> 0 .. Lag]
      /\ \A a \in W!Object : /\ wQueue[a] = <<>> => age'[a] = 0
                             /\ wQueue[a] # <<>> => age'[a] = age[a] + 1
  BY <1>2, <1>3, WdtNumbers
<1>6. WdtTypes'
  <2>1. wLeft'["feed"] <= FeedTicks /\ due' \subseteq W!Timer
    BY <1>2, <1>3, <1>4, WdtNumbers
  <2> QED
    BY <1>1, <1>2, <1>4, <1>5, <2>1 DEF WdtTypes
<1>7. FeedOnTime'
  <2>1. "feed" \in due' <=> wLeft'["feed"] = 0
    BY <1>3, <1>4
  <2>2. "feed" \notin wFired'
    BY <1>2
  <2>3. wQueue["watched"] # <<>> =>
          wLeft'["feed"] = FeedTicks - age'["watched"] /\ wQueue["wdt"] # <<Feeds>>
    <3>1. wQueue["watched"] # <<>> => wLeft["feed"] = FeedTicks - age["watched"]
      BY <1>1 DEF FeedOnTime
    <3>2. age["watched"] \in Nat
      BY <1>3, WdtNumbers
    <3>3. wQueue["watched"] # <<>> => age'["watched"] = age["watched"] + 1 /\ wQueue["wdt"] # <<Feeds>>
      BY <1>1, <1>3, <1>5 DEF FeedOnTime
    <3>4. wQueue["watched"] # <<>> => wLeft'["feed"] = FeedTicks - age'["watched"]
      <4> SUFFICES ASSUME wQueue["watched"] # <<>>
                   PROVE  wLeft'["feed"] = FeedTicks - age'["watched"]
        OBVIOUS
      <4>1. wLeft["feed"] = FeedTicks - age["watched"] /\ age'["watched"] = age["watched"] + 1
        BY <3>1, <3>3
      <4>2. wLeft'["feed"] = wLeft["feed"] - 1 /\ FeedTicks \in Nat
        BY <1>4, WdtNumbers
      <4> QED
        BY <3>2, <4>1, <4>2
    <3> QED
      BY <3>3, <3>4
  <2>4. wQueue["wdt"] = <<Feeds>> => FeedTicks - wLeft'["feed"] <= Lag + age'["wdt"]
    <3>1. wQueue["wdt"] = <<Feeds>> => FeedTicks - wLeft["feed"] <= Lag + age["wdt"]
      BY <1>1 DEF FeedOnTime
    <3>2. age["wdt"] \in Nat /\ <<Feeds>> # <<>>
      BY <1>3, WdtNumbers, WdtQueues
    <3>3. wQueue["wdt"] = <<Feeds>> => age'["wdt"] = age["wdt"] + 1
      BY <1>3, <1>5, <3>2
    <3> QED
      BY <1>3, <1>4, <3>1, <3>2, <3>3, WdtNumbers
  <2> QED
    BY <1>2, <2>1, <2>2, <2>3, <2>4 DEF FeedOnTime
<1>8. BarksOnce'
  BY <1>1, <1>2, <1>3, <1>4 DEF BarksOnce
<1>9. FeedToCome' => Quiet'
  <2> SUFFICES ASSUME FeedToCome' PROVE Quiet'
    OBVIOUS
  <2>1. FeedToCome /\ Quiet /\ (OnItsWay' <=> OnItsWay)
    BY <1>1, <1>2 DEF FeedToCome, OnItsWay
  <2>2. wLeft["bark"] > 0
    BY <1>1, <2>1, NotYet
  <2>3. wLeft'["bark"] = wLeft["bark"] - 1
    BY <1>4, <2>2
  <2>4. OnItsWay => wLeft'["bark"] >= (BarkTicks - FeedTicks) - (FeedTicks - wLeft'["feed"])
    BY <1>3, <1>4, <2>1, <2>3, WdtNumbers DEF Quiet
  <2>5. ~OnItsWay => wLeft'["bark"] >= (BarkTicks - FeedTicks) + wLeft'["feed"]
    BY <1>3, <1>4, <2>1, <2>3, WdtNumbers DEF Quiet
  <2> QED
    BY <1>2, <2>1, <2>4, <2>5 DEF Quiet
<1> QED
  BY <1>1, <1>2, <1>6, <1>7, <1>8, <1>9 DEF WdtInv

LEMMA WdtTickNextInv ==
  ASSUME WdtInv, W!LagIsSmall, NEW t \in W!Timer, W!TickNext(t) PROVE WdtInv'
<1>1. WdtTypes /\ FeedOnTime /\ BarksOnce /\ (FeedToCome => Quiet) /\ (barked => feedsNum = 3)
  BY DEF WdtInv
<1>2. /\ t \in due /\ wFired = {} /\ due' = due \ {t} /\ wFired' = {t}
      /\ wLeft' = [wLeft EXCEPT ![t] = IF t = "feed" THEN FeedTicks ELSE 0]
      /\ UNCHANGED <<wQueue, age, feedsNum, barked>>
  BY DEF W!TickNext
<1>3. /\ W!Timer = {"feed", "bark"} /\ wLeft \in [W!Timer -> Nat] /\ due \subseteq W!Timer
      /\ wLeft["feed"] <= FeedTicks /\ age["watched"] \in 0 .. Lag /\ age["wdt"] \in 0 .. Lag
  BY <1>1, WdtQueues DEF WdtTypes
<1>4. WdtTypes'
  BY <1>1, <1>2, <1>3, WdtNumbers DEF WdtTypes
<1>5. CASE t = "feed"
  <2>1. /\ wLeft["feed"] = 0 /\ wLeft'["feed"] = FeedTicks /\ wLeft'["bark"] = wLeft["bark"]
        /\ wLeft["bark"] \in Nat
    BY <1>1, <1>2, <1>3, <1>5 DEF FeedOnTime
  <2>2. wQueue["watched"] = <<>>
    BY <1>1, <1>3, <2>1, WdtNumbers DEF FeedOnTime
  <2>3. wQueue["wdt"] # <<Feeds>>
    BY <1>1, <1>3, <2>1, WdtNumbers DEF FeedOnTime
  <2>4. FeedOnTime'
    <3>1. "feed" \notin due' /\ wLeft'["feed"] # 0
      BY <1>2, <1>5, <2>1, WdtNumbers
    <3> QED
      BY <1>2, <2>1, <2>2, <2>3, <3>1 DEF FeedOnTime
  <2>5. BarksOnce'
    BY <1>1, <1>2, <1>5, <2>1 DEF BarksOnce
  <2>6. FeedToCome' => Quiet'
    <3> SUFFICES ASSUME FeedToCome' PROVE Quiet'
      OBVIOUS
    <3>1. Quiet /\ ~OnItsWay /\ OnItsWay'
      BY <1>1, <1>2, <1>5, <2>2, <2>3 DEF FeedToCome, OnItsWay
    <3>2. wLeft'["bark"] >= (BarkTicks - FeedTicks) - (FeedTicks - wLeft'["feed"])
      BY <2>1, <3>1, WdtNumbers DEF Quiet
    <3> QED
      BY <1>2, <1>5, <3>1, <3>2 DEF Quiet
  <2> QED
    BY <1>1, <1>2, <1>4, <2>4, <2>5, <2>6 DEF WdtInv
<1>6. CASE t = "bark"
  <2>1. /\ wLeft["bark"] = 0 /\ wLeft'["bark"] = 0 /\ wLeft'["feed"] = wLeft["feed"]
    BY <1>1, <1>2, <1>3, <1>6 DEF BarksOnce
  <2>2. ~FeedToCome
    BY <1>1, <2>1, NotYet
  <2>3. ~FeedToCome'
    BY <1>2, <2>2 DEF FeedToCome
  <2>4. wQueue["wdt"] # <<Barks>>
    BY <1>1, <1>2, <1>6 DEF BarksOnce
  <2>5. FeedOnTime'
    BY <1>1, <1>2, <1>6, <2>1 DEF FeedOnTime
  <2>6. BarksOnce'
    BY <1>2, <1>6, <2>1, <2>4 DEF BarksOnce
  <2> QED
    BY <1>1, <1>2, <1>4, <2>3, <2>5, <2>6 DEF WdtInv
<1> QED
  BY <1>3, <1>5, <1>6

LEMMA WdtTickPostInv ==
  ASSUME WdtInv, W!LagIsSmall, NEW t \in W!Timer, W!TickPost(t) PROVE WdtInv'
<1>1. WdtTypes /\ FeedOnTime /\ BarksOnce /\ (FeedToCome => Quiet) /\ (barked => feedsNum = 3)
  BY DEF WdtInv
<1>2. /\ t \in wFired /\ wFired' = {}
      /\ wQueue' = W!Send(wQueue, {W!Owner(t)}, <<W!Event(t)>>)
      /\ UNCHANGED <<wLeft, due, age, feedsNum, barked>>
  BY DEF W!TickPost
<1>3. /\ DOMAIN wQueue = W!Object /\ W!Object = {"watched", "wdt"} /\ W!Timer = {"feed", "bark"}
      /\ age["watched"] \in 0 .. Lag /\ age["wdt"] \in 0 .. Lag
  BY <1>1, WdtQueues DEF WdtTypes
<1>4. DOMAIN wQueue' = W!Object
  BY <1>2, <1>3 DEF W!Send
<1>5. CASE t = "feed"
  <2>1. wQueue["watched"] = <<>> /\ wQueue["wdt"] # <<Feeds>> /\ wLeft["feed"] = FeedTicks
    BY <1>1, <1>2, <1>5 DEF FeedOnTime
  <2>2. wQueue'["watched"] = <<ToFeed>> /\ wQueue'["wdt"] = wQueue["wdt"]
    <3>1. wQueue'["watched"] = <<>> \o <<ToFeed>> /\ wQueue'["wdt"] = wQueue["wdt"]
      BY <1>2, <1>3, <1>5, <2>1 DEF W!Send, W!Owner, ToFeed
    <3> QED
      BY <3>1, WdtQueues
  <2>3. <<ToFeed>> # <<>> /\ age["watched"] = 0
    BY <1>1, <1>3, <2>1, WdtQueues DEF WdtTypes
  <2>4. WdtTypes'
    BY <1>1, <1>2, <1>3, <1>4, <2>2, <2>3 DEF WdtTypes
  <2>5. FeedOnTime'
    <3>1. wLeft["feed"] = FeedTicks - age["watched"]
      BY <2>1, <2>3, WdtNumbers
    <3> QED
      BY <1>1, <1>2, <2>1, <2>2, <3>1 DEF FeedOnTime
  <2>6. BarksOnce'
    BY <1>1, <1>2, <2>2 DEF BarksOnce
  <2>7. FeedToCome' => Quiet'
    BY <1>1, <1>2, <1>5, <2>2, <2>3 DEF FeedToCome, Quiet, OnItsWay
  <2> QED
    BY <1>1, <1>2, <2>4, <2>5, <2>6, <2>7 DEF WdtInv
<1>6. CASE t = "bark"
  <2>1. /\ wQueue["wdt"] # <<Barks>> /\ wLeft["bark"] = 0 /\ "bark" \notin due
    BY <1>1, <1>2, <1>6 DEF BarksOnce
  <2>2. ~FeedToCome
    BY <1>1, <1>2, <1>6 DEF Quiet
  <2>3. wQueue["wdt"] = <<>>
    BY <1>1, <2>1, <2>2 DEF WdtTypes, FeedToCome
  <2>4. wQueue'["wdt"] = <<Barks>> /\ wQueue'["watched"] = wQueue["watched"]
    <3>1. wQueue'["wdt"] = <<>> \o <<Barks>> /\ wQueue'["watched"] = wQueue["watched"]
      BY <1>2, <1>3, <1>6, <2>3 DEF W!Send, W!Owner, Barks
    <3> QED
      BY <3>1, WdtQueues
  <2>5. <<Barks>> # <<>> /\ <<Barks>> # <<Feeds>>
    BY WdtQueues
  <2>6. WdtTypes'
    BY <1>1, <1>2, <1>3, <1>4, <2>4, <2>5 DEF WdtTypes
  <2>7. FeedOnTime'
    BY <1>1, <1>2, <2>4, <2>5 DEF FeedOnTime
  <2>8. BarksOnce'
    BY <1>2, <2>1, <2>4 DEF BarksOnce
  <2>9. ~FeedToCome'
    BY <1>2, <2>2, <2>4, <2>5 DEF FeedToCome
  <2> QED
    BY <1>1, <1>2, <2>6, <2>7, <2>8, <2>9 DEF WdtInv
<1> QED
  BY <1>3, <1>5, <1>6

LEMMA WdtNextInv == ASSUME WdtInv, W!Next \/ UNCHANGED wVars PROVE WdtInv'
<1>1. CASE UNCHANGED wVars
  <2>1. UNCHANGED <<wQueue, wLeft, due, wFired, age, feedsNum, barked>>
    BY <1>1 DEF wVars
  <2> QED
    BY <2>1 DEF WdtInv, WdtTypes, FeedOnTime, BarksOnce, FeedToCome, Quiet, OnItsWay
<1>2. CASE W!Step
  <2> SUFFICES ASSUME W!LagIsSmall PROVE WdtInv'
    BY DEF WdtInv
  <2> QED
    BY <1>2, WatchedTimeoutInv, WdtFeedInv, WdtBarkInv, WdtTickInv, WdtTickNextInv,
       WdtTickPostInv DEF W!Step
<1> QED
  BY <1>1, <1>2 DEF W!Next, W!vars, wVars

LEMMA WdtServes == WdtInv => W!NoFalseAlarm
<1> SUFFICES ASSUME WdtInv, W!LagIsSmall
             PROVE  /\ barked => feedsNum = 3
                    /\ \A a \in W!Object : Len(wQueue[a]) <= W!QueueSize(a)
  BY DEF W!NoFalseAlarm
<1>1. Len(<<>>) = 0
  OBVIOUS
<1>2. Len(wQueue["watched"]) <= 1 /\ Len(wQueue["wdt"]) <= 2
  <2>1. WdtTypes
    BY DEF WdtInv
  <2>2. wQueue["watched"] \in {<<>>, <<ToFeed>>} /\ wQueue["wdt"] \in {<<>>, <<Feeds>>, <<Barks>>}
    BY <2>1 DEF WdtTypes
  <2>3. Len(<<ToFeed>>) = 1 /\ Len(<<Feeds>>) = 1 /\ Len(<<Barks>>) = 1
    BY WdtQueues
  <2>4. Len(wQueue["watched"]) \in {0, 1} /\ Len(wQueue["wdt"]) \in {0, 1}
    BY <1>1, <2>2, <2>3, Zenon
  <2>5. \A n \in {0, 1} : n <= 1 /\ n <= 2
    OBVIOUS
  <2> QED
    BY <2>4, <2>5
<1> QED
  BY <1>2, WdtQueues DEF WdtInv, W!QueueSize

-----------------------------------------------------------------------------
(* The applications together: one of them runs, the others stay as they are. *)

AppsInv == SyncInv /\ WorkersInv /\ DppInv /\ SmokersInv /\ LightInv /\ WdtInv

LEMMA AppsInitInv == AppsInit => AppsInv
BY SyncInitInv, WorkersInitInv, DppInitInv, SmokersInitInv, LightInitInv, WdtInitInv
   DEF AppsInit, AppsInv

LEMMA AppsNextInv == AppsInv /\ [AppsNext]_AppsVars => AppsInv'
<1> SUFFICES ASSUME AppsInv, [AppsNext]_AppsVars PROVE AppsInv'
  OBVIOUS
<1>1. Y!Next \/ UNCHANGED yVars
  BY DEF AppsNext, AppsVars
<1>2. K!Next \/ UNCHANGED kVars
  BY DEF AppsNext, AppsVars
<1>3. D!Next \/ UNCHANGED dVars
  BY DEF AppsNext, AppsVars
<1>4. S!Next \/ UNCHANGED sVars
  BY DEF AppsNext, AppsVars
<1>5. SyncInv'
  BY <1>1, SyncNextInv DEF AppsInv
<1>6. WorkersInv'
  BY <1>2, WorkersNextInv DEF AppsInv
<1>7. DppInv'
  BY <1>3, DppNextInv DEF AppsInv
<1>8. SmokersInv'
  BY <1>4, SmokersNextInv, SmokersStutter DEF AppsInv
<1>9. C!Next \/ UNCHANGED cVars
  BY DEF AppsNext, AppsVars
<1>10. W!Next \/ UNCHANGED wVars
  BY DEF AppsNext, AppsVars
<1>11. LightInv'
  BY <1>9, LightNextInv DEF AppsInv
<1>12. WdtInv'
  BY <1>10, WdtNextInv DEF AppsInv
<1> QED
  BY <1>5, <1>6, <1>7, <1>8, <1>11, <1>12 DEF AppsInv

\* What is exclusive stays so: neighbours do not eat together, one smoker smokes in
\* each round and no round is lost, a worker has one job or its report, and a job is
\* pending exactly while low's timer runs (the examples dpp, smokers, workers and
\* sync).
THEOREM ExclusiveCorrect == AppsSpec => []Exclusive
<1>1. AppsInv => Exclusive
  BY SmokersOne, WorkersOneJob, DppForks DEF AppsInv, Exclusive, SyncInv
<1> QED
  BY <1>1, AppsInitInv, AppsNextInv, PTL DEF AppsSpec

\* The timers serve: while its task feeds it in time the watchdog never barks and its
\* queues hold what is sent to them, and the traffic light always has an event or an
\* armed timer to go on with (the examples watchdog and coro).
THEOREM TimersCorrect == AppsSpec => []TimersServe
<1>1. AppsInv => TimersServe
  BY WdtServes DEF AppsInv, TimersServe, LightInv
<1> QED
  BY <1>1, AppsInitInv, AppsNextInv, PTL DEF AppsSpec

=============================================================================
