------------------------------ MODULE RingBuffer ------------------------------
(***************************************************************************)
(* The byte ring buffer (libs/ringbuf/ringbuf.c) between one writer and    *)
(* one reader that take no lock.  The writer asks for a window of memory,  *)
(* fills it and flushes it, at once or in pieces; the reader gets a window *)
(* of data and seeks past it.  Windows are contiguous: when the rest of    *)
(* the buffer is too short, the writer skips it and goes on at offset 0.   *)
(*                                                                         *)
(* Loads and stores are sequentially consistent (common/compiler.h) and    *)
(* each is a step, but for loads of a variable that only the loading       *)
(* thread stores: these are part of the thread's next step, as is whatever *)
(* a thread does with what it loaded before it stores or returns.          *)
(*                                                                         *)
(* A byte is known by its offset: the data is intact if the reader is      *)
(* given the offsets that were flushed, in that order, and the writer none *)
(* of them before the reader is done with it.                              *)
(***************************************************************************)
EXTENDS Integers, FiniteSets, SequencesExt

CONSTANTS Size,      \* buf_size
          Requests,  \* sizes the writer asks for
          None       \* no request

ASSUME RingBufferAssumption ==
  /\ Size \in Nat \ {0}
  /\ Requests \subseteq 0 .. Size - 1
  /\ None \notin Requests

VARIABLES
  read_offset, write_offset, read_skip,  \* shared
  wpc, w,    \* where the writer is in a call, and its locals
  want,      \* the size the writer asks for until it gets it
  wwin,      \* what is left of the writer's window
  rpc, r,    \* where the reader is in a call, and its locals
  rwin,      \* what is left of the reader's window
  fifo       \* history: the offsets flushed and not sought past, oldest first

writerVars == <<write_offset, read_skip, wpc, w, want, wwin>>
readerVars == <<read_offset, rpc, r, rwin>>

vars == <<writerVars, readerVars, fifo>>

Window(base, len) == [base |-> base, len |-> len]
NoWindow == Window(0, 0)
Offsets(win) == win.base .. win.base + win.len - 1

NoLocals == [rd |-> 0, off |-> 0, next |-> 0]

NoReads == [wr |-> 0, off |-> 0, next |-> 0, len |-> 0]

\* am_ringbuf_init
Init ==
  /\ read_offset = 0 /\ write_offset = 0 /\ read_skip = 0
  /\ wpc = "idle" /\ w = NoLocals /\ want = None /\ wwin = NoWindow
  /\ rpc = "idle" /\ r = NoReads /\ rwin = NoWindow
  /\ fifo = <<>>

-----------------------------------------------------------------------------
\* The writer wants n bytes next.
Wants(n) ==
  /\ wpc = "idle" /\ want = None
  /\ want' = n
  /\ UNCHANGED <<write_offset, read_skip, wpc, w, wwin, readerVars, fifo>>

TillEnd == Size - write_offset

\* Mutant: the writer fills the buffer and makes it look empty.
TailRoomFull(rd) == TillEnd

\* Room behind the writing offset when no data is wrapped around.  An offset
\* is kept free, else a full buffer would look like an empty one.
TailRoom(rd) == IF rd = 0 THEN TillEnd - 1 ELSE TillEnd

Granted(base, len) ==
  /\ wwin' = Window(base, len)
  /\ want' = None

Refused ==
  /\ wwin' = NoWindow
  /\ UNCHANGED want

\* am_ringbuf_get_write_ptr: the window that starts at the writing offset.
GetWriteTail ==
  /\ wpc = "idle" /\ want # None
  /\ write_offset >= read_offset
  /\ TailRoom(read_offset) >= want
  /\ Granted(write_offset, TailRoom(read_offset))
  /\ UNCHANGED <<write_offset, read_skip, wpc, w, readerVars, fifo>>

GetWriteRefused ==
  /\ wpc = "idle" /\ want # None
  /\ write_offset >= read_offset
  /\ TailRoom(read_offset) < want
  /\ read_offset = 0
  /\ Refused
  /\ UNCHANGED <<write_offset, read_skip, wpc, w, readerVars, fifo>>

\* The tail is too short and the head may be free: the writer will skip the tail.
GetWriteTooShort ==
  /\ wpc = "idle" /\ want # None
  /\ write_offset >= read_offset
  /\ TailRoom(read_offset) < want
  /\ read_offset > 0
  /\ w' = [w EXCEPT !.rd = read_offset]
  /\ wpc' = "skip"
  /\ UNCHANGED <<write_offset, read_skip, want, wwin, readerVars, fifo>>

GetWriteSkips ==
  /\ wpc = "skip"
  /\ read_skip' = TillEnd
  /\ wpc' = "wrap"
  /\ UNCHANGED <<write_offset, w, want, wwin, readerVars, fifo>>

\* Mutant: the writer wraps only if it can grant the window.
GetWriteWrapsIfRoom ==
  /\ wpc = "wrap"
  /\ IF w.rd <= want THEN Refused /\ UNCHANGED write_offset
                     ELSE Granted(0, w.rd - 1) /\ write_offset' = 0
  /\ wpc' = "idle" /\ w' = NoLocals
  /\ UNCHANGED <<read_skip, readerVars, fifo>>

GetWriteWraps ==
  /\ wpc = "wrap"
  /\ write_offset' = 0
  /\ IF w.rd <= want THEN Refused ELSE Granted(0, w.rd - 1)
  /\ wpc' = "idle" /\ w' = NoLocals
  /\ UNCHANGED <<read_skip, readerVars, fifo>>

\* The data is wrapped around: the room is between the offsets.
GetWriteHead ==
  /\ wpc = "idle" /\ want # None
  /\ write_offset < read_offset
  /\ LET room == read_offset - write_offset - 1
     IN  IF room >= want THEN Granted(write_offset, room) ELSE Refused
  /\ UNCHANGED <<write_offset, read_skip, wpc, w, readerVars, fifo>>

-----------------------------------------------------------------------------
\* am_ringbuf_flush loads the reading offset; its assertions.
FlushAllowed(n) ==
  IF write_offset >= read_offset THEN n <= TailRoom(read_offset)
                                 ELSE n < read_offset - write_offset

\* Mutant: a stale skip is left behind.
FlushNextStep(n) == "publish"

FlushStep(n) ==
  IF write_offset >= read_offset /\ (write_offset + n) % Size = 0 THEN "unskip"
                                                                  ELSE "publish"

Flush(n) ==
  /\ wpc = "idle"
  /\ wwin # NoWindow /\ n <= wwin.len
  /\ FlushAllowed(n)
  /\ w' = [w EXCEPT !.off = n, !.next = (write_offset + n) % Size]
  /\ wpc' = FlushStep(n)
  /\ UNCHANGED <<write_offset, read_skip, want, wwin, readerVars, fifo>>

FlushUnskips ==
  /\ wpc = "unskip"
  /\ read_skip' = 0
  /\ wpc' = "publish"
  /\ UNCHANGED <<write_offset, w, want, wwin, readerVars, fifo>>

FlushPublishes ==
  /\ wpc = "publish"
  /\ write_offset' = w.next
  /\ wwin' = Window(wwin.base + w.off, wwin.len - w.off)
  /\ fifo' = fifo \o [i \in 1 .. w.off |-> wwin.base + i - 1]
  /\ wpc' = "idle" /\ w' = NoLocals
  /\ UNCHANGED <<read_skip, want, readerVars>>

-----------------------------------------------------------------------------
\* am_ringbuf_get_read_ptr, when the data is not wrapped around.
GetRead ==
  /\ rpc = "idle"
  /\ read_offset <= write_offset
  /\ rwin' = IF read_offset = write_offset THEN NoWindow
             ELSE Window(read_offset, write_offset - read_offset)
  /\ UNCHANGED <<read_offset, rpc, r, writerVars, fifo>>

\* When it is, how much there is up to the end depends on read_skip.
GetReadWrapped ==
  /\ rpc = "idle"
  /\ read_offset > write_offset
  /\ r' = [r EXCEPT !.wr = write_offset]
  /\ rpc' = "getskip"
  /\ UNCHANGED <<read_offset, rwin, writerVars, fifo>>

\* Mutant: the skipped bytes are given to the reader.
ReadTailSkipIgnored == Size - read_offset

ReadTail == Size - read_offset - read_skip

GetReadTail ==
  /\ rpc = "getskip"
  /\ ReadTail > 0
  /\ rwin' = Window(read_offset, ReadTail)
  /\ rpc' = "idle" /\ r' = NoReads
  /\ UNCHANGED <<read_offset, writerVars, fifo>>

GetReadAtEnd ==
  /\ rpc = "getskip"
  /\ ReadTail = 0
  /\ rpc' = "rewind"
  /\ UNCHANGED <<read_offset, r, rwin, writerVars, fifo>>

GetReadRewinds ==
  /\ rpc = "rewind"
  /\ read_offset' = 0
  /\ rwin' = Window(0, r.wr)
  /\ rpc' = "idle" /\ r' = NoReads
  /\ UNCHANGED <<writerVars, fifo>>

-----------------------------------------------------------------------------
\* am_ringbuf_seek; a call with offset zero does nothing.
Seek(n) ==
  /\ rpc = "idle"
  /\ n \in 1 .. rwin.len
  /\ read_offset # write_offset
  /\ IF read_offset > write_offset
     THEN /\ rpc' = "seekskip"
          /\ r' = [r EXCEPT !.off = n]
     ELSE /\ n <= write_offset - read_offset
          /\ rpc' = "seek"
          /\ r' = [r EXCEPT !.off = n, !.next = read_offset + n]
  /\ UNCHANGED <<read_offset, rwin, writerVars, fifo>>

SeekWraps ==
  /\ rpc = "seekskip"
  /\ r.off <= ReadTail
  /\ r' = [r EXCEPT !.next = (read_offset + r.off) % (Size - read_skip)]
  /\ rpc' = "seek"
  /\ UNCHANGED <<read_offset, rwin, writerVars, fifo>>

SeekStores ==
  /\ rpc = "seek"
  /\ read_offset' = r.next
  /\ rwin' = Window(rwin.base + r.off, rwin.len - r.off)
  /\ fifo' = SubSeq(fifo, r.off + 1, Len(fifo))
  /\ rpc' = "idle" /\ r' = NoReads
  /\ UNCHANGED writerVars

\* am_ringbuf_get_data_size, called by the reader.  r.len is a history variable.
AskDataSize ==
  /\ rpc = "idle"
  /\ read_offset > write_offset
  /\ r' = [r EXCEPT !.wr = write_offset, !.len = Len(fifo)]
  /\ rpc' = "datasize"
  /\ UNCHANGED <<read_offset, rwin, writerVars, fifo>>

GetDataSize ==
  /\ rpc = "datasize"
  /\ rpc' = "idle" /\ r' = NoReads
  /\ UNCHANGED <<read_offset, rwin, writerVars, fifo>>

-----------------------------------------------------------------------------
GetWrite == GetWriteTail \/ GetWriteRefused \/ GetWriteTooShort \/ GetWriteHead

WriterStep == GetWriteSkips \/ GetWriteWraps \/ FlushUnskips \/ FlushPublishes

Read == GetRead \/ GetReadWrapped

ReaderStep ==
  \/ GetReadTail \/ GetReadAtEnd \/ GetReadRewinds
  \/ SeekWraps \/ SeekStores \/ GetDataSize

Next ==
  \/ \E n \in Requests : Wants(n)
  \/ GetWriteTail
  \/ GetWriteRefused
  \/ GetWriteTooShort
  \/ GetWriteSkips
  \/ GetWriteWraps
  \/ GetWriteHead
  \/ \E n \in 0 .. Size - 1 : Flush(n)
  \/ FlushUnskips
  \/ FlushPublishes
  \/ GetRead
  \/ GetReadWrapped
  \/ GetReadTail
  \/ GetReadAtEnd
  \/ GetReadRewinds
  \/ \E n \in 1 .. Size - 1 : Seek(n)
  \/ SeekWraps
  \/ SeekStores
  \/ AskDataSize
  \/ GetDataSize

Spec == Init /\ [][Next]_vars

\* A call that began ends; the writer asks again until it is granted what it
\* wants, and the reader keeps reading and seeking, whatever else they do in
\* between (the writer and the reader of apps/examples/ringbuf retry on a timer).
FairSpec ==
  /\ Spec
  /\ WF_vars(WriterStep) /\ WF_vars(ReaderStep)
  /\ SF_vars(GetWrite) /\ SF_vars(Read)
  /\ SF_vars(\E n \in 1 .. Size - 1 : Seek(n))

-----------------------------------------------------------------------------
Windows == [base : 0 .. Size, len : 0 .. Size - 1]

\* Types: offsets stay within the buffer, and only what is in the buffer is unread.
TypeOK ==
  /\ read_offset \in 0 .. Size - 1
  /\ write_offset \in 0 .. Size - 1
  /\ read_skip \in 0 .. Size - 1
  /\ wpc \in {"idle", "skip", "wrap", "unskip", "publish"}
  /\ w \in [rd : 0 .. Size - 1, off : 0 .. Size - 1, next : 0 .. Size - 1]
  /\ want \in Requests \cup {None}
  /\ wwin \in Windows
  /\ rpc \in {"idle", "getskip", "rewind", "seekskip", "seek", "datasize"}
  /\ r \in [wr : 0 .. Size - 1, off : 0 .. Size - 1, next : 0 .. Size - 1, len : 0 .. Size - 1]
  /\ rwin \in Windows
  /\ fifo \in Seq(0 .. Size - 1) /\ Len(fifo) < Size

\* The reader's window is the oldest unread data, in the order it was written.
ReadsInOrder == \A i \in 1 .. rwin.len : i <= Len(fifo) /\ fifo[i] = rwin.base + i - 1

\* The writer's window lies in the buffer and holds no byte that is unread.
WritesApart ==
  /\ \A o \in Offsets(wwin) : o \in 0 .. Size - 1 /\ o \notin ToSet(fifo)
  /\ IsInjective(fifo)

\* No byte is lost, duplicated, reordered or overwritten before it is read.
DataIntact == ReadsInOrder /\ WritesApart

\* What am_ringbuf_get_data_size answers, and am_ringbuf_get_free_size to the
\* writer.
DataSize ==
  IF read_offset <= write_offset THEN write_offset - read_offset
  ELSE Size - read_offset - read_skip + write_offset

FreeSize ==
  IF write_offset >= read_offset THEN Size - 1 - write_offset + read_offset
  ELSE IF read_offset = Size - read_skip THEN Size - write_offset - 1
  ELSE read_offset - write_offset - 1

\* The data size is the amount of unread data although it is computed from
\* three loads; data, free and skipped bytes make up the buffer, less the one
\* that is kept free; and the assertions of ringbuf.c (get_read_ptr, flush,
\* seek, get_data_size, the writer's get_free_size) hold when they are reached.
SizesExact ==
  /\ DataSize = Len(fifo)
  /\ rpc = "datasize" => Size - read_offset - read_skip + r.wr = r.len
  /\ wpc = "idle" =>
       DataSize + FreeSize \in {Size - 1, Size - 1 - read_skip}
  /\ wpc = "idle" /\ write_offset < read_offset => read_offset <= Size - read_skip
  /\ rpc \in {"getskip", "datasize"} => ReadTail >= 0
  /\ rpc = "seekskip" => r.off <= ReadTail
  /\ rpc = "idle" /\ rwin.len > 0 =>
       /\ read_offset # write_offset
       /\ read_offset < write_offset => rwin.len <= write_offset - read_offset
  /\ wpc = "idle" /\ wwin # NoWindow => FlushAllowed(wwin.len)

\* A writer that insists on any size below the buffer's gets its window while
\* the reader keeps reading, wherever the offsets are; and unread data is read.
Served ==
  /\ \A n \in Requests : want = n ~> want = None
  /\ []<>(fifo = <<>> \/ rwin.len > 0)

=============================================================================
