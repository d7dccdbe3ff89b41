----------------------------- MODULE RingUsers -----------------------------
(***************************************************************************)
(* apps/examples/ringbuf: a writer and a reader, two active objects, that  *)
(* pass pieces of one, two, ... bytes through a ring buffer (RingBuffer).  *)
(* Neither takes less than the piece it is at: it waits for a tick of the  *)
(* timer and asks again.                                                   *)
(***************************************************************************)
EXTENDS RingBuffer

CONSTANTS DataLen,     \* datalen, 8: pieces are shorter
          Total        \* AM_TEST_RINGBUF_TOTAL

VARIABLES buf,                 \* the buffer's bytes
          writer_len, reader_len, total_len,
          asked,               \* the writer has asked for the piece it is at
          got                  \* the reader has asked for the data there is

appVars == <<buf, writer_len, reader_len, total_len, asked, got>>
allVars == <<vars, appVars>>

\* Both start with a piece of one byte, and post the event to themselves that
\* makes them ask for it.
WriterInit == writer_len = 1 /\ asked = FALSE
ReaderInit == reader_len = 1 /\ total_len = 0 /\ got = FALSE

AppInit ==
  /\ Init /\ WriterInit /\ ReaderInit
  /\ buf = [o \in 0 .. Size - 1 |-> 0]

\* me->len of both.
NextLen(len) == IF (len + 1) % DataLen = 0 THEN 1 ELSE len + 1

Running == total_len < Total

WriterAsks ==
  /\ ~asked /\ Wants(writer_len)
  /\ asked' = TRUE
  /\ UNCHANGED <<buf, writer_len, reader_len, total_len, got>>

WriterInCall ==
  /\ \/ GetWriteTail \/ GetWriteRefused \/ GetWriteTooShort \/ GetWriteHead
     \/ GetWriteSkips \/ GetWriteWraps \/ FlushUnskips \/ FlushPublishes
  /\ UNCHANGED appVars

\* memcpy and am_ringbuf_flush
WriterCopies ==
  /\ asked /\ want = None
  /\ Flush(writer_len)
  /\ buf' = [o \in 0 .. Size - 1 |->
               IF o \in wwin.base .. wwin.base + writer_len - 1 THEN o - wwin.base ELSE buf[o]]
  /\ writer_len' = NextLen(writer_len)
  /\ asked' = FALSE
  /\ UNCHANGED <<reader_len, total_len, got>>

ReaderAsks ==
  /\ ~got \/ rwin.len < reader_len
  /\ GetRead \/ GetReadWrapped
  /\ got' = TRUE
  /\ UNCHANGED <<buf, writer_len, reader_len, total_len, asked>>

ReaderInCall ==
  /\ GetReadTail \/ GetReadAtEnd \/ GetReadRewinds \/ SeekWraps \/ SeekStores
  /\ UNCHANGED appVars

ReaderSeeks ==
  /\ got /\ rwin.len >= reader_len
  /\ Seek(reader_len)
  /\ total_len' = total_len + reader_len
  /\ reader_len' = NextLen(reader_len)
  /\ got' = FALSE
  /\ UNCHANGED <<buf, writer_len, asked>>

WriterTurn == Running /\ (WriterAsks \/ WriterInCall \/ WriterCopies)
ReaderTurn == Running /\ (ReaderAsks \/ ReaderInCall \/ ReaderSeeks)

AppNext == WriterTurn \/ ReaderTurn \/ (~Running /\ UNCHANGED allVars)

\* Both tasks run, and a timer that is armed expires.
Fairness == WF_allVars(WriterTurn) /\ WF_allVars(ReaderTurn)

AppSpec == AppInit /\ [][AppNext]_allVars /\ Fairness

-----------------------------------------------------------------------------
\* The reader finds the data it compares with (the memcmp of reader.c), a piece
\* as it was written, however the pieces lie in the buffer.
PiecesMatch ==
  got /\ rpc = "idle" /\ rwin.len >= reader_len =>
    \A i \in 0 .. reader_len - 1 : buf[rwin.base + i] = i

\* The reader and the writer do not wait for each other for good: all is read.
AllRead == <>~Running

=============================================================================
