------------------------------ MODULE TcpBuffer ------------------------------
(***************************************************************************)
(* flconc::TcpBuffer, and what TcpConnection does with its two buffers:    *)
(* input() reads from the socket straight into the free part, the codecs   *)
(* append with writeToBuffer() and consume with recycleRead(), output()    *)
(* consumes what write() took.                                             *)
(*                                                                         *)
(* The bytes of a stream are numbered 1, 2, 3, ... as they enter the       *)
(* buffer, so a byte that is lost, repeated, overtaken or overwritten is   *)
(* visible in what readers find.                                           *)
(***************************************************************************)
EXTENDS Integers

CONSTANTS
  InitSize,  \* size given to the constructor (128 in TcpConnection)
  MaxBytes   \* bound: bytes that enter the buffer

ASSUME SizeAssumption == InitSize \in Nat \ {0} /\ MaxBytes \in Nat

VARIABLES
  m_buffer,  \* index -> number of the byte there; 0: never written
  size,      \* m_buffer.size()
  m_read_index, m_write_index,
  put, got,  \* history: bytes that entered, bytes consumed
  failed     \* history: a write() of the connection failed

vars == <<m_buffer, size, m_read_index, m_write_index, put, got, failed>>

TypeOK ==
  /\ size \in Nat /\ m_buffer \in [0..(size - 1) -> Nat]
  /\ m_read_index \in Int /\ m_write_index \in Nat
  /\ put \in Nat /\ got \in Nat /\ failed \in BOOLEAN

Init ==
  /\ size = InitSize /\ m_buffer = [i \in 0..(InitSize - 1) |-> 0]
  /\ m_read_index = 0 /\ m_write_index = 0
  /\ put = 0 /\ got = 0 /\ failed = FALSE

readAble == m_write_index - m_read_index
writeAble == size - m_write_index

\* Mutant: the new vector has room for the contents only.
Moved_Short(b, r, w, n) ==
  [i \in 0..(w - r - 1) |-> b[r + i]]

\* The contents [r, w) of a buffer b, moved to the front of a new vector of n.
Moved(b, r, w, n) ==
  [i \in 0..(n - 1) |-> IF i < w - r THEN b[r + i] ELSE 0]

\* The bytes put + 1 .. put + n, stored from index w on.
Stored(b, w, n) ==
  [i \in DOMAIN b |-> IF w <= i /\ i < w + n THEN put + 1 + (i - w) ELSE b[i]]

\* Mutant: compaction forgets to move the write index.
adjustBuffer_KeepWrite(b, r, w) ==
  IF r > size \div 3
    THEN /\ m_buffer' = Moved(b, r, w, size)
         /\ m_read_index' = 0 /\ m_write_index' = w
    ELSE m_buffer' = b /\ m_read_index' = r /\ m_write_index' = w

\* Mutant: compaction starts at the end of the buffer instead of a third.
adjustBuffer_Late(b, r, w) ==
  IF r >= size
    THEN /\ m_buffer' = Moved(b, r, w, size)
         /\ m_read_index' = 0 /\ m_write_index' = w - r
    ELSE m_buffer' = b /\ m_read_index' = r /\ m_write_index' = w

\* adjustBuffer(): compact once more than a third has been consumed.
adjustBuffer(b, r, w) ==
  IF r > size \div 3
    THEN /\ m_buffer' = Moved(b, r, w, size)
         /\ m_read_index' = 0 /\ m_write_index' = w - r
    ELSE m_buffer' = b /\ m_read_index' = r /\ m_write_index' = w

\* Mutant: the new vector is sized without the bytes already there.
GrownSize_Small(n) == (3 * n) \div 2

\* (int) (1.5 * (m_write_index + size))
GrownSize(n) == (3 * (m_write_index + n)) \div 2

\* What resizeBuffer(n) keeps of the unread bytes: min(size, readAble()).
Kept(n) == IF n < readAble THEN n ELSE readAble

\* writeToBuffer() of n bytes: resizeBuffer() first when they do not fit.
writeToBuffer(n) ==
  /\ ~failed /\ put + n <= MaxBytes
  /\ IF n > writeAble
       THEN LET c == Kept(GrownSize(n))
            IN  /\ size' = GrownSize(n)
                /\ m_buffer' = Stored(Moved(m_buffer, m_read_index, m_read_index + c, GrownSize(n)), c, n)
                /\ m_read_index' = 0 /\ m_write_index' = c + n
       ELSE /\ m_buffer' = Stored(m_buffer, m_write_index, n)
            /\ m_write_index' = m_write_index + n
            /\ UNCHANGED <<size, m_read_index>>
  /\ put' = put + n
  /\ UNCHANGED <<got, failed>>

\* One round of input(): a full buffer is doubled, then read() stores n bytes
\* at the write index and recycleWrite(n) accounts for them.
inputGrow ==
  /\ ~failed /\ writeAble = 0 /\ put < MaxBytes
  /\ size' = 2 * size
  /\ m_buffer' = Moved(m_buffer, m_read_index, m_read_index + Kept(2 * size), 2 * size)
  /\ m_read_index' = 0 /\ m_write_index' = Kept(2 * size)
  /\ UNCHANGED <<put, got, failed>>

inputRead(n) ==
  /\ ~failed /\ n <= writeAble /\ put + n <= MaxBytes
  /\ adjustBuffer(Stored(m_buffer, m_write_index, n), m_read_index, m_write_index + n)
  /\ put' = put + n
  /\ UNCHANGED <<size, got, failed>>

\* recycleRead(n) by a decoder or by output(): they consume what is there, so
\* its test against the size of the vector never fires.
recycleRead(n) ==
  /\ ~failed /\ n <= readAble
  /\ adjustBuffer(m_buffer, m_read_index + n, m_write_index)
  /\ got' = got + n
  /\ UNCHANGED <<size, put, failed>>

\* readFromBuffer() takes at most what there is.
readFromBuffer(n) ==
  /\ ~failed /\ readAble > 0
  /\ adjustBuffer(m_buffer, m_read_index + Kept(n), m_write_index)
  /\ got' = got + Kept(n)
  /\ UNCHANGED <<size, put, failed>>

\* clearBuffer() leaves an empty vector: the unread bytes are gone.
clearBuffer ==
  /\ ~failed
  /\ size' = 0 /\ m_buffer' = [i \in 0..-1 |-> 0]
  /\ m_read_index' = 0 /\ m_write_index' = 0
  /\ got' = put
  /\ UNCHANGED <<put, failed>>

\* output() hands the -1 of a failed write() to recycleRead(): the read index
\* steps back, before the buffer if it was at its start.  What later calls do
\* with such an index is not defined, and the model ends here.
recycleReadFailed ==
  /\ ~failed /\ readAble > 0
  /\ adjustBuffer(m_buffer, m_read_index - 1, m_write_index)
  /\ failed' = TRUE
  /\ UNCHANGED <<size, put, got>>

Next ==
  \/ \E n \in 1..MaxBytes :
       writeToBuffer(n) \/ inputRead(n) \/ recycleRead(n) \/ readFromBuffer(n)
  \/ inputGrow \/ clearBuffer \/ recycleReadFailed

Spec == Init /\ [][Next]_vars

-----------------------------------------------------------------------------
\* Indexes stay inside the vector, so that no memcpy reads or writes outside
\* it, until a failed write() has been recycled.
InBounds ==
  ~failed => 0 <= m_read_index /\ m_read_index <= m_write_index /\ m_write_index <= size

\* The buffer is a FIFO: between the indexes are exactly the bytes that
\* entered and were not consumed, in order, through growth and compaction.
Fifo ==
  ~failed =>
    /\ put = got + readAble
    /\ \A i \in m_read_index..(m_write_index - 1) :
         m_buffer[i] = got + 1 + (i - m_read_index)

\* At most a third of the vector is space in front of the unread bytes.
Compact == m_read_index <= size \div 3

\* What the callers of TcpBuffer rely on: nothing is read or written outside the
\* vector, no byte is lost, repeated or overtaken, and the vector does not fill
\* up with bytes long consumed (adjustBuffer(), resizeBuffer()).
Storage == InBounds /\ Fifo /\ Compact
=============================================================================
