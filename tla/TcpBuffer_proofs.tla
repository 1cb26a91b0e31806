--------------------------- MODULE TcpBuffer_proofs ---------------------------
(***************************************************************************)
(* Proofs about TcpBuffer, for every initial size and any number of bytes, *)
(* and about the codecs, for every sequence of messages and of requests.   *)
(***************************************************************************)
EXTENDS Codecs, WellFoundedInduction, TLAPS

\* A vector of s bytes, and one that holds the bytes g + 1, g + 2, ... from
\* index r to index w.
Vector(b, s) == b \in [0..(s - 1) -> Nat]
Holds(b, r, w, g) == \A i \in r..(w - 1) : b[i] = g + 1 + (i - r)

\* Typed, in bounds, first in first out and compact: inductive together.
IInv == TypeOK /\ InBounds /\ Fifo /\ Compact

\* What the invariant says of indexes r and w, of a vector b of s bytes and of
\* the counters p and g of the bytes that entered and left.
Good(b, s, r, w, p, g) ==
  /\ s \in Nat /\ Vector(b, s) /\ r \in Nat /\ w \in Nat /\ p \in Nat /\ g \in Nat
  /\ r <= w /\ w <= s /\ p = g + (w - r) /\ Holds(b, r, w, g)

\* The invariant of a buffer on which no write() has failed, in those terms.
LEMMA IInvGood ==
  failed = FALSE =>
    (IInv <=> /\ Good(m_buffer, size, m_read_index, m_write_index, put, got)
              /\ m_read_index <= size \div 3)
<1> SUFFICES ASSUME failed = FALSE
             PROVE  IInv <=> /\ Good(m_buffer, size, m_read_index, m_write_index, put, got)
                             /\ m_read_index <= size \div 3
  OBVIOUS
<1>1. ASSUME IInv
      PROVE  /\ Good(m_buffer, size, m_read_index, m_write_index, put, got)
             /\ m_read_index <= size \div 3
  <2>1. Holds(m_buffer, m_read_index, m_write_index, got) /\ put = got + (m_write_index - m_read_index)
    BY <1>1 DEF IInv, Fifo, Holds, readAble
  <2>2. m_read_index \in Nat /\ m_read_index <= m_write_index /\ m_write_index <= size
    BY <1>1 DEF IInv, TypeOK, InBounds
  <2> QED BY <1>1, <2>1, <2>2 DEF IInv, Good, Vector, TypeOK, Compact
<1>2. ASSUME Good(m_buffer, size, m_read_index, m_write_index, put, got),
             m_read_index <= size \div 3
      PROVE  IInv
  <2>1. TypeOK
    <3>1. failed \in BOOLEAN OBVIOUS
    <3>2. m_buffer \in [0..(size - 1) -> Nat] BY <1>2 DEF Good, Vector
    <3>3. size \in Nat /\ m_read_index \in Int /\ m_write_index \in Nat /\ put \in Nat /\ got \in Nat
      BY <1>2 DEF Good
    <3> QED BY <3>1, <3>2, <3>3 DEF TypeOK
  <2>2. InBounds BY <1>2 DEF Good, InBounds
  <2>3. Fifo BY <1>2 DEF Good, Holds, Fifo, readAble
  <2> QED BY <1>2, <2>1, <2>2, <2>3 DEF IInv, Compact
<1> QED BY <1>1, <1>2

\* The same of the next state.
LEMMA IInvGoodNext ==
  failed' = FALSE =>
    (IInv' <=> /\ Good(m_buffer', size', m_read_index', m_write_index', put', got')
               /\ m_read_index' <= size' \div 3)
<1>1. (failed = FALSE =>
         (IInv <=> /\ Good(m_buffer, size, m_read_index, m_write_index, put, got)
                   /\ m_read_index <= size \div 3))'
  BY IInvGood, PTL
<1> QED BY <1>1

\* adjustBuffer() keeps the unread bytes of a vector, and leaves at most a
\* third of it in front of them.
LEMMA adjustBufferKeeps ==
  ASSUME NEW b, NEW r, NEW w, NEW p, NEW g,
         Good(b, size, r, w, p, g), adjustBuffer(b, r, w)
  PROVE  /\ Good(m_buffer', size, m_read_index', m_write_index', p, g)
         /\ m_read_index' <= size \div 3
<1>0. /\ size \in Nat /\ b \in [0..(size - 1) -> Nat] /\ r \in Nat /\ w \in Nat
      /\ p \in Nat /\ g \in Nat /\ r <= w /\ w <= size /\ p = g + (w - r)
      /\ \A i \in r..(w - 1) : b[i] = g + 1 + (i - r)
  BY DEF Good, Vector, Holds
<1>1. size \div 3 \in Nat
  BY <1>0
<1>2. CASE r > size \div 3
  <2>1. m_buffer' = Moved(b, r, w, size) /\ m_read_index' = 0 /\ m_write_index' = w - r
    BY <1>2 DEF adjustBuffer
  <2>2. \A i \in 0..(w - r - 1) : r + i \in r..(w - 1) /\ r + i \in 0..(size - 1)
    BY <1>0
  <2>3. \A i \in 0..(w - r - 1) : m_buffer'[i] = b[r + i]
    BY <1>0, <2>1 DEF Moved
  <2>4. m_buffer' \in [0..(size - 1) -> Nat]
    BY <1>0, <2>1, <2>2 DEF Moved
  <2>5. \A i \in 0..(w - r - 1) : m_buffer'[i] = g + 1 + i
    BY <1>0, <2>2, <2>3
  <2> QED BY <1>0, <1>1, <2>1, <2>4, <2>5 DEF Good, Vector, Holds
<1>3. CASE ~(r > size \div 3)
  BY <1>0, <1>1, <1>3 DEF adjustBuffer, Good, Vector, Holds
<1> QED BY <1>2, <1>3

\* Storing the next n bytes at the write index, where they fit, extends the
\* unread bytes by them.
LEMMA StoredKeeps ==
  ASSUME NEW b, NEW s, NEW r, NEW w, NEW g, NEW n \in Nat,
         Good(b, s, r, w, put, g), w + n <= s
  PROVE  Good(Stored(b, w, n), s, r, w + n, put + n, g)
<1>0. /\ s \in Nat /\ b \in [0..(s - 1) -> Nat] /\ r \in Nat /\ w \in Nat
      /\ put \in Nat /\ g \in Nat /\ r <= w /\ w <= s /\ put = g + (w - r)
      /\ \A i \in r..(w - 1) : b[i] = g + 1 + (i - r)
  BY DEF Good, Vector, Holds
<1>1. DOMAIN b = 0..(s - 1)
  BY <1>0
<1>2. Stored(b, w, n) \in [0..(s - 1) -> Nat]
  <2>1. \A i \in 0..(s - 1) : w <= i /\ i < w + n => put + 1 + (i - w) \in Nat
    BY <1>0
  <2> QED BY <1>0, <1>1, <2>1 DEF Stored
<1>3. ASSUME NEW i \in r..(w + n - 1) PROVE Stored(b, w, n)[i] = g + 1 + (i - r)
  <2>1. i \in 0..(s - 1)
    BY <1>0
  <2>2. CASE i < w
    <3>1. Stored(b, w, n)[i] = b[i] BY <1>0, <1>1, <2>1, <2>2 DEF Stored
    <3>2. i \in r..(w - 1) BY <1>0, <2>2
    <3> QED BY <1>0, <3>1, <3>2
  <2>3. CASE w <= i
    <3>1. Stored(b, w, n)[i] = put + 1 + (i - w) BY <1>0, <1>1, <2>1, <2>3 DEF Stored
    <3> QED BY <1>0, <3>1
  <2> QED BY <1>0, <2>2, <2>3
<1> QED BY <1>0, <1>2, <1>3 DEF Good, Vector, Holds

\* resizeBuffer() to n, with room for the unread bytes, keeps all of them.
LEMMA MovedKeeps ==
  ASSUME NEW n \in Nat, readAble <= n,
         Good(m_buffer, size, m_read_index, m_write_index, put, got)
  PROVE  Good(Moved(m_buffer, m_read_index, m_read_index + Kept(n), n), n, 0, Kept(n), put, got)
<1> DEFINE b == Moved(m_buffer, m_read_index, m_read_index + Kept(n), n)
           r == m_read_index
           w == m_write_index
<1>0. /\ size \in Nat /\ m_buffer \in [0..(size - 1) -> Nat] /\ r \in Nat /\ w \in Nat
      /\ put \in Nat /\ got \in Nat /\ r <= w /\ w <= size /\ put = got + (w - r)
      /\ \A i \in r..(w - 1) : m_buffer[i] = got + 1 + (i - r)
  BY DEF Good, Vector, Holds
<1>1. Kept(n) = w - r /\ w - r \in Nat /\ w - r <= n
  BY <1>0 DEF Kept, readAble
<1>2. \A i \in 0..(w - r - 1) : r + i \in 0..(size - 1) /\ r + i \in r..(w - 1)
  BY <1>0
<1>3. b \in [0..(n - 1) -> Nat]
  BY <1>0, <1>1, <1>2 DEF Moved
<1>4. \A i \in 0..(w - r - 1) : b[i] = m_buffer[r + i]
  BY <1>0, <1>1 DEF Moved
<1>5. \A i \in 0..(w - r - 1) : b[i] = got + 1 + i
  BY <1>0, <1>2, <1>4
<1> QED BY <1>0, <1>1, <1>3, <1>5 DEF Good, Vector, Holds

\* The vector that writeToBuffer() asks for has room for what is before the
\* write index and for the n new bytes.
LEMMA GrownSizeFits ==
  ASSUME m_write_index \in Nat, NEW n \in Nat
  PROVE  GrownSize(n) \in Nat /\ GrownSize(n) >= m_write_index + n
  BY DEF GrownSize

\* Consuming n of the unread bytes of a good buffer.
LEMMA Consume ==
  ASSUME IInv, failed = FALSE, NEW n \in Nat, n <= readAble,
         adjustBuffer(m_buffer, m_read_index + n, m_write_index),
         got' = got + n, size' = size, put' = put, failed' = failed
  PROVE  IInv'
<1> DEFINE r == m_read_index
           w == m_write_index
<1>1. Good(m_buffer, size, r, w, put, got) BY IInvGood
<1>2. Good(m_buffer, size, r + n, w, put, got + n)
  <2>1. /\ size \in Nat /\ m_buffer \in [0..(size - 1) -> Nat] /\ r \in Nat /\ w \in Nat
        /\ put \in Nat /\ got \in Nat /\ r <= w /\ w <= size /\ put = got + (w - r)
        /\ \A i \in r..(w - 1) : m_buffer[i] = got + 1 + (i - r)
    BY <1>1 DEF Good, Vector, Holds
  <2>2. n <= w - r BY DEF readAble
  <2>3. ASSUME NEW i \in (r + n)..(w - 1) PROVE m_buffer[i] = (got + n) + 1 + (i - (r + n))
    <3>1. i \in r..(w - 1) BY <2>1
    <3>2. m_buffer[i] = got + 1 + (i - r) BY <2>1, <3>1
    <3> QED BY <2>1, <3>1, <3>2
  <2>4. Holds(m_buffer, r + n, w, got + n) BY <2>3 DEF Holds
  <2> QED BY <2>1, <2>2, <2>4 DEF Good, Vector
<1>3. /\ Good(m_buffer', size, m_read_index', m_write_index', put, got + n)
      /\ m_read_index' <= size \div 3
  BY <1>2, adjustBufferKeeps
<1> QED BY <1>3, IInvGoodNext

\* The inductive invariant is kept by every operation on the buffer.
LEMMA IInvStep == IInv /\ [Next]_vars => IInv'
<1> SUFFICES ASSUME IInv, [Next]_vars PROVE IInv'
  OBVIOUS
<1> DEFINE r == m_read_index
           w == m_write_index
<1>0. failed = FALSE => Good(m_buffer, size, r, w, put, got) /\ r <= size \div 3
  BY IInvGood
<1>1. ASSUME NEW n \in 1..MaxBytes, writeToBuffer(n) PROVE IInv'
  <2>1. n \in Nat /\ failed = FALSE
    BY <1>1, SizeAssumption DEF writeToBuffer, IInv, TypeOK
  <2>2. Good(m_buffer, size, r, w, put, got) /\ r <= size \div 3
    BY <1>0, <2>1
  <2>3. size \in Nat /\ r \in Nat /\ w \in Nat /\ r <= w /\ w <= size
    BY <2>2 DEF Good
  <2>4. CASE n > writeAble
    <3>1. PICK m : m = GrownSize(n)
      OBVIOUS
    <3>2. m \in Nat /\ m >= w + n
      BY <2>1, <2>3, <3>1, GrownSizeFits
    <3>3. readAble <= m
      BY <2>1, <2>3, <3>2 DEF readAble
    <3>4. PICK b : b = Moved(m_buffer, r, r + Kept(m), m)
      OBVIOUS
    <3>5. Good(b, m, 0, Kept(m), put, got)
      BY <2>2, <3>2, <3>3, <3>4, MovedKeeps
    <3>6. Kept(m) \in Nat /\ Kept(m) + n <= m
      BY <2>1, <2>3, <3>2, <3>3 DEF Kept, readAble
    <3>7. Good(Stored(b, Kept(m), n), m, 0, Kept(m) + n, put + n, got)
      BY <2>1, <3>5, <3>6, StoredKeeps
    <3>8. /\ size' = m /\ m_buffer' = Stored(b, Kept(m), n)
          /\ m_read_index' = 0 /\ m_write_index' = Kept(m) + n
          /\ put' = put + n /\ got' = got /\ failed' = FALSE
      BY <1>1, <2>1, <2>4, <3>1, <3>4 DEF writeToBuffer
    <3>9. m_read_index' <= size' \div 3
      BY <3>2, <3>8
    <3> QED BY <3>7, <3>8, <3>9, IInvGoodNext
  <2>5. CASE ~(n > writeAble)
    <3>1. /\ m_buffer' = Stored(m_buffer, w, n) /\ size' = size /\ m_read_index' = r
          /\ m_write_index' = w + n /\ put' = put + n /\ got' = got /\ failed' = FALSE
      BY <1>1, <2>1, <2>5 DEF writeToBuffer
    <3>2. w + n <= size BY <2>1, <2>3, <2>5 DEF writeAble
    <3>3. Good(Stored(m_buffer, w, n), size, r, w + n, put + n, got)
      BY <2>1, <2>2, <3>2, StoredKeeps
    <3> QED BY <2>2, <3>1, <3>3, IInvGoodNext
  <2> QED BY <2>4, <2>5
<1>2. ASSUME NEW n \in 1..MaxBytes, inputRead(n) PROVE IInv'
  <2>1. n \in Nat /\ failed = FALSE
    BY <1>2, SizeAssumption DEF inputRead, IInv, TypeOK
  <2>2. Good(m_buffer, size, r, w, put, got)
    BY <1>0, <2>1
  <2>3. w + n <= size
    BY <1>2, <2>1, <2>2 DEF inputRead, writeAble, Good
  <2>4. Good(Stored(m_buffer, w, n), size, r, w + n, put + n, got)
    BY <2>1, <2>2, <2>3, StoredKeeps
  <2>5. adjustBuffer(Stored(m_buffer, w, n), r, w + n)
    BY <1>2 DEF inputRead
  <2>6. /\ Good(m_buffer', size, m_read_index', m_write_index', put + n, got)
        /\ m_read_index' <= size \div 3
    BY <2>4, <2>5, adjustBufferKeeps
  <2>7. size' = size /\ put' = put + n /\ got' = got /\ failed' = FALSE
    BY <1>2, <2>1 DEF inputRead
  <2> QED BY <2>6, <2>7, IInvGoodNext
<1>3. ASSUME NEW n \in 1..MaxBytes, recycleRead(n) PROVE IInv'
  <2>1. n \in Nat /\ failed = FALSE
    BY <1>3, SizeAssumption DEF recycleRead, IInv, TypeOK
  <2> QED BY <1>3, <2>1, Consume DEF recycleRead
<1>4. ASSUME NEW n \in 1..MaxBytes, readFromBuffer(n) PROVE IInv'
  <2>1. n \in Nat /\ failed = FALSE
    BY <1>4, SizeAssumption DEF readFromBuffer, IInv, TypeOK
  <2>2. Kept(n) \in Nat /\ Kept(n) <= readAble
    BY <1>0, <1>4, <2>1 DEF Kept, readAble, readFromBuffer, Good
  <2> QED BY <1>4, <2>1, <2>2, Consume DEF readFromBuffer
<1>5. CASE inputGrow
  <2>1. failed = FALSE
    BY <1>5 DEF inputGrow, IInv, TypeOK
  <2>2. Good(m_buffer, size, r, w, put, got)
    BY <1>0, <2>1
  <2>3. 2 * size \in Nat /\ readAble <= 2 * size
    BY <2>2 DEF readAble, Good
  <2>4. Good(Moved(m_buffer, r, r + Kept(2 * size), 2 * size), 2 * size, 0, Kept(2 * size), put, got)
    BY <2>2, <2>3, MovedKeeps
  <2>5. 0 <= (2 * size) \div 3
    BY <2>3
  <2> QED BY <1>5, <2>1, <2>4, <2>5, IInvGoodNext DEF inputGrow
<1>6. CASE clearBuffer
  <2>1. failed = FALSE
    BY <1>6 DEF clearBuffer, IInv, TypeOK
  <2>2. put \in Nat
    BY <1>0, <2>1 DEF Good
  <2>3. Good(m_buffer', 0, 0, 0, put, put)
    BY <1>6, <2>2 DEF clearBuffer, Good, Vector, Holds
  <2>4. 0 <= 0 \div 3
    OBVIOUS
  <2> QED BY <1>6, <2>1, <2>3, <2>4, IInvGoodNext DEF clearBuffer
<1>7. CASE recycleReadFailed
  <2>1. failed = FALSE
    BY <1>7 DEF recycleReadFailed, IInv, TypeOK
  <2>2. size \in Nat /\ r \in Nat /\ r <= size \div 3
    BY <1>0, <2>1 DEF Good
  <2>3. ~(r - 1 > size \div 3) /\ r - 1 <= size \div 3
    BY <2>2
  <2>4. /\ m_buffer' = m_buffer /\ m_read_index' = r - 1 /\ m_write_index' = w /\ failed' = TRUE
        /\ size' = size /\ put' = put /\ got' = got
    BY <1>7, <2>3 DEF recycleReadFailed, adjustBuffer
  <2>5. TypeOK'
    BY <2>2, <2>4 DEF IInv, TypeOK
  <2>6. InBounds' /\ Fifo'
    BY <2>4 DEF InBounds, Fifo
  <2>7. Compact'
    BY <2>3, <2>4 DEF Compact
  <2> QED BY <2>5, <2>6, <2>7 DEF IInv
<1>8. CASE UNCHANGED vars
  BY <1>8 DEF vars, IInv, TypeOK, InBounds, Fifo, Compact, readAble
<1> QED BY <1>1, <1>2, <1>3, <1>4, <1>5, <1>6, <1>7, <1>8 DEF Next

\* A new buffer satisfies the inductive invariant.
LEMMA IInvInit == Init => IInv
<1> SUFFICES ASSUME Init PROVE IInv
  OBVIOUS
<1>1. failed = FALSE /\ m_read_index <= size \div 3
  BY SizeAssumption DEF Init
<1>2. Vector(m_buffer, size)
  BY DEF Init, Vector
<1>3. Holds(m_buffer, 0, 0, 0)
  BY DEF Holds
<1>4. Good(m_buffer, size, m_read_index, m_write_index, put, got)
  BY <1>2, <1>3, SizeAssumption DEF Init, Good
<1> QED BY <1>1, <1>4, IInvGood

\* The inductive invariant holds in every reachable state.
LEMMA Invariance == Spec => []IInv
  BY IInvInit, IInvStep, PTL DEF Spec

\* The vector and the indexes of the buffer keep their types.
THEOREM TypeCorrect == Spec => []TypeOK
<1>1. IInv => TypeOK BY DEF IInv
<1> QED BY <1>1, Invariance, PTL

\* Whatever the initial size and whatever is written, read and consumed, nothing
\* is read or written outside the vector unless a failed write() was recycled,
\* the unread part is exactly the bytes that entered and were not consumed, in
\* order, and at most a third of the vector lies idle in front of it.
THEOREM StorageHolds == Spec => []Storage
<1>1. IInv => Storage BY DEF IInv, Storage
<1> QED BY <1>1, Invariance, PTL

-----------------------------------------------------------------------------
(* Induction, which a set of numbers can carry, and sequences that are     *)
(* concatenated.                                                           *)

\* Every set of numbers that is not empty has a least element.
LEMMA LeastNatural ==
  ASSUME NEW T \in SUBSET Nat, T # {}
  PROVE  \E m \in T : \A k \in T : m <= k
<1> DEFINE R == OpToRel(<, Nat)
<1>1. IsWellFoundedOn(R, Nat) BY NatLessThanWellFounded
<1>2. \A k, m \in Nat : <<k, m>> \in R <=> k < m BY DEF OpToRel
<1> HIDE DEF R
<1>3. PICK m \in T : \A k \in T : ~ (<<k, m>> \in R) BY <1>1, WFMin
<1>4. ASSUME NEW k \in T PROVE m <= k
  <2>1. k \in Nat /\ m \in Nat OBVIOUS
  <2>2. ~(k < m) BY <1>2, <1>3, <2>1
  <2> QED BY <2>1, <2>2
<1> QED BY <1>4

\* A set that holds 0 and, with each number, the next one, holds all of them.
LEMMA SetInduction ==
  ASSUME NEW T, 0 \in T, \A n \in Nat : n \in T => n + 1 \in T
  PROVE  Nat \subseteq T
<1> SUFFICES ASSUME Nat \ T # {} PROVE FALSE OBVIOUS
<1>1. PICK m \in Nat \ T : \A k \in Nat \ T : m <= k BY LeastNatural
<1>2. m # 0 /\ m - 1 \in Nat BY <1>1
<1>3. m - 1 \in T BY <1>1, <1>2
<1> QED BY <1>1, <1>2, <1>3

\* Where the elements of two sequences are after they are joined.
LEMMA Concat ==
  ASSUME NEW X, NEW s \in Seq(X), NEW t \in Seq(X)
  PROVE  /\ s \o t \in Seq(X) /\ Len(s \o t) = Len(s) + Len(t)
         /\ Len(s) \in Nat /\ Len(t) \in Nat
         /\ \A i \in 1..Len(s) : (s \o t)[i] = s[i]
         /\ \A i \in 1..Len(t) : (s \o t)[Len(s) + i] = t[i]
OBVIOUS

\* FlattenSeq() is a recursive function: f[i] are the first i sequences of s.
IsFlat(f, s, n) == f = [i \in 1..n |-> IF i = 1 THEN s[i] ELSE f[i - 1] \o s[i]]

\* There is such a function, whatever the sequences.
LEMMA FlatExists == \A s : \A n \in Nat : \E f : IsFlat(f, s, n)
<1> SUFFICES ASSUME NEW s PROVE \A n \in Nat : \E f : IsFlat(f, s, n) OBVIOUS
<1> DEFINE T == {n \in Nat : \E f : IsFlat(f, s, n)}
<1>1. 0 \in T
  <2>1. IsFlat(<<>>, s, 0) BY DEF IsFlat
  <2> QED BY <2>1
<1>2. ASSUME NEW n \in Nat, n \in T PROVE n + 1 \in T
  <2>1. PICK h : IsFlat(h, s, n) BY <1>2
  <2> DEFINE m == n + 1
             last == IF m = 1 THEN s[m] ELSE h[m - 1] \o s[m]
             g == [i \in 1..m |-> IF i = m THEN last ELSE h[i]]
  <2>2. ASSUME NEW i \in 1..m PROVE g[i] = IF i = 1 THEN s[i] ELSE g[i - 1] \o s[i]
    <3>1. CASE i = m
      <4>1. g[m] = last BY <3>1
      <4>2. m # 1 => g[m - 1] = h[m - 1]
        <5>1. m # 1 => m - 1 \in 1..m /\ m - 1 # m OBVIOUS
        <5> QED BY <5>1
      <4> QED BY <3>1, <4>1, <4>2
    <3>2. CASE i # m
      <4>1. i \in 1..n /\ g[i] = h[i] BY <3>2
      <4>2. h[i] = IF i = 1 THEN s[i] ELSE h[i - 1] \o s[i] BY <2>1, <4>1 DEF IsFlat
      <4>3. i # 1 => i - 1 \in 1..m /\ i - 1 # m BY <4>1
      <4>4. i # 1 => g[i - 1] = h[i - 1] BY <4>3
      <4> QED BY <4>1, <4>2, <4>4
    <3> QED BY <3>1, <3>2
  <2>3. g = [i \in 1..m |-> g[i]] OBVIOUS
  <2>4. m \in Nat OBVIOUS
  <2> HIDE DEF g, m
  <2>5. [i \in 1..m |-> g[i]] = [i \in 1..m |-> IF i = 1 THEN s[i] ELSE g[i - 1] \o s[i]] BY <2>2
  <2>6. IsFlat(g, s, m) BY <2>3, <2>5 DEF IsFlat
  <2>7. m \in T BY <2>4, <2>6
  <2> QED BY <2>7 DEF m
<1> HIDE DEF T
<1>3. Nat \subseteq T BY <1>1, <1>2, SetInduction
<1> QED BY <1>3 DEF T

\* FlattenSeq(s) is its last value.
LEMMA FlattenIs ==
  ASSUME NEW s, Len(s) \in Nat \ {0}
  PROVE  \E f : IsFlat(f, s, Len(s)) /\ FlattenSeq(s) = f[Len(s)]
<1> DEFINE f == CHOOSE f : f = [i \in 1..Len(s) |-> IF i = 1 THEN s[i] ELSE f[i - 1] \o s[i]]
<1>1. FlattenSeq(s) = f[Len(s)] BY DEF FlattenSeq
<1>2. f = [i \in 1..Len(s) |-> IF i = 1 THEN s[i] ELSE f[i - 1] \o s[i]]
  BY FlatExists DEF IsFlat
<1> QED BY <1>1, <1>2 DEF IsFlat

\* What a flattened sequence has of the k-th of its parts, and where; the parts
\* before it need only be as long as those of p.
IsParts(s, X, n) == s \in Seq(Seq(X)) /\ Len(s) = n
SameLens(s, p, n) == \A i \in 1..n : Len(p[i]) = Len(s[i])

FlatAt(s, p, k) ==
  /\ Len(FlattenSeq(p)) \in Nat
  /\ Len(FlattenSeq(p)) + Len(s[k]) <= Len(FlattenSeq(s))
  /\ \A j \in 1..Len(s[k]) : FlattenSeq(s)[Len(FlattenSeq(p)) + j] = s[k][j]

\* Where the elements of sequence k of s are in FlattenSeq(s), when p has parts of
\* the lengths of the first k - 1.
LEMMA FlattenAt ==
  ASSUME NEW X, NEW Y, NEW s, NEW p, NEW k, NEW m \in Nat, NEW l \in Nat, k = m + 1, k <= l,
         IsParts(s, X, l), IsParts(p, Y, m), SameLens(s, p, m)
  PROVE  FlattenSeq(s) \in Seq(X) /\ FlatAt(s, p, k)
<1>h. /\ s \in Seq(Seq(X)) /\ k \in 1..Len(s) /\ p \in Seq(Seq(Y)) /\ Len(p) = k - 1
      /\ \A i \in 1..(k - 1) : Len(p[i]) = Len(s[i])
  BY DEF IsParts, SameLens
<1> USE <1>h
<1>0. Len(s) \in Nat \ {0} /\ \A i \in 1..Len(s) : s[i] \in Seq(X) OBVIOUS
<1>c. \A a, b \in Seq(X) : /\ Len(a) \in Nat /\ Len(b) \in Nat /\ Len(a \o b) = Len(a) + Len(b)
                           /\ \A i \in 1..Len(a) : (a \o b)[i] = a[i]
                           /\ \A i \in 1..Len(b) : (a \o b)[Len(a) + i] = b[i]
  BY Concat
<1>p. \A i \in 1..(k - 1) : p[i] \in Seq(Y) OBVIOUS
<1>1. PICK f : IsFlat(f, s, Len(s)) /\ FlattenSeq(s) = f[Len(s)] BY <1>0, FlattenIs
<1>2. \A i \in 1..Len(s) : f[i] = IF i = 1 THEN s[i] ELSE f[i - 1] \o s[i] BY <1>1 DEF IsFlat
<1>3. \A n \in 1..Len(s) : f[n] \in Seq(X)
  <2> DEFINE T == {n \in Nat : n \in 1..Len(s) => f[n] \in Seq(X)}
  <2>1. 0 \in T OBVIOUS
  <2>2. ASSUME NEW n \in Nat, n \in T PROVE n + 1 \in T
    <3> SUFFICES ASSUME n + 1 \in 1..Len(s) PROVE f[n + 1] \in Seq(X) OBVIOUS
    <3>1. CASE n = 0
      <4>1. f[1] = s[1] BY <1>2, <3>1
      <4> QED BY <1>0, <3>1, <4>1
    <3>2. CASE n # 0
      <4>1. n \in 1..Len(s) /\ n + 1 # 1 /\ (n + 1) - 1 = n BY <3>2
      <4>2. f[n] \in Seq(X) BY <2>2, <4>1
      <4>3. f[n + 1] = f[n] \o s[n + 1] BY <1>2, <4>1
      <4> QED BY <1>0, <4>2, <4>3, Concat
    <3> QED BY <3>1, <3>2
  <2> HIDE DEF T
  <2>3. Nat \subseteq T BY <2>1, <2>2, SetInduction
  <2> QED BY <2>3 DEF T
<1>4. FlattenSeq(s) \in Seq(X) BY <1>0, <1>1, <1>3
\* The first part that counts begins where p ends.
<1> DEFINE before == Len(FlattenSeq(p))
<1>5. before \in Nat /\ (k # 1 => before = Len(f[k - 1])) /\ (k = 1 => before = 0)
  <2>1. CASE k = 1
    <3>1. Len(p) = 0 BY <2>1
    <3> QED BY <2>1, <3>1 DEF FlattenSeq
  <2>2. CASE k # 1
    <3>1. Len(p) \in Nat \ {0} BY <2>2
    <3>2. PICK g : IsFlat(g, p, Len(p)) /\ FlattenSeq(p) = g[Len(p)] BY <3>1, FlattenIs
    <3>3. \A i \in 1..(k - 1) : g[i] = IF i = 1 THEN p[i] ELSE g[i - 1] \o p[i] BY <3>2 DEF IsFlat
    <3> DEFINE T == {n \in Nat : n \in 1..(k - 1) => g[n] \in Seq(Y) /\ Len(g[n]) = Len(f[n])}
    <3>4. 0 \in T OBVIOUS
    <3>5. ASSUME NEW n \in Nat, n \in T PROVE n + 1 \in T
      <4> SUFFICES ASSUME n + 1 \in 1..(k - 1)
                   PROVE  g[n + 1] \in Seq(Y) /\ Len(g[n + 1]) = Len(f[n + 1])
        OBVIOUS
      <4>0. n + 1 \in 1..Len(s) OBVIOUS
      <4>1. CASE n = 0
        <5>1. f[1] = s[1] /\ g[1] = p[1] BY <1>2, <3>3, <4>0, <4>1
        <5>2. p[1] \in Seq(Y) /\ Len(p[1]) = Len(s[1]) BY <1>p, <4>1
        <5> QED BY <4>1, <5>1, <5>2
      <4>2. CASE n # 0
        <5>1. n \in 1..(k - 1) /\ n + 1 # 1 /\ (n + 1) - 1 = n /\ n \in 1..Len(s) BY <4>2
        <5>2. g[n] \in Seq(Y) /\ Len(g[n]) = Len(f[n]) BY <3>5, <5>1
        <5>3. f[n + 1] = f[n] \o s[n + 1] /\ g[n + 1] = g[n] \o p[n + 1]
          BY <1>2, <3>3, <4>0, <5>1
        <5>4. f[n] \in Seq(X) /\ s[n + 1] \in Seq(X) /\ p[n + 1] \in Seq(Y) BY <1>0, <1>p, <1>3, <4>0, <5>1
        <5>5. Len(p[n + 1]) = Len(s[n + 1]) OBVIOUS
        <5>6. g[n + 1] \in Seq(Y) /\ Len(g[n + 1]) = Len(g[n]) + Len(p[n + 1])
          <6>1. /\ g[n] \o p[n + 1] \in Seq(Y)
                /\ Len(g[n] \o p[n + 1]) = Len(g[n]) + Len(p[n + 1])
            BY <5>2, <5>4, Concat
          <6> QED BY <5>3, <6>1
        <5>7. Len(f[n + 1]) = Len(f[n]) + Len(s[n + 1]) BY <5>3, <5>4, Concat
        <5> QED BY <5>2, <5>5, <5>6, <5>7
      <4> QED BY <4>1, <4>2
    <3> HIDE DEF T
    <3>6. Nat \subseteq T BY <3>4, <3>5, SetInduction
    <3>7. k - 1 \in T /\ k - 1 \in 1..(k - 1) BY <2>2, <3>6
    <3>8. g[k - 1] \in Seq(Y) /\ Len(g[k - 1]) = Len(f[k - 1]) BY <3>7 DEF T
    <3> QED BY <2>2, <3>2, <3>8
  <2> QED BY <2>1, <2>2
\* From the k-th part on, it stays where it is.
<1> DEFINE Has(n) == /\ before + Len(s[k]) <= Len(f[n])
                     /\ \A j \in 1..Len(s[k]) : f[n][before + j] = s[k][j]
<1> HIDE DEF before
<1>6. Has(k)
  <2>1. CASE k = 1
    <3>1. f[k] = s[k] /\ before = 0 BY <1>2, <1>5, <2>1
    <3>2. Len(s[k]) \in Nat BY <1>0
    <3> QED BY <3>1, <3>2
  <2>2. CASE k # 1
    <3>1. f[k] = f[k - 1] \o s[k] /\ before = Len(f[k - 1]) BY <1>2, <1>5, <2>2
    <3>2. f[k - 1] \in Seq(X) /\ s[k] \in Seq(X) BY <1>0, <1>3, <2>2
    <3>3. PICK a, b \in Seq(X) : a = f[k - 1] /\ b = s[k] BY <3>2
    <3>4. /\ Len(a) \in Nat /\ Len(b) \in Nat /\ Len(a \o b) = Len(a) + Len(b)
          /\ \A i \in 1..Len(b) : (a \o b)[Len(a) + i] = b[i]
      BY <1>c
    <3>5. before + Len(b) <= Len(f[k]) BY <3>1, <3>3, <3>4
    <3>6. \A j \in 1..Len(b) : f[k][before + j] = b[j] BY <3>1, <3>3, <3>4
    <3> QED BY <3>3, <3>5, <3>6
  <2> QED BY <2>1, <2>2
<1> DEFINE T == {n \in Nat : n \in k..Len(s) => Has(n)}
<1>7. 0 \in T OBVIOUS
<1>8. ASSUME NEW n \in Nat, n \in T PROVE n + 1 \in T
  <2> SUFFICES ASSUME n + 1 \in k..Len(s) PROVE Has(n + 1) OBVIOUS
  <2>1. CASE n + 1 = k BY <1>6, <2>1
  <2>2. CASE n + 1 # k
    <3>1. n \in k..Len(s) /\ n + 1 # 1 /\ n + 1 \in 1..Len(s) /\ n \in 1..Len(s) /\ (n + 1) - 1 = n BY <2>2
    <3>2. Has(n) BY <1>8, <3>1
    <3>3. f[n + 1] = f[n] \o s[n + 1] BY <1>2, <3>1
    <3>4. f[n] \in Seq(X) /\ s[n + 1] \in Seq(X) /\ Len(s[k]) \in Nat BY <1>0, <1>3, <3>1
    <3>5. /\ Len(f[n]) \in Nat /\ Len(f[n + 1]) >= Len(f[n])
          /\ \A i \in 1..Len(f[n]) : f[n + 1][i] = f[n][i]
      <4>1. PICK a, b \in Seq(X) : a = f[n] /\ b = s[n + 1] BY <3>4
      <4>2. /\ Len(a) \in Nat /\ Len(b) \in Nat /\ Len(a \o b) = Len(a) + Len(b)
            /\ \A i \in 1..Len(a) : (a \o b)[i] = a[i]
        BY <1>c
      <4>3. f[n + 1] = a \o b BY <3>3, <4>1
      <4>4. Len(f[n + 1]) >= Len(a) BY <4>2, <4>3
      <4> QED BY <4>1, <4>2, <4>3, <4>4
    <3>6. ASSUME NEW j \in 1..Len(s[k]) PROVE f[n + 1][before + j] = s[k][j]
      <4>0. before + Len(s[k]) <= Len(f[n]) /\ f[n][before + j] = s[k][j] BY <3>2
      <4>1. before + j \in 1..Len(f[n]) BY <1>5, <3>4, <3>5, <4>0
      <4> QED BY <4>0, <3>5, <4>1
    <3>7. before + Len(s[k]) <= Len(f[n + 1])
      <4>1. before + Len(s[k]) <= Len(f[n]) BY <3>2
      <4>2. Len(f[n + 1]) \in Nat
        <5>1. f[n + 1] \in Seq(X) BY <1>3, <3>1
        <5> QED BY <5>1
      <4> QED BY <1>5, <3>4, <3>5, <4>1, <4>2
    <3> QED BY <3>6, <3>7
  <2> QED BY <2>1, <2>2
<1> HIDE DEF T
<1>9. Nat \subseteq T BY <1>7, <1>8, SetInduction
<1>10. Len(s) \in T /\ Len(s) \in k..Len(s) BY <1>0, <1>9
<1>11. Has(Len(s)) BY <1>10 DEF T
<1> QED BY <1>1, <1>4, <1>5, <1>11 DEF before, FlatAt

\* Where the bytes of the stream are in the buffer.
LEMMA BytesAre ==
  ASSUME IInv, ~failed
  PROVE  /\ m_read_index \in Nat /\ m_write_index \in Nat /\ got \in Nat /\ readAble \in Nat
         /\ m_write_index = m_read_index + readAble /\ m_write_index <= size /\ size \in Nat
         /\ \A j \in 0..(readAble - 1) : m_buffer[m_read_index + j] = got + 1 + j
<1>1. Good(m_buffer, size, m_read_index, m_write_index, put, got) BY IInvGood
<1>2. /\ m_read_index \in Nat /\ m_write_index \in Nat /\ got \in Nat /\ m_read_index <= m_write_index
      /\ m_write_index <= size /\ size \in Nat
      /\ \A i \in m_read_index..(m_write_index - 1) : m_buffer[i] = got + 1 + (i - m_read_index)
  BY <1>1 DEF Good, Holds
<1>3. readAble \in Nat /\ m_write_index = m_read_index + readAble BY <1>2 DEF readAble
<1>4. ASSUME NEW j \in 0..(readAble - 1) PROVE m_buffer[m_read_index + j] = got + 1 + j
  <2>1. m_read_index + j \in m_read_index..(m_write_index - 1) BY <1>2, <1>3
  <2>2. (m_read_index + j) - m_read_index = j BY <1>2
  <2> QED BY <1>2, <2>1, <2>2
<1> QED BY <1>2, <1>3, <1>4

\* The least element of a set of numbers.
LEMMA MinIs ==
  ASSUME NEW S \in SUBSET Int, NEW x \in S, \A y \in S : x <= y
  PROVE  S # {} /\ Min(S) = x
<1>1. \A z \in S : (\A y \in S : z <= y) => z = x OBVIOUS
<1>2. Min(S) \in S /\ \A y \in S : Min(S) <= y BY DEF Min
<1> QED BY <1>1, <1>2

-----------------------------------------------------------------------------
(* HttpCodeC::decode().                                                    *)

Request == [method : {"GET", "POST", "other"}, version : {"HTTP/1.1", "HTTP/1.0", "other"},
            spaces : Nat, line : Nat, headers : Nat, body : Nat]
Kinds == {"line", "headers", "body", "CR", "LF"}
Text(kind, n) == [i \in 1..n |-> kind]

\* So many characters of one kind.
LEMMA TextIs ==
  ASSUME NEW kind \in Kinds, NEW n \in Nat
  PROVE  Text(kind, n) \in Seq(Kinds) /\ Len(Text(kind, n)) = n /\ \A i \in 1..n : Text(kind, n)[i] = kind
BY DEF Text

\* The two bytes of a line end.
LEMMA CRLFIs == CRLF \in Seq(Kinds) /\ Len(CRLF) = 2 /\ CRLF[1] = "CR" /\ CRLF[2] = "LF"
BY DEF CRLF, Kinds

\* Where the characters of two texts are after they are joined.
LEMMA Append2 ==
  \A a, b \in Seq(Kinds) :
    /\ a \o b \in Seq(Kinds) /\ Len(a \o b) = Len(a) + Len(b)
    /\ \A i \in 1..Len(a) : (a \o b)[i] = a[i]
    /\ \A i \in 1..Len(b) : (a \o b)[Len(a) + i] = b[i]
BY Concat

\* A request with l, h and n characters of line, headers and body.
WholeText(l, h, n) ==
  Text("line", l) \o CRLF \o (Text("headers", h) \o CRLF) \o CRLF \o Text("body", n)
Parts(T, l, h, n) ==
  /\ Len(T) = l + h + n + 6
  /\ \A i \in 1..l : T[i] = "line"
  /\ T[l + 1] = "CR" /\ T[l + 2] = "LF"
  /\ \A i \in 1..h : T[l + 2 + i] = "headers"
  /\ T[l + h + 3] = "CR" /\ T[l + h + 4] = "LF"
  /\ T[l + h + 5] = "CR" /\ T[l + h + 6] = "LF"

\* Where the parts of a request with headers are in its text.
LEMMA PartsOfText ==
  \A l, h, n \in Nat : WholeText(l, h, n) \in Seq(Kinds) /\ Parts(WholeText(l, h, n), l, h, n)
<1> SUFFICES ASSUME NEW l \in Nat, NEW h \in Nat, NEW n \in Nat
             PROVE  WholeText(l, h, n) \in Seq(Kinds) /\ Parts(WholeText(l, h, n), l, h, n)
  OBVIOUS
<1> DEFINE T == WholeText(l, h, n)
<1>1. PICK t1, t2, t3 \in Seq(Kinds) :
        /\ t1 = Text("line", l) /\ Len(t1) = l /\ \A i \in 1..l : t1[i] = "line"
        /\ t2 = Text("headers", h) /\ Len(t2) = h /\ \A i \in 1..h : t2[i] = "headers"
        /\ t3 = Text("body", n) /\ Len(t3) = n
  <2>1. "line" \in Kinds /\ "headers" \in Kinds /\ "body" \in Kinds BY DEF Kinds
  <2> QED BY <2>1, TextIs
<1>2. PICK c \in Seq(Kinds) : c = CRLF /\ Len(c) = 2 /\ c[1] = "CR" /\ c[2] = "LF" BY CRLFIs
<1>3. PICK a \in Seq(Kinds) :
        /\ a = t1 \o c /\ Len(a) = l + 2 /\ \A i \in 1..l : a[i] = "line"
        /\ a[l + 1] = "CR" /\ a[l + 2] = "LF"
  <2>1. /\ t1 \o c \in Seq(Kinds) /\ Len(t1 \o c) = Len(t1) + Len(c)
        /\ \A i \in 1..Len(t1) : (t1 \o c)[i] = t1[i]
        /\ \A i \in 1..Len(c) : (t1 \o c)[Len(t1) + i] = c[i]
    BY Append2
  <2>2. /\ t1 \o c \in Seq(Kinds) /\ Len(t1 \o c) = l + 2
        /\ \A i \in 1..l : (t1 \o c)[i] = t1[i]
        /\ \A i \in 1..2 : (t1 \o c)[l + i] = c[i]
    BY <1>1, <1>2, <2>1
  <2>3. (t1 \o c)[l + 1] = "CR" /\ (t1 \o c)[l + 2] = "LF" BY <1>2, <2>2
  <2>4. \A i \in 1..l : (t1 \o c)[i] = "line" BY <1>1, <2>2
  <2> QED BY <2>2, <2>3, <2>4
<1>4. PICK b \in Seq(Kinds) :
        /\ b = t2 \o c /\ Len(b) = h + 2 /\ \A i \in 1..h : b[i] = "headers"
        /\ b[h + 1] = "CR" /\ b[h + 2] = "LF"
  <2>1. /\ t2 \o c \in Seq(Kinds) /\ Len(t2 \o c) = Len(t2) + Len(c)
        /\ \A i \in 1..Len(t2) : (t2 \o c)[i] = t2[i]
        /\ \A i \in 1..Len(c) : (t2 \o c)[Len(t2) + i] = c[i]
    BY Append2
  <2>2. /\ t2 \o c \in Seq(Kinds) /\ Len(t2 \o c) = h + 2
        /\ \A i \in 1..h : (t2 \o c)[i] = t2[i]
        /\ \A i \in 1..2 : (t2 \o c)[h + i] = c[i]
    BY <1>1, <1>2, <2>1
  <2>3. (t2 \o c)[h + 1] = "CR" /\ (t2 \o c)[h + 2] = "LF" BY <1>2, <2>2
  <2>4. \A i \in 1..h : (t2 \o c)[i] = "headers" BY <1>1, <2>2
  <2> QED BY <2>2, <2>3, <2>4
<1>5. PICK d \in Seq(Kinds) :
        /\ d = a \o b /\ Len(d) = l + h + 4 /\ \A i \in 1..l : d[i] = "line"
        /\ d[l + 1] = "CR" /\ d[l + 2] = "LF"
        /\ \A i \in 1..h : d[l + 2 + i] = "headers"
        /\ d[l + h + 3] = "CR" /\ d[l + h + 4] = "LF"
  <2>1. /\ a \o b \in Seq(Kinds) /\ Len(a \o b) = (l + 2) + (h + 2)
        /\ \A i \in 1..(l + 2) : (a \o b)[i] = a[i]
        /\ \A i \in 1..(h + 2) : (a \o b)[(l + 2) + i] = b[i]
    <3>1. /\ a \o b \in Seq(Kinds) /\ Len(a \o b) = Len(a) + Len(b)
          /\ \A i \in 1..Len(a) : (a \o b)[i] = a[i]
          /\ \A i \in 1..Len(b) : (a \o b)[Len(a) + i] = b[i]
      BY Append2
    <3> QED BY <1>3, <1>4, <3>1
  <2>2. (a \o b)[(l + 2) + (h + 1)] = "CR" /\ (a \o b)[(l + 2) + (h + 2)] = "LF"
    <3>1. h + 1 \in 1..(h + 2) /\ h + 2 \in 1..(h + 2) OBVIOUS
    <3> QED BY <1>4, <2>1, <3>1
  <2>3. (l + 2) + (h + 1) = l + h + 3 /\ (l + 2) + (h + 2) = l + h + 4 OBVIOUS
  <2>4. \A i \in 1..h : (a \o b)[l + 2 + i] = "headers"
    <3>1. \A i \in 1..h : i \in 1..(h + 2) OBVIOUS
    <3> QED BY <1>4, <2>1, <3>1
  <2>5. /\ \A i \in 1..l : (a \o b)[i] = "line"
        /\ (a \o b)[l + 1] = "CR" /\ (a \o b)[l + 2] = "LF"
    <3>1. \A i \in 1..l : i \in 1..(l + 2) OBVIOUS
    <3>2. l + 1 \in 1..(l + 2) /\ l + 2 \in 1..(l + 2) OBVIOUS
    <3> QED BY <1>3, <2>1, <3>1, <3>2
  <2>6. Len(a \o b) = l + h + 4 BY <2>1
  <2> QED BY <2>1, <2>2, <2>3, <2>4, <2>5, <2>6
<1>6. PICK e \in Seq(Kinds) :
        /\ e = d \o c /\ Len(e) = l + h + 6
        /\ \A i \in 1..(l + h + 4) : e[i] = d[i]
        /\ e[l + h + 5] = "CR" /\ e[l + h + 6] = "LF"
  <2>0. PICK m \in Nat : m = l + h + 4 OBVIOUS
  <2>1. /\ d \o c \in Seq(Kinds) /\ Len(d \o c) = Len(d) + Len(c)
        /\ \A i \in 1..Len(d) : (d \o c)[i] = d[i]
        /\ \A i \in 1..Len(c) : (d \o c)[Len(d) + i] = c[i]
    BY Append2
  <2>2. Len(d) = m BY <1>5, <2>0
  <2>3. (d \o c)[m + 1] = "CR" /\ (d \o c)[m + 2] = "LF"
    <3>1. 1 \in 1..2 /\ 2 \in 1..2 OBVIOUS
    <3> QED BY <1>2, <2>1, <2>2, <3>1
  <2>4. m + 1 = l + h + 5 /\ m + 2 = l + h + 6 BY <2>0
  <2>5. Len(d \o c) = l + h + 6 BY <1>2, <2>1, <2>2, <2>4
  <2>6. \A i \in 1..(l + h + 4) : (d \o c)[i] = d[i] BY <2>0, <2>1, <2>2
  <2> QED BY <2>1, <2>3, <2>4, <2>5, <2>6
<1>7. /\ e \o t3 \in Seq(Kinds) /\ Len(e \o t3) = (l + h + 6) + n
      /\ \A i \in 1..(l + h + 6) : (e \o t3)[i] = e[i]
  <2>1. /\ e \o t3 \in Seq(Kinds) /\ Len(e \o t3) = Len(e) + Len(t3)
        /\ \A i \in 1..Len(e) : (e \o t3)[i] = e[i]
        /\ \A i \in 1..Len(t3) : (e \o t3)[Len(e) + i] = t3[i]
    BY Append2
  <2> QED BY <1>1, <1>6, <2>1
<1>8. T = e \o t3 BY <1>1, <1>2, <1>3, <1>4, <1>5, <1>6 DEF WholeText
<1> HIDE DEF T
<1>9. \A i \in 1..(l + h + 4) : T[i] = d[i]
  <2>1. \A i \in 1..(l + h + 4) : i \in 1..(l + h + 6) OBVIOUS
  <2> QED BY <1>6, <1>7, <1>8, <2>1
<1>10. T[l + h + 5] = "CR" /\ T[l + h + 6] = "LF"
  <2>1. l + h + 5 \in 1..(l + h + 6) /\ l + h + 6 \in 1..(l + h + 6) OBVIOUS
  <2> QED BY <1>6, <1>7, <1>8, <2>1
<1>11. /\ \A i \in 1..l : i \in 1..(l + h + 4)
       /\ l + 1 \in 1..(l + h + 4) /\ l + 2 \in 1..(l + h + 4)
       /\ \A i \in 1..h : l + 2 + i \in 1..(l + h + 4)
       /\ (l + h + 3) \in 1..(l + h + 4) /\ (l + h + 4) \in 1..(l + h + 4)
  OBVIOUS
<1>12. T \in Seq(Kinds) /\ Len(T) = l + h + n + 6
  <2>1. (l + h + 6) + n = l + h + n + 6 OBVIOUS
  <2> QED BY <1>7, <1>8, <2>1
<1>13. \A i \in 1..l : T[i] = "line" BY <1>5, <1>9, <1>11
<1>14. T[l + 1] = "CR" /\ T[l + 2] = "LF" BY <1>5, <1>9, <1>11
<1>15. \A i \in 1..h : T[l + 2 + i] = "headers" BY <1>5, <1>9, <1>11
<1>16. T[l + h + 3] = "CR" /\ T[l + h + 4] = "LF" BY <1>5, <1>9, <1>11
<1> QED BY <1>10, <1>12, <1>13, <1>14, <1>15, <1>16 DEF T, Parts

\* Without headers.
BareText(l, n) == Text("line", l) \o CRLF \o << >> \o CRLF \o Text("body", n)

\* It is a text too.
LEMMA BareTextIs == \A l, n \in Nat : BareText(l, n) \in Seq(Kinds)
<1> SUFFICES ASSUME NEW l \in Nat, NEW n \in Nat PROVE BareText(l, n) \in Seq(Kinds) OBVIOUS
<1>1. "line" \in Kinds /\ "body" \in Kinds BY DEF Kinds
<1>2. Text("line", l) \in Seq(Kinds) /\ CRLF \in Seq(Kinds) /\ Text("body", n) \in Seq(Kinds)
  BY <1>1, TextIs, CRLFIs
<1>3. \A a, b \in Seq(Kinds) : a \o b \in Seq(Kinds) BY Concat
<1>4. << >> \in Seq(Kinds) OBVIOUS
<1> QED BY <1>2, <1>3, <1>4 DEF BareText

\* The parts of a request.
LEMMA RequestTextIs ==
  ASSUME NEW q \in Request,
         NEW l \in Nat, NEW h \in Nat, NEW n \in Nat, l = q.line, h = q.headers, n = q.body
  PROVE  RequestText(q) \in Seq(Kinds) /\ (h > 0 => Parts(RequestText(q), l, h, n))
<1>1. CASE h = 0
  <2>1. RequestText(q) = BareText(l, n) BY <1>1 DEF RequestText, Text, BareText
  <2>2. BareText(l, n) \in Seq(Kinds) BY BareTextIs
  <2>3. ~(h > 0) BY <1>1
  <2> QED BY <2>1, <2>2, <2>3
<1>2. CASE h # 0
  <2>1. RequestText(q) = WholeText(l, h, n) BY <1>2 DEF RequestText, Text, WholeText
  <2> QED BY <2>1, PartsOfText
<1> QED BY <1>1, <1>2

\* What the assumption says of each request.
LEMMA RequestsAre ==
  /\ Requests \in Seq(Request) /\ Len(Requests) \in Nat /\ DOMAIN Requests = 1..Len(Requests)
  /\ \A k \in DOMAIN Requests : Requests[k] \in Request
<1>1. Requests \in Seq(Request) BY RequestsAssumption DEF Request
<1> QED BY <1>1

\* Where request k is in the stream.
LEMMA HttpStreamHas ==
  ASSUME NEW k \in DOMAIN Requests,
         got = Len(FlattenSeq([n \in 1..(k - 1) |-> RequestText(Requests[n])]))
  PROVE  \A j \in 1..Len(RequestText(Requests[k])) :
           HttpStream[got + j] = <<RequestText(Requests[k])[j], k>>
<1> DEFINE R(n) == RequestText(Requests[n])
           X == Kinds \X Nat
           p == [n \in 1..(k - 1) |-> R(n)]
           s == [n \in 1..Len(Requests) |-> [i \in DOMAIN R(n) |-> <<R(n)[i], n>>]]
<1>1. HttpStream = FlattenSeq(s) BY RequestsAre DEF HttpStream
<1>2. \A n \in 1..Len(Requests) : R(n) \in Seq(Kinds) /\ DOMAIN R(n) = 1..Len(R(n)) /\ Len(R(n)) \in Nat
  <2>1. \A n \in 1..Len(Requests) : R(n) \in Seq(Kinds)
    <3> SUFFICES ASSUME NEW n \in 1..Len(Requests) PROVE RequestText(Requests[n]) \in Seq(Kinds) OBVIOUS
    <3>1. PICK q \in Request : q = Requests[n] BY RequestsAre
    <3>2. PICK l, h, b \in Nat : l = q.line /\ h = q.headers /\ b = q.body BY DEF Request
    <3> QED BY <3>1, <3>2, RequestTextIs
  <2> HIDE DEF R
  <2> QED BY <2>1
<1>3. k \in 1..Len(Requests) /\ Len(Requests) \in Nat /\ k - 1 \in Nat
  BY RequestsAre
<1> HIDE DEF R
<1>4. \A n \in 1..Len(Requests) : s[n] \in Seq(X) /\ Len(s[n]) = Len(R(n))
  <2> SUFFICES ASSUME NEW n \in 1..Len(Requests) PROVE s[n] \in Seq(X) /\ Len(s[n]) = Len(R(n)) OBVIOUS
  <2>1. s[n] = [i \in 1..Len(R(n)) |-> <<R(n)[i], n>>] BY <1>2
  <2>2. \A i \in 1..Len(R(n)) : <<R(n)[i], n>> \in X
    <3>1. R(n) \in Seq(Kinds) BY <1>2
    <3>2. \A i \in 1..Len(R(n)) : R(n)[i] \in Kinds BY <3>1
    <3> QED BY <1>3, <3>2
  <2>3. PICK m \in Nat : \E t : m = Len(R(n)) /\ t = s[n] BY <1>2
  <2>9. PICK t : m = Len(R(n)) /\ t = s[n] BY <2>3
  <2>4. t \in [1..m -> X] BY <2>1, <2>2, <2>9
  <2> HIDE DEF s, X
  <2>5. t \in Seq(X) /\ Len(t) = m BY <2>4
  <2> QED BY <2>9, <2>5
<1>5. s \in Seq(Seq(X)) /\ Len(s) = Len(Requests)
  <2>1. s = [n \in 1..Len(Requests) |-> s[n]] OBVIOUS
  <2> HIDE DEF s, X
  <2>2. s \in [1..Len(Requests) -> Seq(X)] BY <1>4, <2>1
  <2> QED BY <1>3, <2>2
<1>6. p \in Seq(Seq(Kinds)) /\ Len(p) = k - 1 /\ \A n \in 1..(k - 1) : Len(p[n]) = Len(s[n])
  <2>1. \A n \in 1..(k - 1) : n \in 1..Len(Requests) /\ p[n] = R(n) BY <1>3
  <2>2. p \in [1..(k - 1) -> Seq(Kinds)] BY <1>2, <2>1
  <2>3. PICK t, m, Y : t = p /\ m = k - 1 /\ Y = Seq(Kinds) OBVIOUS
  <2>4. t \in [1..m -> Y] /\ m \in Nat BY <1>3, <2>2, <2>3
  <2>5. t \in Seq(Y) /\ Len(t) = m BY <2>4
  <2> HIDE DEF p, s
  <2>6. \A n \in 1..(k - 1) : Len(p[n]) = Len(s[n]) BY <1>4, <2>1
  <2> QED BY <2>3, <2>5, <2>6
<1>7. got = Len(FlattenSeq(p)) BY DEF R
<1> HIDE DEF p, X
<1>8. \A j \in 1..Len(s[k]) : FlattenSeq(s)[Len(FlattenSeq(p)) + j] = s[k][j]
  <2> HIDE DEF s
  <2>1. PICK m, n \in Nat : m = k - 1 /\ k = m + 1 /\ n = Len(Requests) /\ m < n BY <1>3
  <2>2. IsParts(s, X, n) /\ IsParts(p, Kinds, m) /\ SameLens(s, p, m)
    BY <1>5, <1>6, <2>1 DEF IsParts, SameLens
  <2>3. k <= n BY <2>1
  <2>4. FlatAt(s, p, k) BY <2>1, <2>2, <2>3, FlattenAt
  <2> QED BY <2>4 DEF FlatAt
<1>9. Len(s[k]) = Len(R(k)) /\ \A j \in 1..Len(R(k)) : s[k][j] = <<R(k)[j], k>> BY <1>2, <1>3, <1>4
<1> HIDE DEF s
<1>10. \A j \in 1..Len(R(k)) : HttpStream[got + j] = <<R(k)[j], k>> BY <1>1, <1>7, <1>8, <1>9
<1> QED BY <1>10 DEF R

\* What a decoder sees between r and w of a request with l, h and n characters
\* of line, headers and body.
Sees(q, r, w, l, h) ==
  /\ \A i \in r..(w - 1) : i < r + l => Kind(i) = "line" /\ Of(i) = q
  /\ r + l < w => Kind(r + l) = "CR"
  /\ r + l + 1 < w => Kind(r + l + 1) = "LF"
  /\ r + l + 2 < w => Of(r + l + 2) = q
  /\ \A i \in (r + l + 2)..(w - 1) : i < r + l + h + 2 => Kind(i) = "headers"
  /\ r + l + h + 5 < w => /\ Kind(r + l + h + 2) = "CR" /\ Kind(r + l + h + 3) = "LF"
                          /\ Kind(r + l + h + 4) = "CR" /\ Kind(r + l + h + 5) = "LF"

\* Of request k, the buffer holds what has arrived, from the read index on.
LEMMA DecoderSees ==
  ASSUME IInv, ~failed, NEW k \in DOMAIN Requests,
         got = Len(FlattenSeq([n \in 1..(k - 1) |-> RequestText(Requests[n])])),
         NEW T, NEW l \in Nat, NEW h \in Nat, NEW n \in Nat,
         T = RequestText(Requests[k]), Parts(T, l, h, n), h > 0
  PROVE  Sees(Requests[k], m_read_index, m_write_index, l, h)
<1> PICK r, w, g, q : r = m_read_index /\ w = m_write_index /\ g = got /\ q = Requests[k] OBVIOUS
<1>1. /\ r \in Nat /\ w \in Nat /\ g \in Nat /\ r <= w
      /\ \A j \in 0..((w - r) - 1) : m_buffer[r + j] = g + 1 + j
  <2>1. /\ r \in Nat /\ w \in Nat /\ g \in Nat /\ readAble \in Nat /\ w = r + readAble
        /\ \A j \in 0..(readAble - 1) : m_buffer[r + j] = g + 1 + j
    BY BytesAre
  <2>2. readAble = w - r BY <2>1
  <2> QED BY <2>1, <2>2
<1>2. \A j \in 1..Len(T) : HttpStream[g + j] = <<T[j], k>> BY HttpStreamHas
<1>3. /\ Len(T) = l + h + n + 6
      /\ \A i \in 1..l : T[i] = "line"
      /\ T[l + 1] = "CR" /\ T[l + 2] = "LF"
      /\ \A i \in 1..h : T[l + 2 + i] = "headers"
      /\ T[l + h + 3] = "CR" /\ T[l + h + 4] = "LF"
      /\ T[l + h + 5] = "CR" /\ T[l + h + 6] = "LF"
  BY DEF Parts
<1>4. ASSUME NEW j \in Nat, j < w - r, j < l + h + 6
      PROVE  Kind(r + j) = T[j + 1] /\ Of(r + j) = q
  <2>1. m_buffer[r + j] = g + (j + 1)
    <3>1. j \in 0..((w - r) - 1) BY <1>1, <1>4
    <3>2. g + 1 + j = g + (j + 1) BY <1>1
    <3> QED BY <1>1, <3>1, <3>2
  <2>2. j + 1 \in 1..Len(T) BY <1>3, <1>4
  <2>3. HttpStream[m_buffer[r + j]] = <<T[j + 1], k>> BY <1>2, <2>1, <2>2
  <2> QED BY <2>3 DEF Kind, Of
<1> DEFINE K(i) == Kind(i)
           O(i) == Of(i)
<1>5. \A j \in Nat : j < w - r /\ j < l + h + 6 => K(r + j) = T[j + 1] /\ O(r + j) = q BY <1>4
<1> HIDE DEF K, O
<1>6. ASSUME NEW i \in r..(w - 1), i < r + l PROVE K(i) = "line" /\ O(i) = q
  <2>1. PICK j \in Nat : i = r + j BY <1>1
  <2>2. j < w - r /\ j < l + h + 6 /\ j + 1 \in 1..l BY <1>1, <1>6, <2>1
  <2> QED BY <1>3, <1>5, <2>1, <2>2
<1>7. r + l < w => K(r + l) = "CR"
  <2>1. r + l < w => l < w - r /\ l < l + h + 6 BY <1>1
  <2> QED BY <1>3, <1>5, <2>1
<1>8. r + l + 1 < w => K(r + l + 1) = "LF"
  <2>1. l + 1 \in Nat /\ r + (l + 1) = r + l + 1 /\ (l + 1) + 1 = l + 2 BY <1>1
  <2>2. r + l + 1 < w => l + 1 < w - r /\ l + 1 < l + h + 6 BY <1>1
  <2> QED BY <1>3, <1>5, <2>1, <2>2
<1>9. r + l + 2 < w => O(r + l + 2) = q
  <2>1. l + 2 \in Nat /\ r + (l + 2) = r + l + 2 BY <1>1
  <2>2. r + l + 2 < w => l + 2 < w - r /\ l + 2 < l + h + 6 BY <1>1
  <2> QED BY <1>5, <2>1, <2>2
<1>10. ASSUME NEW i \in (r + l + 2)..(w - 1), i < r + l + h + 2 PROVE K(i) = "headers"
  <2>1. PICK m \in 1..h : i = r + (l + 1 + m)
    <3>1. i - (r + l + 1) \in 1..h /\ i = r + (l + 1 + (i - (r + l + 1))) BY <1>1, <1>10
    <3> QED BY <3>1
  <2>2. /\ l + 1 + m \in Nat /\ l + 1 + m < w - r /\ l + 1 + m < l + h + 6
        /\ (l + 1 + m) + 1 = l + 2 + m
    BY <1>1, <1>10, <2>1
  <2>3. K(r + (l + 1 + m)) = T[(l + 1 + m) + 1] BY <1>5, <2>2
  <2> QED BY <1>3, <2>1, <2>2, <2>3
<1>11. ASSUME r + l + h + 5 < w
       PROVE  /\ K(r + l + h + 2) = "CR" /\ K(r + l + h + 3) = "LF"
              /\ K(r + l + h + 4) = "CR" /\ K(r + l + h + 5) = "LF"
  <2>1. /\ l + h + 2 \in Nat /\ r + (l + h + 2) = r + l + h + 2 /\ (l + h + 2) + 1 = l + h + 3
        /\ l + h + 2 < w - r /\ l + h + 2 < l + h + 6
    BY <1>1, <1>11
  <2>2. /\ l + h + 3 \in Nat /\ r + (l + h + 3) = r + l + h + 3 /\ (l + h + 3) + 1 = l + h + 4
        /\ l + h + 3 < w - r /\ l + h + 3 < l + h + 6
    BY <1>1, <1>11
  <2>3. /\ l + h + 4 \in Nat /\ r + (l + h + 4) = r + l + h + 4 /\ (l + h + 4) + 1 = l + h + 5
        /\ l + h + 4 < w - r /\ l + h + 4 < l + h + 6
    BY <1>1, <1>11
  <2>4. /\ l + h + 5 \in Nat /\ r + (l + h + 5) = r + l + h + 5 /\ (l + h + 5) + 1 = l + h + 6
        /\ l + h + 5 < w - r /\ l + h + 5 < l + h + 6
    BY <1>1, <1>11
  <2>5. K(r + l + h + 2) = "CR" BY <1>3, <1>5, <2>1
  <2>6. K(r + l + h + 3) = "LF" BY <1>3, <1>5, <2>2
  <2>7. K(r + l + h + 4) = "CR" BY <1>3, <1>5, <2>3
  <2>8. K(r + l + h + 5) = "LF" BY <1>3, <1>5, <2>4
  <2> QED BY <2>5, <2>6, <2>7, <2>8
<1>12. Sees(q, r, w, l, h) BY <1>6, <1>7, <1>8, <1>9, <1>10, <1>11 DEF K, O, Sees
<1> QED BY <1>12

\* Where a CRLF begins, and where two in a row do.
LEMMA MatchesIs ==
  /\ \A i : Matches(i, CRLF) =
            {x \in i..(m_write_index - 2) : Kind(x) = "CR" /\ Kind(x + 1) = "LF"}
  /\ \A i : Matches(i, CRLF \o CRLF) =
            {x \in i..(m_write_index - 4) : /\ Kind(x) = "CR" /\ Kind(x + 1) = "LF"
                                            /\ Kind(x + 2) = "CR" /\ Kind(x + 3) = "LF"}
<1> DEFINE K(x) == Kind(x)
<1>1. CRLF = <<"CR", "LF">> BY DEF CRLF
<1>2. PICK s : s = CRLF OBVIOUS
<1>3. Len(s) = 2 /\ DOMAIN s = {1, 2} /\ s[1] = "CR" /\ s[2] = "LF" BY <1>1, <1>2
<1>4. PICK t : t = CRLF \o CRLF OBVIOUS
<1>5. /\ Len(t) = 4 /\ DOMAIN t = {1, 2, 3, 4}
      /\ t[1] = "CR" /\ t[2] = "LF" /\ t[3] = "CR" /\ t[4] = "LF"
  BY <1>1, <1>4
<1>6. \A x \in Int : x + 1 - 1 = x /\ x + 2 - 1 = x + 1 /\ x + 3 - 1 = x + 2 /\ x + 4 - 1 = x + 3
  OBVIOUS
<1> HIDE DEF K
<1>7. \A x \in Int : (\A b \in DOMAIN s : K(x + b - 1) = s[b]) <=> K(x) = "CR" /\ K(x + 1) = "LF"
  BY <1>3, <1>6
<1>8. \A x \in Int : (\A b \in DOMAIN t : K(x + b - 1) = t[b]) <=>
                       /\ K(x) = "CR" /\ K(x + 1) = "LF" /\ K(x + 2) = "CR" /\ K(x + 3) = "LF"
  BY <1>5, <1>6
<1>9. \A i : Matches(i, s) = {x \in i..(m_write_index - 2) : K(x) = "CR" /\ K(x + 1) = "LF"}
  BY <1>3, <1>7 DEF Matches, K
<1>10. \A i : Matches(i, t) =
              {x \in i..(m_write_index - 4) : /\ K(x) = "CR" /\ K(x + 1) = "LF"
                                              /\ K(x + 2) = "CR" /\ K(x + 3) = "LF"}
  BY <1>5, <1>8 DEF Matches, K
<1> QED BY <1>2, <1>4, <1>9, <1>10 DEF K

\* decode() of what it sees: the five places where its input can end.
LEMMA DecodeSeen ==
  ASSUME NEW q \in Request, Plain(q), m_read_index \in Nat, m_write_index \in Nat,
         NEW l \in Nat, NEW h \in Nat, NEW n \in Nat, l = q.line, h = q.headers, n = q.body,
         Sees(q, m_read_index, m_write_index, l, h)
  PROVE  IF m_write_index - m_read_index >= l + h + n + 6
           THEN HttpDecode = [decode_succ |-> TRUE, read_size |-> l + h + n + 6]
           ELSE HttpDecode = Nothing \/ m_write_index - m_read_index = l + 2
<1> DEFINE K(x) == Kind(x)
           O(x) == Of(x)
<1> PICK r, w \in Nat : r = m_read_index /\ w = m_write_index OBVIOUS
<1>p. /\ l > 0 /\ h > 0 /\ (n > 0 => q.method = "POST" /\ h >= 4)
      /\ q.spaces >= 2 /\ q.method \in {"GET", "POST"} /\ q.version \in {"HTTP/1.1", "HTTP/1.0"}
  BY DEF Plain, Request
<1>s. /\ \A i \in r..(w - 1) : i < r + l => K(i) = "line" /\ O(i) = q
      /\ r + l < w => K(r + l) = "CR"
      /\ r + l + 1 < w => K(r + l + 1) = "LF"
      /\ r + l + 2 < w => O(r + l + 2) = q
      /\ \A i \in (r + l + 2)..(w - 1) : i < r + l + h + 2 => K(i) = "headers"
      /\ r + l + h + 5 < w => /\ K(r + l + h + 2) = "CR" /\ K(r + l + h + 3) = "LF"
                              /\ K(r + l + h + 4) = "CR" /\ K(r + l + h + 5) = "LF"
  BY DEF Sees
<1>m. /\ Matches(r, CRLF) = {x \in r..(w - 2) : K(x) = "CR" /\ K(x + 1) = "LF"}
      /\ \A i : Matches(i, CRLF \o CRLF) =
                {x \in i..(w - 4) : /\ K(x) = "CR" /\ K(x + 1) = "LF"
                                    /\ K(x + 2) = "CR" /\ K(x + 3) = "LF"}
  BY MatchesIs
<1> HIDE DEF K, O
<1>1. CASE w - r < l + 2
  <2>1. Matches(r, CRLF) = {}
    <3> SUFFICES ASSUME NEW x \in r..(w - 2), K(x) = "CR" PROVE FALSE BY <1>m
    <3>1. x \in r..(w - 1) /\ x < r + l BY <1>1
    <3>2. K(x) = "line" BY <1>s, <3>1
    <3> QED BY <3>2
  <2>2. HttpDecode = Nothing BY <2>1 DEF HttpDecode
  <2>3. ~(w - r >= l + h + n + 6) BY <1>1
  <2> QED BY <2>2, <2>3
<1>2. CASE w - r = l + 2
  <2>1. ~(w - r >= l + h + n + 6) BY <1>2
  <2> QED BY <1>2, <2>1
<1>3. CASE w - r > l + 2
  <2> PICK e, b \in Nat : e = r + l /\ b = r + l + 2 OBVIOUS
  <2>1. Matches(r, CRLF) # {} /\ Min(Matches(r, CRLF)) = e
    <3>1. e \in r..(w - 2) /\ e < w /\ e + 1 < w BY <1>3
    <3>2. K(e) = "CR" /\ K(e + 1) = "LF" BY <1>s, <3>1
    <3>3. e \in Matches(r, CRLF) BY <1>m, <3>1, <3>2
    <3>4. ASSUME NEW x \in Matches(r, CRLF) PROVE e <= x
      <4>1. x \in r..(w - 2) /\ K(x) = "CR" BY <1>m
      <4>2. x < r + l => x \in r..(w - 1) BY <4>1
      <4>3. ~(x < r + l) BY <1>s, <4>1, <4>2
      <4> QED BY <4>1, <4>3
    <3>5. Matches(r, CRLF) \in SUBSET Int BY <1>m
    <3> QED BY <3>3, <3>4, <3>5, MinIs
  <2>2. parseHttpRequestLine(r, e)
    <3>1. r < e /\ \A i \in r..(e - 1) : i \in r..(w - 1) /\ i < r + l BY <1>p, <1>3
    <3>2. \A i \in r..(e - 1) : K(i) = "line" /\ O(i) = q BY <1>s, <3>1
    <3>3. r \in r..(e - 1) BY <3>1
    <3>4. O(r) = q BY <3>2, <3>3
    <3>5. e - r = l OBVIOUS
    <3>6. O(r).line = l BY <3>4
    <3> QED BY <1>p, <3>1, <3>2, <3>4, <3>5, <3>6 DEF parseHttpRequestLine, K, O
  <2>3. O(r) = q
    <3>1. r \in r..(w - 1) /\ r < r + l BY <1>p, <1>3
    <3> QED BY <1>s, <3>1
  <2>4. HttpDecode = DecodeRest(b, q.method)
    <3>1. e # w - 2 /\ e + 2 = b BY <1>3
    <3>2. Min(Matches(r, CRLF)) # m_write_index - 2 BY <2>1, <3>1
    <3>3. HttpDecode = DecodeRest(Min(Matches(r, CRLF)) + 2, Of(r).method)
      BY <2>1, <2>2, <3>2 DEF HttpDecode
    <3> QED BY <2>1, <2>3, <3>1, <3>3 DEF O
  <2> PICK ends : ends = Matches(b, CRLF \o CRLF) OBVIOUS
  <2>e. ends = {x \in b..(w - 4) : /\ K(x) = "CR" /\ K(x + 1) = "LF"
                                   /\ K(x + 2) = "CR" /\ K(x + 3) = "LF"}
    BY <1>m
  <2>5. CASE w < b + h + 4
    <3>1. ends = {}
      <4> SUFFICES ASSUME NEW x \in b..(w - 4), K(x) = "CR" PROVE FALSE BY <2>e
      <4>1. x \in (r + l + 2)..(w - 1) /\ x < r + l + h + 2 BY <2>5
      <4>2. K(x) = "headers" BY <1>s, <4>1
      <4> QED BY <4>2
    <3>2. HttpDecode = Nothing BY <2>4, <3>1 DEF DecodeRest
    <3>3. ~(w - r >= l + h + n + 6) BY <2>5
    <3> QED BY <3>2, <3>3
  <2>6. CASE w >= b + h + 4
    <3> PICK c \in Nat : c = b + h OBVIOUS
    <3>1. ends # {} /\ Min(ends) = c
      <4>1. c \in b..(w - 4) /\ r + l + h + 5 < w /\ c = r + l + h + 2 BY <2>6
      <4>2. K(c) = "CR" /\ K(c + 1) = "LF" /\ K(c + 2) = "CR" /\ K(c + 3) = "LF"
        <5>1. c + 1 = r + l + h + 3 /\ c + 2 = r + l + h + 4 /\ c + 3 = r + l + h + 5 BY <4>1
        <5> QED BY <1>s, <4>1, <5>1
      <4>3. c \in ends BY <2>e, <4>1, <4>2
      <4>4. ASSUME NEW x \in ends PROVE c <= x
        <5>1. x \in b..(w - 4) /\ K(x) = "CR" BY <2>e
        <5>2. x < c => x \in (r + l + 2)..(w - 1) /\ x < r + l + h + 2 BY <4>1, <5>1
        <5>3. ~(x < c) BY <1>s, <5>1, <5>2
        <5> QED BY <5>1, <5>3
      <4>5. ends \in SUBSET Int BY <2>e
      <4> QED BY <4>3, <4>4, <4>5, MinIs
    <3>2. ContentLength(b, c) = n
      <4>1. O(b) = q
        <5>1. r + l + 2 < w BY <2>6
        <5> QED BY <1>s, <5>1
      <4>2. c - b = h OBVIOUS
      <4>3. ContentLength(b, c) = IF h >= 4 THEN q.body ELSE 0 BY <4>1, <4>2 DEF ContentLength, O
      <4>4. h < 4 => n = 0 BY <1>p
      <4> QED BY <4>3, <4>4
    <3>3. HttpDecode = IF w - (c + 4) < n THEN Nothing
                       ELSE [decode_succ |-> TRUE,
                             read_size |-> (c + 4) - r + IF q.method = "POST" THEN n ELSE 0]
      BY <2>4, <3>1, <3>2 DEF DecodeRest
    <3>4. (c + 4) - r + (IF q.method = "POST" THEN n ELSE 0) = l + h + n + 6
      <4>1. CASE q.method = "POST" BY <4>1
      <4>2. CASE q.method # "POST"
        <5>1. n = 0 BY <1>p, <4>2
        <5> QED BY <4>2, <5>1
      <4> QED BY <4>1, <4>2
    <3>5. w - (c + 4) < n <=> ~(w - r >= l + h + n + 6) OBVIOUS
    <3> QED BY <3>3, <3>4, <3>5
  <2> QED BY <2>5, <2>6
<1> QED BY <1>1, <1>2, <1>3

\* HttpCodeC reports a request when all of it has arrived, and not before, and
\* consumes all of it and no more, however its bytes were cut into reads and
\* wherever the buffer keeps them.
LEMMA HttpStepHolds == IInv => HttpInStep
<1> SUFFICES ASSUME IInv, NEW k \in DOMAIN Requests, ~failed, Plain(Requests[k]),
                    got = Len(FlattenSeq([n \in 1..(k - 1) |-> RequestText(Requests[n])]))
             PROVE  IF readAble >= Len(RequestText(Requests[k]))
                      THEN HttpDecode = [decode_succ |-> TRUE,
                                         read_size |-> Len(RequestText(Requests[k]))]
                      ELSE HttpDecode = Nothing \/ readAble = Requests[k].line + 2
  BY DEF HttpInStep
<1>1. PICK q \in Request : q = Requests[k] BY RequestsAre
<1>2. PICK l, h, n \in Nat : l = q.line /\ h = q.headers /\ n = q.body BY DEF Request
<1>3. h > 0 BY <1>1, <1>2 DEF Plain
<1>4. PICK T : T = RequestText(q) OBVIOUS
<1>5. Parts(T, l, h, n) BY <1>2, <1>3, <1>4, RequestTextIs
<1>6. Len(T) = l + h + n + 6 BY <1>5 DEF Parts
<1>7. Sees(q, m_read_index, m_write_index, l, h) BY <1>1, <1>3, <1>4, <1>5, DecoderSees
<1>8. /\ m_read_index \in Nat /\ m_write_index \in Nat
      /\ readAble = m_write_index - m_read_index
  BY BytesAre DEF readAble
<1>9. IF readAble >= l + h + n + 6
        THEN HttpDecode = [decode_succ |-> TRUE, read_size |-> l + h + n + 6]
        ELSE HttpDecode = Nothing \/ readAble = l + 2
  BY <1>1, <1>2, <1>7, <1>8, DecodeSeen
<1> QED BY <1>1, <1>2, <1>4, <1>6, <1>9

-----------------------------------------------------------------------------
(* FlconcPbCodeC::decode().  Integers of one to four bytes.                *)

\* What the assumption says of the widths.
LEMMA IntBytesIs == IntBytes \in 1..4 /\ Junk \subseteq Bytes
BY MessagesAssumption

\* htonl() and ntohl() are recursive functions too.
LEMMA HtonlIs ==
  \A n \in Nat : \E q \in [0..(IntBytes - 1) -> Nat] :
    /\ q[0] = n /\ \A i \in 1..(IntBytes - 1) : q[i] = q[i - 1] \div 256
    /\ htonl(n) = [b \in 1..IntBytes |-> q[IntBytes - b] % 256]
<1> SUFFICES ASSUME NEW n \in Nat
             PROVE  \E q \in [0..(IntBytes - 1) -> Nat] :
                      /\ q[0] = n /\ \A i \in 1..(IntBytes - 1) : q[i] = q[i - 1] \div 256
                      /\ htonl(n) = [b \in 1..IntBytes |-> q[IntBytes - b] % 256]
  OBVIOUS
<1> DEFINE D == 0..(IntBytes - 1)
           rest == CHOOSE f : f = [i \in D |-> IF i = 0 THEN n ELSE f[i - 1] \div 256]
           q1 == n \div 256
           q2 == q1 \div 256
           q3 == q2 \div 256
           g == [i \in D |-> IF i = 0 THEN n ELSE IF i = 1 THEN q1 ELSE IF i = 2 THEN q2 ELSE q3]
<1>0. \A m \in Nat : m \div 256 \in Nat OBVIOUS
<1>1. q1 \in Nat /\ q2 \in Nat /\ q3 \in Nat BY <1>0
<1>2. g = [i \in D |-> IF i = 0 THEN n ELSE g[i - 1] \div 256]
  <2>1. ASSUME NEW i \in D PROVE g[i] = IF i = 0 THEN n ELSE g[i - 1] \div 256
    <3>0. i \in {0, 1, 2, 3} BY IntBytesIs
    <3>1. CASE i = 0 BY <3>1
    <3>2. CASE i = 1
      <4>1. 0 \in D /\ i - 1 = 0 BY <3>2, IntBytesIs
      <4> QED BY <3>2, <4>1
    <3>3. CASE i = 2
      <4>1. 1 \in D /\ i - 1 = 1 BY <3>3, IntBytesIs
      <4> QED BY <3>3, <4>1
    <3>4. CASE i = 3
      <4>1. 2 \in D /\ i - 1 = 2 BY <3>4, IntBytesIs
      <4> QED BY <3>4, <4>1
    <3> QED BY <3>0, <3>1, <3>2, <3>3, <3>4
  <2>2. g = [i \in D |-> g[i]] OBVIOUS
  <2> HIDE DEF g
  <2>3. [i \in D |-> g[i]] = [i \in D |-> IF i = 0 THEN n ELSE g[i - 1] \div 256] BY <2>1
  <2> QED BY <2>2, <2>3
<1>3. rest = [i \in D |-> IF i = 0 THEN n ELSE rest[i - 1] \div 256]
  <2> HIDE DEF g, D
  <2> QED BY <1>2, ZenonT(30)
<1>4. htonl(n) = [b \in 1..IntBytes |-> rest[IntBytes - b] % 256] BY DEF htonl
<1> HIDE DEF rest, g, q1, q2, q3
<1>5. rest[0] = n /\ \A i \in 1..(IntBytes - 1) : rest[i] = rest[i - 1] \div 256
  <2>1. 0 \in D /\ \A i \in 1..(IntBytes - 1) : i \in D /\ i # 0 BY IntBytesIs
  <2> QED BY <1>3, <2>1
<1>6. \A i \in D : rest[i] \in Nat
  <2>1. rest[0] \in Nat BY <1>5
  <2>2. IntBytes > 1 => rest[1] \in Nat
    <3>1. IntBytes > 1 => 1 \in 1..(IntBytes - 1) /\ 1 - 1 = 0 BY IntBytesIs
    <3> QED BY <1>0, <1>5, <2>1, <3>1
  <2>3. IntBytes > 2 => rest[2] \in Nat
    <3>1. IntBytes > 2 => 2 \in 1..(IntBytes - 1) /\ 2 - 1 = 1 /\ IntBytes > 1 BY IntBytesIs
    <3> QED BY <1>0, <1>5, <2>2, <3>1
  <2>4. IntBytes > 3 => rest[3] \in Nat
    <3>1. IntBytes > 3 => 3 \in 1..(IntBytes - 1) /\ 3 - 1 = 2 /\ IntBytes > 2 BY IntBytesIs
    <3> QED BY <1>0, <1>5, <2>3, <3>1
  <2>5. \A i \in D : i \in {0, 1, 2, 3} /\ IntBytes > i BY IntBytesIs
  <2> QED BY <2>1, <2>2, <2>3, <2>4, <2>5
<1>7. rest \in [D -> Nat]
  <2>1. rest = [i \in D |-> rest[i]] BY <1>3
  <2> QED BY <1>6, <2>1
<1> QED BY <1>4, <1>5, <1>7

\* The values of ntohl(), byte by byte.
LEMMA NtohlIs ==
  \A s \in [1..IntBytes -> Int] : \E v \in [1..IntBytes -> Int] :
    /\ v[1] = (IF s[1] < 128 THEN s[1] ELSE s[1] - 256)
    /\ \A b \in 2..IntBytes : v[b] = 256 * v[b - 1] + s[b]
    /\ ntohl(s) = v[IntBytes]
<1> SUFFICES ASSUME NEW s \in [1..IntBytes -> Int]
             PROVE  \E v \in [1..IntBytes -> Int] :
                      /\ v[1] = (IF s[1] < 128 THEN s[1] ELSE s[1] - 256)
                      /\ \A b \in 2..IntBytes : v[b] = 256 * v[b - 1] + s[b]
                      /\ ntohl(s) = v[IntBytes]
  OBVIOUS
<1> DEFINE D == 1..IntBytes
           v1 == IF s[1] < 128 THEN s[1] ELSE s[1] - 256
           first == CHOOSE f : f = [b \in D |-> IF b = 1 THEN v1 ELSE 256 * f[b - 1] + s[b]]
           v2 == 256 * v1 + s[2]
           v3 == 256 * v2 + s[3]
           v4 == 256 * v3 + s[4]
           g == [b \in D |-> IF b = 1 THEN v1 ELSE IF b = 2 THEN v2 ELSE IF b = 3 THEN v3 ELSE v4]
<1>2. g = [b \in D |-> IF b = 1 THEN v1 ELSE 256 * g[b - 1] + s[b]]
  <2> HIDE DEF v1
  <2>1. ASSUME NEW b \in D PROVE g[b] = IF b = 1 THEN v1 ELSE 256 * g[b - 1] + s[b]
    <3>0. b \in {1, 2, 3, 4} BY IntBytesIs
    <3>1. CASE b = 1 BY <3>1
    <3>2. CASE b = 2
      <4>1. 1 \in D /\ b - 1 = 1 BY <3>2, IntBytesIs
      <4> QED BY <3>2, <4>1
    <3>3. CASE b = 3
      <4>1. 2 \in D /\ b - 1 = 2 BY <3>3, IntBytesIs
      <4> QED BY <3>3, <4>1
    <3>4. CASE b = 4
      <4>1. 3 \in D /\ b - 1 = 3 BY <3>4, IntBytesIs
      <4> QED BY <3>4, <4>1
    <3> QED BY <3>0, <3>1, <3>2, <3>3, <3>4
  <2>2. g = [b \in D |-> g[b]] OBVIOUS
  <2> HIDE DEF g
  <2>3. [b \in D |-> g[b]] = [b \in D |-> IF b = 1 THEN v1 ELSE 256 * g[b - 1] + s[b]] BY <2>1
  <2> QED BY <2>2, <2>3
<1>3. first = [b \in D |-> IF b = 1 THEN v1 ELSE 256 * first[b - 1] + s[b]]
  <2> HIDE DEF g, v1, D
  <2> QED BY <1>2, ZenonT(30)
<1>4. ntohl(s) = first[IntBytes] BY DEF ntohl
<1>a. v1 \in Int
  <2>1. s[1] \in Int BY IntBytesIs
  <2> QED BY <2>1
<1> HIDE DEF first, g, v1
<1>5. first[1] = v1 /\ \A b \in 2..IntBytes : first[b] = 256 * first[b - 1] + s[b]
  <2>1. 1 \in D /\ \A b \in 2..IntBytes : b \in D /\ b # 1 BY IntBytesIs
  <2> QED BY <1>3, <2>1
<1>0. \A x \in Int, b \in 2..IntBytes : 256 * x + s[b] \in Int
  <2>1. \A b \in 2..IntBytes : s[b] \in Int BY IntBytesIs
  <2> QED BY <2>1
<1>6. \A b \in D : first[b] \in Int
  <2>1. first[1] \in Int BY <1>5, <1>a
  <2>2. IntBytes > 1 => first[2] \in Int
    <3>1. IntBytes > 1 => 2 \in 2..IntBytes /\ 2 - 1 = 1 BY IntBytesIs
    <3> QED BY <1>0, <1>5, <2>1, <3>1
  <2>3. IntBytes > 2 => first[3] \in Int
    <3>1. IntBytes > 2 => 3 \in 2..IntBytes /\ 3 - 1 = 2 /\ IntBytes > 1 BY IntBytesIs
    <3> QED BY <1>0, <1>5, <2>2, <3>1
  <2>4. IntBytes > 3 => first[4] \in Int
    <3>1. IntBytes > 3 => 4 \in 2..IntBytes /\ 4 - 1 = 3 /\ IntBytes > 2 BY IntBytesIs
    <3> QED BY <1>0, <1>5, <2>3, <3>1
  <2>5. \A b \in D : b \in {1, 2, 3, 4} /\ IntBytes >= b BY IntBytesIs
  <2>6. ASSUME NEW b \in D PROVE first[b] \in Int
    <3>1. b \in {1, 2, 3, 4} /\ IntBytes >= b BY <2>5
    <3>2. /\ b = 2 => IntBytes > 1
          /\ b = 3 => IntBytes > 2
          /\ b = 4 => IntBytes > 3
      BY <3>1, IntBytesIs
    <3> QED BY <2>1, <2>2, <2>3, <2>4, <3>1, <3>2
  <2> QED BY <2>6
<1>7. first \in [D -> Int]
  <2>1. first = [b \in D |-> first[b]] BY <1>3
  <2> QED BY <1>6, <2>1
<1>8. first[1] = IF s[1] < 128 THEN s[1] ELSE s[1] - 256 BY <1>5 DEF v1
<1> QED BY <1>4, <1>5, <1>7, <1>8

Word == [1..IntBytes -> Bytes]

\* Quotients, remainders and signs to the base 256.
LEMMA Places ==
  /\ \A v, s \in Int : 0 <= s /\ s <= 255 =>
       LET w == 256 * v + s IN
       /\ w \in Int /\ (w >= 0 <=> v >= 0)
       /\ 0 <= w /\ w <= 4 => v = 0
  /\ \A q \in Nat : /\ q \div 256 \in Nat /\ q % 256 \in 0..255
                    /\ q = 256 * (q \div 256) + (q % 256)
  /\ \A q \in Nat : q <= 127 => q % 256 = q
  /\ \A q, m \in Nat : q <= 256 * m + 255 => q \div 256 <= m
<1>1. \A v, s \in Int : 0 <= s /\ s <= 255 =>
       LET w == 256 * v + s IN
       /\ w \in Int /\ (w >= 0 <=> v >= 0)
       /\ 0 <= w /\ w <= 4 => v = 0
  OBVIOUS
<1>2. \A q \in Nat : /\ q \div 256 \in Nat /\ q % 256 \in 0..255
                     /\ q = 256 * (q \div 256) + (q % 256)
  OBVIOUS
<1>3. \A q \in Nat : q <= 127 => q % 256 = q OBVIOUS
<1>4. \A q, m \in Nat : q <= 256 * m + 255 => q \div 256 <= m OBVIOUS
<1> QED BY <1>1, <1>2, <1>3, <1>4

\* The bytes of a word.
LEMMA WordIs ==
  \A s \in Word : /\ s \in [1..IntBytes -> Int]
                  /\ \A b \in 1..IntBytes : s[b] \in Int /\ 0 <= s[b] /\ s[b] <= 255
<1> SUFFICES ASSUME NEW s \in Word
             PROVE  /\ s \in [1..IntBytes -> Int]
                    /\ \A b \in 1..IntBytes : s[b] \in Int /\ 0 <= s[b] /\ s[b] <= 255
  OBVIOUS
<1>1. \A b \in 1..IntBytes : s[b] \in 0..255 BY DEF Word, Bytes
<1>2. \A b \in 1..IntBytes : s[b] \in Int /\ 0 <= s[b] /\ s[b] <= 255 BY <1>1
<1>3. s = [b \in 1..IntBytes |-> s[b]] BY DEF Word
<1> QED BY <1>2, <1>3

\* What the bytes of an integer say of it: its sign, and, if it is small, that
\* they are 0 up to the last.
LEMMA IntIs ==
  \A s \in Word :
    /\ ntohl(s) \in Int /\ (s[1] < 128 <=> ntohl(s) >= 0)
    /\ 0 <= ntohl(s) /\ ntohl(s) <= 4 => \A b \in 1..(IntBytes - 1) : s[b] = 0
<1> SUFFICES ASSUME NEW s \in Word
             PROVE  /\ ntohl(s) \in Int /\ (s[1] < 128 <=> ntohl(s) >= 0)
                    /\ 0 <= ntohl(s) /\ ntohl(s) <= 4 => \A b \in 1..(IntBytes - 1) : s[b] = 0
  OBVIOUS
<1>1. /\ s \in [1..IntBytes -> Int]
      /\ \A b \in 1..IntBytes : s[b] \in Int /\ 0 <= s[b] /\ s[b] <= 255
  BY WordIs
<1>2. PICK v \in [1..IntBytes -> Int] :
        /\ v[1] = (IF s[1] < 128 THEN s[1] ELSE s[1] - 256)
        /\ \A b \in 2..IntBytes : v[b] = 256 * v[b - 1] + s[b]
        /\ ntohl(s) = v[IntBytes]
  BY <1>1, NtohlIs
<1>i. IntBytes \in 1..4 BY IntBytesIs
<1>3. v[1] >= 0 <=> s[1] < 128
  <2>1. s[1] \in Int /\ 0 <= s[1] /\ s[1] <= 255 BY <1>1, <1>i
  <2>2. CASE s[1] < 128
    <3>1. v[1] = s[1] BY <1>2, <2>2
    <3> QED BY <2>1, <2>2, <3>1
  <2>3. CASE ~(s[1] < 128)
    <3>1. v[1] = s[1] - 256 BY <1>2, <2>3
    <3> QED BY <2>1, <2>3, <3>1
  <2> QED BY <2>2, <2>3
<1>4. v[1] = 0 => s[1] = 0
  <2>1. s[1] \in Int /\ 0 <= s[1] /\ s[1] <= 255 BY <1>1, <1>i
  <2>2. v[1] = 0 => v[1] = s[1]
    <3>1. v[1] = 0 => s[1] < 128 BY <1>3
    <3> QED BY <1>2, <3>1
  <2> QED BY <2>2
<1>5. ASSUME NEW b \in 2..IntBytes
      PROVE  /\ v[b] \in Int /\ (v[b] >= 0 <=> v[b - 1] >= 0)
             /\ 0 <= v[b] /\ v[b] <= 4 => v[b - 1] = 0
             /\ v[b] = 0 => s[b] = 0
  <2>1. b - 1 \in 1..IntBytes /\ b \in 1..IntBytes BY <1>i
  <2>2. v[b - 1] \in Int /\ v[b] \in Int /\ s[b] \in Int /\ 0 <= s[b] /\ s[b] <= 255 BY <1>1, <2>1
  <2>3. PICK x, y, z \in Int : x = v[b - 1] /\ y = s[b] /\ z = v[b] BY <2>2
  <2>4. z = 256 * x + y /\ 0 <= y /\ y <= 255 BY <1>2, <2>2, <2>3
  <2>5. (z >= 0 <=> x >= 0) /\ (0 <= z /\ z <= 4 => x = 0) BY <2>4, Places
  <2>6. z = 0 => x = 0 /\ y = 0
    <3>1. z = 0 => x = 0 BY <2>5
    <3> QED BY <2>4, <3>1
  <2> QED BY <2>3, <2>5, <2>6
<1> DEFINE T == {b \in Nat : b + 1 \in 1..IntBytes =>
                   /\ v[b + 1] >= 0 <=> s[1] < 128
                   /\ 0 <= v[b + 1] /\ v[b + 1] <= 4 => \A c \in 1..b : s[c] = 0}
<1>6. 0 \in T BY <1>3
<1>7. ASSUME NEW b \in Nat, b \in T PROVE b + 1 \in T
  <2> SUFFICES ASSUME b + 2 \in 1..IntBytes
               PROVE  /\ v[b + 2] >= 0 <=> s[1] < 128
                      /\ 0 <= v[b + 2] /\ v[b + 2] <= 4 => \A c \in 1..(b + 1) : s[c] = 0
    <3>1. b + 1 \in Nat /\ (b + 1) + 1 = b + 2 OBVIOUS
    <3> QED BY <3>1
  <2>1. b + 1 \in 1..IntBytes /\ b + 2 \in 2..IntBytes /\ (b + 2) - 1 = b + 1 BY <1>i
  <2>2. /\ v[b + 1] >= 0 <=> s[1] < 128
        /\ 0 <= v[b + 1] /\ v[b + 1] <= 4 => \A c \in 1..b : s[c] = 0
    BY <1>7, <2>1
  <2>3. /\ v[b + 2] >= 0 <=> v[b + 1] >= 0
        /\ 0 <= v[b + 2] /\ v[b + 2] <= 4 => v[b + 1] = 0
    BY <1>5, <2>1
  <2>4. v[b + 1] = 0 => \A c \in 1..(b + 1) : s[c] = 0
    <3>1. v[b + 1] = 0 => \A c \in 1..b : s[c] = 0 BY <2>2
    <3>2. v[b + 1] = 0 => s[b + 1] = 0
      <4>1. CASE b = 0 BY <1>4, <4>1
      <4>2. CASE b # 0
        <5>1. b + 1 \in 2..IntBytes BY <2>1, <4>2, <1>i
        <5> QED BY <1>5, <5>1
      <4> QED BY <4>1, <4>2
    <3>3. \A c \in 1..(b + 1) : c \in 1..b \/ c = b + 1 OBVIOUS
    <3> QED BY <3>1, <3>2, <3>3
  <2> QED BY <2>2, <2>3, <2>4
<1> HIDE DEF T
<1>8. Nat \subseteq T BY <1>6, <1>7, SetInduction
<1>9. IntBytes - 1 \in T /\ (IntBytes - 1) + 1 = IntBytes /\ IntBytes \in 1..IntBytes BY <1>8, <1>i
<1>10. /\ v[IntBytes] >= 0 <=> s[1] < 128
       /\ 0 <= v[IntBytes] /\ v[IntBytes] <= 4 => \A c \in 1..(IntBytes - 1) : s[c] = 0
  BY <1>9 DEF T
<1>11. ntohl(s) \in Int BY <1>2, <1>9
<1> QED BY <1>2, <1>10, <1>11

\* htonl() gives a word.
LEMMA WordOf == \A n \in Nat : htonl(n) \in Word
<1> SUFFICES ASSUME NEW n \in Nat PROVE htonl(n) \in Word OBVIOUS
<1>1. PICK q \in [0..(IntBytes - 1) -> Nat] :
        htonl(n) = [b \in 1..IntBytes |-> q[IntBytes - b] % 256]
  BY HtonlIs
<1>2. \A b \in 1..IntBytes : q[IntBytes - b] \in Nat
  <2>1. \A b \in 1..IntBytes : IntBytes - b \in 0..(IntBytes - 1) BY IntBytesIs
  <2> QED BY <2>1
<1>3. \A b \in 1..IntBytes : q[IntBytes - b] % 256 \in Bytes
  <2>1. \A m \in Nat : m % 256 \in Bytes BY Places DEF Bytes
  <2> QED BY <1>2, <2>1
<1> QED BY <1>1, <1>3 DEF Word

\* The largest integer.
LEMMA IntMaxIs ==
  \E m \in [1..IntBytes -> Nat] :
    m[1] = 127 /\ IntMax = m[IntBytes] /\ \A b \in 2..IntBytes : m[b] = 256 * m[b - 1] + 255
<1> DEFINE s == [b \in 1..IntBytes |-> IF b = 1 THEN 127 ELSE 255]
<1>i. IntBytes \in {1, 2, 3, 4} BY IntBytesIs
<1>1. s \in [1..IntBytes -> Int] OBVIOUS
<1>2. PICK v \in [1..IntBytes -> Int] :
        /\ v[1] = (IF s[1] < 128 THEN s[1] ELSE s[1] - 256)
        /\ \A b \in 2..IntBytes : v[b] = 256 * v[b - 1] + s[b]
        /\ ntohl(s) = v[IntBytes]
  BY <1>1, NtohlIs
<1>3. IntMax = v[IntBytes] BY <1>2 DEF IntMax
<1>4. v[1] = 127
  <2>1. s[1] = 127 BY <1>i
  <2> HIDE DEF s
  <2>2. s[1] < 128 BY <2>1
  <2> QED BY <1>2, <2>1, <2>2
<1>5. \A b \in 2..IntBytes : v[b] = 256 * v[b - 1] + 255
  <2>1. \A b \in 2..IntBytes : s[b] = 255 BY <1>i
  <2> HIDE DEF s
  <2> QED BY <1>2, <2>1
<1> HIDE DEF s
<1>0. \A x \in Nat : 256 * x + 255 \in Nat OBVIOUS
<1>6. IntBytes > 1 => v[2] \in Nat
  <2>1. IntBytes > 1 => 2 \in 2..IntBytes /\ 2 - 1 = 1 BY <1>i
  <2> QED BY <1>0, <1>4, <1>5, <2>1
<1>7. IntBytes > 2 => v[3] \in Nat
  <2>1. IntBytes > 2 => 3 \in 2..IntBytes /\ 3 - 1 = 2 /\ IntBytes > 1 BY <1>i
  <2> QED BY <1>0, <1>5, <1>6, <2>1
<1>8. IntBytes > 3 => v[4] \in Nat
  <2>1. IntBytes > 3 => 4 \in 2..IntBytes /\ 4 - 1 = 3 /\ IntBytes > 2 BY <1>i
  <2> QED BY <1>0, <1>5, <1>7, <2>1
<1>9. \A b \in 1..IntBytes : v[b] \in Nat
  <2>1. \A b \in 1..IntBytes : b \in {1, 2, 3, 4} /\ IntBytes >= b BY <1>i
  <2>2. ASSUME NEW b \in 1..IntBytes PROVE v[b] \in Nat
    <3>1. b \in {1, 2, 3, 4} /\ IntBytes >= b BY <2>1
    <3>2. /\ b = 2 => IntBytes > 1
          /\ b = 3 => IntBytes > 2
          /\ b = 4 => IntBytes > 3
      BY <1>i, <3>1
    <3> QED BY <1>4, <1>6, <1>7, <1>8, <3>1, <3>2
  <2> QED BY <2>2
<1>10. v \in [1..IntBytes -> Nat] BY <1>9
<1> QED BY <1>3, <1>4, <1>5, <1>10

\* An integer that fits survives htonl() and ntohl().
LEMMA IntRoundTrip == \A n \in Nat : n <= IntMax => ntohl(htonl(n)) = n
<1> SUFFICES ASSUME NEW n \in Nat, n <= IntMax PROVE ntohl(htonl(n)) = n OBVIOUS
<1>i. IntBytes \in 1..4 BY IntBytesIs
<1>1. PICK q \in [0..(IntBytes - 1) -> Nat] :
        /\ q[0] = n /\ \A i \in 1..(IntBytes - 1) : q[i] = q[i - 1] \div 256
        /\ htonl(n) = [b \in 1..IntBytes |-> q[IntBytes - b] % 256]
  BY HtonlIs
<1>2. PICK s : s = htonl(n) OBVIOUS
<1>3. s \in [1..IntBytes -> Int] BY <1>2, WordOf, WordIs
<1>4. PICK v \in [1..IntBytes -> Int] :
        /\ v[1] = (IF s[1] < 128 THEN s[1] ELSE s[1] - 256)
        /\ \A b \in 2..IntBytes : v[b] = 256 * v[b - 1] + s[b]
        /\ ntohl(s) = v[IntBytes]
  BY <1>3, NtohlIs
<1>5. \A b \in 1..IntBytes : s[b] = q[IntBytes - b] % 256 BY <1>1, <1>2
<1>6. PICK max \in [1..IntBytes -> Nat] :
        /\ max[1] = 127 /\ IntMax = max[IntBytes]
        /\ \A b \in 2..IntBytes : max[b] = 256 * max[b - 1] + 255
  BY IntMaxIs
\* What is left to write is never more than the bytes left can hold.
<1> DEFINE T == {i \in Nat : i \in 0..(IntBytes - 1) => q[i] <= max[IntBytes - i]}
<1>7. 0 \in T
  <2>1. IntBytes - 0 = IntBytes BY <1>i
  <2> QED BY <1>1, <1>6, <2>1
<1>8. ASSUME NEW i \in Nat, i \in T PROVE i + 1 \in T
  <2> SUFFICES ASSUME i + 1 \in 0..(IntBytes - 1) PROVE q[i + 1] <= max[IntBytes - (i + 1)] OBVIOUS
  <2>1. /\ i \in 0..(IntBytes - 1) /\ i + 1 \in 1..(IntBytes - 1) /\ (i + 1) - 1 = i
        /\ IntBytes - i \in 2..IntBytes /\ (IntBytes - i) - 1 = IntBytes - (i + 1)
        /\ IntBytes - (i + 1) \in 1..IntBytes
    BY <1>i
  <2>2. PICK x, y \in Nat : x = q[i] /\ y = max[IntBytes - (i + 1)] BY <2>1
  <2>3. x <= 256 * y + 255 BY <1>6, <1>8, <2>1, <2>2
  <2>4. x \div 256 <= y BY <2>3, Places
  <2>5. q[i + 1] = x \div 256 BY <1>1, <2>1, <2>2
  <2> QED BY <2>2, <2>4, <2>5
<1> HIDE DEF T
<1>9. Nat \subseteq T BY <1>7, <1>8, SetInduction
<1>10. PICK top \in Nat : top = q[IntBytes - 1] /\ top <= 127
  <2>1. /\ IntBytes - 1 \in T /\ IntBytes - 1 \in 0..(IntBytes - 1)
        /\ IntBytes - (IntBytes - 1) = 1
    BY <1>9, <1>i
  <2>2. q[IntBytes - 1] <= max[1] BY <2>1 DEF T
  <2> QED BY <1>6, <2>1, <2>2
<1>11. v[1] = top
  <2>1. s[1] = top % 256 BY <1>5, <1>10, <1>i
  <2>2. top % 256 = top /\ top < 128 BY <1>10, Places
  <2> QED BY <1>4, <2>1, <2>2
\* Reading restores it byte by byte.
<1> DEFINE U == {b \in Nat : b + 1 \in 1..IntBytes => v[b + 1] = q[IntBytes - (b + 1)]}
<1>12. 0 \in U
  <2>1. 0 + 1 = 1 OBVIOUS
  <2> QED BY <1>10, <1>11, <2>1
<1>13. ASSUME NEW b \in Nat, b \in U PROVE b + 1 \in U
  <2> SUFFICES ASSUME b + 2 \in 1..IntBytes PROVE v[b + 2] = q[IntBytes - (b + 2)]
    <3>1. b + 1 \in Nat /\ (b + 1) + 1 = b + 2 OBVIOUS
    <3> QED BY <3>1
  <2>1. /\ b + 1 \in 1..IntBytes /\ b + 2 \in 2..IntBytes /\ (b + 2) - 1 = b + 1
        /\ IntBytes - (b + 1) \in 1..(IntBytes - 1)
        /\ (IntBytes - (b + 1)) - 1 = IntBytes - (b + 2)
        /\ IntBytes - (b + 2) \in 0..(IntBytes - 1)
    BY <1>i
  <2>2. PICK x \in Nat : x = q[IntBytes - (b + 2)] BY <2>1
  <2>3. v[b + 1] = x \div 256
    <3>1. q[IntBytes - (b + 1)] = x \div 256 BY <1>1, <2>1, <2>2
    <3> QED BY <1>13, <2>1, <3>1
  <2>4. s[b + 2] = x % 256 BY <1>5, <2>2
  <2>5. v[b + 2] = 256 * (x \div 256) + (x % 256) BY <1>4, <2>1, <2>3, <2>4
  <2>6. x = 256 * (x \div 256) + (x % 256) BY Places
  <2> QED BY <2>2, <2>5, <2>6
<1> HIDE DEF U
<1>14. Nat \subseteq U BY <1>12, <1>13, SetInduction
<1>15. /\ IntBytes - 1 \in U /\ (IntBytes - 1) + 1 = IntBytes
       /\ IntBytes \in 1..IntBytes /\ IntBytes - IntBytes = 0
  BY <1>14, <1>i
<1>16. v[IntBytes] = q[0] BY <1>15 DEF U
<1> QED BY <1>1, <1>2, <1>4, <1>16

\* The bytes of the check number.
LEMMA CheckNumber == \A b \in 1..IntBytes : htonl(1)[b] # PB_START
<1>1. PICK q \in [0..(IntBytes - 1) -> Nat] :
        /\ q[0] = 1 /\ \A i \in 1..(IntBytes - 1) : q[i] = q[i - 1] \div 256
        /\ htonl(1) = [b \in 1..IntBytes |-> q[IntBytes - b] % 256]
  BY HtonlIs
<1>2. \A i \in 0..(IntBytes - 1) : q[i] <= 1
  <2>1. \A i \in 1..(IntBytes - 1) : i - 1 \in 0..(IntBytes - 1) /\ q[i - 1] \in Nat
    BY IntBytesIs
  <2>2. \A m \in Nat : m <= 1 => m \div 256 <= 1 OBVIOUS
  <2>3. \A i \in 1..(IntBytes - 1) : q[i - 1] <= 1 => q[i] <= 1 BY <1>1, <2>1, <2>2
  <2>4. q[0] <= 1 BY <1>1
  <2>5. 1 \in 1..(IntBytes - 1) => q[1] <= 1 BY <2>3, <2>4
  <2>6. 2 \in 1..(IntBytes - 1) => q[2] <= 1
    <3>1. 2 \in 1..(IntBytes - 1) => 1 \in 1..(IntBytes - 1) /\ 2 - 1 = 1 BY IntBytesIs
    <3> QED BY <2>3, <2>5, <3>1
  <2>7. 3 \in 1..(IntBytes - 1) => q[3] <= 1
    <3>1. 3 \in 1..(IntBytes - 1) => 2 \in 1..(IntBytes - 1) /\ 3 - 1 = 2 BY IntBytesIs
    <3> QED BY <2>3, <2>6, <3>1
  <2>8. \A i \in 0..(IntBytes - 1) : i \in {0, 1, 2, 3} /\ (i # 0 => i \in 1..(IntBytes - 1))
    BY IntBytesIs
  <2> QED BY <2>4, <2>5, <2>6, <2>7, <2>8
<1>3. ASSUME NEW b \in 1..IntBytes PROVE htonl(1)[b] # PB_START
  <2>1. IntBytes - b \in 0..(IntBytes - 1) BY IntBytesIs
  <2>2. PICK m \in Nat : m = q[IntBytes - b] /\ m <= 1 BY <1>2, <2>1
  <2>3. htonl(1)[b] = m % 256 BY <1>1, <2>2
  <2>4. m % 256 <= 1 /\ m % 256 \in Nat BY <2>2
  <2> QED BY <2>3, <2>4 DEF PB_START
<1> QED BY <1>3

-----------------------------------------------------------------------------
(* Where the fields of a packet are.                                       *)

\* The bytes of p after the first o are those of s.
Has(p, o, s) == o + Len(s) <= Len(p) /\ \A j \in 1..Len(s) : p[o + j] = s[j]

\* Two strings that are joined are where they were put.
LEMMA HasBoth ==
  \A a, b \in Seq(Bytes) :
    /\ a \o b \in Seq(Bytes) /\ Len(a) \in Nat /\ Len(b) \in Nat
    /\ Len(a \o b) = Len(a) + Len(b)
    /\ Has(a \o b, 0, a) /\ Has(a \o b, Len(a), b)
<1> SUFFICES ASSUME NEW a \in Seq(Bytes), NEW b \in Seq(Bytes)
             PROVE  /\ a \o b \in Seq(Bytes) /\ Len(a) \in Nat /\ Len(b) \in Nat
                    /\ Len(a \o b) = Len(a) + Len(b)
                    /\ Has(a \o b, 0, a) /\ Has(a \o b, Len(a), b)
  OBVIOUS
<1>1. /\ a \o b \in Seq(Bytes) /\ Len(a \o b) = Len(a) + Len(b)
      /\ Len(a) \in Nat /\ Len(b) \in Nat
      /\ \A i \in 1..Len(a) : (a \o b)[i] = a[i]
      /\ \A i \in 1..Len(b) : (a \o b)[Len(a) + i] = b[i]
  BY Concat
<1>2. Has(a \o b, 0, a)
  <2>1. \A i \in 1..Len(a) : 0 + i = i OBVIOUS
  <2> QED BY <1>1, <2>1 DEF Has
<1>3. Has(a \o b, Len(a), b) BY <1>1 DEF Has
<1> QED BY <1>1, <1>2, <1>3

\* A string within one that is within p.
LEMMA HasWithin ==
  \A p, s, t \in Seq(Bytes) : \A o, u \in Nat : Has(p, o, s) /\ Has(s, u, t) => Has(p, o + u, t)
<1> SUFFICES ASSUME NEW p \in Seq(Bytes), NEW s \in Seq(Bytes), NEW t \in Seq(Bytes),
                    NEW o \in Nat, NEW u \in Nat, Has(p, o, s), Has(s, u, t)
             PROVE  Has(p, o + u, t)
  OBVIOUS
<1> PICK l, m, n \in Nat : l = Len(p) /\ m = Len(s) /\ n = Len(t) OBVIOUS
<1>1. /\ o + m <= l /\ \A j \in 1..m : p[o + j] = s[j]
      /\ u + n <= m /\ \A j \in 1..n : s[u + j] = t[j]
  BY DEF Has
<1>2. ASSUME NEW j \in 1..n PROVE p[o + u + j] = t[j]
  <2>1. u + j \in 1..m /\ o + (u + j) = o + u + j BY <1>1
  <2>2. p[o + (u + j)] = s[u + j] BY <1>1, <2>1
  <2> QED BY <1>1, <2>1, <2>2
<1>3. o + u + n <= l BY <1>1
<1> QED BY <1>2, <1>3 DEF Has

\* The body of a packet, and the packet, of the parts they are put together from.
LEMMA HasFirst ==
  \A p, s, t \in Seq(Bytes) : \A u \in Nat : Has(p, 0, s) /\ Has(s, u, t) => Has(p, u, t)
<1> SUFFICES ASSUME NEW p \in Seq(Bytes), NEW s \in Seq(Bytes), NEW t \in Seq(Bytes),
                    NEW u \in Nat, Has(p, 0, s), Has(s, u, t)
             PROVE  Has(p, u, t)
  OBVIOUS
<1>1. PICK z \in Nat : z = 0 OBVIOUS
<1>2. Has(p, z + u, t) BY <1>1, HasWithin
<1>3. z + u = u BY <1>1
<1> QED BY <1>2, <1>3

\* c is b appended to a, which have m and n bytes.
Joined(c, a, b, m, n) ==
  c \in Seq(Bytes) /\ c = a \o b /\ Len(c) = m + n /\ Has(c, 0, a) /\ Has(c, m, b)

\* Two strings that are joined, and their lengths.
LEMMA AppendTo == \A a, b \in Seq(Bytes) : Joined(a \o b, a, b, Len(a), Len(b))
BY HasBoth DEF Joined

\* The body of a packet, of the parts it is put together from, w the length of an
\* integer.
BodyParts(body, w, A, B, E, D, h1, f1, h2, f2, code, h3, f3, data, check) ==
  /\ body \in Seq(Bytes) /\ Len(body) = 5 * w + A + B + E + D
  /\ Has(body, 0, h1) /\ Has(body, w, f1) /\ Has(body, w + A, h2)
  /\ Has(body, 2 * w + A, f2) /\ Has(body, 2 * w + A + B, code)
  /\ Has(body, 3 * w + A + B, h3) /\ Has(body, 4 * w + A + B, f3)
  /\ Has(body, 4 * w + A + B + E, data) /\ Has(body, 4 * w + A + B + E + D, check)

BodyCat(h1, f1, h2, f2, code, h3, f3, data, check) ==
  (h1 \o f1) \o (h2 \o f2) \o code \o (h3 \o f3) \o data \o check

\* Where the nine parts of the body of a packet are.
LEMMA BodyOf ==
  ASSUME NEW h1 \in Seq(Bytes), NEW f1 \in Seq(Bytes), NEW h2 \in Seq(Bytes), NEW f2 \in Seq(Bytes),
         NEW code \in Seq(Bytes), NEW h3 \in Seq(Bytes), NEW f3 \in Seq(Bytes),
         NEW data \in Seq(Bytes), NEW check \in Seq(Bytes),
         Len(h2) = Len(h1), Len(h3) = Len(h1), Len(code) = Len(h1), Len(check) = Len(h1)
  PROVE  BodyParts(BodyCat(h1, f1, h2, f2, code, h3, f3, data, check),
                   Len(h1), Len(f1), Len(f2), Len(f3), Len(data),
                   h1, f1, h2, f2, code, h3, f3, data, check)
<1>w. PICK w, A, B, E, D \in Nat :
        w = Len(h1) /\ A = Len(f1) /\ B = Len(f2) /\ E = Len(f3) /\ D = Len(data)
  <2>1. Len(h1) \in Nat /\ Len(f1) \in Nat /\ Len(f2) \in Nat /\ Len(f3) \in Nat /\ Len(data) \in Nat
    OBVIOUS
  <2> QED BY <2>1
<1>h. /\ Len(h1) = w /\ Len(h2) = w /\ Len(h3) = w /\ Len(code) = w /\ Len(check) = w
      /\ Len(f1) = A /\ Len(f2) = B /\ Len(f3) = E /\ Len(data) = D
  BY <1>w
<1>l. PICK l2, l3, l4, l5 \in Nat :
      /\ l2 = 2 * w + A + B /\ l3 = 3 * w + A + B
      /\ l4 = 4 * w + A + B + E /\ l5 = 4 * w + A + B + E + D
  OBVIOUS
<1>m. PICK m1, m2, m3 \in Nat : m1 = w + A /\ m2 = w + B /\ m3 = w + E OBVIOUS
<1>s. m1 + m2 = l2 /\ l2 + w = l3 /\ l3 + m3 = l4 /\ l4 + D = l5 BY <1>l, <1>m
<1>1. PICK s1 \in Seq(Bytes) :
        s1 = h1 \o f1 /\ Len(s1) = m1 /\ Has(s1, 0, h1) /\ Has(s1, w, f1)
  <2>1. Joined(h1 \o f1, h1, f1, w, A)
    BY <1>h, AppendTo
  <2> QED BY <1>m, <1>s, <2>1 DEF Joined
<1>2. PICK s2 \in Seq(Bytes) :
        s2 = h2 \o f2 /\ Len(s2) = m2 /\ Has(s2, 0, h2) /\ Has(s2, w, f2)
  <2>1. Joined(h2 \o f2, h2, f2, w, B)
    BY <1>h, AppendTo
  <2> QED BY <1>m, <1>s, <2>1 DEF Joined
<1>3. PICK s3 \in Seq(Bytes) :
        s3 = h3 \o f3 /\ Len(s3) = m3 /\ Has(s3, 0, h3) /\ Has(s3, w, f3)
  <2>1. Joined(h3 \o f3, h3, f3, w, E)
    BY <1>h, AppendTo
  <2> QED BY <1>m, <1>s, <2>1 DEF Joined
<1>4. PICK b2 \in Seq(Bytes) :
        b2 = s1 \o s2 /\ Len(b2) = l2 /\ Has(b2, 0, s1) /\ Has(b2, m1, s2)
  <2>1. Joined(s1 \o s2, s1, s2, m1, m2)
    BY <1>1, <1>2, <1>h, AppendTo
  <2> QED BY <1>m, <1>s, <2>1 DEF Joined
<1>5. PICK b3 \in Seq(Bytes) :
        b3 = b2 \o code /\ Len(b3) = l3 /\ Has(b3, 0, b2) /\ Has(b3, l2, code)
  <2>1. Joined(b2 \o code, b2, code, l2, w)
    BY <1>4, <1>h, AppendTo
  <2> QED BY <1>m, <1>s, <2>1 DEF Joined
<1>6. PICK b4 \in Seq(Bytes) :
        b4 = b3 \o s3 /\ Len(b4) = l4 /\ Has(b4, 0, b3) /\ Has(b4, l3, s3)
  <2>1. Joined(b3 \o s3, b3, s3, l3, m3)
    BY <1>5, <1>3, <1>h, AppendTo
  <2> QED BY <1>m, <1>s, <2>1 DEF Joined
<1>7. PICK b5 \in Seq(Bytes) :
        b5 = b4 \o data /\ Len(b5) = l5 /\ Has(b5, 0, b4) /\ Has(b5, l4, data)
  <2>1. Joined(b4 \o data, b4, data, l4, D)
    BY <1>6, <1>h, AppendTo
  <2> QED BY <1>m, <1>s, <2>1 DEF Joined
<1>8. PICK b6 \in Seq(Bytes) :
        /\ b6 = b5 \o check /\ Len(b6) = 5 * w + A + B + E + D
        /\ Has(b6, 0, b5) /\ Has(b6, l5, check)
  <2>1. Joined(b5 \o check, b5, check, l5, w)
    BY <1>7, <1>h, AppendTo
  <2>2. l5 + w = 5 * w + A + B + E + D BY <1>l
  <2> QED BY <2>1, <2>2 DEF Joined
<1>9. BodyCat(h1, f1, h2, f2, code, h3, f3, data, check) = b6
  BY <1>1, <1>2, <1>3, <1>4, <1>5, <1>6, <1>7, <1>8 DEF BodyCat
<1>z. 0 \in Nat OBVIOUS
<1>10. Has(b6, 0, b4) BY <1>7, <1>8, <1>z, HasFirst
<1>11. Has(b6, 0, b3) BY <1>6, <1>10, <1>z, HasFirst
<1>12. Has(b6, 0, b2) BY <1>5, <1>11, <1>z, HasFirst
<1>13. Has(b6, 0, s1) BY <1>4, <1>12, <1>z, HasFirst
<1>14. Has(b6, 0, h1) BY <1>1, <1>13, <1>z, HasFirst
<1>15. Has(b6, w, f1) BY <1>1, <1>13, HasFirst
<1>16. Has(b6, m1, s2) BY <1>4, <1>12, HasFirst
<1>17. Has(b6, w + A, h2)
  <2>1. Has(b6, m1 + 0, h2) BY <1>2, <1>16, <1>z, HasWithin
  <2> QED BY <1>m, <2>1
<1>18. Has(b6, 2 * w + A, f2)
  <2>1. Has(b6, m1 + w, f2) BY <1>2, <1>16, HasWithin
  <2>2. m1 + w = 2 * w + A BY <1>m
  <2> QED BY <2>1, <2>2
<1>19. Has(b6, l2, code) BY <1>5, <1>11, HasFirst
<1>20. Has(b6, l3, s3) BY <1>6, <1>10, HasFirst
<1>21. Has(b6, 3 * w + A + B, h3)
  <2>1. Has(b6, l3 + 0, h3) BY <1>3, <1>20, <1>z, HasWithin
  <2>2. l3 + 0 = 3 * w + A + B BY <1>l
  <2> QED BY <2>1, <2>2
<1>22. Has(b6, 4 * w + A + B, f3)
  <2>1. Has(b6, l3 + w, f3) BY <1>3, <1>20, HasWithin
  <2>2. l3 + w = 4 * w + A + B BY <1>l
  <2> QED BY <2>1, <2>2
<1>23. Has(b6, l4, data) BY <1>7, <1>8, HasFirst
<1>24. BodyParts(b6, w, A, B, E, D, h1, f1, h2, f2, code, h3, f3, data, check)
  BY <1>l, <1>m, <1>8, <1>9, <1>14, <1>15, <1>17, <1>18, <1>19, <1>21, <1>22, <1>23 DEF BodyParts
<1> QED BY <1>9, <1>24, <1>w

BodyOf3(f1, f2, n, f3, data) ==
  (htonl(Len(f1)) \o f1) \o (htonl(Len(f2)) \o f2) \o htonl(n) \o (htonl(Len(f3)) \o f3)
    \o data \o htonl(1)

\* The packet p of a message with the fields f1 (number), f2 (service), n (error
\* code), f3 (error text) and data, of A, B, E and D bytes.
Layout(p, w, l, A, B, E, D, f1, f2, n, f3, data) ==
  /\ p \in Seq(Bytes) /\ Len(p) = l /\ l = 2 + 6 * w + A + B + E + D
  /\ p[1] = PB_START /\ p[l] = PB_END
  /\ Has(p, 1, htonl(l))
  /\ Has(p, 1 + w, htonl(A)) /\ Has(p, 1 + 2 * w, f1)
  /\ Has(p, 1 + 2 * w + A, htonl(B)) /\ Has(p, 1 + 3 * w + A, f2)
  /\ Has(p, 1 + 3 * w + A + B, htonl(n))
  /\ Has(p, 1 + 4 * w + A + B, htonl(E)) /\ Has(p, 1 + 5 * w + A + B, f3)
  /\ Has(p, 1 + 5 * w + A + B + E, data) /\ Has(p, 1 + 5 * w + A + B + E + D, htonl(1))

\* htonl() gives as many bytes as an integer has.
LEMMA WordSeq == \A n \in Nat : htonl(n) \in Seq(Bytes) /\ Len(htonl(n)) = IntBytes
<1> SUFFICES ASSUME NEW n \in Nat PROVE htonl(n) \in Seq(Bytes) /\ Len(htonl(n)) = IntBytes OBVIOUS
<1>1. PICK w, h : w = IntBytes /\ h = htonl(n) OBVIOUS
<1>0. w \in Nat BY <1>1, IntBytesIs
<1>2. h \in [1..w -> Bytes] BY <1>1, WordOf DEF Word
<1>3. h \in Seq(Bytes) /\ Len(h) = w BY <1>0, <1>2
<1> QED BY <1>1, <1>3

Sizes(w, l, A, B, E, D, f1, f2, f3, data) ==
  /\ w = IntBytes /\ A = Len(f1) /\ B = Len(f2) /\ E = Len(f3) /\ D = Len(data)
  /\ l = 2 + 6 * w + A + B + E + D
IsPacketOf(p, f1, f2, n, f3, data) ==
  p = <<PB_START>> \o htonl(2 + IntBytes + Len(BodyOf3(f1, f2, n, f3, data)))
        \o BodyOf3(f1, f2, n, f3, data) \o <<PB_END>>

\* Where the fields of a packet are.
LEMMA LayoutOf ==
  ASSUME NEW f1 \in Seq(Bytes), NEW f2 \in Seq(Bytes), NEW f3 \in Seq(Bytes),
         NEW data \in Seq(Bytes), NEW n \in Nat, NEW p,
         NEW w \in Nat, NEW l \in Nat, NEW A \in Nat, NEW B \in Nat, NEW E \in Nat, NEW D \in Nat,
         Sizes(w, l, A, B, E, D, f1, f2, f3, data), IsPacketOf(p, f1, f2, n, f3, data)
  PROVE  Layout(p, w, l, A, B, E, D, f1, f2, n, f3, data)
<1>1. PICK h1, h2, h3, code, check \in Seq(Bytes) :
        /\ h1 = htonl(A) /\ h2 = htonl(B) /\ h3 = htonl(E) /\ code = htonl(n) /\ check = htonl(1)
        /\ Len(h1) = w /\ Len(h2) = w /\ Len(h3) = w /\ Len(code) = w /\ Len(check) = w
  BY WordSeq DEF Sizes
<1>f. Len(f1) = A /\ Len(f2) = B /\ Len(f3) = E /\ Len(data) = D BY DEF Sizes
<1>k. l = 2 + 6 * w + A + B + E + D BY DEF Sizes
<1>2. PICK b : b = BodyOf3(f1, f2, n, f3, data) OBVIOUS
<1>3. b = BodyCat(h1, f1, h2, f2, code, h3, f3, data, check)
  BY <1>1, <1>2, <1>f DEF BodyOf3, BodyCat
<1>4. BodyParts(b, w, A, B, E, D, h1, f1, h2, f2, code, h3, f3, data, check)
  <2>1. Len(h2) = Len(h1) /\ Len(h3) = Len(h1) /\ Len(code) = Len(h1) /\ Len(check) = Len(h1) BY <1>1
  <2>2. BodyParts(b, Len(h1), Len(f1), Len(f2), Len(f3), Len(data),
                  h1, f1, h2, f2, code, h3, f3, data, check)
    BY <1>3, <2>1, BodyOf
  <2> QED BY <1>1, <1>f, <2>2
<1>5. PICK k \in Nat : k = 5 * w + A + B + E + D OBVIOUS
<1>6. b \in Seq(Bytes) /\ Len(b) = k BY <1>4, <1>5 DEF BodyParts
<1>7. PICK len \in Seq(Bytes) : len = htonl(l) /\ Len(len) = w BY WordSeq DEF Sizes
<1>8. p = <<PB_START>> \o len \o b \o <<PB_END>>
  <2>1. 2 + IntBytes + Len(b) = l BY <1>5, <1>6, <1>k DEF Sizes
  <2> QED BY <1>2, <1>7, <2>1 DEF IsPacketOf
<1>9. PICK start, end \in Seq(Bytes) :
        /\ start = <<PB_START>> /\ end = <<PB_END>> /\ Len(start) = 1 /\ Len(end) = 1
        /\ start[1] = PB_START /\ end[1] = PB_END
  <2>1. PB_START \in Bytes /\ PB_END \in Bytes BY DEF PB_START, PB_END, Bytes
  <2>2. \A x \in Bytes : <<x>> \in Seq(Bytes) /\ Len(<<x>>) = 1 /\ <<x>>[1] = x OBVIOUS
  <2> QED BY <2>1, <2>2
<1>10. PICK p1 \in Seq(Bytes) :
         p1 = start \o len /\ Len(p1) = 1 + w /\ Has(p1, 0, start) /\ Has(p1, 1, len)
  <2>1. Joined(start \o len, start, len, 1, w) BY <1>7, <1>9, AppendTo
  <2> QED BY <2>1 DEF Joined
<1>11. PICK u, v \in Nat : u = 1 + w /\ v = u + k OBVIOUS
<1>12. PICK p2 \in Seq(Bytes) :
         p2 = p1 \o b /\ Len(p2) = v /\ Has(p2, 0, p1) /\ Has(p2, u, b)
  <2>1. Joined(p1 \o b, p1, b, u, k) BY <1>6, <1>10, <1>11, AppendTo
  <2> QED BY <1>11, <2>1 DEF Joined
<1>13. p \in Seq(Bytes) /\ Len(p) = v + 1 /\ Has(p, 0, p2) /\ Has(p, v, end)
  <2>1. Joined(p2 \o end, p2, end, v, 1) BY <1>9, <1>12, AppendTo
  <2>2. p = p2 \o end BY <1>8, <1>9, <1>10, <1>12
  <2> QED BY <2>1, <2>2 DEF Joined
<1>14. v + 1 = l BY <1>5, <1>11, <1>k
<1>z. 0 \in Nat /\ 1 \in Nat OBVIOUS
<1>15. Has(p, 0, p1) BY <1>12, <1>13, <1>z, HasFirst
<1>16. Has(p, 0, start) /\ Has(p, 1, len)
  <2>1. Has(p, 0, start) BY <1>9, <1>10, <1>13, <1>15, <1>z, HasFirst
  <2>2. Has(p, 1, len) BY <1>7, <1>10, <1>13, <1>15, <1>z, HasFirst
  <2> QED BY <2>1, <2>2
<1>17. Has(p, u, b) BY <1>6, <1>12, <1>13, HasFirst
<1>18. \A t \in Seq(Bytes) : \A o \in Nat : Has(b, o, t) => Has(p, u + o, t)
  BY <1>6, <1>13, <1>17, HasWithin
<1>19. p[1] = PB_START /\ p[l] = PB_END
  <2>0. 1 \in 1..Len(start) /\ 1 \in 1..Len(end) /\ 0 + 1 = 1 BY <1>9
  <2>1. p[0 + 1] = start[1] BY <1>16, <2>0 DEF Has
  <2>2. p[v + 1] = end[1] BY <1>13, <2>0 DEF Has
  <2> QED BY <1>9, <1>14, <2>0, <2>1, <2>2
<1>20. /\ Has(b, 0, h1) /\ Has(b, w, f1) /\ Has(b, w + A, h2)
       /\ Has(b, 2 * w + A, f2) /\ Has(b, 2 * w + A + B, code)
       /\ Has(b, 3 * w + A + B, h3) /\ Has(b, 4 * w + A + B, f3)
       /\ Has(b, 4 * w + A + B + E, data) /\ Has(b, 4 * w + A + B + E + D, check)
  BY <1>4 DEF BodyParts
<1>o. PICK o2, o3, o4, o5 \in Nat :
        /\ o2 = w + A /\ o3 = 2 * w + A /\ o4 = 2 * w + A + B /\ o5 = 3 * w + A + B
  OBVIOUS
<1>21. PICK o6, o7, o8 \in Nat :
         /\ o6 = 4 * w + A + B /\ o7 = 4 * w + A + B + E /\ o8 = 4 * w + A + B + E + D
  OBVIOUS
<1>22. /\ Has(b, o2, h2) /\ Has(b, o3, f2) /\ Has(b, o4, code) /\ Has(b, o5, h3)
       /\ Has(b, o6, f3) /\ Has(b, o7, data) /\ Has(b, o8, check)
  BY <1>20, <1>o, <1>21
<1>23. /\ Has(p, u + 0, h1) /\ Has(p, u + w, f1) /\ Has(p, u + o2, h2) /\ Has(p, u + o3, f2)
  BY <1>1, <1>18, <1>20, <1>22, <1>z
<1>24. /\ Has(p, u + o4, code) /\ Has(p, u + o5, h3) /\ Has(p, u + o6, f3)
       /\ Has(p, u + o7, data) /\ Has(p, u + o8, check)
  BY <1>1, <1>18, <1>22
<1>25. /\ u + 0 = 1 + w /\ u + w = 1 + 2 * w /\ u + o2 = 1 + 2 * w + A /\ u + o3 = 1 + 3 * w + A
       /\ u + o4 = 1 + 3 * w + A + B /\ u + o5 = 1 + 4 * w + A + B
       /\ u + o6 = 1 + 5 * w + A + B /\ u + o7 = 1 + 5 * w + A + B + E
       /\ u + o8 = 1 + 5 * w + A + B + E + D
  BY <1>11, <1>o, <1>21
<1>26. /\ Has(p, 1 + w, h1) /\ Has(p, 1 + 2 * w, f1) /\ Has(p, 1 + 2 * w + A, h2)
       /\ Has(p, 1 + 3 * w + A, f2) /\ Has(p, 1 + 3 * w + A + B, code)
       /\ Has(p, 1 + 4 * w + A + B, h3) /\ Has(p, 1 + 5 * w + A + B, f3)
       /\ Has(p, 1 + 5 * w + A + B + E, data) /\ Has(p, 1 + 5 * w + A + B + E + D, check)
  BY <1>23, <1>24, <1>25
<1>27. Len(p) = l BY <1>13, <1>14
<1> QED BY <1>1, <1>7, <1>13, <1>16, <1>19, <1>26, <1>27, <1>k DEF Layout

\* Packet k of the stream.
LEMMA PacketIs ==
  ASSUME NEW k \in DOMAIN Messages
  PROVE  \E w, l, A, B, E, D, n \in Nat, f1, f2, f3, data \in Seq(Bytes) :
           /\ Layout(Packet(Messages[k]), w, l, A, B, E, D, f1, f2, n, f3, data)
           /\ w = IntBytes /\ A = Len(f1) /\ B = Len(f2) /\ E = Len(f3) /\ D = Len(data)
           /\ l <= IntMax /\ n <= IntMax /\ A > 0
           /\ Messages[k] = [msg_req |-> f1, service_full_name |-> f2, err_code |-> n,
                             err_info |-> f3, pb_data |-> data]
<1>1. PICK m \in Message : m = Messages[k]
  <2>1. Messages \in Seq(Message) BY MessagesAssumption
  <2> QED BY <2>1
<1>2. /\ m.msg_req # << >> /\ m.err_code <= IntMax /\ Len(Packet(m)) <= IntMax
  BY <1>1, MessagesAssumption
<1>3. \A s : s \in Seq(Bytes \ {0}) => s \in Seq(Bytes)
  <2> SUFFICES ASSUME NEW s \in Seq(Bytes \ {0}) PROVE s \in Seq(Bytes) OBVIOUS
  <2>1. \A i \in 1..Len(s) : s[i] \in Bytes OBVIOUS
  <2>2. s = [i \in 1..Len(s) |-> s[i]] /\ Len(s) \in Nat OBVIOUS
  <2> QED BY <2>1, <2>2
<1>4. PICK f1, f2, f3, data \in Seq(Bytes), n \in Nat :
        /\ f1 = m.msg_req /\ f2 = m.service_full_name /\ f3 = m.err_info /\ data = m.pb_data
        /\ n = m.err_code
        /\ m = [msg_req |-> f1, service_full_name |-> f2, err_code |-> n,
                err_info |-> f3, pb_data |-> data]
  BY <1>3 DEF Message
<1>5. PICK w, A, B, E, D \in Nat :
        w = IntBytes /\ A = Len(f1) /\ B = Len(f2) /\ E = Len(f3) /\ D = Len(data)
  <2>1. IntBytes \in Nat BY IntBytesIs
  <2>2. Len(f1) \in Nat /\ Len(f2) \in Nat /\ Len(f3) \in Nat /\ Len(data) \in Nat OBVIOUS
  <2> QED BY <2>1, <2>2
<1>6. PICK l \in Nat : l = 2 + 6 * w + A + B + E + D OBVIOUS
<1>7. PICK p : p = Packet(m) OBVIOUS
<1>8. IsPacketOf(p, f1, f2, n, f3, data) BY <1>4, <1>7 DEF Packet, BodyOf3, IsPacketOf
<1>s. Sizes(w, l, A, B, E, D, f1, f2, f3, data) BY <1>5, <1>6 DEF Sizes
<1>9. Layout(p, w, l, A, B, E, D, f1, f2, n, f3, data) BY <1>8, <1>s, LayoutOf
<1>10. Len(p) = l BY <1>9 DEF Layout
<1>11. A > 0 BY <1>2, <1>4, <1>5
<1> QED BY <1>1, <1>2, <1>4, <1>5, <1>7, <1>9, <1>10, <1>11

-----------------------------------------------------------------------------
(* What decode() finds.                                                    *)

\* Of the packet p of l bytes, those that have arrived are in the buffer from r
\* on, up to e; the rest of what decode() reads are bytes of any value.
Arrived(p, l, r, e, junk) ==
  /\ \A i \in Int : ByteAt(i, junk) \in Bytes
  /\ \A j \in Nat : j < e - r /\ j < l => ByteAt(r + j, junk) = p[j + 1]

\* The packets are strings of bytes.
LEMMA PacketsAre ==
  /\ Len(Messages) \in Nat /\ DOMAIN Messages = 1..Len(Messages)
  /\ \A k \in DOMAIN Messages : Packets[k] = Packet(Messages[k]) /\ Packets[k] \in Seq(Bytes)
  /\ Packets \in Seq(Seq(Bytes)) /\ Len(Packets) = Len(Messages)
<1>1. Messages \in Seq(Message) BY MessagesAssumption
<1>2. Len(Messages) \in Nat /\ DOMAIN Messages = 1..Len(Messages) BY <1>1
<1>3. \A k \in DOMAIN Messages : Packet(Messages[k]) \in Seq(Bytes) BY PacketIs DEF Layout
<1>4. \A k \in DOMAIN Messages : Packets[k] = Packet(Messages[k]) BY DEF Packets
<1>5. PICK n, X : n = Len(Messages) /\ X = Seq(Bytes) OBVIOUS
<1>6. Packets \in [1..n -> X]
  <2>1. Packets = [k \in 1..n |-> Packet(Messages[k])] BY <1>2, <1>5 DEF Packets
  <2> QED BY <1>2, <1>3, <1>5, <2>1
<1>7. Packets \in Seq(X) /\ Len(Packets) = n
  <2>1. n \in Nat BY <1>2, <1>5
  <2> QED BY <1>6, <2>1
<1> QED BY <1>2, <1>3, <1>4, <1>5, <1>7

\* Where packet k is in the stream.
LEMMA StreamHas ==
  ASSUME NEW k \in DOMAIN Messages
  PROVE  LET p == Packets[k] before == Len(FlattenSeq([n \in 1..(k - 1) |-> Packets[n]])) IN
         /\ before \in Nat /\ before + Len(p) <= Len(Stream)
         /\ \A j \in 1..Len(p) : Stream[before + j] = p[j]
         /\ Stream \in Seq(Bytes)
<1> DEFINE f == [n \in 1..(k - 1) |-> Packets[n]]
<1>1. PICK m, n \in Nat : m = k - 1 /\ k = m + 1 /\ n = Len(Messages) /\ k <= n
  <2>1. PICK n \in Nat : n = Len(Messages) /\ k \in 1..n BY PacketsAre
  <2>2. k - 1 \in Nat /\ k = (k - 1) + 1 /\ k <= n BY <2>1
  <2> QED BY <2>1, <2>2
<1>2. IsParts(Packets, Bytes, n) BY <1>1, PacketsAre DEF IsParts
<1>3. \A i \in 1..m : f[i] = Packets[i] /\ Packets[i] \in Seq(Bytes)
  <2>1. \A i \in 1..m : i \in DOMAIN Messages BY <1>1, PacketsAre
  <2>2. \A i \in 1..m : f[i] = Packets[i] BY <1>1
  <2> QED BY <2>1, <2>2, PacketsAre
<1>4. IsParts(f, Bytes, m)
  <2>1. PICK X : X = Seq(Bytes) OBVIOUS
  <2>2. f = [i \in 1..m |-> f[i]] BY <1>1
  <2> HIDE DEF f
  <2>3. f \in [1..m -> X] BY <1>3, <2>1, <2>2
  <2>4. f \in Seq(X) /\ Len(f) = m BY <2>3
  <2> QED BY <2>1, <2>4 DEF IsParts
<1> HIDE DEF f
<1>5. SameLens(Packets, f, m) BY <1>3 DEF SameLens
<1>6. FlattenSeq(Packets) \in Seq(Bytes) /\ FlatAt(Packets, f, k)
  BY <1>1, <1>2, <1>4, <1>5, FlattenAt
<1> QED BY <1>6 DEF FlatAt, Stream, f

\* Of packet k, the buffer holds what has arrived, from the read index on.
LEMMA PacketArrived ==
  ASSUME IInv, ~failed, NEW k \in DOMAIN Messages, NEW junk \in Junk,
         got = Len(FlattenSeq([n \in 1..(k - 1) |-> Packets[n]]))
  PROVE  Arrived(Packets[k], Len(Packets[k]), m_read_index, m_write_index, junk)
<1> PICK p, r, e, g : p = Packets[k] /\ r = m_read_index /\ e = m_write_index /\ g = got OBVIOUS
<1>1. /\ r \in Nat /\ e \in Nat /\ g \in Nat /\ e <= size /\ size \in Nat
      /\ \A j \in 0..((e - r) - 1) : m_buffer[r + j] = g + 1 + j
  <2>1. /\ r \in Nat /\ e \in Nat /\ g \in Nat /\ readAble \in Nat /\ e = r + readAble
        /\ e <= size /\ size \in Nat
        /\ \A j \in 0..(readAble - 1) : m_buffer[r + j] = g + 1 + j
    BY BytesAre
  <2>2. readAble = e - r BY <2>1
  <2> QED BY <2>1, <2>2
<1>2. /\ g + Len(p) <= Len(Stream) /\ \A j \in 1..Len(p) : Stream[g + j] = p[j]
      /\ Stream \in Seq(Bytes)
  BY StreamHas
<1>3. PICK n, l \in Nat : n = Len(Stream) /\ l = Len(p)
  <2>1. p \in Seq(Bytes) BY PacketsAre
  <2>2. Len(p) \in Nat /\ Len(Stream) \in Nat BY <1>2, <2>1
  <2> QED BY <2>2
<1>4. DOMAIN Stream = 1..n /\ \A i \in 1..n : Stream[i] \in Bytes BY <1>2, <1>3
<1>5. ASSUME NEW i \in Int PROVE ByteAt(i, junk) \in Bytes
  <2>1. junk \in Bytes /\ 0 \in Bytes BY IntBytesIs DEF Bytes
  <2>2. CASE i \notin 0..(size - 1) BY <2>1, <2>2 DEF ByteAt
  <2>3. CASE i \in 0..(size - 1) /\ m_buffer[i] \in DOMAIN Stream
    <3>1. ByteAt(i, junk) = Stream[m_buffer[i]] BY <2>3 DEF ByteAt
    <3> QED BY <1>4, <2>3, <3>1
  <2>4. CASE i \in 0..(size - 1) /\ m_buffer[i] \notin DOMAIN Stream
    BY <2>1, <2>4 DEF ByteAt
  <2> QED BY <2>2, <2>3, <2>4
<1>6. ASSUME NEW j \in Nat, j < e - r, j < l PROVE ByteAt(r + j, junk) = p[j + 1]
  <2>1. r + j \in 0..(size - 1) /\ j \in 0..((e - r) - 1) BY <1>1, <1>6
  <2>2. m_buffer[r + j] = g + (j + 1)
    <3>1. g + 1 + j = g + (j + 1) BY <1>1
    <3> QED BY <1>1, <2>1, <3>1
  <2>3. j + 1 \in 1..l /\ g + (j + 1) \in 1..n BY <1>1, <1>2, <1>3, <1>6
  <2>4. ByteAt(r + j, junk) = Stream[g + (j + 1)] BY <1>4, <2>1, <2>2, <2>3 DEF ByteAt
  <2> QED BY <1>2, <1>3, <2>3, <2>4
<1> QED BY <1>3, <1>5, <1>6 DEF Arrived

\* An integer that decode() reads is that of some word.
LEMMA IntAt ==
  ASSUME NEW junk, NEW p, NEW l \in Nat, NEW r \in Int, NEW e \in Int, Arrived(p, l, r, e, junk),
         NEW i \in Int
  PROVE  BytesAt(i, IntBytes, junk) \in Word /\ getInt32FromNetByte(i, junk) = ntohl(BytesAt(i, IntBytes, junk))
<1>1. \A b \in 1..IntBytes : ByteAt(i + b - 1, junk) \in Bytes
  <2>1. \A b \in 1..IntBytes : i + b - 1 \in Int BY IntBytesIs
  <2> QED BY <2>1 DEF Arrived
<1>2. BytesAt(i, IntBytes, junk) \in Word BY <1>1 DEF BytesAt, Word
<1>3. getInt32FromNetByte(i, junk) = ntohl(BytesAt(i, IntBytes, junk)) BY DEF getInt32FromNetByte, BytesAt
<1> QED BY <1>2, <1>3

\* n bytes after the first o of a packet have arrived.
Within(o, n, l, r, e) == o + n <= l /\ o + n <= e - r

\* An integer of the packet, when it has arrived.
LEMMA IntRead ==
  ASSUME NEW junk, NEW p, NEW l \in Nat, NEW r \in Int, NEW e \in Int, Arrived(p, l, r, e, junk),
         NEW o \in Nat, NEW n \in Nat, Has(p, o, htonl(n)), n <= IntMax,
         Within(o, IntBytes, l, r, e)
  PROVE  getInt32FromNetByte(r + o, junk) = n
<1>1. PICK h : h = htonl(n) OBVIOUS
<1>w. PICK w \in Nat : w = IntBytes BY IntBytesIs
<1>e. o + w <= l /\ o + w <= e - r BY <1>w DEF Within
<1>2. h \in Word /\ Len(h) = w BY <1>1, <1>w, WordOf, WordSeq
<1>3. \A b \in 1..w : ByteAt((r + o) + b - 1, junk) = h[b]
  <2> SUFFICES ASSUME NEW b \in 1..w PROVE ByteAt((r + o) + b - 1, junk) = h[b] OBVIOUS
  <2>1. PICK j \in Nat : j = o + b - 1 OBVIOUS
  <2>2. j < e - r /\ j < l /\ r + j = (r + o) + b - 1 /\ j + 1 = o + b BY <1>e, <2>1
  <2>3. ByteAt(r + j, junk) = p[j + 1] BY <2>2 DEF Arrived
  <2>4. p[o + b] = h[b] BY <1>1, <1>2 DEF Has
  <2> QED BY <2>2, <2>3, <2>4
<1>4. BytesAt(r + o, IntBytes, junk) = [b \in 1..IntBytes |-> h[b]] BY <1>3, <1>w DEF BytesAt
<1>5. h = [b \in 1..IntBytes |-> h[b]] BY <1>2 DEF Word
<1>6. getInt32FromNetByte(r + o, junk) = ntohl(h)
  <2>1. getInt32FromNetByte(r + o, junk) = ntohl(BytesAt(r + o, IntBytes, junk)) BY DEF getInt32FromNetByte, BytesAt
  <2> QED BY <1>4, <1>5, <2>1
<1> QED BY <1>1, <1>6, IntRoundTrip

\* Characters of the packet, when they have arrived.
LEMMA CharsRead ==
  ASSUME NEW junk, NEW p, NEW l \in Nat, NEW r \in Int, NEW e \in Int, Arrived(p, l, r, e, junk),
         NEW o \in Nat, NEW f \in Seq(Bytes), Has(p, o, f), Within(o, Len(f), l, r, e)
  PROVE  BytesAt(r + o, Len(f), junk) = f
<1>a. PICK a \in Nat : a = Len(f) OBVIOUS
<1>e. o + a <= l /\ o + a <= e - r BY <1>a DEF Within
<1>1. \A b \in 1..a : ByteAt((r + o) + b - 1, junk) = f[b]
  <2> SUFFICES ASSUME NEW b \in 1..a PROVE ByteAt((r + o) + b - 1, junk) = f[b] OBVIOUS
  <2>1. PICK j \in Nat : j = o + b - 1 OBVIOUS
  <2>2. j < e - r /\ j < l /\ r + j = (r + o) + b - 1 /\ j + 1 = o + b BY <1>e, <2>1
  <2>3. ByteAt(r + j, junk) = p[j + 1] BY <2>2 DEF Arrived
  <2>4. p[o + b] = f[b] BY <1>a DEF Has
  <2> QED BY <2>2, <2>3, <2>4
<1>2. f = [b \in 1..a |-> f[b]] BY <1>a
<1>3. BytesAt(r + o, a, junk) = [b \in 1..a |-> f[b]] BY <1>1 DEF BytesAt
<1> QED BY <1>2, <1>3, <1>a

\* What can be read of a packet that has arrived.
Reads(p, l, r, junk) ==
  /\ \A j \in Nat : j < l => ByteAt(r + j, junk) = p[j + 1]
  /\ \A o, m \in Nat : Has(p, o, htonl(m)) /\ m <= IntMax /\ o + IntBytes <= l =>
       getInt32FromNetByte(r + o, junk) = m
  /\ \A o \in Nat, f \in Seq(Bytes) : Has(p, o, f) /\ o + Len(f) <= l =>
       BytesAt(r + o, Len(f), junk) = f

\* All of the packet can be read when all of it has arrived.
LEMMA WholeReads ==
  ASSUME NEW junk, NEW p, NEW l \in Nat, NEW r \in Nat, NEW e \in Nat,
         Arrived(p, l, r, e, junk), l <= e - r
  PROVE  Reads(p, l, r, junk)
<1>1. PICK w \in Nat : w = IntBytes BY IntBytesIs
<1>2. ASSUME NEW o \in Nat, NEW m \in Nat, Has(p, o, htonl(m)), m <= IntMax, o + IntBytes <= l
      PROVE  getInt32FromNetByte(r + o, junk) = m
  <2>1. Within(o, IntBytes, l, r, e) BY <1>1, <1>2 DEF Within
  <2> QED BY <1>2, <2>1, IntRead
<1>3. ASSUME NEW o \in Nat, NEW f \in Seq(Bytes), Has(p, o, f), o + Len(f) <= l
      PROVE  BytesAt(r + o, Len(f), junk) = f
  <2>1. PICK a \in Nat : Len(f) = a OBVIOUS
  <2>2. Within(o, Len(f), l, r, e) BY <1>3, <2>1 DEF Within
  <2> QED BY <1>3, <2>2, CharsRead
<1>4. \A j \in Nat : j < l => ByteAt(r + j, junk) = p[j + 1]
  <2>1. \A j \in Nat : j < l => j < e - r OBVIOUS
  <2> QED BY <2>1 DEF Arrived
<1> QED BY <1>2, <1>3, <1>4 DEF Reads

\* Fields(), of the places of the fields and the integers there.
FieldsAt(s, e, junk, i1, a, i2, b, i3, n, i4, c, i5) ==
  IF i1 < e /\ a # 0 /\ i2 + IntBytes < e /\ b <= e + 1 - s /\ i4 < e /\ i5 < e
    THEN << [msg_req |-> BytesAt(i1 + IntBytes, a, junk),
             service_full_name |-> BytesAt(i2 + IntBytes, b, junk),
             err_code |-> n,
             err_info |-> BytesAt(i4 + IntBytes, c, junk),
             pb_data |-> BytesAt(i5, (e + 1 - s) - b - a - c - 2 - 6 * IntBytes, junk)] >>
    ELSE << >>

\* Fields() in these terms.
LEMMA FieldsAre ==
  ASSUME NEW s, NEW e, NEW junk
  PROVE  LET int(i) == getInt32FromNetByte(i, junk)
             i1 == s + 1 + IntBytes
             i2 == i1 + IntBytes + int(i1)
             i3 == i2 + IntBytes + int(i2)
             i4 == i3 + IntBytes
             i5 == i4 + IntBytes + int(i4)
         IN Fields(s, e, junk) = FieldsAt(s, e, junk, i1, int(i1), i2, int(i2), i3, int(i3),
                                          i4, int(i4), i5)
BY DEF Fields, FieldsAt

\* The sizes of the fields and of the packet, none beyond what an int holds.
Bounded(w, l, A, B, E, D, n, f1, f2, f3, data) ==
  Sizes(w, l, A, B, E, D, f1, f2, f3, data) /\ l <= IntMax /\ n <= IntMax /\ A > 0

\* p is the packet of the message m, of these fields and sizes.
IsPacketWith(p, w, l, A, B, E, D, n, f1, f2, f3, data, m) ==
  /\ w \in Nat /\ l \in Nat /\ A \in Nat /\ B \in Nat /\ E \in Nat /\ D \in Nat /\ n \in Nat
  /\ f1 \in Seq(Bytes) /\ f2 \in Seq(Bytes) /\ f3 \in Seq(Bytes) /\ data \in Seq(Bytes)
  /\ Bounded(w, l, A, B, E, D, n, f1, f2, f3, data)
  /\ Layout(p, w, l, A, B, E, D, f1, f2, n, f3, data)
  /\ m = [msg_req |-> f1, service_full_name |-> f2, err_code |-> n, err_info |-> f3,
           pb_data |-> data]

\* All of the packet has arrived: it is the first that decode() finds, and what
\* it reads in it is the message.
LEMMA DecodeWhole ==
  ASSUME NEW junk, NEW p, NEW w, NEW l, NEW A, NEW B, NEW E, NEW D, NEW n,
         NEW f1, NEW f2, NEW f3, NEW data, NEW m,
         IsPacketWith(p, w, l, A, B, E, D, n, f1, f2, f3, data, m),
         m_read_index \in Nat, m_write_index \in Nat,
         Arrived(p, l, m_read_index, m_write_index, junk), l <= m_write_index - m_read_index
  PROVE  PbDecode(junk) = [consumed |-> l, message |-> <<m>>]
<1>t. /\ w \in Nat /\ l \in Nat /\ A \in Nat /\ B \in Nat /\ E \in Nat /\ D \in Nat /\ n \in Nat
      /\ f1 \in Seq(Bytes) /\ f2 \in Seq(Bytes) /\ f3 \in Seq(Bytes) /\ data \in Seq(Bytes)
  BY DEF IsPacketWith
<1> PICK r, e \in Nat : r = m_read_index /\ e = m_write_index OBVIOUS
<1>0. /\ w = IntBytes /\ Len(f1) = A /\ Len(f2) = B /\ Len(f3) = E /\ Len(data) = D
      /\ l <= IntMax /\ n <= IntMax /\ A > 0
  BY DEF IsPacketWith, Bounded, Sizes
<1>1. /\ p \in Seq(Bytes) /\ Len(p) = l /\ l = 2 + 6 * w + A + B + E + D
      /\ p[1] = PB_START /\ p[l] = PB_END
      /\ Has(p, 1, htonl(l))
      /\ Has(p, 1 + w, htonl(A)) /\ Has(p, 1 + 2 * w, f1)
      /\ Has(p, 1 + 2 * w + A, htonl(B)) /\ Has(p, 1 + 3 * w + A, f2)
      /\ Has(p, 1 + 3 * w + A + B, htonl(n))
      /\ Has(p, 1 + 4 * w + A + B, htonl(E)) /\ Has(p, 1 + 5 * w + A + B, f3)
      /\ Has(p, 1 + 5 * w + A + B + E, data)
  BY DEF IsPacketWith, Layout
<1>w. w \in 1..4 BY <1>t, <1>0, IntBytesIs
<1>r. Reads(p, l, r, junk) BY <1>t, WholeReads
<1>i. \A o, v \in Nat : Has(p, o, htonl(v)) /\ v <= IntMax /\ o + w <= l =>
        getInt32FromNetByte(r + o, junk) = v
  BY <1>t, <1>0, <1>r DEF Reads
<1>c. \A o \in Nat, f \in Seq(Bytes) : Has(p, o, f) /\ o + Len(f) <= l =>
        BytesAt(r + o, Len(f), junk) = f
  BY <1>r DEF Reads
<1>m. A <= IntMax /\ B <= IntMax /\ E <= IntMax
  <2>1. IntMax \in Nat
    <3>1. PICK max \in [1..IntBytes -> Nat] : IntMax = max[IntBytes] BY <1>t, IntMaxIs
    <3>2. IntBytes \in 1..IntBytes BY <1>t, IntBytesIs
    <3> QED BY <1>t, <3>1, <3>2
  <2>2. A <= l /\ B <= l /\ E <= l BY <1>t, <1>1
  <2> QED BY <1>t, <1>0, <2>1, <2>2
<1> DEFINE int(i) == getInt32FromNetByte(i, junk)
           byte(i) == ByteAt(i, junk)
<1>b. \A j \in Nat : j < l => byte(r + j) = p[j + 1] BY <1>r DEF Reads
<1>2. PICK o1, o2, o3, o4, o5 \in Nat :
        /\ o1 = 1 + w /\ o2 = 1 + 2 * w + A /\ o3 = 1 + 3 * w + A + B /\ o4 = 1 + 4 * w + A + B
        /\ o5 = 1 + 5 * w + A + B + E
  BY <1>t
<1>3. /\ int(r + 1) = l /\ int(r + o1) = A /\ int(r + o2) = B /\ int(r + o3) = n
      /\ int(r + o4) = E
  <2>1. /\ 1 + w <= l /\ o1 + w <= l /\ o2 + w <= l /\ o3 + w <= l /\ o4 + w <= l
    BY <1>t, <1>1, <1>2
  <2>2. int(r + 1) = l BY <1>t, <1>0, <1>1, <1>i, <2>1
  <2>3. int(r + o1) = A BY <1>t, <1>1, <1>i, <1>2, <1>m, <2>1
  <2>4. int(r + o2) = B BY <1>t, <1>1, <1>i, <1>2, <1>m, <2>1
  <2>5. int(r + o3) = n BY <1>t, <1>0, <1>1, <1>i, <1>2, <2>1
  <2>6. int(r + o4) = E BY <1>t, <1>1, <1>i, <1>2, <1>m, <2>1
  <2> QED BY <1>t, <2>2, <2>3, <2>4, <2>5, <2>6
<1>4. PICK u1, u2, u3 \in Nat :
        /\ u1 = o1 + w /\ u2 = o2 + w /\ u3 = o4 + w
        /\ BytesAt(r + u1, A, junk) = f1 /\ BytesAt(r + u2, B, junk) = f2
        /\ BytesAt(r + u3, E, junk) = f3 /\ BytesAt(r + o5, D, junk) = data
  <2>1. PICK u1, u2, u3 \in Nat : u1 = 1 + 2 * w /\ u2 = 1 + 3 * w + A /\ u3 = 1 + 5 * w + A + B
    BY <1>t
  <2>2. u1 + A <= l /\ u2 + B <= l /\ u3 + E <= l /\ o5 + D <= l BY <1>t, <1>1, <1>2, <2>1
  <2>3. Has(p, u1, f1) /\ Has(p, u2, f2) /\ Has(p, u3, f3) /\ Has(p, o5, data) BY <1>t, <1>1, <1>2, <2>1
  <2>4. BytesAt(r + u1, A, junk) = f1 BY <1>t, <1>0, <1>c, <2>2, <2>3
  <2>5. BytesAt(r + u2, B, junk) = f2 BY <1>t, <1>0, <1>c, <2>2, <2>3
  <2>6. BytesAt(r + u3, E, junk) = f3 BY <1>t, <1>0, <1>c, <2>2, <2>3
  <2>7. BytesAt(r + o5, D, junk) = data BY <1>t, <1>0, <1>c, <2>2, <2>3
  <2>8. u1 = o1 + w /\ u2 = o2 + w /\ u3 = o4 + w BY <1>t, <1>2, <2>1
  <2> QED BY <1>t, <2>4, <2>5, <2>6, <2>7, <2>8
<1> HIDE DEF int, byte
\* decode() finds it.
<1>5. PICK z \in Nat : z = r + l - 1 BY <1>t, <1>1
<1>6. IsPacket(r, junk)
  <2>1. byte(r) = PB_START
    <3>1. PICK j \in Nat : j = 0 /\ j < l /\ r + j = r /\ j + 1 = 1 BY <1>t, <1>1
    <3>2. byte(r + j) = p[j + 1] BY <1>t, <1>b, <3>1
    <3> QED BY <1>t, <1>1, <3>1, <3>2
  <2>2. byte(z) = PB_END
    <3>1. l - 1 \in Nat /\ l - 1 < l /\ r + (l - 1) = z /\ (l - 1) + 1 = l BY <1>t, <1>1, <1>5
    <3> QED BY <1>t, <1>1, <1>b, <3>1
  <2>3. r + 1 < e /\ z < e BY <1>t, <1>1, <1>5
  <2>4. r + int(r + 1) - 1 = z BY <1>t, <1>3, <1>5
  <2> QED BY <1>t, <2>1, <2>2, <2>3, <2>4 DEF IsPacket, int, byte
<1>7. PICK found : found = {i \in r..(e - 1) : IsPacket(i, junk)} BY <1>t
<1>8. found # {} /\ Min(found) = r
  <2>1. r \in r..(e - 1) BY <1>t, <1>1
  <2>2. r \in found /\ found \in SUBSET Int /\ \A y \in found : r <= y BY <1>t, <1>6, <1>7, <2>1
  <2> QED BY <1>t, <2>2, MinIs
<1>9. PbDecode(junk) = [consumed |-> l, message |-> Fields(r, z, junk)]
  <2>1. PbDecode(junk) = [consumed |-> (r + int(r + 1) - 1) + 1 - r,
                          message |-> Fields(r, r + int(r + 1) - 1, junk)]
    BY <1>t, <1>7, <1>8 DEF PbDecode, int
  <2>2. r + int(r + 1) - 1 = z /\ z + 1 - r = l BY <1>t, <1>3, <1>5
  <2> QED BY <1>t, <2>1, <2>2
\* Its fields.
<1>10. PICK i1, i2, i3, i4, i5 \in Nat :
         /\ i1 = r + 1 + w /\ i2 = i1 + w + A /\ i3 = i2 + w + B /\ i4 = i3 + w /\ i5 = i4 + w + E
  BY <1>t
<1>11. i1 = r + o1 /\ i2 = r + o2 /\ i3 = r + o3 /\ i4 = r + o4 /\ i5 = r + o5
  BY <1>t, <1>2, <1>10
<1>12. int(i1) = A /\ int(i2) = B /\ int(i3) = n /\ int(i4) = E BY <1>t, <1>3, <1>11
<1>13. /\ BytesAt(i1 + w, A, junk) = f1 /\ BytesAt(i2 + w, B, junk) = f2
       /\ BytesAt(i4 + w, E, junk) = f3 /\ BytesAt(i5, D, junk) = data
  <2>1. i1 + w = r + u1 /\ i2 + w = r + u2 /\ i4 + w = r + u3 BY <1>t, <1>4, <1>11
  <2> QED BY <1>t, <1>4, <1>11, <2>1
<1>14. /\ i1 < z /\ A # 0 /\ i2 + w < z /\ B <= z + 1 - r /\ i4 < z /\ i5 < z
       /\ (z + 1 - r) - B - A - E - 2 - 6 * w = D
  BY <1>t, <1>0, <1>1, <1>2, <1>5, <1>11, <1>w
<1>15. Fields(r, z, junk) = << [msg_req |-> f1, service_full_name |-> f2, err_code |-> n,
                                err_info |-> f3, pb_data |-> data] >>
  <2> DEFINE x1 == r + 1 + IntBytes
             x2 == x1 + IntBytes + int(x1)
             x3 == x2 + IntBytes + int(x2)
             x4 == x3 + IntBytes
             x5 == x4 + IntBytes + int(x4)
  <2>1. Fields(r, z, junk) = FieldsAt(r, z, junk, x1, int(x1), x2, int(x2), x3, int(x3),
                                      x4, int(x4), x5)
    BY <1>t, FieldsAre DEF int
  <2> HIDE DEF x5
  <2>2. x5 = x4 + IntBytes + int(x4) BY DEF x5
  <2> HIDE DEF x4
  <2>3. x4 = x3 + IntBytes BY DEF x4
  <2> HIDE DEF x3
  <2>4. x3 = x2 + IntBytes + int(x2) BY DEF x3
  <2> HIDE DEF x2
  <2>5. x2 = x1 + IntBytes + int(x1) BY DEF x2
  <2> HIDE DEF x1
  <2>6. x1 = i1 BY <1>t, <1>0, <1>10 DEF x1
  <2>7. x2 = i2 BY <1>t, <1>0, <1>10, <1>12, <2>5, <2>6
  <2>8. x3 = i3 BY <1>t, <1>0, <1>10, <1>12, <2>4, <2>7
  <2>9. x4 = i4 BY <1>t, <1>0, <1>10, <2>3, <2>8
  <2>10. x5 = i5 BY <1>t, <1>0, <1>10, <1>12, <2>2, <2>9
  <2>11. Fields(r, z, junk) = FieldsAt(r, z, junk, i1, A, i2, B, i3, n, i4, E, i5)
    BY <1>t, <1>12, <2>1, <2>6, <2>7, <2>8, <2>9, <2>10
  <2>12. FieldsAt(r, z, junk, i1, A, i2, B, i3, n, i4, E, i5) =
           << [msg_req |-> BytesAt(i1 + w, A, junk), service_full_name |-> BytesAt(i2 + w, B, junk),
               err_code |-> n, err_info |-> BytesAt(i4 + w, E, junk),
               pb_data |-> BytesAt(i5, D, junk)] >>
    BY <1>t, <1>0, <1>14 DEF FieldsAt
  <2> QED BY <1>t, <1>13, <2>11, <2>12
<1>d. m = [msg_req |-> f1, service_full_name |-> f2, err_code |-> n, err_info |-> f3,
           pb_data |-> data]
  BY DEF IsPacketWith
<1> QED BY <1>9, <1>15, <1>d

\* What is put in front of a packet of no length is not a message.
LEMMA NoFields ==
  ASSUME NEW s \in Int, NEW junk
  PROVE  Fields(s, s - 1, junk) = << >>
<1> DEFINE int(i) == getInt32FromNetByte(i, junk)
           i1 == s + 1 + IntBytes
           i2 == i1 + IntBytes + int(i1)
           i3 == i2 + IntBytes + int(i2)
           i4 == i3 + IntBytes
           i5 == i4 + IntBytes + int(i4)
<1>1. PICK e \in Int : e = s - 1 OBVIOUS
<1>2. Fields(s, e, junk) = FieldsAt(s, e, junk, i1, int(i1), i2, int(i2), i3, int(i3),
                                    i4, int(i4), i5)
  BY FieldsAre
<1>3. ~(i1 < e) BY <1>1, IntBytesIs
<1> HIDE DEF int, i1, i2, i3, i4, i5
<1>4. Fields(s, e, junk) = << >> BY <1>2, <1>3 DEF FieldsAt
<1> QED BY <1>1, <1>4

\* Only a part of the packet has arrived: decode() finds nothing, or an image of
\* a packet inside.
LEMMA DecodePart ==
  ASSUME NEW junk, NEW p \in Seq(Bytes), NEW l \in Nat, Len(p) = l, l >= 2 + 6 * IntBytes,
         p[1] = PB_START, Has(p, 1, htonl(l)), l <= IntMax,
         Has(p, l - 1 - IntBytes, htonl(1)),
         m_read_index \in Nat, m_write_index \in Nat,
         Arrived(p, l, m_read_index, m_write_index, junk), m_write_index - m_read_index < l
  PROVE  PbDecode(junk) = [consumed |-> 0, message |-> << >>] \/ Nested(p)
<1>0. PICK r, e, w \in Nat : r = m_read_index /\ e = m_write_index /\ w = IntBytes BY IntBytesIs
<1>w. w \in 1..4 BY <1>0, IntBytesIs
<1>a. Arrived(p, l, r, e, junk) /\ e - r < l /\ l >= 2 + 6 * w BY <1>0
<1>b. \A j \in Nat : j < e - r => ByteAt(r + j, junk) = p[j + 1]
  <2>1. \A j \in Nat : j < e - r => j < l BY <1>a
  <2> QED BY <1>a, <2>1 DEF Arrived
<1>f. PICK found : found = {i \in r..(e - 1) : IsPacket(i, junk)} OBVIOUS
<1>1. CASE found = {} BY <1>0, <1>f, <1>1 DEF PbDecode
<1>2. CASE found # {}
  <2>1. PICK s \in Nat : s \in found /\ Min(found) = s
    <3>1. found \in SUBSET Nat BY <1>0, <1>f
    <3>2. PICK s \in found : \A k \in found : s <= k BY <1>2, <3>1, LeastNatural
    <3>3. s \in Nat /\ found \in SUBSET Int BY <3>1
    <3>4. Min(found) = s BY <3>2, <3>3, MinIs
    <3> QED BY <3>2, <3>3, <3>4
  <2>2. PICK o \in Nat : s = r + o /\ o < e - r
    <3>1. s \in r..(e - 1) BY <1>f, <2>1
    <3>2. s - r \in Nat /\ s = r + (s - r) /\ s - r < e - r BY <1>0, <3>1
    <3> QED BY <3>2
  <2>3. PICK S : S = BytesAt(s + 1, IntBytes, junk) OBVIOUS
  <2>4. S \in Word /\ getInt32FromNetByte(s + 1, junk) = ntohl(S)
    <3>1. s + 1 \in Int OBVIOUS
    <3> QED BY <1>a, <2>3, <3>1, IntAt
  <2>5. PICK n \in Int : n = ntohl(S) BY <2>4, IntIs
  <2>6. PICK j \in Int : j = s + n - 1 OBVIOUS
  <2>7. ByteAt(s, junk) = PB_START /\ s + 1 < e /\ j < e /\ ByteAt(j, junk) = PB_END
    <3>1. IsPacket(s, junk) BY <1>f, <2>1
    <3> QED BY <1>0, <2>4, <2>5, <2>6, <3>1 DEF IsPacket
  <2>8. PbDecode(junk) = [consumed |-> j + 1 - s, message |-> Fields(s, j, junk)]
    BY <1>0, <1>2, <1>f, <2>1, <2>4, <2>5, <2>6 DEF PbDecode
  <2>9. p[o + 1] = PB_START BY <1>b, <2>2, <2>7
  \* The integer is where the image of a packet would have it.
  <2>10. \A b \in 1..w : S[b] = ByteAt(s + b, junk)
    <3>1. \A b \in 1..w : (s + 1) + b - 1 = s + b BY <1>w
    <3> QED BY <1>0, <2>3, <3>1 DEF BytesAt
  <2>11. \A b \in 1..w : o + b < e - r => S[b] = p[o + 1 + b]
    <3> SUFFICES ASSUME NEW b \in 1..w, o + b < e - r PROVE S[b] = p[o + 1 + b] OBVIOUS
    <3>1. PICK k \in Nat : k = o + b OBVIOUS
    <3>2. k < e - r /\ s + b = r + k /\ k + 1 = o + 1 + b BY <1>0, <2>2, <3>1
    <3> QED BY <1>b, <2>10, <3>2
  <2>12. CASE o + w < e - r
    <3>1. CASE o = 0
      <4>1. Within(1, IntBytes, l, r, e) BY <1>0, <1>w, <1>a, <2>12, <3>1 DEF Within
      <4>2. r \in Int /\ e \in Int /\ 1 \in Nat BY <1>0
      <4>3. getInt32FromNetByte(r + 1, junk) = l BY <1>a, <4>1, <4>2, IntRead
      <4>4. n = l BY <2>2, <2>4, <2>5, <3>1, <4>3
      <4>5. ~(j < e) BY <1>0, <1>a, <2>2, <2>6, <3>1, <4>4
      <4> QED BY <2>7, <4>5
    <3>2. CASE o # 0
      <4>1. PICK i \in Nat : i = o + 1 OBVIOUS
      <4>2. i \in 2..(Len(p) - IntBytes) BY <1>0, <1>a, <1>w, <2>2, <2>12, <3>2, <4>1
      <4>3. [b \in 1..IntBytes |-> p[i + b]] = S
        <5>1. \A b \in 1..w : S[b] = p[i + b]
          <6>1. \A b \in 1..w : o + b < e - r /\ o + 1 + b = i + b BY <1>0, <1>w, <2>12, <4>1
          <6> QED BY <2>11, <6>1
        <5>2. S = [b \in 1..w |-> S[b]] BY <1>0, <2>4 DEF Word
        <5> QED BY <1>0, <5>1, <5>2
      <4>4. CASE n < 0 BY <2>5, <2>9, <4>1, <4>2, <4>3, <4>4 DEF Nested
      <4>5. CASE n >= 0
        <5>1. PICK k \in Nat : k = o + n - 1 BY <3>2, <4>5
        <5>2. k < e - r /\ j = r + k /\ i + n - 1 = k + 1 BY <1>0, <2>2, <2>6, <2>7, <4>1, <5>1
        <5>3. p[i + n - 1] = PB_END BY <1>b, <2>7, <5>2
        <5>4. i + n - 1 \in DOMAIN p
          <6>1. DOMAIN p = 1..l OBVIOUS
          <6>2. k + 1 \in 1..l BY <1>0, <1>a, <5>2
          <6> QED BY <5>2, <6>1, <6>2
        <5> QED BY <2>5, <2>9, <4>1, <4>2, <4>3, <5>3, <5>4 DEF Nested
      <4> QED BY <4>4, <4>5
    <3> QED BY <3>1, <3>2
  <2>13. CASE o + w >= e - r
    <3>1. o + 1 < e - r BY <1>0, <2>2, <2>7
    <3>2. o + 1 + w <= l
      <4> SUFFICES ASSUME o + 1 + w > l PROVE FALSE BY <1>0, <1>a, <2>2
      <4>1. PICK b \in 1..w : o + 1 = (l - 1 - w) + b
        <5>1. (o + 1) - (l - 1 - w) \in 1..w BY <1>0, <1>w, <1>a, <3>1
        <5>2. o + 1 = (l - 1 - w) + ((o + 1) - (l - 1 - w)) BY <1>0
        <5> QED BY <5>1, <5>2
      <4>2. Len(htonl(1)) = w BY <1>0, WordSeq
      <4>3. p[(l - 1 - w) + b] = htonl(1)[b] BY <1>0, <4>2 DEF Has
      <4>4. htonl(1)[b] # PB_START BY <1>0, CheckNumber
      <4> QED BY <2>9, <4>1, <4>3, <4>4
    <3>3. CASE n < 0
      <4>1. PICK i \in Nat : i = o + 1 OBVIOUS
      <4>2. PICK F : F = [b \in 1..IntBytes |-> p[i + b]] OBVIOUS
      <4>3. F \in Word
        <5>1. \A b \in 1..w : i + b \in 1..l BY <1>0, <1>w, <3>2, <4>1
        <5>2. \A b \in 1..w : p[i + b] \in Bytes BY <5>1
        <5> QED BY <1>0, <4>2, <5>2 DEF Word
      <4>4. F[1] = S[1]
        <5>1. 1 \in 1..w /\ o + 1 + 1 = i + 1 BY <1>w, <4>1
        <5>2. S[1] = p[i + 1] BY <2>11, <3>1, <5>1
        <5> QED BY <1>0, <4>2, <5>1, <5>2
      <4>5. ntohl(F) < 0 BY <2>4, <2>5, <3>3, <4>3, <4>4, IntIs
      <4>6. o # 0
        <5> SUFFICES ASSUME o = 0 PROVE FALSE OBVIOUS
        <5>1. PICK h : h = htonl(l) OBVIOUS
        <5>2. h \in Word /\ Len(h) = w /\ ntohl(h) = l BY <1>0, <5>1, WordOf, WordSeq, IntRoundTrip
        <5>3. \A b \in 1..w : p[i + b] = h[b]
          <6>1. \A b \in 1..w : p[1 + b] = h[b] BY <5>1, <5>2 DEF Has
          <6> QED BY <4>1, <6>1
        <5>4. F = [b \in 1..w |-> h[b]] BY <1>0, <4>2, <5>3
        <5>5. h = [b \in 1..w |-> h[b]] BY <1>0, <5>2 DEF Word
        <5>6. F = h BY <1>0, <5>4, <5>5
        <5>7. ntohl(F) = l BY <5>2, <5>6
        <5>8. PICK x \in Nat : ntohl(F) = x BY <5>7
        <5> QED BY <4>5, <5>8
      <4>7. i \in 2..(Len(p) - IntBytes) BY <1>0, <3>2, <4>1, <4>6
      <4> QED BY <2>9, <4>1, <4>2, <4>5, <4>7 DEF Nested
    <3>4. CASE n = 0
      <4>1. j = s - 1 /\ j + 1 - s = 0 BY <2>6, <3>4
      <4>2. Fields(s, j, junk) = << >> BY <4>1, NoFields
      <4> QED BY <2>8, <4>1, <4>2
    <3>5. CASE n > 0
      <4>1. n <= w BY <1>0, <2>2, <2>6, <2>7, <2>13
      <4>2. \A b \in 1..(w - 1) : S[b] = 0
        <5>1. 0 <= n /\ n <= 4 BY <1>w, <3>5, <4>1
        <5> QED BY <1>0, <2>4, <2>5, <5>1, IntIs
      <4>3. CASE n = 1
        <5>1. j = s BY <2>6, <4>3
        <5> QED BY <2>7, <5>1 DEF PB_START, PB_END
      <4>4. CASE n # 1
        <5>1. n - 1 \in 1..(w - 1) /\ n - 1 \in 1..w /\ s + (n - 1) = j
          BY <1>w, <2>6, <3>5, <4>1, <4>4
        <5>2. S[n - 1] = 0 BY <4>2, <5>1
        <5>3. S[n - 1] = ByteAt(j, junk) BY <2>10, <5>1
        <5> QED BY <2>7, <5>2, <5>3 DEF PB_END
      <4> QED BY <4>3, <4>4
    <3> QED BY <3>3, <3>4, <3>5
  <2> QED BY <1>0, <2>2, <2>12, <2>13
<1> QED BY <1>1, <1>2

\* FlconcPbCodeC finds the next packet unchanged when all of it has arrived, and
\* consumes it and no more; before that it finds nothing, or an image of a packet
\* inside.
LEMMA PbStepHolds == IInv => PbInStep
<1> SUFFICES ASSUME IInv, NEW k \in DOMAIN Messages, NEW junk \in Junk, ~failed,
                    got = Len(FlattenSeq([n \in 1..(k - 1) |-> Packets[n]]))
             PROVE  IF readAble >= Len(Packets[k])
                      THEN PbDecode(junk) = [consumed |-> Len(Packets[k]), message |-> <<Messages[k]>>]
                      ELSE \/ PbDecode(junk) = [consumed |-> 0, message |-> << >>]
                           \/ Nested(Packets[k])
  BY DEF PbInStep
<1>1. PICK w, l, A, B, E, D, n \in Nat, f1, f2, f3, data \in Seq(Bytes) :
        /\ Layout(Packet(Messages[k]), w, l, A, B, E, D, f1, f2, n, f3, data)
        /\ w = IntBytes /\ A = Len(f1) /\ B = Len(f2) /\ E = Len(f3) /\ D = Len(data)
        /\ l <= IntMax /\ n <= IntMax /\ A > 0
        /\ Messages[k] = [msg_req |-> f1, service_full_name |-> f2, err_code |-> n,
                          err_info |-> f3, pb_data |-> data]
  BY PacketIs
<1>2. PICK p : p = Packets[k] /\ p = Packet(Messages[k]) BY PacketsAre
<1>3. Layout(p, w, l, A, B, E, D, f1, f2, n, f3, data) BY <1>1, <1>2
<1>4. p \in Seq(Bytes) /\ Len(p) = l BY <1>3 DEF Layout
<1>5. Arrived(p, l, m_read_index, m_write_index, junk) BY <1>2, <1>4, PacketArrived
<1>6. /\ m_read_index \in Nat /\ m_write_index \in Nat /\ readAble \in Nat
      /\ readAble = m_write_index - m_read_index
  BY BytesAre DEF readAble
<1>7. CASE readAble >= l
  <2>1. l <= m_write_index - m_read_index BY <1>6, <1>7
  <2>2. PICK m : m = Messages[k] OBVIOUS
  <2>3. IsPacketWith(p, w, l, A, B, E, D, n, f1, f2, f3, data, m)
    <3>1. l = 2 + 6 * w + A + B + E + D BY <1>3 DEF Layout
    <3>2. Bounded(w, l, A, B, E, D, n, f1, f2, f3, data) BY <1>1, <3>1 DEF Bounded, Sizes
    <3>3. m = [msg_req |-> f1, service_full_name |-> f2, err_code |-> n, err_info |-> f3,
               pb_data |-> data]
      BY <1>1, <2>2
    <3> QED BY <1>3, <3>2, <3>3 DEF IsPacketWith
  <2>4. m_read_index \in Nat /\ m_write_index \in Nat BY <1>6
  <2>5. PbDecode(junk) = [consumed |-> l, message |-> <<m>>]
    BY <1>5, <2>1, <2>3, <2>4, DecodeWhole
  <2> QED BY <1>2, <1>4, <1>7, <2>2, <2>5
<1>8. CASE ~(readAble >= l)
  <2>1. m_write_index - m_read_index < l BY <1>6, <1>8
  <2>2. /\ l >= 2 + 6 * IntBytes /\ p[1] = PB_START /\ Has(p, 1, htonl(l))
        /\ Has(p, l - 1 - IntBytes, htonl(1))
    <3>1. /\ l = 2 + 6 * w + A + B + E + D /\ p[1] = PB_START /\ Has(p, 1, htonl(l))
          /\ Has(p, 1 + 5 * w + A + B + E + D, htonl(1))
      BY <1>3 DEF Layout
    <3>2. l >= 2 + 6 * w /\ l - 1 - w = 1 + 5 * w + A + B + E + D BY <1>1, <3>1
    <3> QED BY <1>1, <3>1, <3>2
  <2>3. PbDecode(junk) = [consumed |-> 0, message |-> << >>] \/ Nested(p)
    BY <1>1, <1>4, <1>5, <1>6, <2>1, <2>2, DecodePart
  <2> QED BY <1>2, <1>4, <1>8, <2>3
<1> QED BY <1>7, <1>8

\* However reads cut the stream and wherever the buffer has moved it, decode() of
\* either codec finds the next packet or request unchanged when all of it has
\* arrived, consumes that and no more, and otherwise consumes nothing, but for the
\* two kinds of input the properties name.
THEOREM DecodersInStepHolds == Spec => []DecodersInStep
<1>1. IInv => DecodersInStep BY HttpStepHolds, PbStepHolds DEF DecodersInStep
<1> QED BY <1>1, Invariance, PTL
=============================================================================
