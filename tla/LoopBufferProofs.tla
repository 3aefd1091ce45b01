-------------------------- MODULE LoopBufferProofs --------------------------
(***************************************************************************)
(* Proofs about muduo::net::Buffer, for every size of the vector, of the   *)
(* reserve in front, of extrabuf and of what is written and read.  Each    *)
(* member function has a lemma that says what it does to the indices, to   *)
(* the readable bytes and to the size; the inductive invariant BInv is     *)
(* then a matter of one step per call.                                     *)
(*                                                                         *)
(* Then about EventLoop, for any number of threads and functors, any       *)
(* eventfd maximum and any number of calls of loop().                      *)
(* EventLoopThread is shown to use the loop like any other thread, so what *)
(* holds of the loop holds of the one it runs.                             *)
(***************************************************************************)
EXTENDS OwnedLoop, Buffer, SequenceTheorems, TLAPS

\* Leaves go to the SMT solver unless they name another prover.
USE SMTT(60)

(* The indices are numbers in order, and every position holds a byte.      *)
Good(b) ==
    /\ b.size \in Nat /\ b.reader \in Nat /\ b.writer \in Nat
    /\ b.reader <= b.writer /\ b.writer <= b.size
    /\ DOMAIN b.data = 0 .. b.size - 1
    /\ \A i \in 0 .. b.size - 1 : b.data[i] \in Bytes

(* The inductive invariant: what the vector had to hold bounds its size.   *)
BInv ==
    /\ Good(buf)
    /\ buf.size >= kCheapPrepend
    /\ peak \in Nat
    /\ MemoryBound

-----------------------------------------------------------------------------
(* A byte string of length n.                                              *)
LEMMA ChunkLen ==
    ASSUME NEW n \in Nat, NEW s \in [1 .. n -> Bytes]
    PROVE  s \in Seq(Bytes) /\ Len(s) = n
  OBVIOUS

(* So is every byte string that is written.                                *)
LEMMA ChunkType == \A s \in Chunks : s \in Seq(Bytes) /\ Len(s) \in Nat
<1>1. SUFFICES ASSUME NEW s \in Chunks PROVE s \in Seq(Bytes) /\ Len(s) \in Nat
  OBVIOUS
<1>2. PICK n \in ChunkLengths : s \in [1 .. n -> Bytes]
  BY <1>1 DEF Chunks
<1>3. n \in Nat
  BY <1>2, BufferAssumption
<1> QED
  BY <1>2, <1>3, ChunkLen

(* What Good says of the indices alone.                                    *)
LEMMA Indices ==
    ASSUME NEW b, Good(b)
    PROVE  /\ b.size \in Nat /\ b.reader \in Nat /\ b.writer \in Nat
           /\ b.reader <= b.writer /\ b.writer <= b.size
  BY DEF Good

(* The readable bytes are a byte string as long as the indices say.        *)
LEMMA ReadableType ==
    ASSUME NEW b, Good(b)
    PROVE  /\ readableBytes(b) \in Nat
           /\ Readable(b) \in [1 .. readableBytes(b) -> Bytes]
           /\ Readable(b) \in Seq(Bytes) /\ Len(Readable(b)) = readableBytes(b)
<1>1. readableBytes(b) \in Nat
  BY DEF Good, readableBytes
<1>2. \A i \in 1 .. readableBytes(b) : b.reader + i - 1 \in 0 .. b.size - 1
  BY <1>1 DEF Good, readableBytes
<1>3. Readable(b) \in [1 .. readableBytes(b) -> Bytes]
  BY <1>1, <1>2 DEF Good, Readable
<1> QED
  BY <1>1, <1>3, ChunkLen

(* Growing the vector keeps the readable bytes.                            *)
LEMMA ResizeKeeps ==
    ASSUME NEW b, Good(b), NEW n \in Nat, n >= b.size
    PROVE  /\ Good(Resize(b, n))
           /\ Readable(Resize(b, n)) = Readable(b)
           /\ Resize(b, n).size = n
           /\ Resize(b, n).writer = b.writer /\ Resize(b, n).reader = b.reader
<1>0. 0 \in Bytes
  BY BufferAssumption DEF Bytes
<1>1. Good(Resize(b, n))
  BY <1>0 DEF Good, Resize, Object
<1>2. \A i \in 1 .. readableBytes(b) :
        /\ b.reader + i - 1 \in 0 .. n - 1
        /\ b.reader + i - 1 < b.size
  BY Indices DEF readableBytes
<1>3. Readable(Resize(b, n)) = Readable(b)
  BY <1>2 DEF Good, Readable, readableBytes, Resize, Object
<1> QED
  BY <1>1, <1>3 DEF Resize, Object

(* What is left after a byte string was copied into the vector.            *)
Copied(b, p, s, d) ==
    /\ DOMAIN d = 0 .. b.size - 1
    /\ \A i \in 0 .. b.size - 1 : d[i] \in Bytes
    /\ \A i \in 1 .. Len(s) : d[p + i - 1] = s[i]
    /\ \A i \in 0 .. b.size - 1 : i < p \/ i >= p + Len(s) => d[i] = b.data[i]

(* Copying a byte string into the vector keeps it a vector of bytes.       *)
LEMMA CopyType ==
    ASSUME NEW b, Good(b), NEW p \in Nat, NEW s \in Seq(Bytes), p + Len(s) <= b.size
    PROVE  Copied(b, p, s, Copy(b, p, s))
<1>1. Len(s) \in Nat /\ \A i \in 1 .. Len(s) : s[i] \in Bytes
  OBVIOUS
<1> QED
  BY <1>1 DEF Copied, Copy, Good

(* Moving the readable bytes to the front keeps them.                      *)
LEMMA MoveKeeps ==
    ASSUME NEW b, Good(b), kCheapPrepend <= b.reader
    PROVE  /\ Good(MoveToFront(b))
           /\ Readable(MoveToFront(b)) = Readable(b)
           /\ MoveToFront(b).size = b.size
           /\ MoveToFront(b).writer = kCheapPrepend + readableBytes(b)
<1> DEFINE s == Readable(b)
           c == MoveToFront(b)
<1>0. kCheapPrepend \in Nat
  BY BufferAssumption
<1>1. s \in Seq(Bytes) /\ Len(s) = readableBytes(b) /\ readableBytes(b) \in Nat
  BY ReadableType
<1>2. kCheapPrepend + Len(s) <= b.size
  BY <1>0, <1>1 DEF Good, readableBytes
<1>4. /\ c.data = Copy(b, kCheapPrepend, s) /\ c.size = b.size
      /\ c.reader = kCheapPrepend /\ c.writer = kCheapPrepend + readableBytes(b)
  BY DEF MoveToFront, Object
<1>s. s = Readable(b)
  OBVIOUS
<1> HIDE DEF s, c
<1>3. Copied(b, kCheapPrepend, s, c.data)
  BY <1>0, <1>1, <1>2, <1>4, CopyType, ZenonT(60)
<1>5. Good(c)
  BY <1>0, <1>1, <1>2, <1>3, <1>4 DEF Good, Copied
<1>6. readableBytes(c) = readableBytes(b)
  BY <1>0, <1>1, <1>4 DEF readableBytes
<1>7. \A i \in 1 .. readableBytes(b) : c.data[c.reader + i - 1] = s[i]
  BY <1>1, <1>3, <1>4 DEF Copied
<1>8. Readable(c) = [i \in 1 .. readableBytes(b) |-> s[i]]
  BY <1>6, <1>7 DEF Readable
<1>9. Readable(c) = s
  BY <1>1, <1>8, <1>s, ReadableType
<1> QED
  BY <1>4, <1>5, <1>9, <1>s DEF c

(* A size that growing from size n to hold len bytes may lead to.          *)
Within(size, n, len) == size >= n /\ (size = n \/ size <= kCheapPrepend + 2 * len)

(* ensureWritableBytes makes room, keeps the readable bytes, and grows the *)
(* vector only to less than twice what it then has to hold.  The assert in *)
(* makeSpace holds.                                                        *)
LEMMA EnsureKeeps ==
    ASSUME NEW b, Good(b), NEW len \in Nat
    PROVE  LET c == ensureWritableBytes(b, len)
           IN /\ Good(c) /\ Readable(c) = Readable(b)
              /\ writableBytes(c) >= len
              /\ Within(c.size, b.size, readableBytes(b) + len)
<1> DEFINE c == ensureWritableBytes(b, len)
<1>0. kCheapPrepend \in Nat
  BY BufferAssumption
<1>i. /\ b.size \in Nat /\ b.reader \in Nat /\ b.writer \in Nat
      /\ b.reader <= b.writer /\ b.writer <= b.size
  BY Indices
<1>1. CASE writableBytes(b) >= len
  <2>1. writableBytes(b) \in Nat
    BY DEF Good, writableBytes
  <2>2. c = b
    BY <1>1, <2>1 DEF ensureWritableBytes
  <2> QED
    BY <1>1, <2>2 DEF Within, Good
<1>2. CASE writableBytes(b) < len /\ TooFull(b, len)
  <2>1. c = Resize(b, b.writer + len)
    BY <1>2 DEF ensureWritableBytes, makeSpace
  <2>2. b.writer + len \in Nat /\ b.writer + len >= b.size
    BY <1>2 DEF Good, writableBytes
  <2>3. Good(c) /\ Readable(c) = Readable(b) /\ c.size = b.writer + len /\ c.writer = b.writer
    BY <2>1, <2>2, ResizeKeeps
  <2>4. writableBytes(c) >= len
    BY <2>3 DEF Good, writableBytes
  <2>5. b.size - b.writer + b.reader < len + kCheapPrepend
    BY <1>2 DEF TooFull, writableBytes, prependableBytes
  <2>6. b.writer + len <= kCheapPrepend + 2 * (b.writer - b.reader + len)
    BY <1>0, <1>i, <2>5
  <2> QED
    BY <2>2, <2>3, <2>4, <2>6 DEF readableBytes, Within
<1>3. CASE writableBytes(b) < len /\ ~TooFull(b, len)
  <2>1. c = MoveToFront(b)
    BY <1>3 DEF ensureWritableBytes, makeSpace
  <2>2. b.size - b.writer + b.reader >= len + kCheapPrepend /\ b.size - b.writer < len
    BY <1>0, <1>3 DEF TooFull, writableBytes, prependableBytes, Good
  <2>3. kCheapPrepend <= b.reader
    BY <1>0, <2>2 DEF Good
  <2>4. Good(c) /\ Readable(c) = Readable(b) /\ c.size = b.size
        /\ c.writer = kCheapPrepend + (b.writer - b.reader)
    BY <2>1, <2>3, MoveKeeps DEF readableBytes
  <2>5. writableBytes(c) >= len
    <3>1. writableBytes(c) = b.size - (kCheapPrepend + (b.writer - b.reader))
      BY <2>4 DEF writableBytes
    <3> QED
      BY <1>0, <1>i, <2>2, <3>1
  <2>6. Within(c.size, b.size, readableBytes(b) + len)
    BY <1>i, <2>4 DEF Within
  <2> QED
    BY <2>4, <2>5, <2>6
<1>4. writableBytes(b) \in Nat
  BY DEF Good, writableBytes
<1> QED
  BY <1>1, <1>2, <1>3, <1>4

(* To know the readable bytes it is enough to know each of them.           *)
LEMMA ReadableIs ==
    ASSUME NEW c, Good(c), NEW t \in Seq(Bytes), Len(t) = readableBytes(c),
           \A i \in 1 .. Len(t) : c.data[c.reader + i - 1] = t[i]
    PROVE  Readable(c) = t
<1>1. Readable(c) \in Seq(Bytes) /\ Len(Readable(c)) = Len(t)
  BY ReadableType
<1>2. \A i \in 1 .. Len(t) : Readable(c)[i] = t[i]
  BY DEF Readable
<1> QED
  BY <1>1, <1>2, SeqEqual

(* Bytes written at the writer index come after the readable ones.         *)
LEMMA WriteAppends ==
    ASSUME NEW b, Good(b), NEW s \in Seq(Bytes), Len(s) <= writableBytes(b)
    PROVE  /\ Good(write(b, s))
           /\ Readable(write(b, s)) = Readable(b) \o s
           /\ write(b, s).size = b.size /\ write(b, s).writer = b.writer + Len(s)
<1> DEFINE c == write(b, s)
           r == Readable(b)
<1>1. Len(s) \in Nat /\ b.writer + Len(s) <= b.size
  BY DEF Good, writableBytes
<1>2. /\ c.data = Copy(b, b.writer, s) /\ c.size = b.size
      /\ c.reader = b.reader /\ c.writer = b.writer + Len(s)
  BY DEF write, Object
<1>3. Copied(b, b.writer, s, c.data)
  BY <1>1, <1>2, CopyType DEF Good
<1>4. Good(c)
  BY <1>1, <1>2, <1>3 DEF Good, Copied
<1>5. r \in Seq(Bytes) /\ Len(r) = b.writer - b.reader
  BY ReadableType DEF readableBytes
<1>6. /\ r \o s \in Seq(Bytes) /\ Len(r \o s) = Len(r) + Len(s)
      /\ \A i \in 1 .. Len(r) + Len(s) : (r \o s)[i] = IF i <= Len(r) THEN r[i] ELSE s[i - Len(r)]
  <2> HIDE DEF r
  <2> QED
    BY <1>5, ConcatProperties, ZenonT(60)
<1>7. Len(r \o s) = readableBytes(c)
  BY <1>1, <1>2, <1>5, <1>6 DEF readableBytes, Good
<1>8. \A i \in 1 .. Len(r) : r[i] = b.data[b.reader + i - 1]
  BY <1>5, ZenonT(60) DEF Readable, readableBytes
<1>9. ASSUME NEW i \in 1 .. Len(r \o s)
      PROVE  c.data[c.reader + i - 1] = (r \o s)[i]
  <2>1. CASE i <= Len(r)
    <3>1. b.reader + i - 1 \in 0 .. b.size - 1 /\ b.reader + i - 1 < b.writer
      BY <1>5, <2>1 DEF Good
    <3>2. c.data[b.reader + i - 1] = b.data[b.reader + i - 1]
      BY <1>3, <3>1 DEF Copied
    <3>3. i \in 1 .. Len(r) /\ i \in 1 .. Len(r) + Len(s)
      BY <1>1, <1>5, <1>6, <2>1 DEF Good
    <3> QED
      BY <1>2, <1>6, <1>8, <2>1, <3>2, <3>3
  <2>2. CASE ~(i <= Len(r))
    <3>1. i - Len(r) \in 1 .. Len(s) /\ i \in 1 .. Len(r) + Len(s) /\ ~(i <= Len(r))
      BY <1>1, <1>5, <1>6, <2>2 DEF Good
    <3>2. c.data[b.writer + (i - Len(r)) - 1] = s[i - Len(r)]
      BY <1>3, <3>1 DEF Copied
    <3>3. b.writer + (i - Len(r)) - 1 = b.reader + i - 1
      BY <1>5 DEF Good
    <3> QED
      BY <1>2, <1>6, <3>1, <3>2, <3>3
  <2> QED
    BY <2>1, <2>2
<1>10. Readable(c) = r \o s
  BY <1>4, <1>6, <1>7, <1>9, ReadableIs, ZenonT(60)
<1> QED
  BY <1>2, <1>4, <1>10

(* append puts a byte string after the readable bytes.                     *)
LEMMA AppendAppends ==
    ASSUME NEW b, Good(b), NEW s \in Seq(Bytes)
    PROVE  /\ Good(append(b, s))
           /\ Readable(append(b, s)) = Readable(b) \o s
           /\ Within(append(b, s).size, b.size, readableBytes(b) + Len(s))
<1> DEFINE c == ensureWritableBytes(b, Len(s))
<1>1. Len(s) \in Nat
  OBVIOUS
<1>2. /\ Good(c) /\ Readable(c) = Readable(b) /\ writableBytes(c) >= Len(s)
      /\ Within(c.size, b.size, readableBytes(b) + Len(s))
  BY <1>1, EnsureKeeps
<1>3. writableBytes(c) \in Nat
  BY <1>2 DEF Good, writableBytes
<1> HIDE DEF c
<1>4. Len(s) <= writableBytes(c)
  BY <1>1, <1>2, <1>3
<1>5. Good(write(c, s)) /\ Readable(write(c, s)) = Readable(c) \o s /\ write(c, s).size = c.size
  BY <1>2, <1>4, WriteAppends
<1>6. append(b, s) = write(c, s)
  BY DEF append, c
<1> QED
  BY <1>2, <1>5, <1>6

(* prepend puts a byte string before the readable bytes.                   *)
LEMMA PrependPrepends ==
    ASSUME NEW b, Good(b), NEW s \in Seq(Bytes), Len(s) <= prependableBytes(b)
    PROVE  /\ Good(prepend(b, s))
           /\ Readable(prepend(b, s)) = s \o Readable(b)
           /\ prepend(b, s).size = b.size
<1> DEFINE c == prepend(b, s)
           r == Readable(b)
           p == b.reader - Len(s)
<1>1. Len(s) \in Nat /\ p \in Nat /\ p + Len(s) = b.reader
  BY DEF Good, prependableBytes
<1>2. c.data = Copy(b, p, s) /\ c.size = b.size /\ c.reader = p /\ c.writer = b.writer
  BY DEF prepend, Object
<1>b. b.reader \in Nat /\ b.writer \in Nat /\ b.size \in Nat /\ b.reader <= b.writer /\ b.writer <= b.size
  BY DEF Good
<1> HIDE DEF p, c
<1>3. Copied(b, p, s, c.data)
  <2>1. p + Len(s) <= b.size
    BY <1>1, <1>b
  <2> QED
    BY <1>1, <1>2, <2>1, CopyType
<1>4. Good(c)
  BY <1>1, <1>2, <1>3 DEF Good, Copied
<1>5. r \in Seq(Bytes) /\ Len(r) = b.writer - b.reader
  BY ReadableType DEF readableBytes
<1>6. /\ s \o r \in Seq(Bytes) /\ Len(s \o r) = Len(s) + Len(r)
      /\ \A i \in 1 .. Len(s) + Len(r) : (s \o r)[i] = IF i <= Len(s) THEN s[i] ELSE r[i - Len(s)]
  BY <1>5, ConcatProperties, ZenonT(60)
<1>7. Len(s \o r) = readableBytes(c)
  BY <1>1, <1>2, <1>5, <1>6, <1>b DEF readableBytes
<1>8. \A i \in 1 .. Len(r) : r[i] = b.data[b.reader + i - 1]
  BY <1>5, ZenonT(60) DEF Readable, readableBytes
<1> HIDE DEF r
<1>9. ASSUME NEW i \in 1 .. Len(s \o r)
      PROVE  c.data[c.reader + i - 1] = (s \o r)[i]
  <2>1. CASE i <= Len(s)
    <3>1. i \in 1 .. Len(s) /\ i \in 1 .. Len(s) + Len(r)
      BY <1>1, <1>5, <1>6, <2>1 DEF Good
    <3>2. c.data[p + i - 1] = s[i]
      BY <1>3, <3>1 DEF Copied
    <3> QED
      BY <1>2, <1>6, <2>1, <3>1, <3>2
  <2>2. CASE ~(i <= Len(s))
    <3>0. i \in Nat /\ i > Len(s) /\ i <= Len(s) + (b.writer - b.reader)
      BY <1>1, <1>5, <1>6, <1>b, <2>2
    <3>1. i - Len(s) \in 1 .. Len(r) /\ i \in 1 .. Len(s) + Len(r) /\ ~(i <= Len(s))
      BY <1>1, <1>5, <1>b, <3>0
    <3>2. p + i - 1 = b.reader + (i - Len(s)) - 1
      BY <1>1, <1>b, <3>0
    <3>4. p + i - 1 >= p + Len(s)
      BY <1>1, <3>0
    <3>5. p + i - 1 \in 0 .. b.size - 1
      BY <1>1, <1>b, <3>0
    <3>3. c.data[p + i - 1] = b.data[p + i - 1]
      BY <1>3, <3>4, <3>5 DEF Copied
    <3> QED
      BY <1>2, <1>6, <1>8, <3>1, <3>2, <3>3, ZenonT(60)
  <2> QED
    BY <2>1, <2>2
<1>10. Readable(c) = s \o r
  BY <1>4, <1>6, <1>7, <1>9, ReadableIs, ZenonT(60)
<1> QED
  BY <1>2, <1>4, <1>10 DEF c, r

(* retrieve drops the first bytes.                                         *)
LEMMA RetrieveDrops ==
    ASSUME NEW b, Good(b), b.size >= kCheapPrepend,
           NEW len \in Nat, len <= readableBytes(b)
    PROVE  /\ Good(retrieve(b, len))
           /\ Readable(retrieve(b, len)) = SubSeq(Readable(b), len + 1, Len(Readable(b)))
           /\ retrieve(b, len).size = b.size
<1> DEFINE c == retrieve(b, len)
           r == Readable(b)
           t == SubSeq(r, len + 1, Len(r))
<1>0. kCheapPrepend \in Nat
  BY BufferAssumption
<1>1. r \in Seq(Bytes) /\ Len(r) = b.writer - b.reader
  BY ReadableType DEF readableBytes
<1>2. \A i \in 1 .. Len(r) : r[i] = b.data[b.reader + i - 1]
  BY <1>1, ZenonT(60) DEF Readable, readableBytes
<1>3. len <= Len(r) /\ Len(r) \in Nat
  BY <1>1 DEF readableBytes
<1>4. \A i \in len + 1 .. Len(r) : r[i] \in Bytes
  BY <1>1, <1>3
<1>5. /\ t \in Seq(Bytes) /\ Len(t) = Len(r) - len
      /\ \A i \in 1 .. Len(r) - (len + 1) + 1 : t[i] = r[len + 1 + i - 1]
  BY <1>3, <1>4, SubSeqProperties
<1> HIDE DEF r, t
<1>6. CASE len < readableBytes(b)
  <2>1. /\ c.data = b.data /\ c.size = b.size
        /\ c.reader = b.reader + len /\ c.writer = b.writer
    BY <1>6 DEF retrieve, Object
  <2>2. Good(c)
    BY <1>6, <2>1 DEF Good, readableBytes
  <2>3. Len(t) = readableBytes(c)
    BY <1>1, <1>5, <2>1 DEF readableBytes, Good
  <2>4. ASSUME NEW i \in 1 .. Len(t) PROVE c.data[c.reader + i - 1] = t[i]
    <3>1. len + i \in 1 .. Len(r) /\ i \in 1 .. Len(r) - (len + 1) + 1 /\ len + 1 + i - 1 = len + i
      BY <1>3, <1>5
    <3>2. t[i] = r[len + i]
      BY <1>5, <3>1
    <3>3. r[len + i] = b.data[b.reader + (len + i) - 1]
      BY <1>2, <3>1
    <3>4. b.reader + (len + i) - 1 = c.reader + i - 1
      BY <2>1 DEF Good
    <3> QED
      BY <2>1, <3>2, <3>3, <3>4
  <2> HIDE DEF c
  <2>5. Readable(c) = t
    BY <1>5, <2>2, <2>3, <2>4, ReadableIs
  <2> QED
    BY <2>1, <2>2, <2>5 DEF c, r, t
<1>7. CASE ~(len < readableBytes(b))
  <2>1. /\ c.data = b.data /\ c.size = b.size
        /\ c.reader = kCheapPrepend /\ c.writer = kCheapPrepend
    BY <1>7 DEF retrieve, retrieveAll, Object
  <2>2. Good(c)
    BY <1>0, <2>1 DEF Good
  <2>3. Len(t) = 0
    BY <1>1, <1>3, <1>5, <1>7 DEF readableBytes, Good
  <2>4. Len(t) = readableBytes(c) /\ \A i \in 1 .. Len(t) : c.data[c.reader + i - 1] = t[i]
    BY <1>0, <2>1, <2>3 DEF readableBytes
  <2> HIDE DEF c
  <2>5. Readable(c) = t
    BY <1>5, <2>2, <2>4, ReadableIs
  <2> QED
    BY <2>1, <2>2, <2>5 DEF c, r, t
<1> QED
  BY <1>6, <1>7

(* unwrite drops the last bytes.                                           *)
LEMMA UnwriteDrops ==
    ASSUME NEW b, Good(b), NEW len \in Nat, len <= readableBytes(b)
    PROVE  /\ Good(unwrite(b, len))
           /\ Readable(unwrite(b, len)) = SubSeq(Readable(b), 1, Len(Readable(b)) - len)
           /\ unwrite(b, len).size = b.size
<1> DEFINE c == unwrite(b, len)
           r == Readable(b)
           t == SubSeq(r, 1, Len(r) - len)
<1>1. r \in Seq(Bytes) /\ Len(r) = b.writer - b.reader
  BY ReadableType DEF readableBytes
<1>2. \A i \in 1 .. Len(r) : r[i] = b.data[b.reader + i - 1]
  BY <1>1, ZenonT(60) DEF Readable, readableBytes
<1>3. len <= Len(r) /\ Len(r) \in Nat
  BY <1>1 DEF readableBytes
<1>4. \A i \in 1 .. Len(r) - len : r[i] \in Bytes
  BY <1>1, <1>3
<1>5. /\ t \in Seq(Bytes) /\ Len(t) = Len(r) - len
      /\ \A i \in 1 .. Len(r) - len - 1 + 1 : t[i] = r[1 + i - 1]
  BY <1>3, <1>4, SubSeqProperties
<1>6. /\ c.data = b.data /\ c.size = b.size
      /\ c.reader = b.reader /\ c.writer = b.writer - len
  BY DEF unwrite, Object
<1>7. Good(c)
  BY <1>6 DEF Good, readableBytes
<1>8. Len(t) = readableBytes(c)
  <2>1. readableBytes(c) = (b.writer - len) - b.reader
    BY <1>6 DEF readableBytes
  <2>2. Len(t) = (b.writer - b.reader) - len
    BY <1>1, <1>5
  <2> QED
    BY <2>1, <2>2, Indices
<1> HIDE DEF c, r, t
<1>9. ASSUME NEW i \in 1 .. Len(t) PROVE c.data[c.reader + i - 1] = t[i]
  <2>1. i \in 1 .. Len(r) /\ i \in 1 .. Len(r) - len - 1 + 1 /\ 1 + i - 1 = i
    BY <1>3, <1>5
  <2> QED
    BY <1>2, <1>5, <1>6, <2>1
<1>10. Readable(c) = t
  BY <1>5, <1>7, <1>8, <1>9, ReadableIs
<1> QED
  BY <1>6, <1>7, <1>10 DEF c, r, t

(* Byte strings that are written one after the other.                      *)
LEMMA WrittenInTurn ==
    ASSUME NEW p \in Seq(Bytes), NEW q \in Seq(Bytes), NEW r \in Seq(Bytes)
    PROVE  (p \o q) \o r = p \o (q \o r)
  BY ConcatAssociative

(* readFd appends what was read, wherever it was read to.                  *)
LEMMA ReadFdAppends ==
    ASSUME NEW b, Good(b), NEW s \in Seq(Bytes)
    PROVE  /\ Good(readFd(b, s))
           /\ Readable(readFd(b, s)) = Readable(b) \o s
           /\ Within(readFd(b, s).size, b.size, readableBytes(b) + Len(s))
<1> DEFINE w == writableBytes(b)
           s1 == SubSeq(s, 1, w)
           s2 == SubSeq(s, w + 1, Len(s))
           c == write(b, s1)
<1>1. w \in Nat /\ Len(s) \in Nat /\ w = b.size - b.writer
  BY DEF Good, writableBytes
<1>2. CASE Len(s) <= w
  <2>1. readFd(b, s) = write(b, s)
    BY <1>2 DEF readFd
  <2> QED
    <3>1. /\ Good(write(b, s)) /\ Readable(write(b, s)) = Readable(b) \o s
          /\ write(b, s).size = b.size
      BY <1>2, WriteAppends
    <3>2. Within(b.size, b.size, readableBytes(b) + Len(s))
      BY Indices DEF Within
    <3> QED
      BY <2>1, <3>1, <3>2
<1>3. CASE ~(Len(s) <= w)
  <2>1. readFd(b, s) = append(c, s2)
    BY <1>3 DEF readFd
  <2>2. s1 \in Seq(Bytes) /\ Len(s1) = w /\ \A i \in 1 .. w - 1 + 1 : s1[i] = s[1 + i - 1]
    <3>1. \A i \in 1 .. w : s[i] \in Bytes
      BY <1>1, <1>3
    <3> QED
      BY <1>1, <3>1, SubSeqProperties
  <2>3. /\ s2 \in Seq(Bytes) /\ Len(s2) = Len(s) - w
        /\ \A i \in 1 .. Len(s) - (w + 1) + 1 : s2[i] = s[w + 1 + i - 1]
    <3>1. \A i \in w + 1 .. Len(s) : s[i] \in Bytes
      BY <1>1, <1>3
    <3>2. w + 1 \in Nat /\ Len(s) \in Nat /\ w + 1 <= Len(s) + 1
      BY <1>1, <1>3
    <3> QED
      BY <1>1, <3>1, <3>2, SubSeqProperties
  <2>4. Len(s1) <= writableBytes(b)
    BY <1>1, <2>2
  <2> HIDE DEF s1, s2
  <2>5. Good(c) /\ Readable(c) = Readable(b) \o s1 /\ c.size = b.size
    BY <2>2, <2>4, WriteAppends
  <2>6. Readable(b) \in Seq(Bytes) /\ Len(Readable(b)) = readableBytes(b) /\ readableBytes(b) \in Nat
    BY ReadableType
  <2>7. readableBytes(c) = readableBytes(b) + w
    <3>1. Len(Readable(c)) = readableBytes(c)
      BY <2>5, ReadableType
    <3>2. Len(Readable(b) \o s1) = Len(Readable(b)) + Len(s1)
      BY <2>2, <2>6, ConcatProperties, ZenonT(60)
    <3> QED
      BY <2>2, <2>5, <2>6, <3>1, <3>2
  <2>8. s1 \o s2 = s
    <3>1. /\ s1 \o s2 \in Seq(Bytes) /\ Len(s1 \o s2) = Len(s1) + Len(s2)
          /\ \A i \in 1 .. Len(s1) + Len(s2) :
                (s1 \o s2)[i] = IF i <= Len(s1) THEN s1[i] ELSE s2[i - Len(s1)]
      BY <2>2, <2>3, ConcatProperties, ZenonT(60)
    <3>2. Len(s1) + Len(s2) = Len(s)
      BY <1>1, <2>2, <2>3
    <3>3. ASSUME NEW i \in 1 .. Len(s) PROVE (s1 \o s2)[i] = s[i]
      <4>1. CASE i <= w
        <5>1. i \in 1 .. w - 1 + 1 /\ 1 + i - 1 = i
          BY <1>1, <4>1
        <5> QED
          BY <2>2, <3>1, <3>2, <4>1, <5>1
      <4>2. CASE ~(i <= w)
        <5>1. i - w \in 1 .. Len(s) - (w + 1) + 1 /\ w + 1 + (i - w) - 1 = i
          BY <1>1, <4>2
        <5>2. s2[i - w] = s[w + 1 + (i - w) - 1]
          BY <2>3, <5>1
        <5> QED
          BY <2>2, <3>1, <3>2, <4>2, <5>1, <5>2, ZenonT(60)
      <4> QED
        BY <4>1, <4>2, ZenonT(60)
    <3> QED
      BY <3>1, <3>2, <3>3, SeqEqual, ZenonT(60)
  <2>9. (Readable(b) \o s1) \o s2 = Readable(b) \o s
    <3>1. s1 \in Seq(Bytes) /\ s2 \in Seq(Bytes) /\ Readable(b) \in Seq(Bytes)
      BY <2>2, <2>3, <2>6
    <3>2. (Readable(b) \o s1) \o s2 = Readable(b) \o (s1 \o s2)
      BY <3>1, WrittenInTurn
    <3> QED
      BY <2>8, <3>2
  <2> HIDE DEF c
  <2>10. /\ Good(append(c, s2)) /\ Readable(append(c, s2)) = Readable(c) \o s2
         /\ Within(append(c, s2).size, c.size, readableBytes(c) + Len(s2))
    BY <2>3, <2>5, AppendAppends, ZenonT(60)
  <2>11. readableBytes(c) + Len(s2) = readableBytes(b) + Len(s)
    BY <1>1, <2>3, <2>6, <2>7
  <2> QED
    BY <2>1, <2>5, <2>9, <2>10, <2>11
<1> QED
  BY <1>2, <1>3

(* A new buffer is empty.                                                  *)
LEMMA NewBufferGood ==
    /\ Good(NewBuffer) /\ Readable(NewBuffer) = <<>> /\ readableBytes(NewBuffer) = 0
    /\ NewBuffer.size = kCheapPrepend + kInitialSize
<1>1. kCheapPrepend \in Nat /\ kInitialSize \in Nat /\ 0 \in Bytes
  BY BufferAssumption DEF Bytes
<1>2. /\ NewBuffer.data = [i \in 0 .. kCheapPrepend + kInitialSize - 1 |-> 0]
      /\ NewBuffer.size = kCheapPrepend + kInitialSize
      /\ NewBuffer.reader = kCheapPrepend /\ NewBuffer.writer = kCheapPrepend
  BY DEF NewBuffer, Object
<1>3. Good(NewBuffer)
  BY <1>1, <1>2 DEF Good
<1>4. readableBytes(NewBuffer) = 0
  BY <1>1, <1>2 DEF readableBytes
<1>5. Readable(NewBuffer) \in Seq(Bytes) /\ Len(Readable(NewBuffer)) = 0
  BY <1>3, <1>4, ReadableType
<1>6. Readable(NewBuffer) = <<>>
  BY <1>5, EmptySeq
<1> QED
  BY <1>2, <1>3, <1>4, <1>6

(* shrink copies the readable bytes to a new vector.                       *)
LEMMA ShrinkKeeps ==
    ASSUME NEW b, Good(b), NEW n \in Nat
    PROVE  /\ Good(shrink(b, n)) /\ Readable(shrink(b, n)) = Readable(b)
           /\ Within(shrink(b, n).size, kCheapPrepend + kInitialSize, readableBytes(b) + n)
<1> DEFINE r == Readable(b)
           c == ensureWritableBytes(NewBuffer, readableBytes(b) + n)
           d == append(c, r)
<1>0. kCheapPrepend \in Nat /\ kInitialSize \in Nat
  BY BufferAssumption
<1>1. r \in Seq(Bytes) /\ Len(r) = readableBytes(b) /\ readableBytes(b) \in Nat
  BY ReadableType
<1>2. readableBytes(b) + n \in Nat
  BY <1>1
<1>3. /\ Good(c) /\ Readable(c) = <<>>
      /\ Within(c.size, kCheapPrepend + kInitialSize, 0 + (readableBytes(b) + n))
  BY <1>2, NewBufferGood, EnsureKeeps, ZenonT(60)
<1>4. d = shrink(b, n)
  BY DEF shrink
<1> HIDE DEF c, r
<1>5. /\ Good(d) /\ Readable(d) = Readable(c) \o r
      /\ Within(d.size, c.size, readableBytes(c) + Len(r))
  BY <1>1, <1>3, AppendAppends, ZenonT(60)
<1>6. Readable(d) = r
  BY <1>1, <1>3, <1>5, ConcatEmptySeq
<1>7. readableBytes(c) = 0
  <2>1. Len(Readable(c)) = readableBytes(c)
    BY <1>3, ReadableType
  <2> QED
    BY <1>3, <2>1
<1>8. d.size \in Nat /\ c.size \in Nat
  BY <1>3, <1>5 DEF Good
<1> HIDE DEF d
<1>9. Within(d.size, kCheapPrepend + kInitialSize, readableBytes(b) + n)
  BY <1>0, <1>1, <1>3, <1>5, <1>7, <1>8 DEF Within
<1> QED
  BY <1>4, <1>5, <1>6, <1>9 DEF r

-----------------------------------------------------------------------------
(* A call that grows the vector only when it has to keeps the bound.       *)
LEMMA GrowthBounded ==
    ASSUME BInv, NEW n \in Nat, NEW m \in Nat, Holds(n), Good(buf'),
           m >= kCheapPrepend, m <= buf.size \/ m <= kCheapPrepend + kInitialSize,
           Within(buf'.size, m, n)
    PROVE  BInv'
<1>1. kCheapPrepend \in Nat /\ kInitialSize \in Nat
  BY BufferAssumption
<1>2. peak \in Nat /\ peak' \in Nat /\ peak' >= n /\ peak' >= peak
  BY DEF BInv, Holds
<1>3. buf.size \in Nat /\ buf'.size \in Nat
  BY DEF BInv, Good
<1>4. \/ buf.size <= kCheapPrepend + kInitialSize
      \/ buf.size <= kCheapPrepend + 2 * peak
  BY DEF BInv, MemoryBound
<1>5. \/ buf'.size <= kCheapPrepend + kInitialSize
      \/ buf'.size <= kCheapPrepend + 2 * peak'
  BY <1>1, <1>2, <1>3, <1>4 DEF Within
<1>6. buf'.size >= kCheapPrepend
  BY <1>1, <1>3 DEF Within
<1> QED
  BY <1>2, <1>5, <1>6 DEF BInv, MemoryBound, Good

(* Every call keeps the invariant and does to the content what the queue   *)
(* of bytes does, or nothing.                                              *)
LEMMA BufferStep ==
    ASSUME BInv, BufferNext
    PROVE  BInv' /\ (Queue!Next \/ Readable(buf)' = Readable(buf))
<1>0. /\ Good(buf) /\ buf.size \in Nat /\ buf.size >= kCheapPrepend
      /\ readableBytes(buf) \in Nat /\ Len(Readable(buf)) = readableBytes(buf)
  BY ReadableType DEF BInv, Good
<1>1. kCheapPrepend \in Nat /\ kInitialSize \in Nat /\ MaxContent \in Nat
  BY BufferAssumption
<1>2. ASSUME NEW s \in Chunks, AppendBytes(s)
      PROVE  BInv' /\ Queue!Next
  <2>1. s \in Seq(Bytes) /\ Len(s) \in Nat
    BY ChunkType
  <2>2. /\ Good(buf') /\ Readable(buf)' = Readable(buf) \o s
        /\ Within(buf'.size, buf.size, readableBytes(buf) + Len(s))
    BY <1>0, <1>2, <2>1, AppendAppends, ZenonT(60) DEF AppendBytes
  <2>3. readableBytes(buf) + Len(s) \in Nat
    BY <1>0, <2>1
  <2>4. Holds(readableBytes(buf) + Len(s))
    BY <1>2 DEF AppendBytes
  <2>5. BInv'
    BY <1>0, <2>2, <2>3, <2>4, GrowthBounded
  <2> QED
    BY <2>2, <2>5 DEF Queue!Next, Queue!Write
<1>3. ASSUME NEW s \in Chunks, Prepend(s)
      PROVE  BInv' /\ Queue!Next
  <2>1. s \in Seq(Bytes) /\ Len(s) \in Nat
    BY ChunkType
  <2>2. Len(s) <= prependableBytes(buf) /\ buf' = prepend(buf, s)
    BY <1>3 DEF Prepend
  <2>3. /\ Good(buf') /\ Readable(buf)' = s \o Readable(buf) /\ buf'.size = buf.size
    BY <1>0, <2>1, <2>2, PrependPrepends
  <2>4. readableBytes(buf) + Len(s) \in Nat
    BY <1>0, <2>1
  <2>5. Holds(readableBytes(buf) + Len(s))
    BY <1>3 DEF Prepend
  <2>6. Within(buf'.size, buf.size, readableBytes(buf) + Len(s))
    BY <1>0, <2>3 DEF Within
  <2>7. BInv'
    BY <1>0, <2>3, <2>4, <2>5, <2>6, GrowthBounded
  <2> QED
    BY <2>3, <2>7 DEF Queue!Next, Queue!PutInFront
<1>4. ASSUME NEW s \in Chunks, ReadFd(s)
      PROVE  BInv' /\ Queue!Next
  <2>1. s \in Seq(Bytes) /\ Len(s) \in Nat
    BY ChunkType
  <2>2. /\ Good(buf') /\ Readable(buf)' = Readable(buf) \o s
        /\ Within(buf'.size, buf.size, readableBytes(buf) + Len(s))
    BY <1>0, <1>4, <2>1, ReadFdAppends, ZenonT(60) DEF ReadFd
  <2>3. readableBytes(buf) + Len(s) \in Nat
    BY <1>0, <2>1
  <2>4. Holds(readableBytes(buf) + Len(s))
    BY <1>4 DEF ReadFd
  <2>5. BInv'
    BY <1>0, <2>2, <2>3, <2>4, GrowthBounded
  <2> QED
    BY <2>2, <2>5 DEF Queue!Next, Queue!Write
<1>5. ASSUME NEW n \in Reserves, EnsureWritable(n)
      PROVE  BInv' /\ Readable(buf)' = Readable(buf)
  <2>1. n \in Nat /\ readableBytes(buf) + n \in Nat
    BY <1>0, BufferAssumption
  <2>2. /\ Good(buf') /\ Readable(buf)' = Readable(buf)
        /\ Within(buf'.size, buf.size, readableBytes(buf) + n)
    BY <1>0, <1>5, <2>1, EnsureKeeps, ZenonT(60) DEF EnsureWritable
  <2>3. Holds(readableBytes(buf) + n)
    BY <1>5 DEF EnsureWritable
  <2> QED
    BY <1>0, <2>1, <2>2, <2>3, GrowthBounded
<1>6. ASSUME NEW n \in Reserves, Shrink(n)
      PROVE  BInv' /\ Readable(buf)' = Readable(buf)
  <2>1. n \in Nat /\ readableBytes(buf) + n \in Nat
    BY <1>0, BufferAssumption
  <2>2. /\ Good(buf') /\ Readable(buf)' = Readable(buf)
        /\ Within(buf'.size, kCheapPrepend + kInitialSize, readableBytes(buf) + n)
    BY <1>0, <1>6, <2>1, ShrinkKeeps, ZenonT(60) DEF Shrink
  <2>3. Holds(readableBytes(buf) + n)
    BY <1>6 DEF Shrink
  <2>4. kCheapPrepend + kInitialSize \in Nat /\ kCheapPrepend + kInitialSize >= kCheapPrepend
    BY <1>1
  <2> QED
    BY <2>1, <2>2, <2>3, <2>4, GrowthBounded
<1>7. ASSUME NEW n \in 0 .. MaxContent, Retrieve(n)
      PROVE  BInv' /\ Queue!Next
  <2>1. n \in Nat /\ n <= readableBytes(buf) /\ buf' = retrieve(buf, n) /\ peak' = peak
    BY <1>1, <1>7 DEF Retrieve
  <2>2. /\ Good(buf') /\ buf'.size = buf.size
        /\ Readable(buf)' = SubSeq(Readable(buf), n + 1, Len(Readable(buf)))
    BY <1>0, <2>1, RetrieveDrops
  <2>3. BInv'
    BY <2>1, <2>2 DEF BInv, MemoryBound
  <2>4. n \in 0 .. Len(Readable(buf))
    BY <1>0, <2>1
  <2> QED
    BY <2>2, <2>3, <2>4 DEF Queue!Next, Queue!Read
<1>8. ASSUME NEW n \in 0 .. MaxContent, Unwrite(n)
      PROVE  BInv' /\ Queue!Next
  <2>1. n \in Nat /\ n <= readableBytes(buf) /\ buf' = unwrite(buf, n) /\ peak' = peak
    BY <1>1, <1>8 DEF Unwrite
  <2>2. /\ Good(buf') /\ buf'.size = buf.size
        /\ Readable(buf)' = SubSeq(Readable(buf), 1, Len(Readable(buf)) - n)
    BY <1>0, <2>1, UnwriteDrops, ZenonT(60)
  <2>3. BInv'
    BY <2>1, <2>2 DEF BInv, MemoryBound
  <2>4. n \in 0 .. Len(Readable(buf))
    BY <1>0, <2>1
  <2> QED
    BY <2>2, <2>3, <2>4 DEF Queue!Next, Queue!TakeBack
<1> QED
  BY <1>2, <1>3, <1>4, <1>5, <1>6, <1>7, <1>8 DEF BufferNext

(* The invariant holds at first: a new buffer is empty.                    *)
LEMMA BufferStart == BufferInit => BInv /\ Queue!Init
<1>1. kCheapPrepend \in Nat /\ kInitialSize \in Nat
  BY BufferAssumption
<1> QED
  BY <1>1, NewBufferGood DEF BufferInit, BInv, MemoryBound, Queue!Init

(* BInv holds in every state of a buffer.                                  *)
THEOREM BufferInvariant == BufferSpec => []BInv
<1>1. BufferInit => BInv
  BY BufferStart
<1>2. BInv /\ [BufferNext]_bufferVars => BInv'
  <2>1. BInv /\ BufferNext => BInv'
    BY BufferStep
  <2>2. BInv /\ UNCHANGED bufferVars => BInv'
    BY DEF bufferVars, BInv, MemoryBound
  <2> QED
    BY <2>1, <2>2
<1> QED
  BY <1>1, <1>2, PTL DEF BufferSpec

(* The indices of a buffer stay in order and inside the vector, after any  *)
(* calls with any lengths (Buffer.h:40).                                   *)
THEOREM IndexSafety == BufferSpec => []IndexOK
<1>1. BInv => IndexOK
  BY DEF BInv, Good, IndexOK
<1> QED
  BY <1>1, BufferInvariant, PTL

(* A buffer is never larger than twice what it had to hold at once, unless *)
(* it still has its first size.                                            *)
THEOREM MemorySafety == BufferSpec => []MemoryBound
<1>1. BInv => MemoryBound
  BY DEF BInv
<1> QED
  BY <1>1, BufferInvariant, PTL

(* makeSpace finds what its assert expects and ensureWritableBytes makes   *)
(* the room it promises, whatever length is asked for.                     *)
THEOREM SpaceSafety == BufferSpec => []SpaceMade
<1>1. BInv => SpaceMade
  <2> SUFFICES ASSUME BInv, NEW len \in Reserves
               PROVE  /\ writableBytes(buf) < len /\ ~TooFull(buf, len) => kCheapPrepend < buf.reader
                      /\ writableBytes(ensureWritableBytes(buf, len)) >= len
    BY DEF SpaceMade
  <2>1. len \in Nat /\ kCheapPrepend \in Nat /\ Good(buf)
    BY BufferAssumption DEF BInv
  <2>2. writableBytes(ensureWritableBytes(buf, len)) >= len
    BY <2>1, EnsureKeeps
  <2>3. writableBytes(buf) \in Nat /\ buf.reader \in Nat
    BY <2>1 DEF Good, writableBytes
  <2>4. writableBytes(buf) < len /\ ~TooFull(buf, len) => kCheapPrepend < buf.reader
    BY <2>1, <2>3 DEF TooFull, prependableBytes
  <2> QED
    BY <2>2, <2>4
<1> QED
  BY <1>1, BufferInvariant, PTL

(* The buffer implements the queue of bytes: resizing, moving and spilling *)
(* over extrabuf are invisible.                                            *)
THEOREM BufferIsQueue == BufferSpec => QueueSpec
<1>1. BufferInit => Queue!Init
  BY BufferStart
<1>2. BInv /\ [BufferNext]_bufferVars => [Queue!Next]_(Readable(buf))
  <2>1. BInv /\ BufferNext => Queue!Next \/ Readable(buf)' = Readable(buf)
    BY BufferStep
  <2>2. UNCHANGED bufferVars => Readable(buf)' = Readable(buf)
    BY DEF bufferVars, Readable, readableBytes
  <2> QED
    BY <2>1, <2>2
<1> QED
  BY <1>1, <1>2, BufferInvariant, PTL DEF BufferSpec, QueueSpec, Queue!Spec

(* A position between the indices is a position in the content.            *)
LEMMA ContentAt ==
    ASSUME NEW b, Good(b)
    PROVE  /\ DOMAIN Readable(b) = 1 .. readableBytes(b) /\ Len(Readable(b)) = readableBytes(b)
           /\ \A i \in 1 .. readableBytes(b) :
                 b.reader + i - 1 \in b.reader .. b.writer - 1 /\ Readable(b)[i] = b.data[b.reader + i - 1]
           /\ \A p \in b.reader .. b.writer - 1 :
                 p - b.reader + 1 \in 1 .. readableBytes(b) /\ Readable(b)[p - b.reader + 1] = b.data[p]
<1>1. b.reader \in Nat /\ b.writer \in Nat /\ b.reader <= b.writer
  BY Indices
<1>2. Len(Readable(b)) = readableBytes(b)
  BY ReadableType
<1>3. \A i \in 1 .. readableBytes(b) :
        b.reader + i - 1 \in b.reader .. b.writer - 1 /\ Readable(b)[i] = b.data[b.reader + i - 1]
  BY <1>1 DEF Readable, readableBytes
<1>4. ASSUME NEW p \in b.reader .. b.writer - 1
      PROVE  p - b.reader + 1 \in 1 .. readableBytes(b) /\ Readable(b)[p - b.reader + 1] = b.data[p]
  <2>1. p - b.reader + 1 \in 1 .. readableBytes(b) /\ b.reader + (p - b.reader + 1) - 1 = p
    BY <1>1 DEF readableBytes
  <2> QED
    BY <1>3, <2>1, ZenonT(60)
<1>5. DOMAIN Readable(b) = 1 .. readableBytes(b)
  BY DEF Readable
<1> QED
  BY <1>2, <1>3, <1>4, <1>5

(* findEOL and findCRLF (Buffer.h:80-108) find the first line end of the   *)
(* content, and never a byte that was left behind it.                      *)
THEOREM LineEndsFound == BufferSpec => []LineEndsInContent
<1>1. BInv => LineEndsInContent
  <2> SUFFICES ASSUME BInv PROVE LineEndsInContent
    OBVIOUS
  <2> DEFINE c == Readable(buf)
             r == buf.reader
             w == buf.writer
             n == readableBytes(buf)
             at(p) == buf.data[p]
             firsts == {j \in DOMAIN c : c[j] = LF /\ \A k \in 1 .. j - 1 : c[k] # LF}
  <2>1. /\ DOMAIN c = 1 .. n /\ Len(c) = n
        /\ \A i \in 1 .. n : r + i - 1 \in r .. w - 1 /\ c[i] = at(r + i - 1)
        /\ \A p \in r .. w - 1 : p - r + 1 \in 1 .. n /\ c[p - r + 1] = at(p)
    BY ContentAt DEF BInv
  <2>2. r \in Nat /\ w \in Nat /\ n \in Nat
    BY Indices, ReadableType DEF BInv
  <2>3. EOLs(buf) = {p \in r .. w - 1 : at(p) = LF}
    BY DEF EOLs
  <2>4. CRLFs(buf) = {p \in r .. w - 2 : at(p) = CR /\ at(p + 1) = LF}
    BY DEF CRLFs
  <2>5. c \in Seq(Bytes)
    BY ReadableType DEF BInv
  <2>6. n = w - r
    BY DEF readableBytes
  <2> HIDE DEF c, r, w, n, at
  <2>7. First(EOLs(buf)) = {r + i - 1 : i \in firsts}
    <3>1. ASSUME NEW p \in First(EOLs(buf)) PROVE p \in {r + i - 1 : i \in firsts}
      <4>1. p \in r .. w - 1 /\ at(p) = LF /\ \A q \in r .. w - 1 : at(q) = LF => p <= q
        BY <2>3, <3>1 DEF First
      <4>2. p - r + 1 \in 1 .. n /\ c[p - r + 1] = LF /\ r + (p - r + 1) - 1 = p
        BY <2>1, <2>2, <4>1
      <4>3. ASSUME NEW k \in 1 .. (p - r + 1) - 1 PROVE c[k] # LF
        <5>1. k \in 1 .. n /\ r + k - 1 \in r .. w - 1 /\ ~(p <= r + k - 1)
          BY <2>2, <2>6, <4>1
        <5> QED
          BY <2>1, <4>1, <5>1, ZenonT(60)
      <4>4. p - r + 1 \in firsts
        BY <2>1, <4>2, <4>3
      <4> QED
        BY <4>2, <4>4, ZenonT(60)
    <3>2. ASSUME NEW i \in firsts PROVE r + i - 1 \in First(EOLs(buf))
      <4>1. i \in 1 .. n /\ c[i] = LF /\ \A k \in 1 .. i - 1 : c[k] # LF
        BY <2>1, <3>2
      <4>2. r + i - 1 \in EOLs(buf)
        BY <2>1, <2>3, <4>1, ZenonT(60)
      <4>3. ASSUME NEW q \in EOLs(buf) PROVE r + i - 1 <= q
        <5>1. q \in r .. w - 1 /\ at(q) = LF
          BY <2>3, <4>3
        <5>2. q - r + 1 \in 1 .. n /\ c[q - r + 1] = LF
          BY <2>1, <5>1, ZenonT(60)
        <5>3. ~(q - r + 1 \in 1 .. i - 1)
          BY <4>1, <5>2, ZenonT(60)
        <5> QED
          BY <2>2, <4>1, <5>1, <5>2, <5>3
      <4> QED
        BY <4>2, <4>3, ZenonT(60) DEF First
    <3> QED
      BY <3>1, <3>2, ZenonT(60)
  <2>8. ASSUME NEW p \in First(CRLFs(buf))
        PROVE  SubSeq(c, p - r + 1, (p - r + 1) + 1) = <<CR, LF>>
    <3> DEFINE i == p - r + 1
    <3>1. p \in r .. w - 2 /\ at(p) = CR /\ at(p + 1) = LF
      BY <2>4, <2>8 DEF First
    <3>2. /\ i \in 1 .. n /\ i + 1 \in 1 .. n /\ p \in r .. w - 1 /\ p + 1 \in r .. w - 1
          /\ (p + 1) - r + 1 = i + 1
      BY <2>2, <2>6, <3>1
    <3>3. c[i] = CR /\ c[i + 1] = LF
      BY <2>1, <3>1, <3>2, ZenonT(60)
    <3> HIDE DEF i
    <3>4. SubSeq(c, i, i + 1) = <<CR, LF>>
      <4> DEFINE t == SubSeq(c, i, i + 1)
      <4>1. t \in Seq(Bytes) /\ Len(t) = 2 /\ t[1] = c[i] /\ t[2] = c[i + 1]
        BY <2>1, <2>2, <2>5, <3>2
      <4>2. CR \in Bytes /\ LF \in Bytes
        BY BufferAssumption DEF Bytes
      <4>3. <<CR, LF>> \in Seq(Bytes) /\ Len(<<CR, LF>>) = 2
        BY <4>2
      <4>4. \A k \in 1 .. 2 : t[k] = <<CR, LF>>[k]
        BY <3>3, <4>1
      <4> HIDE DEF t
      <4>5. t = <<CR, LF>>
        BY <4>1, <4>3, <4>4, SeqEqual, ZenonT(60)
      <4> QED
        BY <4>5 DEF t
    <3> QED
      BY <3>4 DEF i
  <2>9. ASSUME CRLFs(buf) = {}, NEW i \in 1 .. Len(c) - 1, c[i] = CR, c[i + 1] = LF
        PROVE  FALSE
    <3>1. /\ i \in 1 .. n /\ i + 1 \in 1 .. n /\ r + i - 1 \in r .. w - 2
          /\ r + (i + 1) - 1 = (r + i - 1) + 1
      BY <2>1, <2>2, <2>6
    <3>2. at(r + i - 1) = CR /\ at((r + i - 1) + 1) = LF
      BY <2>1, <2>9, <3>1, ZenonT(60)
    <3> QED
      BY <2>4, <2>9, <3>1, <3>2, ZenonT(60)
  <2> QED
    BY <2>7, <2>8, <2>9, ZenonT(60) DEF LineEndsInContent, c, r
<1> QED
  BY <1>1, BufferInvariant, PTL

-----------------------------------------------------------------------------
(* EventLoop.                                                              *)

(***************************************************************************)
(* Sequences over a set stay sequences over a larger one: what the type of *)
(* the queues needs when posted grows.                                     *)
(***************************************************************************)
LEMMA SeqMonotone ==
    ASSUME NEW S, NEW T, S \subseteq T, NEW s \in Seq(S)
    PROVE  s \in Seq(T)
  OBVIOUS

\* wakeup() leaves the eventfd readable and its counter within bounds, also when
\* the counter is full and the write fails with EAGAIN.
LEMMA WakeupType ==
    ASSUME NEW n \in 0..EventfdMax
    PROVE  wakeup(n) \in 0..EventfdMax /\ wakeup(n) > 0
  BY EventfdAssumption DEF wakeup

\* The constructor of EventLoop establishes the types.
LEMMA InitTypeOK == Init => TypeOK
  <1> SUFFICES ASSUME Init PROVE TypeOK
    OBVIOUS
  <1>1. loops \in Nat /\ eventfd \in 0..EventfdMax
    BY EventfdAssumption DEF Init
  <1>2. tpc \in [Threads -> {"idle", "wake"}]
    BY DEF Init
  <1>3. pending \in Seq(posted) /\ functors \in Seq(posted) /\ ran \in Seq(posted)
    BY DEF Init
  <1> QED
    BY <1>1, <1>2, <1>3, ZenonT(60) DEF Init, TypeOK, Places, Channels

\* Every step of the loop, of its callbacks and of other threads keeps the types.
LEMMA NextTypeOK == TypeOK /\ [Next]_vars => TypeOK'
  <1> SUFFICES ASSUME TypeOK, [Next]_vars PROVE TypeOK'
    OBVIOUS
  <1> USE DEF TypeOK, Places, Channels, queues, history
  <1>1. ASSUME NEW t \in Threads, NEW f \in Functors, QueueInLoop(t, f)
        PROVE  TypeOK'
    BY <1>1, SeqMonotone DEF QueueInLoop
  <1>2. ASSUME NEW t \in Threads, Quit(t) PROVE TypeOK'
    BY <1>2 DEF Quit
  <1>3. ASSUME NEW t \in Threads, Wakeup(t) PROVE TypeOK'
    BY <1>3, WakeupType DEF Wakeup
  <1>4. ASSUME NEW f \in Functors, OwnerQueueInLoop(f) PROVE TypeOK'
    <2>1. eventfd' \in 0..EventfdMax
      BY <1>4, WakeupType DEF OwnerQueueInLoop
    <2>2. pending' \in Seq(posted') /\ functors' \in Seq(posted') /\ ran' \in Seq(posted')
      BY <1>4, SeqMonotone DEF OwnerQueueInLoop
    <2>3. posted' \in SUBSET Functors /\ early' \in SUBSET posted'
      BY <1>4 DEF OwnerQueueInLoop
    <2> QED
      BY <1>4, <2>1, <2>2, <2>3 DEF OwnerQueueInLoop
  <1>5. ASSUME NEW f \in Functors, OwnerRunInLoop(f) PROVE TypeOK'
    BY <1>5, SeqMonotone DEF OwnerRunInLoop, InUserCode
  <1>6. CASE OwnerQuit
    BY <1>6 DEF OwnerQuit
  <1>7. CASE LoopEnter
    <2>1. loops' \in Nat
      BY <1>7 DEF LoopEnter
    <2> QED
      BY <1>7, <2>1, Zenon DEF LoopEnter
  <1>8. CASE PollTimeout
    BY <1>8 DEF PollTimeout
  <1>9. CASE LoopTest
    BY <1>9 DEF LoopTest
  <1>10. CASE PollReady
    BY <1>10 DEF PollReady
  <1>11. CASE HandleRead
    BY <1>11, EventfdAssumption DEF HandleRead
  <1>12. CASE HandleIo
    BY <1>12 DEF HandleIo
  <1>13. CASE HandleIoReturn
    BY <1>13 DEF HandleIoReturn
  <1>14. CASE HandleEnd
    BY <1>14 DEF HandleEnd
  <1>15. CASE SwapFunctors
    BY <1>15 DEF SwapFunctors
  <1>16. CASE RunFunctor
    BY <1>16 DEF RunFunctor
  <1>17. CASE FunctorReturn
    BY <1>17 DEF FunctorReturn
  <1>18. CASE RunEnd
    BY <1>18, ZenonT(60) DEF RunEnd
  <1>19. CASE UNCHANGED vars
    BY <1>19 DEF vars
  <1> QED
    BY <1>1, <1>2, <1>3, <1>4, <1>5, <1>6, <1>7, <1>8, <1>9, <1>10, <1>11, <1>12,
       <1>13, <1>14, <1>15, <1>16, <1>17, <1>18, <1>19, ZenonT(60)
       DEF Next, Other, UserCode, LoopStep

\* In every reachable state of an EventLoop, for any number of threads and functors,
\* the counter fits an eventfd and the queues hold submitted functors only.
THEOREM TypeCorrect == Spec => []TypeOK
  BY InitTypeOK, NextTypeOK, PTL DEF Spec
-----------------------------------------------------------------------------
(***************************************************************************)
(* Preservation of the wakeup promise.  Three things can break it: a queue *)
(* that gets work (then the thread is about to wake the loop, or has done  *)
(* so), handleRead that takes the counter (then the loop is Awake), and    *)
(* the end of being Awake (then the swap has just emptied the queue).      *)
(***************************************************************************)
LEMMA InitIInv == Init => IInv
  BY InitTypeOK DEF Init, IInv, WorkPending, QuitNotSleptThrough

\* No step of queueInloop, quit, wakeup or loop() breaks the invariant.
LEMMA NextIInv == IInv /\ [Next]_vars => IInv'
  <1> SUFFICES ASSUME IInv, [Next]_vars PROVE IInv'
    OBVIOUS
  <1>0. TypeOK /\ TypeOK'
    BY NextTypeOK DEF IInv
  <1> USE <1>0 DEF IInv, Awake, WorkPending, WakeupComing, QuitNotSleptThrough,
                   queues, history
  <1>1. ASSUME NEW t \in Threads, NEW f \in Functors, QueueInLoop(t, f)
        PROVE  IInv'
    <2>1. tpc'[t] = "wake"
      BY <1>1 DEF QueueInLoop, TypeOK
    <2> QED
      BY <1>1, <2>1 DEF QueueInLoop
  <1>2. ASSUME NEW t \in Threads, Quit(t) PROVE IInv'
    <2>1. tpc'[t] = "wake"
      BY <1>2 DEF Quit, TypeOK
    <2> QED
      BY <1>2, <2>1 DEF Quit
  <1>3. ASSUME NEW t \in Threads, Wakeup(t) PROVE IInv'
    <2>1. eventfd' > 0
      BY <1>3, WakeupType DEF Wakeup, TypeOK
    <2> QED
      BY <1>3, <2>1 DEF Wakeup
  <1>4. ASSUME NEW f \in Functors, OwnerQueueInLoop(f) PROVE IInv'
    <2>1. CASE calling
      <3>1. eventfd' > 0
        BY <1>4, <2>1, WakeupType DEF OwnerQueueInLoop, TypeOK
      <3> QED
        BY <1>4, <3>1 DEF OwnerQueueInLoop
    <2>2. CASE pc = "io"
      BY <1>4, <2>2, ZenonT(60) DEF OwnerQueueInLoop
    <2>3. CASE pc = "out"
      <3>1. WorkPending' => WorkPending
        BY <1>4, <2>3 DEF OwnerQueueInLoop, TypeOK
      <3> QED
        BY <1>4, <2>3, <3>1 DEF OwnerQueueInLoop
    <2> QED
      BY <1>4, <2>1, <2>2, <2>3 DEF OwnerQueueInLoop, InUserCode
  <1>5. ASSUME NEW f \in Functors, OwnerRunInLoop(f) PROVE IInv'
    BY <1>5 DEF OwnerRunInLoop
  <1>6. CASE OwnerQuit
    BY <1>6 DEF OwnerQuit, InUserCode
  <1>7. CASE LoopEnter
    BY <1>7 DEF LoopEnter
  <1>8. CASE PollTimeout
    BY <1>8 DEF PollTimeout
  <1>9. CASE LoopTest
    BY <1>9 DEF LoopTest
  <1>10. CASE PollReady
    BY <1>10 DEF PollReady
  <1>11. CASE HandleRead
    BY <1>11 DEF HandleRead
  <1>12. CASE HandleIo
    BY <1>12 DEF HandleIo
  <1>13. CASE HandleIoReturn
    BY <1>13 DEF HandleIoReturn
  <1>14. CASE HandleEnd
    BY <1>14 DEF HandleEnd
  <1>15. CASE SwapFunctors
    BY <1>15 DEF SwapFunctors
  <1>16. CASE RunFunctor
    BY <1>16 DEF RunFunctor
  <1>17. CASE FunctorReturn
    BY <1>17 DEF FunctorReturn
  <1>18. CASE RunEnd
    BY <1>18 DEF RunEnd
  <1>19. CASE UNCHANGED vars
    BY <1>19 DEF vars
  <1> QED
    BY <1>1, <1>2, <1>3, <1>4, <1>5, <1>6, <1>7, <1>8, <1>9, <1>10, <1>11, <1>12,
       <1>13, <1>14, <1>15, <1>16, <1>17, <1>18, <1>19, ZenonT(60)
       DEF Next, Other, UserCode, LoopStep

\* The strengthened invariant holds of loop() and of every use of queueInloop,
\* runInLoop and quit.
THEOREM Invariance == Spec => []IInv
  BY InitIInv, NextIInv, PTL DEF Spec

\* loop() never sleeps in poll() on a functor that queueInloop put in the queue, or
\* a wakeup() for it is still to come: the decision in queueInloop to skip the
\* wakeup is right.
THEOREM WakeupNeverLost == Spec => []NoLostWakeup
  <1>1. IInv => NoLostWakeup
    BY DEF IInv, NoLostWakeup, Awake
  <1> QED
    BY <1>1, Invariance, PTL

\* A quit() from another thread is never slept through by loop().
THEOREM QuitAlwaysWakes == Spec => []QuitNotSleptThrough
  <1>1. IInv => QuitNotSleptThrough
    BY DEF IInv
  <1> QED
    BY <1>1, Invariance, PTL
-----------------------------------------------------------------------------
(***************************************************************************)
(* The loop implements the serial executor.  Under the mapping, the        *)
(* executor's queue is the rest of the current batch followed by           *)
(* _pending_functors, so the swap is invisible: at "swap" the batch is     *)
(* empty, which is the one fact about the loop that the argument needs.    *)
(***************************************************************************)
BatchInv == pc \notin {"run", "functor"} => functors = <<>>

\* Outside doPendingFunctors the local batch is empty.
LEMMA BatchInvariance == Spec => []BatchInv
  <1>1. Init => BatchInv
    BY DEF Init, BatchInv
  <1>2. BatchInv /\ [Next]_vars => BatchInv'
    <2> SUFFICES ASSUME BatchInv, [Next]_vars PROVE BatchInv'
      OBVIOUS
    <2> USE DEF BatchInv, queues, history, InUserCode
    <2>1. ASSUME NEW t \in Threads, Other(t) PROVE BatchInv'
      BY <2>1 DEF Other, QueueInLoop, Quit, Wakeup
    <2>2. CASE UserCode
      BY <2>2 DEF UserCode, OwnerQueueInLoop, OwnerRunInLoop, OwnerQuit
    <2>3. CASE LoopStep
      BY <2>3 DEF LoopStep, LoopTest, PollReady, HandleRead, HandleIo,
             HandleIoReturn, HandleEnd, SwapFunctors, RunFunctor,
             FunctorReturn, RunEnd
    <2>4. CASE LoopEnter \/ PollTimeout
      BY <2>4 DEF LoopEnter, PollTimeout
    <2>5. CASE UNCHANGED vars
      BY <2>5 DEF vars
    <2> QED
      BY <2>1, <2>2, <2>3, <2>4, <2>5, ZenonT(60) DEF Next
  <1> QED
    BY <1>1, <1>2, PTL DEF Spec

\* What is not in a set is in no sequence over it: a functor that was not submitted
\* is in neither queue.
LEMMA NotMember ==
    ASSUME NEW S, NEW s \in Seq(S), NEW x, x \notin S
    PROVE  x \notin Executor!Range(s)
  BY DEF Executor!Range

\* Each step of the EventLoop is a step of the executor or leaves it alone: the swap
\* of doPendingFunctors moves functors without reordering them.
LEMMA StepRefines == TypeOK /\ BatchInv /\ [Next]_vars => [Executor!Next]_(Executor!vars)
  <1> SUFFICES ASSUME TypeOK, BatchInv, [Next]_vars
               PROVE  [Executor!Next]_(Executor!vars)
    OBVIOUS
  <1> DEFINE q == functors \o pending
  <1> USE DEF queues, history
  <1>1. /\ pending \in Seq(posted)
        /\ functors \in Seq(posted)
        /\ ran \in Seq(posted)
        /\ q \in Seq(posted)
    BY ConcatProperties DEF TypeOK
  <1>2. ASSUME NEW f \in Functors, f \notin posted PROVE Executor!Fresh(f)
    BY <1>1, <1>2, NotMember, ZenonT(60) DEF Executor!Fresh
  <1>3. ASSUME NEW f \in Functors, f \notin posted,
               pending' = Append(pending, f), UNCHANGED <<functors, ran>>
        PROVE  Executor!Next
    <2>1. q' = Append(q, f)
      BY <1>1, <1>3
    <2> QED
      BY <1>2, <1>3, <2>1 DEF Executor!Next, Executor!Queue
  <1>4. ASSUME NEW t \in Threads, NEW f \in Functors, QueueInLoop(t, f)
        PROVE  Executor!Next
    BY <1>3, <1>4 DEF QueueInLoop
  <1>5. ASSUME NEW f \in Functors, OwnerQueueInLoop(f) PROVE Executor!Next
    BY <1>3, <1>5 DEF OwnerQueueInLoop
  <1>6. ASSUME NEW f \in Functors, OwnerRunInLoop(f) PROVE Executor!Next
    BY <1>2, <1>6 DEF OwnerRunInLoop, Executor!Next, Executor!RunNow
  <1>7. CASE RunFunctor
    <2>1. q # <<>> /\ Head(q) = Head(functors) /\ Tail(q) = Tail(functors) \o pending
      BY <1>1, <1>7 DEF RunFunctor
    <2> QED
      BY <1>7, <2>1 DEF RunFunctor, Executor!Next, Executor!Execute
  <1>8. CASE SwapFunctors
    <2>1. functors = <<>>
      BY <1>8 DEF SwapFunctors, BatchInv
    <2>2. q' = q
      BY <1>1, <1>8, <2>1 DEF SwapFunctors
    <2> QED
      BY <1>8, <2>2 DEF SwapFunctors, Executor!vars
  <1>9. ASSUME UNCHANGED <<pending, functors, ran>> PROVE UNCHANGED Executor!vars
    BY <1>9 DEF Executor!vars
  <1>10. ASSUME NEW t \in Threads, Quit(t) \/ Wakeup(t) PROVE UNCHANGED Executor!vars
    BY <1>9, <1>10 DEF Quit, Wakeup
  <1>11. CASE OwnerQuit \/ LoopEnter \/ PollTimeout \/ LoopTest \/ PollReady \/ HandleRead
    BY <1>9, <1>11 DEF OwnerQuit, LoopEnter, PollTimeout, LoopTest, PollReady, HandleRead
  <1>12. CASE HandleIo \/ HandleIoReturn \/ HandleEnd \/ FunctorReturn \/ RunEnd
    BY <1>9, <1>12 DEF HandleIo, HandleIoReturn, HandleEnd, FunctorReturn, RunEnd
  <1>13. CASE UNCHANGED vars
    BY <1>9, <1>13 DEF vars
  <1> QED
    BY <1>4, <1>5, <1>6, <1>7, <1>8, <1>10, <1>11, <1>12, <1>13
       DEF Next, Other, UserCode, LoopStep

\* The EventLoop implements SerialExecutor: what runInLoop and queueInloop accept is
\* run in the loop thread in the order of the queue, each functor at most once.
THEOREM LoopIsExecutor == Spec => ExecutorSpec
  <1>1. Init => Executor!Init
    BY DEF Init, Executor!Init
  <1> QED
    BY <1>1, StepRefines, TypeCorrect, BatchInvariance, PTL
       DEF Spec, ExecutorSpec, Executor!Spec
-----------------------------------------------------------------------------
(***************************************************************************)
(* EventLoopThread, whose loop is this EventLoop with the owner of the     *)
(* thread as the only other thread.                                        *)
(***************************************************************************)
\* threadFunc, startLoop and the destructor use the loop as its users may: each of
\* their steps is a step of the EventLoop or leaves it alone.
LEMMA ThreadUsesLoop ==
    ASSUME Threads = {"main"}, [OwnLoop!Next]_(OwnLoop!vars)
    PROVE  [Next]_vars
  <1> USE DEF queues, history, OwnLoop!Loop!queues, OwnLoop!Loop!history
  <1>1. ASSUME UNCHANGED OwnLoop!loopVars PROVE UNCHANGED vars
    BY <1>1 DEF OwnLoop!loopVars, vars
  <1>2. CASE OwnLoop!ThreadEnterLoop
    BY <1>2 DEF OwnLoop!ThreadEnterLoop, OwnLoop!Loop!LoopEnter, LoopEnter, Next
  <1>3. CASE OwnLoop!ThreadUserCode
    <2>1. PICK f : \/ f \in Functors /\ (OwnLoop!Loop!OwnerQueueInLoop(f)
                                         \/ OwnLoop!Loop!OwnerRunInLoop(f))
                   \/ OwnLoop!Loop!OwnerQuit
      BY <1>3 DEF OwnLoop!ThreadUserCode, OwnLoop!Loop!UserCode
    <2>2. CASE f \in Functors /\ OwnLoop!Loop!OwnerQueueInLoop(f)
      <3>1. OwnerQueueInLoop(f)
        BY <2>2 DEF OwnLoop!Loop!OwnerQueueInLoop, OwnerQueueInLoop, OwnLoop!Loop!InUserCode,
                    InUserCode, OwnLoop!Loop!wakeup, wakeup
      <3> QED
        BY <2>2, <3>1 DEF UserCode, Next
    <2>3. CASE f \in Functors /\ OwnLoop!Loop!OwnerRunInLoop(f)
      <3>1. OwnerRunInLoop(f)
        BY <2>3 DEF OwnLoop!Loop!OwnerRunInLoop, OwnerRunInLoop, OwnLoop!Loop!InUserCode,
                    InUserCode
      <3> QED
        BY <2>3, <3>1 DEF UserCode, Next
    <2>4. CASE OwnLoop!Loop!OwnerQuit
      BY <2>4 DEF OwnLoop!Loop!OwnerQuit, OwnerQuit, OwnLoop!Loop!InUserCode, InUserCode,
                  UserCode, Next
    <2> QED
      BY <2>1, <2>2, <2>3, <2>4
  <1>4. CASE OwnLoop!ThreadLoopStep
    <2>1. OwnLoop!Loop!LoopStep \/ OwnLoop!Loop!PollTimeout
      BY <1>4 DEF OwnLoop!ThreadLoopStep
    <2>2. OwnLoop!Loop!LoopTest => LoopTest
      BY DEF OwnLoop!Loop!LoopTest, LoopTest
    <2>3. OwnLoop!Loop!PollReady => PollReady
      BY DEF OwnLoop!Loop!PollReady, PollReady
    <2>4. OwnLoop!Loop!PollTimeout => PollTimeout
      BY DEF OwnLoop!Loop!PollTimeout, PollTimeout
    <2>5. OwnLoop!Loop!HandleRead => HandleRead
      BY DEF OwnLoop!Loop!HandleRead, HandleRead
    <2>6. OwnLoop!Loop!HandleIo => HandleIo
      BY DEF OwnLoop!Loop!HandleIo, HandleIo
    <2>7. OwnLoop!Loop!HandleIoReturn => HandleIoReturn
      BY DEF OwnLoop!Loop!HandleIoReturn, HandleIoReturn
    <2>8. OwnLoop!Loop!HandleEnd => HandleEnd
      BY DEF OwnLoop!Loop!HandleEnd, HandleEnd
    <2>9. OwnLoop!Loop!SwapFunctors => SwapFunctors
      BY DEF OwnLoop!Loop!SwapFunctors, SwapFunctors
    <2>10. OwnLoop!Loop!RunFunctor => RunFunctor
      BY DEF OwnLoop!Loop!RunFunctor, RunFunctor
    <2>11. OwnLoop!Loop!FunctorReturn => FunctorReturn
      BY DEF OwnLoop!Loop!FunctorReturn, FunctorReturn
    <2>12. OwnLoop!Loop!RunEnd => RunEnd
      BY DEF OwnLoop!Loop!RunEnd, RunEnd
    <2> QED
      BY <2>1, <2>2, <2>3, <2>4, <2>5, <2>6, <2>7, <2>8, <2>9, <2>10, <2>11, <2>12
         DEF OwnLoop!Loop!LoopStep, LoopStep, Next
  <1>5. ASSUME NEW f \in Functors, OwnLoop!Loop!QueueInLoop("main", f)
        PROVE  Next
    <2>1. QueueInLoop("main", f)
      BY <1>5 DEF OwnLoop!Loop!QueueInLoop, QueueInLoop
    <2> QED
      BY <2>1 DEF Other, Next
  <1>6. ASSUME OwnLoop!Loop!Wakeup("main") PROVE Next
    <2>1. Wakeup("main")
      BY <1>6 DEF OwnLoop!Loop!Wakeup, Wakeup, OwnLoop!Loop!wakeup, wakeup
    <2> QED
      BY <2>1 DEF Other, Next
  <1>7. ASSUME OwnLoop!Loop!Quit("main") PROVE Next
    <2>1. Quit("main")
      BY <1>7 DEF OwnLoop!Loop!Quit, Quit
    <2> QED
      BY <2>1 DEF Other, Next
  <1>8. CASE OwnLoop!MainQueue \/ OwnLoop!DtorQuit \/ OwnLoop!DtorWakeup
    BY <1>5, <1>6, <1>7, <1>8 DEF OwnLoop!MainQueue, OwnLoop!DtorQuit, OwnLoop!DtorWakeup
  <1>9. CASE \/ OwnLoop!ThreadConstruct \/ OwnLoop!ThreadPublish \/ OwnLoop!ThreadWithdraw
             \/ OwnLoop!ThreadReturn \/ OwnLoop!StartLoop \/ OwnLoop!StartLoopReturn
             \/ OwnLoop!DtorCheck \/ OwnLoop!DtorJoin \/ UNCHANGED OwnLoop!vars
    <2>1. UNCHANGED OwnLoop!loopVars
      BY <1>9 DEF OwnLoop!ThreadConstruct, OwnLoop!ThreadPublish, OwnLoop!ThreadWithdraw,
                  OwnLoop!ThreadReturn, OwnLoop!StartLoop, OwnLoop!StartLoopReturn,
                  OwnLoop!DtorCheck, OwnLoop!DtorJoin, OwnLoop!vars
    <2> QED
      BY <1>1, <2>1
  <1> QED
    BY <1>2, <1>3, <1>4, <1>8, <1>9 DEF OwnLoop!Next

\* The loop of an EventLoopThread is an EventLoop used by one other thread, so that
\* what is proved above of loop(), queueInloop and quit holds of it.
THEOREM ThreadRunsLoop ==
    ASSUME Threads = {"main"}
    PROVE  OwnLoop!Spec => Spec
  <1>1. OwnLoop!Init => Init
    BY DEF OwnLoop!Init, OwnLoop!Loop!Init, Init
  <1>2. [OwnLoop!Next]_(OwnLoop!vars) => [Next]_vars
    BY ThreadUsesLoop
  <1> QED
    BY <1>1, <1>2, PTL DEF OwnLoop!Spec, Spec

(* _loop is set between publishing and withdrawing it.                     *)
Published ==
    /\ published \in BOOLEAN
    /\ thread \in {"none", "started", "callback", "published", "looping", "withdrawn", "done"}
    /\ main \in {"new", "starting", "running", "quit", "wakeup", "join", "done"}
    /\ published <=> thread \in {"published", "looping"}

\* threadFunc sets _loop after it has made the EventLoop and clears it before it
\* returns; startLoop starts the thread once.
LEMMA PublishedKept ==
    ASSUME Published, main = "new" => thread = "none", [OwnLoop!Next]_(OwnLoop!vars)
    PROVE  Published' /\ (main' = "new" => thread' = "none")
  <1> USE ZenonT(60) DEF Published
  <1>1. CASE OwnLoop!ThreadConstruct
    BY <1>1 DEF OwnLoop!ThreadConstruct
  <1>2. CASE OwnLoop!ThreadPublish
    BY <1>2 DEF OwnLoop!ThreadPublish
  <1>3. CASE OwnLoop!ThreadEnterLoop
    BY <1>3 DEF OwnLoop!ThreadEnterLoop
  <1>4. CASE OwnLoop!ThreadWithdraw
    BY <1>4 DEF OwnLoop!ThreadWithdraw
  <1>5. CASE OwnLoop!ThreadReturn
    BY <1>5 DEF OwnLoop!ThreadReturn
  <1>6. CASE OwnLoop!ThreadUserCode \/ OwnLoop!ThreadLoopStep \/ OwnLoop!MainQueue
    <2>1. UNCHANGED <<published, thread, main>>
      BY <1>6 DEF OwnLoop!ThreadUserCode, OwnLoop!ThreadLoopStep, OwnLoop!MainQueue
    <2> QED
      BY <2>1
  <1>7. CASE OwnLoop!StartLoop
    BY <1>7 DEF OwnLoop!StartLoop
  <1>8. CASE OwnLoop!StartLoopReturn
    BY <1>8 DEF OwnLoop!StartLoopReturn
  <1>9. CASE OwnLoop!DtorCheck
    BY <1>9 DEF OwnLoop!DtorCheck
  <1>10. CASE OwnLoop!DtorQuit \/ OwnLoop!DtorWakeup \/ OwnLoop!DtorJoin
    <2>1. UNCHANGED <<published, thread>> /\ main' \in {"wakeup", "join", "done"}
      BY <1>10 DEF OwnLoop!DtorQuit, OwnLoop!DtorWakeup, OwnLoop!DtorJoin
    <2> QED
      BY <2>1
  <1>11. CASE UNCHANGED OwnLoop!vars
    BY <1>11 DEF OwnLoop!vars
  <1> QED
    BY <1>1, <1>2, <1>3, <1>4, <1>5, <1>6, <1>7, <1>8, <1>9, <1>10, <1>11 DEF OwnLoop!Next

\* Whatever the loop is used for, and however startLoop, threadFunc and the destructor
\* interleave: a pointer that can be read from _loop points to a live EventLoop, and the
\* loop keeps its type.
THEOREM PublishedLoopLives ==
    ASSUME Threads = {"main"}
    PROVE  OwnLoop!Spec => []LoopPublished
  <1> DEFINE Inv == Published /\ (main = "new" => thread = "none")
  <1>1. OwnLoop!Init => Inv
    BY ZenonT(60) DEF OwnLoop!Init, Published
  <1>2. Inv /\ [OwnLoop!Next]_(OwnLoop!vars) => Inv'
    BY PublishedKept
  <1>3. TypeOK => OwnLoop!Loop!TypeOK
    BY ZenonT(60) DEF TypeOK, OwnLoop!Loop!TypeOK, Places, Channels, OwnLoop!Loop!Places,
       OwnLoop!Loop!Channels
  <1>4. Inv /\ TypeOK => LoopPublished
    <2>1. Inv /\ TypeOK => OwnLoop!TypeOK
      BY <1>3, ZenonT(60) DEF OwnLoop!TypeOK, Published
    <2>2. Inv => OwnLoop!PublishedAlive
      BY DEF OwnLoop!PublishedAlive, OwnLoop!Alive, Published
    <2> QED
      BY <2>1, <2>2, ZenonT(60) DEF LoopPublished, OwnLoop!LoopPublished
  <1>5. OwnLoop!Spec => []TypeOK
    BY ThreadRunsLoop, TypeCorrect, PTL
  <1> QED
    BY <1>1, <1>2, <1>4, <1>5, PTL DEF OwnLoop!Spec
=============================================================================
