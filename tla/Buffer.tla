------------------------------- MODULE Buffer -------------------------------
(***************************************************************************)
(* muduo::net::Buffer, a vector of bytes with two indices:                 *)
(*                                                                         *)
(*      prependable bytes |  readable bytes  |  writable bytes             *)
(*      0      <=      reader      <=      writer      <=     size         *)
(*                                                                         *)
(* buf is the object, and its member functions are operators from one      *)
(* object to the next.  Positions outside the readable bytes keep whatever *)
(* was last written there.  Integers are bytes in network order, and the   *)
(* calls that append, prepend and read them come down to these.            *)
(***************************************************************************)
EXTENDS Naturals, Sequences

CONSTANTS
    Base,           \* a byte is a number below it, 256 in the code
    CR, LF,         \* the two bytes that end lines
    kCheapPrepend,
    kInitialSize,
    kExtraSize,     \* sizeof extrabuf in readFd
    ChunkLengths,   \* lengths of what is written
    IntSizes,       \* sizeof the integers
    MaxContent,     \* readable bytes (a bound)
    Reserves        \* arguments of ensureWritableBytes and shrink

ASSUME BufferAssumption ==
    /\ Base \in Nat \ {0} /\ CR \in 0 .. Base - 1 /\ LF \in 0 .. Base - 1
    /\ kCheapPrepend \in Nat /\ kInitialSize \in Nat /\ kExtraSize \in Nat
    /\ ChunkLengths \subseteq Nat /\ IntSizes \subseteq Nat
    /\ MaxContent \in Nat /\ Reserves \subseteq Nat

VARIABLES
    buf,   \* buffer_ with its size, readerIndex_, writerIndex_
    peak   \* history: the most bytes it had to hold at once

bufferVars == <<buf, peak>>

Bytes == 0 .. Base - 1
Chunks == UNION {[1 .. n -> Bytes] : n \in ChunkLengths}

Object(data, size, reader, writer) ==
    [data |-> data, size |-> size, reader |-> reader, writer |-> writer]

NewBuffer ==
    Object([i \in 0 .. kCheapPrepend + kInitialSize - 1 |-> 0], kCheapPrepend + kInitialSize,
           kCheapPrepend, kCheapPrepend)

readableBytes(b) == b.writer - b.reader
writableBytes(b) == b.size - b.writer
prependableBytes(b) == b.reader
Readable(b) == [i \in 1 .. readableBytes(b) |-> b.data[b.reader + i - 1]]

BufferInit ==
    /\ buf = NewBuffer
    /\ peak = 0

-----------------------------------------------------------------------------
(* Member functions.                                                       *)

Resize(b, n) ==
    Object([i \in 0 .. n - 1 |-> IF i < b.size THEN b.data[i] ELSE 0], n, b.reader, b.writer)

(* std::copy of the byte string s to position p.                           *)
Copy(b, p, s) ==
    [i \in 0 .. b.size - 1 |-> IF p <= i /\ i < p + Len(s) THEN s[i - p + 1] ELSE b.data[i]]

MoveToFront(b) ==
    Object(Copy(b, kCheapPrepend, Readable(b)), b.size, kCheapPrepend,
           kCheapPrepend + readableBytes(b))

TooFull_Always(b, len) == TRUE

TooFull(b, len) == writableBytes(b) + prependableBytes(b) < len + kCheapPrepend

makeSpace(b, len) == IF TooFull(b, len) THEN Resize(b, b.writer + len) ELSE MoveToFront(b)

ensureWritableBytes(b, len) == IF writableBytes(b) < len THEN makeSpace(b, len) ELSE b

write(b, s) == Object(Copy(b, b.writer, s), b.size, b.reader, b.writer + Len(s))

append(b, s) == write(ensureWritableBytes(b, Len(s)), s)

retrieveAll(b) == Object(b.data, b.size, kCheapPrepend, kCheapPrepend)

retrieve(b, len) ==
    IF len < readableBytes(b) THEN Object(b.data, b.size, b.reader + len, b.writer)
    ELSE retrieveAll(b)

unwrite(b, len) == Object(b.data, b.size, b.reader, b.writer - len)

prepend_After(b, s) ==
    Object(Copy(b, b.reader, s), b.size, b.reader - Len(s), b.writer)

prepend(b, s) ==
    Object(Copy(b, b.reader - Len(s), s), b.size, b.reader - Len(s), b.writer)

shrink(b, reserve) ==
    append(ensureWritableBytes(NewBuffer, readableBytes(b) + reserve), Readable(b))

(* readv fills the writable bytes and then extrabuf, which is appended.    *)
readFd(b, s) ==
    LET w == writableBytes(b)
    IN IF Len(s) <= w THEN write(b, s)
       ELSE append(write(b, SubSeq(s, 1, w)), SubSeq(s, w + 1, Len(s)))

(* findEOL and findCRLF: positions, or none, of line ends between the      *)
(* indices.                                                                *)
EOLs_All(b) == {p \in b.reader .. b.size - 1 : b.data[p] = LF}

EOLs(b) == {p \in b.reader .. b.writer - 1 : b.data[p] = LF}

CRLFs(b) == {p \in b.reader .. b.writer - 2 : b.data[p] = CR /\ b.data[p + 1] = LF}

(* Integers in network order, as bit patterns: hostToNetwork, and what     *)
(* peekInt makes of the first n bytes.                                     *)

intBytes(x, n) == [i \in 1 .. n |-> (x \div Base ^ (n - i)) % Base]

peekInt(b, n) ==
    LET value[i \in 0 .. n] == IF i = 0 THEN 0 ELSE value[i - 1] * Base + b.data[b.reader + i - 1]
    IN value[n]

First(ps) == {p \in ps : \A q \in ps : p <= q}

-----------------------------------------------------------------------------
(* What a user may call.                                                   *)

Holds(n) == peak' = IF n > peak THEN n ELSE peak
Room(n) == readableBytes(buf) + n <= MaxContent

AppendBytes(s) ==
    /\ Room(Len(s))
    /\ buf' = append(buf, s)
    /\ Holds(readableBytes(buf) + Len(s))

EnsureWritable(len) ==
    /\ Room(len)
    /\ buf' = ensureWritableBytes(buf, len)
    /\ Holds(readableBytes(buf) + len)

Retrieve(len) ==
    /\ len <= readableBytes(buf)
    /\ buf' = retrieve(buf, len)
    /\ UNCHANGED peak

Unwrite(len) ==
    /\ len <= readableBytes(buf)
    /\ buf' = unwrite(buf, len)
    /\ UNCHANGED peak

Prepend(s) ==
    /\ Len(s) <= prependableBytes(buf) /\ Room(Len(s))
    /\ buf' = prepend(buf, s)
    /\ Holds(readableBytes(buf) + Len(s))

Shrink(reserve) ==
    /\ Room(reserve)
    /\ buf' = shrink(buf, reserve)
    /\ Holds(readableBytes(buf) + reserve)

(* A read returns at most what the one or two pieces can take.             *)
ReadFd(s) ==
    /\ Room(Len(s))
    /\ Len(s) <= writableBytes(buf) + (IF writableBytes(buf) < kExtraSize THEN kExtraSize ELSE 0)
    /\ buf' = readFd(buf, s)
    /\ Holds(readableBytes(buf) + Len(s))

BufferNext ==
    \/ \E s \in Chunks : AppendBytes(s) \/ Prepend(s) \/ ReadFd(s)
    \/ \E n \in Reserves : EnsureWritable(n) \/ Shrink(n)
    \/ \E n \in 0 .. MaxContent : Retrieve(n) \/ Unwrite(n)

BufferSpec == BufferInit /\ [][BufferNext]_bufferVars

-----------------------------------------------------------------------------
(* The indices are in order, as in the picture above, and the vector has   *)
(* room for them (Buffer.h:40).                                            *)
IndexOK ==
    /\ buf.reader <= buf.writer
    /\ buf.writer <= buf.size
    /\ DOMAIN buf.data = 0 .. buf.size - 1

(* However its bytes are moved about, the buffer is a queue of bytes.      *)
Queue == INSTANCE ByteQueue WITH content <- Readable(buf)
QueueSpec == Queue!Spec

(* The asserts of makeSpace and ensureWritableBytes (Buffer.h:400 and 200) *)
(* hold for every length asked for in every state.                         *)
SpaceMade ==
    \A len \in Reserves :
        /\ writableBytes(buf) < len /\ ~TooFull(buf, len) => kCheapPrepend < buf.reader
        /\ writableBytes(ensureWritableBytes(buf, len)) >= len

(* Whatever passes through it, a buffer is no larger than twice what it    *)
(* had to hold at once, or than it was at first: bytes that were read make *)
(* room for new ones before the vector grows.                              *)
MemoryBound ==
    \/ buf.size <= kCheapPrepend + kInitialSize
    \/ buf.size <= kCheapPrepend + 2 * peak

(* findEOL and findCRLF find the first line end of the content, and never  *)
(* a stale byte beyond it.                                                 *)
LineEndsInContent ==
    LET c == Readable(buf)
    IN /\ First(EOLs(buf)) = {buf.reader + i - 1 :
             i \in {j \in DOMAIN c : c[j] = LF /\ \A k \in 1 .. j - 1 : c[k] # LF}}
       /\ \A p \in First(CRLFs(buf)) : LET i == p - buf.reader + 1
                                       IN SubSeq(c, i, i + 1) = <<CR, LF>>
       /\ CRLFs(buf) = {} => ~\E i \in 1 .. Len(c) - 1 : c[i] = CR /\ c[i + 1] = LF

(* An integer that is put in front of the content, or appended to an empty *)
(* buffer, is read back as it was and leaves the content as it was.        *)
IntsRoundTrip ==
    \A n \in IntSizes : \A x \in 0 .. Base ^ n - 1 :
        /\ n <= prependableBytes(buf) =>
               LET b == prepend(buf, intBytes(x, n))
               IN peekInt(b, n) = x /\ Readable(retrieve(b, n)) = Readable(buf)
        /\ LET b == append(retrieveAll(buf), intBytes(x, n))
           IN peekInt(b, n) = x /\ Readable(retrieve(b, n)) = <<>>

(* Indices and space are safe, and what is looked for in the content and   *)
(* read from it is what was put there.                                     *)
BufferSound == IndexOK /\ SpaceMade /\ LineEndsInContent /\ IntsRoundTrip
=============================================================================
