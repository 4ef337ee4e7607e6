------------------------------- MODULE Buffer -------------------------------
(***************************************************************************)
(* flute::Buffer (net/Buffer.h, net/Buffer.cc): the byte buffer between a  *)
(* connection's socket and its user.  A vector of bytes is split by two    *)
(* indices into prependable room, content and writable room; appending     *)
(* moves the content to the front or grows the vector when the writable    *)
(* room is too small.  The operations are functions on a record, because   *)
(* the code composes them (readv spills into append, shrink fills a fresh  *)
(* Buffer and swaps with it).                                              *)
(*                                                                         *)
(* Only calls that keep the contract of the asserts (a retrieve within the *)
(* content, a prepend within the prependable room) are made.               *)
(***************************************************************************)
EXTENDS Integers, Sequences

CONSTANTS
    kCheapPrepend,  \* room in front of the content of a new Buffer (8)
    kInitialSize,   \* writable room of a default Buffer (1024)
    ExtraBuf,       \* sizeof(extrabuf) in read_all_from (65536)
    Base,           \* values of a byte (256); integers travel in this base
    CR, LF,         \* the two bytes of kCRLF
    Widths,         \* byte widths of the integers (1, 2, 4, 8)
    MaxContent,     \* bound: a program never holds more content than this
    MaxChunk        \* bound: bytes of one append, prepend or reservation

ASSUME BufferAssumption ==
    /\ kCheapPrepend \in Nat /\ kInitialSize \in Nat /\ ExtraBuf \in Nat
    /\ Base \in Nat \ {0} /\ MaxContent \in Nat /\ MaxChunk \in Nat
    /\ Widths \subseteq Nat \ {0}

\* Arithmetic the provers do not have: powers of the base are positive.
ASSUME PowersAssumption ==
    \A width \in Widths : \A i \in 0 .. width : Base ^ i \in Nat \ {0}

VARIABLES
    buf,      \* the Buffer: its vector (size, data) and its two indices
    content,  \* history: the bytes the user put in and did not take out
    header,   \* history: the integer prepended last, while it is in front
    peak      \* history: the largest content (with reservation) asked for

bufferVars == <<buf, content, header, peak>>

Byte == 0 .. Base - 1
NoHeader == [width |-> 0, value |-> 0]
Larger(a, b) == IF a > b THEN a ELSE b

-----------------------------------------------------------------------------
(* The operations of the class, as functions of a Buffer.                  *)

TheBuffer(size, data, read, write) ==
    [size |-> size, data |-> data, read |-> read, write |-> write]

NewBuffer(initialSize) ==
    TheBuffer(kCheapPrepend + initialSize,
              [i \in 0 .. (kCheapPrepend + initialSize - 1) |-> 0],
              kCheapPrepend, kCheapPrepend)

content_bytes_len(b) == b.write - b.read
writable_bytes_len(b) == b.size - b.write
prependable_bytes_len(b) == b.read

as_string(b) == [i \in 1 .. content_bytes_len(b) |-> b.data[b.read + i - 1]]

\* std::copy of the bytes s to the position `at` of the vector.
Copied(data, at, s) ==
    [i \in DOMAIN data |->
        IF at <= i /\ i < at + Len(s) THEN s[i - at + 1] ELSE data[i]]

\* vector::resize: new elements are zero.
Extended(data, size, n) ==
    [i \in 0 .. (n - 1) |-> IF i < size THEN data[i] ELSE 0]

Resized(b, n) == TheBuffer(n, Extended(b.data, b.size, n), b.read, b.write)

MovedToFront(b) ==
    TheBuffer(b.size, Copied(b.data, kCheapPrepend, as_string(b)),
              kCheapPrepend, kCheapPrepend + content_bytes_len(b))

\* Mutant: the vector grows by what is missing in front of it.
GrowsToLen(b, len) ==
    IF writable_bytes_len(b) + prependable_bytes_len(b) < len + kCheapPrepend
      THEN Resized(b, b.size + len + kCheapPrepend)
      ELSE MovedToFront(b)

\* Mutant: the test for growing forgets the prependable room to restore.
MovesTooEagerly(b, len) ==
    IF writable_bytes_len(b) + prependable_bytes_len(b) < len
      THEN Resized(b, b.write + len)
      ELSE MovedToFront(b)

make_space(b, len) ==
    IF writable_bytes_len(b) + prependable_bytes_len(b) < len + kCheapPrepend
      THEN Resized(b, b.write + len)
      ELSE MovedToFront(b)

ensure_writable_len(b, len) ==
    IF writable_bytes_len(b) < len THEN make_space(b, len) ELSE b

\* Bytes copied to write_base(), and mark_written.
Written(b, s) ==
    TheBuffer(b.size, Copied(b.data, b.write, s), b.read, b.write + Len(s))

append(b, s) == Written(ensure_writable_len(b, Len(s)), s)

\* Mutant: the bytes are copied before the index is moved back.
PrependsInPlace(b, s) ==
    TheBuffer(b.size, Copied(b.data, b.read, s), b.read - Len(s), b.write)

prepend(b, s) ==
    TheBuffer(b.size, Copied(b.data, b.read - Len(s), s), b.read - Len(s),
              b.write)

retrieve_all(b) == TheBuffer(b.size, b.data, kCheapPrepend, kCheapPrepend)

retrieve(b, len) ==
    IF len < content_bytes_len(b)
      THEN TheBuffer(b.size, b.data, b.read + len, b.write)
      ELSE retrieve_all(b)

unwrite(b, len) == TheBuffer(b.size, b.data, b.read, b.write - len)

shrink(b, reserve) ==
    append(ensure_writable_len(NewBuffer(kInitialSize),
                               content_bytes_len(b) + reserve),
           as_string(b))

\* readv(2) fills the writable room first and then extrabuf.
Readable(b) ==
    writable_bytes_len(b)
      + (IF writable_bytes_len(b) < ExtraBuf THEN ExtraBuf ELSE 0)

read_all_from(b, s) ==
    LET writable == writable_bytes_len(b)
    IN  IF Len(s) <= writable THEN Written(b, s)
        ELSE append(Written(b, SubSeq(s, 1, writable)),
                    SubSeq(s, writable + 1, Len(s)))

\* std::search for kCRLF in [start, write): the first match, -1 for NULL.
\* Mutant: the search looks one byte past the content.
SearchesPastContent(b, start) ==
    LET hits == {i \in start .. b.write - 1 :
                    i + 1 < b.size /\ b.data[i] = CR /\ b.data[i + 1] = LF}
    IN  IF hits = {} THEN -1 ELSE CHOOSE i \in hits : \A j \in hits : i <= j

find_CRLF(b, start) ==
    LET hits == {i \in start .. b.write - 2 :
                    b.data[i] = CR /\ b.data[i + 1] = LF}
    IN  IF hits = {} THEN -1 ELSE CHOOSE i \in hits : \A j \in hits : i <= j

find_EOL(b, start) ==
    LET hits == {i \in start .. b.write - 1 : b.data[i] = LF}
    IN  IF hits = {} THEN -1 ELSE CHOOSE i \in hits : \A j \in hits : i <= j

\* hton*: the bytes of the two's complement of x, most significant first.
host_to_net(x, width) ==
    [i \in 1 .. width |-> (x \div Base ^ (width - i)) % Base]

\* Mutant: the sign is lost.
Unsigned(s) ==
    LET Value[i \in 0 .. Len(s)] ==
            IF i = 0 THEN 0 ELSE Value[i - 1] * Base + s[i]
    IN  Value[Len(s)]

net_to_host(s) ==
    LET Value[i \in 0 .. Len(s)] ==
            IF i = 0 THEN 0 ELSE Value[i - 1] * Base + s[i]
        u == Value[Len(s)]
    IN  IF 2 * u >= Base ^ Len(s) THEN u - Base ^ Len(s) ELSE u

IntsOf(width) == - ((Base ^ width) \div 2) .. ((Base ^ width) \div 2) - 1

peek_int_host(b, width) == net_to_host(SubSeq(as_string(b), 1, width))

-----------------------------------------------------------------------------
(* A program using one Buffer.                                             *)

Chunks == UNION {[1 .. n -> Byte] : n \in 0 .. MaxChunk}

BufferInit ==
    /\ \E initialSize \in 0 .. kInitialSize : buf = NewBuffer(initialSize)
    /\ content = <<>>
    /\ header = NoHeader
    /\ peak = 0

Wants(n) ==
    /\ Len(content) + n <= MaxContent
    /\ peak' = Larger(peak, Len(content) + n)

AppendBytes(s) ==
    /\ Wants(Len(s))
    /\ buf' = append(buf, s)
    /\ content' = content \o s
    /\ UNCHANGED header

ReadAllFrom(s) ==
    /\ Len(s) <= Readable(buf)
    /\ Wants(Len(s))
    /\ buf' = read_all_from(buf, s)
    /\ content' = content \o s
    /\ UNCHANGED header

EnsureWritable(len) ==
    /\ Wants(len)
    /\ buf' = ensure_writable_len(buf, len)
    /\ UNCHANGED <<content, header>>

Shrink(reserve) ==
    /\ Wants(reserve)
    /\ buf' = shrink(buf, reserve)
    /\ UNCHANGED <<content, header>>

AppendInt(width, x) ==
    /\ Wants(width)
    /\ buf' = append(buf, host_to_net(x, width))
    /\ content' = content \o host_to_net(x, width)
    /\ header' = IF content = <<>> THEN [width |-> width, value |-> x]
                 ELSE header

PrependInt(width, x) ==
    /\ width <= prependable_bytes_len(buf)
    /\ Wants(width)
    /\ buf' = prepend(buf, host_to_net(x, width))
    /\ content' = host_to_net(x, width) \o content
    /\ header' = [width |-> width, value |-> x]

\* retrieve, retrieve_until, retrieve_intN and the readout family.
Retrieve(len) ==
    /\ len <= content_bytes_len(buf)
    /\ buf' = retrieve(buf, len)
    /\ content' = SubSeq(content, len + 1, Len(content))
    /\ header' = IF len = 0 THEN header ELSE NoHeader
    /\ UNCHANGED peak

Unwrite(len) ==
    /\ len <= content_bytes_len(buf)
    /\ buf' = unwrite(buf, len)
    /\ content' = SubSeq(content, 1, Len(content) - len)
    /\ header' = IF Len(content) - len < header.width THEN NoHeader ELSE header
    /\ UNCHANGED peak

BufferNext ==
    \/ \E s \in Chunks : AppendBytes(s) \/ ReadAllFrom(s)
    \/ \E n \in 0 .. MaxChunk : EnsureWritable(n) \/ Shrink(n)
    \/ \E width \in Widths : \E x \in IntsOf(width) :
          AppendInt(width, x) \/ PrependInt(width, x)
    \/ \E n \in 0 .. MaxContent : Retrieve(n) \/ Unwrite(n)

BufferSpec == BufferInit /\ [][BufferNext]_bufferVars

-----------------------------------------------------------------------------
(* Properties                                                              *)

(* The type, with the order the class comment states: 0 <= read index <=   *)
(* write index <= size of the vector.                                      *)
BufferTypeOK ==
    /\ buf.size \in Nat /\ buf.read \in Nat /\ buf.write \in Nat
    /\ buf.data \in [0 .. buf.size - 1 -> Byte]
    /\ buf.read <= buf.write
    /\ buf.write <= buf.size
    /\ content \in Seq(Byte)
    /\ peak \in Nat

(* Whatever mixture of appends, socket reads, growth, moves, shrinks and   *)
(* prepends went before, the bytes between the two indices are exactly the *)
(* bytes put in and not yet taken out, in order.                           *)
ContentKept == as_string(buf) = content

(* An integer written in network order as the head of the content (how a   *)
(* codec frames a message) reads back as the same signed number until the  *)
(* head is retrieved, however the buffer is moved in between.              *)
HeaderReadsBack ==
    header.width > 0 => peek_int_host(buf, header.width) = header.value

\* found is the index of the first of the positions at of the content, -1 if
\* there is none.
FirstFound(found, at) ==
    IF at = {} THEN found = -1
    ELSE /\ found - buf.read + 1 \in at
         /\ \A i \in at : found - buf.read + 1 <= i

(* find_CRLF and find_EOL find the first line end of the content and never *)
(* one that is, or is completed by, a stale byte behind the write index.   *)
LineEndsFound ==
    /\ FirstFound(find_CRLF(buf, buf.read),
                  {i \in 1 .. Len(content) - 1 :
                      content[i] = CR /\ content[i + 1] = LF})
    /\ FirstFound(find_EOL(buf, buf.read),
                  {i \in 1 .. Len(content) : content[i] = LF})

(* ensure_writable_len keeps its assert: after make_space there is room    *)
(* for the bytes asked for, and moving restores the prependable room.      *)
SpaceIsMade ==
    \A len \in 0 .. MaxChunk :
        LET b == ensure_writable_len(buf, len)
        IN  /\ writable_bytes_len(b) >= len
            /\ b.size = buf.size /\ b # buf => b.read = kCheapPrepend

(* The vector never grows past twice what it was ever asked to hold: space *)
(* freed by retrieving is reused before the vector grows.                  *)
MemoryBounded == buf.size <= kCheapPrepend + Larger(kInitialSize, 2 * peak)

(* What the reading operations return is what is in the buffer: the        *)
(* integer at its head and the first line end.                             *)
ReadsAgree == HeaderReadsBack /\ LineEndsFound
=============================================================================
