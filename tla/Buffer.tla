------------------------------- MODULE Buffer -------------------------------
(***************************************************************************)
(* net/Buffer: a std::vector<char> with readerIndex_ and writerIndex_,    *)
(*                                                                         *)
(*   0 <= readerIndex_ <= writerIndex_ <= buffer_.size()                   *)
(*                                                                         *)
(* the bytes before readerIndex_ prependable, those up to writerIndex_    *)
(* readable, the rest writable.  Every operation is one step of the       *)
(* owning thread.  The vector's bytes are kept as they are, stale ones    *)
(* included, and resize() fills new room with zero bytes, so a wrong      *)
(* index shows as wrong bytes.  kCheapPrepend (8), kInitialSize (1024)    *)
(* and the 64 KiB extraBuf of readFd are the constants CheapPrepend,      *)
(* InitialSize and ExtraSize; the arithmetic is the code's.  A failed     *)
(* assert (compiled out in a release build) is recorded in `failed`.      *)
(***************************************************************************)
EXTENDS Integers, SequencesExt

CONSTANTS CheapPrepend, InitialSize, ExtraSize,
          Bytes,      \* byte values data may hold (not 0)
          MaxChunk,   \* longest byte string given to one operation
          MaxOps,     \* operations in a behaviour, at most
          CR, LF      \* the bytes '\r' and '\n'

ASSUME /\ {CheapPrepend, InitialSize, ExtraSize, MaxChunk, MaxOps} \subseteq Nat
       /\ 0 \notin Bytes /\ {CR, LF} \subseteq Bytes /\ CR # LF

Chunks == BoundedSeq(Bytes, MaxChunk) \ {<<>>}

VARIABLES b,        \* [data |-> buffer_, r |-> readerIndex_, w |-> writerIndex_]
          out,      \* the bytes the last retrieveAsString/readInt/writeFd gave
          failed,   \* asserts that failed
          ops       \* operations so far

vars == <<b, out, failed, ops>>

\* Buffer(size_t initialSize = kInitialSize).
NewBuffer == [data |-> [i \in 1..(CheapPrepend + InitialSize) |-> 0],
              r |-> CheapPrepend, w |-> CheapPrepend]

Readable(x) == x.w - x.r
Writable(x) == Len(x.data) - x.w
Prependable(x) == x.r

\* The bytes in [from, from + n) of the vector (0-based offsets).
Slice(x, from, n) == SubSeq(x.data, from + 1, from + n)
Content(x) == Slice(x, x.r, Readable(x))

(* std::search(p, end, kCRLF, kCRLF + 2): the first offset from p on     *)
(* where '\r' '\n' lies wholly before end, or end.                         *)
RECURSIVE SearchCRLF(_, _, _)
SearchCRLF(x, p, end) ==
    IF p + 2 > end THEN end
    ELSE IF x.data[p + 1] = CR /\ x.data[p + 2] = LF THEN p
    ELSE SearchCRLF(x, p + 1, end)

\* Mutant: the search runs to the vector's end instead of beginWrite().
FindCRLFPastWrite(x, start) ==
    LET crlf == SearchCRLF(x, start, Len(x.data))
    IN IF crlf = Len(x.data) THEN -1 ELSE crlf

(* findCRLF(start): the offset of the first CRLF at or after start before *)
(* beginWrite(), -1 for nullptr (start's asserts are the caller's).       *)
FindCRLF(x, start) ==
    LET crlf == SearchCRLF(x, start, x.w) IN IF crlf = x.w THEN -1 ELSE crlf

(* findEOL(start): memchr for '\n' over the readable bytes, from          *)
(* beginRead() whatever start is.                                          *)
FindEOL(x, start) ==
    LET eol == {p \in x.r .. (x.w - 1) : x.data[p + 1] = LF}
    IN IF eol = {} THEN -1 ELSE Min(eol)

\* std::copy of d to offset at: the bytes past the vector's end are lost.
CopyTo(data, at, d) ==
    [i \in DOMAIN data |-> IF i - 1 - at \in 0..(Len(d) - 1)
                              THEN d[i - at] ELSE data[i]]

\* std::vector<char>::resize: truncate, or append zero bytes.
Resize(data, n) ==
    IF n <= Len(data) THEN SubSeq(data, 1, n)
    ELSE data \o [i \in 1..(n - Len(data)) |-> 0]

-----------------------------------------------------------------------------
\* Mutant: the vector resized to kCheapPrepend + len, writerIndex_ forgotten.
MakeSpaceResizeToLen(x, len) ==
    IF Writable(x) + Prependable(x) < len + CheapPrepend
    THEN [x EXCEPT !.data = Resize(@, CheapPrepend + len)]
    ELSE [data |-> CopyTo(x.data, CheapPrepend, Content(x)),
          r |-> CheapPrepend, w |-> CheapPrepend + Readable(x)]

\* Mutant: the readable bytes moved to begin(), not begin() + kCheapPrepend.
MakeSpaceCopyToBegin(x, len) ==
    IF Writable(x) + Prependable(x) < len + CheapPrepend
    THEN [x EXCEPT !.data = Resize(@, x.w + len)]
    ELSE [data |-> CopyTo(x.data, 0, Content(x)),
          r |-> CheapPrepend, w |-> CheapPrepend + Readable(x)]

(* makeSpace: grow the vector to writerIndex_ + len when the free bytes   *)
(* behind and in front (beyond kCheapPrepend) cannot hold len; otherwise  *)
(* move the readable bytes to offset kCheapPrepend.                       *)
MakeSpace(x, len) ==
    IF Writable(x) + Prependable(x) < len + CheapPrepend
    THEN [x EXCEPT !.data = Resize(@, x.w + len)]
    ELSE [data |-> CopyTo(x.data, CheapPrepend, Content(x)),
          r |-> CheapPrepend, w |-> CheapPrepend + Readable(x)]

\* makeSpace's assert(kCheapPrepend < readerIndex_) on the moving branch.
MakeSpaceFails(x, len) ==
    IF Writable(x) + Prependable(x) >= len + CheapPrepend
       /\ ~(CheapPrepend < x.r)
    THEN {"Buffer::makeSpace"} ELSE {}

\* Mutant: makeSpace only when the shortfall is more than one byte.
EnsureWritableOffByOne(x, len) ==
    IF len > Writable(x) + 1 THEN MakeSpace(x, len) ELSE x

(* ensureWritable(len): makeSpace when len exceeds the writable bytes.     *)
EnsureWritable(x, len) == IF len > Writable(x) THEN MakeSpace(x, len) ELSE x

\* Its makeSpace's assert, and its own assert(len <= writableBytes()).
EnsureWritableFails(x, len) ==
    (IF len > Writable(x) THEN MakeSpaceFails(x, len) ELSE {})
    \cup (IF len > Writable(EnsureWritable(x, len))
             THEN {"Buffer::ensureWritable"} ELSE {})

(* append(data, len): ensureWritable, copy at writerIndex_, advance it.    *)
AppendTo(x, d) ==
    LET y == EnsureWritable(x, Len(d))
    IN [y EXCEPT !.data = CopyTo(@, y.w, d), !.w = @ + Len(d)]

(* retrieve(len): advance readerIndex_, or retrieveAll when len reaches   *)
(* the readable count (both indices back to kCheapPrepend).              *)
RetrieveFrom(x, len) ==
    IF len < Readable(x) THEN [x EXCEPT !.r = @ + len]
    ELSE [x EXCEPT !.r = CheapPrepend, !.w = CheapPrepend]

-----------------------------------------------------------------------------
Init == b = NewBuffer /\ out = <<>> /\ failed = {} /\ ops = 0

\* One call of the owning thread.
Call == ops < MaxOps /\ ops' = ops + 1

(* append(data, len) (and appendInt).                                      *)
AppendBytes(d) ==
    /\ Call
    /\ b' = AppendTo(b, d)
    /\ failed' = failed \cup EnsureWritableFails(b, Len(d))
    /\ UNCHANGED out

(* prepend(data, len) (and prependInt): the caller keeps to its assert    *)
(* len <= prependableBytes().                                              *)
Prepend(d) ==
    /\ Call
    /\ Len(d) <= Prependable(b)
    /\ b' = [b EXCEPT !.r = @ - Len(d), !.data = CopyTo(@, b.r - Len(d), d)]
    /\ UNCHANGED <<out, failed>>

(* retrieve(len), len <= readableBytes() as asserted.                      *)
Retrieve(len) ==
    /\ Call
    /\ len <= Readable(b)
    /\ b' = RetrieveFrom(b, len)
    /\ UNCHANGED <<out, failed>>

RetrieveAll ==
    /\ Call
    /\ b' = [b EXCEPT !.r = CheapPrepend, !.w = CheapPrepend]
    /\ UNCHANGED <<out, failed>>

(* retrieveAsString(len) (and readInt: peekInt, then retrieve): the first *)
(* len readable bytes are returned, then retrieved.                        *)
RetrieveAsString(len) ==
    /\ Call
    /\ len <= Readable(b)
    /\ out' = Slice(b, b.r, len)
    /\ b' = RetrieveFrom(b, len)
    /\ UNCHANGED failed

(* writeFd: write(2) takes n of the readable bytes, then retrieve(n).      *)
WriteFd(n) == RetrieveAsString(n)

(* unwrite(len), len <= readableBytes() as asserted.                       *)
Unwrite(len) ==
    /\ Call
    /\ len <= Readable(b)
    /\ b' = [b EXCEPT !.w = @ - len]
    /\ UNCHANGED <<out, failed>>

(* shrink(reserve): a fresh Buffer, ensureWritable(readable + reserve),   *)
(* append the readable bytes, swap it in.                                  *)
Shrink(reserve) ==
    LET other == EnsureWritable(NewBuffer, Readable(b) + reserve)
    IN /\ Call
       /\ b' = AppendTo(other, Content(b))
       /\ failed' = failed
                    \cup EnsureWritableFails(NewBuffer, Readable(b) + reserve)
                    \cup EnsureWritableFails(other, Readable(b))
       /\ UNCHANGED out

(* readFd: readv(2) fills the writable bytes, then (when fewer than       *)
(* sizeof extraBuf are writable) extraBuf.  n <= writable: advance        *)
(* writerIndex_; otherwise writerIndex_ = size() and append the rest from *)
(* extraBuf.  End of stream and errors leave the buffer as it is.         *)
ReadFd(d) ==
    LET n == Len(d)
        writable == Writable(b)
        full == [b EXCEPT !.data = CopyTo(@, b.w, SubSeq(d, 1, writable)),
                          !.w = Len(b.data)]
    IN /\ Call
       /\ n <= writable + (IF writable < ExtraSize THEN ExtraSize ELSE 0)
       /\ IF n <= writable
             THEN /\ b' = [b EXCEPT !.data = CopyTo(@, b.w, d), !.w = @ + n]
                  /\ UNCHANGED failed
             ELSE /\ b' = AppendTo(full, SubSeq(d, writable + 1, n))
                  /\ failed' = failed \cup EnsureWritableFails(full, n - writable)
       /\ UNCHANGED out

Next ==
    \/ \E d \in Chunks : AppendBytes(d) \/ Prepend(d) \/ ReadFd(d)
    \/ \E n \in 0..MaxChunk : Retrieve(n) \/ RetrieveAsString(n) \/ WriteFd(n)
                              \/ Unwrite(n) \/ Shrink(n)
    \/ RetrieveAll

Spec == Init /\ [][Next]_vars

-----------------------------------------------------------------------------
TypeOK ==
    /\ b.data \in Seq(Bytes \cup {0})
    /\ 0 <= b.r /\ b.r <= b.w /\ b.w <= Len(b.data)
    /\ out \in Seq(Bytes \cup {0})
    /\ ops \in 0..MaxOps

(* No assert of Buffer fails when callers keep to theirs: makeSpace moves *)
(* only when there is free room in front, and ensureWritable always       *)
(* leaves len writable bytes.                                              *)
AssertionsHold == failed = {}

(* The queries find the first line end in the readable bytes and nowhere *)
(* else: findCRLF from every start between readerIndex_ and writerIndex_, *)
(* and findEOL from beginRead(), return the first match of the readable   *)
(* content (offsets from readerIndex_), never a stale byte past           *)
(* writerIndex_ that unwrite, retrieve's reset or a makeSpace move left.  *)
(* (findEOL with a later start ignores it; see the README.)               *)
FirstIn(seq, pat, from) ==
    LET at == {i \in (from + 1)..(Len(seq) - Len(pat) + 1) :
                 SubSeq(seq, i, i + Len(pat) - 1) = pat}
    IN IF at = {} THEN -1 ELSE Min(at) - 1
QueriesFindFirst ==
    LET c == Content(b)
        Off(p) == IF p = -1 THEN -1 ELSE p - b.r
    IN /\ \A s \in b.r .. b.w :
             Off(FindCRLF(b, s)) = FirstIn(c, <<CR, LF>>, s - b.r)
       /\ Off(FindEOL(b, b.r)) = FirstIn(c, <<LF>>, 0)

(* The buffer implements the byte queue: the bytes between readerIndex_   *)
(* and writerIndex_ are exactly those appended (by append or readFd, at   *)
(* the back) and prepended, less those retrieved, unwritten, read or      *)
(* written, in order, across every makeSpace move, resize and shrink; and *)
(* retrieveAsString, readInt and writeFd return the oldest ones.          *)
ByteQueueSpec == INSTANCE ByteQueue WITH q <- Content(b)
ImplementsByteQueue == ByteQueueSpec!Spec
====
