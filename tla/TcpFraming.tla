------------------------------ MODULE TcpFraming ------------------------------
(***************************************************************************)
(* How a TCP connection is cut into messages: TcpServer._read_frame and    *)
(* the three delimiting modes behind it (flask_server/module/              *)
(* tcp_server.py).  TCP hands the bytes over in chunks of any size; what   *)
(* the parser does with them must not depend on where the chunks end.      *)
(*                                                                         *)
(* One step is one round of a parser loop on the buffer, or one recv.      *)
(* Delivered frames are remembered by their place in the byte stream.      *)
(* The mode "raw" has no parser and is left out.                           *)
(***************************************************************************)
EXTENDS Integers, Sequences, FiniteSets

CONSTANTS Byte,        \* the bytes that occur
          StreamMax,   \* bound: length of a stream
          Framing,     \* the configurations: mode and delimiters
          MaxLength,   \* TCP_MAX_MESSAGE_LENGTH
          Chunk,       \* _RECV_CHUNK, what one recv returns at most
          MaxResyncs   \* _MAX_FRAME_RESYNCS

ASSUME FramingAssumption ==
    /\ StreamMax \in Nat /\ MaxLength \in Nat \ {0}
    /\ Chunk \in Nat \ {0} /\ MaxResyncs \in Nat
    /\ \A f \in Framing :
         \/ f.mode = "line" /\ f.sep \in Seq(Byte) \ {<< >>}
         \/ f.mode = "fixed" /\ f.length \in Nat \ {0}
         \/ /\ f.mode = "head_tail"
            /\ f.head \in Seq(Byte) \ {<< >>} /\ f.tail \in Seq(Byte) \ {<< >>}

VARIABLES framing,   \* the configuration of the server
          stream,    \* the bytes the peer sends
          received,  \* how many of them have been received
          buffer,    \* received and not yet cut
          frames,    \* the messages delivered, as intervals of the stream
          resyncs,   \* heads found in a row without a frame
          status     \* of the connection

vars == <<framing, stream, received, buffer, frames, resyncs, status>>

Streams == UNION {[1..n -> Byte] : n \in 0..StreamMax}

Init ==
    /\ framing \in Framing /\ stream \in Streams
    /\ received = 0 /\ buffer = << >> /\ frames = << >>
    /\ resyncs = 0 /\ status = "open"
-----------------------------------------------------------------------------
(* bytes.find and del buffer[:n]. *)

At(s, p, i) == SubSeq(s, i, i + Len(p) - 1) = p

\* The first occurrence of p in s at i or later, 0 if there is none.
Find(s, p, i) ==
    LET hits == {j \in i .. Len(s) - Len(p) + 1 : At(s, p, j)}
    IN  IF hits = {} THEN 0 ELSE CHOOSE j \in hits : \A k \in hits : j <= k

\* Mutant: the buffer starts empty for every frame.
DropAll(n) == buffer' = << >>
Drop(n) == buffer' = SubSeq(buffer, n + 1, Len(buffer))

\* How many bytes have left the buffer.
Cut == received - Len(buffer)

\* The next n bytes after the first "skip" ones of the buffer are a message.
Deliver(skip, n) ==
    frames' = Append(frames, [first |-> Cut + skip + 1, last |-> Cut + skip + n])

\* Protocol error: the caller closes the connection.
Fail == status' = "failed"
-----------------------------------------------------------------------------
(* _read_line_frame *)

Separator == Find(buffer, framing.sep, 1)

LineMode == status = "open" /\ framing.mode = "line"

SkipEmpty ==
    /\ LineMode /\ Separator = 1
    /\ Drop(Len(framing.sep))
    /\ UNCHANGED <<framing, stream, received, frames, resyncs, status>>

\* Mutant: the hard limit is checked on the buffer only.
LineFitsAlways(n) == TRUE
LineFits(n) == n <= MaxLength

CutLine ==
    /\ LineMode /\ Separator > 1
    /\ Drop(Separator - 1 + Len(framing.sep))
    /\ IF LineFits(Separator - 1)
       THEN Deliver(0, Separator - 1) /\ UNCHANGED status
       ELSE Fail /\ UNCHANGED frames
    /\ UNCHANGED <<framing, stream, received, resyncs>>

LineTooLong ==
    /\ LineMode /\ Separator = 0 /\ Len(buffer) > MaxLength
    /\ Fail
    /\ UNCHANGED <<framing, stream, received, buffer, frames, resyncs>>
-----------------------------------------------------------------------------
(* _read_fixed_frame *)

FixedMode == status = "open" /\ framing.mode = "fixed"

CutFixed ==
    /\ FixedMode /\ Len(buffer) >= framing.length
    /\ Deliver(0, framing.length)
    /\ Drop(framing.length)
    /\ UNCHANGED <<framing, stream, received, resyncs, status>>
-----------------------------------------------------------------------------
(* _read_head_tail_frame *)

HeadTailMode == status = "open" /\ framing.mode = "head_tail"

Head1 == Find(buffer, framing.head, 1)

\* Mutant: the tail is looked for from the start, and may be found in the head.
TailInHead == Find(buffer, framing.tail, 1)
Tail1 == Find(buffer, framing.tail, Len(framing.head) + 1)
Head2 == Find(buffer, framing.head, Len(framing.head) + 1)

DropGarbage ==
    /\ HeadTailMode /\ Head1 > 1
    /\ Drop(Head1 - 1)
    /\ UNCHANGED <<framing, stream, received, frames, resyncs, status>>

\* Mutant: the count is per connection, not per frame.
ResyncsKept == resyncs
ResyncsAfterFrame == 0

CutHeadTail ==
    /\ HeadTailMode /\ Head1 = 1 /\ Tail1 > 0
    /\ LET n == Tail1 - 1 - Len(framing.head)
       IN  IF n <= MaxLength
           THEN Deliver(Len(framing.head), n) /\ resyncs' = ResyncsAfterFrame /\ UNCHANGED status
           ELSE Fail /\ UNCHANGED <<frames, resyncs>>
    /\ Drop(Tail1 - 1 + Len(framing.tail))
    /\ UNCHANGED <<framing, stream, received>>

ResyncsFit(n) == n <= MaxResyncs

\* Another head and still no tail: start over from the later head.
Resync ==
    /\ HeadTailMode /\ Head1 = 1 /\ Tail1 = 0 /\ Head2 > 0
    /\ Drop(Head2 - 1)
    /\ resyncs' = resyncs + 1
    /\ IF ResyncsFit(resyncs') THEN UNCHANGED status ELSE Fail
    /\ UNCHANGED <<framing, stream, received, frames>>

\* Neither a frame nor another head; or no head at all.
Incomplete == Head1 = 0 \/ (Head1 = 1 /\ Tail1 = 0 /\ Head2 = 0)

HeadTailTooLong ==
    /\ HeadTailMode /\ Incomplete /\ Len(buffer) > MaxLength
    /\ Fail
    /\ UNCHANGED <<framing, stream, received, buffer, frames, resyncs>>
-----------------------------------------------------------------------------
(* _recv_more *)

\* Mutant: the limits of the buffer are not checked before the next recv.
MayGrowAlways == TRUE
MayGrow == Len(buffer) <= MaxLength

NeedMore ==
    \/ LineMode /\ Separator = 0 /\ MayGrow
    \/ FixedMode /\ Len(buffer) < framing.length
    \/ HeadTailMode /\ Incomplete /\ MayGrow

RecvMore ==
    /\ NeedMore
    /\ \E n \in 1..Chunk :
         /\ received + n <= Len(stream)
         /\ received' = received + n
         /\ buffer' = buffer \o SubSeq(stream, received + 1, received + n)
    /\ UNCHANGED <<framing, stream, frames, resyncs, status>>

\* The peer closed, or was idle for too long.
PeerDone ==
    /\ NeedMore /\ received = Len(stream)
    /\ status' = "closed"
    /\ UNCHANGED <<framing, stream, received, buffer, frames, resyncs>>

ReadFrame ==
    \/ SkipEmpty \/ CutLine \/ LineTooLong
    \/ CutFixed
    \/ DropGarbage \/ CutHeadTail \/ Resync \/ HeadTailTooLong
    \/ RecvMore \/ PeerDone

Next == ReadFrame

Spec == Init /\ [][Next]_vars
-----------------------------------------------------------------------------
(* Properties. *)

Occurs(p, s) == Find(s, p, 1) # 0
Between(i, j) == SubSeq(stream, i, j)
Payload(k) == Between(frames[k].first, frames[k].last)

\* Every message is a frame of the stream: delimited on both sides, with no delimiter that
\* would have ended it earlier, and not longer than the limit (tcp_server.py:6-17).
FrameSound(k) ==
    LET i == frames[k].first
        j == frames[k].last
    IN  CASE framing.mode = "line" ->
               /\ 1 <= Len(Payload(k)) /\ Len(Payload(k)) <= MaxLength
               /\ ~Occurs(framing.sep, Payload(k))
               /\ At(stream, framing.sep, j + 1)
          [] framing.mode = "fixed" -> j - i + 1 = framing.length
          [] framing.mode = "head_tail" ->
               /\ Len(Payload(k)) <= MaxLength
               /\ At(stream, framing.head, i - Len(framing.head))
               /\ ~Occurs(framing.tail, Payload(k))
               /\ At(stream, framing.tail, j + 1)
FramesSound == \A k \in DOMAIN frames : FrameSound(k)

\* The end of a head cannot be taken for the end of a proper beginning of the tail.  Where
\* it can, as with the head "<" and the tail "</", a tail that arrives in two chunks is
\* missed: the parser starts over from the head in it.
Apart ==
    framing.mode = "head_tail" =>
      \A n \in 1 .. Len(framing.tail) - 1 :
        \E m \in 0 .. n - 1 :
          m < Len(framing.head) /\ framing.tail[n - m] # framing.head[Len(framing.head) - m]

\* No message is lost: what was dropped before a frame, or before the bytes still in the
\* buffer, holds no message, if the delimiters are apart (tcp_server.py:275-329).
DelimiterBefore == IF framing.mode = "head_tail" THEN Len(framing.head) ELSE 0
DelimiterAfter ==
    CASE framing.mode = "line" -> Len(framing.sep)
      [] framing.mode = "fixed" -> 0
      [] framing.mode = "head_tail" -> Len(framing.tail)

GapStart(k) == IF k = 1 THEN 1 ELSE frames[k-1].last + DelimiterAfter + 1
GapEnd(k) == IF k > Len(frames) THEN Cut ELSE frames[k].first - DelimiterBefore - 1

Empty(gap) ==
    CASE framing.mode = "line" ->
           /\ Len(gap) % Len(framing.sep) = 0
           /\ \A i \in 1 .. Len(gap) :
                i % Len(framing.sep) = 1 % Len(framing.sep) => At(gap, framing.sep, i)
      [] framing.mode = "fixed" -> gap = << >>
      [] framing.mode = "head_tail" ->
           LET h == Find(gap, framing.head, 1)
           IN  h > 0 => Find(gap, framing.tail, h + Len(framing.head)) = 0

NoMessageLost ==
    status # "failed" /\ Apart =>
        \A k \in 1 .. Len(frames) + 1 : Empty(Between(GapStart(k), GapEnd(k)))

\* A peer cannot make the server hold more than the limit and one chunk.
BufferBounded ==
    Len(buffer) <= Chunk + (IF framing.mode = "fixed" THEN framing.length - 1 ELSE MaxLength)

\* A connection is closed for a protocol error only if the stream gives cause, however it
\* is chunked, if the delimiters are apart: somewhere more bytes than the limit come without
\* a delimiter, or heads follow each other, with no tail between them, more than MaxResyncs
\* times (tcp_server.py:260-329).
Windows == {Between(i, i + MaxLength) : i \in 1 .. Len(stream) - MaxLength}
Heads == {i \in 1 .. Len(stream) - Len(framing.head) + 1 : At(stream, framing.head, i)}

TooManyHeads(i, j) ==
    /\ ~Occurs(framing.tail, Between(i + Len(framing.head), j - 1 + Len(framing.head)))
    /\ Cardinality(Heads \cap (i + 1 .. j)) > MaxResyncs

CauseToFail ==
    CASE framing.mode = "line" -> \E s \in Windows : ~Occurs(framing.sep, s)
      [] framing.mode = "fixed" -> FALSE
      [] framing.mode = "head_tail" ->
           \/ \E s \in Windows :
                \/ ~Occurs(framing.head, s)
                \/ At(s, framing.head, 1) /\ Find(s, framing.tail, Len(framing.head) + 1) = 0
           \/ \E i, j \in Heads : TooManyHeads(i, j)

FailsForCause == status = "failed" /\ Apart => CauseToFail

\* "If the payload contains the bytes of a head, the first head and the first tail still
\* count" (docs/protocol-servers.md:121): a message starts after the first head that comes
\* after the message before it.
FirstHeadCounts ==
    framing.mode = "head_tail" =>
        \A k \in DOMAIN frames : ~Occurs(framing.head, Between(GapStart(k), GapEnd(k)))
=============================================================================
