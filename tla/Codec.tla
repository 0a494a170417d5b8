------------------------------- MODULE Codec -------------------------------
(***************************************************************************)
(* StompCodec: frames to bytes and bytes to frames (codec.rs, parser.rs),  *)
(* and the read half of tokio's Framed that drives the decoder: it reads   *)
(* some bytes, then decodes until the decoder wants more, and gives up at  *)
(* the first error.  How a stream is cut into reads is the network's       *)
(* choice, and must make no difference.                                    *)
(*                                                                         *)
(* A byte is a token: the ones the grammar tells apart are named below,    *)
(* "L" stands for the header name content-length in any case, "X" for a    *)
(* byte that is not UTF-8, a digit for itself, and any other string for    *)
(* an ordinary character.                                                  *)
(***************************************************************************)
EXTENDS Integers, Sequences, FiniteSets, SequencesExt

CONSTANTS
    Streams,    \* what the peer may send: sequences of Items, defined below
    MaxFrame,   \* max_frame_size
    Reads       \* how many bytes a read may return

CR == "CR"
LF == "LF"
NUL == "NUL"
Digits == <<"0", "1", "2", "3", "4", "5", "6", "7", "8", "9">>

ASSUME CodecAssumption ==
    /\ MaxFrame \in Nat \ {0}
    /\ Reads \subseteq Nat \ {0}
    /\ Streams # {}

VARIABLES
    peer,       \* the items the peer sends on this connection
    wire,       \* bytes not yet read
    src,        \* the read buffer
    readable,   \* there may be an item in the buffer: decode before reading
    out,        \* the items decoded
    failed      \* the decoder returned an error: the connection is lost

vars == <<peer, wire, src, readable, out, failed>>

----------------------------------------------------------------------------
(* Encoding *)

Escaped == [b \in {"\\", CR, LF, ":"} |->
               CASE b = "\\" -> <<"\\", "\\">> [] b = CR -> <<"\\", "r">>
                 [] b = LF -> <<"\\", "n">>    [] b = ":" -> <<"\\", "c">>]

\* (Faulty form: a carriage return goes out as it is.)
EscapedByteButCr(b) == IF b \in DOMAIN Escaped \ {CR} THEN Escaped[b] ELSE <<b>>

EscapedByte(b) == IF b \in DOMAIN Escaped THEN Escaped[b] ELSE <<b>>

Escape(s) == FlattenSeq([i \in DOMAIN s |-> EscapedByte(s[i])])

Decimal(n) == IF n < 10 THEN <<Digits[n + 1]>>
              ELSE <<Digits[n \div 10 + 1], Digits[(n % 10) + 1]>>

IsLength(header) == header[1] = <<"L">>

\* A body that the receiver could not find the end of is announced.
NeedsLength(frame) ==
    /\ \A i \in DOMAIN frame.headers : ~IsLength(frame.headers[i])
    /\ NUL \in ToSet(frame.body) \/ "X" \in ToSet(frame.body)

Announced(frame) ==
    IF NeedsLength(frame)
    THEN [frame EXCEPT !.headers = Append(@, <<<<"L">>, Decimal(Len(frame.body))>>)]
    ELSE frame

\* A frame on the wire, its command and header lines ending in eol: a LF when
\* this codec writes it.
Lines(frame, eol) ==
    LET f == Announced(frame) IN
    f.command \o eol
    \o FlattenSeq([i \in DOMAIN f.headers |->
           Escape(f.headers[i][1]) \o <<":">> \o Escape(f.headers[i][2]) \o eol])
    \o <<LF>> \o f.body \o <<NUL>>

\* What a peer sends: a frame with lines of its own ending, and EOLs after it.
Bytes(item) == Lines(item.frame, item.eol) \o item.after

----------------------------------------------------------------------------
(* Parsing *)

More == [is |-> "more"]
Malformed == [is |-> "malformed"]

\* The first place of b in s from the given one on, or 0.
Find(b, s, from) == SelectInSubSeq(s, from, Len(s), LAMBDA c : c = b)

Line(s, from, lf) ==
    LET line == SubSeq(s, from, lf - 1) IN
    IF line # <<>> /\ Last(line) = CR THEN Front(line) ELSE line

\* The text an escaped one stands for, in a set: none if it is not well formed.
Unescape(s) ==
    LET text[i \in 1..Len(s) + 1] ==
            CASE i > Len(s) -> {<<>>}
              [] i <= Len(s) /\ s[i] # "\\" -> {<<s[i]>> \o t : t \in text[i + 1]}
              [] i = Len(s) /\ s[i] = "\\" -> {}
              [] OTHER ->
                    {<<b>> \o t : b \in {b \in DOMAIN Escaped :
                                            Escaped[b] = SubSeq(s, i, i + 1)},
                                  t \in text[i + 2]}
    IN text[1]

\* The header lines from a place on, up to and over the blank line.
Headers(s, from) ==
    LET lines[p \in 1..Len(s) + 1] ==
            LET lf == Find(LF, s, p)
                line == Line(s, p, lf)
                colon == Find(":", line, 1)
                rest == lines[lf + 1]
            IN  CASE lf = 0 -> More
                  [] lf = p -> [is |-> "headers", list |-> <<>>, next |-> p + 1]
                  [] lf > p /\ colon = 0 -> Malformed
                  [] lf > p /\ colon > 0 /\ rest.is # "headers" -> rest
                  [] OTHER -> [rest EXCEPT !.list =
                        <<<<SubSeq(line, 1, colon - 1),
                            SubSeq(line, colon + 1, Len(line))>>>> \o @]
    IN lines[from]

IsNumber(s) == s # <<>> /\ ToSet(s) \subseteq ToSet(Digits)
Number(s) == FoldLeft(LAMBDA n, d : 10 * n + SelectInSeq(Digits, LAMBDA c : c = d) - 1,
                      0, s)

\* A frame whose body ends before the place nul, with the EOL that follows.
Whole(s, command, headers, from, nul) ==
    [is |-> "frame", command |-> command, headers |-> headers,
     body |-> SubSeq(s, from, nul - 1),
     consumed |-> IF nul < Len(s) /\ s[nul + 1] = LF THEN nul + 1 ELSE nul]

\* A body that ends at the first NUL.
UpToNul(s, command, headers, from) ==
    LET nul == Find(NUL, s, from) IN
    CASE nul = 0 -> More
      [] nul - from > MaxFrame -> Malformed
      [] OTHER -> Whole(s, command, headers, from, nul)

\* (Faulty form: waits for a byte after the NUL.)
OfLengthAndMore(s, command, headers, from, text) ==
    IF ~IsNumber(text) \/ Number(text) > MaxFrame THEN Malformed
    ELSE LET nul == from + Number(text) IN
         CASE nul >= Len(s) -> More
           [] nul < Len(s) /\ s[nul] # NUL -> Malformed
           [] OTHER -> Whole(s, command, headers, from, nul)

\* A body of the length announced: the NUL after it must be there.
OfLength(s, command, headers, from, text) ==
    IF ~IsNumber(text) \/ Number(text) > MaxFrame THEN Malformed
    ELSE LET nul == from + Number(text) IN
         CASE nul > Len(s) -> More
           [] nul <= Len(s) /\ s[nul] # NUL -> Malformed
           [] OTHER -> Whole(s, command, headers, from, nul)

Body(s, command, headers, from) ==
    LET length == SelectInSeq(headers, IsLength) IN
    IF length = 0 THEN UpToNul(s, command, headers, from)
    ELSE OfLength(s, command, headers, from, headers[length][2])

\* One frame from the start of s.  Without any LF, a NUL ends a bare body.
ParseFrame(s) ==
    LET start == SelectInSeq(s, LAMBDA b : b # LF)
        lf == Find(LF, s, start)
        headers == Headers(s, lf + 1)
    IN  CASE start = 0 -> More
          [] start > 0 /\ lf = 0 -> UpToNul(s, <<>>, <<>>, start)
          [] start > 0 /\ lf > 0 /\ headers.is # "headers" -> headers
          [] OTHER -> Body(s, Line(s, start, lf), headers.list, headers.next)

----------------------------------------------------------------------------
(* Decoding *)

Heartbeat == [is |-> "heartbeat"]
Decoded(item, consumed) == [is |-> "item", item |-> item, consumed |-> consumed]

Texts(s) == {t \in Unescape(s) : "X" \notin ToSet(t)}
Text(s) == CHOOSE t \in Texts(s) : TRUE

\* The command and the headers are UTF-8 and the escapes in them are known.
Legible(parsed) ==
    /\ "X" \notin ToSet(parsed.command)
    /\ \A i \in DOMAIN parsed.headers, part \in {1, 2} :
          Texts(parsed.headers[i][part]) # {}

FrameOf(parsed) ==
    [command |-> parsed.command, body |-> parsed.body,
     headers |-> [i \in DOMAIN parsed.headers |->
                     <<Text(parsed.headers[i][1]), Text(parsed.headers[i][2])>>]]

\* (Faulty form: a complete frame is of any size.)
BoundedIfIncomplete(parsed) ==
    CASE parsed.is = "frame" /\ ~Legible(parsed) -> Malformed
      [] parsed.is = "more" /\ Len(src) > MaxFrame -> Malformed
      [] OTHER -> parsed

\* (Faulty form: an incomplete frame is of any size.)
BoundedIfComplete(parsed) ==
    CASE parsed.is = "frame" /\ (parsed.consumed > MaxFrame \/ ~Legible(parsed)) ->
            Malformed
      [] OTHER -> parsed

\* (Faulty form: the bound is on what is buffered, whatever it holds.)
BoundedBuffer(parsed) ==
    CASE Len(src) > MaxFrame -> Malformed
      [] parsed.is = "frame" /\ ~Legible(parsed) -> Malformed
      [] OTHER -> parsed

\* Both bounds: on a frame that is complete and on one that is not.
Bounded(parsed) ==
    CASE parsed.is = "frame" /\ (parsed.consumed > MaxFrame \/ ~Legible(parsed)) ->
            Malformed
      [] parsed.is = "more" /\ Len(src) > MaxFrame -> Malformed
      [] OTHER -> parsed

\* What decode makes of the buffer: an EOL is a heartbeat, a lone CR may
\* become one.
Decode ==
    CASE src # <<>> /\ src[1] = LF -> Decoded(Heartbeat, 1)
      [] src = <<CR>> -> More
      [] Len(src) > 1 /\ src[1] = CR /\ src[2] = LF -> Decoded(Heartbeat, 2)
      [] OTHER ->
            LET parsed == Bounded(ParseFrame(src)) IN
            IF parsed.is = "frame"
            THEN Decoded(FrameOf(parsed), parsed.consumed)
            ELSE parsed

----------------------------------------------------------------------------
(* The read half of a connection *)

Init ==
    /\ peer \in Streams
    /\ wire = FlattenSeq([i \in DOMAIN peer |-> Bytes(peer[i])])
    /\ src = <<>>
    /\ readable = FALSE
    /\ out = <<>>
    /\ failed = FALSE

Read(n) ==
    /\ ~readable /\ ~failed
    /\ n <= Len(wire)
    /\ src' = src \o SubSeq(wire, 1, n)
    /\ wire' = SubSeq(wire, n + 1, Len(wire))
    /\ readable' = TRUE
    /\ UNCHANGED <<peer, out, failed>>

DecodeItem ==
    /\ readable /\ ~failed
    /\ Decode.is = "item"
    /\ out' = Append(out, Decode.item)
    /\ src' = SubSeq(src, Decode.consumed + 1, Len(src))
    /\ UNCHANGED <<peer, wire, readable, failed>>

DecodeMore ==
    /\ readable /\ ~failed
    /\ Decode = More
    /\ readable' = FALSE
    /\ UNCHANGED <<peer, wire, src, out, failed>>

DecodeFails ==
    /\ readable /\ ~failed
    /\ Decode = Malformed
    /\ failed' = TRUE
    /\ UNCHANGED <<peer, wire, src, readable, out>>

Next ==
    \/ \E n \in Reads : Read(n)
    \/ DecodeItem \/ DecodeMore \/ DecodeFails

Spec == Init /\ [][Next]_vars

----------------------------------------------------------------------------
(* Properties *)

Frames == SelectSeq(out, LAMBDA item : item # Heartbeat)
FramesSent == [i \in DOMAIN peer |-> Announced(peer[i].frame)]

\* However the stream is cut into reads, the frames that come out are the
\* frames that went in: none is split, joined with its neighbour, shortened
\* at a NUL in its body or changed by its escapes.
FramesIntact == IsPrefix(Frames, FramesSent)

\* A frame on the wire without the EOLs after it, and what it announces.
Size(item) == Len(Lines(item.frame, item.eol))
Oversized(item) == Size(item) > MaxFrame

\* Once everything has been read and decoded, nothing is left: the end of a
\* frame is not waited for beyond its NUL.
NothingHeldBack ==
    wire = <<>> /\ ~readable /\ ~failed =>
        src \in {<<>>, <<CR>>} /\ Frames = FramesSent

\* The decoder refuses a stream only at a frame that is larger than the bound
\* (or exactly as large, with an EOL behind it): how many frames a read
\* brought at once does not count against it.
RefusesOnlyOversized ==
    failed => LET next == peer[Len(Frames) + 1] IN
              \/ Oversized(next)
              \/ Size(next) = MaxFrame /\ IsPrefix(<<LF>>, next.after)

\* A frame larger than the bound never comes out, complete in one read or not.
OversizedRefused ==
    \A i \in DOMAIN Frames : ~Oversized(peer[i])

\* While more bytes are waited for, no more than the bound is buffered, so a
\* frame that never ends, or announces a body without end, costs no more than
\* the bound and one read.
BufferBounded == ~readable => Len(src) <= MaxFrame
=============================================================================
