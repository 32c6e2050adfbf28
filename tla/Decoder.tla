------------------------------- MODULE Decoder -------------------------------
(***************************************************************************)
(* The incremental content-transfer decoder of jmap_mime.c and its four    *)
(* callers: the part size and the body value of Email/get, and the two     *)
(* passes of a blob download in jmap_mail.c (the counting pass that gives  *)
(* the Content-Length and the pump that sends the bytes).                  *)
(*                                                                         *)
(* Bytes are their ASCII codes, a buffer is a sequence of bytes, and the   *)
(* sizes of the buffers are parameters: what they are in the code (4096,   *)
(* 16384) only decides how long a part has to be to fill one.              *)
(***************************************************************************)
EXTENDS Integers, Sequences

CONSTANTS SizeBuf,      \* the output buffer of jmapd_decoded_size
          Scratch,      \* the probe buffer of jmapd_body_value
          BlobChunk     \* BLOB_CHUNK, the input and the output buffer of a pass

NUL == 0
LF == 10
CR == 13
EQ == 61
White == {9, LF, CR, 32}

b64v(c) == CASE c \in 65..90  -> c - 65
             [] c \in 97..122 -> c - 71
             [] c \in 48..57  -> c + 4
             [] c \in {43, 45} -> 62
             [] c \in {47, 95} -> 63
             [] OTHER -> -1

qphex(c) == CASE c \in 48..57  -> c - 48
              [] c \in 97..102 -> c - 87
              [] c \in 65..70  -> c - 55
              [] OTHER -> -1

jmapd_dec_init(kind) ==
    [kind |-> kind, acc |-> 0, bits |-> 0, qp |-> 0, qpch |-> NUL,
     pad |-> FALSE, bad |-> FALSE]

\* What one byte does to the decoder: the new state, the bytes it gives, and
\* whether the output had no room for them (the byte is then not consumed).
Took(d, out) == [d |-> d, out |-> out, full |-> FALSE]
NoRoom(d)    == [d |-> d, out |-> <<>>, full |-> TRUE]

\* The digit is in the accumulator before the room is looked at.
base64_byte(d, c, room) ==
    LET v == b64v(c)
        e == [d EXCEPT !.acc = (d.acc * 64 + v) % 2^24, !.bits = d.bits + 6]
    IN CASE c \in White -> Took(d, <<>>)
         [] c = EQ      -> Took([d EXCEPT !.pad = TRUE], <<>>)
         [] c \notin White \cup {EQ} /\ (d.pad \/ v < 0)
                        -> Took([d EXCEPT !.bad = TRUE], <<>>)
         [] OTHER       -> IF e.bits < 8 THEN Took(e, <<>>)
                           ELSE IF room = 0 THEN NoRoom(e)
                           ELSE Took([e EXCEPT !.bits = e.bits - 8],
                                     <<(e.acc \div 2^(e.bits - 8)) % 256>>)

Emit(d, bytes, room) ==
    IF Len(bytes) > room THEN NoRoom(d) ELSE Took([d EXCEPT !.qp = 0], bytes)

Broken(d, bytes, room) ==
    IF Len(bytes) > room THEN NoRoom(d)
    ELSE Took([d EXCEPT !.qp = 0, !.bad = TRUE], bytes)

qp_byte(d, c, room) ==
    CASE d.qp = 0 /\ c = EQ -> Took([d EXCEPT !.qp = 1], <<>>)
      [] d.qp = 0 /\ c # EQ -> Emit(d, <<c>>, room)
      [] d.qp = 1 /\ c = CR -> Took([d EXCEPT !.qp = 3], <<>>)
      [] d.qp = 1 /\ c = LF -> Took([d EXCEPT !.qp = 0], <<>>)
      [] d.qp = 1 /\ c \notin {CR, LF} ->
            IF qphex(c) < 0 THEN Broken(d, <<EQ, c>>, room)
            ELSE Took([d EXCEPT !.qp = 2, !.qpch = c], <<>>)
      [] d.qp = 2 ->
            IF qphex(c) < 0 THEN Broken(d, <<EQ, d.qpch, c>>, room)
            ELSE Emit(d, <<qphex(d.qpch) * 16 + qphex(c)>>, room)
      [] d.qp = 3 ->
            IF c = LF THEN Took([d EXCEPT !.qp = 0], <<>>)
            ELSE Broken(d, <<EQ, CR, c>>, room)

raw_byte(d, c, room) == IF room = 0 THEN NoRoom(d) ELSE Took(d, <<c>>)

dec_byte(d, c, room) ==
    CASE d.kind = "base64" -> base64_byte(d, c, room)
      [] d.kind = "qp"     -> qp_byte(d, c, room)
      [] OTHER             -> raw_byte(d, c, room)

RECURSIVE Feed(_, _, _, _, _)
Feed(d, in, i, out, room) ==
    LET Then(s) == IF s.full THEN [d |-> s.d, used |-> i, out |-> out]
                   ELSE Feed(s.d, in, i + 1, out \o s.out, room)
    IN  IF i = Len(in) THEN [d |-> d, used |-> i, out |-> out]
        ELSE Then(dec_byte(d, in[i + 1], room - Len(out)))

\* As if every piece were decoded on its own.
BugFreshDecoder(d, in, room) ==
    IF room = 0 THEN [d |-> d, used |-> 0, out |-> <<>>]
    ELSE Feed(jmapd_dec_init(d.kind), in, 0, <<>>, room)

jmapd_dec_feed(d, in, room) ==
    IF room = 0 THEN [d |-> d, used |-> 0, out |-> <<>>]
    ELSE Feed(d, in, 0, <<>>, room)

jmapd_dec_finish(d) ==
    CASE d.kind = "qp" /\ d.qp = 1 -> <<EQ>>
      [] d.kind = "qp" /\ d.qp = 2 -> <<EQ, d.qpch>>
      [] d.kind = "qp" /\ d.qp = 3 -> <<EQ, CR>>
      [] OTHER -> <<>>

From(s, i) == SubSeq(s, i + 1, Len(s))
DropNul(s) == SelectSeq(s, LAMBDA c : c # NUL)

\* The caller's loop: feed what is left into what room is left, until the
\* input, the room or the progress ends.
RECURSIVE Drain(_, _, _, _)
Drain(d, in, out, cap) ==
    LET End == [d |-> d, rest |-> in, out |-> out]
        Fed(f) == IF f.used = 0 /\ f.out = <<>> THEN End
                  ELSE Drain(f.d, From(in, f.used), out \o f.out, cap)
    IN  IF in = <<>> \/ Len(out) >= cap THEN End
        ELSE Fed(jmapd_dec_feed(d, in, cap - Len(out)))

jmapd_decode_all(kind, in) ==
    LET All(r) == DropNul(r.out \o jmapd_dec_finish(r.d))
    IN  All(Drain(jmapd_dec_init(kind), in, <<>>, Len(in) + 1))

\* A body value of at most cap bytes; the probe decides isTruncated.
RECURSIVE Probe(_, _)
Probe(d, in) ==
    LET More(f) == f.out # <<>> \/ (f.used > 0 /\ Probe(f.d, From(in, f.used)))
    IN  in # <<>> /\ More(jmapd_dec_feed(d, in, Scratch))

jmapd_body_value(kind, in, cap) ==
    LET Of(r) == [value |-> DropNul(r.out),
                  truncated |-> Len(r.out) >= cap /\ Probe(r.d, r.rest)]
    IN  Of(Drain(jmapd_dec_init(kind), in, <<>>, cap))

\* The size of a part in Email/get: the output buffer is reused, so every
\* time it fills the loop comes back with the byte that did not fit.
RECURSIVE Counted(_, _)
Counted(d, in) ==
    LET Rest == Len(jmapd_dec_finish(d))
        Fed(f) == IF f.used = 0 /\ f.out = <<>> THEN Rest
                  ELSE Len(f.out) + Counted(f.d, From(in, f.used))
    IN  IF in = <<>> THEN Rest ELSE Fed(jmapd_dec_feed(d, in, SizeBuf))

jmapd_decoded_size(kind, in) == Counted(jmapd_dec_init(kind), in)

(***************************************************************************)
(* A blob download.  Both passes read the part in pieces; what a feed      *)
(* leaves unconsumed of a piece is skipped.  The counting pass reads whole *)
(* chunks and flushes the decoder; the pump reads as much as the client's  *)
(* pace leaves room for and stops when it has sent what was counted.       *)
(***************************************************************************)
RECURSIVE CountPass(_, _)
CountPass(d, in) ==
    LET n == IF Len(in) < BlobChunk THEN Len(in) ELSE BlobChunk
        Fed(f) == Len(f.out) + CountPass(f.d, From(in, n))
    IN  IF in = <<>> THEN Len(jmapd_dec_finish(d))
        ELSE Fed(jmapd_dec_feed(d, SubSeq(in, 1, n), BlobChunk))

blob_count_decoded(kind, in) == CountPass(jmapd_dec_init(kind), in)

\* rooms: the room the client has left at each turn of the pump (then plenty).
RECURSIVE Pump(_, _, _, _, _)
Pump(d, in, rooms, sent, total) ==
    LET room == IF rooms = <<>> THEN BlobChunk ELSE Head(rooms)
        n == IF Len(in) < room THEN Len(in) ELSE room
        rest == IF rooms = <<>> THEN rooms ELSE Tail(rooms)
        Fed(f) == Pump(f.d, From(in, n), rest, sent \o f.out, total)
    IN  IF Len(sent) >= total THEN [sent |-> sent, closed |-> FALSE]
        ELSE IF n = 0 THEN [sent |-> sent, closed |-> TRUE]
        ELSE Fed(jmapd_dec_feed(d, SubSeq(in, 1, n), BlobChunk))

jmapd_download(kind, in, rooms) ==
    LET Sent(total) == [length |-> total,
                        body |-> Pump(jmapd_dec_init(kind), in, rooms, <<>>, total)]
    IN  Sent(blob_count_decoded(kind, in))

(***************************************************************************)
(* Reference: what the encodings mean, read with lookahead instead of a    *)
(* state machine.                                                          *)
(***************************************************************************)
Digits(in) ==
    LET pads == {i \in 1..Len(in) : in[i] = EQ}
        stop == IF pads = {} THEN Len(in)
                ELSE (CHOOSE i \in pads : \A j \in pads : i <= j) - 1
    IN  SelectSeq(SubSeq(in, 1, stop), LAMBDA c : b64v(c) >= 0)

Base64Means(in) ==
    LET g == Digits(in)
        at(k) == LET p == 8 * (k - 1)
                     off == p % 6
                     x == b64v(g[p \div 6 + 1])
                     y == b64v(g[p \div 6 + 2])
                 IN (x % 2^(6 - off)) * 2^(off + 2) + y \div 2^(4 - off)
    IN  [k \in 1..((6 * Len(g)) \div 8) |-> at(k)]

IsSoft(in)   == \/ Len(in) >= 2 /\ in[2] = LF
                \/ Len(in) >= 3 /\ in[2] = CR /\ in[3] = LF
IsEscape(in) == Len(in) >= 3 /\ qphex(in[2]) >= 0 /\ qphex(in[3]) >= 0

RECURSIVE QpWellFormed(_)
QpWellFormed(in) ==
    IF in = <<>> THEN TRUE
    ELSE IF in[1] # EQ THEN QpWellFormed(Tail(in))
    ELSE IF IsSoft(in) THEN QpWellFormed(From(in, IF in[2] = LF THEN 2 ELSE 3))
    ELSE IsEscape(in) /\ QpWellFormed(From(in, 3))

\* A broken escape stands for itself, up to the byte that breaks it.
Literal(in) ==
    LET n == IF Len(in) > 1 /\ (in[2] = CR \/ qphex(in[2]) >= 0) THEN 3 ELSE 2
    IN  IF n < Len(in) THEN n ELSE Len(in)

RECURSIVE QpMeans(_)
QpMeans(in) ==
    IF in = <<>> THEN <<>>
    ELSE IF in[1] # EQ THEN <<in[1]>> \o QpMeans(Tail(in))
    ELSE IF IsSoft(in) THEN QpMeans(From(in, IF in[2] = LF THEN 2 ELSE 3))
    ELSE IF IsEscape(in) THEN <<qphex(in[2]) * 16 + qphex(in[3])>> \o QpMeans(From(in, 3))
    ELSE SubSeq(in, 1, Literal(in)) \o QpMeans(From(in, Literal(in)))

Means(kind, in) == CASE kind = "base64" -> Base64Means(in)
                     [] kind = "qp"     -> QpMeans(in)
                     [] OTHER           -> in

WellFormed(kind, in) == kind = "qp" => QpWellFormed(in)
=============================================================================
