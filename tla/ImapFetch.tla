------------------------------ MODULE ImapFetch ------------------------------
(***************************************************************************)
(* A FETCH response of imapd_imap.c: what each item selects of a message,  *)
(* and the generator that writes the response into the connection's output *)
(* as the client drains it.                                                *)
(*                                                                         *)
(* The response is a sequence of cells: the start of a message's response, *)
(* a value, the announcement of a literal and its length, one byte of a    *)
(* literal, the closing parenthesis, the tagged line.  A cell has length   *)
(* one.  A message is a sequence of symbols as in Mime.                    *)
(***************************************************************************)
EXTENDS Mime

CONSTANTS OutHalf,      \* IMAPD_MAX_OUT / 2, above which the pump waits
          InlineLit,    \* IMAPD_INLINE_LIT, the longest literal kept in gen
          Chunk         \* the chunk of stream_lit

Cell(t, v) == [t |-> t, v |-> v]

Values == {"FLAGS", "UID", "INTERNALDATE", "RFC822.SIZE", "MODSEQ", "ENVELOPE", "BODYSTRUCTURE"}
Macros == {"ALL", "FAST", "FULL"}

Item(kind) == [kind |-> kind, peek |-> FALSE, path |-> <<>>, psec |-> "WHOLE",
               off |-> 0, n |-> 0, name |-> kind]

\* One token of the item list and the items it stands for (a bare BODY, and
\* what is not an item, are refused before anything is written).  A section is
\* HEADER, TEXT, empty, or a part path with a keyword; the name in the response
\* is BODY[] for the first three.
section_parse(sec) ==
    CASE sec.kind \in {"BODY", "HEADER", "TEXT"} -> [Item(sec.kind) EXCEPT !.name = "BODY[]"]
      [] sec.kind = "PART" -> [Item("PART") EXCEPT !.path = sec.path, !.psec = sec.psec]

fetch_token(tok) ==
    CASE tok.t \in Macros -> <<Item("FLAGS"), Item("INTERNALDATE"), Item("RFC822.SIZE")>>
      [] tok.t \in Values -> <<Item(tok.t)>>
      [] tok.t \in {"RFC822", "RFC822.TEXT"} -> <<[Item(IF tok.t = "RFC822" THEN "BODY" ELSE "TEXT")
                                                     EXCEPT !.name = tok.t]>>
      [] tok.t = "RFC822.HEADER" -> <<[Item("HEADER") EXCEPT !.peek = TRUE, !.name = tok.t]>>
      [] tok.t = "BODY[" -> <<[section_parse(tok.sec) EXCEPT !.peek = tok.peek,
                                                             !.off = tok.off, !.n = tok.n]>>
      [] OTHER -> <<>>

RECURSIVE fetch_parse_items(_)
fetch_parse_items(toks) ==
    IF toks = <<>> THEN <<>>
    ELSE fetch_token(Head(toks)) \o fetch_parse_items(Tail(toks))

\* The range of the file an item selects; [s |-> -1] when there is none.
Region(s, n) == [s |-> s, n |-> n]
NoRegion == Region(-1, 0)
UpTo(x, y) == IF y > x THEN y - x ELSE 0

part_region(m, it) ==
    LET Of(p) == CASE p = NotFound -> NoRegion
                   [] p # NotFound /\ it.psec \in {"HEADER", "MIME"} -> Region(p.s, UpTo(p.s, p.he))
                   [] p # NotFound /\ it.psec = "TEXT" -> Region(p.he, UpTo(p.he, p.e))
                   [] p # NotFound /\ it.psec = "WHOLE" -> Region(p.s, UpTo(p.s, p.e))
    IN  Of(imapd_mime_part(m, it.path))

whole_region(m, it) ==
    LET he == mime_hdr_end(m, 0, Len(m))
    IN  CASE it.kind = "BODY"   -> Region(0, Len(m))
          [] it.kind = "HEADER" -> Region(0, he)
          [] it.kind = "TEXT"   -> Region(he, UpTo(he, Len(m)))
          [] it.kind = "PART"   -> part_region(m, it)

\* <o.n>; a length of 0 is "the rest".
Partial(r, it) ==
    IF it.off = 0 /\ it.n = 0 THEN r
    ELSE IF it.off >= r.n THEN Region(r.s + r.n, 0)
    ELSE Region(r.s + it.off,
                IF it.n > 0 /\ it.n < r.n - it.off THEN it.n ELSE r.n - it.off)

lit_region(m, it) ==
    LET Part(r) == IF r = NoRegion THEN r ELSE Partial(r, it) IN Part(whole_region(m, it))

Bytes(m, r) == [i \in 1..r.n |-> Cell("byte", At(m, r.s + i - 1))]

(***************************************************************************)
(* The generator: gen holds what is not yet in the output, lit the region  *)
(* that is being streamed, out everything written, sent how much of it the *)
(* client has taken.  gone: the messages whose file another session has    *)
(* renamed or removed since this view was read.                            *)
(***************************************************************************)
Generator(box, items, gone) ==
    [box |-> box, items |-> items, gone |-> gone, msg |-> 1, item |-> 1,
     phase |-> "msgstart", gen |-> <<>>, lit |-> Region(0, 0),
     out |-> <<>>, sent |-> 0, over |-> FALSE]

Put(g, cells) == [g EXCEPT !.gen = @ \o cells]
gen_flush(g) == [g EXCEPT !.out = @ \o g.gen, !.gen = <<>>]
Full(g) == Len(g.out) - g.sent >= OutHalf

\* The tagged line ends the response wherever it stands; gen is dropped.
fetch_fail(g) == [g EXCEPT !.out = Append(@, Cell("tagged", "NO")), !.over = TRUE]

NextItem(g) == [g EXCEPT !.item = @ + 1, !.phase = "items"]

emit_item(g) ==
    LET it == g.items[g.item]
        m == g.box[g.msg]
        unread == g.msg \in g.gone
        Literal(r, head) ==
            IF unread \/ r = NoRegion THEN fetch_fail(g)
            ELSE IF r.n <= InlineLit THEN NextItem(Put(g, <<head>> \o Bytes(m, r)))
            ELSE [Put(g, <<head>>) EXCEPT !.lit = r, !.phase = "lit"]
        Announced(r) == Literal(r, Cell("lit", <<it.name, r.n>>))
    IN  IF it.kind \in Values
        THEN IF unread /\ it.kind \in {"ENVELOPE", "BODYSTRUCTURE"} THEN fetch_fail(g)
             ELSE NextItem(Put(g, <<Cell("value", it.kind)>>))
        ELSE Announced(lit_region(m, it))

\* The announcement goes out before the bytes it announces.
BugBytesFirst(g) ==
    LET n == IF Chunk < g.lit.n THEN Chunk ELSE g.lit.n
        h == [g EXCEPT !.out = @ \o Bytes(g.box[g.msg], Region(g.lit.s, n)),
                       !.lit = Region(g.lit.s + n, g.lit.n - n)]
    IN  IF g.lit.n = 0 THEN NextItem(g) ELSE h

StreamChunk(g) ==
    LET room == OutHalf - (Len(g.out) - g.sent)
        want == Smaller(g.lit.n, Smaller(Chunk, room))
    IN  [g EXCEPT !.out = @ \o Bytes(g.box[g.msg], Region(g.lit.s, want)),
                  !.lit = Region(g.lit.s + want, g.lit.n - want)]

RECURSIVE StreamLoop(_)
StreamLoop(g) == IF g.lit.n = 0 THEN NextItem(g)
                 ELSE IF Full(g) THEN g
                 ELSE StreamLoop(StreamChunk(g))

stream_lit(g) == StreamLoop(gen_flush(g))

pump_step(g) ==
    CASE g.phase = "msgstart" ->
            [g EXCEPT !.gen = <<Cell("open", g.msg)>>, !.item = 1, !.phase = "items"]
      [] g.phase = "items" /\ g.item <= Len(g.items) -> emit_item(g)
      [] g.phase = "items" /\ g.item > Len(g.items) ->
            [gen_flush(Put(g, <<Cell("close", g.msg)>>))
                EXCEPT !.msg = @ + 1,
                       !.phase = IF g.msg < Len(g.box) THEN "msgstart" ELSE "done"]
      [] g.phase = "lit" -> stream_lit(g)

RECURSIVE imapd_fetch_pump(_)
imapd_fetch_pump(g) ==
    IF g.over THEN g
    ELSE IF g.phase = "done"
    THEN [gen_flush(g) EXCEPT !.out = Append(@, Cell("tagged", "OK")), !.over = TRUE]
    ELSE IF Full(g) THEN g
    ELSE imapd_fetch_pump(pump_step(g))

\* POLLOUT: the client has taken k more cells, and the pump runs again.
drained(g, k) == imapd_fetch_pump([g EXCEPT !.sent = Smaller(@ + k, Len(g.out))])

RECURSIVE Paced(_, _)
Paced(g, paces) ==
    IF g.over THEN g
    ELSE IF paces = <<>> THEN Paced(drained(g, Len(g.out)), paces)
    ELSE Paced(drained(g, Head(paces)), Tail(paces))

do_fetch(box, toks, gone, paces) ==
    Paced(imapd_fetch_pump(Generator(box, fetch_parse_items(toks), gone)), paces)

(***************************************************************************)
(* Reference: the response a client should see.                            *)
(***************************************************************************)
ItemCells(m, it) ==
    LET Literal(r) == <<Cell("lit", <<it.name, r.n>>)>> \o Bytes(m, r)
    IN  IF it.kind \in Values THEN <<Cell("value", it.kind)>> ELSE Literal(lit_region(m, it))

RECURSIVE AllItems(_, _, _)
AllItems(m, items, k) ==
    IF k > Len(items) THEN <<>> ELSE ItemCells(m, items[k]) \o AllItems(m, items, k + 1)

RECURSIVE Responses(_, _, _)
Responses(box, items, i) ==
    IF i > Len(box) THEN <<Cell("tagged", "OK")>>
    ELSE <<Cell("open", i)>> \o AllItems(box[i], items, 1) \o <<Cell("close", i)>>
         \o Responses(box, items, i + 1)

Resolves(box, items) ==
    \A i \in DOMAIN box, k \in DOMAIN items :
        items[k].kind \notin Values => lit_region(box[i], items[k]) # NoRegion
=============================================================================
