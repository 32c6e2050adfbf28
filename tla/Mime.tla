-------------------------------- MODULE Mime --------------------------------
(***************************************************************************)
(* Where the parts of a message are.  Four pieces of code answer this:     *)
(*   bs_part          BODYSTRUCTURE                     imap_maildir.c     *)
(*   imapd_mime_part  BODY[<section>]                   imap_maildir.c     *)
(*   mime_walk        the part tree of Email/get        imap_maildir.c     *)
(*   jmapd_file_part  a blob download, from the file    jmap_mime.c        *)
(* A message is a sequence of symbols.  CR and LF are themselves; a text   *)
(* byte is "t"; a header line that matters is one symbol (its Content-Type *)
(* with its boundary), a delimiter "--boundary" is one symbol, and so is   *)
(* the "--" that makes it the closing one.  No boundary is the beginning   *)
(* of another.  Offsets are the code's: 0-based, ranges half open.         *)
(***************************************************************************)
EXTENDS Integers, Sequences, FiniteSets

CONSTANTS MaxDepth,     \* IMAPD_MAX_PART_DEPTH
          MaxParts,     \* JMAPD_MAX_PARTS
          HdrCap,       \* IMAPD_HDR_CAP
          FileChunk     \* MIME_FILE_CHUNK

CR == "r"
LF == "n"
CloseMark == "--"
Delim(b) == IF b = 1 THEN "d1" ELSE "d2"
TypeLine(b) == CASE b = 0 -> "h:text" [] b = 1 -> "h:m1" [] b = 2 -> "h:m2"
NoType == -1

At(m, i) == m[i + 1]
NewLine(m, i) == At(m, i) \in {CR, LF}
First(S, none) == IF S = {} THEN none ELSE CHOOSE i \in S : \A j \in S : i <= j

\* mail_header_get for Content-Type over the range: the lines up to a blank
\* one.  The boundary of a multipart type, 0 for another type.
LineStart(m, s, i) == i = s \/ At(m, i - 1) = LF
bs_hdr(m, s, e) ==
    LET Types == {TypeLine(b) : b \in 0..2}
        Type(i) == IF i < 0 THEN NoType ELSE CHOOSE b \in 0..2 : At(m, i) = TypeLine(b)
        Before(blank) == First({i \in s..(blank - 1) : At(m, i) \in Types}, -1)
    IN  Type(Before(First({i \in s..(e - 1) : NewLine(m, i) /\ LineStart(m, s, i)}, e)))

\* A CRLF CRLF anywhere wins over any LF LF.
CrlfCrlf(m, i) == /\ At(m, i) = CR /\ At(m, i + 1) = LF
                  /\ At(m, i + 2) = CR /\ At(m, i + 3) = LF
LfLf(m, i) == At(m, i) = LF /\ At(m, i + 1) = LF
mime_hdr_end(m, s, e) ==
    LET crlf == {i + 4 : i \in {j \in s..(e - 4) : CrlfCrlf(m, j)}}
        lf   == {i + 2 : i \in {j \in s..(e - 2) : LfLf(m, j)}}
    IN  First(crlf, First(lf, e))

(***************************************************************************)
(* The scan the three in-memory resolvers share.                           *)
(***************************************************************************)
NextDelim(m, from, e, b) == First({i \in from..(e - 1) : At(m, i) = Delim(b)}, e)

AfterLine(m, p, e) ==
    CASE p + 1 < e /\ At(m, p) = CR /\ At(m, p + 1) = LF -> p + 2
      [] ~(p + 1 < e /\ At(m, p) = CR /\ At(m, p + 1) = LF) /\ p < e /\ NewLine(m, p) -> p + 1
      [] OTHER -> p

RECURSIVE TrimEnd(_, _, _)
TrimEnd(m, s, e) == IF e > s /\ NewLine(m, e - 1) THEN TrimEnd(m, s, e - 1) ELSE e

\* Every range between two delimiters, the empty ones included.
RECURSIVE Ranges(_, _, _, _)
Ranges(m, pos, e, b) ==
    LET Part(s, t) == <<[s |-> s, e |-> t]>> \o Ranges(m, t, e, b)
        From(s) == Part(s, TrimEnd(m, s, NextDelim(m, s, e, b)))
        Behind(d) == IF d = e \/ (d + 1 < e /\ At(m, d + 1) = CloseMark) THEN <<>>
                     ELSE From(AfterLine(m, d + 1, e))
    IN  Behind(NextDelim(m, pos, e, b))

NonEmpty(rs) == SelectSeq(rs, LAMBDA r : r.e > r.s)

\* BODYSTRUCTURE: the list of the structures of the parts, or the octets of
\* a single part.
RECURSIVE bs_part(_, _, _)
bs_multipart(m, s, e, b) ==
    LET Each(rs) == [k \in 1..Len(rs) |-> bs_part(m, rs[k].s, rs[k].e)]
    IN  Each(NonEmpty(Ranges(m, s, e, b)))

bs_part(m, s, e) ==
    LET Typed(he, b) == IF b > 0 THEN [multi |-> TRUE, parts |-> bs_multipart(m, he, e, b), octets |-> 0]
                        ELSE [multi |-> FALSE, parts |-> <<>>, octets |-> e - he]
        Headed(he) == Typed(he, bs_hdr(m, s, he))
    IN  Headed(mime_hdr_end(m, s, e))

\* BODY[<path>]
NotFound == [s |-> -1, e |-> -1, he |-> -1]

mime_kth_part(m, s, e, b, k) ==
    LET Kth(rs) == IF k <= Len(rs) THEN rs[k] ELSE [s |-> -1, e |-> -1]
    IN  Kth(Ranges(m, s, e, b))

RECURSIVE Descend(_, _, _, _, _)
Descend(m, s, e, he, path) ==
    LET Into(r) == IF r.s = -1 THEN NotFound
                   ELSE Descend(m, r.s, r.e, mime_hdr_end(m, r.s, r.e), Tail(path))
        Typed(b) == IF b <= 0 THEN NotFound ELSE Into(mime_kth_part(m, he, e, b, Head(path)))
    IN  IF path = <<>> THEN [s |-> s, e |-> e, he |-> he] ELSE Typed(bs_hdr(m, s, he))

imapd_mime_part(m, path) ==
    Descend(m, 0, Len(m), mime_hdr_end(m, 0, Len(m)), path)

\* The walk: each part, then its children, numbered from 1 without the empty
\* ones.
RECURSIVE mime_walk(_, _, _, _, _)
RECURSIVE WalkAll(_, _, _, _, _)
WalkAll(m, rs, k, depth, path) ==
    IF k > Len(rs) THEN <<>>
    ELSE mime_walk(m, rs[k].s, rs[k].e, depth + 1, Append(path, k))
         \o WalkAll(m, rs, k + 1, depth, path)

mime_walk(m, s, e, depth, path) ==
    LET This(he, b) == [id |-> path, s |-> s, e |-> e, he |-> he, multi |-> b > 0, depth |-> depth]
        Typed(he, b) == <<This(he, b)>> \o
                        (IF b <= 0 \/ depth + 1 >= MaxDepth THEN <<>>
                         ELSE WalkAll(m, NonEmpty(Ranges(m, he, e, b)), 1, depth, path))
        Headed(he) == Typed(he, bs_hdr(m, s, he))
    IN  Headed(mime_hdr_end(m, s, e))

imapd_mime_iterate(m) == mime_walk(m, 0, Len(m), 0, <<>>)

(***************************************************************************)
(* The part tree of Email/get: at most MaxParts parts, each under the last *)
(* part before it that is one level up; the body of a message that has a   *)
(* single part is called "1".                                              *)
(***************************************************************************)
tree_push(ps, i) ==
    LET up == {k \in 1..(i - 1) : ps[k].depth = ps[i].depth - 1}
    IN  IF up = {} THEN 0 ELSE CHOOSE k \in up : \A j \in up : j <= k

jmapd_tree_build(m) ==
    LET Tree(ps) ==
            [i \in 1..Len(ps) |->
                [part |-> ps[i], parent |-> tree_push(ps, i),
                 name |-> IF Len(ps) = 1 /\ ~ps[1].multi THEN <<1>> ELSE ps[i].id]]
        Taken(w) == Tree(SubSeq(w, 1, IF Len(w) < MaxParts THEN Len(w) ELSE MaxParts))
    IN  Taken(imapd_mime_iterate(m))

(***************************************************************************)
(* The file resolver reads the message in chunks and keeps an overlap, so  *)
(* that a blank line or a delimiter across two chunks is seen.             *)
(***************************************************************************)
Smaller(x, y) == IF x < y THEN x ELSE y

RECURSIVE HdrEndFrom(_, _, _)
HdrEndFrom(m, pos, stop) ==
    LET r == Smaller(stop - pos, FileChunk)
        Hit(i) == IF i >= pos THEN i + (IF LfLf(m, i) THEN 2 ELSE 4)
                  ELSE IF r < 4 THEN stop
                  ELSE HdrEndFrom(m, pos + r - 3, stop)
    IN  IF pos >= stop THEN stop
        ELSE Hit(First({i \in pos..(pos + r - 2) :
                           LfLf(m, i) \/ (i + 3 < pos + r /\ CrlfCrlf(m, i))}, -1))

file_hdr_end(m, from, limit) == HdrEndFrom(m, from, Smaller(from + HdrCap, limit))

BugNoOverlap(m, from, limit, delim) ==
    LET n == Len(delim)
        in(c) == {i \in from..(limit - n) : /\ SubSeq(m, i + 1, i + n) = delim
                                            /\ (i - from) \div FileChunk = c
                                            /\ (i - from + n - 1) \div FileChunk = c}
    IN  First(UNION {in(c) : c \in 0..limit}, limit)

RECURSIVE file_next_delim(_, _, _, _)
file_next_delim(m, from, limit, delim) ==
    LET r == Smaller(limit - from, FileChunk)
        n == Len(delim)
        Hit(i) == IF i >= 0 THEN from + i
                  ELSE IF r <= n THEN limit
                  ELSE file_next_delim(m, from + r - (n - 1), limit, delim)
    IN  IF from >= limit THEN limit
        ELSE Hit(First({i \in 0..(r - n) : SubSeq(m, from + i + 1, from + i + n) = delim}, -1))

RECURSIVE FilePart(_, _, _, _, _)
FilePart(m, pos, e, b, want) ==
    LET Part(s, t) == IF t > s /\ want = 1 THEN [s |-> s, e |-> t]
                      ELSE FilePart(m, t, e, b, IF t > s THEN want - 1 ELSE want)
        From(s) == Part(s, TrimEnd(m, s, file_next_delim(m, s, e, <<Delim(b)>>)))
        Behind(d) == IF d = e \/ (d + 1 < e /\ At(m, d + 1) = CloseMark) THEN [s |-> -1, e |-> -1]
                     ELSE From(AfterLine(m, d + 1, Len(m)))
    IN  IF pos >= e THEN [s |-> -1, e |-> -1] ELSE Behind(file_next_delim(m, pos, e, <<Delim(b)>>))

RECURSIVE FileDescend(_, _, _, _, _)
FileDescend(m, s, e, he, path) ==
    LET Into(r) == IF r.s = -1 THEN NotFound
                   ELSE FileDescend(m, r.s, r.e, file_hdr_end(m, r.s, r.e), Tail(path))
        Typed(b) == IF b <= 0 THEN NotFound ELSE Into(FilePart(m, he, e, b, Head(path)))
    IN  IF path = <<>> THEN [s |-> s, e |-> e, he |-> he] ELSE Typed(bs_hdr(m, s, he))

\* "1" is the whole of a message that is not a multipart.
jmapd_file_part(m, name) ==
    LET Whole(he) == name = <<1>> /\ bs_hdr(m, 0, he) <= 0
        Headed(he) == FileDescend(m, 0, Len(m), he, IF Whole(he) THEN <<>> ELSE name)
    IN  Headed(file_hdr_end(m, 0, Len(m)))
=============================================================================
