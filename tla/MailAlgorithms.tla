--------------------------- MODULE MailAlgorithms ---------------------------
(* The pure algorithms of the mail stack, put to the question: q is one      *)
(* input, every input of a family is asked once, and a property compares     *)
(* what the code computes with a definition of what it ought to be.          *)
EXTENDS Integers, Sequences, FiniteSets, FiniteSetsExt, SequencesExt, TLC

VARIABLE q

Unasked == <<"none">>
Of(family) == q[1] = family

----------------------------------------------------------------------------
(* SEARCH and SORT: programs over messages in every state of the header      *)
(* cache, with slices that end after one message or two.  S pays for three   *)
(* bytes a slice, S8 for eight: a body, or two short ones.                   *)

S == INSTANCE ImapSearch WITH SearchBudget <- 3, MsgCost <- 1
S8 == INSTANCE ImapSearch WITH SearchBudget <- 8, MsgCost <- 1

Mail(hdr, body, fl, day, size, cache) ==
  LET right == [h \in S!Indexed |-> IF h \in DOMAIN hdr THEN hdr[h] ELSE {}]
      stale == [h \in S!Indexed |-> {2}]
  IN  [uid |-> 0, fl |-> fl, recent |-> FALSE, day |-> day, modseq |-> day,
       size |-> size, hdr |-> hdr, hlen |-> 2, body |-> body, file |-> TRUE,
       mid |-> IF "Message-ID" \in DOMAIN hdr THEN <<hdr["Message-ID"]>> ELSE << >>,
       loaded |-> cache # "none", valid |-> cache = "valid", fresh |-> cache # "stale",
       cached |-> IF cache = "stale" THEN stale ELSE right]

Mails == UNION
  { {Mail([Subject |-> {1}, From |-> {2}, X |-> {1}], (1 :> 3) @@ (2 :> 5), {"S"}, 3, 5, c),
     Mail([From |-> {1}] @@ ("Message-ID" :> {1}), 2 :> 3, {}, 4, 3, c)} :
    c \in {"none", "loaded", "stale", "valid"} }

Atoms ==
  <<S!Key("SEEN", 0), S!Key("FROM", 1), S!Key("HEADER", <<"X", 1>>),
    S!Key("HEADER", <<"Message-ID", 1>>), S!Key("UID", << <<8, 0>> >>),
    S!Key("SEQ", << <<2, 0>> >>), S!Key("BODY", 2),
    S!Key("SUBJECT", 1), S!Key("SINCE", 4), S!Key("UNKEYWORD", "S"), S!Key("TEXT", 1)>>

Pairs(k) == [kind |-> "GROUP", keys |-> k]

\* A key and its negation, by number; the second key of a program is one of
\* the first seven.
Flat(i) == IF i <= Len(Atoms) THEN Atoms[i] ELSE S!Not(Atoms[i - Len(Atoms)])

Program(form, i, j) ==
  CASE form = "one"   -> <<Flat(i)>>
    [] form = "or"    -> <<S!Or(Flat(i), Flat(j))>>
    [] form = "and"   -> <<Flat(i), Flat(j)>>
    [] form = "nor"   -> <<S!Not(S!Or(Flat(i), Flat(j)))>>
    [] form = "group" -> <<S!Or(Flat(i), Pairs(<<Flat(i), Flat(j)>>))>>

RECURSIVE Tokens(_)
Tokens(k) ==
  CASE k.kind = "NOT" -> <<"NOT">> \o Tokens(k.a)
    [] k.kind = "OR" -> <<"OR">> \o Tokens(k.a) \o Tokens(k.b)
    [] k.kind = "GROUP" -> <<"(">> \o Tokens(k.keys[1]) \o Tokens(k.keys[2]) \o <<")">>
    [] k.kind \in S!BareKeys -> <<k.kind>>
    [] OTHER -> <<k.kind, <<"arg", k.x>> >>

\* What a key means, read off message i of box: n bytes of the file are
\* looked at, and the indexed headers besides when cached says so.
RECURSIVE Says(_, _, _, _, _, _)
Says(k, box, i, next, n, cached) ==
  LET m == box[i]
      Also(j) == Says(j, box, i, next, n, cached)
      Between(x, y, z) == x \in y..z \/ x \in z..y
      InHeader(h) == h \in DOMAIN m.hdr /\ (n >= m.hlen \/ (cached /\ h \in S!Indexed \cup {"Message-ID"}))
      InBody(w) == w \in DOMAIN m.body /\ m.body[w] <= n
  IN  CASE k.kind = "NOT" -> ~Also(k.a)
        [] k.kind = "OR" -> Also(k.a) \/ Also(k.b)
        [] k.kind = "GROUP" -> FALSE
        [] k.kind = "SEEN" -> "S" \in m.fl
        [] k.kind = "UNKEYWORD" -> k.x \notin m.fl
        [] k.kind = "SINCE" -> m.day >= k.x
        [] k.kind = "UID" -> Between(m.uid, k.x[1][1], next)
        [] k.kind = "SEQ" -> Between(i, k.x[1][1], Len(box))
        [] k.kind = "BODY" -> InBody(k.x)
        [] k.kind = "TEXT" -> \/ InBody(k.x)
                              \/ n >= m.hlen /\ \E h \in DOMAIN m.hdr : k.x \in m.hdr[h]
        [] OTHER -> LET h == S!search_hdr_name(k) IN InHeader(h) /\ S!Needle(k) \in m.hdr[h]

AskSearch ==
  \E form \in {"one", "or", "and", "nor", "group"}, i \in 1..(2 * Len(Atoms)), j \in 1..7,
     box \in SeqOf(Mails, 2) :
    /\ box # << >> /\ (form = "one" => j = 1)
    /\ q' = <<"search", Program(form, i, j), [k \in DOMAIN box |-> [box[k] EXCEPT !.uid = 6 + k]],
              \E a \in {i, j} : Atoms[1 + ((a - 1) % Len(Atoms))].kind \in {"BODY", "TEXT"}>>

AskDate ==
  \E dd \in {1, 28}, mi \in 0..11, yy \in 1970..2099 : q' = <<"date", dd, mi, yy>>

\* The header sidecar: what a view leaves behind at close, cut short at any
\* character, for the next view of the mailbox.
H == INSTANCE HeaderCache WITH NFields <- 2

Guards == {<< <<"1">>, <<"2">>, <<"3">> >>, << <<"1">>, <<"2">>, <<"3", "1">> >>}
Cached(uid, fields, guard, loaded) ==
  [uid |-> uid, hdr |-> fields, guard |-> guard, loaded |-> loaded]
Unread(uid) == Cached(uid, << << >>, << >> >>, << << >>, << >>, << >> >>, FALSE)

Values == SeqOf({"t", H!TAB, H!NL, H!BS}, 2)
Short == {<< >>, <<H!BS>>, <<"1", H!TAB>>}

AskSidecar ==
  \E one \in Values, two \in Values, three \in Short, guard \in Guards, loaded \in BOOLEAN :
    LET msgs == <<Cached(<<"2">>, <<one, two>>, guard, loaded),
                  Cached(<<"1", "0">>, <<three, one>>, guard, TRUE)>>
        file == H!mail_hdrs_save(<<"3">>, msgs)
    IN  \E k \in 0..Len(file) :
          (three = << >> \/ k = Len(file)) /\ q' = <<"sidecar", msgs, SubSeq(file, 1, k), k = Len(file)>>


----------------------------------------------------------------------------
(* Parts: every message of up to two levels, with parts that have a header,  *)
(* none, nothing but one, or a blank line first, in either line ending or in *)
(* both; and every text in which a header might end.                         *)

F == INSTANCE ImapFetch WITH MaxDepth <- 4, MaxParts <- 8, HdrCap <- 40, FileChunk <- 5,
                             OutHalf <- 4, InlineLit <- 1, Chunk <- 2

Ends == {<<"n">>, <<"r", "n">>}
Leaves(nl) == {<<"h:text">> \o nl \o nl \o <<"t">>, <<"t">>, <<"t">> \o nl \o <<"t", "t">>,
               nl \o <<"t">>, <<"h:text">> \o nl \o <<"t">> \o nl \o nl \o <<"t", "t">>}
TwoEnds == {<<"h:text">> \o x \o x \o <<"t">> \o y \o y \o <<"t">> : x, y \in Ends}

RECURSIVE Body(_, _, _)
Body(b, kids, nl) ==
  IF kids = << >> THEN << >>
  ELSE <<F!Delim(b)>> \o nl \o Head(kids) \o nl \o Body(b, Tail(kids), nl)

Multi(b, kids, nl, closed) ==
  <<F!TypeLine(b)>> \o nl \o nl \o Body(b, kids, nl)
  \o (IF closed THEN <<F!Delim(b), F!CloseMark>> \o nl ELSE << >>)

Messages ==
  UNION {LET inner == {Multi(2, k, nl, c) : k \in {<<x, y>> : x, y \in Leaves(nl)}, c \in BOOLEAN}
             parts == {<<x>> : x \in Leaves(nl) \cup inner}
                      \cup {<<x, y>> : x \in inner, y \in Leaves(nl)}
                      \cup {<<x, y>> : x \in Leaves(nl), y \in Leaves(nl)}
                      \cup {<<x, y>> : x \in TwoEnds, y \in UNION {Leaves(z) : z \in Ends}}
         IN  Leaves(nl) \cup {Multi(1, k, nl, c) : k \in parts, c \in BOOLEAN} : nl \in Ends}

AskParts == \/ \E m \in Messages : q' = <<"parts", m>>
            \/ \E m \in SeqOf({"r", "n", "t"}, 8) : q' = <<"blank", m>>

\* A delimiter looked for in a file of d and x, read five symbols at a time.
AskScan == \E m \in SeqOf({"d", "x"}, 9), delim \in SeqOf({"d", "x"}, 3) :
             delim # << >> /\ q' = <<"scan", m, delim>>

Place(p) == [s |-> p.s, e |-> p.e, he |-> p.he]

\* The sizes BODYSTRUCTURE gives, part by part.
RECURSIVE Octets(_)
Octets(b) == IF ~b.multi THEN <<b.octets>>
             ELSE FlattenSeq([i \in DOMAIN b.parts |-> Octets(b.parts[i])])

\* Some CRLF CRLF stands behind an LF LF.
Mixed(m) == \E i, j \in 0..(Len(m) - 2) : i < j /\ F!LfLf(m, i) /\ j + 4 <= Len(m) /\ F!CrlfCrlf(m, j)

\* The three resolvers that have the message in memory agree where every part is:
\* the ids of Email/get (imapd_mime_iterate), the sections of BODY[...]
\* (imapd_mime_part) and the sizes of BODYSTRUCTURE (bs_part).  The blob download,
\* which reads the file in chunks (jmapd_file_part), agrees with them where no
\* CRLF CRLF stands behind an LF LF.  There, and only there, the two
\* disagree about the end of a header: mime_hdr_end takes the CRLF CRLF
\* (imap_maildir.c:2780-2788), file_hdr_end the first blank line of either kind
\* (jmap_mime.c:569-575), although the comment at jmap_mime.c:548 calls it the
\* same rule.  Left out are messages with an empty part, which BODY[n] counts and
\* the others do not, and headers longer than IMAPD_HDR_CAP.
PartsAgree ==
  /\ Of("blank") =>
       (F!file_hdr_end(q[2], 0, Len(q[2])) = F!mime_hdr_end(q[2], 0, Len(q[2]))) = ~Mixed(q[2])
  /\ Of("parts") =>
       LET m    == q[2]
           tree == F!jmapd_tree_build(m)
           leaf == SelectSeq(tree, LAMBDA n : ~n.part.multi)
       IN  /\ \A i \in DOMAIN tree :
                LET n == tree[i]
                IN  /\ F!imapd_mime_part(m, n.part.id) = Place(n.part)
                    /\ ~Mixed(m) => F!jmapd_file_part(m, n.name) = Place(n.part)
                    /\ n.parent # 0 => n.part.id = Append(tree[n.parent].part.id,
                                                          Last(n.part.id))
           /\ Octets(F!bs_part(m, 0, Len(m)))
                = [i \in DOMAIN leaf |-> leaf[i].part.e - leaf[i].part.he]
  /\ Of("scan") =>
       \A from \in 0..Len(q[2]) :
         F!file_next_delim(q[2], from, Len(q[2]), q[3])
           = F!First({i \in from..(Len(q[2]) - Len(q[3])) :
                        SubSeq(q[2], i + 1, i + Len(q[3])) = q[3]}, Len(q[2]))

----------------------------------------------------------------------------
(* FETCH: what a client reads, at any pace, of messages with one part or two.*)

Section(kind, path, psec) == [kind |-> kind, path |-> path, psec |-> psec]
BodyItem(sec, off, n) == [t |-> "BODY[", sec |-> sec, peek |-> TRUE, off |-> off, n |-> n]

Sections == {Section(k, << >>, "WHOLE") : k \in {"BODY", "HEADER", "TEXT"}}
            \cup {Section("PART", <<1>>, p) : p \in {"WHOLE", "MIME", "TEXT"}}

Windows == {<<0, 0>>, <<0, 2>>, <<1, 3>>, <<1, 0>>, <<9, 1>>}

FetchItems == {[t |-> "FLAGS"], [t |-> "RFC822.TEXT"]}
              \cup {BodyItem(s, 0, 0) : s \in Sections}

Fetched == {Multi(1, <<x, <<"t">> >>, <<"n">>, TRUE) :
              x \in {<<"t">>, <<"h:text", "n", "n", "t">>}}

AskFetch ==
  \/ \E box \in SeqOf(Fetched, 2), items \in SeqOf(FetchItems, 2), pace \in SeqOf({1, 3}, 3) :
       box # << >> /\ items # << >> /\ q' = <<"fetch", box, items, pace>>
  \/ \E m \in Fetched, s \in Sections, w \in Windows :
       q' = <<"window", m, BodyItem(s, w[1], w[2])>>

\* A FETCH response has its items in order and every literal has as many bytes
\* as it announces, however slowly the client reads and wherever the output
\* fills (imapd_fetch_pump, stream_lit); a partial section is that window of the
\* whole section, and a header and a text make up their body (lit_region).
FetchExact ==
  /\ Of("fetch") =>
       LET items == F!fetch_parse_items(q[3])
           g     == F!do_fetch(q[2], q[3], {}, q[4])
       IN  F!Resolves(q[2], items) /\ g.out = F!Responses(q[2], items, 1)
  /\ Of("window") =>
       LET m      == q[2]
           sec    == q[3].sec
           Of1(t) == F!Bytes(m, F!lit_region(m, F!fetch_token(t)[1]))
           Full(s) == Of1(BodyItem(s, 0, 0))
           n      == IF q[3].n = 0 THEN Len(m) ELSE q[3].n
       IN  /\ Of1(q[3]) = IF <<q[3].off, q[3].n>> = <<0, 0>> THEN Full(sec)
                          ELSE SubSeq(Full(sec), q[3].off + 1,
                                      Min({q[3].off + n, Len(Full(sec))}))
           /\ sec.kind = "BODY" =>
                Full(sec) = Full(Section("HEADER", << >>, "WHOLE"))
                            \o Full(Section("TEXT", << >>, "WHOLE"))
           /\ sec.kind = "PART" /\ sec.psec = "WHOLE" =>
                Full(sec) = Full(Section("PART", <<1>>, "MIME"))
                            \o Full(Section("PART", <<1>>, "TEXT"))

----------------------------------------------------------------------------
(* Decoding: parts in base64 and quoted-printable, decoded in pieces.        *)

D == INSTANCE Decoder WITH SizeBuf <- 3, Scratch <- 2, BlobChunk <- 3

AskDecode ==
  \/ \E in \in SeqOf({65, 81, 10}, 6), pads \in 0..2 :
       q' = <<"decode", "base64", in \o [i \in 1..pads |-> D!EQ]>>
  \/ \E in \in SeqOf({D!EQ, 52, 10, 13, 0}, 5) : q' = <<"decode", "qp", in>>
  \/ \E in \in SeqOf({65, 0}, 5) : q' = <<"decode", "7bit", in>>

\* A part decoded in pieces is what it means decoded at once (jmapd_decode_all):
\* a blob download sends the bytes it announced whatever the client's pace
\* (blob_count_decoded and jmapd_download_pump), a body value is a prefix whose
\* isTruncated tells whether it is the whole (jmapd_body_value), and the size in
\* Email/get is the number of decoded bytes (jmapd_decoded_size).  Two things are
\* left out.  A quoted-printable part with a broken escape keeps its size and its
\* text, but a download of one that ends in an escape announces the flushed bytes
\* and never sends them (jmap_mail.c:1785 against 1913-1964), and a body value
\* leaves out an escape cut off at the end, or ends before a broken one that does
\* not fit, without being marked.  The size
\* of a base64 part is exact as long as one buffer (4096 bytes) takes what it
\* decodes to; beyond that the digit that found the buffer full is fed twice
\* (jmap_mime.c:85-88, 391-408) and the size can only be too large, although
\* jmap_mime.h:155 calls it the decoded octet count.
DecodeExact ==
  Of("decode") =>
    LET kind  == q[2]
        in    == q[3]
        means == D!Means(kind, in)
        size  == D!jmapd_decoded_size(kind, in)
    IN  /\ D!jmapd_decode_all(kind, in) = D!DropNul(means)
        /\ IF kind = "base64" /\ Len(means) > 3 THEN size >= Len(means) ELSE size = Len(means)
        /\ D!WellFormed(kind, in) =>
             /\ \A rooms \in {<< >>, <<1, 1, 1>>, <<2, 1>>, <<1, 3>>} :
                  D!jmapd_download(kind, in, rooms)
                    = [length |-> Len(means), body |-> [sent |-> means, closed |-> FALSE]]
             /\ \A cap \in 1..3 :
                  D!jmapd_body_value(kind, in, cap)
                    = [value |-> D!DropNul(SubSeq(means, 1, Min({cap, Len(means)}))),
                       truncated |-> Len(means) > cap]

----------------------------------------------------------------------------
(* Text: line ends and dots byte by byte, headers, and address lists.        *)

T == INSTANCE MailText

Lines == {[name |-> n, val |-> <<v>>] : n \in {"From", "To", "DKIM-Signature", "Reply-To"},
                                        v \in {"m", "T"}}
Rewrites == {[n \in N |-> <<"alias">>] : N \in SUBSET ToSet(T!Identity)}
AddressList == {<<"m">>, <<"T">>, <<"g", << >> >>, <<"g", << <<"T">> >> >>,
               <<"g", << <<"T">>, <<"m">> >> >>, <<"g", << <<"m">>, <<"T">>, <<"n">> >> >>}

AskText ==
  \/ \E b \in SeqOf({"r", "n", ".", "x"}, 6) : q' = <<"bytes", b>>
  \/ \E h \in SeqOf(Lines, 3), rw \in Rewrites : q' = <<"forward", [head |-> h], rw>>
  \/ \E to \in SeqOf(AddressList, 3), cc \in SeqOf(AddressList, 1) :
       q' = <<"reply", to, cc>>

Named(m, n) == SelectSeq(m.head, LAMBDA h : h.name = n)

\* What visage passes on is what it took in: line ends become CRLF and nothing
\* else does (crlf_rewrite in place), dots survive stuffing and unstuffing and no
\* line of a body can end it; a forwarded message has each rewritten header once,
\* with the alias's value, no signature of its sender, and its other headers in
\* their order (mail_sanitize_for_forward); a reply loses the reverse alias from
\* its To and Cc, inside groups too, and nothing more (reply_strip_reverse).
ForwardExact ==
  /\ Of("bytes") =>
       LET b == q[2]
       IN  /\ T!mail_normalize_crlf(b) = T!Normal(b)
           /\ T!mail_unstuff_dots(T!mail_stuff_dots(b)) = b
           /\ ~T!EndsEarly(T!mail_stuff_dots(b))
  /\ Of("forward") =>
       LET rw == q[3]
           m  == T!mail_sanitize_for_forward(q[2], rw)
           Other(h) == h.name \notin DOMAIN rw \cup {"DKIM-Signature"}
       IN  /\ \A n \in DOMAIN rw : Named(m, n) = <<[name |-> n, val |-> rw[n]]>>
           /\ Named(m, "DKIM-Signature") = << >>
           /\ m.head[1].name = "Received"
           /\ SelectSeq(Tail(m.head), Other) = SelectSeq(q[2].head, Other)
  /\ Of("reply") =>
       LET Head1(n, l) == IF l = << >> THEN << >> ELSE <<[name |-> n, val |-> T!Rendered(l)]>>
       IN  T!reply_strip_reverse([head |-> Head1("To", q[2]) \o Head1("Cc", q[3])]).head
             = Head1("To", T!Stripped(q[2])) \o Head1("Cc", T!Stripped(q[3]))

----------------------------------------------------------------------------
(* DKIM: messages signed and then changed in ways the relaxed form allows, or *)
(* in one it does not; bodies; and the keys of several domains in turn.       *)

K == INSTANCE Dkim

RawFields == {<<"From", ":", "_", "x", "r", "n">>, <<"from", ":", "x", "_", "t", "y", "r", "n">>,
              <<"To", ":", "_", "x", "r", "n", "t", "y", "_", "r", "n">>, <<"To", ":", "y", "r", "n">>,
              <<"Other", ":", "x", "r", "n">>, <<"x", "r", "n">>, <<"From", "_", ":", "x", "n">>}

Spelt(s, Each(_)) == FlattenSeq([i \in DOMAIN s |-> Each(s[i])])
Travels ==
  {"untouched", "refolded", "spaced", "lowered", "longer", "altered"}
Travelled(fields, how) ==
  LET Field(f) ==
        CASE how = "refolded" -> Spelt(f, LAMBDA x : IF x = "_" THEN <<"r", "n", "t">> ELSE <<x>>)
          [] how = "spaced"   -> Spelt(f, LAMBDA x : IF x = "_" THEN <<"t", "_">>
                                                     ELSE IF x = "r" THEN <<"_", "r">> ELSE <<x>>)
          [] how = "lowered"  -> Spelt(f, LAMBDA x : <<K!lower(x)>>)
          [] how = "altered"  -> Spelt(f, LAMBDA x : IF x = "y" THEN <<"z">> ELSE <<x>>)
          [] OTHER -> f
  IN  FlattenSeq([i \in DOMAIN fields |-> Field(fields[i])])
      \o (IF how = "longer" THEN <<"Other", ":", "z", "r", "n">> ELSE << >>)

AskDkim ==
  \/ \E fs \in SeqOf(RawFields, 3), how \in Travels : q' = <<"signed", fs, how>>
  \/ \E b \in SeqOf({"x", "_", "t", "r", "n"}, 6) : q' = <<"hashed", b>>
  \/ \E calls \in SeqOf({"a", "b", "c"} \X {"rsa", "other"}, 4) : q' = <<"keys", calls>>

\* The relaxed form of a line, and of a body, as they are meant.
Relaxed(l) ==
  LET solid(i) == l[i] \notin K!Wsp
      kept == {i \in DOMAIN l : solid(i) \/ (/\ i = 1 \/ solid(i - 1)
                                             /\ \E j \in i .. Len(l) : solid(j))}
      at   == SetToSortSeq(kept, <)
  IN  [k \in DOMAIN at |-> IF solid(at[k]) THEN l[at[k]] ELSE "_"]
RelaxedBody(b) ==
  LET ls   == K!LinesOf(b)
      last == Max({0} \cup {i \in DOMAIN ls : Relaxed(ls[i]) # << >>})
  IN  IF last = 0 THEN <<"r", "n">>
      ELSE FlattenSeq([i \in 1 .. last |-> Relaxed(ls[i]) \o <<"r", "n">>])

\* A signature made here verifies here, whatever was done on the way to the white
\* space, the folds and the case of names of the header or put below it unsigned,
\* and does not when a signed field was altered (dkim_sign_core,
\* dkim_verify_core).  That is so for messages with no field twice: fields of one
\* name are signed from the top and looked for from the bottom.  The hash of a
\* body is that of its relaxed form (relaxed_body_sha256), and a message is
\* signed with its own domain's key or goes as it came (dkim_load_pk,
\* forward_sign).
SignedExact ==
  /\ Of("signed") =>
       LET m    == FlattenSeq(q[2]) \o <<"r", "n", "x", "r", "n">>
           sent == <<"dkim-signature", ":", "_", "b", "r", "n">> \o Travelled(q[2], q[3])
                   \o <<"r", "n", "x", "r", "n">>
           touched == \E f \in ToSet(K!collect(m)) : "y" \in ToSet(f.val)
           Verifies(sig, h) ==
             /\ (h = << >>) <=> (ToSet(q[2]) \subseteq {f \in RawFields : f[1] \in {"Other", "x"} \/ f[2] = "_"})
             /\ h # << >> /\ Cardinality(ToSet(h)) = Len(h) =>
                  (K!dkim_verify_core(sent, sig, "a") <=> ~(q[3] = "altered" /\ touched))
             /\ h # << >> => ~K!dkim_verify_core(sent, sig, "b")
           Made(sig) == Verifies(sig, sig.h)
       IN  Made(K!dkim_sign(K!NoKey, m, "a", "rsa").sig)
  /\ Of("hashed") => K!relaxed_body_sha256(q[2]) = RelaxedBody(q[2])
  /\ Of("keys") =>
       LET m == <<"From", ":", "x", "r", "n", "r", "n">>
           Sent(s, r) == [cache |-> r.cache, out |-> Append(s.out, r)]
           Call(s, c) == Sent(s, K!forward_sign(s.cache, m, c[1], [a |-> "pa", b |-> "pb"], c[2]))
           Own(c, path, r) == /\ r.sig.key \in {"none", path}
                              /\ r.sig = K!NoSig => r.m = m
                              /\ path # "none" /\ c[2] = "rsa" => r.sig.key = path
           Each(out) == \A i \in DOMAIN q[2] :
                          Own(q[2][i], [a |-> "pa", b |-> "pb", c |-> "none"][q[2][i][1]], out[i])
       IN  Each(FoldLeft(Call, [cache |-> K!NoKey, out |-> << >>], q[2]).out)

\* The text of a message stays what it was in all that may not change, on its way
\* through visage and under its signature.
TextExact == ForwardExact /\ SignedExact

----------------------------------------------------------------------------
(* Authentication results and routes: SPF records of up to two terms in two   *)
(* domains that may include each other, networks, domains, exchangers.        *)

A == INSTANCE AuthResults WITH MAX_LOOKUPS <- 3, ByteBits <- 2, MaxMx <- 2, MaxAddrs <- 2,
                               MaxTargets <- 3, RouteSlots <- 2, RouteTTL <- 1

Here == A!Net(<<1, 2>>, 3)
Terms == {A!Term("p", "ip", Here), A!Term("m", "ip", A!Net(<<3, 2>>, 1)),
          A!Term("m", "all", ""), A!Term("s", "all", ""), A!Term("p", "a", ""),
          A!Term("n", "mx", "y"), A!Term("p", "include", "x"), A!Term("m", "include", "y"),
          A!Term("p", "redirect", "y"), A!Term("p", "exists", "y")}
Zone(tx, ty, there) ==
  [txt |-> [d \in {"x", "y"} |->
              A!Found(<<[v |-> "other"], [v |-> "spf1", terms |-> IF d = "x" THEN tx ELSE ty]>>)],
   a |-> [x |-> A!Failed, y |-> A!Found(IF there THEN <<<<1, 3>>>> ELSE << >>)]]

Domains == SeqOf({"a", "."}, 4)
Senders == {<< >>, <<"a">>, <<"b", ".", "a">>, <<"b", "a">>}
Policies == {A!Failed, A!Found(<< >>)}
            \cup {A!Found(<<[v |-> "DMARC1", tags |-> <<<<"p", p>>, <<"sp", "none">>>>]>>) :
                    p \in {"none", "quarantine", "reject"}}
Signatures == {<< >>, <<<<"s", <<"k">>>>>>} \cup
              {<<<<"d", d>>, <<"s", <<"k">>>>>> : d \in Senders}

AskAuth ==
  \/ \E tx, ty \in SeqOf(Terms, 2), there \in BOOLEAN : q' = <<"spf", Zone(tx, ty, there)>>
  \/ \E ip, net \in [1..2 -> 0..3], prefix \in 0..5 : q' = <<"net", ip, A!Net(net, prefix)>>
  \/ \E auth, from \in Domains : q' = <<"align", auth, from>>
  \/ \E env, from \in Senders, spf \in {"pass", "fail", "softfail", "neutral", "none"},
        sig \in Signatures, keys \in {A!Failed, A!Found(<< >>), A!Found(<<"none", "k">>)},
        good \in BOOLEAN, pol \in Policies :
       q' = <<"results", env, from, spf, sig, keys, good, pol>>

AddressesOf(n) == {A!Failed, A!Found(<< >>), A!Found(<<n>>)}

AskRoute ==
  \E rs \in SeqOf({1, 2} \X BOOLEAN \X {"g", "h"}, 3), failed \in BOOLEAN,
     ga, gq \in AddressesOf("g"), ha \in AddressesOf("h"), own, ownq \in AddressesOf("d") :
    /\ (ga # A!Found(<<"g">>) \/ gq # A!Failed) => rs = << >> \/ own = A!Failed
    /\ rs # << >> => ownq = A!Failed
    /\ failed => rs = << >>
    /\ q' = <<"route", [ok |-> ~failed,
                       found |-> [i \in DOMAIN rs |->
                                    [pref |-> rs[i][1], mx |-> rs[i][2], host |-> rs[i][3]]]],
              ("g" :> ga) @@ ("h" :> ha) @@ ("" :> own),
              ("g" :> gq) @@ ("h" :> A!Found(<<"h6">>)) @@ ("" :> ownq)>>

\* Deliveries one after another: to which domain, how long after the one before,
\* and whether the DNS answers; the address it gives is new every time.
AskRoutes ==
  \E ds \in [1..4 -> {"d", "e", "f"}], waits \in [1..4 -> 0..1], answered \in [1..4 -> BOOLEAN] :
    q' = <<"routes", ds, waits, answered>>

RECURSIVE Delivered(_, _)
Delivered(n, routes) ==
  LET now == FoldLeft(+, 0, SubSeq(q[3], 1, n))
      own == ("" :> IF q[4][n] THEN A!Found(<<n>>) ELSE A!Failed)
      Then(r) == <<[r |-> r, now |-> now]>> \o (IF n = 4 THEN << >> ELSE Delivered(n + 1, r.routes))
  IN  Then(A!deliver_resolve(routes, q[2][n], now, A!Found(<< >>), own, own))

\* What an SPF record says of an address, without a budget: the mechanisms
\* first, then redirect.  An evaluation within the budget nests no deeper.
RECURSIVE SpfMeans(_, _, _, _)
SpfMeans(dom, ip, dns, fuel) ==
  LET terms == dns.txt[dom].found[2].terms
      Sub(t) == IF fuel = 0 THEN "none" ELSE SpfMeans(t.arg, ip, dns, fuel - 1)
      Matches(t) ==
        CASE t.kind = "all" -> TRUE
          [] t.kind = "ip" -> A!spf_ip_match(ip, t.arg)
          [] t.kind \in {"a", "mx"} ->
               Contains(dns.a[IF t.arg = "" THEN dom ELSE t.arg].found, ip)
          [] t.kind = "include" -> Sub(t) = "pass"
          [] OTHER -> FALSE
      hits == {i \in DOMAIN terms : Matches(terms[i])}
      redirects == {i \in DOMAIN terms : terms[i].kind = "redirect"}
  IN  IF hits # {} THEN A!Qualifier[terms[Min(hits)].q]
      ELSE IF redirects = {} \/ Sub(terms[Min(redirects)]) = "none" THEN "neutral"
      ELSE Sub(terms[Min(redirects)])

RedirectLast(terms) == \A i \in DOMAIN terms : terms[i].kind = "redirect" => i = Len(terms)

\* A domain as its labels, and alignment by labels.
Labels(d) == FoldLeft(LAMBDA ls, c : IF c = "." THEN Append(ls, << >>)
                                     ELSE [ls EXCEPT ![Len(ls)] = Append(@, c)], << << >> >>, d)
Aligned(auth, from) == IsSuffix(Labels(from), Labels(auth))

\* SPF gives the result its records mean, records that include each other
\* included, and never looks up more than the budget allows
\* (auth_spf_eval_record_depth); a network holds the addresses that share its
\* prefix (spf_ip4_match, spf_ip6_match); a header says dmarc=pass exactly when a
\* policy is published and another of its own results passed for a domain that is
\* the header's From or below it (auth_dmarc_eval, auth_dmarc_domain_align).
\* The result of SPF is claimed for an evaluation within the budget, and for
\* records whose redirect= stands last: the code follows it where it stands.
AuthExact ==
  /\ Of("spf") =>
       LET r == A!auth_spf_eval("x", <<1, 3>>, q[2])
           plain == \A d \in {"x", "y"} : RedirectLast(q[2].txt[d].found[2].terms)
       IN  /\ r.asked <= 1 + 3
           /\ r.n <= 3 /\ plain => r.r = SpfMeans("x", <<1, 3>>, q[2], 3)
  /\ Of("net") =>
       LET Number(b) == 4 * b[1] + b[2]
           rest == 2 ^ (4 - Min({4, q[3].prefix}))
       IN  A!spf_ip_match(q[2], q[3])
             <=> Number(q[2]) \div rest = Number(q[3].bytes) \div rest
  /\ Of("align") => (A!auth_dmarc_domain_align(q[2], q[3]) <=> Aligned(q[2], q[3]))
  /\ Of("results") =>
       LET named == {q[5][i][2] : i \in DOMAIN q[5]}
           look  == [sd \in named \X named |-> q[6]]
           dkim  == A!auth_dkim_eval(q[5], look, IF q[7] THEN {"k"} ELSE {})
           h == A!auth_results_build(q[2], q[3], q[4], dkim, q[8])
           asked == q[8].ok /\ q[8].found # << >> /\ q[8].found[1].tags[1][2] # "none"
           backed(x) == \/ x.spf = "pass" /\ Aligned(x.mailfrom, x.from)
                        \/ x.dkim = "pass" /\ Aligned(x.d, x.from)
       IN  IF q[2] = << >> THEN h = << >>
           ELSE /\ (h[1].dmarc = "pass") <=> (q[3] # << >> /\ asked /\ backed(h[1]))
                /\ h[1].dmarc = "fail" => ~backed(h[1]) /\ h[1].spf = "fail"
                /\ h[1].dkim = "pass" => h[1].d # << >> /\ q[7]

\* A message is offered to the targets of its domain in the order of preference,
\* equal ones as the DNS gave them and every one before any is tried again.  It is
\* given up at once exactly where the DNS has no exchanger and gave no address,
\* one of the two lookups for addresses being answered: the other may have timed
\* out, and then the domain may have had an address all the same
\* (auth_dns_mx, auth_dns_addr at auth_results.c:1196-1204, deliver_resolve,
\* deliver_recipient).
LookupsExact ==
  Of("route") =>
    LET kept  == SetToSortSeq({i \in DOMAIN q[2].found : q[2].found[i].mx}, <)
        first == {kept[i] : i \in DOMAIN kept \cap 1..2}
        order == SetToSortSeq(first, LAMBDA i, j :
                   \/ q[2].found[i].pref < q[2].found[j].pref
                   \/ q[2].found[i].pref = q[2].found[j].pref /\ i < j)
        Of2(h) == q[3][h].found \o q[4][h].found
        All(hosts) == IF hosts = << >> THEN Of2("")
                      ELSE FlattenSeq([i \in DOMAIN hosts |-> Of2(q[2].found[hosts[i]].host)])
        Offered(rc, targets, all) ==
          /\ targets = IF q[2].ok THEN SubSeq(all, 1, Min({3, Len(all)})) ELSE << >>
          /\ rc = "ok" =>
               [k \in 1..Len(targets) |-> A!TargetOf(targets, Len(targets) + k)] = targets
          /\ (rc = "permfail") <=>
               /\ q[2].ok /\ first = {} /\ all = << >>
               /\ q[3][""].ok \/ q[4][""].ok
        Found2(r) == Offered(r.rc, r.targets, All(order))
    IN  Found2(A!Lookups(q[2], q[3], q[4]))

\* A remembered route is one the DNS gave for that very domain no longer than
\* the time limit ago, and a delivery fails for want of a route only if the DNS
\* does not answer it (mx_cache_get, mx_cache_put, deliver_resolve).
RoutesFresh ==
  Of("routes") =>
    LET Fresh(d) ==
          \A n \in 1..4 :
            IF d[n].r.rc # "ok" THEN ~q[4][n]
            ELSE LET from == d[n].r.targets[1]
                 IN  /\ from <= n /\ q[4][from] /\ q[2][from] = q[2][n]
                     /\ d[n].now - d[from].now <= 1
    IN  Fresh(Delivered(1, A!Routes))

\* What visage and outbox conclude from the DNS is what it says: results of
\* authentication, and routes.
DnsExact == AuthExact /\ LookupsExact /\ RoutesFresh

----------------------------------------------------------------------------
(* JMAP: queries and threads over five messages, changes to two, requests.   *)

J == INSTANCE JmapMail WITH MaxObjects <- 4, MaxWindow <- 4, DefaultLimit <- 2,
                            TextScanMax <- 3, MaxMsg <- 3, BodyBudget <- 2, MaxSet <- 4,
                            MaxCalls <- 3, IdxCap <- 2

MailFile(mbox, base, date, flags) ==
  [mbox |-> mbox, base |-> base, date |-> date, flags |-> flags, text |-> {IF base % 2 = 1 THEN "odd" ELSE "even"},
   hdr |-> [k \in J!Header |-> {IF base % 3 = 1 THEN "one" ELSE "other"}], size |-> 1, root |-> 8 * date - 7, readable |-> TRUE]

Account(files) == [tree |-> files, boxes |-> {1, 2, 3}, shut |-> {}]

\* Bases 1 to 5, in two mailboxes, with any dates; equal dates share a thread,
\* and the roots 1, 9 and 17 fall into one slot of a small index.
Dated(d) == {MailFile(1 + (b % 2), b, d[b], IF b < 4 THEN {"$seen"} ELSE {}) : b \in 1..5}

Condition(key, val) == <<[key |-> key, val |-> val, typed |-> TRUE]>>
Filters == {<< >>, Condition("keyword", "$seen"), Condition("notKeyword", "$seen"),
            Condition("subject", "one"), Condition("text", "odd"),
            Condition("keyword", "$seen") \o Condition("text", "odd")}

AskQuery ==
  \E d \in [1..5 -> 1..3], pos \in {0, 1, 3}, lim \in {-1, 0, 3},
     sort \in {<< >>, <<[prop |-> "receivedAt", asc |-> TRUE]>>} :
    LET Asked(f) == <<"query", Account(Dated(d)),
                      [position |-> pos, limit |-> lim, sort |-> sort, filter |-> f]>>
    IN  q' = Asked(Condition("inMailbox", 1)) \/ \E f \in Filters : q' = Asked(f)

\* The bases of the messages of a thread: Inbox first, each mailbox in order.
ThreadOf(a, id) ==
  LET In(box) == SetToSortSeq({f.base : f \in {g \in a.tree : g.root = id /\ g.mbox = box}}, <)
  IN  In(J!Inbox) \o In(1)

\* Email/query answers the page of the matches it was asked for and their exact
\* number, though it keeps no more of them than the page reaches (heap_offer,
\* heap_drain), or says why it does not; Thread/get finds every thread and all
\* its messages through an index that collides and grows (thr_find).
ReadsExact ==
  Of("query") =>
    LET a   == q[2]
        arg == q[3]
        filter == J!jmapd_query_filter_parse(arg.filter)
        wide == J!Position(arg.position) + J!Limit(arg.limit) > 4
        long == "text" \in DOMAIN filter /\ "keyword" \notin DOMAIN filter
        roots == {f.root : f \in a.tree}
        Ids(bases) == [i \in DOMAIN bases |-> <<"e", bases[i]>>]
        Listed(r, page) ==
          IF wide \/ long THEN r = J!Refused("serverLimit")
          ELSE /\ r.total = Cardinality(J!Matches(a, filter))
               /\ r.ids = Ids([i \in DOMAIN page |-> page[i].base])
        Threads(t) ==
          /\ {g.id : g \in ToSet(t.list)} = roots /\ Len(t.list) = Cardinality(roots)
          /\ \A g \in ToSet(t.list) : g.eids = Ids(ThreadOf(a, g.id))
          /\ ToSet(t.notFound) = {1, 9, 17, 25} \ roots
    IN  /\ Listed(J!jmapd_method_email_query(a, arg), J!Page(a, arg))
        /\ Threads(J!jmapd_method_thread_get(a, <<1, 9, 17, 25>>))

----------------------------------------------------------------------------

On1(path, v) == <<[path |-> path, val |-> v]>>
Patches ==
  {On1(<<"keywords", "$seen">>, v) : v \in {<<"true">>, <<"null">>, <<"bad">>}}
  \cup {On1(<<"mailboxIds">>, <<"obj", m>>) :
          m \in {<< <<3, <<"true">> >> >>, << >>, << <<1, <<"true">> >>, <<2, <<"true">> >> >>}}
  \cup {On1(<<"mailboxIds", 2>>, <<"null">>)}
Both == On1(<<"keywords">>, <<"obj", << <<"$draft", <<"true">> >> >> >>)
        \o On1(<<"mailboxIds">>, <<"obj", << <<3, <<"true">> >> >> >>)

Update(base, patch) == [id |-> <<"e", base>>, patch |-> patch]
Updates == {<<Update(b, p)>> : b \in {1, 3}, p \in Patches \cup {Both}}
           \cup {<<Update(1, p), Update(2, r)>> :
                   p \in {Both, On1(<<"keywords", "$seen">>, <<"true">>)}, r \in Patches \cup {Both}}

Idle == [kind |-> "none", base |-> 0, mbox |-> 0]
Disturbances == {Idle} \cup {[kind |-> k, base |-> b, mbox |-> 2] : k \in {"flag", "move", "gone"},
                                                                    b \in {1, 2}}

Marked(members) == [i \in DOMAIN members |-> <<members[i], <<"true">> >>]
Creates == [object : BOOLEAN, mboxes : {Marked(m) : m \in {<< >>, <<3>>, <<1, 2>>, <<7>>}},
            kws : {Marked(m) : m \in {<< >>, <<"$draft">>, <<"nil">>}},
            msg : {"ok", "tooLarge"}, came : {"ok", "failed", "unseen"}]
Created == [object |-> TRUE, mboxes |-> Marked(<<1>>), kws |-> << >>, msg |-> "ok", came |-> "ok"]

AskSet ==
  LET Asked(new, up, kill, x, at, why, box, seen) ==
        <<"set", Account({MailFile(2, 1, 1, IF seen THEN {"$seen"} ELSE {}),
                          MailFile(box, 2, 2, {})}),
          [create |-> new, update |-> up, destroy |-> kill, ifInState |-> "none"],
          [k \in 1..4 |-> IF k = at THEN x ELSE Idle],
          [k \in 1..4 |-> IF k = 1 THEN why ELSE "no"]>>
      Kills == {<< >>, << <<"e", 2>> >>}
  IN  \/ \E up \in Updates, kill \in Kills, x \in Disturbances, at \in 1..3,
            why \in {"no", "store", "move", "register"}, box \in {1, 2}, seen \in BOOLEAN :
           q' = Asked(<< >>, up, kill, x, at, why, box, seen)
      \/ \E e \in Creates, more \in {<< >>, <<Created>>}, kill \in Kills :
           q' = Asked(<<e>> \o more, <<Update(1, Both)>>, kill, Idle, 1, "no", 2, FALSE)

WithBase(tree, b) == {f \in tree : f.base = b}

\* Email/set does what it answers, message by message, though imapd changes
\* the same tree between its steps and a rename may fail: a created message is
\* there under the id answered, new, in the mailbox and with the keywords asked
\* for; an updated message is as the patch says (or the patch said nothing new),
\* in exactly one mailbox; a destroyed one is gone unless imapd was at it
\* meanwhile; a refused one is as it was, short of a serverFail; no step touches
\* another message; and a call that changed something says so, unless only the
\* registration failed or a new message was not found again (create_one,
\* set_update_one, set_destroy_one, update_write).  Left out: another delivery
\* between a create whose registration failed and create_locate, which then
\* takes the newest message for the created one.
SetTruth ==
  Of("set") =>
    LET call  == q[3]
        busy  == q[4]
        fault == q[5]
        nc    == Len(call.create)
        nu    == Len(call.update)
        BaseOf(k) == IF k <= nu THEN call.update[k].id[2] ELSE call.destroy[k - nu][2]
        \* what the patch was computed from: the message as it was located
        Was(b) == CHOOSE f \in q[2].tree : f.base = b
        Applied(k) == J!Patched(call.update[k].patch, Was(BaseOf(k)).mbox, Was(BaseOf(k)).flags)
        Asis(k) == Applied(k) = [flags |-> Was(BaseOf(k)).flags, boxes |-> {Was(BaseOf(k)).mbox}]
        New(e, v, before, after) ==
          /\ before \subseteq after
          /\ v.kind = "created" =>
               \E f \in after :
                 /\ after \ before = {f} /\ v.id = <<"e", f.base>> /\ WithBase(before, f.base) = {}
                 /\ e.mboxes = Marked(<<f.mbox>>)
                 /\ f.flags = {e.kws[i][1] : i \in DOMAIN e.kws}
          /\ v.kind = "notCreated" /\ v.why # "serverFail" => before = after
        Holds(k, b, v, before, after) ==
          /\ before \ WithBase(before, b) = after \ WithBase(after, b)
          /\ v.kind = "updated" =>
               \/ Asis(k) /\ before = after
               \/ \E f \in after : /\ WithBase(after, b) = {f}
                                   /\ [flags |-> f.flags, boxes |-> {f.mbox}] = Applied(k)
          /\ v.kind = "destroyed" =>
               WithBase(after, b) = {} \/ \E i \in DOMAIN busy : busy[i].base = b
          /\ v.kind \in {"notUpdated", "notDestroyed"} /\ v.why # "serverFail" => before = after
        Truth(s) ==
          /\ Len(s.out) = nc + nu + Len(call.destroy)
          /\ \A k \in DOMAIN s.out :
               IF k <= nc THEN New(call.create[k], s.out[k], s.steps[k][1], s.steps[k][2])
               ELSE Holds(k - nc, BaseOf(k - nc), s.out[k], s.steps[k][1], s.steps[k][2])
          /\ (\E k \in DOMAIN s.steps : s.steps[k][1] # s.steps[k][2]) =>
               \/ s.changed > 0 \/ fault[1] = "register"
               \/ \E k \in 1 .. nc : call.create[k].came = "unseen"
    IN  Truth(J!jmapd_method_email_set(q[2], call, busy, fault))

----------------------------------------------------------------------------

NoArgs == [create |-> << >>, update |-> << >>, destroy |-> << >>, ifInState |-> "none"]
Call(method, id, ref, ids, args) ==
  [shape |-> TRUE, method |-> method, callid |-> id, mine |-> TRUE, ref |-> ref, ids |-> ids,
   args |-> args, oom |-> FALSE]
Query(f) == Call("Email/query", "a", << >>, << >>,
                 [position |-> 0, limit |-> 3, sort |-> << >>, filter |-> f])
Found == <<"a", "Email/query", "ids">>
Destroy(ref, ids) == Call("Email/set", "b", ref, ids, NoArgs)
Get == Call("Email/get", "c", Found, << >>, NoArgs)

Calls == {Query(f) : f \in {<< >>, Condition("keyword", "$seen")}}
         \cup {Get, Destroy(Found, << >>), Destroy(<< >>, << <<"e", 1>> >>),
               [Get EXCEPT !.method = "Email/copy"], [Get EXCEPT !.shape = FALSE],
               [Get EXCEPT !.mine = FALSE], [Get EXCEPT !.oom = TRUE]}

AskRequest ==
  \E calls \in SeqOf(Calls, 4), using \in BOOLEAN :
    q' = <<"request", Account({MailFile(2, 1, 1, {"$seen"}), MailFile(1, 2, 2, {})}),
           [json |-> TRUE, using |-> using, calls |-> calls]>>

\* A request that is refused as a whole has changed nothing, wherever in it the
\* fault is, unless a method ran out of memory on the way; otherwise every call is
\* answered in its place, and what a query found is what a later call that
\* refers to it shows or destroys (api_call, resolve_ref).
RequestWhole ==
  Of("request") =>
    LET a    == q[2]
        n    == Len(q[3].calls)
        of(i) == q[3].calls[i]
        Seen(i) == J!Matches(a, J!jmapd_query_filter_parse(of(i).args.filter))
        Whole(r) ==
          /\ r.status = 400 /\ r.type # "serverFail" => r.a = a
          /\ r.status = 200 =>
               /\ [i \in DOMAIN r.prev |-> r.prev[i].callid] = [i \in 1..n |-> of(i).callid]
               /\ n >= 2 /\ of(1).method = "Email/query" /\ of(2).mine /\ of(2).ref = Found =>
                    IF of(2).method = "Email/get"
                    THEN {m.of : m \in ToSet(r.prev[2].answer.list)} = Seen(1)
                    ELSE r.a.tree \cap Seen(1) = {}
    IN  Whole(J!api_call(a, q[3]))

----------------------------------------------------------------------------
(* Copies: a message that IMAP COPY left in two mailboxes, under one base.   *)

AskCopies ==
  \E d \in [1..2 -> 1..2], n \in 1..2 :
    q' = <<"copies", Account({MailFile(1, 1, d[1], {}), MailFile(2, n, d[2], {})}),
           [json |-> TRUE, using |-> TRUE, calls |-> <<Query(<< >>), Get>>]>>

\* The ids an Email/query answers name the messages it found: an Email/get of
\* those ids shows these messages, each under the id that was asked for
\* (jmapd_email_locate, EntryId).
IdsRoundTrip ==
  Of("copies") =>
    LET Same(ids, found, shown) ==
          [i \in DOMAIN shown |-> <<shown[i].id, shown[i].of>>]
            = [i \in DOMAIN found |-> <<ids[i], found[i]>>]
        Told(prev) ==
          Same(prev[1].answer.ids, J!Page(q[2], q[3].calls[1].args), prev[2].answer.list)
    IN  Told(J!api_call(q[2], q[3]).prev)

----------------------------------------------------------------------------
(* HTTP: requests cut in two, or byte by byte, and two on one connection.     *)

W == INSTANCE HttpRequest WITH MaxReq <- 12, MaxHdr <- 12, MaxReqs <- 2

Sent(r) ==
  <<r.line, "r", "n">> \o FlattenSeq([i \in DOMAIN r.head |-> <<r.head[i], "r", "n">>])
  \o <<"r", "n">> \o [i \in 1 .. r.body |-> "b"]
Request(line, head, body) == [line |-> line, head |-> head, body |-> body]

\* Cut after symbol i; 0 is not at all, -1 is everywhere.
Pieces(s, i) == CASE i = 0 -> <<s>>
                  [] i > 0 -> <<SubSeq(s, 1, i), SubSeq(s, i + 1, Len(s))>>
                  [] i < 0 -> [k \in DOMAIN s |-> <<s[k]>>]
Cuts(r) == -1 .. Len(Sent(r)) - 1

Heads == {<< >>} \cup UNION {{<<h>>, <<"asA", h>>, <<h, "len2">>, <<"asA", "other", h>>} :
                              h \in DOMAIN W!Header}
Kept == {Request(l, h, IF "len1" \in ToSet(h) THEN 1 ELSE 0) :
           l \in {"postApi", "getSession", "postOld"},
           h \in {<<"asA", "len1">>, <<"len0", "asB">>, <<"len1">>, <<"keep", "asB">>}}

AskHttp ==
  \/ \E l \in DOMAIN W!RequestLine, h \in Heads, b \in 0..2 :
       LET r == Request(l, h, b) IN \E i \in Cuts(r) : q' = <<"http", r, i>>
  \/ \E r, s \in Kept : \E i \in Cuts(r), j \in {-1, 0, 4} : q' = <<"pair", r, i, s, j>>

RECURSIVE Admin(_, _), Jmapd(_, _)
Admin(c, pieces) ==
  IF pieces = << >> THEN c ELSE Admin(W!http_conn_on_readable(c, Head(pieces)), Tail(pieces))
Jmapd(c, pieces) ==
  IF pieces = << >> THEN c ELSE Jmapd(W!jmapd_http_readable(c, Head(pieces)), Tail(pieces))

\* A request is understood in the same way however it is cut on its way, as long
\* as it fits and nothing is sent behind it; a body is handed on only when it is
\* as long as was declared, and a request that is whole is always answered
\* (http_process).  On a connection that is kept, jmapd answers a second request
\* as if it were the first, with the principal of its own credentials
\* (jmapd_http_readable).
FramedExact ==
  /\ Of("http") =>
       LET s     == Sent(q[2])
           cl    == {i \in DOMAIN q[2].head : W!Header[q[2].head[i]].name = "Content-Length"}
           first == W!Header[q[2].head[Min(cl)]]
           declared(v) == IF cl = {} \/ v = -1 THEN 0 ELSE v
           lax   == IF cl = {} \/ ~first.fits THEN 0 ELSE declared(first.lax)
           strict == IF cl = {} THEN 0 ELSE declared(first.strict)
           AsOne(a, whole) ==
             /\ q[2].body <= lax /\ Len(s) <= 12 => a = [whole EXCEPT !.recv = a.recv]
             /\ a.answer = 200 => Len(a.body) = lax /\ lax <= q[2].body
             /\ q[2].body >= lax => a.answer # 0
           AllAnswered(out, whole) ==
             /\ q[2].body <= strict /\ Len(s) <= 12 => out = whole
             /\ out # << >> /\ out[1].status = 200 /\ q[2].line # "getSession" =>
                  Len(out[1].body) = strict /\ strict <= q[2].body
             /\ q[2].body >= strict => out # << >>
       IN  /\ AsOne(Admin(W!HttpConn, Pieces(s, q[3])), Admin(W!HttpConn, <<s>>))
           /\ AllAnswered(Jmapd(W!JmapdConn, Pieces(s, q[3])).out, Jmapd(W!JmapdConn, <<s>>).out)
  /\ Of("pair") =>
       LET Both2(one, two) == one \o (IF one[1].keep THEN <<[two[1] EXCEPT !.keep = FALSE]>> ELSE << >>)
       IN  Jmapd(W!JmapdConn, Pieces(Sent(q[2]), q[3]) \o Pieces(Sent(q[4]), q[5])).out
             = Both2(Jmapd(W!JmapdConn, <<Sent(q[2])>>).out, Jmapd(W!JmapdConn, <<Sent(q[4])>>).out)

----------------------------------------------------------------------------
(* POP3: sessions from the greeting on and within a mailbox of two messages,  *)
(* and messages sent as fast as the client takes them.                        *)

P == INSTANCE Pop3 WITH OutHalf <- 3, Chunk <- 2, HdrCap <- 4

PopBox == <<[size |-> 2, base |-> "x", there |-> TRUE], [size |-> 3, base |-> "y", there |-> FALSE]>>
Entered == [P!Pop3Conn(PopBox) EXCEPT !.pst = "trans", !.user = "u"]

AskPop3 ==
  \/ \E tls, loopback \in BOOLEAN,
        cmds \in SeqOf({<<"USER", "u">>, <<"USER", "">>, <<"PASS", "good">>, <<"PASS", "bad">>,
                        <<"PASS", "unopened">>, <<"STLS", FALSE>>, <<"STLS", TRUE>>, <<"STAT">>}, 4) :
       q' = <<"login", [tls |-> tls, loopback |-> loopback], cmds>>
  \/ \E cmds \in SeqOf({<<"DELE", 1>>, <<"DELE", 2>>, <<"RSET">>, <<"STAT">>, <<"LIST", 0>>,
                        <<"UIDL", 0>>, <<"UIDL", 2>>, <<"RETR", 1>>, <<"TOP", 2>>, <<"QUIT">>}, 4) :
       q' = <<"marks", cmds>>
  \/ \E m \in SeqOf({"a", ".", "r", "n"}, 5), top \in -1..2, pace \in {1, 3} :
       q' = <<"retr", m, top, pace>>

\* Who is let in, told from the commands alone.
RECURSIVE LoggedIn(_, _, _)
Handshake(srv, cmds, i) ==
  /\ srv.tls /\ cmds[i] = <<"STLS", FALSE>> /\ ~LoggedIn(srv, cmds, i - 1)
  /\ \A h \in 1 .. i - 1 : cmds[h] # <<"STLS", FALSE>>
Secure(srv, cmds, i) ==
  ~srv.tls \/ srv.loopback \/ \E h \in 1 .. i - 1 : Handshake(srv, cmds, h)
LoggedIn(srv, cmds, k) ==
  /\ k > 0
  /\ \/ LoggedIn(srv, cmds, k - 1)
     \/ /\ cmds[k] = <<"PASS", "good">>
        /\ \E j \in 1 .. k - 1 :
             /\ cmds[j] = <<"USER", "u">> /\ Secure(srv, cmds, j)
             /\ \A i \in j + 1 .. k - 1 : cmds[i][1] # "PASS" /\ ~Handshake(srv, cmds, i)

\* A client enters with a user and a password given one after the other, and not
\* in the clear where TLS is to be had and the listener is open to the network;
\* what it marked, and not what it unmarked, is missing from every listing, under
\* numbers that stay (pop3_command).
SessionExact ==
  /\ Of("login") =>
       LET c == P!pop3_commands(q[2], P!Pop3Conn(PopBox), q[3])
       IN  \A k \in DOMAIN q[3] :
             q[3][k] = <<"STAT">> => (c.out[k][1] = "+OK" <=> LoggedIn(q[2], q[3], k))
  /\ Of("marks") =>
       LET cmds == q[2]
           c    == P!pop3_commands([tls |-> FALSE, loopback |-> FALSE], Entered, cmds)
           left(k) == {n \in {1, 2} : ~\E d \in 1 .. k - 1 :
                         /\ cmds[d] = <<"DELE", n>>
                         /\ \A i \in d + 1 .. k - 1 : cmds[i] # <<"RSET">>}
           octets(k) == MapThenSumSet(LAMBDA n : PopBox[n].size, left(k))
           rows(k, Col(_)) == [i \in 1 .. Cardinality(left(k)) |->
                                 LET n == SetToSortSeq(left(k), <)[i] IN <<n, Col(n)>>]
       IN  \A k \in DOMAIN c.out :
             /\ cmds[k] = <<"STAT">> => c.out[k] = <<"+OK", Cardinality(left(k)), octets(k)>>
             /\ cmds[k] = <<"LIST", 0>> =>
                  c.out[k] = <<"+OK", Cardinality(left(k)), octets(k)>>
                             \o rows(k, LAMBDA n : PopBox[n].size)
             /\ cmds[k] = <<"UIDL", 0>> =>
                  c.out[k] = <<"+OK", Cardinality(left(k))>> \o rows(k, LAMBDA n : PopBox[n].base)
             /\ cmds[k][1] \in {"RETR", "TOP"} =>
                  (c.out[k][1] = "+OK" <=> cmds[k][2] \in left(k) /\ PopBox[cmds[k][2]].there)

\* What a client makes of the lines it is sent, up to the dot.
RECURSIVE Unstuffed(_)
Unstuffed(s) ==
  LET line == SubSeq(s, 1, Min({i \in DOMAIN s : s[i] = "n"}))
      rest == SubSeq(s, Len(line) + 1, Len(s))
      r    == Unstuffed(rest)
  IN  IF line = <<".", "r", "n">> THEN [text |-> << >>, behind |-> rest]
      ELSE [r EXCEPT !.text = (IF line[1] = "." THEN Tail(line) ELSE line) \o @]

RECURSIVE LinesOf(_)
LinesOf(m) ==
  LET ends == {i \in DOMAIN m : m[i] = "n"}
      n    == IF ends = {} THEN Len(m) ELSE Min(ends)
  IN  IF m = << >> THEN << >> ELSE <<SubSeq(m, 1, n)>> \o LinesOf(SubSeq(m, n + 1, Len(m)))
BlankLine(line) == line \in {<<"n">>, <<"r", "n">>}

\* RETR and TOP send the message, or its head and as many lines as were asked
\* for, so that the client reads just that, whatever the message has dots in
\* front of and wherever a chunk of it ends (imapd_pop3_pump, stuff, top_cut).
\* Left out, for TOP, are messages that begin with the blank line, whose head the
\* code takes to be longer (hdr_end_of looks for a line end before it), and those
\* whose head does not end within IMAPD_HDR_CAP, where it is cut there.
RetrExact ==
  Of("retr") =>
    LET ls   == LinesOf(q[2])
        head == {i \in DOMAIN ls : BlankLine(ls[i])}
        n    == IF head = {} THEN Len(ls) ELSE Min({Len(ls), Min(head) + q[3]})
        text == IF q[3] < 0 THEN q[2] ELSE FlattenSeq(SubSeq(ls, 1, n))
        whole == IF text = << >> \/ Last(text) = "n" THEN text ELSE text \o <<"r", "n">>
        out  == P!Streamed(P!start_retr(q[2], q[3]), q[4])
        fits == /\ 1 \notin head
                /\ Len(FlattenSeq(SubSeq(ls, 1, IF head = {} THEN Len(ls) ELSE Min(head)))) <= 4
    IN  q[3] < 0 \/ fits =>
          /\ out[1] = "+OK"
          /\ Unstuffed(Tail(out)) = [text |-> whole, behind |-> << >>]

----------------------------------------------------------------------------
(* Mailboxes: patterns against names, and the commands that make, move and    *)
(* list mailboxes, with mail arriving in between.                             *)

G == INSTANCE ImapFolders

FolderNames == {<<"a">>, <<"A">>, <<"i">>, <<".", "a">>}
Spelled == FolderNames \cup {<<"a", ".", "a">>, G!INBOX}
FolderCommands ==
  {<<c, n>> : c \in {"CREATE", "DELETE", "SUBSCRIBE", "UNSUBSCRIBE"}, n \in FolderNames}
  \cup {<<"RENAME", n, m>> : n, m \in {<<"a">>, <<"A">>, <<"a", ".", "a">>, <<"I">>}}
  \cup {<<"MAIL", f>> : f \in {<<"none">>, <<"a">>, <<".", "a">>}}

AskFolders ==
  \/ \E pat \in SeqOf({"a", ".", "*", "%"}, 4), name \in SeqOf({"a", "A", "."}, 4) :
       q' = <<"wild", pat, name>>
  \/ \E cmds \in SeqOf(FolderCommands, 3) :
       q' = <<"folders", << <<"CREATE", <<"a">> >>, <<"MAIL", <<"a">> >> >> \o cmds>>
  \/ \E cmds \in SeqOf(FolderCommands, 2) : q' = <<"folders", cmds>>

\* What imapd.h says of a pattern: "*" is any run, "%" any run without a dot.
RECURSIVE Matches(_, _)
Matches(pat, name) ==
  LET Rest(k) == SubSeq(name, k, Len(name))
      Run(k)  == pat[1] = "*" \/ "." \notin {name[i] : i \in 1 .. k - 1}
  IN  IF pat = << >> THEN name = << >>
      ELSE IF pat[1] \in {"*", "%"}
             THEN \E k \in 1 .. Len(name) + 1 : Run(k) /\ Matches(Tail(pat), Rest(k))
      ELSE name # << >> /\ G!lower(name[1]) = pat[1] /\ Matches(Tail(pat), Tail(name))

\* Every wildcard is the last character or has a letter behind it, "*" a dot.
Ordinary(pat) ==
  \A i \in 1 .. Len(pat) - 1 :
    /\ pat[i] = "*" => pat[i + 1] \in {"a", "."}
    /\ pat[i] = "%" => pat[i + 1] = "a"

\* The user and the replies after each of the commands.
After(cmds) ==
  LET Next1(x, y) == [u |-> y.u, r |-> Append(x.r, y.r)]
  IN  FoldLeft(LAMBDA x, k : Next1(x, G!Command(x.u, cmds[k], k)),
               [u |-> G!NoUser, r |-> << >>], [k \in DOMAIN cmds |-> k])

\* What the replies r to the commands say of the user u they led to.
TrueOf(cmds, u, r) ==
  LET Done(k, c, n) == cmds[k][1] = c /\ cmds[k][2] = n /\ r[k] = "OK"
      Into(k) == IF cmds[k][2] = <<"a">> THEN <<"a">> ELSE G!INBOX
      Renamed(k) == IF cmds[k][1] = "RENAME" /\ r[k] = "OK" THEN {cmds[k][3]} ELSE {}
      Makes(k, n) == Done(k, "CREATE", n) \/ n \in Renamed(k) \/ (cmds[k][1] = "MAIL" /\ Into(k) = n)
      Takes(k, n) == Done(k, "DELETE", n) \/ Done(k, "RENAME", n)
      Subs(k, n)  == \E y \in Spelled : Done(k, "SUBSCRIBE", y) /\ G!imapd_mbox_dir(y) = {n}
      Drops(k, n) == \E y \in Spelled : Done(k, "UNSUBSCRIBE", y) /\ G!imapd_mbox_dir(y) = {n}
      Lasts(n, On(_, _), Off(_, _)) ==
        \E k \in DOMAIN cmds : On(k, n) /\ \A j \in k + 1 .. Len(cmds) : ~Off(j, n)
      There(n) == Lasts(n, Makes, Takes)
      Follow(n, k) == CASE Done(k, "DELETE", n) -> << >>
                        [] Done(k, "RENAME", n) -> cmds[k][3]
                        [] OTHER -> n
      Now(k) == FoldLeft(Follow, Into(k), [j \in 1 .. Len(cmds) - k |-> k + j])
      Once(l) == ToSet(l) = {G!INBOX} \cup {n \in Spelled : There(n)} /\ IsInjective(l)
  IN  /\ Once(G!do_list(u, <<"*">>, FALSE))
      /\ ToSet(G!do_list(u, <<"*">>, TRUE))
           = {G!INBOX} \cup {n \in Spelled : Lasts(n, Subs, Drops) /\ There(n)}
      /\ \A k \in DOMAIN cmds : cmds[k][1] = "MAIL" =>
           {d \in DOMAIN u.box : k \in ToSet(u.box[d])} = {Now(k)} \ {<< >>}

\* A name that a pattern finds is one it describes, and an ordinary pattern
\* finds all of them (imapd_wildmat).  What a client was told is what there is:
\* LIST shows the mailboxes that were made and not removed since, LSUB those
\* subscribed to that are there, and a message taken in is in the mailbox its
\* own one has become, unless that was deleted (do_create, do_delete,
\* do_rename, do_subscribe, do_list, imapd_delivery_target).
FoldersExact ==
  /\ Of("wild") =>
       /\ G!imapd_wildmat(q[2], q[3]) => Matches(q[2], q[3])
       /\ Ordinary(q[2]) /\ Matches(q[2], q[3]) => G!imapd_wildmat(q[2], q[3])
  /\ Of("folders") =>
       LET Told(end) == TrueOf(q[2], end.u, end.r) IN Told(After(q[2]))

----------------------------------------------------------------------------
\* What a client is sent in pieces is what it was promised as a whole: the
\* literals of a FETCH response, the messages of POP3, and the blobs and body
\* values of JMAP (imapd_fetch_pump, imapd_pop3_pump, jmapd_download_pump).
BytesExact == FetchExact /\ DecodeExact /\ RetrExact

\* A request is taken for what it is, and does what its answer says: those of
\* HTTP as they arrive, those of JMAP call by call and message by message, those
\* of POP3 in their order, those of IMAP on whole mailboxes (http_process,
\* jmapd_http_readable, api_call, jmapd_method_email_set, pop3_command,
\* do_rename).
RequestTrue == SetTruth /\ RequestWhole /\ FramedExact /\ SessionExact /\ FoldersExact
=============================================================================
