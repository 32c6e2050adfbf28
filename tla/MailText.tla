------------------------------ MODULE MailText ------------------------------
(* The text of a message on its way through visage: line ends and dots byte  *)
(* by byte ("r" and "n" are CR and LF), headers line by line, and the        *)
(* address lists of To and Cc token by token.                               *)
EXTENDS Integers, Sequences, SequencesExt, FiniteSets, FiniteSetsExt

----------------------------------------------------------------------------
(* Line ends, rewritten in the buffer itself. *)

BugBareCR(b) ==
  Len(b) + Cardinality({i \in DOMAIN b : b[i] = "n" /\ (i = 1 \/ b[i - 1] # "r")})

\* crlf_newlen: a CR with its LF, a bare CR and a bare LF count two each.
crlf_newlen(b) ==
  LET Pair(i) == b[i] = "n" /\ i > 1 /\ b[i - 1] = "r"
  IN  Len(b) + Cardinality({i \in DOMAIN b : b[i] \in {"r", "n"} /\ ~Pair(i)})
             - Cardinality({i \in DOMAIN b : Pair(i)})

Put2(buf, w) == [buf EXCEPT ![w] = "n", ![w - 1] = "r"]

\* crlf_rewrite: from the back, w is where the next byte goes and i the next
\* one to read; whether a CR precedes is looked up before anything is written.
RECURSIVE crlf_rewrite(_, _, _)
crlf_rewrite(buf, w, i) ==
  IF i = 0 THEN buf
  ELSE IF buf[i] = "n"
         THEN LET has_cr == i >= 2 /\ buf[i - 1] = "r"
              IN  crlf_rewrite(Put2(buf, w), w - 2, i - (IF has_cr THEN 2 ELSE 1))
  ELSE IF buf[i] = "r" THEN crlf_rewrite(Put2(buf, w), w - 2, i - 1)
  ELSE crlf_rewrite([buf EXCEPT ![w] = buf[i]], w - 1, i - 1)

\* mail_normalize_crlf: the buffer has room for the new length.
mail_normalize_crlf(b) ==
  LET n == crlf_newlen(b)
      room == b \o [k \in 1 .. Max({0, n - Len(b)}) |-> "x"]
  IN  SubSeq(crlf_rewrite(room, n, Len(b)), 1, n)

\* What it should give: every kind of line end becomes CR LF.
RECURSIVE Normal(_)
Normal(b) ==
  IF b = <<>> THEN <<>>
  ELSE IF b[1] = "r" /\ Len(b) > 1 /\ b[2] = "n" THEN <<"r", "n">> \o Normal(SubSeq(b, 3, Len(b)))
  ELSE IF b[1] \in {"r", "n"} THEN <<"r", "n">> \o Normal(Tail(b))
  ELSE <<b[1]>> \o Normal(Tail(b))

----------------------------------------------------------------------------
(* Dots. *)

LineStart(b, i) == i = 1 \/ b[i - 1] \in {"r", "n"}

\* mail_stuff_dots: a dot more where a line starts with one.
mail_stuff_dots(b) ==
  LET Byte(o, i) == IF b[i] = "." /\ LineStart(b, i) THEN o \o <<".", ".">>
                    ELSE Append(o, b[i])
  IN  FoldLeft(Byte, <<>>, [i \in DOMAIN b |-> i])

\* mail_unstuff_dots: a dot less; what follows a dropped dot starts no line.
mail_unstuff_dots(b) ==
  LET Byte(s, c) == IF s.start /\ c = "." THEN [s EXCEPT !.start = FALSE]
                    ELSE [out |-> Append(s.out, c), start |-> c \in {"r", "n"}]
  IN  FoldLeft(Byte, [out |-> <<>>, start |-> TRUE], b).out

\* A line that is a dot and nothing else ends the message.
EndsEarly(b) ==
  \E i \in DOMAIN b : /\ b[i] = "." /\ LineStart(b, i)
                      /\ i < Len(b) /\ b[i + 1] \in {"r", "n"}

----------------------------------------------------------------------------
(* Headers.  A message is its header lines, each a name and a value (the     *)
(* name "" stands for a line that is no header), and the rest.               *)

\* mail_header_get: the first one.
mail_header_get(m, name) ==
  LET at == {i \in DOMAIN m.head : m.head[i].name = name}
  IN  IF at = {} THEN <<>> ELSE m.head[Min(at)].val

\* mail_header_set: in place of the first one, else after the last header.
mail_header_set(m, name, val) ==
  LET at == {i \in DOMAIN m.head : m.head[i].name = name}
      line == [name |-> name, val |-> val]
  IN  IF at = {} THEN [m EXCEPT !.head = Append(@, line)]
      ELSE [m EXCEPT !.head[Min(at)] = line]

BugFirstOnly(m, name) ==
  LET at == {i \in DOMAIN m.head : m.head[i].name = name}
  IN  IF at = {} THEN m ELSE [m EXCEPT !.head = RemoveAt(@, Min(at))]

\* mail_header_remove: all of them.
mail_header_remove(m, name) ==
  [m EXCEPT !.head = SelectSeq(@, LAMBDA h : h.name # name)]

Identity == <<"Return-Path", "From", "Sender", "Reply-To">>

\* mail_sanitize_for_forward: rw has a value for some of the four headers.
mail_sanitize_for_forward(m, rw) ==
  LET Step(x, name) == IF name \notin DOMAIN rw THEN x
                       ELSE mail_header_set(mail_header_remove(x, name), name, rw[name])
      y == mail_header_remove(FoldLeft(Step, m, Identity), "DKIM-Signature")
  IN  [y EXCEPT !.head = <<[name |-> "Received", val |-> <<"visage">>]>> \o @]

----------------------------------------------------------------------------
(* The reverse alias in To and Cc.  A list is a sequence of tokens: words,   *)
(* "T" for the reverse alias, and the three marks.                          *)

Mark == {",", ":", ";"}

\* scan_address: where the element that starts at i ends, and its group marks.
RECURSIVE ScanFrom(_, _, _, _)
ScanFrom(s, end, i, r) ==
  IF i > end THEN [r EXCEPT !.next = i]
  ELSE IF s[i] = ":"
         THEN ScanFrom(s, end, i + 1, [r EXCEPT !.colon = IF r.depth = 0 THEN i ELSE @,
                                               !.depth = @ + 1])
  ELSE IF s[i] = ";" /\ r.depth = 1 THEN [r EXCEPT !.semi = i, !.next = i + 1]
  ELSE IF s[i] = ";" THEN ScanFrom(s, end, i + 1, [r EXCEPT !.depth = Max({0, @ - 1})])
  ELSE IF s[i] = "," /\ r.depth = 0 THEN [r EXCEPT !.next = i]
  ELSE ScanFrom(s, end, i + 1, r)
scan_address(s, start, end) ==
  ScanFrom(s, end, start, [colon |-> 0, semi |-> 0, depth |-> 0, next |-> 0])

\* mailbox_matches: the last word is the address.
mailbox_matches(s, start, end) == s[end] = "T"

\* ob_put_elem: joined to what is there with a comma.
Join(o, e) == IF o = <<>> THEN e ELSE IF e = <<>> THEN o ELSE o \o <<",">> \o e

\* addr_list_process: the elements of s[i..end]; a group is gone into.
RECURSIVE addr_list_process(_, _, _, _)
addr_list_process(s, i, end, st) ==
  IF i > end THEN st
  ELSE IF s[i] = "," THEN addr_list_process(s, i + 1, end, st)
  ELSE
    LET r == scan_address(s, i, end)
        elem == SubSeq(s, i, r.next - 1)
        body == addr_list_process(s, r.colon + 1, r.semi - 1, [out |-> <<>>, matched |-> FALSE])
        group == r.colon # 0
        kept == CASE group /\ r.semi # 0 /\ r.colon > i /\ body.out = <<>> ->
                       IF body.matched THEN <<>> ELSE elem
                  [] group /\ r.semi # 0 /\ r.colon > i /\ body.out # <<>> ->
                       SubSeq(s, i, r.colon) \o body.out \o SubSeq(s, r.semi, r.next - 1)
                  [] group /\ ~(r.semi # 0 /\ r.colon > i) -> elem
                  [] OTHER -> IF mailbox_matches(s, i, r.next - 1) THEN <<>> ELSE elem
        hit == IF ~group THEN mailbox_matches(s, i, r.next - 1)
               ELSE r.semi # 0 /\ r.colon > i /\ body.matched
    IN  addr_list_process(s, r.next, end, [out |-> Join(st.out, kept), matched |-> st.matched \/ hit])

\* addr_list_strip and reply_strip_reverse: the first To and the first Cc; a
\* list that is empty afterwards takes the header away.
addr_list_strip(s) == addr_list_process(s, 1, Len(s), [out |-> <<>>, matched |-> FALSE])
reply_strip_reverse(m) ==
  LET Step(x, name) ==
        LET r == addr_list_strip(mail_header_get(x, name))
        IN  IF ~r.matched THEN x
            ELSE IF r.out = <<>> THEN mail_header_remove(x, name)
            ELSE mail_header_set(x, name, r.out)
  IN  FoldLeft(Step, m, <<"To", "Cc">>)

\* A list as it is meant: mailboxes and groups of mailboxes.  A member is a
\* word; a group is its name and its members.
RECURSIVE Rendered(_)
Rendered(l) ==
  FoldLeft(LAMBDA o, x : Join(o, IF Len(x) = 1 THEN x
                                 ELSE <<x[1], ":">> \o Rendered(x[2]) \o <<";">>), <<>>, l)
Stripped(l) ==
  LET Keep(x) == IF Len(x) = 1 THEN x # <<"T">> ELSE x[2] = <<>> \/ \E i \in DOMAIN x[2] : x[2][i] # <<"T">>
      Less(x) == IF Len(x) = 1 THEN x ELSE <<x[1], SelectSeq(x[2], LAMBDA y : y # <<"T">>)>>
      k == SelectSeq(l, Keep)
  IN  [i \in DOMAIN k |-> Less(k[i])]
=============================================================================
