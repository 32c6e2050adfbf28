----------------------------- MODULE ImapSearch -----------------------------
(***************************************************************************)
(* SEARCH and SORT of imapd (imapd_imap.c): the parser of search programs, *)
(* the plan of what to read for a program, the scan in slices of a byte    *)
(* budget, and the header cache of imap_maildir.c that answers for the     *)
(* headers.                                                                *)
(*                                                                         *)
(* A message is a record: uid, the flags fl, recent, day (its internal     *)
(* date), modseq, size, hdr (for every header name the set of words in its *)
(* value), mid (<<the Message-ID words in the uidlist>>, or << >>), hlen   *)
(* bytes of header, body: for every word the offset of its last byte, file *)
(* (whether the file can be opened), and the cache: loaded, valid, fresh   *)
(* (the stat guard still fits) and cached (its words, by header name).     *)
(***************************************************************************)
EXTENDS Integers, Sequences, FiniteSets, FiniteSetsExt, SequencesExt

CONSTANTS
  SearchBudget,   \* IMAPD_SEARCH_BUDGET: bytes of one slice
  MsgCost         \* IMAPD_SEARCH_MSGCOST = MAIL_HDR_MSGCOST

Indexed == {"From", "To", "Cc", "Bcc", "Subject", "Date"}   \* MAIL_HDR_FIELDS

-----------------------------------------------------------------------------
(* Programs: a key is a record with a kind; NOT, OR and AND carry keys.     *)

FlagKey  == [ANSWERED |-> "A", DELETED |-> "T", DRAFT |-> "D", FLAGGED |-> "F", SEEN |-> "S"]
HdrKey   == [FROM |-> "From", TO |-> "To", CC |-> "Cc", BCC |-> "Bcc", SUBJECT |-> "Subject"]
DateKeys == {"SINCE", "ON", "BEFORE", "SENTSINCE", "SENTON", "SENTBEFORE"}
NumKeys  == {"LARGER", "SMALLER", "MODSEQ"}
SetKeys  == {"UID", "SEQ"}
StrKeys  == DOMAIN HdrKey \cup {"BODY", "TEXT", "KEYWORD", "UNKEYWORD"}
BareKeys == DOMAIN FlagKey \cup {"ALL", "NEW", "OLD", "RECENT", "UNSEEN"}

Key(kind, x) == [kind |-> kind, x |-> x]
Not(a)       == [kind |-> "NOT", a |-> a]
Or(a, b)     == [kind |-> "OR", a |-> a, b |-> b]
And(a, b)    == [kind |-> "AND", a |-> a, b |-> b]

\* search_hdr_name: x of a HEADER key is the pair of its name and its word.
search_hdr_name(k) == IF k.kind = "HEADER" THEN k.x[1] ELSE HdrKey[k.kind]
Needle(k) == IF k.kind = "HEADER" THEN k.x[2] ELSE k.x

\* A sequence set is a sequence of pairs; 0 stands for "*".
Star(n, star)           == IF n = 0 THEN star ELSE n
seqset_tok(r, star)     == LET a == Star(r[1], star)  b == Star(r[2], star)
                           IN  IF a <= b THEN a..b ELSE b..a
imapd_seqset_valid(set) == set # <<>> /\ \A i \in DOMAIN set : set[i] \in Nat \X Nat
imapd_seqset_has(set, n, star) ==
  star # 0 /\ \E i \in DOMAIN set : n \in seqset_tok(set[i], star)

Failed == [ok |-> FALSE, key |-> Key("ALL", 0), rest |-> <<>>]
None   == [ok |-> TRUE, key |-> Key("none", 0), rest |-> <<>>]

\* The argument of a key, by its kind; a bad one fails the program.
ArgOk(kind, arg) ==
  CASE kind \in SetKeys  -> imapd_seqset_valid(arg)
    [] kind \in NumKeys \cup DateKeys -> arg \in Nat
    [] OTHER -> TRUE

RECURSIVE imapd_search_parse_depth(_, _), Group(_, _, _)

MaxSearchDepth == 64    \* IMAPD_MAX_SEARCH_DEPTH

\* One key from a sequence of tokens: "(", ")", names, and arguments as
\* <<"arg", value>>.  A parenthesis is the AND of its keys; NOT and OR take
\* their keys with a fresh depth.
imapd_search_parse_depth(s, depth) ==
  IF depth > MaxSearchDepth THEN Failed
  ELSE IF s = <<>> THEN None
  ELSE LET t == Head(s)  r == Tail(s)
           one == imapd_search_parse_depth(r, 0)
           two == imapd_search_parse_depth(one.rest, 0)
           Real(p) == p.ok /\ p.key.kind # "none"
       IN  CASE t = "(" -> Group(r, depth, <<>>)
             [] t = ")" -> Failed
             [] t = "NOT" -> IF Real(one) THEN [one EXCEPT !.key = Not(@)] ELSE Failed
             [] t = "OR" -> IF Real(one) /\ Real(two)
                            THEN [two EXCEPT !.key = Or(one.key, @)] ELSE Failed
             [] t \in BareKeys -> [ok |-> TRUE, key |-> Key(t, 0), rest |-> r]
             [] OTHER -> IF r # <<>> /\ Head(r)[1] = "arg" /\ ArgOk(t, Head(r)[2])
                         THEN [ok |-> TRUE, key |-> Key(t, Head(r)[2]), rest |-> Tail(r)]
                         ELSE Failed

\* The keys of a chain of SK_AND nodes, each with its key in a and the rest
\* in b.  The last node of a parenthesis has no b.
Chain(keys) ==
  FoldRight(LAMBDA k, acc : IF acc.kind = "none" THEN k ELSE And(k, acc), keys, Key("none", 0))

Group(s, depth, keys) ==
  IF s = <<>> THEN Failed
  ELSE IF Head(s) = ")"
       THEN IF keys = <<>> THEN Failed
            ELSE [ok |-> TRUE, rest |-> Tail(s),
                  key |-> FoldRight(LAMBDA k, acc : And(k, acc), keys, Key("null", 0))]
  ELSE LET p == imapd_search_parse_depth(s, depth + 1)
       IN  IF ~p.ok \/ p.key.kind = "none" THEN Failed
           ELSE Group(p.rest, depth, Append(keys, p.key))

RECURSIVE Program(_, _)
Program(s, keys) ==
  LET p == imapd_search_parse_depth(s, 0)
  IN  IF ~p.ok THEN Failed
      ELSE IF p.key.kind = "none"
           THEN IF keys = <<>> THEN Failed ELSE [p EXCEPT !.key = Chain(keys)]
           ELSE Program(p.rest, Append(keys, p.key))

imapd_search_parse_program(s) == Program(s, <<>>)

-----------------------------------------------------------------------------
(* What has to be read                                                      *)

RECURSIVE imapd_search_needs_body(_), imapd_search_needs_hdr(_),
          imapd_search_hdr_cacheable(_), imapd_search_only_msgid(_)

imapd_search_needs_body(k) ==
  CASE k.kind \in {"BODY", "TEXT"} -> TRUE
    [] k.kind = "NOT" -> imapd_search_needs_body(k.a)
    [] k.kind \in {"OR", "AND"} -> imapd_search_needs_body(k.a) \/ imapd_search_needs_body(k.b)
    [] OTHER -> FALSE

imapd_search_needs_hdr(k) ==
  CASE k.kind \in DOMAIN HdrKey \cup {"HEADER", "BODY", "TEXT"} -> TRUE
    [] k.kind = "NOT" -> imapd_search_needs_hdr(k.a)
    [] k.kind \in {"OR", "AND"} -> imapd_search_needs_hdr(k.a) \/ imapd_search_needs_hdr(k.b)
    [] OTHER -> FALSE

imapd_search_hdr_cacheable(k) ==
  CASE k.kind = "HEADER" -> k.x[1] \in {"Message-ID", "Date"}
    [] k.kind \in {"BODY", "TEXT"} -> FALSE
    [] k.kind = "NOT" -> imapd_search_hdr_cacheable(k.a)
    [] k.kind \in {"OR", "AND"} ->
         imapd_search_hdr_cacheable(k.a) /\ imapd_search_hdr_cacheable(k.b)
    [] OTHER -> TRUE

imapd_search_only_msgid(k) ==
  CASE k.kind = "HEADER" -> k.x[1] = "Message-ID"
    [] k.kind \in DOMAIN HdrKey \cup {"BODY", "TEXT"} -> FALSE
    [] k.kind = "NOT" -> imapd_search_only_msgid(k.a)
    [] k.kind \in {"OR", "AND"} -> imapd_search_only_msgid(k.a) /\ imapd_search_only_msgid(k.b)
    [] OTHER -> TRUE

\* do_search and do_sort decide once for the whole program.
Plan(prog, sort) ==
  LET msgid == ~sort /\ imapd_search_only_msgid(prog)
      needs == ~msgid /\ imapd_search_needs_body(prog)
  IN  [needs |-> needs, needhdr |-> ~msgid /\ imapd_search_needs_hdr(prog),
       hdr_only |-> ~needs /\ imapd_search_hdr_cacheable(prog)]

-----------------------------------------------------------------------------
(* Matching one message.  doc is what was read: n bytes, or -1 for nothing. *)

\* mail_header_get on the bytes read.
Header(m, doc, name) ==
  IF doc >= m.hlen /\ name \in DOMAIN m.hdr THEN m.hdr[name] ELSE {}

\* ci_strstr over the bytes from `from' on.
InText(m, doc, from, w) ==
  \/ from = 0 /\ \E h \in DOMAIN m.hdr : w \in Header(m, doc, h)
  \/ w \in DOMAIN m.body /\ m.body[w] <= doc /\ doc > m.hlen

search_keyword_match(m, kw) == kw \in m.fl

RECURSIVE imapd_search_match(_, _, _, _, _, _)
imapd_search_match(k, m, doc, seq, uidnext, nmsgs) ==
  LET Rec(j) == imapd_search_match(j, m, doc, seq, uidnext, nmsgs)
  IN  CASE k.kind = "null" -> FALSE
        [] k.kind = "ALL" -> TRUE
        [] k.kind \in DOMAIN FlagKey -> FlagKey[k.kind] \in m.fl
        [] k.kind = "UNSEEN" -> "S" \notin m.fl
        [] k.kind = "RECENT" -> m.recent
        [] k.kind = "NEW" -> m.recent /\ "S" \notin m.fl
        [] k.kind = "OLD" -> ~m.recent
        [] k.kind = "SEQ" -> imapd_seqset_has(k.x, seq, nmsgs)
        [] k.kind = "UID" -> imapd_seqset_has(k.x, m.uid, uidnext)
        [] k.kind = "LARGER" -> m.size > k.x
        [] k.kind = "SMALLER" -> m.size < k.x
        [] k.kind = "KEYWORD" -> search_keyword_match(m, k.x)
        [] k.kind = "UNKEYWORD" -> ~search_keyword_match(m, k.x)
        [] k.kind = "MODSEQ" -> m.modseq >= k.x
        [] k.kind \in DOMAIN HdrKey \cup {"HEADER"} ->
             LET name == search_hdr_name(k)
             IN  IF name = "Message-ID" /\ m.mid # <<>> THEN Needle(k) \in m.mid[1]
                 ELSE IF m.valid /\ name \in Indexed THEN Needle(k) \in m.cached[name]
                 ELSE doc >= 0 /\ Needle(k) \in Header(m, doc, name)
        [] k.kind = "BODY" -> doc >= 0 /\ InText(m, doc, m.hlen, k.x)
        [] k.kind = "TEXT" -> doc >= 0 /\ InText(m, doc, 0, k.x)
        [] k.kind \in {"SINCE", "SENTSINCE"} -> m.day >= k.x
        [] k.kind \in {"ON", "SENTON"} -> m.day = k.x
        [] k.kind \in {"BEFORE", "SENTBEFORE"} -> m.day < k.x
        [] k.kind = "NOT" -> ~Rec(k.a)
        [] k.kind = "OR" -> Rec(k.a) \/ Rec(k.b)
        [] k.kind = "AND" -> Rec(k.a) /\ Rec(k.b)

-----------------------------------------------------------------------------
(* The scan                                                                 *)

\* mail_hdr_build: the indexed fields of the file, empty where absent.
Extracted(m) == [h \in Indexed |-> IF h \in DOMAIN m.hdr THEN m.hdr[h] ELSE {}]

BugTrustSidecar(m, budget) ==
  IF m.valid THEN [r |-> 1, m |-> m, budget |-> budget]
  ELSE IF ~m.file THEN [r |-> -1, m |-> m, budget |-> budget]
  ELSE IF budget < MsgCost THEN [r |-> 0, m |-> m, budget |-> budget]
  ELSE IF m.loaded THEN [r |-> 1, m |-> [m EXCEPT !.valid = TRUE], budget |-> budget - MsgCost]
  ELSE [r |-> 1, m |-> [m EXCEPT !.cached = Extracted(m), !.loaded = TRUE, !.valid = TRUE,
                                 !.fresh = TRUE],
        budget |-> Max({0, budget - (MsgCost + m.hlen)})]

\* imapd_mail_ensure_hdrs: 1 cached, 0 no budget left, -1 no file.  A cached
\* block counts only if the file's size and times are still those recorded.
imapd_mail_ensure_hdrs(m, budget) ==
  IF m.valid THEN [r |-> 1, m |-> m, budget |-> budget]
  ELSE IF ~m.file THEN [r |-> -1, m |-> m, budget |-> budget]
  ELSE IF budget < MsgCost THEN [r |-> 0, m |-> m, budget |-> budget]
  ELSE IF m.loaded /\ m.fresh
       THEN [r |-> 1, m |-> [m EXCEPT !.valid = TRUE], budget |-> budget - MsgCost]
  ELSE [r |-> 1, m |-> [m EXCEPT !.cached = Extracted(m), !.loaded = TRUE, !.valid = TRUE,
                                 !.fresh = TRUE],
        budget |-> Max({0, budget - (MsgCost + m.hlen)})]

\* What is read of one message under a plan: the whole message up to the
\* budget left, the header, or nothing because the cache answers.
ReadFor(plan, m, budget) ==
  LET e == imapd_mail_ensure_hdrs(m, budget)
      n == IF ~m.file THEN -1
           ELSE IF plan.needs THEN Min({m.size, budget})
           ELSE IF plan.needhdr THEN m.hlen ELSE -1
  IN  IF plan.hdr_only THEN [wait |-> e.r = 0, m |-> e.m, doc |-> -1, budget |-> e.budget]
      ELSE [wait |-> FALSE, m |-> m, doc |-> n, budget |-> Max({0, budget - Max({0, n})})]

RECURSIVE imapd_search_pump(_, _, _, _, _, _, _)

\* imapd_search_pump: i is the cursor, hits what matched so far.  A slice
\* ends when the budget does not pay for the next message, and the next one
\* begins at the same message.
imapd_search_pump(prog, plan, box, uidnext, i, hits, budget) ==
  IF i > Len(box) THEN hits
  ELSE LET Again(b, j, h, bud) == imapd_search_pump(prog, plan, b, uidnext, j, h, bud)
           r == ReadFor(plan, box[i], budget - MsgCost)
           hit == imapd_search_match(prog, r.m, r.doc, i, uidnext, Len(box))
       IN  IF budget < MsgCost THEN Again(box, i, hits, SearchBudget)
           ELSE IF r.wait THEN Again(box, i, hits, SearchBudget)
           ELSE Again([box EXCEPT ![i] = r.m], i + 1, IF hit THEN Append(hits, i) ELSE hits,
                      r.budget)

do_search(tokens, box, uidnext) ==
  LET p == imapd_search_parse_program(tokens)
  IN  IF ~p.ok THEN <<"BAD">>
      ELSE imapd_search_pump(p.key, Plan(p.key, FALSE), box, uidnext, 1, <<>>, SearchBudget)

\* do_sort: the hits in the order of a header (its first word; absent sorts
\* first), equal ones and plain SORT by internal date; REVERSE turns the whole
\* list around.
SortStr(m, name) == IF name \notin DOMAIN m.hdr \/ m.hdr[name] = {} THEN 0 ELSE Min(m.hdr[name])
SortKey(m, by)   == IF by = "date" THEN <<0, m.day>> ELSE <<SortStr(m, by), m.day>>
SortLess(k, l)   == k[1] < l[1] \/ (k[1] = l[1] /\ k[2] < l[2])

do_sort(tokens, box, uidnext, by, reverse) ==
  LET p == imapd_search_parse_program(tokens)
      hits == imapd_search_pump(p.key, Plan(p.key, TRUE), box, uidnext, 1, <<>>, SearchBudget)
      up == SortSeq(hits, LAMBDA i, j : SortLess(SortKey(box[i], by), SortKey(box[j], by)))
  IN  IF ~p.ok THEN <<"BAD">> ELSE IF reverse THEN Reverse(up) ELSE up

-----------------------------------------------------------------------------
(* Dates                                                                    *)

\* Days from 1970-01-01 to the given date, as the parser computes them: dd is
\* 1..31, mi is 0..11.  Division truncates, which no operand here tells from
\* rounding down.
mdays == <<31, 28, 31, 30, 31, 30, 31, 31, 30, 31, 30, 31>>
Leap(yy) == (yy % 4 = 0 /\ yy % 100 # 0) \/ yy % 400 = 0
If(c, n) == IF c THEN n ELSE 0

SearchDay(dd, mi, yy) ==
  LET y    == yy - 1900
      days == 365 * (y - 70) + (y - 69 + If(yy % 4 = 0, 1)) \div 4
              - If(yy % 100 = 0, (yy - 70 + 99) \div 100)
              + If(yy % 400 = 0, (yy - 70 + 399) \div 400)
      dm   == FoldFunction(+, 0, SubSeq(mdays, 1, mi))
  IN  days + dm + If(Leap(yy) /\ mi > 1, 1) + (dd - 1)
=============================================================================
