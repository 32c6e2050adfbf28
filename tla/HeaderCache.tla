----------------------------- MODULE HeaderCache -----------------------------
(* The sidecar imapd-hdrs: the indexed header fields of a mailbox's messages, *)
(* escaped, a line each, with the size and times of the file they were taken  *)
(* from (imap_maildir.c).  Text is a sequence of characters, numbers are       *)
(* sequences of digits; TAB, NL, CR and BS are characters.                    *)
EXTENDS Integers, Sequences, SequencesExt, FiniteSets, FiniteSetsExt, Folds

CONSTANT NFields       \* IH_NFIELDS

TAB == "TAB"
NL  == "NL"
CR  == "CR"
BS  == "\\"

Digits == <<"0", "1", "2", "3">>
Value(n) == FoldLeft(LAMBDA v, d : 10 * v + (CHOOSE k \in DOMAIN Digits : Digits[k] = d) - 1, 0, n)
Codes == [c \in {TAB, NL, CR, BS} |->
            CASE c = TAB -> "t" [] c = NL -> "n" [] c = CR -> "r" [] c = BS -> BS]


hdrs_escape_char(c) == IF c \in DOMAIN Codes THEN <<BS, Codes[c]>> ELSE <<c>>

Escaped(v) == FlattenSeq([i \in DOMAIN v |-> hdrs_escape_char(v[i])])

\* mail_hdrs_row: the uid, the fields, and the guard: size, mtime and ctime.
mail_hdrs_row(m) ==
  m.uid \o FlattenSeq([i \in 1..NFields |-> <<TAB>> \o Escaped(m.hdr[i])])
        \o FlattenSeq([i \in 1..3 |-> <<TAB>> \o m.guard[i]])

\* mail_hdrs_save: every loaded message of the view, under the uidvalidity.
\* The file is written beside the old one and takes its place.
mail_hdrs_save(uidvalidity, msgs) ==
  uidvalidity \o <<NL>>
  \o FlattenSeq([i \in DOMAIN msgs |->
                   IF msgs[i].loaded THEN mail_hdrs_row(msgs[i]) \o <<NL>> ELSE <<>>])

\* hdrs_unescape: s.esc after a backslash; a last one stands for itself.
Plain(c) == IF \E k \in DOMAIN Codes : Codes[k] = c
            THEN CHOOSE k \in DOMAIN Codes : Codes[k] = c ELSE c
hdrs_unescape(v) ==
  LET Char(s, i) ==
        IF s.esc THEN [out |-> Append(s.out, Plain(v[i])), esc |-> FALSE]
        ELSE IF v[i] = BS /\ i < Len(v) THEN [s EXCEPT !.esc = TRUE]
        ELSE [s EXCEPT !.out = Append(@, v[i])]
  IN  FoldLeft(Char, [out |-> <<>>, esc |-> FALSE], [i \in DOMAIN v |-> i]).out

\* strchr: text cut at the first occurrence, and whether there was one.
Cut(s, c) ==
  LET at == {i \in DOMAIN s : s[i] = c}
      n  == IF at = {} THEN Len(s) + 1 ELSE Min(at)
  IN  [head |-> SubSeq(s, 1, n - 1), tail |-> SubSeq(s, n + 1, Len(s)), found |-> at # {}]

\* sscanf of a number: the digits in front, or no number.
Number(s) == SubSeq(s, 1, Min({i \in 1..Len(s) + 1 : i > Len(s) \/ s[i] \notin ToSet(Digits)}) - 1)

RECURSIVE Columns(_)
Columns(s) == LET c == Cut(s, TAB) IN <<c.head>> \o (IF c.found THEN Columns(c.tail) ELSE <<>>)

\* One line of mail_hdrs_load: <<>> where it is malformed.
Row(line) ==
  LET Guarded(cols, guard) ==
        IF \/ cols[1] # Number(cols[1]) \/ Value(cols[1]) = 0
           \/ \E i \in 1..3 : guard[i] = <<>>
        THEN <<>>
        ELSE <<[uid |-> cols[1], hdr |-> [i \in 1..NFields |-> hdrs_unescape(cols[1 + i])],
                guard |-> guard]>>
      Parsed(cols) == IF Len(cols) # 1 + NFields + 3 THEN <<>>
                      ELSE Guarded(cols, [i \in 1..3 |-> Number(cols[1 + NFields + i])])
  IN  Parsed(Columns(line))

\* The rows up to the first malformed line; empty lines are passed over, and
\* the last line needs no end.
RECURSIVE Rows(_)
Rows(s) ==
  LET After(r, tail) == IF r = <<>> THEN <<>> ELSE r \o Rows(tail)
      Line(c) == IF c.head = <<>> THEN Rows(c.tail) ELSE After(Row(c.head), c.tail)
  IN  IF s = <<>> THEN <<>> ELSE Line(Cut(s, NL))

\* mail_hdrs_load: a first line without an end leaves no rows.
mail_hdrs_load(file) ==
  LET First(c) == IF ~c.found THEN [uidvalidity |-> <<>>, rows |-> <<>>]
                  ELSE [uidvalidity |-> Number(c.head), rows |-> Rows(c.tail)]
  IN  First(Cut(file, NL))

\* mail_hdrs_hydrate
mail_hdrs_hydrate(m, row) == [m EXCEPT !.hdr = row.hdr, !.guard = row.guard, !.loaded = TRUE]

\* The end of mbox_scan: rows and view are walked side by side, both in the
\* order of their uids.
RECURSIVE Walk(_, _, _, _)
Walk(view, rows, ri, mi) ==
  IF ri > Len(rows) \/ mi > Len(view) THEN view
  ELSE LET uid == Value(rows[ri].uid)
           m   == view[mi]
       IN  IF m.loaded \/ uid > Value(m.uid) THEN Walk(view, rows, ri, mi + 1)
           ELSE IF uid < Value(m.uid) THEN Walk(view, rows, ri + 1, mi)
           ELSE Walk([view EXCEPT ![mi] = mail_hdrs_hydrate(m, rows[ri])], rows, ri + 1, mi + 1)

Hydrated(file, uidvalidity, view) ==
  LET From(f) == IF Value(f.uidvalidity) \notin {Value(uidvalidity)} \ {0} THEN view
                 ELSE Walk(view, f.rows, 1, 1)
  IN  From(mail_hdrs_load(file))
=============================================================================
