-------------------------------- MODULE Dkim --------------------------------
(* DKIM signatures of visage and outbox (dkim.c): the scan of the header, the *)
(* relaxed forms of header and body, and what is signed and verified.         *)
(*                                                                            *)
(* A message is a sequence of symbols: "r" and "n" are CR and LF, "_" and "t" *)
(* SP and TAB, ":" itself, a field name one symbol.  A hash is what it is     *)
(* taken of, and a signature is a record beside the header that carries it.   *)
EXTENDS Integers, Sequences, SequencesExt, FiniteSets, FiniteSetsExt

Wsp == {"_", "t"}
Lower == [From |-> "from", To |-> "to", Other |-> "other"]
lower(x) == IF x \in DOMAIN Lower THEN Lower[x] ELSE x
Signable == {<<"from">>, <<"to">>}
SigName == <<"dkim-signature">>
Crlf == <<"r", "n">>

----------------------------------------------------------------------------
(* The header *)

LineEnd(m, i) == Min({j \in i .. Len(m) : m[j] \in {"r", "n"}} \cup {Len(m) + 1})
Symbol(m, i) == IF i <= Len(m) THEN m[i] ELSE ""
PastEnd(m, i) == LET j == IF Symbol(m, i) = "r" THEN i + 1 ELSE i
                 IN  IF Symbol(m, j) = "n" THEN j + 1 ELSE j

skip_line(m, i) == PastEnd(m, LineEnd(m, i))

\* header_end: the lines that start with white space belong to the field.
RECURSIVE header_end(_, _)
header_end(m, i) ==
  LET j == skip_line(m, i) IN IF Symbol(m, j) \in Wsp THEN header_end(m, j) ELSE j

\* scan_header: a line without a colon is no field, and passed over.
scan_header(m, ls) ==
  LET c == Min({j \in ls .. Len(m) : m[j] \in {":", "r", "n"}} \cup {Len(m) + 1})
  IN  IF Symbol(m, c) # ":" THEN [ok |-> FALSE, end |-> skip_line(m, ls)]
      ELSE LET Field(e) ==
                 [ok |-> TRUE, end |-> e, name |-> [k \in 1 .. c - ls |-> lower(m[ls + k - 1])],
                  val |-> SubSeq(m, c + 1, e - 1)]
           IN  Field(header_end(m, c + 1))

\* find_blank: where the first empty line is.
RECURSIVE BlankFrom(_, _)
BlankFrom(m, i) ==
  IF i > Len(m) \/ m[i] \in {"r", "n"} THEN i ELSE BlankFrom(m, skip_line(m, i))
find_blank(m) == BlankFrom(m, 1)

RECURSIVE FieldsFrom(_, _)
FieldsFrom(m, i) ==
  LET Then(f) == (IF f.ok THEN <<f>> ELSE <<>>) \o FieldsFrom(m, f.end)
  IN  IF i > Len(m) THEN <<>> ELSE Then(scan_header(m, i))
Fields(m) == FieldsFrom(SubSeq(m, 1, find_blank(m) - 1), 1)

\* collect: what can be signed, from the top; SigName is none of it.
collect(m) == SelectSeq(Fields(m), LAMBDA f : f.name \in Signable)

----------------------------------------------------------------------------
(* Relaxed forms *)

\* One symbol of a line: white space waits for a symbol behind it.
Squeeze(s, x) ==
  IF x \in Wsp THEN [s EXCEPT !.pending = TRUE]
  ELSE [out |-> s.out \o (IF s.pending THEN <<"_">> ELSE <<>>) \o <<x>>, pending |-> FALSE]

\* relaxed_header: a fold is white space, and what comes first is dropped.
relaxed_header(f) ==
  LET Step(s, x) == IF x \in {"r", "n"} \cup Wsp THEN [s EXCEPT !.pending = s.out # <<>>]
                    ELSE Squeeze(s, x)
  IN  f.name \o <<":">> \o FoldLeft(Step, [out |-> <<>>, pending |-> FALSE], f.val).out

\* Lines end with CR LF and with nothing else.
RECURSIVE LinesOf(_)
LinesOf(b) ==
  LET ends == {i \in 1 .. Len(b) - 1 : b[i] = "r" /\ b[i + 1] = "n"}
      n    == Min(ends \cup {Len(b) + 1})
  IN  IF b = <<>> THEN <<>> ELSE <<SubSeq(b, 1, n - 1)>> \o LinesOf(SubSeq(b, n + 2, Len(b)))

Repeated(s, n) == FlattenSeq([i \in 1 .. n |-> s])

BugLeadingDropped(b) ==
  LET Line(l) == FoldLeft(LAMBDA s, x : IF x \in Wsp /\ s.out = <<>> THEN s ELSE Squeeze(s, x),
                          [out |-> <<>>, pending |-> FALSE], l).out
      Step(s, l) == IF ToSet(l) \subseteq Wsp THEN [s EXCEPT !.owed = @ + 1]
                    ELSE [out |-> s.out \o Repeated(Crlf, s.owed) \o Line(l), owed |-> 1]
  IN  FoldLeft(Step, [out |-> <<>>, owed |-> 0], LinesOf(b)).out \o Crlf

\* relaxed_body_sha256: the line ends owed are staged once a line that is not
\* empty follows.
relaxed_body_sha256(b) ==
  LET Line(l) == FoldLeft(Squeeze, [out |-> <<>>, pending |-> FALSE], l).out
      Step(s, l) == IF ToSet(l) \subseteq Wsp THEN [s EXCEPT !.owed = @ + 1]
                    ELSE [out |-> s.out \o Repeated(Crlf, s.owed) \o Line(l), owed |-> 1]
  IN  FoldLeft(Step, [out |-> <<>>, owed |-> 0], LinesOf(b)).out \o Crlf

----------------------------------------------------------------------------
(* Signing and verifying *)

Body(m) == SubSeq(m, PastEnd(m, find_blank(m)), Len(m))
SignedText(fields) == FlattenSeq([i \in DOMAIN fields |-> relaxed_header(fields[i]) \o Crlf])

NoSig == [h |-> <<>>, bh |-> <<>>, text |-> <<>>, key |-> "none"]

\* dkim_sign_core: a message with nothing to sign is not signed.
dkim_sign_core(m, key) ==
  LET Over(h) == IF h = <<>> THEN NoSig
                 ELSE [h |-> [i \in DOMAIN h |-> h[i].name], bh |-> relaxed_body_sha256(Body(m)),
                       text |-> SignedText(h), key |-> key]
  IN  Over(collect(m))

\* The names of h= are bound to fields from the last one upwards, each field
\* once; a name for which none is left is passed over.
Bound(fields, h) ==
  LET Step(s, name) ==
        LET at == {i \in s.left : fields[i].name = name}
        IN  IF at = {} THEN s
            ELSE [left |-> s.left \ {Max(at)}, got |-> Append(s.got, fields[Max(at)])]
  IN  FoldLeft(Step, [left |-> DOMAIN fields, got |-> <<>>], h).got

\* dkim_verify_core: the signature of the first field against the header; bh is
\* signed with it and not compared with the body.
dkim_verify_core(m, sig, key) ==
  LET first == scan_header(m, 1)
  IN  /\ first.ok /\ first.name = SigName
      /\ sig.key = key
      /\ SignedText(Bound(Fields(m), sig.h)) = sig.text

----------------------------------------------------------------------------
(* The key that was loaded last is kept.  kind says what the file of a key    *)
(* holds: "rsa", another key, or nothing that can be read.                    *)

NoKey == [path |-> "", key |-> "none"]

BugAnyPath(cache, path, kind) ==
  IF cache.path # "" THEN cache ELSE IF kind = "rsa" THEN [path |-> path, key |-> path] ELSE NoKey

dkim_load_pk(cache, path, kind) ==
  IF cache.path = path THEN cache
  ELSE IF kind = "rsa" THEN [path |-> path, key |-> path]
  ELSE NoKey

\* dkim_sign: the header in front, or nothing when the key cannot be had.
dkim_sign(cache, m, path, kind) ==
  LET Signed(c, s) ==
        [cache |-> c, sig |-> s,
         m |-> IF s = NoSig THEN <<>> ELSE SigName \o <<":", "_", "b">> \o Crlf \o m]
      With(c) == Signed(c, IF c.path = "" THEN NoSig ELSE dkim_sign_core(m, c.key))
  IN  With(dkim_load_pk(cache, path, kind))

\* forward_sign: keys maps the domains that have one to its file; a message
\* that cannot be signed goes unsigned.
forward_sign(cache, m, domain, keys, kind) ==
  LET Sent(r) == IF r.sig = NoSig THEN [r EXCEPT !.m = m] ELSE r
  IN  IF domain \notin DOMAIN keys THEN [cache |-> cache, sig |-> NoSig, m |-> m]
      ELSE Sent(dkim_sign(cache, m, keys[domain], kind))
=============================================================================
