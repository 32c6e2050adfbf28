----------------------------- MODULE SmtpSession -----------------------------
(***************************************************************************)
(* What the three inbound SMTP sessions share: smtp_in.c (visage),         *)
(* imapd_ingest.c (imapd) and outbox_submit.c (outbox) keep the same       *)
(* connection state and the same output path.                              *)
(*                                                                         *)
(* The wire carries lines.  A line has a verb v, the part a of its         *)
(* argument the server looks at, and e: whether it was sent inside TLS.    *)
(* Lines that are not commands: "text" (a: "", "ctl" with control bytes,   *)
(* "huge" over the message limit), "long" (over the line limit), "hello"   *)
(* (the first flight of a TLS handshake) and the terminator of a message,  *)
(* which is the two pieces "dotCR" and "LF" because a read may end between *)
(* its carriage return and its line feed.                                  *)
(*                                                                         *)
(* A step of a session is an operator on a record x: x.c is the            *)
(* connection, x.g the part of the daemon it shares with the others.       *)
(* Running out of memory is left out.                                      *)
(***************************************************************************)
EXTENDS Naturals, Sequences, SequencesExt

Line(v, a, e) == [v |-> v, a |-> a, e |-> e]
NoTxn == [mail |-> "none", rcpts |-> <<>>]

\* A connection as server_accept leaves it.  "wait" is tls_proxy_wait.
NewConn(srv, implicit) ==
  LET wait == implicit /\ srv = "visage" IN
  [srv |-> srv, st |-> "INIT", closed |-> FALSE, from |-> "none", rcpts |-> <<>>,
   in |-> <<>>, data |-> <<>>, sock |-> <<>>, dec |-> <<>>,
   tls |-> IF implicit /\ ~wait THEN "pending" ELSE "none",
   wait |-> wait, proxy_seen |-> FALSE, greeted |-> ~implicit,
   auth |-> FALSE, pending |-> "none",
   out |-> IF implicit THEN <<>> ELSE <<[code |-> 220, cap |-> FALSE]>>,
   told |-> NoTxn, mixed |-> FALSE]

\* What a client may conclude from the reply `code' to its line l: the
\* transaction it believes to be open.  An observer, read by no handler.
Believes(told, l, code) ==
  CASE l.v \in {"EHLO", "HELO", "RSET"} /\ code = 250 -> NoTxn
    [] l.v = "MAIL" /\ code = 250 -> [mail |-> l.a, rcpts |-> <<>>]
    [] l.v = "RCPT" /\ code = 250 -> [told EXCEPT !.rcpts = Append(@, l.a)]
    [] l.v = "dotCR"              -> NoTxn
    [] OTHER                      -> told

\* conn_reply: the reply code to line l; cap is "EHLO offered STARTTLS".
ReplyCap(x, l, code, cap) ==
  [x EXCEPT !.c.out = Append(@, [code |-> code, cap |-> cap]),
            !.c.told = Believes(@, l, code)]
Reply(x, l, code) == ReplyCap(x, l, code, FALSE)
Close(x)          == [x EXCEPT !.c.closed = TRUE]
Refuse(x, l, code) == Close(Reply(x, l, code))

\* conn_reset: drop the envelope and the message, go to state st.
Reset(x, st) ==
  [x EXCEPT !.c.st = st, !.c.from = "none", !.c.rcpts = <<>>, !.c.data = <<>>]

Has(lines, v) == \E i \in DOMAIN lines : lines[i].v = v
HasArg(lines, a) == \E i \in DOMAIN lines : lines[i].v = "text" /\ lines[i].a = a

\* The copies of one message: for whom they are, next to what the client had
\* been told by then; ack says that it is told 250.
Stored(x, ack, rcpts, lost) ==
  [x EXCEPT !.g.stored = Append(@,
     [srv |-> x.c.srv, ack |-> ack, from |-> x.c.from, rcpts |-> rcpts, lost |-> lost,
      body |-> x.c.data, told |-> x.c.told, secure |-> x.c.tls = "up",
      auth |-> x.c.auth, mixed |-> x.c.mixed])]

\* The loop over the recipients goes on after one that fails: the copies for
\* the others are made, and stay.
Partly(x, made) ==
  LET at == SetToSortSeq(made, <)
  IN IF made = {} THEN x ELSE Stored(x, FALSE, [i \in DOMAIN at |-> x.c.rcpts[at[i]]], <<>>)

-----------------------------------------------------------------------------
(* Framing                                                                  *)

\* data_scan on whole lines: the place of the terminator and its length, or
\* -1 when a line is over the limit, 0 when more bytes are needed.  A dot and
\* a CR at the end of the buffer end the message at once.
ScanData(d) ==
  LET stop == {i \in DOMAIN d : d[i].v \in {"dotCR", "long"}} IN
  IF stop = {} THEN [r |-> 0, at |-> 0, len |-> 0]
  ELSE LET i == CHOOSE i \in stop : \A j \in stop : i <= j IN
       IF d[i].v = "long" THEN [r |-> 2, at |-> i, len |-> 0]
       ELSE [r |-> 1, at |-> i,
             len |-> IF i < Len(d) /\ d[i + 1].v = "LF" THEN 2 ELSE 1]

\* The first line of a command buffer and how many pieces it takes up; n = 0
\* when the buffer holds no line feed yet.
FirstLine(in) ==
  IF in = <<>> THEN [n |-> 0, l |-> Line("none", "", FALSE)]
  ELSE IF in[1].v \notin {"dotCR", "hello"} THEN [n |-> 1, l |-> in[1]]
  ELSE IF Len(in) = 1 THEN [n |-> 0, l |-> in[1]]
  ELSE [n |-> 2, l |-> Line("junk", "", in[1].e)]

Drop(s, n) == SubSeq(s, n + 1, Len(s))
Take(s, n) == SubSeq(s, 1, IF n < Len(s) THEN n ELSE Len(s))
=============================================================================
