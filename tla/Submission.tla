----------------------------- MODULE Submission -----------------------------
(***************************************************************************)
(* The authenticated submission session of outbox (outbox_submit.c) with   *)
(* the lockout of outbox_auth.c.  x.g: fails and locked are the record of  *)
(* the peer's address; fault is "queue" when the delivery queue is at its  *)
(* cap and "store" when it fails otherwise; avail as in SmtpIn.  A MAIL    *)
(* address "stranger" is of a domain the daemon does not serve.  A message *)
(* with a "text" line has a From header of the envelope's domain.          *)
(***************************************************************************)
EXTENDS SmtpSession

CONSTANTS
  MaxRcpts, \* limits of the session, as in SmtpIn
  RawCap,
  Chunk,
  MaxFails  \* OUTBOX_AUTH_MAX_FAILS

conn_reset_txn(x, st) == [Reset(x, st) EXCEPT !.c.pending = "none"]

-----------------------------------------------------------------------------
(* Authentication                                                           *)

outbox_auth_fail(x) ==
  [x EXCEPT !.g.fails = @ + 1, !.g.locked = @ \/ x.g.fails + 1 >= MaxFails]
outbox_auth_clear(x) == [x EXCEPT !.g.fails = 0, !.g.locked = FALSE]
outbox_auth_blocked(x) == x.g.locked

finish_auth(x, l, ok) ==
  IF outbox_auth_blocked(x) THEN Reply(x, l, 454)
  ELSE IF ok THEN Reply([outbox_auth_clear(x) EXCEPT !.c.auth = TRUE], l, 235)
  ELSE Reply(outbox_auth_fail(x), l, 535)

Malformed(x, l) == Reply(outbox_auth_fail(x), l, 501)

\* The credentials of a PLAIN response: right, wrong, or not decodable.
auth_plain_check(x, l, cred) ==
  IF cred \in {"ok", "no"} THEN finish_auth(x, l, cred = "ok") ELSE Malformed(x, l)

\* Lines that decode as base64; a one-word command of four letters does.
Decodes(l) == (l.v = "b64" /\ l.a # "junk") \/ l.v \in {"DATA", "RSET", "NOOP", "QUIT"}

handle_auth_cont(x, l) ==
  LET y == [x EXCEPT !.c.pending = "none"] IN
  IF l.v = "star" THEN Reply(y, l, 501)
  ELSE CASE x.c.pending = "plain" ->
              auth_plain_check(y, l, IF l.v = "b64" THEN l.a ELSE "junk")
         [] x.c.pending = "user" ->
              IF Decodes(l) THEN Reply([y EXCEPT !.c.pending = "pass"], l, 334)
              ELSE Malformed(y, l)
         [] x.c.pending = "pass" ->
              IF Decodes(l) THEN finish_auth(y, l, l.v = "b64" /\ l.a = "ok")
              ELSE Malformed(y, l)

do_auth(x, l) ==
  CASE l.a = "plain" -> Reply([x EXCEPT !.c.pending = "plain"], l, 334)
    [] l.a = "login" -> Reply([x EXCEPT !.c.pending = "user"], l, 334)
    [] l.a = "login user" -> Reply([x EXCEPT !.c.pending = "pass"], l, 334)
    [] l.a = "other" -> Reply(x, l, 504)
    [] OTHER         -> auth_plain_check(x, l, l.a)

-----------------------------------------------------------------------------
(* Commands                                                                 *)

channel_secure(x) == x.c.tls = "up"
Permitted(x)      == channel_secure(x) /\ x.c.auth

deliver_message(x, l) ==
  LET d == x.c.data IN
  IF HasArg(d, "ctl") THEN Refuse(x, l, 554)
  ELSE IF HasArg(d, "huge") THEN Refuse(x, l, 552)
  ELSE IF ~Has(d, "text") THEN Reply(x, l, 554)
  ELSE CASE x.g.fault = "queue" -> Reply(x, l, 452)
         [] x.g.fault = "store" -> Reply(x, l, 451)
         [] OTHER               -> Reply(Stored(x, TRUE, x.c.rcpts, <<>>), l, 250)

do_helo(x, l) ==
  ReplyCap(conn_reset_txn(x, "HELO"), l, 250,
           l.v = "EHLO" /\ ~channel_secure(x) /\ x.g.avail)

do_mail(x, l) ==
  IF x.c.st # "HELO" THEN Reply(x, l, 503)
  ELSE IF ~Permitted(x) THEN Reply(x, l, 530)
  ELSE IF l.a = "bad" THEN Reply(x, l, 501)
  ELSE IF l.a = "stranger" THEN Reply(x, l, 554)
  ELSE Reply([x EXCEPT !.c.from = l.a, !.c.st = "MAIL"], l, 250)

do_rcpt(x, l) ==
  IF x.c.st # "MAIL" THEN Reply(x, l, 503)
  ELSE IF ~Permitted(x) THEN Reply(x, l, 530)
  ELSE IF MaxRcpts # 0 /\ Len(x.c.rcpts) >= MaxRcpts THEN Reply(x, l, 452)
  ELSE IF l.a = "bad" THEN Reply(x, l, 501)
  ELSE Reply([x EXCEPT !.c.rcpts = Append(@, l.a)], l, 250)

do_data(x, l) ==
  IF x.c.st # "MAIL" THEN Reply(x, l, 503)
  ELSE IF ~Permitted(x) THEN Reply(x, l, 530)
  ELSE IF x.c.rcpts = <<>> THEN Reply(x, l, 503)
  ELSE [Reply(x, l, 354) EXCEPT !.c.data = <<>>, !.c.st = "DATA"]

starttls(x, l) ==
  IF x.c.tls # "none" \/ x.c.st # "HELO" THEN Reply(x, l, 503)
  ELSE IF l.a = "bad" THEN Reply(x, l, 501)
  ELSE IF x.c.in # <<>> THEN Reply(x, l, 500)
  ELSE IF ~x.g.avail THEN Reply(x, l, 502)
  ELSE Reply([x EXCEPT !.c.tls = "pending"], l, 220)

handle_command(x, l) ==
  CASE l.v \in {"EHLO", "HELO"} ->
         IF l.a = "bad" THEN Reply(x, l, 501) ELSE do_helo(x, l)
    [] l.v = "STARTTLS" -> starttls(x, l)
    [] l.v = "AUTH" ->
         IF ~channel_secure(x) THEN Reply(x, l, 530)
         ELSE IF outbox_auth_blocked(x) THEN Reply(x, l, 454)
         ELSE do_auth(x, l)
    [] l.v = "MAIL" -> do_mail(x, l)
    [] l.v = "RCPT" -> do_rcpt(x, l)
    [] l.v = "DATA" -> do_data(x, l)
    [] l.v = "RSET" ->
         Reply(conn_reset_txn(x, IF x.c.st = "INIT" THEN "INIT" ELSE "HELO"), l, 250)
    [] l.v = "NOOP" -> Reply(x, l, 250)
    [] l.v = "QUIT" -> Refuse(x, l, 221)
    [] l.v = "VRFY" -> Reply(x, l, 252)
    [] OTHER        -> Reply(x, l, 500)

-----------------------------------------------------------------------------
(* Input                                                                    *)

begin_data(x, l) ==
  IF Len(x.c.in) > RawCap THEN Refuse(x, l, 552)
  ELSE [x EXCEPT !.c.data = @ \o x.c.in, !.c.in = <<>>]

RECURSIVE process_commands(_)
process_commands(x) ==
  LET Then(y, l) == IF y.c.st = "DATA" /\ ~y.c.closed THEN begin_data(y, l)
                    ELSE process_commands(y)
      Taken(f) == [x EXCEPT !.c.in = Drop(@, f.n),
                            !.c.mixed = @ \/ (f.l.e # (x.c.tls = "up"))]
      At(f) == IF f.n = 0 THEN x
               ELSE IF f.l.v = "long" THEN Refuse(x, f.l, 500)
               ELSE IF x.c.pending # "none"
               THEN Then(handle_auth_cont(Taken(f), f.l), f.l)
               ELSE Then(handle_command(Taken(f), f.l), f.l)
  IN IF x.c.closed THEN x ELSE At(FirstLine(x.c.in))

process_data(x) ==
  LET Ended(y) == IF y.c.closed THEN y ELSE process_commands(y)
      Message(s) == [x EXCEPT !.c.in = @ \o Drop(x.c.data, s.at + s.len - 1),
                              !.c.data = Take(@, s.at - 1)]
      At(s) ==
        CASE s.r = 0 -> x
          [] s.r = 2 -> Refuse(x, x.c.data[s.at], 552)
          [] s.r = 1 -> Ended(conn_reset_txn(deliver_message(Message(s), x.c.data[s.at]), "HELO"))
  IN At(ScanData(x.c.data))

conn_take_bytes(x, toks) ==
  IF x.c.st # "DATA" THEN process_commands([x EXCEPT !.c.in = @ \o toks])
  ELSE IF Len(x.c.data) + Len(toks) > RawCap THEN Refuse(x, toks[1], 552)
  ELSE process_data([x EXCEPT !.c.data = @ \o toks])

RECURSIVE drain(_)
drain(x) ==
  IF x.c.closed THEN x
  ELSE IF x.c.dec # <<>>
       THEN drain(conn_take_bytes([x EXCEPT !.c.dec = Drop(@, Chunk)],
                                  Take(x.c.dec, Chunk)))
  ELSE IF x.c.sock = <<>> THEN x
  ELSE IF ~Head(x.c.sock).e THEN Close(x)
  ELSE drain([x EXCEPT !.c.dec = Head(x.c.sock).toks, !.c.sock = Tail(@)])

outbox_conn_readable(x, toks) ==
  IF x.c.tls = "up" THEN drain(x) ELSE conn_take_bytes(x, toks)

\* tls_advance of outbox_main.c: the greeting of the SMTPS listener, or a
\* session that starts again and has to authenticate.
tls_advance(x) ==
  IF x.c.sock = <<>> THEN x
  ELSE IF Head(x.c.sock).toks # <<Line("hello", "", FALSE)>>
       THEN [Close(x) EXCEPT !.c.out = <<>>, !.c.sock = <<>>]
  ELSE LET up == [x EXCEPT !.c.tls = "up", !.c.sock = Tail(@), !.c.told = NoTxn,
                           !.c.out = Append(@, [code |-> 1, cap |-> FALSE])]
       IN drain(IF up.c.greeted
                THEN [conn_reset_txn(up, "INIT") EXCEPT !.c.auth = FALSE]
                ELSE Reply([up EXCEPT !.c.greeted = TRUE, !.c.st = "INIT"],
                           Line("none", "", TRUE), 220))
=============================================================================
