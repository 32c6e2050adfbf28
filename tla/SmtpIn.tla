------------------------------- MODULE SmtpIn -------------------------------
(***************************************************************************)
(* The SMTP session of visage (smtp_in.c): commands, recipient routing,    *)
(* the end of DATA, STARTTLS, the SMTPS listener behind a PROXY header.    *)
(*                                                                         *)
(* x.g: alias, token and catch_all say whether the alias, the reply token  *)
(* and the catch-all exist; fault is "store" when the store fails and      *)
(* "queue" when the rows of the recipients at the places g.at cannot be    *)
(* queued; trusted: the peer may send a PROXY header; avail: a certificate *)
(* is configured.                                                          *)
(***************************************************************************)
EXTENDS SmtpSession

CONSTANTS
  MaxRcpts, \* limits.rcpts
  RawCap,   \* srv->raw_cap, in lines
  Chunk     \* SMTP_IN_RECV_CHUNK, in lines

conn_reset(x, st) == Reset(x, st)

-----------------------------------------------------------------------------
(* Routing                                                                  *)

\* Where mail to a served address goes: reply_route_inbound, then the alias,
\* then the catch-all.
Route(g, r) ==
  CASE r = "token" /\ g.token -> "sender"
    [] r = "alias" /\ g.alias -> "dest"
    [] OTHER                  -> IF g.catch_all THEN "catch_all" ELSE "none"

smtp_in_rcpt_ok(g, r) ==
  CASE r = "foreign"          -> "BAD_DOMAIN"
    [] g.fault = "store"      -> "ERR"
    [] OTHER                  -> IF Route(g, r) = "none" THEN "NOROUTE" ELSE "OK"

\* forward_alias and forward_reply: an address that has no route any more is
\* logged "rejected" and is no failure.
forward(g, r, i) ==
  IF Route(g, r) = "none" THEN "rejected"
  ELSE IF g.fault = "queue" /\ i \in g.at THEN "failed" ELSE "queued"

\* A store that fails hands out no message id, so the loop over the
\* recipients sees only a store that works.
deliver_message(x, l) ==
  LET c == x.c
      Came(i) == forward(x.g, c.rcpts[i], i)
      gone == SelectSeq(c.rcpts, LAMBDA r : Route(x.g, r) = "none")
  IN IF HasArg(c.data, "ctl") THEN Refuse(x, l, 554)
     ELSE IF HasArg(c.data, "huge") THEN Refuse(x, l, 552)
     ELSE IF x.g.fault = "store" THEN Refuse(x, l, 451)
     ELSE IF \E i \in DOMAIN c.rcpts : Came(i) = "failed"
          THEN Reply(Partly(x, {i \in DOMAIN c.rcpts : Came(i) = "queued"}), l, 451)
          ELSE Reply(Stored(x, TRUE, c.rcpts, gone), l, 250)

-----------------------------------------------------------------------------
(* Commands                                                                 *)

do_helo(x, l) ==
  ReplyCap(conn_reset(x, "HELO"), l, 250,
           l.v = "EHLO" /\ x.c.tls = "none" /\ x.g.avail)

do_mail(x, l) ==
  IF x.c.st # "HELO" THEN Reply(x, l, 503)
  ELSE CASE l.a = "bad" -> Reply(x, l, 501)
         [] l.a = "big" -> Reply(x, l, 552)
         [] OTHER       -> Reply([x EXCEPT !.c.from = l.a, !.c.st = "MAIL"], l, 250)

do_rcpt(x, l) ==
  IF x.c.st # "MAIL" THEN Reply(x, l, 503)
  ELSE IF MaxRcpts # 0 /\ Len(x.c.rcpts) >= MaxRcpts THEN Reply(x, l, 452)
  ELSE IF l.a = "bad" THEN Reply(x, l, 501)
  ELSE CASE smtp_in_rcpt_ok(x.g, l.a) = "OK" ->
              Reply([x EXCEPT !.c.rcpts = Append(@, l.a)], l, 250)
         [] smtp_in_rcpt_ok(x.g, l.a) = "ERR" -> Reply(x, l, 451)
         [] OTHER                             -> Reply(x, l, 550)

do_data(x, l) ==
  IF x.c.st # "MAIL" \/ x.c.rcpts = <<>> THEN Reply(x, l, 503)
  ELSE [Reply(x, l, 354) EXCEPT !.c.data = <<>>, !.c.st = "DATA"]

\* STARTTLS: after EHLO, once, and with nothing pipelined behind it.
starttls(x, l) ==
  CASE x.c.tls # "none" \/ x.c.st # "HELO" -> Reply(x, l, 503)
    [] OTHER ->
         IF l.a = "bad" THEN Reply(x, l, 501)
         ELSE IF x.c.in # <<>> THEN Reply(x, l, 500)
         ELSE IF ~x.g.avail THEN Reply(x, l, 502)
         ELSE Reply([x EXCEPT !.c.tls = "pending"], l, 220)

\* One round of the handshake, on the bytes prefed or in the socket: TLS is
\* up, the peer sent something else, or more bytes are needed.  STARTTLS
\* restarts the session; on the SMTPS listener the greeting goes out now.
tls_advance(x) ==
  IF x.c.sock = <<>> THEN x
  ELSE IF Head(x.c.sock).toks # <<Line("hello", "", FALSE)>>
       THEN [Close(x) EXCEPT !.c.out = <<>>, !.c.sock = <<>>]
  ELSE LET up == [x EXCEPT !.c.tls = "up", !.c.sock = Tail(@), !.c.told = NoTxn,
                           !.c.out = Append(@, [code |-> 1, cap |-> FALSE])]
       IN IF up.c.greeted THEN conn_reset(up, "INIT")
          ELSE Reply([up EXCEPT !.c.greeted = TRUE, !.c.st = "INIT"],
                     Line("none", "", TRUE), 220)

\* The first line of a connection: a PROXY header of a trusted peer is
\* swallowed.  On the SMTPS listener TLS starts here, with the bytes that
\* follow the line; the line itself is already out of the buffer.
first_line(x, l) ==
  LET y == [x EXCEPT !.c.proxy_seen = TRUE, !.c.wait = FALSE,
                     !.c.tls = "pending", !.c.in = <<>>,
                     !.c.sock = IF x.c.in = <<>> THEN @
                                ELSE <<[e |-> FALSE, toks |-> x.c.in]>> \o @]
  IN IF x.g.avail THEN tls_advance(y) ELSE [Close(x) EXCEPT !.c.out = <<>>]

command(x, l) ==
  CASE l.v \in {"EHLO", "HELO"} ->
         IF l.a = "bad" THEN Reply(x, l, 501) ELSE do_helo(x, l)
    [] l.v = "MAIL" -> do_mail(x, l)
    [] l.v = "RCPT" -> do_rcpt(x, l)
    [] l.v = "DATA" -> do_data(x, l)
    [] l.v = "RSET" ->
         Reply(conn_reset(x, IF x.c.st = "INIT" THEN "INIT" ELSE "HELO"), l, 250)
    [] l.v = "NOOP" -> Reply(x, l, 250)
    [] l.v = "QUIT" -> Refuse(x, l, 221)
    [] l.v = "VRFY" -> Reply(x, l, 252)
    [] l.v = "STARTTLS" -> starttls(x, l)
    [] l.v = "AUTH" -> Reply(x, l, 502)
    [] OTHER        -> Reply(x, l, 500)

handle_command(x, l) ==
  IF ~x.c.proxy_seen /\ ((l.v = "PROXY" /\ x.g.trusted) \/ x.c.wait)
  THEN IF x.c.wait THEN first_line(x, l) ELSE [x EXCEPT !.c.proxy_seen = TRUE]
  ELSE command([x EXCEPT !.c.proxy_seen = TRUE], l)

-----------------------------------------------------------------------------
(* Input                                                                    *)

\* The rest of the buffer is message data once DATA is answered; it is moved
\* over and not scanned until more bytes arrive.
begin_data(x, l) ==
  IF Len(x.c.in) > RawCap THEN Refuse(x, l, 552)
  ELSE [x EXCEPT !.c.data = @ \o x.c.in, !.c.in = <<>>]

RECURSIVE process_commands(_)
process_commands(x) ==
  LET Then(y, l) == IF y.c.st = "DATA" /\ ~y.c.closed THEN begin_data(y, l)
                    ELSE process_commands(y)
      Taken(f) == [x EXCEPT !.c.in = Drop(@, f.n),
                            !.c.mixed = @ \/ (f.l.e # (x.c.tls = "up"))]
      At(f) == IF f.n = 0 THEN x
               ELSE IF f.l.v = "long" THEN Refuse(x, f.l, 500)
               ELSE Then(handle_command(Taken(f), f.l), f.l)
  IN IF x.c.closed THEN x ELSE At(FirstLine(x.c.in))

BugRestLost(x) ==
  LET Ended(y) == IF y.c.closed THEN y ELSE process_commands(y)
      Message(s) == [x EXCEPT !.c.data = Take(@, s.at - 1)]
      At(s) ==
        CASE s.r = 0 -> x
          [] s.r = 2 -> Refuse(x, x.c.data[s.at], 552)
          [] s.r = 1 -> Ended(conn_reset(deliver_message(Message(s), x.c.data[s.at]), "HELO"))
  IN At(ScanData(x.c.data))

process_data(x) ==
  LET Ended(y) == IF y.c.closed THEN y ELSE process_commands(y)
      Message(s) == [x EXCEPT !.c.in = @ \o Drop(x.c.data, s.at + s.len - 1),
                              !.c.data = Take(@, s.at - 1)]
      At(s) ==
        CASE s.r = 0 -> x
          [] s.r = 2 -> Refuse(x, x.c.data[s.at], 552)
          [] s.r = 1 -> Ended(conn_reset(deliver_message(Message(s), x.c.data[s.at]), "HELO"))
  IN At(ScanData(x.c.data))

conn_take_bytes(x, toks) ==
  IF x.c.st # "DATA" THEN process_commands([x EXCEPT !.c.in = @ \o toks])
  ELSE IF Len(x.c.data) + Len(toks) > RawCap
       THEN Refuse(x, toks[1], 552)
       ELSE process_data([x EXCEPT !.c.data = @ \o toks])

\* With TLS up: decrypt and take chunk after chunk until the socket is empty.
RECURSIVE drain(_)
drain(x) ==
  IF x.c.closed THEN x
  ELSE IF x.c.dec # <<>>
       THEN drain(conn_take_bytes([x EXCEPT !.c.dec = Drop(@, Chunk)],
                                  Take(x.c.dec, Chunk)))
  ELSE IF x.c.sock = <<>> THEN x
  ELSE IF ~Head(x.c.sock).e THEN Close(x)
  ELSE drain([x EXCEPT !.c.dec = Head(x.c.sock).toks, !.c.sock = Tail(@)])

\* toks: what recv returns on a connection without TLS.
conn_readable(x, toks) ==
  IF x.c.tls = "up" THEN drain(x) ELSE conn_take_bytes(x, toks)

\* A pass of the poll loop over a connection that is mid-handshake.
handshake(x) ==
  LET Then(y) == IF y.c.tls = "up" /\ ~y.c.closed THEN drain(y) ELSE y
  IN Then(tls_advance(x))
=============================================================================
