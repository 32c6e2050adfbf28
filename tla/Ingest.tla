------------------------------- MODULE Ingest -------------------------------
(***************************************************************************)
(* The SMTP session through which imapd takes mail (imapd_ingest.c).  The  *)
(* local part of a recipient names a user, with an optional folder: "user" *)
(* and "folder" (a usable user and a folder that is not) are accepted,     *)
(* "nouser" is not.  x.g.fault = "queue": the mailboxes of the recipients  *)
(* at the places g.at cannot be written.                                   *)
(***************************************************************************)
EXTENDS SmtpSession

CONSTANTS
  MaxRcpts, \* IMAPD_MAX_RCPTS
  RawCap,   \* twice the message limit and 16 bytes, in lines
  Chunk     \* IMAPD_RECV_CHUNK, in lines

conn_reset(x, st) == Reset(x, st)

\* A folder that cannot be used falls back to the user's INBOX.
Mailbox(r) == IF r = "folder" THEN "user" ELSE r

BugUnchecked(x, l) ==
  LET d == x.c.data IN
  IF HasArg(d, "ctl") THEN Refuse(x, l, 554)
  ELSE IF HasArg(d, "huge") THEN Refuse(x, l, 552)
  ELSE IF x.g.fault = "queue" THEN Reply(conn_reset(x, "HELO"), l, 250)
  ELSE Reply(conn_reset(Stored(x, TRUE, x.c.rcpts, <<>>), "HELO"), l, 250)

ingest_deliver(x, l) ==
  LET d == x.c.data IN
  IF HasArg(d, "ctl") THEN Refuse(x, l, 554)
  ELSE IF HasArg(d, "huge") THEN Refuse(x, l, 552)
  ELSE IF x.g.fault = "queue" /\ x.g.at \cap DOMAIN x.c.rcpts # {}
       THEN Reply(conn_reset(Partly(x, DOMAIN x.c.rcpts \ x.g.at), "HELO"), l, 451)
  ELSE Reply(conn_reset(Stored(x, TRUE, x.c.rcpts, <<>>), "HELO"), l, 250)

helo(x, l) ==
  IF l.a = "bad" THEN Reply(x, l, 501)
  ELSE ReplyCap(conn_reset(x, "HELO"), l, 250,
                l.v = "EHLO" /\ x.c.tls = "none" /\ x.g.avail)

mail(x, l) ==
  IF x.c.st # "HELO" THEN Reply(x, l, 503)
  ELSE IF l.a = "bad" THEN Reply(x, l, 501)
  ELSE Reply([x EXCEPT !.c.from = l.a, !.c.st = "MAIL"], l, 250)

rcpt(x, l) ==
  IF x.c.st # "MAIL" THEN Reply(x, l, 503)
  ELSE IF Len(x.c.rcpts) >= MaxRcpts THEN Reply(x, l, 452)
  ELSE IF l.a = "bad" THEN Reply(x, l, 501)
  ELSE IF Mailbox(l.a) # "user" THEN Reply(x, l, 550)
  ELSE Reply([x EXCEPT !.c.rcpts = Append(@, l.a)], l, 250)

data(x, l) ==
  IF x.c.st # "MAIL" \/ x.c.rcpts = <<>> THEN Reply(x, l, 503)
  ELSE [Reply(x, l, 354) EXCEPT !.c.data = <<>>, !.c.st = "DATA"]

BugPipelined(x, l) ==
  IF x.c.tls # "none" \/ x.c.st # "HELO" THEN Reply(x, l, 503)
  ELSE IF ~x.g.avail THEN Reply(x, l, 502)
  ELSE Reply([x EXCEPT !.c.tls = "pending"], l, 220)

starttls(x, l) ==
  IF x.c.tls # "none" \/ x.c.st # "HELO" THEN Reply(x, l, 503)
  ELSE IF l.a = "bad" THEN Reply(x, l, 501)
  ELSE IF x.c.in # <<>> THEN Reply(x, l, 500)
  ELSE IF ~x.g.avail THEN Reply(x, l, 502)
  ELSE Reply([x EXCEPT !.c.tls = "pending"], l, 220)

ingest_command(x, l) ==
  CASE l.v \in {"EHLO", "HELO"} -> helo(x, l)
    [] l.v = "MAIL" -> mail(x, l)
    [] l.v = "RCPT" -> rcpt(x, l)
    [] l.v = "DATA" -> data(x, l)
    [] l.v = "RSET" ->
         Reply(conn_reset(x, IF x.c.st = "INIT" THEN "INIT" ELSE "HELO"), l, 250)
    [] l.v = "NOOP" -> Reply(x, l, 250)
    [] l.v = "QUIT" -> Refuse(x, l, 221)
    [] l.v = "VRFY" -> Reply(x, l, 252)
    [] l.v = "STARTTLS" -> starttls(x, l)
    [] l.v = "AUTH" -> Reply(x, l, 502)
    [] OTHER        -> Reply(x, l, 500)

begin_data(x, l) ==
  IF Len(x.c.in) > RawCap THEN Refuse(x, l, 552)
  ELSE [x EXCEPT !.c.data = @ \o x.c.in, !.c.in = <<>>]

\* Unlike visage's, this loop waits while a handshake is under way.
RECURSIVE ingest_commands(_)
ingest_commands(x) ==
  LET Then(y, l) == IF y.c.st = "DATA" /\ ~y.c.closed THEN begin_data(y, l)
                    ELSE ingest_commands(y)
      Taken(f) == [x EXCEPT !.c.in = Drop(@, f.n),
                            !.c.mixed = @ \/ (f.l.e # (x.c.tls = "up"))]
      At(f) == IF f.n = 0 THEN x
               ELSE IF f.l.v = "long" THEN Refuse(x, f.l, 500)
               ELSE Then(ingest_command(Taken(f), f.l), f.l)
  IN IF x.c.closed \/ x.c.tls = "pending" THEN x ELSE At(FirstLine(x.c.in))

ingest_data(x) ==
  LET Ended(y) == IF y.c.closed THEN y ELSE ingest_commands(y)
      Message(s) == [x EXCEPT !.c.in = @ \o Drop(x.c.data, s.at + s.len - 1),
                              !.c.data = Take(@, s.at - 1)]
      At(s) ==
        CASE s.r = 0 -> x
          [] s.r = 2 -> Refuse(x, x.c.data[s.at], 552)
          [] s.r = 1 -> Ended(ingest_deliver(Message(s), x.c.data[s.at]))
  IN At(ScanData(x.c.data))

take_bytes(x, toks) ==
  IF x.c.st # "DATA" THEN ingest_commands([x EXCEPT !.c.in = @ \o toks])
  ELSE IF Len(x.c.data) + Len(toks) > RawCap THEN Refuse(x, toks[1], 552)
  ELSE ingest_data([x EXCEPT !.c.data = @ \o toks])

\* The drain of imapd stops after a chunk that leaves the session in DATA:
\* what is decrypted and not taken stays until the socket is readable again.
RECURSIVE drain(_)
drain(x) ==
  LET Then(y) == IF y.c.st = "DATA" THEN y ELSE drain(y)
  IN IF x.c.closed THEN x
     ELSE IF x.c.dec # <<>>
          THEN Then(take_bytes([x EXCEPT !.c.dec = Drop(@, Chunk)], Take(x.c.dec, Chunk)))
     ELSE IF x.c.sock = <<>> THEN x
     ELSE IF ~Head(x.c.sock).e THEN Close(x)
     ELSE drain([x EXCEPT !.c.dec = Head(x.c.sock).toks, !.c.sock = Tail(@)])

imapd_ingest_readable(x, toks) ==
  IF x.c.tls = "up" THEN drain(x) ELSE take_bytes(x, toks)

\* tls_advance of imapd.c for an ingest connection.
handshake(x) ==
  IF x.c.sock = <<>> THEN x
  ELSE IF Head(x.c.sock).toks # <<Line("hello", "", FALSE)>>
       THEN [Close(x) EXCEPT !.c.out = <<>>, !.c.sock = <<>>]
  ELSE drain(conn_reset([x EXCEPT !.c.tls = "up", !.c.sock = Tail(@),
                                  !.c.told = NoTxn,
                                  !.c.out = Append(@, [code |-> 1, cap |-> FALSE])],
                        "INIT"))
=============================================================================
