------------------------------ MODULE SmtpHop ------------------------------
(***************************************************************************)
(* One SMTP hop.  smtp_out.c delivers a message to one of the three        *)
(* servers (mode "hop"), or meets a server that answers anything           *)
(* ("any_server"); or a server meets a client that sends any lines in any  *)
(* segments ("any_client"), and so that segmentation is seen to make no    *)
(* difference, next to a twin that gets the same lines one by one          *)
(* ("twin").                                                               *)
(*                                                                         *)
(* A connection outlives its client: what was in flight when smtp_out gave *)
(* up is still read by the server.                                         *)
(***************************************************************************)
EXTENDS SmtpSession, FiniteSets

CONSTANTS
  Scenarios, \* records: mode, srv, implicit, avail, tls, auth, cert, rcpt, env
  MaxConn,   \* connections smtp_out makes (relay.retries + 1)
  MaxLost,   \* replies that come too late or never
  MaxFlight, \* no line is sent while this many are on the way
  MaxRcpts, RawCap, Chunk, MaxFails

VARIABLES
  sc,    \* the scenario
  k,     \* the client, as in SmtpOut
  conns, \* the connections, as in SmtpSession
  eof,   \* connections the client has closed
  g,     \* the state the sessions of the server share
  lost,  \* replies lost so far, and how many of them after the message
  twin   \* the session that gets the lines one by one

vars == <<sc, k, conns, eof, g, lost, twin>>

V == INSTANCE SmtpIn
I == INSTANCE Ingest
O == INSTANCE Submission
C == INSTANCE SmtpOut

-----------------------------------------------------------------------------
(* The server side                                                          *)

readable(x, toks) ==
  CASE x.c.srv = "visage" -> V!conn_readable(x, toks)
    [] x.c.srv = "imapd"  -> I!imapd_ingest_readable(x, toks)
    [] x.c.srv = "outbox" -> O!outbox_conn_readable(x, toks)

handshake(x) ==
  CASE x.c.srv = "visage" -> V!handshake(x)
    [] x.c.srv = "imapd"  -> I!handshake(x)
    [] x.c.srv = "outbox" -> O!tls_advance(x)

\* The bytes before the first encrypted segment, and what is behind them.
Plain(sock) == LET n == {i \in 0 .. Len(sock) : \A j \in 1 .. i : ~sock[j].e}
                   m == CHOOSE i \in n : \A j \in n : j <= i
               IN [toks |-> FlattenSeq([i \in 1 .. m |-> sock[i].toks]),
                   rest |-> Drop(sock, m)]
Behind(toks, rest) ==
  IF toks = <<>> THEN rest ELSE <<[e |-> FALSE, toks |-> toks]>> \o rest

\* With TLS the server finds n segments in the socket, otherwise recv returns
\* n lines.
Receive(x, n) ==
  LET now == [x EXCEPT !.c.sock = Take(@, n)]
      p == Plain(x.c.sock)
      later(y) == [y EXCEPT !.c.sock = @ \o Drop(x.c.sock, n)]
  IN CASE x.c.tls = "pending" -> later(handshake(now))
       [] x.c.tls = "up"      -> later(readable(now, <<>>))
       [] x.c.tls = "none"    ->
            readable([x EXCEPT !.c.sock = Behind(Drop(p.toks, n), p.rest)],
                     Take(p.toks, n))

MostOf(c) == IF c.tls = "none"
             THEN LET m == Len(Plain(c.sock).toks) IN IF m < Chunk THEN m ELSE Chunk
             ELSE Len(c.sock)

ServerReads(i) ==
  /\ sc.mode # "any_server" /\ ~conns[i].closed
  /\ \E y \in {Receive([c |-> conns[i], g |-> g], n) : n \in 1 .. MostOf(conns[i])} :
       /\ conns' = [conns EXCEPT ![i] = IF sc.mode \in {"any_client", "twin"}
                                        THEN [y.c EXCEPT !.out = <<>>] ELSE y.c]
       /\ g' = y.g
  /\ UNCHANGED <<sc, k, eof, lost, twin>>

ServerSeesEof(i) ==
  /\ i \in eof /\ ~conns[i].closed /\ conns[i].sock = <<>>
  /\ conns' = [conns EXCEPT ![i].closed = TRUE]
  /\ UNCHANGED <<sc, k, eof, g, lost, twin>>

-----------------------------------------------------------------------------
(* smtp_out                                                                 *)

Now == Len(conns)
Waiting == k.pc \notin {"idle", "end"}

\* The client moves on to k1: what it writes goes out, and at the end of the
\* dialogue it closes.
Moves(k1, out) ==
  /\ k' = k1
  /\ conns' = [conns EXCEPT ![Now].out = out,
                            ![Now].sock = IF sc.mode = "hop" THEN @ \o k1.send ELSE @]
  /\ eof' = IF k1.pc = "end" THEN eof \cup {Now} ELSE eof

Connect ==
  /\ sc.mode \in {"hop", "any_server"} /\ Now < MaxConn
  /\ k.pc = "idle" \/ (k.pc = "end" /\ C!MayRetry(k, MaxConn - 1))
  /\ k' = C!Connected(k)
  /\ conns' = Append(conns, [NewConn(sc.srv, sc.implicit) EXCEPT !.sock = k'.send])
  /\ UNCHANGED <<sc, eof, g, lost, twin>>

ClientReads ==
  /\ sc.mode = "hop" /\ Waiting
  /\ LET out == conns[Now].out IN
     \/ out # <<>> /\ Moves(C!smtp_dialogue(k, Head(out), sc.cert), Tail(out))
     \/ out = <<>> /\ conns[Now].closed
        /\ Moves(C!smtp_dialogue(k, C!Silence, sc.cert), <<>>)
  /\ UNCHANGED <<sc, g, lost, twin>>

\* The reply is lost, or comes after the timeout.
ClientGivesUp ==
  /\ sc.mode = "hop" /\ Waiting /\ lost.all < MaxLost
  /\ Moves(C!smtp_dialogue(k, C!Silence, sc.cert), <<>>)
  /\ lost' = [all |-> lost.all + 1,
              final |-> lost.final + (IF k.pc = "final" THEN 1 ELSE 0)]
  /\ UNCHANGED <<sc, g, twin>>

\* A server that answers anything; code 1 is a handshake that succeeds.
Replies == [code : {0, 199, 220, 250, 334, 354, 421, 454, 535, 235}, cap : BOOLEAN]
AnyReply ==
  /\ sc.mode = "any_server" /\ Waiting
  /\ \E r \in Replies, ok \in BOOLEAN :
       Moves(C!smtp_dialogue(
               k, IF k.pc \in {"implicit", "handshake"} /\ ok
                  THEN [r EXCEPT !.code = 1] ELSE r, sc.cert), <<>>)
  /\ UNCHANGED <<sc, g, lost, twin>>

-----------------------------------------------------------------------------
(* A client that sends any lines                                            *)

Lines(srv) ==
  {<<"EHLO", "">>, <<"MAIL", "me">>, <<"RCPT", "nobody">>, <<"DATA", "">>,
   <<"RSET", "">>, <<"text", "">>, <<"dotCR", "">>, <<"STARTTLS", "">>}
  \cup CASE srv = "visage" -> {<<"RCPT", "alias">>, <<"RCPT", "token">>}
         [] srv = "imapd"  -> {<<"RCPT", "user">>}
         [] srv = "outbox" -> {<<"AUTH", "ok">>, <<"AUTH", "no">>}
\* Lines whose outcome is the same in every order of the segments.
TwinLines(srv) ==
  {<<"EHLO", "">>, <<"MAIL", "me">>, <<"DATA", "">>, <<"RSET", "">>,
   <<"text", "">>, <<"dotCR", "">>,
   <<"RCPT", IF srv = "imapd" THEN "user" ELSE "alias">>}

\* The terminator is two pieces of one line.
Pieces(v, a, e) ==
  IF v = "dotCR" THEN <<Line("dotCR", "", e), Line("LF", "", e)>> ELSE <<Line(v, a, e)>>

\* Lines on the way to the server.  Without TLS they are one stream of bytes;
\* with TLS they join the last record or make one of their own.
InFlight(c) == Len(FlattenSeq([i \in DOMAIN c.sock |-> c.sock[i].toks]))
Arrives(c, e, toks) ==
  LET n == Len(c.sock) IN
  /\ InFlight(c) < MaxFlight
  /\ \/ (n = 0 \/ e) /\ conns' = <<[c EXCEPT !.sock = Append(@, [e |-> e, toks |-> toks])]>>
     \/ n > 0 /\ c.sock[n].e = e /\ conns' = <<[c EXCEPT !.sock[n].toks = @ \o toks]>>

\* Inside a message every line but the terminator is text.
Sends(c, l) == c.st = "DATA" => l[1] \in {"text", "dotCR"}

\* A message is looked at in the state it is stored in, and then forgotten.
Looked(h) == [h EXCEPT !.stored = <<>>]

AnyLine ==
  /\ sc.mode = "any_client" /\ ~conns[1].closed
  /\ LET c == conns[1]
         e == c.tls = "up"
     IN \/ \E l \in Lines(sc.srv) : Sends(c, l) /\ Arrives(c, e, Pieces(l[1], l[2], e))
        \/ c.tls = "pending" /\ c.sock = <<>>
           /\ Arrives(c, FALSE, <<Line("hello", "", FALSE)>>)
  /\ g' = Looked(g)
  /\ UNCHANGED <<sc, k, eof, lost, twin>>

RECURSIVE OneByOne(_, _)
OneByOne(x, toks) ==
  IF toks = <<>> \/ x.c.closed THEN x
  ELSE OneByOne(readable(x, <<Head(toks)>>), Tail(toks))

TwinLine ==
  /\ sc.mode = "twin" /\ ~conns[1].closed /\ ~twin.c.closed
  /\ LET level == conns[1].sock = <<>> /\ Len(g.stored) = Len(twin.g.stored)
         t == IF level THEN [twin EXCEPT !.g = Looked(@)] ELSE twin
     IN \E l \in TwinLines(sc.srv) :
          /\ Len(t.g.stored) < 2
          /\ Sends(twin.c, l) /\ Arrives(conns[1], FALSE, Pieces(l[1], l[2], FALSE))
          /\ twin' = [OneByOne(t, Pieces(l[1], l[2], FALSE)) EXCEPT !.c.out = <<>>]
          /\ g' = IF level THEN Looked(g) ELSE g
  /\ UNCHANGED <<sc, k, eof, lost>>

\* What goes on around a session: the alias or the token disappears, the
\* store or the queue starts to fail, the lockout ends.
Environment ==
  /\ \/ "alias" \in sc.env /\ g.alias /\ g' = [g EXCEPT !.alias = FALSE]
     \/ "token" \in sc.env /\ g.token /\ g' = [g EXCEPT !.token = FALSE]
     \/ "store" \in sc.env /\ g.fault = "none" /\ g' = [g EXCEPT !.fault = "store"]
     \/ /\ "queue" \in sc.env /\ g.fault = "none"
        /\ \E at \in SUBSET (1 .. MaxRcpts) \ {{}} :
             g' = [g EXCEPT !.fault = "queue", !.at = at]
     \/ "lock" \in sc.env /\ g.locked /\ g' = [g EXCEPT !.locked = FALSE, !.fails = 0]
  /\ UNCHANGED <<sc, k, conns, eof, lost, twin>>

-----------------------------------------------------------------------------

Shared(s) == [alias |-> TRUE, token |-> TRUE, catch_all |-> FALSE, fault |-> "none", at |-> {},
              trusted |-> FALSE, avail |-> s.avail, stored |-> <<>>,
              fails |-> 0, locked |-> FALSE]
Session(s) == [NewConn(s.srv, s.implicit) EXCEPT !.out = <<>>]

Init ==
  /\ sc \in Scenarios
  /\ k = C!Client(sc)
  /\ conns = IF sc.mode \in {"any_client", "twin"} THEN <<Session(sc)>> ELSE <<>>
  /\ eof = {}
  /\ g = Shared(sc)
  /\ lost = [all |-> 0, final |-> 0]
  /\ twin = [c |-> Session(sc), g |-> Shared(sc)]

Next ==
  \/ Connect \/ ClientReads \/ ClientGivesUp \/ AnyReply
  \/ \E i \in DOMAIN conns : ServerReads(i) \/ ServerSeesEof(i)
  \/ AnyLine \/ TwinLine \/ Environment

Spec == Init /\ [][Next]_vars

-----------------------------------------------------------------------------
(* Properties                                                               *)

\* The verdict smtp_out returns is true of the message: OK only when the
\* server took it for the recipient it was sent to and with all its lines, a
\* final failure only when no attempt but one whose last reply was lost left
\* a copy behind; and there is one copy at most for each such attempt.
VerdictTrue ==
  sc.mode = "hop" =>
    /\ k.verdict = "OK" =>
         \E i \in DOMAIN g.stored :
           /\ g.stored[i].rcpts = <<k.rcpt>> /\ g.stored[i].from = "me"
           /\ [j \in DOMAIN g.stored[i].body |-> g.stored[i].body[j].v] = <<"text", "text">>
    /\ k.verdict \in {"PERMFAIL", "ERROR"} => Len(g.stored) <= lost.final
    /\ Len(g.stored) <= 1 + lost.final

\* A message is never returned for good because of something temporary: when
\* smtp_out ends with a final failure, the last thing it heard was not a 4xx
\* reply and not silence.  (What fails on its own side is not heard: where
\* certificates have to be checked and cannot be loaded, the failure is final,
\* smtp_out.c:1080-1088.)
TemporaryNeverBounces ==
  k.verdict \in {"PERMFAIL", "ERROR"} => k.last \notin {"TEMPFAIL", "silence"}

\* The credentials of the relay leave the daemon only inside TLS and only to a
\* server whose certificate is good, whatever the server says and offers.
CredentialsOnlyVerified ==
  \A i \in DOMAIN k.send : \A j \in DOMAIN k.send[i].toks :
    k.send[i].toks[j].v \in {"AUTH", "b64"} => k.send[i].e /\ k.verified

\* smtp_out never waits for a server that waits for smtp_out: while it waits,
\* something is on the way in one direction or the connection is closing.  No
\* line is left in a buffer that nobody looks at again.
NoStall ==
  sc.mode = "hop" /\ Waiting =>
    conns[Now].sock # <<>> \/ conns[Now].out # <<>> \/ conns[Now].closed

\* What a daemon stores is the transaction its replies described: the sender
\* and exactly the recipients it said 250 to since then (fewer only when it
\* does not say 250 to the message), of lines that were
\* all sent inside TLS or all outside; outbox takes mail only over TLS and
\* from a client that authenticated.  A recipient visage accepted is dropped
\* in silence only when its alias or token was removed after that.
EnvelopeTrue ==
  \A i \in DOMAIN g.stored :
    LET m == g.stored[i] IN
    /\ m.from = m.told.mail /\ m.rcpts # <<>>
    /\ IF m.ack THEN m.rcpts = m.told.rcpts
       ELSE m.rcpts \in AllSubSeqs(m.told.rcpts) \ {m.told.rcpts}
    /\ ~m.mixed
    /\ \A j \in DOMAIN m.lost : ~(IF m.lost[j] = "alias" THEN g.alias ELSE g.token)
    /\ m.srv = "outbox" => m.secure /\ m.auth

\* How the network cuts the lines of a client into segments makes no
\* difference to what the session does: once it has taken all of them it is
\* where a session is that got them one by one, with the same messages
\* stored.  (A terminator that came with the DATA line is looked at when more
\* bytes come; and where a message is over the limit both close.)
SegmentsDoNotMatter ==
  LET c == conns[1]
      same(m, n) == /\ m.from = n.from /\ m.rcpts = n.rcpts /\ m.body = n.body
  IN sc.mode = "twin" /\ c.sock = <<>> /\ ~c.closed /\ ~twin.c.closed
     /\ ~(c.st = "DATA" /\ Has(c.data, "dotCR"))
     => /\ c.st = twin.c.st /\ c.from = twin.c.from /\ c.rcpts = twin.c.rcpts
        /\ c.data = twin.c.data
        /\ Len(g.stored) = Len(twin.g.stored)
        /\ \A i \in DOMAIN g.stored : same(g.stored[i], twin.g.stored[i])

\* smtp_out never says more than it knows: its verdict is true of the message,
\* and nothing temporary becomes a bounce (smtp_dialogue, smtp_out_send_host).
VerdictSound == VerdictTrue /\ TemporaryNeverBounces

\* A transaction is what the two sides said to each other, however it was cut
\* into segments and wherever TLS began (conn_readable, starttls).
TransactionTrue == EnvelopeTrue /\ SegmentsDoNotMatter
=============================================================================
