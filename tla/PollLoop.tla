----------------------------- MODULE PollLoop ------------------------------
(***************************************************************************)
(* The event loops of the four daemons: server_poll of smtp_in.c (visage,  *)
(* with the admin HTTP connections of http.c in its slot table), imapd.c,  *)
(* jmapd.c and outbox_main.c.                                              *)
(*                                                                         *)
(* One turn of a loop sweeps idle connections, builds the pollfd array,    *)
(* blocks in poll(), accepts, dispatches the connections by index with the *)
(* events poll() returned, and reaps.  The peers act between any two of    *)
(* these steps.  A command is a token of what it asks of the loop; what    *)
(* the session answers is the matter of the session modules.               *)
(***************************************************************************)
EXTENDS Integers, Sequences, FiniteSets, FiniteSetsExt, SequencesExt

CONSTANTS
  Scenarios,    \* a daemon, the peers that are about, how long time runs, and
                \* SMTP_IN_MAX_CONNS_PER_IP: all peers share one address
  Peer,         \* clients of the main listeners
  Terse,        \* those of them that only send one plain command
  HttpPeer,     \* clients of visage's admin listener
  MaxConns,     \* SMTP_IN_MAX_CONNS and its likes
  Slots,        \* SMTP_IN_MAX_HTTP
  Window,       \* replies a socket holds that its peer has not read
  MaxOut,       \* SMTP_IN_MAX_OUT, in replies; half of it stops the reading
  BigLen,       \* replies a streamed answer consists of
  Chunk,        \* commands one recv returns
  MaxSends,     \* bound: segments a peer sends
  Segments,     \* bound: what a peer may send at once
  OutCeil       \* bound: replies counted in a backlog

ASSUME LoopAssumption ==
  /\ \A sc \in Scenarios :
       /\ sc.d \in {"visage", "imapd", "jmapd", "outbox"} /\ sc.until \in Nat
       /\ sc.perip \in Nat
       /\ sc.crowd \subseteq Peer \cup (IF sc.d = "visage" THEN HttpPeer ELSE {})
  /\ Peer \cap HttpPeer = {} /\ Terse \subseteq Peer /\ Slots \in Nat /\ MaxConns \in Nat
  /\ Window \in Nat \ {0} /\ MaxOut \in Nat \ {0}
  /\ BigLen \in Nat /\ Chunk \in Nat \ {0} /\ OutCeil > MaxOut + 1

VARIABLES
  d,        \* the daemon
  until,    \* bound: when time stops
  perip,    \* how many connections one address may have
  pc,       \* where its loop is
  conns,    \* srv->conns
  slot,     \* s_http
  polled,   \* the pollfd array after poll(): whose entry, which events
  wake,     \* when poll() returns though nothing is ready
  i,        \* the index the dispatch has come to
  net,      \* the sockets, by peer
  turn,     \* the loop's now, read before it blocked
  clock     \* time(NULL)

vars == <<d, until, perip, pc, conns, slot, polled, wake, i, net, turn, clock>>

-----------------------------------------------------------------------------
(* Sockets and connections                                                  *)

None == "none"
Half == MaxOut \div 2
CmdTmo == 1     \* cmd_tmo, and the HTTP idle timeout
SlowTmo == 2    \* data_tmo and IMAPD_IDLE_TMO, the longer ones

\* rx holds segments (under TLS: records) the daemon has not read, tx counts
\* replies the peer has not read.  owed, behind and mixed are observers: the
\* commands without an answer, whether commands have been read while a
\* streamed answer had the connection, and whether a reply was queued or sent
\* into a handshake.
Socket ==
  [st |-> "new", kind |-> None, rx |-> <<>>, tx |-> 0, eof |-> FALSE, sent |-> 0,
   proxied |-> FALSE, hello |-> FALSE, granted |-> FALSE, owed |-> 0,
   behind |-> FALSE, mixed |-> FALSE]

\* len and off are out_len and out_off: len falls only when all is sent.  in
\* is c->in, buf what mbedtls has decrypted and nobody has asked for.
NewConn(p) ==
  [p |-> p, closed |-> FALSE, len |-> 0, off |-> 0, act |-> turn, tls |-> None,
   wantw |-> FALSE, in |-> <<>>, buf |-> <<>>, gen |-> None, left |-> 0,
   slow |-> FALSE, greeted |-> FALSE]

\* close(): nothing the daemon does reaches the socket again.
Shut(s) == [Socket EXCEPT !.st = "closed", !.tx = s.tx, !.mixed = s.mixed]

Drop(c)    == [c EXCEPT !.closed = TRUE, !.len = 0, !.off = 0]
Pending(c) == c.len - c.off
Grow(c)    == [c EXCEPT !.len = Min({@ + 1, OutCeil})]

Handshaking(c) == c.tls \in {"pending", "handshake"}
Established(c) == c.tls = "up"

-----------------------------------------------------------------------------
(* Output.  x is a connection and its socket.                               *)

\* conn_flush: what the socket takes; a dead peer loses the backlog.
conn_flush(x) ==
  LET n == Min({Pending(x.c), Window - x.s.tx})
  IN  IF Pending(x.c) = 0 THEN [x EXCEPT !.c.len = 0, !.c.off = 0]
      ELSE IF x.s.st = "reset" THEN [x EXCEPT !.c = Drop(@)]
      ELSE [c |-> IF n = Pending(x.c) THEN [x.c EXCEPT !.len = 0, !.off = 0]
                  ELSE [x.c EXCEPT !.off = @ + n],
            s |-> [x.s EXCEPT !.tx = @ + n,
                              !.mixed = @ \/ (n > 0 /\ x.c.tls = "handshake")]]

\* conn_reply: past the cap the connection is given up.
conn_reply(x) ==
  IF x.c.len > MaxOut THEN [x EXCEPT !.c.closed = TRUE]
  ELSE conn_flush([c |-> Grow(x.c),
                   s |-> [x.s EXCEPT !.mixed = @ \/ Handshaking(x.c)]])

Answered(x) == [x EXCEPT !.s.owed = Max({0, @ - 1})]

-----------------------------------------------------------------------------
(* Streamed answers                                                         *)

\* imapd_fetch_pump, imapd_pop3_pump: as much as half the cap allows, and
\* the connection is the client's again when the last of it is queued.
imapd_fetch_pump(x) ==
  LET n == Min({x.c.left, Max({0, Half - Pending(x.c)})})
      y == conn_flush([x EXCEPT !.c.len = Min({@ + n, OutCeil}), !.c.left = @ - n])
  IN  IF y.c.closed \/ y.c.left > 0 THEN y
      ELSE Answered(conn_reply([y EXCEPT !.c.gen = None]))

\* imapd_search_pump: one slice of work, the answer after the last.
imapd_search_pump(x) ==
  IF x.c.left > 1 THEN [x EXCEPT !.c.left = @ - 1]
  ELSE Answered(conn_reply([x EXCEPT !.c.gen = None, !.c.left = 0]))

\* jmapd_download_pump: fills the backlog up to half the cap; nothing is
\* sent before the next POLLOUT.
jmapd_download_pump(x) ==
  LET n == Min({x.c.left, Max({0, Half - Pending(x.c)})})
      y == [x EXCEPT !.c.len = Min({@ + n, OutCeil}), !.c.left = @ - n,
                     !.c.act = IF n > 0 THEN clock ELSE @]
  IN  IF y.c.left > 0 THEN y ELSE Answered([y EXCEPT !.c.gen = None])

-----------------------------------------------------------------------------
(* Input                                                                    *)

\* The command is the session's.  STARTTLS is refused with bytes behind it;
\* the PROXY line of visage's SMTPS listener starts TLS by itself.
Exec(x, u) ==
  CASE u = "stls" ->
         IF x.c.tls # None \/ x.c.in # <<>> THEN Answered(conn_reply(x))
         ELSE Answered([conn_flush([x EXCEPT !.c = Grow(@)])
                        EXCEPT !.c.tls = "pending", !.s.granted = TRUE])
    [] u = "proxy" -> [x EXCEPT !.c.tls = "pending", !.s.granted = TRUE]
    [] u = "quit" -> Answered([conn_reply(x) EXCEPT !.c.closed = TRUE])
    [] u = "slow" -> Answered(conn_reply([x EXCEPT !.c.slow = TRUE]))
    [] u = "big"  -> imapd_fetch_pump([x EXCEPT !.c.gen = "fetch", !.c.left = BigLen])
    [] u = "work" -> imapd_search_pump([x EXCEPT !.c.gen = "search", !.c.left = 2])
    [] OTHER      -> Answered(conn_reply([x EXCEPT !.c.slow = FALSE]))

RECURSIVE Commands(_)

\* imap_process, pop3_commands, process_commands: until a stream owns the
\* connection, TLS begins, or no whole command is left.
Commands(x) ==
  IF x.c.closed \/ x.c.gen # None \/ Handshaking(x.c) \/ x.c.in = <<>>
    THEN [x EXCEPT !.s.behind = x.c.gen # None /\ (x.c.in # <<>> \/ x.c.buf # <<>>)]
  ELSE Commands(Exec([x EXCEPT !.c.in = Tail(@)], Head(x.c.in)))

\* The step of jmapd_http_readable after the read: one request is answered,
\* a second one behind it is an error.
Request(x) ==
  IF x.c.in = <<>> \/ x.c.in = <<"part">> THEN x
  ELSE LET u == x.c.in[Len(x.c.in)]
           y == [x EXCEPT !.c.in = <<>>, !.c.len = Min({@ + 1, OutCeil})]
       IN  IF Len(SelectSeq(x.c.in, LAMBDA w : w # "part")) > 1 \/ u = "part"
             THEN Answered([y EXCEPT !.c.closed = TRUE])
           ELSE IF u = "big"
             THEN jmapd_download_pump([y EXCEPT !.c.gen = "blob", !.c.left = BigLen])
           ELSE Answered([y EXCEPT !.c.closed = u = "quit"])

Take(x, seg) == [x EXCEPT !.c.in = @ \o seg, !.c.act = turn]

\* One recv of a plaintext socket.
Recv(x) ==
  IF x.s.st = "reset" \/ (x.s.rx = <<>> /\ x.s.eof) THEN [x EXCEPT !.c.closed = TRUE]
  ELSE IF x.s.rx = <<>> THEN x
  ELSE LET h == Head(x.s.rx)
           n == Min({Chunk, Len(h)})
       IN  [Take(x, SubSeq(h, 1, n)) EXCEPT
             !.s.rx = IF n = Len(h) THEN Tail(@)
                      ELSE <<SubSeq(h, n + 1, Len(h))>> \o Tail(@)]

BugReadOnce(x) ==
  IF x.c.buf # <<>>
    THEN LET y == Take([x EXCEPT !.c.buf = Tail(@)], <<Head(x.c.buf)>>)
         IN  IF d = "jmapd" THEN y ELSE Commands(y)
  ELSE IF x.s.rx # <<>> /\ Head(x.s.rx) # <<"hs">>
    THEN LET r == Head(x.s.rx)
             y == Take([x EXCEPT !.c.buf = Tail(r), !.s.rx = Tail(@)], <<Head(r)>>)
         IN  IF d = "jmapd" THEN y ELSE Commands(y)
  ELSE IF x.s.rx # <<>> \/ x.s.eof \/ x.s.st = "reset"
    THEN [x EXCEPT !.c.closed = TRUE]
  ELSE x

RECURSIVE Drain(_)

\* The drain loops: mbedtls reads a record when it has nothing decrypted and
\* returns at most a chunk of it.  imapd and visage run the commands between
\* two reads and leave when a FETCH or RETR took the connection; jmapd reads
\* everything first.
Drain(x) ==
  IF x.c.buf # <<>>
    THEN LET n == Min({Chunk, Len(x.c.buf)})
             Run(y)  == IF d = "jmapd" THEN y ELSE Commands(y)
             Then(z) == IF z.c.closed \/ z.c.gen = "fetch" THEN z ELSE Drain(z)
         IN  Then(Run(Take([x EXCEPT !.c.buf = SubSeq(@, n + 1, Len(@))],
                           SubSeq(x.c.buf, 1, n))))
  ELSE IF x.s.rx # <<>> /\ Head(x.s.rx) # <<"hs">>
    THEN Drain([x EXCEPT !.c.buf = Head(x.s.rx), !.s.rx = Tail(@)])
  ELSE IF x.s.rx # <<>> \/ x.s.eof \/ x.s.st = "reset"
    THEN [x EXCEPT !.c.closed = TRUE]
  ELSE x

\* conn_readable, imapd_imap_readable, imapd_pop3_readable,
\* outbox_conn_readable.
conn_readable(x) ==
  IF x.c.tls # None THEN IF Established(x.c) THEN Drain(x) ELSE x
  ELSE LET Then(y) == IF y.c.closed THEN y ELSE Commands(y) IN Then(Recv(x))

jmapd_http_readable(x) ==
  LET Then(y) == IF y.c.closed THEN y ELSE Request(y)
  IN  IF x.c.gen = "blob" THEN x
      ELSE IF x.c.tls = None THEN Then(Recv(x))
      ELSE IF ~Established(x.c) THEN x
      ELSE Then(Drain(x))

Readable(x) == IF d = "jmapd" THEN jmapd_http_readable(x) ELSE conn_readable(x)

-----------------------------------------------------------------------------
(* TLS                                                                      *)

\* The handshake step: the peer's flight is read and ours written.
handshake_step(x) ==
  LET y == [x EXCEPT !.c.tls = "handshake"]
  IN  IF x.s.st = "reset" \/ (x.s.rx = <<>> /\ x.s.eof /\ ~x.c.wantw) THEN [r |-> -1, x |-> y]
      ELSE IF x.c.wantw \/ (x.s.rx # <<>> /\ Head(x.s.rx) = <<"hs">>)
        THEN LET z == IF x.c.wantw THEN y ELSE [y EXCEPT !.s.rx = Tail(@)]
             IN  IF x.s.tx < Window
                 THEN [r |-> 1, x |-> [z EXCEPT !.c.tls = "up", !.c.wantw = FALSE,
                                               !.s.tx = @ + 1]]
                 ELSE [r |-> 0, x |-> [z EXCEPT !.c.wantw = TRUE]]
      ELSE IF x.s.rx # <<>> THEN [r |-> -1, x |-> y]
      ELSE [r |-> 0, x |-> y]

\* tls_advance: a failed round drops the connection without a word; once TLS
\* is up an implicit-TLS peer is greeted, and what has arrived with the last
\* flight is read at once.
tls_advance(x) ==
  LET Up(y) == IF d = "jmapd" THEN y
               ELSE IF y.c.greeted THEN [y EXCEPT !.c.slow = FALSE]
               ELSE conn_reply([y EXCEPT !.c.greeted = TRUE])
      Then(h) == CASE h.r < 0 -> [h.x EXCEPT !.c = Drop(@)]
                   [] h.r = 0 -> h.x
                   [] h.r > 0 -> Readable(Up(h.x))
  IN  Then(handshake_step([x EXCEPT !.c.act = turn]))

-----------------------------------------------------------------------------
(* The sweep of idle connections, and the timeout of poll()                 *)

conn_timeout(c) == IF c.slow THEN SlowTmo ELSE CmdTmo
Idle(c, tmo)    == clock > c.act /\ clock - c.act >= tmo

BugPlainBye(x) ==
  IF ~Idle(x.c, conn_timeout(x.c)) THEN x
  ELSE [conn_reply(x) EXCEPT !.c.closed = TRUE]

\* visage and outbox say 421, but not into a handshake.
VisageSweep(x) ==
  IF ~Idle(x.c, conn_timeout(x.c)) THEN x
  ELSE IF Handshaking(x.c) THEN [x EXCEPT !.c = Drop(@)]
  ELSE [conn_reply(x) EXCEPT !.c.closed = TRUE]

OutboxSweep(x) == VisageSweep(x)

\* imapd appends its BYE past the cap; a POP3 connection closes in silence.
ImapdSweep(x) ==
  IF ~Idle(x.c, conn_timeout(x.c)) THEN x
  ELSE IF Handshaking(x.c) THEN [x EXCEPT !.c = Drop(@)]
  ELSE IF x.s.kind = "pop3" THEN [x EXCEPT !.c.closed = TRUE]
  ELSE [conn_flush([x EXCEPT !.c = Grow(@)]) EXCEPT !.c.closed = TRUE]

\* jmapd drops what it has not sent.
JmapdSweep(x) == IF Idle(x.c, CmdTmo) THEN [x EXCEPT !.c = Drop(@)] ELSE x

SweepConn(x) ==
  CASE d = "visage" -> VisageSweep(x) [] d = "outbox" -> OutboxSweep(x)
    [] d = "imapd"  -> ImapdSweep(x)  [] d = "jmapd"  -> JmapdSweep(x)

BugNoHttpDeadline(C, H) ==
  {c.act + (IF d = "jmapd" THEN CmdTmo ELSE conn_timeout(c)) : c \in C}

\* poll_timeout_ms: the earliest idle deadline; the slot table counts too.
poll_timeout(C, H) ==
  {c.act + (IF d = "jmapd" THEN CmdTmo ELSE conn_timeout(c)) : c \in C}
    \cup {h.act + CmdTmo : h \in H}

-----------------------------------------------------------------------------
(* What poll() is asked for                                                 *)

TlsEvents(c) == IF c.tls = "pending" \/ c.wantw THEN {"OUT"} ELSE {"IN"}
Backlog(c)   == IF c.off < c.len THEN {"OUT"} ELSE {}

BugClosedUnpolled(c) ==
  IF c.closed THEN {}
  ELSE IF Handshaking(c) THEN TlsEvents(c)
  ELSE (IF c.len < Half THEN {"IN"} ELSE {}) \cup Backlog(c)

\* visage and outbox: reading stops while the backlog is high.
VisageEvents(c) ==
  IF c.closed THEN Backlog(c)
  ELSE IF Handshaking(c) THEN TlsEvents(c)
  ELSE (IF c.len < Half THEN {"IN"} ELSE {}) \cup Backlog(c)

OutboxEvents(c) == VisageEvents(c)

\* imapd and jmapd: a stream owns the connection.
ImapdEvents(c) ==
  IF ~c.closed /\ ~Handshaking(c) /\ c.gen # None THEN {"OUT"} ELSE VisageEvents(c)

JmapdEvents(c) ==
  IF ~c.closed /\ ~Handshaking(c) /\ c.gen = "blob" THEN {"OUT"} ELSE VisageEvents(c)

Events(c) ==
  CASE d = "visage" -> VisageEvents(c) [] d = "outbox" -> OutboxEvents(c)
    [] d = "imapd"  -> ImapdEvents(c)  [] d = "jmapd"  -> JmapdEvents(c)

\* What the kernel reports: HUP whether it was asked for or not.
Revents(ev, s) ==
  {e \in ev : \/ e = "IN" /\ (s.rx # <<>> \/ s.eof \/ s.st = "reset")
              \/ e = "OUT" /\ (s.tx < Window \/ s.st = "reset")}
    \cup (IF s.st = "reset" THEN {"HUP"} ELSE {})

-----------------------------------------------------------------------------
(* Dispatch of one connection                                               *)

Tls(x, rev) ==
  LET sent(y) == ~y.c.closed /\ Pending(y.c) = 0
      Then(y, go) == IF go THEN tls_advance(y) ELSE y
      Flushed(y) == Then(y, sent(y))
  IN  IF x.c.tls # "pending" THEN Then(x, rev # {})
      ELSE IF "OUT" \notin rev THEN x
      ELSE Flushed(conn_flush(x))

Writable(x, rev) == IF ~x.c.closed /\ "OUT" \in rev THEN conn_flush(x) ELSE x

\* visage and outbox.
VisageDispatch(x, rev) ==
  IF x.c.closed THEN IF "OUT" \in rev THEN conn_flush(x) ELSE x
  ELSE IF Handshaking(x.c) THEN Tls(x, rev)
  ELSE Writable(IF {"IN", "HUP"} \cap rev # {} THEN conn_readable(x) ELSE x, rev)

OutboxDispatch(x, rev) == VisageDispatch(x, rev)

\* imapd: a stream is pumped before anything is read, and a search in
\* progress is not idle.
ImapdDispatch(x, rev) ==
  IF ~x.c.closed /\ x.c.gen = "fetch"
    THEN IF "OUT" \in rev THEN conn_flush(imapd_fetch_pump(x)) ELSE x
  ELSE IF ~x.c.closed /\ x.c.gen = "search"
    THEN IF "OUT" \in rev
         THEN [conn_flush(imapd_search_pump(x)) EXCEPT !.c.act = turn] ELSE x
  ELSE VisageDispatch(x, rev)

\* jmapd: the download is pumped once the backlog has been sent on.
JmapdDispatch(x, rev) ==
  IF x.c.closed THEN IF "OUT" \in rev THEN conn_flush(x) ELSE x
  ELSE IF Handshaking(x.c) THEN Tls(x, rev)
  ELSE LET Then(y) == IF "OUT" \in rev /\ ~y.c.closed /\ y.c.gen = "blob"
                      THEN jmapd_download_pump(y) ELSE y
       IN  Then(Writable(IF {"IN", "HUP"} \cap rev # {}
                         THEN jmapd_http_readable(x) ELSE x, rev))

DispatchConn(x, rev) ==
  CASE d = "visage" -> VisageDispatch(x, rev) [] d = "outbox" -> OutboxDispatch(x, rev)
    [] d = "imapd"  -> ImapdDispatch(x, rev)  [] d = "jmapd"  -> JmapdDispatch(x, rev)

-----------------------------------------------------------------------------
(* The admin connections of visage                                          *)

FreeSlot == [p |-> None, act |-> 0, ev |-> {}, in |-> <<>>, left |-> 0]
Used     == {k \in 1..Slots : slot[k].p # None}

\* http_conn_free, http_try_flush: h is a slot and its socket; the slot is
\* released and the socket closed when the response is out or the peer gone.
http_conn_free(h) == [c |-> FreeSlot, s |-> Shut(h.s)]

http_try_flush(h) ==
  LET n == Min({h.c.left, Window - h.s.tx})
  IN  IF h.s.st = "reset" THEN http_conn_free(h)
      ELSE IF n = h.c.left THEN http_conn_free([h EXCEPT !.s.tx = @ + n])
      ELSE [h EXCEPT !.c.left = @ - n, !.s.tx = @ + n]

\* http_conn_on_readable: one recv; a whole request is answered, with an error
\* if bytes follow it.
http_on_readable(h) ==
  IF h.c.ev = {"OUT"} THEN h
  ELSE LET y == Recv(h)
       IN  IF h.s.st = "reset" \/ (h.s.rx = <<>> /\ h.s.eof) THEN http_conn_free(h)
           ELSE IF \A j \in DOMAIN y.c.in : y.c.in[j] = "part" THEN y
           ELSE http_try_flush([y EXCEPT !.c.ev = {"OUT"}, !.c.left = BigLen])

\* The HTTP part of the dispatch.
HttpDispatch1(h, rev) ==
  LET y == IF {"IN", "HUP"} \cap rev # {}
           THEN http_on_readable([h EXCEPT !.c.act = turn]) ELSE h
  IN  IF y.c.p = None \/ "OUT" \notin rev THEN y
      ELSE IF y.c.ev = {"OUT"} THEN http_try_flush([y EXCEPT !.c.act = turn])
      ELSE [y EXCEPT !.c.act = turn]

-----------------------------------------------------------------------------
(* Accepting                                                                *)

\* What becomes of an accepted socket: greeted, or left to the handshake.
VisageAccept(p) ==
  LET x == [c |-> NewConn(p), s |-> [net[p] EXCEPT !.st = IF @ = "reset" THEN @ ELSE "open"]]
  IN  IF x.s.kind = "tls" THEN x
      ELSE [conn_reply(x) EXCEPT !.c.greeted = TRUE]

OutboxAccept(p) ==
  LET x == VisageAccept(p)
  IN  IF x.s.kind = "tls" THEN [x EXCEPT !.c.tls = "pending", !.s.granted = TRUE] ELSE x

ImapdAccept(p) == VisageAccept(p)

JmapdAccept(p) ==
  LET x == [c |-> NewConn(p), s |-> [net[p] EXCEPT !.st = IF @ = "reset" THEN @ ELSE "open"]]
  IN  IF x.s.kind = "tls"
      THEN tls_advance([x EXCEPT !.c.tls = "pending", !.s.granted = TRUE]) ELSE x

AcceptOne(p) ==
  CASE d = "visage" -> VisageAccept(p) [] d = "outbox" -> OutboxAccept(p)
    [] d = "imapd"  -> ImapdAccept(p)  [] d = "jmapd"  -> JmapdAccept(p)

BugOneMore == Len(conns) >= MaxConns \/ Len(conns) > perip

\* Refused before any greeting: all peers come from one address.
Full == Len(conns) >= MaxConns \/ Len(conns) >= perip


-----------------------------------------------------------------------------
(* The loop                                                                 *)

At(n)      == [c |-> conns[n], s |-> net[conns[n].p]]
AtSlot(k)  == [c |-> slot[k], s |-> net[slot[k].p]]
Ready(K)   == {p \in DOMAIN net : net[p].st = "backlog" /\ net[p].kind \in K}
Listeners  == {"smtp", "tls", "imap", "pop3", "http"}
NeverWakes == 100
NothingPolled == [conn |-> <<>>, slot |-> <<>>, lst |-> {}]

\* poll(): events are taken all at once, and are acted on one by one.
Poll ==
  LET c == [n \in DOMAIN conns |->
             [p |-> conns[n].p, rev |-> Revents(Events(conns[n]), net[conns[n].p])]]
      h == [k \in 1..Slots |->
             [p |-> slot[k].p,
              rev |-> IF k \in Used THEN Revents(slot[k].ev, net[slot[k].p]) ELSE {}]]
      l == {net[p].kind : p \in Ready(Listeners)}
  IN  /\ pc = "wait"
      /\ \/ l # {} \/ clock >= wake
         \/ \E n \in DOMAIN c : c[n].rev # {}
         \/ \E k \in DOMAIN h : h[k].rev # {}
      /\ polled' = [conn |-> c, slot |-> h, lst |-> l]
      /\ pc' = "work" /\ i' = 1
      /\ UNCHANGED <<d, until, perip, conns, slot, wake, net, turn, clock>>

\* server_accept: every socket in the backlog, those that came after poll()
\* included; the limits come first.
server_accept(p) ==
  /\ pc = "work" /\ p \in Ready(polled.lst \ {"http"})
  /\ IF Full THEN net' = [net EXCEPT ![p] = Shut(@)] /\ UNCHANGED conns
     ELSE \E x \in {AcceptOne(p)} :
            conns' = Append(conns, x.c) /\ net' = [net EXCEPT ![p] = x.s]
  /\ UNCHANGED <<d, until, perip, pc, slot, polled, wake, i, turn, clock>>

\* http_accept, smtp_in_register_http_conn: the first free slot, whose clock
\* is the wall's and not the loop's.
http_accept(p) ==
  /\ pc = "work" /\ p \in Ready(polled.lst \cap {"http"})
  /\ Ready(polled.lst \ {"http"}) = {}
  /\ IF Used = 1..Slots THEN net' = [net EXCEPT ![p] = Shut(@)] /\ UNCHANGED slot
     ELSE LET k == Min(1..Slots \ Used)
          IN  /\ slot' = [slot EXCEPT ![k] = [FreeSlot EXCEPT !.p = p, !.act = clock,
                                                              !.ev = {"IN"}]]
              /\ net' = [net EXCEPT ![p].st = "open"]
  /\ UNCHANGED <<d, until, perip, pc, conns, polled, wake, i, turn, clock>>

\* What poll() left to do, in the order the loop does it: the backlog, the
\* connections it knew of by index, the slots.  An entry without events is
\* passed over.
ToAccept == Ready(polled.lst)
ToDo     == {n \in i..Len(polled.conn) : polled.conn[n].rev # {}}
SlotToDo == {k \in Max({1, i - Len(polled.conn)})..Slots :
               k \in Used /\ polled.slot[k].rev # {}}

BugReapInLoop ==
  LET n == Min(ToDo)
      e(x) == x.c.closed /\ x.c.off >= x.c.len
  IN  /\ pc = "work" /\ ToAccept = {} /\ ToDo # {}
      /\ \E x \in {DispatchConn(At(n), polled.conn[n].rev)} :
           /\ conns' = IF e(x) THEN Front([conns EXCEPT ![n] = conns[Len(conns)]])
                       ELSE [conns EXCEPT ![n] = x.c]
           /\ net' = [net EXCEPT ![x.c.p] = IF e(x) THEN Shut(x.s) ELSE x.s]
      /\ i' = n + 1
      /\ UNCHANGED <<d, until, perip, pc, slot, polled, wake, turn, clock>>

Dispatch ==
  LET n == Min(ToDo)
  IN  /\ pc = "work" /\ ToAccept = {} /\ ToDo # {}
      /\ \E x \in {DispatchConn(At(n), polled.conn[n].rev)} :
           conns' = [conns EXCEPT ![n] = x.c] /\ net' = [net EXCEPT ![x.c.p] = x.s]
      /\ i' = n + 1
      /\ UNCHANGED <<d, until, perip, pc, slot, polled, wake, turn, clock>>

DispatchHttp ==
  LET k == Min(SlotToDo)
  IN  /\ pc = "work" /\ ToAccept = {} /\ ToDo = {} /\ SlotToDo # {}
      /\ \E h \in {HttpDispatch1(AtSlot(k), polled.slot[k].rev)} :
           slot' = [slot EXCEPT ![k] = h.c] /\ net' = [net EXCEPT ![slot[k].p] = h.s]
      /\ i' = Len(polled.conn) + k + 1
      /\ UNCHANGED <<d, until, perip, pc, conns, polled, wake, turn, clock>>

Done(c) == c.closed /\ c.off >= c.len

RECURSIVE Kept(_, _)

\* The last connection takes the place of a destroyed one.
Kept(cs, n) ==
  IF n > Len(cs) THEN cs
  ELSE IF Done(cs[n]) THEN Kept(Front([cs EXCEPT ![n] = cs[Len(cs)]]), n)
  ELSE Kept(cs, n + 1)

\* The end of a turn and the head of the next: conn_destroy of what is closed
\* and drained, the clock, the idle sweeps, the pollfd array and its timeout.
NextTurn ==
  LET kept  == Kept(conns, 1)
      swept == [n \in DOMAIN kept |-> SweepConn([c |-> kept[n], s |-> net[kept[n].p]])]
      conn2 == [n \in DOMAIN kept |-> swept[n].c]
      dead  == {k \in Used : Idle(slot[k], CmdTmo)}
      slot2 == [k \in 1..Slots |-> IF k \in dead THEN FreeSlot ELSE slot[k]]
      due   == poll_timeout(Range(conn2), {slot2[k] : k \in Used \ dead})
  IN  /\ pc = "work" /\ ToAccept = {} /\ ToDo = {} /\ SlotToDo = {}
      /\ pc' = "wait" /\ turn' = clock
      /\ conns' = conn2 /\ slot' = slot2
      /\ net' = [p \in DOMAIN net |->
                  CASE \E n \in DOMAIN kept : kept[n].p = p ->
                         swept[CHOOSE n \in DOMAIN kept : kept[n].p = p].s
                    [] \/ \E n \in DOMAIN conns : conns[n].p = p /\ Done(conns[n])
                       \/ \E k \in dead : slot[k].p = p -> Shut(net[p])
                    [] OTHER -> net[p]]
      /\ wake' = Min(due \cup {NeverWakes})
      /\ polled' = NothingPolled /\ i' = 1
      /\ UNCHANGED <<d, until, perip, clock>>

Turn ==
  \/ NextTurn \/ Poll \/ Dispatch \/ DispatchHttp
  \/ \E p \in DOMAIN net : server_accept(p) \/ http_accept(p)

-----------------------------------------------------------------------------
(* The peers and the clock                                                  *)

Kinds(p) ==
  CASE p \in HttpPeer -> {"http"}
    [] p \in Terse /\ d # "imapd" -> {"smtp"}
    [] d = "imapd" -> {"imap", "pop3"}
    [] OTHER       -> {"smtp", "tls"}

Units(p) ==
  CASE p \in HttpPeer -> {"cmd", "part"}
    [] p \in Terse -> {"cmd", "quit"}
    [] d = "jmapd" -> {"cmd", "part", "big", "quit"}
    [] d = "imapd" -> IF net[p].kind = "imap"
                      THEN {"cmd", "big", "work", "slow", "stls", "quit"}
                      ELSE {"cmd", "big", "stls", "quit"}
    [] OTHER       -> {"cmd", "slow", "stls", "quit"}

\* A segment of commands; pop3d.c:367 tells the client that it may pipeline.
Segment(p) ==
  {s \in Segments : Range(s) \subseteq Units(p) /\ (p \in Terse => Len(s) = 1)}

\* What a client says next: the PROXY line and the handshake where the
\* listener wants them, the handshake after STARTTLS was granted and the
\* answer read, and commands.
NextSegments(p) ==
  IF net[p].kind = "tls" /\ ~net[p].hello
    THEN IF d = "visage" /\ ~net[p].proxied THEN {<<"proxy">>}
         ELSE IF d # "visage" \/ net[p].granted THEN {<<"hs">>} ELSE {}
  ELSE IF net[p].granted /\ ~net[p].hello
    THEN IF net[p].tx = 0 THEN {<<"hs">>} ELSE {}
  ELSE Segment(p)

Opening(s) == s \in {<<"proxy">>, <<"hs">>}

Connect(p, k) ==
  /\ net[p].st = "new" /\ k \in Kinds(p)
  /\ net' = [net EXCEPT ![p].st = "backlog", ![p].kind = k]
  /\ UNCHANGED <<d, until, perip, pc, conns, slot, polled, wake, i, turn, clock>>

Send(p, s) ==
  /\ net[p].st = "open" /\ ~net[p].eof /\ s \in NextSegments(p)
  /\ Opening(s) \/ net[p].sent < (IF p \in Terse THEN 1 ELSE MaxSends)
  /\ net' = [net EXCEPT ![p].rx = Append(@, s),
                        ![p].sent = IF Opening(s) THEN @ ELSE @ + 1,
                        ![p].proxied = @ \/ s = <<"proxy">>,
                        ![p].hello = @ \/ s = <<"hs">>,
                        ![p].owed = @ + Len(SelectSeq(s, LAMBDA u :
                                          u \notin {"part", "hs", "proxy"}))]
  /\ UNCHANGED <<d, until, perip, pc, conns, slot, polled, wake, i, turn, clock>>

Read(p) ==
  /\ p \in DOMAIN net /\ net[p].tx > 0 /\ net[p].st \in {"open", "closed"}
  /\ net' = [net EXCEPT ![p].tx = 0]
  /\ UNCHANGED <<d, until, perip, pc, conns, slot, polled, wake, i, turn, clock>>

\* The peer closes its side, or is gone.
Fin(p) ==
  /\ p \notin Terse /\ net[p].st = "open" /\ ~net[p].eof
  /\ net' = [net EXCEPT ![p].eof = TRUE]
  /\ UNCHANGED <<d, until, perip, pc, conns, slot, polled, wake, i, turn, clock>>

Reset(p) ==
  /\ p \notin Terse /\ net[p].st = "open"
  /\ net' = [net EXCEPT ![p].st = "reset", ![p].rx = <<>>, ![p].tx = 0]
  /\ UNCHANGED <<d, until, perip, pc, conns, slot, polled, wake, i, turn, clock>>

\* Time passes, but poll() does not outlast its timeout.
Tick ==
  /\ clock < until /\ (pc = "wait" => clock < wake)
  /\ clock' = clock + 1
  /\ UNCHANGED <<d, until, perip, pc, conns, slot, polled, wake, i, net, turn>>

Init ==
  /\ \E sc \in Scenarios : /\ d = sc.d /\ until = sc.until /\ perip = sc.perip
                          /\ net = [p \in sc.crowd |-> Socket]
  /\ pc = "wait" /\ conns = <<>>
  /\ slot = [k \in 1..Slots |-> FreeSlot]
  /\ polled = NothingPolled
  /\ wake = NeverWakes /\ i = 1 /\ turn = 0 /\ clock = 0

Next ==
  \/ Turn \/ Tick
  \/ \E p \in DOMAIN net :
       \/ \E k \in Kinds(p) : Connect(p, k)
       \/ \E s \in NextSegments(p) : Send(p, s)
       \/ Read(p) \/ Fin(p) \/ Reset(p)

Spec == Init /\ [][Next]_vars

-----------------------------------------------------------------------------
(* Properties                                                               *)

\* Dispatch is by index, and accepting, refusing, closing and freeing slots
\* happen in the same turn: the events poll() reported for a descriptor are
\* acted on for the connection that owned it, never for one that has taken
\* its place in conns or its slot in s_http.
EventsBelong ==
  pc = "work" =>
    /\ \A n \in DOMAIN polled.conn : n \in DOMAIN conns /\ conns[n].p = polled.conn[n].p
    /\ \A k \in DOMAIN polled.slot :
         polled.slot[k].rev # {} => slot[k].p \in {None, polled.slot[k].p}

\* An open socket belongs to exactly one connection or slot, a closed one to
\* none, and the limits hold.
SocketsOwned ==
  /\ Len(conns) <= MaxConns /\ Len(conns) <= perip
  /\ \A p \in DOMAIN net :
       Cardinality({n \in DOMAIN conns : conns[n].p = p})
         + Cardinality({k \in 1..Slots : slot[k].p = p})
       = IF net[p].st \in {"open", "reset"} THEN 1 ELSE 0

\* "a plaintext 421 would corrupt the stream": from the answer to STARTTLS to
\* the end of the handshake no reply is queued or sent.
NeverMixed == \A p \in DOMAIN net : ~net[p].mixed

\* While the loop sleeps no connection, and no admin slot, is past its idle
\* deadline: poll_timeout_ms saw them all.
SweptInTime ==
  pc = "wait" /\ clock < wake =>
    /\ \A n \in DOMAIN conns : ~Idle(conns[n], IF d = "jmapd" THEN CmdTmo
                                               ELSE conn_timeout(conns[n]))
    /\ \A k \in Used : ~Idle(slot[k], CmdTmo)

Asleep == pc = "wait" /\ ~ENABLED Poll /\ \A p \in DOMAIN net : net[p].tx = 0

\* When the loop sleeps, its clients having read all they were sent, every
\* command it was given has been answered, whatever the segments, chunks,
\* records and backlog, except one that was read while a streamed answer had
\* the connection: imap_process and pop3_commands leave what follows a FETCH,
\* SEARCH, RETR or TOP in the buffer (imapd_imap.c:3592-3593, pop3d.c:639,
\* 669), the pumps do not come back to it, and the loop sleeps over it until
\* the client sends more.  A command that was still in the socket when the
\* stream began is answered.
NothingOwed ==
  Asleep => \A p \in DOMAIN net : net[p].st # "open" \/ net[p].owed = 0 \/ net[p].behind

\* Nor does it sleep over a connection or slot whose peer is gone, or over one
\* it has closed and not destroyed.
GoneIsForgotten ==
  Asleep => /\ \A p \in DOMAIN net : net[p].st # "reset"
            /\ \A n \in DOMAIN conns : ~conns[n].closed

\* The tables of a loop at every moment: each event reaches its connection,
\* each socket has one owner, and no plaintext runs into a handshake
\* (server_poll, server_accept).
SlotsSound == EventsBelong /\ SocketsOwned /\ NeverMixed

\* A loop that sleeps has done its duty: nobody is owed an answer but the one
\* who pipelined behind a streamed command, nobody is past the deadline, nobody
\* gone is remembered (server_poll, poll_timeout_ms).
SleepsInPeace == SweptInTime /\ NothingOwed /\ GoneIsForgotten
=============================================================================
