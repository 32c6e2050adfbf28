-------------------------------- MODULE Pop3 --------------------------------
(* A POP3 session of imapd (pop3d.c): the commands with their replies, and    *)
(* the generator that streams a message with its dots stuffed.                *)
(*                                                                            *)
(* A message is a sequence of bytes ("r" and "n" are CR and LF); a mailbox is *)
(* a sequence of records with a size, a base name and whether the file is     *)
(* still under the name the view remembers.                                   *)
EXTENDS Integers, Sequences, SequencesExt, FiniteSets, FiniteSetsExt

CONSTANTS OutHalf,      \* IMAPD_MAX_OUT / 2, above which the pump waits
          Chunk,        \* how much of the file a turn of the pump reads
          HdrCap        \* IMAPD_HDR_CAP

----------------------------------------------------------------------------
(* RETR and TOP *)

\* hdr_end_of: the length of the head, all of the text if it has no end.
hdr_end_of(buf) ==
  LET ends == {i + 1 : i \in {i \in 1 .. Len(buf) - 1 : buf[i] = "n" /\ buf[i + 1] = "n"}}
              \cup {i + 2 : i \in {i \in 1 .. Len(buf) - 2 : SubSeq(buf, i, i + 2) = <<"n", "r", "n">>}}
  IN  IF ends = {} THEN Len(buf) ELSE Min(ends)

BugLineMore(m, he, n) ==
  LET ends == SetToSortSeq({i \in he + 1 .. Len(m) : m[i] = "n"}, <)
  IN  IF n < Len(ends) THEN ends[n + 1] ELSE Len(m)

\* top_cut: the head and n lines of the body.
top_cut(m, he, n) ==
  LET ends == SetToSortSeq({i \in he + 1 .. Len(m) : m[i] = "n"}, <)
  IN  IF n = 0 THEN he ELSE IF n <= Len(ends) THEN ends[n] ELSE Len(m)

\* start_retr: all of the message, or with top >= 0 a part.
start_retr(m, top) ==
  LET he == hdr_end_of(SubSeq(m, 1, Min({HdrCap, Len(m)})))
  IN  [m |-> m, size |-> IF top < 0 THEN Len(m) ELSE top_cut(m, he, top), pos |-> 0,
       phase |-> "hdr", bol |-> TRUE, out |-> <<>>, sent |-> 0]

\* stuff: one chunk; whether a line starts is carried from chunk to chunk.
stuff(raw, bol) ==
  LET Byte(s, ch) == [out |-> s.out \o (IF s.bol /\ ch = "." THEN <<".", ".">> ELSE <<ch>>),
                      bol |-> ch = "n"]
  IN  FoldLeft(Byte, [out |-> <<>>, bol |-> bol], raw)

\* One turn of imapd_pop3_pump; the status line is one symbol.
Turn(g) ==
  LET raw == SubSeq(g.m, g.pos + 1, g.pos + Min({Chunk, g.size - g.pos}))
      s   == stuff(raw, g.bol)
  IN  CASE g.phase = "hdr" -> [g EXCEPT !.out = Append(@, "+OK"), !.phase = "body"]
        [] g.phase = "body" /\ g.pos = g.size -> [g EXCEPT !.phase = "end"]
        [] g.phase = "body" /\ g.pos < g.size ->
             [g EXCEPT !.out = @ \o s.out, !.bol = s.bol, !.pos = @ + Len(raw)]
        [] g.phase = "end" ->
             [g EXCEPT !.out = @ \o (IF g.bol THEN <<>> ELSE <<"r", "n">>) \o <<".", "r", "n">>,
                       !.phase = "done"]

RECURSIVE imapd_pop3_pump(_)
imapd_pop3_pump(g) ==
  IF g.phase = "done" \/ Len(g.out) - g.sent >= OutHalf THEN g ELSE imapd_pop3_pump(Turn(g))

\* The client takes n symbols at a time, and the pump runs again.
RECURSIVE Streamed(_, _)
Streamed(g, n) ==
  LET h == imapd_pop3_pump(g)
  IN  IF h.phase = "done" THEN h.out
      ELSE Streamed([h EXCEPT !.sent = Min({@ + n, Len(h.out)})], n)

----------------------------------------------------------------------------
(* The commands.  srv says whether TLS can be had and whether the listener is *)
(* bound to the loopback; a command is a word with its arguments, a PASS with *)
(* its outcome.                                                               *)

Pop3Conn(box) ==
  [pst |-> "auth", pend |-> "", user |-> "", tls |-> FALSE, box |-> box,
   del |-> [i \in DOMAIN box |-> FALSE], ndel |-> 0, closed |-> FALSE, out |-> <<>>]

Err(c) == [c EXCEPT !.out = Append(@, <<"-ERR">>)]
Ok(c, data) == [c EXCEPT !.out = Append(@, <<"+OK">> \o data)]

cleartext_ok(srv, c) == ~srv.tls \/ c.tls \/ srv.loopback

\* cmd_stls, with the reset after the handshake (imapd_pop3_tls_reset).
cmd_stls(srv, c, more) ==
  IF c.pst # "auth" \/ c.tls \/ more \/ ~srv.tls THEN Err(c)
  ELSE [Ok(c, <<>>) EXCEPT !.tls = TRUE, !.pend = ""]

cmd_user(srv, c, name) ==
  IF c.pst # "auth" \/ ~cleartext_ok(srv, c) \/ name = "" THEN Err(c)
  ELSE [Ok(c, <<>>) EXCEPT !.pend = name]

BugPendKept(srv, c, outcome) ==
  IF c.pst # "auth" \/ ~cleartext_ok(srv, c) \/ c.pend = "" \/ outcome # "good" THEN Err(c)
  ELSE [Ok(c, <<>>) EXCEPT !.pst = "trans", !.user = c.pend, !.pend = ""]

\* cmd_pass: whatever comes of it, the user has to be named again; a mailbox
\* that cannot be opened ("unopened") leaves the session where it was.
cmd_pass(srv, c, outcome) ==
  IF c.pst # "auth" THEN Err(c)
  ELSE IF ~cleartext_ok(srv, c) \/ c.pend = "" \/ outcome # "good"
       THEN [Err(c) EXCEPT !.pend = ""]
  ELSE [Ok(c, <<>>) EXCEPT !.pst = "trans", !.user = c.pend, !.pend = ""]

msg_index(c, n) == n \in DOMAIN c.box /\ ~c.del[n]
Kept(c) == SetToSortSeq({i \in DOMAIN c.box : ~c.del[i]}, <)
mbox_octets(c) == FoldLeft(LAMBDA t, i : t + c.box[i].size, 0, Kept(c))

cmd_stat(c) == Ok(c, <<Len(c.box) - c.ndel, mbox_octets(c)>>)

\* cmd_list and cmd_uidl; n = 0 asks for all.
cmd_list(c, n) ==
  IF n # 0 THEN IF msg_index(c, n) THEN Ok(c, <<n, c.box[n].size>>) ELSE Err(c)
  ELSE Ok(c, <<Len(c.box) - c.ndel, mbox_octets(c)>>
             \o [k \in DOMAIN Kept(c) |-> <<Kept(c)[k], c.box[Kept(c)[k]].size>>])
cmd_uidl(c, n) ==
  IF n # 0 THEN IF msg_index(c, n) THEN Ok(c, <<n, c.box[n].base>>) ELSE Err(c)
  ELSE Ok(c, <<Len(c.box) - c.ndel>>
             \o [k \in DOMAIN Kept(c) |-> <<Kept(c)[k], c.box[Kept(c)[k]].base>>])

\* cmd_retr and cmd_top, as far as which message they stream; the first also sets
\* \Seen, in ImapSession.
cmd_retr(c, n) ==
  IF msg_index(c, n) /\ c.box[n].there THEN Ok(c, <<"stream", c.box[n].base>>) ELSE Err(c)
cmd_top(c, n) ==
  IF msg_index(c, n) /\ c.box[n].there THEN Ok(c, <<"stream", c.box[n].base>>) ELSE Err(c)

cmd_dele(c, n) ==
  IF msg_index(c, n) THEN [Ok(c, <<>>) EXCEPT !.del[n] = TRUE, !.ndel = @ + 1] ELSE Err(c)

pop3_reset_deleted(c) == [c EXCEPT !.del = [i \in DOMAIN c.box |-> FALSE], !.ndel = 0]

\* pop3_quit; what it removes from the mailbox is in ImapSession.
pop3_quit(c) == [Ok(pop3_reset_deleted(c), <<>>) EXCEPT !.closed = TRUE]

pop3_command(srv, c, cmd) ==
  CASE cmd[1] = "QUIT" -> pop3_quit(c)
    [] cmd[1] = "NOOP" -> Ok(c, <<>>)
    [] cmd[1] = "RSET" -> Ok(pop3_reset_deleted(c), <<>>)
    [] cmd[1] = "STLS" -> cmd_stls(srv, c, cmd[2])
    [] cmd[1] = "USER" -> cmd_user(srv, c, cmd[2])
    [] cmd[1] = "PASS" -> cmd_pass(srv, c, cmd[2])
    [] cmd[1] \notin {"QUIT", "NOOP", "RSET", "STLS", "USER", "PASS"} /\ c.pst # "trans" -> Err(c)
    [] cmd[1] = "STAT" /\ c.pst = "trans" -> cmd_stat(c)
    [] cmd[1] = "LIST" /\ c.pst = "trans" -> cmd_list(c, cmd[2])
    [] cmd[1] = "UIDL" /\ c.pst = "trans" -> cmd_uidl(c, cmd[2])
    [] cmd[1] = "RETR" /\ c.pst = "trans" -> cmd_retr(c, cmd[2])
    [] cmd[1] = "TOP" /\ c.pst = "trans" -> cmd_top(c, cmd[2])
    [] cmd[1] = "DELE" /\ c.pst = "trans" -> cmd_dele(c, cmd[2])

\* pop3_commands: one line after the other until the session is closed; a
\* streamed message has drained before the next line comes.
pop3_commands(srv, c, cmds) ==
  FoldLeft(LAMBDA x, cmd : IF x.closed THEN x ELSE pop3_command(srv, x, cmd), c, cmds)
=============================================================================
