----------------------------- MODULE HttpRequest -----------------------------
(* HTTP requests as they arrive in pieces: the admin API of visage (http.c,   *)
(* one request and then the end) and jmapd (jmapd_http.c, request after       *)
(* request), over the primitives of http_parse.c.                             *)
(*                                                                            *)
(* What arrives is a sequence of symbols: "r" and "n" for CR and LF, "b" for  *)
(* a byte of a body, and one symbol for the text of a whole line.             *)
EXTENDS Integers, Sequences, SequencesExt, FiniteSets, FiniteSetsExt

CONSTANTS MaxReq,      \* HTTP_MAX_REQ, and cfg.max_req of jmapd
          MaxHdr,      \* JMAPD_MAX_HDR
          MaxReqs      \* JMAPD_MAX_REQS_PER_CONN

Big == 1000

\* Request lines: method, route, and whether the path is the route itself.
RequestLine ==
  LET L(m, r, e) == [method |-> m, route |-> r, exact |-> e, ok |-> TRUE, minor |-> 1]
  IN  [getSession |-> L("GET", "session", TRUE), postApi |-> L("POST", "api", TRUE),
       getBelow   |-> L("GET", "session", FALSE), getApi |-> L("GET", "api", TRUE),
       postOld    |-> [L("POST", "api", TRUE) EXCEPT !.minor = 0],
       getOther   |-> L("GET", "none", TRUE), postUpload |-> L("POST", "upload", TRUE),
       garbled    |-> [L("GET", "none", TRUE) EXCEPT !.ok = FALSE]]

\* Header lines; a Content-Length as strtoul and as parse_content_length read
\* it (-1 where it is refused), and whether it fits the admin server's buffer.
Header ==
  LET H(n, v) == [name |-> n, val |-> v, lax |-> -1, strict |-> -1, fits |-> TRUE]
      C(lax, strict, fits) ==
        [name |-> "Content-Length", val |-> "", lax |-> lax, strict |-> strict, fits |-> fits]
  IN  [len0 |-> C(0, 0, TRUE), len1 |-> C(1, 1, TRUE), len2 |-> C(2, 2, TRUE), len2x |-> C(2, -1, TRUE),
       lenBad |-> C(-1, -1, TRUE), lenBig |-> C(Big, Big, TRUE), lenWide |-> C(2, 2, FALSE),
       chunked |-> H("Transfer-Encoding", ""), close |-> H("Connection", "close"),
       keep |-> H("Connection", "keep-alive"), asA |-> H("Authorization", "A"),
       asB |-> H("Authorization", "B"), other |-> H("Other", "")]

\* http_find_header_end: how many symbols the head has, 0 while it has no end.
http_find_header_end(buf) ==
  LET ends == {i \in 1 .. Len(buf) - 3 : SubSeq(buf, i, i + 3) = <<"r", "n", "r", "n">>}
  IN  IF ends = {} THEN 0 ELSE Min(ends) + 3

\* http_header_value: the first line of that name, as a set of at most one; a
\* value too long for the buffer is no value.
http_header_value(head, name, narrow) ==
  LET First(at) == IF at = {} THEN {} ELSE {h \in {Header[head[Min(at)]]} : ~narrow \/ h.fits}
  IN  First({i \in DOMAIN head : head[i] \in DOMAIN Header /\ Header[head[i]].name = name})

\* The length a head declares, given the values it was read as: none is 0.
Declared(lengths) == IF lengths = {} THEN 0 ELSE CHOOSE x \in lengths : TRUE

----------------------------------------------------------------------------
(* The admin API. *)

\* http_parse_probe
http_parse_probe(buf) ==
  LET Length(he) ==
        Declared({h.lax : h \in http_header_value(SubSeq(buf, 1, he), "Content-Length", TRUE)} \ {-1})
      Probe(he, v) ==
        LET P(r) == [r |-> r, head |-> he, body |-> v]
        IN  IF he > 0 /\ v > MaxReq THEN P("err")
            ELSE IF he > 0 /\ Len(buf) - he >= v THEN P("done")
            ELSE P(IF Len(buf) >= MaxReq THEN "err" ELSE "more")
      At(he) == Probe(he, Length(he))
  IN  At(http_find_header_end(buf))

\* A connection: what was read, and the answer once there is one.
HttpConn == [recv |-> <<>>, answer |-> 0, body |-> <<>>]

http_process(c) ==
  LET On(p) ==
        CASE p.r = "more" -> IF Len(c.recv) >= MaxReq THEN [c EXCEPT !.answer = 413] ELSE c
          [] p.r = "err"  -> [c EXCEPT !.answer = 413]
          [] p.r = "done" /\ Len(c.recv) # p.head + p.body -> [c EXCEPT !.answer = 400]
          [] p.r = "done" /\ Len(c.recv) = p.head + p.body ->
               [c EXCEPT !.answer = 200, !.body = SubSeq(c.recv, p.head + 1, p.head + p.body)]
  IN  On(http_parse_probe(c.recv))

\* http_conn_on_readable: takes what there is room for of what has arrived.
http_conn_on_readable(c, came) ==
  IF c.answer # 0 THEN c
  ELSE http_process([c EXCEPT !.recv = @ \o SubSeq(came, 1, Min({MaxReq - Len(c.recv), Len(came)}))])

----------------------------------------------------------------------------
(* jmapd. *)

JmapdConn == [in |-> <<>>, scanned |-> 0, header_end |-> 0, body_len |-> 0, parsed |-> FALSE,
              nreq |-> 0, closed |-> FALSE, out |-> <<>>]

\* An answer: its status, the principal it was given to, the body it was asked
\* with, and whether the connection stays.
Answer(status, user, body, keep) == [status |-> status, user |-> user, body |-> body, keep |-> keep]
Respond(c, a) == [c EXCEPT !.out = Append(@, a), !.closed = ~a.keep]
drop_status(c, status) == Respond(c, Answer(status, "", <<>>, FALSE))

\* jmapd_http_req_parse: 0 while more is to come, 1 when the request is whole,
\* else the status of the refusal; below it, its three parts in their order.
Refuse(he, r) == [r |-> r, head |-> he, body |-> 0]

Whole(buf, he, line, len, conn, auth) ==
  [r |-> IF Len(buf) - he >= len THEN 1 ELSE IF Len(buf) >= MaxReq THEN 413 ELSE 0,
   line |-> line, head |-> he, body |-> len, auth |-> auth,
   keep |-> IF conn = {} THEN line.minor = 1 ELSE conn = {"keep-alive"}]

Checked(buf, he, head, line, cl) ==
  IF ~line.ok THEN Refuse(he, 400)
  ELSE IF http_header_value(head, "Transfer-Encoding", FALSE) # {} THEN Refuse(he, 501)
  ELSE IF cl = {-1} THEN Refuse(he, 400)
  ELSE IF \E n \in cl : n > MaxReq THEN Refuse(he, 413)
  ELSE IF line.method = "POST" /\ cl = {} THEN Refuse(he, 411)
  ELSE Whole(buf, he, line, Declared(cl), {h.val : h \in http_header_value(head, "Connection", FALSE)},
             {h.val : h \in http_header_value(head, "Authorization", FALSE)})

ParseHead(buf, he, head) ==
  IF he = 0 THEN Refuse(0, IF Len(buf) >= MaxReq \/ Len(buf) >= MaxHdr THEN 431 ELSE 0)
  ELSE IF he > MaxHdr THEN Refuse(he, 431)
  ELSE Checked(buf, he, head, RequestLine[head[1]],
               {h.strict : h \in http_header_value(head, "Content-Length", FALSE)})

jmapd_http_req_parse(buf) ==
  LET At(he) == ParseHead(buf, he, SubSeq(buf, 1, he))
  IN  At(http_find_header_end(buf))

\* jmapd_core_handle: every request proves its principal anew (the lock-out of
\* an address is left out); what api_call makes of the body is JmapMail.
jmapd_core_handle(c, req, body) ==
  IF req.auth = {} THEN Respond(c, Answer(401, "", <<>>, FALSE))
  ELSE LET user == CHOOSE u \in req.auth : TRUE
           api  == req.line.route = "api" \/ ~req.line.exact
       IN  Respond(c, Answer(200, user, IF api THEN body ELSE <<>>, req.keep))

\* dispatch: of the routes, a download is Decoder and PollLoop.
dispatch(c, req, body) ==
  LET line == req.line
  IN  CASE line.route = "none" -> drop_status(c, 404)
        [] \/ line.route = "session" /\ line.method # "GET"
           \/ line.route = "api" /\ line.method # "POST" -> drop_status(c, 405)
        [] line.route = "upload" -> drop_status(c, 501)
        [] OTHER -> jmapd_core_handle(c, req, body)

BugCursorKept(c) == [c EXCEPT !.in = <<>>, !.header_end = 0, !.body_len = 0, !.parsed = FALSE]

\* The end of jmapd_http_readable: the cursor is set back for the next request.
Reset(c) ==
  [c EXCEPT !.in = <<>>, !.scanned = 0, !.header_end = 0, !.body_len = 0, !.parsed = FALSE]

\* Step 2 of jmapd_http_readable: the search for the end of the head goes on
\* three symbols before where it stopped.
Probed(c, end, p) ==
  IF p.r > 1 THEN drop_status([c EXCEPT !.header_end = end], p.r)
  ELSE [c EXCEPT !.header_end = end, !.body_len = p.body, !.parsed = TRUE]

Unended(c) ==
  LET d == [c EXCEPT !.scanned = Len(c.in)]
  IN  IF Len(c.in) >= MaxHdr \/ Len(c.in) >= MaxReq THEN drop_status(d, 431) ELSE d

FindHead(c) ==
  LET start == Max({0, c.scanned - 3})
      At(he) == IF he = 0 THEN Unended(c)
                ELSE Probed(c, start + he, jmapd_http_req_parse(SubSeq(c.in, 1, start + he)))
  IN  IF c.parsed THEN c ELSE At(http_find_header_end(SubSeq(c.in, start + 1, Len(c.in))))

\* The rest of jmapd_http_readable: the body, the whole request, its answer.
Answered(d, whole, p) ==
  IF p.r # 1 THEN drop_status(d, IF p.r > 1 THEN p.r ELSE 400)
  ELSE IF Len(d.in) # whole THEN drop_status(d, 400)
  ELSE Reset(dispatch([d EXCEPT !.nreq = @ + 1], [p EXCEPT !.keep = @ /\ d.nreq + 1 < MaxReqs],
                      SubSeq(d.in, p.head + 1, whole)))

Serve(d, whole) ==
  IF d.closed \/ ~d.parsed THEN d
  ELSE IF Len(d.in) < whole THEN IF Len(d.in) >= MaxReq THEN drop_status(d, 413) ELSE d
  ELSE Answered(d, whole, jmapd_http_req_parse(SubSeq(d.in, 1, whole)))

\* jmapd_http_readable
jmapd_http_readable(c, came) ==
  LET Found(d) == Serve(d, d.header_end + d.body_len)
  IN  IF c.closed THEN c ELSE Found(FindHead([c EXCEPT !.in = @ \o came]))
=============================================================================
