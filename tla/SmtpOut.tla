------------------------------ MODULE SmtpOut ------------------------------
(***************************************************************************)
(* The SMTP client of all daemons (smtp_out.c): one message for one        *)
(* recipient, over one connection after another until it has a verdict.    *)
(* The dialogue waits for a reply in a state named for what it answers.    *)
(* The end of input and a timeout are both the reply Silence.              *)
(***************************************************************************)
EXTENDS Naturals, Sequences

Silence == [code |-> 0, cap |-> FALSE]
Msg(v, a, e) == [v |-> v, a |-> a, e |-> e]

\* "verified" records whether the certificate of the server is good, "last"
\* the class of the last reply: observers, read by no step.
\* cfg: tls is relay.tls, auth says relay.auth is enabled, rcpt the address.
Client(cfg) == [pc |-> "idle", tls |-> FALSE, verified |-> FALSE, auth |-> cfg.auth,
                mode |-> cfg.tls, rcpt |-> cfg.rcpt, attempt |-> 0,
                verdict |-> "none", send |-> <<>>, last |-> "none"]

smtp_class(code) ==
  CASE code \in 200 .. 399 -> "OK"
    [] code \in 400 .. 499 -> "TEMPFAIL"
    [] code \in 500 .. 599 -> "PERMFAIL"
    [] OTHER               -> "ERROR"

BugFinal(code) ==
  CASE code = 235          -> "OK"
    [] code \in 400 .. 599 -> "PERMFAIL"
    [] OTHER               -> "ERROR"

smtp_auth_class(code) ==
  CASE code = 235          -> "OK"
    [] code \in 400 .. 499 -> "TEMPFAIL"
    [] code \in 500 .. 599 -> "PERMFAIL"
    [] OTHER               -> "ERROR"

\* The class of a reply that is not the one the dialogue needs.
Other(code) == IF smtp_class(code) = "OK" THEN "ERROR" ELSE smtp_class(code)

\* smtp_exchange, first half: write the lines, one record per write.
Send(k, pc, recs) == [k EXCEPT !.pc = pc, !.send = recs]
Say(k, pc, v, a) ==
  Send(k, pc, <<[e |-> k.tls, toks |-> <<Msg(v, a, k.tls)>>]>>)
End(k, verdict) == [k EXCEPT !.pc = "end", !.verdict = verdict]

smtp_auth_plain(k) == Say(k, "auth", "AUTH", "ok")

BugPrivacyOnly(k) ==
  IF ~k.auth THEN Say(k, "mail", "MAIL", "me")
  ELSE IF k.tls THEN smtp_auth_plain(k)
  ELSE End(k, "PERMFAIL")

\* Past the TLS part: credentials only over a certificate that was checked.
after_tls(k) ==
  IF ~k.auth THEN Say(k, "mail", "MAIL", "me")
  ELSE IF k.mode = "starttls-verify" /\ k.tls THEN smtp_auth_plain(k)
  ELSE End(k, "PERMFAIL")

\* After the first EHLO: is TLS wanted, offered, required?
starttls(k, cap) ==
  IF k.mode \notin {"starttls", "starttls-verify"} THEN after_tls(k)
  ELSE IF cap THEN Say(k, "starttls", "STARTTLS", "")
  ELSE IF k.mode = "starttls-verify" \/ k.auth THEN End(k, "PERMFAIL")
  ELSE after_tls(k)

\* The server did not take STARTTLS: without TLS there is no AUTH, and no
\* mail either when TLS is required.
starttls_refused(k, code) ==
  IF k.mode = "starttls-verify" \/ k.auth
  THEN End(k, IF smtp_class(code) = "TEMPFAIL" THEN "TEMPFAIL" ELSE "PERMFAIL")
  ELSE after_tls(k)

\* smtp_tls_handshake: its first flight, and what becomes of the answer.  cert
\* says whether the certificate of the server is "good" or "bad", or is
\* "unset" when the certificates to check it by cannot be loaded
\* (smtp_tls_verify_init).  Where verification is required both are final.
smtp_tls_handshake(k, pc, cert) ==
  IF k.mode = "starttls-verify" /\ cert = "unset" THEN End(k, "PERMFAIL")
  ELSE Send(k, pc, <<[e |-> FALSE, toks |-> <<Msg("hello", "", FALSE)>>]>>)
HandshakeDone(k, code, cert) ==
  IF code # 1 THEN End(k, "TEMPFAIL")
  ELSE IF k.mode = "starttls-verify" /\ cert = "bad" THEN End(k, "PERMFAIL")
  ELSE LET up == [k EXCEPT !.tls = TRUE, !.verified = cert = "good"]
       IN IF k.pc = "handshake" THEN Say(up, "ehlo again", "EHLO", "")
          ELSE [up EXCEPT !.pc = "greeting"]

BugOneRecord(k) ==
  Send(k, "final",
       <<[e |-> k.tls, toks |-> <<Msg("text", "", k.tls), Msg("text", "", k.tls),
                                  Msg("dotCR", "", k.tls), Msg("LF", "", k.tls)>>]>>)

\* The body and the terminator are two writes, so with TLS two records.
smtp_send_data(k) ==
  Send(k, "final",
       <<[e |-> k.tls, toks |-> <<Msg("text", "", k.tls), Msg("text", "", k.tls)>>],
         [e |-> k.tls, toks |-> <<Msg("dotCR", "", k.tls), Msg("LF", "", k.tls)>>]>>)

\* smtp_dialogue: what reply r makes of a client that waits for it.
Answered(k, r, cert) ==
  LET ok == smtp_class(r.code) = "OK"
      cls == End(k, smtp_class(r.code))
  IN CASE k.pc = "greeting" ->
            IF r.code = 220 THEN Say(k, "ehlo", "EHLO", "")
            ELSE IF r.code >= 400 THEN cls ELSE End(k, "ERROR")
       [] k.pc = "ehlo"       -> IF ok THEN starttls(k, r.cap) ELSE cls
       [] k.pc = "starttls"   -> IF r.code = 220 THEN smtp_tls_handshake(k, "handshake", cert)
                                 ELSE starttls_refused(k, r.code)
       [] k.pc = "ehlo again" -> IF ok THEN after_tls(k) ELSE cls
       [] OTHER -> k

Transaction(k, r) ==
  LET ok == smtp_class(r.code) = "OK"
      cls == End(k, smtp_class(r.code))
      auth == smtp_auth_class(r.code)
  IN CASE k.pc \in {"auth", "auth again"} ->
            IF r.code = 334 /\ k.pc = "auth" THEN Say(k, "auth again", "b64", "ok")
            ELSE IF auth = "OK" THEN Say(k, "mail", "MAIL", "me") ELSE End(k, auth)
       [] k.pc = "mail"  -> IF ok THEN Say(k, "rcpt", "RCPT", k.rcpt) ELSE cls
       [] k.pc = "rcpt"  -> IF ok THEN Say(k, "data", "DATA", "") ELSE cls
       [] k.pc = "data"  -> IF r.code = 354 THEN smtp_send_data(k)
                            ELSE End(k, Other(r.code))
       [] k.pc = "final" -> IF r.code \in {250, 251}
                            THEN [Say(k, "end", "QUIT", "") EXCEPT !.verdict = "OK"]
                            ELSE End(k, Other(r.code))
       [] OTHER -> k

smtp_dialogue(k, r, cert) ==
  LET k1 == [k EXCEPT !.send = <<>>,
                      !.last = IF r.code = 0 THEN "silence" ELSE smtp_class(r.code)]
  IN IF k.pc \in {"implicit", "handshake"} THEN HandshakeDone(k1, r.code, cert)
     ELSE IF r.code = 0 THEN End(k1, "TEMPFAIL")
     ELSE IF k.pc \in {"greeting", "ehlo", "starttls", "ehlo again"}
          THEN Answered(k1, r, cert) ELSE Transaction(k1, r)

\* smtp_out_send_host: a connection is made, and the dialogue begins; with
\* implicit TLS it begins with the handshake.
Connected(k) ==
  LET k1 == [k EXCEPT !.tls = FALSE, !.verified = FALSE, !.send = <<>>,
                      !.verdict = "none", !.attempt = @ + 1]
  IN IF k.mode = "implicit" THEN smtp_tls_handshake(k1, "implicit", "bad")
     ELSE [k1 EXCEPT !.pc = "greeting"]

\* Only a TEMPFAIL is tried again, as long as attempts remain.
MayRetry(k, retries) == k.verdict = "TEMPFAIL" /\ k.attempt <= retries
=============================================================================
