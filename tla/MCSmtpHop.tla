----------------------------- MODULE MCSmtpHop -----------------------------
(* The hops of the three daemons, and sessions with clients of any kind.    *)
EXTENDS SmtpHop

Scenario(mode, srv, implicit, avail, tls, auth, cert, rcpt, env) ==
  [mode |-> mode, srv |-> srv, implicit |-> implicit, avail |-> avail, tls |-> tls,
   auth |-> auth, cert |-> cert, rcpt |-> rcpt, env |-> env]

Good(srv) == CASE srv = "visage" -> "alias" [] srv = "imapd" -> "user"
               [] srv = "outbox" -> "other"

\* smtp_out to each daemon, in every TLS mode that the listener speaks.
Hops ==
  {Scenario("hop", srv, FALSE, avail, tls, auth, cert, Good(srv), {"store", "queue", "lock"}) :
     srv \in {"visage", "imapd", "outbox"}, avail \in BOOLEAN,
     tls \in {"none", "starttls", "starttls-verify"}, auth \in BOOLEAN,
     cert \in {"good", "bad"}}
  \cup {Scenario("hop", "outbox", TRUE, TRUE, "implicit", auth, "bad", "other", {}) :
          auth \in BOOLEAN}
  \cup {Scenario("hop", srv, FALSE, TRUE, "starttls", FALSE, "good", "nobody", {}) :
          srv \in {"visage", "imapd"}}
  \cup {Scenario("hop", srv, FALSE, TRUE, "starttls-verify", FALSE, "unset", Good(srv), {}) :
          srv \in {"visage", "outbox"}}
Servers ==
  {Scenario("any_server", "visage", FALSE, TRUE, tls, auth, cert, "alias", {}) :
     tls \in {"none", "starttls", "starttls-verify", "implicit"},
     auth \in BOOLEAN, cert \in {"good", "bad", "unset"}}
Clients ==
  {Scenario("any_client", srv, FALSE, TRUE, "none", FALSE, "good", "none", {}) :
     srv \in {"visage", "imapd", "outbox"}}
  \cup {Scenario("any_client", "imapd", FALSE, FALSE, "none", FALSE, "good", "none", {"queue"}),
        Scenario("any_client", "outbox", TRUE, TRUE, "none", FALSE, "good", "none", {"lock"}),
        Scenario("any_client", "visage", FALSE, FALSE, "none", FALSE, "good", "none",
                 {"alias", "token", "queue", "store"})}
Twins ==
  {Scenario("twin", srv, FALSE, FALSE, "none", FALSE, "good", "none", {}) :
     srv \in {"visage", "imapd"}}

MCScenarios == Hops \cup Servers \cup Clients \cup Twins
=============================================================================
