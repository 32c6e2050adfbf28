----------------------------- MODULE AuthResults -----------------------------
(* What visage writes into Authentication-Results, and the order in which     *)
(* outbox tries mail exchangers (auth_results.c).                             *)
(*                                                                            *)
(* The DNS is a record: txt and a map a domain to the records found, or to    *)
(* Failed when the look-up fails.  An SPF record is a sequence of terms; other *)
(* TXT records are their tags.  Addresses are sequences of bytes.             *)
EXTENDS Integers, Sequences, SequencesExt, FiniteSets, FiniteSetsExt, Folds

CONSTANTS MAX_LOOKUPS,    \* AUTH_SPF_MAX_LOOKUPS
          ByteBits,       \* bits of a byte of an address
          MaxMx,          \* AUTH_MAX_MX
          MaxAddrs,       \* AUTH_MAX_ADDRS
          MaxTargets,     \* DELIVER_MAX_TARGETS
          RouteSlots,     \* DELIVER_MX_CACHE_SLOTS
          RouteTTL        \* DELIVER_MX_CACHE_TTL

Failed == [ok |-> FALSE, found |-> <<>>]
Found(records) == [ok |-> TRUE, found |-> records]

----------------------------------------------------------------------------
(* SPF *)

Qualifier == [p |-> "pass", m |-> "fail", s |-> "softfail", n |-> "neutral"]

Term(q, kind, arg) == [q |-> q, kind |-> kind, arg |-> arg]
Net(bytes, prefix) == [bytes |-> bytes, prefix |-> prefix]

\* The first n bits of a byte.
TopBits(byte, n) == byte \div (2 ^ (ByteBits - n))

\* spf_ip4_match and spf_ip6_match: byte by byte while bits are left.  A prefix
\* that is too long was cut to the length of the address.
spf_ip_match(ip, net) ==
  LET all == Len(ip) * ByteBits
      prefix == Min({net.prefix, all})
      Byte(s, b) ==
        IF s.bits = 0 \/ ~s.same THEN s
        ELSE LET n == Min({s.bits, ByteBits})
             IN  [same |-> TopBits(ip[b], n) = TopBits(net.bytes[b], n), bits |-> s.bits - n]
  IN  /\ Len(ip) = Len(net.bytes)
      /\ FoldLeft(Byte, [same |-> TRUE, bits |-> prefix], [b \in DOMAIN ip |-> b]).same

\* The result of an evaluation, the terms counted against the budget so far,
\* and the look-ups made.
Eval(r, n, asked) == [r |-> r, n |-> n, asked |-> asked]

\* auth_dns_a: a look-up by name; a domain without an address has none.
auth_dns_a(dns, d) == dns.a[d]

RECURSIVE auth_spf_eval_depth(_, _, _, _), auth_spf_eval_record_depth(_, _, _, _, _)

\* A term whose look-up is over the budget does not match.
InBudget(s) == s.n + 1 <= MAX_LOOKUPS

BugIncludeAny(terms, dom, ip, dns, s) ==
  IF terms = <<>> THEN [s EXCEPT !.r = "neutral"]
  ELSE LET t == Head(terms)
           counted == [s EXCEPT !.n = @ + 1]
           Next(x) == auth_spf_eval_record_depth(Tail(terms), dom, ip, dns, x)
           sub == IF InBudget(s) THEN auth_spf_eval_depth(t.arg, ip, dns, counted)
                  ELSE [counted EXCEPT !.r = "none"]
           Is(x) == [x EXCEPT !.r = Qualifier[t.q]]
       IN  CASE t.kind = "all" -> Is(s)
             [] t.kind = "include" -> IF sub.r \notin {"none", "fail"} THEN Is(sub) ELSE Next(sub)
             [] OTHER -> Next(s)

\* auth_spf_eval_record_depth: the first term that matches decides.  A domain
\* of <<>> in "a" and "mx" is the domain of the record; "mx" looks at the
\* addresses of that domain, as "a" does.
auth_spf_eval_record_depth(terms, dom, ip, dns, s) ==
  IF terms = <<>> THEN [s EXCEPT !.r = "neutral"]
  ELSE LET t == Head(terms)
           counted == [s EXCEPT !.n = @ + 1]
           Next(x) == auth_spf_eval_record_depth(Tail(terms), dom, ip, dns, x)
           Is(x)   == [x EXCEPT !.r = Qualifier[t.q]]
           looked  == IF InBudget(s) THEN [counted EXCEPT !.asked = @ + 1] ELSE counted
           addrs   == auth_dns_a(dns, IF t.arg = "" THEN dom ELSE t.arg)
           sub     == IF InBudget(s) THEN auth_spf_eval_depth(t.arg, ip, dns, counted)
                      ELSE [counted EXCEPT !.r = "none"]
       IN  CASE t.kind = "ip" -> IF spf_ip_match(ip, t.arg) THEN Is(s) ELSE Next(s)
             [] t.kind = "all" -> Is(s)
             [] t.kind \in {"a", "mx"} ->
                  IF InBudget(s) /\ addrs.ok /\ Contains(addrs.found, ip) THEN Is(looked)
                  ELSE Next(looked)
             [] t.kind = "redirect" ->
                  IF sub.r = "pass" THEN Is(sub)
                  ELSE IF sub.r \in {"fail", "softfail"} THEN sub ELSE Next(sub)
             [] t.kind = "include" -> IF sub.r = "pass" THEN Is(sub) ELSE Next(sub)
             [] OTHER -> Next(s)

\* auth_spf_eval_depth: the first v=spf1 record of the domain.
auth_spf_eval_depth(dom, ip, dns, s) ==
  LET txt == dns.txt[dom]
      at  == {i \in DOMAIN txt.found : txt.found[i].v = "spf1"}
      t   == [s EXCEPT !.asked = @ + 1]
  IN  IF ~txt.ok \/ at = {} THEN [t EXCEPT !.r = "none"]
      ELSE auth_spf_eval_record_depth(txt.found[Min(at)].terms, dom, ip, dns, t)

auth_spf_eval(dom, ip, dns) == auth_spf_eval_depth(dom, ip, dns, Eval("none", 0, 0))

----------------------------------------------------------------------------
(* DKIM: a signature is its tags in order, the last d= and s= count.          *)

TagOf(tags, name) ==
  LET at == {i \in DOMAIN tags : tags[i][1] = name}
  IN  IF at = {} THEN <<>> ELSE tags[Max(at)][2]

\* auth_dkim_eval: look has what the DNS answers for a selector and a domain,
\* records with a key or without ("none"); verifies has the keys under which
\* dkim_verify_key accepts the message.
auth_dkim_eval(sig, look, verifies) ==
  LET d == TagOf(sig, "d")
      s == TagOf(sig, "s")
      keys == SelectSeq(look[<<s, d>>].found, LAMBDA k : k # "none")
      NoneOf(r) == [r |-> r, d |-> <<>>]
  IN  IF d = <<>> \/ s = <<>> THEN NoneOf("none")
      ELSE IF ~look[<<s, d>>].ok \/ keys = <<>> THEN NoneOf("none")
      ELSE IF keys[1] \notin verifies THEN NoneOf("fail")
      ELSE [r |-> "pass", d |-> d]

----------------------------------------------------------------------------
(* DMARC: a domain is a sequence of characters. *)

BugSuffix(auth, from) == IsSuffix(from, auth)

\* auth_dmarc_domain_align: equal, or longer by something that ends in a dot.
auth_dmarc_domain_align(auth, from) ==
  LET prefix == Len(auth) - Len(from)
  IN  IF prefix = 0 THEN auth = from
      ELSE IF prefix < 0 THEN FALSE
      ELSE auth[prefix] = "." /\ SubSeq(auth, prefix + 1, Len(auth)) = from

\* dmarc_policy: the letter after the first "p=" of the DMARC record, in
\* whatever tag that stands; <<>> without a record or without a policy.
dmarc_policy(dmarc) ==
  LET at == {i \in DOMAIN dmarc.found : dmarc.found[i].v = "DMARC1"}
      tags == dmarc.found[Min(at)].tags
      ps == {i \in DOMAIN tags : tags[i][1] \in {"p", "sp"}}
  IN  IF ~dmarc.ok \/ at = {} \/ ps = {} THEN <<>>
      ELSE <<CASE tags[Min(ps)][2] = "quarantine" -> 1
               [] tags[Min(ps)][2] = "reject" -> 2
               [] OTHER -> 0>>

auth_dmarc_eval(env, from, spf, dkim, dmarc) ==
  LET pol == dmarc_policy(dmarc)
      spf_aligned == spf = "pass" /\ auth_dmarc_domain_align(env, from)
      dkim_aligned == dkim.r = "pass" /\ auth_dmarc_domain_align(dkim.d, from)
  IN  IF from = <<>> \/ pol \in {<<>>, <<0>>} THEN "none"
      ELSE IF spf_aligned \/ dkim_aligned THEN "pass"
      ELSE IF spf = "fail" THEN "fail" ELSE "none"

\* auth_results_format: header.from falls back to the envelope's domain, and
\* header.d is there for a signature that verified.
auth_results_format(spf, dkim, dmarc, env, from) ==
  [spf |-> spf, mailfrom |-> env, dkim |-> dkim.r,
   d |-> IF dkim.r = "pass" THEN dkim.d ELSE <<>>,
   dmarc |-> dmarc, from |-> IF from = <<>> THEN env ELSE from]

\* auth_results_build, after the look-ups: no header for the null sender.
auth_results_build(env, from, spf, dkim, dmarc) ==
  IF env = <<>> THEN <<>>
  ELSE <<auth_results_format(spf, dkim, auth_dmarc_eval(env, from, spf, dkim, dmarc), env, from)>>

----------------------------------------------------------------------------
(* Mail exchangers and addresses *)

Exchange(v, j) == [v EXCEPT ![j] = v[j + 1], ![j + 1] = v[j]]

\* auth_dns_mx sorts in place: each pass lets the greatest sink.
BubbleSort(v) ==
  LET n == Len(v)
      Pass(x, i) == FoldLeft(LAMBDA y, j : IF y[j].pref > y[j + 1].pref THEN Exchange(y, j) ELSE y,
                             x, [j \in 1 .. n - i |-> j])
  IN  FoldLeft(Pass, v, [i \in 1 .. n - 1 |-> i])

\* auth_dns_mx: the first MaxMx readable MX records of the answer.
auth_dns_mx(answer) ==
  LET mx == SelectSeq(answer, LAMBDA r : r.mx)
  IN  BubbleSort(SubSeq(mx, 1, Min({MaxMx, Len(mx)})))

\* auth_dns_addr: the A records and after them the AAAA records, as many as
\* there is room for; it fails only if both look-ups do.
auth_dns_addr(a, aaaa) ==
  LET some == (IF a.ok THEN a.found ELSE <<>>) \o (IF aaaa.ok THEN aaaa.found ELSE <<>>)
  IN  IF ~a.ok /\ ~aaaa.ok THEN Failed ELSE Found(SubSeq(some, 1, Min({MaxAddrs, Len(some)})))

BugUntried(mx, a, aaaa) ==
  LET hosts == auth_dns_mx(mx.found)
      own == auth_dns_addr(a[""], aaaa[""])
      all == IF hosts = <<>> THEN own.found
             ELSE auth_dns_addr(a[hosts[1].host], aaaa[hosts[1].host]).found
  IN  IF ~mx.ok \/ (hosts = <<>> /\ ~own.ok) THEN [rc |-> "tempfail", targets |-> <<>>]
      ELSE IF all = <<>>
           THEN [rc |-> IF hosts = <<>> THEN "permfail" ELSE "tempfail", targets |-> <<>>]
      ELSE [rc |-> "ok", targets |-> SubSeq(all, 1, Min({MaxTargets, Len(all)}))]

\* The look-ups of deliver_resolve (outbox_deliver.c): the targets of a domain,
\* "" standing for the domain itself among the hosts.
Lookups(mx, a, aaaa) ==
  LET Addrs(h) == auth_dns_addr(a[h], aaaa[h])
      None(rc) == [rc |-> rc, targets |-> <<>>]
      Targets(all, rc) == IF all = <<>> THEN None(rc)
                          ELSE [rc |-> "ok", targets |-> SubSeq(all, 1, Min({MaxTargets, Len(all)}))]
      Own(own) == IF ~own.ok THEN None("tempfail") ELSE Targets(own.found, "permfail")
      Of(hosts) == IF hosts = <<>> THEN Own(Addrs(""))
                   ELSE Targets(FlattenSeq([i \in DOMAIN hosts |-> Addrs(hosts[i].host).found]), "tempfail")
  IN  IF ~mx.ok THEN None("tempfail") ELSE Of(auth_dns_mx(mx.found))

\* The routes outbox remembers: free slots have no domain.
Routes == [slot |-> [i \in 1..RouteSlots |-> [domain |-> "", filled |-> 0, targets |-> <<>>]],
           next |-> 1]

BugAnyAge(routes, domain, now) ==
  LET hits == {i \in 1..RouteSlots : routes.slot[i].domain = domain}
  IN  IF hits = {} THEN <<>> ELSE routes.slot[Min(hits)].targets

mx_cache_get(routes, domain, now) ==
  LET hits == {i \in 1..RouteSlots : /\ routes.slot[i].domain = domain
                                     /\ now - routes.slot[i].filled <= RouteTTL}
  IN  IF hits = {} THEN <<>> ELSE routes.slot[Min(hits)].targets

mx_cache_put(routes, domain, now, targets) ==
  [slot |-> [routes.slot EXCEPT ![routes.next] =
               [domain |-> domain, filled |-> now, targets |-> targets]],
   next |-> (routes.next % RouteSlots) + 1]

\* deliver_resolve: a route that is remembered, else what the look-ups give;
\* failures and empty routes are not remembered.
deliver_resolve(routes, domain, now, mx, a, aaaa) ==
  LET known == mx_cache_get(routes, domain, now)
      Resolved(r) ==
        [rc |-> r.rc, targets |-> r.targets,
         routes |-> IF r.rc = "ok" THEN mx_cache_put(routes, domain, now, r.targets) ELSE routes]
  IN  IF known # <<>> THEN [rc |-> "ok", targets |-> known, routes |-> routes]
      ELSE Resolved(Lookups(mx, a, aaaa))

\* deliver_recipient: the target of an attempt.
TargetOf(targets, attempt) == targets[((attempt - 1) % Len(targets)) + 1]
=============================================================================
