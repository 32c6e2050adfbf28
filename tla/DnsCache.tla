------------------------------ MODULE DnsCache ------------------------------
(* The cache of raw replies in front of every DNS look-up of visage and      *)
(* outbox (auth_results.c).  A question is a name and a type, names being     *)
(* compared without case; a reply is the question it answers, the resolver    *)
(* it came from, when it came, the TTLs of its answer records, and whether    *)
(* its answer section can be walked.                                          *)
EXTENDS Integers

CONSTANTS Questions, Resolvers,
          Slots,        \* AUTH_DNS_CACHE_SLOTS
          NEG_TTL,      \* AUTH_DNS_CACHE_NEG_TTL
          MAX_TTL,      \* AUTH_DNS_CACHE_MAX_TTL
          Answers,      \* the sets of TTLs a reply may carry
          DnsTimeout,   \* AUTH_DNS_TIMEOUT, in seconds
          MaxClock,     \* the last second of a behaviour
          MaxGen        \* how often the resolver is changed

ASSUME DnsAssumption ==
  /\ Slots \in Nat \ {0} /\ NEG_TTL \in Nat /\ MAX_TTL \in Nat /\ DnsTimeout \in Nat
  /\ MaxClock \in Nat /\ MaxGen \in Nat /\ Answers \subseteq SUBSET Nat
  /\ \A a \in Answers : a = {} \/ \E t \in a : \A u \in a : t <= u

VARIABLES
  cache,      \* g_dns_cache: slot -> entry
  victim,     \* g_dns_cache_victim, modulo Slots
  gen,        \* g_dns_gen
  resolver,   \* g_resolver
  now,        \* time(NULL)
  served      \* what the last step handed on: question, reply, when, resolver

dns == <<cache, victim, gen, resolver, now, served>>

Slot == 0 .. Slots - 1

Reply(q, r, at, ttls, walks) == [for |-> q, by |-> r, at |-> at, ttls |-> ttls, walks |-> walks]
Blank == Reply(CHOOSE q \in Questions : TRUE, CHOOSE r \in Resolvers : TRUE, 0, {}, FALSE)

Served(q, reply, when) == [q |-> q, reply |-> reply, when |-> when, who |-> resolver]

\* expires = 0 marks a free slot; what else it holds is never read again.
Entry(q, g, reply, expires) == [q |-> q, gen |-> g, reply |-> reply, expires |-> expires]
Free == Entry(Blank.for, 0, Blank, 0)

Shortest(ttls) == CHOOSE t \in ttls : \A u \in ttls : t <= u

BugLongest(reply) ==
  IF reply.ttls = {} THEN NEG_TTL
  ELSE LET t == CHOOSE t \in reply.ttls : \A u \in reply.ttls : u <= t
       IN  IF t > MAX_TTL THEN MAX_TTL ELSE t

\* dns_reply_ttl
dns_reply_ttl(reply) ==
  IF reply.ttls = {} THEN NEG_TTL
  ELSE IF Shortest(reply.ttls) > MAX_TTL THEN MAX_TTL ELSE Shortest(reply.ttls)

\* The entries dns_cache_get considers for a question.
Offers(q, i) == cache[i].expires # 0 /\ cache[i].gen = gen /\ cache[i].q = q
Hits(q)      == {i \in Slot : Offers(q, i) /\ now < cache[i].expires}

\* dns_cache_get frees the expired entries it passes before it stops at slot k.
Swept(q, k) ==
  [i \in Slot |-> IF i < k /\ Offers(q, i) /\ now >= cache[i].expires
                  THEN Free ELSE cache[i]]

\* dns_cache_put: round robin; when there is no memory only the cursor moves.
dns_cache_put(slots, entry, room) ==
  /\ cache' = IF room THEN [slots EXCEPT ![victim] = entry] ELSE slots
  /\ victim' = (victim + 1) % Slots

\* dns_query_raw, answered from the cache.
FromCache(q) ==
  \E i \in Hits(q) :
    /\ \A j \in Hits(q) : i <= j
    /\ cache' = Swept(q, i)
    /\ served' = {Served(q, cache[i].reply, now)}
    /\ UNCHANGED <<victim, gen, resolver, now>>

\* dns_query_raw, answered by the resolver within the timeout.  A reply that
\* cannot be walked is handed on but not kept.
FromResolver(q) ==
  /\ Hits(q) = {}
  /\ \E d \in 0..DnsTimeout, ttls \in Answers, walks \in BOOLEAN, room \in BOOLEAN :
       LET reply == Reply(q, resolver, now + d, ttls, walks)
       IN  /\ now + d <= MaxClock
           /\ now' = now + d
           /\ served' = {Served(q, reply, now + d)}
           /\ IF walks
              THEN dns_cache_put(Swept(q, Slots),
                                 Entry(q, gen, reply, now + d + dns_reply_ttl(reply)), room)
              ELSE cache' = Swept(q, Slots) /\ UNCHANGED victim
           /\ UNCHANGED <<gen, resolver>>

\* dns_query_raw without an answer: no socket, a timeout, another id, another
\* question.  Nothing is kept.
NotAnswered(q) ==
  /\ Hits(q) = {}
  /\ \E d \in 0..DnsTimeout : now + d <= MaxClock /\ now' = now + d
  /\ cache' = Swept(q, Slots)
  /\ served' = {}
  /\ UNCHANGED <<victim, gen, resolver>>

BugSameGen(r) ==
  /\ gen < MaxGen /\ resolver' = r /\ served' = {}
  /\ UNCHANGED <<cache, victim, gen, now>>

auth_dns_set_resolver(r) ==
  /\ gen < MaxGen
  /\ resolver' = r /\ gen' = gen + 1 /\ served' = {}
  /\ UNCHANGED <<cache, victim, now>>

Tick ==
  /\ now < MaxClock /\ now' = now + 1 /\ served' = {}
  /\ UNCHANGED <<cache, victim, gen, resolver>>

DnsInit ==
  /\ cache = [i \in Slot |-> Free]
  /\ victim = 0 /\ gen = 0 /\ resolver \in Resolvers /\ now = 1 /\ served = {}

DnsNext ==
  \/ \E q \in Questions : FromCache(q) \/ FromResolver(q) \/ NotAnswered(q)
  \/ \E r \in Resolvers : auth_dns_set_resolver(r)
  \/ Tick

DnsSpec == DnsInit /\ [][DnsNext]_dns

-----------------------------------------------------------------------------

\* What a look-up hands on answers the question that was asked, comes from the
\* resolver configured at that moment, and has just arrived or is younger than
\* every TTL in it, than the ceiling and, when empty, than the negative TTL
\* (dns_cache_get, dns_reply_ttl, the generation of a resolver).
AnswersFresh ==
  \A s \in served :
    LET r == s.reply
        age == s.when - r.at
    IN  /\ r.for = s.q /\ r.by = s.who
        /\ \/ age = 0
           \/ r.ttls = {} /\ age < NEG_TTL
           \/ r.ttls # {} /\ age < MAX_TTL /\ \A t \in r.ttls : age < t

\* No two entries could answer one question at a time: dns_cache_put never
\* looks for an older entry of the question, as a look-up asks the resolver only
\* when dns_cache_get has found none.
OneOffer == \A q \in Questions : \A i, j \in Hits(q) : i = j

\* Look-ups through the cache: fresh answers, one entry each.
LookupsSound == AnswersFresh /\ OneOffer
=============================================================================
