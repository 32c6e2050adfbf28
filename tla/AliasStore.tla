----------------------------- MODULE AliasStore -----------------------------
(* The alias, reply-token and log relations of visage (store.c), the admin   *)
(* API that edits the first (admin.c) and the sweeps that age the other two. *)
(* The store is on disk and survives the daemon; the configuration is read   *)
(* again at every start.  An address is <<name, caps>>: its spelling may     *)
(* differ from the one the configuration uses.                               *)
EXTENDS Integers, FiniteSets

CONSTANTS
  Configs,      \* the configurations the daemon may be started with: each a
                \* set of <<address, destination>>
  Addresses,    \* the addresses the admin API is given
  Dests,        \* the destinations it is given
  Wrap,         \* 2^32: the timestamps of the relations are taken modulo it
  REVMAP_TTL_SEC, LOG_RETENTION_SEC,
  Hour,         \* the time between two sweeps
  Start,        \* time(NULL) when the model begins
  MaxElapsed,   \* bound on the time that passes
  MaxBack,      \* bound on how far the clock is set back, in all
  MaxMail       \* bound on the messages forwarded

ASSUME Clocks ==
  /\ {REVMAP_TTL_SEC, LOG_RETENTION_SEC, Hour, Wrap} \subseteq Nat \ {0}
  /\ {Start, MaxElapsed, MaxBack} \subseteq Nat
  /\ MaxElapsed + MaxBack < Wrap /\ MaxBack <= Start

VARIABLES
  up,        \* the daemon runs
  config,    \* what it was last started with
  facts,     \* relation alias: <<lower-case address, destination>>
  revmap,    \* relation revmap: [token, created_ts]
  log,       \* relation log: [msgid, ts]
  time,      \* time(NULL), 64 bits
  sweepAt,   \* next_revmap_sweep
  born,      \* history: elapsed when each message was forwarded
  elapsed,   \* history: the time that has really passed
  back       \* history: how far the clock has been set back

vars == <<up, config, facts, revmap, log, time, sweepAt, born, elapsed, back>>
store == <<facts, revmap, log>>
history == <<born, elapsed, back>>

u32(t) == t % Wrap

----------------------------------------------------------------------------
(* Aliases *)

\* split_addr: an alias is kept and looked up in lower case.
split_addr(a) == <<a[1], FALSE>>

alias_add_impl(fs, a, d) == fs \cup {<<split_addr(a), d>>}
alias_rm(fs, a, d) == fs \ {<<split_addr(a), d>>}

\* store_resolve: every destination of the alias, whatever its spelling.
store_resolve(fs, a) == {f[2] : f \in {g \in fs : g[1] = split_addr(a)}}

\* store_seed_aliases adds what the configuration declares and removes nothing.
store_seed_aliases(fs, c) == fs \cup {<<split_addr(p[1]), p[2]>> : p \in c}

BugExactCase(c, a) == \E p \in c : p[1] = a

\* config_alias_read_only: strcasecmp with every alias of the configuration.
config_alias_read_only(c, a) == \E p \in c : p[1][1] = a[1]

\* handle_alias, with its two early answers: an addition must parse as an
\* address (the model's all do), and a configured alias is not touched.
handle_alias ==
  /\ up
  /\ \E a \in Addresses, d \in Dests, rm \in BOOLEAN :
       /\ ~config_alias_read_only(config, a)
       /\ facts' = IF rm THEN alias_rm(facts, a, d) ELSE alias_add_impl(facts, a, d)
  /\ UNCHANGED <<up, config, revmap, log, time, sweepAt, history>>

----------------------------------------------------------------------------
(* Ages *)

BugSignedAge(now, r) ==
  now >= r.created_ts /\ now - r.created_ts >= REVMAP_TTL_SEC

\* The age of a token is an unsigned difference: it is right across the wrap.
token_expired(now, r) == (now - r.created_ts) % Wrap >= REVMAP_TTL_SEC

store_revmap_expire(now) == {r \in revmap : ~token_expired(now, r)}

BugUnsignedAge(now, r) == (now - r.ts) % Wrap >= LOG_RETENTION_SEC

\* The age of a log row is signed: a row from the future is young.
log_expired(now, r) == now - r.ts >= 0 /\ now - r.ts >= LOG_RETENTION_SEC

store_log_expire(now) == {r \in log : ~log_expired(now, r)}

\* store_revmap_resolve looks at the age again: a sweep may be an hour away.
store_revmap_resolve(tok) ==
  \E r \in revmap : r.token = tok /\ ~token_expired(u32(time), r)

Sweep == /\ revmap' = store_revmap_expire(u32(time))
         /\ log' = store_log_expire(u32(time))

\* The hourly part of a turn of server_poll.
hourly_sweep ==
  /\ up /\ time >= sweepAt
  /\ Sweep
  /\ sweepAt' = time + Hour
  /\ UNCHANGED <<up, config, facts, time, history>>

\* forward_prepare makes a token and its row; the delivery is logged.  Numbers
\* stand for tokens and message ids: both are fresh (DeliveryQueue has msgid).
forward_prepare ==
  /\ up /\ Cardinality(DOMAIN born) < MaxMail
  /\ LET m == Cardinality(DOMAIN born) + 1
     IN  /\ revmap' = revmap \cup {[token |-> m, created_ts |-> u32(time)]}
         /\ log' = log \cup {[msgid |-> m, ts |-> u32(time)]}
         /\ born' = [i \in DOMAIN born \cup {m} |-> IF i = m THEN elapsed ELSE born[i]]
  /\ UNCHANGED <<up, config, facts, time, sweepAt, elapsed, back>>

----------------------------------------------------------------------------
(* The daemon and the clock *)

\* cmd_daemon and smtp_in_main: seed, expire, serve; server_init puts the first
\* sweep of the loop an hour away.
start ==
  /\ ~up
  /\ \E c \in Configs :
       /\ config' = c
       /\ facts' = store_seed_aliases(facts, c)
  /\ up' = TRUE
  /\ Sweep
  /\ sweepAt' = time + Hour
  /\ UNCHANGED <<time, history>>

\* store_seed_aliases fails half-way: cmd_daemon gives up, the facts stay.
start_fails ==
  /\ ~up
  /\ \E c \in Configs : \E part \in SUBSET c : facts' = store_seed_aliases(facts, part)
  /\ UNCHANGED <<up, config, revmap, log, time, sweepAt, history>>

stop ==
  /\ up /\ up' = FALSE
  /\ UNCHANGED <<config, store, time, sweepAt, history>>

\* A second passes.  A running loop turns more often than that, so a sweep
\* that is due has been done.
tick ==
  /\ elapsed < MaxElapsed
  /\ up => time < sweepAt
  /\ time' = time + 1 /\ elapsed' = elapsed + 1
  /\ UNCHANGED <<up, config, store, sweepAt, born, back>>

\* The clock is corrected backwards.
set_back ==
  /\ back < MaxBack
  /\ time' = time - 1 /\ back' = back + 1
  /\ UNCHANGED <<up, config, store, sweepAt, born, elapsed>>

Init ==
  /\ up = FALSE /\ config = {}
  /\ facts = {} /\ revmap = {} /\ log = {}
  /\ time = Start /\ sweepAt = 0
  /\ born = << >> /\ elapsed = 0 /\ back = 0

Next == handle_alias \/ hourly_sweep \/ forward_prepare \/ start \/ start_fails
        \/ stop \/ tick \/ set_back

Spec == Init /\ [][Next]_vars

----------------------------------------------------------------------------

\* While the daemon runs, an alias its configuration declares leads to every
\* destination declared for it, in any spelling: no sequence of admin calls and
\* restarts takes one away (handle_alias, store_seed_aliases).
ConfiguredServed ==
  up => \A p \in config, caps \in BOOLEAN : p[2] \in store_resolve(facts, <<p[1][1], caps>>)

\* A reply token works for thirty days of real time and then no more, across
\* the wrap of its 32-bit timestamp and wherever the sweeps and restarts fall;
\* only a clock that is set back moves the end (store_revmap_expire and
\* store_revmap_resolve).
TokenWindow ==
  up => \A m \in DOMAIN born :
          /\ store_revmap_resolve(m) => elapsed - born[m] < REVMAP_TTL_SEC + back
          /\ back = 0 /\ elapsed - born[m] < REVMAP_TTL_SEC => store_revmap_resolve(m)

\* The audit log keeps every row for its whole retention, though the clock be
\* set back or the timestamps wrap, as long as it is not set back across the
\* wrap itself (store_log_expire).
LogWindow ==
  back = 0 \/ Start + elapsed < Wrap =>
    \A m \in DOMAIN born :
      elapsed - born[m] < LOG_RETENTION_SEC => \E r \in log : r.msgid = m

\* What is kept for a time is kept for that time (hourly_sweep).
WindowsKept == TokenWindow /\ LogWindow

----------------------------------------------------------------------------
(* The inductive invariant behind WindowsKept: the clock runs behind real     *)
(* time by what it was set back, every row has the clock of its birth, and as *)
(* long as nobody touched the clock no row has left before its time.          *)

Stamped(ts, at, set) == \E b \in 0 .. set : ts = u32(Start + at - b)

ClockInv ==
  /\ elapsed \in 0 .. MaxElapsed /\ back \in 0 .. MaxBack
  /\ time = Start + elapsed - back
  /\ IsFiniteSet(DOMAIN born) /\ DOMAIN born = 1 .. Cardinality(DOMAIN born)
  /\ \A m \in DOMAIN born : born[m] \in 0 .. elapsed

RowsInv ==
  /\ \A r \in revmap : r.token \in DOMAIN born /\ Stamped(r.created_ts, born[r.token], back)
  /\ \A r \in log : r.msgid \in DOMAIN born /\ Stamped(r.ts, born[r.msgid], back)
  /\ back = 0 => \A m \in DOMAIN born :
       elapsed - born[m] < REVMAP_TTL_SEC => \E r \in revmap : r.token = m

IndInv == ClockInv /\ RowsInv /\ LogWindow
=============================================================================
