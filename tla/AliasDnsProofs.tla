--------------------------- MODULE AliasDnsProofs ---------------------------
(* The alias store and the cache of DNS replies: ConfiguredServed for every   *)
(* set of configurations, addresses and destinations, WindowsKept for every   *)
(* width of the timestamps, every lifetime, every clock and every bound, and  *)
(* LookupsSound for every number of slots, every TTL and every set of answers. *)
EXTENDS AliasStore, DnsCache, FiniteSetTheorems, TLAPS

-----------------------------------------------------------------------------
(* Configured aliases                                                         *)

\* The inductive form: the store has the lower-case fact of every configured
\* pair, and of nothing else need we know.
Seeded == up => \A p \in config : <<split_addr(p[1]), p[2]>> \in facts

\* What a start adds is what the configuration declares.
LEMMA SeedAdds ==
  ASSUME NEW fs, NEW c, NEW p \in c
  PROVE  <<split_addr(p[1]), p[2]>> \in store_seed_aliases(fs, c)
BY Zenon DEF store_seed_aliases

\* An edit the read-only check lets through leaves the facts of the
\* configuration alone: it is about an address with another name.
LEMMA EditSpares ==
  ASSUME NEW c, NEW a, NEW d, NEW p \in c,
         ~config_alias_read_only(c, a),
         <<split_addr(p[1]), p[2]>> \in facts
  PROVE  /\ <<split_addr(p[1]), p[2]>> \in alias_rm(facts, a, d)
         /\ <<split_addr(p[1]), p[2]>> \in alias_add_impl(facts, a, d)
<1>1. p[1][1] # a[1]
  BY Zenon DEF config_alias_read_only
<1>2. split_addr(p[1]) # split_addr(a)
  BY Zenon, <1>1 DEF split_addr
<1>3. <<split_addr(p[1]), p[2]>> # <<split_addr(a), d>>
  BY Zenon, <1>2
<1> QED
  BY Zenon, <1>3 DEF alias_rm, alias_add_impl

\* A fact of the relation is found under every spelling of its address.
LEMMA ResolveFinds ==
  ASSUME NEW p, NEW caps \in BOOLEAN, <<split_addr(p[1]), p[2]>> \in facts
  PROVE  p[2] \in store_resolve(facts, <<p[1][1], caps>>)
<1>1. split_addr(<<p[1][1], caps>>) = split_addr(p[1])
  BY Zenon DEF split_addr
<1> DEFINE f == <<split_addr(p[1]), p[2]>>
<1>2. f \in facts /\ f[1] = split_addr(<<p[1][1], caps>>) /\ f[2] = p[2]
  BY Zenon, <1>1
<1> HIDE DEF f
<1>3. f \in {g \in facts : g[1] = split_addr(<<p[1][1], caps>>)}
  BY Zenon, <1>2
<1> QED
  BY Zenon, <1>2, <1>3 DEF store_resolve

LEMMA InitSeeded == Init => Seeded
BY Zenon DEF Init, Seeded

LEMMA NextSeeded == Seeded /\ [Next]_vars => Seeded'
<1> SUFFICES ASSUME Seeded, [Next]_vars, up', NEW p \in config'
             PROVE  <<split_addr(p[1]), p[2]>> \in facts'
  BY Zenon DEF Seeded, split_addr
<1>1. CASE handle_alias
  <2>1. PICK a \in Addresses, d \in Dests, rm \in BOOLEAN :
          /\ ~config_alias_read_only(config, a)
          /\ facts' = IF rm THEN alias_rm(facts, a, d) ELSE alias_add_impl(facts, a, d)
    BY Zenon, <1>1 DEF handle_alias
  <2>2. up /\ p \in config
    BY Zenon, <1>1 DEF handle_alias
  <2>3. <<split_addr(p[1]), p[2]>> \in facts
    BY Zenon, <2>2 DEF Seeded
  <2>4. /\ <<split_addr(p[1]), p[2]>> \in alias_rm(facts, a, d)
        /\ <<split_addr(p[1]), p[2]>> \in alias_add_impl(facts, a, d)
    BY Zenon, <2>1, <2>2, <2>3, EditSpares
  <2> QED
    BY Zenon, <2>1, <2>4
<1>2. CASE start
  <2>1. PICK c \in Configs : config' = c /\ facts' = store_seed_aliases(facts, c)
    BY Zenon, <1>2 DEF start
  <2> QED
    BY Zenon, <2>1, SeedAdds
<1>3. CASE start_fails
  BY Zenon, <1>3 DEF start_fails
<1>4. CASE stop
  BY Zenon, <1>4 DEF stop
<1>5. CASE hourly_sweep \/ forward_prepare \/ tick \/ set_back
  BY Zenon, <1>5 DEF hourly_sweep, forward_prepare, tick, set_back, store, Seeded
<1>6. CASE UNCHANGED vars
  BY Zenon, <1>6 DEF vars, Seeded
<1> QED
  BY Zenon, <1>1, <1>2, <1>3, <1>4, <1>5, <1>6 DEF Next

LEMMA SeededServes == Seeded => ConfiguredServed
<1> SUFFICES ASSUME Seeded, up, NEW p \in config, NEW caps \in BOOLEAN
             PROVE  p[2] \in store_resolve(facts, <<p[1][1], caps>>)
  BY Zenon DEF ConfiguredServed
<1>1. <<split_addr(p[1]), p[2]>> \in facts
  BY Zenon DEF Seeded
<1> QED
  BY Zenon, <1>1, ResolveFinds

\* Whatever the admin API is asked and whenever the daemon stops, half-starts
\* and starts again, a running daemon serves every alias of its configuration in
\* every spelling (handle_alias, config_alias_read_only, store_seed_aliases).
THEOREM AlwaysServed == Spec => []ConfiguredServed
<1>1. Init => Seeded
  BY Zenon, InitSeeded
<1>2. Seeded /\ [Next]_vars => Seeded'
  BY Zenon, NextSeeded
<1>3. Seeded => ConfiguredServed
  BY Zenon, SeededServes
<1> QED
  BY <1>1, <1>2, <1>3, PTL DEF Spec

----------------------------------------------------------------------------
(* Ages modulo 2^32 *)

\* Quotient and remainder.
LEMMA DivMod ==
  ASSUME NEW x \in Int
  PROVE  /\ Wrap \in Nat \ {0} /\ u32(x) \in 0 .. Wrap - 1
         /\ x \div Wrap \in Int /\ x = Wrap * (x \div Wrap) + u32(x)
BY Clocks DEF u32

\* A larger quotient is larger by a whole turn.
LEMMA WholeTurns ==
  ASSUME NEW w \in Nat \ {0}, NEW q \in Int, NEW p \in Int, q > p
  PROVE  w * q >= w * p + w
OBVIOUS

\* The remainder is the only one in its range.
LEMMA ModIs ==
  ASSUME NEW x \in Int, NEW k \in Int, NEW r \in 0 .. Wrap - 1, x = Wrap * k + r
  PROVE  u32(x) = r
<1> DEFINE q == x \div Wrap
<1>1. /\ Wrap \in Nat \ {0} /\ u32(x) \in 0 .. Wrap - 1 /\ q \in Int
      /\ x = Wrap * q + u32(x)
  BY Zenon, DivMod
<1> HIDE DEF q
<1>2. Wrap * q \in Int /\ Wrap * k \in Int
  BY <1>1
<1>3. ~(q > k)
  <2> SUFFICES ASSUME q > k PROVE FALSE
    BY Zenon
  <2>1. Wrap * q >= Wrap * k + Wrap
    BY Zenon, <1>1, WholeTurns
  <2> QED
    BY <1>1, <1>2, <2>1
<1>4. ~(k > q)
  <2> SUFFICES ASSUME k > q PROVE FALSE
    BY Zenon
  <2>1. Wrap * k >= Wrap * q + Wrap
    BY Zenon, <1>1, WholeTurns
  <2> QED
    BY <1>1, <1>2, <2>1
<1>5. q = k
  BY <1>1, <1>3, <1>4
<1> QED
  BY <1>1, <1>2, <1>5

\* Two times less than a turn apart: the unsigned difference of their stamps
\* is their distance, the signed one is it or a turn less.
LEMMA AgeAcrossTheWrap ==
  ASSUME NEW x \in Int, NEW y \in Int, x - y \in 0 .. Wrap - 1
  PROVE  /\ u32(u32(x) - u32(y)) = x - y
         /\ u32(x) - u32(y) \in {x - y, x - y - Wrap}
<1> DEFINE p == x \div Wrap
           q == y \div Wrap
           a == u32(x)
           b == u32(y)
<1>1. /\ Wrap \in Nat \ {0} /\ a \in 0 .. Wrap - 1 /\ b \in 0 .. Wrap - 1
      /\ p \in Int /\ q \in Int /\ x = Wrap * p + a /\ y = Wrap * q + b
  BY Zenon, DivMod
<1> HIDE DEF p, q, a, b
<1>2. Wrap * p \in Int /\ Wrap * q \in Int
  BY <1>1
<1>3. ~(q > p)
  <2> SUFFICES ASSUME q > p PROVE FALSE
    BY Zenon
  <2>1. Wrap * q >= Wrap * p + Wrap
    BY Zenon, <1>1, WholeTurns
  <2> QED
    BY <1>1, <1>2, <2>1
<1>4. ~(p > q + 1)
  <2> SUFFICES ASSUME p > q + 1 PROVE FALSE
    BY Zenon
  <2>1. Wrap * p >= Wrap * (q + 1) + Wrap
    BY <1>1, WholeTurns
  <2>2. Wrap * (q + 1) = Wrap * q + Wrap
    BY <1>1
  <2> QED
    BY <1>1, <1>2, <2>1, <2>2
<1>5. p = q \/ p = q + 1
  BY <1>1, <1>3, <1>4
<1>6. CASE p = q
  <2>1. a - b = x - y
    BY <1>1, <1>2, <1>6
  <2>2. a - b \in Int /\ a - b = Wrap * 0 + (x - y)
    BY <1>1, <2>1
  <2> QED
    BY <2>1, <2>2, ModIs DEF a, b
<1>7. CASE p = q + 1
  <2>0. Wrap * p = Wrap * q + Wrap
    BY <1>1, <1>7
  <2>1. a - b = x - y - Wrap
    BY <1>1, <1>2, <2>0
  <2>2. a - b \in Int /\ a - b = Wrap * (-1) + (x - y)
    BY <1>1, <2>1
  <2> QED
    BY <2>1, <2>2, ModIs DEF a, b
<1> QED
  BY Zenon, <1>5, <1>6, <1>7

----------------------------------------------------------------------------
(* What the sweeps see *)

\* The numbers behind a stamp.
LEMMA Numbers ==
  ASSUME ClockInv, NEW m \in DOMAIN born, NEW b \in 0 .. back
  PROVE  /\ elapsed \in Nat /\ back \in Nat /\ born[m] \in 0 .. elapsed /\ Start \in Nat
         /\ elapsed + back < Wrap /\ back <= Start /\ Wrap \in Nat
         /\ time = Start + elapsed - back
BY Clocks DEF ClockInv

\* A token that has not expired is young, but for what the clock was set back;
\* and on a clock nobody touched a young token has not expired.
LEMMA TokenAge ==
  ASSUME ClockInv, NEW r, NEW m \in DOMAIN born, Stamped(r.created_ts, born[m], back)
  PROVE  /\ ~token_expired(u32(time), r) => elapsed - born[m] < REVMAP_TTL_SEC + back
         /\ back = 0 /\ elapsed - born[m] < REVMAP_TTL_SEC => ~token_expired(u32(time), r)
<1>1. PICK b \in 0 .. back : r.created_ts = u32(Start + born[m] - b)
  BY Zenon DEF Stamped
<1> DEFINE y == Start + born[m] - b
<1>2. /\ elapsed \in Nat /\ back \in Nat /\ born[m] \in 0 .. elapsed /\ Start \in Nat
      /\ elapsed + back < Wrap /\ back <= Start /\ Wrap \in Nat /\ REVMAP_TTL_SEC \in Nat
      /\ time = Start + elapsed - back
  BY Zenon, Numbers, Clocks
<1>3. time \in Int /\ y \in Int /\ b \in Nat /\ b <= back
      /\ time - y = elapsed - born[m] - (back - b) /\ time - y < Wrap
  BY <1>2
<1>4. token_expired(u32(time), r) <=> u32(u32(time) - u32(y)) >= REVMAP_TTL_SEC
  BY Zenon, <1>1 DEF token_expired, u32
<1> HIDE DEF y
<1>5. CASE time - y >= 0
  <2>1. u32(u32(time) - u32(y)) = time - y
    BY <1>2, <1>3, <1>5, AgeAcrossTheWrap
  <2> QED
    BY <1>2, <1>3, <1>4, <2>1
<1>6. CASE time - y < 0
  BY <1>2, <1>3, <1>6, Clocks
<1> QED
  BY <1>3, <1>5, <1>6

\* A young row of the log has not expired.
LEMMA LogAge ==
  ASSUME ClockInv, NEW r, NEW m \in DOMAIN born, Stamped(r.ts, born[m], back),
         back = 0 \/ Start + elapsed < Wrap, elapsed - born[m] < LOG_RETENTION_SEC
  PROVE  ~log_expired(u32(time), r)
<1>1. PICK b \in 0 .. back : r.ts = u32(Start + born[m] - b)
  BY Zenon DEF Stamped
<1> DEFINE y == Start + born[m] - b
<1>2. /\ elapsed \in Nat /\ back \in Nat /\ born[m] \in 0 .. elapsed /\ Start \in Nat
      /\ elapsed + back < Wrap /\ back <= Start /\ Wrap \in Nat /\ LOG_RETENTION_SEC \in Nat
      /\ time = Start + elapsed - back
  BY Zenon, Numbers, Clocks
<1>3. time \in Int /\ y \in Int /\ b \in Nat /\ b <= back
      /\ time - y = elapsed - born[m] - (back - b) /\ time - y < Wrap
      /\ time >= 0 /\ y >= 0 /\ y <= Start + elapsed /\ time <= Start + elapsed
  BY <1>2
<1> HIDE DEF y
<1>4. u32(time) - u32(y) < LOG_RETENTION_SEC
  <2>1. CASE back = 0
    <3>1. time - y \in 0 .. Wrap - 1
      BY <1>2, <1>3, <2>1
    <3>2. u32(time) - u32(y) \in {time - y, time - y - Wrap}
      BY Zenon, <1>3, <3>1, AgeAcrossTheWrap
    <3> QED
      BY <1>2, <1>3, <2>1, <3>2
  <2>2. CASE Start + elapsed < Wrap
    <3>1. time \in 0 .. Wrap - 1 /\ y \in 0 .. Wrap - 1
          /\ time = Wrap * 0 + time /\ y = Wrap * 0 + y
      BY <1>2, <1>3, <2>2
    <3>2. u32(time) = time /\ u32(y) = y
      BY <1>3, <3>1, ModIs
    <3> QED
      BY <1>2, <1>3, <3>2
  <2> QED
    BY Zenon, <2>1, <2>2
<1>5. u32(time) - u32(y) \in Int
  BY <1>3, DivMod
<1> QED
  BY <1>1, <1>2, <1>4, <1>5 DEF log_expired, y

\* A sweep, the hourly one or the one of a start, keeps the rows in their time.
LEMMA SweepKeeps ==
  ASSUME IndInv, Sweep, UNCHANGED <<time, born, elapsed, back>>
  PROVE  IndInv'
<1>1. ClockInv'
  BY Zenon DEF IndInv, ClockInv
<1>2. \A r \in revmap' : r \in revmap
  BY Zenon DEF Sweep, store_revmap_expire
<1>3. \A r \in log' : r \in log
  BY Zenon DEF Sweep, store_log_expire
<1>4. RowsInv'
  <2>1. /\ \A r \in revmap' : r.token \in DOMAIN born' /\ Stamped(r.created_ts, born'[r.token], back')
        /\ \A r \in log' : r.msgid \in DOMAIN born' /\ Stamped(r.ts, born'[r.msgid], back')
    BY Zenon, <1>2, <1>3 DEF IndInv, RowsInv, Stamped, u32
  <2>2. ASSUME back' = 0, NEW m \in DOMAIN born', elapsed' - born'[m] < REVMAP_TTL_SEC
        PROVE  \E r \in revmap' : r.token = m
    <3>1. PICK r \in revmap : r.token = m
      BY Zenon, <2>2 DEF IndInv, RowsInv
    <3>2. Stamped(r.created_ts, born[m], back)
      BY Zenon, <3>1 DEF IndInv, RowsInv
    <3>3. ~token_expired(u32(time), r)
      BY Zenon, <2>2, <3>2, TokenAge DEF IndInv
    <3> QED
      BY Zenon, <3>1, <3>3 DEF Sweep, store_revmap_expire
  <2> QED
    BY Zenon, <2>1, <2>2 DEF RowsInv
<1>5. LogWindow'
  <2>1. ASSUME back = 0 \/ Start + elapsed < Wrap, NEW m \in DOMAIN born,
               elapsed - born[m] < LOG_RETENTION_SEC
        PROVE  \E r \in log' : r.msgid = m
    <3>1. PICK r \in log : r.msgid = m
      BY Zenon, <2>1 DEF IndInv, LogWindow
    <3>2. Stamped(r.ts, born[m], back)
      BY Zenon, <3>1 DEF IndInv, RowsInv
    <3>3. ~log_expired(u32(time), r)
      BY Zenon, <2>1, <3>2, LogAge DEF IndInv
    <3> QED
      BY Zenon, <3>1, <3>3 DEF Sweep, store_log_expire
  <2> QED
    BY Zenon, <2>1 DEF LogWindow
<1> QED
  BY Zenon, <1>1, <1>4, <1>5 DEF IndInv

\* A forwarded message gets a row in each relation, stamped now.
LEMMA ForwardKeeps == IndInv /\ forward_prepare => IndInv'
<1> SUFFICES ASSUME IndInv, forward_prepare PROVE IndInv'
  BY Zenon
<1> DEFINE n == Cardinality(DOMAIN born)
           tok == [token |-> n + 1, created_ts |-> u32(time)]
           row == [msgid |-> n + 1, ts |-> u32(time)]
<1>1. /\ revmap' = revmap \cup {tok} /\ log' = log \cup {row}
      /\ born' = [i \in DOMAIN born \cup {n + 1} |-> IF i = n + 1 THEN elapsed ELSE born[i]]
      /\ UNCHANGED <<time, elapsed, back>>
  BY Zenon DEF forward_prepare
<1>2. /\ n \in Nat /\ DOMAIN born = 1 .. n /\ elapsed \in Nat /\ back \in Nat
      /\ time = Start + elapsed - back /\ IsFiniteSet(DOMAIN born) /\ n + 1 \notin DOMAIN born
  <2>1. n \in Nat /\ DOMAIN born = 1 .. n
    BY Zenon, FS_CardinalityType DEF IndInv, ClockInv
  <2>2. time = Start + elapsed - back /\ IsFiniteSet(DOMAIN born)
    BY Zenon DEF IndInv, ClockInv
  <2>3. elapsed \in 0 .. MaxElapsed /\ back \in 0 .. MaxBack
    BY Zenon DEF IndInv, ClockInv
  <2>4. elapsed \in Nat /\ back \in Nat
    BY <2>3, Clocks
  <2> HIDE DEF n
  <2>5. n + 1 \notin DOMAIN born
    BY <2>1
  <2> QED
    BY Zenon, <2>1, <2>2, <2>4, <2>5
<1>3. /\ tok.token = n + 1 /\ tok.created_ts = u32(time)
      /\ row.msgid = n + 1 /\ row.ts = u32(time)
  BY Zenon
<1> HIDE DEF n, tok, row
<1>4. /\ DOMAIN born' = DOMAIN born \cup {n + 1} /\ born'[n + 1] = elapsed
      /\ \A m \in DOMAIN born : born'[m] = born[m]
  BY Zenon, <1>1, <1>2
<1>5. ClockInv'
  <2>1. IsFiniteSet(DOMAIN born') /\ Cardinality(DOMAIN born') = n + 1
    <3>1. /\ IsFiniteSet(DOMAIN born \cup {n + 1})
          /\ Cardinality(DOMAIN born \cup {n + 1}) = Cardinality(DOMAIN born) + 1
      BY Zenon, <1>2, FS_AddElement
    <3> QED
      BY Zenon, <1>4, <3>1 DEF n
  <2>2. DOMAIN born' = 1 .. n + 1
    BY <1>2, <1>4
  <2>3. \A m \in DOMAIN born' : born'[m] \in 0 .. elapsed'
    BY <1>1, <1>2, <1>4 DEF IndInv, ClockInv
  <2> QED
    BY Zenon, <1>1, <2>1, <2>2, <2>3 DEF IndInv, ClockInv
<1>6. u32(time) = u32(Start + born'[n + 1] - back)
  BY Zenon, <1>2, <1>4
<1>7. RowsInv'
  <2>1. \A ts : \A m \in DOMAIN born : Stamped(ts, born[m], back) => Stamped(ts, born'[m], back')
    BY Zenon, <1>1, <1>4 DEF Stamped, u32
  <2>2. Stamped(u32(time), born'[n + 1], back')
    <3>1. back' \in 0 .. back' /\ u32(time) = u32(Start + born'[n + 1] - back')
      BY <1>1, <1>2, <1>6
    <3> QED
      BY Zenon, <3>1 DEF Stamped
  <2>3. \A r \in revmap' : r.token \in DOMAIN born' /\ Stamped(r.created_ts, born'[r.token], back')
    <3>1. \A r \in revmap : r.token \in DOMAIN born' /\ Stamped(r.created_ts, born'[r.token], back')
      BY Zenon, <1>4, <2>1 DEF IndInv, RowsInv
    <3>2. tok.token \in DOMAIN born' /\ Stamped(tok.created_ts, born'[tok.token], back')
      BY Zenon, <1>3, <1>4, <2>2
    <3> QED
      BY Zenon, <1>1, <3>1, <3>2
  <2>4. \A r \in log' : r.msgid \in DOMAIN born' /\ Stamped(r.ts, born'[r.msgid], back')
    <3>1. \A r \in log : r.msgid \in DOMAIN born' /\ Stamped(r.ts, born'[r.msgid], back')
      BY Zenon, <1>4, <2>1 DEF IndInv, RowsInv
    <3>2. row.msgid \in DOMAIN born' /\ Stamped(row.ts, born'[row.msgid], back')
      BY Zenon, <1>3, <1>4, <2>2
    <3> QED
      BY Zenon, <1>1, <3>1, <3>2
  <2>5. ASSUME back' = 0, NEW m \in DOMAIN born', elapsed' - born'[m] < REVMAP_TTL_SEC
        PROVE  \E r \in revmap' : r.token = m
    <3>1. CASE m = n + 1
      BY Zenon, <1>1, <1>3, <3>1
    <3>2. CASE m \in DOMAIN born
      BY Zenon, <1>1, <1>4, <2>5, <3>2 DEF IndInv, RowsInv
    <3> QED
      BY Zenon, <1>4, <3>1, <3>2
  <2> QED
    BY Zenon, <2>3, <2>4, <2>5 DEF RowsInv
<1>8. LogWindow'
  <2>1. ASSUME back' = 0 \/ Start + elapsed' < Wrap, NEW m \in DOMAIN born',
               elapsed' - born'[m] < LOG_RETENTION_SEC
        PROVE  \E r \in log' : r.msgid = m
    <3>1. CASE m = n + 1
      BY Zenon, <1>1, <1>3, <3>1
    <3>2. CASE m \in DOMAIN born
      BY Zenon, <1>1, <1>4, <2>1, <3>2 DEF IndInv, LogWindow
    <3> QED
      BY Zenon, <1>4, <3>1, <3>2
  <2> QED
    BY Zenon, <2>1 DEF LogWindow
<1> QED
  BY Zenon, <1>5, <1>7, <1>8 DEF IndInv

\* Time passes, or the clock is set back: no row is touched.
LEMMA ClockKeeps ==
  ASSUME IndInv, tick \/ set_back
  PROVE  IndInv'
<1>1. /\ UNCHANGED <<born, revmap, log>>
      /\ elapsed' \in 0 .. MaxElapsed /\ back' \in 0 .. MaxBack
      /\ time' = Start + elapsed' - back' /\ elapsed' >= elapsed /\ back' >= back
      /\ elapsed \in Nat /\ back \in Nat /\ Start \in Nat
  <2>1. /\ elapsed \in 0 .. MaxElapsed /\ back \in 0 .. MaxBack
        /\ time = Start + elapsed - back
    BY Zenon DEF IndInv, ClockInv
  <2>2. CASE tick
    BY <2>1, <2>2, Clocks DEF tick, store
  <2>3. CASE set_back
    BY <2>1, <2>3, Clocks DEF set_back, store
  <2> QED
    BY Zenon, <2>2, <2>3
<1>2. \A m \in DOMAIN born : born[m] \in Nat /\ born[m] <= elapsed
  BY <1>1 DEF IndInv, ClockInv
<1>3. ClockInv'
  BY <1>1, <1>2 DEF IndInv, ClockInv
<1>4. RowsInv'
  <2>1. \A b \in 0 .. back : b \in 0 .. back'
    BY <1>1
  <2>2. /\ \A r \in revmap' : r.token \in DOMAIN born' /\ Stamped(r.created_ts, born'[r.token], back')
        /\ \A r \in log' : r.msgid \in DOMAIN born' /\ Stamped(r.ts, born'[r.msgid], back')
    BY Zenon, <1>1, <2>1 DEF IndInv, RowsInv, Stamped, u32
  <2>3. ASSUME back' = 0, NEW m \in DOMAIN born', elapsed' - born'[m] < REVMAP_TTL_SEC
        PROVE  \E r \in revmap' : r.token = m
    <3>1. back = 0 /\ elapsed - born[m] < REVMAP_TTL_SEC
      BY <1>1, <1>2, <2>3, Clocks
    <3> QED
      BY Zenon, <1>1, <3>1 DEF IndInv, RowsInv
  <2> QED
    BY Zenon, <2>2, <2>3 DEF RowsInv
<1>5. LogWindow'
  <2>1. ASSUME back' = 0 \/ Start + elapsed' < Wrap, NEW m \in DOMAIN born',
               elapsed' - born'[m] < LOG_RETENTION_SEC
        PROVE  \E r \in log' : r.msgid = m
    <3>1. back = 0 \/ Start + elapsed < Wrap
      BY <1>1, <2>1, Clocks
    <3>2. elapsed - born[m] < LOG_RETENTION_SEC
      BY <1>1, <1>2, <2>1, Clocks
    <3> QED
      BY Zenon, <1>1, <3>1, <3>2 DEF IndInv, LogWindow
  <2> QED
    BY Zenon, <2>1 DEF LogWindow
<1> QED
  BY Zenon, <1>3, <1>4, <1>5 DEF IndInv

\* A running daemon or a stopped one, fresh or not: every step keeps the rows in
\* their time.
LEMMA NextKeeps == IndInv /\ [Next]_vars => IndInv'
<1> SUFFICES ASSUME IndInv, [Next]_vars PROVE IndInv'
  BY Zenon
<1>1. CASE hourly_sweep \/ start
  <2>1. Sweep /\ UNCHANGED <<time, born, elapsed, back>>
    BY Zenon, <1>1 DEF hourly_sweep, start, history
  <2> QED
    BY Zenon, <2>1, SweepKeeps
<1>2. CASE forward_prepare
  BY Zenon, <1>2, ForwardKeeps
<1>3. CASE tick \/ set_back
  BY Zenon, <1>3, ClockKeeps
<1>4. CASE handle_alias \/ start_fails \/ stop \/ UNCHANGED vars
  <2>1. UNCHANGED <<revmap, log, time, born, elapsed, back>>
    BY Zenon, <1>4 DEF handle_alias, start_fails, stop, vars, store, history
  <2> QED
    BY <2>1 DEF IndInv, ClockInv, RowsInv, Stamped, LogWindow, u32
<1> QED
  BY Zenon, <1>1, <1>2, <1>3, <1>4 DEF Next

\* No row, no time.
LEMMA InitInv == Init => IndInv
<1> SUFFICES ASSUME Init PROVE IndInv
  BY Zenon
<1>1. DOMAIN born = {} /\ revmap = {} /\ log = {} /\ elapsed = 0 /\ back = 0 /\ time = Start
  BY DEF Init
<1>2. IsFiniteSet(DOMAIN born) /\ Cardinality(DOMAIN born) = 0
  BY Zenon, <1>1, FS_EmptySet
<1> QED
  BY <1>1, <1>2, Clocks DEF IndInv, ClockInv, RowsInv, LogWindow

\* A reply token works for its lifetime and no longer, and the audit log keeps
\* a row for its retention, for timestamps of any width and wherever sweeps,
\* restarts and corrections of the clock fall, as long as less than one turn of
\* the timestamp passes (store_revmap_expire, store_revmap_resolve,
\* store_log_expire).
THEOREM WindowsAreKept == Spec => []WindowsKept
<1>1. IndInv => WindowsKept
  <2> SUFFICES ASSUME IndInv PROVE TokenWindow
    BY Zenon DEF IndInv, WindowsKept
  <2> SUFFICES ASSUME NEW m \in DOMAIN born
               PROVE  /\ store_revmap_resolve(m) => elapsed - born[m] < REVMAP_TTL_SEC + back
                      /\ back = 0 /\ elapsed - born[m] < REVMAP_TTL_SEC =>
                           store_revmap_resolve(m)
    BY Zenon DEF TokenWindow
  <2>1. \A r \in revmap : r.token = m =>
          /\ ~token_expired(u32(time), r) => elapsed - born[m] < REVMAP_TTL_SEC + back
          /\ back = 0 /\ elapsed - born[m] < REVMAP_TTL_SEC => ~token_expired(u32(time), r)
    BY Zenon, TokenAge DEF IndInv, RowsInv
  <2> QED
    BY Zenon, <2>1 DEF store_revmap_resolve, IndInv, RowsInv
<1>2. Init => IndInv
  BY Zenon, InitInv
<1>3. IndInv /\ [Next]_vars => IndInv'
  BY Zenon, NextKeeps
<1> QED
  BY <1>1, <1>2, <1>3, PTL DEF Spec

-----------------------------------------------------------------------------
(* Cached replies                                                             *)

\* What a slot in use holds: a reply to the question it is filed under, from
\* the resolver of its generation, that is kept for its lifetime and no longer.
EntrySound(e) ==
  /\ e.gen \in Nat /\ e.gen <= gen
  /\ e.reply.for = e.q
  /\ e.gen = gen => e.reply.by = resolver
  /\ e.reply.at \in Nat /\ e.reply.at <= now
  /\ e.reply.ttls \in Answers
  /\ e.expires = e.reply.at + dns_reply_ttl(e.reply)

DnsInv ==
  /\ now \in Nat /\ now > 0 /\ gen \in Nat /\ victim \in Slot
  /\ cache = [i \in Slot |-> cache[i]]
  /\ \A i \in Slot : cache[i].expires # 0 => EntrySound(cache[i])
  /\ OneOffer

\* A lifetime is a number no greater than any TTL of the reply and than the
\* ceiling; that of an empty reply is the negative TTL.
LEMMA Lifetime ==
  ASSUME NEW r, r.ttls \in Answers
  PROVE  /\ dns_reply_ttl(r) \in Nat
         /\ r.ttls = {} => dns_reply_ttl(r) = NEG_TTL
         /\ r.ttls # {} => dns_reply_ttl(r) <= MAX_TTL
         /\ \A t \in r.ttls : dns_reply_ttl(r) <= t
<1>1. CASE r.ttls = {}
  BY Zenon, <1>1, DnsAssumption DEF dns_reply_ttl
<1>2. CASE r.ttls # {}
  <2>1. \E t \in r.ttls : \A u \in r.ttls : t <= u
    BY Zenon, <1>2, DnsAssumption
  <2>2. Shortest(r.ttls) \in r.ttls /\ \A u \in r.ttls : Shortest(r.ttls) <= u
    BY Zenon, <2>1 DEF Shortest
  <2>3. r.ttls \subseteq Nat
    BY Zenon, DnsAssumption
  <2> QED
    BY <1>2, <2>2, <2>3, DnsAssumption DEF dns_reply_ttl
<1> QED
  BY Zenon, <1>1, <1>2

\* Sweeping takes entries away and changes none.
LEMMA SweptKeeps ==
  ASSUME NEW q, NEW k, NEW i \in Slot
  PROVE  Swept(q, k)[i] = cache[i] \/ Swept(q, k)[i].expires = 0
BY Zenon DEF Swept, Free, Entry

LEMMA SweptIsFunction ==
  ASSUME NEW q, NEW k
  PROVE  Swept(q, k) = [i \in Slot |-> Swept(q, k)[i]]
BY Zenon DEF Swept

\* An entry that is served was fetched under the resolver that is configured,
\* and its lifetime has not passed.
LEMMA HitIsFresh ==
  ASSUME DnsInv, NEW q \in Questions, NEW i \in Hits(q), served' = {Served(q, cache[i].reply, now)}
  PROVE  AnswersFresh'
<1> DEFINE r == cache[i].reply
<1>1. i \in Slot /\ Offers(q, i) /\ now < cache[i].expires
  BY Zenon DEF Hits
<1>2. EntrySound(cache[i])
  BY Zenon, <1>1 DEF DnsInv, Offers
<1>3. r.for = q /\ r.by = resolver
  BY Zenon, <1>1, <1>2 DEF EntrySound, Offers
<1>4. r.at \in Nat /\ now \in Nat /\ now - r.at < dns_reply_ttl(r) /\ r.ttls \in Answers
  <2>1. dns_reply_ttl(r) \in Nat
    BY Zenon, <1>2, Lifetime DEF EntrySound
  <2> QED
    BY <1>1, <1>2, <2>1 DEF EntrySound, DnsInv
<1>5. /\ dns_reply_ttl(r) \in Nat
      /\ r.ttls = {} => dns_reply_ttl(r) = NEG_TTL
      /\ r.ttls # {} => dns_reply_ttl(r) <= MAX_TTL
      /\ \A t \in r.ttls : dns_reply_ttl(r) <= t
  BY Zenon, <1>4, Lifetime
<1>6. r.ttls \subseteq Nat
  BY Zenon, <1>4, DnsAssumption
<1> HIDE DEF r
<1>7. \/ r.ttls = {} /\ now - r.at < NEG_TTL
      \/ r.ttls # {} /\ now - r.at < MAX_TTL /\ \A t \in r.ttls : now - r.at < t
  BY <1>4, <1>5, <1>6, DnsAssumption
<1> QED
  BY <1>3, <1>7 DEF AnswersFresh, Served, r

\* Where entries only go away or grow older, nothing new is offered.
LEMMA FewerOffers ==
  ASSUME DnsInv, now' \in Nat, now <= now', gen' = gen,
         NEW q, NEW i \in Slot, i \in Hits(q)',
         cache'[i] = cache[i] \/ cache'[i].expires = 0
  PROVE  i \in Hits(q)
<1>1. cache'[i].expires # 0 /\ cache'[i].gen = gen' /\ cache'[i].q = q /\ now' < cache'[i].expires
  BY Zenon DEF Hits, Offers
<1>2. cache'[i] = cache[i] /\ cache[i].expires # 0
  BY Zenon, <1>1
<1>3. cache[i].expires \in Nat
  BY <1>2, Lifetime DEF DnsInv, EntrySound
<1>4. now < cache[i].expires
  BY <1>1, <1>2, <1>3 DEF DnsInv
<1> QED
  BY Zenon, <1>1, <1>2, <1>4 DEF Hits, Offers

\* A step that keeps or frees entries and lets time pass.
LEMMA Ageing ==
  ASSUME DnsInv, now' \in Nat, now <= now', gen' = gen, resolver' = resolver,
         victim' \in Slot, cache' = [i \in Slot |-> cache'[i]],
         \A i \in Slot : cache'[i] = cache[i] \/ cache'[i].expires = 0
  PROVE  DnsInv'
<1>1. \A i \in Slot : cache'[i].expires # 0 => EntrySound(cache[i])'
  <2> SUFFICES ASSUME NEW i \in Slot, cache'[i].expires # 0 PROVE EntrySound(cache[i])'
    BY Zenon
  <2>1. cache'[i] = cache[i] /\ cache[i].expires # 0
    BY Zenon
  <2>2. EntrySound(cache[i])
    BY Zenon, <2>1 DEF DnsInv
  <2> QED
    BY <2>1, <2>2 DEF DnsInv, EntrySound
<1>2. OneOffer'
  <2> SUFFICES ASSUME NEW q \in Questions, NEW i \in Hits(q)', NEW j \in Hits(q)'
               PROVE  i = j
    BY Zenon DEF OneOffer
  <2>1. i \in Slot /\ j \in Slot
    BY Zenon DEF Hits
  <2>2. i \in Hits(q) /\ j \in Hits(q)
    BY Zenon, <2>1, FewerOffers
  <2> QED
    BY Zenon, <2>2 DEF DnsInv, OneOffer
<1> QED
  BY <1>1, <1>2 DEF DnsInv

\* A new entry for a question that no entry answered.
LEMMA Putting ==
  ASSUME DnsInv, NEW q \in Questions, NEW d \in Nat, NEW ttls \in Answers, NEW walks,
         Hits(q) = {}, now' = now + d, gen' = gen, resolver' = resolver,
         NEW reply, reply = Reply(q, resolver, now + d, ttls, walks),
         NEW e, e = Entry(q, gen, reply, now + d + dns_reply_ttl(reply)),
         dns_cache_put(Swept(q, Slots), e, TRUE)
  PROVE  DnsInv'
<1>1. /\ cache' = [Swept(q, Slots) EXCEPT ![victim] = e]
      /\ victim' = (victim + 1) % Slots
  BY Zenon DEF dns_cache_put
<1>2. now' \in Nat /\ now <= now' /\ now' > 0 /\ victim' \in Slot
  BY <1>1, DnsAssumption DEF DnsInv, Slot
<1>3. cache' = [i \in Slot |-> cache'[i]]
  BY Zenon, <1>1 DEF Swept
<1>4. cache'[victim] = e
  BY Zenon, <1>1, SweptIsFunction DEF DnsInv
<1>5. \A i \in Slot : i # victim => cache'[i] = cache[i] \/ cache'[i].expires = 0
  BY <1>1, SweptIsFunction, SweptKeeps
<1>6. EntrySound(e)'
  <2>1. /\ e.gen = gen /\ e.q = q /\ e.reply = reply /\ e.expires = now + d + dns_reply_ttl(reply)
        /\ reply.for = q /\ reply.by = resolver /\ reply.at = now + d /\ reply.ttls = ttls
    BY Zenon DEF Entry, Reply
  <2> QED
    BY <2>1, <1>2 DEF EntrySound, DnsInv
<1>7. \A i \in Slot : cache'[i].expires # 0 => EntrySound(cache[i])'
  <2> SUFFICES ASSUME NEW i \in Slot, cache'[i].expires # 0 PROVE EntrySound(cache[i])'
    BY Zenon
  <2>1. CASE i = victim
    BY Zenon, <2>1, <1>4, <1>6 DEF EntrySound
  <2>2. CASE i # victim
    <3>1. cache'[i] = cache[i] /\ cache[i].expires # 0
      BY Zenon, <2>2, <1>5
    <3>2. EntrySound(cache[i])
      BY Zenon, <3>1 DEF DnsInv
    <3> QED
      BY <3>1, <3>2, <1>2 DEF DnsInv, EntrySound
  <2> QED
    BY Zenon, <2>1, <2>2
<1>8. OneOffer'
  <2> SUFFICES ASSUME NEW p \in Questions, NEW i \in Hits(p)', NEW j \in Hits(p)'
               PROVE  i = j
    BY Zenon DEF OneOffer
  <2>1. i \in Slot /\ j \in Slot
    BY Zenon DEF Hits
  <2>2. \A k \in Slot : k \in Hits(p)' /\ k # victim => k \in Hits(p)
    BY Zenon, <1>2, <1>5, FewerOffers
  <2>3. CASE p = q
    BY Zenon, <2>1, <2>2, <2>3
  <2>4. CASE p # q
    <3>1. cache'[victim].q = q
      BY <1>4 DEF Entry
    <3>2. victim \notin Hits(p)'
      BY Zenon, <3>1, <2>4 DEF Hits, Offers
    <3> QED
      BY Zenon, <2>1, <2>2, <3>2 DEF DnsInv, OneOffer
  <2> QED
    BY Zenon, <2>3, <2>4
<1> QED
  BY Zenon, <1>2, <1>3, <1>7, <1>8 DEF DnsInv

LEMMA DnsInitInv == DnsInit => DnsInv /\ AnswersFresh
<1> SUFFICES ASSUME DnsInit PROVE DnsInv /\ AnswersFresh
  BY Zenon
<1>1. \A i \in Slot : cache[i].expires = 0
  BY Zenon DEF DnsInit, Free, Entry
<1>2. OneOffer
  BY Zenon, <1>1 DEF OneOffer, Hits, Offers
<1>3. now \in Nat /\ now > 0 /\ gen \in Nat /\ victim \in Slot /\ served = {}
  BY DnsAssumption DEF DnsInit, Slot
<1>4. cache = [i \in Slot |-> cache[i]]
  BY Zenon DEF DnsInit
<1> QED
  BY Zenon, <1>1, <1>2, <1>3, <1>4 DEF DnsInv, AnswersFresh

LEMMA DnsNextInv == DnsInv /\ AnswersFresh /\ [DnsNext]_dns => DnsInv' /\ AnswersFresh'
<1> SUFFICES ASSUME DnsInv, AnswersFresh, [DnsNext]_dns
             PROVE  DnsInv' /\ AnswersFresh'
  BY Zenon
<1>1. ASSUME NEW q \in Questions, FromCache(q)
      PROVE  DnsInv' /\ AnswersFresh'
  <2>1. PICK i \in Hits(q) :
          /\ cache' = Swept(q, i)
          /\ served' = {Served(q, cache[i].reply, now)}
          /\ UNCHANGED <<victim, gen, resolver, now>>
    BY Zenon, <1>1 DEF FromCache
  <2>2. DnsInv'
    BY <2>1, Ageing, SweptIsFunction, SweptKeeps DEF DnsInv
  <2> QED
    BY Zenon, <2>1, <2>2, HitIsFresh
<1>2. ASSUME NEW q \in Questions, FromResolver(q)
      PROVE  DnsInv' /\ AnswersFresh'
  <2>1. PICK d \in 0..DnsTimeout, ttls \in Answers, walks \in BOOLEAN, room \in BOOLEAN :
          LET reply == Reply(q, resolver, now + d, ttls, walks)
          IN  /\ now' = now + d
              /\ served' = {Served(q, reply, now + d)}
              /\ IF walks
                 THEN dns_cache_put(Swept(q, Slots),
                                    Entry(q, gen, reply, now + d + dns_reply_ttl(reply)), room)
                 ELSE cache' = Swept(q, Slots) /\ UNCHANGED victim
              /\ UNCHANGED <<gen, resolver>>
    BY <1>2 DEF FromResolver
  <2>2. PICK reply : reply = Reply(q, resolver, now + d, ttls, walks)
    BY Zenon
  <2>3. PICK e : e = Entry(q, gen, reply, now + d + dns_reply_ttl(reply))
    BY Zenon
  <2>4. /\ now' = now + d /\ served' = {Served(q, reply, now + d)}
        /\ IF walks THEN dns_cache_put(Swept(q, Slots), e, room)
           ELSE cache' = Swept(q, Slots) /\ UNCHANGED victim
        /\ gen' = gen /\ resolver' = resolver
    BY Zenon, <2>1, <2>2, <2>3
  <2>5. d \in Nat /\ now + d \in Nat /\ now <= now + d
    BY DnsAssumption DEF DnsInv
  <2>6. DnsInv'
    <3>1. CASE walks = TRUE /\ room = TRUE
      BY Zenon, <3>1, <1>2, <2>2, <2>3, <2>4, <2>5, Putting DEF FromResolver
    <3>2. CASE ~(walks = TRUE /\ room = TRUE)
      <4>1. cache' = Swept(q, Slots) /\ victim' \in Slot
        BY <3>2, <2>4, DnsAssumption, SMTT(30) DEF dns_cache_put, DnsInv, Slot
      <4> QED
        BY Zenon, <4>1, <2>4, <2>5, Ageing, SweptIsFunction, SweptKeeps
    <3> QED
      BY Zenon, <3>1, <3>2
  <2>7. AnswersFresh'
    <3>1. reply.for = q /\ reply.by = resolver /\ (now + d) - reply.at = 0
      BY <2>2, <2>5 DEF Reply
    <3> QED
      BY <3>1, <2>4 DEF AnswersFresh, Served
  <2> QED
    BY Zenon, <2>6, <2>7
<1>3. ASSUME NEW q \in Questions, NotAnswered(q)
      PROVE  DnsInv' /\ AnswersFresh'
  <2>1. /\ cache' = Swept(q, Slots) /\ served' = {} /\ victim' = victim
        /\ gen' = gen /\ resolver' = resolver /\ now' \in Nat /\ now <= now'
    BY <1>3, DnsAssumption DEF NotAnswered, DnsInv
  <2>2. DnsInv'
    BY <2>1, Ageing, SweptIsFunction, SweptKeeps DEF DnsInv
  <2> QED
    BY Zenon, <2>1, <2>2 DEF AnswersFresh
<1>4. ASSUME NEW r \in Resolvers, auth_dns_set_resolver(r)
      PROVE  DnsInv' /\ AnswersFresh'
  <2>1. /\ cache' = cache /\ victim' = victim /\ now' = now
        /\ gen' = gen + 1 /\ served' = {}
    BY Zenon, <1>4 DEF auth_dns_set_resolver
  <2>2. \A i \in Slot : cache[i].expires # 0 => cache[i].gen # gen' /\ EntrySound(cache[i])'
    BY <2>1 DEF DnsInv, EntrySound
  <2>3. OneOffer'
    BY Zenon, <2>1, <2>2 DEF OneOffer, Hits, Offers
  <2> QED
    BY <2>1, <2>2, <2>3 DEF DnsInv, AnswersFresh
<1>5. CASE Tick
  <2>1. /\ cache' = cache /\ victim' = victim /\ gen' = gen /\ resolver' = resolver
        /\ served' = {} /\ now' \in Nat /\ now <= now'
    BY <1>5 DEF Tick, DnsInv
  <2>2. DnsInv'
    BY Zenon, <2>1, Ageing DEF DnsInv
  <2> QED
    BY Zenon, <2>1, <2>2 DEF AnswersFresh
<1>6. CASE UNCHANGED dns
  <2>1. /\ cache' = cache /\ victim' = victim /\ gen' = gen /\ resolver' = resolver
        /\ served' = served /\ now' = now
    BY Zenon, <1>6 DEF dns
  <2>2. DnsInv'
    BY <2>1, Ageing DEF DnsInv
  <2> QED
    BY Zenon, <2>1, <2>2 DEF AnswersFresh
<1> QED
  BY Zenon, <1>1, <1>2, <1>3, <1>4, <1>5, <1>6 DEF DnsNext

\* Every look-up through the cache hands on a reply to its own question, from
\* the resolver configured then, that has not outlived its TTLs, and no question
\* has two entries that could answer it (dns_query_raw, dns_cache_get,
\* dns_cache_put, auth_dns_set_resolver).
THEOREM LookupsAreSound == DnsSpec => []LookupsSound
<1>1. DnsInv /\ AnswersFresh => LookupsSound
  BY Zenon DEF DnsInv, LookupsSound
<1> QED
  BY DnsInitInv, DnsNextInv, <1>1, PTL DEF DnsSpec
=============================================================================
