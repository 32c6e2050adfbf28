---------------------------- MODULE ImapSession ----------------------------
(***************************************************************************)
(* The sessions of one user at imapd: the commands of imapd_imap.c and     *)
(* pop3d.c that look at or change mailboxes, over the mailbox operations   *)
(* of imap_maildir.c.                                                      *)
(*                                                                         *)
(* imapd is one thread, so a command is one step; FETCH is streamed and    *)
(* takes a step per message, between which other sessions run.  Every      *)
(* session works on its own view, a scan of the directories made when the  *)
(* mailbox was selected.  A message's flags are part of its file name, so  *)
(* a name that a view remembers may be gone when it is used.               *)
(*                                                                         *)
(* A session's EXPUNGE and MOVE take a row out of its own copy of the UID  *)
(* list; the sidecar learns of it when the view is closed, and SELECT and  *)
(* refresh_selected close the old view after they have made the new one.   *)
(* What two daemons do to the sidecar is Maildir's matter.                 *)
(***************************************************************************)
EXTENDS Integers, Sequences, FiniteSets, FiniteSetsExt, SequencesExt

CONSTANTS
  Scenarios,   \* who is about, which commands they use and how many in all
  Msg,         \* messages, in the order in which they arrive
  Initial,     \* how many of them are there at the start
  Faults       \* whether a write may fail

ASSUME SessionAssumption ==
  /\ Msg \subseteq Nat /\ IsFiniteSet(Msg) /\ Initial \in Nat
  /\ \A sc \in Scenarios : sc.imap \cap sc.pop = {} /\ sc.max \in Nat
  /\ Faults \in BOOLEAN

Box  == {"INBOX", "Archive"}
Flag == {"S", "T"}     \* \Seen and \Deleted

VARIABLES
  plan,      \* the scenario: plan.max bounds the commands and arrivals
  disk,      \* message files
  side,      \* for every mailbox its sidecar: UIDs and the next one
  conn,      \* the sessions
  client,    \* what each client believes message n of its mailbox to be
  blurred,   \* clients whose numbers something else has disturbed
  wished,    \* messages of mailboxes that carry a client's \Deleted
  wrong,     \* messages that left a mailbox unasked
  lost,      \* messages from whose name somebody else's flag disappeared
  cmds, arrived

vars == <<plan, disk, side, conn, client, blurred, wished, wrong, lost, cmds, arrived>>

Imap == {s \in DOMAIN conn : conn[s].kind = "imap"}
Pop  == {s \in DOMAIN conn : conn[s].kind = "pop3"}

File(b, m, sub, fl) == [box |-> b, m |-> m, sub |-> sub, fl |-> fl]

\* A view entry remembers the name of its file (sub and fl) and the flags vf
\* that the session works with.
PathOf(b, e) == File(b, e.m, e.sub, e.fl)

\* mb are the entries of the view, next, gen, tomb and dirty the rest of it:
\* the next UID and the generation of the UID list when it was made, the bases
\* whose rows it has dropped and whether closing it has anything to write.
NewConn(k) ==
  [kind |-> k, ist |-> "auth", open |-> FALSE, box |-> "INBOX", mb |-> <<>>,
   next |-> 1, gen |-> 0, tomb |-> {}, dirty |-> FALSE,
   examine |-> FALSE, idle |-> FALSE, fetch |-> <<>>, del |-> {}]

Ms(mb) == [i \in DOMAIN mb |-> mb[i].m]

Has(D, b, m) == \E f \in D : f.box = b /\ f.m = m

-----------------------------------------------------------------------------
(* The sidecar of a mailbox: rows gives messages their UIDs, next is the    *)
(* next one, gen stands for the uidvalidity, there is false for a mailbox   *)
(* that has been deleted.                                                   *)

\* The messages ms, which have no rows yet, get the next UIDs.
Numbered(sb, ms) ==
  [sb EXCEPT !.there = TRUE, !.next = @ + Len(ms),
             !.rows = @ @@ [m \in Range(ms) |->
                              sb.next + SelectInSeq(ms, LAMBDA n : n = m) - 1]]

\* mbox_register: a base that has a row keeps it.
mbox_register(sb, m) == IF m \in DOMAIN sb.rows THEN sb ELSE Numbered(sb, <<m>>)

\* The UIDs of a view.
Uids(mb) ==
  [m \in Range(Ms(mb)) |-> mb[SelectInSeq(mb, LAMBDA e : e.m = m)].uid]

\* imapd_mbox_close, what it may leave in the sidecar: the rows of the view
\* are merged with those on disk, without the bases that the view dropped.
\* Which of two rows of one base is the newer is left open, and a write that
\* fails is not noticed.
imapd_mbox_close(sb, c) ==
  LET v == IF c.gen = sb.gen THEN Uids(c.mb) ELSE <<>>
      rest == (DOMAIN sb.rows \cup DOMAIN v) \ c.tomb
      both == {m \in rest : m \in DOMAIN sb.rows /\ m \in DOMAIN v /\ sb.rows[m] # v[m]}
      Merge(X) == [m \in rest |-> IF m \in DOMAIN sb.rows \ X THEN sb.rows[m] ELSE v[m]]
  IN  IF ~c.open \/ ~c.dirty \/ ~sb.there THEN {sb}
      ELSE {[sb EXCEPT !.rows = Merge(X)] : X \in SUBSET both}
           \cup (IF Faults THEN {sb} ELSE {})

-----------------------------------------------------------------------------
(* Scanning a mailbox                                                       *)

\* scan_subdir: the bases without a row, new/ before cur/.
Unregistered(D, b, sb) ==
  LET here(sub)  == {f.m : f \in {g \in D : g.box = b /\ g.sub = sub}}
      fresh(sub) == SetToSortSeq(here(sub) \ DOMAIN sb.rows, <)
  IN  fresh("new") \o SelectSeq(fresh("cur"), LAMBDA m : m \notin here("new"))

\* The rows whose file has vanished are dropped.
Pruned(D, b, sb) ==
  [sb EXCEPT !.rows = [m \in {n \in DOMAIN @ : Has(D, b, n)} |-> @[m]]]

\* The files of one message in a mailbox, those in new/ first.
FilesOf(D, b, m) ==
  LET of(sub) == SetToSeq({f \in D : f.box = b /\ f.m = m /\ f.sub = sub})
  IN  of("new") \o of("cur")

\* mbox_scan: the view in UID order, rows without a file dropped, and with
\* move_new the files of new/ renamed into cur/.  What changed in the rows is
\* written at once.
mbox_scan(D, b, sb, move_new) ==
  LET moved == {f \in D : move_new /\ f.box = b /\ f.sub = "new"}
      View(files, rows) == [i \in DOMAIN files |->
                       [m |-> files[i].m, uid |-> rows[files[i].m],
                        sub |-> IF move_new THEN "cur" ELSE files[i].sub,
                        fl |-> files[i].fl, vf |-> files[i].fl,
                        recent |-> files[i].sub = "new"]]
      Sorted(rows) == SetToSortSeq(DOMAIN rows, LAMBDA m, n : rows[m] < rows[n])
      Scanned(s2) ==
        [disk |-> (D \ moved) \cup {[f EXCEPT !.sub = "cur"] : f \in moved},
         side |-> s2,
         tomb |-> DOMAIN sb.rows \ DOMAIN s2.rows,
         mb   |-> LET ms == Sorted(s2.rows)
                  IN  View(FlattenSeq([i \in DOMAIN ms |-> FilesOf(D, b, ms[i])]), s2.rows)]
  IN  Scanned(Numbered(Pruned(D, b, sb), Unregistered(D, b, sb)))

\* The session c with a view that a scan has made.
Opened(c, v) ==
  [c EXCEPT !.open = TRUE, !.mb = v.mb, !.next = v.side.next, !.gen = v.side.gen,
            !.tomb = v.tomb, !.dirty = FALSE]

imapd_mbox_open(D, b, sb) == mbox_scan(D, b, sb, TRUE)
imapd_mbox_peek(D, b, sb) == mbox_scan(D, b, sb, FALSE)

\* imapd_mbox_has_new: the cheap probe before a rescan.
imapd_mbox_has_new(b) == \E f \in disk : f.box = b /\ f.sub = "new"

-----------------------------------------------------------------------------
(* Operations on a view.  w is the disk and the view of one session.        *)

\* imapd_mbox_find: by UID, so the first of several files of a message.
imapd_mbox_find(mb, m) == SelectInSeq(mb, LAMBDA e : e.m = m)

BugByBase(w, b, m, flags) ==
  LET i  == imapd_mbox_find(w.mb, m)
      fs == {f \in w.disk : f.box = b /\ f.m = m}
      g  == File(b, m, "cur", flags)
  IN  IF i = 0 \/ fs = {} THEN [w EXCEPT !.ok = FALSE]
      ELSE [w EXCEPT !.disk = (@ \ fs) \cup {g}, !.renamed = @ \cup {<<f, g>> : f \in fs},
                     !.mb[i].sub = "cur", !.mb[i].fl = flags, !.mb[i].vf = flags,
                     !.ok = TRUE, !.dirty = TRUE]

\* imapd_mbox_store: renames the file the view remembers; if somebody has
\* renamed or removed it, nothing happens.
imapd_mbox_store(w, b, m, flags) ==
  LET i == imapd_mbox_find(w.mb, m)
      f == PathOf(b, w.mb[i])
      g == File(b, m, "cur", flags)
  IN  IF i = 0 \/ f \notin w.disk THEN [w EXCEPT !.ok = FALSE]
      ELSE [w EXCEPT !.disk = (@ \ {f}) \cup {g}, !.renamed = @ \cup {<<f, g>>},
                     !.mb[i].sub = "cur", !.mb[i].fl = flags, !.mb[i].vf = flags,
                     !.ok = TRUE, !.dirty = TRUE]

BugUnlinkAny(w, b, m) ==
  LET i == imapd_mbox_find(w.mb, m)
  IN  IF i = 0 THEN w
      ELSE [w EXCEPT !.disk = {f \in @ : ~(f.box = b /\ f.m = m)},
                     !.mb = RemoveAt(@, i), !.tomb = @ \cup {m}, !.dirty = TRUE]

\* imapd_mbox_expunge: the unlink may find nothing; the entry goes anyway, and
\* uidmap_remove takes the row out of the view's list.
imapd_mbox_expunge(w, b, m) ==
  LET i == imapd_mbox_find(w.mb, m)
  IN  IF i = 0 THEN w
      ELSE [w EXCEPT !.disk = @ \ {PathOf(b, w.mb[i])}, !.mb = RemoveAt(@, i),
                     !.tomb = @ \cup {m}, !.dirty = TRUE]

BugViewFlags(w, b, m, dest, move, reg) ==
  LET i == imapd_mbox_find(w.mb, m)
      fs == {f \in w.disk : f.box = b /\ f.m = m}
      g == File(dest, m, "cur", w.mb[i].vf)
      d == (IF move THEN w.disk \ fs ELSE w.disk) \cup {g}
  IN  IF i = 0 \/ fs = {} THEN w
      ELSE [w EXCEPT !.disk = d, !.renamed = IF move THEN @ \cup {<<f, g>> : f \in fs} ELSE @,
                     !.mb = IF move THEN RemoveAt(@, i) ELSE @,
                     !.filed = Append(@, m)]

\* imapd_mbox_file: the file is renamed or copied into cur/ of the other
\* mailbox under the flags of the view, then registered there; the view entry
\* and the row go only after both.
imapd_mbox_file(w, b, m, dest, move, reg) ==
  LET i == imapd_mbox_find(w.mb, m)
      f == PathOf(b, w.mb[i])
      g == File(dest, m, "cur", w.mb[i].vf)
      Placed == [w EXCEPT !.disk = (IF move THEN @ \ {f} ELSE @) \cup {g},
                          !.renamed = IF move THEN @ \cup {<<f, g>>} ELSE @]
  IN  IF i = 0 \/ f \notin w.disk THEN w
      ELSE IF ~reg THEN Placed
      ELSE IF ~move THEN [Placed EXCEPT !.filed = Append(@, m)]
      ELSE [Placed EXCEPT !.filed = Append(@, m), !.mb = RemoveAt(@, i),
                          !.tomb = @ \cup {m}, !.dirty = TRUE]

World(s) == [disk |-> disk, mb |-> conn[s].mb, ok |-> TRUE, filed |-> <<>>,
             tomb |-> conn[s].tomb, dirty |-> conn[s].dirty, renamed |-> {}]

\* The session s with the view that operations have left it.
Viewing(s, w) == [conn[s] EXCEPT !.mb = w.mb, !.tomb = w.tomb, !.dirty = w.dirty]

\* The messages at the given positions of a view, in order.
At(mb, K) == LET ks == SetToSortSeq(K \cap DOMAIN mb, <)
             IN  [n \in DOMAIN ks |-> mb[ks[n]].m]

-----------------------------------------------------------------------------
(* What the clients and the other sessions notice                           *)

\* "* n EXISTS": the client learns of messages beyond those it knows.
Exists(known, mb) ==
  IF Len(mb) >= Len(known) THEN known \o SubSeq(Ms(mb), Len(known) + 1, Len(mb))
  ELSE SubSeq(known, 1, Len(mb))

\* "* n EXPUNGE": the client strikes number n from its list.
Strike(known, n) == IF n \in DOMAIN known THEN RemoveAt(known, n) ELSE known

\* The messages that a step which leaves D on disk takes out of a mailbox.
Left(D) == {<<f.box, f.m>> : f \in {g \in disk : ~Has(D, g.box, g.m)}}

\* A message that the view of c has given up is in the mailbox, still or again.
Returned(c, D) == c.open /\ \E m \in c.tomb : Has(D, c.box, m)

\* The sidecar has another UID, or none, for a message of the view of c, or it
\* has an old one for a message that the view does not have.
Renumbered(c, D, sb) ==
  LET v == Uids(c.mb)
  IN  \E m \in Msg : Has(D, c.box, m) /\
        IF m \in DOMAIN v THEN m \notin DOMAIN sb.rows \/ sb.rows[m] # v[m]
        ELSE m \in DOMAIN sb.rows /\ sb.rows[m] < c.next

\* The sessions other than s whose numbers a step that leaves D and SB
\* disturbs: a message goes from their mailbox, returns to it, has its UID
\* changed, or gets a second file there (a COPY after a flag change).
Disturbed(s, D, SB) ==
  {t \in DOMAIN conn \ {s} : conn[t].open /\
     \/ \E x \in Left(D) : x[1] = conn[t].box
     \/ Returned(conn[t], D) \/ Renumbered(conn[t], D, SB[conn[t].box])
     \/ \E f, g \in D : f # g /\ f.m = g.m /\ f.box = conn[t].box /\ g.box = f.box}

Took(s, cmd) ==
  /\ cmds < plan.max /\ cmd \in plan.asks /\ conn[s].fetch = <<>> /\ ~conn[s].idle
  /\ cmds' = cmds + 1 /\ UNCHANGED plan

\* What a step of s leaves on disk and in the sidecars, observed: the messages
\* that left a mailbox although the step was not asked to take them out, and
\* the renamed ones that lost a flag which nobody asked to clear.  own says
\* whether the numbers of s itself are disturbed after it.
Observed(s, D, SB, asked, renamed, cleared, own) ==
  /\ disk' = D /\ side' = SB
  /\ wrong' = wrong \cup (Left(D) \ asked)
  /\ lost' = lost \cup {r[1].m : r \in {q \in renamed : ~(q[1].fl \ q[2].fl \subseteq cleared)}}
  /\ blurred' = (blurred \ {s}) \cup Disturbed(s, D, SB) \cup (IF own THEN {s} ELSE {})

\* A step that takes nothing out and clears no flag.
Quiet(s, D, SB, renamed) == Observed(s, D, SB, {}, renamed, {}, s \in blurred)

-----------------------------------------------------------------------------
(* Selecting, refreshing                                                    *)

close_selected(c) ==
  [NewConn(c.kind) EXCEPT !.box = c.box]

\* What SELECT and refresh_selected may leave in the sidecars: the new view v
\* of b is made first, then the old view is closed.
ThenClosed(s, b, v) ==
  LET SB == [side EXCEPT ![b] = v.side]  c == conn[s]
  IN  {[SB EXCEPT ![c.box] = sb] : sb \in imapd_mbox_close(SB[c.box], c)}

\* The mailbox of do_delete is gone: SELECT fails and nothing is selected.
select_fails(s, b) ==
  /\ s \in Imap /\ ~side[b].there /\ Took(s, "select")
  /\ \E sb \in imapd_mbox_close(side[conn[s].box], conn[s]) :
       Observed(s, disk, [side EXCEPT ![conn[s].box] = sb], {}, {}, {}, FALSE)
  /\ conn' = [conn EXCEPT ![s] = close_selected(@)]
  /\ client' = [client EXCEPT ![s] = <<>>]
  /\ UNCHANGED <<wished, arrived>>

do_select(s, b, examine) ==
  /\ s \in Imap /\ side[b].there /\ Took(s, "select")
  /\ \E v \in {imapd_mbox_open(disk, b, side[b])} : \E SB \in ThenClosed(s, b, v) :
       /\ conn' = [conn EXCEPT ![s] = Opened([close_selected(@) EXCEPT
                     !.ist = "selected", !.box = b, !.examine = examine], v)]
       /\ client' = [client EXCEPT ![s] = Ms(v.mb)]
       /\ Observed(s, v.disk, SB, {}, {}, {}, conn[s].box = b /\ Returned(conn[s], disk))
  /\ UNCHANGED <<wished, arrived>>

\* What refresh_selected tells the client: counts, and never an EXPUNGE.
Told(s, mb) ==
  LET recents(v) == Cardinality({i \in DOMAIN v : v[i].recent})
  IN  IF Len(mb) # Len(conn[s].mb) \/ recents(mb) # recents(conn[s].mb)
      THEN Exists(client[s], mb) ELSE client[s]

\* refresh_selected: rescans only if something is in new/.
refresh_selected(s) ==
  LET b == conn[s].box
  IN  IF ~conn[s].open \/ ~imapd_mbox_has_new(b)
        THEN UNCHANGED <<disk, side, conn, client, blurred, wrong, lost>>
      ELSE \E v \in {imapd_mbox_open(disk, b, side[b])} : \E SB \in ThenClosed(s, b, v) :
             /\ conn' = [conn EXCEPT ![s] = Opened(@, v)]
             /\ client' = [client EXCEPT ![s] = Told(s, v.mb)]
             /\ Quiet(s, v.disk, SB, {})

\* NOOP and CHECK.
do_noop(s) ==
  /\ s \in Imap /\ conn[s].ist = "selected" /\ Took(s, "noop")
  /\ refresh_selected(s)
  /\ UNCHANGED <<wished, arrived>>

do_idle(s) ==
  /\ s \in Imap /\ conn[s].ist = "selected" /\ Took(s, "idle")
  /\ conn' = [conn EXCEPT ![s].idle = TRUE]
  /\ UNCHANGED <<disk, side, client, blurred, wished, wrong, lost, arrived>>

\* imapd_imap_idle_refresh, from the poll loop.
idle_refresh(s) ==
  /\ s \in Imap /\ conn[s].idle /\ imapd_mbox_has_new(conn[s].box)
  /\ refresh_selected(s)
  /\ UNCHANGED <<plan, wished, cmds, arrived>>

\* DONE is the only input while idle.
done(s) ==
  /\ s \in Imap /\ conn[s].idle
  /\ conn' = [conn EXCEPT ![s].idle = FALSE]
  /\ UNCHANGED <<plan, disk, side, client, blurred, wished, wrong, lost, cmds, arrived>>

-----------------------------------------------------------------------------
(* Changing flags, expunging, filing                                        *)

Writable(s) == s \in Imap /\ conn[s].ist = "selected" /\ ~conn[s].examine

StoreFlags(op, old, bits) ==
  CASE op = "+" -> old \cup bits [] op = "-" -> old \ bits [] op = "=" -> bits

\* do_store over the messages ms; a message whose file cannot be renamed is
\* passed over, and the answer is OK all the same.
StoreEach(w, b, ms, op, bits) ==
  FoldLeft(LAMBDA x, m :
    LET i == imapd_mbox_find(x.mb, m)
        y == imapd_mbox_store(x, b, m, StoreFlags(op, x.mb[i].vf, bits))
    IN  IF y.ok THEN [y EXCEPT !.filed = Append(@, m)] ELSE y, w, ms)

do_store(s, K, op, bits) ==
  LET b == conn[s].box
      Wishes(them) == IF "T" \in bits
                        THEN IF op = "-" THEN wished \ them ELSE wished \cup them
                      ELSE IF op = "=" THEN wished \ them ELSE wished
  IN  /\ Writable(s) /\ Took(s, "store")
      /\ \E w \in {StoreEach(World(s), b, At(conn[s].mb, K), op, bits)} :
           /\ conn' = [conn EXCEPT ![s] = Viewing(s, w)]
           /\ Observed(s, w.disk, side, {}, w.renamed,
                       CASE op = "+" -> {} [] op = "-" -> bits [] op = "=" -> Flag,
                       s \in blurred)
           /\ wished' = Wishes({<<b, m>> : m \in Range(w.filed)})
      /\ UNCHANGED <<client, arrived>>

\* The positions that EXPUNGE and CLOSE take: the view's \Deleted flags.
Trashed(mb) == {i \in DOMAIN mb : "T" \in mb[i].vf}

\* Expunging from the last position to the first.
ExpungeAll(w, b, K) ==
  FoldLeft(LAMBDA x, i : imapd_mbox_expunge(x, b, x.mb[i].m), w,
           Reverse(SetToSortSeq(K, <)))

BugUpwards(known, K) == FoldLeft(Strike, known, SetToSortSeq(K, <))

\* The "* n EXPUNGE" responses, highest number first.
ExpungeResponses(known, K) == FoldLeft(Strike, known, Reverse(SetToSortSeq(K, <)))

\* EXPUNGE, and UID EXPUNGE for those of the messages at the positions set.
do_expunge(s, set) ==
  LET b == conn[s].box  K == Trashed(conn[s].mb) \cap set
  IN  /\ Writable(s) /\ Took(s, "expunge")
      /\ \E w \in {ExpungeAll(World(s), b, K)} :
           /\ conn' = [conn EXCEPT ![s] = Viewing(s, w)]
           /\ Observed(s, w.disk, side, wished, {}, {},
                       s \in blurred \/ Returned(Viewing(s, w), w.disk))
           /\ wished' = wished \ Left(w.disk)
      /\ client' = [client EXCEPT ![s] = ExpungeResponses(@, K)]
      /\ UNCHANGED arrived

\* The view of s after the operations w is closed, and c is what is left of s.
Closes(s, w, c, asked) ==
  LET b == conn[s].box
  IN  /\ \E sb \in imapd_mbox_close(side[b], Viewing(s, w)) :
           Observed(s, w.disk, [side EXCEPT ![b] = sb], asked, {}, {}, FALSE)
      /\ conn' = [conn EXCEPT ![s] = c]
      /\ client' = [client EXCEPT ![s] = <<>>]
      /\ wished' = wished \ Left(w.disk)
      /\ UNCHANGED arrived

\* CLOSE expunges without telling, unless the mailbox is read-only.
do_close(s) ==
  /\ s \in Imap /\ conn[s].ist = "selected" /\ Took(s, "close")
  /\ \E w \in {ExpungeAll(World(s), conn[s].box,
                 IF conn[s].examine THEN {} ELSE Trashed(conn[s].mb))} :
       Closes(s, w, close_selected(conn[s]), wished)

\* do_file: COPY and MOVE into the other mailbox.  bad is the message whose
\* registration fails, if one does.  MOVE answers an EXPUNGE for every message
\* of the set, also for those that could not be moved.
do_file(s, K, move, bad) ==
  LET b == conn[s].box
      dest == CHOOSE d \in Box : d # b
      ms == At(conn[s].mb, K)
      Filed == FoldLeft(LAMBDA x, m : imapd_mbox_file(x, b, m, dest, move, m \notin bad),
                        World(s), ms)
      kept(D) == {<<b, m>> : m \in {n \in Range(ms) : Has(D, dest, n)}}
  IN  /\ Writable(s) /\ ms # <<>> /\ Took(s, IF move THEN "move" ELSE "copy")
      /\ bad \subseteq Range(ms) /\ (bad # {} => Faults)
      /\ \E w \in {Filed} :
           /\ conn' = [conn EXCEPT ![s] = Viewing(s, w)]
           /\ Observed(s, w.disk,
                [side EXCEPT ![dest] = FoldLeft(mbox_register, [@ EXCEPT !.there = TRUE], w.filed)],
                kept(w.disk), w.renamed, {},
                s \in blurred \/ Returned(Viewing(s, w), w.disk) \/ (move /\ w.filed # ms))
           /\ wished' = (wished \ Left(w.disk)) \cup
                        {<<f.box, f.m>> : f \in {g \in w.disk \ disk : "T" \in g.fl}}
      /\ client' = [client EXCEPT ![s] = IF move THEN ExpungeResponses(@, K) ELSE @]
      /\ UNCHANGED arrived

-----------------------------------------------------------------------------
(* FETCH, which is streamed                                                 *)

do_fetch(s, K) ==
  /\ s \in Imap /\ conn[s].ist = "selected" /\ Took(s, "fetch")
  /\ K # {} /\ K \subseteq DOMAIN conn[s].mb
  /\ conn' = [conn EXCEPT ![s].fetch = SetToSortSeq(K, <)]
  /\ UNCHANGED <<disk, side, client, blurred, wished, wrong, lost, arrived>>

\* fetch_set_seen: the view says \Seen even if the rename then fails.
fetch_set_seen(w, b, i) ==
  IF "S" \in w.mb[i].vf THEN w
  ELSE imapd_mbox_store([w EXCEPT !.mb[i].vf = @ \cup {"S"}], b, w.mb[i].m,
                        w.mb[i].vf \cup {"S"})

\* imapd_fetch_pump, one message: a body that cannot be opened ends the
\* command; read-only sessions do not set \Seen.
fetch_pump(s) ==
  LET b == conn[s].box  i == Head(conn[s].fetch)
      there == PathOf(b, conn[s].mb[i]) \in disk
      Pumped == IF there /\ ~conn[s].examine THEN fetch_set_seen(World(s), b, i) ELSE World(s)
  IN  /\ s \in Imap /\ conn[s].fetch # <<>>
      /\ \E w \in {Pumped} :
           /\ conn' = [conn EXCEPT ![s] =
                [Viewing(s, w) EXCEPT !.fetch = IF there THEN Tail(@) ELSE <<>>]]
           /\ Quiet(s, w.disk, side, w.renamed)
      /\ UNCHANGED <<plan, client, wished, cmds, arrived>>

-----------------------------------------------------------------------------
(* Mail arriving, APPEND                                                    *)

NextMsg == arrived + 1

\* imapd_mbox_deliver by the ingest listener: into new/ of INBOX, no row yet.
deliver ==
  /\ NextMsg \in Msg /\ cmds < plan.max /\ cmds' = cmds + 1
  /\ disk' = disk \cup {File("INBOX", NextMsg, "new", {})}
  /\ arrived' = NextMsg
  /\ UNCHANGED <<plan, side, conn, client, blurred, wished, wrong, lost>>

\* do_append when the message cannot be written: a view of the target has been
\* closed, and the mailbox stays selected without one.
append_fails(s, b, mine) ==
  /\ conn' = IF mine THEN [conn EXCEPT ![s] =
                [close_selected(@) EXCEPT !.ist = "selected", !.examine = conn[s].examine]]
             ELSE conn
  /\ \E sb \in IF mine THEN imapd_mbox_close(side[b], conn[s]) ELSE {side[b]} :
       Quiet(s, disk, [side EXCEPT ![b] = sb], {})
  /\ UNCHANGED <<client, wished, arrived>>

\* do_append: with flags into cur/, without into new/, then registered, which
\* may fail and is then left to the next scan.  A view of the target is closed
\* first and rescanned after.
do_append(s, b, flags, result) ==
  LET m == NextMsg
      mine == conn[s].ist = "selected" /\ conn[s].open /\ conn[s].box = b
      D == disk \cup {File(b, m, IF flags = {} THEN "new" ELSE "cur", flags)}
      Row(sb) == IF result = "stored" THEN [sb EXCEPT !.there = TRUE]
                 ELSE mbox_register([sb EXCEPT !.there = TRUE], m)
  IN  /\ s \in Imap /\ Took(s, "append") /\ m \in Msg /\ (result # "done" => Faults)
      /\ IF result = "failed" THEN append_fails(s, b, mine)
         ELSE /\ arrived' = m
              /\ wished' = IF "T" \in flags THEN wished \cup {<<b, m>>} ELSE wished
              /\ IF ~mine
                 THEN Quiet(s, D, [side EXCEPT ![b] = Row(@)], {}) /\ UNCHANGED <<conn, client>>
                 ELSE \E sb \in imapd_mbox_close(side[b], conn[s]) :
                      \E v \in {imapd_mbox_open(D, b, Row(sb))} :
                        /\ conn' = [conn EXCEPT ![s] = Opened(@, v)]
                        /\ client' = [client EXCEPT ![s] =
                             IF Len(v.mb) # Len(conn[s].mb) THEN Exists(@, v.mb) ELSE @]
                        /\ Quiet(s, v.disk, [side EXCEPT ![b] = v.side], {})

\* do_delete of the one mailbox that is not INBOX: every file and the sidecar
\* go; when the mailbox is made again its UIDs are of another generation.
do_delete(s) ==
  LET D == {f \in disk : f.box = "INBOX"}
  IN  /\ s \in Imap /\ side["Archive"].there /\ Took(s, "delete")
      /\ Observed(s, D, [side EXCEPT !["Archive"] =
                           [rows |-> <<>>, next |-> 1, gen |-> @.gen + 1, there |-> FALSE]],
                  {<<"Archive", m>> : m \in Msg}, {}, {},
                  s \in blurred \/ (conn[s].open /\ conn[s].box = "Archive"))
      /\ wished' = wished \ Left(D)
      /\ UNCHANGED <<conn, client, arrived>>

\* do_status scans without moving anything; STATUS of a mailbox registers what
\* it finds, and makes the mailbox.
do_status(s, b) ==
  /\ s \in Imap /\ Took(s, "status")
  /\ \E v \in {imapd_mbox_peek(disk, b, side[b])} :
       v.side # side[b] /\ Quiet(s, disk, [side EXCEPT ![b] = v.side], {})
  /\ UNCHANGED <<conn, client, wished, arrived>>

\* UNSELECT, LOGOUT and a lost connection: nothing is expunged, and the view
\* is closed.
leave(s) ==
  /\ conn[s].open /\ "leave" \in plan.asks /\ cmds < plan.max
  /\ cmds' = cmds + 1 /\ UNCHANGED plan
  /\ Closes(s, World(s), NewConn(conn[s].kind), {})

-----------------------------------------------------------------------------
(* POP3                                                                     *)

\* cmd_pass: the session takes a snapshot of INBOX, leaving new/ alone.
cmd_pass(s) ==
  /\ s \in Pop /\ ~conn[s].open /\ Took(s, "pop3")
  /\ \E v \in {imapd_mbox_peek(disk, "INBOX", side["INBOX"])} :
       /\ conn' = [conn EXCEPT ![s] = Opened([@ EXCEPT !.ist = "selected"], v)]
       /\ client' = [client EXCEPT ![s] = Ms(v.mb)]
       /\ Observed(s, disk, [side EXCEPT !["INBOX"] = v.side], {}, {}, {}, FALSE)
  /\ UNCHANGED <<wished, arrived>>

\* msg_index
Live(s) == DOMAIN conn[s].mb \ conn[s].del

\* cmd_retr: downloading sets \Seen as FETCH does.
cmd_retr(s, i) ==
  LET there == PathOf("INBOX", conn[s].mb[i]) \in disk
      Read == IF there THEN fetch_set_seen(World(s), "INBOX", i) ELSE World(s)
  IN  /\ s \in Pop /\ conn[s].open /\ i \in Live(s) /\ Took(s, "pop3")
      /\ \E w \in {Read} :
           /\ conn' = [conn EXCEPT ![s] = Viewing(s, w)]
           /\ Quiet(s, w.disk, side, w.renamed)
      /\ UNCHANGED <<client, wished, arrived>>

cmd_dele(s, i) ==
  /\ s \in Pop /\ conn[s].open /\ i \in Live(s) /\ Took(s, "pop3")
  /\ conn' = [conn EXCEPT ![s].del = @ \cup {i}]
  /\ UNCHANGED <<disk, side, client, blurred, wished, wrong, lost, arrived>>

\* RSET, reset_deleted
reset_deleted(s) ==
  /\ s \in Pop /\ conn[s].del # {} /\ Took(s, "pop3")
  /\ conn' = [conn EXCEPT ![s].del = {}]
  /\ UNCHANGED <<disk, side, client, blurred, wished, wrong, lost, arrived>>

\* pop3_quit: the marked messages are expunged, from the last to the first.
pop3_quit(s) ==
  /\ s \in Pop /\ conn[s].open /\ Took(s, "pop3")
  /\ \E w \in {ExpungeAll(World(s), "INBOX", conn[s].del)} :
       Closes(s, w, NewConn("pop3"), {<<"INBOX", client[s][i]>> : i \in conn[s].del})

-----------------------------------------------------------------------------
InitialMsgs == 1..Initial

\* The sessions are logged in and have looked at INBOX, whose files are in
\* cur/ since the first of them selected it.
Init ==
  LET D == {File("INBOX", m, "cur", {}) : m \in InitialMsgs}
      none == [rows |-> <<>>, next |-> 1, gen |-> 0, there |-> TRUE]
      v == imapd_mbox_peek(D, "INBOX", none)
  IN  /\ disk = D
      /\ side = [b \in Box |-> IF b = "INBOX" THEN v.side ELSE none]
      /\ plan \in Scenarios
      /\ conn = [s \in plan.imap \cup plan.pop |->
                  Opened([NewConn(IF s \in plan.imap THEN "imap" ELSE "pop3") EXCEPT
                           !.ist = "selected"], v)]
      /\ client = [s \in DOMAIN conn |-> Ms(v.mb)]
      /\ blurred = {} /\ wished = {} /\ wrong = {} /\ lost = {}
      /\ cmds = 0 /\ arrived = Initial

\* The sequence sets of the commands: one message, or all of them.
Positions(s) == ({{i} : i \in DOMAIN conn[s].mb} \cup {DOMAIN conn[s].mb}) \ {{}}

\* What STORE is asked to do; \Seen is set by FETCH too.
Changes == {<<"+", {"T"}>>, <<"-", {"T"}>>, <<"=", {"S"}>>}

Next ==
  \/ deliver
  \/ \E s \in DOMAIN conn :
       \/ \E b \in Box, x \in BOOLEAN : (x => b = "INBOX") /\ do_select(s, b, x)
       \/ \E b \in Box : select_fails(s, b)
       \/ do_noop(s) \/ do_idle(s) \/ idle_refresh(s) \/ done(s)
       \/ \E K \in Positions(s), x \in Changes : do_store(s, K, x[1], x[2])
       \/ \E set \in Positions(s) : do_expunge(s, set)
       \/ do_close(s) \/ leave(s)
       \/ \E K \in Positions(s), mv \in BOOLEAN, bad \in {{}} \cup {{m} : m \in Msg} :
            do_file(s, K, mv, bad)
       \/ \E K \in Positions(s) : do_fetch(s, K)
       \/ fetch_pump(s)
       \/ \E b \in Box, fl \in {{}, {"T"}}, result \in {"done", "stored", "failed"} :
            do_append(s, b, fl, result)
       \/ do_delete(s)
       \/ \E b \in Box : do_status(s, b)
       \/ cmd_pass(s) \/ reset_deleted(s) \/ pop3_quit(s)
       \/ \E i \in DOMAIN conn[s].mb : cmd_retr(s, i) \/ cmd_dele(s, i)

Spec == Init /\ [][Next]_vars

-----------------------------------------------------------------------------
(* Properties                                                               *)

\* The views and the files are of their types.
TypeOK ==
  /\ disk \subseteq [box : Box, m : Msg, sub : {"new", "cur"}, fl : SUBSET Flag]
  /\ \A s \in DOMAIN conn : \A i \in DOMAIN conn[s].mb :
       conn[s].mb[i].m \in Msg /\ conn[s].mb[i].vf \subseteq Flag
  /\ \A s \in DOMAIN conn : conn[s].del \subseteq DOMAIN conn[s].mb

\* Message numbers mean the same to the client and to imapd, whatever EXISTS
\* and EXPUNGE responses, refreshes and rescans came between.  Left out are the
\* sessions for which the code does not keep this: those from whose mailbox
\* another session took a message, or had its UID changed, or copied a second
\* file of one into it (refresh_selected announces counts and never an
\* EXPUNGE); those of whose MOVE a message stayed behind (imapd_imap.c:1918
\* answers EXPUNGE for it); and those whose view has given up a message that is
\* in the mailbox all the same, because another session had renamed it before
\* imapd_mbox_expunge's unlink or has moved it back.  Such a message returns at
\* its old UID with the next refresh, as the new view is made before the old
\* one is closed (imapd_imap.c:1098-1106), and the row that the new view has is
\* then dropped, also after a SELECT (1480-1492).  After an APPEND that fails
\* the session is selected and has no view, so none of its numbers means
\* anything until the next SELECT (1789-1796).
NumbersAgree ==
  TypeOK /\ \A s \in DOMAIN conn : conn[s].open /\ s \notin blurred => client[s] = Ms(conn[s].mb)

\* A message leaves a mailbox only because a client asked for it: it carries
\* a \Deleted flag that some client set and none has cleared since, or that
\* POP3 client marked it and did not RSET, or it went with its mailbox, or it
\* is in the mailbox that it was moved to.
LeavesOnRequest == wrong = {}

\* Nobody's STORE, FETCH, RETR or MOVE drops a flag that another session has
\* put on the file in the meantime, except one that the command names: a file
\* is renamed, in its mailbox or into another, only from the name that the view
\* remembers, and the new name has its flags.
NoFlagLost == lost = {}
=============================================================================
