------------------------------ MODULE JmapMail ------------------------------
(* The mail methods of jmapd over the maildir tree it shares with imapd:    *)
(* Email/query with its bounded heap, Email/get, Email/set, Thread/get and  *)
(* the request loop that runs them.                                         *)
(*                                                                          *)
(* An account is a record: the files, the mailboxes that exist and those    *)
(* that cannot be read.  A file has its mailbox, base name, flags, date,    *)
(* the words of its headers and text, its size and its thread root.         *)
(* Mailboxes and base names are numbers in the order of strcmp; "Archive"   *)
(* comes before "Inbox".  Zero is no mailbox.                               *)
EXTENDS Integers, Sequences, SequencesExt, FiniteSets, FiniteSetsExt

CONSTANTS
  MaxObjects,    \* JMAPD_MAX_OBJECTS
  MaxWindow,     \* JMAPD_QUERY_MAX_WINDOW
  DefaultLimit,  \* JMAPD_QUERY_DEFAULT_LIMIT
  TextScanMax,   \* --text-scan-max
  MaxMsg,        \* the largest message that is read
  BodyBudget,    \* --get-body-budget
  MaxSet,        \* JMAPD_MAX_SET
  MaxCalls,      \* JMAPD_MAX_CALLS
  IdxCap         \* the first size of the thread index

Inbox == 2

\* mbox_names: Inbox first, then the others as the directory lists them.
mbox_names(a) == <<Inbox>> \o SetToSortSeq(a.boxes \ {Inbox}, <)

\* imapd_mbox_peek: the messages of one mailbox.
imapd_mbox_peek(a, name) ==
  SetToSortSeq({f \in a.tree : f.mbox = name}, LAMBDA f, g : f.base < g.base)

----------------------------------------------------------------------------
(* Ids. *)

\* jmapd_id_email: an "e" id has the base name only, an "f" id both names.
jmapd_id_email(base, mbox) == IF mbox = 0 THEN <<"e", base>> ELSE <<"f", base, mbox>>

\* jmapd_id_email_parse: anything else is no Email id and matches nothing.
jmapd_id_email_parse(id) ==
  CASE id[1] = "e" -> [base |-> id[2], mbox |-> 0]
    [] id[1] = "f" -> [base |-> id[2], mbox |-> id[3]]
    [] OTHER -> [base |-> 0, mbox |-> 0]

Want(id) == LET p == jmapd_id_email_parse(id)
            IN  [base |-> p.base, mbox |-> p.mbox, id |-> id, found |-> FALSE, at |-> {}]

\* locate_in_mbox: every wanted base name that is not found yet, whatever
\* mailbox its id named; the id becomes the "e" form.
locate_in_mbox(mb, name, want) ==
  FoldLeft(LAMBDA w, m :
    [k \in DOMAIN w |->
       IF w[k].found \/ w[k].base # m.base THEN w[k]
       ELSE [w[k] EXCEPT !.found = TRUE, !.mbox = name, !.at = {m},
                         !.id = jmapd_id_email(m.base, 0)]], want, mb)

\* jmapd_email_locate: one pass over the mailboxes somebody still needs.
jmapd_email_locate(a, want) ==
  LET Needed(w, name) == \E k \in DOMAIN w : ~w[k].found /\ w[k].mbox \in {0, name}
      Step(w, name) == IF ~Needed(w, name) \/ name \in a.shut THEN w
                       ELSE locate_in_mbox(imapd_mbox_peek(a, name), name, w)
  IN  FoldLeft(Step, want, mbox_names(a))

----------------------------------------------------------------------------
(* Email/query. *)

At(v, i) == v[i + 1]
Swap(v, i, j) == [v EXCEPT ![i + 1] = v[j + 1], ![j + 1] = v[i + 1]]

Before(a, b) ==
  \/ a.date < b.date
  \/ a.date = b.date /\ a.mbox < b.mbox
  \/ a.date = b.date /\ a.mbox = b.mbox /\ a.base < b.base

\* entry_cmp > 0: a sorts after b.
Worse(a, b, desc) == IF desc THEN Before(a, b) ELSE Before(b, a)

RECURSIVE BugLeftOnly(_, _, _, _)
BugLeftOnly(v, n, i, desc) ==
  LET l == 2 * i + 1
  IN  IF l < n /\ Worse(At(v, l), At(v, i), desc)
        THEN BugLeftOnly(Swap(v, i, l), n, l, desc) ELSE v

RECURSIVE heap_sift_down(_, _, _, _)
heap_sift_down(v, n, i, desc) ==
  LET l == 2 * i + 1
      r == l + 1
      b1 == IF l < n /\ Worse(At(v, l), At(v, i), desc) THEN l ELSE i
      big == IF r < n /\ Worse(At(v, r), At(v, b1), desc) THEN r ELSE b1
  IN  IF big = i THEN v ELSE heap_sift_down(Swap(v, i, big), n, big, desc)

RECURSIVE heap_sift_up(_, _, _)
heap_sift_up(v, i, desc) ==
  LET p == (i - 1) \div 2
  IN  IF i = 0 \/ ~Worse(At(v, i), At(v, p), desc) THEN v
      ELSE heap_sift_up(Swap(v, i, p), p, desc)

\* heap_offer: the root is the worst entry kept.
heap_offer(v, cap, e, desc) ==
  IF Len(v) < cap THEN heap_sift_up(Append(v, e), Len(v), desc)
  ELSE IF cap > 0 /\ Worse(At(v, 0), e, desc)
         THEN heap_sift_down([v EXCEPT ![1] = e], Len(v), 0, desc) ELSE v

\* heap_drain: heapsort with the same comparison.
RECURSIVE heap_drain(_, _, _)
heap_drain(v, end, desc) ==
  IF end <= 1 THEN v
  ELSE heap_drain(heap_sift_down(Swap(v, 0, end - 1), end - 1, 0, desc), end - 1, desc)

Keyword == {"$seen", "$flagged", "$answered", "$draft", "$deleted"}
Header == {"from", "to", "subject"}
FilterKey == {"inMailbox", "text", "keyword", "notKeyword"} \cup Header

\* jmapd_query_filter_parse: a condition is a name, a value and whether the
\* value has the right type; of two with one name the later counts.
FilterOk(f) == \A i \in DOMAIN f :
  /\ f[i].key \in FilterKey /\ f[i].typed
  /\ f[i].key \in {"keyword", "notKeyword"} => f[i].val \in Keyword
jmapd_query_filter_parse(f) ==
  [k \in {f[i].key : i \in DOMAIN f} |-> f[Max({i \in DOMAIN f : f[i].key = k})].val]

\* msg_text_match: the message is read whole or not at all.
Cost(m) == Min({m.size, MaxMsg})
msg_text_match(m, word, budget) ==
  CASE Cost(m) > budget -> "serverLimit"
    [] Cost(m) <= budget /\ ~m.readable -> "serverFail"
    [] OTHER -> IF word \in m.text THEN "hit" ELSE "miss"

\* One message of the scan: flags first, then headers, then the text.
Consider(q, window, desc, s, m) ==
  LET keyed == /\ "keyword" \in DOMAIN q => q["keyword"] \in m.flags
               /\ "notKeyword" \in DOMAIN q => q["notKeyword"] \notin m.flags
      asked == Header \cap DOMAIN q
      hit == IF "text" \in DOMAIN q THEN msg_text_match(m, q["text"], s.budget) ELSE "hit"
      paid == IF "text" \in DOMAIN q THEN [s EXCEPT !.budget = @ - Cost(m)] ELSE s
  IN  IF s.stop # "no" \/ ~keyed THEN s
      ELSE IF asked # {} /\ ~m.readable THEN [s EXCEPT !.unreadable = @ + 1]
      ELSE IF \E k \in asked : q[k] \notin m.hdr[k] THEN s
      ELSE IF hit \in {"serverLimit", "serverFail"} THEN [s EXCEPT !.stop = hit]
      ELSE IF hit = "miss" THEN paid
      ELSE [paid EXCEPT !.total = @ + 1, !.heap = heap_offer(@, window, m, desc)]

\* The mailboxes of the scan; one that cannot be opened ends it.
Scan(a, q, window, desc) ==
  LET Box(s, name) ==
        IF s.stop # "no" \/ ("inMailbox" \in DOMAIN q /\ q["inMailbox"] # name) THEN s
        ELSE IF name \in a.shut THEN [s EXCEPT !.stop = "serverFail"]
        ELSE FoldLeft(LAMBDA t, m : Consider(q, window, desc, t, m), s, imapd_mbox_peek(a, name))
  IN  FoldLeft(Box, [stop |-> "no", total |-> 0, heap |-> <<>>, budget |-> TextScanMax,
                     unreadable |-> 0], mbox_names(a))

\* The id of entry i of the page: "f" when an earlier entry has its base name.
EntryId(heap, i) ==
  LET dup == \E j \in 1 .. i - 1 : heap[j].base = heap[i].base /\ heap[j].mbox # heap[i].mbox
  IN  jmapd_id_email(heap[i].base, IF dup THEN heap[i].mbox ELSE 0)

Refused(type) == [error |-> type]

\* Position and limit as they are used: -1 stands for an absent limit, every
\* other negative number for a value that is no unsigned integer.
Position(p) == Max({p, 0})
Limit(l) == Min({MaxObjects, IF l = -1 THEN DefaultLimit ELSE Max({l, 0})})

jmapd_method_email_query(a, args) ==
  LET pos == Position(args.position)
      lim == Limit(args.limit)
      desc == args.sort = <<>> \/ ~args.sort[Len(args.sort)].asc
      Listed(s, v) ==
        [error |-> "no", position |-> pos, total |-> s.total,
         ids |-> [i \in 1 .. Max({0, Len(v) - pos}) |-> EntryId(v, pos + i)]]
      Scanned(s) == IF s.stop # "no" THEN Refused(s.stop)
                    ELSE IF s.unreadable > 0 THEN Refused("serverFail")
                    ELSE Listed(s, heap_drain(s.heap, Len(s.heap), desc))
  IN  IF ~FilterOk(args.filter) THEN Refused("unsupportedFilter")
      ELSE IF \E i \in DOMAIN args.sort : args.sort[i].prop # "receivedAt"
             THEN Refused("unsupportedSort")
      ELSE IF pos + lim > MaxWindow THEN Refused("serverLimit")
      ELSE Scanned(Scan(a, jmapd_query_filter_parse(args.filter), pos + lim, desc))

\* What the page should be: the matches in order, cut out at the position.
Matches(a, q) ==
  {m \in a.tree :
     /\ "inMailbox" \in DOMAIN q => q["inMailbox"] = m.mbox
     /\ "keyword" \in DOMAIN q => q["keyword"] \in m.flags
     /\ "notKeyword" \in DOMAIN q => q["notKeyword"] \notin m.flags
     /\ \A k \in Header \cap DOMAIN q : q[k] \in m.hdr[k]
     /\ "text" \in DOMAIN q => q["text"] \in m.text}
Page(a, args) ==
  LET desc == args.sort = <<>> \/ ~args.sort[Len(args.sort)].asc
      all == SetToSortSeq(Matches(a, jmapd_query_filter_parse(args.filter)),
                          LAMBDA x, y : Worse(y, x, desc))
  IN  SubSeq(all, Position(args.position) + 1,
             Min({Len(all), Position(args.position) + Limit(args.limit)}))

----------------------------------------------------------------------------
(* Email/get. *)

\* What each message may show of its body: the rest of the budget, never 0.
Shown(lim, m) == Min({m.size, Max({1, lim})})

\* The budget pays for the object as rendered: the part of the body that is
\* shown, and one for all its other properties.
BodyOf(client_max, s, w) ==
  LET m == CHOOSE f \in w.at : TRUE
      n == Shown(Min({s.budget, client_max}), m)
  IN  IF ~w.found THEN s
      ELSE [budget |-> Max({0, s.budget - (n + 1)}),
            list |-> Append(s.list, [id |-> w.id, of |-> m, shown |-> n, cut |-> n < m.size])]

jmapd_method_email_get(a, ids, client_max) ==
  LET Missing(want) == SelectSeq(ids, LAMBDA id : \E k \in DOMAIN ids : ids[k] = id /\ ~want[k].found)
      Bodies(found) == FoldLeft(LAMBDA s, w : BodyOf(client_max, s, w),
                                [budget |-> BodyBudget, list |-> <<>>], found).list
      Got(want, found) ==
        IF \E k \in DOMAIN found : \E m \in found[k].at : ~m.readable THEN Refused("serverFail")
        ELSE [error |-> "no", list |-> Bodies(found), notFound |-> Missing(want)]
      Located(want) == Got(want, SelectSeq(want, LAMBDA w : w.found))
  IN  IF Len(ids) > MaxObjects THEN Refused("tooManyObjects")
      ELSE Located(jmapd_email_locate(a, [k \in DOMAIN ids |-> Want(ids[k])]))

----------------------------------------------------------------------------
(* Thread/get: groups found through an open-addressed index.  A thread id    *)
(* is its root, a number, and hashes to itself.                             *)

RECURSIVE Probe(_, _, _, _)
Probe(idx, g, id, slot) ==
  IF idx[slot] = 0 \/ g[idx[slot]].id = id THEN slot
  ELSE Probe(idx, g, id, (slot + 1) % Cardinality(DOMAIN idx))

\* thr_reindex: twice the size, every group placed again.
thr_reindex(s) ==
  LET nc == IF DOMAIN s.idx = {} THEN IdxCap ELSE 2 * Cardinality(DOMAIN s.idx)
  IN  [s EXCEPT !.idx = FoldLeft(LAMBDA idx, i :
                          [idx EXCEPT ![Probe(idx, s.g, s.g[i].id, s.g[i].id % nc)] = i],
                                 [n \in 0 .. nc - 1 |-> 0], [i \in DOMAIN s.g |-> i])]

\* thr_find: the set, grown if need be, and the group of the id, 0 if none.
thr_find(s, id, create) ==
  LET Found(t, slot) ==
        IF t.idx[slot] # 0 THEN [set |-> t, at |-> t.idx[slot]]
        ELSE IF ~create THEN [set |-> t, at |-> 0]
        ELSE [set |-> [g |-> Append(t.g, [id |-> id, eids |-> <<>>]),
                       idx |-> [t.idx EXCEPT ![slot] = Len(t.g) + 1]],
              at |-> Len(t.g) + 1]
      In(t) == Found(t, Probe(t.idx, t.g, id, id % Cardinality(DOMAIN t.idx)))
  IN  In(IF 2 * Len(s.g) >= Cardinality(DOMAIN s.idx) THEN thr_reindex(s) ELSE s)

\* thr_add after thr_find.
thr_add(s, m) ==
  LET Add(r) == [r.set EXCEPT !.g[r.at].eids = Append(@, jmapd_id_email(m.base, 0))]
  IN  Add(thr_find(s, m.root, TRUE))

jmapd_method_thread_get(a, ids) ==
  LET Box(s, name) == IF name \in a.shut THEN s
                      ELSE FoldLeft(thr_add, s, imapd_mbox_peek(a, name))
      Listed(set, at) ==
        LET known == SelectSeq(ids, LAMBDA id : at[id] # 0)
        IN  [error |-> "no", list |-> [i \in DOMAIN known |-> set.g[at[known[i]]]],
             notFound |-> SelectSeq(ids, LAMBDA id : at[id] = 0)]
      Found(set) == Listed(set, [id \in ToSet(ids) |-> thr_find(set, id, FALSE).at])
  IN  IF Len(ids) > MaxObjects THEN Refused("tooManyObjects")
      ELSE Found(FoldLeft(Box, [g |-> <<>>, idx |-> <<>>], mbox_names(a)))

----------------------------------------------------------------------------
(* Email/set: the patch. *)

IsBool(v) == v[1] \in {"true", "false"}
On(v) == v[1] = "true"

Fail(p, e) == [p EXCEPT !.err = e]

\* "keywords": the members of the object that are true are the new set.
KeywordsObject(p, members) ==
  LET Step(q, e) == CASE q.err # "ok" -> q
                      [] q.err = "ok" /\ e[1] \notin Keyword -> Fail(q, "keyword")
                      [] q.err = "ok" /\ e[1] \in Keyword /\ ~IsBool(e[2]) -> Fail(q, "type")
                      [] OTHER -> IF On(e[2]) THEN [q EXCEPT !.flags = @ \cup {e[1]}] ELSE q
  IN  FoldLeft(Step, [p EXCEPT !.flags = {}], members)

\* "keywords/<kw>".
KeywordsMember(p, kw, v) ==
  IF kw \notin Keyword THEN Fail(p, "keyword")
  ELSE IF v[1] # "null" /\ ~IsBool(v) THEN Fail(p, "type")
  ELSE [p EXCEPT !.flags = IF On(v) THEN @ \cup {kw} ELSE @ \ {kw}]

\* "mailboxIds": exactly one member that is true.
MailboxObject(p, members) ==
  LET Step(q, e) == CASE q.err # "ok" -> q
                      [] q.err = "ok" /\ ~IsBool(e[2]) -> Fail(q, "type")
                      [] q.err = "ok" /\ On(e[2]) /\ e[1] = 0 -> Fail(q, "path")
                      [] q.err = "ok" /\ On(e[2]) /\ e[1] # 0 /\ q.n > 0 -> Fail(q, "multi")
                      [] OTHER -> IF On(e[2]) THEN [q EXCEPT !.mbox = e[1], !.n = 1] ELSE q
      r == FoldLeft(Step, [p EXCEPT !.n = 0], members)
  IN  IF r.err = "ok" /\ r.n = 0 THEN Fail(r, "empty") ELSE r

BugMayLeave(p, m, v) ==
  IF m = 0 THEN Fail(p, "path")
  ELSE IF v[1] # "null" /\ ~IsBool(v) THEN Fail(p, "type")
  ELSE IF On(v) THEN IF p.mbox # m THEN Fail(p, "multi") ELSE p
  ELSE p

\* "mailboxIds/<id>": neither a second mailbox nor none.
MailboxMember(p, m, v) ==
  IF m = 0 THEN Fail(p, "path")
  ELSE IF v[1] # "null" /\ ~IsBool(v) THEN Fail(p, "type")
  ELSE IF On(v) THEN IF p.mbox # m THEN Fail(p, "multi") ELSE p
  ELSE IF p.mbox = m THEN Fail(p, "empty") ELSE p

\* jmapd_patch_apply: a patch is a sequence of paths and values, applied in
\* order up to the first error.
jmapd_patch_apply(patch, mbox, flags) ==
  LET Step(p, e) ==
        LET obj == e.val[1] = "obj"
        IN  CASE p.err # "ok" -> p
              [] p.err = "ok" /\ e.path[1] = "keywords" ->
                   IF Len(e.path) = 2 THEN KeywordsMember(p, e.path[2], e.val)
                   ELSE IF obj THEN KeywordsObject(p, e.val[2]) ELSE Fail(p, "type")
              [] p.err = "ok" /\ e.path[1] = "mailboxIds" ->
                   IF Len(e.path) = 2 THEN MailboxMember(p, e.path[2], e.val)
                   ELSE IF obj THEN MailboxObject(p, e.val[2]) ELSE Fail(p, "type")
              [] OTHER -> Fail(p, "path")
  IN  FoldLeft(Step, [err |-> "ok", flags |-> flags, mbox |-> mbox, n |-> 0], patch)

\* What a patch means: the keywords and the mailboxes as plain sets.
Patched(patch, mbox, flags) ==
  LET Put(S, x, v) == IF On(v) THEN S \cup {x} ELSE S \ {x}
      Whole(v) == {v[2][i][1] : i \in {j \in DOMAIN v[2] : On(v[2][j][2])}}
      New(S, e) == IF Len(e.path) = 2 THEN Put(S, e.path[2], e.val) ELSE Whole(e.val)
      Step(p, e) == IF e.path[1] = "keywords" THEN [p EXCEPT !.flags = New(@, e)]
                    ELSE [p EXCEPT !.boxes = New(@, e)]
  IN  FoldLeft(Step, [flags |-> flags, boxes |-> {mbox}], patch)

----------------------------------------------------------------------------
(* Email/set: the writes.  s is the account, the mailbox view that is kept   *)
(* open from one object to the next, and what was answered and changed.     *)

\* setmbox_open: a view that is open on the mailbox is used again as it is.
setmbox_open(s, name) ==
  IF s.view.name = name THEN s
  ELSE [s EXCEPT !.view = [name |-> name, msgs |-> Range(imapd_mbox_peek(s.a, name))]]

\* A rename onto a name that is taken replaces the file there.
Renamed(tree, f, g) ==
  {h \in tree \ {f} : ~(h.mbox = g.mbox /\ h.base = g.base /\ h.flags = g.flags)} \cup {g}

Verdict(s, kind, id, why) == [s EXCEPT !.out = Append(@, [kind |-> kind, id |-> id, why |-> why])]
Written(s, tree, msgs) == [s EXCEPT !.a.tree = tree, !.view.msgs = msgs]
Counted(s) == [s EXCEPT !.changed = @ + 1]

\* imapd_mbox_store: fails when the file is not where the view has it.
StoreFails(s, f, fault) == f \notin s.a.tree \/ fault = "store"
imapd_mbox_store(s, f, g) == Written(s, Renamed(s.a.tree, f, g), (s.view.msgs \ {f}) \cup {g})

\* imapd_mbox_file: the rename may fail, and so may the registration of the
\* file in its new mailbox, after the rename.
FileFails(s, f, fault) == f \notin s.a.tree \/ fault = "move"
imapd_mbox_file(s, f, g, fault) ==
  Written(s, Renamed(s.a.tree, f, g), IF fault = "register" THEN s.view.msgs ELSE s.view.msgs \ {f})

\* update_write, the writes: the flags, then the move; a patch applied by half
\* is counted as a change.
WritePatch(s, loc, np, f, fault) ==
  LET g == [f EXCEPT !.flags = np.flags]
      t == IF np.flags # f.flags THEN imapd_mbox_store(s, f, g) ELSE s
      h == [g EXCEPT !.mbox = np.mbox]
      wrote == np.flags # f.flags
  IN  IF wrote /\ StoreFails(s, f, fault) THEN [s |-> s, err |-> "serverFail"]
      ELSE IF np.mbox = loc.mbox
             THEN [s |-> IF wrote THEN Counted(t) ELSE t, err |-> "ok"]
      ELSE IF FileFails(t, g, fault)
             THEN [s |-> IF wrote THEN Counted(t) ELSE t, err |-> "serverFail"]
      ELSE LET u == imapd_mbox_file(t, g, h, fault)
           IN  IF fault # "register" THEN [s |-> Counted(u), err |-> "ok"]
               ELSE [s |-> IF wrote THEN Counted(u) ELSE u, err |-> "serverFail"]

PatchError(e) == CASE e = "multi" -> "tooManyMailboxes" [] e = "type" -> "invalidPatch"
                   [] OTHER -> "invalidProperties"

\* update_write: the patch is applied to the flags and the mailbox the Email
\* was located with, and written through the view.
update_write(s, loc, patch, fault) ==
  LET Through(t, np, seen) ==
        IF seen = {} THEN [s |-> t, err |-> "notFound"]
        ELSE WritePatch(t, loc, np, CHOOSE f \in seen : TRUE, fault)
      Opened(t, np) == Through(t, np, {f \in t.view.msgs : f.base = loc.base})
      Patch(np) == IF np.err # "ok" THEN [s |-> s, err |-> PatchError(np.err)]
                   ELSE IF np.mbox \notin s.a.boxes THEN [s |-> s, err |-> "invalidProperties"]
                   ELSE IF loc.mbox \in s.a.shut THEN [s |-> s, err |-> "serverFail"]
                   ELSE Opened(setmbox_open(s, loc.mbox), np)
  IN  Patch(jmapd_patch_apply(patch, loc.mbox, (CHOOSE f \in loc.at : TRUE).flags))

\* set_update_one: the id answered is the one jmapd_email_locate left.
set_update_one(s, w, patch, fault) ==
  LET Said(r) == Verdict(r.s, IF r.err = "ok" THEN "updated" ELSE "notUpdated", w.id, r.err)
  IN  IF ~w.found THEN Verdict(s, "notUpdated", w.id, "notFound")
      ELSE Said(update_write(s, w, patch, fault))

\* set_destroy_one: imapd_mbox_expunge does not look whether the unlink found
\* its file.
set_destroy_one(s, w) ==
  LET t == setmbox_open(s, w.mbox)
      seen == {f \in t.view.msgs : f.base = w.base}
      f == CHOOSE x \in seen : TRUE
  IN  IF ~w.found THEN Verdict(s, "notDestroyed", w.id, "notFound")
      ELSE IF w.mbox \in s.a.shut THEN Verdict(s, "notDestroyed", w.id, "serverFail")
      ELSE IF seen = {} THEN Verdict(t, "notDestroyed", w.id, "notFound")
      ELSE Counted(Verdict(Written(t, t.a.tree \ {f}, t.view.msgs \ {f}),
                           "destroyed", w.id, "ok"))

\* create_mailbox: exactly one mailbox, and it must exist.
create_mailbox(a, members) ==
  LET Step(q, e) ==
        CASE q.err # "ok" -> q
          [] q.err = "ok" /\ ~IsBool(e[2]) -> Fail(q, "invalidProperties")
          [] q.err = "ok" /\ On(e[2]) /\ e[1] \notin a.boxes -> Fail(q, "invalidProperties")
          [] q.err = "ok" /\ On(e[2]) /\ e[1] \in a.boxes /\ q.mbox # 0 ->
               Fail(q, "tooManyMailboxes")
          [] OTHER -> IF On(e[2]) THEN [q EXCEPT !.mbox = e[1]] ELSE q
      r == FoldLeft(Step, [err |-> "ok", mbox |-> 0], members)
  IN  IF r.err = "ok" /\ r.mbox = 0 THEN Fail(r, "invalidProperties") ELSE r

\* create_flags: like the object of a patch.
create_flags(members) == KeywordsObject([err |-> "ok", flags |-> {}], members)

\* create_one: e.object says whether the argument is an object, e.msg whether
\* the message can be built, e.came what becomes of it: "failed" when no file is
\* written, "unseen" when create_locate does not find the new one.  The new file
\* has a base name of its own.
create_one(s, cid, e) ==
  LET base == 1 + Max({f.base : f \in s.a.tree} \cup {0})
      File(box, flags) ==
        [mbox |-> box, base |-> base, date |-> 9, size |-> 1, root |-> base, flags |-> flags,
         hdr |-> [k \in Header |-> {}], text |-> {}, readable |-> TRUE]
      Refuse(t, err) == Verdict(t, "notCreated", <<"c", cid>>, err)
      Err(box, kws) == IF box.err # "ok" THEN box.err
                       ELSE IF kws.err # "ok" THEN "invalidProperties" ELSE e.msg
      create_locate(t) ==
        IF e.came = "unseen" THEN Refuse(t, "serverFail")
        ELSE Counted(Verdict(t, "created", jmapd_id_email(base, 0), "ok"))
      Made(box, kws, err) ==
        IF err # "ok" THEN Refuse(s, err)
        ELSE IF e.came = "failed" THEN Refuse(s, "serverFail")
        ELSE create_locate([s EXCEPT !.a.tree = @ \cup {File(box.mbox, kws.flags)}])
      Parsed(box, kws) == Made(box, kws, Err(box, kws))
  IN  IF ~e.object THEN Refuse(s, "invalidProperties")
      ELSE Parsed(create_mailbox(s.a, e.mboxes), create_flags(e.kws))

\* jmapd_account_prepare: the role mailboxes exist afterwards.
jmapd_account_prepare(a) == [a EXCEPT !.boxes = @ \cup {1, Inbox, 3}]

\* What imapd may do to a file of the tree between two steps of the call.
Meanwhile(a, x) ==
  LET hit == {f \in a.tree : f.mbox = x.mbox /\ f.base = x.base}
      new == CASE x.kind = "flag" -> {[f EXCEPT !.flags = @ \cup {"$flagged"}] : f \in hit}
               [] x.kind = "move" -> {[f EXCEPT !.mbox = 3] : f \in hit}
               [] OTHER -> {}
  IN  IF x.kind = "none" THEN a ELSE [a EXCEPT !.tree = (@ \ hit) \cup new]

\* jmapd_method_email_set.  upd is a sequence of ids and patches, busy what
\* imapd does before each object, fault what fails at each update; steps is
\* the tree around each object.
jmapd_method_email_set(a0, call, busy, fault) ==
  LET a == jmapd_account_prepare(a0)
      n == Len(call.create) + Len(call.update) + Len(call.destroy)
      Busy(s, k) == [s EXCEPT !.a = Meanwhile(@, busy[k])]
      Step(s, t) == [t EXCEPT !.steps = Append(@, <<s.a.tree, t.a.tree>>)]
      Create(s, k) == Step(s, create_one(s, k, call.create[k]))
      s0 == [a |-> a, view |-> [name |-> 0, msgs |-> {}], changed |-> 0, out |-> <<>>,
             steps |-> <<>>, error |-> "no"]
      Update(t, w, k) == Step(t, set_update_one(t, w, call.update[k].patch, fault[k]))
      Destroy(t, w) == Step(t, set_destroy_one(t, w))
      Updates(s, want) == FoldLeft(LAMBDA t, k : Update(Busy(t, k), want[k], k),
                                   s, [k \in DOMAIN want |-> k])
      Destroys(s, want) == FoldLeft(LAMBDA t, k : Destroy(Busy(t, Len(call.update) + k), want[k]),
                                    s, [k \in DOMAIN want |-> k])
      Updated(s) ==
        Updates(s, jmapd_email_locate(s.a, [k \in DOMAIN call.update |-> Want(call.update[k].id)]))
      Destroyed(s) ==
        Destroys(s, jmapd_email_locate(s.a, [k \in DOMAIN call.destroy |-> Want(call.destroy[k])]))
  IN  IF call.ifInState = "stale" THEN [s0 EXCEPT !.a = a0, !.error = "stateMismatch"]
      ELSE IF n > MaxSet THEN [s0 EXCEPT !.a = a0, !.error = "requestTooLarge"]
      ELSE Destroyed(Updated(FoldLeft(Create, s0, [k \in DOMAIN call.create |-> k])))

----------------------------------------------------------------------------
(* The request: a sequence of method calls, in which a later call may take   *)
(* its ids from the answer of an earlier one.  A call is a record: whether   *)
(* it has the right shape, the method, the call id, whether it names this    *)
(* account, the reference (resultOf, name, path) or none, the arguments and  *)
(* whether the method runs out of memory.                                   *)

Method == {"Email/query", "Email/get", "Email/set", "Thread/get"}

\* resolve_ref: the first earlier call with that id; its method must be the
\* named one and the path must lead somewhere in its answer.
resolve_ref(prev, ref) ==
  LET same == {i \in DOMAIN prev : prev[i].callid = ref[1]}
      r == prev[Min(same)]
  IN  IF same = {} \/ r.method # ref[2] \/ ref[3] \notin DOMAIN r.answer
        THEN [ok |-> FALSE, val |-> <<>>]
      ELSE [ok |-> TRUE, val |-> r.answer[ref[3]]]

\* jmapd_arg, for the argument "ids".
jmapd_arg(prev, call) ==
  IF call.ref = <<>> THEN [ok |-> TRUE, val |-> call.ids] ELSE resolve_ref(prev, call.ref)

\* One call: the answer and the account after it.
RunMethod(a, call, ids) ==
  CASE call.method = "Email/query" -> [a |-> a, answer |-> jmapd_method_email_query(a, call.args)]
    [] call.method = "Email/get" -> [a |-> a, answer |-> jmapd_method_email_get(a, ids, MaxMsg)]
    [] call.method = "Thread/get" -> [a |-> a, answer |-> jmapd_method_thread_get(a, ids)]
    [] OTHER -> LET Done(s) == [a |-> s.a, answer |-> [error |-> s.error, out |-> s.out]]
                IN  Done(jmapd_method_email_set(a, [call.args EXCEPT !.destroy = ids],
                           [k \in 1 .. MaxSet |-> [kind |-> "none"]],
                           [k \in 1 .. MaxSet |-> "no"]))

Answered(s, call, r) ==
  [s EXCEPT !.a = r.a, !.prev = Append(@, [callid |-> call.callid, method |-> call.method,
                                           answer |-> r.answer])]
RunWith(s, call, arg) ==
  IF ~arg.ok THEN Answered(s, call, [a |-> s.a, answer |-> Refused("invalidResultReference")])
  ELSE IF call.oom THEN [s EXCEPT !.failed = TRUE]
  ELSE Answered(s, call, RunMethod(s.a, call, arg.val))

RunCall(s, call) ==
  IF ~call.mine THEN Answered(s, call, [a |-> s.a, answer |-> Refused("accountNotFound")])
  ELSE RunWith(s, call, jmapd_arg(s.prev, call))

RECURSIVE RunCalls(_, _)
RunCalls(s, calls) ==
  IF s.failed \/ calls = <<>> THEN s ELSE RunCalls(RunCall(s, Head(calls)), Tail(calls))
Run0(a) == [a |-> a, prev |-> <<>>, failed |-> FALSE]

BugCheckedInTurn(a, req) ==
  LET bad == {i \in DOMAIN req.calls : ~req.calls[i].shape \/ req.calls[i].method \notin Method}
      ok == IF bad = {} THEN req.calls ELSE SubSeq(req.calls, 1, Min(bad) - 1)
      Ran(s) == IF bad # {} THEN [status |-> 400, type |-> "notRequest", a |-> s.a, prev |-> <<>>]
                ELSE [status |-> 200, type |-> "ok", a |-> s.a, prev |-> s.prev]
  IN  Ran(RunCalls(Run0(a), ok))

\* api_call: every call is looked at before the first one runs; a method that
\* fails takes the answers of the earlier ones with it.
api_call(a, req) ==
  LET Error(type, b) == [status |-> 400, type |-> type, a |-> b, prev |-> <<>>]
      bad == {i \in DOMAIN req.calls : ~req.calls[i].shape \/ req.calls[i].method \notin Method}
      Ran(s) == IF s.failed THEN Error("serverFail", s.a)
                ELSE [status |-> 200, type |-> "ok", a |-> s.a, prev |-> s.prev]
  IN  IF ~req.json THEN Error("notJSON", a)
      ELSE IF ~req.using THEN Error("unknownCapability", a)
      ELSE IF Len(req.calls) > MaxCalls THEN Error("limit", a)
      ELSE IF bad # {} THEN Error(IF req.calls[Min(bad)].shape THEN "unknownMethod"
                                  ELSE "notRequest", a)
      ELSE Ran(RunCalls(Run0(a), req.calls))

=============================================================================
