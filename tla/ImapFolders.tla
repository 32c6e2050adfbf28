----------------------------- MODULE ImapFolders -----------------------------
(* The mailboxes of one user of imapd: CREATE, DELETE, RENAME, SUBSCRIBE,     *)
(* UNSUBSCRIBE, LIST and LSUB, and mail that is delivered to "user" or        *)
(* "user+Folder".                                                             *)
(*                                                                            *)
(* A name is a sequence of characters; INBOX is the one character "I".        *)
EXTENDS Integers, Sequences, SequencesExt, FiniteSets, Functions

lower(c) == CASE c = "A" -> "a" [] c = "I" -> "i" [] OTHER -> c
ascii_ieq_str(a, b) == [i \in DOMAIN a |-> lower(a[i])] = [i \in DOMAIN b |-> lower(b[i])]
INBOX == <<"I">>
IsInbox(name) == ascii_ieq_str(name, INBOX)

BugStarStops(pat, str) ==
  LET F[p \in 1 .. Len(pat) + 1, s \in 1 .. Len(str) + 1] ==
        IF p > Len(pat) THEN s > Len(str)
        ELSE IF pat[p] \in {"*", "%"}
          THEN IF p = Len(pat) THEN "." \notin {str[k] : k \in s .. Len(str)}
               ELSE \E t \in s .. Len(str) : "." \notin {str[k] : k \in s .. t} /\ F[p + 1, t]
        ELSE s <= Len(str) /\ lower(pat[p]) = lower(str[s]) /\ F[p + 1, s + 1]
  IN  F[1, 1]

\* imapd_wildmat, from position p of the pattern and s of the name: a wildcard
\* that is not the last tries each place that still has a character, one of
\* "%" no place at or behind a dot.
imapd_wildmat(pat, str) ==
  LET Dots(s, t) == "." \in {str[k] : k \in s .. t}
      F[p \in 1 .. Len(pat) + 1, s \in 1 .. Len(str) + 1] ==
        IF p > Len(pat) THEN s > Len(str)
        ELSE IF pat[p] = "*"
          THEN p = Len(pat) \/ \E t \in s .. Len(str) : F[p + 1, t]
        ELSE IF pat[p] = "%"
          THEN IF p = Len(pat) THEN ~Dots(s, Len(str))
               ELSE \E t \in s .. Len(str) : ~Dots(s, t) /\ F[p + 1, t]
        ELSE s <= Len(str) /\ lower(pat[p]) = lower(str[s]) /\ F[p + 1, s + 1]
  IN  F[1, 1]

\* imapd_mbox_name_ok: no part of the name is empty, no "/" is in it.
imapd_mbox_name_ok(name) ==
  /\ name # <<>> /\ name[1] # "." /\ Last(name) # "."
  /\ "/" \notin Range(name)
  /\ \A i \in 1 .. Len(name) - 1 : <<name[i], name[i + 1]>> # <<".", ".">>

\* imapd_mbox_dir: the name of the directory, as a set of at most one; INBOX
\* has the same one however it is spelt.
imapd_mbox_dir(name) ==
  IF IsInbox(name) THEN {INBOX} ELSE IF imapd_mbox_name_ok(name) THEN {name} ELSE {}

\* What there is of a user: directories with their messages, the lines of the
\* subscription file, and whether the user has a directory at all.
NoUser == [box |-> <<>>, subs |-> <<>>, home |-> FALSE]
Reply(u, r) == [u |-> u, r |-> r]

\* imapd_mbox_create: nothing happens to one that is there.
imapd_mbox_create(u, dir) ==
  [u EXCEPT !.box = IF dir \in DOMAIN @ THEN @ ELSE @ @@ (dir :> <<>>), !.home = TRUE]

\* do_create
do_create(u, name) ==
  IF IsInbox(name) \/ imapd_mbox_dir(name) = {} \/ name \in DOMAIN u.box THEN Reply(u, "NO")
  ELSE Reply(imapd_mbox_create(u, name), "OK")

\* do_delete
do_delete(u, name) ==
  IF IsInbox(name) \/ imapd_mbox_dir(name) = {} \/ name \notin DOMAIN u.box THEN Reply(u, "NO")
  ELSE Reply([u EXCEPT !.box = Restrict(@, DOMAIN @ \ {name})], "OK")

BugOntoAny(u, old, new) ==
  IF IsInbox(old) \/ IsInbox(new) \/ imapd_mbox_dir(old) = {} \/ imapd_mbox_dir(new) = {}
     \/ old \notin DOMAIN u.box
  THEN Reply(u, "NO")
  ELSE Reply([u EXCEPT !.box = (new :> @[old]) @@ Restrict(@, DOMAIN @ \ {old})], "OK")

\* do_rename
do_rename(u, old, new) ==
  IF IsInbox(old) \/ IsInbox(new) \/ imapd_mbox_dir(old) = {} \/ imapd_mbox_dir(new) = {}
     \/ old \notin DOMAIN u.box \/ new \in DOMAIN u.box
  THEN Reply(u, "NO")
  ELSE Reply([u EXCEPT !.box = (new :> @[old]) @@ Restrict(@, DOMAIN @ \ {old})], "OK")

\* imapd_sub_has and imapd_sub_write: a line for a name that is not there yet,
\* or all lines of the name taken out; the file needs the user's directory.
imapd_sub_has(u, name) == name \in Range(u.subs)
imapd_sub_write(u, name, add) ==
  IF imapd_sub_has(u, name) = add THEN Reply(u, "OK")
  ELSE IF ~u.home THEN Reply(u, "NO")
  ELSE Reply([u EXCEPT !.subs = IF add THEN Append(@, name)
                                ELSE SelectSeq(@, LAMBDA l : l # name)], "OK")

\* do_subscribe
do_subscribe(u, name, add) ==
  IF ~imapd_mbox_name_ok(name) THEN Reply(u, "BAD")
  ELSE imapd_sub_write(u, IF IsInbox(name) THEN INBOX ELSE name, add)

\* imapd_mbox_list: directories whose name starts with a dot, which the one of
\* INBOX does not.
imapd_mbox_list(u, pat) ==
  {d \in DOMAIN u.box \ {INBOX} : imapd_mbox_name_ok(d) /\ imapd_wildmat(pat, d)}

\* do_list: the lines of the answer; those of LIST in any order.
do_list(u, pat, sub) ==
  LET inbox == IF imapd_wildmat(pat, INBOX) THEN <<INBOX>> ELSE <<>>
      There(n) == IsInbox(n) \/ imapd_mbox_dir(n) \cap DOMAIN u.box # {}
  IN  IF pat = <<>> THEN << <<>> >>
      ELSE inbox \o IF sub THEN SelectSeq(u.subs, LAMBDA n : imapd_wildmat(pat, n) /\ There(n))
                    ELSE SetToSeq(imapd_mbox_list(u, pat))

\* imapd_delivery_target: the folder of a local part, as a set of at most one;
\* without a "+" there is no folder in it.
imapd_delivery_target(folder) ==
  IF folder = <<"none">> THEN {INBOX} ELSE {f \in {folder} : imapd_mbox_name_ok(f)}

\* ingest_deliver, for one recipient: an unusable folder is INBOX.
ingest_deliver(u, folder, msg) ==
  LET f == IF imapd_delivery_target(folder) = {} THEN INBOX ELSE CHOOSE x \in imapd_delivery_target(folder) : TRUE
      d == CHOOSE x \in imapd_mbox_dir(f) : TRUE
      v == imapd_mbox_create(u, d)
  IN  Reply([v EXCEPT !.box[d] = Append(@, msg)], "OK")

\* One command, the k-th; msg k is the one it delivers.
Command(u, cmd, k) ==
  CASE cmd[1] = "CREATE" -> do_create(u, cmd[2])
    [] cmd[1] = "DELETE" -> do_delete(u, cmd[2])
    [] cmd[1] = "RENAME" -> do_rename(u, cmd[2], cmd[3])
    [] cmd[1] \in {"SUBSCRIBE", "UNSUBSCRIBE"} -> do_subscribe(u, cmd[2], cmd[1] = "SUBSCRIBE")
    [] cmd[1] = "MAIL" -> ingest_deliver(u, cmd[2], k)
=============================================================================
