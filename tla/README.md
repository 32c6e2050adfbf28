# Visage in TLA+

Visage is a mail stack written in C. This directory holds TLA+ models of its
parts, TLC configurations that check them on small instances, and TLAPS proofs
for every value of the constants. File names below are relative to `src/src/`
unless they say otherwise; `PROJECT.json` gives the lines of every definition.

## The system

| part | files | state | what makes it hard |
|---|---|---|---|
| visage daemon | `smtp_in.c`, `store.c`, `reply.c`, `admin.c`, `http.c` | queue, alias, revmap, log and meta relations (one fact is one durable step), spool files, cached wake-up time, reply marks, connection table | crashes between durable steps, lost relay replies, `/replay`, partial failures, a single thread that sleeps until a cached time |
| outbound SMTP | `smtp_out.c` | one dialogue | the answer after the final dot may get lost |
| outbox daemon | `outbox_*.c` | in-memory job queue shared by the poll loop and one worker thread, lockout table, audit spool | condition variable, due times, retries past the caps, drain on a stop |
| imapd | `imapd*.c`, `pop3d.c`, `imap_maildir.c` | maildir files, `uidlist` sidecar, a view per session | a second daemon on the same tree, snapshots merged at close, renames between two `readdir` passes and between `readdir` and `stat` |
| jmapd | `jmapd*.c`, `jmap_*.c` | `jmapd-state` (counter and fingerprint), submission ledger, submission slots shared with a worker thread | imapd changing the tree under a request, a wait that times out, crash between send and ledger |
| pure parts | `auth_results.c`, `dkim.c`, `mail.c`, `config.c`, `json.c`, `http_parse.c`, `jmap_mime.c`, `jmap_query.c` | none | text and cryptography |

The visage daemon hands mail to a relay, which for local users is the ingest
port of imapd. imapd and jmapd share a maildir root and know of each other only
through the files. jmapd hands submissions to the outbox, and the outbox hands
mail for served domains back to visage.

What the parts should guarantee: mail answered `250` is not lost, is retried
until it is settled, and is repeated only because of a fault; ids and uids name
one thing; a cached value is never trusted when it is stale; every wait ends.

## Modules

### The queue of visage

| module | models | correspondence |
|---|---|---|
| `DeliveryQueue` | `store_queue_*`, `store_next_msgid`, `deliver_message`, `queue_enqueue`, `queue_deliver_one`, `queue_redrive`, `spool_gc`, the poll timer, `/replay`, start-up | `rows`, `meta`, `next_due`, `next_due_dirty` are the store's; `spool` is the directory; `reply_rows` the marks in memory. The thread's handlers are cut at every durable step and `pc` names the next one |
| `AtLeastOnce` | what the queue promises per delivery | abstract: none, pending, settled, gone |
| `DeliveryQueueProofs`, `DeliveryQueueRelay` | the theorems: the invariant and the refinement; what the relay gets to see | the second extends the first |

### State shared by threads and daemons

| module | models | correspondence |
|---|---|---|
| `Maildir`, `MaildirProofs`, `MaildirAlone` | one mailbox, of imapd alone or shared by imapd and jmapd: scan, deliver, STORE, EXPUNGE, MOVE, register, sidecar save and merge | `place` is the file of each message, `disk` the sidecar, `view` an `Mbox`, `task` what a daemon is in the middle of, `running` the daemons that use the tree. Operations are cut at each read or write of a directory, a file name or the sidecar; a save under `flock` is one step |
| `ImapSession` | the IMAP and POP3 sessions of one user: what each command does to the mailbox and to the numbers the client knows | `conn` is the connection with its view, `disk` the files, `side` the sidecars with their uids, `blurred` (an observer) the clients whose numbers another session has disturbed; a command is one step, a streamed FETCH one step per message |
| `JmapSubmit`, `JmapSubmitProofs` | `EmailSubmission/set`, its worker thread, ledger, filing in Sent, the implicit update or destroy | `slot`, `bytes`, `stop` are `JmapdSubmit`'s; `ledger`, `saved` and `mail` are files; `req` is the create loop |
| `JmapState`, `JmapStateProofs` | the state strings: load, sync, bump, and the order Email/get and Email/set use them in | `file` is `jmapd-state`; imapd appears as what the fingerprint can tell of it |
| `OutboxQueue`, `OutboxQueueProofs` | the outbox after DATA: `outbox_delivery_enqueue`, the worker, retries, shutdown | `queue`, `njobs`, `bytes`, `shutdown` are `OutboxDeliveryQueue`'s, `worker` the thread, `loop` the main thread |
| `AliasStore`, `AliasDnsProofs` | the alias, reply-token and log relations, `/alias`, the seeding from the configuration, the sweeps | `facts`, `revmap`, `log` are relations; timestamps are taken modulo `Wrap` (2^32 in the code) |
| `DnsCache`, `AliasDnsProofs` | the reply cache in front of every DNS look-up | `cache`, `victim`, `gen` are the globals of `auth_results.c` |

### Sessions and loops

| module | models | correspondence |
|---|---|---|
| `SmtpSession` | what the three inbound SMTP machines share | a connection is a record, a step an operator on it |
| `SmtpIn`, `Ingest`, `Submission` | the command machines of visage, of imapd's ingest and of outbox, with DATA, STARTTLS and AUTH | one operator per command and per reader |
| `SmtpOut` | the SMTP client: dialogue, classification of replies, retries | one state per awaited reply |
| `SmtpHop` | client and server composed over a wire that may delay or lose replies; a server with any client; a client with any server; a server and its twin that gets the same lines one by one | `cli`, `srv`, and what is in flight |
| `PollLoop` | `server_poll` of the four daemons and the admin's HTTP slots | the phases of one turn: sweep, build the array, `poll()`, accept, dispatch by index, reap; the peers act in between |

### Algorithms

These modules have no state of their own. `MailAlgorithms` asks them every
question of a bounded set (its variable `q` is the question) and compares the
answer with a definition of what it should be.

| module | models |
|---|---|
| `ImapSearch`, `HeaderCache` | SEARCH and SORT: parser, plan, scan in slices, and the sidecar `imapd-hdrs` that answers for headers |
| `ImapFetch` | what a FETCH item selects, and the generator that streams it |
| `ImapFolders` | CREATE, DELETE, RENAME, SUBSCRIBE, LIST, LSUB, patterns, `user+Folder` deliveries |
| `Mime`, `Decoder` | the four walks over the parts of a message; base64 and quoted-printable with their four callers |
| `JmapMail` | Email/query, Email/get, Email/set, Thread/get and the loop over the calls of a request |
| `MailText` | line ends, dots, header rewriting, the reverse alias in To and Cc |
| `Dkim` | scan of the header, relaxed forms, what is signed and what is verified, the key that is kept |
| `AuthResults` | SPF, DKIM and DMARC evaluation, the order of exchangers and addresses, the routes of outbox |
| `HttpRequest` | requests in pieces, for the admin API and for jmapd |
| `Pop3` | a POP3 session and the streaming of RETR and TOP |

`MC*` modules give the constants their values.

Definitions whose name starts with `Bug` are faulty variants of the definition
that follows them. They belong to no specification; each shows that a property
notices a plausible mistake. Variables marked *observer* exist for the
properties and influence no action.

### Abstractions worth knowing

- **DeliveryQueue.** `from` and `to` never change and are left out. A fault is a
  crash or, with `StoreErrors`, a call that fails; a status transition cut short
  leaves any subset of the old rows beside the new one. When preparing a message
  fails the code skips its destinations without numbering them; the model numbers
  them and charges one fault each, which changes labels only. The clock
  saturates at `MaxTime`, which stands for every later time. `MetaMaxRows` and
  `SetMaxRows` are the arrays of 16 rows into which `store.c` reads the counter and
  the rows of a delivery: what does not fit is not seen. `FewRows` says that all fits.
- **Maildir.** A message is its base name; flags are a small set. The names of a
  directory are read at once, as `getdents` does for a directory that fits its
  buffer, and each name is looked up (`stat`) in a later step of its own, so files come,
  go and change names in between. `modseq`s are counted as in the code but no property is about
  them. `Deployments` says which daemons may be installed on a tree; a behaviour
  keeps the one it starts with. `used.blind` counts the saves that went without the
  lock: what the code promises of a save it promises of one that has it.
- **JmapSubmit, OutboxQueue.** The bytes that are queued are counted as a set,
  `Octets`, with one element for each byte of each message, so that what the
  counter should say is a cardinality and not a sum.
- **JmapSubmit.** An envelope is its number of recipients (none: `noRecipients`);
  a message larger than the byte limit is `tooLarge`. A request always carries an
  `onSuccess` update or destroy, and these are one step. `ifInState` is
  in JmapState only.
- **JmapState.** The three counters of an account move together and are one.
- **OutboxQueue.** MX resolution (see `AuthResults`) and the dialogue
  (see `SmtpOut`) are one verdict per
  recipient. Due times count down. The audit copy in the spool is written and
  never read back, so it is no part of the state; a crash empties the queue. A
  cap of 0 (none) does not occur: the daemon replaces it by its default.
- **SmtpHop.** The wire carries lines, and the terminator of a message is two
  pieces because a read may end inside it. A buffer's size is a number of lines.
  The certificate authorities of a client that verifies may fail to load.
  Whether an alias, a token or the catch-all exists is a flag that the
  environment may change between two commands.
- **PollLoop.** A command is what it asks of the loop: an answer, a long answer,
  a streamed one, STARTTLS, the end. Time is counted in timeouts. All peers of a
  scenario share one address, whose limit is `perip`. The observer `behind` marks a
  peer of whom commands were read while a streamed answer had the connection.
- **ImapSession.** A sidecar is the uids of its rows, the next uid and a generation;
  a view drops rows from its own copy, and its close writes that to the sidecar. What
  another daemon does to it is Maildir's matter. The scan is one step.
- **Algorithms.** Text is a sequence of symbols, with one symbol for a header
  line, a boundary or a word where only its identity matters, and bytes where
  bytes do (decoders, dots, line ends, canonical forms). A hash is what it is taken
  of. Buffer sizes and caps are constants small enough for every input length
  around them to occur.
- **AliasStore, DnsCache.** The store's clock may be set back once; the cache's
  only rises.

## Runs

| run | question | bounds |
|---|---|---|
| `queue` | are ids fresh, is a reply sent through its relay, does the queue implement `AtLeastOnce`, is every queued delivery settled, with crashes at every step? | two messages, one destination, two faults, one replay; arrays of three and four rows, which these faults do not fill |
| `queue_errors` | is accepted mail kept, does it have its body, is the wake-up time exact, are duplicates paid for by faults, when calls fail and the daemon goes on? | one message with two destinations, two faults, one replay; the same arrays |
| `maildir` | with imapd alone: does a uid name one message, does a scan register what it finds? with jmapd beside it: do saves preserve the other's rows, never rewind, keep dead generations out, and does a scan miss nothing but a message renamed under its hands? | two messages. Alone: two sessions, a flag change, a crash or a failed save, one MOVE back. Beside jmapd: one session each, a flag change or a failed or unlocked save, EXPUNGE but no MOVE, two seconds (1,054,142 states) |
| `uid_two_messages` (violation) | the uid promise with jmapd beside imapd | two sessions of imapd and one of jmapd |
| `imap_session` | do client and server agree on message numbers, does nothing leave a mailbox unasked, is no flag dropped? | two sessions (IMAP and IMAP, IMAP and POP3), three messages; three commands of every kind, or four to six of the kinds that disturb each other (SELECT, NOOP, STORE, EXPUNGE, MOVE, COPY, FETCH, APPEND, POP3); failing writes |
| `submit` | is a draft sent once, is what was sent recorded, are slots never mixed up, is every request answered, does a stop drain? | two drafts, three submissions, two slots, one piece of trouble |
| `state` | is a client that is told its own state right, unless imapd crossed its Email/set, and do readers leave the state alone? | two messages, five changes, one fault |
| `outbox` | is accepted mail in one place until settled, are the counters exact, is nobody sent a needless copy, does nobody oversleep, do retries and the drain end? | two messages, three recipients, room for one job, three attempts, two faults |
| `smtp_hop` | is the verdict of the client true of the server, does nothing temporary bounce, do credentials go to a verified server only, does nobody wait for ever, is what is stored what the replies described, does segmentation make no difference? | all TLS modes with and without AUTH, certificates that are good, bad or cannot be checked, two connections, one lost reply, three lines in flight, failing stores, aliases that go away |
| `poll_loop` | do events reach their connection, is no socket leaked or served twice, is nothing written into a handshake, are timeouts kept, does a sleeping loop owe nobody an answer but one who pipelined behind a stream? | each daemon with one elaborate peer, or two or three plain ones, with the limit per address at three and at one; one HTTP slot with two peers |
| `mail` | is a configured alias always served, do tokens and log rows live as long as they should, is a cached DNS reply served only while it is good, and do the algorithms agree with their definitions? | three configurations, a wrap at 16; two questions, two resolvers, two slots; the inputs listed in `MailAlgorithms` |
| `copied_ids` (violation) | does an id listed by Email/query come back from Email/get unchanged? | one base name in two mailboxes |

Why the bounds are enough: each instance has the smallest number of actors for
which the hazards in `PROJECT.json` occur. Two faults let a crash hit the
recovery from a crash or follow a lost reply; a batch of one with two messages
lets the queue starve if it could; a cap of one job with two messages makes the
retry pass the cap; two messages are what a uid can confuse; one scan per
session plus one lets a snapshot be old. Two connections let a late terminator of
the first meet the second; a connection table for two with three peers makes
indices move. The inputs of an algorithm go past each of its buffers by at least
one symbol.

The questions of `mail` are independent, so the run steps the store, or the DNS
cache, or asks one question; its states are the sum of the parts and not their
product.

Properties that are conjunctions name their parts. `QueueSound` is types,
`Kept`, `CapsHold`, `OneCopy` and `NobodyOverslept`; `WorkEnds` says that jobs are
settled and that a stop ends; `SidecarAndScan` and `RowsKept` collect what holds
of the sidecar as a state and as a step; `TransactionTrue` is the envelope and the
independence of segments; `SlotsSound` and `SleepsInPeace` gather what the poll
loop owes its table and its peers.

Deadlock is checked for the visage queue and the jmapd state. It is not for the
maildir and the sessions on it (a mailbox nobody touches stays as it is), for the
submissions (once the bound on requests is spent the loop idles, and the worker
may have been stopped), for the outbox (it ends after the join), for a hop and
the poll loop (peers may fall silent; `NoStall` and `SleepsInPeace` say when this is
in order) and for `mail` (a question is asked once).

### Fairness

- `queue`: the thread takes its next step; it is restarted when it died;
  time passes; `poll()` returns once its timeout is over. Nothing else need wake
  it, so the property rests on the cached `next_due`. Taking the first row of a
  batch is strongly fair: the tick budget may cut a batch short, but is checked
  against a clock that starts with the batch. Nothing is assumed of the relay.
- `submit`: the poll loop runs, and its wait ends by the clock. The worker is
  fair only in the premise of the drain.
- `outbox`: the worker runs, the clock goes on, and a join of an exited thread
  returns. A verdict is reached because each SMTP step of the code has a timeout.
- `smtp_hop` and `poll_loop` state what may not be waited for as invariants: in a
  state where everybody waits, nothing is left that somebody was asked for.

### What the violations show

- `uid_two_messages`: two daemons mint one uid from the same sidecar. The merge
  re-mints the loser's row on disk, but the session that lost goes on using the
  old uid.
- `copied_ids`: `locate_in_mbox` takes the first file with a wanted base name,
  whatever mailbox the id names, and answers with the short form of the id.

### Smaller observations

The models contain these behaviours of the code too; where a property has to
leave one out, its comment says so.

Delivery and the store:

- a failed `unlink` in `spool_gc` is followed by the deletion of the rows, so no
  later sweep finds the body (`smtp_in.c:1917`; the comment at 1877 says that the
  next sweep retries); a reply that uses up its attempts keeps its mark in memory
  (`smtp_in.c:692`);
- the counter and the rows of one delivery are read into arrays of 16
  (`store.c:149`, `store.c:786`), and rows that failed deletes left behind beyond that
  are not seen: an id may be given out again, although `store.c:579` says that the
  counter never reuses a msgid, and a delivery may stay active. It takes sixteen
  crashes or failed deletes at one counter value or delivery; TLC finds both with
  arrays of one row;
- a clock set back expires reply tokens early; across the wrap of the 32-bit
  timestamps it takes log rows too. A destination that an earlier configuration
  declared stays in the store, and the admin API refuses to remove it while the
  address is configured;
- after a stop of outbox every job is due at once, so the attempts a
  recipient has left are made back to back (`outbox_deliver.c:390`); an A look-up that
  fails beside an empty AAAA answer, or the reverse, is a permanent failure
  (`auth_results.c:1196-1204`, `deliver_resolve`);
- a client with implicit TLS and the SMTPS listener of visage wait for each other
  until a timeout, as the listener first expects a PROXY line; a relay with AUTH
  that is not on a verified TLS mode ends in a permanent failure, and so does one
  whose certificate authorities could not be loaded (`smtp_out.c:1080-1088`).

Sessions and loops:

- all four loops read the clock before `poll()` blocks and store it as the last
  activity of whoever speaks afterwards, so a client that connects after a quiet
  spell can be closed as idle in the next turn (`smtp_in.c:2313`);
- commands pipelined behind a streamed FETCH or RETR wait until the client sends
  more; a slow reader of a stream is cut off by the idle timeout;
- a terminator cut between its CR and its LF makes the LF an unknown command
  (`500`) after the message was taken;
- `refresh_selected` never sends EXPUNGE, so a client learns of another session's
  expunge by a count only (`imapd_imap.c:1098`). It opens the new view before it
  closes the old one (1098-1106), as SELECT does (1480-1492): a message that the old
  view gave up and that is there all the same, its `unlink` having missed a renamed
  file, returns at its old uid, and the row is dropped from the sidecar right after,
  so that it is renumbered later. After an APPEND that fails a session is selected
  without a view (1789-1796). MOVE answers EXPUNGE also for a
  message that could not be moved; a POP3 message that was renamed by another
  session survives QUIT; COPY of one message before and after a flag change leaves
  two files of one base name.

Mail stores and JMAP:

- a file that moves from `new/` to `cur/` between the two passes of a scan gets
  two rows, and the tombstone of the one that is pruned takes the message out of
  the saved sidecar (`imap_maildir.c:1631`). A file that is renamed within `cur/` by
  another daemon's STORE (`imap_maildir.c:1914`) after the scan has read its old name
  and before it stats it is skipped (1623); the prune, whose comment at 1802 says "the
  file is gone", drops and tombstones its row, so the message comes back under a new uid. Concurrent sessions hand out equal
  `modseq`s (`imap_maildir.c:1922`);
- a change of imapd between the sync and the bump of an Email/set is in the
  fingerprint that the bump adopts (`jmap_state.c:257-261`), so no state string moves
  for it, although the comment at 11-16 says that the fingerprint moves exactly when a
  client could observe a difference;
- the first fingerprint is adopted without being saved, so on an account that
  jmapd has never written every request adopts anew (`jmap_state.c:235`);
- `EmailSubmission/set` answers `created` when the relay took the message for
  some of the recipients (`jmapd_submit.c:148`; the comment at 37 says every); a
  draft filed in Sent gets the keywords read before the wait;
- Email/set: a patch of `mailboxIds/<id>` cannot move a message; two ids of one
  message in one update lose the first change; a destroy through an old view
  reports success though no file was there; a create whose message is not found again
  answers `serverFail` while the message stays, and moves no state; after a failed
  registration `create_locate` takes the newest message for the created one.

Texts:

- `imapd_wildmat` does not try a wildcard's empty run at the end of a name nor a
  `%` run that ends at a dot: `%.%` finds no `a.b`, although `imapd.h:357` says that
  `%` matches any run without a dot; LSUB lists INBOX twice once it is
  subscribed to, and RENAME leaves the subscription with the old name;
- a parenthesised SEARCH group never matches (`imapd_imap.c:536-566`); `*` in a set of
  uids stands for the next uid to be given, not for the last one (997); a BODY or TEXT
  key looks only as far into a message as the budget of its slice goes (2326-2335);
  SEARCH dates are a day
  off in leap years and wrong in centuries (`imapd_imap.c:766-785`); SORT (SIZE)
  sorts by date;
- an empty MIME part shifts the numbers of `BODY[n]` against BODYSTRUCTURE; a part
  with an empty header has an empty body; `BODY[HEADER]` and `BODY[TEXT]` are labelled
  `BODY[]`; where a CRLF CRLF stands behind an LF LF, a header ends at the
  CRLF CRLF for `mime_hdr_end` (`imap_maildir.c:2780-2788`) and at the LF LF for
  `file_hdr_end` (`jmap_mime.c:569-575`, of which 548 says that it is the same rule);
- a decoded blob that ends in an incomplete escape is announced longer than it is
  sent; the size of a base64 part that decodes to more than one buffer may come out too
  large, because the digit that found the buffer full is fed twice
  (`jmap_mime.c:85-88`, 391-408);
- DKIM: of two fields of one name the signer takes the upper first and the
  verifier the lower, so a signature over differing ones does not verify; an empty body
  is hashed as one CRLF; only a leading DKIM-Signature is verified;
- the first `p=` of a DMARC record is taken, that of `sp=` as well
  (`auth_results.c:705`); `redirect=` is followed where it stands;
- jmapd: whether a second request pipelined behind the first is refused, or one whose head and
  body together pass the cap, depends on how the bytes arrive.

## Proofs

Each theorem is about the specification its run checks, for every value of the
constants that satisfies the assumption named with it. Numbers of messages,
daemon starts, faults and retries are arbitrary; the bounds of the models
(`Max...`) are any natural numbers. Every proof has the same shape: an inductive
invariant (`IndInv` in the component's module, checked by TLC before it was
proved), one lemma per action that the action keeps it (`...Keeps`), lemmas about
what the helpers return, and the theorem.

| module | theorem | property of a run |
|---|---|---|
| `DeliveryQueueProofs` | `TypeSafety` | `TypeOK` |
| | `AcceptedIsKept` | `NoAcceptedLoss` |
| | `BodyIsKept` | `ActiveHasBody` |
| | `WakeUpIsExact` | `NextDueExact` |
| | `MsgidIsFresh` | `FreshMsgid` |
| | `Refinement` | `RefinesAtLeastOnce` |
| `DeliveryQueueRelay` | `DuplicatesAreBounded` | `DuplicatesBounded` |
| | `ReplyRouteIsStable` | `ReplyRouteStable` |
| `MaildirProofs` | `SidecarAndScanHolds` | `SidecarAndScan` |
| | `RowsAreKept` (action property) | `RowsKept` |
| `MaildirAlone` | `OneMessagePerUidAlone` | `AloneOneMessagePerUid` |
| | `ScanRegistersAlone` (action property) | `AloneScanRegisters` |
| `JmapSubmitProofs` | `NobodyTwice` | `AtMostOnce` |
| | `SentIsInTheLedger` | `SentIsRecorded` |
| | `SlotsAreSound` | `SlotsSound` |
| `JmapStateProofs` | `Honest` | `StateIsHonest` |
| | `NoStorm` | `NoRefreshStorm` |
| `OutboxQueueProofs` | `QueueIsSound` | `QueueSound` |
| `AliasDnsProofs` | `AlwaysServed` | `ConfiguredServed` |
| | `WindowsAreKept` | `WindowsKept` |
| | `LookupsAreSound` | `LookupsSound` |

### The queue (`BoundsAssumption`: natural numbers, a batch of at least one)

The theorems have the form `Spec /\ []FewRows => ...`: they suppose that every call
reads all rows of its delivery and of the counter. For the counter this is proved as
well: `CounterStaysSmall` says that `FewMeta` always holds when fewer faults happen
than the array has rows, as each fault leaves at most one counter row behind
(`MetaInv`). The faults of the runs
do not fill the arrays: `FewRows`, added to either configuration as an invariant, holds.

`NoAcceptedLoss` is not inductive: `acked` grows at the reply, so it takes that
every destination of the message at hand is active or resolved already (`JobInv`),
and a row may turn terminal only after its fate is known (`TerminalInv`, `CurInv`:
a verdict `ok` means the relay took it). A new message must not touch an old one,
which needs the counter to be above every delivery that left a trace
(`CounterInv`). `ActiveHasBody` needs that a row collected for a batch still has its
body when it is driven (`BatchInv`). `NextDueExact` is inductive beside the types.
`AttemptsInv`, that an active row has used no more attempts than the larger limit,
rides along: no other conjunct needs it. The refinement uses `IndInv` and shows that
each step moves a set of deliveries along one abstract transition, or stutters
(`...Maps`).

`DuplicatesBounded` counts what the relay took against faults and replays, and a
fault may leave several rows of one delivery behind, each of which can be sent
again. The inductive form (`CopiesInv`) counts the chances as well: hand-overs so
far plus the rows that may still lead to one stay within `1 + faults + replays`,
and so do hand-overs plus the items of the batch that is being driven, because a
batch is a snapshot and a row that was collected is driven from it. Rows that
differ only in `delivering` and `queued` are one chance, as a restart makes them one
row.

`ReplyRouteStable` is proved for `~StoreErrors`. A mark in memory is what sends a
reply through `reply_relay`; `RouteInv` says that a marked reply has one row, at most
one item in the batch, and goes the reply's way as long as it is not settled. With
store calls that fail and a daemon that goes on, a reply may keep two rows, the mark
is dropped with the first one that settles, and the second goes out by the plain
relay; the property is therefore checked in the run without such failures.

### The mailbox (`BoundsAssumption`: finitely many base names; views of the two daemons are distinct; a flag is not one of the words for a place)

`SidecarSound` needs to know of the views that are merged into the sidecar. `IndInv`
says that the rows of every view were given out from its counter (`Counted`), which
keeps uids apart; that a base name has one row is true of the loaded rows and
of those of the first pass, but not of both together (`ScanInv`): a file that moves
between the passes is met twice. It is true again after the prune (`RowsInv`).
The merge is treated apart from the steps: `MergedRows`, `Written` and `SaveIsSound`
say what it makes of any two sound sets of rows, with any counters and
generations. `ScanComplete` follows from `SinceInv`: what was there from the start
of a scan is in the view, among the names that are listed and still to be looked up,
or in the directory that is still to be listed. `LeftInv` is about these names: each
file has one, and none was met before in this pass. A name whose `stat` fails while
its message is still in `cur/` is the one exception, and `ScanSkip` takes exactly that
message out of `since`: for it the theorem claims nothing, as the code misses it.

`RowsKept` is about single steps, and is proved from what a save writes under
`IndInv`: the merged counter is at least the one on disk, a row of the present
generation goes only by a tombstone, and one of a dead generation does not come in.

The properties of a tree that imapd has to itself are in `MaildirAlone`, which uses
the lemmas of `MaildirProofs`, and rest on `AloneIndInv`. A scan is
several steps, but imapd does one thing at a time, so the sidecar is the one it
loaded until it saves (`AloneScan`); from this every message found has its row when
the scan is saved, which is `AloneScanRegisters`. Nobody renames a file while imapd
scans, so a row is added once for a base name. That a uid names one message takes
the uids in use everywhere, in what clients were told, in the sidecar and in
the open views (`Names`): all are below the counter on disk, so one that is minted
is new, and all are of one generation. A save without the lock may write an
older counter, hence `used.blind = 0` in `AloneOneMessagePerUid`. With jmapd
beside imapd the property is false (`uid_two_messages`).

### Submissions of jmapd (`SubmitAssumption`: finitely many drafts, sizes and limits not 0)

`AtMostOnce` bounds the copies of a draft by 1 and its excuses: an answer of the relay
that got lost, a crash before the ledger is written, a ledger that could not be read
or written or that newer drafts have filled. The inductive `OnceInv`
counts the copies that queued and running slots have yet to send together with
those sent, against a grant that is in the hand of the request from the admission
until it is in the ledger. Its second part, about a request whose slot has not
succeeded with anybody, is what lets a request be answered with an error without
using up the grant. `SlotsSound` needs the ownership of the slots (`OwnInv`), the byte
counter as a cardinality (`BytesInv`), and that ids given out are below the counter
on disk (`IdsInv`).

### States of jmapd (`StateAssumption`: finitely many messages)

`StateIsHonest` is about a client whose state string is the present one. The
fingerprint has counts and the time of the sidecar, not contents, so `ClientInv`
says when equal fingerprints mean equal contents: as long as the sidecar was not
saved and no save is due, files have only been added (`RecordInv`), so equal
counts are equal files. A client whose Email/set imapd crossed between sync and bump
is not sure any more (`SetInv`), since the bump swallows that change. `NoRefreshStorm` is the counting half of `RecordInv`.

### Outbox (`OutboxAssumption`: at least one recipient and byte per message, caps and attempts not 0, and no message is the word for "no job")

`QueueSound` needs the whole of `IndInv`: a message has one job, in the queue or in the
worker's hand, whose marks are the outcomes on record (`JobsInv`). The caps hold
because a retry may pass them only by the job that was in the worker's hand
(`CountersInv`). A recipient of whom no outcome is recorded has had only copies
whose replies got lost (`CopiesInv`).

### Aliases, tokens, log, DNS

`ConfiguredServed` speaks of what a look-up in any spelling finds; the inductive
`Seeded` speaks of the facts: while the daemon runs, the store has the lower-case
fact of every configured pair. A start establishes it, and `/alias` keeps it because
`config_alias_read_only` ignores case as the store does.

`WindowsKept` is proved under `Clocks`: the lifetimes and the wrap are positive, and
all that happens takes less than one turn of the timestamp, 136 years in the code;
beyond it an old row and a new one cannot be told apart. `IndInv` says that the
clock is real time less what it was set back, and that every row carries the
clock of its birth modulo the wrap. `AgeAcrossTheWrap` then gives what the code's two
subtractions, the unsigned and the signed one, make of two stamps.

`LookupsSound` is about what was served; the inductive `DnsInv` says of every slot in
use that it holds a reply to the question it is filed under, from the resolver of
its generation, with the expiry that its TTLs give, and that no question has two
live slots: `dns_cache_put` never looks for an older entry of its question, and need
not, as it is called only when `dns_cache_get` has found none.

### Only model-checked

- Liveness, and everything about fairness: `EventuallySettled`,
  `RequestsSettle` and `WorkEnds` are outside the prover's reach.
- `SmtpHop`, `PollLoop` and `MailAlgorithms`: their operators recurse over lines,
  slots and texts, so a proof would need induction over data.
- `ImapSession`: what a command does to the numbers a client knows is a fold over
  the messages it names, and the properties are about the result of the fold.

## Not modelled

- Cryptography, TLS records and the datalog engine are external: a handshake
  succeeds or fails, a fact is added or deleted in one durable step.
- The wire formats of DNS, the JSON text, the spelling of reply tokens, the
  address grammar, encoded words, ENVELOPE and the HTML pages: conversions without
  state, of which the models take the outcome as an input.
- Mailbox/get, Identity/get and the session object of jmapd, the listings of the admin API, CAPA and
  the status pages: they read and render.
- The lock-out table of imapd and jmapd (that of outbox is in `Submission`), password
  hashing, the reading of the configuration, and the commands of `visage` on
  the command line, each of which makes one request to the daemon.
- Running out of memory.
