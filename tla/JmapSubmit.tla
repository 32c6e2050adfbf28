---------------------------- MODULE JmapSubmit ----------------------------
(***************************************************************************)
(* EmailSubmission/set of jmapd (jmapd_submit.c): sending the drafts of    *)
(* one account.                                                            *)
(*                                                                         *)
(* The poll loop runs one request at a time.  For every draft it puts a    *)
(* job into a slot, waits for the verdict of the one worker thread for at  *)
(* most --submit-wait, files the draft in Sent and adds it to the ledger   *)
(* of submitted drafts.  The slots are shared under a lock and do not      *)
(* survive a crash; the maildir, the ledger and the counter in jmapd-state *)
(* are files.  imapd may change the drafts at any time.                    *)
(***************************************************************************)
EXTENDS Integers, Sequences, FiniteSets, FiniteSetsExt

CONSTANTS
  Email,        \* the drafts of the account
  Rcpts,        \* Email -> the number of recipients of its envelope
  Size,         \* Email -> the length of the message
  QueueJobs,    \* JMAPD_SUBMIT_QUEUE_JOBS
  QueueBytes,   \* JMAPD_SUBMIT_QUEUE_BYTES
  LedgerMax,    \* JMAPD_LEDGER_MAX
  MaxCreates,   \* bound: drafts named in requests
  MaxTrouble    \* bound: changes made by imapd, crashes, lost replies, and
                \* files that cannot be read or written, all together

ASSUME SubmitAssumption ==
  /\ IsFiniteSet(Email)
  /\ Rcpts \in [Email -> Nat] /\ Size \in [Email -> Nat \ {0}]
  /\ QueueJobs \in Nat \ {0} /\ QueueBytes \in Nat /\ LedgerMax \in Nat \ {0}
  /\ MaxCreates \in Nat /\ MaxTrouble \in Nat

VARIABLES
  mail,     \* the maildir: Email -> its mailbox and keywords
  ledger,   \* jmapd-submitted, oldest first
  saved,    \* the submission counter of jmapd-state
  slot,     \* JmapdSubmit.slot
  bytes,    \* JmapdSubmit.bytes
  stop,     \* JmapdSubmit.stop
  worker,   \* submit_worker: its slot and the next recipient, or Asleep
  req,      \* the request the poll loop works on, or Idle
  used,     \* what has been spent of each bound
  copies,   \* observer: how often the relay took a draft for a recipient
  excuse,   \* observer: events that allow a draft to be sent once more
  told      \* observer: the submission ids given while jmapd-state was written

vars == <<mail, ledger, saved, slot, bytes, stop, worker, req, used, copies,
          excuse, told>>
files == <<mail, ledger, saved>>
queue == <<slot, bytes, stop, worker>>
seen  == <<copies, excuse, told>>

Slots   == 1 .. QueueJobs
Gone    == [box |-> "gone", flags |-> {}]
Free    == [state |-> "free", waited |-> FALSE, email |-> "none", ok |-> FALSE]
Asleep  == [slot |-> 0, i |-> 0]
Idle    == [pc |-> "idle", todo |-> <<>>, created |-> <<>>, after |-> "finish",
            loc |-> Gone, name |-> Gone, slot |-> 0, verdict |-> "none",
            submission |-> 0]

Trouble     == used.trouble < MaxTrouble /\ used' = [used EXCEPT !.trouble = @ + 1]
Excuse(S)   == excuse' = [e \in Email |-> excuse[e] + IF e \in S THEN 1 ELSE 0]
Draft       == Head(req.todo)      \* the draft the create loop is at

-----------------------------------------------------------------------------
(* The worker thread.                                                       *)

BugBytesKept ==
  LET queued == {s \in Slots : slot[s].state = "queued"}
  IN  /\ worker = Asleep /\ queued # {}
      /\ slot' = [slot EXCEPT ![Min(queued)].state = "running"]
      /\ worker' = [slot |-> Min(queued), i |-> 1]
      /\ UNCHANGED <<files, bytes, stop, req, used, seen>>

BugStopAtOnce ==
  LET queued == {s \in Slots : slot[s].state = "queued"}
  IN  /\ worker = Asleep /\ queued # {} /\ ~stop
      /\ slot' = [slot EXCEPT ![Min(queued)].state = "running"]
      /\ bytes' = bytes - Size[slot[Min(queued)].email]
      /\ worker' = [slot |-> Min(queued), i |-> 1]
      /\ UNCHANGED <<files, stop, req, used, seen>>

\* submit_worker takes the first queued slot, whether or not it was told to stop.
Take ==
  LET queued == {s \in Slots : slot[s].state = "queued"}
  IN  /\ worker = Asleep /\ queued # {}
      /\ slot' = [slot EXCEPT ![Min(queued)].state = "running"]
      /\ bytes' = bytes - Size[slot[Min(queued)].email]
      /\ worker' = [slot |-> Min(queued), i |-> 1]
      /\ UNCHANGED <<files, stop, req, used, seen>>

BugLastRecipient ==
  LET job == slot[worker.slot]
      Said(took, ok) ==
        /\ slot' = [slot EXCEPT ![worker.slot].ok = ok]
        /\ copies' = [copies EXCEPT ![job.email][worker.i] =
                        IF took THEN @ + 1 ELSE @]
  IN  /\ worker # Asleep /\ worker.i <= Rcpts[job.email]
      /\ \/ \E took \in BOOLEAN : Said(took, took) /\ UNCHANGED <<used, excuse>>
         \/ Said(TRUE, FALSE) /\ Trouble /\ Excuse({job.email})
      /\ worker' = [worker EXCEPT !.i = @ + 1]
      /\ UNCHANGED <<files, bytes, stop, req, told>>

\* One recipient of job_deliver.  The relay takes the message or not, and the
\* job is ok once it said so for one recipient; that answer may get lost.
Send ==
  LET job == slot[worker.slot]
      Said(took, ok) ==
        /\ slot' = [slot EXCEPT ![worker.slot].ok = @ \/ ok]
        /\ copies' = [copies EXCEPT ![job.email][worker.i] =
                        IF took THEN @ + 1 ELSE @]
  IN  /\ worker # Asleep /\ worker.i <= Rcpts[job.email]
      /\ \/ \E took \in BOOLEAN : Said(took, took) /\ UNCHANGED <<used, excuse>>
         \/ Said(TRUE, FALSE) /\ Trouble /\ Excuse({job.email})
      /\ worker' = [worker EXCEPT !.i = @ + 1]
      /\ UNCHANGED <<files, bytes, stop, req, told>>

\* The verdict is published, whether or not a request still waits for it.
Verdict ==
  /\ worker # Asleep /\ worker.i > Rcpts[slot[worker.slot].email]
  /\ slot' = [slot EXCEPT ![worker.slot].state = "done"]
  /\ worker' = Asleep
  /\ UNCHANGED <<files, bytes, stop, req, used, seen>>

Worker == Take \/ Send \/ Verdict

-----------------------------------------------------------------------------
(* The create loop of jmapd_method_email_submission_set.                    *)

\* A request names one or two drafts and what happens to them once sent.
StartRequest ==
  /\ req = Idle /\ ~stop
  /\ \E todo \in {<<e>> : e \in Email} \cup (Email \X Email),
        after \in {"update", "destroy"} :
        /\ used.creates + Len(todo) <= MaxCreates
        /\ used' = [used EXCEPT !.creates = @ + Len(todo)]
        /\ req' = [Idle EXCEPT !.pc = "locate", !.todo = todo, !.after = after,
                               !.submission = saved]
  /\ UNCHANGED <<files, queue, seen>>

\* Done with this draft: notCreated, or created under a new submission id.
NextDraft(r, created) ==
  LET rest == Tail(r.todo)
      made == IF created THEN Append(r.created, Head(r.todo)) ELSE r.created
  IN  [r EXCEPT !.todo = rest, !.created = made, !.loc = Gone, !.name = Gone,
                !.slot = 0, !.verdict = "none",
                !.submission = @ + (IF created THEN 1 ELSE 0),
                !.pc = IF rest # <<>> THEN "locate"
                       ELSE IF made # <<>> THEN r.after ELSE "finish"]
NotCreated == req' = NextDraft(req, FALSE)

\* sub_locate and ledger_has.  A ledger that cannot be read holds nothing.
Locate ==
  /\ req.pc = "locate"
  /\ \/ /\ mail[Draft] = Gone \/ Draft \in Range(ledger)
        /\ NotCreated
        /\ UNCHANGED <<used, excuse>>
     \/ /\ mail[Draft] # Gone
        /\ req' = [req EXCEPT !.pc = "admit", !.loc = mail[Draft]]
        /\ IF Draft \in Range(ledger) THEN Trouble /\ Excuse({Draft})
                                      ELSE UNCHANGED <<used, excuse>>
  /\ UNCHANGED <<files, queue, copies, told>>

\* The slots submit_queue reaps: done, and nobody waits for them.
Reap == [s \in Slots |-> IF slot[s].state = "done" /\ ~slot[s].waited
                         THEN Free ELSE slot[s]]

\* jmapd_read_file, the limits, the envelope, and the admission by submit_queue.
\* The file is read under the name found by sub_locate.
Admit ==
  LET free == {s \in Slots : Reap[s].state = "free"}
      fits == bytes + Size[Draft] <= QueueBytes
      sendable == mail[Draft] = req.loc /\ Size[Draft] <= QueueBytes
                  /\ Rcpts[Draft] > 0
  IN  /\ req.pc = "admit"
      /\ \/ ~sendable /\ NotCreated /\ UNCHANGED <<slot, bytes>>
         \/ /\ sendable /\ (free = {} \/ ~fits)
            /\ NotCreated /\ slot' = Reap /\ UNCHANGED bytes
         \/ /\ sendable /\ free # {} /\ fits
            /\ slot' = [Reap EXCEPT ![Min(free)] =
                          [Free EXCEPT !.state = "queued", !.waited = TRUE,
                                       !.email = Draft]]
            /\ bytes' = bytes + Size[Draft]
            /\ req' = [req EXCEPT !.pc = "wait", !.slot = Min(free)]
      /\ UNCHANGED <<files, stop, worker, used, seen>>

\* The verdict came in time: refused, or sent.
WaitDone ==
  /\ req.pc = "wait" /\ slot[req.slot].state = "done"
  /\ slot' = [slot EXCEPT ![req.slot] = Free]
  /\ IF slot[req.slot].ok
     THEN req' = [req EXCEPT !.pc = "peek", !.slot = 0, !.verdict = "sent"]
     ELSE NotCreated
  /\ UNCHANGED <<files, bytes, stop, worker, used, seen>>

BugSlotReused ==
  /\ req.pc = "wait" /\ slot[req.slot].state # "done"
  /\ slot' = [slot EXCEPT ![req.slot] = Free]
  /\ bytes' = bytes - (IF slot[req.slot].state = "queued" THEN Size[Draft] ELSE 0)
  /\ req' = [req EXCEPT !.pc = "peek", !.slot = 0, !.verdict = "late"]
  /\ UNCHANGED <<files, stop, worker, used, seen>>

BugWaitForever == FALSE /\ UNCHANGED vars

\* --submit-wait is over: the draft counts as sent and the slot is left behind.
WaitTimeout ==
  /\ req.pc = "wait" /\ slot[req.slot].state # "done"
  /\ slot' = [slot EXCEPT ![req.slot].waited = FALSE]
  /\ req' = [req EXCEPT !.pc = "peek", !.slot = 0, !.verdict = "late"]
  /\ UNCHANGED <<files, bytes, stop, worker, used, seen>>

-----------------------------------------------------------------------------
(* Filing in Sent, the ledger, and the implicit Email/set.                  *)

SentFlags(flags) == (flags \cup {"seen"}) \ {"draft"}

\* sub_move_to_sent looks for the draft where sub_locate found it.
Peek ==
  /\ req.pc = "peek"
  /\ req' = IF mail[Draft].box = req.loc.box
            THEN [req EXCEPT !.pc = "store", !.name = mail[Draft]]
            ELSE [req EXCEPT !.pc = "ledger"]
  /\ UNCHANGED <<files, queue, used, seen>>

\* imapd_mbox_store renames the file it saw to the keywords sub_locate saw plus
\* $seen without $draft; nobody looks at its failure.
Store ==
  LET new == [req.name EXCEPT !.flags = SentFlags(req.loc.flags)]
  IN  /\ req.pc = "store"
      /\ IF mail[Draft] = req.name
         THEN /\ mail' = [mail EXCEPT ![Draft] = new]
              /\ req' = [req EXCEPT !.pc = "move", !.name = new]
         ELSE /\ req' = [req EXCEPT !.pc = "move"]
              /\ UNCHANGED mail
      /\ UNCHANGED <<ledger, saved, queue, used, seen>>

\* imapd_mbox_file renames the file to Sent under the name last seen.
Move ==
  /\ req.pc = "move"
  /\ mail' = IF mail[Draft] = req.name THEN [mail EXCEPT ![Draft].box = "Sent"]
                                       ELSE mail
  /\ req' = [req EXCEPT !.pc = "ledger"]
  /\ UNCHANGED <<ledger, saved, queue, used, seen>>

BugNewest(l) == l

\* The newest LedgerMax ids.
Newest(l) == SubSeq(l, Max({1, Len(l) - LedgerMax + 1}), Len(l))

BugLedgerOnVerdict ==
  /\ req.pc = "ledger"
  /\ ledger' = IF req.verdict = "late" THEN ledger
               ELSE Newest(Append(ledger, Draft))
  /\ req' = NextDraft(req, TRUE)
  /\ UNCHANGED <<mail, saved, queue, used, seen>>

\* ledger_add.  When the new file cannot be written the old one stays; when the
\* old one cannot be opened it is taken for empty.  The draft gets its
\* submission id in any case.  What drops out of the ledger may be sent again.
Ledger ==
  /\ req.pc = "ledger"
  /\ \/ ledger' = Newest(Append(ledger, Draft)) /\ UNCHANGED used
     \/ ledger' = ledger /\ Trouble
     \/ ledger' = <<Draft>> /\ ledger # <<>> /\ Trouble
  /\ Excuse((Range(ledger) \cup {Draft}) \ Range(ledger'))
  /\ req' = NextDraft(req, TRUE)
  /\ UNCHANGED <<mail, saved, queue, copies, told>>

\* One onSuccessUpdateEmail patch (the one clients send: the draft belongs in
\* Sent, seen and no draft) or one onSuccessDestroyEmail id.
AfterSuccess ==
  LET e == Head(req.created)
  IN  /\ req.pc \in {"update", "destroy"}
      /\ mail' = [mail EXCEPT ![e] =
                    IF @ = Gone \/ req.pc = "destroy" THEN Gone
                    ELSE [box |-> "Sent", flags |-> SentFlags(@.flags)]]
      /\ req' = [req EXCEPT !.created = Tail(@),
                            !.pc = IF Len(req.created) = 1 THEN "finish" ELSE @]
      /\ UNCHANGED <<ledger, saved, queue, used, seen>>

Ids == [i \in 1 .. req.submission - saved |-> saved + i]

BugNoSave ==
  /\ req.pc = "finish"
  /\ told' = told \o Ids
  /\ req' = Idle
  /\ UNCHANGED <<files, queue, used, copies, excuse>>

\* jmapd_state_bump writes jmapd-state when something was sent, and the response
\* goes out.  A failed write is not noticed; its ids will be given again.
Finish ==
  /\ req.pc = "finish"
  /\ \/ saved' = req.submission /\ UNCHANGED used
     \/ saved' = saved /\ req.submission # saved /\ Trouble
  /\ told' = IF saved' = req.submission THEN told \o Ids ELSE <<>>
  /\ req' = Idle
  /\ UNCHANGED <<mail, ledger, queue, copies, excuse>>

Loop == Locate \/ Admit \/ WaitDone \/ WaitTimeout \/ Peek \/ Store \/ Move
        \/ Ledger \/ AfterSuccess \/ Finish

-----------------------------------------------------------------------------
(* imapd, the end of the daemon, and the specification.                     *)

\* imapd gives a draft a keyword, moves it or deletes it.
Other ==
  /\ Trouble
  /\ \E e \in Email :
       /\ mail[e] # Gone
       /\ \E new \in {[mail[e] EXCEPT !.flags = @ \cup {"flagged"}],
                      [mail[e] EXCEPT !.box = "Other"], Gone} :
            new # mail[e] /\ mail' = [mail EXCEPT ![e] = new]
  /\ UNCHANGED <<ledger, saved, queue, req, seen>>

\* A crash loses the queue and the request.  The draft in hand may have left
\* and is not in the ledger yet.
Crash ==
  /\ ~stop /\ Trouble
  /\ Excuse(IF req.pc \in {"wait", "peek", "store", "move", "ledger"}
            THEN {Draft} ELSE {})
  /\ slot' = [s \in Slots |-> Free] /\ bytes' = 0
  /\ worker' = Asleep /\ req' = Idle
  /\ UNCHANGED <<files, stop, copies, told>>

\* jmapd_submit_stop, once the poll loop has ended.
Stop ==
  /\ req = Idle /\ ~stop /\ stop' = TRUE
  /\ UNCHANGED <<files, slot, bytes, worker, req, used, seen>>

\* The worker is joined when it found no queued slot, and the slots are freed.
Joined ==
  /\ stop /\ worker = Asleep
  /\ \A s \in Slots : slot[s].state # "queued"
  /\ slot # [s \in Slots |-> Free] /\ slot' = [s \in Slots |-> Free]
  /\ UNCHANGED <<files, bytes, stop, worker, req, used, seen>>

Init ==
  /\ mail = [e \in Email |-> [box |-> "Drafts", flags |-> {"draft"}]]
  /\ ledger = <<>> /\ saved = 0
  /\ slot = [s \in Slots |-> Free] /\ bytes = 0 /\ stop = FALSE
  /\ worker = Asleep /\ req = Idle
  /\ used = [creates |-> 0, trouble |-> 0]
  /\ copies = [e \in Email |-> [i \in 1 .. Rcpts[e] |-> 0]]
  /\ excuse = [e \in Email |-> 0] /\ told = <<>>

Next == Worker \/ StartRequest \/ Loop \/ Other \/ Crash \/ Stop \/ Joined

Spec == Init /\ [][Next]_vars

\* The loop runs, and its wait ends by the clock; nothing is asked of the relay.
FairSpec == Spec /\ WF_vars(Loop)

-----------------------------------------------------------------------------
(* Properties.                                                              *)

Mail == [box : {"Drafts", "Sent", "Other", "gone"},
         flags : SUBSET {"draft", "seen", "flagged"}]

\* The state has the shape of the C structures and the files.
TypeOK ==
  /\ mail \in [Email -> Mail]
  /\ Range(ledger) \subseteq Email /\ Len(ledger) <= LedgerMax
  /\ saved \in Nat
  /\ slot \in [Slots -> [state : {"free", "queued", "running", "done"},
                         waited : BOOLEAN, email : Email \cup {"none"},
                         ok : BOOLEAN]]
  /\ bytes \in Nat /\ stop \in BOOLEAN
  /\ worker.slot \in Slots \cup {0} /\ worker.i \in Nat
  /\ req.pc \in {"idle", "locate", "admit", "wait", "peek", "store", "move",
                 "ledger", "update", "destroy", "finish"}
  /\ Range(req.todo) \cup Range(req.created) \subseteq Email
  /\ {req.loc, req.name} \subseteq Mail
  /\ req.slot \in Slots \cup {0} /\ req.submission \in Nat

\* The same draft reaches a recipient once, plus once for every event that the
\* ledger cannot cover: an answer of the relay that got lost, a crash between
\* the send and ledger_add, a ledger not read or not written, and a draft
\* pushed out of the ledger by newer ones.
AtMostOnce ==
  \A e \in Email : \A i \in 1 .. Rcpts[e] : copies[e][i] <= 1 + excuse[e]

\* What the relay took is in the ledger, unless its request is still at it or
\* one of those events happened: notCreated means that nothing was sent and that
\* the draft can be submitted again.
SentIsRecorded ==
  \A e \in Email :
    \/ e \in Range(ledger) \/ excuse[e] > 0
    \/ req.pc \in {"wait", "peek", "store", "move", "ledger"} /\ Draft = e
    \/ \A i \in 1 .. Rcpts[e] : copies[e][i] = 0

\* The octets of the queued messages: their number is what bytes has to be.
Octets(sl) == UNION {{s} \X (1 .. Size[sl[s].email]) :
                       s \in {q \in Slots : sl[q].state = "queued"}}

\* bytes is the size of the queued messages, and it keeps to its limit.
BytesExact == bytes = Cardinality(Octets(slot)) /\ bytes <= QueueBytes

\* The verdict a request gets is that of its own draft: the slot it waits on
\* holds its draft, no other slot is waited for, the worker's slot is running,
\* and no other slot is.
SlotOwned ==
  /\ \A s \in Slots : slot[s].waited <=> req.pc = "wait" /\ req.slot = s
  /\ req.pc = "wait" => /\ slot[req.slot].email = Draft
                        /\ slot[req.slot].state # "free"
  /\ \A s \in Slots : slot[s].state = "running" <=> worker.slot = s

\* A submission id is given to one submission only, as long as jmapd-state can
\* be written: the counter is saved before the response goes out.
IdsFresh == IsInjective(told)

\* The queue of slots at every moment: its structures are well formed, its byte
\* count is exact, every slot belongs to the request or the worker that uses
\* it, and no submission id is given twice (submit_queue, submit_worker).
SlotsSound == TypeOK /\ BytesExact /\ SlotOwned /\ IdsFresh

\* A request is answered whatever the relay does: the wait ends by the clock.
RequestAnswered == (req # Idle) ~> (req = Idle)

\* jmapd_submit_stop drains what is queued, if the worker runs.
QueueDrained ==
  WF_vars(Worker) => (stop ~> \A s \in Slots : slot[s].state # "queued")

\* Nobody waits for ever: neither the request for the worker, nor the stop for
\* the queue (submit_queue, jmapd_submit_stop).
RequestsSettle == RequestAnswered /\ QueueDrained

-----------------------------------------------------------------------------
(* The inductive invariant behind AtMostOnce, SentIsRecorded and SlotsSound *)

Slot == [state : {"free", "queued", "running", "done"}, waited : BOOLEAN,
         email : Email \cup {"none"}, ok : BOOLEAN]
Req  == [pc : {"idle", "locate", "admit", "wait", "peek", "store", "move",
               "ledger", "update", "destroy", "finish"},
         todo : Seq(Email), created : Seq(Email),
         after : {"update", "destroy", "finish"}, loc : Mail, name : Mail,
         slot : Slots \cup {0}, verdict : {"none", "sent", "late"},
         submission : Nat]

\* The state, in full.
Shape ==
  /\ mail \in [Email -> Mail] /\ saved \in Nat
  /\ ledger \in Seq(Email) /\ Len(ledger) <= LedgerMax
  /\ slot \in [Slots -> Slot] /\ bytes \in Nat /\ stop \in BOOLEAN
  /\ worker \in [slot : Slots \cup {0}, i : Nat] /\ req \in Req
  /\ DOMAIN copies = Email /\ \A e \in Email : copies[e] \in [1 .. Rcpts[e] -> Nat]
  /\ excuse \in [Email -> Nat] /\ told \in Seq(Nat)

\* Where the request is: it has a draft in hand, or something it created, its
\* counter starts from the one on disk, and none is left when the daemon stops.
Creating == {"locate", "admit", "wait", "peek", "store", "move", "ledger"}
ReqInv ==
  /\ req.pc \in Creating => req.todo # <<>>
  /\ req.pc \in {"update", "destroy"} => req.created # <<>>
  /\ req.pc # "idle" => req.submission >= saved /\ ~stop

\* The slots and their users.
OwnInv ==
  /\ SlotOwned /\ (req.pc = "wait" => req.slot \in Slots)
  /\ \A s \in Slots : slot[s].state # "free" => slot[s].email \in Email
  /\ worker.slot = 0 => worker = Asleep
  /\ worker.slot # 0 => worker.i > 0

BytesInv == IsFiniteSet(Octets(slot)) /\ BytesExact

\* The slots that may yet send draft e to its recipient i.
ToSend(sl, w, e, i) ==
  {s \in Slots : /\ sl[s].email = e
                 /\ \/ sl[s].state = "queued"
                    \/ sl[s].state = "running" /\ w.i <= i}

\* The one copy every draft may have is given out: it is in the ledger, or its
\* request is between the admission and the ledger.  An admission in spite of
\* the ledger has its excuse.
InHand(e)  == req.pc \in {"wait", "peek", "store", "move", "ledger"} /\ Draft = e
Granted(e) == InHand(e) \/ (e \in Range(ledger) /\ ~(req.pc = "admit" /\ Draft = e))

\* Every copy sent or still to be sent has its grant or its excuse; while the
\* request waits and no recipient is known to have it, the grant is unused.
OnceInv ==
  /\ \A e \in Email : \A i \in 1 .. Rcpts[e] :
       copies[e][i] + Cardinality(ToSend(slot, worker, e, i)) <=
         excuse[e] + (IF Granted(e) THEN 1 ELSE 0)
  /\ req.pc = "wait" /\ ~slot[req.slot].ok =>
       \A i \in 1 .. Rcpts[Draft] :
         copies[Draft][i] + Cardinality(ToSend(slot, worker, Draft, i) \ {req.slot}) <=
           excuse[Draft]

\* The submission ids given so far are below the counter on disk.
IdsInv == IdsFresh /\ \A k \in DOMAIN told : told[k] <= saved

IndInv == Shape /\ ReqInv /\ OwnInv /\ BytesInv /\ OnceInv /\ IdsInv
=============================================================================
