-------------------------- MODULE JmapSubmitProofs --------------------------
(***************************************************************************)
(* EmailSubmission/set for any drafts, numbers of recipients and slots,    *)
(* sizes, limits and number of troubles: nobody gets a draft twice without *)
(* a reason, what was sent is in the ledger, and the slots are sound.      *)
(***************************************************************************)
EXTENDS JmapSubmit, SequenceTheorems, FiniteSetTheorems, TLAPS

-----------------------------------------------------------------------------
(* What the helpers return                                                  *)

\* The first of some slots is one of them.
LEMMA FirstSlot == ASSUME NEW S \in SUBSET Slots, S # {} PROVE Min(S) \in S
<1>0. \A u, v \in Nat : u < v => <<u, v>> \in OpToRel(<, Nat)
  BY Zenon DEF OpToRel
<1>1. S \subseteq Nat
  BY SubmitAssumption DEF Slots
<1>2. PICK x \in S : \A y \in S : <<y, x>> \notin OpToRel(<, Nat)
  BY Zenon, <1>1, NatLessThanWellFounded, WFMin
<1>3. \A y \in S : ~(y < x)
  BY <1>0, <1>1, <1>2, Zenon
<1>4. \A y \in S : x <= y
  BY <1>1, <1>3
<1> QED
  BY Zenon, <1>4 DEF Min

\* 0 is no slot.
LEMMA ZeroIsNoSlot == 0 \notin Slots /\ Slots \subseteq Nat
BY SubmitAssumption DEF Slots

\* The records the code starts from.
LEMMA Typed == Free \in Slot /\ Gone \in Mail /\ Idle \in Req
               /\ Asleep \in [slot : Slots \cup {0}, i : Nat]
<1>1. Free \in Slot
  BY Zenon DEF Free, Slot
<1>2. Gone \in Mail
  BY Zenon DEF Gone, Mail
<1>3. <<>> \in Seq(Email)
  OBVIOUS
<1>4. Idle \in Req
  BY Zenon, <1>2, <1>3 DEF Idle, Req
<1>5. Asleep \in [slot : Slots \cup {0}, i : Nat]
  BY Zenon DEF Asleep
<1> QED
  BY Zenon, <1>1, <1>2, <1>4, <1>5

\* Done with a draft: the request goes on to the next one, to what it owes to
\* those it created, or to its end.
LEMMA NextDraftEffect ==
  ASSUME NEW r \in Req, r.todo # <<>>, NEW c \in BOOLEAN
  PROVE  LET n == NextDraft(r, c) IN
         /\ n \in Req /\ n.slot = 0
         /\ n.pc \in {"locate", "update", "destroy", "finish"}
         /\ n.pc = "locate" => n.todo # <<>>
         /\ n.pc \in {"update", "destroy"} => n.created # <<>>
         /\ n.submission >= r.submission
<1> DEFINE rest == Tail(r.todo)
           made == IF c THEN Append(r.created, Head(r.todo)) ELSE r.created
           sub  == r.submission + (IF c THEN 1 ELSE 0)
           pc   == IF rest # <<>> THEN "locate" ELSE IF made # <<>> THEN r.after ELSE "finish"
           n    == [r EXCEPT !.todo = rest, !.created = made, !.loc = Gone, !.name = Gone,
                             !.slot = 0, !.verdict = "none", !.submission = sub, !.pc = pc]
<1>1. rest \in Seq(Email) /\ Head(r.todo) \in Email
  BY Zenon, HeadTailProperties DEF Req
<1>2. made \in Seq(Email)
  BY Zenon, <1>1, AppendProperties DEF Req
<1>3. sub \in Nat /\ sub >= r.submission
  BY DEF Req
<1>4. /\ pc \in {"locate", "update", "destroy", "finish"}
      /\ pc = "locate" => rest # <<>>
      /\ pc \in {"update", "destroy"} => made # <<>>
  BY Zenon DEF Req
<1>5. NextDraft(r, c) = n
  BY Zenon DEF NextDraft
<1> HIDE DEF rest, made, sub, pc
<1>6. n \in Req
  BY <1>1, <1>2, <1>3, <1>4, Typed DEF Req
<1>7. n.pc = pc /\ n.todo = rest /\ n.created = made /\ n.submission = sub /\ n.slot = 0
  BY Zenon DEF Req
<1> HIDE DEF n
<1> QED
  BY Zenon, <1>3, <1>4, <1>5, <1>6, <1>7

-----------------------------------------------------------------------------
(* Counting bytes                                                           *)

\* The bytes do not change with what is not queued.
LEMMA OctetsSame ==
  ASSUME NEW a, NEW b,
         \A s \in Slots : a[s].state = "queued" <=> b[s].state = "queued",
         \A s \in Slots : a[s].state = "queued" => a[s].email = b[s].email
  PROVE  Octets(a) = Octets(b)
BY Zenon DEF Octets

\* A slot more in the queue adds the bytes of its message.
LEMMA OctetsOfOneMore ==
  ASSUME NEW a, NEW b, NEW s \in Slots, NEW e \in Email,
         b[s].state = "queued", b[s].email = e, a[s].state # "queued",
         \A t \in Slots \ {s} : a[t].state = "queued" <=> b[t].state = "queued",
         \A t \in Slots \ {s} : a[t].state = "queued" => a[t].email = b[t].email
  PROVE  /\ IsFiniteSet(Octets(a)) <=> IsFiniteSet(Octets(b))
         /\ IsFiniteSet(Octets(a)) => Cardinality(Octets(b)) = Cardinality(Octets(a)) + Size[e]
<1> DEFINE row == {s} \X (1 .. Size[e])
<1>1. Octets(b) = Octets(a) \cup row
  BY DEF Octets
<1>2. Octets(a) \cap row = {}
  BY DEF Octets
<1>3. Size[e] \in Nat \ {0}
  BY Zenon, SubmitAssumption
<1>4. IsFiniteSet(row) /\ Cardinality(row) = Size[e]
  <2>1. /\ IsFiniteSet(1 .. Size[e])
        /\ Cardinality(1 .. Size[e]) = IF 1 > Size[e] THEN 0 ELSE Size[e] - 1 + 1
    BY <1>3, FS_Interval, 1 \in Int
  <2>2. Cardinality(1 .. Size[e]) = Size[e]
    BY <1>3, <2>1
  <2>3. IsFiniteSet({s}) /\ Cardinality({s}) = 1
    BY Zenon, FS_Singleton
  <2>4. /\ IsFiniteSet(row)
        /\ Cardinality(row) = Cardinality({s}) * Cardinality(1 .. Size[e])
    BY Zenon, <2>1, <2>3, FS_Product
  <2> QED
    BY <1>3, <2>2, <2>3, <2>4
<1> HIDE DEF row
<1>5. IsFiniteSet(Octets(b)) => IsFiniteSet(Octets(a))
  BY Zenon, <1>1, FS_Subset
<1>6. ASSUME IsFiniteSet(Octets(a))
      PROVE  /\ IsFiniteSet(Octets(b))
             /\ Cardinality(Octets(b)) = Cardinality(Octets(a)) + Size[e]
  <2>1. Cardinality(Octets(a)) \in Nat
    BY Zenon, <1>6, FS_CardinalityType
  <2>2. /\ IsFiniteSet(Octets(a) \cup row)
        /\ Cardinality(Octets(a) \cup row) =
             Cardinality(Octets(a)) + Cardinality(row) - Cardinality(Octets(a) \cap row)
    BY Zenon, <1>4, <1>6, FS_Union
  <2>3. Cardinality(Octets(a) \cap row) = 0
    BY Zenon, <1>2, FS_EmptySet
  <2> QED
    BY <1>1, <1>3, <1>4, <2>1, <2>2, <2>3
<1> QED
  BY Zenon, <1>5, <1>6

-----------------------------------------------------------------------------
(* Counting copies                                                          *)

\* The slots that may yet send are finitely many; fewer are no more.
LEMMA SendersFinite ==
  ASSUME NEW sl, NEW w, NEW e, NEW i
  PROVE  /\ IsFiniteSet(ToSend(sl, w, e, i)) /\ Cardinality(ToSend(sl, w, e, i)) \in Nat
         /\ \A T \in SUBSET ToSend(sl, w, e, i) :
              /\ IsFiniteSet(T) /\ Cardinality(T) \in Nat
              /\ Cardinality(T) <= Cardinality(ToSend(sl, w, e, i))
         /\ \A s \in ToSend(sl, w, e, i) :
              Cardinality(ToSend(sl, w, e, i) \ {s}) = Cardinality(ToSend(sl, w, e, i)) - 1
<1> DEFINE S == ToSend(sl, w, e, i)
<1>1. IsFiniteSet(Slots)
  BY SubmitAssumption, FS_Interval DEF Slots
<1>2. S \subseteq Slots
  BY Zenon DEF ToSend
<1> HIDE DEF S
<1>3. IsFiniteSet(S) /\ Cardinality(S) \in Nat
  BY Zenon, <1>1, <1>2, FS_Subset, FS_CardinalityType
<1>4. \A T \in SUBSET S : /\ IsFiniteSet(T) /\ Cardinality(T) \in Nat
                          /\ Cardinality(T) <= Cardinality(S)
  BY Zenon, <1>3, FS_Subset, FS_CardinalityType
<1>5. \A s \in S : Cardinality(S \ {s}) = Cardinality(S) - 1
  BY Zenon, <1>3, FS_RemoveElement
<1> QED
  BY Zenon, <1>3, <1>4, <1>5 DEF S

\* The draft in hand is one of the account.
LEMMA DraftIsOne ==
  ASSUME Shape, req.todo # <<>>
  PROVE  Draft \in Email /\ Tail(req.todo) \in Seq(Email)
BY Zenon, HeadTailProperties DEF Shape, Req, Draft

\* The numbers OnceInv adds up.
LEMMA Numbers ==
  ASSUME Shape, NEW e \in Email
  PROVE  /\ excuse[e] \in Nat /\ Rcpts[e] \in Nat
         /\ \A i \in 1 .. Rcpts[e] : copies[e][i] \in Nat
BY Zenon, SubmitAssumption DEF Shape

\* A step that sends nothing, admits nothing, and takes back no grant without an
\* excuse.
LEMMA QuietOnce ==
  ASSUME Shape, ReqInv, OnceInv, copies' = copies, excuse' \in [Email -> Nat],
         \A e \in Email : \A i \in 1 .. Rcpts[e] :
           ToSend(slot', worker', e, i) \subseteq ToSend(slot, worker, e, i),
         \A e \in Email : excuse'[e] >= excuse[e],
         \A e \in Email : excuse'[e] > excuse[e] \/ (Granted(e) => Granted(e)'),
         req'.pc = "wait" => /\ req.pc = "wait" /\ req'.slot = req.slot /\ Draft' = Draft
                             /\ slot'[req.slot].ok = slot[req.slot].ok
  PROVE  OnceInv'
<1>1. ASSUME NEW e \in Email, NEW i \in 1 .. Rcpts[e]
      PROVE  copies'[e][i] + Cardinality(ToSend(slot', worker', e, i)) <=
               excuse'[e] + (IF Granted(e)' THEN 1 ELSE 0)
  <2> DEFINE S == ToSend(slot, worker, e, i)
             T == ToSend(slot', worker', e, i)
  <2>1. Cardinality(S) \in Nat /\ Cardinality(T) \in Nat /\ Cardinality(T) <= Cardinality(S)
    BY Zenon, SendersFinite
  <2>2. copies[e][i] + Cardinality(S) <= excuse[e] + (IF Granted(e) THEN 1 ELSE 0)
    BY Zenon DEF OnceInv
  <2> HIDE DEF S, T
  <2>3. excuse[e] \in Nat /\ excuse'[e] \in Nat /\ copies[e][i] \in Nat
    BY Zenon, Numbers
  <2>4. copies'[e][i] + Cardinality(T) <= excuse'[e] + (IF Granted(e)' THEN 1 ELSE 0)
    BY <2>1, <2>2, <2>3
  <2> QED
    BY Zenon, <2>4 DEF T
<1>2. ASSUME req'.pc = "wait", ~slot'[req'.slot].ok, NEW i \in 1 .. Rcpts[Draft']
      PROVE  copies'[Draft'][i] +
               Cardinality(ToSend(slot', worker', Draft', i) \ {req'.slot}) <= excuse'[Draft']
  <2> DEFINE S == ToSend(slot, worker, Draft, i) \ {req.slot}
             T == ToSend(slot', worker', Draft, i) \ {req.slot}
  <2>1. /\ req.pc = "wait" /\ req'.slot = req.slot /\ Draft' = Draft /\ ~slot[req.slot].ok
        /\ Draft \in Email
    BY Zenon, <1>2, DraftIsOne DEF ReqInv, Creating
  <2>2. copies[Draft][i] + Cardinality(S) <= excuse[Draft]
    BY Zenon, <1>2, <2>1 DEF OnceInv
  <2>3. T \subseteq S /\ S \subseteq ToSend(slot, worker, Draft, i)
    BY Zenon, <1>2, <2>1
  <2>4. IsFiniteSet(S) /\ Cardinality(S) \in Nat
    BY Zenon, <2>3, SendersFinite
  <2> HIDE DEF S, T
  <2>5. Cardinality(T) \in Nat /\ Cardinality(T) <= Cardinality(S)
    BY Zenon, <2>3, <2>4, FS_Subset, FS_CardinalityType
  <2>6. excuse[Draft] \in Nat /\ excuse'[Draft] \in Nat /\ copies[Draft][i] \in Nat
    BY Zenon, <1>2, <2>1, Numbers
  <2>7. copies'[Draft][i] + Cardinality(T) <= excuse'[Draft]
    BY <2>1, <2>2, <2>4, <2>5, <2>6
  <2> QED
    BY Zenon, <2>1, <2>7 DEF T
<1> QED
  BY Zenon, <1>1, <1>2 DEF OnceInv

-----------------------------------------------------------------------------
(* Steps beside the queue                                                   *)

\* A step that leaves the slots and the worker alone.
LEMMA CalmKeeps ==
  ASSUME IndInv, UNCHANGED <<slot, bytes, worker, copies>>, Shape', ReqInv', IdsInv',
         \/ UNCHANGED req
         \/ req.pc # "wait" /\ req'.pc # "wait",
         \A e \in Email : excuse'[e] >= excuse[e],
         \A e \in Email : excuse'[e] > excuse[e] \/ (Granted(e) => Granted(e)')
  PROVE  IndInv'
<1>1. OwnInv'
  <2>1. CASE UNCHANGED req
    BY Zenon, <2>1 DEF IndInv, OwnInv, SlotOwned, Draft
  <2>2. CASE req.pc # "wait" /\ req'.pc # "wait"
    BY Zenon, <2>2 DEF IndInv, OwnInv, SlotOwned
  <2> QED
    BY Zenon, <2>1, <2>2
<1>2. BytesInv'
  BY Zenon DEF IndInv, BytesInv, BytesExact
<1>3. OnceInv'
  <2>1. excuse' \in [Email -> Nat]
    BY Zenon DEF Shape
  <2>2. req'.pc = "wait" => /\ req.pc = "wait" /\ req'.slot = req.slot /\ Draft' = Draft
                            /\ slot'[req.slot].ok = slot[req.slot].ok
    BY Zenon DEF Draft
  <2> QED
    BY Zenon, <2>1, <2>2, QuietOnce DEF IndInv
<1> QED
  BY Zenon, <1>1, <1>2, <1>3 DEF IndInv

\* The observers of the ids do not change but at the end of a request.
LEMMA IdsStay == ASSUME IdsInv, UNCHANGED <<told, saved>> PROVE IdsInv'
BY Zenon DEF IdsInv, IdsFresh, IsInjective

\* An excuse is one more for each draft it is for.
LEMMA ExcuseEffect ==
  ASSUME excuse \in [Email -> Nat], NEW S, Excuse(S)
  PROVE  /\ excuse' \in [Email -> Nat]
         /\ \A e \in Email : /\ excuse'[e] >= excuse[e]
                             /\ e \in S => excuse'[e] > excuse[e]
<1>1. excuse' = [e \in Email |-> excuse[e] + IF e \in S THEN 1 ELSE 0]
  BY Zenon DEF Excuse
<1>2. \A e \in Email : excuse[e] \in Nat
  BY Zenon
<1>3. \A e \in Email : excuse'[e] = excuse[e] + IF e \in S THEN 1 ELSE 0
  BY Zenon, <1>1
<1>4. \A e \in Email : /\ excuse'[e] \in Nat /\ excuse'[e] >= excuse[e]
                       /\ e \in S => excuse'[e] > excuse[e]
  BY <1>2, <1>3
<1> QED
  BY Zenon, <1>1, <1>4

\* What a request asks for.
LEMMA StartRequestKeeps == ASSUME IndInv, StartRequest PROVE IndInv'
<1>1. PICK todo \in {<<e>> : e \in Email} \cup (Email \X Email),
           after \in {"update", "destroy"} :
        req' = [Idle EXCEPT !.pc = "locate", !.todo = todo, !.after = after,
                            !.submission = saved]
  BY Zenon DEF StartRequest
<1>2. todo \in Seq(Email) /\ todo # <<>>
  <2>1. CASE todo \in {<<e>> : e \in Email}
    <3>1. PICK e \in Email : todo = <<e>>
      BY Zenon, <2>1
    <3> QED
      BY <3>1
  <2>2. CASE todo \in Email \X Email
    <3>1. PICK d \in Email, e \in Email : todo = <<d, e>>
      BY <2>2
    <3> QED
      BY <3>1
  <2> QED
    BY Zenon, <2>1, <2>2
<1>3. /\ req = Idle /\ ~stop
      /\ UNCHANGED <<mail, ledger, saved, slot, bytes, stop, worker, copies, excuse, told>>
  BY Zenon DEF StartRequest, files, queue, seen
<1>4. saved \in Nat
  BY Zenon DEF IndInv, Shape
<1>5. /\ req' \in Req /\ req'.pc = "locate" /\ req'.todo = todo /\ req'.submission = saved
      /\ req.pc = "idle"
  BY Zenon, <1>1, <1>2, <1>3, <1>4, Typed DEF Idle, Req
<1>6. Shape'
  BY Zenon, <1>3, <1>5 DEF IndInv, Shape
<1>7. ReqInv'
  BY <1>2, <1>3, <1>4, <1>5 DEF ReqInv
<1>8. IdsInv'
  BY Zenon, <1>3, IdsStay DEF IndInv
<1>9. \A e \in Email : /\ excuse'[e] >= excuse[e]
                       /\ Granted(e) => Granted(e)'
  BY <1>3, <1>5 DEF Granted, InHand, IndInv, Shape
<1> QED
  BY Zenon, <1>3, <1>5, <1>6, <1>7, <1>8, <1>9, CalmKeeps

\* Done with a draft that has no grant: nothing was sent, or it is in the ledger.
LEMMA NotCreatedEffect ==
  ASSUME Shape, ReqInv, req.pc \in Creating, NotCreated,
         UNCHANGED <<saved, ledger, stop>>
  PROVE  /\ req' \in Req /\ ReqInv'
         /\ req'.pc \in {"locate", "update", "destroy", "finish"} /\ req'.slot = 0
         /\ \A e \in Email : Granted(e)' <=> e \in Range(ledger)
<1>1. req \in Req /\ req.todo # <<>> /\ req.submission >= saved /\ req.pc # "idle"
  BY Zenon DEF Shape, ReqInv, Creating
<1>2. req' = NextDraft(req, FALSE)
  BY Zenon DEF NotCreated
<1>3. /\ req' \in Req /\ req'.slot = 0
      /\ req'.pc \in {"locate", "update", "destroy", "finish"}
      /\ req'.pc = "locate" => req'.todo # <<>>
      /\ req'.pc \in {"update", "destroy"} => req'.created # <<>>
      /\ req'.submission >= req.submission
  BY Zenon, <1>1, <1>2, NextDraftEffect
<1>4. req'.submission >= saved'
  <2>1. req.submission \in Nat /\ req'.submission \in Nat /\ saved \in Nat
    BY Zenon, <1>1, <1>3 DEF Req, Shape
  <2> QED
    BY <1>1, <1>3, <2>1
<1>5. ReqInv'
  BY Zenon, <1>3, <1>4 DEF ReqInv, Creating
<1>6. \A e \in Email : Granted(e)' <=> e \in Range(ledger)
  <2>1. req'.pc \notin {"wait", "peek", "store", "move", "ledger", "admit"}
    BY Zenon, <1>3
  <2> QED
    BY Zenon, <2>1 DEF Granted, InHand
<1> QED
  BY Zenon, <1>3, <1>5, <1>6

\* sub_locate and ledger_has: a draft that is in the ledger goes on only with an
\* excuse.
LEMMA LocateKeeps == ASSUME IndInv, Locate PROVE IndInv'
<1>1. /\ req.pc = "locate" /\ req.pc \in Creating
      /\ UNCHANGED <<mail, ledger, saved, slot, bytes, stop, worker, copies, told>>
  BY Zenon DEF Locate, files, queue, Creating
<1>2. IdsInv'
  BY Zenon, <1>1, IdsStay DEF IndInv
<1>3. \A e \in Email : Granted(e) <=> e \in Range(ledger)
  BY Zenon, <1>1 DEF Granted, InHand
<1>4. CASE NotCreated /\ UNCHANGED <<used, excuse>>
  <2>1. /\ req' \in Req /\ ReqInv' /\ req'.pc # "wait"
        /\ \A e \in Email : Granted(e)' <=> e \in Range(ledger)
    BY Zenon, <1>1, <1>4, NotCreatedEffect DEF IndInv
  <2>2. Shape'
    BY Zenon, <1>1, <1>4, <2>1 DEF IndInv, Shape
  <2>3. \A e \in Email : excuse'[e] >= excuse[e]
    BY <1>4 DEF IndInv, Shape
  <2>4. \A e \in Email : Granted(e) => Granted(e)'
    BY Zenon, <1>3, <2>1
  <2> QED
    BY Zenon, <1>1, <1>2, <2>1, <2>2, <2>3, <2>4, CalmKeeps
<1>5. CASE /\ req' = [req EXCEPT !.pc = "admit", !.loc = mail[Draft]]
           /\ IF Draft \in Range(ledger) THEN Trouble /\ Excuse({Draft})
                                         ELSE UNCHANGED <<used, excuse>>
  <2>0. req \in Req /\ req.todo # <<>> /\ req.submission >= saved /\ ~stop
    BY Zenon, <1>1 DEF IndInv, Shape, ReqInv
  <2>1. Draft \in Email
    BY Zenon, <2>0, DraftIsOne DEF IndInv
  <2>2. mail[Draft] \in Mail
    BY Zenon, <2>1 DEF IndInv, Shape
  <2>3. /\ req' \in Req /\ req'.pc = "admit" /\ req'.todo = req.todo
        /\ req'.submission = req.submission
    BY Zenon, <1>5, <2>0, <2>2 DEF Req
  <2>4. ReqInv'
    BY Zenon, <1>1, <2>0, <2>3 DEF ReqInv
  <2>5. /\ excuse' \in [Email -> Nat]
        /\ \A e \in Email : /\ excuse'[e] >= excuse[e]
                            /\ e = Draft /\ e \in Range(ledger) => excuse'[e] > excuse[e]
    <3>0. excuse \in [Email -> Nat]
      BY Zenon DEF IndInv, Shape
    <3>1. CASE Draft \in Range(ledger)
      BY Zenon, <1>5, <3>0, <3>1, ExcuseEffect
    <3>2. CASE Draft \notin Range(ledger)
      BY <1>5, <3>0, <3>2
    <3> QED
      BY Zenon, <3>1, <3>2
  <2>6. Shape'
    BY Zenon, <1>1, <2>3, <2>5 DEF IndInv, Shape
  <2>7. Draft' = Draft
    BY Zenon, <2>3 DEF Draft
  <2>8. \A e \in Email : excuse'[e] > excuse[e] \/ (Granted(e) => Granted(e)')
    BY Zenon, <1>1, <1>3, <2>3, <2>5, <2>7 DEF Granted, InHand
  <2>9. req.pc # "wait" /\ req'.pc # "wait"
    BY Zenon, <1>1, <2>3
  <2> QED
    BY Zenon, <1>1, <1>2, <2>4, <2>5, <2>6, <2>8, <2>9, CalmKeeps
<1> QED
  BY Zenon, <1>4, <1>5 DEF Locate

\* The steps that file a draft in Sent, and those that change the mailbox after
\* it, leave the grant where it is.
LEMMA FilingKeeps ==
  ASSUME IndInv, Peek \/ Store \/ Move
  PROVE  IndInv'
<1>1. /\ req.pc \in {"peek", "store", "move"}
      /\ UNCHANGED <<ledger, saved, slot, bytes, stop, worker, copies, excuse, told>>
  BY Zenon DEF Peek, Store, Move, files, queue, seen
<1>2. req \in Req /\ req.todo # <<>> /\ req.submission >= saved /\ ~stop
  BY Zenon, <1>1 DEF IndInv, Shape, ReqInv, Creating
<1>3. Draft \in Email /\ mail[Draft] \in Mail /\ mail \in [Email -> Mail]
      /\ req.name \in Mail /\ req.loc \in Mail
  BY Zenon, <1>2, DraftIsOne DEF IndInv, Shape, Req
<1>4. SentFlags(req.loc.flags) \subseteq {"draft", "seen", "flagged"}
  BY Zenon, <1>3 DEF SentFlags, Mail
<1>5. /\ mail' \in [Email -> Mail] /\ req' \in Req
      /\ req'.pc \in {"store", "move", "ledger"} /\ req'.todo = req.todo
      /\ req'.submission = req.submission
  <2>1. CASE Peek
    BY Zenon, <1>2, <1>3, <2>1 DEF Peek, files, Req
  <2>2. CASE Store
    <3> DEFINE new == [req.name EXCEPT !.flags = SentFlags(req.loc.flags)]
    <3>1. new \in Mail
      BY Zenon, <1>3, <1>4 DEF Mail
    <3>2. /\ mail' \in {mail, [mail EXCEPT ![Draft] = new]}
          /\ req' \in {[req EXCEPT !.pc = "move", !.name = new], [req EXCEPT !.pc = "move"]}
      BY Zenon, <2>2 DEF Store
    <3> HIDE DEF new
    <3>3. mail' \in [Email -> Mail]
      BY Zenon, <1>3, <3>1, <3>2
    <3>4. /\ req' \in Req /\ req'.pc = "move" /\ req'.todo = req.todo
          /\ req'.submission = req.submission
      BY <1>2, <3>1, <3>2 DEF Req
    <3> QED
      BY Zenon, <3>3, <3>4
  <2>3. CASE Move
    <3>1. /\ mail' \in {mail, [mail EXCEPT ![Draft].box = "Sent"]}
          /\ req' = [req EXCEPT !.pc = "ledger"]
      BY Zenon, <2>3 DEF Move
    <3>2. mail' \in [Email -> Mail]
      BY <1>3, <3>1 DEF Mail
    <3>3. /\ req' \in Req /\ req'.pc = "ledger" /\ req'.todo = req.todo
          /\ req'.submission = req.submission
      BY Zenon, <1>2, <3>1 DEF Req
    <3> QED
      BY Zenon, <3>2, <3>3
  <2> QED
    BY Zenon, <2>1, <2>2, <2>3
<1>6. Shape'
  BY Zenon, <1>1, <1>5 DEF IndInv, Shape
<1>7. ReqInv'
  BY Zenon, <1>1, <1>2, <1>5 DEF ReqInv
<1>8. IdsInv'
  BY Zenon, <1>1, IdsStay DEF IndInv
<1>9. Draft' = Draft
  BY Zenon, <1>5 DEF Draft
<1>10. \A e \in Email : Granted(e) => Granted(e)'
  BY Zenon, <1>1, <1>5, <1>9 DEF Granted, InHand
<1>11. \A e \in Email : excuse'[e] >= excuse[e]
  BY <1>1 DEF IndInv, Shape
<1>12. req.pc # "wait" /\ req'.pc # "wait"
  BY Zenon, <1>1, <1>5
<1> QED
  BY Zenon, <1>1, <1>6, <1>7, <1>8, <1>10, <1>11, <1>12, CalmKeeps

\* imapd changes a draft, and jmapd_submit_stop is called.
LEMMA BesideKeeps == ASSUME IndInv, Other \/ Stop PROVE IndInv'
<1>1. /\ UNCHANGED <<ledger, saved, slot, bytes, worker, req, copies, excuse, told>>
      /\ stop' \in BOOLEAN /\ (stop' = stop \/ req.pc = "idle")
  <2>1. CASE Other
    BY Zenon, <2>1 DEF Other, queue, seen, IndInv, Shape
  <2>2. CASE Stop
    BY Zenon, <2>2 DEF Stop, files, seen, Idle
  <2> QED
    BY Zenon, <2>1, <2>2
<1>2. mail' \in [Email -> Mail]
  <2>0. mail \in [Email -> Mail]
    BY Zenon DEF IndInv, Shape
  <2>1. CASE Other
    <3>1. PICK e \in Email :
            \E new \in {[mail[e] EXCEPT !.flags = @ \cup {"flagged"}],
                        [mail[e] EXCEPT !.box = "Other"], Gone} :
              mail' = [mail EXCEPT ![e] = new]
      BY Zenon, <2>1 DEF Other
    <3>2. PICK new \in {[mail[e] EXCEPT !.flags = @ \cup {"flagged"}],
                        [mail[e] EXCEPT !.box = "Other"], Gone} :
            mail' = [mail EXCEPT ![e] = new]
      BY Zenon, <3>1
    <3>3. new \in Mail
      BY <2>0, <3>2, Typed DEF Mail
    <3> QED
      BY Zenon, <2>0, <3>2, <3>3
  <2>2. CASE Stop
    BY Zenon, <2>0, <2>2 DEF Stop, files
  <2> QED
    BY Zenon, <2>1, <2>2
<1>3. Shape'
  BY Zenon, <1>1, <1>2 DEF IndInv, Shape
<1>4. ReqInv'
  BY Zenon, <1>1 DEF IndInv, ReqInv
<1>5. IdsInv'
  BY Zenon, <1>1, IdsStay DEF IndInv
<1>6. \A e \in Email : excuse'[e] >= excuse[e] /\ (Granted(e) => Granted(e)')
  BY <1>1 DEF Granted, InHand, Draft, IndInv, Shape
<1> QED
  BY Zenon, <1>1, <1>3, <1>4, <1>5, <1>6, CalmKeeps

\* The implicit Email/set.
LEMMA AfterSuccessKeeps == ASSUME IndInv, AfterSuccess PROVE IndInv'
<1> DEFINE e == Head(req.created)
<1>1. /\ req.pc \in {"update", "destroy"}
      /\ UNCHANGED <<ledger, saved, slot, bytes, stop, worker, copies, excuse, told>>
  BY Zenon DEF AfterSuccess, queue, seen
<1>2. req \in Req /\ req.created # <<>> /\ req.submission >= saved /\ ~stop
  BY Zenon, <1>1 DEF IndInv, Shape, ReqInv
<1>3. /\ e \in Email /\ Tail(req.created) \in Seq(Email)
      /\ Len(req.created) # 1 => Tail(req.created) # <<>>
  <2>1. req.created \in Seq(Email)
    BY Zenon, <1>2 DEF Req
  <2>2. /\ e \in Email /\ Tail(req.created) \in Seq(Email)
        /\ Len(Tail(req.created)) = Len(req.created) - 1 /\ Len(req.created) \in Nat
    BY Zenon, <1>2, <2>1, HeadTailProperties, LenProperties
  <2>3. Tail(req.created) = <<>> => Len(Tail(req.created)) = 0
    BY EmptySeq, Zenon
  <2>4. Tail(req.created) = <<>> => Len(req.created) = 1
    BY <2>2, <2>3
  <2> QED
    BY Zenon, <2>2, <2>4
<1>4. mail' \in [Email -> Mail]
  <2>0. mail \in [Email -> Mail]
    BY Zenon DEF IndInv, Shape
  <2> DEFINE new == IF mail[e] = Gone \/ req.pc = "destroy" THEN Gone
                    ELSE [box |-> "Sent", flags |-> SentFlags(mail[e].flags)]
  <2>1. new \in Mail
    BY Zenon, <1>3, <2>0, Typed DEF Mail, SentFlags
  <2>2. mail' = [mail EXCEPT ![e] = new]
    BY Zenon DEF AfterSuccess
  <2> HIDE DEF new
  <2> QED
    BY Zenon, <2>0, <2>1, <2>2
<1>5. /\ req' \in Req /\ req'.pc \in {"update", "destroy", "finish"}
      /\ req'.pc # "finish" => req'.created # <<>>
      /\ req'.submission = req.submission
  <2>1. req' = [req EXCEPT !.created = Tail(req.created),
                           !.pc = IF Len(req.created) = 1 THEN "finish" ELSE req.pc]
    BY Zenon, <1>2 DEF AfterSuccess, Req
  <2>2. req'.pc \in {"update", "destroy", "finish"} /\ req' \in Req
        /\ req'.created = Tail(req.created) /\ req'.submission = req.submission
        /\ (req'.pc # "finish" => Len(req.created) # 1)
    BY Zenon, <1>1, <1>2, <1>3, <2>1 DEF Req
  <2> QED
    BY Zenon, <1>3, <2>2
<1>6. Shape'
  BY Zenon, <1>1, <1>4, <1>5 DEF IndInv, Shape
<1>7. ReqInv'
  BY Zenon, <1>1, <1>2, <1>5 DEF ReqInv, Creating
<1>8. IdsInv'
  BY Zenon, <1>1, IdsStay DEF IndInv
<1>9. \A d \in Email : excuse'[d] >= excuse[d] /\ (Granted(d) => Granted(d)')
  BY <1>1, <1>5 DEF Granted, InHand, IndInv, Shape
<1>10. req.pc # "wait" /\ req'.pc # "wait"
  BY Zenon, <1>1, <1>5
<1> QED
  BY Zenon, <1>1, <1>6, <1>7, <1>8, <1>9, <1>10, CalmKeeps

\* ledger_add: what is in the ledger keeps its grant, what is not any more has
\* an excuse.
LEMMA LedgerKeeps == ASSUME IndInv, Ledger PROVE IndInv'
<1>1. /\ req.pc = "ledger" /\ req' = NextDraft(req, TRUE)
      /\ Excuse((Range(ledger) \cup {Draft}) \ Range(ledger'))
      /\ UNCHANGED <<mail, saved, slot, bytes, stop, worker, copies, told>>
  BY Zenon DEF Ledger, queue
<1>2. req \in Req /\ req.todo # <<>> /\ req.submission >= saved /\ ~stop
  BY Zenon, <1>1 DEF IndInv, Shape, ReqInv, Creating
<1>3. Draft \in Email /\ ledger \in Seq(Email) /\ Len(ledger) <= LedgerMax
  BY Zenon, <1>2, DraftIsOne DEF IndInv, Shape
<1>4. ledger' \in Seq(Email) /\ Len(ledger') <= LedgerMax
  <2>1. CASE ledger' = Newest(Append(ledger, Draft))
    <3> DEFINE l == Append(ledger, Draft)
               m == Max({1, Len(l) - LedgerMax + 1})
    <3>1. /\ l \in Seq(Email) /\ Len(l) \in Nat /\ Len(l) >= 1
          /\ \A k \in 1 .. Len(l) : l[k] \in Email
      BY <1>3, AppendProperties, ElementOfSeq, LenProperties
    <3> HIDE DEF l
    <3>2. LedgerMax \in Nat \ {0}
      BY Zenon, SubmitAssumption
    <3>3. m \in Int /\ m >= 1 /\ m >= Len(l) - LedgerMax + 1
      <4> DEFINE n == Len(l) - LedgerMax + 1
                 top == IF n <= 1 THEN 1 ELSE n
      <4>1. n \in Int
        BY <3>1, <3>2
      <4>2. top \in {1, n} /\ \A y \in {1, n} : top >= y
        BY <4>1
      <4> HIDE DEF n, top
      <4>3. Max({1, n}) \in {1, n} /\ \A y \in {1, n} : Max({1, n}) >= y
        BY <4>2, Zenon DEF Max
      <4> QED
        BY <4>1, <4>3 DEF n
    <3> HIDE DEF m
    <3>4. \A k \in m .. Len(l) : l[k] \in Email
      BY <3>1, <3>3
    <3>5. /\ SubSeq(l, m, Len(l)) \in Seq(Email)
          /\ Len(SubSeq(l, m, Len(l))) = IF m <= Len(l) THEN Len(l) - m + 1 ELSE 0
      BY <3>1, <3>3, <3>4, SubSeqProperties
    <3>6. Len(SubSeq(l, m, Len(l))) <= LedgerMax
      BY <3>1, <3>2, <3>3, <3>5
    <3>7. ledger' = SubSeq(l, m, Len(l))
      BY Zenon, <2>1 DEF Newest, l, m
    <3> QED
      BY Zenon, <3>5, <3>6, <3>7
  <2>2. CASE ledger' = ledger
    BY Zenon, <1>3, <2>2
  <2>3. CASE ledger' = <<Draft>>
    <3>1. ledger' \in Seq(Email) /\ Len(ledger') = 1
      BY <1>3, <2>3
    <3> QED
      BY <3>1, SubmitAssumption
  <2> QED
    BY Zenon, <2>1, <2>2, <2>3 DEF Ledger
<1>5. /\ req' \in Req /\ req'.pc \in {"locate", "update", "destroy", "finish"}
      /\ req'.pc = "locate" => req'.todo # <<>>
      /\ req'.pc \in {"update", "destroy"} => req'.created # <<>>
      /\ req'.submission >= req.submission
  BY Zenon, <1>1, <1>2, NextDraftEffect
<1>6. ReqInv'
  <2>1. req.submission \in Nat /\ req'.submission \in Nat /\ saved \in Nat
    BY Zenon, <1>2, <1>5 DEF Req, IndInv, Shape
  <2>2. saved' = saved
    BY <1>1, Zenon
  <2>3. req'.submission >= saved
    BY <1>2, <1>5, <2>1
  <2>4. req'.submission >= saved'
    BY <2>2, <2>3, Zenon
  <2> QED
    BY Zenon, <1>1, <1>2, <1>5, <2>4 DEF ReqInv, Creating
<1>7. /\ excuse' \in [Email -> Nat]
      /\ \A e \in Email : /\ excuse'[e] >= excuse[e]
                          /\ e \in (Range(ledger) \cup {Draft}) \ Range(ledger') =>
                               excuse'[e] > excuse[e]
  <2>1. excuse \in [Email -> Nat]
    BY Zenon DEF IndInv, Shape
  <2> QED
    BY Zenon, <1>1, <2>1, ExcuseEffect
<1>8. Shape'
  BY Zenon, <1>1, <1>4, <1>5, <1>7 DEF IndInv, Shape
<1>9. IdsInv'
  BY Zenon, <1>1, IdsStay DEF IndInv
<1>10. \A e \in Email : excuse'[e] > excuse[e] \/ (Granted(e) => Granted(e)')
  <2> SUFFICES ASSUME NEW e \in Email, Granted(e), ~(excuse'[e] > excuse[e])
               PROVE  Granted(e)'
    BY Zenon
  <2>1. e \in Range(ledger) \cup {Draft}
    BY Zenon DEF Granted, InHand
  <2>2. e \in Range(ledger')
    BY Zenon, <1>7, <2>1
  <2> QED
    BY Zenon, <1>5, <2>2 DEF Granted, Range
<1>11. req.pc # "wait" /\ req'.pc # "wait"
  BY Zenon, <1>1, <1>5
<1> QED
  BY Zenon, <1>1, <1>6, <1>7, <1>8, <1>9, <1>10, <1>11, CalmKeeps

\* Two intervals from 1 are the same when their ends are.
LEMMA SameLength == \A a, b \in Nat : 1 .. a = 1 .. b => a = b
<1> SUFFICES ASSUME NEW a \in Nat, NEW b \in Nat, 1 .. a = 1 .. b, a # b PROVE FALSE
  BY Zenon
<1>1. CASE a < b
  <2>1. b \in 1 .. b /\ b \notin 1 .. a
    BY <1>1
  <2> QED
    BY <2>1, Zenon
<1>2. CASE b < a
  <2>1. a \in 1 .. a /\ a \notin 1 .. b
    BY <1>2
  <2> QED
    BY <2>1, Zenon
<1> QED
  BY <1>1, <1>2

\* The counter is on disk before the response goes out: its ids are new.
LEMMA FinishKeeps == ASSUME IndInv, Finish PROVE IndInv'
<1>1. /\ req.pc = "finish" /\ req' = Idle /\ saved' \in {saved, req.submission}
      /\ told' = IF saved' = req.submission THEN told \o Ids ELSE <<>>
      /\ UNCHANGED <<mail, ledger, slot, bytes, stop, worker, copies, excuse>>
  BY Zenon DEF Finish, queue
<1>2. /\ req.submission \in Nat /\ saved \in Nat /\ req.submission >= saved
      /\ told \in Seq(Nat) /\ IdsInv
  BY Zenon, <1>1 DEF IndInv, Shape, ReqInv, Req
<1>3. req' \in Req /\ req'.pc = "idle"
  BY Zenon, <1>1, Typed DEF Idle
<1>4. told' \in Seq(Nat) /\ IdsInv'
  <2>1. CASE saved' = req.submission
    <3> DEFINE n == req.submission - saved
               m == Len(told)
    <3>1. n \in Nat /\ m \in Nat /\ DOMAIN told = 1 .. m /\ \A k \in 1 .. m : told[k] \in Nat
      BY <1>2, LenProperties, ElementOfSeq
    <3>2. Ids = [i \in 1 .. n |-> saved + i]
      BY Zenon DEF Ids
    <3>5. told' = told \o Ids
      BY Zenon, <1>1, <2>1
    <3> HIDE DEF n
    <3>3. Ids \in Seq(Nat) /\ Len(Ids) = n /\ \A i \in 1 .. n : Ids[i] = saved + i
      <4>1. Ids \in [1 .. n -> Nat] /\ \A i \in 1 .. n : Ids[i] = saved + i
        BY <1>2, <3>1, <3>2
      <4>2. Ids \in Seq(Nat)
        BY Zenon, <3>1, <4>1, SeqDef
      <4>3. Len(Ids) \in Nat /\ DOMAIN Ids = 1 .. Len(Ids) /\ DOMAIN Ids = 1 .. n
        BY Zenon, <4>1, <4>2, LenProperties
      <4>4. Len(Ids) = n
        BY <3>1, <4>3, SameLength, Zenon
      <4> QED
        BY Zenon, <4>1, <4>2, <4>4
    <3>4. /\ told \o Ids \in Seq(Nat) /\ Len(told \o Ids) = m + n
          /\ \A k \in 1 .. m + n : (told \o Ids)[k] = IF k <= m THEN told[k] ELSE Ids[k - m]
      <4>1. /\ told \o Ids \in Seq(Nat) /\ Len(told \o Ids) = Len(told) + Len(Ids)
            /\ \A k \in 1 .. Len(told) + Len(Ids) :
                 (told \o Ids)[k] = IF k <= Len(told) THEN told[k] ELSE Ids[k - Len(told)]
        BY Zenon, <1>2, <3>3, ConcatProperties
      <4> QED
        BY <3>3, <4>1, Zenon
    <3> HIDE DEF m
    <3>6. /\ told' \in Seq(Nat) /\ DOMAIN told' = 1 .. m + n
          /\ \A k \in 1 .. m : told'[k] = told[k] /\ told[k] <= saved
          /\ \A k \in m + 1 .. m + n : told'[k] = saved + (k - m)
      <4>1. DOMAIN told' = 1 .. m + n /\ told' \in Seq(Nat)
        BY Zenon, <3>4, <3>5, LenProperties
      <4>2. \A k \in 1 .. m : told'[k] = told[k]
        BY <3>1, <3>4, <3>5
      <4>3. \A k \in 1 .. m : told[k] <= saved
        BY Zenon, <1>2, <3>1 DEF IdsInv
      <4>4. \A k \in m + 1 .. m + n : told'[k] = saved + (k - m)
        <5> SUFFICES ASSUME NEW k \in m + 1 .. m + n PROVE told'[k] = saved + (k - m)
          BY Zenon
        <5>1. k \in 1 .. m + n /\ ~(k <= m) /\ k - m \in 1 .. n
          BY <3>1
        <5> QED
          BY Zenon, <3>3, <3>4, <3>5, <5>1
      <4> QED
        BY Zenon, <4>1, <4>2, <4>3, <4>4
    <3>7. \A j, k \in 1 .. m : told[j] = told[k] => j = k
      BY Zenon, <1>2, <3>1 DEF IdsInv, IdsFresh, IsInjective
    <3>8. \A j, k \in 1 .. m + n : told'[j] = told'[k] => j = k
      <4> SUFFICES ASSUME NEW j \in 1 .. m + n, NEW k \in 1 .. m + n, told'[j] = told'[k]
                   PROVE  j = k
        BY Zenon
      <4>1. CASE j <= m /\ k <= m
        BY <3>1, <3>6, <3>7, <4>1
      <4>2. CASE j > m /\ k > m
        BY <1>2, <3>1, <3>6, <4>2
      <4>3. CASE j <= m /\ k > m
        <5>1. told'[j] <= saved /\ told'[k] = saved + (k - m) /\ told'[j] \in Nat
          BY <3>1, <3>6, <4>3
        <5> QED
          BY <1>2, <3>1, <4>3, <5>1
      <4>4. CASE j > m /\ k <= m
        <5>1. told'[k] <= saved /\ told'[j] = saved + (j - m) /\ told'[k] \in Nat
          BY <3>1, <3>6, <4>4
        <5> QED
          BY <1>2, <3>1, <4>4, <5>1
      <4> QED
        BY <3>1, <4>1, <4>2, <4>3, <4>4
    <3>9. \A k \in 1 .. m + n : told'[k] <= saved'
      <4> SUFFICES ASSUME NEW k \in 1 .. m + n PROVE told'[k] <= saved'
        BY Zenon
      <4>0. saved' = saved + n
        BY <1>2, <2>1 DEF n
      <4>1. CASE k <= m
        <5>1. told'[k] = told[k] /\ told[k] <= saved /\ told[k] \in Nat
          BY <3>1, <3>6, <4>1
        <5> QED
          BY <1>2, <3>1, <4>0, <5>1
      <4>2. CASE k > m
        <5>1. told'[k] = saved + (k - m)
          BY <3>1, <3>6, <4>2
        <5> QED
          BY <1>2, <3>1, <4>0, <5>1
      <4> QED
        BY <3>1, <4>1, <4>2
    <3> QED
      BY Zenon, <3>6, <3>8, <3>9 DEF IdsInv, IdsFresh, IsInjective
  <2>2. CASE saved' # req.submission
    <3>1. told' = <<>>
      BY Zenon, <1>1, <2>2
    <3> QED
      BY <3>1 DEF IdsInv, IdsFresh, IsInjective
  <2> QED
    BY Zenon, <2>1, <2>2
<1>5. Shape'
  BY Zenon, <1>1, <1>2, <1>3, <1>4 DEF IndInv, Shape
<1>6. ReqInv'
  BY Zenon, <1>3 DEF ReqInv, Creating
<1>7. \A e \in Email : excuse'[e] >= excuse[e] /\ (Granted(e) => Granted(e)')
  BY <1>1, <1>3 DEF Granted, InHand, IndInv, Shape
<1>8. req.pc # "wait" /\ req'.pc # "wait"
  BY Zenon, <1>1, <1>3
<1> QED
  BY Zenon, <1>1, <1>4, <1>5, <1>6, <1>7, <1>8, CalmKeeps

-----------------------------------------------------------------------------
(* The queue                                                                *)

\* A step of the queue that sends and admits nothing.
LEMMA QueueKeeps ==
  ASSUME IndInv, Shape', ReqInv', OwnInv', BytesInv', UNCHANGED <<saved, copies, told>>,
         \A e \in Email : \A i \in 1 .. Rcpts[e] :
           ToSend(slot', worker', e, i) \subseteq ToSend(slot, worker, e, i),
         \A e \in Email : excuse'[e] >= excuse[e],
         \A e \in Email : excuse'[e] > excuse[e] \/ (Granted(e) => Granted(e)'),
         req'.pc = "wait" => /\ req.pc = "wait" /\ req'.slot = req.slot /\ Draft' = Draft
                             /\ slot'[req.slot].ok = slot[req.slot].ok
  PROVE  IndInv'
<1>1. IdsInv'
  BY Zenon, IdsStay DEF IndInv
<1>2. excuse' \in [Email -> Nat]
  BY Zenon DEF Shape
<1>3. OnceInv'
  BY Zenon, <1>2, QuietOnce DEF IndInv
<1> QED
  BY Zenon, <1>1, <1>3 DEF IndInv

\* --submit-wait is over.
LEMMA WaitTimeoutKeeps == ASSUME IndInv, WaitTimeout PROVE IndInv'
<1> DEFINE a == req.slot
<1>1. /\ req.pc = "wait" /\ slot' = [slot EXCEPT ![a].waited = FALSE]
      /\ req' = [req EXCEPT !.pc = "peek", !.slot = 0, !.verdict = "late"]
      /\ UNCHANGED <<mail, ledger, saved, bytes, stop, worker, copies, excuse, told>>
  BY Zenon DEF WaitTimeout, files, seen
<1>2. /\ req \in Req /\ req.todo # <<>> /\ req.submission >= saved /\ ~stop
      /\ slot \in [Slots -> Slot] /\ a \in Slots
  BY Zenon, <1>1 DEF IndInv, Shape, ReqInv, OwnInv, Creating
<1>3. /\ req' \in Req /\ req'.pc = "peek" /\ req'.todo = req.todo
      /\ req'.submission = req.submission
  BY Zenon, <1>1, <1>2 DEF Req
<1> HIDE DEF a
<1>4. /\ slot' \in [Slots -> Slot] /\ slot'[a].waited = FALSE
      /\ \A s \in Slots : /\ slot'[s].state = slot[s].state /\ slot'[s].email = slot[s].email
                          /\ s # a => slot'[s] = slot[s]
  BY <1>1, <1>2 DEF Slot
<1>5. Shape'
  BY Zenon, <1>1, <1>3, <1>4 DEF IndInv, Shape
<1>6. ReqInv'
  BY Zenon, <1>1, <1>2, <1>3 DEF ReqInv
<1>7. OwnInv'
  BY <1>1, <1>3, <1>4 DEF IndInv, OwnInv, SlotOwned, a
<1>8. BytesInv'
  <2>1. Octets(slot') = Octets(slot)
    BY Zenon, <1>4, OctetsSame
  <2> QED
    BY Zenon, <1>1, <2>1 DEF IndInv, BytesInv, BytesExact
<1>9. \A e \in Email : \A i \in 1 .. Rcpts[e] :
        ToSend(slot', worker', e, i) \subseteq ToSend(slot, worker, e, i)
  BY Zenon, <1>1, <1>4 DEF ToSend
<1>10. Draft' = Draft
  BY Zenon, <1>3 DEF Draft
<1>11. \A e \in Email : excuse'[e] >= excuse[e] /\ (Granted(e) => Granted(e)')
  BY <1>1, <1>3, <1>10 DEF Granted, InHand, IndInv, Shape
<1> QED
  BY Zenon, <1>1, <1>3, <1>5, <1>6, <1>7, <1>8, <1>9, <1>11, QueueKeeps

\* submit_worker is at a slot, and there is a draft in it.
LEMMA WorkerAt ==
  ASSUME IndInv, worker # Asleep
  PROVE  /\ worker.slot \in Slots /\ slot[worker.slot].state = "running"
         /\ slot[worker.slot].email \in Email /\ slot \in [Slots -> Slot]
         /\ worker.i \in Nat \ {0} /\ worker = [slot |-> worker.slot, i |-> worker.i]
<1>1. worker \in [slot : Slots \cup {0}, i : Nat] /\ slot \in [Slots -> Slot]
  BY Zenon DEF IndInv, Shape
<1>2. worker.slot \in Slots
  BY Zenon, <1>1 DEF IndInv, OwnInv
<1>3. slot[worker.slot].state = "running"
  BY Zenon, <1>2 DEF IndInv, OwnInv, SlotOwned
<1>4. slot[worker.slot].email \in Email
  BY Zenon, <1>2, <1>3 DEF IndInv, OwnInv
<1>5. worker.i \in Nat \ {0}
  BY <1>1, <1>2, ZeroIsNoSlot DEF IndInv, OwnInv
<1> QED
  BY Zenon, <1>1, <1>2, <1>3, <1>4, <1>5

\* The verdict is published.
LEMMA VerdictKeeps == ASSUME IndInv, Verdict PROVE IndInv'
<1> DEFINE a == worker.slot
<1>1. /\ worker # Asleep /\ slot' = [slot EXCEPT ![a].state = "done"] /\ worker' = Asleep
      /\ UNCHANGED <<mail, ledger, saved, bytes, stop, req, copies, excuse, told>>
  BY Zenon DEF Verdict, files, seen
<1>2. a \in Slots /\ slot[a].state = "running" /\ slot[a].email \in Email /\ slot \in [Slots -> Slot]
  BY Zenon, <1>1, WorkerAt
<1>3. worker'.slot = 0 /\ worker' \in [slot : Slots \cup {0}, i : Nat]
  BY Zenon, <1>1, Typed DEF Asleep
<1> HIDE DEF a
<1>4. /\ slot' \in [Slots -> Slot] /\ slot'[a].state = "done" /\ slot'[a].email = slot[a].email
      /\ \A s \in Slots : /\ slot'[s].waited = slot[s].waited /\ slot'[s].ok = slot[s].ok
                          /\ slot'[s].email = slot[s].email
                          /\ s # a => slot'[s] = slot[s]
  BY Zenon, <1>1, <1>2 DEF Slot
<1>5. Shape'
  BY Zenon, <1>1, <1>3, <1>4 DEF IndInv, Shape
<1>6. ReqInv'
  BY Zenon, <1>1 DEF IndInv, ReqInv
<1>7. OwnInv'
  <2>1. \A s \in Slots : slot'[s].state # "running"
    BY <1>4 DEF IndInv, OwnInv, SlotOwned, a
  <2>2. \A s \in Slots : slot'[s].state = "free" => slot[s].state = "free"
    BY Zenon, <1>4
  <2>3. Draft' = Draft
    BY Zenon, <1>1 DEF Draft
  <2>4. SlotOwned' /\ (req'.pc = "wait" => req'.slot \in Slots)
    BY <1>1, <1>3, <1>4, <2>1, <2>2, <2>3, ZeroIsNoSlot DEF IndInv, OwnInv, SlotOwned
  <2>5. \A s \in Slots : slot'[s].state # "free" => slot'[s].email \in Email
    BY Zenon, <1>2, <1>4 DEF IndInv, OwnInv
  <2> QED
    BY Zenon, <1>1, <1>3, <2>4, <2>5 DEF OwnInv
<1>8. BytesInv'
  <2>1. Octets(slot') = Octets(slot)
    BY <1>2, <1>4, OctetsSame
  <2> QED
    BY Zenon, <1>1, <2>1 DEF IndInv, BytesInv, BytesExact
<1>9. \A e \in Email : \A i \in 1 .. Rcpts[e] :
        ToSend(slot', worker', e, i) \subseteq ToSend(slot, worker, e, i)
  <2>1. \A s \in Slots : slot'[s].state # "running" /\ (slot'[s].state = "queued" => slot' [s] = slot[s])
    BY <1>4 DEF IndInv, OwnInv, SlotOwned, a
  <2> QED
    BY Zenon, <2>1 DEF ToSend
<1>10. Draft' = Draft /\ \A e \in Email : excuse'[e] >= excuse[e] /\ (Granted(e) => Granted(e)')
  BY <1>1 DEF Granted, InHand, IndInv, Shape, Draft
<1>11. req'.pc = "wait" => slot'[req.slot].ok = slot[req.slot].ok
  BY Zenon, <1>1, <1>4 DEF IndInv, OwnInv
<1> QED
  BY Zenon, <1>1, <1>5, <1>6, <1>7, <1>8, <1>9, <1>10, <1>11, QueueKeeps

\* submit_worker takes the first queued slot; its bytes leave the queue.
LEMMA TakeKeeps == ASSUME IndInv, Take PROVE IndInv'
<1> DEFINE queued == {s \in Slots : slot[s].state = "queued"}
           a == Min(queued)
<1>1. /\ worker = Asleep /\ queued # {} /\ slot' = [slot EXCEPT ![a].state = "running"]
      /\ bytes' = bytes - Size[slot[a].email] /\ worker' = [slot |-> a, i |-> 1]
      /\ UNCHANGED <<mail, ledger, saved, stop, req, copies, excuse, told>>
  BY Zenon DEF Take, files, seen
<1>2. a \in Slots /\ slot[a].state = "queued" /\ slot[a].email \in Email
      /\ slot \in [Slots -> Slot]
  <2>1. a \in queued
    BY Zenon, <1>1, FirstSlot
  <2> QED
    BY Zenon, <2>1 DEF IndInv, OwnInv, Shape
<1> HIDE DEF queued, a
<1>3. /\ worker'.slot = a /\ worker'.i = 1 /\ worker.slot = 0
      /\ worker' \in [slot : Slots \cup {0}, i : Nat]
  BY Zenon, <1>1, <1>2 DEF Asleep
<1>4. /\ slot' \in [Slots -> Slot] /\ slot'[a].state = "running"
      /\ \A s \in Slots : /\ slot'[s].waited = slot[s].waited /\ slot'[s].ok = slot[s].ok
                          /\ slot'[s].email = slot[s].email
                          /\ s # a => slot'[s] = slot[s]
  BY Zenon, <1>1, <1>2 DEF Slot
<1>5. \A s \in Slots : slot[s].state # "running"
  BY Zenon, <1>3, ZeroIsNoSlot DEF IndInv, OwnInv, SlotOwned
<1>6. BytesInv' /\ bytes' \in Nat
  <2>1. /\ IsFiniteSet(Octets(slot')) <=> IsFiniteSet(Octets(slot))
        /\ IsFiniteSet(Octets(slot')) =>
             Cardinality(Octets(slot)) = Cardinality(Octets(slot')) + Size[slot[a].email]
    BY <1>2, <1>4, OctetsOfOneMore
  <2>2. IsFiniteSet(Octets(slot)) /\ bytes = Cardinality(Octets(slot)) /\ bytes <= QueueBytes
    BY Zenon DEF IndInv, BytesInv, BytesExact
  <2>3. Cardinality(Octets(slot')) \in Nat /\ Size[slot[a].email] \in Nat /\ QueueBytes \in Nat
    BY Zenon, <1>2, <2>1, <2>2, FS_CardinalityType, SubmitAssumption
  <2>4. bytes' = bytes - Size[slot[a].email]
    BY <1>1, Zenon
  <2>5. bytes' = Cardinality(Octets(slot')) /\ bytes' <= QueueBytes /\ bytes' \in Nat
    BY <2>1, <2>2, <2>3, <2>4
  <2> QED
    BY Zenon, <2>1, <2>2, <2>5 DEF BytesInv, BytesExact
<1>7. Shape'
  BY Zenon, <1>1, <1>3, <1>4, <1>6 DEF IndInv, Shape
<1>8. ReqInv'
  BY Zenon, <1>1 DEF IndInv, ReqInv
<1>9. OwnInv'
  <2>1. \A s \in Slots : slot'[s].state = "running" <=> worker'.slot = s
    BY Zenon, <1>3, <1>4, <1>5
  <2>2. \A s \in Slots : slot'[s].state = "free" => slot[s].state = "free"
    BY Zenon, <1>4
  <2>3. Draft' = Draft
    BY Zenon, <1>1 DEF Draft
  <2>4. SlotOwned' /\ (req'.pc = "wait" => req'.slot \in Slots)
    BY <1>1, <1>4, <2>1, <2>2, <2>3 DEF IndInv, OwnInv, SlotOwned
  <2>5. \A s \in Slots : slot'[s].state # "free" => slot'[s].email \in Email
    BY Zenon, <1>2, <1>4 DEF IndInv, OwnInv
  <2>6. worker'.slot # 0 /\ worker'.i > 0
    BY <1>2, <1>3, ZeroIsNoSlot
  <2> QED
    BY Zenon, <2>4, <2>5, <2>6 DEF OwnInv
<1>10. \A e \in Email : \A i \in 1 .. Rcpts[e] :
        ToSend(slot', worker', e, i) \subseteq ToSend(slot, worker, e, i)
  <2>1. \A s \in Slots : slot'[s].state = "running" => slot[s].state = "queued"
    BY Zenon, <1>2, <1>4, <1>5
  <2>2. \A s \in Slots : slot'[s].state = "queued" => slot[s].state = "queued"
    BY Zenon, <1>4
  <2> QED
    BY Zenon, <1>4, <2>1, <2>2 DEF ToSend
<1>11. Draft' = Draft /\ \A e \in Email : excuse'[e] >= excuse[e] /\ (Granted(e) => Granted(e)')
  BY <1>1 DEF Granted, InHand, IndInv, Shape, Draft
<1>12. req'.pc = "wait" => slot'[req.slot].ok = slot[req.slot].ok
  BY Zenon, <1>1, <1>4 DEF IndInv, OwnInv
<1> QED
  BY Zenon, <1>1, <1>6, <1>7, <1>8, <1>9, <1>10, <1>11, <1>12, QueueKeeps

\* A queue without jobs.
LEMMA NoJobs ==
  LET none == [s \in Slots |-> Free]
  IN  /\ none \in [Slots -> Slot] /\ Octets(none) = {}
      /\ IsFiniteSet(Octets(none)) /\ Cardinality(Octets(none)) = 0
      /\ \A s \in Slots : /\ none[s].state = "free" /\ none[s].waited = FALSE
                          /\ none[s].state # "running" /\ none[s].state # "queued"
<1> DEFINE none == [s \in Slots |-> Free]
<1>1. /\ none \in [Slots -> Slot]
      /\ \A s \in Slots : none[s] = Free
  BY Zenon, Typed
<1> HIDE DEF none
<1>2. \A s \in Slots : /\ none[s].state = "free" /\ none[s].waited = FALSE
                       /\ none[s].state # "running" /\ none[s].state # "queued"
  BY <1>1 DEF Free
<1>3. Octets(none) = {}
  BY Zenon, <1>2 DEF Octets
<1>4. IsFiniteSet(Octets(none)) /\ Cardinality(Octets(none)) = 0
  BY Zenon, <1>3, FS_EmptySet
<1> QED
  BY Zenon, <1>1, <1>2, <1>3, <1>4 DEF none

\* A crash takes the jobs and the request; the draft in hand has its excuse.
LEMMA CrashKeeps == ASSUME IndInv, Crash PROVE IndInv'
<1>1. /\ Excuse(IF req.pc \in {"wait", "peek", "store", "move", "ledger"} THEN {Draft} ELSE {})
      /\ slot' = [s \in Slots |-> Free] /\ bytes' = 0 /\ worker' = Asleep /\ req' = Idle
      /\ UNCHANGED <<mail, ledger, saved, stop, copies, told>>
  BY Zenon DEF Crash, files
<1>2. /\ excuse' \in [Email -> Nat]
      /\ \A e \in Email : excuse'[e] >= excuse[e] /\ (InHand(e) => excuse'[e] > excuse[e])
  <2>1. excuse \in [Email -> Nat]
    BY Zenon DEF IndInv, Shape
  <2>2. \A e \in Email : InHand(e) =>
          e \in IF req.pc \in {"wait", "peek", "store", "move", "ledger"} THEN {Draft} ELSE {}
    BY Zenon DEF InHand
  <2> QED
    BY Zenon, <1>1, <2>1, <2>2, ExcuseEffect
<1>3. /\ slot' \in [Slots -> Slot]
      /\ IsFiniteSet(Octets(slot')) /\ Cardinality(Octets(slot')) = 0
      /\ \A s \in Slots : /\ slot'[s].state = "free" /\ slot'[s].waited = FALSE
                          /\ slot'[s].state # "running" /\ slot'[s].state # "queued"
  BY Zenon, <1>1, NoJobs
<1>4. /\ req' \in Req /\ req'.pc = "idle" /\ worker'.slot = 0
      /\ worker' \in [slot : Slots \cup {0}, i : Nat]
  BY Zenon, <1>1, Typed DEF Idle, Asleep
<1>5. Shape'
  BY Zenon, <1>1, <1>2, <1>3, <1>4 DEF IndInv, Shape
<1>6. ReqInv'
  BY Zenon, <1>4 DEF ReqInv, Creating
<1>7. OwnInv'
  BY Zenon, <1>1, <1>3, <1>4, ZeroIsNoSlot DEF OwnInv, SlotOwned
<1>8. BytesInv'
  BY <1>1, <1>3, SubmitAssumption DEF BytesInv, BytesExact
<1>9. \A e \in Email : \A i \in 1 .. Rcpts[e] :
        ToSend(slot', worker', e, i) \subseteq ToSend(slot, worker, e, i)
  BY Zenon, <1>3 DEF ToSend
<1>10. \A e \in Email : excuse'[e] > excuse[e] \/ (Granted(e) => Granted(e)')
  <2>1. \A e \in Email : Granted(e)' <=> e \in Range(ledger)
    BY Zenon, <1>1, <1>4 DEF Granted, InHand
  <2> QED
    BY Zenon, <1>2, <2>1 DEF Granted
<1> QED
  BY Zenon, <1>1, <1>2, <1>4, <1>5, <1>6, <1>7, <1>8, <1>9, <1>10, QueueKeeps

\* The slots are freed once the worker is joined: nothing is queued any more.
LEMMA JoinedKeeps == ASSUME IndInv, Joined PROVE IndInv'
<1>1. /\ stop /\ worker = Asleep /\ slot' = [s \in Slots |-> Free]
      /\ \A s \in Slots : slot[s].state # "queued"
      /\ UNCHANGED <<mail, ledger, saved, bytes, stop, worker, req, copies, excuse, told>>
  BY Zenon DEF Joined, files, seen
<1>2. req.pc = "idle" /\ worker.slot = 0
  BY Zenon, <1>1 DEF IndInv, ReqInv, Asleep
<1>3. /\ slot' \in [Slots -> Slot]
      /\ \A s \in Slots : /\ slot'[s].state = "free" /\ slot'[s].waited = FALSE
                          /\ slot'[s].state # "running" /\ slot'[s].state # "queued"
  BY Zenon, <1>1, NoJobs
<1>4. Shape'
  BY Zenon, <1>1, <1>3 DEF IndInv, Shape
<1>5. ReqInv'
  BY Zenon, <1>1 DEF IndInv, ReqInv
<1>6. OwnInv'
  BY Zenon, <1>1, <1>2, <1>3, ZeroIsNoSlot DEF OwnInv, SlotOwned
<1>7. BytesInv'
  <2>1. Octets(slot') = Octets(slot)
    BY Zenon, <1>1, <1>3, OctetsSame
  <2> QED
    BY Zenon, <1>1, <2>1 DEF IndInv, BytesInv, BytesExact
<1>8. \A e \in Email : \A i \in 1 .. Rcpts[e] :
        ToSend(slot', worker', e, i) \subseteq ToSend(slot, worker, e, i)
  BY Zenon, <1>3 DEF ToSend
<1>9. \A e \in Email : excuse'[e] >= excuse[e] /\ (Granted(e) => Granted(e)')
  BY <1>1 DEF Granted, InHand, IndInv, Shape, Draft
<1> QED
  BY Zenon, <1>1, <1>2, <1>4, <1>5, <1>6, <1>7, <1>8, <1>9, QueueKeeps

\* The verdict came in time.  Nobody is known to have a refused draft: its grant
\* was not used, and is not needed any more.
LEMMA WaitDoneKeeps == ASSUME IndInv, WaitDone PROVE IndInv'
<1> DEFINE a == req.slot
<1>1. /\ req.pc = "wait" /\ slot[a].state = "done" /\ slot' = [slot EXCEPT ![a] = Free]
      /\ UNCHANGED <<mail, ledger, saved, bytes, stop, worker, copies, excuse, told>>
  BY Zenon DEF WaitDone, files, seen
<1>2. /\ req \in Req /\ req.todo # <<>> /\ req.submission >= saved /\ ~stop
      /\ slot \in [Slots -> Slot] /\ a \in Slots /\ req.pc \in Creating
  BY Zenon, <1>1 DEF IndInv, Shape, ReqInv, OwnInv, Creating
<1>3. Draft \in Email
  BY Zenon, <1>2, DraftIsOne DEF IndInv
<1> HIDE DEF a
<1>4. /\ slot' \in [Slots -> Slot] /\ slot'[a] = Free
      /\ \A s \in Slots : s # a => slot'[s] = slot[s]
  BY Zenon, <1>1, <1>2, Typed
<1>5. slot'[a].state = "free" /\ slot'[a].waited = FALSE
  BY <1>4 DEF Free
<1>6. ASSUME req'.pc # "wait" PROVE OwnInv'
  <2>1. \A s \in Slots : slot'[s].waited = FALSE
    BY <1>1, <1>4, <1>5 DEF IndInv, OwnInv, SlotOwned, a, Shape, Slot
  <2>2. \A s \in Slots : slot'[s].state = "running" <=> worker'.slot = s
    BY Zenon, <1>1, <1>4, <1>5 DEF IndInv, OwnInv, SlotOwned
  <2>3. \A s \in Slots : slot'[s].state # "free" => slot'[s].email \in Email
    BY Zenon, <1>4, <1>5 DEF IndInv, OwnInv
  <2> QED
    BY <1>1, <1>6, <2>1, <2>2, <2>3 DEF IndInv, OwnInv, SlotOwned
<1>7. BytesInv'
  <2>1. Octets(slot') = Octets(slot)
    BY Zenon, <1>1, <1>4, <1>5, OctetsSame
  <2> QED
    BY Zenon, <1>1, <2>1 DEF IndInv, BytesInv, BytesExact
<1>8. \A e \in Email : \A i \in 1 .. Rcpts[e] :
        ToSend(slot', worker', e, i) \subseteq ToSend(slot, worker, e, i) \ {a}
  BY Zenon, <1>1, <1>4, <1>5 DEF ToSend
<1>9. CASE slot[a].ok
  <2>1. req' = [req EXCEPT !.pc = "peek", !.slot = 0, !.verdict = "sent"]
    BY Zenon, <1>9 DEF WaitDone, a
  <2>2. /\ req' \in Req /\ req'.pc = "peek" /\ req'.todo = req.todo
        /\ req'.submission = req.submission
    BY Zenon, <1>2, <2>1 DEF Req
  <2>3. Shape'
    BY Zenon, <1>1, <1>4, <2>2 DEF IndInv, Shape
  <2>4. ReqInv'
    BY Zenon, <1>1, <1>2, <2>2 DEF ReqInv
  <2>5. Draft' = Draft
    BY Zenon, <2>2 DEF Draft
  <2>6. \A e \in Email : excuse'[e] >= excuse[e] /\ (Granted(e) => Granted(e)')
    BY <1>1, <2>2, <2>5 DEF Granted, InHand, IndInv, Shape
  <2>7. req'.pc # "wait"
    BY Zenon, <2>2
  <2> QED
    BY Zenon, <1>1, <1>6, <1>7, <1>8, <2>3, <2>4, <2>6, <2>7, QueueKeeps
<1>10. CASE ~slot[a].ok
  <2>1. NotCreated
    BY Zenon, <1>10 DEF WaitDone, a
  <2>2. /\ req' \in Req /\ ReqInv' /\ req'.pc # "wait"
        /\ \A e \in Email : Granted(e)' <=> e \in Range(ledger)
    BY Zenon, <1>1, <1>2, <2>1, NotCreatedEffect DEF IndInv
  <2>3. Shape'
    BY Zenon, <1>1, <1>4, <2>2 DEF IndInv, Shape
  <2>4. IdsInv'
    BY Zenon, <1>1, IdsStay DEF IndInv
  <2>5. ASSUME NEW e \in Email, NEW i \in 1 .. Rcpts[e]
        PROVE  copies'[e][i] + Cardinality(ToSend(slot', worker', e, i)) <=
                 excuse'[e] + (IF Granted(e)' THEN 1 ELSE 0)
    <3> DEFINE S == ToSend(slot, worker, e, i)
               U == S \ {a}
               T == ToSend(slot', worker', e, i)
               g == IF Granted(e)' THEN 1 ELSE 0
    <3>1. /\ Cardinality(S) \in Nat /\ IsFiniteSet(U) /\ Cardinality(U) \in Nat
          /\ Cardinality(U) <= Cardinality(S)
      BY Zenon, SendersFinite
    <3>2. excuse[e] \in Nat /\ copies[e][i] \in Nat
      BY Zenon, Numbers DEF IndInv
    <3>3. g \in {0, 1}
      BY Zenon
    <3>4. T \subseteq U
      BY Zenon, <1>8
    <3>5. copies[e][i] + Cardinality(U) <= excuse[e] + g
      <4>1. CASE e = Draft
        <5>1. copies[e][i] + Cardinality(U) <= excuse[e]
          BY Zenon, <1>1, <1>10, <4>1 DEF IndInv, OnceInv, a
        <5> HIDE DEF S, U, g
        <5> QED
          BY <3>1, <3>2, <3>3, <5>1
      <4>2. CASE e # Draft
        <5>1. copies[e][i] + Cardinality(S) <= excuse[e] + (IF Granted(e) THEN 1 ELSE 0)
          BY Zenon DEF IndInv, OnceInv
        <5>2. Granted(e) <=> Granted(e)'
          BY Zenon, <1>1, <2>2, <4>2 DEF Granted, InHand
        <5>3. (IF Granted(e) THEN 1 ELSE 0) = g
          BY Zenon, <5>2
        <5> HIDE DEF S, U, g
        <5> QED
          BY <3>1, <3>2, <3>3, <5>1, <5>3
      <4> QED
        BY Zenon, <4>1, <4>2
    <3> HIDE DEF S, U, T, g
    <3>6. Cardinality(T) \in Nat /\ Cardinality(T) <= Cardinality(U)
      BY Zenon, <3>1, <3>4, FS_Subset, FS_CardinalityType
    <3>7. copies[e][i] + Cardinality(T) <= excuse[e] + g
      BY <3>1, <3>2, <3>3, <3>5, <3>6
    <3> QED
      BY Zenon, <1>1, <3>7 DEF T, g
  <2>6. OnceInv'
    BY Zenon, <2>2, <2>5 DEF OnceInv
  <2> QED
    BY Zenon, <1>6, <1>7, <2>2, <2>3, <2>4, <2>6 DEF IndInv
<1> QED
  BY Zenon, <1>9, <1>10

\* The slots after reaping.
LEMMA ReapEffect ==
  ASSUME IndInv
  PROVE  /\ Reap \in [Slots -> Slot]
         /\ \A s \in Slots : /\ Reap[s].waited = slot[s].waited
                             /\ Reap[s].state = "queued" <=> slot[s].state = "queued"
                             /\ Reap[s].state = "running" <=> slot[s].state = "running"
                             /\ Reap[s].state # "free" => Reap[s] = slot[s]
                             /\ slot[s].waited => Reap[s] = slot[s]
<1>1. slot \in [Slots -> Slot]
  BY Zenon DEF IndInv, Shape
<1>2. \A s \in Slots : Reap[s] = IF slot[s].state = "done" /\ ~slot[s].waited
                                 THEN Free ELSE slot[s]
  BY Zenon DEF Reap
<1>3. Reap \in [Slots -> Slot]
  BY Zenon, <1>1, Typed DEF Reap
<1>4. ASSUME NEW s \in Slots
      PROVE  /\ Reap[s].waited = slot[s].waited
             /\ Reap[s].state = "queued" <=> slot[s].state = "queued"
             /\ Reap[s].state = "running" <=> slot[s].state = "running"
             /\ Reap[s].state # "free" => Reap[s] = slot[s]
             /\ slot[s].waited => Reap[s] = slot[s]
  <2>1. CASE slot[s].state = "done" /\ ~slot[s].waited
    <3>1. Reap[s] = Free
      BY Zenon, <1>2, <2>1
    <3>2. slot[s].waited = FALSE
      BY Zenon, <1>1, <2>1 DEF Slot
    <3>3. Reap[s].state = "free" /\ Reap[s].waited = FALSE
      BY <3>1 DEF Free
    <3>4. /\ Reap[s].state = "queued" <=> slot[s].state = "queued"
          /\ Reap[s].state = "running" <=> slot[s].state = "running"
      BY Zenon, <2>1, <3>3
    <3> QED
      BY Zenon, <3>2, <3>3, <3>4
  <2>2. CASE ~(slot[s].state = "done" /\ ~slot[s].waited)
    <3>1. Reap[s] = slot[s]
      BY Zenon, <1>2, <2>2
    <3> QED
      BY Zenon, <3>1
  <2> QED
    BY Zenon, <2>1, <2>2
<1> QED
  BY Zenon, <1>3, <1>4

\* submit_queue admits a draft: it takes the slot, its bytes and the grant of the
\* draft, which nothing has used.
LEMMA AdmittedKeeps ==
  ASSUME IndInv, req.pc = "admit", NEW f \in Slots, Reap[f].state = "free",
         bytes + Size[Draft] <= QueueBytes,
         slot' \in [Slots -> Slot], \A s \in Slots \ {f} : slot'[s] = Reap[s],
         slot'[f].state = "queued", slot'[f].waited = TRUE, slot'[f].email = Draft,
         bytes' = bytes + Size[Draft],
         req' = [req EXCEPT !.pc = "wait", !.slot = f],
         UNCHANGED <<mail, ledger, saved, stop, worker, copies, excuse, told>>
  PROVE  IndInv'
<1>1. req \in Req /\ req.todo # <<>> /\ req.submission >= saved /\ ~stop /\ Draft \in Email
  BY Zenon, DraftIsOne DEF IndInv, Shape, ReqInv, Creating
<1>5. \A s \in Slots : /\ slot[s].waited = FALSE
                       /\ Reap[s].waited = FALSE
  <2>1. \A s \in Slots : slot[s].waited \in BOOLEAN /\ ~slot[s].waited
    BY Zenon DEF IndInv, Shape, Slot, OwnInv, SlotOwned
  <2>2. \A s \in Slots : Reap[s].waited = slot[s].waited
    BY Zenon, ReapEffect
  <2> QED
    BY Zenon, <2>1, <2>2
<1>6. slot[f].state # "queued" /\ slot[f].state # "running"
  BY Zenon, ReapEffect
<1>7. /\ req' \in Req /\ req'.pc = "wait" /\ req'.todo = req.todo /\ req'.slot = f
      /\ req'.submission = req.submission
  BY Zenon, <1>1 DEF Req
<1>8. Draft' = Draft
  BY Zenon, <1>7 DEF Draft
<1>9. BytesInv' /\ bytes' \in Nat
  <2>1. /\ slot'[f].state = "queued" /\ slot'[f].email = Draft
        /\ \A t \in Slots \ {f} : slot[t].state = "queued" <=> slot'[t].state = "queued"
        /\ \A t \in Slots \ {f} : slot[t].state = "queued" => slot[t].email = slot'[t].email
    BY ReapEffect
  <2>2. /\ IsFiniteSet(Octets(slot)) <=> IsFiniteSet(Octets(slot'))
        /\ IsFiniteSet(Octets(slot)) =>
             Cardinality(Octets(slot')) = Cardinality(Octets(slot)) + Size[Draft]
    BY Zenon, <1>1, <1>6, <2>1, OctetsOfOneMore
  <2>3. IsFiniteSet(Octets(slot)) /\ bytes = Cardinality(Octets(slot)) /\ bytes \in Nat
    BY Zenon DEF IndInv, BytesInv, BytesExact, Shape
  <2>4. Size[Draft] \in Nat
    BY Zenon, <1>1, SubmitAssumption
  <2>5. bytes' = Cardinality(Octets(slot')) /\ bytes' <= QueueBytes
    BY Zenon, <2>2, <2>3
  <2>6. bytes' \in Nat
    BY <2>3, <2>4
  <2> QED
    BY Zenon, <2>2, <2>3, <2>5, <2>6 DEF BytesInv, BytesExact
<1>10. Shape'
  BY Zenon, <1>7, <1>9 DEF IndInv, Shape
<1>11. ReqInv'
  BY Zenon, <1>1, <1>7 DEF ReqInv
<1>12. OwnInv'
  <2>1. \A s \in Slots : slot'[s].waited <=> s = f
    BY Zenon, <1>5
  <2>2. \A s \in Slots : slot'[s].state = "running" <=> slot[s].state = "running"
    BY Zenon, <1>6, ReapEffect
  <2>3. \A s \in Slots : slot'[s].state # "free" => slot'[s].email \in Email
    BY <1>1, ReapEffect DEF IndInv, OwnInv
  <2>4. SlotOwned'
    <3>1. \A s \in Slots : slot'[s].waited <=> (req'.pc = "wait" /\ req'.slot = s)
      BY Zenon, <1>7, <2>1
    <3>2. slot'[req'.slot].email = Draft' /\ slot'[req'.slot].state # "free"
      BY Zenon, <1>7, <1>8
    <3>3. \A s \in Slots : slot'[s].state = "running" <=> worker'.slot = s
      BY Zenon, <2>2 DEF IndInv, OwnInv, SlotOwned
    <3> QED
      BY Zenon, <3>1, <3>2, <3>3 DEF SlotOwned
  <2> QED
    BY Zenon, <1>7, <2>3, <2>4 DEF IndInv, OwnInv
<1>13. IdsInv'
  BY Zenon, IdsStay DEF IndInv
<1>14. \A e \in Email : \A i \in 1 .. Rcpts[e] :
         ToSend(slot', worker', e, i) =
           IF e = Draft THEN ToSend(slot, worker, e, i) \cup {f} ELSE ToSend(slot, worker, e, i)
  <2> SUFFICES ASSUME NEW e \in Email, NEW i \in 1 .. Rcpts[e]
               PROVE  \A s \in Slots : s \in ToSend(slot', worker', e, i) <=>
                        (s \in ToSend(slot, worker, e, i) \/ (s = f /\ e = Draft))
    BY DEF ToSend
  <2> SUFFICES ASSUME NEW s \in Slots
               PROVE  s \in ToSend(slot', worker', e, i) <=>
                        (s \in ToSend(slot, worker, e, i) \/ (s = f /\ e = Draft))
    BY Zenon
  <2>1. CASE s = f
    BY Zenon, <1>6, <2>1 DEF ToSend
  <2>2. CASE s # f
    <3>1. /\ slot'[s].state = "queued" <=> slot[s].state = "queued"
          /\ slot'[s].state = "running" <=> slot[s].state = "running"
          /\ slot'[s].state # "free" => slot'[s].email = slot[s].email
      BY <2>2, ReapEffect
    <3>2. slot[s].state \in {"queued", "running"} => slot'[s].email = slot[s].email
      BY Zenon, <3>1
    <3> QED
      BY Zenon, <2>2, <3>1, <3>2 DEF ToSend
  <2> QED
    BY Zenon, <2>1, <2>2
<1>15. \A i \in 1 .. Rcpts[Draft] :
         copies[Draft][i] + Cardinality(ToSend(slot, worker, Draft, i)) <= excuse[Draft]
  <2> SUFFICES ASSUME NEW i \in 1 .. Rcpts[Draft]
               PROVE  copies[Draft][i] + Cardinality(ToSend(slot, worker, Draft, i)) <= excuse[Draft]
    BY Zenon
  <2>1. ~Granted(Draft)
    BY Zenon DEF Granted, InHand
  <2>2. copies[Draft][i] + Cardinality(ToSend(slot, worker, Draft, i)) <=
          excuse[Draft] + (IF Granted(Draft) THEN 1 ELSE 0)
    BY Zenon, <1>1 DEF IndInv, OnceInv
  <2>3. (IF Granted(Draft) THEN 1 ELSE 0) = 0
    BY Zenon, <2>1
  <2>4. excuse[Draft] \in Nat
    BY Zenon, <1>1, Numbers DEF IndInv
  <2> QED
    BY <2>2, <2>3, <2>4
<1>16. OnceInv'
  <2>1. ASSUME NEW e \in Email, NEW i \in 1 .. Rcpts[e]
        PROVE  copies'[e][i] + Cardinality(ToSend(slot', worker', e, i)) <=
                 excuse'[e] + (IF Granted(e)' THEN 1 ELSE 0)
    <3> DEFINE S == ToSend(slot, worker, e, i)
    <3>1. IsFiniteSet(S) /\ Cardinality(S) \in Nat
      BY Zenon, SendersFinite
    <3>2. excuse[e] \in Nat /\ copies[e][i] \in Nat
      BY Zenon, Numbers DEF IndInv
    <3>3. CASE e = Draft
      <4>1. f \notin S
        BY Zenon, <1>6 DEF ToSend
      <4>2. ToSend(slot', worker', e, i) = S \cup {f}
        BY Zenon, <1>14, <3>3
      <4>3. copies[e][i] + Cardinality(S) <= excuse[e]
        BY Zenon, <1>15, <3>3
      <4>4. Granted(e)'
        BY Zenon, <1>7, <1>8, <3>3 DEF Granted, InHand
      <4> HIDE DEF S
      <4>5. Cardinality(S \cup {f}) = Cardinality(S) + 1
        BY Zenon, <3>1, <4>1, FS_AddElement
      <4>6. copies[e][i] + (Cardinality(S) + 1) <= excuse[e] + 1
        BY <3>1, <3>2, <4>3
      <4>7. copies[e][i] + Cardinality(ToSend(slot', worker', e, i)) <= excuse[e] + 1
        BY <4>2, <4>5, <4>6, Zenon
      <4> QED
        BY Zenon, <4>4, <4>7
    <3>4. CASE e # Draft
      <4>1. ToSend(slot', worker', e, i) = S
        BY Zenon, <1>14, <3>4
      <4>2. Granted(e)' <=> Granted(e)
        BY Zenon, <1>7, <1>8, <3>4 DEF Granted, InHand
      <4>3. copies[e][i] + Cardinality(S) <= excuse[e] + (IF Granted(e) THEN 1 ELSE 0)
        BY Zenon DEF IndInv, OnceInv
      <4> HIDE DEF S
      <4> QED
        BY Zenon, <4>1, <4>2, <4>3
    <3> QED
      BY Zenon, <3>3, <3>4
  <2>2. ASSUME NEW i \in 1 .. Rcpts[Draft']
        PROVE  copies'[Draft'][i] +
                 Cardinality(ToSend(slot', worker', Draft', i) \ {req'.slot}) <= excuse'[Draft']
    <3> DEFINE S == ToSend(slot, worker, Draft, i)
    <3>0. i \in 1 .. Rcpts[Draft]
      BY Zenon, <1>8
    <3>1. f \notin S
      BY Zenon, <1>6 DEF ToSend
    <3>2. ToSend(slot', worker', Draft, i) = S \cup {f}
      BY Zenon, <1>1, <1>14, <3>0
    <3>3. copies[Draft][i] + Cardinality(S) <= excuse[Draft]
      BY Zenon, <1>15, <3>0
    <3> HIDE DEF S
    <3>4. ToSend(slot', worker', Draft, i) \ {f} = S
      BY Zenon, <3>1, <3>2
    <3> QED
      BY Zenon, <1>7, <1>8, <3>3, <3>4
  <2> QED
    BY Zenon, <2>1, <2>2 DEF OnceInv
<1> QED
  BY Zenon, <1>9, <1>10, <1>11, <1>12, <1>13, <1>16 DEF IndInv

\* jmapd_read_file, the limits, the envelope, and submit_queue.
LEMMA AdmitKeeps == ASSUME IndInv, Admit PROVE IndInv'
<1> DEFINE free == {s \in Slots : Reap[s].state = "free"}
           fits == bytes + Size[Draft] <= QueueBytes
           f    == Min(free)
<1>1. /\ req.pc = "admit" /\ req.pc \in Creating
      /\ UNCHANGED <<mail, ledger, saved, stop, worker, copies, excuse, told>>
  BY Zenon DEF Admit, files, seen, Creating
<1>2. CASE NotCreated /\ slot' \in {slot, Reap} /\ bytes' = bytes
  <2>1. /\ slot' \in [Slots -> Slot]
        /\ \A s \in Slots : /\ slot'[s].waited = slot[s].waited
                            /\ slot'[s].state = "queued" <=> slot[s].state = "queued"
                            /\ slot'[s].state = "running" <=> slot[s].state = "running"
                            /\ slot'[s].state # "free" => slot'[s] = slot[s]
    <3>1. CASE slot' = slot
      BY Zenon, <3>1 DEF IndInv, Shape
    <3>2. CASE slot' = Reap
      BY Zenon, <3>2, ReapEffect
    <3> QED
      BY Zenon, <1>2, <3>1, <3>2
  <2>2. /\ req' \in Req /\ ReqInv' /\ req'.pc # "wait"
        /\ \A e \in Email : Granted(e)' <=> e \in Range(ledger)
    BY Zenon, <1>1, <1>2, NotCreatedEffect DEF IndInv
  <2>3. Shape'
    BY <1>1, <1>2, <2>1, <2>2 DEF IndInv, Shape
  <2>4. OwnInv'
    <3>1. \A s \in Slots : ~slot[s].waited
      BY Zenon, <1>1 DEF IndInv, OwnInv, SlotOwned
    <3>2. \A s \in Slots : slot'[s].state # "free" => slot'[s].email \in Email
      BY Zenon, <2>1 DEF IndInv, OwnInv
    <3>3. \A s \in Slots : slot'[s].state = "running" <=> worker'.slot = s
      BY Zenon, <1>1, <2>1 DEF IndInv, OwnInv, SlotOwned
    <3> QED
      BY <1>1, <2>1, <2>2, <3>1, <3>2, <3>3 DEF IndInv, OwnInv, SlotOwned
  <2>5. BytesInv'
    <3>1. Octets(slot') = Octets(slot)
      BY Zenon, <2>1, OctetsSame
    <3> QED
      BY Zenon, <1>2, <3>1 DEF IndInv, BytesInv, BytesExact
  <2>6. \A e \in Email : \A i \in 1 .. Rcpts[e] :
          ToSend(slot', worker', e, i) \subseteq ToSend(slot, worker, e, i)
    BY Zenon, <1>1, <2>1 DEF ToSend
  <2>7. \A e \in Email : excuse'[e] >= excuse[e] /\ (Granted(e) => Granted(e)')
    BY <1>1, <2>2 DEF Granted, InHand, IndInv, Shape
  <2> QED
    BY Zenon, <1>1, <2>2, <2>3, <2>4, <2>5, <2>6, <2>7, QueueKeeps
<1>3. CASE /\ free # {} /\ fits
           /\ slot' = [Reap EXCEPT ![f] = [Free EXCEPT !.state = "queued", !.waited = TRUE,
                                                       !.email = Draft]]
           /\ bytes' = bytes + Size[Draft]
           /\ req' = [req EXCEPT !.pc = "wait", !.slot = f]
  <2>1. f \in Slots /\ Reap[f].state = "free"
    <3>1. f \in free
      BY Zenon, <1>3, FirstSlot
    <3> QED
      BY Zenon, <3>1
  <2> HIDE DEF f, free
  <2> DEFINE new == [Free EXCEPT !.state = "queued", !.waited = TRUE, !.email = Draft]
  <2>2. Draft \in Email
    BY Zenon, <1>1, DraftIsOne DEF IndInv, ReqInv
  <2>3. new \in Slot /\ new.state = "queued" /\ new.waited = TRUE /\ new.email = Draft
    BY Zenon, <2>2 DEF Free, Slot
  <2>4. slot' = [Reap EXCEPT ![f] = new]
    BY Zenon, <1>3
  <2> HIDE DEF new
  <2>5. /\ slot' \in [Slots -> Slot] /\ slot'[f] = new
        /\ \A s \in Slots \ {f} : slot'[s] = Reap[s]
    BY Zenon, <2>1, <2>3, <2>4, ReapEffect
  <2> QED
    BY Zenon, <1>1, <1>3, <2>1, <2>3, <2>5, AdmittedKeeps
<1> QED
  <2>1. \/ NotCreated /\ slot' \in {slot, Reap} /\ bytes' = bytes
        \/ /\ free # {} /\ fits
           /\ slot' = [Reap EXCEPT ![f] = [Free EXCEPT !.state = "queued", !.waited = TRUE,
                                                       !.email = Draft]]
           /\ bytes' = bytes + Size[Draft]
           /\ req' = [req EXCEPT !.pc = "wait", !.slot = f]
    BY Zenon DEF Admit
  <2> QED
    BY Zenon, <1>2, <1>3, <2>1

\* One recipient: the copy that was still to be sent is sent; a relay whose
\* answer is lost gives an excuse.
LEMMA SendKeeps == ASSUME IndInv, Send PROVE IndInv'
<1> DEFINE a == worker.slot
           d == slot[a].email
           n == worker.i
<1>1. /\ worker # Asleep /\ n <= Rcpts[d] /\ worker' = [worker EXCEPT !.i = @ + 1]
      /\ UNCHANGED <<mail, ledger, saved, bytes, stop, req, told>>
  BY Zenon DEF Send, files
<1>2. /\ a \in Slots /\ slot[a].state = "running" /\ d \in Email /\ slot \in [Slots -> Slot]
      /\ n \in Nat \ {0} /\ worker = [slot |-> a, i |-> n]
  BY Zenon, <1>1, WorkerAt
<1>3. worker'.slot = a /\ worker'.i = n + 1 /\ worker' \in [slot : Slots \cup {0}, i : Nat]
  BY <1>1, <1>2
<1>4. PICK took \in BOOLEAN, ok \in BOOLEAN :
        /\ slot' = [slot EXCEPT ![a].ok = @ \/ ok]
        /\ copies' = [copies EXCEPT ![d][n] = IF took THEN @ + 1 ELSE @]
        /\ \/ ok = took /\ UNCHANGED excuse
           \/ Excuse({d})
  <2>1. CASE \E took \in BOOLEAN :
               /\ slot' = [slot EXCEPT ![a].ok = @ \/ took]
               /\ copies' = [copies EXCEPT ![d][n] = IF took THEN @ + 1 ELSE @]
               /\ UNCHANGED <<used, excuse>>
    BY Zenon, <2>1
  <2>2. CASE /\ slot' = [slot EXCEPT ![a].ok = @ \/ FALSE]
             /\ copies' = [copies EXCEPT ![d][n] = IF TRUE THEN @ + 1 ELSE @]
             /\ Trouble /\ Excuse({d})
    BY Zenon, <2>2
  <2> QED
    BY Zenon, <2>1, <2>2 DEF Send
<1>5. /\ excuse' \in [Email -> Nat] /\ excuse \in [Email -> Nat]
      /\ \A e \in Email : excuse'[e] >= excuse[e]
      /\ took /\ ~ok => excuse'[d] > excuse[d]
  <2>1. excuse \in [Email -> Nat]
    BY Zenon DEF IndInv, Shape
  <2>2. CASE ok = took /\ UNCHANGED excuse
    BY <2>1, <2>2
  <2>3. CASE Excuse({d})
    BY Zenon, <1>2, <2>1, <2>3, ExcuseEffect
  <2> QED
    BY Zenon, <1>4, <2>2, <2>3
<1> HIDE DEF a, d, n
<1>6. /\ slot' \in [Slots -> Slot] /\ (slot'[a].ok <=> (slot[a].ok \/ ok))
      /\ \A s \in Slots : /\ slot'[s].state = slot[s].state /\ slot'[s].email = slot[s].email
                          /\ slot'[s].waited = slot[s].waited /\ (s # a => slot'[s] = slot[s])
  <2> DEFINE v == slot[a].ok \/ ok
  <2>1. v \in BOOLEAN /\ (v <=> (slot[a].ok \/ ok))
    BY Zenon
  <2>2. slot' = [slot EXCEPT ![a].ok = v]
    BY Zenon, <1>2, <1>4 DEF Slot
  <2> HIDE DEF v
  <2>3. /\ slot' \in [Slots -> Slot] /\ slot'[a].ok = v
        /\ \A s \in Slots : /\ slot'[s].state = slot[s].state /\ slot'[s].email = slot[s].email
                            /\ slot'[s].waited = slot[s].waited /\ (s # a => slot'[s] = slot[s])
    BY Zenon, <1>2, <2>1, <2>2 DEF Slot
  <2> QED
    BY <2>1, <2>3, Zenon
<1>7. n \in 1 .. Rcpts[d] /\ Rcpts[d] \in Nat
  BY <1>1, <1>2, SubmitAssumption
<1>8. /\ DOMAIN copies' = Email /\ \A e \in Email : copies'[e] \in [1 .. Rcpts[e] -> Nat]
      /\ \A e \in Email : \A i \in 1 .. Rcpts[e] :
           (e # d \/ i # n) => copies'[e][i] = copies[e][i]
      /\ copies'[d][n] = IF took THEN copies[d][n] + 1 ELSE copies[d][n]
  <2>1. DOMAIN copies = Email /\ \A e \in Email : copies[e] \in [1 .. Rcpts[e] -> Nat]
    BY Zenon DEF IndInv, Shape
  <2> DEFINE c == IF took THEN copies[d][n] + 1 ELSE copies[d][n]
  <2>2. c \in Nat
    BY <1>2, <1>7, <2>1
  <2>3. copies' = [copies EXCEPT ![d] = [copies[d] EXCEPT ![n] = c]]
    BY Zenon, <1>2, <1>4, <1>7, <2>1
  <2> HIDE DEF c
  <2>4. /\ DOMAIN copies' = Email /\ (\A e \in Email : e # d => copies'[e] = copies[e])
        /\ copies'[d] = [copies[d] EXCEPT ![n] = c]
    BY Zenon, <1>2, <2>1, <2>3
  <2>5. /\ copies'[d] \in [1 .. Rcpts[d] -> Nat] /\ copies'[d][n] = c
        /\ \A i \in 1 .. Rcpts[d] : i # n => copies'[d][i] = copies[d][i]
    BY <1>2, <1>7, <2>1, <2>2, <2>4
  <2>6. \A e \in Email : copies'[e] \in [1 .. Rcpts[e] -> Nat]
    BY Zenon, <2>1, <2>4, <2>5
  <2>7. \A e \in Email : \A i \in 1 .. Rcpts[e] :
          (e # d \/ i # n) => copies'[e][i] = copies[e][i]
    BY Zenon, <2>4, <2>5
  <2> QED
    BY Zenon, <2>4, <2>5, <2>6, <2>7 DEF c
<1>9. Shape'
  BY <1>1, <1>3, <1>5, <1>6, <1>8 DEF IndInv, Shape
<1>10. ReqInv'
  BY Zenon, <1>1 DEF IndInv, ReqInv
<1>11. Draft' = Draft /\ \A e \in Email : Granted(e)' <=> Granted(e)
  BY Zenon, <1>1 DEF Granted, InHand, Draft
<1>12. OwnInv'
  <2>1. SlotOwned'
    BY <1>1, <1>2, <1>3, <1>6, <1>11 DEF IndInv, OwnInv, SlotOwned, a
  <2>2. \A s \in Slots : slot'[s].state # "free" => slot'[s].email \in Email
    BY Zenon, <1>6 DEF IndInv, OwnInv
  <2>3. worker'.slot # 0 /\ worker'.i > 0
    BY <1>2, <1>3, ZeroIsNoSlot
  <2> QED
    BY Zenon, <1>1, <2>1, <2>2, <2>3 DEF IndInv, OwnInv
<1>13. BytesInv'
  <2>1. Octets(slot') = Octets(slot)
    BY <1>6, OctetsSame
  <2> QED
    BY Zenon, <1>1, <2>1 DEF IndInv, BytesInv, BytesExact
<1>14. IdsInv'
  BY Zenon, <1>1, IdsStay DEF IndInv
<1>15. /\ \A e \in Email : \A i \in 1 .. Rcpts[e] :
            ToSend(slot', worker', e, i) \subseteq ToSend(slot, worker, e, i)
       /\ a \in ToSend(slot, worker, d, n) /\ a \notin ToSend(slot', worker', d, n)
  <2>1. worker.i = n
    BY Zenon DEF n
  <2>2. \A i \in Nat : n + 1 <= i => n <= i
    BY <1>2
  <2>3. \A e \in Email : Rcpts[e] \in Nat
    BY Zenon, SubmitAssumption
  <2>4. \A e \in Email : \A i \in 1 .. Rcpts[e] : i \in Nat
    BY <2>3
  <2>5. \A e \in Email : \A i \in 1 .. Rcpts[e] :
            ToSend(slot', worker', e, i) \subseteq ToSend(slot, worker, e, i)
    BY <1>3, <1>6, <2>1, <2>2, <2>4 DEF ToSend
  <2>6. n <= n /\ ~(n + 1 <= n)
    BY <1>2
  <2>7. a \in ToSend(slot, worker, d, n)
    BY Zenon, <1>2, <2>1, <2>6 DEF ToSend, d
  <2>8. a \notin ToSend(slot', worker', d, n)
    BY Zenon, <1>2, <1>3, <1>6, <2>6 DEF ToSend
  <2> QED
    BY Zenon, <2>5, <2>7, <2>8
<1>16. ASSUME NEW e \in Email, NEW i \in 1 .. Rcpts[e]
       PROVE  copies'[e][i] + Cardinality(ToSend(slot', worker', e, i)) <=
                excuse'[e] + (IF Granted(e)' THEN 1 ELSE 0)
  <2> DEFINE S == ToSend(slot, worker, e, i)
             T == ToSend(slot', worker', e, i)
             g == IF Granted(e)' THEN 1 ELSE 0
  <2>1. /\ Cardinality(S) \in Nat /\ Cardinality(T) \in Nat /\ IsFiniteSet(S)
        /\ T \subseteq S /\ Cardinality(T) <= Cardinality(S)
    BY Zenon, <1>15, SendersFinite
  <2>2. /\ excuse[e] \in Nat /\ copies[e][i] \in Nat /\ excuse'[e] \in Nat
        /\ excuse'[e] >= excuse[e] /\ g \in {0, 1}
    BY Zenon, <1>5, Numbers DEF IndInv
  <2>3. copies[e][i] + Cardinality(S) <= excuse[e] + g
    <3>1. copies[e][i] + Cardinality(S) <= excuse[e] + (IF Granted(e) THEN 1 ELSE 0)
      BY Zenon DEF IndInv, OnceInv
    <3>2. (IF Granted(e) THEN 1 ELSE 0) = g
      BY Zenon, <1>11
    <3> HIDE DEF S, g
    <3> QED
      BY Zenon, <3>1, <3>2
  <2>4. CASE e # d \/ i # n
    <3>1. copies'[e][i] = copies[e][i]
      BY Zenon, <1>8, <2>4
    <3> HIDE DEF S, T, g
    <3>2. copies'[e][i] + Cardinality(T) <= excuse'[e] + g
      BY <2>1, <2>2, <2>3, <3>1
    <3> QED
      BY Zenon, <3>2 DEF T, g
  <2>5. CASE e = d /\ i = n
    <3>1. a \in S /\ a \notin T
      BY Zenon, <1>15, <2>5
    <3>2. copies'[e][i] \in {copies[e][i], copies[e][i] + 1}
      BY Zenon, <1>8, <2>5
    <3> HIDE DEF S, T, g
    <3>3. T \subseteq S \ {a}
      BY Zenon, <2>1, <3>1
    <3>4. /\ IsFiniteSet(S \ {a}) /\ Cardinality(S \ {a}) = Cardinality(S) - 1
      BY Zenon, <2>1, <3>1, FS_RemoveElement
    <3>5. Cardinality(T) <= Cardinality(S) - 1
      BY <3>3, <3>4, FS_Subset
    <3>6. copies'[e][i] + Cardinality(T) <= excuse'[e] + g
      BY <2>1, <2>2, <2>3, <3>2, <3>5
    <3> QED
      BY Zenon, <3>6 DEF T, g
  <2> QED
    BY Zenon, <2>4, <2>5
<1>17. ASSUME req'.pc = "wait", ~slot'[req'.slot].ok, NEW i \in 1 .. Rcpts[Draft']
       PROVE  copies'[Draft'][i] +
                Cardinality(ToSend(slot', worker', Draft', i) \ {req'.slot}) <= excuse'[Draft']
  <2> DEFINE e == Draft
             b == req.slot
             S == ToSend(slot, worker, e, i) \ {b}
             T == ToSend(slot', worker', e, i) \ {b}
  <2>1. /\ req.pc = "wait" /\ b \in Slots /\ e \in Email /\ i \in 1 .. Rcpts[e]
        /\ ~slot'[b].ok /\ slot[b].email = e
    BY Zenon, <1>1, <1>11, <1>17, DraftIsOne DEF IndInv, ReqInv, Creating, OwnInv, SlotOwned
  <2>2. ~slot[b].ok /\ (b = a => ~ok)
    BY Zenon, <1>6, <2>1
  <2>3. copies[e][i] + Cardinality(S) <= excuse[e]
    BY Zenon, <2>1, <2>2 DEF IndInv, OnceInv
  <2>4. /\ IsFiniteSet(S) /\ Cardinality(S) \in Nat /\ T \subseteq S
    <3> DEFINE U == ToSend(slot, worker, e, i)
               V == ToSend(slot', worker', e, i)
    <3>1. V \subseteq U
      BY Zenon, <1>15, <2>1
    <3>2. \A W \in SUBSET U : IsFiniteSet(W) /\ Cardinality(W) \in Nat
      BY Zenon, SendersFinite
    <3>3. S = U \ {b} /\ T = V \ {b}
      BY Zenon
    <3> HIDE DEF S, T, U, V, e, b
    <3>4. S \in SUBSET U /\ T \subseteq S
      BY Zenon, <3>1, <3>3
    <3> QED
      BY Zenon, <3>2, <3>4
  <2>5. /\ excuse[e] \in Nat /\ copies[e][i] \in Nat /\ excuse'[e] \in Nat
        /\ excuse'[e] >= excuse[e]
    BY Zenon, <1>5, <2>1, Numbers DEF IndInv
  <2>6. CASE e = d /\ i = n /\ b # a
    <3>1. a \in S /\ a \notin T
      BY Zenon, <1>15, <2>6
    <3>2. copies'[e][i] \in {copies[e][i], copies[e][i] + 1}
      BY Zenon, <1>8, <2>6
    <3> HIDE DEF S, T, e, b
    <3>3. T \subseteq S \ {a}
      BY Zenon, <2>4, <3>1
    <3>4. /\ IsFiniteSet(S \ {a}) /\ Cardinality(S \ {a}) = Cardinality(S) - 1
      BY Zenon, <2>4, <3>1, FS_RemoveElement
    <3>5. Cardinality(T) \in Nat /\ Cardinality(T) <= Cardinality(S) - 1
      BY <3>3, <3>4, FS_Subset, FS_CardinalityType
    <3>6. copies'[e][i] + Cardinality(T) <= excuse'[e]
      BY <2>3, <2>4, <2>5, <3>2, <3>5
    <3> QED
      BY Zenon, <1>1, <1>11, <3>6 DEF T, e, b
  <2>7. CASE ~(e = d /\ i = n /\ b # a)
    <3>1. Cardinality(T) \in Nat /\ Cardinality(T) <= Cardinality(S)
      BY Zenon, <2>4, FS_Subset, FS_CardinalityType
    <3>2. \/ copies'[e][i] = copies[e][i]
          \/ copies'[e][i] = copies[e][i] + 1 /\ excuse'[e] > excuse[e]
      <4>1. CASE e # d \/ i # n
        BY Zenon, <1>8, <2>1, <4>1
      <4>2. CASE e = d /\ i = n /\ b = a
        BY Zenon, <1>5, <1>8, <2>2, <4>2
      <4> QED
        BY Zenon, <2>7, <4>1, <4>2
    <3> HIDE DEF S, T, e, b
    <3> DEFINE h == copies[e][i]
               g == copies'[e][i]
               x == excuse[e]
               y == excuse'[e]
               s == Cardinality(S)
               t == Cardinality(T)
    <3>3. g + t <= y
      <4>1. /\ h \in Nat /\ x \in Nat /\ y \in Nat /\ s \in Nat /\ t \in Nat
            /\ h + s <= x /\ x <= y /\ t <= s
        BY Zenon, <2>3, <2>4, <2>5, <3>1
      <4>2. g = h \/ (g = h + 1 /\ y > x)
        BY Zenon, <3>2
      <4> HIDE DEF h, g, x, y, s, t
      <4> QED
        BY <4>1, <4>2
    <3> QED
      BY Zenon, <1>1, <1>11, <3>3 DEF T, e, b
  <2> QED
    BY Zenon, <2>6, <2>7
<1>18. OnceInv'
  BY Zenon, <1>16, <1>17 DEF OnceInv
<1> QED
  BY Zenon, <1>9, <1>10, <1>12, <1>13, <1>14, <1>18 DEF IndInv

-----------------------------------------------------------------------------
(* The theorems                                                             *)

\* Nothing was sent, nothing is queued.
LEMMA InitHolds == ASSUME Init PROVE IndInv
<1>1. /\ mail = [e \in Email |-> [box |-> "Drafts", flags |-> {"draft"}]]
      /\ ledger = <<>> /\ saved = 0 /\ slot = [s \in Slots |-> Free] /\ bytes = 0
      /\ stop = FALSE /\ worker = Asleep /\ req = Idle
      /\ copies = [e \in Email |-> [i \in 1 .. Rcpts[e] |-> 0]]
      /\ excuse = [e \in Email |-> 0] /\ told = <<>>
  BY Zenon DEF Init
<1>2. mail \in [Email -> Mail]
  BY Zenon, <1>1 DEF Mail
<1>3. /\ slot \in [Slots -> Slot]
      /\ IsFiniteSet(Octets(slot)) /\ Cardinality(Octets(slot)) = 0
      /\ \A s \in Slots : /\ slot[s].state = "free" /\ slot[s].waited = FALSE
                          /\ slot[s].state # "running" /\ slot[s].state # "queued"
  BY Zenon, <1>1, NoJobs
<1>4. /\ req \in Req /\ req.pc = "idle" /\ worker.slot = 0
      /\ worker \in [slot : Slots \cup {0}, i : Nat]
  BY Zenon, <1>1, Typed DEF Idle, Asleep
<1>5. ledger \in Seq(Email) /\ Len(ledger) <= LedgerMax /\ told \in Seq(Nat)
  BY <1>1, EmptySeq, SubmitAssumption
<1>6. /\ DOMAIN copies = Email /\ \A e \in Email : copies[e] \in [1 .. Rcpts[e] -> Nat]
      /\ excuse \in [Email -> Nat]
  BY Zenon, <1>1
<1>7. Shape
  BY Zenon, <1>1, <1>2, <1>3, <1>4, <1>5, <1>6 DEF Shape
<1>8. ReqInv
  BY Zenon, <1>4 DEF ReqInv, Creating
<1>9. OwnInv
  BY Zenon, <1>1, <1>3, <1>4, ZeroIsNoSlot DEF OwnInv, SlotOwned
<1>10. BytesInv
  BY <1>1, <1>3, SubmitAssumption DEF BytesInv, BytesExact
<1>11. OnceInv
  <2>1. ASSUME NEW e \in Email, NEW i \in 1 .. Rcpts[e]
        PROVE  copies[e][i] + Cardinality(ToSend(slot, worker, e, i)) <=
                 excuse[e] + (IF Granted(e) THEN 1 ELSE 0)
    <3>1. ToSend(slot, worker, e, i) = {}
      BY Zenon, <1>3 DEF ToSend
    <3>2. Cardinality(ToSend(slot, worker, e, i)) = 0
      BY Zenon, <3>1, FS_EmptySet
    <3>3. copies[e][i] = 0 /\ excuse[e] = 0
      BY Zenon, <1>1
    <3> DEFINE g == IF Granted(e) THEN 1 ELSE 0
    <3>4. g \in {0, 1}
      BY Zenon
    <3> HIDE DEF g
    <3>5. 0 + 0 <= 0 + g
      BY <3>4
    <3>6. copies[e][i] + Cardinality(ToSend(slot, worker, e, i)) <= excuse[e] + g
      BY <3>2, <3>3, <3>5, Zenon
    <3> QED
      BY Zenon, <3>6 DEF g
  <2> QED
    BY Zenon, <1>4, <2>1 DEF OnceInv
<1>12. IdsInv
  BY <1>1 DEF IdsInv, IdsFresh, IsInjective
<1> QED
  BY Zenon, <1>7, <1>8, <1>9, <1>10, <1>11, <1>12 DEF IndInv

\* A step that changes nothing.
LEMMA StutterKeeps == ASSUME IndInv, UNCHANGED vars PROVE IndInv'
<1>1. UNCHANGED <<mail, ledger, saved, slot, bytes, stop, worker, req, copies, excuse, told>>
  BY Zenon DEF vars
<1>2. Shape' /\ ReqInv'
  <2>1. Shape'
    BY Zenon, <1>1 DEF IndInv, Shape
  <2>2. ReqInv'
    BY Zenon, <1>1 DEF IndInv, ReqInv
  <2> QED
    BY Zenon, <2>1, <2>2
<1>3. IdsInv'
  BY Zenon, <1>1, IdsStay DEF IndInv
<1>4. \A e \in Email : excuse'[e] >= excuse[e] /\ (Granted(e) => Granted(e)')
  BY <1>1 DEF Granted, InHand, IndInv, Shape, Draft
<1> QED
  BY Zenon, <1>1, <1>2, <1>3, <1>4, CalmKeeps

\* Every step keeps the invariant.
LEMMA NextKeeps == ASSUME IndInv, [Next]_vars PROVE IndInv'
<1>1. CASE Worker
  BY Zenon, <1>1, TakeKeeps, SendKeeps, VerdictKeeps DEF Worker
<1>2. CASE Loop
  BY Zenon, <1>2, LocateKeeps, AdmitKeeps, WaitDoneKeeps, WaitTimeoutKeeps, FilingKeeps, LedgerKeeps,
     AfterSuccessKeeps, FinishKeeps DEF Loop
<1>3. CASE StartRequest \/ Other \/ Crash \/ Stop \/ Joined
  BY Zenon, <1>3, StartRequestKeeps, BesideKeeps, CrashKeeps, JoinedKeeps
<1>4. CASE UNCHANGED vars
  BY Zenon, <1>4, StutterKeeps
<1> QED
  BY Zenon, <1>1, <1>2, <1>3, <1>4 DEF Next

\* Every reachable state of the submission code satisfies the invariant.
THEOREM Invariance == Spec => []IndInv
<1>1. Init => IndInv
  BY Zenon, InitHolds
<1>2. IndInv /\ [Next]_vars => IndInv'
  BY Zenon, NextKeeps
<1> QED
  BY <1>1, <1>2, PTL DEF Spec

\* jmapd_method_email_submission_set sends a draft to a recipient once, plus
\* once for every lost answer, crash, ledger failure or eviction.
THEOREM NobodyTwice == Spec => []AtMostOnce
<1>1. IndInv => AtMostOnce
  <2> SUFFICES ASSUME IndInv, NEW e \in Email, NEW i \in 1 .. Rcpts[e]
               PROVE  copies[e][i] <= 1 + excuse[e]
    BY Zenon DEF AtMostOnce
  <2> DEFINE c == Cardinality(ToSend(slot, worker, e, i))
             g == IF Granted(e) THEN 1 ELSE 0
  <2>1. copies[e][i] + c <= excuse[e] + g
    BY Zenon DEF IndInv, OnceInv
  <2>2. c \in Nat /\ g \in {0, 1}
    BY Zenon, SendersFinite
  <2>3. copies[e][i] \in Nat /\ excuse[e] \in Nat
    BY Zenon, Numbers DEF IndInv
  <2> HIDE DEF c, g
  <2> QED
    BY <2>1, <2>2, <2>3
<1> QED
  BY <1>1, Invariance, PTL

\* What the relay took is in the ledger, in the hands of its request, or excused:
\* a draft answered with notCreated was not sent and may be submitted again.
THEOREM SentIsInTheLedger == Spec => []SentIsRecorded
<1>1. IndInv => SentIsRecorded
  <2> SUFFICES ASSUME IndInv, NEW e \in Email, e \notin Range(ledger), ~(excuse[e] > 0),
                      ~InHand(e), NEW i \in 1 .. Rcpts[e]
               PROVE  copies[e][i] = 0
    BY Zenon DEF SentIsRecorded, InHand
  <2> DEFINE c == Cardinality(ToSend(slot, worker, e, i))
             g == IF Granted(e) THEN 1 ELSE 0
  <2>1. copies[e][i] + c <= excuse[e] + g
    BY Zenon DEF IndInv, OnceInv
  <2>2. c \in Nat /\ g = 0
    BY Zenon, SendersFinite DEF Granted
  <2>3. copies[e][i] \in Nat /\ excuse[e] \in Nat
    BY Zenon, Numbers DEF IndInv
  <2> HIDE DEF c, g
  <2> QED
    BY <2>1, <2>2, <2>3
<1> QED
  BY <1>1, Invariance, PTL

\* The slots of submit_queue and submit_worker: well formed, bytes exact and
\* within JMAPD_SUBMIT_QUEUE_BYTES, every slot with its owner, no id twice.
THEOREM SlotsAreSound == Spec => []SlotsSound
<1>1. IndInv => TypeOK
  <2> SUFFICES ASSUME IndInv PROVE TypeOK
    BY Zenon
  <2>1. /\ mail \in [Email -> Mail] /\ saved \in Nat /\ Len(ledger) <= LedgerMax
        /\ slot \in [Slots -> Slot] /\ bytes \in Nat /\ stop \in BOOLEAN
        /\ worker \in [slot : Slots \cup {0}, i : Nat] /\ req \in Req
    BY Zenon DEF IndInv, Shape
  <2>2. \A l \in Seq(Email) : Range(l) \subseteq Email
    <3> SUFFICES ASSUME NEW l \in Seq(Email), NEW x \in Range(l) PROVE x \in Email
      BY Zenon
    <3>1. PICK k \in DOMAIN l : l[k] = x
      BY Zenon DEF Range
    <3>2. k \in 1 .. Len(l)
      BY Zenon, LenProperties
    <3> QED
      BY Zenon, <3>1, <3>2, ElementOfSeq
  <2>3. ledger \in Seq(Email) /\ req.todo \in Seq(Email) /\ req.created \in Seq(Email)
    BY Zenon, <2>1 DEF IndInv, Shape, Req
  <2>4. Range(ledger) \subseteq Email /\ Range(req.todo) \cup Range(req.created) \subseteq Email
    BY Zenon, <2>2, <2>3
  <2>5. /\ req.pc \in {"idle", "locate", "admit", "wait", "peek", "store", "move",
                       "ledger", "update", "destroy", "finish"}
        /\ {req.loc, req.name} \subseteq Mail
        /\ req.slot \in Slots \cup {0} /\ req.submission \in Nat
    BY Zenon, <2>1 DEF Req
  <2> QED
    BY Zenon, <2>1, <2>4, <2>5 DEF TypeOK, Slot
<1>2. IndInv => BytesExact /\ SlotOwned /\ IdsFresh
  BY Zenon DEF IndInv, BytesInv, OwnInv, IdsInv
<1> QED
  BY <1>1, <1>2, Invariance, PTL DEF SlotsSound
=============================================================================
