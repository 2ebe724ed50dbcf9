------------------------- MODULE EmailIntakeProofs -------------------------
(***************************************************************************)
(* The way of a mail, for any number of mails and failures: a bound on     *)
(* duplicate cards, and that no mail is lost between mailbox and table.    *)
(*                                                                         *)
(* ExtraCardsHaveACause is not inductive: it says nothing of the mails     *)
(* that are still due for a card.  The invariant adds that a mail which is *)
(* due (on the processor's list, in its hands, or pending in the table)    *)
(* has had no card that a crash or failed statement does not account for,  *)
(* and that a mail without a row has had none at all.                      *)
(*                                                                         *)
(* And the todo list (TodoBoard), for any todos, documents, changes and    *)
(* broken connections: which updates of a row can be lost, and when the    *)
(* phone's list may differ from the table.  What is said of a settled todo *)
(* is not inductive.  RowsInv adds what the changes under way have read;   *)
(* ClientInv adds that, unless a race is recorded, what is about to be     *)
(* announced of a todo, and what was announced of it last, is the todo as  *)
(* it is, and that its creation is announced once and before it is listed. *)
(***************************************************************************)
EXTENDS EmailIntake, TodoBoard, SiftLemmas

Causes == spent["restart"] + spent["dbfault"]

\* The processor may still make a card of m without another crash or fault.
Due(m) ==
    \/ m \in plist
    \/ pmail = m /\ ppc = "route"
    \/ rows[m] = "Pending" /\ ~(pmail = m /\ ppc = "status")

\* The types the bound depends on.
TypeProc ==
    /\ rows \in [Mails -> MessageStatus \cup {"None"}]
    /\ ppc \in {"idle", "route", "status"}
    /\ plist \subseteq Mails /\ pmail \in Mails \cup {NoMail}
    /\ ppc = "idle" <=> pmail = NoMail
    /\ pmail \notin plist
    /\ triages \in [Mails -> Nat]
    /\ spent \in [Disturbances -> Nat]

Accounted(m) ==
    /\ triages[m] <= 1 + Causes
    /\ Due(m) => triages[m] <= Causes
    /\ rows[m] = "None" => triages[m] = 0 /\ m \notin plist /\ pmail # m

CardBound == TypeProc /\ \A m \in Mails : Accounted(m)

\* Nothing has broken the path from the mailbox to the table.
Calm == \A d \in {"restart", "dbfault", "imapfault", "expunge"} : spent[d] = 0

\* The poller has a batch exactly while it stores one.
BatchInHand == (fpc = "persist") <=> (batch # <<>>)

\* A wanted mail that carries \Seen, and that no other client has read first, is
\* stored, or is still to come in the batch.
SeenIsOnItsWay ==
    \A m \in (seen \ elsewhere) \cap Wanted :
        rows[m] # "None" \/ \E i \in DOMAIN batch : batch[i][2] = m

\* The numbers in the poller's hands still name the mails they were fetched for, and
\* what they are about to mark is stored.
NumbersHold ==
    /\ \A i \in DOMAIN batch : batch[i][1] \in DOMAIN inbox /\ inbox[batch[i][1]] = batch[i][2]
    /\ \A i \in DOMAIN marks : /\ marks[i] \in DOMAIN inbox
                               /\ inbox[marks[i]] \in Wanted => rows[inbox[marks[i]]] # "None"

MailIsKept == TypeOK /\ BatchInHand /\ (Calm => SeenIsOnItsWay /\ NumbersHold)

-----------------------------------------------------------------------------

\* A disturbance keeps spent well typed and never lowers the count of causes.
LEMMA SpendCauses ==
  ASSUME spent \in [Disturbances -> Nat], NEW k \in Disturbances, Spend(k)
  PROVE  /\ spent' \in [Disturbances -> Nat]
         /\ Causes' \in Nat /\ Causes' >= Causes
         /\ k \in {"restart", "dbfault"} => Causes' = Causes + 1
  BY DEF Spend, Causes, Disturbances

\* The outcome of one statement: no cause without a failure, one with it.
LEMMA DbCauses ==
  ASSUME spent \in [Disturbances -> Nat], NEW ok \in BOOLEAN, Db(ok)
  PROVE  /\ spent' \in [Disturbances -> Nat]
         /\ Causes' \in Nat /\ Causes' >= Causes
         /\ ~ok => Causes' = Causes + 1
<1>1. CASE ok
  BY <1>1 DEF Db, Causes, Disturbances
<1>2. CASE ~ok
  BY <1>2, SpendCauses DEF Db, Disturbances
<1> QED
  BY <1>1, <1>2

\* Causes is a number.
LEMMA CausesNat ==
  ASSUME spent \in [Disturbances -> Nat]
  PROVE  Causes \in Nat
  BY DEF Causes, Disturbances

\* A step of the mailbox, the poller's IMAP sessions or a card without a row:
\* the processor and the table stay as they are.
LEMMA Unrelated ==
  ASSUME CardBound, UNCHANGED <<rows, ppc, plist, pmail, triages>>,
         spent' \in [Disturbances -> Nat], Causes' \in Nat, Causes' >= Causes
  PROVE  CardBound'
<1>1. TypeProc'
  BY DEF CardBound, TypeProc
<1>2. ASSUME NEW m \in Mails PROVE Accounted(m)'
  BY CausesNat DEF CardBound, TypeProc, Accounted, Due
<1> QED
  BY <1>1, <1>2 DEF CardBound

\* Nothing has been stored or triaged when the process first starts.
LEMMA CardBoundInit == Init => CardBound
<1> SUFFICES ASSUME Init PROVE CardBound
  OBVIOUS
<1>1. TypeProc /\ Causes = 0
  BY MailsAssumption DEF Init, TypeProc, Causes, MessageStatus, Disturbances
<1>2. ASSUME NEW m \in Mails PROVE Accounted(m)
  BY <1>1, MailsAssumption DEF Init, Accounted, Due
<1> QED
  BY <1>1, <1>2 DEF CardBound

\* Every action keeps the account.
LEMMA CardBoundStep == CardBound /\ [Next]_vars => CardBound'
<1> SUFFICES ASSUME CardBound, [Next]_vars PROVE CardBound'
  OBVIOUS
<1> USE MailsAssumption
<1>0. TypeProc /\ Causes \in Nat
  BY CausesNat DEF CardBound, TypeProc
<1>1. CASE UNCHANGED vars
  BY <1>0, <1>1, Unrelated DEF vars, processor, TypeProc, Causes
<1>2. ASSUME NEW m \in Mails, Arrive(m) PROVE CardBound'
  BY <1>0, <1>2, Unrelated DEF Arrive, processor, TypeProc, Causes
<1>3. ASSUME NEW i \in Nat, Expunge(i) \/ MarkUnread(i) \/ ReadElsewhere(i)
      PROVE  CardBound'
  <2>1. spent' \in [Disturbances -> Nat] /\ Causes' \in Nat /\ Causes' >= Causes
    BY <1>0, <1>3, SpendCauses DEF Expunge, MarkUnread, ReadElsewhere, TypeProc, Disturbances
  <2> QED
    BY <1>3, <2>1, Unrelated DEF Expunge, MarkUnread, ReadElsewhere, processor
<1>4. ASSUME NEW n \in Nat, PollFetch(n) \/ PollMark(n) PROVE CardBound'
  <2>1. UNCHANGED spent \/ Spend("imapfault")
    BY <1>4 DEF PollFetch, PollMark
  <2>2. spent' \in [Disturbances -> Nat] /\ Causes' \in Nat /\ Causes' >= Causes
    BY <1>0, <2>1, SpendCauses DEF TypeProc, Disturbances, Causes
  <2> QED
    BY <1>4, <2>2, Unrelated DEF PollFetch, PollMark, processor
<1>5. ASSUME NEW ok \in BOOLEAN, PollPersist(ok) PROVE CardBound'
  <2>1. spent' \in [Disturbances -> Nat] /\ Causes' \in Nat /\ Causes' >= Causes
    BY <1>0, <1>5, DbCauses DEF PollPersist, TypeProc
  <2>2. /\ rows' \in [Mails -> MessageStatus \cup {"None"}]
        /\ \A m \in Mails : rows'[m] = rows[m] \/ (rows[m] = "None" /\ rows'[m] = "Pending")
    BY <1>0, <1>5 DEF PollPersist, TypeProc, MessageStatus, insert_message,
       get_message_by_external_id
  <2>3. TypeProc'
    BY <1>0, <1>5, <2>1, <2>2 DEF PollPersist, processor, TypeProc
  <2>4. ASSUME NEW m \in Mails PROVE Accounted(m)'
    BY <1>0, <1>5, <2>1, <2>2
    DEF CardBound, TypeProc, PollPersist, processor, Accounted, Due,
        insert_message, get_message_by_external_id
  <2> QED
    BY <2>3, <2>4 DEF CardBound
<1>6. ASSUME NEW ok \in BOOLEAN, ProcList(ok) PROVE CardBound'
  <2>1. spent' \in [Disturbances -> Nat] /\ Causes' \in Nat /\ Causes' >= Causes
    BY <1>0, <1>6, DbCauses DEF ProcList, TypeProc
  <2>2. ASSUME NEW m \in Mails PROVE Accounted(m)'
    BY <1>0, <1>6, <2>1 DEF CardBound, TypeProc, ProcList, Accounted, Due, get_pending_messages
  <2>3. plist' \subseteq Mails /\ (pmail' \notin plist')
    BY <1>0, <1>6 DEF TypeProc, ProcList, get_pending_messages
  <2> QED
    BY <1>0, <1>6, <2>1, <2>2, <2>3 DEF CardBound, TypeProc, ProcList
<1>7. ASSUME NEW m \in Mails, NEW ok \in BOOLEAN, ProcTriage(m, ok) PROVE CardBound'
  <2>1. spent' \in [Disturbances -> Nat] /\ Causes' \in Nat /\ Causes' >= Causes
    BY <1>0, <1>7, SpendCauses DEF ProcTriage, TypeProc, Disturbances, Causes
  <2>2. TypeProc'
    BY <1>0, <1>7, <2>1 DEF TypeProc, ProcTriage
  <2>3. ASSUME NEW x \in Mails PROVE Accounted(x)'
    BY <1>0, <1>7, <2>1 DEF CardBound, TypeProc, ProcTriage, Accounted, Due
  <2> QED
    BY <2>2, <2>3 DEF CardBound
<1>8. ASSUME NEW ignore \in BOOLEAN, ProcRoute(ignore) PROVE CardBound'
  <2>1. TypeProc' /\ Causes' = Causes
    BY <1>0, <1>8 DEF TypeProc, ProcRoute, Causes
  <2>2. ASSUME NEW x \in Mails PROVE Accounted(x)'
    BY <1>0, <1>8, <2>1 DEF CardBound, TypeProc, ProcRoute, Accounted, Due
  <2> QED
    BY <2>1, <2>2 DEF CardBound
<1>9. ASSUME NEW ok \in BOOLEAN, ProcStatus(ok) PROVE CardBound'
  <2>1. /\ spent' \in [Disturbances -> Nat] /\ Causes' \in Nat /\ Causes' >= Causes
        /\ ~ok => Causes' = Causes + 1
    BY <1>0, <1>9, DbCauses DEF ProcStatus, update_message_status, TypeProc
  <2>2. TypeProc'
    BY <1>0, <1>9, <2>1 DEF TypeProc, ProcStatus, update_message_status, MessageStatus
  <2>3. ASSUME NEW x \in Mails PROVE Accounted(x)'
    BY <1>0, <1>9, <2>1
    DEF CardBound, TypeProc, ProcStatus, update_message_status, Accounted, Due
  <2> QED
    BY <2>2, <2>3 DEF CardBound
<1>10. ASSUME NEW m \in Mails, NEW s \in MessageStatus, NEW ok \in BOOLEAN,
              DecideHolder(m, s, ok)
       PROVE  CardBound'
  <2>1. spent' \in [Disturbances -> Nat] /\ Causes' \in Nat /\ Causes' >= Causes
    BY <1>0, <1>10, DbCauses DEF DecideHolder, update_message_status, TypeProc
  <2>2. TypeProc'
    BY <1>0, <1>10, <2>1 DEF TypeProc, DecideHolder, update_message_status, processor
  <2>3. ASSUME NEW x \in Mails PROVE Accounted(x)'
    BY <1>0, <1>10, <2>1
    DEF CardBound, TypeProc, DecideHolder, update_message_status, processor, Accounted, Due
  <2> QED
    BY <2>2, <2>3 DEF CardBound
<1>11. ASSUME NEW m \in Mails, CloseHolder(m) \/ CloseDraft(m) PROVE CardBound'
  BY <1>0, <1>11, Unrelated DEF CloseHolder, CloseDraft, processor, TypeProc, Causes
<1>12. ASSUME Restart PROVE CardBound'
  <2>1. spent' \in [Disturbances -> Nat] /\ Causes' = Causes + 1
    BY <1>0, <1>12, SpendCauses DEF Restart, TypeProc, Disturbances
  <2>2. TypeProc'
    BY <1>0, <1>12, <2>1 DEF TypeProc, Restart
  <2>3. ASSUME NEW x \in Mails PROVE Accounted(x)'
    BY <1>0, <1>12, <2>1 DEF CardBound, TypeProc, Restart, Accounted, Due,
        get_pending_messages, has_pending_card_for_message
  <2> QED
    BY <2>2, <2>3 DEF CardBound
<1>13. CASE Mailbox
  BY <1>2, <1>3, <1>13 DEF Mailbox
<1>14. CASE Poller
  BY <1>4, <1>5, <1>14 DEF Poller
<1>15. CASE Processor
  BY <1>6, <1>7, <1>8, <1>9, <1>15 DEF Processor
<1>16. CASE User
  BY <1>10, <1>11, <1>16 DEF User
<1> QED
  BY <1>1, <1>12, <1>13, <1>14, <1>15, <1>16 DEF Next

\* The account is an invariant of the intake.
THEOREM CardBoundInvariant == Spec => []CardBound
  BY CardBoundInit, CardBoundStep, PTL DEF Spec

\* The processor makes a second card of a mail only after a crash or failed statement,
\* and then one more for each of them at most.
THEOREM ExtraCards == Spec => []ExtraCardsHaveACause
<1>1. CardBound => ExtraCardsHaveACause
  BY CausesNat DEF CardBound, TypeProc, Accounted, ExtraCardsHaveACause, Causes, Disturbances
<1> QED
  BY <1>1, CardBoundInvariant, PTL

-----------------------------------------------------------------------------
(* No mail is lost. *)

\* SEARCH UNSEEN answers with numbers of the mailbox.
LEMMA UnseenType ==
  ASSUME inbox \in Seq(Mails)
  PROVE  Unseen \in Seq(DOMAIN inbox) /\ Len(Unseen) \in Nat
<1> DEFINE D == DOMAIN inbox
           s == [i \in DOMAIN inbox |-> i]
           T == {i \in DOMAIN inbox : inbox[i] \notin seen}
<1>1. s \in Seq(D)
  <2>1. D = 1 .. Len(inbox) /\ Len(inbox) \in Nat
    OBVIOUS
  <2> QED BY <2>1
<1>2. Sift(s, T) \in Seq(D \cap T)
  <2> HIDE DEF s, D, T
  <2> QED BY <1>1, SiftType
<1>3. D \cap T = T /\ T \subseteq D
  OBVIOUS
<1>4. Unseen \in Seq(T)
  BY <1>2, <1>3 DEF Unseen
<1> HIDE DEF T
<1> QED BY <1>3, <1>4

\* A disturbance, or a statement that may fail, is counted.
LEMMA SpendCounts ==
  ASSUME spent \in [Disturbances -> Nat],
         \/ spent' = spent
         \/ \E k \in Disturbances : Spend(k)
         \/ \E ok \in BOOLEAN : Db(ok)
  PROVE  spent' \in [Disturbances -> Nat] /\ (Calm' => Calm)
<1>1. ASSUME NEW k \in Disturbances, Spend(k)
      PROVE  spent' \in [Disturbances -> Nat] /\ (Calm' => Calm)
  <2>1. spent' = [spent EXCEPT ![k] = @ + 1]
    BY <1>1 DEF Spend
  <2>2. \A d \in Disturbances : spent[d] \in Nat /\ spent'[d] \in {spent[d], spent[d] + 1}
    BY <2>1
  <2>3. \A d \in Disturbances : spent'[d] = 0 => spent[d] = 0
    BY <2>2
  <2>4. {"restart", "dbfault", "imapfault", "expunge"} \subseteq Disturbances
    BY DEF Disturbances
  <2> QED BY <2>1, <2>3, <2>4 DEF Calm
<1>2. ASSUME spent' = spent PROVE spent' \in [Disturbances -> Nat] /\ (Calm' => Calm)
  BY <1>2 DEF Calm
<1> QED BY <1>1, <1>2 DEF Db, Disturbances

\* What a disturbance of the path leaves is not calm.
LEMMA SpendEndsCalm ==
  ASSUME spent \in [Disturbances -> Nat], NEW k \in Disturbances, Spend(k),
         k \in {"restart", "dbfault", "imapfault", "expunge"}
  PROVE  ~Calm'
  BY DEF Spend, Calm

\* The poller's variables and the mailbox stay, and no row is lost.
LEMMA PathStays ==
  ASSUME BatchInHand, Calm => SeenIsOnItsWay /\ NumbersHold, Calm' => Calm,
         UNCHANGED <<inbox, poller>>, seen' \ elsewhere' \subseteq seen \ elsewhere,
         \A m \in Mails : rows[m] # "None" => rows'[m] # "None",
         inbox \in Seq(Mails)
  PROVE  BatchInHand' /\ (Calm' => SeenIsOnItsWay' /\ NumbersHold')
<1>1. BatchInHand'
  BY DEF BatchInHand, poller
<1>2. ASSUME Calm' PROVE SeenIsOnItsWay'
  BY <1>2, MailsAssumption DEF SeenIsOnItsWay, poller
<1>3. ASSUME Calm' PROVE NumbersHold'
  BY <1>3, MailsAssumption DEF NumbersHold, poller
<1> QED BY <1>1, <1>2, <1>3

\* Initially there is no mail.
LEMMA MailIsKeptInit == Init => MailIsKept
<1> SUFFICES ASSUME Init PROVE MailIsKept
  OBVIOUS
<1>1. TypeOK
  BY DEF Init, TypeOK, MessageStatus
<1>2. BatchInHand /\ SeenIsOnItsWay /\ NumbersHold
  BY DEF Init, BatchInHand, SeenIsOnItsWay, NumbersHold
<1> QED BY <1>1, <1>2 DEF MailIsKept

\* The mailbox: mails arrive at the end and go, and other clients set and
\* take away \Seen.
LEMMA MailboxKeeps ==
  ASSUME MailIsKept, Mailbox
  PROVE  MailIsKept'
<1> USE DEF MailIsKept
<1>1. ASSUME NEW m \in Mails, Arrive(m) PROVE MailIsKept'
  <2>1. /\ inbox' = Append(inbox, m) /\ m \notin seen
        /\ UNCHANGED <<seen, elsewhere, rows, fpc, batch, marks, spent>>
    BY <1>1 DEF Arrive, poller
  <2>2. /\ inbox' \in Seq(Mails) /\ DOMAIN inbox \subseteq DOMAIN inbox'
        /\ \A i \in DOMAIN inbox : inbox'[i] = inbox[i]
    <3>1. inbox \in Seq(Mails) /\ DOMAIN inbox = 1 .. Len(inbox) /\ Len(inbox) \in Nat
      BY DEF TypeOK
    <3> QED BY <2>1, <3>1, AppendProperties
  <2>3. TypeOK'
    BY <1>1, <2>2 DEF TypeOK, Arrive, poller, processor, cards
  <2>4. BatchInHand'
    BY <2>1 DEF BatchInHand
  <2>5. Calm' => SeenIsOnItsWay' /\ NumbersHold'
    BY <2>1, <2>2 DEF Calm, SeenIsOnItsWay, NumbersHold
  <2> QED BY <2>3, <2>4, <2>5
<1>2. ASSUME NEW i \in Nat, Expunge(i) PROVE MailIsKept'
  <2>1. /\ inbox' = Without(inbox, i) /\ i \in DOMAIN inbox
        /\ UNCHANGED <<seen, elsewhere, rows, fpc, batch, marks>>
    BY <1>2 DEF Expunge, poller
  <2>2. inbox' \in Seq(Mails)
    <3>1. SubSeq(inbox, 1, i - 1) \in Seq(Mails)
      BY <2>1 DEF TypeOK
    <3>2. SubSeq(inbox, i + 1, Len(inbox)) \in Seq(Mails)
      BY <2>1 DEF TypeOK
    <3> QED BY <2>1, <3>1, <3>2 DEF Without
  <2>3. spent' \in [Disturbances -> Nat] /\ ~Calm'
    BY <1>2, SpendCounts, SpendEndsCalm DEF Expunge, TypeOK, Disturbances
  <2>4. TypeOK' /\ BatchInHand'
    BY <1>2, <2>1, <2>2, <2>3 DEF TypeOK, BatchInHand, Expunge, poller, processor, cards
  <2> QED BY <2>3, <2>4
<1>3. ASSUME NEW i \in Nat, MarkUnread(i) PROVE MailIsKept'
  <2>1. spent' \in [Disturbances -> Nat] /\ (Calm' => Calm)
    BY <1>3, SpendCounts DEF MarkUnread, TypeOK, Disturbances
  <2>2. TypeOK'
    BY <1>3, <2>1 DEF TypeOK, MarkUnread, poller, processor, cards
  <2>3. BatchInHand' /\ (Calm' => SeenIsOnItsWay' /\ NumbersHold')
    BY <1>3, <2>1, PathStays DEF MarkUnread, TypeOK
  <2> QED BY <2>2, <2>3
<1>4. ASSUME NEW i \in Nat, ReadElsewhere(i) PROVE MailIsKept'
  <2>1. spent' \in [Disturbances -> Nat] /\ (Calm' => Calm)
    BY <1>4, SpendCounts DEF ReadElsewhere, TypeOK, Disturbances
  <2>2. inbox[i] \in Mails
    BY <1>4 DEF ReadElsewhere, TypeOK
  <2>3. TypeOK'
    BY <1>4, <2>1, <2>2 DEF TypeOK, ReadElsewhere, poller, processor, cards
  <2>4. seen' \ elsewhere' \subseteq seen \ elsewhere
    BY <1>4 DEF ReadElsewhere
  <2>5. BatchInHand' /\ (Calm' => SeenIsOnItsWay' /\ NumbersHold')
    BY <1>4, <2>1, <2>4, PathStays DEF ReadElsewhere, TypeOK
  <2> QED BY <2>3, <2>5
<1> QED BY <1>1, <1>2, <1>3, <1>4 DEF Mailbox

\* The poller's two sessions and the statements between them.
LEMMA PollerKeeps ==
  ASSUME MailIsKept, Poller
  PROVE  MailIsKept'
<1> USE DEF MailIsKept
<1>1. ASSUME NEW n \in Nat, PollFetch(n), n = Len(Unseen) PROVE MailIsKept'
  <2>1. /\ fpc = "idle" /\ fpc' = "persist" /\ n # 0
        /\ seen' = seen \cup {inbox[Unseen[i]] : i \in 1 .. n}
        /\ batch' = [i \in 1 .. n |-> <<Unseen[i], inbox[Unseen[i]]>>]
        /\ UNCHANGED <<inbox, elsewhere, rows, marks, spent>>
    <3>1. Unseen # <<>> /\ Unseen \in Seq(DOMAIN inbox)
      BY <1>1, UnseenType DEF PollFetch, TypeOK
    <3> QED BY <1>1, <3>1 DEF PollFetch
  <2>2. \A i \in 1 .. n : Unseen[i] \in DOMAIN inbox /\ Unseen[i] \in Nat /\
            inbox[Unseen[i]] \in Mails
    <3>1. Unseen \in Seq(DOMAIN inbox) /\ inbox \in Seq(Mails)
      BY UnseenType DEF TypeOK
    <3>2. \A i \in 1 .. n : Unseen[i] \in DOMAIN inbox
      BY <1>1, <3>1
    <3> QED BY <3>1, <3>2
  <2>3. /\ batch' \in Seq(Nat \X Mails) /\ batch' # <<>> /\ DOMAIN batch' = 1 .. n
        /\ \A i \in 1 .. n : batch'[i] = <<Unseen[i], inbox[Unseen[i]]>>
    <3>1. \A i \in 1 .. n : <<Unseen[i], inbox[Unseen[i]]>> \in Nat \X Mails
      BY <2>2
    <3> HIDE DEF Unseen
    <3>2. DOMAIN batch' = 1 .. n /\ \A i \in 1 .. n :
              batch'[i] = <<Unseen[i], inbox[Unseen[i]]>>
      BY <2>1
    <3>3. batch' \in Seq(Nat \X Mails) /\ Len(batch') = n
      BY <2>1, <3>1
    <3> QED BY <2>1, <3>2, <3>3
  <2>4. seen' \subseteq Mails
    <3>1. {inbox[Unseen[i]] : i \in 1 .. n} \subseteq Mails
      BY <2>2
    <3> QED BY <2>1, <3>1 DEF TypeOK
  <2>5. TypeOK' /\ BatchInHand'
    BY <1>1, <2>1, <2>3, <2>4 DEF TypeOK, BatchInHand, PollFetch, processor, cards
  <2>6. Calm' => SeenIsOnItsWay'
    <3> SUFFICES ASSUME Calm, NEW m \in (seen' \ elsewhere) \cap Wanted
                 PROVE  rows[m] # "None" \/ \E i \in 1 .. n : batch'[i][2] = m
      BY <2>1, <2>3 DEF Calm, SeenIsOnItsWay
    <3>1. CASE m \in seen
      BY <2>1, <3>1 DEF SeenIsOnItsWay, BatchInHand
    <3>2. CASE \E i \in 1 .. n : m = inbox[Unseen[i]]
      BY <2>3, <3>2
    <3> QED BY <2>1, <3>1, <3>2
  <2>7. Calm' => NumbersHold'
    BY <2>1, <2>2, <2>3 DEF Calm, NumbersHold
  <2> QED BY <2>5, <2>6, <2>7
<1>2. ASSUME NEW n \in Nat, PollFetch(n), n # Len(Unseen) PROVE MailIsKept'
  <2>1. spent' \in [Disturbances -> Nat] /\ ~Calm'
    BY <1>2, SpendCounts, SpendEndsCalm DEF PollFetch, TypeOK, Disturbances
  <2>2. seen' \subseteq Mails
    <3>2. n \in 0 .. Len(Unseen) /\ Len(Unseen) \in Nat
      BY <1>2, UnseenType DEF TypeOK, PollFetch
    <3>3. Unseen \in Seq(DOMAIN inbox) /\ inbox \in Seq(Mails)
      BY UnseenType DEF TypeOK
    <3>4. \A i \in 1 .. n : inbox[Unseen[i]] \in Mails
      <4>1. \A i \in 1 .. n : Unseen[i] \in DOMAIN inbox
        BY <3>2, <3>3
      <4> QED BY <3>3, <4>1
    <3>5. {inbox[Unseen[i]] : i \in 1 .. n} \subseteq Mails
      BY <3>4
    <3>6. seen' = seen \cup {inbox[Unseen[i]] : i \in 1 .. n}
      BY <1>2 DEF PollFetch
    <3> QED BY <3>5, <3>6 DEF TypeOK
  <2>3. TypeOK' /\ BatchInHand'
    BY <1>2, <2>1, <2>2 DEF TypeOK, BatchInHand, PollFetch, processor, cards
  <2> QED BY <2>1, <2>3
<1>3. ASSUME NEW ok \in BOOLEAN, PollPersist(ok) PROVE MailIsKept'
  <2> DEFINE m == Head(batch)[2]
  <2>1. /\ fpc = "persist" /\ batch # <<>> /\ batch \in Seq(Nat \X Mails)
        /\ batch' = Tail(batch) /\ marks' = Append(marks, Head(batch)[1])
        /\ fpc' = (IF Len(batch) = 1 THEN "mark" ELSE "persist")
        /\ UNCHANGED <<inbox, seen, elsewhere>>
    BY <1>3 DEF PollPersist, BatchInHand, TypeOK
  <2>2. /\ Head(batch) = batch[1] /\ 1 \in DOMAIN batch
        /\ batch[1][1] \in Nat /\ batch[1][2] \in Mails
        /\ \A i \in DOMAIN batch : i # 1 => i - 1 \in DOMAIN Tail(batch)
                                            /\ Tail(batch)[i - 1] = batch[i]
        /\ \A i \in DOMAIN Tail(batch) : i + 1 \in DOMAIN batch /\
               Tail(batch)[i] = batch[i + 1]
        /\ Tail(batch) \in Seq(Nat \X Mails) /\ (Tail(batch) = <<>> <=> Len(batch) = 1)
    <3>1. /\ Tail(batch) \in Seq(Nat \X Mails) /\ Len(Tail(batch)) = Len(batch) - 1
          /\ \A i \in 1 .. Len(Tail(batch)) : Tail(batch)[i] = batch[i + 1]
      BY <2>1, HeadTailProperties
    <3>2. /\ Len(batch) \in Nat \ {0} /\ DOMAIN batch = 1 .. Len(batch)
          /\ DOMAIN Tail(batch) = 1 .. Len(Tail(batch))
      BY <2>1, <3>1
    <3>3. Head(batch) = batch[1] /\ batch[1] \in Nat \X Mails
      BY <2>1, <3>2
    <3>4. Tail(batch) = <<>> <=> Len(batch) = 1
      <4>1. Tail(batch) = <<>> <=> Len(Tail(batch)) = 0
        BY <3>1, EmptySeq
      <4>2. Len(Tail(batch)) = 0 <=> Len(batch) = 1
        BY <3>1, <3>2
      <4> QED BY <4>1, <4>2, Zenon
    <3>5. \A i \in DOMAIN batch : i # 1 => i - 1 \in DOMAIN Tail(batch)
                                           /\ Tail(batch)[i - 1] = batch[i]
      <4>1. ASSUME NEW i \in DOMAIN batch, i # 1
            PROVE  i - 1 \in 1 .. Len(Tail(batch)) /\ (i - 1) + 1 = i
        BY <3>1, <3>2, <4>1
      <4> QED BY <3>1, <3>2, <4>1
    <3>6. \A i \in DOMAIN Tail(batch) : i + 1 \in DOMAIN batch /\ Tail(batch)[i] = batch[i + 1]
      <4>1. \A i \in 1 .. Len(Tail(batch)) : i + 1 \in 1 .. Len(batch)
        BY <3>1, <3>2
      <4> QED BY <3>1, <3>2, <4>1
    <3> QED BY <3>1, <3>2, <3>3, <3>4, <3>5, <3>6
  <2>3. spent' \in [Disturbances -> Nat] /\ (Calm' => Calm) /\ (Calm' => ok)
    <3>1. Db(ok)
      BY <1>3 DEF PollPersist
    <3>2. ~ok => ~Calm'
      BY <3>1, SpendEndsCalm DEF Db, TypeOK, Disturbances
    <3> QED BY <3>1, <3>2, SpendCounts DEF TypeOK
  <2>4. /\ rows' \in [Mails -> MessageStatus \cup {"None"}]
        /\ \A q \in Mails : rows[q] # "None" => rows'[q] # "None"
        /\ ok /\ m \in Wanted => rows'[m] # "None"
    BY <1>3, <2>2
    DEF PollPersist, insert_message, get_message_by_external_id, TypeOK, MessageStatus
  <2>5. marks' \in Seq(Nat)
    BY <2>1, <2>2 DEF TypeOK
  <2>6. TypeOK'
    BY <1>3, <2>1, <2>2, <2>3, <2>4, <2>5 DEF TypeOK, PollPersist, processor, cards
  <2>7. BatchInHand'
    BY <2>1, <2>2 DEF BatchInHand
  <2>8. Calm' => SeenIsOnItsWay'
    <3> SUFFICES ASSUME Calm, ok, NEW q \in (seen \ elsewhere) \cap Wanted
                 PROVE  rows'[q] # "None" \/ \E i \in DOMAIN Tail(batch) :
                            Tail(batch)[i][2] = q
      BY <2>1, <2>3 DEF SeenIsOnItsWay
    <3>1. CASE rows[q] # "None"
      BY <2>4, <3>1, MailsAssumption
    <3>2. CASE \E i \in DOMAIN batch : batch[i][2] = q
      <4>1. PICK i \in DOMAIN batch : batch[i][2] = q
        BY <3>2
      <4>2. CASE i = 1
        BY <2>2, <2>4, <4>1, <4>2
      <4>3. CASE i # 1
        BY <2>2, <4>1, <4>3
      <4> QED BY <4>2, <4>3
    <3> QED BY <3>1, <3>2 DEF SeenIsOnItsWay
  <2>9. Calm' => NumbersHold'
    <3> SUFFICES ASSUME Calm, ok
                 PROVE  NumbersHold'
      BY <2>3
    <3>1. batch[1][1] \in DOMAIN inbox /\ inbox[batch[1][1]] = m
      BY <2>2 DEF NumbersHold
    <3>2. \A i \in DOMAIN marks' :
             \/ i \in DOMAIN marks /\ marks'[i] = marks[i]
             \/ marks'[i] = batch[1][1]
      <4>1. /\ marks \in Seq(Nat) /\ marks' = Append(marks, batch[1][1]) /\ batch[1][1] \in Nat
            /\ marks' \in Seq(Nat)
        BY <2>1, <2>2, <2>5 DEF TypeOK
      <4>2. /\ Len(marks') = Len(marks) + 1 /\ marks'[Len(marks) + 1] = batch[1][1]
            /\ \A i \in 1 .. Len(marks) : marks'[i] = marks[i]
        BY <4>1, AppendProperties
      <4>3. DOMAIN marks' = 1 .. Len(marks') /\ DOMAIN marks = 1 .. Len(marks)
            /\ Len(marks) \in Nat
        BY <4>1
      <4> QED BY <4>2, <4>3
    <3>3. ASSUME NEW i \in DOMAIN marks'
          PROVE  /\ marks'[i] \in DOMAIN inbox
                 /\ inbox[marks'[i]] \in Wanted => rows'[inbox[marks'[i]]] # "None"
      <4>1. CASE i \in DOMAIN marks /\ marks'[i] = marks[i]
        BY <2>4, <4>1, MailsAssumption DEF NumbersHold
      <4>2. CASE marks'[i] = batch[1][1]
        BY <2>2, <2>4, <3>1, <4>2
      <4> QED BY <3>2, <4>1, <4>2
    <3>4. \A i \in DOMAIN Tail(batch) : /\ Tail(batch)[i][1] \in DOMAIN inbox
                                        /\ inbox[Tail(batch)[i][1]] = Tail(batch)[i][2]
      BY <2>2 DEF NumbersHold
    <3> QED BY <2>1, <3>3, <3>4 DEF NumbersHold
  <2> QED BY <2>6, <2>7, <2>8, <2>9
<1>4. ASSUME NEW n \in Nat, PollMark(n) PROVE MailIsKept'
  <2>1. /\ fpc = "mark" /\ fpc' = "idle" /\ n \in 0 .. Len(marks) /\ marks' = <<>>
        /\ seen' = seen \cup {inbox[marks[i]] : i \in {j \in 1 .. n :
               marks[j] \in DOMAIN inbox}}
        /\ UNCHANGED <<inbox, elsewhere, rows, batch>>
    BY <1>4 DEF PollMark
  <2>2. \A q \in seen' : q \in seen \/ \E i \in DOMAIN marks : marks[i] \in DOMAIN inbox
                                                               /\ q = inbox[marks[i]]
    <3>1. \A i \in 1 .. n : i \in DOMAIN marks
      BY <2>1 DEF TypeOK
    <3> QED BY <2>1, <3>1
  <2>3. spent' \in [Disturbances -> Nat] /\ (Calm' => Calm)
    <3>1. spent' = spent \/ Spend("imapfault")
      BY <1>4 DEF PollMark
    <3> QED BY <3>1, SpendCounts DEF TypeOK, Disturbances
  <2>4. seen' \subseteq Mails
    BY <2>2 DEF TypeOK
  <2>5. TypeOK' /\ BatchInHand'
    BY SMTT(30), <1>4, <2>1, <2>3, <2>4 DEF TypeOK, BatchInHand, PollMark, processor, cards
  <2>6. Calm' => SeenIsOnItsWay'
    <3> SUFFICES ASSUME Calm, NEW q \in (seen' \ elsewhere) \cap Wanted
                 PROVE  rows[q] # "None" \/ \E i \in DOMAIN batch : batch[i][2] = q
      BY <2>1, <2>3 DEF SeenIsOnItsWay
    <3>1. CASE q \in seen
      BY <3>1 DEF SeenIsOnItsWay
    <3>2. CASE \E i \in DOMAIN marks : marks[i] \in DOMAIN inbox /\ q = inbox[marks[i]]
      BY <3>2 DEF NumbersHold
    <3> QED BY <2>2, <3>1, <3>2
  <2>7. Calm' => NumbersHold'
    BY <2>1, <2>3 DEF NumbersHold
  <2> QED BY <2>5, <2>6, <2>7
<1> QED BY <1>1, <1>2, <1>3, <1>4 DEF Poller

\* A card more.
LEMMA OneMore ==
  ASSUME NEW f \in [Mails -> Nat], NEW m
  PROVE  [f EXCEPT ![m] = @ + 1] \in [Mails -> Nat]
<1>1. CASE m \in Mails
  BY <1>1
<1>2. CASE m \notin Mails
  BY <1>2
<1> QED BY <1>1, <1>2

\* A card less.
LEMMA OneLess ==
  ASSUME NEW f \in [Mails -> Nat], NEW m \in Mails, f[m] > 0
  PROVE  [f EXCEPT ![m] = @ - 1] \in [Mails -> Nat]
<1>1. f[m] - 1 \in Nat
  OBVIOUS
<1> QED BY <1>1

\* The processor and the user write rows that are there.
LEMMA RowsOnlyMove ==
  ASSUME TypeOK, Processor \/ User
  PROVE  /\ TypeOK' /\ (Calm' => Calm) /\ UNCHANGED <<inbox, seen, elsewhere, poller>>
         /\ \A m \in Mails : rows[m] # "None" => rows'[m] # "None"
         /\ \A m \in Mails : rows[m] \in {"Replied", "Dismissed"} =>
                                rows'[m] \in {"Replied", "Dismissed"}
<1> DEFINE Goal == /\ TypeOK' /\ (Calm' => Calm) /\ UNCHANGED <<inbox, seen, elsewhere, poller>>
                   /\ \A m \in Mails : rows[m] # "None" => rows'[m] # "None"
                   /\ \A m \in Mails : rows[m] \in {"Replied", "Dismissed"} =>
                                          rows'[m] \in {"Replied", "Dismissed"}
<1>1. ASSUME NEW ok \in BOOLEAN, ProcList(ok) PROVE Goal
  BY <1>1, SpendCounts DEF ProcList, get_pending_messages, TypeOK, poller, cards
<1>2. ASSUME NEW ok \in BOOLEAN, ProcRoute(ok) PROVE Goal
  <2>1. /\ drafts' \in [Mails -> Nat] /\ triages' \in [Mails -> Nat]
        /\ UNCHANGED <<inbox, seen, elsewhere, rows, fpc, batch, marks, plist, pmail, holders, spent>>
        /\ ppc' = "status"
    <3>1. [drafts EXCEPT ![pmail] = @ + 1] \in [Mails -> Nat]
          /\ [triages EXCEPT ![pmail] = @ + 1] \in [Mails -> Nat]
      BY OneMore DEF TypeOK
    <3> QED BY <1>2, <3>1 DEF ProcRoute, poller, TypeOK
  <2> QED BY <2>1 DEF TypeOK, poller, Calm
<1>3. ASSUME NEW ok \in BOOLEAN, ProcStatus(ok) PROVE Goal
  <2>1. /\ rows' \in [Mails -> MessageStatus \cup {"None"}]
        /\ \A m \in Mails : rows'[m] = rows[m] \/ (rows[m] # "None" /\ rows'[m] = "Replied")
    BY <1>3 DEF ProcStatus, update_message_status, TypeOK, MessageStatus
  <2>2. spent' \in [Disturbances -> Nat] /\ (Calm' => Calm)
    BY <1>3, SpendCounts DEF ProcStatus, update_message_status, TypeOK
  <2>3. TypeOK' /\ UNCHANGED <<inbox, seen, elsewhere, poller>>
    BY <1>3, <2>1, <2>2 DEF TypeOK, ProcStatus, poller, cards
  <2> QED BY <2>1, <2>2, <2>3
<1>4. ASSUME NEW m \in Mails, NEW ok \in BOOLEAN, ProcTriage(m, ok) PROVE Goal
  <2>1. spent' \in [Disturbances -> Nat] /\ (Calm' => Calm)
    <3>1. spent' = spent \/ Spend("llmfault")
      BY <1>4 DEF ProcTriage
    <3> QED BY <3>1, SpendCounts DEF TypeOK, Disturbances
  <2> QED BY <1>4, <2>1 DEF TypeOK, ProcTriage, poller, cards
<1>5. ASSUME NEW m \in Mails, NEW s \in MessageStatus,
             NEW ok \in BOOLEAN, DecideHolder(m, s, ok)
      PROVE  Goal
  <2>1. /\ rows' \in [Mails -> MessageStatus \cup {"None"}]
        /\ \A q \in Mails : \/ rows'[q] = rows[q]
                            \/ rows[q] # "None" /\ rows'[q] \in {"Replied", "Dismissed"}
    BY <1>5 DEF DecideHolder, update_message_status, TypeOK, MessageStatus
  <2>2. spent' \in [Disturbances -> Nat] /\ (Calm' => Calm)
    BY <1>5, SpendCounts DEF DecideHolder, update_message_status, TypeOK
  <2>3. holders' \in [Mails -> Nat]
    BY <1>5, OneLess DEF DecideHolder, TypeOK
  <2>4. TypeOK' /\ UNCHANGED <<inbox, seen, elsewhere, poller>>
    BY <1>5, <2>1, <2>2, <2>3 DEF TypeOK, DecideHolder, poller, processor
  <2> QED BY <2>1, <2>2, <2>4
<1>6. ASSUME NEW m \in Mails, CloseHolder(m) \/ CloseDraft(m) PROVE Goal
  <2>1. /\ holders' \in [Mails -> Nat] /\ drafts' \in [Mails -> Nat]
        /\ UNCHANGED <<inbox, seen, elsewhere, rows, poller, processor, triages, spent>>
    <3>1. holders \in [Mails -> Nat] /\ drafts \in [Mails -> Nat]
      BY DEF TypeOK
    <3>2. CASE CloseHolder(m)
      <4>1. [holders EXCEPT ![m] = @ - 1] \in [Mails -> Nat]
        BY <3>1, <3>2, OneLess DEF CloseHolder
      <4> QED BY <3>1, <3>2, <4>1 DEF CloseHolder
    <3>3. CASE CloseDraft(m)
      <4>1. [drafts EXCEPT ![m] = @ - 1] \in [Mails -> Nat]
        BY <3>1, <3>3, OneLess DEF CloseDraft
      <4> QED BY <3>1, <3>3, <4>1 DEF CloseDraft
    <3> QED BY <1>6, <3>2, <3>3
  <2> QED BY <2>1 DEF TypeOK, poller, processor, Calm
<1> HIDE DEF Goal
<1>7. Goal
  BY <1>1, <1>2, <1>3, <1>4, <1>5, <1>6 DEF Processor, User
<1> QED BY <1>7 DEF Goal

\* Every step keeps the mail.
LEMMA MailIsKeptStep == MailIsKept /\ [Next]_vars => MailIsKept'
<1> SUFFICES ASSUME MailIsKept, [Next]_vars PROVE MailIsKept'
  OBVIOUS
<1>1. CASE Processor \/ User
  BY <1>1, RowsOnlyMove, PathStays DEF MailIsKept, TypeOK
<1>2. CASE Restart
  <2>1. spent' \in [Disturbances -> Nat] /\ ~Calm'
    BY <1>2, SpendCounts, SpendEndsCalm DEF Restart, MailIsKept, TypeOK, Disturbances
  <2>2. TypeOK' /\ BatchInHand'
    BY <1>2, <2>1, SMTT(30) DEF Restart, MailIsKept, TypeOK, BatchInHand
  <2> QED BY <2>1, <2>2 DEF MailIsKept
<1>3. CASE UNCHANGED vars
  <2>1. TypeOK'
    BY <1>3 DEF vars, poller, processor, cards, MailIsKept, TypeOK
  <2>2. BatchInHand' /\ (Calm' => SeenIsOnItsWay' /\ NumbersHold')
    BY <1>3, PathStays DEF vars, Calm, MailIsKept, TypeOK
  <2> QED BY <2>1, <2>2 DEF MailIsKept
<1> QED BY <1>1, <1>2, <1>3, MailboxKeeps, PollerKeeps DEF Next

\* The inductive invariant of the way to the table.
THEOREM MailIsKeptInvariant == Spec => []MailIsKept
BY MailIsKeptInit, MailIsKeptStep, PTL DEF Spec

\* A wanted mail that carries \Seen while the poller rests is in the table, unless
\* another client has read this mail before the poller did, the process died, a
\* statement or the connection failed, or a mail was deleted.
THEOREM NoMailIsLost == Spec => []TableHoldsTheMail
<1>1. MailIsKept => TableHoldsTheMail
  BY DEF MailIsKept, TableHoldsTheMail, UnstoredHasACause, Calm, BatchInHand, SeenIsOnItsWay
<1> QED BY <1>1, MailIsKeptInvariant, PTL

\* A mail that was answered or dismissed is never pending again, fetched a second time
\* or not.
THEOREM AnswersStand == Spec => AnsweredStaysAnswered
<1>1. ASSUME MailIsKept, [Next]_vars
      PROVE  [\A m \in Mails : rows[m] \in {"Replied", "Dismissed"}
                => rows'[m] \in {"Replied", "Dismissed"}]_vars
  <2> SUFFICES ASSUME Next
               PROVE  \A m \in Mails : rows[m] \in {"Replied", "Dismissed"}
                                          => rows'[m] \in {"Replied", "Dismissed"}
    BY <1>1
  <2>1. CASE Processor \/ User
    BY <1>1, <2>1, RowsOnlyMove DEF MailIsKept
  <2>2. CASE Restart \/ Mailbox
    BY <2>2 DEF Restart, Mailbox, Arrive, Expunge, MarkUnread, ReadElsewhere
  <2>3. ASSUME NEW ok \in BOOLEAN, PollPersist(ok)
        PROVE  \A m \in Mails : rows[m] # "None" => rows'[m] = rows[m]
    BY <1>1, <2>3 DEF PollPersist, insert_message, MailIsKept, TypeOK
  <2>4. CASE Poller
    BY <2>3, <2>4 DEF Poller, PollFetch, PollMark
  <2> QED BY <2>1, <2>2, <2>4 DEF Next
<1> QED BY <1>1, MailIsKeptInvariant, PTL DEF Spec, AnsweredStaysAnswered

-----------------------------------------------------------------------------
(* The todo list: what holds at every moment *)

\* What a change under way has in its hands.
WriterFits(w) ==
    LET x == writer[w] IN
    /\ x.pc = "idle" => x = Idle
    /\ x.pc = "merge" => x.id \in Ids
    /\ x.pc = "merge" /\ x.id \in Todos => x.row \in TodoItem /\ x.set \in Edits \cup {Snoozed}
    /\ x.pc = "merge" /\ x.id \in Docs => x.row \in Document /\ x.set \in DocEdits
    /\ x.pc \in {"created", "updated"} => x.id \in Todos /\ x.row \in TodoItem /\ x.set = None
    /\ x.pc \in {"reread", "deleted"} => x.id \in Todos /\ x.row = None /\ x.set = None

\* Ids are created once: of one that is not yet used there is no row, and no change but
\* the completion of a todo that is not there.
FreshIsNew ==
    /\ \A i \in Ids \ used : Row(i) = None
    /\ \A w \in Writers : writer[w].id \in Ids \ used => writer[w].pc \in {"reread", "deleted"}

\* The types of the rows and the changes.
RowTypes ==
    /\ todos \in [Todos -> TodoItem \cup {None}]
    /\ docs \in [Docs -> Document \cup {None}]
    /\ writer \in [Writers -> [pc : {"idle", "merge", "reread", "created", "updated", "deleted"},
                               id : Ids \cup {None}, row : TodoItem \cup Document \cup {None},
                               set : Edits \cup DocEdits \cup {Snoozed, None}]]
    /\ used \subseteq Ids /\ overlap \subseteq Ids
    /\ DOMAIN serial = Ids

\* A change that is to write a row back has the row as it is, and every id that two
\* changes are at work on is known to be one.
ChangesAreAlone ==
    /\ \A w \in Writers : writer[w].pc = "merge" /\ writer[w].id \notin overlap =>
          writer[w].row = Row(writer[w].id)
    /\ \A v, w \in Writers : v # w /\ writer[v].id = writer[w].id /\ writer[v].id # None =>
          writer[v].id \in overlap

\* The rows, the changes and the history they are compared with.
RowsInv ==
    /\ RowTypes /\ \A w \in Writers : WriterFits(w)
    /\ FreshIsNew /\ LostUpdateHasACause /\ ChangesAreAlone

\* The change has written to the todo and not yet announced it.
Acting(w, t) == writer[w].id = t /\ writer[w].pc \in {"reread", "created", "updated", "deleted"}

\* The change has created the todo; the announcement of that is in the receiver.
Creating(w, t) == writer[w].id = t /\ writer[w].pc = "created"
NewsAt(i, t) == rx[i].id = t /\ rx[i].k = "created"

\* No race and no agent has put the client out of step about the todo.
Good(t) == t \notin amiss \cup overlap \cup unheard

\* The client should not show the todo.
Off(t) == todos[t] = None \/ todos[t].internal \/ todos[t].status = "Completed"

\* An announcement of kind k that leaves the client with the todo as it is.
Fits(t, k, row) == IF k \in {"created", "updated"} THEN row = todos[t] ELSE Off(t)

\* Of a todo that has not been created, no row is anywhere.
FreshIsUnseen ==
    \A t \in Todos \ used :
        /\ \A i \in DOMAIN rx : rx[i].id = t => rx[i].k = "deleted"
        /\ \A i \in DOMAIN list : list[i].id # t

\* Internal is for life.
InternalIsKept ==
    \A t \in Todos : todos[t] # None =>
        /\ \A i \in DOMAIN list : list[i].id = t => list[i].row.internal = todos[t].internal
        /\ \A i \in DOMAIN rx : rx[i].id = t /\ rx[i].row # None =>
              rx[i].row.internal = todos[t].internal
        /\ \A w \in Writers : writer[w].id = t /\ writer[w].row # None =>
              writer[w].row.internal = todos[t].internal

\* A creation is announced once.
CreatedOnce ==
    /\ \A v, w \in Writers : \A t \in Todos : Creating(v, t) /\ Creating(w, t) => v = w
    /\ \A w \in Writers, i \in DOMAIN rx : \A t \in Todos : ~(Creating(w, t) /\ NewsAt(i, t))
    /\ \A i, j \in DOMAIN rx : \A t \in Todos : NewsAt(i, t) /\ NewsAt(j, t) => i = j

\* The client lists a todo once, and not before the announcement of its creation.
ListedOnce ==
    \A t \in Todos : Good(t) =>
        /\ \A i, j \in DOMAIN list : list[i].id = t /\ list[j].id = t => i = j
        /\ (\E w \in Writers : Creating(w, t)) \/ (\E i \in DOMAIN rx : NewsAt(i, t)) =>
              \A i \in DOMAIN list : list[i].id # t

\* What is about to be announced, and what was announced last, is the todo as it is.
NewsFit ==
    \A t \in Todos : Good(t) =>
        /\ \A w \in Writers : Acting(w, t) => Fits(t, writer[w].pc, writer[w].row)
        /\ \A i \in DOMAIN rx :
              /\ rx[i].id = t /\ \A j \in DOMAIN rx : j > i => rx[j].id # t
              /\ \A w \in Writers : ~Acting(w, t)
              => Fits(t, rx[i].k, rx[i].row)

\* Nothing about t is on its way to the client.
Quiet(t) ==
    /\ conn # "off" /\ ~lagged /\ ~unsent
    /\ \A w \in Writers : ~Acting(w, t)
    /\ \A i \in DOMAIN rx : rx[i].id # t

\* Then the client shows it as the table has it.
ListIsRight ==
    \A t \in Todos : Good(t) /\ Quiet(t) =>
        {list[i].row : i \in Shown(t)} = Listed(t) \/ Foreign(t)

\* The types of the connection and the client.
ClientTypes ==
    /\ conn \in {"off", "synced", "live"} /\ lagged \in BOOLEAN /\ unsent \in BOOLEAN
    /\ rx \in Seq([k : {"created", "updated", "deleted"}, id : Todos, row : TodoItem \cup {None}])
    /\ \A i \in DOMAIN rx : rx[i].k = "deleted" <=> rx[i].row = None
    /\ list \in Seq([id : Todos, row : TodoItem])
    /\ conn # "live" => rx = <<>> /\ lagged = FALSE
    /\ amiss \subseteq Todos /\ unheard \subseteq Todos

\* The connection, the client and what is about to be announced.
ClientInv ==
    /\ ClientTypes /\ FreshIsUnseen /\ InternalNeverShown /\ InternalIsKept
    /\ CreatedOnce /\ ListedOnce /\ NewsFit /\ ListIsRight

-----------------------------------------------------------------------------
(* The rows *)

\* What the fields of a request leave of a todo is a todo, and as internal as it was.
LEMMA MergedTodo ==
  ASSUME NEW row \in TodoItem, NEW set \in Edits \cup {Snoozed}
  PROVE  Merge(row, set) \in TodoItem /\ Merge(row, set).internal = row.internal
<1>1. /\ DOMAIN set \subseteq {"status", "title"}
      /\ "status" \in DOMAIN set => set["status"] \in TodoStatus
      /\ "title" \in DOMAIN set => set["title"] \in 0 .. 1
  BY EditsAssumption DEF Snoozed, TodoStatus
<1>2. DOMAIN row = {"status", "title", "internal", "mine"}
  BY DEF TodoItem
<1> DEFINE F(f) == IF f \in DOMAIN set THEN set[f] ELSE row[f]
           new == Merge(row, set)
<1>3. new = [f \in {"status", "title", "internal", "mine"} |-> F(f)]
  BY <1>2 DEF Merge
<1>4. F("status") \in TodoStatus /\ F("title") \in 0 .. 1 /\ F("internal") = row.internal
      /\ F("mine") = row.mine
  BY <1>1 DEF TodoItem
<1>5. new = [status |-> F("status"), title |-> F("title"), internal |-> row.internal,
             mine |-> row.mine]
  <2> HIDE DEF new
  <2> QED BY <1>3, <1>4
<1> HIDE DEF new, F
<1>6. row.internal \in BOOLEAN /\ row.mine \in BOOLEAN
  BY DEF TodoItem
<1>7. new \in TodoItem
  BY <1>4, <1>5, <1>6 DEF TodoItem
<1>8. new.internal = row.internal
  BY <1>5
<1> QED BY <1>7, <1>8 DEF new

\* What the fields of a request leave of a document is a document.
LEMMA MergedDocument ==
  ASSUME NEW row \in Document, NEW set \in DocEdits
  PROVE  Merge(row, set) \in Document
<1>1. \A f \in DOMAIN set : set[f] \in 0 .. 1
  BY EditsAssumption
<1>2. DOMAIN row = {"content", "title"} /\ \A f \in DOMAIN row : row[f] \in 0 .. 1
  BY DEF Document
<1> DEFINE F(f) == IF f \in DOMAIN set THEN set[f] ELSE row[f]
           new == Merge(row, set)
<1>3. new = [f \in {"content", "title"} |-> F(f)]
  BY <1>2 DEF Merge
<1>4. F("content") \in 0 .. 1 /\ F("title") \in 0 .. 1
  BY <1>1, <1>2
<1>5. new = [content |-> F("content"), title |-> F("title")]
  <2> HIDE DEF new, F
  <2> QED BY <1>3
<1> HIDE DEF new, F
<1>6. new \in Document
  BY <1>4, <1>5 DEF Document
<1> QED BY <1>6 DEF new

\* None is no id, todo or document, and no id is of both kinds.
LEMMA Apart ==
  /\ None \notin Todos /\ None \notin Docs /\ None \notin TodoItem /\ None \notin Document
  /\ \A t \in Todos : t \notin Docs /\ t \in Ids
  /\ \A d \in Docs : d \notin Todos /\ d \in Ids
  /\ \A i \in Ids : i \in Todos \/ i \in Docs
  BY NoneAssumption, IdsAssumption DEF Ids

\* The changes that are under way, in the words of the invariant.
LEMMA WriterKinds ==
  ASSUME RowsInv, NEW w \in Writers
  PROVE  LET x == writer[w] IN
         /\ x \in [pc : {"idle", "merge", "reread", "created", "updated", "deleted"},
                   id : Ids \cup {None}, row : TodoItem \cup Document \cup {None},
                   set : Edits \cup DocEdits \cup {Snoozed, None}]
         /\ x.pc = "idle" <=> x.id = None
         /\ x = Idle <=> x.id = None
  BY Apart DEF RowsInv, RowTypes, WriterFits, Idle

\* One change of a row leaves the rows and changes as they should be, if the change at
\* work is on its own with it or is known not to be.
LEMMA RowChanges ==
  ASSUME RowsInv, RowTypes', NEW w \in Writers, NEW i \in Ids,
         \A v \in Writers \ {w} : writer'[v] = writer[v],
         \A j \in Ids \ {i} : Row(j)' = Row(j) /\ serial'[j] = serial[j],
         overlap \subseteq overlap', used \subseteq used', used' \subseteq used \cup {i},
         WriterFits(w)',
         i \in used' \/ Row(i)' = None,
         writer'[w].id \in Ids \ used' => writer'[w].pc \in {"reread", "deleted"},
         i \notin overlap' => Row(i)' = serial'[i],
         writer'[w].pc = "merge" /\ writer'[w].id \notin overlap' =>
             writer'[w].row = Row(writer[w].id)',
         \A v \in Writers \ {w} : writer[v].id = i /\ writer[v].pc = "merge" =>
             i \in overlap' \/ Row(i)' = Row(i),
         \A v \in Writers \ {w} : writer[v].id = writer'[w].id /\ writer'[w].id # None =>
             writer[v].id \in overlap'
  PROVE  RowsInv'
<1>1. \A v \in Writers : WriterFits(v)'
  BY DEF RowsInv, WriterFits
<1>2. FreshIsNew'
  <2>1. \A j \in Ids \ used' : Row(j)' = None
    BY DEF RowsInv, FreshIsNew
  <2>2. \A v \in Writers : writer'[v].id \in Ids \ used' => writer'[v].pc \in {"reread", "deleted"}
    BY DEF RowsInv, FreshIsNew
  <2> QED BY <2>1, <2>2 DEF FreshIsNew
<1>3. LostUpdateHasACause'
  BY DEF RowsInv, LostUpdateHasACause
<1>4. ChangesAreAlone'
  <2>1. ASSUME NEW v \in Writers, writer'[v].pc = "merge", writer'[v].id \notin overlap'
        PROVE  writer'[v].row = Row(writer[v].id)'
    <3>1. CASE v = w
      BY <2>1, <3>1
    <3>2. CASE v # w
      <4>1. /\ writer'[v] = writer[v] /\ writer[v].pc = "merge" /\ writer[v].id \notin overlap
            /\ writer[v].row = Row(writer[v].id) /\ writer[v].id \in Ids
        BY <2>1, <3>2 DEF RowsInv, ChangesAreAlone, WriterFits
      <4> DEFINE j == writer[v].id
      <4>2. ASSUME NEW k \in Ids, k = j PROVE Row(k)' = Row(k)
        BY <2>1, <3>2, <4>1, <4>2
      <4>3. Row(writer[v].id)' = Row(writer[v].id)
        BY <4>1, <4>2 DEF Row
      <4> QED BY <4>1, <4>3
    <3> QED BY <3>1, <3>2
  <2>2. ASSUME NEW u \in Writers, NEW v \in Writers, u # v, writer'[u].id = writer'[v].id,
               writer'[u].id # None
        PROVE  writer'[u].id \in overlap'
    <3>1. CASE u # w /\ v # w
      BY <2>2, <3>1 DEF RowsInv, ChangesAreAlone
    <3>2. CASE u = w
      BY <2>2, <3>2
    <3>3. CASE v = w
      BY <2>2, <3>3
    <3> QED BY <3>1, <3>2, <3>3
  <2> QED BY <2>1, <2>2 DEF ChangesAreAlone
<1> QED BY <1>1, <1>2, <1>3, <1>4 DEF RowsInv

\* The same of a change that is one step: no writer is at work on it, or it is known
\* not to be alone.
LEMMA RowChangesAtOnce ==
  ASSUME RowsInv, RowTypes', NEW i \in Ids, writer' = writer,
         \A j \in Ids \ {i} : Row(j)' = Row(j) /\ serial'[j] = serial[j],
         overlap \subseteq overlap', used \subseteq used', used' \subseteq used \cup {i},
         i \in used' \/ Row(i)' = None,
         i \notin overlap' => Row(i)' = serial'[i],
         \A v \in Writers : writer[v].id = i /\ writer[v].pc = "merge" => i \in overlap'
  PROVE  RowsInv'
<1>1. \A v \in Writers : WriterFits(v)'
  BY DEF RowsInv, WriterFits
<1>2. FreshIsNew'
  BY DEF RowsInv, FreshIsNew
<1>3. LostUpdateHasACause'
  BY DEF RowsInv, LostUpdateHasACause
<1>4. ChangesAreAlone'
  <2>1. ASSUME NEW v \in Writers, writer[v].pc = "merge", writer[v].id \notin overlap'
        PROVE  writer'[v].row = Row(writer[v].id)'
    <3>1. writer[v].row = Row(writer[v].id) /\ writer[v].id \in Ids \ {i}
      BY <2>1 DEF RowsInv, ChangesAreAlone, WriterFits
    <3>2. Row(writer[v].id)' = Row(writer[v].id)
      BY <3>1 DEF Row
    <3> QED BY <3>1, <3>2
  <2>2. \A u, v \in Writers : u # v /\ writer[u].id = writer[v].id /\ writer[u].id # None =>
            writer[u].id \in overlap'
    BY DEF RowsInv, ChangesAreAlone
  <2>4. \A u, v \in Writers : u # v /\ writer'[u].id = writer'[v].id /\ writer'[u].id # None =>
            writer'[u].id \in overlap'
    BY <2>2
  <2> QED BY <2>1, <2>4 DEF ChangesAreAlone
<1> QED BY <1>1, <1>2, <1>3, <1>4 DEF RowsInv

\* At first.
LEMMA RowsAtFirst ==
  ASSUME BoardInit
  PROVE  RowsInv
<1> USE DEF BoardInit
<1>1. \A w \in Writers : writer[w] = Idle /\ Idle.pc = "idle" /\ Idle.id = None
  BY DEF Idle
<1>2. RowTypes
  BY DEF RowTypes, Idle
<1>3. \A w \in Writers : WriterFits(w)
  BY <1>1 DEF WriterFits
<1>4. \A i \in Ids : Row(i) = None /\ serial[i] = None
  BY Apart DEF Row
<1>5. FreshIsNew
  BY <1>1, <1>4, Apart DEF FreshIsNew, Ids
<1>6. LostUpdateHasACause
  BY <1>4 DEF LostUpdateHasACause
<1>7. ChangesAreAlone
  BY <1>1 DEF ChangesAreAlone
<1> QED BY <1>2, <1>3, <1>5, <1>6, <1>7 DEF RowsInv

\* What Begin does to the changes under way.
LEMMA BeginsAlone ==
  ASSUME RowsInv, NEW w \in Writers, NEW i \in Ids,
         NEW pc \in {"merge", "reread", "created", "deleted"},
         NEW row \in TodoItem \cup Document \cup {None},
         NEW set \in Edits \cup DocEdits \cup {Snoozed, None},
         Begin(w, i, pc, row, set)
  PROVE  /\ writer'[w] = [pc |-> pc, id |-> i, row |-> row, set |-> set]
         /\ \A v \in Writers \ {w} : writer'[v] = writer[v]
         /\ writer' \in [Writers -> [pc : {"idle", "merge", "reread", "created", "updated", "deleted"},
                               id : Ids \cup {None}, row : TodoItem \cup Document \cup {None},
                               set : Edits \cup DocEdits \cup {Snoozed, None}]]
         /\ overlap \subseteq overlap' /\ overlap' \subseteq Ids
         /\ \A v \in Writers \ {w} : writer[v].id = i => i \in overlap'
         /\ writer[w] = Idle /\ writer[w].id = None
<1>1. writer' = [writer EXCEPT ![w] = [pc |-> pc, id |-> i, row |-> row, set |-> set]]
  BY DEF Begin
<1>2. writer[w] = Idle /\ writer[w].id = None
  BY DEF Begin, Idle
<1>3. overlap \subseteq overlap' /\ overlap' \subseteq Ids
  BY DEF Begin, Overlaps, RowsInv, RowTypes
<1>4. \A v \in Writers \ {w} : writer[v].id = i => i \in overlap'
  BY DEF Begin, Overlaps
<1> QED BY <1>1, <1>2, <1>3, <1>4 DEF RowsInv, RowTypes

\* A todo that is created.
LEMMA RowsCreate ==
  ASSUME RowsInv, NEW w \in Writers, NEW t \in Todos, NEW row \in TodoItem,
         create_todo(w, t, row)
  PROVE  RowsInv'
<1> USE DEF create_todo
<1>1. /\ writer'[w] = [pc |-> "created", id |-> t, row |-> row, set |-> None]
      /\ \A v \in Writers \ {w} : writer'[v] = writer[v]
      /\ overlap \subseteq overlap'
      /\ \A v \in Writers \ {w} : writer[v].id = t => t \in overlap'
  BY Apart, BeginsAlone
<1>2. /\ writer' \in [Writers -> [pc : {"idle", "merge", "reread", "created", "updated", "deleted"},
                               id : Ids \cup {None}, row : TodoItem \cup Document \cup {None},
                               set : Edits \cup DocEdits \cup {Snoozed, None}]]
      /\ overlap' \subseteq Ids
  BY Apart, BeginsAlone
<1>3. RowTypes'
  BY <1>2, Apart DEF RowsInv, RowTypes
<1>4. /\ \A j \in Ids \ {t} : Row(j)' = Row(j) /\ serial'[j] = serial[j]
      /\ Row(t)' = row /\ serial'[t] = row
  BY Apart DEF RowsInv, RowTypes, Row
<1>5. WriterFits(w)'
  BY <1>1 DEF WriterFits
<1> QED BY <1>1, <1>3, <1>4, <1>5, Apart, RowChanges

\* A subtask, which is not announced.
LEMMA RowsSubtask ==
  ASSUME RowsInv, NEW t \in Todos, CreateSubtask(t)
  PROVE  RowsInv'
<1> USE DEF CreateSubtask
<1>1. NewTodo(TRUE, TRUE) \in TodoItem
  BY DEF NewTodo, TodoItem, TodoStatus
<1>2. RowTypes'
  BY <1>1, Apart DEF RowsInv, RowTypes
<1>3. /\ \A j \in Ids \ {t} : Row(j)' = Row(j) /\ serial'[j] = serial[j]
      /\ Row(t)' = serial'[t] /\ t \in used' /\ writer' = writer /\ overlap' = overlap
  BY Apart DEF RowsInv, RowTypes, Row
<1>4. \A v \in Writers : writer[v].id = t => writer[v].pc # "merge"
  BY Apart DEF RowsInv, FreshIsNew
<1>5. t \in Ids /\ used \subseteq used' /\ used' \subseteq used \cup {t}
  BY DEF Ids
<1> HIDE DEF CreateSubtask
<1> QED BY <1>2, <1>3, <1>4, <1>5, RowChangesAtOnce

\* The reads of an update.
LEMMA RowsRead ==
  ASSUME RowsInv, NEW w \in Writers, NEW i \in Ids, Row(i) # None,
         NEW set, i \in Todos => set \in Edits \cup {Snoozed}, i \in Docs => set \in DocEdits,
         Begin(w, i, "merge", Row(i), set), UNCHANGED <<todos, docs, used, serial>>
  PROVE  RowsInv'
<1>1. /\ Row(i) \in TodoItem \cup Document
      /\ i \in Todos => Row(i) \in TodoItem
      /\ i \in Docs => Row(i) \in Document
      /\ set \in Edits \cup DocEdits \cup {Snoozed}
  BY Apart DEF RowsInv, RowTypes, Row
<1>2. /\ writer'[w] = [pc |-> "merge", id |-> i, row |-> Row(i), set |-> set]
      /\ \A v \in Writers \ {w} : writer'[v] = writer[v]
      /\ overlap \subseteq overlap'
      /\ \A v \in Writers \ {w} : writer[v].id = i => i \in overlap'
  <2> HIDE DEF Row
  <2> QED BY <1>1, BeginsAlone
<1>3. /\ writer' \in [Writers -> [pc : {"idle", "merge", "reread", "created", "updated", "deleted"},
                               id : Ids \cup {None}, row : TodoItem \cup Document \cup {None},
                               set : Edits \cup DocEdits \cup {Snoozed, None}]]
      /\ overlap' \subseteq Ids
  <2> HIDE DEF Row
  <2> QED BY <1>1, BeginsAlone
<1>4. RowTypes'
  BY <1>3 DEF RowsInv, RowTypes
<1>5. \A j \in Ids : Row(j)' = Row(j) /\ serial'[j] = serial[j]
  BY DEF Row
<1>6. WriterFits(w)'
  BY <1>1, <1>2 DEF WriterFits
<1>7. i \in used
  BY DEF RowsInv, FreshIsNew
<1>8. writer'[w].id = i /\ writer'[w].row = Row(i) /\ writer'[w].pc = "merge"
  BY <1>2
<1>9. Row(writer[w].id)' = Row(i)
  BY <1>8 DEF Row
<1>10. Row(i) = serial[i] \/ i \in overlap
  BY DEF RowsInv, LostUpdateHasACause
<1> QED BY <1>2, <1>4, <1>5, <1>6, <1>7, <1>8, <1>9, <1>10, RowChanges

\* The write of an update, of the row as it was read.
LEMMA RowsWrite ==
  ASSUME RowsInv, NEW w \in Writers, WriteTodo(w), NEW t, t = writer[w].id
  PROVE  RowsInv'
<1> DEFINE set == writer[w].set
           row == Merge(writer[w].row, set)
<1>1. t \in Todos /\ t \in Ids /\ writer[w].row \in TodoItem /\ set \in Edits \cup {Snoozed}
  BY Apart DEF WriteTodo, RowsInv, WriterFits
<1>2. row \in TodoItem
  BY <1>1, MergedTodo
<1> HIDE DEF row
<1>3. /\ todos' = [todos EXCEPT ![t] = IF todos[t] = None THEN None ELSE row]
      /\ serial' = [serial EXCEPT ![t] = IF serial[t] = None THEN None ELSE Merge(serial[t], set)]
      /\ writer' = [writer EXCEPT ![w] = [pc |-> "updated", id |-> t, row |-> row, set |-> None]]
      /\ docs' = docs /\ used' = used /\ overlap' = overlap /\ writer[w].pc = "merge"
  BY DEF WriteTodo, update_todo, row
<1> HIDE DEF set
<1>4. /\ writer'[w] = [pc |-> "updated", id |-> t, row |-> row, set |-> None]
      /\ \A v \in Writers \ {w} : writer'[v] = writer[v]
  BY <1>3 DEF RowsInv, RowTypes
<1>5. RowTypes'
  BY <1>1, <1>2, <1>3 DEF RowsInv, RowTypes
<1> HIDE DEF row
<1>6. /\ \A j \in Ids \ {t} : Row(j)' = Row(j) /\ serial'[j] = serial[j]
      /\ Row(t)' = IF Row(t) = None THEN None ELSE row
      /\ serial'[t] = IF serial[t] = None THEN None ELSE Merge(serial[t], set)
  <2>1. /\ \A j \in Todos \ {t} : todos'[j] = todos[j]
        /\ todos'[t] = IF todos[t] = None THEN None ELSE row
    BY <1>1, <1>3 DEF RowsInv, RowTypes
  <2>2. \A j \in Ids \ {t} : Row(j)' = Row(j)
    BY <1>3, <2>1 DEF Row
  <2>3. Row(t)' = IF Row(t) = None THEN None ELSE row
    BY <1>1, <2>1 DEF Row
  <2>4. DOMAIN serial = Ids
    BY DEF RowsInv, RowTypes
  <2> DEFINE m == Merge(serial[t], set)
  <2> HIDE DEF m
  <2>5. serial' = [serial EXCEPT ![t] = IF serial[t] = None THEN None ELSE m]
    BY <1>3 DEF m
  <2>6. /\ \A j \in Ids \ {t} : serial'[j] = serial[j]
        /\ serial'[t] = IF serial[t] = None THEN None ELSE m
    BY <1>1, <2>4, <2>5
  <2> QED BY <2>2, <2>3, <2>6 DEF m
<1>7. t \notin overlap => Row(t) = serial[t] /\ writer[w].row = Row(t)
  BY <1>1, <1>3 DEF RowsInv, LostUpdateHasACause, ChangesAreAlone
<1>8. t \notin overlap' => Row(t)' = serial'[t]
  <2>1. t \notin overlap => row = Merge(serial[t], set)
    BY <1>7 DEF row, set
  <2>2. t \notin overlap => Row(t) = serial[t]
    BY <1>7
  <2> QED BY <1>3, <1>6, <2>1, <2>2
<1>9. t \in used
  BY <1>1, <1>3 DEF RowsInv, FreshIsNew
<1>10. \A v \in Writers \ {w} : writer[v].id = t => t \in overlap
  BY <1>1, Apart DEF RowsInv, ChangesAreAlone
<1>11. WriterFits(w)'
  BY <1>1, <1>2, <1>4 DEF WriterFits
<1>12. writer'[w].pc = "updated" /\ writer'[w].id = t
  BY <1>4
<1>13. /\ \A j \in Ids \ {t} : Row(j)' = Row(j) /\ serial'[j] = serial[j]
       /\ used' = used /\ overlap' = overlap
  BY <1>3, <1>6
<1> QED BY <1>1, <1>4, <1>5, <1>8, <1>9, <1>10, <1>11, <1>12, <1>13, RowChanges

\* A completion.
LEMMA RowsComplete ==
  ASSUME RowsInv, NEW t \in Todos, complete_todo(t)
  PROVE  RowsInv'
<1> USE DEF complete_todo
<1>1. t \in Ids /\ "ws" \in Writers
  BY Apart DEF Writers
<1>2. /\ writer'["ws"] = [pc |-> "reread", id |-> t, row |-> None, set |-> None]
      /\ \A v \in Writers \ {"ws"} : writer'[v] = writer[v]
      /\ overlap \subseteq overlap'
      /\ \A v \in Writers \ {"ws"} : writer[v].id = t => t \in overlap'
  BY <1>1, BeginsAlone
<1>3. /\ writer' \in [Writers -> [pc : {"idle", "merge", "reread", "created", "updated", "deleted"},
                               id : Ids \cup {None}, row : TodoItem \cup Document \cup {None},
                               set : Edits \cup DocEdits \cup {Snoozed, None}]]
      /\ overlap' \subseteq Ids
  BY <1>1, BeginsAlone
<1> DEFINE done == [todos[t] EXCEPT !.status = "Completed"]
<1>4. todos[t] # None => done \in TodoItem
  BY DEF RowsInv, RowTypes, TodoItem, TodoStatus
<1>5. todos' = [todos EXCEPT ![t] = IF todos[t] = None THEN None ELSE done]
  OBVIOUS
<1> HIDE DEF done
<1>6. RowTypes'
  <2>1. todos' \in [Todos -> TodoItem \cup {None}]
    BY <1>4, <1>5 DEF RowsInv, RowTypes
  <2> QED BY <1>3, <2>1 DEF RowsInv, RowTypes
<1>7. \A j \in Ids \ {t} : Row(j)' = Row(j) /\ serial'[j] = serial[j]
  BY <1>1, <1>5, Apart DEF RowsInv, RowTypes, Row
<1>8. Row(t)' = IF Row(t) = None THEN None ELSE [Row(t) EXCEPT !.status = "Completed"]
  BY <1>1, <1>5, Apart DEF RowsInv, RowTypes, Row, done
<1>9. serial'[t] = IF serial[t] = None THEN None ELSE [serial[t] EXCEPT !.status = "Completed"]
  BY <1>1 DEF RowsInv, RowTypes
<1>10. t \notin overlap' => Row(t)' = serial'[t]
  BY <1>1, <1>2, <1>8, <1>9 DEF RowsInv, LostUpdateHasACause
<1>11. WriterFits("ws")'
  BY <1>2 DEF WriterFits
<1>12. used' = used /\ (t \in used \/ Row(t)' = None)
  BY <1>1, <1>8 DEF RowsInv, FreshIsNew
<1>13. writer'["ws"].pc = "reread" /\ writer'["ws"].id = t
  BY <1>2
<1> QED BY <1>1, <1>2, <1>6, <1>7, <1>10, <1>11, <1>12, <1>13, RowChanges

\* The read that follows a completion.
LEMMA RowsReread ==
  ASSUME RowsInv, NEW ok \in BOOLEAN, CompleteReads(ok)
  PROVE  RowsInv'
<1> DEFINE t == writer["ws"].id
           row == IF ok THEN todos[t] ELSE None
           pc == IF row = None THEN "deleted" ELSE "updated"
           new == [pc |-> pc, id |-> t, row |-> row, set |-> None]
<1>1. /\ writer["ws"].pc = "reread" /\ writer' = [writer EXCEPT !["ws"] = new]
      /\ UNCHANGED <<todos, docs, used, serial, overlap>>
  BY DEF CompleteReads, hist
<1>2. "ws" \in Writers
  BY DEF Writers
<1>3. t \in Todos /\ t \in Ids
  BY <1>1, <1>2, Apart DEF RowsInv, WriterFits
<1>4. row \in TodoItem \cup {None} /\ pc \in {"deleted", "updated"}
  BY <1>3 DEF RowsInv, RowTypes
<1>p. row = None <=> pc = "deleted"
  OBVIOUS
<1> HIDE DEF new, pc, row
<1>6. /\ writer'["ws"] = new
      /\ \A v \in Writers \ {"ws"} : writer'[v] = writer[v]
  BY <1>1, <1>2 DEF RowsInv, RowTypes
<1>7. RowTypes'
  <2>1. new \in [pc : {"idle", "merge", "reread", "created", "updated", "deleted"},
                   id : Ids \cup {None}, row : TodoItem \cup Document \cup {None},
                   set : Edits \cup DocEdits \cup {Snoozed, None}]
    BY <1>3, <1>4 DEF new
  <2> QED BY <1>1, <1>2, <2>1 DEF RowsInv, RowTypes
<1>8. WriterFits("ws")'
  <2>1. new.pc = pc /\ new.id = t /\ new.row = row /\ new.set = None
    BY DEF new
  <2> QED BY <1>3, <1>4, <1>6, <1>p, <2>1 DEF WriterFits
<1>9. /\ \A j \in Ids : Row(j)' = Row(j) /\ serial'[j] = serial[j]
  BY <1>1 DEF Row
<1>10. writer'["ws"].pc = pc /\ writer'["ws"].id = t
  BY <1>6 DEF new
<1>11. \A v \in Writers \ {"ws"} : writer[v].id = t => t \in overlap
  BY <1>2, <1>3, Apart DEF RowsInv, ChangesAreAlone
<1>12. t \notin used => row = None
  BY <1>3 DEF RowsInv, FreshIsNew, Row, row
<1>13. t \notin used => Row(t) = None
  BY <1>3 DEF RowsInv, FreshIsNew
<1>14. Row(t) = serial[t] \/ t \in overlap
  BY <1>3 DEF RowsInv, LostUpdateHasACause
<1> QED BY <1>1, <1>2, <1>3, <1>4, <1>6, <1>7, <1>8, <1>9, <1>10, <1>11, <1>12, <1>13, <1>14, <1>p,
           RowChanges

\* A deletion.
LEMMA RowsDelete ==
  ASSUME RowsInv, NEW w \in Writers, NEW t \in Todos, delete_todo(w, t)
  PROVE  RowsInv'
<1> USE DEF delete_todo
<1>1. /\ writer'[w] = [pc |-> "deleted", id |-> t, row |-> None, set |-> None]
      /\ \A v \in Writers \ {w} : writer'[v] = writer[v]
      /\ overlap \subseteq overlap'
      /\ \A v \in Writers \ {w} : writer[v].id = t => t \in overlap'
  BY Apart, BeginsAlone
<1>2. /\ writer' \in [Writers -> [pc : {"idle", "merge", "reread", "created", "updated", "deleted"},
                               id : Ids \cup {None}, row : TodoItem \cup Document \cup {None},
                               set : Edits \cup DocEdits \cup {Snoozed, None}]]
      /\ overlap' \subseteq Ids
  BY Apart, BeginsAlone
<1>3. RowTypes'
  BY <1>2, Apart DEF RowsInv, RowTypes
<1>4. /\ \A j \in Ids \ {t} : Row(j)' = Row(j) /\ serial'[j] = serial[j]
      /\ Row(t)' = None /\ serial'[t] = None
  BY Apart DEF RowsInv, RowTypes, Row
<1>5. WriterFits(w)'
  BY <1>1 DEF WriterFits
<1>6. writer'[w].pc = "deleted" /\ writer'[w].id = t
  BY <1>1
<1> QED BY <1>1, <1>3, <1>4, <1>5, <1>6, Apart, RowChanges

\* A status that an agent sets.
LEMMA RowsAgent ==
  ASSUME RowsInv, NEW t \in Todos, NEW s \in TodoStatus, AgentSets(t, s)
  PROVE  RowsInv'
<1> USE DEF AgentSets
<1> DEFINE row == [todos[t] EXCEPT !.status = s]
<1>1. todos[t] \in TodoItem /\ row \in TodoItem
  BY DEF RowsInv, RowTypes, TodoItem
<1>2. todos' = [todos EXCEPT ![t] = row]
  OBVIOUS
<1>3. /\ overlap \subseteq overlap' /\ overlap' \subseteq Ids
      /\ \A v \in Writers : writer[v].id = t => t \in overlap'
  BY Apart DEF RowsInv, RowTypes, Overlaps
<1> HIDE DEF row
<1>4. RowTypes'
  <2>1. todos' \in [Todos -> TodoItem \cup {None}]
    BY <1>1, <1>2 DEF RowsInv, RowTypes
  <2> QED BY <1>3, <2>1 DEF RowsInv, RowTypes
<1>5. /\ \A j \in Ids \ {t} : Row(j)' = Row(j) /\ serial'[j] = serial[j]
      /\ Row(t)' = row
      /\ serial'[t] = [serial[t] EXCEPT !.status = s]
  BY <1>2, Apart DEF RowsInv, RowTypes, Row
<1>6. Row(t) = todos[t] /\ Row(t) # None
  BY DEF Row
<1>7. t \notin overlap' => Row(t)' = serial'[t]
  BY <1>3, <1>5, <1>6, Apart DEF RowsInv, LostUpdateHasACause, row
<1>8. t \in used
  BY <1>6, Apart DEF RowsInv, FreshIsNew
<1>9. writer' = writer /\ used' = used /\ t \in Ids
  BY Apart
<1> QED BY <1>3, <1>4, <1>5, <1>7, <1>8, <1>9, RowChangesAtOnce

\* A document that is created.
LEMMA RowsNewDocument ==
  ASSUME RowsInv, NEW d \in Docs, create_document(d)
  PROVE  RowsInv'
<1> USE DEF create_document
<1>1. NewDocument \in Document
  BY DEF NewDocument, Document
<1>2. RowTypes'
  BY <1>1, Apart DEF RowsInv, RowTypes
<1>3. /\ \A j \in Ids \ {d} : Row(j)' = Row(j) /\ serial'[j] = serial[j]
      /\ Row(d)' = serial'[d] /\ d \in used' /\ writer' = writer /\ overlap' = overlap
  BY Apart DEF RowsInv, RowTypes, Row
<1>4. \A v \in Writers : writer[v].id = d => writer[v].pc # "merge"
  BY Apart DEF RowsInv, FreshIsNew
<1> QED BY <1>2, <1>3, <1>4, Apart, RowChangesAtOnce

\* A document that is deleted.
LEMMA RowsDropDocument ==
  ASSUME RowsInv, NEW d \in Docs, delete_document(d)
  PROVE  RowsInv'
<1> USE DEF delete_document
<1>1. /\ overlap \subseteq overlap' /\ overlap' \subseteq Ids
      /\ \A v \in Writers : writer[v].id = d => d \in overlap'
  BY Apart DEF RowsInv, RowTypes, Overlaps
<1>2. RowTypes'
  BY <1>1, Apart DEF RowsInv, RowTypes
<1>3. /\ \A j \in Ids \ {d} : Row(j)' = Row(j) /\ serial'[j] = serial[j]
      /\ Row(d)' = None /\ serial'[d] = None /\ writer' = writer /\ used' = used
  BY Apart DEF RowsInv, RowTypes, Row
<1> QED BY <1>1, <1>2, <1>3, Apart, RowChangesAtOnce

\* A change that is over.
LEMMA RowsIdle ==
  ASSUME RowsInv, NEW w \in Writers, writer' = [writer EXCEPT ![w] = Idle]
  PROVE  /\ writer'[w] = Idle /\ Idle.id = None /\ Idle.pc = "idle"
         /\ \A v \in Writers \ {w} : writer'[v] = writer[v]
         /\ WriterFits(w)'
         /\ writer' \in [Writers -> [pc : {"idle", "merge", "reread", "created", "updated", "deleted"},
                               id : Ids \cup {None}, row : TodoItem \cup Document \cup {None},
                               set : Edits \cup DocEdits \cup {Snoozed, None}]]
<1>1. Idle.id = None /\ Idle.pc = "idle"
  BY DEF Idle
<1>2. /\ writer'[w] = Idle /\ \A v \in Writers \ {w} : writer'[v] = writer[v]
  BY DEF RowsInv, RowTypes
<1>3. WriterFits(w)'
  BY <1>1, <1>2 DEF WriterFits
<1>4. writer' \in [Writers -> [pc : {"idle", "merge", "reread", "created", "updated", "deleted"},
                               id : Ids \cup {None}, row : TodoItem \cup Document \cup {None},
                               set : Edits \cup DocEdits \cup {Snoozed, None}]]
  BY DEF RowsInv, RowTypes, Idle
<1> QED BY <1>1, <1>2, <1>3, <1>4

\* The write of a document, of the row as it was read.
LEMMA RowsWriteDocument ==
  ASSUME RowsInv, NEW w \in Writers, WriteDocument(w), NEW d, d = writer[w].id
  PROVE  RowsInv'
<1> DEFINE set == writer[w].set
           row == Merge(writer[w].row, set)
           now == Merge(serial[d], set)
<1>1. /\ d \in Docs /\ d \in Ids /\ writer[w].pc = "merge"
      /\ writer[w].row \in Document /\ set \in DocEdits
  BY Apart DEF WriteDocument, RowsInv, WriterFits
<1>2. row \in Document
  BY <1>1, MergedDocument
<1> HIDE DEF row, now
<1>3. /\ docs' = [docs EXCEPT ![d] = IF docs[d] = None THEN None ELSE row]
      /\ serial' = [serial EXCEPT ![d] = IF serial[d] = None THEN None ELSE now]
      /\ writer' = [writer EXCEPT ![w] = Idle]
      /\ todos' = todos /\ used' = used /\ overlap' = overlap
  BY DEF WriteDocument, update_document, row, now
<1> HIDE DEF set
<1>4. /\ writer'[w].id = None /\ writer'[w].pc = "idle"
      /\ \A v \in Writers \ {w} : writer'[v] = writer[v]
      /\ WriterFits(w)'
  BY <1>3, RowsIdle
<1>5. RowTypes'
  <2>1. docs' \in [Docs -> Document \cup {None}]
    BY <1>1, <1>2, <1>3 DEF RowsInv, RowTypes
  <2>2. writer' \in [Writers -> [pc : {"idle", "merge", "reread", "created", "updated", "deleted"},
                               id : Ids \cup {None}, row : TodoItem \cup Document \cup {None},
                               set : Edits \cup DocEdits \cup {Snoozed, None}]]
    BY <1>3, RowsIdle
  <2> QED BY <1>3, <2>1, <2>2 DEF RowsInv, RowTypes
<1>6. /\ \A j \in Ids \ {d} : Row(j)' = Row(j) /\ serial'[j] = serial[j]
      /\ Row(d)' = IF Row(d) = None THEN None ELSE row
      /\ serial'[d] = IF serial[d] = None THEN None ELSE now
  <2>1. /\ \A j \in Docs \ {d} : docs'[j] = docs[j]
        /\ docs'[d] = IF docs[d] = None THEN None ELSE row
    BY <1>1, <1>3 DEF RowsInv, RowTypes
  <2>2. \A j \in Ids \ {d} : Row(j)' = Row(j)
    BY <1>3, <2>1, Apart DEF Row
  <2>3. Row(d)' = IF Row(d) = None THEN None ELSE row
    BY <1>1, <2>1, Apart DEF Row
  <2>4. DOMAIN serial = Ids
    BY DEF RowsInv, RowTypes
  <2>5. /\ \A j \in Ids \ {d} : serial'[j] = serial[j]
        /\ serial'[d] = IF serial[d] = None THEN None ELSE now
    BY <1>1, <1>3, <2>4
  <2> QED BY <2>2, <2>3, <2>5
<1>7. d \notin overlap => Row(d) = serial[d] /\ writer[w].row = Row(d)
  BY <1>1 DEF RowsInv, LostUpdateHasACause, ChangesAreAlone
<1>8. d \notin overlap' => Row(d)' = serial'[d]
  <2>1. d \notin overlap => row = now /\ Row(d) = serial[d]
    BY <1>7 DEF row, now, set
  <2> QED BY <1>3, <1>6, <2>1
<1>9. d \in used
  BY <1>1 DEF RowsInv, FreshIsNew
<1>10. \A v \in Writers \ {w} : writer[v].id = d => d \in overlap
  BY <1>1, Apart DEF RowsInv, ChangesAreAlone
<1>11. /\ \A j \in Ids \ {d} : Row(j)' = Row(j) /\ serial'[j] = serial[j]
       /\ used' = used /\ overlap' = overlap
  BY <1>3, <1>6
<1>12. writer'[w].id \notin Ids
  BY <1>4, Apart DEF Ids
<1> QED BY <1>1, <1>4, <1>5, <1>8, <1>9, <1>10, <1>11, <1>12, RowChanges

\* An announcement.
LEMMA RowsAnnounce ==
  ASSUME RowsInv, NEW w \in Writers, Announce(w)
  PROVE  RowsInv'
<1>1. writer' = [writer EXCEPT ![w] = Idle]
  BY DEF Announce
<1>2. /\ writer'[w].id = None /\ writer'[w].pc = "idle"
      /\ \A v \in Writers \ {w} : writer'[v] = writer[v]
      /\ WriterFits(w)'
      /\ writer' \in [Writers -> [pc : {"idle", "merge", "reread", "created", "updated", "deleted"},
                               id : Ids \cup {None}, row : TodoItem \cup Document \cup {None},
                               set : Edits \cup DocEdits \cup {Snoozed, None}]]
  BY <1>1, RowsIdle
<1>3. writer[w].pc \in {"created", "updated", "deleted"}
  BY DEF Announce
<1>4. writer[w].id \in Todos
  BY <1>3 DEF RowsInv, WriterFits
<1>5. PICK t : t = writer[w].id
  OBVIOUS
<1>6. t \in Ids
  BY <1>4, <1>5, Apart
<1>7. overlap' = overlap \cup OverlapsOthers(w, t)
  BY <1>5 DEF Announce
<1>8. overlap \subseteq overlap' /\ overlap' \subseteq Ids
  BY <1>6, <1>7 DEF OverlapsOthers, RowsInv, RowTypes
<1>9. /\ todos' = todos /\ docs' = docs /\ used' = used /\ serial' = serial
  BY DEF Announce
<1>10. RowTypes'
  BY <1>2, <1>8, <1>9 DEF RowsInv, RowTypes
<1>11. \A j \in Ids : Row(j)' = Row(j) /\ serial'[j] = serial[j]
  BY <1>9 DEF Row
<1>12. writer'[w].id \notin Ids
  BY <1>2, Apart DEF Ids
<1>13. t \notin overlap' => Row(t)' = serial'[t]
  BY <1>6, <1>8, <1>11 DEF RowsInv, LostUpdateHasACause
<1>14. t \in used' \/ Row(t)' = None
  BY <1>6, <1>9, <1>11 DEF RowsInv, FreshIsNew
<1> QED BY <1>2, <1>6, <1>8, <1>9, <1>10, <1>11, <1>12, <1>13, <1>14, RowChanges

\* Every step.
LEMMA RowsStep ==
  ASSUME RowsInv, [BoardNext]_boardVars
  PROVE  RowsInv'
<1>1. CASE UNCHANGED <<todos, docs, used, writer, overlap, serial>>
  <2>1. \A w \in Writers : WriterFits(w)' <=> WriterFits(w)
    BY <1>1 DEF WriterFits
  <2>2. \A i \in Ids : Row(i)' = Row(i)
    BY <1>1 DEF Row
  <2>3. FreshIsNew' /\ LostUpdateHasACause'
    BY <1>1, <2>2 DEF RowsInv, FreshIsNew, LostUpdateHasACause
  <2>4. ChangesAreAlone'
    BY <1>1, Zenon DEF RowsInv, ChangesAreAlone, Row
  <2>5. RowTypes'
    BY <1>1 DEF RowsInv, RowTypes
  <2> QED BY <2>1, <2>3, <2>4, <2>5 DEF RowsInv
<1>2. ASSUME NEW t \in Todos,
             WsCreate(t) \/ CreateTodoTool(t) \/ \E internal \in BOOLEAN : create_test_todo(t, internal)
      PROVE  RowsInv'
  <2>1. \A internal, mine \in BOOLEAN : NewTodo(internal, mine) \in TodoItem
    BY DEF NewTodo, TodoItem, TodoStatus
  <2>2. CASE WsCreate(t)
    BY <2>1, <2>2, RowsCreate DEF WsCreate, Writers
  <2>3. CASE CreateTodoTool(t)
    BY <2>1, <2>3, RowsCreate DEF CreateTodoTool, Writers
  <2>4. ASSUME NEW internal \in BOOLEAN, create_test_todo(t, internal) PROVE RowsInv'
    BY <2>1, <2>4, RowsCreate DEF create_test_todo, Writers
  <2> QED BY <1>2, <2>2, <2>3, <2>4
<1>3. ASSUME NEW t \in Todos, NEW w \in Writers, NEW set \in Edits \cup {Snoozed}, ReadTodo(w, t, set)
      PROVE  RowsInv'
  <2>1. Row(t) = todos[t] /\ t \in Ids /\ t \notin Docs
    BY Apart DEF Row
  <2>2. Begin(w, t, "merge", Row(t), set) /\ Row(t) # None
    BY <1>3, <2>1 DEF ReadTodo
  <2>3. UNCHANGED <<todos, docs, used, serial>>
    BY <1>3 DEF ReadTodo
  <2> HIDE DEF Row
  <2> QED BY <2>1, <2>2, <2>3, RowsRead
<1>4. ASSUME NEW t \in Todos,
             \/ \E set \in Edits : WsUpdate(t, set) \/ UpdateTodoTool(t, set)
             \/ Snooze(t)
      PROVE  RowsInv'
  BY <1>3, <1>4 DEF WsUpdate, UpdateTodoTool, Snooze, Writers
<1>5. ASSUME NEW d \in Docs, NEW w \in Writers, NEW set \in DocEdits, ReadDocument(w, d, set)
      PROVE  RowsInv'
  <2>1. Row(d) = docs[d] /\ d \in Ids /\ d \notin Todos
    BY Apart DEF Row
  <2>2. Begin(w, d, "merge", Row(d), set) /\ Row(d) # None
    BY <1>5, <2>1 DEF ReadDocument
  <2>3. UNCHANGED <<todos, docs, used, serial>>
    BY <1>5 DEF ReadDocument
  <2> HIDE DEF Row
  <2> QED BY <2>1, <2>2, <2>3, RowsRead
<1>6. ASSUME NEW d \in Docs,
             \/ CreateDocumentTool(d) \/ delete_document(d)
             \/ \E set \in DocEdits : UpdateDocumentTool(d, set) \/ put_document(d, set)
      PROVE  RowsInv'
  <2>1. CASE CreateDocumentTool(d)
    BY <2>1, RowsNewDocument DEF CreateDocumentTool
  <2>2. CASE delete_document(d)
    BY <2>2, RowsDropDocument
  <2>3. ASSUME NEW set \in DocEdits, UpdateDocumentTool(d, set) \/ put_document(d, set) PROVE RowsInv'
    BY <1>5, <2>3 DEF UpdateDocumentTool, put_document, Writers
  <2> QED BY <1>6, <2>1, <2>2, <2>3
<1>7. ASSUME NEW t \in Todos,
             \/ CreateSubtask(t) \/ complete_todo(t) \/ WsDelete(t) \/ DeleteTodoTool(t)
             \/ \E s \in TodoStatus : AgentSets(t, s)
      PROVE  RowsInv'
  <2>1. CASE CreateSubtask(t)
    BY <2>1, RowsSubtask
  <2>2. CASE complete_todo(t)
    BY <2>2, RowsComplete
  <2>3. CASE WsDelete(t) \/ DeleteTodoTool(t)
    BY <2>3, RowsDelete DEF WsDelete, DeleteTodoTool, Writers
  <2>4. ASSUME NEW s \in TodoStatus, AgentSets(t, s) PROVE RowsInv'
    BY <2>4, RowsAgent
  <2> QED BY <1>7, <2>1, <2>2, <2>3, <2>4
<1>8. ASSUME NEW w \in Writers, WriteTodo(w) \/ WriteDocument(w) \/ Announce(w) PROVE RowsInv'
  BY <1>8, RowsWrite, RowsWriteDocument, RowsAnnounce
<1>9. ASSUME NEW ok \in BOOLEAN, CompleteReads(ok) PROVE RowsInv'
  BY <1>9, RowsReread
<1>10. ASSUME \/ \E ok \in BOOLEAN : Connect(ok) \/ Resync(ok)
              \/ Subscribe \/ Forward \/ Disconnect \/ UNCHANGED boardVars
       PROVE  RowsInv'
  <2>1. UNCHANGED <<todos, docs, used, writer, overlap, serial>>
    BY <1>10 DEF Connect, Subscribe, Forward, Resync, Disconnect, boardVars, hist
  <2> QED BY <1>1, <2>1
<1>11. ASSUME NEW t \in Todos,
              \/ WsCreate(t) \/ CreateTodoTool(t) \/ CreateSubtask(t)
              \/ \E internal \in BOOLEAN : create_test_todo(t, internal)
              \/ \E set \in Edits : WsUpdate(t, set) \/ UpdateTodoTool(t, set)
              \/ Snooze(t) \/ complete_todo(t) \/ WsDelete(t) \/ DeleteTodoTool(t)
              \/ \E s \in TodoStatus : AgentSets(t, s)
       PROVE  RowsInv'
  BY <1>2, <1>4, <1>7, <1>11
<1> QED BY <1>6, <1>8, <1>9, <1>10, <1>11 DEF BoardNext

\* A row holds what its changes leave there one after the other, unless two of them
\* overlapped: the handlers and tools write back the whole row as they have read it
\* (update_todo, update_document).
THEOREM UpdatesAreKept == BoardSpec => []LostUpdateHasACause
<1>1. BoardInit => RowsInv
  BY RowsAtFirst
<1>2. RowsInv /\ [BoardNext]_boardVars => RowsInv'
  BY RowsStep
<1>3. RowsInv => LostUpdateHasACause
  BY DEF RowsInv
<1> QED BY <1>1, <1>2, <1>3, PTL DEF BoardSpec

-----------------------------------------------------------------------------
(* The client *)

\* At most one element of a sifted sequence belongs to a set of which the sequence has
\* at most one, and every element was there.
LEMMA SiftOnce ==
  ASSUME NEW S, NEW s \in Seq(S), NEW T, NEW U,
         \A i, j \in DOMAIN s : s[i] \in U /\ s[j] \in U => i = j
  PROVE  \A i, j \in DOMAIN Sift(s, T) : Sift(s, T)[i] \in U /\ Sift(s, T)[j] \in U => i = j
<1> DEFINE L == Len(s)
           F == CHOOSE f : f = [i \in 0 .. L |-> Sifted(s, T, f, i)]
           Once(t) == \A i, j \in DOMAIN t : t[i] \in U /\ t[j] \in U => i = j
           From(t, n) == \A i \in DOMAIN t : \E j \in 1 .. n : t[i] = s[j]
           P == {i \in 0 .. L : F[i] \in Seq(S) /\ From(F[i], i) /\ Once(F[i])}
<1>1. L \in Nat /\ DOMAIN s = 1 .. L
  OBVIOUS
<1>2. F = [i \in 0 .. L |-> Sifted(s, T, F, i)]
  BY SiftExists
<1>3. Sift(s, T) = F[L]
  BY DEF Sift
<1> HIDE DEF F, L
<1>4. \A i \in 0 .. L : F[i] = Sifted(s, T, F, i)
  BY <1>2
<1>5. 0 \in P
  <2>1. F[0] = Sifted(s, T, F, 0) /\ 0 \in 0 .. L
    BY <1>1, <1>4
  <2>2. F[0] = <<>>
    BY <2>1 DEF Sifted
  <2>3. F[0] \in Seq(S) /\ From(F[0], 0) /\ Once(F[0])
    BY <2>2, EmptySeq
  <2> QED BY <2>1, <2>3
<1>6. ASSUME NEW i \in 1 .. L, i - 1 \in P PROVE i \in P
  <2> DEFINE t == F[i - 1]
  <2>1. F[i] = IF s[i] \in T THEN Append(t, s[i]) ELSE t
    <3>1. F[i] = Sifted(s, T, F, i) /\ i # 0
      BY <1>1, <1>4
    <3> QED BY <3>1 DEF Sifted
  <2>2. t \in Seq(S) /\ From(t, i - 1) /\ Once(t)
    BY <1>6
  <2>3. s[i] \in S /\ i \in 0 .. L /\ i \in 1 .. i /\ 1 .. i - 1 \subseteq 1 .. i /\ i \notin 1 .. i - 1
    BY <1>1, ElementOfSeq
  <2> HIDE DEF t
  <2>4. CASE s[i] \in T
    <3> DEFINE new == Append(t, s[i])
               n == Len(t)
    <3>1. n \in Nat /\ DOMAIN t = 1 .. n
      BY <2>2
    <3>2. /\ new \in Seq(S) /\ DOMAIN new = 1 .. n + 1 /\ new[n + 1] = s[i]
          /\ \A a \in 1 .. n : new[a] = t[a]
      BY <2>2, <2>3
    <3> HIDE DEF new, n
    <3>3. From(new, i)
      <4>1. ASSUME NEW a \in 1 .. n + 1 PROVE \E j \in 1 .. i : new[a] = s[j]
        <5>1. CASE a \in 1 .. n
          BY <2>2, <2>3, <3>1, <3>2, <5>1
        <5>2. CASE a = n + 1
          BY <2>3, <3>2, <5>2
        <5> QED BY <3>1, <5>1, <5>2
      <4> QED BY <3>2, <4>1
    <3>4. s[i] \in U => \A a \in 1 .. n : t[a] \notin U
      <4>1. \A j \in 1 .. i - 1 : s[i] \in U => s[j] \notin U
        BY <1>1, <2>3
      <4> QED BY <2>2, <3>1, <4>1
    <3>5. Once(new)
      <4>1. ASSUME NEW a \in 1 .. n + 1, NEW b \in 1 .. n + 1, new[a] \in U, new[b] \in U PROVE a = b
        <5>1. CASE a \in 1 .. n /\ b \in 1 .. n
          BY <2>2, <3>1, <3>2, <4>1, <5>1
        <5>2. CASE a = n + 1
          BY <3>1, <3>2, <3>4, <4>1, <5>2
        <5>3. CASE b = n + 1
          BY <3>1, <3>2, <3>4, <4>1, <5>3
        <5> QED BY <3>1, <5>1, <5>2, <5>3
      <4> QED BY <3>2, <4>1
    <3>6. F[i] = new
      BY <2>1, <2>4 DEF new
    <3> HIDE DEF From, Once
    <3>7. F[i] \in Seq(S) /\ From(F[i], i) /\ Once(F[i])
      BY <3>2, <3>3, <3>5, <3>6
    <3> QED BY <2>3, <3>7
  <2>5. CASE s[i] \notin T
    <3>1. F[i] = t
      BY <2>1, <2>5
    <3>2. From(t, i)
      BY <2>2, <2>3
    <3> HIDE DEF From, Once
    <3>3. F[i] \in Seq(S) /\ From(F[i], i) /\ Once(F[i])
      BY <2>2, <3>1, <3>2
    <3> QED BY <2>3, <3>3
  <2> QED BY <2>4, <2>5
<1>7. L \in P
  <2> HIDE DEF P
  <2>1. \A i \in 1 .. L : i - 1 \in P => i \in P
    BY <1>6
  <2>2. \A i \in 0 .. L : i \in P
    BY <1>1, <1>5, <2>1, Climb
  <2> QED BY <1>1, <2>2
<1> HIDE DEF Once, From
<1>8. Once(F[L])
  BY <1>7
<1> QED BY <1>3, <1>8 DEF Once

\* The rows of a snapshot are the todos that the statement selects, each once.
LEMMA SnapshotRows ==
  ASSUME RowTypes
  PROVE  /\ Snapshot \in Seq([id : Todos, row : TodoItem])
         /\ \A i \in DOMAIN Snapshot : /\ Snapshot[i].id \in list_user_todos
                                       /\ Snapshot[i].row = todos[Snapshot[i].id]
         /\ \A t \in list_user_todos : \E i \in DOMAIN Snapshot : Snapshot[i].id = t
         /\ \A i, j \in DOMAIN Snapshot : Snapshot[i].id = Snapshot[j].id => i = j
<1> DEFINE S == list_user_todos
           N == Cardinality(S)
           f == SetToSeq(S)
<1>1. S \subseteq Todos /\ IsFiniteSet(S)
  BY IdsAssumption, FS_Subset DEF list_user_todos
<1>2. \A t \in S : todos[t] \in TodoItem
  BY DEF list_user_todos, RowTypes
<1> HIDE DEF S
<1>3. N \in Nat /\ ExistsBijection(1 .. N, S)
  BY <1>1, FS_CardinalityType
<1>4. \E g \in [1 .. N -> S] : IsInjective(g)
  BY <1>3 DEF ExistsBijection, Bijection, Injection, IsInjective
<1>5. f \in [1 .. N -> S] /\ IsInjective(f)
  BY <1>4 DEF SetToSeq
<1>6. \A t \in S : \E i \in 1 .. N : f[i] = t
  <2>1. f \in Injection(1 .. N, S)
    BY <1>5 DEF Injection, IsInjective
  <2>2. IsFiniteSet(1 .. N) /\ Cardinality(1 .. N) = N
    BY <1>3, FS_Interval
  <2> HIDE DEF f
  <2>3. f \in Surjection(1 .. N, S)
    BY <1>1, <2>1, <2>2, FS_Injection
  <2> QED BY <2>3 DEF Surjection
<1>7. Snapshot = [i \in 1 .. N |-> [id |-> f[i], row |-> todos[f[i]]]]
  BY DEF Snapshot, S
<1> HIDE DEF f, N
<1>8. DOMAIN Snapshot = 1 .. N /\ \A i \in 1 .. N : Snapshot[i].id = f[i] /\ Snapshot[i].row = todos[f[i]]
  BY <1>7
<1>9. \A i \in 1 .. N : [id |-> f[i], row |-> todos[f[i]]] \in [id : Todos, row : TodoItem]
  BY <1>1, <1>2, <1>5
<1>10. Snapshot \in Seq([id : Todos, row : TodoItem])
  BY <1>3, <1>7, <1>9
<1> HIDE DEF Snapshot
<1>11. \A i \in DOMAIN Snapshot : Snapshot[i].id \in S /\ Snapshot[i].row = todos[Snapshot[i].id]
  BY <1>5, <1>8
<1>12. \A i, j \in DOMAIN Snapshot : Snapshot[i].id = Snapshot[j].id => i = j
  BY <1>5, <1>8 DEF IsInjective
<1>13. \A t \in S : \E i \in DOMAIN Snapshot : Snapshot[i].id = t
  BY <1>6, <1>8
<1> QED BY <1>10, <1>11, <1>12, <1>13 DEF S

\* What the client should show of a todo, before and after a step.
LEMMA ListedRow ==
  ASSUME NEW t \in Todos
  PROVE  /\ Listed(t) = IF Off(t) \/ Foreign(t) THEN {} ELSE {todos[t]}
         /\ Listed(t)' = IF Off(t)' \/ Foreign(t)' THEN {} ELSE {todos'[t]}
         /\ Foreign(t) = (todos[t] # None /\ ~todos[t].mine)
         /\ Foreign(t)' = (todos'[t] # None /\ ~todos'[t].mine)
<1>1. /\ Foreign(t) = (todos[t] # None /\ ~todos[t].mine)
      /\ Foreign(t)' = (todos'[t] # None /\ ~todos'[t].mine)
  BY DEF Foreign
<1>2. t \in list_user_todos <=> ~Off(t) /\ ~Foreign(t)
  BY <1>1 DEF list_user_todos, Off
<1>3. t \in list_user_todos' <=> ~Off(t)' /\ ~Foreign(t)'
  BY <1>1 DEF list_user_todos, Off
<1>4. Listed(t) = IF t \in list_user_todos THEN {todos[t]} ELSE {}
  BY DEF Listed
<1>5. Listed(t)' = IF t \in list_user_todos' THEN {todos'[t]} ELSE {}
  BY DEF Listed
<1> QED BY <1>1, <1>2, <1>3, <1>4, <1>5

\* At first.
LEMMA ClientAtFirst ==
  ASSUME BoardInit
  PROVE  ClientInv
<1> USE DEF BoardInit
<1>2. DOMAIN rx = {} /\ DOMAIN list = {} /\ \A w \in Writers : writer[w].id = None /\ writer[w].pc = "idle"
  BY DEF Idle
<1>1. ClientTypes
  <2> DEFINE E == [k : {"created", "updated", "deleted"}, id : Todos, row : TodoItem \cup {None}]
             R == [id : Todos, row : TodoItem]
  <2> HIDE DEF E, R
  <2>1. rx \in Seq(E) /\ list \in Seq(R)
    BY EmptySeq
  <2> QED BY <1>2, <2>1 DEF ClientTypes, E, R
<1>3. /\ FreshIsUnseen /\ InternalNeverShown /\ CreatedOnce
  BY <1>2 DEF FreshIsUnseen, InternalNeverShown, CreatedOnce, Creating
<1>4. InternalIsKept
  BY <1>2 DEF InternalIsKept
<1>5. ListedOnce /\ NewsFit
  BY <1>2 DEF ListedOnce, NewsFit, Acting
<1>6. ListIsRight
  BY DEF ListIsRight, Quiet
<1> QED BY <1>1, <1>3, <1>4, <1>5, <1>6 DEF ClientInv

\* A change of one row, or none, that the client does not hear of yet.
LEMMA TableChanges ==
  ASSUME RowsInv, RowsInv', ClientInv,
         conn' = conn, rx' = rx, lagged' = lagged, unsent' = unsent, list' = list,
         amiss \subseteq amiss', amiss' \subseteq Todos, unheard \subseteq unheard',
         unheard' \subseteq Todos, overlap \subseteq overlap', used \subseteq used',
         NEW i \in Ids,
         \A t \in Todos \ {i} : todos'[t] = todos[t],
         \A t \in Todos \ {i}, w \in Writers :
             (writer[w].id # t /\ writer'[w].id # t) \/ writer'[w] = writer[w],
         i \in Todos =>
             /\ todos'[i] # None /\ i \in used =>
                   todos[i] # None /\ todos'[i].internal = todos[i].internal
             /\ \A w \in Writers : \/ writer'[w] = writer[w]
                                   \/ writer'[w].id = i /\ writer'[w].row # None /\ todos'[i] # None =>
                                         writer'[w].row.internal = todos'[i].internal
             /\ \A w \in Writers : Creating(w, i)' =>
                   \/ Creating(w, i)
                   \/ i \notin used /\ \A v \in Writers \ {w} : writer'[v] = writer[v]
             /\ \A w \in Writers : Acting(w, i) => Acting(w, i)'
             /\ Good(i)' => \A w \in Writers : Acting(w, i)' => Fits(i, writer[w].pc, writer[w].row)'
             /\ Good(i)' => \/ todos'[i] = todos[i] \/ \E w \in Writers : Acting(w, i)'
                            \/ i \notin used /\ Off(i)'
  PROVE  ClientInv'
<1>1. \A t \in Todos : Good(t)' => Good(t)
  BY DEF Good
<1>2. \A t \in Todos \ {i}, w \in Writers :
          /\ Acting(w, t)' = Acting(w, t) /\ Creating(w, t)' = Creating(w, t)
          /\ Acting(w, t) => writer'[w] = writer[w]
  BY DEF Acting, Creating
<1>3. ClientTypes'
  BY DEF ClientInv, ClientTypes
<1>4. FreshIsUnseen' /\ InternalNeverShown'
  BY DEF ClientInv, FreshIsUnseen, InternalNeverShown
<1>f. ASSUME i \in Todos \ used
      PROVE  /\ \A j \in DOMAIN rx : rx[j].id = i => rx[j].k = "deleted" /\ rx[j].row = None
             /\ \A j \in DOMAIN list : list[j].id # i
             /\ \A w \in Writers : writer[w].id = i => writer[w].row = None /\ ~Creating(w, i)
  <2>1. /\ \A j \in DOMAIN rx : rx[j].id = i => rx[j].k = "deleted"
        /\ \A j \in DOMAIN list : list[j].id # i
    BY <1>f DEF ClientInv, FreshIsUnseen
  <2>2. \A w \in Writers : writer[w].id = i => writer[w].row = None /\ ~Creating(w, i)
    BY <1>f, Apart DEF RowsInv, FreshIsNew, WriterFits, Creating
  <2>3. \A j \in DOMAIN rx : rx[j].k = "deleted" => rx[j].row = None
    BY DEF ClientInv, ClientTypes
  <2> QED BY <2>1, <2>2, <2>3
<1>5. InternalIsKept'
  <2> SUFFICES ASSUME NEW t \in Todos, todos'[t] # None
               PROVE  /\ \A j \in DOMAIN list : list[j].id = t => list[j].row.internal = todos'[t].internal
                      /\ \A j \in DOMAIN rx : rx[j].id = t /\ rx[j].row # None =>
                            rx[j].row.internal = todos'[t].internal
                      /\ \A w \in Writers : writer'[w].id = t /\ writer'[w].row # None =>
                            writer'[w].row.internal = todos'[t].internal
    BY DEF InternalIsKept
  <2>1. CASE t # i
    BY <2>1 DEF ClientInv, InternalIsKept
  <2>2. CASE t = i /\ i \in used
    <3>1. /\ \A j \in DOMAIN list : list[j].id = t => list[j].row.internal = todos[t].internal
          /\ \A j \in DOMAIN rx : rx[j].id = t /\ rx[j].row # None =>
                rx[j].row.internal = todos[t].internal
          /\ \A w \in Writers : writer[w].id = t /\ writer[w].row # None =>
                writer[w].row.internal = todos[t].internal
      BY <2>2 DEF ClientInv, InternalIsKept
    <3>2. todos'[t].internal = todos[t].internal
      BY <2>2
    <3> QED BY <2>2, <3>1, <3>2
  <2>3. CASE t = i /\ i \notin used
    BY <1>f, <2>3
  <2> QED BY <2>1, <2>2, <2>3
<1>6. CreatedOnce'
  <2>1. ASSUME NEW v \in Writers, NEW w \in Writers, NEW t \in Todos, Creating(v, t)', Creating(w, t)'
        PROVE  v = w
    <3>1. CASE Creating(v, t) /\ Creating(w, t)
      BY <3>1 DEF ClientInv, CreatedOnce
    <3>2. CASE t # i
      BY <1>2, <2>1, <3>1, <3>2
    <3>3. CASE t = i /\ ~(Creating(v, t) /\ Creating(w, t))
      BY <1>f, <2>1, <3>3 DEF Creating
    <3> QED BY <3>1, <3>2, <3>3
  <2>2. ASSUME NEW w \in Writers, NEW j \in DOMAIN rx, NEW t \in Todos, Creating(w, t)', NewsAt(j, t)
        PROVE  FALSE
    <3>1. CASE Creating(w, t)
      BY <2>2, <3>1 DEF ClientInv, CreatedOnce
    <3>2. CASE ~Creating(w, t)
      <4>1. t = i /\ i \notin used
        BY <1>2, <2>2, <3>2
      <4> QED BY <1>f, <2>2, <4>1 DEF NewsAt
    <3> QED BY <3>1, <3>2
  <2>3. \A j, k \in DOMAIN rx : \A t \in Todos : NewsAt(j, t) /\ NewsAt(k, t) => j = k
    BY DEF ClientInv, CreatedOnce
  <2>4. \A j, t : NewsAt(j, t)' = NewsAt(j, t)
    BY DEF NewsAt
  <2> QED BY <2>1, <2>2, <2>3, <2>4 DEF CreatedOnce
<1>n. \A j, t : NewsAt(j, t)' = NewsAt(j, t)
  BY DEF NewsAt
<1>7. ListedOnce'
  <2>1. ASSUME NEW t \in Todos, Good(t)'
        PROVE  \A j, k \in DOMAIN list : list[j].id = t /\ list[k].id = t => j = k
    BY <1>1, <2>1 DEF ClientInv, ListedOnce
  <2>2. ASSUME NEW t \in Todos, Good(t)', NEW w \in Writers, Creating(w, t)'
        PROVE  \A j \in DOMAIN list : list[j].id # t
    <3>1. CASE Creating(w, t)
      BY <1>1, <2>2, <3>1 DEF ClientInv, ListedOnce
    <3>2. CASE ~Creating(w, t)
      BY <1>2, <1>f, <2>2, <3>2
    <3> QED BY <3>1, <3>2
  <2>3. ASSUME NEW t \in Todos, Good(t)', NEW k \in DOMAIN rx, NewsAt(k, t)'
        PROVE  \A j \in DOMAIN list : list[j].id # t
    BY <1>1, <1>n, <2>3 DEF ClientInv, ListedOnce
  <2> QED BY <2>1, <2>2, <2>3 DEF ListedOnce
<1>8. NewsFit'
  <2>1. ASSUME NEW t \in Todos, Good(t)', NEW w \in Writers, Acting(w, t)'
        PROVE  Fits(t, writer[w].pc, writer[w].row)'
    <3>1. CASE t # i
      <4>1. Fits(t, writer[w].pc, writer[w].row) /\ writer'[w] = writer[w] /\ todos'[t] = todos[t]
        BY <1>1, <1>2, <2>1, <3>1 DEF ClientInv, NewsFit
      <4> QED BY <4>1 DEF Fits, Off
    <3>2. CASE t = i
      BY <2>1, <3>2
    <3> QED BY <3>1, <3>2
  <2>2. ASSUME NEW t \in Todos, Good(t)', NEW k \in DOMAIN rx, rx[k].id = t,
               \A j \in DOMAIN rx : j > k => rx[j].id # t,
               \A w \in Writers : ~Acting(w, t)'
        PROVE  Fits(t, rx[k].k, rx[k].row)'
    <3>1. \A w \in Writers : ~Acting(w, t)
      BY <1>2, <2>2
    <3>2. Fits(t, rx[k].k, rx[k].row)
      BY <1>1, <2>2, <3>1 DEF ClientInv, NewsFit
    <3>3. CASE todos'[t] = todos[t]
      BY <3>2, <3>3 DEF Fits, Off
    <3>4. CASE todos'[t] # todos[t]
      <4>1. t = i /\ i \notin used /\ Off(i)'
        BY <2>2, <3>4
      <4>2. rx[k].k = "deleted"
        BY <1>f, <2>2, <4>1
      <4> QED BY <4>1, <4>2 DEF Fits
    <3> QED BY <3>3, <3>4
  <2> QED BY <2>1, <2>2 DEF NewsFit
<1>9. ListIsRight'
  <2> SUFFICES ASSUME NEW t \in Todos, Good(t)', Quiet(t)', ~Foreign(t)'
               PROVE  {list'[j].row : j \in Shown(t)'} = Listed(t)'
    BY DEF ListIsRight
  <2>1. Shown(t)' = Shown(t)
    BY DEF Shown
  <2>2. Quiet(t) /\ \A w \in Writers : ~Acting(w, t)'
    BY <1>2 DEF Quiet
  <2>3. CASE todos'[t] = todos[t]
    <3>1. Listed(t)' = Listed(t) /\ ~Foreign(t)
      BY <2>3, ListedRow DEF Off
    <3>2. {list[j].row : j \in Shown(t)} = Listed(t)
      BY <1>1, <2>2, <3>1 DEF ClientInv, ListIsRight
    <3> QED BY <2>1, <3>1, <3>2
  <2>4. CASE todos'[t] # todos[t]
    <3>1. t = i /\ i \notin used /\ Off(i)'
      BY <2>2, <2>4
    <3>2. Shown(t) = {}
      BY <1>f, <3>1 DEF Shown
    <3>3. Listed(t)' = {}
      BY <3>1, ListedRow
    <3> QED BY <2>1, <3>2, <3>3
  <2> QED BY <2>3, <2>4
<1> QED BY <1>3, <1>4, <1>5, <1>6, <1>7, <1>8, <1>9 DEF ClientInv

\* A todo that is created: it is announced later.
LEMMA ClientCreate ==
  ASSUME RowsInv, RowsInv', ClientInv, NEW w \in Writers, NEW t \in Todos, NEW row \in TodoItem,
         create_todo(w, t, row)
  PROVE  ClientInv'
<1> USE DEF create_todo
<1>1. /\ writer'[w] = [pc |-> "created", id |-> t, row |-> row, set |-> None]
      /\ \A v \in Writers \ {w} : writer'[v] = writer[v]
      /\ overlap \subseteq overlap' /\ writer[w].id = None
      /\ \A v \in Writers \ {w} : writer[v].id = t => t \in overlap'
  BY Apart, BeginsAlone
<1>2. /\ conn' = conn /\ rx' = rx /\ lagged' = lagged /\ unsent' = unsent /\ list' = list
      /\ amiss' = amiss /\ unheard' = unheard /\ used \subseteq used' /\ t \notin used
      /\ amiss \subseteq Todos /\ unheard \subseteq Todos
  BY DEF link, ClientInv, ClientTypes
<1>3. todos'[t] = row /\ \A u \in Todos \ {t} : todos'[u] = todos[u]
  BY DEF RowsInv, RowTypes
<1>4. \A v \in Writers : Creating(v, t)' => v = w \/ Creating(v, t)
  BY <1>1 DEF Creating
<1>5. /\ Acting(w, t)' /\ \A v \in Writers : Acting(v, t) => Acting(v, t)'
      /\ Good(t)' => \A v \in Writers : Acting(v, t)' => v = w
  BY <1>1, Apart DEF Acting, Good
<1>6. Fits(t, writer[w].pc, writer[w].row)'
  BY <1>1, <1>3 DEF Fits
<1>7. \A u \in Todos \ {t}, v \in Writers :
         (writer[v].id # u /\ writer'[v].id # u) \/ writer'[v] = writer[v]
  BY <1>1, Apart
<1>8. /\ writer'[w].row.internal = todos'[t].internal
      /\ Good(t)' => \A v \in Writers : Acting(v, t)' => Fits(t, writer[v].pc, writer[v].row)'
  BY <1>1, <1>3, <1>5, <1>6
<1>9. ASSUME NEW v \in Writers, Creating(v, t)'
      PROVE  \/ Creating(v, t)
             \/ t \notin used /\ \A u \in Writers \ {v} : writer'[u] = writer[u]
  <2>1. CASE v = w
    BY <1>1, <1>2, <2>1
  <2>2. CASE v # w
    BY <1>1, <1>9, <2>2 DEF Creating
  <2> QED BY <2>1, <2>2
<1>10. \A v \in Writers : writer'[v] = writer[v] \/ writer'[v].row.internal = todos'[t].internal
  BY <1>1, <1>8
<1> QED BY <1>1, <1>2, <1>3, <1>5, <1>7, <1>8, <1>9, <1>10, Apart, TableChanges

\* A subtask: the client is not to show it.
LEMMA ClientSubtask ==
  ASSUME RowsInv, RowsInv', ClientInv, NEW t \in Todos, CreateSubtask(t)
  PROVE  ClientInv'
<1> USE DEF CreateSubtask
<1>1. /\ conn' = conn /\ rx' = rx /\ lagged' = lagged /\ unsent' = unsent /\ list' = list
      /\ amiss' = amiss /\ unheard' = unheard /\ used \subseteq used' /\ t \notin used
      /\ amiss \subseteq Todos /\ unheard \subseteq Todos /\ overlap' = overlap /\ writer' = writer
  BY DEF link, ClientInv, ClientTypes
<1>2. todos'[t] = NewTodo(TRUE, TRUE) /\ \A u \in Todos \ {t} : todos'[u] = todos[u]
  BY DEF RowsInv, RowTypes
<1>3. Off(t)'
  BY <1>2 DEF NewTodo, Off
<1>4. \A w \in Writers : writer[w].id = t => writer[w].pc \in {"reread", "deleted"}
  BY <1>1, Apart DEF RowsInv, FreshIsNew
<1>5. \A w \in Writers : /\ Acting(w, t)' = Acting(w, t) /\ Creating(w, t)' = Creating(w, t)
                         /\ Acting(w, t)' => Fits(t, writer[w].pc, writer[w].row)'
  BY <1>1, <1>3, <1>4 DEF Acting, Creating, Fits
<1> QED BY <1>1, <1>2, <1>3, <1>5, Apart, TableChanges

\* The read of an update.
LEMMA ClientRead ==
  ASSUME RowsInv, RowsInv', ClientInv, NEW w \in Writers, NEW i \in Ids, NEW row, NEW set,
         writer'[w] = [pc |-> "merge", id |-> i, row |-> row, set |-> set],
         writer[w].id = None, overlap \subseteq overlap', i \in Todos => row = todos[i],
         \A v \in Writers \ {w} : writer'[v] = writer[v],
         todos' = todos, used' = used, link' = link, list' = list, amiss' = amiss, unheard' = unheard
  PROVE  ClientInv'
<1>1. /\ conn' = conn /\ rx' = rx /\ lagged' = lagged /\ unsent' = unsent
      /\ amiss \subseteq Todos /\ unheard \subseteq Todos
  BY DEF link, ClientInv, ClientTypes
<1>2. \A u \in Todos \ {i}, v \in Writers :
         (writer[v].id # u /\ writer'[v].id # u) \/ writer'[v] = writer[v]
  BY Apart
<1>3. \A t \in Todos, v \in Writers : /\ Acting(v, t)' = Acting(v, t) /\ Creating(v, t)' = Creating(v, t)
                                      /\ Acting(v, t)' => writer'[v] = writer[v]
  BY Apart DEF Acting, Creating
<1>4. Good(i)' => Good(i)
  BY DEF Good
<1>5. ASSUME i \in Todos, Good(i)', NEW v \in Writers, Acting(v, i)'
      PROVE  Fits(i, writer[v].pc, writer[v].row)'
  <2>1. Fits(i, writer[v].pc, writer[v].row) /\ writer'[v] = writer[v]
    BY <1>3, <1>4, <1>5 DEF ClientInv, NewsFit
  <2> QED BY <2>1 DEF Fits, Off
<1>6. ASSUME i \in Todos, NEW v \in Writers
      PROVE  \/ writer'[v] = writer[v]
             \/ writer'[v].id = i /\ writer'[v].row # None /\ todos'[i] # None =>
                   writer'[v].row.internal = todos'[i].internal
  BY <1>6
<1> QED BY <1>1, <1>2, <1>3, <1>5, <1>6, TableChanges

\* The write of an update.
LEMMA ClientWrite ==
  ASSUME RowsInv, RowsInv', ClientInv, NEW w \in Writers, WriteTodo(w), NEW t, t = writer[w].id
  PROVE  ClientInv'
<1> DEFINE row == Merge(writer[w].row, writer[w].set)
<1>1. /\ t \in Todos /\ t \in Ids /\ writer[w].pc = "merge"
      /\ writer[w].row \in TodoItem /\ writer[w].set \in Edits \cup {Snoozed}
  BY Apart DEF WriteTodo, RowsInv, WriterFits
<1>2. row \in TodoItem /\ row.internal = writer[w].row.internal
  BY <1>1, MergedTodo
<1> HIDE DEF row
<1>3. /\ todos' = [todos EXCEPT ![t] = IF todos[t] = None THEN None ELSE row]
      /\ writer' = [writer EXCEPT ![w] = [pc |-> "updated", id |-> t, row |-> row, set |-> None]]
      /\ used' = used /\ overlap' = overlap /\ conn' = conn /\ rx' = rx /\ lagged' = lagged /\ unsent' = unsent
      /\ list' = list /\ amiss' = amiss /\ unheard' = unheard
  BY DEF WriteTodo, update_todo, row, link
<1>4. /\ writer'[w] = [pc |-> "updated", id |-> t, row |-> row, set |-> None]
      /\ \A v \in Writers \ {w} : writer'[v] = writer[v]
  BY <1>3 DEF RowsInv, RowTypes
<1>5. /\ todos'[t] = IF todos[t] = None THEN None ELSE row
      /\ \A u \in Todos \ {t} : todos'[u] = todos[u]
  BY <1>1, <1>3 DEF RowsInv, RowTypes
<1>6. amiss \subseteq Todos /\ unheard \subseteq Todos
  BY DEF ClientInv, ClientTypes
<1>7. todos[t] # None => row.internal = todos[t].internal
  BY <1>1, <1>2, Apart DEF ClientInv, InternalIsKept
<1>8. \A u \in Todos \ {t}, v \in Writers :
         (writer[v].id # u /\ writer'[v].id # u) \/ writer'[v] = writer[v]
  BY <1>4
<1>9. t \notin overlap => todos[t] # None /\ \A v \in Writers \ {w} : writer[v].id # t
  BY <1>1, Apart DEF RowsInv, ChangesAreAlone, Row
<1>10. /\ Acting(w, t)' /\ \A v \in Writers : Acting(v, t) => Acting(v, t)'
       /\ \A v \in Writers : Creating(v, t)' => Creating(v, t)
       /\ Good(t)' => t \notin overlap /\ \A v \in Writers : Acting(v, t)' => v = w
  BY <1>1, <1>3, <1>4, <1>9 DEF Acting, Creating, Good
<1>11. t \notin overlap => Fits(t, writer[w].pc, writer[w].row)'
  BY <1>4, <1>5, <1>9 DEF Fits
<1>12. Good(t)' => \A v \in Writers : Acting(v, t)' => Fits(t, writer[v].pc, writer[v].row)'
  BY <1>10, <1>11
<1>13. todos'[t] # None => todos[t] # None /\ todos'[t].internal = todos[t].internal
  BY <1>5, <1>7
<1>14. \A v \in Writers : \/ writer'[v] = writer[v]
                          \/ todos'[t] # None => writer'[v].row.internal = todos'[t].internal
  <2>1. todos'[t] # None => writer'[w].row.internal = todos'[t].internal
    BY <1>4, <1>5
  <2> QED BY <1>4, <2>1
<1> QED BY <1>1, <1>3, <1>5, <1>6, <1>8, <1>10, <1>12, <1>13, <1>14, TableChanges

\* A completion: its todo is off the list whatever the read that follows finds.
LEMMA ClientComplete ==
  ASSUME RowsInv, RowsInv', ClientInv, NEW t \in Todos, complete_todo(t)
  PROVE  ClientInv'
<1> USE DEF complete_todo
<1>1. t \in Ids /\ "ws" \in Writers
  BY Apart DEF Writers
<1>2. /\ writer'["ws"] = [pc |-> "reread", id |-> t, row |-> None, set |-> None]
      /\ \A v \in Writers \ {"ws"} : writer'[v] = writer[v]
      /\ overlap \subseteq overlap' /\ writer["ws"].id = None
      /\ \A v \in Writers \ {"ws"} : writer[v].id = t => t \in overlap'
  BY <1>1, BeginsAlone
<1>3. /\ conn' = conn /\ rx' = rx /\ lagged' = lagged /\ unsent' = unsent /\ list' = list
      /\ amiss' = amiss /\ unheard' = unheard /\ used' = used
      /\ amiss \subseteq Todos /\ unheard \subseteq Todos
  BY DEF link, ClientInv, ClientTypes
<1> DEFINE done == [todos[t] EXCEPT !.status = "Completed"]
<1>4. todos[t] # None => todos[t] \in TodoItem
  BY DEF RowsInv, RowTypes
<1>5. todos[t] # None => done.status = "Completed" /\ done.internal = todos[t].internal
  BY <1>4 DEF TodoItem
<1>6. /\ todos'[t] = IF todos[t] = None THEN None ELSE done
      /\ \A u \in Todos \ {t} : todos'[u] = todos[u]
  BY DEF RowsInv, RowTypes
<1> HIDE DEF done
<1>7. Off(t)' /\ (todos'[t] # None => todos[t] # None /\ todos'[t].internal = todos[t].internal)
  BY <1>5, <1>6 DEF Off
<1>8. \A u \in Todos \ {t}, v \in Writers :
         (writer[v].id # u /\ writer'[v].id # u) \/ writer'[v] = writer[v]
  BY <1>2, Apart
<1>9. /\ Acting("ws", t)' /\ \A v \in Writers : Acting(v, t) => Acting(v, t)'
      /\ \A v \in Writers : Creating(v, t)' => Creating(v, t)
      /\ Good(t)' => \A v \in Writers : Acting(v, t)' => v = "ws"
  BY <1>1, <1>2, Apart DEF Acting, Creating, Good
<1>10. Fits(t, writer["ws"].pc, writer["ws"].row)'
  BY <1>2, <1>7 DEF Fits
<1>11. Good(t)' => \A v \in Writers : Acting(v, t)' => Fits(t, writer[v].pc, writer[v].row)'
  BY <1>9, <1>10
<1>12. \A v \in Writers : writer'[v] = writer[v] \/ writer'[v].row = None
  BY <1>2
<1> QED BY <1>1, <1>2, <1>3, <1>6, <1>7, <1>8, <1>9, <1>11, <1>12, TableChanges

\* The read that follows a completion.
LEMMA ClientReread ==
  ASSUME RowsInv, RowsInv', ClientInv, NEW ok \in BOOLEAN, CompleteReads(ok),
         NEW t, t = writer["ws"].id
  PROVE  ClientInv'
<1> DEFINE row == IF ok THEN todos[t] ELSE None
           pc == IF row = None THEN "deleted" ELSE "updated"
<1>1. /\ writer["ws"].pc = "reread" /\ todos' = todos /\ used' = used /\ overlap' = overlap
      /\ conn' = conn /\ rx' = rx /\ lagged' = lagged /\ unsent' = unsent /\ list' = list
      /\ amiss' = amiss /\ unheard' = unheard
      /\ writer' = [writer EXCEPT !["ws"] = [pc |-> pc, id |-> t, row |-> row, set |-> None]]
  BY DEF CompleteReads, hist, link
<1>2. "ws" \in Writers
  BY DEF Writers
<1>3. t \in Todos /\ t \in Ids
  BY <1>1, <1>2, Apart DEF RowsInv, WriterFits
<1>p. /\ row = None => pc = "deleted"
      /\ row # None => pc = "updated" /\ row = todos[t]
  OBVIOUS
<1> HIDE DEF pc, row
<1>4. /\ writer'["ws"] = [pc |-> pc, id |-> t, row |-> row, set |-> None]
      /\ \A v \in Writers \ {"ws"} : writer'[v] = writer[v]
  BY <1>1, <1>2 DEF RowsInv, RowTypes
<1>5. amiss \subseteq Todos /\ unheard \subseteq Todos
  BY DEF ClientInv, ClientTypes
<1>6. \A u \in Todos \ {t}, v \in Writers :
         (writer[v].id # u /\ writer'[v].id # u) \/ writer'[v] = writer[v]
  BY <1>4
<1>7. /\ Acting("ws", t) /\ Acting("ws", t)' /\ \A v \in Writers : Acting(v, t)' <=> Acting(v, t)
      /\ \A v \in Writers : Creating(v, t)' => Creating(v, t)
  BY <1>1, <1>4, <1>p DEF Acting, Creating
<1>8. ASSUME Good(t)', NEW v \in Writers, Acting(v, t)'
      PROVE  Fits(t, writer[v].pc, writer[v].row)'
  <2>1. Good(t)
    BY <1>1, <1>8 DEF Good
  <2>2. Fits(t, writer[v].pc, writer[v].row)
    BY <1>3, <1>7, <1>8, <2>1 DEF ClientInv, NewsFit
  <2>3. CASE v # "ws"
    BY <1>1, <1>4, <2>2, <2>3 DEF Fits, Off
  <2>4. CASE v = "ws"
    <3>1. Off(t)
      BY <1>1, <2>2, <2>4 DEF Fits
    <3>2. Off(t)'
      BY <1>1, <3>1 DEF Off
    <3>3. writer'["ws"].pc = pc /\ writer'["ws"].row = row
      BY <1>4
    <3> QED BY <1>1, <1>p, <2>4, <3>2, <3>3 DEF Fits
  <2> QED BY <2>3, <2>4
<1>9. \A v \in Writers : \/ writer'[v] = writer[v]
                         \/ writer'[v].row # None => writer'[v].row = todos[t]
  BY <1>4, <1>p
<1> QED BY <1>1, <1>3, <1>5, <1>6, <1>7, <1>8, <1>9, TableChanges

\* A deletion: it is announced later.
LEMMA ClientDelete ==
  ASSUME RowsInv, RowsInv', ClientInv, NEW w \in Writers, NEW t \in Todos, delete_todo(w, t)
  PROVE  ClientInv'
<1> USE DEF delete_todo
<1>1. /\ writer'[w] = [pc |-> "deleted", id |-> t, row |-> None, set |-> None]
      /\ \A v \in Writers \ {w} : writer'[v] = writer[v]
      /\ overlap \subseteq overlap' /\ writer[w].id = None
      /\ \A v \in Writers \ {w} : writer[v].id = t => t \in overlap'
  BY Apart, BeginsAlone
<1>2. /\ conn' = conn /\ rx' = rx /\ lagged' = lagged /\ unsent' = unsent /\ list' = list
      /\ amiss' = amiss /\ unheard' = unheard /\ used' = used
      /\ amiss \subseteq Todos /\ unheard \subseteq Todos
  BY DEF link, ClientInv, ClientTypes
<1>3. todos'[t] = None /\ \A u \in Todos \ {t} : todos'[u] = todos[u]
  BY DEF RowsInv, RowTypes
<1>4. \A u \in Todos \ {t}, v \in Writers :
         (writer[v].id # u /\ writer'[v].id # u) \/ writer'[v] = writer[v]
  BY <1>1, Apart
<1>5. /\ Acting(w, t)' /\ \A v \in Writers : Acting(v, t) => Acting(v, t)'
      /\ \A v \in Writers : Creating(v, t)' => Creating(v, t)
      /\ Good(t)' => \A v \in Writers : Acting(v, t)' => v = w
  BY <1>1, Apart DEF Acting, Creating, Good
<1>6. Fits(t, writer[w].pc, writer[w].row)'
  BY <1>1, <1>3 DEF Fits, Off
<1>7. Good(t)' => \A v \in Writers : Acting(v, t)' => Fits(t, writer[v].pc, writer[v].row)'
  BY <1>5, <1>6
<1>8. \A v \in Writers : writer'[v] = writer[v] \/ writer'[v].row = None
  BY <1>1
<1> QED BY <1>1, <1>2, <1>3, <1>4, <1>5, <1>7, <1>8, Apart, TableChanges

\* A status that an agent sets: the client does not hear of it.
LEMMA ClientAgent ==
  ASSUME RowsInv, RowsInv', ClientInv, NEW t \in Todos, NEW s \in TodoStatus, AgentSets(t, s)
  PROVE  ClientInv'
<1> USE DEF AgentSets
<1>1. /\ conn' = conn /\ rx' = rx /\ lagged' = lagged /\ unsent' = unsent /\ list' = list /\ used' = used
      /\ writer' = writer /\ overlap \subseteq overlap'
      /\ amiss \subseteq amiss' /\ amiss' \subseteq Todos
      /\ unheard \subseteq unheard' /\ unheard' \subseteq Todos /\ t \in unheard'
  BY DEF link, ClientInv, ClientTypes
<1>2. ~Good(t)'
  BY <1>1 DEF Good
<1>3. todos[t] \in TodoItem /\ todos[t] # None
  BY DEF RowsInv, RowTypes
<1>4. /\ todos'[t] = [todos[t] EXCEPT !.status = s]
      /\ \A u \in Todos \ {t} : todos'[u] = todos[u]
  BY DEF RowsInv, RowTypes
<1>5. todos'[t].internal = todos[t].internal
  BY <1>3, <1>4 DEF TodoItem
<1>6. \A w \in Writers : Acting(w, t)' = Acting(w, t) /\ Creating(w, t)' = Creating(w, t)
  BY <1>1 DEF Acting, Creating
<1> QED BY <1>1, <1>2, <1>3, <1>4, <1>5, <1>6, Apart, TableChanges

\* A change of a document.
LEMMA ClientDocument ==
  ASSUME RowsInv, RowsInv', ClientInv, NEW d \in Docs,
         \/ create_document(d) \/ delete_document(d)
         \/ \E w \in Writers : writer[w].id = d /\ WriteDocument(w)
  PROVE  ClientInv'
<1>1. /\ todos' = todos /\ conn' = conn /\ rx' = rx /\ lagged' = lagged /\ unsent' = unsent /\ list' = list
      /\ amiss' = amiss /\ unheard' = unheard
      /\ amiss \subseteq Todos /\ unheard \subseteq Todos
  BY DEF create_document, delete_document, WriteDocument, link, ClientInv, ClientTypes
<1>2. overlap \subseteq overlap' /\ used \subseteq used'
  BY DEF create_document, delete_document, WriteDocument
<1>3. d \notin Todos /\ d \in Ids
  BY Apart
<1>4. \A u \in Todos \ {d}, v \in Writers :
         (writer[v].id # u /\ writer'[v].id # u) \/ writer'[v] = writer[v]
  <2>1. CASE writer' = writer
    BY <2>1
  <2>2. ASSUME NEW w \in Writers, writer[w].id = d, WriteDocument(w)
        PROVE  \A u \in Todos \ {d}, v \in Writers :
                  (writer[v].id # u /\ writer'[v].id # u) \/ writer'[v] = writer[v]
    <3>1. writer' = [writer EXCEPT ![w] = Idle]
      BY <2>2 DEF WriteDocument
    <3>2. writer'[w].id = None /\ \A v \in Writers \ {w} : writer'[v] = writer[v]
      BY <3>1, RowsIdle
    <3> QED BY <1>3, <2>2, <3>2, Apart
  <2> QED BY <2>1, <2>2 DEF create_document, delete_document
<1> QED BY <1>1, <1>2, <1>3, <1>4, TableChanges

\* A snapshot on the client's list: it is the table, and what it may double is known.
LEMMA Resynced ==
  ASSUME RowsInv, RowsInv', ClientInv, todos' = todos, writer' = writer, used' = used,
         overlap' = overlap, unheard' = unheard, list' = Snapshot, rx' = rx,
         amiss \subseteq amiss', amiss' \subseteq Todos,
         conn' \in {"off", "synced", "live"}, lagged' \in BOOLEAN, unsent' \in BOOLEAN,
         conn' # "live" => rx' = <<>> /\ lagged' = FALSE,
         \A t \in Todos \ amiss' : /\ \A w \in Writers : ~Creating(w, t)
                                   /\ \A i \in DOMAIN rx : ~NewsAt(i, t)
  PROVE  ClientInv'
<1>1. /\ list' \in Seq([id : Todos, row : TodoItem])
      /\ \A i \in DOMAIN list' : list'[i].id \in list_user_todos /\ list'[i].row = todos[list'[i].id]
      /\ \A t \in list_user_todos : \E i \in DOMAIN list' : list'[i].id = t
      /\ \A i, j \in DOMAIN list' : list'[i].id = list'[j].id => i = j
  <2>1. RowTypes
    BY DEF RowsInv
  <2> HIDE DEF Snapshot, list_user_todos
  <2> QED BY <2>1, SnapshotRows
<1>2. \A t \in Todos, w \in Writers : Acting(w, t)' = Acting(w, t) /\ Creating(w, t)' = Creating(w, t)
  BY DEF Acting, Creating
<1>3. \A t \in Todos : (Good(t)' => Good(t) /\ t \notin amiss') /\ \A i : NewsAt(i, t)' = NewsAt(i, t)
  BY DEF Good, NewsAt
<1>4. ClientTypes'
  BY <1>1 DEF ClientInv, ClientTypes
<1>5. \A i \in DOMAIN list' : /\ list'[i].id \in used /\ ~list'[i].row.internal
                              /\ list'[i].row.status # "Completed" /\ list'[i].id \in Todos
  <2>1. \A t \in list_user_todos : /\ t \in Todos /\ todos[t] # None /\ ~todos[t].internal
                                   /\ todos[t].status # "Completed"
    BY DEF list_user_todos
  <2>2. \A t \in Todos : todos[t] # None => t \in used
    BY Apart DEF RowsInv, FreshIsNew, Row
  <2> HIDE DEF list_user_todos
  <2> QED BY <1>1, <2>1, <2>2
<1>6. FreshIsUnseen' /\ InternalNeverShown'
  BY <1>5 DEF ClientInv, FreshIsUnseen, InternalNeverShown
<1>7. InternalIsKept'
  <2> SUFFICES ASSUME NEW t \in Todos, todos'[t] # None
               PROVE  /\ \A j \in DOMAIN list' : list'[j].id = t => list'[j].row.internal = todos'[t].internal
                      /\ \A j \in DOMAIN rx' : rx'[j].id = t /\ rx'[j].row # None =>
                            rx'[j].row.internal = todos'[t].internal
                      /\ \A w \in Writers : writer'[w].id = t /\ writer'[w].row # None =>
                            writer'[w].row.internal = todos'[t].internal
    BY DEF InternalIsKept
  <2>1. \A j \in DOMAIN list' : list'[j].id = t => list'[j].row.internal = todos'[t].internal
    BY <1>1
  <2>2. /\ \A j \in DOMAIN rx' : rx'[j].id = t /\ rx'[j].row # None =>
              rx'[j].row.internal = todos'[t].internal
        /\ \A w \in Writers : writer'[w].id = t /\ writer'[w].row # None =>
              writer'[w].row.internal = todos'[t].internal
    BY DEF ClientInv, InternalIsKept
  <2> QED BY <2>1, <2>2
<1>8. CreatedOnce'
  BY <1>2, <1>3 DEF ClientInv, CreatedOnce
<1>9. ListedOnce'
  <2> SUFFICES ASSUME NEW t \in Todos, Good(t)'
               PROVE  /\ \A j, k \in DOMAIN list' : list'[j].id = t /\ list'[k].id = t => j = k
                      /\ ~\E w \in Writers : Creating(w, t)'
                      /\ ~\E j \in DOMAIN rx' : NewsAt(j, t)'
    BY DEF ListedOnce
  <2> QED BY <1>1, <1>2, <1>3
<1>10. NewsFit'
  <2>1. ASSUME NEW t \in Todos, Good(t)', NEW w \in Writers, Acting(w, t)'
        PROVE  Fits(t, writer[w].pc, writer[w].row)'
    <3>1. Fits(t, writer[w].pc, writer[w].row)
      BY <1>2, <1>3, <2>1 DEF ClientInv, NewsFit
    <3> QED BY <3>1 DEF Fits, Off
  <2>2. ASSUME NEW t \in Todos, Good(t)', NEW k \in DOMAIN rx, rx[k].id = t,
               \A j \in DOMAIN rx : j > k => rx[j].id # t, \A w \in Writers : ~Acting(w, t)'
        PROVE  Fits(t, rx[k].k, rx[k].row)'
    <3>1. Fits(t, rx[k].k, rx[k].row)
      BY <1>2, <1>3, <2>2 DEF ClientInv, NewsFit
    <3> QED BY <3>1 DEF Fits, Off
  <2> QED BY <2>1, <2>2 DEF NewsFit
<1>11. ListIsRight'
  <2> SUFFICES ASSUME NEW t \in Todos
               PROVE  {list'[j].row : j \in Shown(t)'} = Listed(t)'
    BY DEF ListIsRight
  <2>1. Shown(t)' = {j \in DOMAIN list' : list'[j].id = t}
    BY <1>5 DEF Shown
  <2>2. Listed(t)' = IF t \in list_user_todos THEN {todos[t]} ELSE {}
    BY DEF Listed, list_user_todos
  <2> HIDE DEF list_user_todos
  <2> QED BY <1>1, <2>1, <2>2
<1> QED BY <1>4, <1>6, <1>7, <1>8, <1>9, <1>10, <1>11 DEF ClientInv

\* A list that cannot be read: nothing is claimed of what the client shows.
LEMMA NotSent ==
  ASSUME ClientInv, todos' = todos, writer' = writer, used' = used,
         overlap' = overlap, unheard' = unheard, list' = list, rx' = rx, amiss' = amiss,
         unsent' = TRUE, conn' \in {"off", "synced", "live"}, lagged' \in BOOLEAN,
         conn' # "live" => rx' = <<>> /\ lagged' = FALSE
  PROVE  ClientInv'
<1>1. \A t \in Todos, w \in Writers : Acting(w, t)' = Acting(w, t) /\ Creating(w, t)' = Creating(w, t)
  BY DEF Acting, Creating
<1>2. \A t \in Todos : Good(t)' = Good(t) /\ \A i : NewsAt(i, t)' = NewsAt(i, t)
  BY DEF Good, NewsAt
<1>3. ClientTypes'
  BY DEF ClientInv, ClientTypes
<1>4. FreshIsUnseen' /\ InternalNeverShown' /\ InternalIsKept'
  BY DEF ClientInv, FreshIsUnseen, InternalNeverShown, InternalIsKept
<1>5. CreatedOnce'
  BY <1>1, <1>2 DEF ClientInv, CreatedOnce
<1>6. ListedOnce'
  BY <1>1, <1>2, Zenon DEF ClientInv, ListedOnce
<1>7. NewsFit'
  <2>1. ASSUME NEW t \in Todos, Good(t)', NEW w \in Writers, Acting(w, t)'
        PROVE  Fits(t, writer[w].pc, writer[w].row)'
    <3>1. Fits(t, writer[w].pc, writer[w].row)
      BY <1>1, <1>2, <2>1 DEF ClientInv, NewsFit
    <3> QED BY <3>1 DEF Fits, Off
  <2>2. ASSUME NEW t \in Todos, Good(t)', NEW k \in DOMAIN rx, rx[k].id = t,
               \A j \in DOMAIN rx : j > k => rx[j].id # t, \A w \in Writers : ~Acting(w, t)'
        PROVE  Fits(t, rx[k].k, rx[k].row)'
    <3>1. Fits(t, rx[k].k, rx[k].row)
      BY <1>1, <1>2, <2>2 DEF ClientInv, NewsFit
    <3> QED BY <3>1 DEF Fits, Off
  <2> QED BY <2>1, <2>2 DEF NewsFit
<1>8. ListIsRight'
  BY DEF ListIsRight, Quiet
<1> QED BY <1>3, <1>4, <1>5, <1>6, <1>7, <1>8 DEF ClientInv

\* A client that connects.
LEMMA ClientConnects ==
  ASSUME RowsInv, RowsInv', ClientInv, NEW ok \in BOOLEAN, Connect(ok)
  PROVE  ClientInv'
<1> USE DEF Connect
<1>1. rx = <<>> /\ lagged = FALSE /\ DOMAIN rx = {}
  BY DEF ClientInv, ClientTypes
<1>2. Doubled \subseteq Todos /\ amiss \subseteq Todos
  BY DEF Doubled, ClientInv, ClientTypes
<1>5. CASE ok
  <2>1. amiss' = amiss \cup Doubled /\ list' = Snapshot /\ unsent' = FALSE
    BY <1>5 DEF SendList
  <2>2. \A t \in Todos \ amiss', w \in Writers : ~Creating(w, t)
    BY <2>1 DEF Doubled, Creating
  <2>3. conn' = "synced" /\ amiss \subseteq amiss' /\ amiss' \subseteq Todos
    BY <1>2, <2>1
  <2> QED BY <1>1, <2>1, <2>2, <2>3, Resynced
<1>6. CASE ~ok
  BY <1>1, <1>6, NotSent DEF SendList
<1> QED BY <1>5, <1>6

\* A client that lagged.
LEMMA ClientResyncs ==
  ASSUME RowsInv, RowsInv', ClientInv, NEW ok \in BOOLEAN, Resync(ok)
  PROVE  ClientInv'
<1> USE DEF Resync
<1>1. rx \in Seq([k : {"created", "updated", "deleted"}, id : Todos, row : TodoItem \cup {None}])
  BY DEF ClientInv, ClientTypes
<1>2. Doubled \subseteq Todos /\ amiss \subseteq Todos
  BY DEF Doubled, ClientInv, ClientTypes
<1>3. StillNew \subseteq Todos
  <2> DEFINE E == [k : {"created", "updated", "deleted"}, id : Todos, row : TodoItem \cup {None}]
  <2>1. \A e \in E : e.id \in Todos
    OBVIOUS
  <2>s. rx \in Seq(E)
    BY <1>1
  <2> HIDE DEF E
  <2>2. \A i \in DOMAIN rx : rx[i] \in E
    BY <2>s
  <2>3. \A i \in DOMAIN rx : rx[i].id \in Todos
    BY <2>1, <2>2
  <2> QED BY <2>3 DEF StillNew
<1>4. CASE ok
  <2>1. amiss' = amiss \cup (Doubled \cup StillNew) /\ list' = Snapshot /\ unsent' = FALSE
    BY <1>4 DEF SendList
  <2>2. \A t \in Todos \ amiss', w \in Writers : ~Creating(w, t)
    BY <2>1 DEF Doubled, Creating
  <2>3. \A t \in Todos \ amiss', i \in DOMAIN rx : ~NewsAt(i, t)
    BY <2>1 DEF StillNew, NewsAt
  <2>4. conn' = "live" /\ lagged' = FALSE /\ amiss \subseteq amiss' /\ amiss' \subseteq Todos
    BY <1>2, <1>3, <2>1 DEF Free
  <2> QED BY <2>1, <2>2, <2>3, <2>4, Resynced
<1>5. CASE ~ok
  BY <1>5, NotSent DEF SendList, Free
<1> QED BY <1>4, <1>5

\* A connection that is made or lost: nothing is on its way to the client.
LEMMA ClientLink ==
  ASSUME RowsInv, RowsInv', ClientInv, Subscribe \/ Disconnect
  PROVE  ClientInv'
<1>1. /\ todos' = todos /\ writer' = writer /\ used' = used /\ list' = list /\ overlap' = overlap
      /\ amiss' = amiss /\ unheard' = unheard /\ rx' = <<>> /\ lagged' = FALSE /\ unsent' = unsent
  BY DEF Subscribe, Disconnect, hist
<1>2. conn' = "off" \/ (conn = "synced" /\ conn' = "live" /\ rx = <<>> /\ lagged = FALSE)
  BY DEF Subscribe, Disconnect, ClientInv, ClientTypes
<1>3. DOMAIN rx' = {}
  BY <1>1
<1>4. \A t \in Todos, w \in Writers : Acting(w, t)' = Acting(w, t) /\ Creating(w, t)' = Creating(w, t)
  BY <1>1 DEF Acting, Creating
<1>5. \A t \in Todos : Good(t)' = Good(t)
  BY <1>1 DEF Good
<1>6. ClientTypes'
  <2> DEFINE E == [k : {"created", "updated", "deleted"}, id : Todos, row : TodoItem \cup {None}]
             R == [id : Todos, row : TodoItem]
  <2> HIDE DEF E, R
  <2>1. rx' \in Seq(E)
    BY <1>1, EmptySeq
  <2>2. conn' \in {"off", "synced", "live"}
    BY <1>2
  <2>3. list \in Seq(R) /\ amiss \subseteq Todos /\ unheard \subseteq Todos /\ unsent \in BOOLEAN
    BY DEF ClientInv, ClientTypes, R
  <2> QED BY <1>1, <1>3, <2>1, <2>2, <2>3 DEF ClientTypes, E, R
<1>7. FreshIsUnseen' /\ InternalNeverShown'
  BY <1>1, <1>3 DEF ClientInv, FreshIsUnseen, InternalNeverShown
<1>8. InternalIsKept'
  BY <1>1, <1>3 DEF ClientInv, InternalIsKept
<1>9. CreatedOnce'
  BY <1>3, <1>4 DEF ClientInv, CreatedOnce
<1>10. ListedOnce'
  BY <1>1, <1>3, <1>4, <1>5 DEF ClientInv, ListedOnce
<1>11. NewsFit'
  <2>1. ASSUME NEW t \in Todos, Good(t)', NEW w \in Writers, Acting(w, t)'
        PROVE  Fits(t, writer[w].pc, writer[w].row)'
    <3>1. Fits(t, writer[w].pc, writer[w].row)
      BY <1>4, <1>5, <2>1 DEF ClientInv, NewsFit
    <3> QED BY <1>1, <3>1 DEF Fits, Off
  <2> QED BY <1>3, <2>1 DEF NewsFit
<1>12. ListIsRight'
  <2> SUFFICES ASSUME NEW t \in Todos, Good(t)', Quiet(t)', ~Foreign(t)'
               PROVE  {list'[j].row : j \in Shown(t)'} = Listed(t)'
    BY DEF ListIsRight
  <2>1. conn = "synced" /\ rx = <<>> /\ lagged = FALSE /\ ~unsent
    BY <1>1, <1>2 DEF Quiet
  <2>2. Quiet(t)
    BY <1>4, <2>1 DEF Quiet
  <2>3. Shown(t)' = Shown(t) /\ Listed(t)' = Listed(t) /\ ~Foreign(t)
    BY <1>1 DEF Shown, Listed, list_user_todos, Foreign
  <2>4. {list[j].row : j \in Shown(t)} = Listed(t)
    BY <1>5, <2>2, <2>3 DEF ClientInv, ListIsRight
  <2> QED BY <1>1, <2>3, <2>4
<1> QED BY <1>6, <1>7, <1>8, <1>9, <1>10, <1>11, <1>12 DEF ClientInv

\* What the connection has not taken yet, after an event was sent: the oldest may be lost.
LEMMA Posted ==
  ASSUME ClientInv, NEW w \in Writers, Announce(w), conn = "live",
         NEW ev \in [k : {"created", "updated", "deleted"}, id : Todos, row : TodoItem \cup {None}],
         ev = [k |-> writer[w].pc, id |-> writer[w].id, row |-> writer[w].row]
  PROVE  \E d \in 0 .. 1 :
            /\ rx' \in Seq([k : {"created", "updated", "deleted"}, id : Todos, row : TodoItem \cup {None}])
            /\ Len(rx) \in Nat /\ DOMAIN rx = 1 .. Len(rx)
            /\ DOMAIN rx' = 1 .. Len(rx) + 1 - d /\ d <= Len(rx)
            /\ rx'[Len(rx) + 1 - d] = ev
            /\ \A i \in 1 .. Len(rx) - d : rx'[i] = rx[i + d]
            /\ lagged' \in BOOLEAN /\ (lagged' = FALSE => lagged = FALSE /\ d = 0)
<1> DEFINE E == [k : {"created", "updated", "deleted"}, id : Todos, row : TodoItem \cup {None}]
           n == Len(rx)
           all == Append(rx, ev)
<1>1. rx \in Seq(E) /\ lagged \in BOOLEAN /\ ev \in E
  BY DEF ClientInv, ClientTypes
<1>2. /\ rx' = IF Len(all) > Capacity THEN Tail(all) ELSE all
      /\ lagged' = (lagged \/ Len(all) > Capacity)
  BY DEF Announce
<1> HIDE DEF E
<1>3. /\ n \in Nat /\ DOMAIN rx = 1 .. n /\ all \in Seq(E) /\ Len(all) = n + 1 /\ DOMAIN all = 1 .. n + 1
      /\ all[n + 1] = ev /\ \A i \in 1 .. n : all[i] = rx[i]
  BY <1>1
<1> HIDE DEF all, n
<1>4. CASE Len(all) > Capacity
  <2>1. n >= 1
    BY <1>3, <1>4, CapacityAssumption
  <2>2. /\ Tail(all) \in Seq(E) /\ DOMAIN Tail(all) = 1 .. n
        /\ \A i \in 1 .. n : Tail(all)[i] = all[i + 1]
    BY <1>3, <2>1
  <2>3. rx' = Tail(all) /\ lagged' = TRUE
    BY <1>2, <1>4
  <2>4. \A i \in 1 .. n - 1 : rx'[i] = rx[i + 1]
    BY <1>3, <2>2, <2>3
  <2>5. rx'[n] = ev /\ n + 1 - 1 = n
    BY <1>3, <2>1, <2>2, <2>3
  <2>6. /\ rx' \in Seq(E) /\ DOMAIN rx' = 1 .. n + 1 - 1 /\ 1 <= n /\ 1 \in 0 .. 1
        /\ rx'[n + 1 - 1] = ev
    BY <1>3, <2>1, <2>2, <2>3, <2>5
  <2> QED BY <1>3, <2>3, <2>4, <2>6 DEF E, n
<1>5. CASE ~(Len(all) > Capacity)
  <2>1. rx' = all /\ lagged' = lagged
    BY <1>1, <1>2, <1>5
  <2>2. /\ rx' \in Seq(E) /\ DOMAIN rx' = 1 .. n + 1 - 0 /\ 0 <= n /\ 0 \in 0 .. 1
        /\ rx'[n + 1 - 0] = ev
    BY <1>3, <2>1
  <2>3. \A i \in 1 .. n - 0 : rx'[i] = rx[i + 0]
    BY <1>3, <2>1
  <2> QED BY <1>1, <1>3, <2>1, <2>2, <2>3 DEF E, n
<1> QED BY <1>4, <1>5

\* An announcement, of which a client that does not listen yet never hears.
LEMMA ClientAnnounces ==
  ASSUME RowsInv, RowsInv', ClientInv, NEW w \in Writers, Announce(w), NEW t, t = writer[w].id
  PROVE  ClientInv'
<1> DEFINE E == [k : {"created", "updated", "deleted"}, id : Todos, row : TodoItem \cup {None}]
           ev == [k |-> writer[w].pc, id |-> t, row |-> writer[w].row]
<1>1. /\ writer[w].pc \in {"created", "updated", "deleted"}
      /\ todos' = todos /\ used' = used /\ conn' = conn /\ list' = list /\ unheard' = unheard
      /\ unsent' = unsent
      /\ writer' = [writer EXCEPT ![w] = Idle]
      /\ overlap' = overlap \cup OverlapsOthers(w, t)
      /\ amiss' = IF conn = "synced" THEN amiss \cup {t} ELSE amiss
      /\ conn # "live" => rx' = rx /\ lagged' = lagged
  BY DEF Announce
<1>2. /\ writer'[w].id = None /\ writer'[w].pc = "idle" /\ writer'[w].row = None
      /\ \A v \in Writers \ {w} : writer'[v] = writer[v]
  BY <1>1, RowsIdle DEF Idle
<1>3. /\ t \in Todos /\ t \in Ids
      /\ writer[w].pc = "deleted" <=> writer[w].row = None
      /\ writer[w].row \in TodoItem \cup {None}
  BY <1>1, Apart DEF RowsInv, WriterFits
<1>4. ev \in E
  BY <1>1, <1>3
<1>5. /\ ev.k = writer[w].pc /\ ev.id = t /\ ev.row = writer[w].row
      /\ ev = [k |-> writer[w].pc, id |-> writer[w].id, row |-> writer[w].row]
  OBVIOUS
<1> HIDE DEF ev
<1>6. /\ amiss \subseteq amiss' /\ amiss' \subseteq Todos /\ unheard' \subseteq Todos
      /\ overlap \subseteq overlap'
      /\ conn = "synced" => t \in amiss'
  BY <1>1, <1>3 DEF ClientInv, ClientTypes
<1>7. \A u \in Todos : Good(u)' => Good(u) /\ u \notin amiss' /\ u \notin overlap'
  BY <1>1, <1>6 DEF Good
<1>8. ASSUME NEW u \in Todos, NEW v \in Writers
      PROVE  /\ (Acting(v, u)' => v # w /\ Acting(v, u) /\ writer'[v] = writer[v])
             /\ (Creating(v, u)' => v # w /\ Creating(v, u))
             /\ (u # t /\ Acting(v, u) => Acting(v, u)')
  BY <1>2, <1>3, Apart DEF Acting, Creating
<1>9. Acting(w, t) /\ (ev.k = "created" => Creating(w, t))
  BY <1>1, <1>5 DEF Acting, Creating
<1>w. \A u \in Todos : Good(u)' /\ u = t => \A v \in Writers : ~Acting(v, u)'
  BY <1>1, <1>7, <1>8 DEF OverlapsOthers, Acting
<1>r. \E d \in 0 .. 1, m \in {0, 1} :
        /\ rx' \in Seq(E)
        /\ Len(rx) \in Nat /\ DOMAIN rx = 1 .. Len(rx)
        /\ DOMAIN rx' = 1 .. Len(rx) + m - d /\ d <= Len(rx)
        /\ m = 1 => rx'[Len(rx) + 1 - d] = ev
        /\ \A i \in 1 .. Len(rx) - d : rx'[i] = rx[i + d]
        /\ lagged' \in BOOLEAN /\ (lagged' = FALSE => lagged = FALSE /\ d = 0)
        /\ (m = 1 <=> conn = "live")
        /\ conn # "live" => rx' = <<>> /\ lagged' = FALSE
  <2>1. CASE conn = "live"
    <3>1. PICK d \in 0 .. 1 :
             /\ rx' \in Seq(E)
             /\ Len(rx) \in Nat /\ DOMAIN rx = 1 .. Len(rx)
             /\ DOMAIN rx' = 1 .. Len(rx) + 1 - d /\ d <= Len(rx)
             /\ rx'[Len(rx) + 1 - d] = ev
             /\ \A i \in 1 .. Len(rx) - d : rx'[i] = rx[i + d]
             /\ lagged' \in BOOLEAN /\ (lagged' = FALSE => lagged = FALSE /\ d = 0)
      BY <1>4, <1>5, <2>1, Posted
    <3> HIDE DEF E
    <3> QED BY <2>1, <3>1
  <2>2. CASE conn # "live"
    <3>1. rx' = rx /\ rx = <<>> /\ lagged' = FALSE /\ lagged = FALSE /\ rx \in Seq(E)
      BY <1>1, <2>2 DEF ClientInv, ClientTypes
    <3>2. Len(rx) = 0 /\ DOMAIN rx = 1 .. 0
      BY <3>1
    <3> HIDE DEF E
    <3>3. /\ rx' \in Seq(E) /\ Len(rx) \in Nat /\ DOMAIN rx = 1 .. Len(rx)
          /\ DOMAIN rx' = 1 .. Len(rx) + 0 - 0 /\ 0 <= Len(rx)
      BY <3>1, <3>2
    <3>4. \A i \in 1 .. Len(rx) - 0 : rx'[i] = rx[i + 0]
      BY <3>1, <3>2
    <3>5. 0 \in 0 .. 1 /\ 0 \in {0, 1} /\ 0 # 1
      OBVIOUS
    <3> QED BY <2>2, <3>1, <3>3, <3>4, <3>5
  <2> QED BY <2>1, <2>2
<1>10. PICK d \in 0 .. 1, m \in {0, 1} :
        /\ rx' \in Seq(E)
        /\ Len(rx) \in Nat /\ DOMAIN rx = 1 .. Len(rx)
        /\ DOMAIN rx' = 1 .. Len(rx) + m - d /\ d <= Len(rx)
        /\ m = 1 => rx'[Len(rx) + 1 - d] = ev
        /\ \A i \in 1 .. Len(rx) - d : rx'[i] = rx[i + d]
        /\ lagged' \in BOOLEAN /\ (lagged' = FALSE => lagged = FALSE /\ d = 0)
        /\ (m = 1 <=> conn = "live")
        /\ conn # "live" => rx' = <<>> /\ lagged' = FALSE
  BY <1>r
<1>11. \A j \in DOMAIN rx' : \/ j \in 1 .. Len(rx) - d /\ j + d \in DOMAIN rx /\ rx'[j] = rx[j + d]
                             \/ m = 1 /\ j = Len(rx) + 1 - d /\ rx'[j] = ev
  <2> SUFFICES ASSUME NEW j \in DOMAIN rx'
               PROVE  \/ j \in 1 .. Len(rx) - d /\ j + d \in DOMAIN rx /\ rx'[j] = rx[j + d]
                      \/ m = 1 /\ j = Len(rx) + 1 - d /\ rx'[j] = ev
    OBVIOUS
  <2>1. CASE j <= Len(rx) - d
    <3>1. j \in 1 .. Len(rx) - d /\ j + d \in 1 .. Len(rx)
      BY <1>10, <2>1
    <3> QED BY <1>10, <3>1
  <2>2. CASE ~(j <= Len(rx) - d)
    <3>1. m = 1 /\ j = Len(rx) + 1 - d
      BY <1>10, <2>2
    <3> QED BY <1>10, <3>1
  <2> QED BY <2>1, <2>2
<1>12. ClientTypes'
  <2>1. \A i \in DOMAIN rx' : rx'[i].k = "deleted" <=> rx'[i].row = None
    BY <1>3, <1>5, <1>11 DEF ClientInv, ClientTypes
  <2> QED BY <1>1, <1>6, <1>10, <2>1 DEF ClientInv, ClientTypes
<1> HIDE DEF E
<1>13. FreshIsUnseen' /\ InternalNeverShown'
  <2>1. ASSUME NEW u \in Todos \ used, NEW j \in DOMAIN rx', rx'[j].id = u PROVE rx'[j].k = "deleted"
    <3>1. CASE rx'[j] = ev
      <4>1. u = t /\ t \in Ids \ used
        BY <1>3, <1>5, <2>1, <3>1
      <4>2. writer[w].pc = "deleted"
        BY <1>1, <4>1 DEF RowsInv, FreshIsNew
      <4> QED BY <1>5, <3>1, <4>2
    <3>2. CASE j + d \in DOMAIN rx /\ rx'[j] = rx[j + d]
      BY <2>1, <3>2 DEF ClientInv, FreshIsUnseen
    <3> QED BY <1>11, <3>1, <3>2
  <2>2. \A u \in Todos \ used : \A i \in DOMAIN list : list[i].id # u
    BY DEF ClientInv, FreshIsUnseen
  <2> QED BY <1>1, <2>1, <2>2 DEF ClientInv, FreshIsUnseen, InternalNeverShown
<1>14. InternalIsKept'
  <2> SUFFICES ASSUME NEW u \in Todos, todos[u] # None
               PROVE  /\ \A j \in DOMAIN list : list[j].id = u => list[j].row.internal = todos[u].internal
                      /\ \A j \in DOMAIN rx' : rx'[j].id = u /\ rx'[j].row # None =>
                            rx'[j].row.internal = todos[u].internal
                      /\ \A v \in Writers : writer'[v].id = u /\ writer'[v].row # None =>
                            writer'[v].row.internal = todos[u].internal
    BY <1>1 DEF InternalIsKept
  <2>1. /\ \A j \in DOMAIN list : list[j].id = u => list[j].row.internal = todos[u].internal
        /\ \A j \in DOMAIN rx : rx[j].id = u /\ rx[j].row # None =>
              rx[j].row.internal = todos[u].internal
        /\ \A v \in Writers : writer[v].id = u /\ writer[v].row # None =>
              writer[v].row.internal = todos[u].internal
    BY DEF ClientInv, InternalIsKept
  <2>2. \A v \in Writers : writer'[v].id = u /\ writer'[v].row # None =>
            writer'[v].row.internal = todos[u].internal
    BY <1>2, <2>1
  <2>3. ev.id = u /\ ev.row # None => ev.row.internal = todos[u].internal
    BY <1>5, <2>1
  <2>4. \A j \in DOMAIN rx' : rx'[j].id = u /\ rx'[j].row # None =>
            rx'[j].row.internal = todos[u].internal
    BY <1>11, <2>1, <2>3
  <2> QED BY <2>1, <2>2, <2>4
<1>15. ASSUME NEW u \in Todos, NEW j \in DOMAIN rx', NewsAt(j, u)'
       PROVE  \/ j + d \in DOMAIN rx /\ NewsAt(j + d, u)
              \/ u = t /\ Creating(w, t) /\ j = Len(rx) + 1 - d
  BY <1>5, <1>9, <1>11, <1>15 DEF NewsAt
<1>16. CreatedOnce'
  <2>1. \A u, v \in Writers : \A x \in Todos : Creating(u, x)' /\ Creating(v, x)' => u = v
    BY <1>8 DEF ClientInv, CreatedOnce
  <2>2. ASSUME NEW v \in Writers, NEW j \in DOMAIN rx', NEW u \in Todos, Creating(v, u)', NewsAt(j, u)'
        PROVE  FALSE
    <3>1. v # w /\ Creating(v, u)
      BY <1>8, <2>2
    <3>2. CASE j + d \in DOMAIN rx /\ NewsAt(j + d, u)
      BY <3>1, <3>2 DEF ClientInv, CreatedOnce
    <3>3. CASE u = t /\ Creating(w, t)
      BY <3>1, <3>3 DEF ClientInv, CreatedOnce
    <3> QED BY <1>15, <2>2, <3>2, <3>3
  <2>3. ASSUME NEW j \in DOMAIN rx', NEW k \in DOMAIN rx', NEW u \in Todos, NewsAt(j, u)', NewsAt(k, u)'
        PROVE  j = k
    <3>1. CASE j + d \in DOMAIN rx /\ NewsAt(j + d, u) /\ k + d \in DOMAIN rx /\ NewsAt(k + d, u)
      <4>1. j + d = k + d
        BY <3>1 DEF ClientInv, CreatedOnce
      <4> QED BY <1>10, <4>1
    <3>2. CASE u = t /\ Creating(w, t)
      <4>1. \A i \in DOMAIN rx : ~NewsAt(i, u)
        BY <3>2 DEF ClientInv, CreatedOnce
      <4> QED BY <1>15, <2>3, <4>1
    <3> QED BY <1>15, <2>3, <3>1, <3>2
  <2> QED BY <2>1, <2>2, <2>3 DEF CreatedOnce
<1>17. ListedOnce'
  <2>1. ASSUME NEW u \in Todos, Good(u)'
        PROVE  \A j, k \in DOMAIN list : list[j].id = u /\ list[k].id = u => j = k
    BY <1>7, <2>1 DEF ClientInv, ListedOnce
  <2>2. ASSUME NEW u \in Todos, Good(u)', NEW v \in Writers, Creating(v, u)'
        PROVE  \A j \in DOMAIN list : list[j].id # u
    BY <1>7, <1>8, <2>2 DEF ClientInv, ListedOnce
  <2>3. ASSUME NEW u \in Todos, Good(u)', NEW k \in DOMAIN rx', NewsAt(k, u)'
        PROVE  \A j \in DOMAIN list : list[j].id # u
    BY <1>7, <1>15, <2>3 DEF ClientInv, ListedOnce
  <2> QED BY <1>1, <2>1, <2>2, <2>3 DEF ListedOnce
<1>18. NewsFit'
  <2>1. ASSUME NEW u \in Todos, Good(u)', NEW v \in Writers, Acting(v, u)'
        PROVE  Fits(u, writer[v].pc, writer[v].row)'
    <3>1. Fits(u, writer[v].pc, writer[v].row) /\ writer'[v] = writer[v]
      BY <1>7, <1>8, <2>1 DEF ClientInv, NewsFit
    <3> QED BY <1>1, <3>1 DEF Fits, Off
  <2>2. ASSUME NEW u \in Todos, Good(u)', NEW k \in DOMAIN rx', rx'[k].id = u,
               \A j \in DOMAIN rx' : j > k => rx'[j].id # u, \A v \in Writers : ~Acting(v, u)'
        PROVE  Fits(u, rx[k].k, rx[k].row)'
    <3>1. CASE rx'[k] = ev
      <4>1. u = t
        BY <1>5, <2>2, <3>1
      <4>2. Fits(u, ev.k, ev.row)
        BY <1>5, <1>7, <1>9, <2>2, <4>1 DEF ClientInv, NewsFit
      <4> QED BY <1>1, <3>1, <4>2 DEF Fits, Off
    <3>2. CASE k \in 1 .. Len(rx) - d /\ k + d \in DOMAIN rx /\ rx'[k] = rx[k + d]
      <4>1. u # t
        <5>1. ASSUME u = t PROVE m = 0
          <6>1. CASE m = 1
            <7>1. Len(rx) + 1 - d \in DOMAIN rx' /\ Len(rx) + 1 - d > k
              BY <1>10, <3>2, <6>1
            <7>2. rx'[Len(rx) + 1 - d].id = t
              BY <1>5, <1>10, <6>1
            <7> QED BY <2>2, <5>1, <7>1, <7>2
          <6> QED BY <6>1
        <5>2. m = 1
          <6>1. CASE conn # "live"
            <7>1. DOMAIN rx' = {}
              BY <1>10, <6>1
            <7> QED BY <2>2, <7>1
          <6> QED BY <1>10, <6>1
        <5> QED BY <5>1, <5>2
      <4>2. \A v \in Writers : ~Acting(v, u)
        BY <1>8, <2>2, <4>1
      <4>3. ASSUME NEW j \in DOMAIN rx, j > k + d PROVE rx[j].id # u
        <5>1. j - d \in 1 .. Len(rx) - d /\ j - d \in DOMAIN rx' /\ j - d > k /\ (j - d) + d = j
          BY <1>10, <3>2, <4>3
        <5>2. rx'[j - d] = rx[j]
          BY <1>10, <5>1
        <5> QED BY <2>2, <5>1, <5>2
      <4>4. Fits(u, rx[k + d].k, rx[k + d].row)
        BY <1>7, <2>2, <3>2, <4>2, <4>3 DEF ClientInv, NewsFit
      <4> QED BY <1>1, <3>2, <4>4 DEF Fits, Off
    <3> QED BY <1>11, <3>1, <3>2
  <2> QED BY <2>1, <2>2 DEF NewsFit
<1>19. ListIsRight'
  <2> SUFFICES ASSUME NEW u \in Todos, Good(u)', Quiet(u)', ~Foreign(u)'
               PROVE  {list'[j].row : j \in Shown(u)'} = Listed(u)'
    BY DEF ListIsRight
  <2>1. u # t
    <3>1. CASE conn = "live"
      <4>1. Len(rx) + 1 - d \in DOMAIN rx' /\ rx'[Len(rx) + 1 - d].id = t
        BY <1>5, <1>10, <3>1
      <4> QED BY <4>1 DEF Quiet
    <3>2. CASE conn = "synced"
      BY <1>6, <1>7, <3>2
    <3> QED BY <1>1, <3>1, <3>2 DEF Quiet, ClientInv, ClientTypes
  <2>2. lagged = FALSE /\ d = 0 /\ conn # "off"
    BY <1>1, <1>10 DEF Quiet
  <2>3. \A i \in DOMAIN rx : rx[i].id # u
    <3>1. ASSUME NEW i \in DOMAIN rx PROVE i \in DOMAIN rx' /\ rx'[i] = rx[i]
      <4>1. i \in 1 .. Len(rx) - d /\ i + d = i /\ i \in DOMAIN rx'
        BY <1>10, <2>2
      <4> QED BY <1>10, <4>1
    <3> QED BY <3>1 DEF Quiet
  <2>4. Quiet(u)
    BY <1>1, <1>8, <2>1, <2>2, <2>3 DEF Quiet
  <2>5. Shown(u)' = Shown(u) /\ Listed(u)' = Listed(u) /\ ~Foreign(u)
    BY <1>1 DEF Shown, Listed, list_user_todos, Foreign
  <2>6. {list[j].row : j \in Shown(u)} = Listed(u)
    BY <1>7, <2>4, <2>5 DEF ClientInv, ListIsRight
  <2> QED BY <1>1, <2>5, <2>6
<1> QED BY <1>12, <1>13, <1>14, <1>16, <1>17, <1>18, <1>19 DEF ClientInv

\* What the client makes of an announcement: only the entry of its todo changes.
LEMMA ListAfter ==
  ASSUME ClientInv, Forward, NEW ev, ev = Head(rx)
  PROVE  /\ rx \in Seq([k : {"created", "updated", "deleted"}, id : Todos, row : TodoItem \cup {None}])
         /\ rx' \in Seq([k : {"created", "updated", "deleted"}, id : Todos, row : TodoItem \cup {None}])
         /\ Len(rx) \in Nat \ {0} /\ DOMAIN rx = 1 .. Len(rx) /\ DOMAIN rx' = 1 .. Len(rx) - 1
         /\ rx[1] = ev /\ \A i \in 1 .. Len(rx) - 1 : rx'[i] = rx[i + 1]
         /\ ev.id \in Todos /\ ev.k \in {"created", "updated", "deleted"}
         /\ ev.k # "deleted" => ev.row \in TodoItem
<1> DEFINE E == [k : {"created", "updated", "deleted"}, id : Todos, row : TodoItem \cup {None}]
<1>1. rx \in Seq(E) /\ rx # <<>> /\ rx' = Tail(rx) /\ ev = Head(rx)
  BY DEF ClientInv, ClientTypes, Forward
<1>2. \A e \in E : e.id \in Todos /\ e.k \in {"created", "updated", "deleted"} /\ e.row \in TodoItem \cup {None}
  OBVIOUS
<1> HIDE DEF E
<1>3. /\ Len(rx) \in Nat \ {0} /\ DOMAIN rx = 1 .. Len(rx) /\ rx' \in Seq(E)
      /\ DOMAIN rx' = 1 .. Len(rx) - 1 /\ rx[1] = ev /\ \A i \in 1 .. Len(rx) - 1 : rx'[i] = rx[i + 1]
  BY <1>1
<1>4. ev \in E /\ 1 \in DOMAIN rx
  BY <1>1, <1>3
<1>5. ev.k = "deleted" <=> ev.row = None
  BY <1>3, <1>4 DEF ClientInv, ClientTypes
<1>6. ev.id \in Todos /\ ev.k \in {"created", "updated", "deleted"} /\ (ev.k # "deleted" => ev.row \in TodoItem)
  BY <1>2, <1>4, <1>5
<1> QED BY <1>1, <1>3, <1>6 DEF E

\* An announcement that the client does not hear, or does not know what to do with.
LEMMA ListStays ==
  ASSUME ClientInv, NEW ev, list' = list
  PROVE  /\ list' \in Seq([id : Todos, row : TodoItem])
         /\ \A i \in DOMAIN list' : \E j \in DOMAIN list : list'[i] = list[j]
         /\ \A u \in Todos : {list'[i].row : i \in Shown(u)'} = {list[i].row : i \in Shown(u)}
         /\ \A u \in Todos : (\A i, j \in DOMAIN list : list[i].id = u /\ list[j].id = u => i = j) =>
               \A i, j \in DOMAIN list' : list'[i].id = u /\ list'[j].id = u => i = j
  BY DEF ClientInv, ClientTypes, Shown

\* A todo that is new to the client.
LEMMA ListGrows ==
  ASSUME ClientInv, NEW t \in Todos, NEW row \in TodoItem, list' = Append(list, [id |-> t, row |-> row])
  PROVE  /\ list' \in Seq([id : Todos, row : TodoItem])
         /\ \A i \in DOMAIN list' : (\E j \in DOMAIN list : list'[i] = list[j])
                                    \/ list'[i] = [id |-> t, row |-> row]
         /\ \A u \in Todos \ {t} : {list'[i].row : i \in Shown(u)'} = {list[i].row : i \in Shown(u)}
         /\ \A u \in Todos \ {t} : (\A i, j \in DOMAIN list : list[i].id = u /\ list[j].id = u => i = j) =>
               \A i, j \in DOMAIN list' : list'[i].id = u /\ list'[j].id = u => i = j
         /\ (\A i \in DOMAIN list : list[i].id # t) =>
               \A i, j \in DOMAIN list' : list'[i].id = t /\ list'[j].id = t => i = j
         /\ (\A i \in DOMAIN list : list[i].id # t) =>
               {list'[i].row : i \in Shown(t)'} = IF row.status = "Completed" THEN {} ELSE {row}
<1> DEFINE R == [id : Todos, row : TodoItem]
           e == [id |-> t, row |-> row]
           n == Len(list)
<1>1. list \in Seq(R) /\ e \in R /\ e.id = t /\ e.row = row
  BY DEF ClientInv, ClientTypes
<1> HIDE DEF R, e
<1>2. list' = Append(list, e)
  BY DEF e
<1>3. /\ n \in Nat /\ DOMAIN list = 1 .. n /\ list' \in Seq(R) /\ DOMAIN list' = 1 .. n + 1
      /\ list'[n + 1] = e /\ \A i \in 1 .. n : list'[i] = list[i]
  BY <1>1, <1>2
<1> HIDE DEF n
<1>4. \A i \in DOMAIN list' : \/ i \in DOMAIN list /\ list'[i] = list[i]
                              \/ i = n + 1 /\ i \notin DOMAIN list /\ list'[i] = e
  BY <1>3
<1>5. DOMAIN list \subseteq DOMAIN list' /\ n + 1 \in DOMAIN list'
  BY <1>3
<1>6. \A i \in DOMAIN list' : (\E j \in DOMAIN list : list'[i] = list[j]) \/ list'[i] = e
  BY <1>4
<1>7. ASSUME NEW u \in Todos, u # t
      PROVE  {list'[i].row : i \in Shown(u)'} = {list[i].row : i \in Shown(u)}
  <2>1. Shown(u)' = Shown(u)
    BY <1>1, <1>4, <1>5, <1>7, <1>3 DEF Shown
  <2>2. \A i \in Shown(u) : list'[i] = list[i]
    BY <1>3 DEF Shown
  <2> QED BY <2>1, <2>2
<1>8. \A u \in Todos \ {t} : (\A i, j \in DOMAIN list : list[i].id = u /\ list[j].id = u => i = j) =>
          \A i, j \in DOMAIN list' : list'[i].id = u /\ list'[j].id = u => i = j
  BY <1>1, <1>4
<1>9. ASSUME \A i \in DOMAIN list : list[i].id # t
      PROVE  /\ \A i, j \in DOMAIN list' : list'[i].id = t /\ list'[j].id = t => i = j
             /\ {list'[i].row : i \in Shown(t)'} = IF row.status = "Completed" THEN {} ELSE {row}
  <2>1. \A i \in DOMAIN list' : list'[i].id = t <=> i = n + 1
    BY <1>1, <1>3, <1>4, <1>9
  <2>2. Shown(t)' = IF row.status = "Completed" THEN {} ELSE {n + 1}
    BY <1>1, <1>3, <1>5, <2>1 DEF Shown
  <2>3. list'[n + 1].row = row
    BY <1>1, <1>3
  <2> QED BY <2>1, <2>2, <2>3
<1> QED BY <1>3, <1>6, <1>7, <1>8, <1>9 DEF R, e

\* A todo whose entry is replaced.
LEMMA ListReplaces ==
  ASSUME ClientInv, NEW t \in Todos, NEW row \in TodoItem, NEW k \in DOMAIN list, list[k].id = t,
         list' = [list EXCEPT ![k] = [id |-> t, row |-> row]]
  PROVE  /\ list' \in Seq([id : Todos, row : TodoItem])
         /\ \A i \in DOMAIN list' : (\E j \in DOMAIN list : list'[i] = list[j])
                                    \/ list'[i] = [id |-> t, row |-> row]
         /\ \A u \in Todos \ {t} : {list'[i].row : i \in Shown(u)'} = {list[i].row : i \in Shown(u)}
         /\ \A u \in Todos : (\A i, j \in DOMAIN list : list[i].id = u /\ list[j].id = u => i = j) =>
               \A i, j \in DOMAIN list' : list'[i].id = u /\ list'[j].id = u => i = j
         /\ (\A i, j \in DOMAIN list : list[i].id = t /\ list[j].id = t => i = j) =>
               {list'[i].row : i \in Shown(t)'} = IF row.status = "Completed" THEN {} ELSE {row}
<1> DEFINE R == [id : Todos, row : TodoItem]
           e == [id |-> t, row |-> row]
<1>1. list \in Seq(R) /\ e \in R /\ e.id = t /\ e.row = row
  BY DEF ClientInv, ClientTypes
<1> HIDE DEF R, e
<1>2. list' = [list EXCEPT ![k] = e]
  BY DEF e
<1>3. /\ DOMAIN list' = DOMAIN list /\ list'[k] = e /\ list' \in Seq(R)
      /\ \A i \in DOMAIN list \ {k} : list'[i] = list[i]
  BY <1>1, <1>2
<1>4. \A i \in DOMAIN list : list'[i].id = list[i].id
  BY <1>1, <1>3
<1>5. \A i \in DOMAIN list' : (\E j \in DOMAIN list : list'[i] = list[j]) \/ list'[i] = e
  BY <1>3
<1>6. ASSUME NEW u \in Todos, u # t
      PROVE  {list'[i].row : i \in Shown(u)'} = {list[i].row : i \in Shown(u)}
  <2>1. \A i \in DOMAIN list : list[i].id = u => list'[i] = list[i]
    BY <1>3, <1>6
  <2>2. Shown(u)' = Shown(u)
    BY <1>3, <1>4, <2>1 DEF Shown
  <2>3. \A i \in Shown(u) : list'[i] = list[i]
    BY <2>1 DEF Shown
  <2> QED BY <2>2, <2>3
<1>7. \A u \in Todos : (\A i, j \in DOMAIN list : list[i].id = u /\ list[j].id = u => i = j) =>
          \A i, j \in DOMAIN list' : list'[i].id = u /\ list'[j].id = u => i = j
  BY <1>3, <1>4
<1>8. ASSUME \A i, j \in DOMAIN list : list[i].id = t /\ list[j].id = t => i = j
      PROVE  {list'[i].row : i \in Shown(t)'} = IF row.status = "Completed" THEN {} ELSE {row}
  <2>1. \A i \in DOMAIN list' : list'[i].id = t <=> i = k
    BY <1>3, <1>4, <1>8
  <2>2. Shown(t)' = IF row.status = "Completed" THEN {} ELSE {k}
    BY <1>1, <1>3, <2>1 DEF Shown
  <2>3. list'[k].row = row
    BY <1>1, <1>3
  <2> QED BY <2>2, <2>3
<1> QED BY <1>3, <1>5, <1>6, <1>7, <1>8 DEF R, e

\* A todo that is taken off the list.
LEMMA ListShrinks ==
  ASSUME ClientInv, NEW t \in Todos, list' = Sift(list, [id : Todos \ {t}, row : TodoItem])
  PROVE  /\ list' \in Seq([id : Todos, row : TodoItem])
         /\ \A i \in DOMAIN list' : (\E j \in DOMAIN list : list'[i] = list[j]) /\ list'[i].id # t
         /\ \A u \in Todos \ {t} : {list'[i].row : i \in Shown(u)'} = {list[i].row : i \in Shown(u)}
         /\ \A u \in Todos : (\A i, j \in DOMAIN list : list[i].id = u /\ list[j].id = u => i = j) =>
               \A i, j \in DOMAIN list' : list'[i].id = u /\ list'[j].id = u => i = j
<1> DEFINE R == [id : Todos, row : TodoItem]
           T == [id : Todos \ {t}, row : TodoItem]
<1>1. list \in Seq(R) /\ list' = Sift(list, T)
  BY DEF ClientInv, ClientTypes
<1>2. R \cap T \subseteq R /\ \A e \in R : e \in T <=> e.id # t
  OBVIOUS
<1> HIDE DEF R, T
<1>3. list' \in Seq(R \cap T)
  BY <1>1, SiftType
<1>4. list' \in Seq(R) /\ \A i \in DOMAIN list' : list'[i] \in T /\ list'[i] \in R
  <2> DEFINE Both == R \cap T
  <2>1. Both \subseteq R /\ Both \subseteq T
    OBVIOUS
  <2>2. list' \in Seq(Both)
    BY <1>3
  <2> HIDE DEF Both
  <2>3. list' \in Seq(R)
    BY <2>1, <2>2
  <2>4. \A i \in DOMAIN list' : list'[i] \in Both
    BY <2>2
  <2> QED BY <2>1, <2>3, <2>4
<1>5. {list'[i] : i \in DOMAIN list'} = {list[j] : j \in DOMAIN list} \cap T
  BY <1>1, SiftMembers
<1>6. \A i \in DOMAIN list' : (\E j \in DOMAIN list : list'[i] = list[j]) /\ list'[i].id # t
  BY <1>2, <1>4, <1>5
<1>7. ASSUME NEW u \in Todos \ {t}
      PROVE  {list'[i].row : i \in Shown(u)'} = {list[i].row : i \in Shown(u)}
  <2>1. \A j \in DOMAIN list : list[j].id = u => \E i \in DOMAIN list' : list'[i] = list[j]
    <3>1. ASSUME NEW j \in DOMAIN list, list[j].id = u PROVE \E i \in DOMAIN list' : list'[i] = list[j]
      <4>1. list[j] \in T
        BY <1>1, <1>2, <3>1
      <4>2. list[j] \in {list'[i] : i \in DOMAIN list'}
        BY <1>5, <4>1
      <4> QED BY <4>2
    <3> QED BY <3>1
  <2>2. ASSUME NEW x, x \in {list'[i].row : i \in Shown(u)'}
        PROVE  x \in {list[i].row : i \in Shown(u)}
    <3>1. PICK i \in DOMAIN list' :
             list'[i].id = u /\ list'[i].row.status # "Completed" /\ list'[i].row = x
      BY <2>2 DEF Shown
    <3>2. PICK j \in DOMAIN list : list'[i] = list[j]
      BY <1>6
    <3> QED BY <3>1, <3>2 DEF Shown
  <2>3. ASSUME NEW x, x \in {list[i].row : i \in Shown(u)}
        PROVE  x \in {list'[i].row : i \in Shown(u)'}
    <3>1. PICK j \in DOMAIN list :
             list[j].id = u /\ list[j].row.status # "Completed" /\ list[j].row = x
      BY <2>3 DEF Shown
    <3>2. PICK i \in DOMAIN list' : list'[i] = list[j]
      BY <2>1, <3>1
    <3> QED BY <3>1, <3>2 DEF Shown
  <2> QED BY <2>2, <2>3
<1>8. ASSUME NEW u \in Todos, \A i, j \in DOMAIN list : list[i].id = u /\ list[j].id = u => i = j
      PROVE  \A i, j \in DOMAIN list' : list'[i].id = u /\ list'[j].id = u => i = j
  <2> DEFINE U == {e \in R : e.id = u}
  <2>1. \A i, j \in DOMAIN list : list[i] \in U /\ list[j] \in U => i = j
    BY <1>8
  <2> HIDE DEF U
  <2>2. \A i, j \in DOMAIN list' : list'[i] \in U /\ list'[j] \in U => i = j
    BY <1>1, <2>1, SiftOnce
  <2> QED BY <1>4, <2>2 DEF U
<1> QED BY <1>4, <1>6, <1>7, <1>8 DEF R

\* An announcement that the client hears.
LEMMA ClientForward ==
  ASSUME RowsInv, RowsInv', ClientInv, Forward, NEW ev, ev = Head(rx), NEW t, t = ev.id
  PROVE  ClientInv'
<1> DEFINE E == [k : {"created", "updated", "deleted"}, id : Todos, row : TodoItem \cup {None}]
           R == [id : Todos, row : TodoItem]
           e == [id |-> t, row |-> ev.row]
           Same(u) == {list'[i].row : i \in Shown(u)'} = {list[i].row : i \in Shown(u)}
           Once(u) == \A i, j \in DOMAIN list : list[i].id = u /\ list[j].id = u => i = j
           Unlisted(u) == \A i \in DOMAIN list : list[i].id # u
<1>1. /\ conn = "live" /\ conn' = "live" /\ lagged = FALSE /\ lagged' = FALSE
      /\ todos' = todos /\ writer' = writer /\ used' = used /\ overlap' = overlap /\ unheard' = unheard
      /\ list' = IF Skipped(ev) THEN list ELSE applyMessage(ev)
      /\ amiss' = IF ev.k = "updated" /\ Unlisted(t) THEN amiss \cup {t} ELSE amiss
      /\ unsent' = unsent
  BY DEF Forward, Free, ClientInv, ClientTypes
<1>2. /\ rx \in Seq(E) /\ rx' \in Seq(E) /\ Len(rx) \in Nat \ {0} /\ DOMAIN rx = 1 .. Len(rx)
      /\ DOMAIN rx' = 1 .. Len(rx) - 1 /\ rx[1] = ev /\ \A i \in 1 .. Len(rx) - 1 : rx'[i] = rx[i + 1]
      /\ t \in Todos /\ ev.k \in {"created", "updated", "deleted"}
      /\ ev.k # "deleted" => ev.row \in TodoItem
  BY ListAfter
<1> HIDE DEF E
<1>3. /\ \A i \in DOMAIN rx' : i + 1 \in DOMAIN rx /\ rx'[i] = rx[i + 1]
      /\ 1 \in DOMAIN rx
  BY <1>2
<1>4. \A u \in Todos, w \in Writers : Acting(w, u)' = Acting(w, u) /\ Creating(w, u)' = Creating(w, u)
  BY <1>1 DEF Acting, Creating
<1>5. \A u \in Todos, i \in DOMAIN rx' : NewsAt(i, u)' => NewsAt(i + 1, u)
  BY <1>3 DEF NewsAt
<1>6. \A u \in Todos : Good(u)' => Good(u) /\ u \notin amiss'
  BY <1>1 DEF Good
<1>7. Good(t)' => ~(ev.k = "updated" /\ Unlisted(t)) /\ Once(t)
  BY <1>1, <1>2, <1>6 DEF ClientInv, ListedOnce
<1>8. Good(t)' /\ ev.k = "created" => Unlisted(t)
  BY <1>2, <1>3, <1>6 DEF ClientInv, ListedOnce, NewsAt
<1>9. /\ list' \in Seq(R)
      /\ \A i \in DOMAIN list' : \/ \E j \in DOMAIN list : list'[i] = list[j]
                                 \/ list'[i] = e /\ ev.k # "deleted" /\ ~ev.row.internal
      /\ \A u \in Todos \ {t} : Same(u)
      /\ \A u \in Todos \ {t} : Once(u) => Once(u)'
      /\ Good(t)' => Once(t)'
      /\ Good(t)' =>
            {list'[i].row : i \in Shown(t)'} =
               IF Skipped(ev) THEN {list[i].row : i \in Shown(t)}
               ELSE IF ev.k = "deleted" \/ ev.row.status = "Completed" THEN {} ELSE {ev.row}
  <2>1. CASE Skipped(ev)
    <3>1. list' = list
      BY <1>1, <2>1
    <3>2. /\ list' \in Seq(R)
          /\ \A i \in DOMAIN list' : \E j \in DOMAIN list : list'[i] = list[j]
          /\ \A u \in Todos : Same(u) /\ (Once(u) => Once(u)')
      BY <3>1, ListStays
    <3> HIDE DEF R, Once, Unlisted, e
    <3> QED BY <1>2, <1>7, <2>1, <3>2
  <2>2. CASE ~Skipped(ev) /\ ev.k = "created"
    <3>1. list' = Append(list, [id |-> t, row |-> ev.row]) /\ ~ev.row.internal /\ ev.row \in TodoItem
      BY <1>1, <1>2, <2>2 DEF applyMessage, Skipped
    <3>5. t \in Todos /\ ev.row \in TodoItem /\ list' = Append(list, [id |-> t, row |-> ev.row])
      BY <1>2, <3>1
    <3> HIDE DEF R
    <3>2. /\ list' \in Seq(R)
          /\ \A i \in DOMAIN list' : (\E j \in DOMAIN list : list'[i] = list[j]) \/ list'[i] = e
          /\ \A u \in Todos \ {t} : Same(u)
          /\ \A u \in Todos \ {t} : Once(u) => Once(u)'
          /\ Unlisted(t) => Once(t)'
      <4>1. list' \in Seq([id : Todos, row : TodoItem])
        BY <3>5, ListGrows
      <4>5. \A i \in DOMAIN list' :
               (\E j \in DOMAIN list : list'[i] = list[j]) \/ list'[i] = [id |-> t, row |-> ev.row]
        BY <3>5, ListGrows
      <4>6. \A i \in DOMAIN list' : (\E j \in DOMAIN list : list'[i] = list[j]) \/ list'[i] = e
        BY <4>5
      <4>2. \A u \in Todos \ {t} : Same(u)
        BY <3>5, ListGrows
      <4>4. \A u \in Todos \ {t} : Once(u) => Once(u)'
        BY <3>5, ListGrows
      <4>7. (\A i \in DOMAIN list : list[i].id # t) =>
               \A i, j \in DOMAIN list' : list'[i].id = t /\ list'[j].id = t => i = j
        BY <3>5, ListGrows
      <4>3. Unlisted(t) => Once(t)'
        BY <4>7
      <4> HIDE DEF Same, Once, Unlisted, e
      <4> QED BY <4>1, <4>2, <4>3, <4>4, <4>6 DEF R
    <3>4. (\A i \in DOMAIN list : list[i].id # t) =>
             {list'[i].row : i \in Shown(t)'} = IF ev.row.status = "Completed" THEN {} ELSE {ev.row}
      BY <3>5, ListGrows
    <3>3. Unlisted(t) => {list'[i].row : i \in Shown(t)'} = IF ev.row.status = "Completed" THEN {} ELSE {ev.row}
      BY <3>4
    <3> HIDE DEF Same, Once, Unlisted, e
    <3> QED BY <1>8, <2>2, <3>1, <3>2, <3>3
  <2>3. CASE ~Skipped(ev) /\ ev.k = "updated"
    <3> DEFINE at == {i \in DOMAIN list : list[i].id = t}
    <3>1. /\ list' = IF at = {} THEN list ELSE [list EXCEPT ![Min(at)] = [id |-> t, row |-> ev.row]]
          /\ ~ev.row.internal /\ ev.row \in TodoItem
      BY <1>1, <1>2, <2>3 DEF applyMessage, Skipped
    <3>2. CASE at = {}
      <4>1. list' = list /\ Unlisted(t)
        BY <3>1, <3>2
      <4>2. ~Good(t)'
        BY <1>7, <2>3, <4>1
      <4> QED BY <4>1, <4>2, ListStays
    <3>3. CASE at # {}
      <4>1. at \in SUBSET Nat
        BY DEF ClientInv, ClientTypes
      <4>2. \E k \in at : \A j \in at : k <= j
        BY <3>3, <4>1, Least
      <4>3. Min(at) \in at
        BY <4>2 DEF Min
      <4>4. PICK k \in DOMAIN list : k = Min(at) /\ list[k].id = t
        BY <4>3
      <4>5. list' = [list EXCEPT ![k] = [id |-> t, row |-> ev.row]]
        BY <3>1, <3>3, <4>4
      <4> HIDE DEF R, at
      <4>6. /\ list' \in Seq(R)
            /\ \A i \in DOMAIN list' : (\E j \in DOMAIN list : list'[i] = list[j]) \/ list'[i] = e
            /\ \A u \in Todos \ {t} : Same(u)
            /\ \A u \in Todos : Once(u) => Once(u)'
        <5>1. /\ list' \in Seq([id : Todos, row : TodoItem])
              /\ \A i \in DOMAIN list' : (\E j \in DOMAIN list : list'[i] = list[j]) \/ list'[i] = e
          BY <1>2, <3>1, <4>4, <4>5, ListReplaces
        <5>2. \A u \in Todos \ {t} : Same(u)
          BY <1>2, <3>1, <4>4, <4>5, ListReplaces
        <5>3. \A u \in Todos : Once(u) => Once(u)'
          BY <1>2, <3>1, <4>4, <4>5, ListReplaces
        <5> HIDE DEF Same, Once, Unlisted, e
        <5> QED BY <5>1, <5>2, <5>3 DEF R
      <4>7. Once(t) => {list'[i].row : i \in Shown(t)'} = IF ev.row.status = "Completed" THEN {} ELSE {ev.row}
        BY <1>2, <3>1, <4>4, <4>5, ListReplaces
      <4> HIDE DEF Same, Once, Unlisted, e
      <4> QED BY <1>2, <1>7, <2>3, <3>1, <4>6, <4>7
    <3> QED BY <3>2, <3>3
  <2>4. CASE ev.k = "deleted"
    <3>1. list' = Sift(list, [id : Todos \ {t}, row : TodoItem]) /\ ~Skipped(ev)
      BY <1>1, <2>4 DEF applyMessage, Skipped
    <3> HIDE DEF R
    <3>2. /\ list' \in Seq(R)
          /\ \A i \in DOMAIN list' : (\E j \in DOMAIN list : list'[i] = list[j]) /\ list'[i].id # t
          /\ \A u \in Todos \ {t} : Same(u)
          /\ \A u \in Todos : Once(u) => Once(u)'
      BY <1>2, <3>1, ListShrinks DEF R
    <3>3. Shown(t)' = {}
      BY <3>2 DEF Shown
    <3>4. {list'[i].row : i \in Shown(t)'} = {}
      BY <3>3
    <3> HIDE DEF Same, Once, Unlisted, e
    <3> QED BY <1>2, <1>7, <2>4, <3>1, <3>2, <3>4
  <2> QED BY <1>2, <2>1, <2>2, <2>3, <2>4
<1> HIDE DEF R
<1>10. e.id = t /\ e.row = ev.row
  OBVIOUS
<1>l. ASSUME NEW i \in DOMAIN list'
      PROVE  \/ \E j \in DOMAIN list : list'[i] = list[j]
             \/ list'[i].id = t /\ list'[i].row = ev.row /\ ev.k # "deleted" /\ ~ev.row.internal
  BY <1>9, <1>10
<1> HIDE DEF e
<1>11. ClientTypes'
  <2>1. \A i \in DOMAIN rx' : rx'[i].k = "deleted" <=> rx'[i].row = None
    BY <1>3 DEF ClientInv, ClientTypes
  <2>2. amiss' \subseteq Todos /\ unheard' \subseteq Todos /\ unsent' \in BOOLEAN
    BY <1>1, <1>2 DEF ClientInv, ClientTypes
  <2>3. list' \in Seq(R)
    BY <1>9
  <2> QED BY <1>1, <1>2, <2>1, <2>2, <2>3 DEF ClientTypes, E, R
<1>12. FreshIsUnseen' /\ InternalNeverShown'
  <2>1. \A u \in Todos \ used : \A i \in DOMAIN rx' : rx'[i].id = u => rx'[i].k = "deleted"
    BY <1>3 DEF ClientInv, FreshIsUnseen
  <2>2. ev.k # "deleted" => t \in used
    BY <1>2, <1>3 DEF ClientInv, FreshIsUnseen
  <2>3. \A u \in Todos \ used : \A i \in DOMAIN list' : list'[i].id # u
    BY <1>l, <2>2 DEF ClientInv, FreshIsUnseen
  <2>4. InternalNeverShown'
    BY <1>l DEF ClientInv, InternalNeverShown
  <2> QED BY <1>1, <2>1, <2>3, <2>4 DEF FreshIsUnseen
<1>13. InternalIsKept'
  <2> SUFFICES ASSUME NEW u \in Todos, todos[u] # None
               PROVE  /\ \A j \in DOMAIN list' : list'[j].id = u => list'[j].row.internal = todos[u].internal
                      /\ \A j \in DOMAIN rx' : rx'[j].id = u /\ rx'[j].row # None =>
                            rx'[j].row.internal = todos[u].internal
                      /\ \A v \in Writers : writer[v].id = u /\ writer[v].row # None =>
                            writer[v].row.internal = todos[u].internal
    BY <1>1 DEF InternalIsKept
  <2>1. /\ \A j \in DOMAIN list : list[j].id = u => list[j].row.internal = todos[u].internal
        /\ \A j \in DOMAIN rx : rx[j].id = u /\ rx[j].row # None =>
              rx[j].row.internal = todos[u].internal
        /\ \A v \in Writers : writer[v].id = u /\ writer[v].row # None =>
              writer[v].row.internal = todos[u].internal
    BY DEF ClientInv, InternalIsKept
  <2>2. t = u /\ ev.k # "deleted" => ev.row.internal = todos[u].internal
    BY <1>2, <1>3, <2>1, Apart
  <2>3. \A j \in DOMAIN list' : list'[j].id = u => list'[j].row.internal = todos[u].internal
    BY <1>l, <2>1, <2>2
  <2>4. \A j \in DOMAIN rx' : rx'[j].id = u /\ rx'[j].row # None =>
            rx'[j].row.internal = todos[u].internal
    BY <1>3, <2>1
  <2> QED BY <2>1, <2>3, <2>4
<1>14. CreatedOnce'
  <2>1. \A u, v \in Writers : \A x \in Todos : Creating(u, x)' /\ Creating(v, x)' => u = v
    BY <1>4 DEF ClientInv, CreatedOnce
  <2>2. \A v \in Writers, j \in DOMAIN rx' : \A x \in Todos : ~(Creating(v, x)' /\ NewsAt(j, x)')
    BY <1>3, <1>4, <1>5 DEF ClientInv, CreatedOnce
  <2>3. ASSUME NEW j \in DOMAIN rx', NEW k \in DOMAIN rx', NEW u \in Todos, NewsAt(j, u)', NewsAt(k, u)'
        PROVE  j = k
    <3>1. j + 1 = k + 1
      BY <1>3, <1>5, <2>3 DEF ClientInv, CreatedOnce
    <3> QED BY <1>2, <3>1
  <2> QED BY <2>1, <2>2, <2>3 DEF CreatedOnce
<1>15. ListedOnce'
  <2>1. ASSUME NEW u \in Todos, Good(u)' PROVE Once(u)'
    <3>1. CASE u = t
      BY <1>9, <2>1, <3>1
    <3>2. CASE u # t
      <4>1. Once(u)
        BY <1>6, <2>1 DEF ClientInv, ListedOnce
      <4> QED BY <1>9, <3>2, <4>1
    <3> QED BY <3>1, <3>2
  <2>2. ASSUME NEW u \in Todos, Good(u)',
               (\E w \in Writers : Creating(w, u)') \/ (\E i \in DOMAIN rx' : NewsAt(i, u)')
        PROVE  \A i \in DOMAIN list' : list'[i].id # u
    <3>1. (\E w \in Writers : Creating(w, u)) \/ (\E i \in DOMAIN rx : NewsAt(i, u) /\ i # 1)
      <4>1. CASE \E w \in Writers : Creating(w, u)'
        BY <1>4, <4>1
      <4>2. ASSUME NEW i \in DOMAIN rx', NewsAt(i, u)'
            PROVE  \E j \in DOMAIN rx : NewsAt(j, u) /\ j # 1
        <5>1. i + 1 \in DOMAIN rx /\ i + 1 # 1 /\ NewsAt(i + 1, u)
          BY <1>2, <1>3, <1>5, <4>2
        <5> QED BY <5>1
      <4> QED BY <2>2, <4>1, <4>2
    <3>2. Unlisted(u)
      BY <1>6, <2>2, <3>1 DEF ClientInv, ListedOnce
    <3>3. ~(u = t /\ ev.k = "created")
      <4>1. SUFFICES ASSUME NewsAt(1, u) PROVE FALSE
        BY <1>2 DEF NewsAt
      <4>2. CASE \E w \in Writers : Creating(w, u)
        BY <1>3, <4>1, <4>2 DEF ClientInv, CreatedOnce
      <4>3. CASE \E i \in DOMAIN rx : NewsAt(i, u) /\ i # 1
        BY <1>3, <4>1, <4>3 DEF ClientInv, CreatedOnce
      <4> QED BY <3>1, <4>2, <4>3
    <3>4. u = t => ev.k # "updated"
      BY <1>7, <2>2, <3>2
    <3>5. u = t => ev.k = "deleted"
      BY <1>2, <3>3, <3>4
    <3> QED BY <1>l, <3>2, <3>5
  <2> HIDE DEF Unlisted
  <2> QED BY <2>1, <2>2 DEF ListedOnce
<1>16. NewsFit'
  <2>1. ASSUME NEW u \in Todos, Good(u)', NEW v \in Writers, Acting(v, u)'
        PROVE  Fits(u, writer[v].pc, writer[v].row)'
    <3>1. Fits(u, writer[v].pc, writer[v].row)
      BY <1>4, <1>6, <2>1 DEF ClientInv, NewsFit
    <3> QED BY <1>1, <3>1 DEF Fits, Off
  <2>2. ASSUME NEW u \in Todos, Good(u)', NEW k \in DOMAIN rx', rx'[k].id = u,
               \A j \in DOMAIN rx' : j > k => rx'[j].id # u, \A v \in Writers : ~Acting(v, u)'
        PROVE  Fits(u, rx[k].k, rx[k].row)'
    <3>1. \A v \in Writers : ~Acting(v, u)
      BY <1>4, <2>2
    <3>2. ASSUME NEW j \in DOMAIN rx, j > k + 1 PROVE rx[j].id # u
      <4>1. j - 1 \in DOMAIN rx' /\ j - 1 > k /\ (j - 1) + 1 = j
        BY <1>2, <3>2
      <4>2. rx'[j - 1] = rx[j]
        BY <1>3, <4>1
      <4> QED BY <2>2, <4>1, <4>2
    <3>3. k + 1 \in DOMAIN rx /\ rx'[k] = rx[k + 1]
      BY <1>3
    <3>4. Fits(u, rx[k + 1].k, rx[k + 1].row)
      BY <1>6, <2>2, <3>1, <3>2, <3>3 DEF ClientInv, NewsFit
    <3> QED BY <1>1, <3>3, <3>4 DEF Fits, Off
  <2> QED BY <2>1, <2>2 DEF NewsFit
<1>17. ListIsRight'
  <2> SUFFICES ASSUME NEW u \in Todos, Good(u)', Quiet(u)', ~Foreign(u)'
               PROVE  {list'[j].row : j \in Shown(u)'} = Listed(u)'
    BY DEF ListIsRight
  <2>1. /\ \A w \in Writers : ~Acting(w, u)
        /\ \A j \in DOMAIN rx : j > 1 => rx[j].id # u
    <3>1. \A w \in Writers : ~Acting(w, u)
      BY <1>4 DEF Quiet
    <3>2. ASSUME NEW j \in DOMAIN rx, j > 1 PROVE rx[j].id # u
      <4>1. j - 1 \in DOMAIN rx' /\ (j - 1) + 1 = j
        BY <1>2, <3>2
      <4>2. rx'[j - 1] = rx[j]
        BY <1>3, <4>1
      <4> QED BY <4>1, <4>2 DEF Quiet
    <3> QED BY <3>1, <3>2
  <2>2. Listed(u)' = Listed(u) /\ ~Foreign(u) /\ Off(u)' = Off(u)
    BY <1>1 DEF Listed, list_user_todos, Foreign, Off
  <2>3. CASE u # t
    <3>1. Quiet(u)
      BY <1>1, <1>2, <2>1, <2>3 DEF Quiet
    <3>2. {list[j].row : j \in Shown(u)} = Listed(u)
      BY <1>6, <2>2, <3>1 DEF ClientInv, ListIsRight
    <3> QED BY <1>9, <2>2, <2>3, <3>2
  <2>4. CASE u = t
    <3>1. Fits(u, ev.k, ev.row)
      BY <1>2, <1>3, <1>6, <2>1, <2>4 DEF ClientInv, NewsFit
    <3>2. Listed(u) = IF Off(u) THEN {} ELSE {todos[u]}
      BY <2>2, ListedRow
    <3>3. CASE Skipped(ev)
      <4>1. ev.row = todos[u] /\ ev.row.internal /\ todos[u] # None
        BY <1>2, <3>1, <3>3, Apart DEF Fits, Skipped
      <4>2. Off(u)
        BY <4>1 DEF Off
      <4>3. Unlisted(u)
        BY <4>1 DEF ClientInv, InternalIsKept, InternalNeverShown
      <4>4. Shown(u) = {}
        BY <4>3 DEF Shown
      <4>5. {list'[j].row : j \in Shown(u)'} = {list[i].row : i \in Shown(u)}
        BY <1>9, <2>4, <3>3
      <4> QED BY <2>2, <3>2, <4>2, <4>4, <4>5
    <3>4. CASE ev.k = "deleted"
      <4>1. Off(u) /\ ~Skipped(ev)
        BY <3>1, <3>4 DEF Fits, Skipped
      <4>2. {list'[j].row : j \in Shown(u)'} = {}
        BY <1>9, <2>4, <3>4, <4>1
      <4> QED BY <2>2, <3>2, <4>1, <4>2
    <3>5. CASE ~Skipped(ev) /\ ev.k # "deleted"
      <4>1. ev.row = todos[u] /\ ~ev.row.internal /\ todos[u] # None
        BY <1>2, <3>1, <3>5, Apart DEF Fits, Skipped
      <4>2. Off(u) <=> todos[u].status = "Completed"
        BY <4>1 DEF Off
      <4>3. {list'[j].row : j \in Shown(u)'} = IF ev.row.status = "Completed" THEN {} ELSE {ev.row}
        BY <1>9, <2>4, <3>5
      <4> QED BY <2>2, <3>2, <4>1, <4>2, <4>3
    <3> QED BY <3>3, <3>4, <3>5
  <2> QED BY <2>3, <2>4
<1> QED BY <1>11, <1>12, <1>13, <1>14, <1>15, <1>16, <1>17 DEF ClientInv

\* Every step.
LEMMA ClientStep ==
  ASSUME RowsInv, RowsInv', ClientInv, [BoardNext]_boardVars
  PROVE  ClientInv'
<1>1. ASSUME NEW t \in Todos,
             WsCreate(t) \/ CreateTodoTool(t) \/ \E internal \in BOOLEAN : create_test_todo(t, internal)
      PROVE  ClientInv'
  <2>1. \A internal, mine \in BOOLEAN : NewTodo(internal, mine) \in TodoItem
    BY DEF NewTodo, TodoItem, TodoStatus
  <2>2. CASE WsCreate(t)
    BY <2>1, <2>2, ClientCreate DEF WsCreate, Writers
  <2>3. CASE CreateTodoTool(t)
    BY <2>1, <2>3, ClientCreate DEF CreateTodoTool, Writers
  <2>4. ASSUME NEW internal \in BOOLEAN, create_test_todo(t, internal) PROVE ClientInv'
    BY <2>1, <2>4, ClientCreate DEF create_test_todo, Writers
  <2> QED BY <1>1, <2>2, <2>3, <2>4
<1>2. ASSUME NEW i \in Ids, NEW w \in Writers, NEW row, NEW set, Begin(w, i, "merge", row, set),
             row \in TodoItem \cup Document, set \in Edits \cup DocEdits \cup {Snoozed},
             i \in Todos => row = todos[i],
             UNCHANGED <<todos, used, link, list, amiss, unheard>>
      PROVE  ClientInv'
  <2>1. /\ writer'[w] = [pc |-> "merge", id |-> i, row |-> row, set |-> set]
        /\ \A v \in Writers \ {w} : writer'[v] = writer[v]
        /\ overlap \subseteq overlap' /\ writer[w].id = None
    BY <1>2, BeginsAlone
  <2> QED BY <1>2, <2>1, ClientRead
<1>3. ASSUME NEW t \in Todos, NEW w \in Writers, NEW set \in Edits \cup {Snoozed}, ReadTodo(w, t, set)
      PROVE  ClientInv'
  <2>1. todos[t] \in TodoItem /\ t \in Ids
    BY <1>3, Apart DEF ReadTodo, RowsInv, RowTypes
  <2> QED BY <1>2, <1>3, <2>1 DEF ReadTodo
<1>4. ASSUME NEW d \in Docs, NEW w \in Writers, NEW set \in DocEdits, ReadDocument(w, d, set)
      PROVE  ClientInv'
  <2>1. docs[d] \in Document /\ d \in Ids /\ d \notin Todos
    BY <1>4, Apart DEF ReadDocument, RowsInv, RowTypes
  <2> QED BY <1>2, <1>4, <2>1 DEF ReadDocument
<1>5. ASSUME NEW t \in Todos,
             \/ \E set \in Edits : WsUpdate(t, set) \/ UpdateTodoTool(t, set)
             \/ Snooze(t)
      PROVE  ClientInv'
  BY <1>3, <1>5 DEF WsUpdate, UpdateTodoTool, Snooze, Writers
<1>6. ASSUME NEW d \in Docs,
             \/ CreateDocumentTool(d) \/ delete_document(d)
             \/ \E set \in DocEdits : UpdateDocumentTool(d, set) \/ put_document(d, set)
      PROVE  ClientInv'
  <2>1. CASE CreateDocumentTool(d) \/ delete_document(d)
    BY <2>1, ClientDocument DEF CreateDocumentTool
  <2>2. ASSUME NEW set \in DocEdits, UpdateDocumentTool(d, set) \/ put_document(d, set) PROVE ClientInv'
    BY <1>4, <2>2 DEF UpdateDocumentTool, put_document, Writers
  <2> QED BY <1>6, <2>1, <2>2
<1>7. ASSUME NEW t \in Todos,
             \/ CreateSubtask(t) \/ complete_todo(t) \/ WsDelete(t) \/ DeleteTodoTool(t)
             \/ \E s \in TodoStatus : AgentSets(t, s)
      PROVE  ClientInv'
  <2>1. CASE CreateSubtask(t)
    BY <2>1, ClientSubtask
  <2>2. CASE complete_todo(t)
    BY <2>2, ClientComplete
  <2>3. CASE WsDelete(t) \/ DeleteTodoTool(t)
    BY <2>3, ClientDelete DEF WsDelete, DeleteTodoTool, Writers
  <2>4. ASSUME NEW s \in TodoStatus, AgentSets(t, s) PROVE ClientInv'
    BY <2>4, ClientAgent
  <2> QED BY <1>7, <2>1, <2>2, <2>3, <2>4
<1>8. ASSUME NEW w \in Writers, WriteTodo(w) \/ WriteDocument(w) \/ Announce(w) PROVE ClientInv'
  <2>1. CASE WriteTodo(w)
    BY <2>1, ClientWrite
  <2>2. CASE WriteDocument(w)
    <3>1. writer[w].id \in Docs
      BY <2>2 DEF WriteDocument
    <3> QED BY <2>2, <3>1, ClientDocument
  <2>3. CASE Announce(w)
    BY <2>3, ClientAnnounces
  <2> QED BY <1>8, <2>1, <2>2, <2>3
<1>9. ASSUME NEW ok \in BOOLEAN, CompleteReads(ok) PROVE ClientInv'
  BY <1>9, ClientReread
<1>10. ASSUME \/ \E ok \in BOOLEAN : Connect(ok) \/ Resync(ok)
              \/ Subscribe \/ Forward \/ Disconnect
       PROVE  ClientInv'
  BY <1>10, ClientConnects, ClientLink, ClientForward, ClientResyncs
<1>11. ASSUME UNCHANGED boardVars PROVE ClientInv'
  <2>1. /\ todos' = todos /\ writer' = writer /\ used' = used /\ conn' = conn /\ rx' = rx
        /\ lagged' = lagged /\ unsent' = unsent /\ list' = list /\ overlap' = overlap /\ amiss' = amiss /\ unheard' = unheard
    BY <1>11 DEF boardVars, link, hist
  <2>2. /\ ClientTypes' /\ FreshIsUnseen' /\ InternalNeverShown' /\ InternalIsKept'
    BY <2>1 DEF ClientInv, ClientTypes, FreshIsUnseen, InternalNeverShown, InternalIsKept
  <2>3. CreatedOnce'
    BY <2>1 DEF ClientInv, CreatedOnce, Creating, NewsAt
  <2>4. ListedOnce'
    BY <2>1, Zenon DEF ClientInv, ListedOnce, Good, Creating, NewsAt
  <2>5. NewsFit'
    <3>1. SUFFICES ASSUME NEW t \in Todos, Good(t)'
                   PROVE  /\ \A w \in Writers : Acting(w, t)' => Fits(t, writer[w].pc, writer[w].row)'
                          /\ \A i \in DOMAIN rx :
                                /\ rx[i].id = t /\ \A j \in DOMAIN rx : j > i => rx[j].id # t
                                /\ \A w \in Writers : ~Acting(w, t)'
                                => Fits(t, rx[i].k, rx[i].row)'
      BY <2>1 DEF NewsFit
    <3>2. Good(t) /\ \A w \in Writers : Acting(w, t)' = Acting(w, t)
      BY <2>1, <3>1 DEF Good, Acting
    <3>3. \A w \in Writers : Fits(t, writer[w].pc, writer[w].row)' = Fits(t, writer[w].pc, writer[w].row)
      BY <2>1 DEF Fits, Off
    <3>4. \A i \in DOMAIN rx : Fits(t, rx[i].k, rx[i].row)' = Fits(t, rx[i].k, rx[i].row)
      BY <2>1 DEF Fits, Off
    <3> QED BY <3>2, <3>3, <3>4 DEF ClientInv, NewsFit
  <2>6. ListIsRight'
    <3>1. SUFFICES ASSUME NEW t \in Todos, Good(t)', Quiet(t)'
                   PROVE  {list'[i].row : i \in Shown(t)'} = Listed(t)' \/ Foreign(t)'
      BY DEF ListIsRight
    <3>2. Good(t) /\ Quiet(t)
      BY <2>1, <3>1 DEF Good, Quiet, Acting
    <3>3. Shown(t)' = Shown(t) /\ Listed(t)' = Listed(t) /\ Foreign(t)' = Foreign(t)
      BY <2>1 DEF Shown, Listed, list_user_todos, Foreign
    <3> QED BY <2>1, <3>2, <3>3 DEF ClientInv, ListIsRight
  <2> QED BY <2>2, <2>3, <2>4, <2>5, <2>6 DEF ClientInv
<1>12. ASSUME NEW t \in Todos,
              \/ WsCreate(t) \/ CreateTodoTool(t) \/ CreateSubtask(t)
              \/ \E internal \in BOOLEAN : create_test_todo(t, internal)
              \/ \E set \in Edits : WsUpdate(t, set) \/ UpdateTodoTool(t, set)
              \/ Snooze(t) \/ complete_todo(t) \/ WsDelete(t) \/ DeleteTodoTool(t)
              \/ \E s \in TodoStatus : AgentSets(t, s)
       PROVE  ClientInv'
  BY <1>1, <1>5, <1>7, <1>12
<1> QED BY <1>6, <1>8, <1>9, <1>10, <1>11, <1>12 DEF BoardNext

\* No more changes are made, and no more connections break, than the bounds allow.
BoundsKept == ops \in 0 .. MaxOps /\ drops \in 0 .. MaxDrops

\* The bounds hold at first and every step keeps them.
LEMMA BoundsAtFirst ==
  ASSUME BoardInit
  PROVE  BoundsKept
BY BoundsAssumption DEF BoardInit, BoundsKept

LEMMA BoundsStep ==
  ASSUME BoundsKept, [BoardNext]_boardVars
  PROVE  BoundsKept'
<1> USE BoundsAssumption DEF BoundsKept
<1>1. ASSUME ops < MaxOps, ops' = ops + 1, drops' = drops PROVE BoundsKept'
  BY <1>1
<1>2. ASSUME NEW t \in Todos,
             \/ WsCreate(t) \/ CreateTodoTool(t) \/ CreateSubtask(t)
             \/ \E internal \in BOOLEAN : create_test_todo(t, internal)
      PROVE  BoundsKept'
  <2>1. ASSUME NEW w, NEW row, create_todo(w, t, row) PROVE BoundsKept'
    BY <1>1, <2>1, SMT DEF create_todo, Begin
  <2>2. CASE CreateSubtask(t)
    BY <1>1, <2>2, SMT DEF CreateSubtask
  <2>3. CASE WsCreate(t)
    BY <2>1, <2>3 DEF WsCreate
  <2>4. CASE CreateTodoTool(t)
    BY <2>1, <2>4 DEF CreateTodoTool
  <2>5. ASSUME NEW internal \in BOOLEAN, create_test_todo(t, internal) PROVE BoundsKept'
    BY <2>1, <2>5 DEF create_test_todo
  <2> QED BY <1>2, <2>2, <2>3, <2>4, <2>5
<1>3. ASSUME NEW t \in Todos,
             \/ \E set \in Edits : WsUpdate(t, set) \/ UpdateTodoTool(t, set)
             \/ Snooze(t)
      PROVE  BoundsKept'
  <2>1. ASSUME NEW w, NEW set, ReadTodo(w, t, set) PROVE BoundsKept'
    BY <1>1, <2>1, SMT DEF ReadTodo, Begin
  <2> QED BY <1>3, <2>1 DEF WsUpdate, UpdateTodoTool, Snooze
<1>4. ASSUME NEW t \in Todos,
             \/ complete_todo(t) \/ WsDelete(t) \/ DeleteTodoTool(t)
             \/ \E s \in TodoStatus : AgentSets(t, s)
      PROVE  BoundsKept'
  <2>1. ASSUME NEW w, delete_todo(w, t) PROVE BoundsKept'
    BY <1>1, <2>1, SMT DEF delete_todo, Begin
  <2>2. CASE complete_todo(t)
    BY <1>1, <2>2, SMT DEF complete_todo, Begin
  <2>3. ASSUME NEW s \in TodoStatus, AgentSets(t, s) PROVE BoundsKept'
    BY <1>1, <2>3, SMT DEF AgentSets
  <2> QED BY <1>4, <2>1, <2>2, <2>3 DEF WsDelete, DeleteTodoTool
<1>5. ASSUME NEW d \in Docs,
             \/ CreateDocumentTool(d) \/ delete_document(d)
             \/ \E set \in DocEdits : UpdateDocumentTool(d, set) \/ put_document(d, set)
      PROVE  BoundsKept'
  <2>1. ASSUME NEW w, NEW set, ReadDocument(w, d, set) PROVE BoundsKept'
    BY <1>1, <2>1, SMT DEF ReadDocument, Begin
  <2>2. CASE CreateDocumentTool(d) \/ delete_document(d)
    BY <1>1, <2>2, SMT DEF CreateDocumentTool, create_document, delete_document
  <2> QED BY <1>5, <2>1, <2>2 DEF UpdateDocumentTool, put_document
<1>6. ASSUME NEW w \in Writers, WriteTodo(w) \/ WriteDocument(w) \/ Announce(w) PROVE BoundsKept'
  BY <1>6, SMT DEF WriteTodo, WriteDocument, Announce
<1>7. ASSUME NEW ok \in BOOLEAN, CompleteReads(ok) PROVE BoundsKept'
  BY <1>7, SMT DEF CompleteReads
<1>8. ASSUME (\E ok \in BOOLEAN : Connect(ok) \/ Resync(ok)) \/ Subscribe \/ Forward PROVE BoundsKept'
  BY <1>8, SMT DEF Connect, Subscribe, Forward, Resync, SendList
<1>9. ASSUME Disconnect PROVE BoundsKept'
  BY <1>9, SMT DEF Disconnect
<1>10. ASSUME UNCHANGED boardVars PROVE BoundsKept'
  BY <1>10 DEF boardVars
<1>11. ASSUME NEW t \in Todos,
              \/ WsCreate(t) \/ CreateTodoTool(t) \/ CreateSubtask(t)
              \/ \E internal \in BOOLEAN : create_test_todo(t, internal)
              \/ \E set \in Edits : WsUpdate(t, set) \/ UpdateTodoTool(t, set)
              \/ Snooze(t) \/ complete_todo(t) \/ WsDelete(t) \/ DeleteTodoTool(t)
              \/ \E s \in TodoStatus : AgentSets(t, s)
       PROVE  BoundsKept'
  BY <1>2, <1>3, <1>4, <1>11
<1> HIDE DEF BoundsKept
<1> QED BY <1>5, <1>6, <1>7, <1>8, <1>9, <1>10, <1>11 DEF BoardNext

\* A todo that is settled, and that no race and no agent has touched, is shown once and
\* as the table has it.
LEMMA SettledIsShown ==
  ASSUME RowsInv, ClientInv
  PROVE  ListDiffersHasACause
<1>1. SUFFICES ASSUME NEW t \in Todos, Settled(t), ~unsent,
                      t \notin amiss \cup overlap \cup unheard, ~Foreign(t)
               PROVE  ShowsTheTable(t)
  BY DEF ListDiffersHasACause
<1>2. Good(t) /\ Quiet(t)
  BY <1>1 DEF Good, Quiet, Settled, Acting
<1>3. {list[i].row : i \in Shown(t)} = Listed(t)
  BY <1>1, <1>2 DEF ClientInv, ListIsRight
<1>4. \A i, j \in DOMAIN list : list[i].id = t /\ list[j].id = t => i = j
  BY <1>2 DEF ClientInv, ListedOnce
<1>5. \A i, j \in Shown(t) : i = j
  BY <1>4 DEF Shown
<1> QED BY <1>3, <1>5 DEF ShowsTheTable

\* The phone's list is the database's, internal todos left out, or there is a known
\* reason: a race of two changes or of a change and a snapshot, an agent's change that
\* is broadcast where nobody listens, a todo of another user, or a list that could not
\* be read and was not sent (handle_socket, list_user_todos, should_skip,
\* TodoWebSocket.applyMessage).
THEOREM PhoneListIsExplained == BoardSpec => []PhoneListHasACause
<1>1. BoardInit => RowsInv /\ ClientInv /\ BoundsKept
  BY RowsAtFirst, ClientAtFirst, BoundsAtFirst
<1>2. RowsInv /\ ClientInv /\ BoundsKept /\ [BoardNext]_boardVars => (RowsInv /\ ClientInv /\ BoundsKept)'
  BY RowsStep, ClientStep, BoundsStep
<1>3. RowsInv /\ ClientInv /\ BoundsKept => PhoneListHasACause
  <2> SUFFICES ASSUME RowsInv, ClientInv, BoundsKept PROVE PhoneListHasACause
    OBVIOUS
  <2>1. BoardTypeOK
    BY DEF BoardTypeOK, RowsInv, RowTypes, ClientInv, ClientTypes, BoundsKept
  <2>2. InternalNeverShown
    BY DEF ClientInv
  <2> QED BY <2>1, <2>2, SettledIsShown DEF PhoneListHasACause
<1> QED BY <1>1, <1>2, <1>3, PTL DEF BoardSpec
=============================================================================
