---------------------------- MODULE EmailIntake ----------------------------
(***************************************************************************)
(* From the mailbox to the user: the IMAP poller stores unseen mails in    *)
(* the messages table, the email processor turns pending rows into cards,  *)
(* the user decides the cards, and startup recovery makes placeholder      *)
(* cards for rows that are still pending.                                  *)
(*                                                                         *)
(* The poller works with message sequence numbers, which it reads in one   *)
(* IMAP session and stores flags by in another; the mailbox is therefore a *)
(* sequence.  Within a session the server keeps the numbers stable, so     *)
(* fetch_unseen_imap is one step.  A card's own life is in CardQueue; here *)
(* pending cards are counted per mail and kind.                            *)
(***************************************************************************)
EXTENDS Naturals, Sequences, FiniteSets, Sift

CONSTANTS
    Mails,      \* mails by Message-ID
    Wanted,     \* the ones that parse, from an allowed sender and not ourselves
    Budget,     \* bound: how often each disturbance happens
    NoMail

Disturbances == {"restart", "dbfault", "imapfault", "llmfault", "expunge", "unread", "read"}

ASSUME MailsAssumption == Wanted \subseteq Mails /\ NoMail \notin Mails
ASSUME BudgetAssumption == Budget \in [Disturbances -> Nat]

VARIABLES
    inbox,      \* INBOX: the mails in it, numbered from 1
    seen,       \* the mails with the \Seen flag
    elsewhere,  \* history: those of them that another client has read first
    rows,       \* status of each mail's row in messages, or "None"
    fpc, batch, \* the poller, and the <<number, mail>> pairs it fetched
    marks,      \* uids_to_mark
    ppc, plist, \* the processor, and the rows left of its list
    pmail,      \*   and the one in its hands
    holders,    \* pending placeholder cards of each mail (message_id set)
    drafts,     \* pending cards of each mail from the pipeline (message_id None)
    triages,    \* history: cards (or Ignores) the pipeline made of each mail
    spent       \* how often each disturbance has happened

poller    == <<fpc, batch, marks>>
processor == <<ppc, plist, pmail>>
cards     == <<holders, drafts>>
vars == <<inbox, seen, elsewhere, rows, poller, processor, cards, triages, spent>>

MessageStatus == {"Pending", "Replied", "Dismissed"}

-----------------------------------------------------------------------------
(* Helpers *)

Spend(k) == spent[k] < Budget[k] /\ spent' = [spent EXCEPT ![k] = @ + 1]

Db(ok) == IF ok THEN UNCHANGED spent ELSE Spend("dbfault")

\* UPDATE messages SET status; without a row it changes nothing.
update_message_status(m, s, ok) ==
    /\ Db(ok)
    /\ rows' = IF ok /\ rows[m] # "None" THEN [rows EXCEPT ![m] = s] ELSE rows

\* INSERT as pending; external_id is UNIQUE, so a second insert of a mail is an error.
insert_message(m, ok) ==
    rows' = IF ok /\ rows[m] = "None" THEN [rows EXCEPT ![m] = "Pending"] ELSE rows

get_message_by_external_id(m) == rows[m] # "None"

get_pending_messages == {m \in Mails : rows[m] = "Pending"}

\* A pending card whose message_id is the row's: pipeline cards have none.
has_pending_card_for_message(m) == holders[m] > 0

\* The answer to SEARCH UNSEEN: the numbers of unseen mails, in order.
Unseen == Sift([i \in DOMAIN inbox |-> i], {i \in DOMAIN inbox : inbox[i] \notin seen})

Without(s, i) == SubSeq(s, 1, i - 1) \o SubSeq(s, i + 1, Len(s))

-----------------------------------------------------------------------------
Init ==
    /\ inbox = <<>> /\ seen = {} /\ elsewhere = {}
    /\ rows = [m \in Mails |-> "None"]
    /\ fpc = "idle" /\ batch = <<>> /\ marks = <<>>
    /\ ppc = "idle" /\ plist = {} /\ pmail = NoMail
    /\ holders = [m \in Mails |-> 0]
    /\ drafts = [m \in Mails |-> 0]
    /\ triages = [m \in Mails |-> 0]
    /\ spent = [d \in Disturbances |-> 0]

-----------------------------------------------------------------------------
(* The mailbox: other people and the user's other mail clients *)

Arrive(m) ==
    /\ m \notin {inbox[i] : i \in DOMAIN inbox}
    /\ m \notin seen /\ rows[m] = "None"
    /\ inbox' = Append(inbox, m)
    /\ UNCHANGED <<seen, elsewhere, rows, poller, processor, cards, triages, spent>>

\* A mail is deleted or moved elsewhere: the numbers above it move down.
Expunge(i) ==
    /\ i \in DOMAIN inbox
    /\ Spend("expunge")
    /\ inbox' = Without(inbox, i)
    /\ UNCHANGED <<seen, elsewhere, rows, poller, processor, cards, triages>>

\* Another client takes \Seen away, and the next poll finds the mail once more.
MarkUnread(i) ==
    /\ i \in DOMAIN inbox /\ inbox[i] \in seen
    /\ Spend("unread")
    /\ seen' = seen \ {inbox[i]} /\ elsewhere' = elsewhere \ {inbox[i]}
    /\ UNCHANGED <<inbox, rows, poller, processor, cards, triages>>

\* Another client reads the mail before the poller does: no SEARCH UNSEEN finds it.
ReadElsewhere(i) ==
    /\ i \in DOMAIN inbox /\ inbox[i] \notin seen
    /\ Spend("read")
    /\ seen' = seen \cup {inbox[i]} /\ elsewhere' = elsewhere \cup {inbox[i]}
    /\ UNCHANGED <<inbox, rows, poller, processor, cards, triages>>

-----------------------------------------------------------------------------
(* The poller *)

\* fetch_unseen_imap: SEARCH UNSEEN and one FETCH RFC822 per number, which makes
\* the server set \Seen.  If the connection breaks after n of them, the result is
\* an error and the n mails fetched so far are dropped.
PollFetch(n) ==
    /\ fpc = "idle"
    /\ Unseen # <<>>
    /\ n \in 0..Len(Unseen)
    /\ seen' = seen \cup {inbox[Unseen[i]] : i \in 1..n}
    /\ IF n = Len(Unseen)
         THEN /\ fpc' = "persist"
              /\ batch' = [i \in 1..n |-> <<Unseen[i], inbox[Unseen[i]]>>]
              /\ UNCHANGED spent
         ELSE Spend("imapfault") /\ UNCHANGED <<fpc, batch>>
    /\ UNCHANGED <<inbox, elsewhere, rows, marks, processor, cards, triages>>

\* Mutant: a mail that is fetched again replaces its row.
PollPersist_Upsert(ok) ==
    /\ fpc = "persist"
    /\ Db(ok)
    /\ LET m == Head(batch)[2]
       IN rows' = IF m \in Wanted /\ ok THEN [rows EXCEPT ![m] = "Pending"] ELSE rows
    /\ marks' = Append(marks, Head(batch)[1])
    /\ batch' = Tail(batch)
    /\ fpc' = IF Len(batch) = 1 THEN "mark" ELSE "persist"
    /\ UNCHANGED <<inbox, seen, elsewhere, processor, cards, triages>>

\* One mail of the batch: filtered out, already there (the lookup, and behind it
\* the UNIQUE external_id), or inserted as pending.  A failure is only logged; the
\* number goes on the list to mark in every case.
PollPersist(ok) ==
    /\ fpc = "persist"
    /\ Db(ok)
    /\ LET m == Head(batch)[2]
       IN IF m \in Wanted /\ ~get_message_by_external_id(m)
            THEN insert_message(m, ok) ELSE UNCHANGED rows
    /\ marks' = Append(marks, Head(batch)[1])
    /\ batch' = Tail(batch)
    /\ fpc' = IF Len(batch) = 1 THEN "mark" ELSE "persist"
    /\ UNCHANGED <<inbox, seen, elsewhere, processor, cards, triages>>

\* Mutant: counts the numbers from zero.
PollMark_FromZero(n) ==
    /\ fpc = "mark" /\ fpc' = "idle"
    /\ n \in 0..Len(marks)
    /\ seen' = seen \cup {inbox[marks[i] + 1] : i \in {j \in 1..n : marks[j] + 1 \in DOMAIN inbox}}
    /\ IF n = Len(marks) THEN UNCHANGED spent ELSE Spend("imapfault")
    /\ marks' = <<>>
    /\ UNCHANGED <<inbox, elsewhere, rows, batch, processor, cards, triages>>

\* mark_seen_imap: in a new session, STORE \Seen for the first n of the old numbers
\* (all, unless the connection breaks), whatever mails they name by now.
PollMark(n) ==
    /\ fpc = "mark" /\ fpc' = "idle"
    /\ n \in 0..Len(marks)
    /\ seen' = seen \cup {inbox[marks[i]] : i \in {j \in 1..n : marks[j] \in DOMAIN inbox}}
    /\ IF n = Len(marks) THEN UNCHANGED spent ELSE Spend("imapfault")
    /\ marks' = <<>>
    /\ UNCHANGED <<inbox, elsewhere, rows, batch, processor, cards, triages>>

-----------------------------------------------------------------------------
(* The processor *)

\* Mutant: passes over the rows that recovery made a placeholder for.
ProcList_SkipHolders(ok) ==
    /\ ppc = "idle" /\ plist = {}
    /\ Db(ok)
    /\ plist' = IF ok THEN {m \in Mails : rows[m] = "Pending" /\ holders[m] = 0} ELSE {}
    /\ UNCHANGED <<inbox, seen, elsewhere, rows, poller, ppc, pmail, cards, triages>>

\* get_pending_messages; an error, like an empty list, ends the pass.
ProcList(ok) ==
    /\ ppc = "idle" /\ plist = {}
    /\ Db(ok)
    /\ plist' = IF ok THEN get_pending_messages ELSE {}
    /\ UNCHANGED <<inbox, seen, elsewhere, rows, poller, ppc, pmail, cards, triages>>

\* MessageProcessor::process up to the model's answer; an error leaves the row
\* pending and goes on to the next.
ProcTriage(m, ok) ==
    /\ ppc = "idle"
    /\ m \in plist /\ plist' = plist \ {m}
    /\ IF ok THEN ppc' = "route" /\ pmail' = m /\ UNCHANGED spent
             ELSE Spend("llmfault") /\ UNCHANGED <<ppc, pmail>>
    /\ UNCHANGED <<inbox, seen, elsewhere, rows, poller, cards, triages>>

\* route_to_card: Ignore makes no card; Notify, Digest and DraftReply each push a
\* Reply card with the reply_metadata and without the message_id.
ProcRoute(ignore) ==
    /\ ppc = "route" /\ ppc' = "status"
    /\ drafts' = IF ignore THEN drafts ELSE [drafts EXCEPT ![pmail] = @ + 1]
    /\ triages' = [triages EXCEPT ![pmail] = @ + 1]
    /\ UNCHANGED <<inbox, seen, elsewhere, rows, poller, plist, pmail, holders, spent>>

\* Mutant: leaves the row to the user's decision.
ProcStatus_Skip(ok) ==
    /\ ppc = "status" /\ ppc' = "idle"
    /\ ok /\ pmail' = NoMail
    /\ UNCHANGED <<inbox, seen, elsewhere, rows, poller, plist, cards, triages, spent>>

\* The row becomes Replied, whatever it is by now; a failure is only logged.
ProcStatus(ok) ==
    /\ ppc = "status" /\ ppc' = "idle"
    /\ update_message_status(pmail, "Replied", ok)
    /\ pmail' = NoMail
    /\ UNCHANGED <<inbox, seen, elsewhere, poller, plist, cards, triages>>

-----------------------------------------------------------------------------
(* The user and the cards *)

\* approve (Replied) or dismiss (Dismissed) of a placeholder; there is no
\* reply_metadata, so nothing is sent.
DecideHolder(m, s, ok) ==
    /\ holders[m] > 0
    /\ s \in {"Replied", "Dismissed"}
    /\ holders' = [holders EXCEPT ![m] = @ - 1]
    /\ update_message_status(m, s, ok)
    /\ UNCHANGED <<inbox, seen, elsewhere, poller, processor, drafts, triages>>

\* edit does not touch the row, and neither does the expiry.
CloseHolder(m) ==
    /\ holders[m] > 0
    /\ holders' = [holders EXCEPT ![m] = @ - 1]
    /\ UNCHANGED <<inbox, seen, elsewhere, rows, poller, processor, drafts, triages, spent>>

\* A pipeline card is approved, edited, dismissed or expires: no message_id, so the
\* row stays.
CloseDraft(m) ==
    /\ drafts[m] > 0
    /\ drafts' = [drafts EXCEPT ![m] = @ - 1]
    /\ UNCHANGED <<inbox, seen, elsewhere, rows, poller, processor, holders, triages, spent>>

-----------------------------------------------------------------------------
\* The process dies; main() then pushes a placeholder for every pending row that
\* has no pending placeholder yet, before anything else runs.
Restart ==
    /\ Spend("restart")
    /\ holders' = [m \in Mails |-> IF m \in get_pending_messages /\ ~has_pending_card_for_message(m)
                                     THEN 1 ELSE holders[m]]
    /\ fpc' = "idle" /\ batch' = <<>> /\ marks' = <<>>
    /\ ppc' = "idle" /\ plist' = {} /\ pmail' = NoMail
    /\ UNCHANGED <<inbox, seen, elsewhere, rows, drafts, triages>>

-----------------------------------------------------------------------------
Poller ==
    \/ \E n \in 0..Cardinality(Mails) : PollFetch(n) \/ PollMark(n)
    \/ \E ok \in BOOLEAN : PollPersist(ok)

Processor ==
    \/ \E ok \in BOOLEAN : ProcList(ok) \/ ProcRoute(ok) \/ ProcStatus(ok)
    \/ \E m \in Mails, ok \in BOOLEAN : ProcTriage(m, ok)

User ==
    \E m \in Mails :
        \/ \E s \in MessageStatus, ok \in BOOLEAN : DecideHolder(m, s, ok)
        \/ CloseHolder(m)
        \/ CloseDraft(m)

Mailbox ==
    \/ \E m \in Mails : Arrive(m)
    \/ \E i \in 1..Cardinality(Mails) : Expunge(i) \/ MarkUnread(i) \/ ReadElsewhere(i)

Next == Mailbox \/ Poller \/ Processor \/ User \/ Restart

Spec == Init /\ [][Next]_vars

\* The two interval timers keep firing; mail, user and disturbances are not fair.
FairSpec == Spec /\ WF_vars(Poller) /\ WF_vars(Processor)

-----------------------------------------------------------------------------
(* Properties *)

\* Every variable of the mail intake holds a value of its type.
TypeOK ==
    /\ inbox \in Seq(Mails) /\ seen \subseteq Mails /\ elsewhere \subseteq seen
    /\ rows \in [Mails -> MessageStatus \cup {"None"}]
    /\ fpc \in {"idle", "persist", "mark"}
    /\ batch \in Seq(Nat \X Mails) /\ marks \in Seq(Nat)
    /\ ppc \in {"idle", "route", "status"}
    /\ plist \subseteq Mails /\ pmail \in Mails \cup {NoMail}
    /\ holders \in [Mails -> Nat] /\ drafts \in [Mails -> Nat]
    /\ triages \in [Mails -> Nat]
    /\ spent \in [Disturbances -> Nat]

\* The processor makes a second card of a mail only after a crash or a failed
\* database statement, and then at most one more for each of them, whatever the
\* poller, the user and the recovery do meanwhile.
ExtraCardsHaveACause ==
    \A m \in Mails : triages[m] <= 1 + spent["restart"] + spent["dbfault"]

\* A mail that was answered or dismissed is never pending again, although it may be
\* marked unread, fetched a second time and go through insert_message again.
AnsweredStaysAnswered ==
    [][\A m \in Mails : rows[m] \in {"Replied", "Dismissed"}
          => rows'[m] \in {"Replied", "Dismissed"}]_vars

\* A wanted mail that carries \Seen while the poller rests is in the table, unless
\* another client has read this mail before the poller did, the process died, a
\* statement or the connection failed, or a mail was deleted.
UnstoredHasACause ==
    fpc = "idle" /\ (\A d \in {"restart", "dbfault", "imapfault", "expunge"} : spent[d] = 0)
        => \A m \in (seen \ elsewhere) \cap Wanted : rows[m] # "None"

\* The table holds the mail that the mailbox no longer offers (UnstoredHasACause),
\* each row in a status there is (TypeOK).
TableHoldsTheMail == TypeOK /\ UnstoredHasACause

\* A pending row is eventually triaged or decided, through restarts, failed
\* statements and errors of the model.
PendingIsTriaged == \A m \in Mails : rows[m] = "Pending" ~> rows[m] # "Pending"

\* A mail never goes back and never stops on its way: answered it stays answered
\* (AnsweredStaysAnswered), pending it is triaged (PendingIsTriaged).
MailMovesForward == AnsweredStaysAnswered /\ PendingIsTriaged
=============================================================================
