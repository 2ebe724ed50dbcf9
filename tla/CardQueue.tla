------------------------------ MODULE CardQueue ------------------------------
(***************************************************************************)
(* The approval-card queue: cards in memory behind a tokio RwLock, written *)
(* through to the cards table, decided by concurrent WebSocket connections *)
(* and REST requests, refined by the LLM outside the lock, expired and     *)
(* pruned by the 60-second sweep, and reloaded when the process starts.    *)
(* The reply of an approved email card is sent by the request's handler.   *)
(*                                                                         *)
(* approve, dismiss, edit and mark_sent hold the write lock across their   *)
(* database statement, and nothing else reads the memory meanwhile, so     *)
(* each of them is one action.  Broadcasts to the clients are the subject  *)
(* of CardStream, the linked message rows that of EmailIntake.             *)
(***************************************************************************)
EXTENDS Naturals, Sequences, FiniteSets, Sift

CONSTANTS
    Cards,       \* card ids
    EmailCards,  \* Reply cards of the email channel with reply_metadata
    Expiring,    \* cards with an expires_at
    Callers,     \* WebSocket connections and REST requests that act at one time
    PruneAt,     \* queue length above which the sweep prunes (200)
    KeepHistory, \* non-pending cards it keeps (100)
    Budget,      \* bound: how often each disturbance happens
    NoCard

Disturbances == {"refine", "restart", "dbfault"}

ASSUME CardsAssumption == EmailCards \subseteq Cards /\ Expiring \subseteq Cards
ASSUME FiniteAssumption == IsFiniteSet(Cards)
ASSUME PruneAssumption == PruneAt \in Nat /\ KeepHistory \in Nat
ASSUME BudgetAssumption == Budget \in [Disturbances -> Nat]
ASSUME NullAssumption == NoCard \notin Cards

VARIABLES
    mem,        \* status of each card in memory, or "Absent"
    order,      \* the VecDeque: cards in memory, oldest first
    db,         \* status column of each card, or "Absent"
    past,       \* cards whose expires_at has passed
    push,       \* the push call of each card
    kpc, kcard, \* each caller: where its handler is, and its card
    spc,        \* the expiry sweep: "idle" or "mem", between its two halves
    sent,       \* history: mails sent for each card
    sentRun,    \*   and since the process started
    spent       \* how often each disturbance has happened

callers == <<kpc, kcard>>
vars == <<mem, order, db, past, push, callers, spc, sent, sentRun, spent>>

Status == {"Pending", "Approved", "Dismissed", "Expired", "Sent"}

-----------------------------------------------------------------------------
(* Helpers *)

Spend(k) == spent[k] < Budget[k] /\ spent' = [spent EXCEPT ![k] = @ + 1]

\* One statement on the row of card c: a failure is logged and ignored, and an
\* UPDATE of a missing row changes nothing.
Persist(c, s, ok) ==
    /\ IF ok THEN UNCHANGED spent ELSE Spend("dbfault")
    /\ db' = IF ok /\ db[c] # "Absent" THEN [db EXCEPT ![c] = s] ELSE db

InQueue(c) == mem[c] # "Absent"

\* Caller k moves on, with card c in its hands.
Goes(k, pc, c) ==
    /\ kpc' = [kpc EXCEPT ![k] = pc]
    /\ kcard' = [kcard EXCEPT ![k] = c]

\* The orders in which a set of cards may be loaded (ORDER BY created_at).
Orders(S) ==
    {s \in [1..Cardinality(S) -> S] : \A i, j \in DOMAIN s : i # j => s[i] # s[j]}

\* What the sweep removes: the oldest non-pending cards beyond the history.
Pruned(m) ==
    LET history == Sift(order, {c \in Cards : m[c] # "Pending"})
    IN IF Len(order) > PruneAt
         THEN {history[i] : i \in {j \in DOMAIN history : j + KeepHistory <= Len(history)}}
         ELSE {}

-----------------------------------------------------------------------------
Init ==
    /\ mem = [c \in Cards |-> "Absent"]
    /\ order = <<>>
    /\ db = [c \in Cards |-> "Absent"]
    /\ past = {}
    /\ push = [c \in Cards |-> "new"]
    /\ kpc = [k \in Callers |-> "idle"]
    /\ kcard = [k \in Callers |-> NoCard]
    /\ spc = "idle"
    /\ sent = [c \in Cards |-> 0]
    /\ sentRun = [c \in Cards |-> 0]
    /\ spent = [d \in Disturbances |-> 0]

-----------------------------------------------------------------------------
(* push *)

\* Mutant: the card is not persisted.
PushInsert_NoDb(c, ok) ==
    /\ push[c] = "new" /\ push' = [push EXCEPT ![c] = "inserted"]
    /\ IF ok THEN UNCHANGED spent ELSE Spend("dbfault")
    /\ UNCHANGED <<mem, order, db, past, callers, spc, sent, sentRun>>

\* insert_card first ...
PushInsert(c, ok) ==
    /\ push[c] = "new" /\ push' = [push EXCEPT ![c] = "inserted"]
    /\ IF ok THEN UNCHANGED spent ELSE Spend("dbfault")
    /\ db' = IF ok THEN [db EXCEPT ![c] = "Pending"] ELSE db
    /\ UNCHANGED <<mem, order, past, callers, spc, sent, sentRun>>

\* ... then push_back under the lock, also when the insert failed.
PushQueue(c) ==
    /\ push[c] = "inserted" /\ push' = [push EXCEPT ![c] = "done"]
    /\ mem' = [mem EXCEPT ![c] = "Pending"]
    /\ order' = Append(order, c)
    /\ UNCHANGED <<db, past, callers, spc, sent, sentRun, spent>>

-----------------------------------------------------------------------------
(* approve, dismiss, edit *)

\* Mutant: no check that the card is still pending.
Decide_NoCheck(k, c, s, ok) ==
    /\ kpc[k] = "idle"
    /\ InQueue(c)
    /\ Persist(c, s, ok)
    /\ mem' = [mem EXCEPT ![c] = s]
    /\ IF s = "Approved" /\ c \in EmailCards
         THEN Goes(k, "send", c) ELSE UNCHANGED callers
    /\ UNCHANGED <<order, past, push, spc, sent, sentRun>>

\* Mutant: the decision stays in memory.
Decide_NoPersist(k, c, s, ok) ==
    /\ kpc[k] = "idle"
    /\ mem[c] = "Pending"
    /\ mem' = [mem EXCEPT ![c] = s]
    /\ IF s = "Approved" /\ c \in EmailCards
         THEN Goes(k, "send", c) ELSE UNCHANGED callers
    /\ ok
    /\ UNCHANGED <<order, db, past, push, spc, sent, sentRun, spent>>

\* A pending card takes status s, in the database and in memory; the handler of an
\* approved email card goes on to send the reply.  (expires_at is not looked at.)
Decide(k, c, s, ok) ==
    /\ kpc[k] = "idle"
    /\ mem[c] = "Pending"
    /\ Persist(c, s, ok)
    /\ mem' = [mem EXCEPT ![c] = s]
    /\ IF s = "Approved" /\ c \in EmailCards
         THEN Goes(k, "send", c) ELSE UNCHANGED callers
    /\ UNCHANGED <<order, past, push, spc, sent, sentRun>>

approve(k, c, ok) == Decide(k, c, "Approved", ok)
dismiss(k, c, ok) == Decide(k, c, "Dismissed", ok)

\* The user's text replaces the draft; then as approve.
edit(k, c, ok) == Decide(k, c, "Approved", ok)

-----------------------------------------------------------------------------
(* MessageHandler::send_reply *)

\* The SMTP exchange; after an error the card stays Approved.
SendReply(k, ok) ==
    /\ kpc[k] = "send"
    /\ IF ok
         THEN /\ Goes(k, "mark", kcard[k])
              /\ sent' = [sent EXCEPT ![kcard[k]] = @ + 1]
              /\ sentRun' = [sentRun EXCEPT ![kcard[k]] = @ + 1]
         ELSE Goes(k, "idle", NoCard) /\ UNCHANGED <<sent, sentRun>>
    /\ UNCHANGED <<mem, order, db, past, push, spc, spent>>

\* mark_sent: only a card that is still in the queue, whatever its status.
MarkSent(k, ok) ==
    /\ kpc[k] = "mark"
    /\ IF InQueue(kcard[k])
         THEN Persist(kcard[k], "Sent", ok) /\ mem' = [mem EXCEPT ![kcard[k]] = "Sent"]
         ELSE ok /\ UNCHANGED <<mem, db, spent>>
    /\ Goes(k, "idle", NoCard)
    /\ UNCHANGED <<order, past, push, spc, sent, sentRun>>

-----------------------------------------------------------------------------
(* refine *)

\* The card is found pending and copied for the LLM.
RefineStart(k, c) ==
    /\ kpc[k] = "idle"
    /\ mem[c] = "Pending"
    /\ Spend("refine")
    /\ Goes(k, "llm", c)
    /\ UNCHANGED <<mem, order, db, past, push, spc, sent, sentRun>>

\* Mutant: the card is put back from the copy without a look at its status.
RefineApply_NoCheck(k, ok) ==
    /\ kpc[k] = "llm"
    /\ IF ok /\ InQueue(kcard[k])
         THEN /\ Goes(k, "persist", kcard[k])
              /\ mem' = [mem EXCEPT ![kcard[k]] = "Pending"]
         ELSE Goes(k, "idle", NoCard) /\ UNCHANGED mem
    /\ UNCHANGED <<order, db, past, push, spc, sent, sentRun, spent>>

\* The LLM answers (or fails); the text changes only if the card is still pending.
RefineApply(k, ok) ==
    /\ kpc[k] = "llm"
    /\ IF ok /\ mem[kcard[k]] = "Pending"
         THEN Goes(k, "persist", kcard[k]) ELSE Goes(k, "idle", NoCard)
    /\ UNCHANGED <<mem, order, db, past, push, spc, sent, sentRun, spent>>

\* After the lock is gone: update_card_reply writes the text and status Pending.
RefinePersist(k, ok) ==
    /\ kpc[k] = "persist"
    /\ Persist(kcard[k], "Pending", ok)
    /\ Goes(k, "idle", NoCard)
    /\ UNCHANGED <<mem, order, past, push, spc, sent, sentRun>>

-----------------------------------------------------------------------------
(* expire_old, every 60 seconds *)

Tick(c) ==
    /\ c \in Expiring \ past
    /\ push[c] # "new"
    /\ past' = past \cup {c}
    /\ UNCHANGED <<mem, order, db, push, callers, spc, sent, sentRun, spent>>

\* expire_old_cards on the table ...
ExpireDb(ok) ==
    /\ spc = "idle" /\ spc' = "mem"
    /\ IF ok THEN UNCHANGED spent ELSE Spend("dbfault")
    /\ db' = IF ok THEN [c \in Cards |-> IF db[c] = "Pending" /\ c \in past
                                           THEN "Expired" ELSE db[c]]
             ELSE db
    /\ UNCHANGED <<mem, order, past, push, callers, sent, sentRun>>

\* Mutant: expires without looking at the status.
ExpireMem_Any ==
    /\ spc = "mem" /\ spc' = "idle"
    /\ mem' = [c \in Cards |-> IF InQueue(c) /\ c \in past THEN "Expired" ELSE mem[c]]
    /\ UNCHANGED <<order, db, past, push, callers, sent, sentRun, spent>>

\* Mutant: leaves the expiry to the database.
ExpireMem_None ==
    /\ spc = "mem" /\ spc' = "idle"
    /\ UNCHANGED <<mem, order, db, past, push, callers, sent, sentRun, spent>>

\* ... then on the memory, and prune.
ExpireMem ==
    /\ spc = "mem" /\ spc' = "idle"
    /\ LET expired == [c \in Cards |-> IF mem[c] = "Pending" /\ c \in past
                                         THEN "Expired" ELSE mem[c]]
           gone == Pruned(expired)
       IN /\ mem' = [c \in Cards |-> IF c \in gone THEN "Absent" ELSE expired[c]]
          /\ order' = Sift(order, Cards \ gone)
    /\ UNCHANGED <<db, past, push, callers, sent, sentRun, spent>>

-----------------------------------------------------------------------------
\* The process dies and with_db() loads the pending, unexpired cards (none when the
\* query fails); a push that had not reached the table is lost.
Restart(ok) ==
    /\ LET now == {"restart"} \cup (IF ok THEN {} ELSE {"dbfault"})
       IN /\ \A d \in now : spent[d] < Budget[d]
          /\ spent' = [d \in Disturbances |-> IF d \in now THEN spent[d] + 1 ELSE spent[d]]
    /\ LET loaded == IF ok THEN {c \in Cards : db[c] = "Pending" /\ c \notin past} ELSE {}
       IN /\ mem' = [c \in Cards |-> IF c \in loaded THEN "Pending" ELSE "Absent"]
          /\ order' \in Orders(loaded)
    /\ push' = [c \in Cards |-> IF push[c] = "inserted" THEN "done" ELSE push[c]]
    /\ kpc' = [k \in Callers |-> "idle"]
    /\ kcard' = [k \in Callers |-> NoCard]
    /\ spc' = "idle"
    /\ sentRun' = [c \in Cards |-> 0]
    /\ UNCHANGED <<db, past, sent>>

-----------------------------------------------------------------------------
Caller(k) ==
    \/ \E ok \in BOOLEAN : SendReply(k, ok) \/ MarkSent(k, ok)
    \/ \E ok \in BOOLEAN : RefineApply(k, ok) \/ RefinePersist(k, ok)

User(k, c) ==
    \/ \E ok \in BOOLEAN : approve(k, c, ok) \/ dismiss(k, c, ok) \/ edit(k, c, ok)
    \/ RefineStart(k, c)

Sweep == ExpireMem \/ \E ok \in BOOLEAN : ExpireDb(ok)

Push(c) == PushQueue(c) \/ \E ok \in BOOLEAN : PushInsert(c, ok)

Next ==
    \/ \E c \in Cards : Push(c) \/ Tick(c)
    \/ \E k \in Callers : Caller(k) \/ \E c \in Cards : User(k, c)
    \/ Sweep
    \/ \E ok \in BOOLEAN : Restart(ok)

Spec == Init /\ [][Next]_vars

\* The interval of spawn_expiry_task keeps firing; users and producers are not fair.
FairSpec == Spec /\ WF_vars(Sweep)

-----------------------------------------------------------------------------
(* Properties *)

\* Every variable of the card queue holds a value of its type.
TypeOK ==
    /\ mem \in [Cards -> Status \cup {"Absent"}]
    /\ order \in Seq(Cards)
    /\ db \in [Cards -> Status \cup {"Absent"}]
    /\ past \subseteq Cards
    /\ push \in [Cards -> {"new", "inserted", "done"}]
    /\ kpc \in [Callers -> {"idle", "send", "mark", "llm", "persist"}]
    /\ kcard \in [Callers -> Cards \cup {NoCard}]
    /\ spc \in {"idle", "mem"}
    /\ sent \in [Cards -> Nat]
    /\ sentRun \in [Cards -> Nat]
    /\ spent \in [Disturbances -> Nat]

\* The approvals that send_reply has in its hands.
Granted == {kcard[k] : k \in {j \in Callers : kpc[j] = "send"}}

OutboxOf == INSTANCE Outbox WITH granted <- Granted

\* Every mail send_reply sends uses up an approval (or edit) of its own, whatever
\* callers race, whatever is refined, expired, pruned or reloaded meanwhile.
ImplementsOutbox == OutboxOf!OutboxSpec

\* While the process lives no card is sent twice, although refine, expire_old and
\* failing database writes change the row behind the memory's back.
SentOncePerRun == \A c \in Cards : sentRun[c] <= 1

\* As long as no database statement fails and nobody refines, a card is sent at most once
\* ever: the decision is in the table before the mail leaves, so with_db() does not
\* bring the card back.
SentAtMostOnce ==
    spent["refine"] = 0 /\ spent["dbfault"] = 0 => \A c \in Cards : sent[c] <= 1

\* As long as no database statement fails, a pending card that has not run out is
\* pending in the table too, so that a restart at any moment brings it back.
PendingSurvives ==
    spent["dbfault"] = 0 =>
        \A c \in Cards : mem[c] = "Pending" /\ c \notin past => db[c] = "Pending"

\* What with_db() reads after a crash at any moment is enough: every card that is
\* still to be decided (PendingSurvives), none that was sent (SentAtMostOnce).
TableIsEnough == TypeOK /\ PendingSurvives /\ SentAtMostOnce

\* A card in memory moves only from Pending to a decision or to expiry, and from
\* Approved to Sent; only a decided card is pruned.  (A restart begins anew.)
Moves == {<<"Absent", "Pending">>, <<"Pending", "Approved">>, <<"Pending", "Dismissed">>,
          <<"Pending", "Expired">>, <<"Approved", "Sent">>, <<"Approved", "Absent">>,
          <<"Dismissed", "Absent">>, <<"Expired", "Absent">>, <<"Sent", "Absent">>,
          <<"Pending", "Absent">>}

\* (expire_old may expire and prune a card in one pass.)
DecisionsAreFinal ==
    [][spent'["restart"] = spent["restart"] =>
         \A c \in Cards :
            /\ mem'[c] # mem[c] => <<mem[c], mem'[c]>> \in Moves
            /\ mem[c] = "Pending" /\ mem'[c] = "Absent" => c \in past]_vars

\* A pending card whose time has passed is eventually taken off the queue.
PastIsExpired ==
    \A c \in Cards : mem[c] = "Pending" /\ c \in past ~> mem[c] # "Pending"

\* A card's life has one direction and an end: a decision stands (DecisionsAreFinal)
\* and a card nobody decides runs out (PastIsExpired).
CardsMoveOn == DecisionsAreFinal /\ PastIsExpired
=============================================================================
