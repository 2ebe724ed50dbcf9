----------------------------- MODULE CardStream -----------------------------
(***************************************************************************)
(* Cards on their way to a client and back: the broadcast channel of       *)
(* CardQueue, one WebSocket connection (snapshot, subscription, lag and    *)
(* resynchronisation), the list the iOS client keeps, the actions that the *)
(* client and REST requests ask for, and ask_user, whose tool call waits   *)
(* for the answer to a MultipleChoice card.                                *)
(*                                                                         *)
(* approve, dismiss, edit and expire_old broadcast under the lock that     *)
(* guards the status; push and refine broadcast after they have released   *)
(* it.  Forwarding an event and applying it at the client is one step: the *)
(* socket keeps the order, and a delay in it is a delay in the channel.    *)
(***************************************************************************)
EXTENDS Naturals, FiniteSets, Sequences, SequencesExt

CONSTANTS
    Cards,      \* card ids
    Questions,  \* the MultipleChoice cards of ask_user; they never expire
    Capacity,   \* of the broadcast channel (256)
    MaxUp,      \* bound: actions of the client under way
    MaxDrops,   \* bound: broken connections
    MaxRefines, \* bound: refinements
    None

ASSUME CardsAssumption == IsFiniteSet(Cards) /\ Questions \subseteq Cards
ASSUME CapacityAssumption == Capacity \in Nat \ {0}
ASSUME BoundsAssumption == MaxUp \in Nat /\ MaxDrops \in Nat /\ MaxRefines \in Nat
ASSUME NoneAssumption == None \notin [c : Cards, r : {"Selected", "Dismissed", "Refined"}]

VARIABLES
    card,       \* status of each card in the queue
    push,       \* each push: "new", "registered", "queued", "announced"
    refining,   \* refinements: for each card "no", "llm" or "applied"
    past,       \* cards whose expires_at has passed
    conn,       \* the connection: "off", "synced" (no subscription yet), "live"
    rx, lagged, \* its receiver: events not yet taken, and whether some were lost
    up,         \* actions on their way from the client
    busy, rest, \* what the handler is still doing: of the connection, of a request
    list,       \* the client's list: how often it shows each card
    asker,      \* the ask_user call of each question
    registry,   \* ChoiceRegistry: questions with a sender
    plain,      \* history: questions decided without picking one of their options
    amiss,      \* history: cards that a race has put out of step at the client
    drops, refines

server == <<card, push, refining, past>>
link == <<conn, rx, lagged>>
asking == <<asker, registry, plain>>
vars == <<server, link, up, busy, rest, list, asking, amiss, drops, refines>>

CardStatus == {"Absent", "Pending", "Approved", "Dismissed", "Expired", "Sent"}
Events == [k : {"new", "update", "expired", "refreshed"}, c : Cards]
\* What a client asks for; "select" is SelectOption with the index of an option,
\* "outside" one with any other index.
Acts == {"approve", "dismiss", "edit", "select", "outside", "refine"}
Resolves == [c : Questions, r : {"Selected", "Dismissed"}] \cup {None}

TypeOK ==
    /\ card \in [Cards -> CardStatus]
    /\ push \in [Cards -> {"new", "registered", "queued", "announced"}]
    /\ refining \in [Cards -> {"no", "llm", "applied"}]
    /\ past \subseteq Cards \ Questions
    /\ conn \in {"off", "synced", "live"}
    /\ rx \in Seq(Events) /\ Len(rx) <= Capacity /\ lagged \in BOOLEAN
    /\ up \in Seq([act : Acts, c : Cards])
    /\ busy \in Resolves \cup [c : Cards, r : {"Refined"}] /\ rest \in Resolves
    /\ list \in [Cards -> Nat]
    /\ asker \in [Questions -> {"idle", "waiting", "Selected", "Dismissed", "timeout", "dropped"}]
    /\ registry \subseteq Questions /\ plain \subseteq Questions
    /\ amiss \subseteq Cards
    /\ drops \in 0 .. MaxDrops /\ refines \in 0 .. MaxRefines

Init ==
    /\ card = [c \in Cards |-> "Absent"]
    /\ push = [c \in Cards |-> "new"]
    /\ refining = [c \in Cards |-> "no"]
    /\ past = {} /\ conn = "off" /\ rx = <<>> /\ lagged = FALSE
    /\ up = <<>> /\ busy = None /\ rest = None
    /\ list = [c \in Cards |-> 0]
    /\ asker = [q \in Questions |-> "idle"]
    /\ registry = {} /\ plain = {} /\ amiss = {}
    /\ drops = 0 /\ refines = 0

-----------------------------------------------------------------------------
(* The queue and its broadcast channel *)

is_expired(c) == c \in past

\* CardQueue::pending
pending == {c \in Cards : card[c] = "Pending" /\ ~is_expired(c)}

\* tx.send for each event: a full receiver loses its oldest events.
Broadcast(evs) ==
    IF conn = "live"
      THEN LET all == rx \o evs
               lost == IF Len(all) > Capacity THEN Len(all) - Capacity ELSE 0
           IN /\ rx' = SubSeq(all, lost + 1, Len(all))
              /\ lagged' = (lagged \/ lost > 0)
      ELSE UNCHANGED <<rx, lagged>>

\* An event of card c that is sent between snapshot and subscription never arrives.
Missed(c) == IF conn = "synced" THEN {c} ELSE {}

\* approve, dismiss and edit: only a pending card, expired or not, is decided.
Decide(c, s) ==
    /\ card[c] = "Pending"
    /\ card' = [card EXCEPT ![c] = s]
    /\ Broadcast(<<[k |-> "update", c |-> c]>>)
    /\ amiss' = amiss \cup Missed(c)

NoDecision == UNCHANGED <<card, rx, lagged, amiss>>

\* AskUserTool::execute: the sender is registered first, then the card pushed.
AskRegister(q) ==
    /\ push[q] = "new" /\ push' = [push EXCEPT ![q] = "registered"]
    /\ registry' = registry \cup {q}
    /\ UNCHANGED <<card, refining, past, link, up, busy, rest, list, asker, plain, amiss, drops, refines>>

\* push, first half: into the queue, under the lock.
PushQueue(c) ==
    /\ push[c] = IF c \in Questions THEN "registered" ELSE "new"
    /\ push' = [push EXCEPT ![c] = "queued"]
    /\ card' = [card EXCEPT ![c] = "Pending"]
    /\ UNCHANGED <<refining, past, link, up, busy, rest, list, asking, amiss, drops, refines>>

\* push, second half: NewCard.  A card that was decided meanwhile is announced all
\* the same.  ask_user goes on to wait for its answer.
PushAnnounce(c) ==
    /\ push[c] = "queued" /\ push' = [push EXCEPT ![c] = "announced"]
    /\ Broadcast(<<[k |-> "new", c |-> c]>>)
    /\ amiss' = amiss \cup Missed(c) \cup (IF card[c] = "Pending" THEN {} ELSE {c})
    /\ asker' = IF c \in Questions /\ asker[c] = "idle" THEN [asker EXCEPT ![c] = "waiting"]
                                                        ELSE asker
    /\ UNCHANGED <<card, refining, past, conn, up, busy, rest, list, registry, plain, drops, refines>>

\* A refinement of c ends, and with it the connection's handler if it is its own.
RefineOver(c) == busy' = IF busy = [c |-> c, r |-> "Refined"] THEN None ELSE busy

\* refine, after the model's answer: that the model fails, or that the card is no
\* longer pending, is an error.
RefineApply(c, ok) ==
    /\ refining[c] = "llm"
    /\ IF ok /\ card[c] = "Pending"
         THEN refining' = [refining EXCEPT ![c] = "applied"] /\ UNCHANGED busy
         ELSE refining' = [refining EXCEPT ![c] = "no"] /\ RefineOver(c)
    /\ UNCHANGED <<card, push, past, link, up, rest, list, asking, amiss, drops, refines>>

\* CardRefreshed carries the card as it was under the lock: pending.  If the card is
\* not announced yet, the client will show it twice.
RefineAnnounce(c) ==
    /\ refining[c] = "applied" /\ refining' = [refining EXCEPT ![c] = "no"]
    /\ Broadcast(<<[k |-> "refreshed", c |-> c]>>)
    /\ amiss' = amiss \cup Missed(c)
                     \cup (IF card[c] = "Pending" /\ push[c] # "queued" THEN {} ELSE {c})
    /\ RefineOver(c)
    /\ UNCHANGED <<card, push, past, conn, up, rest, list, asking, drops, refines>>

TimePasses(c) ==
    /\ c \notin Questions /\ card[c] = "Pending" /\ past' = past \cup {c} /\ past' # past
    /\ UNCHANGED <<card, push, refining, link, up, busy, rest, list, asking, amiss, drops, refines>>

\* Mutant: the cards expire without a word to the clients.
expire_old_Silent ==
    LET old == {c \in past : card[c] = "Pending"}
    IN /\ old # {}
       /\ card' = [c \in Cards |-> IF c \in old THEN "Expired" ELSE card[c]]
       /\ UNCHANGED <<push, refining, past, link, up, busy, rest, list, asking, amiss, drops, refines>>

\* expire_old, the half under the lock.
expire_old ==
    LET old == {c \in past : card[c] = "Pending"}
    IN /\ old # {}
       /\ card' = [c \in Cards |-> IF c \in old THEN "Expired" ELSE card[c]]
       /\ Broadcast(SetToSeq([k : {"expired"}, c : old]))
       /\ amiss' = amiss \cup UNION {Missed(c) : c \in old}
       /\ UNCHANGED <<push, refining, past, conn, up, busy, rest, list, asking, drops, refines>>

\* mark_sent: the reply of an approved card has gone out.
mark_sent(c) ==
    /\ c \notin Questions /\ card[c] = "Approved"
    /\ card' = [card EXCEPT ![c] = "Sent"]
    /\ Broadcast(<<[k |-> "update", c |-> c]>>)
    /\ UNCHANGED <<push, refining, past, conn, up, busy, rest, list, asking, amiss, drops, refines>>

-----------------------------------------------------------------------------
(* ask_user and its registry *)

\* ChoiceRegistry::resolve: removes the sender and sends; an answer to a call that
\* is gone is dropped.
resolve(call) ==
    IF call.c \in registry
      THEN /\ registry' = registry \ {call.c}
           /\ asker' = IF asker[call.c] \in {"idle", "waiting"}
                         THEN [asker EXCEPT ![call.c] = call.r] ELSE asker
      ELSE UNCHANGED <<registry, asker>>

\* The tool's own timeout cleans up.
AskTimeout(q) ==
    /\ asker[q] = "waiting"
    /\ asker' = [asker EXCEPT ![q] = "timeout"]
    /\ registry' = registry \ {q}
    /\ UNCHANGED <<server, link, up, busy, rest, list, plain, amiss, drops, refines>>

\* execute_chat_tool's timeout has the same length and starts earlier: it drops the
\* call where it waits, and nothing cleans up.
AskDropped(q) ==
    /\ asker[q] = "waiting"
    /\ asker' = [asker EXCEPT ![q] = "dropped"]
    /\ UNCHANGED <<server, link, up, busy, rest, list, registry, plain, amiss, drops, refines>>

-----------------------------------------------------------------------------
(* Actions on cards, through the socket or REST *)

\* Mutant: a dismissed question is not resolved.
on_decision_SelectOnly(act, c) ==
    IF c \in Questions /\ act = "select" THEN [c |-> c, r |-> "Selected"] ELSE None

\* What the handler of a MultipleChoice card does next.  Approve picks no option, and
\* for an index that is none of the card's options on_select_option only warns: in
\* both cases the card is decided and the call goes on waiting.
on_decision(act, c) ==
    IF c \in Questions /\ act = "select" THEN [c |-> c, r |-> "Selected"]
    ELSE IF c \in Questions /\ act = "dismiss" THEN [c |-> c, r |-> "Dismissed"]
    ELSE None

StatusOf(act) == IF act = "dismiss" THEN "Dismissed" ELSE "Approved"

Plainly(act, c) == IF c \in Questions /\ act \in {"approve", "edit", "outside"} THEN {c} ELSE {}

\* refine, first half: the card must be pending (one refinement of a card at a time).
Refinable(c) == card[c] = "Pending" /\ refining[c] = "no"
RefineLook(c) == refining' = IF Refinable(c) THEN [refining EXCEPT ![c] = "llm"] ELSE refining

\* handle_client_message: the next action of the client.  The connection forwards
\* nothing until the handler is done.
HandleAction ==
    /\ conn = "live" /\ up # <<>> /\ busy = None
    /\ LET a == Head(up)
       IN IF a.act = "refine"
            THEN /\ RefineLook(a.c)
                 /\ busy' = IF Refinable(a.c) THEN [c |-> a.c, r |-> "Refined"] ELSE None
                 /\ NoDecision /\ UNCHANGED plain
            ELSE /\ UNCHANGED refining
                 /\ IF card[a.c] = "Pending"
                      THEN /\ Decide(a.c, StatusOf(a.act))
                           /\ busy' = on_decision(a.act, a.c)
                           /\ plain' = plain \cup Plainly(a.act, a.c)
                      ELSE NoDecision /\ UNCHANGED <<busy, plain>>
    /\ up' = Tail(up)
    /\ UNCHANGED <<push, past, conn, rest, list, asker, registry, drops, refines>>

HandleResolve ==
    /\ busy \in Resolves \ {None} /\ resolve(busy) /\ busy' = None
    /\ UNCHANGED <<server, link, up, rest, list, plain, amiss, drops, refines>>

\* approve_card, dismiss_card and edit_card: another client of the REST interface.
RestDecides(c, act) ==
    /\ rest = None /\ act \in {"approve", "dismiss", "edit"}
    /\ Decide(c, StatusOf(act))
    /\ rest' = on_decision(act, c)
    /\ plain' = plain \cup Plainly(act, c)
    /\ UNCHANGED <<push, refining, past, conn, up, busy, list, asker, registry, drops, refines>>

\* refine_card of the REST interface: nothing waits for it.
refine_card(c) ==
    /\ Refinable(c) /\ refines < MaxRefines /\ refines' = refines + 1
    /\ RefineLook(c)
    /\ UNCHANGED <<card, push, past, link, up, busy, rest, list, asking, amiss, drops>>

RestResolve ==
    /\ rest # None /\ resolve(rest) /\ rest' = None
    /\ UNCHANGED <<server, link, up, busy, list, plain, amiss, drops, refines>>

-----------------------------------------------------------------------------
(* The connection *)

Synced(l) == l' = [c \in Cards |-> IF c \in pending THEN 1 ELSE 0]

\* A snapshot also shows a card whose NewCard is still to come: the client gets it
\* twice.
ShownTwice(evs) ==
    {c \in pending : push[c] = "queued" \/ \E i \in DOMAIN evs : evs[i] = [k |-> "new", c |-> c]}

\* handle_socket starts: the pending cards.
Connect ==
    /\ conn = "off" /\ conn' = "synced"
    /\ Synced(list)
    /\ amiss' = ShownTwice(<<>>)
    /\ UNCHANGED <<server, rx, lagged, up, busy, rest, asking, drops, refines>>

\* ... and only then the subscription.
Subscribe ==
    /\ conn = "synced" /\ conn' = "live"
    /\ UNCHANGED <<server, rx, lagged, up, busy, rest, list, asking, amiss, drops, refines>>

\* The client's applyMessage.
apply_message(e) ==
    list' = [list EXCEPT ![e.c] =
        CASE e.k = "new" -> @ + 1
          [] e.k = "update" -> IF @ > 0 THEN @ - 1 ELSE 0   \* the first of them
          [] e.k = "expired" -> 0
          [] e.k = "refreshed" -> IF @ > 0 THEN @ ELSE 1]

Forward ==
    /\ conn = "live" /\ busy = None /\ ~lagged /\ rx # <<>>
    /\ apply_message(Head(rx))
    /\ rx' = Tail(rx)
    /\ UNCHANGED <<server, conn, lagged, up, busy, rest, asking, amiss, drops, refines>>

\* Mutant: a lag is only logged.
Resync_Logged ==
    /\ conn = "live" /\ busy = None /\ lagged
    /\ lagged' = FALSE
    /\ UNCHANGED <<server, conn, rx, up, busy, rest, list, asking, amiss, drops, refines>>

\* RecvError::Lagged: a new snapshot; the events still in the receiver follow it.
Resync ==
    /\ conn = "live" /\ busy = None /\ lagged
    /\ lagged' = FALSE
    /\ Synced(list)
    /\ amiss' = amiss \cup ShownTwice(rx)
    /\ UNCHANGED <<server, conn, rx, up, busy, rest, asking, drops, refines>>

\* The connection breaks: what is under way is lost, the list stays.
Disconnect ==
    /\ conn # "off" /\ busy = None /\ drops < MaxDrops
    /\ drops' = drops + 1
    /\ conn' = "off" /\ rx' = <<>> /\ lagged' = FALSE /\ up' = <<>>
    /\ UNCHANGED <<server, busy, rest, list, asking, amiss, refines>>

-----------------------------------------------------------------------------
(* The client: an action is sent, and the card disappears at once *)

ClientActs(c, act) ==
    /\ conn # "off" /\ list[c] > 0 /\ Len(up) < MaxUp
    /\ act \in {"select", "outside"} <=> (c \in Questions /\ act # "dismiss")
    /\ IF act = "refine" THEN refines < MaxRefines /\ refines' = refines + 1 /\ UNCHANGED list
                         ELSE UNCHANGED refines /\ list' = [list EXCEPT ![c] = 0]
    /\ up' = Append(up, [act |-> act, c |-> c])
    /\ UNCHANGED <<server, link, busy, rest, asking, amiss, drops>>

-----------------------------------------------------------------------------
Next ==
    \/ expire_old \/ HandleAction \/ HandleResolve \/ RestResolve
    \/ Connect \/ Subscribe \/ Forward \/ Resync \/ Disconnect
    \/ \E q \in Questions : AskRegister(q) \/ AskTimeout(q) \/ AskDropped(q)
    \/ \E c \in Cards : \/ PushQueue(c) \/ PushAnnounce(c) \/ TimePasses(c)
                        \/ refine_card(c) \/ RefineAnnounce(c) \/ mark_sent(c)
                        \/ \E ok \in BOOLEAN : RefineApply(c, ok)
                        \/ \E act \in Acts : RestDecides(c, act) \/ ClientActs(c, act)

Spec == Init /\ [][Next]_vars

-----------------------------------------------------------------------------
(* Properties *)

Quiet == conn = "live" /\ rx = <<>> /\ ~lagged /\ up = <<>>

\* When nothing is under way, the client shows each pending card once and no other
\* card, unless a race put that card out of step: an event between snapshot and
\* subscription (handle_socket), a card announced after it was decided (push,
\* refine), or one that a snapshot or a refinement showed before its NewCard.  A card
\* past its expiry may be shown or not, but only until expire_old has announced it.
ListDiffersHasACause ==
    Quiet => \A c \in Cards \ amiss :
                /\ card[c] # "Pending" => list[c] = 0
                /\ card[c] = "Pending" /\ push[c] # "queued" =>
                      IF is_expired(c) THEN list[c] \in {0, 1} ELSE list[c] = 1

\* The phone's card list is the queue's or a known race is to blame
\* (ListDiffersHasACause), and no buffer outgrows its bound (TypeOK).
CardListHasACause == TypeOK /\ ListDiffersHasACause

\* An ask_user call never waits for a question that has been answered: the answer
\* is on its way to it (resolve), unless the card was decided without picking one of
\* its options (Approve, or an index past them), and the call waits for its timeout.
AnswerReachesAsker ==
    \A q \in Questions :
        asker[q] = "waiting" /\ card[q] # "Pending" =>
            \/ q \in plain
            \/ \E call \in {busy, rest} \cap Resolves : call # None /\ call.c = q
=============================================================================
