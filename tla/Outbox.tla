------------------------------- MODULE Outbox -------------------------------
(***************************************************************************)
(* What the approval-card system promises the user about outbound mail:    *)
(* nothing leaves without an approval of its own.  An approval opens a     *)
(* card, a delivery closes it again, and an approval may be forfeited (the *)
(* mail server refuses, the process dies), but never used twice.           *)
(***************************************************************************)
EXTENDS Naturals

CONSTANT Cards

VARIABLES
    granted,    \* cards whose approval has not been used yet
    sent        \* how many mails have gone out for each card

OutboxInit == granted = {} /\ sent = [c \in Cards |-> 0]

Grant(c) ==
    /\ c \notin granted
    /\ granted' = granted \cup {c}
    /\ UNCHANGED sent

Deliver(c) ==
    /\ c \in granted
    /\ granted' = granted \ {c}
    /\ sent' = [sent EXCEPT ![c] = @ + 1]

Forfeit ==
    /\ granted' \in SUBSET granted
    /\ UNCHANGED sent

OutboxNext == Forfeit \/ \E c \in Cards : Grant(c) \/ Deliver(c)

OutboxSpec == OutboxInit /\ [][OutboxNext]_<<granted, sent>>
=============================================================================
