------------------------------ MODULE CardPath ------------------------------
(***************************************************************************)
(* The data of one card, from what it is made of to what is sent: a mail   *)
(* through the poller, the message row, the rules, the triage reply and    *)
(* the reply card (channels/email.rs, pipeline/), a chat message through   *)
(* the reply drafter, the cards the tools make; its row in the store and   *)
(* the card read back from it after a restart (store/libsql_backend.rs);   *)
(* refinement, edit, approval and the mail that goes out (cards/).  The    *)
(* interleavings of these steps are CardQueue's and EmailIntake's subject; *)
(* this module follows the contents.                                       *)
(***************************************************************************)
EXTENDS Integers, FiniteSets, Sequences, Sift

CONSTANTS
    Us,             \* config.from_address, as a person
    Junk,           \* persons whose address does not parse
    AllowedSenders, \* persons config.allowed_senders lets through
    Mails,          \* incoming mails
    TriageReplies,  \* what the model answers to the triage prompt
    Suggestions,    \* what the model answers to the drafting prompt
    MaxSuggestions  \* config.max_suggestions

ASSUME CardPathAssumption ==
    /\ Us \notin Junk
    /\ MaxSuggestions \in Nat
    /\ \A m \in Mails : {<<m.from>>, m.to, m.cc} \subseteq Seq([who : STRING, up : BOOLEAN])

VARIABLE path

-----------------------------------------------------------------------------
(* Addresses: `who' is the lower-case form, `up' another spelling of it.   *)

NoAddr == [who |-> "", up |-> FALSE]
lower(a) == a.who
Parses(a) == a.who \notin Junk \cup {""}

Places(list) == 1 .. Len(list)
Parsing(list) == {i \in Places(list) : Parses(list[i])}

\* The elements of the list at the places U, in their order.
Those(list, U) ==
    LET keep == Sift([i \in Places(list) |-> i], U)
    IN  [k \in Places(keep) |-> list[keep[k]]]

\* Bug for mutation testing: an address already listed is listed again.
AppendOther(seen, list) == Those(list, {i \in Places(list) : lower(list[i]) \notin seen})

\* The addresses of the list that are not in `seen', each person once.
AppendNew(seen, list) ==
    Those(list, {i \in Places(list) :
                    /\ lower(list[i]) \notin seen
                    /\ \A j \in 1 .. i - 1 : lower(list[j]) # lower(list[i])})

build_reply_metadata(mail) ==
    [t |-> "object", reply_to |-> mail.from,
     cc |-> AppendNew({Us, lower(mail.from)}, mail.to \o mail.cc), tone |-> FALSE]

NoMeta == [t |-> "absent", reply_to |-> NoAddr, cc |-> <<>>, tone |-> FALSE]

is_sender_allowed(from) == lower(from) \in AllowedSenders

-----------------------------------------------------------------------------
(* Model answers.  An answer is a sequence of tokens: "json" (the value    *)
(* asked for), "fence_json", "fence" (code-block marks) and "prose".       *)

IndexOf(s, P(_)) == CHOOSE i \in 1 .. Len(s) : P(s[i]) /\ \A j \in 1 .. i - 1 : ~P(s[j])
Has(s, P(_)) == \E i \in 1 .. Len(s) : P(s[i])
After(s, i) == SubSeq(s, i + 1, Len(s))

\* A code-block mark of either kind contains the plain mark.
IsFence(x) == x \in {"fence", "fence_json"}
IsJsonFence(x) == x = "fence_json"
IsJson(x) == x = "json"

Fenced(s, Open(_)) == Has(s, Open) /\ Has(After(s, IndexOf(s, Open)), IsFence)
Inner(s, Open(_)) ==
    LET after == After(s, IndexOf(s, Open))
    IN  SubSeq(after, 1, IndexOf(after, IsFence) - 1)

\* The plain search of a "fence_json" leaves the word json before the value.
extract_json(s) ==
    IF s # <<>> /\ s[1] = "json" THEN s
    ELSE IF Fenced(s, IsJsonFence) THEN Inner(s, IsJsonFence)
    ELSE IF /\ Fenced(s, IsFence)
            /\ s[IndexOf(s, IsFence)] = "fence"
            /\ Inner(s, IsFence) # <<>>
            /\ Inner(s, IsFence)[1] = "json"
         THEN Inner(s, IsFence)
    ELSE IF Has(s, IsJson)
         THEN SubSeq(s, IndexOf(s, IsJson),
                     CHOOSE j \in 1 .. Len(s) : s[j] = "json"
                               /\ \A k \in j + 1 .. Len(s) : s[k] # "json")
    ELSE s

extract_json_object(raw) == extract_json(raw)
extract_json_array(raw) == extract_json(raw)

\* serde accepts exactly one value and nothing beside it.
FromStr(s) == s = <<"json">>

TriageAction == {"ignore", "notify", "draft_reply", "digest"}

parse_triage_response(reply) ==
    IF ~FromStr(extract_json_object(reply.raw)) THEN "error"
    ELSE IF reply.action \notin TriageAction THEN "error"
    ELSE IF reply.action = "draft_reply" /\ reply.draft = "" THEN "error"
    ELSE reply.action

\* The first suggestions, without the blank ones.
parse_suggestions(answer) ==
    IF ~FromStr(extract_json_array(answer.raw)) THEN <<>>
    ELSE SelectSeq(SubSeq(answer.list, 1, IF Len(answer.list) < MaxSuggestions
                                          THEN Len(answer.list) ELSE MaxSuggestions),
                   LAMBDA x : x.text # "")

\* A stable sort by falling confidence: the first of the best.
Best(drafts) ==
    drafts[CHOOSE i \in 1 .. Len(drafts) :
              /\ \A j \in 1 .. Len(drafts) : drafts[j].confidence <= drafts[i].confidence
              /\ \A j \in 1 .. i - 1 : drafts[j].confidence < drafts[i].confidence]

should_draft(content) == content \notin {"empty", "command", "reaction"}

-----------------------------------------------------------------------------
(* Rules before the model: a mail carries the set of patterns it matches.  *)

IgnorePatterns == {"bulk_sender", "unsubscribe_subject", "unsubscribe_footer"}
NotifyPatterns == {"shipping", "receipt"}

default_rules == <<IgnorePatterns, NotifyPatterns>>

evaluate(mail) ==
    IF mail.marks \cap default_rules[1] # {} THEN "ignore"
    ELSE IF mail.marks \cap default_rules[2] # {} THEN "notify"
    ELSE "none"

-----------------------------------------------------------------------------
(* Cards.  `text' is the suggested reply, the draft body, the description  *)
(* or the question, whichever the kind of card has.                        *)

CardTypes == {"reply", "compose", "action", "multiple_choice"}

Card(type, channel, text, confidence, meta, recipient, todo) ==
    [type |-> type, channel |-> channel, text |-> text, confidence |-> confidence,
     meta |-> meta, recipient |-> recipient, todo |-> todo]

new_reply(channel, text, confidence, meta) ==
    Card("reply", channel, text, confidence, meta, NoAddr, FALSE)
new_compose(recipient, text) == Card("compose", "email", text, 9, NoMeta, recipient, TRUE)
new_action(text) == Card("action", "", text, 0, NoMeta, NoAddr, TRUE)
new_multiple_choice(text) == Card("multiple_choice", "", text, 0, NoMeta, NoAddr, FALSE)

route_to_card(meta, reply) ==
    CASE reply.action = "notify" -> new_reply("email", "notification", 0, meta)
      [] reply.action = "digest" -> new_reply("email", "digest", 0, meta)
      [] reply.action = "draft_reply" ->
            new_reply("email", reply.draft, reply.confidence,
                      [meta EXCEPT !.tone = reply.tone])

\* The row: the kind in a column of its own, the inner object in `payload'
\* (`added' is the suggested_reply key an update may add to it).
serialize_payload_inner(card) ==
    [channel |-> card.channel, text |-> card.text, confidence |-> card.confidence,
     meta |-> card.meta, recipient |-> card.recipient, added |-> ""]

insert_card(card) ==
    [card_type |-> card.type, payload |-> serialize_payload_inner(card),
     status |-> "pending", todo |-> card.todo]

\* json_set(payload, '$.suggested_reply', ...) whatever the kind of card.
update_card_reply(row, text, status) ==
    IF row.card_type = "reply"
    THEN [row EXCEPT !.payload.text = text, !.status = status]
    ELSE [row EXCEPT !.payload.added = text, !.status = status]

fallback_reply_payload == new_reply("", "", 0, NoMeta)

\* Bug for mutation testing: a compose row is read with the reply's fields.
RowAsReply(row) ==
    IF row.card_type \in {"reply", "compose"}
    THEN [new_reply(row.payload.channel, row.payload.text, row.payload.confidence,
                    row.payload.meta) EXCEPT !.todo = row.todo]
    ELSE [fallback_reply_payload EXCEPT !.todo = row.todo]

\* Action rows are stored without the tag their reader wants, and for
\* multiple_choice rows there is no reader.
row_to_card(row) ==
    LET p == row.payload
        card == CASE row.card_type = "reply" ->
                        new_reply(p.channel, p.text, p.confidence, p.meta)
                  [] row.card_type = "compose" ->
                        Card("compose", p.channel, p.text, p.confidence, NoMeta, p.recipient, FALSE)
                  [] row.card_type = "action" -> new_action("Unknown")
                  [] OTHER -> fallback_reply_payload
    IN  [card EXCEPT !.todo = row.todo]

-----------------------------------------------------------------------------
(* Mail that goes out: <<>> when nothing is sent.                          *)

\* The first is the To address; a Cc address that does not parse is skipped.
send_reply_email(meta, body) ==
    IF meta.t # "object" \/ ~Parses(meta.reply_to) THEN <<>>
    ELSE <<[to |-> <<meta.reply_to>> \o Those(meta.cc, Parsing(meta.cc)), body |-> body]>>

send_new_email(recipient, body) ==
    IF ~Parses(recipient) THEN <<>> ELSE <<[to |-> <<recipient>>, body |-> body]>>

send_reply(card) ==
    IF card.channel = "email" THEN send_reply_email(card.meta, card.text) ELSE <<>>

send_compose(card) ==
    IF card.channel = "email" THEN send_new_email(card.recipient, card.text) ELSE <<>>

-----------------------------------------------------------------------------
(* Stages: "mail" (on the server), "stored" (message row), "chat" (a chat  *)
(* message), "queued" (pending card), "decided", "sent", "unsent", "none"  *)
(* (no card).  `wanted' is the text the user decided on; `edited',         *)
(* `refined' and `restarted' bound those steps to one each.                *)

NoPath == [stage |-> "idle"]

From(stage, mail, content) ==
    [stage |-> stage, mail |-> mail, content |-> content, meta |-> NoMeta,
     card |-> fallback_reply_payload, row |-> insert_card(fallback_reply_payload),
     wanted |-> "", edited |-> FALSE, refined |-> FALSE, restarted |-> FALSE, out |-> <<>>]

NoMail == [from |-> NoAddr, to |-> <<>>, cc |-> <<>>, marks |-> {}]

Queued(p, card) == [p EXCEPT !.stage = "queued", !.card = card, !.row = insert_card(card)]

\* Cards made by the message tool, the todo approval gate and ask_user.
ToolCards(recipients) ==
    {new_compose(r, "body") : r \in recipients}
      \cup {new_action("description"), new_multiple_choice("question")}

Contents == {"text", "empty", "command", "reaction"}

PathInit ==
    path \in {From("mail", m, "") : m \in Mails}
               \cup {From("chat", NoMail, c) : c \in Contents}
               \cup {Queued(From("queued", NoMail, ""), c) :
                        c \in ToolCards({[who |-> "bob", up |-> FALSE]}
                                          \cup {[who |-> j, up |-> FALSE] : j \in Junk})}

\* poll_once: own mail and senders that are not allowed are dropped.
Poll ==
    /\ path.stage = "mail"
    /\ path' = IF lower(path.mail.from) = Us \/ ~is_sender_allowed(path.mail.from)
               THEN [path EXCEPT !.stage = "none"]
               ELSE [path EXCEPT !.stage = "stored",
                                 !.meta = build_reply_metadata(path.mail)]

\* stored_to_inbound takes the metadata out of the row again.
stored_to_inbound(p) == p.meta

ProcessByRule ==
    /\ path.stage = "stored"
    /\ evaluate(path.mail) # "none"
    /\ path' = IF evaluate(path.mail) = "ignore"
               THEN [path EXCEPT !.stage = "none"]
               ELSE Queued(path, route_to_card(stored_to_inbound(path), [action |-> "notify"]))

\* An answer that is not understood leaves the message pending.
ProcessByModel(reply) ==
    /\ path.stage = "stored"
    /\ evaluate(path.mail) = "none"
    /\ LET action == parse_triage_response(reply)
       IN  path' = IF action = "error" THEN path
                   ELSE IF action = "ignore" THEN [path EXCEPT !.stage = "none"]
                   ELSE Queued(path, route_to_card(stored_to_inbound(path), reply))

\* process_user_input also has a reply drafted for whatever is said in a chat.
ChatCard(draft) == new_reply("telegram", draft.text, draft.confidence, NoMeta)

Draft(answer) ==
    /\ path.stage = "chat"
    /\ LET drafts == parse_suggestions(answer)
       IN  path' = IF ~should_draft(path.content) \/ drafts = <<>>
                   THEN [path EXCEPT !.stage = "none"]
                   ELSE Queued(path, ChatCard(Best(drafts)))

\* Only reply cards can be refined; the new confidence is not written to the row.
Refine ==
    /\ path.stage = "queued"
    /\ ~path.refined
    /\ path.card.type = "reply"
    /\ path' = [path EXCEPT !.refined = TRUE,
                            !.card.text = "refined",
                            !.card.confidence = 8,
                            !.row = update_card_reply(@, "refined", "pending")]

Restart ==
    /\ path.stage = "queued"
    /\ ~path.restarted
    /\ path' = [path EXCEPT !.restarted = TRUE, !.card = row_to_card(path.row)]

ApproveCard ==
    /\ path.stage = "queued"
    /\ path' = [path EXCEPT !.stage = "decided", !.wanted = path.card.text,
                            !.row.status = "approved"]

\* Bug for mutation testing: the edit is only written to the row.
EditRowOnly ==
    /\ path.stage = "queued"
    /\ path' = [path EXCEPT !.stage = "decided", !.wanted = "edited", !.edited = TRUE,
                            !.row = update_card_reply(@, "edited", "approved")]

\* Only a reply card takes the new text.
EditCard ==
    /\ path.stage = "queued"
    /\ path' = [path EXCEPT !.stage = "decided", !.wanted = "edited", !.edited = TRUE,
                            !.card.text = IF path.card.type = "reply" THEN "edited" ELSE @,
                            !.row = update_card_reply(@, "edited", "approved")]

\* MessageHandler and ComposeHandler; the others send no mail.
SendCard ==
    /\ path.stage = "decided"
    /\ LET out == CASE path.card.type = "reply" -> send_reply(path.card)
                    [] path.card.type = "compose" -> send_compose(path.card)
                    [] OTHER -> <<>>
       IN  path' = [path EXCEPT !.stage = IF out = <<>> THEN "unsent" ELSE "sent",
                                !.row.status = IF out = <<>> THEN @ ELSE "sent",
                                !.out = out]

PathNext ==
    \/ Poll
    \/ ProcessByRule
    \/ path.stage = "stored" /\ \E reply \in TriageReplies : ProcessByModel(reply)
    \/ path.stage = "chat" /\ \E answer \in Suggestions : Draft(answer)
    \/ Refine
    \/ Restart
    \/ ApproveCard
    \/ EditCard
    \/ SendCard

PathSpec == PathInit /\ [][PathNext]_path

-----------------------------------------------------------------------------
(* Properties.                                                             *)

People(list) == {lower(list[i]) : i \in 1 .. Len(list)}

\* A reply that is sent goes to the sender of the mail, and to every other
\* person the mail was addressed to whose address parses: each once,
\* however the address was spelled, and never to ourselves.
ReplyReachesEveryoneOnce ==
    path.stage = "sent" /\ path.mail # NoMail =>
        LET to == path.out[1].to
            all == <<path.mail.from>> \o path.mail.to \o path.mail.cc
        IN  /\ People(to) = People(Those(all, Parsing(all))) \ {Us}
            /\ Len(to) = Cardinality(People(to))
            /\ to[1] = path.mail.from

\* What is sent is the text the user decided on: the one shown when the card
\* was approved or the one typed in an edit.  The exception is an edited
\* compose card: its first draft goes out, although compose.rs takes the
\* card to have the edited text by then.
SentTextIsTheUsers ==
    path.stage = "sent" =>
        path.out[1].body = path.wanted \/ (path.edited /\ path.card.type = "compose")

\* A mail that leaves has the right readers (ReplyReachesEveryoneOnce) and
\* the right words (SentTextIsTheUsers), and no card is of a kind unknown to
\* the senders (CardTypes).
SentAsDecided ==
    /\ path.stage # "idle" => path.card.type \in CardTypes
    /\ ReplyReachesEveryoneOnce /\ SentTextIsTheUsers

\* A restart keeps the contents of reply and compose cards, but for the
\* confidence of a refined reply; it loses the text of action cards, not
\* their todo, and turns a question into an empty reply that sends nothing.
ReloadKeepsContents ==
    path'.stage = "queued" /\ path.stage = "queued" /\ path'.restarted /\ ~path.restarted =>
        CASE path.card.type \in {"reply", "compose"} ->
                path'.card = [path.card EXCEPT
                               !.confidence = IF path.refined THEN path'.card.confidence ELSE @]
          [] path.card.type = "action" ->
                path'.card.type = "action" /\ path'.card.todo = path.card.todo
          [] OTHER -> path'.card.type = "reply" /\ send_reply(path'.card) = <<>>

\* From the draft to the mail, over a restart (ReloadKeepsContents) and the
\* user's decision (SentAsDecided), a card keeps its readers and its words.
CardKeepsContents == [][SentAsDecided' /\ ReloadKeepsContents]_path

=============================================================================
