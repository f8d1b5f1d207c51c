-------------------------------- MODULE Chat --------------------------------
(* The Telegram front end (telegram/handler.go): typed commands, the Confirm *)
(* and Cancel buttons under a review, and the position buttons under a      *)
(* status. The library runs every update in a goroutine of its own, so      *)
(* handlers overlap; each one calls the order service, answers the tap and  *)
(* then edits the message the button was under. A client may still show,    *)
(* and send, a button that an edit has taken away. Only messages that have  *)
(* buttons are kept; every other reply is text that nothing comes back      *)
(* from. The calls of the order service are those of Confirmations, at the  *)
(* grain of its store operations.                                           *)
EXTENDS ConfirmationStore, Commands, FiniteSets

CONSTANTS
    Allowed,       \* adminUserID and ALLOWED_USER_IDS
    Texts,         \* what users type, as tokens
    Symbols,       \* symbols with an open position
    Handlers,      \* bound: updates handled at a time
    MaxMessages,   \* bound: messages with buttons
    MaxPrepared    \* bound: orders prepared

ChatAssumption ==
    /\ Allowed \subseteq Users
    /\ MaxMessages \in Nat /\ MaxPrepared \in Nat

Ids == 1..MaxPrepared

VARIABLES
    chat,       \* the messages with buttons, oldest first
    doc,        \* the confirmations collection
    intent,     \* what each confirmation is for
    orders,     \* ids of orders the exchange accepted
    job         \* per handler: the update it works on and where it is

vars == <<chat, doc, intent, orders, job>>

(* callback_data "tb:<do>:<id>" and "tbact:<do>:<symbol>".                  *)
Review(id) == {[do |-> do, id |-> id, symbol |-> ""] : do \in {"confirm", "cancel"}}
PositionKeyboard ==
    {[do |-> do, id |-> 0, symbol |-> s] : do \in {"be", "trail05", "close50", "close100"}, s \in Symbols}

(* A message: what it says, of which confirmation, the buttons it has and   *)
(* those it has ever had.                                                   *)
Message(says, id, buttons) == [says |-> says, id |-> id, buttons |-> buttons, offered |-> buttons]

Free == [pc |-> "free", user |-> CHOOSE u \in Users : TRUE, at |-> 0, intent |-> Invalid, id |-> 0, says |-> ""]

Init ==
    /\ chat = <<>>
    /\ doc = [i \in Ids |-> [PendingDoc(CHOOSE u \in Users : TRUE, 0) EXCEPT !.status = "absent"]]
    /\ intent = [i \in Ids |-> Invalid]
    /\ orders = {}
    /\ job = [h \in Handlers |-> Free]

Goto(h, pc) == job' = [job EXCEPT ![h].pc = pc]
Leave(h) == job' = [job EXCEPT ![h] = Free]
Edit(h, says) == job' = [job EXCEPT ![h].pc = "show", ![h].says = says]

\* Seeded fault: the allowlist is not asked.
IsAnyone(u) == u \in Users
IsAllowed(u) == u \in Allowed
----------------------------------------------------------------------------
(* Handle: a typed command. Anyone else is sent to the web app; what does   *)
(* not parse and a plan's status are answered with text.                    *)
Type(h, u, text) ==
    LET asked == Parse(text) IN
    /\ job[h].pc = "free" /\ IsAllowed(u)
    /\ \/ /\ asked.type = "status" /\ Len(chat) < MaxMessages
          /\ chat' = Append(chat, Message("positions", 0, PositionKeyboard))
          /\ UNCHANGED job
       \/ /\ ChangesExchange(asked)
          /\ job' = [job EXCEPT ![h] = [Free EXCEPT !.pc = "prepare", !.user = u, !.intent = asked]]
          /\ UNCHANGED chat
    /\ UNCHANGED <<doc, intent, orders>>

(* positionActionIntent *)
ButtonIntent(button) ==
    CASE button.do = "be" -> Breakeven(button.symbol)
      [] button.do = "trail05" -> Trail(button.symbol, 5)
      [] button.do = "close50" -> Close(button.symbol, 50)
      [] button.do = "close100" -> Close(button.symbol, 100)

(* handleCallback and handlePositionAction: a tap on a button of message m. *)
Tap(h, u, m, button) ==
    /\ job[h].pc = "free" /\ IsAllowed(u)
    /\ m \in DOMAIN chat /\ button \in chat[m].offered
    /\ job' = [job EXCEPT ![h] = [Free EXCEPT !.user = u, !.at = m, !.id = button.id,
         !.pc = IF button.id = 0 THEN "prepare" ELSE button.do,
         !.intent = IF button.id = 0 THEN ButtonIntent(button) ELSE Invalid]]
    /\ UNCHANGED <<chat, doc, intent, orders>>

Prepare(h) ==
    /\ job[h].pc = "prepare"
    /\ \/ \E i \in Ids :
             /\ doc[i].status = "absent" /\ \A j \in 1..(i - 1) : doc[j].status # "absent"
             /\ doc' = [doc EXCEPT ![i] = PendingDoc(job[h].user, TTL)]
             /\ intent' = [intent EXCEPT ![i] = job[h].intent]
             /\ job' = [job EXCEPT ![h].pc = "show", ![h].says = "review", ![h].id = i]
       \/ Leave(h) /\ UNCHANGED <<doc, intent>>
    /\ UNCHANGED <<chat, orders>>
----------------------------------------------------------------------------
Live(id) == doc[id].ttl > 0
Read(h) == Reading(doc[job[h].id], job[h].user, Live(job[h].id))

(* A call that finds the document settled or in flight answers with text,   *)
(* marks it expired when its time is over, and repeats a result.            *)
Found(h) ==
    /\ doc' = [doc EXCEPT ![job[h].id] = IF Read(h) = "lapsed" THEN MarkedExpired(@) ELSE @]
    /\ IF job[h].pc = "confirm" /\ Read(h) = "executed" THEN Edit(h, "confirmed") ELSE Leave(h)

Confirm(h) ==
    LET id == job[h].id IN
    /\ job[h].pc = "confirm"
    /\ IF CanTake(doc[id], job[h].user, Live(id))
       THEN doc' = [doc EXCEPT ![id] = Taken(@)] /\ Goto(h, "send")
       ELSE Found(h)
    /\ UNCHANGED <<chat, intent, orders>>

(* Accepted, refused, or accepted although the executor reports an error.   *)
Send(h) ==
    /\ job[h].pc = "send"
    /\ \/ orders' = orders \cup {job[h].id} /\ Goto(h, "complete")
       \/ orders' \in {orders, orders \cup {job[h].id}} /\ Goto(h, "fail")
    /\ UNCHANGED <<chat, doc, intent>>

\* Seeded fault: a failed order is shown as the result.
ShownAfterAny(pc) == {"complete", "fail"}
ShownAfter(pc) == {"complete"}

Settle(h) ==
    LET id == job[h].id
        outcome == IF job[h].pc = "complete" THEN "executed" ELSE "failed"
    IN /\ job[h].pc \in {"complete", "fail"}
       /\ IF CanSettle(doc[id])
          THEN /\ doc' = [doc EXCEPT ![id] = Settled(@, outcome)]
               /\ IF job[h].pc \in ShownAfter(job[h].pc) THEN Edit(h, "confirmed") ELSE Leave(h)
          ELSE UNCHANGED doc /\ Leave(h)
       /\ UNCHANGED <<chat, intent, orders>>

Cancel(h) ==
    LET id == job[h].id IN
    /\ job[h].pc = "cancel"
    /\ IF CanCancel(doc[id], job[h].user, Live(id))
       THEN doc' = [doc EXCEPT ![id] = Cancelled(@)] /\ Edit(h, "cancelled")
       ELSE Found(h)
    /\ UNCHANGED <<chat, intent, orders>>
----------------------------------------------------------------------------
(* sendWithKeyboard for a typed command; answerCallback and EditMessageText *)
(* for a tap. Either fails, or the message has become inaccessible: then    *)
(* the chat stays as it is.                                                 *)
Show(h) ==
    LET j == job[h]
        buttons == IF j.says = "review" THEN Review(j.id) ELSE {}
        shown == Message(j.says, j.id, buttons)
    IN /\ j.pc = "show"
       /\ \/ j.at = 0 /\ Len(chat) < MaxMessages /\ chat' = Append(chat, shown)
          \/ j.at # 0 /\ chat' = [chat EXCEPT ![j.at] = [shown EXCEPT !.offered = @ \cup chat[j.at].offered]]
          \/ UNCHANGED chat
       /\ Leave(h)
       /\ UNCHANGED <<doc, intent, orders>>

(* The process is killed, or a call of the order service fails.             *)
Drop(h) ==
    /\ job[h].pc \notin {"free", "show"} /\ Leave(h)
    /\ UNCHANGED <<chat, doc, intent, orders>>

Tick ==
    /\ doc' = [i \in Ids |-> Older(doc[i])] /\ doc' # doc
    /\ UNCHANGED <<chat, intent, orders, job>>

Purge(id) ==
    /\ Purgeable(doc[id]) /\ doc' = [doc EXCEPT ![id] = Purged(@)]
    /\ UNCHANGED <<chat, intent, orders, job>>

Update(h) ==
    \/ \E u \in Users :
          \/ \E text \in Texts : Type(h, u, text)
          \/ \E m \in 1..MaxMessages : m <= Len(chat) /\ \E b \in chat[m].offered : Tap(h, u, m, b)
    \/ Prepare(h) \/ Confirm(h) \/ Send(h) \/ Settle(h) \/ Cancel(h) \/ Show(h) \/ Drop(h)

Next == (\E h \in Handlers : Update(h)) \/ Tick \/ (\E id \in Ids : Purge(id))

Spec == Init /\ [][Next]_vars
----------------------------------------------------------------------------
TypeOK ==
    /\ Len(chat) <= MaxMessages
    /\ \A m \in DOMAIN chat : /\ chat[m].says \in {"positions", "review", "confirmed", "cancelled"}
                              /\ chat[m].id \in 0..MaxPrepared
                              /\ chat[m].buttons \subseteq chat[m].offered
    /\ doc \in [Ids -> [status : ConfirmationStatus, ttl : 0..(TTL + Retention), user : Users]]
    /\ orders \subseteq Ids

(* However taps, edits, expiry and failed calls interleave, what a message  *)
(* says of its order is true for good: "Confirmed." is an order the         *)
(* exchange accepted, "No order was sent." is one it never got, and a       *)
(* review's buttons are those of the order it describes (handleCallback,    *)
(* finishCallback).                                                         *)
ChatTellsTheTruth ==
    \A m \in DOMAIN chat :
       /\ chat[m].says = "confirmed" => chat[m].id \in orders
       /\ chat[m].says = "cancelled" => chat[m].id \notin orders
       /\ \A b \in chat[m].buttons : b.id # 0 => chat[m].says = "review" /\ b.id = chat[m].id

(* No order is sent that somebody on the allowlist did not see reviewed:    *)
(* its owner is allowed and its Confirm button was shown (Handle,           *)
(* handleCallback).                                                         *)
OrdersWereReviewed ==
    \A id \in orders :
       /\ doc[id].user \in Allowed
       /\ \E m \in DOMAIN chat : \E b \in chat[m].offered : b.do = "confirm" /\ b.id = id
       /\ ChangesExchange(intent[id])
=============================================================================
