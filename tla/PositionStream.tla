---------------------------- MODULE PositionStream ----------------------------
(***************************************************************************)
(* The realtime gateway and its broadcaster (internal/realtime): one account *)
(* is polled, a poll is compared with the one before, and what changed is    *)
(* sent to every subscriber that has room.  Reading the positions and        *)
(* publishing the difference are two steps; positions open and close in      *)
(* between.  One symbol: events of others are filtered by every reader.      *)
(***************************************************************************)
EXTENDS Integers, Sequences, FiniteSets

CONSTANTS
  Readers,  \* who may subscribe
  Results,  \* profit and loss an event may report (last seen before the close)
  Buffer    \* events a subscriber's channel holds

ASSUME StreamAssumption == Results \subseteq Int /\ Buffer \in Nat \ {0}

VARIABLES
  gateway,     \* its poll: [step, now: the position is there, last: it was]
  subscribed,  \* Broadcaster.subs
  inbox        \* inbox[r]: the events in r's channel

stream == <<gateway, subscribed, inbox>>
-----------------------------------------------------------------------------
Update    == [kind |-> "update", pnl |-> 0]
Closed(r) == [kind |-> "closed", pnl |-> r]
Events    == {Update} \cup {Closed(r) : r \in Results}

StreamTypeOK ==
  /\ gateway \in [step : {"idle", "publish"}, now : BOOLEAN, last : BOOLEAN]
  /\ subscribed \in SUBSET Readers
  /\ inbox \in [Readers -> Seq(Events)]
  /\ \A r \in Readers : Len(inbox[r]) <= Buffer

\* seed: the first snapshot is taken silently; without it the gateway knows of none.
Seed(there) ==
  \E last \in {there, FALSE} : gateway = [step |-> "idle", now |-> FALSE, last |-> last]

Reseed(there) ==
  \E last \in {there, FALSE} : gateway' = [step |-> "idle", now |-> FALSE, last |-> last]

StreamInit ==
  /\ Seed(FALSE)
  /\ subscribed = {} /\ inbox = [r \in Readers |-> <<>>]

Subscribe(r) == subscribed' = subscribed \cup {r} /\ inbox' = [inbox EXCEPT ![r] = <<>>]
Unsubscribe(r) == subscribed' = subscribed \ {r} /\ inbox' = [inbox EXCEPT ![r] = <<>>]
Receive(r) == inbox' = [inbox EXCEPT ![r] = Tail(@)] /\ UNCHANGED subscribed

\* Seeded fault: a channel without a limit.
HasRoomAlways(r) == TRUE
HasRoom(r) == Len(inbox[r]) < Buffer

\* Publish never blocks: a full channel misses the event.
Publish(e) ==
  inbox' = [r \in Readers |->
              IF r \in subscribed /\ HasRoom(r) THEN Append(inbox[r], e) ELSE inbox[r]]

\* Tick, first half: read the positions.
Poll(there) ==
  /\ gateway.step = "idle"
  /\ gateway' = [gateway EXCEPT !.step = "publish", !.now = there]
  /\ UNCHANGED <<subscribed, inbox>>

\* Seeded fault: the snapshot is never adopted, so a close is published on every poll.
AdoptedNot(g) == g.last \/ g.now
Adopted(g) == g.now

\* Tick, second half: publish an update of a new or changed position, the close of one
\* that is gone, and adopt the snapshot.
Diff ==
  /\ gateway.step = "publish"
  /\ \/ gateway.now /\ Publish(Update)
     \/ gateway.now /\ gateway.last /\ UNCHANGED inbox
     \/ ~gateway.now /\ gateway.last /\ \E r \in Results : Publish(Closed(r))
     \/ ~gateway.now /\ ~gateway.last /\ UNCHANGED inbox
  /\ gateway' = [step |-> "idle", now |-> FALSE, last |-> Adopted(gateway)]
  /\ UNCHANGED subscribed
=============================================================================
