--------------------------- MODULE CampaignsProofs ---------------------------
(***************************************************************************)
(* Machine-checked proofs about Campaigns, for any number of users, engines, *)
(* trades and restarts, every goal and every result a trade may have.        *)
(*                                                                         *)
(* The argument: the manager's map and the goroutines name each other, so    *)
(* an engine cannot lose its entry to another; an order asked for is counted *)
(* as closed or as failed, or is in flight; a done context lets no order     *)
(* through but one that was being confirmed when it was cancelled; and an    *)
(* engine that has the account for itself goes on to its next order only     *)
(* from a gateway that knows of no position any more (Watching).             *)
(***************************************************************************)
EXTENDS Campaigns, TLAPS

\* The manager's map and the goroutines agree.
Registered ==
  /\ \A g \in Engines : Alive(g) => running[eng[g].user] = g
  /\ \A u \in Users :
       running[u] # NoEngine => Alive(running[u]) /\ eng[running[u]].user = u

\* A trade asked for is in flight until it has a result or has failed.
InFlight(g) == eng[g].step \in {"prepare", "confirm", "subscribe", "await"}
Failed(g) == failed[g]["place"] + failed[g]["timeout"] + failed[g]["stopped"]
Counted ==
  \A g \in Engines :
    /\ opens[g] = eng[g].trades + Failed(g) + (IF InFlight(g) THEN 1 ELSE 0)
    /\ MaxTrades > 0 => eng[g].trades <= MaxTrades
    /\ MaxTrades > 0 /\ (InFlight(g) \/ At(g, "decide")) => eng[g].trades < MaxTrades

\* What a stopped engine may have sent, and may still send.
Stopping ==
  \A g \in Engines :
    /\ ctx[g] = "live" <=> stoppedAt[g] = "never"
    /\ (stoppedAt[g] = "confirming" /\ ~At(g, "confirm")) \/ afterStop[g] = 0
    /\ afterStop[g] <= 1
    /\ At(g, "confirm") => stoppedAt[g] # "otherwise"

\* There is no position, and the gateway neither remembers one nor has just read one.
Flat == pos = {} /\ ~gateway.last /\ ~gateway.now

Unfailing(g) == \A f \in Failures : failed[g][f] = 0
Told(g) == \E k \in 1..Len(inbox[g]) : IsClose(inbox[g][k])

\* What the gateway knows while an engine that is alone, and has not failed, trades: from
\* its order on, until the close is in its channel, no poll older than the order can make
\* the gateway report a close.
Watching ==
  /\ pos \subseteq traded
  /\ \A g \in Engines :
       Alone(g) /\ Unfailing(g) =>
         /\ eng[g].step \notin {"subscribe", "await", "ended"} => Flat
         /\ eng[g].step \in {"subscribe", "await"} /\ g \in pos =>
              ~(gateway.step = "publish" /\ gateway.last /\ ~gateway.now)
         /\ At(g, "await") /\ Told(g) => Flat

IInv == TypeOK /\ Registered /\ Counted /\ Stopping /\ Watching
-----------------------------------------------------------------------------
\* A blank engine and an empty record of failures are well typed.
LEMMA BlankType ==
  ASSUME NEW s \in Steps
  PROVE  /\ Blank(s) \in [user : Users, step : Steps, trades : Nat, pnl : Int, skips : Nat,
                          answer : Answers]
         /\ NoFailure \in [Failures -> Nat]
<1>1. (CHOOSE u \in Users : TRUE) \in Users
  BY CampaignAssumption
<1> QED
  BY <1>1 DEF Blank, NoFailure, Answers

\* What the broadcaster does to the channels keeps them well typed.
LEMMA InboxType ==
  ASSUME StreamTypeOK
  PROVE  /\ \A r \in Readers :
              /\ Subscribe(r) => subscribed' \in SUBSET Readers /\ inbox' \in [Readers -> Seq(Events)]
                                 /\ \A q \in Readers : Len(inbox'[q]) <= Buffer
              /\ Unsubscribe(r) => subscribed' \in SUBSET Readers /\ inbox' \in [Readers -> Seq(Events)]
                                   /\ \A q \in Readers : Len(inbox'[q]) <= Buffer
              /\ inbox[r] # <<>> /\ Receive(r) =>
                   subscribed' \in SUBSET Readers /\ inbox' \in [Readers -> Seq(Events)]
                   /\ \A q \in Readers : Len(inbox'[q]) <= Buffer
         /\ \A e \in Events : Publish(e) =>
              inbox' \in [Readers -> Seq(Events)] /\ \A q \in Readers : Len(inbox'[q]) <= Buffer
<1> USE StreamAssumption DEF StreamTypeOK
<1>1. <<>> \in Seq(Events) /\ Len(<<>>) = 0
  OBVIOUS
<1>2. ASSUME NEW r \in Readers, Subscribe(r) \/ Unsubscribe(r)
      PROVE  subscribed' \in SUBSET Readers /\ inbox' \in [Readers -> Seq(Events)]
             /\ \A q \in Readers : Len(inbox'[q]) <= Buffer
  <2>1. subscribed' \in SUBSET Readers /\ inbox' = [inbox EXCEPT ![r] = <<>>]
    BY <1>2 DEF Subscribe, Unsubscribe
  <2>2. inbox' \in [Readers -> Seq(Events)]
    BY <1>1, <2>1
  <2>3. \A q \in Readers : inbox'[q] = IF q = r THEN <<>> ELSE inbox[q]
    BY <2>1
  <2> QED
    BY <1>1, <2>1, <2>2, <2>3
<1>3. ASSUME NEW r \in Readers, inbox[r] # <<>>, Receive(r)
      PROVE  subscribed' \in SUBSET Readers /\ inbox' \in [Readers -> Seq(Events)]
             /\ \A q \in Readers : Len(inbox'[q]) <= Buffer
  <2>1. Tail(inbox[r]) \in Seq(Events) /\ Len(Tail(inbox[r])) <= Buffer
    BY <1>3
  <2> QED
    BY <1>3, <2>1 DEF Receive
<1>4. ASSUME NEW e \in Events, Publish(e)
      PROVE  inbox' \in [Readers -> Seq(Events)] /\ \A q \in Readers : Len(inbox'[q]) <= Buffer
  <2>1. \A r \in Readers : HasRoom(r) =>
          Append(inbox[r], e) \in Seq(Events) /\ Len(Append(inbox[r], e)) <= Buffer
    BY DEF HasRoom
  <2> QED
    BY <1>4, <2>1 DEF Publish
<1> QED
  BY <1>2, <1>3, <1>4

\* Init establishes the invariant.
LEMMA InitIInv == Init => IInv
<1> SUFFICES ASSUME Init PROVE IInv
  OBVIOUS
<1> USE CampaignAssumption, StreamAssumption DEF Init
<1>1. TypeOK
  <2>1. gateway \in [step : {"idle", "publish"}, now : BOOLEAN, last : BOOLEAN]
    <3>1. PICK last \in BOOLEAN : gateway = [step |-> "idle", now |-> FALSE, last |-> last]
      BY Zenon DEF StreamInit, Seed
    <3> QED
      BY <3>1
  <2>2. StreamTypeOK
    BY <2>1 DEF StreamTypeOK, StreamInit
  <2>3. eng \in [Engines -> [user : Users, step : Steps, trades : Nat, pnl : Int, skips : Nat,
                            answer : Answers]]
    BY BlankType DEF Steps
  <2>4. failed \in [Engines -> [Failures -> Nat]]
    BY BlankType DEF Steps
  <2> QED
    BY <2>2, <2>3, <2>4 DEF TypeOK
<1>2. Registered
  BY DEF Registered, Alive, Blank
<1>3. Counted
  BY DEF Counted, Failed, InFlight, At, Blank, NoFailure, Failures
<1>4. Stopping
  BY DEF Stopping, At, Blank
<1>5. Watching
  <2>1. gateway.last = FALSE /\ gateway.now = FALSE
    <3>1. PICK last \in {FALSE} : gateway = [step |-> "idle", now |-> FALSE, last |-> last]
      BY Zenon DEF StreamInit, Seed
    <3> QED
      BY <3>1
  <2> QED
    BY <2>1 DEF Watching, Flat, At, Blank
<1> QED
  BY <1>1, <1>2, <1>3, <1>4, <1>5 DEF IInv
-----------------------------------------------------------------------------
\* Every step keeps the types; the engine's record is changed in its fields only.
Engine == [user : Users, step : Steps, trades : Nat, pnl : Int, skips : Nat, answer : Answers]

LEMMA TypeStep == TypeOK /\ [Next]_vars => TypeOK'
<1> SUFFICES ASSUME TypeOK, [Next]_vars PROVE TypeOK'
  OBVIOUS
<1> USE CampaignAssumption, StreamAssumption
<1>0. StreamTypeOK /\ eng \in [Engines -> Engine]
  BY DEF TypeOK, Engine
<1>s. ASSUME UNCHANGED stream PROVE StreamTypeOK'
  BY <1>0, <1>s DEF stream, StreamTypeOK
<1>e. ASSUME NEW g \in Engines, NEW s \in Steps, Goto(g, s) PROVE eng' \in [Engines -> Engine]
  BY <1>0, <1>e DEF Engine, Goto
<1>f. ASSUME NEW g \in Engines, NEW w \in Failures, Fail(g, w)
      PROVE  Goto(g, "evaluate") /\ failed' \in [Engines -> [Failures -> Nat]]
  BY <1>f DEF TypeOK, Fail
<1>n. /\ {"evaluate", "confirm", "subscribe", "await"} \subseteq Steps
      /\ {"place", "timeout", "stopped"} \subseteq Failures
  BY DEF Steps, Failures
<1>g. ASSUME NEW G \in SUBSET Engines, Gone(G)
      PROVE  /\ eng' \in [Engines -> Engine] /\ ctx' \in [Engines -> {"live", "done"}]
             /\ opens' \in [Engines -> Nat] /\ failed' \in [Engines -> [Failures -> Nat]]
             /\ stoppedAt' \in [Engines -> {"never", "confirming", "otherwise"}]
             /\ afterStop' \in [Engines -> Nat]
  <2>1. Blank("ended") \in Engine /\ NoFailure \in [Failures -> Nat]
    BY BlankType DEF Engine, Steps
  <2> QED
    BY <1>0, <1>g, <2>1 DEF Gone, TypeOK
<1>1. ASSUME NEW u \in Users, Start(u) PROVE TypeOK'
  <2>1. PICK g \in Engines : g = CHOOSE e \in Engines : At(e, "new")
    BY <1>1 DEF Start
  <2>2. [eng[g] EXCEPT !.user = u, !.step = "evaluate"] \in Engine
    BY <1>0 DEF Engine, Steps
  <2>3. eng' = [eng EXCEPT ![g] = [eng[g] EXCEPT !.user = u, !.step = "evaluate"]]
    BY <1>0, <1>1, <2>1 DEF Start, Engine
  <2>4. eng' \in [Engines -> Engine]
    BY <1>0, <2>2, <2>3
  <2>5. running' \in [Users -> Engines \cup {NoEngine}]
    BY <1>1, <2>1 DEF Start, TypeOK
  <2> QED
    BY <1>1, <1>s, <2>4, <2>5 DEF Start, TypeOK, Engine, history, market
<1>2. ASSUME NEW u \in Users, Stop(u) PROVE TypeOK'
  <2>1. running[u] \in Engines
    BY <1>2 DEF Stop, TypeOK
  <2> QED
    BY <1>2, <1>s, <2>1 DEF Stop, AfterStop, TypeOK, market
<1>3. ASSUME NEW g \in Engines, Evaluate(g) PROVE TypeOK'
  <2>1. Verdict(eng[g].trades, eng[g].pnl) \in Answers
    BY DEF Verdict, Answers, Verdicts
  <2>2. eng' \in [Engines -> Engine]
    BY <1>0, <1>3, <2>1 DEF Evaluate, Finish, Goto, Engine, Steps, Answers
  <2> QED
    BY <1>3, <1>s, <2>2 DEF Evaluate, Quiet, TypeOK, Engine, market
<1>4. ASSUME NEW g \in Engines, Decide(g) PROVE TypeOK'
  <2>1. eng[g].skips + 1 \in Nat
    BY <1>0 DEF Engine
  <2>2. eng' \in [Engines -> Engine]
    BY <1>0, <1>4, <2>1 DEF Decide, Finish, Engine, Steps, Answers
  <2>3. opens' \in [Engines -> Nat]
    BY <1>4 DEF Decide, TypeOK
  <2> QED
    BY <1>4, <1>s, <2>2, <2>3 DEF Decide, Quiet, TypeOK, Engine, market
<1>5. ASSUME NEW g \in Engines, Prepare(g) PROVE TypeOK'
  <2>1. eng' \in [Engines -> Engine]
    BY <1>5, <1>e, <1>f, <1>n DEF Prepare
  <2>2. failed' \in [Engines -> [Failures -> Nat]]
    BY <1>5, <1>f, <1>n DEF Prepare, TypeOK
  <2> QED
    BY <1>5, <1>s, <2>1, <2>2 DEF Prepare, Quiet, TypeOK, Engine, market
<1>6. ASSUME NEW g \in Engines, Confirm(g) PROVE TypeOK'
  <2>1. eng' \in [Engines -> Engine]
    BY <1>6, <1>e, <1>f, <1>n DEF Confirm
  <2>2. failed' \in [Engines -> [Failures -> Nat]]
    BY <1>6, <1>f, <1>n DEF Confirm, TypeOK
  <2>3. pos' \in SUBSET Engines /\ traded' \in SUBSET Engines
    BY <1>6 DEF Confirm, TypeOK
  <2>4. \/ UNCHANGED afterStop
        \/ afterStop' = [afterStop EXCEPT ![g] = IF stoppedAt[g] = "never" THEN @ ELSE @ + 1]
    BY <1>6 DEF Confirm
  <2>5. afterStop' \in [Engines -> Nat]
    BY <2>4 DEF TypeOK
  <2> QED
    BY <1>6, <1>s, <2>1, <2>2, <2>3, <2>5 DEF Confirm, TypeOK, Engine
<1>7. ASSUME NEW g \in Engines, BeginAwait(g) PROVE TypeOK'
  <2>1. eng' \in [Engines -> Engine]
    BY <1>7, <1>e, <1>n DEF BeginAwait
  <2>2. StreamTypeOK'
    BY <1>0, <1>7, InboxType DEF BeginAwait, StreamTypeOK
  <2> QED
    BY <1>7, <2>1, <2>2 DEF BeginAwait, TypeOK, Engine, market, history
<1>8. ASSUME NEW g \in Engines, Hear(g) PROVE TypeOK'
  <2>1. Head(inbox[g]) \in Events
    BY <1>0, <1>8 DEF Hear, StreamTypeOK
  <2>2. Head(inbox[g]).pnl \in Int
    BY <2>1 DEF Events, Update, Closed
  <2>3. eng' \in [Engines -> Engine]
    BY <1>0, <1>8, <2>2 DEF Hear, Engine, Steps
  <2>4. StreamTypeOK'
    BY <1>0, <1>8, InboxType DEF Hear, StreamTypeOK
  <2> QED
    BY <1>8, <2>3, <2>4 DEF Hear, TypeOK, Engine, market, history
<1>9. ASSUME NEW g \in Engines, GiveUp(g) PROVE TypeOK'
  <2>1. eng' \in [Engines -> Engine]
    BY <1>9, <1>e, <1>f, <1>n DEF GiveUp
  <2>2. failed' \in [Engines -> [Failures -> Nat]]
    BY <1>9, <1>f, <1>n DEF GiveUp
  <2>3. StreamTypeOK'
    BY <1>0, <1>9, InboxType DEF GiveUp, StreamTypeOK
  <2> QED
    BY <1>9, <2>1, <2>2, <2>3 DEF GiveUp, TypeOK, Engine, market
<1>10. ASSUME NEW g \in Engines, Leave(g) PROVE TypeOK'
  <2>1. running' \in [Users -> Engines \cup {NoEngine}]
    BY <1>10 DEF Leave, TypeOK
  <2> QED
    BY <1>10, <1>s, <1>g, <2>1 DEF Leave, TypeOK, Engine, market
<1>11. ASSUME PositionCloses PROVE TypeOK'
  BY <1>11, <1>s DEF PositionCloses, TypeOK, history
<1>12. ASSUME Tick PROVE TypeOK'
  <2>1. CASE Poll(pos # {})
    BY <1>0, <1>12, <2>1 DEF Tick, Poll, StreamTypeOK, TypeOK, history, market
  <2>2. CASE Diff
    <3>1. \A r \in Results : Closed(r) \in Events
      BY DEF Events
    <3>2. inbox' \in [Readers -> Seq(Events)] /\ \A q \in Readers : Len(inbox'[q]) <= Buffer
      BY <1>0, <2>2, <3>1, InboxType DEF Diff, Events, StreamTypeOK
    <3>3. StreamTypeOK'
      BY <1>0, <2>2, <3>2 DEF Diff, Adopted, StreamTypeOK
    <3> QED
      BY <1>12, <3>3 DEF Tick, TypeOK, history, market
  <2> QED
    BY <1>12, <2>1, <2>2 DEF Tick
<1>13. ASSUME Restart PROVE TypeOK'
  <2>1. gateway' \in [step : {"idle", "publish"}, now : BOOLEAN, last : BOOLEAN]
    <3>1. PICK last \in BOOLEAN : gateway' = [step |-> "idle", now |-> FALSE, last |-> last]
      BY <1>13, Zenon DEF Restart, Reseed
    <3> QED
      BY <3>1
  <2>2. StreamTypeOK'
    BY <1>13, <2>1 DEF Restart, StreamTypeOK
  <2>3. running' \in [Users -> Engines \cup {NoEngine}] /\ restarts' \in Nat
    BY <1>13 DEF Restart, TypeOK
  <2>4. PICK G \in SUBSET Engines : Gone(G)
    BY <1>13 DEF Restart
  <2> QED
    BY <1>13, <1>g, <2>2, <2>3, <2>4 DEF Restart, TypeOK, Engine, market
<1>14. ASSUME UNCHANGED vars PROVE TypeOK'
  BY <1>14, <1>s DEF vars, TypeOK, market, history
<1> QED
  BY <1>1, <1>2, <1>3, <1>4, <1>5, <1>6, <1>7, <1>8, <1>9, <1>10, <1>11, <1>12, <1>13, <1>14
     DEF Next, Run
-----------------------------------------------------------------------------
\* A confirm fails or leads on to the wait for the close.
LEMMA ConfirmLeads ==
  ASSUME NEW g \in Engines, Confirm(g)
  PROVE  Fail(g, "place") \/ (Goto(g, "subscribe") /\ UNCHANGED failed)
BY DEF Confirm

\* What a step of Hear does to the engine.
LEMMA HearCounts ==
  ASSUME TypeOK, NEW g \in Engines, Hear(g)
  PROVE  \/ UNCHANGED eng
         \/ /\ eng'[g].user = eng[g].user /\ eng'[g].step = "evaluate"
            /\ eng'[g].trades = eng[g].trades + 1
            /\ \A h \in Engines : h # g => eng'[h] = eng[h]
BY DEF Hear, TypeOK

\* The map and the goroutines go on agreeing: only Start enters an engine, into an empty
\* place, and only an engine that ends, or a restart, clears its place.
LEMMA RegisteredStep == TypeOK /\ Registered /\ [Next]_vars => Registered'
<1> SUFFICES ASSUME TypeOK, Registered, [Next]_vars PROVE Registered'
  OBVIOUS
<1> USE CampaignAssumption DEF TypeOK
<1>k. ASSUME UNCHANGED running,
             \A h \in Engines : eng'[h].user = eng[h].user /\ (Alive(h)' <=> Alive(h))
      PROVE  Registered'
  BY <1>k DEF Registered, Alive
<1>m. ASSUME NEW g \in Engines, Alive(g), UNCHANGED running,
             eng'[g].user = eng[g].user, eng'[g].step \notin {"new", "ended"},
             \A h \in Engines : h # g => eng'[h] = eng[h]
      PROVE  Registered'
  BY <1>k, <1>m DEF Alive
<1>t. ASSUME NEW g \in Engines, Alive(g), UNCHANGED running,
             NEW s \in {"evaluate", "decide", "confirm", "subscribe", "await"}, Goto(g, s)
      PROVE  Registered'
  BY <1>m, <1>t DEF Goto
<1>1. ASSUME NEW u \in Users, Start(u) PROVE Registered'
  <2>1. PICK g \in Engines : g = CHOOSE e \in Engines : At(e, "new")
    BY <1>1 DEF Start
  <2>2. At(g, "new") /\ running[u] = NoEngine
    BY <1>1, <2>1 DEF Start
  <2>3. /\ running' = [running EXCEPT ![u] = g]
        /\ eng' = [eng EXCEPT ![g].user = u, ![g].step = "evaluate"]
    BY <1>1, <2>1 DEF Start
  <2>4. /\ eng'[g].user = u /\ eng'[g].step = "evaluate"
        /\ \A h \in Engines : h # g => eng'[h] = eng[h]
    BY <2>3
  <2> QED
    BY <2>2, <2>3, <2>4 DEF Registered, Alive, At
<1>2. ASSUME NEW u \in Users, Stop(u) PROVE Registered'
  BY <1>2, <1>k DEF Stop, AfterStop, Alive
<1>3. ASSUME NEW g \in Engines, Evaluate(g) PROVE Registered'
  <2>1. /\ eng'[g].user = eng[g].user /\ eng'[g].step \notin {"new", "ended"}
        /\ \A h \in Engines : h # g => eng'[h] = eng[h]
    BY <1>3 DEF Evaluate, Finish, Goto
  <2> QED
    BY <1>3, <1>m, <2>1 DEF Evaluate, Quiet, At, Alive
<1>4. ASSUME NEW g \in Engines, Decide(g) PROVE Registered'
  <2>1. /\ eng'[g].user = eng[g].user /\ eng'[g].step \notin {"new", "ended"}
        /\ \A h \in Engines : h # g => eng'[h] = eng[h]
    BY <1>4 DEF Decide, Finish, Goto
  <2> QED
    BY <1>4, <1>m, <2>1 DEF Decide, Quiet, At, Alive
<1>5. ASSUME NEW g \in Engines, Prepare(g) PROVE Registered'
  <2>1. Goto(g, "confirm") \/ Goto(g, "evaluate")
    BY <1>5, Zenon DEF Prepare, Fail
  <2> QED
    BY <1>5, <1>t, <2>1 DEF Prepare, Quiet, At, Alive
<1>6. ASSUME NEW g \in Engines, Confirm(g) PROVE Registered'
  <2>1. Goto(g, "subscribe") \/ Goto(g, "evaluate")
    BY <1>6, ConfirmLeads DEF Fail
  <2> QED
    BY <1>6, <1>t, <2>1 DEF Confirm, At, Alive
<1>7. ASSUME NEW g \in Engines, BeginAwait(g) PROVE Registered'
  BY <1>7, <1>k DEF BeginAwait, Goto, At, Alive
<1>8. ASSUME NEW g \in Engines, Hear(g) PROVE Registered'
  <2>1. Alive(g) /\ UNCHANGED running
    BY <1>8 DEF Hear, At, Alive
  <2> QED
    BY <1>8, <1>k, <1>m, <2>1, HearCounts DEF Alive
<1>9. ASSUME NEW g \in Engines, GiveUp(g) PROVE Registered'
  <2>1. Goto(g, "evaluate")
    BY <1>9, Zenon DEF GiveUp, Fail
  <2> QED
    BY <1>9, <1>t, <2>1 DEF GiveUp, At, Alive
<1>10. ASSUME NEW g \in Engines, Leave(g) PROVE Registered'
  <2>1. /\ eng'[g].step = "ended"
        /\ \A h \in Engines : h # g => eng'[h] = eng[h]
    BY <1>10 DEF Leave, Gone, Blank
  <2>2. running[eng[g].user] = g
    BY <1>10 DEF Leave, At, Registered, Alive
  <2>3. running' = [running EXCEPT ![eng[g].user] = NoEngine] /\ eng[g].user \in Users
    BY <1>10 DEF Leave
  <2>4. \A h \in Engines : Alive(h)' => h # g /\ Alive(h) /\ eng'[h].user = eng[h].user
    BY <2>1 DEF Alive
  <2>5. \A h \in Engines : Alive(h) /\ h # g => eng[h].user # eng[g].user
    BY <2>2 DEF Registered
  <2>6. \A h \in Engines : Alive(h)' => running'[eng'[h].user] = h
    BY <2>3, <2>4, <2>5 DEF Registered
  <2>7. \A u \in Users : running'[u] # NoEngine =>
          u # eng[g].user /\ running'[u] = running[u] /\ running[u] # g
    BY <2>2, <2>3 DEF Registered
  <2>8. \A u \in Users : running'[u] # NoEngine =>
          eng'[running'[u]].step \notin {"new", "ended"} /\ eng'[running'[u]].user = u
    BY <2>1, <2>7 DEF Registered, Alive
  <2> QED
    BY <2>6, <2>8 DEF Registered, Alive
<1>11. ASSUME PositionCloses PROVE Registered'
  BY <1>11, <1>k DEF PositionCloses, Alive
<1>12. ASSUME Tick PROVE Registered'
  BY <1>12, <1>k DEF Tick, Alive
<1>13. ASSUME Restart PROVE Registered'
  <2>1. \A h \in Engines : ~Alive(h)'
    BY <1>13 DEF Restart, Gone, Alive, Blank
  <2>2. \A u \in Users : running'[u] = NoEngine
    BY <1>13 DEF Restart
  <2> QED
    BY <2>1, <2>2 DEF Registered
<1>14. ASSUME UNCHANGED vars PROVE Registered'
  BY <1>14, <1>k DEF vars, Alive
<1> QED
  BY <1>1, <1>2, <1>3, <1>4, <1>5, <1>6, <1>7, <1>8, <1>9, <1>10, <1>11, <1>12, <1>13, <1>14
     DEF Next, Run

\* Every trade asked for is accounted for, and none is asked for at the limit.
LEMMA CountedStep == TypeOK /\ Counted /\ [Next]_vars => Counted'
<1> SUFFICES ASSUME TypeOK, Counted, [Next]_vars PROVE Counted'
  OBVIOUS
<1> USE CampaignAssumption DEF TypeOK
<1> DEFINE Of(g) ==
      /\ opens[g] = eng[g].trades + Failed(g) + (IF InFlight(g) THEN 1 ELSE 0)
      /\ MaxTrades > 0 => eng[g].trades <= MaxTrades
      /\ MaxTrades > 0 /\ (InFlight(g) \/ At(g, "decide")) => eng[g].trades < MaxTrades
<1>o. (\A g \in Engines : Of(g)) /\ ((\A g \in Engines : Of(g)') => Counted')
  BY DEF Counted
<1>k. ASSUME NEW h \in Engines, eng'[h] = eng[h], opens'[h] = opens[h], failed'[h] = failed[h]
      PROVE  Of(h)'
  BY <1>k, <1>o DEF Failed, InFlight, At
<1>b. ASSUME NEW h \in Engines, eng'[h] = Blank("ended"), opens'[h] = 0, failed'[h] = NoFailure
      PROVE  Of(h)'
  BY <1>b DEF Failed, InFlight, At, Blank, NoFailure, Failures
<1>f. ASSUME NEW g \in Engines, NEW w \in Failures, Fail(g, w), InFlight(g), UNCHANGED opens
      PROVE  Counted'
  <2>1. /\ eng'[g].step = "evaluate" /\ eng'[g].trades = eng[g].trades
        /\ \A h \in Engines : h # g => eng'[h] = eng[h] /\ failed'[h] = failed[h]
    BY <1>f DEF Fail, Goto
  <2>2. /\ failed'[g][w] = failed[g][w] + 1
        /\ \A v \in Failures : v # w => failed'[g][v] = failed[g][v]
    BY <1>f DEF Fail
  <2>3. \A v \in Failures : failed[g][v] \in Nat
    OBVIOUS
  <2>4. Failed(g)' = Failed(g) + 1
    BY <2>2, <2>3 DEF Failed, Failures
  <2>5. Of(g)'
    BY <1>f, <1>o, <2>1, <2>3, <2>4 DEF Failed, InFlight, At, Failures
  <2> QED
    BY <1>f, <1>k, <1>o, <2>1, <2>5
<1>g. ASSUME NEW g \in Engines, NEW s \in {"subscribe", "confirm", "await"}, Goto(g, s),
             InFlight(g), UNCHANGED <<opens, failed>>
      PROVE  Counted'
  <2>1. eng'[g].step = s /\ eng'[g].trades = eng[g].trades
        /\ \A h \in Engines : h # g => eng'[h] = eng[h]
    BY <1>g DEF Goto
  <2>2. Of(g)'
    BY <1>g, <1>o, <2>1 DEF Failed, InFlight, At
  <2> QED
    BY <1>g, <1>k, <1>o, <2>1, <2>2
<1>1. ASSUME NEW u \in Users, Start(u) PROVE Counted'
  <2>1. PICK g \in Engines : g = CHOOSE e \in Engines : At(e, "new")
    BY <1>1 DEF Start
  <2>2. At(g, "new") /\ UNCHANGED <<opens, failed>>
    BY <1>1, <2>1 DEF Start, history
  <2>3. /\ eng'[g].trades = eng[g].trades /\ eng'[g].step = "evaluate"
        /\ \A h \in Engines : h # g => eng'[h] = eng[h]
    BY <1>1, <2>1 DEF Start
  <2>4. Of(g)'
    BY <1>o, <2>2, <2>3 DEF Failed, InFlight, At
  <2> QED
    BY <1>k, <1>o, <2>2, <2>3, <2>4
<1>2. ASSUME NEW u \in Users, Stop(u) PROVE Counted'
  BY <1>2, <1>k, <1>o DEF Stop
<1>3. ASSUME NEW g \in Engines, Evaluate(g) PROVE Counted'
  <2>1. /\ UNCHANGED <<opens, failed>> /\ eng'[g].trades = eng[g].trades
        /\ At(g, "evaluate") /\ eng'[g].step \in {"leaving", "decide"}
        /\ \A h \in Engines : h # g => eng'[h] = eng[h]
    BY <1>3 DEF Evaluate, Finish, Goto
  <2>2. eng'[g].step = "decide" => Verdict(eng[g].trades, eng[g].pnl) = "continue"
    BY <1>3 DEF Evaluate, Finish, Goto
  <2>3. eng'[g].step = "decide" /\ MaxTrades > 0 => eng[g].trades < MaxTrades
    BY <2>2 DEF Verdict
  <2>4. Of(g)'
    BY <1>o, <2>1, <2>3 DEF Failed, InFlight, At
  <2> QED
    BY <1>k, <1>o, <2>1, <2>4
<1>4. ASSUME NEW g \in Engines, Decide(g) PROVE Counted'
  <2>1. /\ UNCHANGED failed /\ eng'[g].trades = eng[g].trades /\ At(g, "decide")
        /\ \A h \in Engines : h # g => eng'[h] = eng[h] /\ opens'[h] = opens[h]
        /\ \/ eng'[g].step \in {"leaving", "evaluate"} /\ opens'[g] = opens[g]
           \/ eng'[g].step = "prepare" /\ opens'[g] = opens[g] + 1
    BY <1>4 DEF Decide, Finish, Quiet
  <2>2. Of(g)'
    BY <1>o, <2>1 DEF Failed, InFlight, At, Failures
  <2> QED
    BY <1>k, <1>o, <2>1, <2>2
<1>5. ASSUME NEW g \in Engines, Prepare(g) PROVE Counted'
  BY <1>5, <1>f, <1>g DEF Prepare, InFlight, At, Failures
<1>6. ASSUME NEW g \in Engines, Confirm(g) PROVE Counted'
  <2>1. InFlight(g) /\ UNCHANGED opens
    BY <1>6 DEF Confirm, InFlight, At
  <2>2. Fail(g, "place") \/ (Goto(g, "subscribe") /\ UNCHANGED failed)
    BY <1>6, ConfirmLeads
  <2> QED
    BY <1>f, <1>g, <2>1, <2>2 DEF Failures
<1>7. ASSUME NEW g \in Engines, BeginAwait(g) PROVE Counted'
  BY <1>7, <1>g DEF BeginAwait, InFlight, At, history
<1>8. ASSUME NEW g \in Engines, Hear(g) PROVE Counted'
  <2>1. UNCHANGED <<opens, failed>> /\ At(g, "await")
    BY <1>8 DEF Hear, history
  <2>2. \/ UNCHANGED eng
        \/ /\ eng'[g].step = "evaluate" /\ eng'[g].trades = eng[g].trades + 1
           /\ \A h \in Engines : h # g => eng'[h] = eng[h]
    BY <1>8, HearCounts
  <2>3. CASE UNCHANGED eng
    BY <1>k, <1>o, <2>1, <2>3
  <2>4. CASE /\ eng'[g].step = "evaluate" /\ eng'[g].trades = eng[g].trades + 1
             /\ \A h \in Engines : h # g => eng'[h] = eng[h]
    <3>1. Of(g)'
      BY <1>o, <2>1, <2>4 DEF Failed, InFlight, At, Failures
    <3> QED
      BY <1>k, <1>o, <2>1, <2>4, <3>1
  <2> QED
    BY <2>2, <2>3, <2>4
<1>9. ASSUME NEW g \in Engines, GiveUp(g) PROVE Counted'
  BY <1>9, <1>f DEF GiveUp, InFlight, At, Failures
<1>10. ASSUME NEW g \in Engines, Leave(g) PROVE Counted'
  BY <1>10, <1>k, <1>b, <1>o DEF Leave, Gone
<1>11. ASSUME PositionCloses PROVE Counted'
  BY <1>11, <1>k, <1>o DEF PositionCloses, history
<1>12. ASSUME Tick PROVE Counted'
  BY <1>12, <1>k, <1>o DEF Tick, history
<1>13. ASSUME Restart PROVE Counted'
  BY <1>13, <1>k, <1>b, <1>o DEF Restart, Gone
<1>14. ASSUME UNCHANGED vars PROVE Counted'
  BY <1>14, <1>k, <1>o DEF vars, history
<1> QED
  BY <1>1, <1>2, <1>3, <1>4, <1>5, <1>6, <1>7, <1>8, <1>9, <1>10, <1>11, <1>12, <1>13, <1>14
     DEF Next, Run
-----------------------------------------------------------------------------
\* A done context lets only the order through that was being confirmed.
LEMMA StoppingStep == TypeOK /\ Registered /\ Stopping /\ [Next]_vars => Stopping'
<1> SUFFICES ASSUME TypeOK, Registered, Stopping, [Next]_vars PROVE Stopping'
  OBVIOUS
<1> USE CampaignAssumption DEF TypeOK
<1> DEFINE Of(g) ==
      /\ ctx[g] = "live" <=> stoppedAt[g] = "never"
      /\ (stoppedAt[g] = "confirming" /\ ~At(g, "confirm")) \/ afterStop[g] = 0
      /\ afterStop[g] <= 1
      /\ At(g, "confirm") => stoppedAt[g] # "otherwise"
<1>o. (\A g \in Engines : Of(g)) /\ ((\A g \in Engines : Of(g)') => Stopping')
  BY DEF Stopping
<1>k. ASSUME UNCHANGED <<ctx, stoppedAt, afterStop>>,
             \A h \in Engines : eng'[h].step = "confirm" => eng[h].step = "confirm" \/ ctx[h] = "live",
             \A h \in Engines : eng[h].step = "confirm" => eng'[h].step = "confirm" \/ afterStop[h] = 0
      PROVE  Stopping'
  BY <1>k, <1>o DEF At
<1>b. ASSUME NEW h \in Engines, eng'[h] = Blank("ended"), ctx'[h] = "live",
             stoppedAt'[h] = "never", afterStop'[h] = 0
      PROVE  Of(h)'
  BY <1>b DEF At, Blank
<1>c. \A h \in Engines : At(h, "confirm") => afterStop[h] = 0
  BY <1>o
<1>1. ASSUME NEW u \in Users, Start(u) PROVE Stopping'
  <2>1. /\ UNCHANGED <<ctx, stoppedAt, afterStop>>
        /\ \A h \in Engines : eng'[h].step = "confirm" => eng[h].step = "confirm"
    BY <1>1 DEF Start, history
  <2> QED
    BY <1>c, <1>k, <2>1 DEF At
<1>2. ASSUME NEW u \in Users, Stop(u) PROVE Stopping'
  <2>1. PICK g \in Engines : g = running[u]
    BY <1>2 DEF Stop
  <2>2. /\ UNCHANGED <<eng, afterStop>> /\ ctx' = [ctx EXCEPT ![g] = "done"]
        /\ \A h \in Engines : h # g => stoppedAt'[h] = stoppedAt[h]
        /\ stoppedAt'[g] = IF stoppedAt[g] # "never" THEN stoppedAt[g]
                           ELSE IF At(g, "confirm") THEN "confirming" ELSE "otherwise"
    BY <1>2, <2>1 DEF Stop
  <2>3. Of(g)'
    BY <1>o, <2>2 DEF At
  <2>4. \A h \in Engines : h # g => Of(h)'
    BY <1>o, <2>2 DEF At
  <2> QED
    BY <1>o, <2>3, <2>4
<1>3. ASSUME NEW g \in Engines, Evaluate(g) PROVE Stopping'
  BY <1>3, <1>c, <1>k DEF Evaluate, Finish, Goto, At, Quiet
<1>4. ASSUME NEW g \in Engines, Decide(g) PROVE Stopping'
  <2>0. /\ eng'[g].step \in {"leaving", "prepare", "evaluate"}
        /\ \A h \in Engines : h # g => eng'[h] = eng[h]
    BY <1>4 DEF Decide, Finish
  <2>1. \A h \in Engines : eng'[h].step = "confirm" => eng[h].step = "confirm"
    BY <2>0
  <2>2. UNCHANGED <<ctx, stoppedAt, afterStop>>
    BY <1>4 DEF Decide, Quiet
  <2>3. \A h \in Engines : eng[h].step = "confirm" => afterStop[h] = 0
    BY <1>c DEF At
  <2> QED
    BY <1>k, <2>1, <2>2, <2>3
<1>5. ASSUME NEW g \in Engines, Prepare(g) PROVE Stopping'
  <2>1. /\ UNCHANGED <<ctx, stoppedAt, afterStop>>
        /\ (Goto(g, "confirm") /\ ctx[g] = "live") \/ Goto(g, "evaluate")
    BY <1>5, Zenon DEF Prepare, MayPlace, Fail, Quiet
  <2> QED
    BY <1>c, <1>k, <2>1 DEF Goto, At
<1>6. ASSUME NEW g \in Engines, Confirm(g) PROVE Stopping'
  <2>1. At(g, "confirm") /\ UNCHANGED <<ctx, stoppedAt>>
    BY <1>6 DEF Confirm
  <2>2. Goto(g, "evaluate") \/ Goto(g, "subscribe")
    BY <1>6, ConfirmLeads DEF Fail
  <2>3. \/ UNCHANGED afterStop
        \/ afterStop' = [afterStop EXCEPT ![g] = IF stoppedAt[g] = "never" THEN @ ELSE @ + 1]
    BY <1>6, Zenon DEF Confirm
  <2>4. /\ eng'[g].step # "confirm" /\ \A h \in Engines : h # g => eng'[h] = eng[h]
    BY <2>2 DEF Goto
  <2>a. afterStop[g] = 0 /\ stoppedAt[g] \in {"never", "confirming"}
    BY <1>o, <2>1 DEF At
  <2>5. /\ afterStop'[g] = 0 \/ (afterStop'[g] = 1 /\ stoppedAt[g] # "never")
        /\ \A h \in Engines : h # g => afterStop'[h] = afterStop[h]
    BY <2>a, <2>3
  <2>6. Of(g)'
    BY <1>o, <2>a, <2>1, <2>4, <2>5 DEF At
  <2>7. \A h \in Engines : h # g => Of(h)'
    BY <1>o, <2>1, <2>4, <2>5 DEF At
  <2> QED
    BY <1>o, <2>6, <2>7
<1>7. ASSUME NEW g \in Engines, BeginAwait(g) PROVE Stopping'
  BY <1>7, <1>c, <1>k DEF BeginAwait, Goto, At, history
<1>8. ASSUME NEW g \in Engines, Hear(g) PROVE Stopping'
  <2>1. UNCHANGED <<ctx, stoppedAt, afterStop>>
    BY <1>8 DEF Hear, history
  <2>2. \A h \in Engines : eng'[h].step = "confirm" => eng[h].step = "confirm"
    BY <1>8, HearCounts
  <2> QED
    BY <1>c, <1>k, <2>1, <2>2 DEF At
<1>9. ASSUME NEW g \in Engines, GiveUp(g) PROVE Stopping'
  <2>1. UNCHANGED <<ctx, stoppedAt, afterStop>> /\ Goto(g, "evaluate")
    BY <1>9, Zenon DEF GiveUp, Fail
  <2> QED
    BY <1>c, <1>k, <2>1 DEF Goto, At
<1>10. ASSUME NEW g \in Engines, Leave(g) PROVE Stopping'
  <2>1. Of(g)'
    BY <1>10, <1>b DEF Leave, Gone
  <2>2. \A h \in Engines : h # g => Of(h)'
    BY <1>10, <1>o DEF Leave, Gone, At
  <2> QED
    BY <1>o, <2>1, <2>2
<1>11. ASSUME PositionCloses PROVE Stopping'
  BY <1>11, <1>c, <1>k DEF PositionCloses, history, At
<1>12. ASSUME Tick PROVE Stopping'
  BY <1>12, <1>c, <1>k DEF Tick, history, At
<1>13. ASSUME Restart PROVE Stopping'
  <2>1. \A h \in Engines : Alive(h) => Of(h)'
    BY <1>13, <1>b DEF Restart, Gone
  <2>2. \A h \in Engines : ~Alive(h) => Of(h)'
    BY <1>13, <1>o DEF Restart, Gone, At
  <2> QED
    BY <1>o, <2>1, <2>2
<1>14. ASSUME UNCHANGED vars PROVE Stopping'
  BY <1>14, <1>c, <1>k DEF vars, history, At
<1> QED
  BY <1>1, <1>2, <1>3, <1>4, <1>5, <1>6, <1>7, <1>8, <1>9, <1>10, <1>11, <1>12, <1>13, <1>14
     DEF Next, Run
-----------------------------------------------------------------------------
\* Watching is kept: only an engine that is not alone, or one that has heard of its last
\* close, sends an order; and a gateway that read before the order remembers nothing.
LEMMA WatchingStep == TypeOK /\ Watching /\ [Next]_vars => Watching'
<1> SUFFICES ASSUME TypeOK, Watching, [Next]_vars PROVE Watching'
  OBVIOUS
<1> USE CampaignAssumption DEF TypeOK
<1> DEFINE Of(g) ==
      Alone(g) /\ Unfailing(g) =>
        /\ eng[g].step \notin {"subscribe", "await", "ended"} => Flat
        /\ eng[g].step \in {"subscribe", "await"} /\ g \in pos =>
             ~(gateway.step = "publish" /\ gateway.last /\ ~gateway.now)
        /\ At(g, "await") /\ Told(g) => Flat
<1>o. /\ pos \subseteq traded /\ \A g \in Engines : Of(g)
      /\ (pos \subseteq traded)' /\ (\A g \in Engines : Of(g)') => Watching'
  BY DEF Watching
<1>0. gateway \in [step : {"idle", "publish"}, now : BOOLEAN, last : BOOLEAN]
  BY DEF StreamTypeOK
<1>k. ASSUME NEW h \in Engines, UNCHANGED <<gateway, pos, traded>>, inbox'[h] = inbox[h],
             eng'[h].step = eng[h].step, failed'[h] = failed[h]
      PROVE  Of(h)'
  BY <1>k, <1>o DEF Alone, Unfailing, Flat, Told, At
<1>m. ASSUME NEW h \in Engines, UNCHANGED <<gateway, pos, traded, failed>>,
             eng[h].step \notin {"subscribe", "await", "ended"},
             eng'[h].step \notin {"subscribe", "await"}
      PROVE  Of(h)'
  BY <1>m, <1>o DEF Alone, Unfailing, Flat, At
<1>z. ASSUME NEW h \in Engines, eng'[h].step = "ended"
      PROVE  Of(h)'
  BY <1>z DEF At
<1>f. ASSUME NEW g \in Engines, NEW w \in Failures, Fail(g, w)
      PROVE  Of(g)' /\ \A h \in Engines : h # g => eng'[h] = eng[h] /\ failed'[h] = failed[h]
  <2>1. failed'[g][w] = failed[g][w] + 1 /\ failed[g][w] \in Nat
    BY <1>f DEF Fail
  <2>2. ~Unfailing(g)'
    BY <2>1 DEF Unfailing
  <2>3. QED
    BY <1>f, <2>2 DEF Fail, Goto
<1>1. ASSUME NEW u \in Users, Start(u) PROVE Watching'
  <2>1. PICK g \in Engines : g = CHOOSE e \in Engines : At(e, "new")
    BY <1>1 DEF Start
  <2>2. At(g, "new") /\ UNCHANGED <<stream, pos, traded, failed>>
    BY <1>1, <2>1 DEF Start, history, market
  <2>3. eng'[g].step = "evaluate" /\ \A h \in Engines : h # g => eng'[h] = eng[h]
    BY <1>1, <2>1 DEF Start
  <2>4. \A h \in Engines : Of(h)'
    BY <1>k, <1>m, <2>2, <2>3 DEF At, stream
  <2> QED
    BY <1>o, <2>2, <2>4
<1>2. ASSUME NEW u \in Users, Stop(u) PROVE Watching'
  BY <1>2, <1>k, <1>o DEF Stop, stream, market
<1>3. ASSUME NEW g \in Engines, Evaluate(g) \/ Decide(g) PROVE Watching'
  <2>1. /\ UNCHANGED <<stream, pos, traded, failed>>
        /\ eng[g].step \in {"evaluate", "decide"}
    BY <1>3 DEF Evaluate, Decide, Quiet, market, At
  <2>2. /\ eng'[g].step \in {"leaving", "decide", "prepare", "evaluate"}
        /\ \A h \in Engines : h # g => eng'[h] = eng[h]
    <3>1. CASE Evaluate(g)
      BY <3>1 DEF Evaluate, Finish, Goto
    <3>2. CASE Decide(g)
      BY <3>2 DEF Decide, Finish
    <3>3. QED
      BY <1>3, <3>1, <3>2
  <2>3. \A h \in Engines : Of(h)'
    BY <1>k, <1>m, <2>1, <2>2 DEF stream
  <2> QED
    BY <1>o, <2>1, <2>3
<1>4. ASSUME NEW g \in Engines, Prepare(g) PROVE Watching'
  <2>1. UNCHANGED <<stream, pos, traded>> /\ At(g, "prepare")
    BY <1>4 DEF Prepare, Quiet, market
  <2>2. CASE Goto(g, "confirm") /\ UNCHANGED failed
    <3>1. eng'[g].step = "confirm" /\ \A h \in Engines : h # g => eng'[h] = eng[h]
      BY <2>2 DEF Goto
    <3>2. \A h \in Engines : Of(h)'
      BY <1>k, <1>m, <2>1, <2>2, <3>1 DEF stream, At
    <3> QED
      BY <1>o, <2>1, <3>2
  <2>3. CASE Fail(g, "place")
    <3>1. \A h \in Engines : Of(h)'
      BY <1>k, <1>f, <2>1, <2>3 DEF stream, Failures
    <3> QED
      BY <1>o, <2>1, <3>1
  <2> QED
    BY <1>4, <2>2, <2>3 DEF Prepare
<1>5. ASSUME NEW g \in Engines, Confirm(g) PROVE Watching'
  <2>1. UNCHANGED stream /\ At(g, "confirm")
    BY <1>5 DEF Confirm
  <2>2. /\ UNCHANGED <<pos, traded>> \/ (pos' = pos \cup {g} /\ traded' = traded \cup {g})
        /\ Fail(g, "place") \/ (Goto(g, "subscribe") /\ UNCHANGED failed)
    BY <1>5 DEF Confirm
  <2>3. (pos \subseteq traded)'
    BY <1>o, <2>2
  <2>4. \A h \in Engines : h # g => eng'[h] = eng[h] /\ failed'[h] = failed[h]
    BY <1>f, <2>2 DEF Goto, Failures
  <2>5. \A h \in Engines : h # g => Of(h)'
    <3>1. CASE UNCHANGED <<pos, traded>>
      BY <1>k, <2>1, <2>4, <3>1 DEF stream
    <3>2. CASE pos' = pos \cup {g} /\ traded' = traded \cup {g}
      BY <3>2 DEF Alone
    <3> QED
      BY <2>2, <3>1, <3>2
  <2>6. CASE Fail(g, "place")
    BY <1>f, <1>o, <2>3, <2>5, <2>6 DEF Failures
  <2>7. CASE Goto(g, "subscribe") /\ UNCHANGED failed
    <3>1. eng'[g].step = "subscribe"
      BY <2>7 DEF Goto
    <3>2. Alone(g)' /\ Unfailing(g)' => ~gateway.last
      BY <1>o, <2>1, <2>2, <2>7 DEF Alone, Unfailing, At, Flat
    <3>3. Of(g)'
      BY <2>1, <3>1, <3>2 DEF stream, At
    <3> QED
      BY <1>o, <2>3, <2>5, <3>3
  <2> QED
    BY <2>2, <2>6, <2>7
<1>6. ASSUME NEW g \in Engines, BeginAwait(g) PROVE Watching'
  <2>1. /\ UNCHANGED <<gateway, pos, traded, failed>> /\ At(g, "subscribe")
        /\ inbox' = [inbox EXCEPT ![g] = <<>>] /\ Goto(g, "await")
    BY <1>6 DEF BeginAwait, Subscribe, market, history
  <2>2. /\ eng'[g].step = "await" /\ inbox'[g] = <<>>
        /\ \A h \in Engines : h # g => eng'[h] = eng[h] /\ inbox'[h] = inbox[h]
    BY <2>1 DEF Goto, StreamTypeOK
  <2>3. ~Told(g)'
    BY <2>2 DEF Told
  <2>4. Of(g)'
    BY <1>o, <2>1, <2>2, <2>3 DEF Alone, Unfailing, At
  <2> QED
    BY <1>k, <1>o, <2>1, <2>2, <2>4
<1>7. ASSUME NEW g \in Engines, Hear(g) PROVE Watching'
  <2>0. inbox[g] \in Seq(Events) /\ inbox[g] # <<>> /\ g \in Readers
    BY <1>7 DEF Hear, StreamTypeOK
  <2>1. UNCHANGED <<gateway, pos, traded, failed>> /\ At(g, "await")
    BY <1>7 DEF Hear, market, history
  <2>2. \A h \in Engines : h # g => eng'[h] = eng[h] /\ inbox'[h] = inbox[h]
    BY <1>7, HearCounts DEF Hear, Receive, Unsubscribe, StreamTypeOK
  <2>3. CASE IsClose(Head(inbox[g]))
    <3>1. eng'[g].step = "evaluate"
      BY <1>7, <2>3 DEF Hear
    <3>2. Told(g)
      <4>1. 1 \in 1..Len(inbox[g]) /\ inbox[g][1] = Head(inbox[g])
        BY <2>0
      <4> QED
        BY <2>3, <4>1 DEF Told, IsClose
    <3>3. Of(g)'
      BY <1>o, <2>1, <3>1, <3>2 DEF Alone, Unfailing, At, Flat
    <3> QED
      BY <1>k, <1>o, <2>1, <2>2, <3>3
  <2>4. CASE ~IsClose(Head(inbox[g]))
    <3>1. eng'[g] = eng[g] /\ inbox'[g] = Tail(inbox[g])
      BY <1>7, <2>0, <2>4 DEF Hear, Receive, StreamTypeOK
    <3>2. Told(g)' => Told(g)
      <4>1. ASSUME NEW k \in 1..Len(inbox'[g]), IsClose(inbox'[g][k])
            PROVE  Told(g)
        <5>1. k + 1 \in 1..Len(inbox[g]) /\ inbox[g][k + 1] = inbox'[g][k]
          BY <2>0, <3>1, <4>1
        <5>2. IsClose(inbox[g][k + 1])
          BY <4>1, <5>1 DEF IsClose
        <5> QED
          BY <5>1, <5>2 DEF Told
      <4> QED
        BY <4>1 DEF Told, IsClose
    <3>3. Of(g)'
      BY <1>o, <2>1, <3>1, <3>2 DEF Alone, Unfailing, At, Flat
    <3> QED
      BY <1>k, <1>o, <2>1, <2>2, <3>3
  <2> QED
    BY <2>3, <2>4
<1>8. ASSUME NEW g \in Engines, GiveUp(g) PROVE Watching'
  <2>1. UNCHANGED <<gateway, pos, traded>> /\ inbox' = [inbox EXCEPT ![g] = <<>>]
    BY <1>8 DEF GiveUp, Unsubscribe, market
  <2>2. Fail(g, "timeout") \/ Fail(g, "stopped")
    BY <1>8, Zenon DEF GiveUp
  <2>3. \A h \in Engines : h # g => inbox'[h] = inbox[h]
    BY <2>1 DEF StreamTypeOK
  <2>4. \A h \in Engines : Of(h)'
    BY <1>f, <1>k, <2>1, <2>2, <2>3 DEF Failures
  <2> QED
    BY <1>o, <2>1, <2>4
<1>9. ASSUME NEW g \in Engines, Leave(g) PROVE Watching'
  <2>1. /\ UNCHANGED <<stream, pos, traded>> /\ eng'[g].step = "ended"
        /\ \A h \in Engines : h # g => eng'[h] = eng[h] /\ failed'[h] = failed[h]
    BY <1>9 DEF Leave, Gone, Blank, market
  <2>2. \A h \in Engines : Of(h)'
    BY <1>k, <1>z, <2>1 DEF stream
  <2> QED
    BY <1>o, <2>1, <2>2
<1>10. ASSUME PositionCloses PROVE Watching'
  <2>1. pos' = {} /\ UNCHANGED <<stream, eng, traded, failed>>
    BY <1>10 DEF PositionCloses, history
  <2>2. \A h \in Engines : Of(h)'
    BY <1>o, <2>1 DEF Alone, Unfailing, Flat, Told, At, stream
  <2> QED
    BY <1>o, <2>1, <2>2
<1>11. ASSUME Tick PROVE Watching'
  <2>1. UNCHANGED <<eng, pos, traded, failed>>
    BY <1>11 DEF Tick, market, history
  <2>2. CASE Poll(pos # {})
    <3>1. /\ gateway'.step = "publish" /\ gateway'.last = gateway.last
          /\ gateway'.now = (pos # {}) /\ UNCHANGED inbox
      BY <1>0, <2>2 DEF Poll
    <3>2. Flat => Flat'
      BY <2>1, <3>1 DEF Flat
    <3>3. ASSUME NEW h \in Engines PROVE Of(h)'
      <4>1. h \in pos => gateway'.now
        BY <3>1
      <4>2. (Alone(h)' <=> Alone(h)) /\ (Unfailing(h)' <=> Unfailing(h)) /\ (Told(h)' <=> Told(h))
        BY <2>1, <3>1 DEF Alone, Unfailing, Told, IsClose
      <4> QED
        BY <1>o, <2>1, <3>2, <4>1, <4>2 DEF At
    <3> QED
      BY <1>o, <2>1, <3>3
  <2>3. CASE Diff
    <3>1. gateway' = [step |-> "idle", now |-> FALSE, last |-> gateway.now] /\ gateway.step = "publish"
      BY <2>3 DEF Diff, Adopted
    <3>2. Flat => Flat'
      BY <2>1, <3>1 DEF Flat
    <3>3. ASSUME NEW h \in Engines, Alone(h), Unfailing(h), At(h, "await"), Told(h)'
          PROVE  Flat'
      <4>1. Told(h) \/ (~gateway.now /\ gateway.last)
        <5>1. CASE UNCHANGED inbox
          BY <3>3, <5>1 DEF Told, IsClose
        <5>2. CASE Publish(Update)
          <6>1. inbox'[h] = inbox[h] \/ inbox'[h] = Append(inbox[h], Update)
            BY <5>2 DEF Publish
          <6>2. inbox[h] \in Seq(Events) /\ Update \in Events /\ ~IsClose(Update)
            BY DEF StreamTypeOK, Events, Update, IsClose
          <6>3. PICK k \in 1..Len(inbox'[h]) : IsClose(inbox'[h][k])
            BY <3>3 DEF Told, IsClose
          <6>4. k \in 1..Len(inbox[h]) /\ inbox'[h][k] = inbox[h][k]
            <7>1. CASE inbox'[h] = inbox[h]
              BY <6>3, <7>1
            <7>2. CASE inbox'[h] = Append(inbox[h], Update)
              <8>1. /\ Len(inbox'[h]) = Len(inbox[h]) + 1 /\ Len(inbox[h]) \in Nat
                    /\ inbox'[h][Len(inbox[h]) + 1] = Update
                    /\ \A j \in 1..Len(inbox[h]) : inbox'[h][j] = inbox[h][j]
                BY <6>2, <7>2
              <8>2. k # Len(inbox[h]) + 1
                BY <6>2, <6>3, <8>1
              <8> QED
                BY <6>3, <8>1, <8>2
            <7> QED
              BY <6>1, <7>1, <7>2
          <6> QED
            BY <6>3, <6>4 DEF Told
        <5> QED
          BY <2>3, <5>1, <5>2 DEF Diff
      <4>2. CASE Told(h)
        BY <1>o, <3>2, <3>3, <4>2
      <4>3. CASE ~gateway.now /\ gateway.last
        <5>1. h \notin pos
          BY <1>o, <3>1, <3>3, <4>3 DEF At
        <5>2. pos = {}
          BY <1>o, <3>3, <5>1 DEF Alone
        <5> QED
          BY <2>1, <3>1, <4>3, <5>2 DEF Flat
      <4> QED
        BY <4>1, <4>2, <4>3
    <3>4. ASSUME NEW h \in Engines PROVE Of(h)'
      <4>1. (Alone(h)' <=> Alone(h)) /\ (Unfailing(h)' <=> Unfailing(h)) /\ (At(h, "await")' <=> At(h, "await"))
        BY <2>1 DEF Alone, Unfailing, At
      <4> QED
        BY <1>o, <2>1, <3>1, <3>2, <3>3, <4>1
    <3> QED
      BY <1>o, <2>1, <3>4
  <2> QED
    BY <1>11, <2>2, <2>3 DEF Tick
<1>12. ASSUME Restart PROVE Watching'
  <2>1. UNCHANGED <<pos, traded>>
    BY <1>12 DEF Restart, market
  <2>2. PICK last \in {pos # {}, FALSE} : gateway' = [step |-> "idle", now |-> FALSE, last |-> last]
    BY <1>12, Zenon DEF Restart, Reseed
  <2>3. \A h \in Engines : IF Alive(h) THEN eng'[h].step = "ended"
                           ELSE eng'[h] = eng[h] /\ failed'[h] = failed[h]
    BY <1>12 DEF Restart, Gone, Blank
  <2>4. Flat => Flat'
    BY <2>1, <2>2 DEF Flat
  <2>5. \A h \in Engines : ~Alive(h) => Of(h)'
    BY <1>o, <2>1, <2>3, <2>4 DEF Alive, Alone, Unfailing, At
  <2>6. \A h \in Engines : Alive(h) => Of(h)'
    BY <1>z, <2>3
  <2> QED
    BY <1>o, <2>1, <2>5, <2>6
<1>13. ASSUME UNCHANGED vars PROVE Watching'
  BY <1>13, <1>k, <1>o DEF vars, history, market, stream
<1> QED
  BY <1>1, <1>2, <1>3, <1>4, <1>5, <1>6, <1>7, <1>8, <1>9, <1>10, <1>11, <1>12, <1>13
     DEF Next, Run
-----------------------------------------------------------------------------
\* The invariant of campaigns (Manager, Engine.Run): types, map and goroutines, the
\* account of trades, what a stopped engine may have sent, and what the gateway knows.
THEOREM CampaignInvariant == Spec => []IInv
<1>1. IInv /\ [Next]_vars => IInv'
  BY TypeStep, RegisteredStep, CountedStep, StoppingStep, WatchingStep DEF IInv
<1> QED
  BY <1>1, InitIInv, PTL DEF Spec

\* Whatever Start, Stop and the ends of campaigns interleave, an engine that trades is the
\* one its user's next Stop reaches (Manager.running).
THEOREM StopReachesTheEngine == Spec => []EngineIsRegistered
<1>1. IInv => EngineIsRegistered
  BY DEF IInv, Registered, EngineIsRegistered
<1> QED
  BY <1>1, CampaignInvariant, PTL

\* The engine never asks for more trades than MaxTrades and what failed (Engine.Run).
THEOREM AttemptsAreBounded == Spec => []AttemptsBounded
<1>1. IInv => AttemptsBounded
  <2> SUFFICES ASSUME IInv, NEW g \in Engines, MaxTrades > 0
               PROVE  opens[g] <= MaxTrades + failed[g]["place"] + failed[g]["timeout"]
                                  + failed[g]["stopped"]
    BY DEF AttemptsBounded
  <2>1. /\ eng[g].trades \in Nat /\ opens[g] \in Nat
        /\ \A f \in Failures : failed[g][f] \in Nat
    BY DEF IInv, TypeOK
  <2> QED
    BY <2>1, CampaignAssumption DEF IInv, Counted, Failed, Failures
<1> QED
  BY <1>1, CampaignInvariant, PTL

\* After Stop only an order that was being confirmed may still reach the exchange.
THEOREM StopOpensNothing == Spec => []NothingOpensAfterStop
<1>1. IInv => NothingOpensAfterStop
  BY DEF IInv, TypeOK, Stopping, NothingOpensAfterStop
<1> QED
  BY <1>1, CampaignInvariant, PTL

\* Stop reaches the engine that trades, and nothing is opened after it.
THEOREM StopsStop == Spec => []StopStops
<1>1. EngineIsRegistered /\ NothingOpensAfterStop => StopStops
  BY DEF StopStops
<1> QED
  BY <1>1, StopReachesTheEngine, StopOpensNothing, PTL

\* A campaign that has the watched account for itself asks for its next trade, and comes
\* to its end, only when the trade before has closed, although the poll that tells it so
\* may be older than its order (AwaitClose, Gateway.tick).
THEOREM OneTradeAtOnce == Spec => []OneTradeAtATime
<1>1. IInv => OneTradeAtATime
  <2> SUFFICES ASSUME IInv, NEW g \in Engines, Alone(g), \A f \in Failures : failed[g][f] = 0,
                      eng[g].step \notin {"confirm", "subscribe", "await", "ended"}
               PROVE  g \notin pos
    BY DEF OneTradeAtATime
  <2>1. Flat
    BY DEF IInv, Watching, Unfailing
  <2> QED
    BY <2>1 DEF Flat
<1> QED
  BY <1>1, CampaignInvariant, PTL
=============================================================================
