-------------------------- MODULE ArmedMissionsProofs --------------------------
(***************************************************************************)
(* Machine-checked proofs about ArmedMissions, for any number of instances, *)
(* missions and symbols, all windows and all limits.                       *)
(*                                                                         *)
(* The argument: a row is inserted once, by the one arm request that drew   *)
(* its id (SavesFresh), and only an armed row changes its status.  So one   *)
(* watcher at most, of all instances, wins the claim, and what it has done  *)
(* since is what `staged`, `entered` and `recorded` say (MissionTrue).      *)
(* Every step changes one mission at most and in one of a few ways          *)
(* (Shape); the safety properties and the refinement follow from them.  *)
(***************************************************************************)
EXTENDS ArmedMissions, WellFoundedInduction, FiniteSetTheorems, TLAPS

\* A watcher that has won the claim and has not finished.
PastClaim == {"prepare", "record", "gate", "confirm", "cancel"}
Past(i, m) == watch[i][m].step \in PastClaim

\* What became of the mission's entry agrees with its row and with the watcher at work.
MissionTrue(m) ==
  /\ staged[m] \in {0, 1} /\ entered[m] \in {0, 1}
  /\ row[m].status # "triggered" => staged[m] = 0 /\ entered[m] = 0
  /\ entered[m] = 1 => row[m].recorded
  /\ \A i \in Instances :
       /\ Past(i, m) => row[m].status = "triggered" /\ entered[m] = 0
       /\ At(i, m, "prepare") => staged[m] = 0
       /\ At(i, m, "gate") \/ At(i, m, "confirm") => row[m].recorded
  /\ \A i, j \in Instances : i # j => ~(Past(i, m) /\ Past(j, m))

\* An arm request about to insert a row is alone with its id.
SavesFresh ==
  /\ \A i \in Instances : arm[i].step = "save" => row[arm[i].mission].status = "absent"
  /\ \A i, j \in Instances :
       i # j /\ arm[i].step = "save" /\ arm[j].step = "save" => arm[i].mission # arm[j].mission

IInv == TypeOK /\ SavesFresh /\ \A m \in Missions : MissionTrue(m)
-----------------------------------------------------------------------------
\* A finite set of naturals has a greatest element: the one with the least set of
\* elements above it.
LEMMA GreatestElement ==
  ASSUME NEW W, W \subseteq Nat, IsFiniteSet(W), W # {}
  PROVE  \E w \in W : \A v \in W : v <= w
<1> DEFINE Above(n) == {v \in W : v > n}
           T == {Above(n) : n \in W}
<1>1. IsWellFoundedOn(StrictSubsetOrdering(W), SUBSET W)
  BY FS_StrictSubsetOrderingWellFounded, FS_FiniteSubsetsOfFinite
<1>2. T \subseteq SUBSET W /\ T # {}
  OBVIOUS
<1>3. PICK A \in T : \A B \in T : ~(<<B, A>> \in StrictSubsetOrdering(W))
  <2> HIDE DEF T
  <2>1. QED
    BY <1>1, <1>2, WFMin
<1>4. PICK w \in W : A = Above(w)
  OBVIOUS
<1>5. ASSUME NEW v \in W, v > w
      PROVE  FALSE
  <2>1. v \in Nat /\ w \in Nat
    OBVIOUS
  <2>2. v \in Above(w) /\ v \notin Above(v)
    BY <1>5, <2>1
  <2>3. ASSUME NEW n \in Above(v)
        PROVE  n \in Above(w)
    <3>1. n \in W /\ n \in Nat /\ n > v
      BY <2>3
    <3>2. n > w
      BY <3>1, <2>1, <1>5
    <3>3. QED
      BY <3>1, <3>2
  <2>4. Above(v) \subseteq W /\ Above(w) \subseteq W /\ Above(v) \in T
    OBVIOUS
  <2>5. Above(v) \subseteq Above(w) /\ Above(v) # Above(w)
    <3> HIDE DEF Above
    <3>1. QED
      BY <2>2, <2>3
  <2>6. <<Above(v), A>> \in StrictSubsetOrdering(W)
    <3> HIDE DEF Above, T
    <3>1. QED
      BY <2>4, <2>5, <1>4 DEF StrictSubsetOrdering
  <2>7. QED
    <3> HIDE DEF Above, T
    <3>1. QED
      BY <2>4, <2>6, <1>3
<1>6. QED
  BY <1>5

\* The bounds of the times that are kept.
LEMMA LimitTypes ==
  /\ OpLimit \in Nat /\ DailyLimit \in Nat /\ LongestWindow \in Windows
  /\ \A w \in Windows : w \in Nat /\ w > 0 /\ w <= LongestWindow
  /\ LongestWindow \in Nat
<1>1. \E w \in Windows : \A v \in Windows : v <= w
  BY ArmAssumption, GreatestElement
<1>2. LongestWindow \in Windows /\ \A v \in Windows : v <= LongestWindow
  BY <1>1 DEF LongestWindow
<1>3. QED
  BY <1>2, ArmAssumption

\* Every stored row and every time left that the code computes is within its bounds.
LEMMA LeftTypes ==
  /\ \A w \in Windows, l \in 0..OpLimit : w - l \in Left
  /\ \A n \in Left : n > -OpLimit => n - 1 \in Left
BY LimitTypes DEF Left

\* The names of what is at hand when nothing is.
LEMMA EmptyTypes ==
  /\ NoWatch \in Watches /\ NoWatch.step = "none"
  /\ Waiting \in Watches /\ Waiting.step = "waiting"
  /\ NoRow.status = "absent" /\ NoRequest.step = "idle"
BY LimitTypes DEF NoWatch, Waiting, Watches, WatchSteps, NoRow, NoRequest

\* A row that is there has every field.
LEMMA RowTypes ==
  ASSUME TypeOK, NEW m \in Missions
  PROVE  /\ row[m].status \in Status
         /\ row[m].status # "absent" => row[m] \in Rows
BY DEF TypeOK, Rows, NoRow, Status

\* A request that is there has every field.
LEMMA ArmTypes ==
  ASSUME TypeOK, NEW i \in Instances
  PROVE  /\ arm[i].step \in {"idle", "extend", "save"}
         /\ arm[i].step # "idle" => arm[i] \in Requests
BY DEF TypeOK, Requests, NoRequest

\* Starting a watcher touches a mission nobody of this instance watches.
LEMMA WatchedEffect ==
  ASSUME NEW ws \in [Missions -> Watches], NEW m \in Missions, NEW left
  PROVE  /\ Watched(ws, m, left) \in [Missions -> Watches]
         /\ \A n \in Missions : \/ Watched(ws, m, left)[n] = ws[n]
                                \/ Watched(ws, m, left)[n] = Waiting
BY EmptyTypes DEF Watched

\* What the steps of a watcher do to it.
LEMMA GotoEffect ==
  ASSUME TypeOK, NEW i \in Instances, NEW m \in Missions, NEW s \in WatchSteps, Goto(i, m, s)
  PROVE  /\ watch' \in [Instances -> [Missions -> Watches]]
         /\ watch'[i][m].step = s
         /\ \A j \in Instances, n \in Missions : j # i \/ n # m => watch'[j][n] = watch[j][n]
<1> DEFINE new == [watch[i] EXCEPT ![m] = [watch[i][m] EXCEPT !.step = s]]
<1>1. watch \in [Instances -> [Missions -> Watches]] /\ watch[i] \in [Missions -> Watches]
  BY DEF TypeOK
<1>2. watch' = [watch EXCEPT ![i] = new]
  BY <1>1 DEF Goto
<1>3. [watch[i][m] EXCEPT !.step = s] \in Watches /\ [watch[i][m] EXCEPT !.step = s].step = s
  BY <1>1 DEF Watches
<1>4. /\ new \in [Missions -> Watches] /\ new[m].step = s
      /\ \A n \in Missions : n # m => new[n] = watch[i][n]
  BY <1>1, <1>3
<1>5. QED
  <2> HIDE DEF new
  <2>1. QED
    BY <1>1, <1>2, <1>4

LEMMA StopEffect ==
  ASSUME TypeOK, NEW i \in Instances, NEW m \in Missions, Stop(i, m) \/ Wait(i, m)
  PROVE  /\ watch' \in [Instances -> [Missions -> Watches]]
         /\ ~Past(i, m)'
         /\ \A j \in Instances, n \in Missions : j # i \/ n # m => watch'[j][n] = watch[j][n]
<1>1. watch \in [Instances -> [Missions -> Watches]] /\ watch[i] \in [Missions -> Watches]
  BY DEF TypeOK
<1>2. PICK w \in {NoWatch, Waiting} : watch' = [watch EXCEPT ![i] = [watch[i] EXCEPT ![m] = w]]
  BY <1>1 DEF Stop, Wait
<1>3. w \in Watches /\ w.step \notin PastClaim
  BY EmptyTypes DEF PastClaim
<1> DEFINE new == [watch[i] EXCEPT ![m] = w]
<1>4. /\ new \in [Missions -> Watches] /\ new[m] = w
      /\ \A n \in Missions : n # m => new[n] = watch[i][n]
  BY <1>1, <1>3
<1>5. watch' = [watch EXCEPT ![i] = new]
  BY <1>2
<1>6. QED
  <2> HIDE DEF new
  <2>1. QED
    BY <1>1, <1>3, <1>4, <1>5 DEF Past

\* A transition changes the status of one row that is there.
LEMMA BecomeEffect ==
  ASSUME TypeOK, NEW m \in Missions, NEW st \in Status, IsArmed(m), Become(m, st)
  PROVE  /\ row' \in [Missions -> Rows \cup {NoRow}]
         /\ row'[m].status = st
         /\ \A n \in Missions : n # m => row'[n] = row[n]
BY RowTypes DEF TypeOK, Become, Rows, IsArmed
-----------------------------------------------------------------------------
\* Nothing became of the mission, except that its watchers came, went or waited, and
\* that time passed or a longer window was given while it was armed.
Untouched(m) ==
  /\ row'[m].status = row[m].status
  /\ row[m].status \notin {"absent", "armed"} => row'[m] = row[m]
  /\ staged'[m] = staged[m] /\ entered'[m] = entered[m]
  /\ \A i \in Instances : Past(i, m)' => watch'[i][m].step = watch[i][m].step

\* The ways in which a step changes a mission.
Stored(m) ==
  /\ row[m].status = "absent" /\ row'[m].status = "armed"
  /\ staged'[m] = staged[m] /\ entered'[m] = entered[m]
  /\ \A i \in Instances : Past(i, m)' => watch'[i][m].step = watch[i][m].step
CalledOff(m) ==
  /\ row[m].status = "armed" /\ row'[m].status \in {"expired", "disarmed"}
  /\ staged'[m] = staged[m] /\ entered'[m] = entered[m]
  /\ \A i \in Instances : Past(i, m)' => watch'[i][m].step = watch[i][m].step
ClaimedBy(i, m) ==
  /\ row[m].status = "armed" /\ row'[m].status = "triggered"
  /\ staged'[m] = staged[m] /\ entered'[m] = entered[m]
  /\ Past(i, m)' => watch'[i][m].step = "prepare"
  /\ \A j \in Instances : j # i => watch'[j][m] = watch[j][m]

\* The watcher that won the claim goes on; what it has on record stays there.
GoesOn(i, m) ==
  /\ Past(i, m) /\ row'[m].status = row[m].status /\ row'[m].left = row[m].left
  /\ row[m].recorded => row'[m].recorded
  /\ \/ /\ At(i, m, "prepare")
        /\ staged'[m] \in {staged[m], staged[m] + 1} /\ entered'[m] = entered[m]
        /\ Past(i, m)' => watch'[i][m].step = "record"
     \/ /\ ~At(i, m, "prepare") /\ staged'[m] = staged[m] /\ entered'[m] = entered[m]
        /\ \/ ~Past(i, m)' \/ watch'[i][m].step = "cancel"
           \/ watch'[i][m].step \in {"gate", "confirm"} /\ row'[m].recorded
     \/ /\ At(i, m, "confirm") /\ staged'[m] = staged[m]
        /\ entered'[m] \in {entered[m], entered[m] + 1}
        /\ ~Past(i, m)'
  /\ \A j \in Instances : j # i => watch'[j][m] = watch[j][m]

Touched(m) ==
  \/ Stored(m) \/ CalledOff(m)
  \/ \E i \in Instances : ClaimedBy(i, m) \/ GoesOn(i, m)

OneTouched == \E m \in Missions : Touched(m) /\ \A n \in Missions : n # m => Untouched(n)

Shape == OneTouched \/ \A m \in Missions : Untouched(m)

\* A step of a watcher on its mission leaves the other missions alone.
LEMMA WatcherShape ==
  ASSUME IInv, NEW i \in Instances, NEW m \in Missions, Watcher(i, m)
  PROVE  Shape
<1>1. TypeOK /\ MissionTrue(m)
  BY DEF IInv
<1>2. ASSUME \A n \in Missions : n # m =>
               /\ row'[n] = row[n] /\ staged'[n] = staged[n] /\ entered'[n] = entered[n]
               /\ \A j \in Instances : watch'[j][n] = watch[j][n],
             Touched(m) \/ Untouched(m)
      PROVE  Shape
  BY <1>2 DEF Shape, OneTouched, Untouched
<1>3. CASE Check(i, m) \/ NoSetup(i, m)
  <2>1. /\ UNCHANGED <<row, staged, entered>>
        /\ Stop(i, m) \/ Wait(i, m) \/ Goto(i, m, "expire") \/ Goto(i, m, "claim")
    BY <1>3 DEF Check, NoSetup, history
  <2>2. /\ ~Past(i, m)'
        /\ \A j \in Instances, n \in Missions : j # i \/ n # m => watch'[j][n] = watch[j][n]
    <3>1. {"expire", "claim"} \subseteq WatchSteps
      BY DEF WatchSteps
    <3>2. QED
      BY <2>1, <3>1, <1>1, StopEffect, GotoEffect DEF Past, PastClaim
  <2>3. Untouched(m)
    BY <2>1, <2>2 DEF Untouched
  <2>4. QED
    BY <1>2, <2>1, <2>2, <2>3
<1>4. CASE MarkExpired(i, m)
  <2>1. /\ UNCHANGED <<staged, entered>>
        /\ Stop(i, m)
        /\ UNCHANGED row \/ (IsArmed(m) /\ Become(m, "expired"))
    BY <1>4 DEF MarkExpired, Expirable, history
  <2>2. /\ ~Past(i, m)'
        /\ \A j \in Instances, n \in Missions : j # i \/ n # m => watch'[j][n] = watch[j][n]
    BY <2>1, <1>1, StopEffect
  <2>3. CASE UNCHANGED row
    BY <1>2, <2>1, <2>2, <2>3 DEF Untouched
  <2>4. CASE IsArmed(m) /\ Become(m, "expired")
    <3>1. row'[m].status = "expired" /\ \A n \in Missions : n # m => row'[n] = row[n]
      BY <2>4, <1>1, BecomeEffect DEF Status
    <3>2. CalledOff(m)
      BY <2>1, <2>2, <2>4, <3>1 DEF CalledOff, IsArmed
    <3>3. QED
      BY <1>2, <2>1, <2>2, <3>1, <3>2 DEF Touched
  <2>5. QED
    BY <2>1, <2>3, <2>4
<1>5. CASE MarkTriggered(i, m)
  <2>1. UNCHANGED <<staged, entered>> /\ At(i, m, "claim")
    BY <1>5 DEF MarkTriggered, history
  <2>2. CASE IsArmed(m) /\ Become(m, "triggered") /\ (Goto(i, m, "prepare") \/ Stop(i, m))
    <3>1. row'[m].status = "triggered" /\ \A n \in Missions : n # m => row'[n] = row[n]
      BY <2>2, <1>1, BecomeEffect DEF Status
    <3>2. /\ Past(i, m)' => watch'[i][m].step = "prepare"
          /\ \A j \in Instances, n \in Missions : j # i \/ n # m => watch'[j][n] = watch[j][n]
      BY <2>2, <1>1, GotoEffect, StopEffect DEF WatchSteps
    <3>3. ClaimedBy(i, m)
      BY <2>1, <2>2, <3>1, <3>2 DEF ClaimedBy, IsArmed
    <3>4. QED
      BY <1>2, <2>1, <3>1, <3>2, <3>3 DEF Touched
  <2>3. CASE Stop(i, m) /\ UNCHANGED row
    BY <1>1, <1>2, <2>1, <2>3, StopEffect DEF Untouched
  <2>4. QED
    BY <1>5, <2>2, <2>3 DEF MarkTriggered, Triggerable
<1>6. CASE Prepare(i, m)
  <2>1. /\ At(i, m, "prepare") /\ UNCHANGED <<row, entered>>
        /\ staged' = [staged EXCEPT ![m] = @ + 1] \/ UNCHANGED staged
        /\ Goto(i, m, "record") \/ Stop(i, m)
    BY <1>6 DEF Prepare
  <2>2. /\ staged'[m] \in {staged[m], staged[m] + 1}
        /\ \A n \in Missions : n # m => staged'[n] = staged[n]
    BY <2>1, <1>1 DEF TypeOK
  <2>3. /\ Past(i, m)' => watch'[i][m].step = "record"
        /\ \A j \in Instances, n \in Missions : j # i \/ n # m => watch'[j][n] = watch[j][n]
    BY <2>1, <1>1, GotoEffect, StopEffect DEF WatchSteps
  <2>4. GoesOn(i, m)
    BY <2>1, <2>2, <2>3 DEF GoesOn, Past, PastClaim, At
  <2>5. QED
    BY <1>2, <2>1, <2>2, <2>3, <2>4 DEF Touched
<1>7. CASE Record(i, m)
  <2>1. At(i, m, "record") /\ UNCHANGED <<staged, entered>>
    BY <1>7 DEF Record, history
  <2>2. CASE /\ Recordable(m) /\ row' = [row EXCEPT ![m].recorded = TRUE]
             /\ Goto(i, m, "gate") \/ Goto(i, m, "cancel")
    <3>1. row[m] \in Rows
      BY <2>2, <1>1, RowTypes DEF Recordable
    <3>2. /\ row'[m].recorded /\ row'[m].status = row[m].status /\ row'[m].left = row[m].left
          /\ \A n \in Missions : n # m => row'[n] = row[n]
      BY <2>2, <3>1, <1>1 DEF TypeOK, Rows
    <3>3. /\ watch'[i][m].step \in {"gate", "cancel"}
          /\ \A j \in Instances, n \in Missions : j # i \/ n # m => watch'[j][n] = watch[j][n]
      BY <2>2, <1>1, GotoEffect DEF WatchSteps
    <3>4. GoesOn(i, m)
      BY <2>1, <3>2, <3>3 DEF GoesOn, Past, PastClaim, At
    <3>5. QED
      BY <1>2, <2>1, <3>2, <3>3, <3>4 DEF Touched
  <2>3. CASE UNCHANGED row /\ Goto(i, m, "cancel")
    <3>1. /\ watch'[i][m].step = "cancel"
          /\ \A j \in Instances, n \in Missions : j # i \/ n # m => watch'[j][n] = watch[j][n]
      BY <2>3, <1>1, GotoEffect DEF WatchSteps
    <3>2. GoesOn(i, m)
      BY <2>1, <2>3, <3>1 DEF GoesOn, Past, PastClaim, At
    <3>3. QED
      BY <1>2, <2>1, <2>3, <3>1, <3>2 DEF Touched
  <2>4. QED
    BY <1>7, <2>2, <2>3 DEF Record
<1>8. CASE Gate(i, m)
  <2>1. /\ At(i, m, "gate") /\ UNCHANGED <<row, staged, entered>> /\ row[m].recorded
        /\ Goto(i, m, "confirm") \/ Goto(i, m, "cancel")
    BY <1>8, <1>1 DEF Gate, history, MissionTrue
  <2>2. /\ watch'[i][m].step \in {"confirm", "cancel"}
        /\ \A j \in Instances, n \in Missions : j # i \/ n # m => watch'[j][n] = watch[j][n]
    BY <2>1, <1>1, GotoEffect DEF WatchSteps
  <2>3. GoesOn(i, m)
    BY <2>1, <2>2 DEF GoesOn, Past, PastClaim, At
  <2>4. QED
    BY <1>2, <2>1, <2>2, <2>3 DEF Touched
<1>9. CASE Confirm(i, m)
  <2>1. /\ At(i, m, "confirm") /\ UNCHANGED <<row, staged>> /\ Stop(i, m)
        /\ entered' = [entered EXCEPT ![m] = @ + 1] \/ UNCHANGED entered
    BY <1>9 DEF Confirm
  <2>2. /\ entered'[m] \in {entered[m], entered[m] + 1}
        /\ \A n \in Missions : n # m => entered'[n] = entered[n]
    BY <2>1, <1>1 DEF TypeOK
  <2>3. /\ ~Past(i, m)'
        /\ \A j \in Instances, n \in Missions : j # i \/ n # m => watch'[j][n] = watch[j][n]
    BY <2>1, <1>1, StopEffect
  <2>4. GoesOn(i, m)
    BY <2>1, <2>2, <2>3 DEF GoesOn, Past, PastClaim, At
  <2>5. QED
    BY <1>2, <2>1, <2>2, <2>3, <2>4 DEF Touched
<1>10. CASE Cancel(i, m)
  <2>1. UNCHANGED <<row, staged, entered>> /\ Stop(i, m)
    BY <1>10 DEF Cancel, history
  <2>2. /\ ~Past(i, m)'
        /\ \A j \in Instances, n \in Missions : j # i \/ n # m => watch'[j][n] = watch[j][n]
    BY <2>1, <1>1, StopEffect
  <2>3. Untouched(m)
    BY <2>1, <2>2 DEF Untouched
  <2>4. QED
    BY <1>2, <2>1, <2>2, <2>3
<1>11. QED
  BY <1>3, <1>4, <1>5, <1>6, <1>7, <1>8, <1>9, <1>10 DEF Watcher
-----------------------------------------------------------------------------
\* Recording the confirmation keeps a row a row.
LEMMA RecordEffect ==
  ASSUME TypeOK, NEW m \in Missions, Recordable(m), row' = [row EXCEPT ![m].recorded = TRUE]
  PROVE  /\ row' \in [Missions -> Rows \cup {NoRow}]
         /\ row'[m].status = row[m].status
         /\ \A n \in Missions : n # m => row'[n] = row[n]
<1>1. row[m] \in Rows
  BY RowTypes DEF Recordable
<1>2. [row[m] EXCEPT !.recorded = TRUE] \in Rows
  BY <1>1 DEF Rows
<1>3. [row[m] EXCEPT !.recorded = TRUE].status = row[m].status
  BY <1>1 DEF Rows
<1>4. QED
  BY <1>2, <1>3 DEF TypeOK

\* A step that leaves the arm requests and the missing rows alone leaves ids fresh.
LEMMA FreshStays ==
  ASSUME TypeOK, SavesFresh, UNCHANGED arm,
         \A n \in Missions : row[n].status = "absent" => row'[n].status = "absent"
  PROVE  SavesFresh'
<1>1. \A i \in Instances : arm[i].step = "save" => arm[i].mission \in Missions
  BY ArmTypes DEF Requests
<1>2. QED
  BY <1>1 DEF SavesFresh

\* A watcher keeps every variable within its type, and the ids fresh.
LEMMA WatcherTypes ==
  ASSUME IInv, NEW i \in Instances, NEW m \in Missions, Watcher(i, m)
  PROVE  TypeOK' /\ SavesFresh'
<1>1. TypeOK /\ SavesFresh
  BY DEF IInv
<1>2. UNCHANGED <<up, arm>>
  BY DEF Watcher, Check, NoSetup, MarkExpired, MarkTriggered, Prepare, Record, Gate, Confirm,
         Cancel
<1>3. Stop(i, m) \/ Wait(i, m) \/ \E s \in WatchSteps : Goto(i, m, s)
  <2>1. {"expire", "claim", "prepare", "record", "gate", "confirm", "cancel"} \subseteq WatchSteps
    BY DEF WatchSteps
  <2>2. CASE Check(i, m) \/ NoSetup(i, m) \/ MarkExpired(i, m) \/ MarkTriggered(i, m)
    BY <2>1, <2>2 DEF Check, NoSetup, MarkExpired, MarkTriggered
  <2>3. CASE Prepare(i, m) \/ Record(i, m) \/ Gate(i, m) \/ Confirm(i, m) \/ Cancel(i, m)
    BY <2>1, <2>3 DEF Prepare, Record, Gate, Confirm, Cancel
  <2>4. QED
    BY <2>2, <2>3 DEF Watcher
<1>4. watch' \in [Instances -> [Missions -> Watches]]
  BY <1>1, <1>3, StopEffect, GotoEffect
<1>5. \/ UNCHANGED row
      \/ \E st \in {"expired", "triggered"} : IsArmed(m) /\ Become(m, st)
      \/ Recordable(m) /\ row' = [row EXCEPT ![m].recorded = TRUE]
  BY DEF Watcher, Check, NoSetup, MarkExpired, MarkTriggered, Prepare, Record, Gate, Confirm,
         Cancel, Expirable, Triggerable
<1>6. /\ row' \in [Missions -> Rows \cup {NoRow}]
      /\ \A n \in Missions : row[n].status = "absent" => row'[n].status = "absent"
  <2>1. CASE UNCHANGED row
    BY <1>1, <2>1 DEF TypeOK
  <2>2. CASE \E st \in {"expired", "triggered"} : IsArmed(m) /\ Become(m, st)
    <3>1. {"expired", "triggered"} \subseteq Status
      BY DEF Status
    <3>2. QED
      BY <1>1, <2>2, <3>1, BecomeEffect DEF IsArmed
  <2>3. CASE Recordable(m) /\ row' = [row EXCEPT ![m].recorded = TRUE]
    BY <1>1, <2>3, RecordEffect DEF Recordable
  <2>4. QED
    BY <1>5, <2>1, <2>2, <2>3
<1>7. /\ UNCHANGED usage \/ usage' = [usage EXCEPT ![i] = @ + 1]
      /\ UNCHANGED staged \/ staged' = [staged EXCEPT ![m] = @ + 1]
      /\ UNCHANGED entered \/ entered' = [entered EXCEPT ![m] = @ + 1]
  BY DEF Watcher, Check, NoSetup, MarkExpired, MarkTriggered, Prepare, Record, Gate, Confirm,
         Cancel, history
<1>8. usage' \in [Instances -> Nat] /\ staged' \in [Missions -> Nat] /\ entered' \in [Missions -> Nat]
  <2>1. usage \in [Instances -> Nat] /\ staged \in [Missions -> Nat] /\ entered \in [Missions -> Nat]
    BY <1>1 DEF TypeOK
  <2>2. usage' \in [Instances -> Nat]
    BY <1>7, <2>1
  <2>3. staged' \in [Missions -> Nat]
    BY <1>7, <2>1
  <2>4. entered' \in [Missions -> Nat]
    BY <1>7, <2>1
  <2>5. QED
    BY <2>2, <2>3, <2>4
<1>9. QED
  <2>1. TypeOK'
    BY <1>1, <1>2, <1>4, <1>6, <1>8 DEF TypeOK
  <2>2. QED
    BY <1>1, <1>2, <1>6, <2>1, FreshStays
-----------------------------------------------------------------------------
\* The sweep and the user call off an armed mission.
LEMMA CallOffStep ==
  ASSUME IInv, NEW m \in Missions, NEW st \in {"expired", "disarmed"}, IsArmed(m), Become(m, st),
         UNCHANGED <<up, arm, watch, usage, history>>
  PROVE  TypeOK' /\ SavesFresh' /\ Shape
<1>1. TypeOK /\ SavesFresh /\ st \in Status
  BY DEF IInv, Status
<1>2. /\ row' \in [Missions -> Rows \cup {NoRow}] /\ row'[m].status = st
      /\ \A n \in Missions : n # m => row'[n] = row[n]
  BY <1>1, BecomeEffect
<1>3. TypeOK'
  BY <1>1, <1>2 DEF TypeOK, history
<1>4. SavesFresh'
  BY <1>1, <1>2, FreshStays DEF IsArmed
<1>5. CalledOff(m) /\ \A n \in Missions : n # m => Untouched(n)
  BY <1>2 DEF CalledOff, Untouched, IsArmed, history
<1>6. QED
  BY <1>3, <1>4, <1>5 DEF Shape, OneTouched, Touched

\* A step after which the goroutines of one instance are the ones there were, new ones
\* that wait, or gone, and no row has changed, touches no mission.
LEMMA QuietStep ==
  ASSUME IInv, NEW i \in Instances, NEW ws \in [Missions -> Watches],
         watch' = [watch EXCEPT ![i] = ws],
         \A n \in Missions : ws[n] \in {watch[i][n], Waiting, NoWatch},
         UNCHANGED history
  PROVE  /\ watch' \in [Instances -> [Missions -> Watches]]
         /\ \A m \in Missions :
              (/\ row'[m].status = row[m].status
               /\ row[m].status \notin {"absent", "armed"} => row'[m] = row[m]) => Untouched(m)
<1>1. TypeOK
  BY DEF IInv
<1>2. watch' \in [Instances -> [Missions -> Watches]]
  BY <1>1 DEF TypeOK
<1>3. \A j \in Instances, n \in Missions : watch'[j][n] \in {watch[j][n], Waiting, NoWatch}
  BY <1>1 DEF TypeOK
<1>4. \A j \in Instances, n \in Missions : Past(j, n)' => watch'[j][n].step = watch[j][n].step
  BY <1>3, EmptyTypes DEF Past, PastClaim
<1>5. QED
  BY <1>2, <1>4 DEF Untouched, history

LEMMA BootStep ==
  ASSUME IInv, NEW i \in Instances, WatchActive(i) \/ Crash(i)
  PROVE  TypeOK' /\ SavesFresh' /\ Shape
<1>1. TypeOK /\ SavesFresh
  BY DEF IInv
<1>2. PICK ws \in [Missions -> Watches] :
        /\ watch' = [watch EXCEPT ![i] = ws]
        /\ \A n \in Missions : ws[n] \in {watch[i][n], Waiting, NoWatch}
  <2>1. watch[i] \in [Missions -> Watches] /\ [watch EXCEPT ![i] = watch[i]] = watch
    BY <1>1 DEF TypeOK
  <2>2. CASE UNCHANGED watch
    BY <2>1, <2>2
  <2>3. CASE watch' = [watch EXCEPT ![i] = [m \in Missions |-> IF m \in Active THEN Waiting
                                                              ELSE NoWatch]]
    <3> DEFINE started == [m \in Missions |-> IF m \in Active THEN Waiting ELSE NoWatch]
    <3>1. started \in [Missions -> Watches] /\ \A n \in Missions : started[n] \in {Waiting, NoWatch}
      BY EmptyTypes
    <3>2. QED
      <4> HIDE DEF started
      <4>1. watch' = [watch EXCEPT ![i] = started]
        BY <2>3 DEF started
      <4>2. QED
        BY <3>1, <4>1
  <2>4. CASE watch' = [watch EXCEPT ![i] = [m \in Missions |-> NoWatch]]
    <3> DEFINE gone == [m \in Missions |-> NoWatch]
    <3>1. gone \in [Missions -> Watches] /\ \A n \in Missions : gone[n] \in {Waiting, NoWatch}
      BY EmptyTypes
    <3>2. QED
      <4> HIDE DEF gone
      <4>1. watch' = [watch EXCEPT ![i] = gone]
        BY <2>4 DEF gone
      <4>2. QED
        BY <3>1, <4>1
  <2>5. QED
    BY <2>2, <2>3, <2>4 DEF WatchActive, Crash
<1>3. UNCHANGED <<row, history>>
  BY DEF WatchActive, Crash
<1>4. watch' \in [Instances -> [Missions -> Watches]] /\ \A m \in Missions : Untouched(m)
  BY <1>2, <1>3, QuietStep
<1>5. arm' = arm \/ arm' = [arm EXCEPT ![i] = NoRequest]
  BY DEF WatchActive, Crash
<1>6. usage' = usage \/ usage' = [usage EXCEPT ![i] = 0]
  BY DEF WatchActive, Crash
<1>7. up' \in SUBSET Instances
  BY <1>1 DEF WatchActive, Crash, TypeOK
<1>8. TypeOK'
  <2>1. arm' \in [Instances -> Requests \cup {NoRequest}]
    BY <1>1, <1>5 DEF TypeOK
  <2>2. usage' \in [Instances -> Nat]
    BY <1>1, <1>6 DEF TypeOK
  <2>3. QED
    BY <1>1, <1>3, <1>4, <1>7, <2>1, <2>2 DEF TypeOK, history
<1>9. SavesFresh'
  <2>1. \A j \in Instances : arm'[j].step = "save" => arm'[j] = arm[j]
    BY <1>1, <1>5, EmptyTypes DEF TypeOK
  <2>2. QED
    BY <1>1, <1>3, <2>1 DEF SavesFresh
<1>10. QED
  BY <1>4, <1>8, <1>9 DEF Shape

LEMMA CountStep ==
  ASSUME IInv, NewDay \/ (\E i \in Instances : WebMission(i)) \/ UNCHANGED vars
  PROVE  TypeOK' /\ SavesFresh' /\ Shape
<1>1. TypeOK /\ SavesFresh
  BY DEF IInv
<1>2. UNCHANGED <<row, up, arm, watch, history>>
  BY DEF NewDay, WebMission, vars, history
<1>3. usage' \in [Instances -> Nat]
  <2>1. CASE NewDay
    BY <2>1 DEF NewDay
  <2>2. CASE \E i \in Instances : WebMission(i)
    BY <1>1, <2>2 DEF WebMission, TypeOK
  <2>3. CASE UNCHANGED vars
    BY <1>1, <2>3 DEF vars, TypeOK
  <2>4. QED
    BY <2>1, <2>2, <2>3
<1>4. TypeOK' /\ SavesFresh'
  BY <1>1, <1>2, <1>3, FreshStays DEF TypeOK, history
<1>5. \A m \in Missions : Untouched(m)
  BY <1>2 DEF Untouched, history
<1>6. QED
  BY <1>4, <1>5 DEF Shape
-----------------------------------------------------------------------------
\* Listing the active missions: a request to extend one, a watcher for one, or a request
\* to insert a row whose id is new.
LEMMA ScanStep ==
  ASSUME IInv, NEW i \in Instances, NEW s \in Symbols, NEW w \in Windows, ScanActive(i, s, w)
  PROVE  TypeOK' /\ SavesFresh' /\ Shape
<1>1. TypeOK /\ SavesFresh /\ UNCHANGED <<row, up, usage, history>> /\ 0 \in Left /\ 0 \in 0..OpLimit
  BY LimitTypes DEF IInv, ScanActive, Left
<1>2. CASE UNCHANGED arm /\ \E m \in Missions : watch' = [watch EXCEPT ![i] = Watched(@, m, row[m].left)]
  <2>1. PICK m \in Missions : watch' = [watch EXCEPT ![i] = Watched(watch[i], m, row[m].left)]
    BY <1>2, <1>1 DEF TypeOK
  <2>2. watch[i] \in [Missions -> Watches]
    BY <1>1 DEF TypeOK
  <2>3. /\ Watched(watch[i], m, row[m].left) \in [Missions -> Watches]
        /\ \A n \in Missions : Watched(watch[i], m, row[m].left)[n] \in {watch[i][n], Waiting, NoWatch}
    BY <2>2, WatchedEffect
  <2>4. watch' \in [Instances -> [Missions -> Watches]] /\ \A n \in Missions : Untouched(n)
    BY <1>1, <2>1, <2>3, QuietStep
  <2>5. TypeOK' /\ SavesFresh'
    BY <1>1, <1>2, <2>4, FreshStays DEF TypeOK, history
  <2>6. QED
    BY <2>4, <2>5 DEF Shape
<1>3. ASSUME NEW r \in Requests, UNCHANGED watch, arm' = [arm EXCEPT ![i] = r],
             r.step = "save" => /\ row[r.mission].status = "absent"
                                /\ \A j \in Instances : arm[j].step = "save" => arm[j].mission # r.mission
      PROVE  TypeOK' /\ SavesFresh' /\ Shape
  <2>1. arm' \in [Instances -> Requests \cup {NoRequest}] /\ arm'[i] = r
        /\ \A j \in Instances : j # i => arm'[j] = arm[j]
    BY <1>1, <1>3 DEF TypeOK
  <2>2. TypeOK'
    BY <1>1, <1>3, <2>1 DEF TypeOK, history
  <2>3. SavesFresh'
    <3>1. ASSUME NEW j \in Instances, arm'[j].step = "save"
          PROVE  row'[arm'[j].mission].status = "absent"
      BY <3>1, <1>1, <1>3, <2>1 DEF SavesFresh
    <3>2. ASSUME NEW j \in Instances, NEW k \in Instances, j # k, arm'[j].step = "save",
                 arm'[k].step = "save"
          PROVE  arm'[j].mission # arm'[k].mission
      BY <3>2, <1>1, <1>3, <2>1 DEF SavesFresh
    <3>3. QED
      BY <3>1, <3>2 DEF SavesFresh
  <2>4. \A m \in Missions : Untouched(m)
    BY <1>1, <1>3 DEF Untouched, history
  <2>5. QED
    BY <2>2, <2>3, <2>4 DEF Shape
<1>4. ASSUME NEW m \in Active,
             arm' = [arm EXCEPT ![i] = [step |-> "extend", mission |-> m, symbol |-> s,
                                        window |-> w, seen |-> row[m].left, late |-> 0]],
             UNCHANGED watch
      PROVE  TypeOK' /\ SavesFresh' /\ Shape
  <2>1. row[m].left \in Left
    BY <1>1, RowTypes DEF Active, IsArmed, Rows
  <2>2. [step |-> "extend", mission |-> m, symbol |-> s, window |-> w, seen |-> row[m].left,
         late |-> 0] \in Requests
    BY <1>1, <2>1 DEF Requests, Active
  <2>3. QED
    BY <1>3, <1>4, <2>2
<1>5. ASSUME NEW m \in Missions, row[m].status = "absent",
             \A j \in Instances : arm[j].step = "save" => arm[j].mission # m,
             arm' = [arm EXCEPT ![i] = [step |-> "save", mission |-> m, symbol |-> s,
                                        window |-> w, seen |-> 0, late |-> 0]],
             UNCHANGED watch
      PROVE  TypeOK' /\ SavesFresh' /\ Shape
  <2>1. [step |-> "save", mission |-> m, symbol |-> s, window |-> w, seen |-> 0, late |-> 0]
          \in Requests
    BY <1>1 DEF Requests
  <2>2. QED
    BY <1>3, <1>5, <2>1
<1>6. QED
  BY <1>2, <1>4, <1>5 DEF ScanActive, Active

\* What an arm request leaves behind when it ends.
LEMMA RequestEnds ==
  ASSUME TypeOK, NEW i \in Instances, arm' = [arm EXCEPT ![i] = NoRequest]
  PROVE  /\ arm' \in [Instances -> Requests \cup {NoRequest}]
         /\ \A j \in Instances : arm'[j].step = "save" => arm'[j] = arm[j] /\ j # i
BY EmptyTypes DEF TypeOK

LEMMA ExtendStep ==
  ASSUME IInv, NEW i \in Instances, ExtendWindow(i)
  PROVE  TypeOK' /\ SavesFresh' /\ Shape
<1> DEFINE a == arm[i]
           m == a.mission
<1>1. TypeOK /\ SavesFresh /\ UNCHANGED <<up, usage, history>> /\ arm' = [arm EXCEPT ![i] = NoRequest]
  BY DEF IInv, ExtendWindow
<1>2. a \in Requests /\ m \in Missions /\ a.window \in Windows /\ a.late \in 0..OpLimit
  BY <1>1, ArmTypes DEF ExtendWindow, Requests
<1>3. \E left : watch' = [watch EXCEPT ![i] = Watched(@, m, left)]
  BY DEF ExtendWindow
<1>4. PICK left : watch' = [watch EXCEPT ![i] = Watched(watch[i], m, left)]
  BY <1>3, <1>1 DEF TypeOK
<1>5. /\ Watched(watch[i], m, left) \in [Missions -> Watches]
      /\ \A n \in Missions : Watched(watch[i], m, left)[n] \in {watch[i][n], Waiting, NoWatch}
  <2>1. watch[i] \in [Missions -> Watches]
    BY <1>1 DEF TypeOK
  <2>2. QED
    BY <1>2, <2>1, WatchedEffect
<1>6. UNCHANGED row \/ (IsArmed(m) /\ row' = [row EXCEPT ![m] = Rewindowed(row[m], a.window, a.late)])
  <2>1. row \in [Missions -> Rows \cup {NoRow}]
    BY <1>1 DEF TypeOK
  <2>2. row' = row \/ row' = [row EXCEPT ![m] = IF IsArmed(m) THEN Rewindowed(row[m], a.window, a.late)
                                               ELSE row[m]]
    BY <2>1, <1>2 DEF ExtendWindow
  <2>3. QED
    BY <2>1, <2>2
<1>7. /\ row' \in [Missions -> Rows \cup {NoRow}]
      /\ \A n \in Missions : row'[n].status = row[n].status /\ (~IsArmed(n) => row'[n] = row[n])
  <2>1. CASE UNCHANGED row
    BY <1>1, <2>1 DEF TypeOK
  <2>2. CASE IsArmed(m) /\ row' = [row EXCEPT ![m] = Rewindowed(row[m], a.window, a.late)]
    <3>1. row[m] \in Rows /\ a.window - a.late \in Left
      BY <1>1, <1>2, <2>2, RowTypes, LeftTypes DEF IsArmed
    <3>2. /\ Rewindowed(row[m], a.window, a.late) \in Rows
          /\ Rewindowed(row[m], a.window, a.late).status = row[m].status
      BY <3>1 DEF Rewindowed, Rows
    <3>3. QED
      BY <1>1, <1>2, <2>2, <3>2 DEF TypeOK
  <2>3. QED
    BY <1>6, <2>1, <2>2
<1>8. watch' \in [Instances -> [Missions -> Watches]] /\ \A n \in Missions : Untouched(n)
  <2>1. \A n \in Missions : row[n].status \notin {"absent", "armed"} => row'[n] = row[n]
    BY <1>7 DEF IsArmed
  <2>2. QED
    BY <1>1, <1>4, <1>5, <1>7, <2>1, QuietStep
<1>9. TypeOK'
  BY <1>1, <1>7, <1>8, RequestEnds DEF TypeOK, history
<1>10. SavesFresh'
  <2>1. \A j \in Instances : arm[j].step = "save" => arm[j].mission \in Missions
    BY <1>1, ArmTypes DEF Requests
  <2>2. QED
    BY <1>1, <1>7, <2>1, RequestEnds DEF SavesFresh
<1>11. QED
  BY <1>8, <1>9, <1>10 DEF Shape

\* The insert: the one step that brings a row into being.
LEMMA SaveStep ==
  ASSUME IInv, NEW i \in Instances, SaveMission(i)
  PROVE  TypeOK' /\ SavesFresh' /\ Shape
<1> DEFINE a == arm[i]
           new == [status |-> "armed", symbol |-> a.symbol, left |-> a.window - a.late,
                   recorded |-> FALSE]
<1>1. TypeOK /\ SavesFresh /\ UNCHANGED <<up, usage, history>> /\ a.step = "save"
      /\ arm' = [arm EXCEPT ![i] = NoRequest]
  BY DEF IInv, SaveMission
<1>2. a \in Requests /\ \E m \in Missions : m = a.mission /\ row[m].status = "absent"
  BY <1>1, ArmTypes DEF Requests, SavesFresh
<1> PICK m \in Missions : m = a.mission /\ row[m].status = "absent"
  BY <1>2
<1>3. new \in Rows /\ new.status = "armed"
  <2>1. a.window \in Windows /\ a.late \in 0..OpLimit /\ a.symbol \in Symbols
    BY <1>2 DEF Requests
  <2>2. QED
    BY <2>1, LeftTypes DEF Rows, Status
<1>4. \/ watch' = [watch EXCEPT ![i] = Watched(@, m, new.left)]
      \/ UNCHANGED watch
  BY DEF SaveMission
<1>5. row' = row \/ row' = [row EXCEPT ![m] = new]
  BY DEF SaveMission
<1> HIDE DEF a, new
<1>6. /\ row' \in [Missions -> Rows \cup {NoRow}]
      /\ \A n \in Missions : n # m => row'[n] = row[n]
      /\ row'[m] = row[m] \/ row'[m].status = "armed"
  BY <1>1, <1>2, <1>3, <1>5 DEF TypeOK
<1>7. PICK ws \in [Missions -> Watches] :
        /\ watch' = [watch EXCEPT ![i] = ws]
        /\ \A n \in Missions : ws[n] \in {watch[i][n], Waiting, NoWatch}
  <2>1. watch[i] \in [Missions -> Watches] /\ [watch EXCEPT ![i] = watch[i]] = watch
    BY <1>1 DEF TypeOK
  <2>2. CASE UNCHANGED watch
    BY <2>1, <2>2
  <2>3. CASE watch' = [watch EXCEPT ![i] = Watched(@, m, new.left)]
    <3>1. /\ Watched(watch[i], m, new.left) \in [Missions -> Watches]
          /\ \A n \in Missions : Watched(watch[i], m, new.left)[n] \in {watch[i][n], Waiting, NoWatch}
      BY <1>2, <2>1, WatchedEffect
    <3>2. watch' = [watch EXCEPT ![i] = Watched(watch[i], m, new.left)]
      BY <1>1, <2>3 DEF TypeOK
    <3>3. QED
      BY <3>1, <3>2
  <2>4. QED
    BY <1>4, <2>2, <2>3
<1>8. /\ watch' \in [Instances -> [Missions -> Watches]]
      /\ \A n \in Missions : n # m \/ row'[m] = row[m] => Untouched(n)
  BY <1>1, <1>6, <1>7, QuietStep
<1>9. TypeOK'
  BY <1>1, <1>6, <1>8, RequestEnds DEF TypeOK, history
<1>10. SavesFresh'
  <2>1. \A j \in Instances : arm[j].step = "save" => arm[j].mission \in Missions
    BY <1>1, ArmTypes DEF Requests
  <2>2. \A j \in Instances : arm[j].step = "save" /\ j # i => arm[j].mission # m
    BY <1>1 DEF SavesFresh, a
  <2>3. QED
    BY <1>1, <1>6, <2>1, <2>2, RequestEnds DEF SavesFresh
<1>11. CASE row'[m] = row[m]
  BY <1>8, <1>9, <1>10, <1>11 DEF Shape
<1>12. CASE row'[m].status = "armed"
  <2>1. Stored(m)
    <3>1. \A j \in Instances : Past(j, m)' => watch'[j][m].step = watch[j][m].step
      <4>1. \A j \in Instances : watch'[j][m] \in {watch[j][m], Waiting, NoWatch}
        BY <1>1, <1>2, <1>7 DEF TypeOK
      <4>2. QED
        BY <4>1, EmptyTypes DEF Past, PastClaim
    <3>2. QED
      BY <1>1, <1>2, <1>12, <3>1 DEF Stored, history
  <2>2. QED
    BY <1>2, <1>8, <1>9, <1>10, <2>1 DEF Shape, OneTouched, Touched
<1>13. QED
  BY <1>6, <1>11, <1>12

\* Time passes: what waits gets shorter, what is under way gets later.
LEMMA TickStep ==
  ASSUME IInv, Tick
  PROVE  TypeOK' /\ SavesFresh' /\ Shape
<1>1. TypeOK /\ SavesFresh /\ UNCHANGED <<up, usage, history>>
  BY DEF IInv, Tick
<1>2. ASSUME NEW m \in Missions
      PROVE  /\ row'[m] \in Rows \cup {NoRow} /\ row'[m].status = row[m].status
             /\ ~IsArmed(m) => row'[m] = row[m]
  <2>1. CASE IsArmed(m) /\ row[m].left > -OpLimit
    <3>1. row[m] \in Rows /\ row[m].left - 1 \in Left
      <4>1. row[m] \in Rows
        BY <1>1, <2>1, RowTypes DEF IsArmed
      <4>2. row[m].left \in Left
        BY <4>1 DEF Rows
      <4>3. QED
        BY <4>1, <4>2, <2>1, LeftTypes
    <3>2. row'[m] = [row[m] EXCEPT !.left = row[m].left - 1]
      BY <2>1, <3>1 DEF Tick, Rows
    <3>3. QED
      BY <3>1, <3>2, <2>1 DEF Rows
  <2>2. CASE ~(IsArmed(m) /\ row[m].left > -OpLimit)
    BY <1>1, <2>2 DEF Tick, TypeOK
  <2>3. QED
    BY <2>1, <2>2
<1>3. ASSUME NEW i \in Instances
      PROVE  /\ arm'[i] \in Requests \cup {NoRequest}
             /\ arm'[i].step = "save" => arm[i].step = "save" /\ arm'[i].mission = arm[i].mission
  <2>1. CASE arm[i].step = "idle"
    BY <1>1, <2>1 DEF Tick, TypeOK
  <2>2. CASE arm[i].step # "idle"
    <3>1. arm[i] \in Requests /\ arm[i].late < OpLimit
      BY <1>1, <2>2, ArmTypes DEF Tick
    <3>2. arm[i].late + 1 \in 0..OpLimit
      BY <3>1, LimitTypes DEF Requests
    <3>3. arm'[i] = [arm[i] EXCEPT !.late = arm[i].late + 1]
      BY <2>2, <3>1 DEF Tick, Requests
    <3>4. QED
      BY <3>1, <3>2, <3>3 DEF Requests
  <2>3. QED
    BY <2>1, <2>2
<1>4. ASSUME NEW i \in Instances, NEW m \in Missions
      PROVE  watch'[i][m] \in Watches /\ watch'[i][m].step = watch[i][m].step
  <2>1. watch[i][m] \in Watches
    BY <1>1 DEF TypeOK
  <2>2. CASE ~Busy(i, m)
    BY <2>1, <2>2 DEF Tick
  <2>3. CASE Busy(i, m)
    <3>1. watch[i][m].late < OpLimit
      BY <2>3 DEF Tick
    <3>2. watch[i][m].late + 1 \in 0..OpLimit
      BY <2>1, <3>1, LimitTypes DEF Watches
    <3>3. watch'[i][m] = [watch[i][m] EXCEPT !.late = watch[i][m].late + 1]
      BY <2>1, <2>3 DEF Tick, Watches
    <3>4. QED
      BY <2>1, <3>2, <3>3 DEF Watches
  <2>4. QED
    BY <2>2, <2>3
<1>5. TypeOK'
  <2>1. row' \in [Missions -> Rows \cup {NoRow}]
    <3>1. row' = [m \in Missions |-> row'[m]]
      BY DEF Tick
    <3>2. QED
      BY <1>2, <3>1
  <2>2. arm' \in [Instances -> Requests \cup {NoRequest}]
    <3>1. arm' = [i \in Instances |-> arm'[i]]
      BY DEF Tick
    <3>2. QED
      BY <1>3, <3>1
  <2>3. watch' \in [Instances -> [Missions -> Watches]]
    <3>1. watch' = [i \in Instances |-> watch'[i]]
      BY DEF Tick
    <3>2. ASSUME NEW i \in Instances
          PROVE  watch'[i] \in [Missions -> Watches]
      <4>1. watch'[i] = [m \in Missions |-> watch'[i][m]]
        BY DEF Tick
      <4>2. QED
        BY <1>4, <4>1
    <3>3. QED
      BY <3>1, <3>2
  <2>4. QED
    BY <1>1, <2>1, <2>2, <2>3 DEF TypeOK, history
<1>6. SavesFresh'
  <2>1. \A i \in Instances : arm[i].step = "save" => arm[i].mission \in Missions
    BY <1>1, ArmTypes DEF Requests
  <2>2. QED
    BY <1>1, <1>2, <1>3, <2>1 DEF SavesFresh
<1>7. \A m \in Missions : Untouched(m)
  BY <1>1, <1>2, <1>4 DEF Untouched, history, IsArmed
<1>8. QED
  BY <1>5, <1>6, <1>7 DEF Shape
-----------------------------------------------------------------------------
LEMMA InitHolds == Init => IInv
<1> SUFFICES ASSUME Init
             PROVE  IInv
  OBVIOUS
<1>1. TypeOK
  BY EmptyTypes DEF Init, TypeOK
<1>2. SavesFresh
  BY EmptyTypes DEF Init, SavesFresh
<1>3. \A m \in Missions : MissionTrue(m)
  BY EmptyTypes DEF Init, MissionTrue, Past, PastClaim, At
<1>4. QED
  BY <1>1, <1>2, <1>3 DEF IInv

\* Every step of the program has the shape the arguments below are about.
LEMMA StepShape ==
  ASSUME IInv, [Next]_vars
  PROVE  TypeOK' /\ SavesFresh' /\ Shape
<1>1. CASE \E i \in Instances, m \in Missions : Watcher(i, m)
  BY <1>1, WatcherTypes, WatcherShape
<1>2. CASE \E i \in Instances : Instance(i)
  <2>1. PICK i \in Instances : Instance(i)
    BY <1>2
  <2>2. CASE \E m \in Missions : ExpireStale(i, m)
    BY <2>2, CallOffStep DEF ExpireStale
  <2>3. CASE WatchActive(i) \/ Crash(i)
    BY <2>3, BootStep
  <2>4. CASE WebMission(i)
    BY <2>4, CountStep
  <2>5. CASE \E s \in Symbols, w \in Windows : ScanActive(i, s, w)
    BY <2>5, ScanStep
  <2>6. CASE ExtendWindow(i)
    BY <2>6, ExtendStep
  <2>7. CASE SaveMission(i)
    BY <2>7, SaveStep
  <2>8. QED
    BY <2>1, <2>2, <2>3, <2>4, <2>5, <2>6, <2>7 DEF Instance
<1>3. CASE \E m \in Missions : DisarmMission(m)
  BY <1>3, CallOffStep DEF DisarmMission, Disarmable
<1>4. CASE Tick
  BY <1>4, TickStep
<1>5. CASE NewDay \/ UNCHANGED vars
  BY <1>5, CountStep
<1>6. QED
  BY <1>1, <1>2, <1>3, <1>4, <1>5 DEF Next

\* A mission nobody touched is as true as it was: what its row and its watchers say of it
\* has not changed, or has got weaker.
LEMMA UntouchedTrue ==
  ASSUME IInv, NEW m \in Missions, Untouched(m)
  PROVE  MissionTrue(m)'
<1>1. MissionTrue(m)
  BY DEF IInv
<1>2. \A i \in Instances : Past(i, m)' => Past(i, m)
  BY DEF Untouched, Past
<1>3. \A i \in Instances :
        /\ At(i, m, "prepare")' => At(i, m, "prepare")
        /\ At(i, m, "gate")' \/ At(i, m, "confirm")' => At(i, m, "gate") \/ At(i, m, "confirm")
  BY DEF Untouched, Past, PastClaim, At
<1>4. row[m].status = "triggered" => row'[m] = row[m]
  BY DEF Untouched
<1>5. \A i \in Instances :
        /\ Past(i, m)' => row'[m].status = "triggered" /\ entered'[m] = 0
        /\ At(i, m, "prepare")' => staged'[m] = 0
        /\ At(i, m, "gate")' \/ At(i, m, "confirm")' => row'[m].recorded
  <2>1. \A i \in Instances : At(i, m, "gate") \/ At(i, m, "confirm") => Past(i, m)
    BY DEF At, Past, PastClaim
  <2>2. QED
    BY <1>1, <1>2, <1>3, <1>4, <2>1 DEF Untouched, MissionTrue
<1>6. /\ staged'[m] \in {0, 1} /\ entered'[m] \in {0, 1}
      /\ row'[m].status # "triggered" => staged'[m] = 0 /\ entered'[m] = 0
      /\ entered'[m] = 1 => row'[m].recorded
  BY <1>1, <1>4 DEF Untouched, MissionTrue
<1>7. \A i, j \in Instances : i # j => ~(Past(i, m)' /\ Past(j, m)')
  BY <1>1, <1>2 DEF MissionTrue
<1>8. QED
  BY <1>5, <1>6, <1>7 DEF MissionTrue

\* A mission that was stored, called off or claimed, or whose entry went on, is true again.
LEMMA TouchedTrue ==
  ASSUME IInv, NEW m \in Missions, Touched(m)
  PROVE  MissionTrue(m)'
<1>1. MissionTrue(m)
  BY DEF IInv
<1>2. CASE Stored(m) \/ CalledOff(m)
  <2>1. /\ row[m].status # "triggered" /\ row'[m].status # "triggered"
        /\ staged'[m] = 0 /\ entered'[m] = 0
    BY <1>1, <1>2 DEF Stored, CalledOff, MissionTrue
  <2>2. \A i \in Instances : ~Past(i, m)'
    <3>1. \A i \in Instances : Past(i, m)' => Past(i, m)
      BY <1>2 DEF Stored, CalledOff, Past
    <3>2. QED
      BY <1>1, <2>1, <3>1 DEF MissionTrue
  <2>3. QED
    BY <2>1, <2>2 DEF MissionTrue, Past, PastClaim, At
<1>3. ASSUME NEW i \in Instances, ClaimedBy(i, m)
      PROVE  MissionTrue(m)'
  <2>1. row'[m].status = "triggered" /\ staged'[m] = 0 /\ entered'[m] = 0
    BY <1>1, <1>3 DEF ClaimedBy, MissionTrue
  <2>2. \A j \in Instances : j # i => ~Past(j, m)'
    BY <1>1, <1>3 DEF ClaimedBy, MissionTrue, Past
  <2>3. ~At(i, m, "gate")' /\ ~At(i, m, "confirm")'
    BY <1>3 DEF ClaimedBy, Past, PastClaim, At
  <2>4. QED
    BY <2>1, <2>2, <2>3 DEF MissionTrue, Past, PastClaim, At
<1>4. ASSUME NEW i \in Instances, GoesOn(i, m)
      PROVE  MissionTrue(m)'
  <2>1. row[m].status = "triggered" /\ row'[m].status = "triggered" /\ Past(i, m) /\ entered[m] = 0
        /\ staged[m] \in {0, 1}
    BY <1>1, <1>4 DEF GoesOn, MissionTrue
  <2>2. \A j \in Instances : j # i => ~Past(j, m)'
    BY <1>1, <1>4 DEF GoesOn, MissionTrue, Past
  <2>3. ~At(i, m, "prepare")'
    BY <1>4 DEF GoesOn, Past, PastClaim, At
  <2>4. CASE At(i, m, "prepare") /\ staged'[m] \in {staged[m], staged[m] + 1} /\ entered'[m] = entered[m]
             /\ (Past(i, m)' => watch'[i][m].step = "record")
    <3>1. staged'[m] \in {0, 1} /\ entered'[m] = 0
      BY <1>1, <2>1, <2>4 DEF MissionTrue
    <3>2. ~At(i, m, "gate")' /\ ~At(i, m, "confirm")'
      BY <2>4 DEF Past, PastClaim, At
    <3>3. QED
      BY <2>1, <2>2, <2>3, <3>1, <3>2 DEF MissionTrue, Past, PastClaim, At
  <2>5. CASE /\ staged'[m] = staged[m] /\ entered'[m] = entered[m]
             /\ \/ ~Past(i, m)' \/ watch'[i][m].step = "cancel"
                \/ watch'[i][m].step \in {"gate", "confirm"} /\ row'[m].recorded
    <3>1. At(i, m, "gate")' \/ At(i, m, "confirm")' => row'[m].recorded
      BY <2>5 DEF Past, PastClaim, At
    <3>2. QED
      BY <2>1, <2>2, <2>3, <2>5, <3>1 DEF MissionTrue, Past, PastClaim, At
  <2>6. CASE At(i, m, "confirm") /\ staged'[m] = staged[m]
             /\ entered'[m] \in {entered[m], entered[m] + 1} /\ ~Past(i, m)'
    <3>1. row'[m].recorded /\ entered'[m] \in {0, 1}
      BY <1>1, <1>4, <2>1, <2>6 DEF GoesOn, MissionTrue
    <3>2. QED
      BY <2>1, <2>2, <2>6, <3>1 DEF MissionTrue, Past, PastClaim, At
  <2>7. QED
    BY <1>4, <2>4, <2>5, <2>6 DEF GoesOn
<1>5. QED
  BY <1>2, <1>3, <1>4 DEF Touched

\* The program keeps its types, ids are inserted once, and every mission's row and
\* watchers agree with what became of its entry.
THEOREM ArmedInvariant == Spec => []IInv
<1>1. ASSUME IInv, [Next]_vars
      PROVE  IInv'
  <2>1. TypeOK' /\ SavesFresh' /\ Shape
    BY <1>1, StepShape
  <2>2. \A m \in Missions : MissionTrue(m)'
    <3>1. CASE OneTouched
      <4>1. PICK m \in Missions : Touched(m) /\ \A n \in Missions : n # m => Untouched(n)
        BY <3>1 DEF OneTouched
      <4>2. QED
        BY <1>1, <4>1, TouchedTrue, UntouchedTrue
    <3>2. CASE \A m \in Missions : Untouched(m)
      BY <1>1, <3>2, UntouchedTrue
    <3>3. QED
      BY <2>1, <3>1, <3>2 DEF Shape
  <2>3. QED
    BY <2>1, <2>2 DEF IInv
<1>2. QED
  BY InitHolds, <1>1, PTL DEF Spec

\* Whatever watchers of whatever instances race, crash and boot again: a mission prepares
\* and sends one entry at most, on record before it is sent, and none once it was called
\* off (checkArmedMission, MarkTriggered, SetTriggeredConfirmation, Disarm).
THEOREM EntriesAreTold == Spec => []MissionTellsItsEntry
<1>1. IInv => MissionTellsItsEntry
  <2> SUFFICES ASSUME IInv
               PROVE  MissionTellsItsEntry
    OBVIOUS
  <2>1. \A m \in Missions : staged[m] <= 1 /\ entered[m] <= 1
    BY DEF IInv, MissionTrue
  <2>2. \A m \in Missions : row[m].status \in {"disarmed", "expired"} => staged[m] = 0
    BY DEF IInv, MissionTrue
  <2>3. \A m \in Missions : entered[m] > 0 => row[m].recorded
    BY DEF IInv, MissionTrue
  <2>4. QED
    BY <2>1, <2>2, <2>3 DEF MissionTellsItsEntry, EntersOnce, NoOrderMeansNoOrder, EntryIsOnRecord
<1>2. QED
  BY <1>1, ArmedInvariant, PTL

\* No late watcher, sweep, disarm or longer window changes a mission that has stopped
\* waiting (the filters of the store's transitions).
THEOREM FinalStatus == Spec => StatusIsFinal
<1> DEFINE Final(m) == row[m].status \notin {"absent", "armed"} =>
                         row'[m].status = row[m].status /\ row'[m].left = row[m].left
<1>1. ASSUME IInv, [Next]_vars
      PROVE  \A m \in Missions : Final(m)
  <2>1. ASSUME NEW m \in Missions, Touched(m) \/ Untouched(m)
        PROVE  Final(m)
    BY <2>1 DEF Touched, Untouched, Stored, CalledOff, ClaimedBy, GoesOn
  <2>2. QED
    BY <1>1, <2>1, StepShape DEF Shape, OneTouched
<1>2. QED
  BY <1>1, ArmedInvariant, PTL DEF Spec, StatusIsFinal
-----------------------------------------------------------------------------
\* A mission nobody touched stays in its phase ...
LEMMA PhaseStays ==
  ASSUME NEW m \in Missions, Untouched(m)
  PROVE  PhaseOf(m)' = PhaseOf(m)
BY DEF Untouched, PhaseOf

\* ... and one that was touched takes one of the promised moves.
LEMMA PhaseMoves ==
  ASSUME IInv, NEW m \in Missions, Touched(m)
  PROVE  \/ PhaseOf(m)' = PhaseOf(m)
         \/ PhaseOf(m) = "none" /\ PhaseOf(m)' = "offered"
         \/ PhaseOf(m) = "offered" /\ PhaseOf(m)' = "claimed"
         \/ PhaseOf(m) = "claimed" /\ PhaseOf(m)' = "filled"
         \/ PhaseOf(m) = "offered" /\ PhaseOf(m)' = "withdrawn"
<1>1. MissionTrue(m) /\ MissionTrue(m)'
  BY TouchedTrue DEF IInv
<1>2. CASE Stored(m)
  BY <1>1, <1>2 DEF Stored, PhaseOf, MissionTrue
<1>3. CASE CalledOff(m)
  BY <1>1, <1>3 DEF CalledOff, PhaseOf, MissionTrue
<1>4. ASSUME NEW i \in Instances, ClaimedBy(i, m)
      PROVE  PhaseOf(m) = "offered" /\ PhaseOf(m)' = "claimed"
  BY <1>1, <1>4 DEF ClaimedBy, PhaseOf, MissionTrue
<1>5. ASSUME NEW i \in Instances, GoesOn(i, m)
      PROVE  PhaseOf(m) = "claimed" /\ PhaseOf(m)' \in {"claimed", "filled"}
  <2>1. /\ row[m].status = "triggered" /\ row'[m].status = "triggered"
        /\ entered[m] = 0 /\ entered'[m] \in {0, 1}
    BY <1>1, <1>5 DEF GoesOn, MissionTrue
  <2>2. QED
    BY <2>1 DEF PhaseOf
<1>6. QED
  BY <1>2, <1>3, <1>4, <1>5 DEF Touched

\* Armed missions implement OneShotOrder: every step is one promised move of one mission,
\* or none.
THEOREM Refinement == Spec => IsOneShotMission
<1>1. Init => OneShot!Init
  BY EmptyTypes DEF Init, OneShot!Init, PhaseOf
<1>2. ASSUME IInv, [Next]_vars
      PROVE  [OneShot!Next]_([m \in Missions |-> PhaseOf(m)])
  <2> DEFINE phase == [m \in Missions |-> PhaseOf(m)]
  <2>1. CASE \A m \in Missions : Untouched(m)
    BY <2>1, PhaseStays
  <2>2. CASE OneTouched
    <3>1. PICK m \in Missions : Touched(m) /\ \A n \in Missions : n # m => Untouched(n)
      BY <2>2 DEF OneTouched
    <3>2. \A n \in Missions : n # m => PhaseOf(n)' = PhaseOf(n)
      BY <3>1, PhaseStays
    <3>3. PICK to : to = PhaseOf(m)'
      OBVIOUS
    <3>4. phase' = [phase EXCEPT ![m] = to] /\ phase[m] = PhaseOf(m)
      BY <3>2, <3>3
    <3>5. CASE to = PhaseOf(m)
      BY <3>4, <3>5
    <3>6. CASE to # PhaseOf(m)
      <4>1. \/ phase[m] = "none" /\ to = "offered"
            \/ phase[m] = "offered" /\ to = "claimed"
            \/ phase[m] = "claimed" /\ to = "filled"
            \/ phase[m] = "offered" /\ to = "withdrawn"
        BY <3>1, <3>3, <3>4, <3>6, <1>2, PhaseMoves
      <4>2. QED
        BY <4>1, <3>4
           DEF OneShot!Next, OneShot!Offer, OneShot!Claim, OneShot!Fill, OneShot!Withdraw, OneShot!Move
    <3>7. QED
      BY <3>5, <3>6
  <2>3. QED
    BY <1>2, <2>1, <2>2, StepShape DEF Shape
<1>3. QED
  BY <1>1, <1>2, ArmedInvariant, PTL DEF Spec, IsOneShotMission, OneShot!Spec
=============================================================================
