-------------------------- MODULE TrailingStopProofs --------------------------
(***************************************************************************)
(* Machine-checked proofs about TrailingStop, for every set of trailers and  *)
(* prices, every tick grid and policy, and any number of failures.          *)
(*                                                                         *)
(* The argument: a trailer that is about to cancel a stop has placed one     *)
(* that is at least as tight - but another trailer may have cancelled that   *)
(* one meanwhile.  What is inductive is Covered: some live stop, placed      *)
(* after the one to cancel, is at least as tight.  Whoever cancels that one  *)
(* has such a stop in turn, and it was placed later still.                   *)
(***************************************************************************)
EXTENDS TrailingStop, TLAPS

Moving(t) == job[t].step \in {"place", "cancel"}

\* What the exchange has seen, and that a live id names one stop.
IdsConsistent ==
  /\ NoStop.id \in used
  /\ \A s \in live : s.id \in used /\ s.born <= placed
  /\ \A s, r \in live : s.id = r.id => s = r

\* What a trailer goes by: a mark price of the past, a stop it has read, and a price
\* to move to that is no looser.
JobConsistent(t) ==
  /\ Doing(t, "stop") => job[t].saw \in Prices
  /\ job[t].old.id \in used /\ job[t].old.born <= placed
  /\ Moving(t) =>
       /\ \A s \in live : s.id = job[t].old.id => s = job[t].old
       /\ job[t].new \in Grid
       /\ AsTight(job[t].new, job[t].old.price)
       /\ AsTight(job[t].new, Rounded(Entry))

JobsConsistent == \A t \in Trailers : JobConsistent(t)

\* A live stop placed after the one that t is about to cancel, and no looser.
Covers(s, t) == s.born > job[t].old.born /\ AsTight(s.price, job[t].new)
Covered == \A t \in Trailers : Doing(t, "cancel") => \E s \in live : Covers(s, t)

\* The ids of a process with a nonce are behind its counters.
Behind(t, b, n) ==
  \/ b < boot[t]
  \/ b = boot[t] /\ n < seq[t]
  \/ b = boot[t] /\ n = seq[t] /\ ~Doing(t, "place")
IdsBehind == \A t \in Nonced : \A b, n \in Nat : Id(t, b, n) \in used => Behind(t, b, n)

IInv ==
  /\ TypeOK /\ live # {} /\ IdsConsistent /\ JobsConsistent /\ Covered
  /\ BreakEvenUpToTick /\ IdsBehind
-----------------------------------------------------------------------------
\* Prices that ComputeStop can come up with, for which the grid has a floor.
Candidates == {Entry} \cup {m + Gap : m \in Prices} \cup {m - Gap : m \in Prices}

LEMMA RoundedIsFloor ==
  ASSUME NEW p \in Candidates, p >= 0
  PROVE  IsFloor(Rounded(p), p)
<1>1. \E q \in Grid : IsFloor(q, p)
  BY TrailAssumption DEF Candidates
<1> QED
  BY <1>1 DEF Rounded

\* The candidate is at break-even or better.
LEMMA CandidateAtBreakEven ==
  ASSUME NEW m \in Prices, side \in {"long", "short"}
  PROVE  /\ Candidate(m) \in Candidates /\ Candidate(m) \in Nat
         /\ AsTight(Candidate(m), Entry)
  BY TrailAssumption DEF Candidate, Candidates, AsTight

\* Rounding a price that beats a tradable stop cannot make it looser than the stop.
LEMMA RoundingIsNoLooser ==
  ASSUME NEW c \in Candidates, c \in Nat, AsTight(c, Entry), side \in {"long", "short"},
         NEW stop \in Grid, Tighter(c, stop)
  PROVE  /\ Rounded(c) \in Grid
         /\ AsTight(Rounded(c), stop)
         /\ AsTight(Rounded(c), Rounded(Entry))
<1>1. IsFloor(Rounded(c), c)
  BY RoundedIsFloor
<1>2. IsFloor(Rounded(Entry), Entry)
  BY RoundedIsFloor, TrailAssumption DEF Candidates
<1> DEFINE rc == Rounded(c)
           re == Rounded(Entry)
<1>3. /\ rc \in Grid /\ rc <= c /\ \A r \in Grid : r <= c => r <= rc
      /\ re \in Grid /\ re <= Entry /\ \A r \in Grid : r <= Entry => r <= re
  BY <1>1, <1>2 DEF IsFloor
<1> HIDE DEF rc, re
<1>4. rc \in Nat /\ re \in Nat /\ stop \in Nat /\ Entry \in Nat
  BY <1>3, TrailAssumption
<1>5. AsTight(rc, stop) /\ AsTight(rc, re)
  BY <1>3, <1>4 DEF AsTight, Tighter
<1> QED
  BY <1>3, <1>5 DEF rc, re

LEMMA MoveIsNoLooser ==
  ASSUME NEW m \in Prices, NEW stop \in Grid, side \in {"long", "short"}, Moves(m, stop)
  PROVE  /\ Rounded(Candidate(m)) \in Grid
         /\ AsTight(Rounded(Candidate(m)), stop)
         /\ AsTight(Rounded(Candidate(m)), Rounded(Entry))
  BY CandidateAtBreakEven, RoundingIsNoLooser DEF Moves
-----------------------------------------------------------------------------
LEMMA InitIsIInv == Init => IInv
<1> SUFFICES ASSUME Init PROVE IInv
  OBVIOUS
<1>1. PICK p \in Grid : live = {[NoStop EXCEPT !.price = p]}
  BY DEF Init
<1>2. [NoStop EXCEPT !.price = p] = [id |-> Id("sl", 0, 0), price |-> p, born |-> 0]
  BY DEF NoStop
<1>3. Id("sl", 0, 0) \in Ids
  BY DEF Id, Ids
<1>4. TypeOK
  BY <1>1, <1>2, <1>3, TrailAssumption DEF Init, TypeOK, Stops, Jobs, Idle, NoStop
<1>5. live # {} /\ IdsConsistent
  BY <1>1, <1>2 DEF Init, IdsConsistent, NoStop
<1>6. JobsConsistent /\ Covered
  BY DEF Init, JobsConsistent, JobConsistent, Moving, Covered, Doing, Idle, NoStop
<1>7. BreakEvenUpToTick
  BY <1>1, <1>2 DEF BreakEvenUpToTick, Id
<1>8. IdsBehind
  BY TrailAssumption DEF Init, IdsBehind, NoStop, Id
<1> QED
  BY <1>4, <1>5, <1>6, <1>7, <1>8 DEF IInv
-----------------------------------------------------------------------------
(* The steps.  Those that leave the exchange alone change one job; PlaceNew and   *)
(* CancelOld change the live stops.                                          *)

LEMMA IdleIsConsistent ==
  ASSUME IInv, NEW t \in Trailers, job' = [job EXCEPT ![t] = Idle],
         UNCHANGED <<side, open, mark, live, used, placed, seq, boot>>
  PROVE  JobsConsistent' /\ Covered' /\ IdsBehind'
<1>1. \A u \in Trailers : job'[u] = IF u = t THEN Idle ELSE job[u]
  BY DEF IInv, TypeOK
<1>2. placed \in Nat
  BY DEF IInv, TypeOK
<1>3. JobsConsistent'
  BY <1>1, <1>2 DEF IInv, IdsConsistent, JobsConsistent, JobConsistent, Moving, Doing, Idle, NoStop, AsTight
<1>4. Covered'
  BY <1>1 DEF IInv, Covered, Covers, Doing, Idle, AsTight
<1>5. IdsBehind'
  BY <1>1, TrailAssumption DEF IInv, IdsBehind, Behind, Doing, Idle
<1> QED
  BY <1>3, <1>4, <1>5

LEMMA ReadPositionKeeps ==
  ASSUME IInv, NEW t \in Trailers, ReadPosition(t) PROVE IInv'
<1>1. \A u \in Trailers : job'[u] =
        IF u = t THEN [step |-> "stop", saw |-> mark, old |-> NoStop, new |-> 0] ELSE job[u]
  BY DEF IInv, TypeOK, ReadPosition, Become, Idle
<1>2. NoStop \in Stops
  BY DEF NoStop, Stops, Ids, Id
<1>3. TypeOK'
  BY <1>2, TrailAssumption DEF IInv, TypeOK, ReadPosition, Become, Idle, exchange, Jobs
<1>4. live' # {} /\ IdsConsistent'
  BY DEF IInv, IdsConsistent, ReadPosition, exchange
<1>5. JobsConsistent'
  BY <1>1 DEF IInv, TypeOK, ReadPosition, exchange, IdsConsistent, JobsConsistent, JobConsistent,
     Moving, Doing, NoStop, AsTight
<1>6. Covered'
  BY <1>1 DEF IInv, ReadPosition, exchange, Covered, Covers, Doing, AsTight
<1>7. BreakEvenUpToTick'
  BY DEF IInv, ReadPosition, exchange, BreakEvenUpToTick, AsTight
<1>8. IdsBehind'
  BY <1>1, TrailAssumption DEF IInv, ReadPosition, exchange, IdsBehind, Behind, Doing
<1> QED
  BY <1>3, <1>4, <1>5, <1>6, <1>7, <1>8 DEF IInv

LEMMA ReadStopKeeps ==
  ASSUME IInv, NEW t \in Trailers, ReadStop(t) PROVE IInv'
<1>0. UNCHANGED <<side, open, mark, live, used, placed, boot, restarts>>
  BY DEF ReadStop, exchange
<1>1. live' # {} /\ IdsConsistent' /\ BreakEvenUpToTick'
  BY <1>0 DEF IInv, IdsConsistent, BreakEvenUpToTick, AsTight
<1>2. NoStop \in Stops
  BY DEF NoStop, Stops, Ids, Id
<1>3. CASE Done(t) /\ UNCHANGED seq /\ (UNCHANGED lost \/ Fails)
  <2>1. TypeOK'
    BY <1>0, <1>2, <1>3, TrailAssumption DEF IInv, TypeOK, Done, Become, Idle, Jobs, Fails
  <2>2. JobsConsistent' /\ Covered' /\ IdsBehind'
    BY <1>0, <1>3, IdleIsConsistent DEF Done, Become
  <2> QED
    BY <1>1, <2>1, <2>2 DEF IInv
<1>4. CASE \E s \in live : Moves(job[t].saw, s.price) /\ Doing(t, "stop")
             /\ seq' = [seq EXCEPT ![t] = @ + 1]
             /\ Become(t, [step |-> "place", saw |-> 0, old |-> s,
                            new |-> Rounded(Candidate(job[t].saw))])
             /\ UNCHANGED lost
  <2>1. PICK s \in live : /\ Moves(job[t].saw, s.price) /\ Doing(t, "stop")
             /\ seq' = [seq EXCEPT ![t] = @ + 1]
             /\ Become(t, [step |-> "place", saw |-> 0, old |-> s,
                            new |-> Rounded(Candidate(job[t].saw))])
             /\ UNCHANGED lost
    BY <1>4
  <2> DEFINE n == Rounded(Candidate(job[t].saw))
  <2>2. n \in Grid /\ AsTight(n, s.price) /\ AsTight(n, Rounded(Entry))
    BY <2>1, MoveIsNoLooser DEF IInv, TypeOK, JobsConsistent, JobConsistent
  <2> HIDE DEF n
  <2>3. \A u \in Trailers : job'[u] =
          IF u = t THEN [step |-> "place", saw |-> 0, old |-> s, new |-> n] ELSE job[u]
    BY <2>1 DEF IInv, TypeOK, Become, n
  <2>4. \A u \in Trailers : seq[u] \in Nat /\ seq'[u] = IF u = t THEN seq[u] + 1 ELSE seq[u]
    BY <2>1 DEF IInv, TypeOK
  <2>5. s \in Stops /\ n \in Nat
    BY <2>2, TrailAssumption DEF IInv, TypeOK
  <2>6. TypeOK'
    <3>1. job' \in [Trailers -> Jobs]
      BY <2>1, <2>5 DEF IInv, TypeOK, Become, Jobs, n
    <3>2. seq' \in [Trailers -> Nat]
      BY <2>1 DEF IInv, TypeOK
    <3> QED
      BY <1>0, <2>1, <3>1, <3>2 DEF IInv, TypeOK
  <2>7. JobsConsistent'
    BY <1>0, <2>2, <2>3 DEF IInv, IdsConsistent, JobsConsistent, JobConsistent, Moving, Doing, AsTight
  <2>8. Covered'
    BY <1>0, <2>3 DEF IInv, Covered, Covers, Doing, AsTight
  <2>9. IdsBehind'
    <3> SUFFICES ASSUME NEW u \in Nonced, NEW b \in Nat, NEW k \in Nat, Id(u, b, k) \in used
                 PROVE  Behind(u, b, k)'
      BY <1>0 DEF IdsBehind, Id
    <3>1. Behind(u, b, k) /\ u \in Trailers
      BY TrailAssumption DEF IInv, IdsBehind
    <3> QED
      BY <1>0, <2>3, <2>4, <3>1 DEF Behind, Doing
  <2> QED
    BY <1>1, <2>6, <2>7, <2>8, <2>9 DEF IInv
<1> QED
  BY <1>3, <1>4 DEF ReadStop, Done

\* What PlaceNew does to the job: on to the cancel, or done.
LEMMA PlaceNewKeeps ==
  ASSUME IInv, NEW t \in Trailers, PlaceNew(t) PROVE IInv'
<1>0. /\ UNCHANGED <<side, open, mark, seq, boot, restarts>>
      /\ Doing(t, "place") /\ lost' \in Nat
  BY DEF PlaceNew, Fails, IInv, TypeOK
<1>1. CASE AfterRefusal(t) /\ UNCHANGED <<live, used, placed>>
  <2>1. NoStop \in Stops
    BY DEF NoStop, Stops, Ids, Id
  <2>2. TypeOK'
    BY <1>0, <1>1, <2>1, TrailAssumption DEF IInv, TypeOK, AfterRefusal, Done, Become, Idle, Jobs
  <2>3. live' # {} /\ IdsConsistent' /\ BreakEvenUpToTick'
    BY <1>0, <1>1 DEF IInv, IdsConsistent, BreakEvenUpToTick, AsTight
  <2>4. JobsConsistent' /\ Covered' /\ IdsBehind'
    BY <1>0, <1>1, IdleIsConsistent DEF AfterRefusal, Done, Become
  <2> QED
    BY <2>2, <2>3, <2>4 DEF IInv
<1>2. CASE /\ Accepts(t) /\ Place(t)
           /\ AfterRefusal(t) \/ Become(t, [job[t] EXCEPT !.step = "cancel"])
  <2>a. PICK s : s = [id |-> NextId(t), price |-> job[t].new, born |-> placed + 1]
    OBVIOUS
  <2>1. /\ job[t] \in Jobs /\ placed \in Nat /\ seq[t] \in Nat /\ boot[t] \in Nat
        /\ NoStop \in Stops
    BY DEF IInv, TypeOK, NoStop, Stops, Ids, Id
  <2>2. /\ placed' = placed + 1 /\ live' = live \cup {s} /\ used' = used \cup {NextId(t)}
        /\ NextId(t) \notin used
    BY <1>2, <2>a DEF Place, Accepts
  <2>3. NextId(t) \in Ids
    BY <2>1 DEF NextId, Id, Ids
  <2>4. /\ s \in Stops /\ s.price \in Grid /\ s.id = NextId(t) /\ s.born = placed + 1
        /\ s.price = job[t].new /\ AsTight(s.price, Rounded(Entry))
    BY <1>0, <2>1, <2>3, <2>a DEF Stops, Jobs, IInv, JobsConsistent, JobConsistent, Moving, Doing
  <2>5. /\ job' = [job EXCEPT ![t] = job'[t]]
        /\ job'[t] \in Jobs
        /\ job'[t] = Idle \/ (/\ job'[t].step = "cancel" /\ job'[t].saw = job[t].saw
                              /\ job'[t].old = job[t].old /\ job'[t].new = job[t].new)
    <3>1. job \in [Trailers -> Jobs]
      BY DEF IInv, TypeOK
    <3>2. CASE AfterRefusal(t)
      BY <2>1, <3>1, <3>2, TrailAssumption DEF AfterRefusal, Done, Become, Idle, Jobs
    <3>3. CASE Become(t, [job[t] EXCEPT !.step = "cancel"])
      BY <2>1, <3>1, <3>3 DEF Become, Jobs
    <3> QED
      BY <1>2, <3>2, <3>3
  <2>6. \A u \in Trailers : u # t => job'[u] = job[u]
    BY <2>5 DEF IInv, TypeOK
  <2>7. TypeOK'
    BY <1>0, <2>1, <2>2, <2>3, <2>4, <2>5 DEF IInv, TypeOK
  <2>8. live' # {} /\ IdsConsistent'
    BY <2>1, <2>2, <2>4 DEF IInv, TypeOK, IdsConsistent, Stops
  <2>9. JobsConsistent'
    <3> SUFFICES ASSUME NEW u \in Trailers PROVE JobConsistent(u)'
      BY DEF JobsConsistent
    <3>1. JobConsistent(u)
      BY DEF IInv, JobsConsistent
    <3>2. job[u] \in Jobs /\ job[u].old.born \in Nat
      BY DEF IInv, TypeOK, Jobs, Stops
    <3>3. \/ job'[u] = Idle
          \/ job'[u] = job[u]
          \/ /\ u = t /\ job'[u].step = "cancel" /\ job'[u].saw = job[u].saw
             /\ job'[u].old = job[u].old /\ job'[u].new = job[u].new
      BY <2>5, <2>6
    <3>4. \A r \in live' : r.id = job[u].old.id => r \in live
      BY <2>2, <2>4, <3>1 DEF JobConsistent
    <3>5. CASE job'[u] = Idle
      BY <2>1, <2>2, <3>5 DEF JobConsistent, Moving, Doing, Idle, NoStop, IInv, IdsConsistent
    <3>6. CASE job'[u] = job[u]
      BY <1>0, <2>1, <2>2, <3>1, <3>2, <3>4, <3>6 DEF JobConsistent, Moving, Doing, AsTight
    <3>7. CASE /\ u = t /\ job'[u].step = "cancel" /\ job'[u].saw = job[u].saw
               /\ job'[u].old = job[u].old /\ job'[u].new = job[u].new
      BY <1>0, <2>1, <2>2, <3>1, <3>2, <3>4, <3>7 DEF JobConsistent, Moving, Doing, AsTight
    <3> QED
      BY <3>3, <3>5, <3>6, <3>7
  <2>10. Covered'
    <3> SUFFICES ASSUME NEW u \in Trailers, Doing(u, "cancel")'
                 PROVE  \E r \in live' : Covers(r, u)'
      BY DEF Covered
    <3>1. CASE u = t
      <4>1. job'[t].old = job[t].old /\ job'[t].new = job[t].new
        BY <2>5, <3>1 DEF Doing, Idle
      <4>2. job[t].old.born \in Nat /\ job[t].old.born <= placed /\ job[t].new \in Nat
        BY <2>1 DEF IInv, JobsConsistent, JobConsistent, Jobs, Stops
      <4>3. Covers(s, u)'
        BY <1>0, <2>1, <2>4, <3>1, <4>1, <4>2 DEF Covers, AsTight
      <4> QED
        BY <2>2, <4>3
    <3>2. CASE u # t
      BY <1>0, <2>2, <2>6, <3>2 DEF IInv, Covered, Covers, Doing, AsTight
    <3> QED
      BY <3>1, <3>2
  <2>11. BreakEvenUpToTick'
    BY <1>0, <2>2, <2>4 DEF IInv, BreakEvenUpToTick, AsTight
  <2>12. IdsBehind'
    <3> SUFFICES ASSUME NEW u \in Nonced, NEW b \in Nat, NEW k \in Nat, (Id(u, b, k) \in used)'
                 PROVE  Behind(u, b, k)'
      BY DEF IdsBehind
    <3>1. u \in Trailers
      BY TrailAssumption
    <3>2. CASE Id(u, b, k) = NextId(t)
      <4>1. u = t /\ b = boot[t] /\ k = seq[t]
        BY <3>2 DEF NextId, Id
      <4> QED
        BY <1>0, <2>5, <4>1 DEF Behind, Doing, Idle
    <3>3. CASE Id(u, b, k) \in used
      <4>1. Behind(u, b, k)
        BY <3>3 DEF IInv, IdsBehind
      <4> QED
        BY <1>0, <2>5, <2>6, <3>1, <4>1 DEF Behind, Doing, Idle
    <3> QED
      BY <2>2, <3>2, <3>3 DEF Id
  <2> QED
    BY <2>7, <2>8, <2>9, <2>10, <2>11, <2>12 DEF IInv
<1> QED
  BY <1>1, <1>2 DEF PlaceNew

\* A stop that t cancels has a live successor that is as tight and was placed later.
LEMMA SuccessorOfCancelled ==
  ASSUME IInv, NEW t \in Trailers, Doing(t, "cancel"),
         NEW s \in live, s.id = job[t].old.id
  PROVE  \E r \in live : /\ r.id # job[t].old.id /\ r.born > s.born
                         /\ AsTight(r.price, s.price)
<1>1. s = job[t].old /\ AsTight(job[t].new, s.price)
  BY DEF IInv, JobsConsistent, JobConsistent, Moving, Doing
<1>2. PICK r \in live : Covers(r, t)
  BY DEF IInv, Covered
<1>3. /\ r.born \in Nat /\ s.born \in Nat /\ r.price \in Nat /\ s.price \in Nat
      /\ job[t].new \in Nat
  BY DEF IInv, TypeOK, Stops, Jobs
<1>4. r.born > s.born /\ AsTight(r.price, s.price)
  BY <1>1, <1>2, <1>3 DEF Covers, AsTight
<1>5. r.id # job[t].old.id
  BY <1>1, <1>3, <1>4 DEF IInv, JobsConsistent, JobConsistent, Moving, Doing
<1> QED
  BY <1>4, <1>5

LEMMA CancelOldKeeps ==
  ASSUME IInv, NEW t \in Trailers, CancelOld(t) PROVE IInv'
<1> DEFINE rest == {s \in live : s.id # job[t].old.id}
<1>0. /\ UNCHANGED <<side, open, mark, used, placed, seq, boot, restarts>>
      /\ Doing(t, "cancel") /\ lost' \in Nat /\ Done(t)
      /\ live' = live \/ live' = rest
  BY DEF CancelOld, Fails, ToCancel, IInv, TypeOK
<1>1. live' \subseteq live
  BY <1>0
<1>2. \A s \in live : \/ s \in live'
                      \/ \E r \in live' : r.born > s.born /\ AsTight(r.price, s.price)
  <2>1. CASE live' = live
    BY <2>1
  <2>2. CASE live' = rest
    BY <1>0, <2>2, SuccessorOfCancelled
  <2> QED
    BY <1>0, <2>1, <2>2
<1> HIDE DEF rest
<1>3. \A u \in Trailers : job'[u] = IF u = t THEN Idle ELSE job[u]
  BY <1>0 DEF Done, Become, IInv, TypeOK
<1>4. TypeOK'
  <2>1. NoStop \in Stops
    BY DEF NoStop, Stops, Ids, Id
  <2>2. job' \in [Trailers -> Jobs]
    BY <1>0, <2>1, TrailAssumption DEF IInv, TypeOK, Done, Become, Idle, Jobs
  <2> QED
    BY <1>0, <1>1, <2>2 DEF IInv, TypeOK
<1>5. live' # {}
  BY <1>2 DEF IInv
<1>6. IdsConsistent' /\ BreakEvenUpToTick'
  BY <1>0, <1>1 DEF IInv, IdsConsistent, BreakEvenUpToTick, AsTight
<1>7. JobsConsistent'
  BY <1>0, <1>1, <1>3 DEF IInv, TypeOK, IdsConsistent, JobsConsistent, JobConsistent,
     Moving, Doing, Idle, NoStop, AsTight
<1>8. Covered'
  <2> SUFFICES ASSUME NEW u \in Trailers, Doing(u, "cancel")'
               PROVE  \E r \in live' : Covers(r, u)'
    BY DEF Covered
  <2>1. u # t /\ job'[u] = job[u] /\ Doing(u, "cancel")
    BY <1>3 DEF Doing, Idle
  <2>2. PICK w \in live : Covers(w, u)
    BY <2>1 DEF IInv, Covered
  <2>3. /\ \A r \in live : r.born \in Nat /\ r.price \in Nat
        /\ job[u].old.born \in Nat /\ job[u].new \in Nat
    BY DEF IInv, TypeOK, Stops, Jobs
  <2>4. CASE w \in live'
    BY <1>0, <2>1, <2>2, <2>4 DEF Covers, AsTight
  <2>5. CASE w \notin live'
    <3>1. PICK r \in live' : r.born > w.born /\ AsTight(r.price, w.price)
      BY <1>2, <2>5
    <3>2. Covers(r, u)
      BY <1>1, <2>2, <2>3, <3>1 DEF Covers, AsTight
    <3> QED
      BY <1>0, <2>1, <3>2 DEF Covers, AsTight
  <2> QED
    BY <2>4, <2>5
<1>9. IdsBehind'
  BY <1>0, <1>3, TrailAssumption DEF IInv, IdsBehind, Behind, Doing, Idle
<1> QED
  BY <1>4, <1>5, <1>6, <1>7, <1>8, <1>9 DEF IInv

LEMMA RestartKeeps ==
  ASSUME IInv, Restart PROVE IInv'
<1>0. /\ UNCHANGED <<side, open, mark, live, used, placed, lost>> /\ restarts' \in Nat
      /\ \A u \in Trailers : /\ job'[u] = Idle /\ seq'[u] = 0
                            /\ boot[u] \in Nat /\ boot'[u] = boot[u] + 1
  BY DEF Restart, exchange, IInv, TypeOK
<1>1. NoStop \in Stops
  BY DEF NoStop, Stops, Ids, Id
<1>2. TypeOK'
  BY <1>0, <1>1 DEF IInv, TypeOK, Restart, Idle, Jobs
<1>3. live' # {} /\ IdsConsistent' /\ BreakEvenUpToTick'
  BY <1>0 DEF IInv, IdsConsistent, BreakEvenUpToTick, AsTight
<1>4. JobsConsistent' /\ Covered'
  BY <1>0, <1>3 DEF IInv, TypeOK, IdsConsistent, JobsConsistent, JobConsistent, Moving, Doing,
     Covered, Idle, NoStop
<1>5. IdsBehind'
  <2> SUFFICES ASSUME NEW u \in Nonced, NEW b \in Nat, NEW k \in Nat, Id(u, b, k) \in used
               PROVE  Behind(u, b, k)'
    BY <1>0 DEF IdsBehind, Id
  <2>1. Behind(u, b, k) /\ u \in Trailers
    BY TrailAssumption DEF IInv, IdsBehind
  <2> QED
    BY <1>0, <2>1 DEF Behind
<1> QED
  BY <1>2, <1>3, <1>4, <1>5 DEF IInv

LEMMA MarkMovesKeeps ==
  ASSUME IInv, MarkMoves PROVE IInv'
<1>0. /\ UNCHANGED <<side, live, used, placed, job, seq, boot, restarts, lost>>
      /\ mark' \in Prices /\ open' \in BOOLEAN
  BY DEF MarkMoves
<1> QED
  BY <1>0 DEF IInv, TypeOK, IdsConsistent, JobsConsistent, JobConsistent, Moving, Doing, Covered,
     Covers, BreakEvenUpToTick, AsTight, IdsBehind, Behind, Doing

LEMMA NextKeepsIInv == IInv /\ [Next]_vars => IInv'
<1> SUFFICES ASSUME IInv, [Next]_vars PROVE IInv'
  OBVIOUS
<1>1. CASE UNCHANGED vars
  BY <1>1 DEF vars, exchange, IInv, TypeOK, IdsConsistent, JobsConsistent, JobConsistent, Moving,
     Doing, Covered, Covers, BreakEvenUpToTick, AsTight, IdsBehind, Behind, Doing
<1>2. CASE MarkMoves
  BY <1>2, MarkMovesKeeps
<1>3. CASE Restart
  BY <1>3, RestartKeeps
<1>4. ASSUME NEW t \in Trailers, Tick(t) PROVE IInv'
  BY <1>4, ReadPositionKeeps, ReadStopKeeps, PlaceNewKeeps, CancelOldKeeps DEF Tick
<1> QED
  BY <1>1, <1>2, <1>3, <1>4 DEF Next
-----------------------------------------------------------------------------
\* The inductive invariant of the trailing stop holds in every reachable state.
THEOREM TrailingInvariant == Spec => []IInv
<1>1. Init => IInv
  BY InitIsIInv
<1>2. IInv /\ [Next]_vars => IInv'
  BY NextKeepsIInv
<1> QED
  BY <1>1, <1>2, PTL DEF Spec

\* Whatever fails or restarts in MoveStopLoss, with any number of trailers, an open
\* position always has a stop.
THEOREM PositionIsNeverUncovered == Spec => []NeverUncovered
<1>1. IInv => NeverUncovered
  BY DEF IInv, NeverUncovered
<1> QED
  BY <1>1, TrailingInvariant, PTL

\* No stop a trailer placed is worse than break-even rounded to the tick.
THEOREM StopsAreAtBreakEven == Spec => []BreakEvenUpToTick
<1>1. IInv => BreakEvenUpToTick
  BY DEF IInv
<1> QED
  BY <1>1, TrailingInvariant, PTL

\* With a nonce per process no order id is used twice, across any restarts.
THEOREM NoncedIdsAreFresh == Spec => []NonceMakesIdsFresh
<1>1. IInv => NonceMakesIdsFresh
  <2> SUFFICES ASSUME IInv, NEW t \in Nonced, Doing(t, "place"), NextId(t) \in used
               PROVE  FALSE
    BY DEF NonceMakesIdsFresh
  <2>1. t \in Trailers /\ boot[t] \in Nat /\ seq[t] \in Nat
    BY TrailAssumption DEF IInv, TypeOK
  <2>2. Behind(t, boot[t], seq[t])
    BY <2>1 DEF IInv, IdsBehind, NextId
  <2> QED
    BY <2>1, <2>2 DEF Behind
<1> QED
  BY <1>1, TrailingInvariant, PTL

\* So what a trailer places is sound.
THEOREM TrailersPlaceSoundly == Spec => []PlacedStopsAreSound
<1>1. BreakEvenUpToTick /\ NonceMakesIdsFresh => PlacedStopsAreSound
  BY DEF PlacedStopsAreSound
<1> QED
  BY <1>1, StopsAreAtBreakEven, NoncedIdsAreFresh, PTL

\* The protection of a position only ever tightens, although a trailer goes by a stop
\* and a mark price that are stale when it acts, and another may act on the same stop.
THEOREM ProtectionOnlyTightens == Spec => Ratchet
<1> DEFINE Kept == \A s \in live : \E r \in live' : AsTight(r.price, s.price)
<1>1. IInv /\ [Next]_vars => [Kept]_vars
  <2> SUFFICES ASSUME IInv, [Next]_vars PROVE Kept \/ UNCHANGED vars
    OBVIOUS
  <2>1. \A s \in live : s.price \in Nat /\ AsTight(s.price, s.price)
    BY DEF IInv, TypeOK, Stops, AsTight
  <2>2. CASE live \subseteq live'
    BY <2>1, <2>2
  <2>3. ASSUME NEW t \in Trailers, CancelOld(t) PROVE Kept
    <3>1. \/ live' = live
          \/ live' = {s \in live : s.id # job[t].old.id}
      BY <2>3 DEF CancelOld, ToCancel
    <3> QED
      BY <2>1, <2>3, <3>1, SuccessorOfCancelled DEF CancelOld
  <2>4. ASSUME NEW t \in Trailers, Tick(t), ~CancelOld(t) PROVE live \subseteq live'
    BY <2>4 DEF Tick, ReadPosition, ReadStop, PlaceNew, Place, exchange
  <2>5. MarkMoves \/ Restart => live \subseteq live'
    BY DEF MarkMoves, Restart, exchange
  <2> QED
    BY <2>2, <2>3, <2>4, <2>5 DEF Next
<1> QED
  BY <1>1, TrailingInvariant, PTL DEF Spec, Ratchet
=============================================================================
