---------------------------- MODULE FrontProofs ----------------------------
(***************************************************************************)
(* Machine-checked proofs about the six parts of Front, for any number of  *)
(* people, requests, panels, candles, faults and restarts.  A part steps   *)
(* alone, so each has an inductive invariant of its own over its own       *)
(* variables, and Invites, Profiles, Membership, Chat, PaperRun and        *)
(* Signals follow one another here; the theorems put them together at the  *)
(* end.  UpTo, StepByStep and HighestOf are induction over 0..n, by way of *)
(* the least natural that fails, for what is added up step by step.        *)
(***************************************************************************)
EXTENDS Front, FunctionTheorems, FiniteSetTheorems, WellFoundedInduction, TLAPS

-----------------------------------------------------------------------------
(* Invitations. A link is spent by the join that holds it: until another    *)
(* join finds it too, or a call fails, it has one holder at most, and it is *)
(* off the row by the time its holder is done.                             *)

TokenTrue(t) ==
    /\ \A j, k \in Calls : I!Holding(j, t) /\ I!Holding(k, t) => j = k
    /\ \A u, v \in Usernames : account[u] = t /\ account[v] = t => u = v
    /\ \A u \in Usernames : account[u] = t => row.hash # t \/ \E j \in Calls : I!Holding(j, t)
    /\ \A j \in Calls : I!Holding(j, t) /\ join[j].pc \in {"check", "create"} =>
          \A u \in Usernames : account[u] # t

TokenUnused(t) ==
    /\ row.hash # t
    /\ \A j \in Calls : ~I!Holding(j, t)
    /\ \A u \in Usernames : account[u] # t

InterestRows == [status: {"absent", "new", "invited", "registered", "waitlisted"},
                 hash: Keys \cup {NoToken}, live: BOOLEAN]
JoinsUnderWay == [pc: {"check", "create", "request", "mark"}, token: Keys, name: Usernames]

InvitesTyped ==
    /\ row \in InterestRows
    /\ drawn \subseteq Keys /\ shared \subseteq Keys /\ requested \subseteq Usernames
    /\ waitlisting \in BOOLEAN
    /\ join \in [Calls -> JoinsUnderWay \cup {I!Outside}]
    /\ account \in [Usernames -> Keys \cup {NoToken}]
    /\ faults \in 0..MaxFaults

InvitesInv ==
    /\ InvitesTyped
    /\ \A t \in Keys : t \notin drawn => TokenUnused(t)
    /\ faults = 0 => \A t \in Keys \ shared : TokenTrue(t)

LEMMA InvitesInit == I!Init => InvitesInv
<1> SUFFICES ASSUME I!Init PROVE InvitesInv
  OBVIOUS
<1> USE FrontAssumption DEF I!InvitesAssumption
<1>1. InvitesTyped
  <2>1. row \in InterestRows
    BY DEF I!Init, InterestRows, I!Absent
  <2>2. join \in [Calls -> JoinsUnderWay \cup {I!Outside}]
    BY DEF I!Init
  <2>3. account \in [Usernames -> Keys \cup {NoToken}]
    BY DEF I!Init
  <2>4. faults \in 0..MaxFaults
    BY DEF I!Init
  <2>5. QED
    BY <2>1, <2>2, <2>3, <2>4 DEF I!Init, InvitesTyped
<1>2. \A t \in Keys : TokenUnused(t) /\ TokenTrue(t)
  BY DEF I!Init, TokenUnused, TokenTrue, I!Holding, I!Absent, I!Outside
<1>3. QED
  BY <1>1, <1>2 DEF InvitesInv

(* What an update of the row leaves of a token on it.                       *)
LEMMA RowUpdates ==
    ASSUME InvitesTyped
    PROVE  /\ \A t \in Keys : I!Invited(row, t) \in InterestRows /\ I!Invited(row, t).hash \in {t, row.hash}
           /\ I!Waitlisted(row) \in InterestRows /\ I!Waitlisted(row).hash = NoToken
           /\ I!Registered(row) \in InterestRows /\ I!Registered(row).hash = NoToken
<1> USE DEF I!Update, I!Absent, InvitesTyped, InterestRows
<1>1. \A t \in Keys : I!Invited(row, t) \in InterestRows /\ I!Invited(row, t).hash \in {t, row.hash}
  BY DEF I!Invited
<1>2. I!Waitlisted(row) \in InterestRows /\ I!Waitlisted(row).hash = NoToken
  BY DEF I!Waitlisted
<1>3. I!Registered(row) \in InterestRows /\ I!Registered(row).hash = NoToken
  BY DEF I!Registered
<1>4. QED
  BY <1>1, <1>2, <1>3

(* The row changes, and nobody joins.                                       *)
LEMMA InvitesRowStep ==
    ASSUME InvitesInv,
           \/ I!Interest \/ I!Expire \/ I!SendWaitlist \/ I!MarkWaitlisted
           \/ \E t \in Keys : I!Invite(t)
    PROVE  InvitesInv'
<1> USE FrontAssumption DEF I!InvitesAssumption
<1>0. InvitesTyped
  BY DEF InvitesInv
<1>1. UNCHANGED <<join, account, shared>>
  BY DEF I!Interest, I!Expire, I!SendWaitlist, I!MarkWaitlisted, I!Invite
<1>2. /\ row' \in InterestRows
      /\ \A t \in Keys : row'.hash = t => row.hash = t \/ (t \notin drawn /\ t \in drawn')
  <2>1. CASE I!Interest
    BY <1>0, <2>1 DEF I!Interest, I!Absent, InterestRows, InvitesTyped
  <2>2. CASE I!Expire
    BY <1>0, <2>2 DEF I!Expire, InterestRows, InvitesTyped
  <2>3. CASE I!SendWaitlist
    BY <1>0, <2>3 DEF I!SendWaitlist, InvitesTyped
  <2>4. CASE I!MarkWaitlisted
    BY <1>0, <2>4, RowUpdates DEF I!MarkWaitlisted, InvitesTyped
  <2>5. CASE \E t \in Keys : I!Invite(t)
    BY <1>0, <2>5, RowUpdates DEF I!Invite, InvitesTyped
  <2>6. QED
    BY <2>1, <2>2, <2>3, <2>4, <2>5
<1>3. drawn \subseteq drawn' /\ drawn' \subseteq Keys /\ waitlisting' \in BOOLEAN /\ requested' = requested
  BY <1>0 DEF I!Interest, I!Expire, I!SendWaitlist, I!MarkWaitlisted, I!Invite, InvitesTyped
<1>4. faults' \in 0..MaxFaults /\ (faults' = 0 => faults = 0)
  BY <1>0 DEF I!Interest, I!Expire, I!SendWaitlist, I!MarkWaitlisted, I!Invite, InvitesTyped, I!Fault
<1>5. InvitesTyped'
  BY <1>0, <1>1, <1>2, <1>3, <1>4 DEF InvitesTyped
<1>6. \A t \in Keys : t \notin drawn' => TokenUnused(t)'
  BY <1>1, <1>2, <1>3 DEF InvitesInv, TokenUnused, I!Holding
<1>7. ASSUME faults' = 0, NEW t \in Keys \ shared' PROVE TokenTrue(t)'
  <2>1. TokenTrue(t)
    BY <1>1, <1>4, <1>7 DEF InvitesInv
  <2>2. row'.hash # t \/ row.hash = t \/ TokenUnused(t)
    BY <1>2 DEF InvitesInv
  <2>3. QED
    BY <1>1, <2>1, <2>2 DEF TokenTrue, TokenUnused, I!Holding
<1>8. QED
  BY <1>5, <1>6, <1>7 DEF InvitesInv

LEMMA FindStep ==
    ASSUME InvitesInv, NEW j \in Calls, NEW t \in Keys, I!Find(j, t)
    PROVE  InvitesInv'
<1> USE FrontAssumption DEF I!InvitesAssumption
<1>0. InvitesTyped
  BY DEF InvitesInv
<1>1. PICK u \in Usernames : join' = [join EXCEPT ![j] = [pc |-> "check", token |-> t, name |-> u]]
  BY DEF I!Find
<1>2. join[j].pc = "idle" /\ t \in drawn /\ row.hash = t
  BY DEF I!Find, I!Valid
<1>3. UNCHANGED <<row, drawn, waitlisting, account, requested, faults>>
  BY DEF I!Find
<1>4. /\ \A s \in Keys, k \in Calls : k # j => (I!Holding(k, s)' <=> I!Holding(k, s))
      /\ \A s \in Keys : I!Holding(j, s)' <=> s = t
      /\ \A s \in Keys : ~I!Holding(j, s)
      /\ \A k \in Calls : k # j => join'[k] = join[k]
  BY <1>0, <1>1, <1>2 DEF I!Holding, InvitesTyped
<1>5. shared \subseteq shared' /\ shared' \subseteq shared \cup {t}
  BY DEF I!Find
<1>6. InvitesTyped'
  <2>1. join' \in [Calls -> JoinsUnderWay \cup {I!Outside}]
    BY <1>0, <1>1 DEF InvitesTyped, JoinsUnderWay
  <2>2. QED
    BY <1>0, <1>3, <1>5, <2>1 DEF InvitesTyped
<1>7. \A s \in Keys : s \notin drawn' => TokenUnused(s)'
  BY <1>2, <1>3, <1>4 DEF InvitesInv, TokenUnused
<1>8. ASSUME faults' = 0, NEW s \in Keys \ shared' PROVE TokenTrue(s)'
  <2>1. TokenTrue(s)
    BY <1>3, <1>5, <1>8 DEF InvitesInv
  <2>2. CASE s # t
    <3>1. \A k \in Calls : I!Holding(k, s)' <=> I!Holding(k, s)
      BY <1>4, <2>2
    <3>2. \A k \in Calls : I!Holding(k, s)' => join'[k] = join[k]
      BY <1>4, <2>2
    <3>3. QED
      BY <1>3, <2>1, <3>1, <3>2 DEF TokenTrue
  <2>3. CASE s = t
    <3>1. \A k \in Calls : ~I!Holding(k, s)
      BY <1>8, <2>3 DEF I!Find
    <3>2. \A v \in Usernames : account[v] # s
      BY <1>2, <2>1, <2>3, <3>1 DEF TokenTrue
    <3>3. \A k \in Calls : I!Holding(k, s)' => k = j
      BY <1>4, <3>1
    <3>4. QED
      BY <1>3, <3>2, <3>3 DEF TokenTrue
  <2>4. QED
    BY <2>2, <2>3
<1>9. QED
  BY <1>6, <1>7, <1>8 DEF InvitesInv

(* A join ends, or goes on without an account being made: a token it does   *)
(* not let go stays held, one it lets go is off the row or made no account. *)
LEMMA JoinMoves ==
    ASSUME InvitesInv, NEW j \in Calls, join[j].pc # "idle",
           \/ I!Check(j) \/ I!RequestAccess(j) \/ I!MarkRegistered(j) \/ I!Abort(j)
           \/ I!Create(j) /\ I!Taken(join[j].name)
    PROVE  InvitesInv'
<1> USE FrontAssumption DEF I!InvitesAssumption
<1>0. InvitesTyped /\ join[j] \in JoinsUnderWay
  BY DEF InvitesInv, InvitesTyped, I!Outside
<1>1. PICK new : join' = [join EXCEPT ![j] = new] /\ (new = I!Outside \/ \E pc \in {"create", "mark"} : new = [join[j] EXCEPT !.pc = pc])
  <2>1. CASE I!Check(j)
    BY <1>0, <2>1 DEF I!Check, InvitesTyped
  <2>2. CASE I!RequestAccess(j)
    BY <1>0, <2>2 DEF I!RequestAccess, InvitesTyped
  <2>3. CASE I!MarkRegistered(j)
    BY <2>3 DEF I!MarkRegistered
  <2>4. CASE I!Abort(j)
    BY <2>4 DEF I!Abort
  <2>5. CASE I!Create(j) /\ I!Taken(join[j].name)
    BY <2>5 DEF I!Create
  <2>6. QED
    BY <2>1, <2>2, <2>3, <2>4, <2>5
<1>2. UNCHANGED <<drawn, waitlisting, account, shared>>
  BY DEF I!Check, I!RequestAccess, I!MarkRegistered, I!Abort, I!Create
<1>3. row' \in InterestRows /\ row'.hash \in {row.hash, NoToken}
  BY <1>0, RowUpdates DEF I!Check, I!RequestAccess, I!MarkRegistered, I!Abort, I!Create, InvitesTyped
<1>4. requested' \subseteq Usernames
  BY <1>0 DEF I!Check, I!RequestAccess, I!MarkRegistered, I!Abort, I!Create, InvitesTyped, JoinsUnderWay
<1>5. faults' \in 0..MaxFaults /\ (faults' = 0 => faults = 0)
  BY <1>0 DEF I!Check, I!RequestAccess, I!MarkRegistered, I!Abort, I!Create, InvitesTyped, I!Fault
<1>6. new \in JoinsUnderWay \cup {I!Outside}
  BY <1>0, <1>1 DEF JoinsUnderWay
<1>7. InvitesTyped'
  <2>1. join' \in [Calls -> JoinsUnderWay \cup {I!Outside}]
    BY <1>0, <1>1, <1>6 DEF InvitesTyped
  <2>2. QED
    BY <1>0, <1>2, <1>3, <1>4, <1>5, <2>1 DEF InvitesTyped
<1>8. \A k \in Calls : join'[k] = IF k = j THEN new ELSE join[k]
  BY <1>0, <1>1 DEF InvitesTyped
<1>9. /\ \A s \in Keys, k \in Calls : I!Holding(k, s)' => I!Holding(k, s)
      /\ \A s \in Keys, k \in Calls : k # j => (I!Holding(k, s)' <=> I!Holding(k, s))
  <2>1. new.pc # "idle" => new.token = join[j].token
    BY <1>0, <1>1 DEF JoinsUnderWay, I!Outside
  <2>2. QED
    BY <1>8, <2>1 DEF I!Holding
<1>10. \A t \in Keys : t \notin drawn' => TokenUnused(t)'
  BY <1>2, <1>3, <1>9 DEF InvitesInv, TokenUnused
<1>11. ASSUME faults' = 0, NEW t \in Keys \ shared' PROVE TokenTrue(t)'
  <2>1. TokenTrue(t)
    BY <1>2, <1>5, <1>11 DEF InvitesInv
  <2>2. \A k, l \in Calls : I!Holding(k, t)' /\ I!Holding(l, t)' => k = l
    BY <1>9, <2>1 DEF TokenTrue
  <2>3. \A k \in Calls : I!Holding(k, t)' /\ join'[k].pc \in {"check", "create"} =>
           I!Holding(k, t) /\ join[k].pc \in {"check", "create"}
    <3>1. CASE I!Check(j)
      BY <1>8, <1>9, <3>1 DEF I!Check
    <3>2. CASE ~I!Check(j)
      <4>1. new = I!Outside \/ new.pc = "mark"
        <5>1. CASE I!RequestAccess(j)
          BY <1>0, <5>1, <1>8 DEF I!RequestAccess, InvitesTyped, JoinsUnderWay
        <5>2. CASE I!MarkRegistered(j) \/ I!Abort(j) \/ (I!Create(j) /\ I!Taken(join[j].name))
          BY <1>0, <5>2, <1>8 DEF I!MarkRegistered, I!Abort, I!Create, InvitesTyped
        <5>3. QED
          BY <3>2, <5>1, <5>2
      <4>2. QED
        BY <1>8, <1>9, <4>1 DEF I!Outside
    <3>3. QED
      BY <3>1, <3>2
  <2>4. ASSUME NEW u \in Usernames, account[u] = t
        PROVE  row'.hash # t \/ \E k \in Calls : I!Holding(k, t)'
    <3>1. CASE row.hash # t
      BY <1>3, <3>1
    <3>2. ASSUME NEW k \in Calls, I!Holding(k, t) PROVE row'.hash # t \/ I!Holding(k, t)'
      <4>1. CASE k # j
        BY <1>9, <3>2, <4>1
      <4>2. CASE k = j
        <5>1. join[j].pc \notin {"check", "create"}
          BY <2>1, <2>4, <3>2, <4>2 DEF TokenTrue
        <5>2. CASE I!RequestAccess(j)
          BY <1>0, <3>2, <4>2, <5>2 DEF I!RequestAccess, I!Holding, InvitesTyped, JoinsUnderWay
        <5>3. CASE I!MarkRegistered(j)
          <6>1. faults' = 0 => ~I!Fault
            BY <1>0 DEF I!Fault, InvitesTyped
          <6>2. QED
            BY <1>0, <1>11, <5>3, <6>1, RowUpdates DEF I!MarkRegistered
        <5>4. CASE I!Abort(j)
          BY <1>0, <1>11, <5>4 DEF I!Abort, I!Fault, InvitesTyped
        <5>5. QED
          BY <5>1, <5>2, <5>3, <5>4 DEF I!Check, I!Create
      <4>3. QED
        BY <4>1, <4>2
    <3>3. QED
      BY <2>1, <2>4, <3>1, <3>2 DEF TokenTrue
  <2>5. QED
    BY <1>2, <2>1, <2>2, <2>3, <2>4 DEF TokenTrue
<1>12. QED
  BY <1>7, <1>10, <1>11 DEF InvitesInv

LEMMA AccountStep ==
    ASSUME InvitesInv, NEW j \in Calls, I!Create(j), ~I!Taken(join[j].name)
    PROVE  InvitesInv'
<1> USE FrontAssumption DEF I!InvitesAssumption
<1> DEFINE u == join[j].name
           t == join[j].token
<1>0. InvitesTyped /\ join[j] \in JoinsUnderWay /\ join[j].pc = "create"
  BY DEF InvitesInv, InvitesTyped, I!Outside, I!Create
<1>1. u \in Usernames /\ t \in Keys /\ I!Holding(j, t) /\ account[u] = NoToken
  BY <1>0 DEF JoinsUnderWay, I!Holding, I!Taken
<1>2. PICK name \in Usernames, token \in Keys : name = u /\ token = t
  BY <1>1
<1>3. account' = [account EXCEPT ![name] = token] /\ join' = [join EXCEPT ![j].pc = "request"]
  BY <1>2 DEF I!Create
<1>4. UNCHANGED <<row, drawn, waitlisting, requested, faults, shared>>
  BY DEF I!Create
<1>5. /\ join' \in [Calls -> JoinsUnderWay \cup {I!Outside}]
      /\ join'[j].pc = "request" /\ join'[j].token = token
      /\ \A k \in Calls : k # j => join'[k] = join[k]
  BY <1>0, <1>2, <1>3 DEF InvitesTyped, JoinsUnderWay
<1>6. I!Holding(j, token) /\ account[name] = NoToken
  BY <1>1, <1>2
<1>7. \A k \in Calls, s \in Keys : I!Holding(k, s)' <=> I!Holding(k, s)
  BY <1>0, <1>2, <1>5 DEF I!Holding, JoinsUnderWay
<1>8. /\ account' \in [Usernames -> Keys \cup {NoToken}]
      /\ \A v \in Usernames : account'[v] = IF v = name THEN token ELSE account[v]
  BY <1>0, <1>3 DEF InvitesTyped
<1>9. InvitesTyped'
  BY <1>0, <1>4, <1>5, <1>8 DEF InvitesTyped
<1>10. \A s \in Keys : s \notin drawn' => TokenUnused(s)'
  BY <1>4, <1>6, <1>7, <1>8 DEF InvitesInv, TokenUnused
<1>11. ASSUME faults' = 0, NEW s \in Keys \ shared' PROVE TokenTrue(s)'
  <2>1. TokenTrue(s)
    BY <1>4, <1>11 DEF InvitesInv
  <2>2. CASE s = token
    <3>1. \A v \in Usernames : account[v] # s
      BY <1>0, <1>6, <2>1, <2>2 DEF TokenTrue
    <3>2. \A k \in Calls : I!Holding(k, s)' => k = j
      BY <1>6, <1>7, <2>1, <2>2 DEF TokenTrue
    <3>3. I!Holding(j, s)'
      BY <1>6, <1>7, <2>2
    <3>4. QED
      BY <1>5, <1>8, <3>1, <3>2, <3>3 DEF TokenTrue
  <2>3. CASE s # token
    <3>1. \A k \in Calls : I!Holding(k, s)' => join'[k] = join[k]
      BY <1>5, <2>3 DEF I!Holding
    <3>2. \A v \in Usernames : account'[v] = s => account[v] = s
      BY <1>8, <2>3
    <3>3. \A k, l \in Calls : I!Holding(k, s)' /\ I!Holding(l, s)' => k = l
      BY <1>7, <2>1 DEF TokenTrue
    <3>4. \A v, w \in Usernames : account'[v] = s /\ account'[w] = s => v = w
      BY <2>1, <3>2 DEF TokenTrue
    <3>5. \A v \in Usernames : account'[v] = s => row'.hash # s \/ \E k \in Calls : I!Holding(k, s)'
      BY <1>4, <1>7, <2>1, <3>2 DEF TokenTrue
    <3>6. \A k \in Calls : I!Holding(k, s)' /\ join'[k].pc \in {"check", "create"} => \A v \in Usernames : account'[v] # s
      BY <1>7, <2>1, <3>1, <3>2 DEF TokenTrue
    <3>7. QED
      BY <3>3, <3>4, <3>5, <3>6 DEF TokenTrue
  <2>4. QED
    BY <2>2, <2>3
<1>12. QED
  BY <1>9, <1>10, <1>11 DEF InvitesInv

LEMMA InvitesStep == InvitesInv /\ I!Next => InvitesInv'
<1> SUFFICES ASSUME InvitesInv, I!Next PROVE InvitesInv'
  OBVIOUS
<1>1. CASE \/ I!Interest \/ I!Expire \/ I!SendWaitlist \/ I!MarkWaitlisted \/ \E t \in Keys : I!Invite(t)
  BY <1>1, InvitesRowStep
<1>2. ASSUME NEW j \in Calls, I!Joining(j) PROVE InvitesInv'
  <2>1. CASE \E t \in Keys : I!Find(j, t)
    BY <2>1, FindStep
  <2>2. CASE I!Check(j) \/ I!RequestAccess(j) \/ I!MarkRegistered(j) \/ I!Abort(j) \/ (I!Create(j) /\ I!Taken(join[j].name))
    <3>1. join[j].pc # "idle"
      BY <2>2 DEF I!Check, I!RequestAccess, I!MarkRegistered, I!Abort, I!Create
    <3>2. QED
      BY <2>2, <3>1, JoinMoves
  <2>3. CASE I!Create(j) /\ ~I!Taken(join[j].name)
    BY <2>3, AccountStep
  <2>4. QED
    BY <1>2, <2>1, <2>2, <2>3 DEF I!Joining
<1>3. QED
  BY <1>1, <1>2 DEF I!Next

LEMMA AtMostOne ==
    ASSUME NEW A, \A x, y \in A : x = y
    PROVE  Cardinality(A) \in {0, 1}
<1>1. CASE A = {}
  BY <1>1, FS_EmptySet
<1>2. CASE A # {}
  <2>1. PICK x : A = {x}
    BY <1>2
  <2>2. Cardinality({x}) = 1
    BY FS_Singleton
  <2>3. QED
    BY <2>1, <2>2
<1>3. QED
  BY <1>1, <1>2

(* Invites counts with the FiniteSets of its own instance.                  *)
LEMMA SameCardinality == ASSUME NEW A PROVE I!Cardinality(A) = Cardinality(A)
  BY DEF I!Cardinality, Cardinality

LEMMA InvitesSpent == InvitesInv => I!InviteSpentOnce
<1> SUFFICES ASSUME InvitesInv PROVE I!InviteSpentOnce
  OBVIOUS
<1>1. faults \in Nat
  BY FrontAssumption DEF InvitesInv, InvitesTyped, I!InvitesAssumption
<1>2. ASSUME NEW t \in Keys, Cardinality(I!MadeWith(t)) > 1
      PROVE  t \in shared \/ faults > 0
  <2>1. SUFFICES ASSUME t \notin shared, faults = 0 PROVE FALSE
    BY <1>1
  <2>2. \A u, v \in I!MadeWith(t) : u = v
    BY <2>1 DEF InvitesInv, TokenTrue, I!MadeWith
  <2>3. Cardinality(I!MadeWith(t)) \in {0, 1}
    BY <2>2, AtMostOne
  <2>4. QED
    BY <1>2, <2>3
<1>3. QED
  BY <1>2, SameCardinality DEF I!InviteSpentOnce

-----------------------------------------------------------------------------
(* Profiles. One request after the other, none failing and none naming a    *)
(* profile that is not there: whatever a request has read still holds when  *)
(* it writes, and between its writes only it knows what is missing. The     *)
(* cache needs none of that: an executor is filed under its own key.        *)

Documents == [key: Keys, secret: Secrets, active: BOOLEAN]
ProfileCalls ==
    [pc: {"list"}, name: Names, key: Keys, secret: Secrets]
    \cup [pc: {"save"}, name: Names, key: Keys, secret: Secrets, active: BOOLEAN]
    \cup [pc: {"clear", "set", "remove"}, name: Names]
    \cup [pc: {"relist"}]
Executors == [at: Keys, key: Keys, secret: Secrets]
OrdersUnderWay ==
    [pc: {"new"}] \cup [pc: {"shared"}, had: BOOLEAN]
    \cup [pc: {"build"}, key: Keys, secret: Secrets]
    \cup [pc: {"own"}, read: Keys, key: Keys, secret: Secrets]

ProfilesTyped ==
    /\ profile \in [Names -> Documents \cup {P!NoProfile}]
    /\ call \in [Calls -> ProfileCalls \cup {P!Idle}]
    /\ left \in 0..MaxCalls /\ faults \in 0..MaxFaults
    /\ overlap \in BOOLEAN /\ misnamed \in BOOLEAN

ExecutorsOnTheirKey ==
    /\ cache \subseteq Executors /\ \A e \in cache : e.at = e.key
    /\ order \in [Confirms -> OrdersUnderWay]
    /\ \A o \in Confirms : order[o].pc = "own" => order[o].key = order[o].read

AtMostOneActive == \A m, n \in P!Active : m = n
OneActive == AtMostOneActive /\ (P!Stored # {} => P!Active # {})

OneCall == \A c, d \in Calls : call[c].pc # "idle" /\ call[d].pc # "idle" => c = d

CallTrue(c) ==
    /\ call[c].pc \in {"list", "remove"} => OneActive
    /\ call[c].pc = "save" => OneActive /\ (call[c].active \/ ~P!KeepsActive(call[c].name))
    /\ call[c].pc = "set" => P!Active = {}
    /\ call[c].pc = "relist" => AtMostOneActive

ProfilesInv ==
    /\ ProfilesTyped
    /\ ExecutorsOnTheirKey
    /\ ~overlap => OneCall
    /\ ~overlap /\ ~misnamed /\ faults = 0 =>
          (P!Quiet => OneActive) /\ \A c \in Calls : CallTrue(c)

LEMMA ActiveProfiles ==
    ProfilesTyped =>
       /\ P!Stored = {n \in Names : profile[n] \in Documents}
       /\ P!Active = {n \in Names : profile[n] \in Documents /\ profile[n].active}
<1> SUFFICES ASSUME ProfilesTyped
             PROVE  /\ P!Stored = {n \in Names : profile[n] \in Documents}
                    /\ P!Active = {n \in Names : profile[n] \in Documents /\ profile[n].active}
  OBVIOUS
<1>1. \A d \in Documents : d # P!NoProfile
  BY FrontAssumption DEF P!ProfilesAssumption, Documents, P!NoProfile
<1>2. P!Stored = {n \in Names : profile[n] \in Documents}
  BY <1>1 DEF ProfilesTyped, P!Stored
<1>3. QED
  BY <1>2 DEF P!Active

LEMMA ActiveProfilesNext ==
    ProfilesTyped' =>
       /\ P!Stored' = {n \in Names : profile'[n] \in Documents}
       /\ P!Active' = {n \in Names : profile'[n] \in Documents /\ profile'[n].active}
<1> SUFFICES ASSUME ProfilesTyped'
             PROVE  /\ P!Stored' = {n \in Names : profile'[n] \in Documents}
                    /\ P!Active' = {n \in Names : profile'[n] \in Documents /\ profile'[n].active}
  OBVIOUS
<1>1. \A d \in Documents : d # P!NoProfile
  BY FrontAssumption DEF P!ProfilesAssumption, Documents, P!NoProfile
<1>2. P!Stored' = {n \in Names : profile'[n] \in Documents}
  BY <1>1 DEF ProfilesTyped, P!Stored
<1>3. QED
  BY <1>2 DEF P!Active

LEMMA ProfilesInit == P!Init => ProfilesInv
<1> SUFFICES ASSUME P!Init PROVE ProfilesInv
  OBVIOUS
<1>1. ProfilesTyped
  <2>1. profile \in [Names -> Documents \cup {P!NoProfile}]
    BY DEF P!Init
  <2>2. call \in [Calls -> ProfileCalls \cup {P!Idle}]
    BY DEF P!Init
  <2>3. left \in 0..MaxCalls /\ faults \in 0..MaxFaults
    BY FrontAssumption DEF P!Init, P!ProfilesAssumption
  <2>4. QED
    BY <2>1, <2>2, <2>3 DEF P!Init, ProfilesTyped
<1>2. ExecutorsOnTheirKey
  BY DEF P!Init, ExecutorsOnTheirKey, OrdersUnderWay
<1>3. P!Stored = {} /\ P!Active = {}
  BY DEF P!Init, P!Stored, P!Active
<1>4. \A c \in Calls : call[c].pc = "idle"
  BY DEF P!Init, P!Idle
<1>5. QED
  BY <1>1, <1>2, <1>3, <1>4 DEF ProfilesInv, OneCall, CallTrue, OneActive, AtMostOneActive

(* The orders and the cache, whatever the requests do.                      *)
LEMMA ExecutorStep == ProfilesInv /\ P!Next => ExecutorsOnTheirKey'
<1> SUFFICES ASSUME ProfilesInv, P!Next PROVE ExecutorsOnTheirKey'
  OBVIOUS
<1>1. ProfilesTyped /\ ExecutorsOnTheirKey
  BY DEF ProfilesInv
<1>2. CASE UNCHANGED <<cache, order>>
  BY <1>1, <1>2 DEF ExecutorsOnTheirKey
<1>3. CASE P!Restart
  <2>1. cache' = {}
    BY <1>3 DEF P!Restart
  <2>2. order' = [o \in Confirms |-> IF order[o].pc = "build" THEN [pc |-> "new"] ELSE order[o]]
    BY <1>3 DEF P!Restart
  <2>3. order' \in [Confirms -> OrdersUnderWay]
    BY <1>1, <2>2 DEF ExecutorsOnTheirKey, OrdersUnderWay
  <2>4. QED
    BY <1>1, <2>1, <2>2, <2>3 DEF ExecutorsOnTheirKey
<1>4. ASSUME NEW o \in Confirms, P!Load(o) PROVE ExecutorsOnTheirKey'
  <2>1. PICK new \in OrdersUnderWay : order' = [order EXCEPT ![o] = new] /\ new.pc # "own"
    <3>1. CASE P!Active = {}
      <4>1. order' = [order EXCEPT ![o] = [pc |-> "shared", had |-> P!Stored # {}]]
        BY <1>4, <3>1 DEF P!Load
      <4>2. [pc |-> "shared", had |-> P!Stored # {}] \in OrdersUnderWay
        BY DEF OrdersUnderWay
      <4>3. QED
        BY <4>1, <4>2
    <3>2. CASE P!Active # {}
      <4>1. PICK n \in P!Active : order' = [order EXCEPT ![o] = [pc |-> "build", key |-> profile[n].key,
                                                                 secret |-> profile[n].secret]]
        BY <1>4, <3>2 DEF P!Load
      <4>2. profile[n] \in Documents
        BY <1>1, <4>1, ActiveProfiles
      <4>3. [pc |-> "build", key |-> profile[n].key, secret |-> profile[n].secret] \in OrdersUnderWay
        BY <4>2 DEF OrdersUnderWay, Documents
      <4>4. QED
        BY <4>1, <4>3
    <3>3. QED
      BY <3>1, <3>2
  <2>2. cache' = cache
    BY <1>4 DEF P!Load
  <2>3. QED
    BY <1>1, <2>1, <2>2 DEF ExecutorsOnTheirKey
<1>5. ASSUME NEW o \in Confirms, P!Build(o) PROVE ExecutorsOnTheirKey'
  <2>1. order[o].key \in Keys /\ order[o].secret \in Secrets
    BY <1>1, <1>5 DEF P!Build, ExecutorsOnTheirKey, OrdersUnderWay
  <2>2. PICK key \in Keys, secret \in Secrets : key = order[o].key /\ secret = order[o].secret
    BY <2>1
  <2>3. PICK new : new = [at |-> key, key |-> key, secret |-> secret]
    OBVIOUS
  <2>4. new \in Executors /\ new.at = key /\ new.key = key
    BY <2>2, <2>3 DEF Executors
  <2>5. /\ cache' = IF P!Cached(key) = {} THEN cache \cup {new} ELSE cache
        /\ \E e \in IF P!Cached(key) = {} THEN {new} ELSE P!Cached(key) :
              order' = [order EXCEPT ![o] = [pc |-> "own", read |-> key, key |-> e.key,
                                             secret |-> e.secret]]
    BY <1>5, <2>2, <2>3 DEF P!Build, P!CacheKey
  <2>6. PICK e : /\ e \in IF P!Cached(key) = {} THEN {new} ELSE P!Cached(key)
                 /\ order' = [order EXCEPT ![o] = [pc |-> "own", read |-> key, key |-> e.key,
                                                   secret |-> e.secret]]
    BY <2>5
  <2>7. e \in Executors /\ e.key = key
    BY <1>1, <2>4, <2>6 DEF P!Cached, P!CacheKey, ExecutorsOnTheirKey
  <2>8. PICK own \in OrdersUnderWay : order' = [order EXCEPT ![o] = own] /\ own.key = own.read
    <3>1. [pc |-> "own", read |-> key, key |-> e.key, secret |-> e.secret] \in OrdersUnderWay
      BY <2>2, <2>7 DEF Executors, OrdersUnderWay
    <3>2. QED
      BY <2>6, <2>7, <3>1
  <2>9. QED
    BY <1>1, <2>4, <2>5, <2>8 DEF ExecutorsOnTheirKey
<1>6. ASSUME NEW c \in Calls, P!Request(c) PROVE UNCHANGED <<cache, order>>
  BY <1>6 DEF P!Request, P!Arrive, P!List, P!Save, P!Clear, P!Set, P!Remove, P!Relist, P!Abort
<1>7. QED
  BY <1>2, <1>3, <1>4, <1>5, <1>6 DEF P!Next

(* A step of one request moves it to `new': what it leaves of the others.   *)
LEMMA CallMoves ==
    ASSUME ProfilesTyped, NEW c \in Calls, NEW new \in ProfileCalls \cup {P!Idle},
           call' = [call EXCEPT ![c] = new]
    PROVE  /\ call' \in [Calls -> ProfileCalls \cup {P!Idle}]
           /\ call'[c] = new /\ \A d \in Calls \ {c} : call'[d] = call[d]
           /\ P!Quiet' => new.pc = "idle"
           /\ OneCall /\ call[c].pc # "idle" =>
                 OneCall' /\ \A d \in Calls \ {c} : call'[d].pc = "idle"
  BY DEF ProfilesTyped, OneCall, P!Quiet

(* The invariant after a step of request c, from what is true of c alone.   *)
LEMMA CallStep ==
    ASSUME ProfilesInv, ExecutorsOnTheirKey', NEW c \in Calls,
           NEW new \in ProfileCalls \cup {P!Idle},
           call[c].pc # "idle", call' = [call EXCEPT ![c] = new],
           profile' \in [Names -> Documents \cup {P!NoProfile}],
           left' = left /\ faults' = faults /\ overlap' = overlap,
           misnamed' \in BOOLEAN, misnamed => misnamed',
           ~misnamed' /\ CallTrue(c) =>
              (new.pc = "idle" => OneActive') /\ CallTrue(c)'
    PROVE  ProfilesInv'
<1>0. ProfilesTyped
  BY DEF ProfilesInv
<1>1. ProfilesTyped'
  BY <1>0, CallMoves DEF ProfilesTyped
<1>2. ~overlap' => OneCall'
  BY <1>0, CallMoves DEF ProfilesInv
<1>3. ASSUME ~overlap', ~misnamed', faults' = 0
      PROVE  (P!Quiet' => OneActive') /\ \A d \in Calls : CallTrue(d)'
  <2>1. OneCall /\ CallTrue(c)
    BY <1>3 DEF ProfilesInv
  <2>2. P!Quiet' => OneActive'
    BY <1>0, <1>3, <2>1, CallMoves
  <2>3. \A d \in Calls \ {c} : call'[d].pc = "idle"
    BY <1>0, <2>1, CallMoves
  <2>4. QED
    BY <1>3, <2>1, <2>2, <2>3 DEF CallTrue
<1>4. QED
  BY <1>1, <1>2, <1>3 DEF ProfilesInv

LEMMA ArriveStep ==
    ASSUME ProfilesInv, ExecutorsOnTheirKey', NEW c \in Calls, P!Arrive(c)
    PROVE  ProfilesInv'
<1>0. ProfilesTyped
  BY DEF ProfilesInv
<1>1. PICK new \in ProfileCalls : call' = [call EXCEPT ![c] = new] /\ new.pc \in {"list", "clear", "remove"}
  <2>1. PICK n \in Names :
          \/ \E k \in Keys, s \in Secrets :
                call' = [call EXCEPT ![c] = [pc |-> "list", name |-> n, key |-> k, secret |-> s]]
          \/ call' = [call EXCEPT ![c] = [pc |-> "clear", name |-> n]]
          \/ call' = [call EXCEPT ![c] = [pc |-> "remove", name |-> n]]
    BY DEF P!Arrive
  <2>2. /\ \A k \in Keys, s \in Secrets : [pc |-> "list", name |-> n, key |-> k, secret |-> s] \in ProfileCalls
        /\ [pc |-> "clear", name |-> n] \in ProfileCalls
        /\ [pc |-> "remove", name |-> n] \in ProfileCalls
    BY DEF ProfileCalls
  <2>3. QED
    BY <2>1, <2>2
<1>2. /\ profile' = profile /\ misnamed' = misnamed /\ faults' = faults
      /\ left' \in 0..MaxCalls /\ overlap' \in BOOLEAN
      /\ ~overlap' => ~overlap /\ P!Quiet
  <2>1. overlap' = (overlap \/ \E d \in Calls : call[d].pc # "idle")
    BY DEF P!Arrive
  <2>2. overlap' \in BOOLEAN /\ (~overlap' => ~overlap /\ P!Quiet)
    BY <1>0, <2>1 DEF P!Quiet, ProfilesTyped
  <2>3. QED
    BY <1>0, <2>2, FrontAssumption DEF P!Arrive, ProfilesTyped, P!ProfilesAssumption
<1>3. ProfilesTyped'
  BY <1>0, <1>1, <1>2, CallMoves DEF ProfilesTyped
<1>4. \A d \in Calls \ {c} : call'[d] = call[d]
  BY <1>0, <1>1, CallMoves
<1>5. call'[c] = new
  BY <1>0, <1>1, CallMoves
<1>6. OneActive' <=> OneActive
  BY <1>2 DEF OneActive, AtMostOneActive, P!Active, P!Stored
<1>7. ~overlap' => ~overlap /\ P!Quiet /\ OneCall'
  BY <1>2, <1>4 DEF OneCall, P!Quiet
<1>8. ~overlap' /\ ~misnamed' /\ faults' = 0 => OneActive
  BY <1>2, <1>7 DEF ProfilesInv
<1>9. ASSUME ~overlap', OneActive' PROVE \A d \in Calls : CallTrue(d)'
  <2>1. \A d \in Calls \ {c} : call'[d].pc = "idle"
    BY <1>4, <1>7, <1>9 DEF P!Quiet
  <2>2. QED
    BY <1>1, <1>5, <1>9, <2>1 DEF CallTrue
<1>10. QED
  BY <1>3, <1>6, <1>7, <1>8, <1>9 DEF ProfilesInv

LEMMA ListStep ==
    ASSUME ProfilesInv, ExecutorsOnTheirKey', NEW c \in Calls, P!List(c)
    PROVE  ProfilesInv'
<1> DEFINE req == call[c]
<1>0. ProfilesTyped /\ req \in [pc: {"list"}, name: Names, key: Keys, secret: Secrets]
  BY DEF ProfilesInv, ProfilesTyped, P!List, ProfileCalls, P!Idle
<1>1. PICK keeps \in BOOLEAN : keeps <=> P!KeepsActive(req.name)
  OBVIOUS
<1>2. PICK new : new = [pc |-> "save", name |-> req.name, key |-> req.key, secret |-> req.secret, active |-> keeps]
  OBVIOUS
<1>3. new \in ProfileCalls /\ new.pc = "save" /\ new.name = req.name /\ (new.active <=> keeps)
  BY <1>0, <1>1, <1>2 DEF ProfileCalls
<1>4. P!KeepsActive(req.name) = keeps
  BY <1>1 DEF P!KeepsActive
<1>5. call' = [call EXCEPT ![c] = new]
  BY <1>0, <1>2, <1>4 DEF P!List, ProfilesTyped
<1>6. UNCHANGED <<profile, left, faults, overlap, misnamed>>
  BY DEF P!List
<1>7. call'[c] = new
  BY <1>0, <1>3, <1>5, CallMoves
<1>8. P!Stored' = P!Stored /\ P!Active' = P!Active
  BY <1>6 DEF P!Stored, P!Active
<1>9. CallTrue(c) => CallTrue(c)'
  BY <1>0, <1>1, <1>3, <1>7, <1>8 DEF CallTrue, OneActive, AtMostOneActive, P!KeepsActive
<1>10. QED
  BY <1>0, <1>3, <1>5, <1>6, <1>9, CallStep DEF ProfilesTyped

LEMMA SaveStep ==
    ASSUME ProfilesInv, ExecutorsOnTheirKey', NEW c \in Calls, P!Save(c)
    PROVE  ProfilesInv'
<1> DEFINE req == call[c]
<1>0. /\ ProfilesTyped
      /\ req \in [pc: {"save"}, name: Names, key: Keys, secret: Secrets, active: BOOLEAN]
  BY DEF ProfilesInv, ProfilesTyped, P!Save, ProfileCalls, P!Idle
<1>1. PICK d \in Documents, n \in Names :
         d = [key |-> req.key, secret |-> req.secret, active |-> req.active] /\ n = req.name
  BY <1>0 DEF Documents
<1>2. profile' = [profile EXCEPT ![n] = d] /\ (d.active <=> req.active)
  BY <1>0, <1>1 DEF P!Save
<1>3. PICK new \in ProfileCalls \cup {P!Idle} :
         /\ call' = [call EXCEPT ![c] = new]
         /\ (req.active /\ new.pc = "clear") \/ (~req.active /\ new.pc = "idle")
  <2>1. [pc |-> "clear", name |-> req.name] \in ProfileCalls
    BY <1>0 DEF ProfileCalls
  <2>2. call' = [call EXCEPT ![c] = IF req.active THEN [pc |-> "clear", name |-> req.name] ELSE P!Idle]
    BY DEF P!Save
  <2>3. CASE req.active
    <3>1. call' = [call EXCEPT ![c] = [pc |-> "clear", name |-> req.name]]
      BY <2>2, <2>3
    <3>2. PICK new \in ProfileCalls : new = [pc |-> "clear", name |-> req.name]
      BY <2>1
    <3>3. call' = [call EXCEPT ![c] = new] /\ new.pc = "clear"
      BY <3>1, <3>2
    <3>4. QED
      BY <2>3, <3>3
  <2>4. CASE ~req.active
    <3>1. call' = [call EXCEPT ![c] = P!Idle]
      BY <2>2, <2>4
    <3>2. P!Idle.pc = "idle"
      BY DEF P!Idle
    <3>3. QED
      BY <2>4, <3>1, <3>2
  <2>5. QED
    BY <2>3, <2>4
<1>4. UNCHANGED <<left, faults, overlap, misnamed>>
  BY DEF P!Save
<1>5. /\ profile' \in [Names -> Documents \cup {P!NoProfile}]
      /\ \A m \in Names : profile'[m] = IF m = n THEN d ELSE profile[m]
  BY <1>0, <1>1, <1>2 DEF ProfilesTyped
<1>6. ProfilesTyped' /\ call'[c] = new
  BY <1>0, <1>3, <1>4, <1>5, CallMoves DEF ProfilesTyped
<1>7. ASSUME CallTrue(c), ~req.active PROVE OneActive'
  <2>1. OneActive /\ ~P!KeepsActive(n)
    BY <1>0, <1>1, <1>7 DEF CallTrue
  <2>2. P!Active' = P!Active
    BY <1>0, <1>2, <1>5, <1>6, <1>7, <2>1, ActiveProfiles, ActiveProfilesNext DEF P!KeepsActive
  <2>3. P!Active # {}
    BY <2>1 DEF OneActive, P!KeepsActive
  <2>4. QED
    BY <2>1, <2>2, <2>3 DEF OneActive, AtMostOneActive
<1>8. CallTrue(c) => (new.pc = "idle" => OneActive') /\ CallTrue(c)'
  BY <1>3, <1>6, <1>7 DEF CallTrue
<1>9. QED
  BY <1>0, <1>3, <1>4, <1>5, <1>8, CallStep DEF ProfilesTyped

LEMMA NoProfileIsInactive == [P!NoProfile EXCEPT !.active = FALSE] = P!NoProfile
<1> DEFINE Nothing == [key: {None}, secret: {None}, active: {FALSE}]
<1>1. P!NoProfile \in Nothing
  BY DEF P!NoProfile
<1>2. \A d \in Nothing : [d EXCEPT !.active = FALSE] = d
  OBVIOUS
<1>3. QED
  BY <1>1, <1>2

LEMMA ClearStep ==
    ASSUME ProfilesInv, ExecutorsOnTheirKey', NEW c \in Calls, P!Clear(c)
    PROVE  ProfilesInv'
<1> DEFINE req == call[c]
<1>0. ProfilesTyped /\ req \in [pc: {"clear", "set", "remove"}, name: Names] /\ req.pc = "clear"
  BY DEF ProfilesInv, ProfilesTyped, P!Clear, ProfileCalls, P!Idle
<1>1. PICK new : new = [req EXCEPT !.pc = "set"]
  OBVIOUS
<1>2. new \in ProfileCalls /\ new.pc = "set" /\ call' = [call EXCEPT ![c] = new]
  BY <1>0, <1>1 DEF ProfileCalls, P!Clear
<1>3. UNCHANGED <<left, faults, overlap, misnamed>>
  BY DEF P!Clear
<1>4. /\ profile' \in [Names -> Documents \cup {P!NoProfile}]
      /\ \A n \in Names : profile'[n].active = FALSE
  <2>1. profile' = [n \in Names |-> [profile[n] EXCEPT !.active = FALSE]]
    BY DEF P!Clear
  <2>2. \A d \in Documents : [d EXCEPT !.active = FALSE] \in Documents /\ [d EXCEPT !.active = FALSE].active = FALSE
    BY DEF Documents
  <2>3. /\ [P!NoProfile EXCEPT !.active = FALSE] = P!NoProfile
        /\ P!NoProfile.active = FALSE
    BY NoProfileIsInactive DEF P!NoProfile
  <2>4. QED
    BY <1>0, <2>1, <2>2, <2>3 DEF ProfilesTyped
<1>5. P!Active' = {} /\ call'[c] = new
  BY <1>0, <1>2, <1>4, CallMoves DEF P!Active, P!Stored
<1>6. CallTrue(c)'
  BY <1>2, <1>5 DEF CallTrue
<1>7. QED
  BY <1>0, <1>2, <1>3, <1>4, <1>6, CallStep DEF ProfilesTyped

LEMMA SetStep ==
    ASSUME ProfilesInv, ExecutorsOnTheirKey', NEW c \in Calls, P!Set(c)
    PROVE  ProfilesInv'
<1>0. ProfilesTyped /\ call[c] \in [pc: {"clear", "set", "remove"}, name: Names] /\ call[c].pc = "set"
  BY DEF ProfilesInv, ProfilesTyped, P!Set, ProfileCalls, P!Idle
<1>1. PICK n \in Names : n = call[c].name
  BY <1>0
<1>2. /\ profile' = [profile EXCEPT ![n].active = n \in P!Stored]
      /\ misnamed' = (misnamed \/ n \notin P!Stored)
      /\ call' = [call EXCEPT ![c] = P!Idle]
      /\ UNCHANGED <<left, faults, overlap>>
  BY <1>1 DEF P!Set
<1>3. misnamed' \in BOOLEAN /\ (misnamed => misnamed') /\ (~misnamed' => n \in P!Stored)
  BY <1>0, <1>2 DEF ProfilesTyped
<1>4. PICK new : new = [profile[n] EXCEPT !.active = n \in P!Stored]
  OBVIOUS
<1>5. profile' = [profile EXCEPT ![n] = new]
  BY <1>0, <1>2, <1>4 DEF ProfilesTyped
<1>6. CASE n \in P!Stored
  <2>1. profile[n] \in Documents
    BY <1>0, <1>6, ActiveProfiles
  <2>2. new = [profile[n] EXCEPT !.active = TRUE]
    BY <1>4, <1>6
  <2>3. new \in Documents /\ new.active
    BY <2>1, <2>2 DEF Documents
  <2>4. /\ profile' \in [Names -> Documents \cup {P!NoProfile}]
        /\ \A m \in Names : profile'[m] = IF m = n THEN new ELSE profile[m]
    BY <1>0, <1>5, <2>3 DEF ProfilesTyped
  <2>5. ProfilesTyped' /\ call'[c].pc = "idle"
    BY <1>0, <1>2, <1>3, <2>4, CallMoves DEF ProfilesTyped, P!Idle
  <2>6. CallTrue(c) => OneActive'
    <3>1. SUFFICES ASSUME P!Active = {} PROVE OneActive'
      BY <1>0 DEF CallTrue
    <3>2. P!Active' = {n}
      BY <1>0, <2>1, <2>3, <2>4, <2>5, <3>1, ActiveProfiles, ActiveProfilesNext
    <3>3. QED
      BY <3>2 DEF OneActive, AtMostOneActive
  <2>7. CallTrue(c) => OneActive' /\ CallTrue(c)'
    BY <2>5, <2>6 DEF CallTrue
  <2>8. QED
    BY <1>0, <1>2, <1>3, <2>4, <2>7, CallStep
<1>7. CASE n \notin P!Stored
  <2>1. profile[n] = P!NoProfile
    BY <1>0, <1>7, ActiveProfiles DEF ProfilesTyped
  <2>2. new = [P!NoProfile EXCEPT !.active = FALSE]
    <3>1. (n \in P!Stored) = FALSE
      BY <1>7
    <3>2. QED
      BY <1>4, <2>1, <3>1
  <2>3. new = P!NoProfile
    BY <2>2, NoProfileIsInactive
  <2>4. profile' \in [Names -> Documents \cup {P!NoProfile}]
    BY <1>0, <1>5, <2>3 DEF ProfilesTyped
  <2>5. QED
    BY <1>0, <1>2, <1>3, <1>7, <2>4, CallStep
<1>8. QED
  BY <1>6, <1>7

LEMMA RemoveStep ==
    ASSUME ProfilesInv, ExecutorsOnTheirKey', NEW c \in Calls, P!Remove(c)
    PROVE  ProfilesInv'
<1>0. ProfilesTyped /\ call[c] \in [pc: {"clear", "set", "remove"}, name: Names] /\ call[c].pc = "remove"
  BY DEF ProfilesInv, ProfilesTyped, P!Remove, ProfileCalls, P!Idle
<1>1. PICK n \in Names : n = call[c].name
  BY <1>0
<1>2. /\ profile' = [profile EXCEPT ![n] = P!NoProfile]
      /\ UNCHANGED <<left, faults, overlap, misnamed>>
  BY <1>1 DEF P!Remove
<1>3. PICK new \in ProfileCalls : new.pc = "relist" /\ call' = [call EXCEPT ![c] = new]
  <2>1. [pc |-> "relist"] \in ProfileCalls
    BY DEF ProfileCalls
  <2>2. QED
    BY <2>1 DEF P!Remove
<1>4. /\ profile' \in [Names -> Documents \cup {P!NoProfile}]
      /\ \A m \in Names : profile'[m] = IF m = n THEN P!NoProfile ELSE profile[m]
  BY <1>0, <1>2 DEF ProfilesTyped
<1>5. ProfilesTyped' /\ call'[c] = new
  BY <1>0, <1>2, <1>3, <1>4, CallMoves DEF ProfilesTyped
<1>6. P!Active' \subseteq P!Active
  <2>1. P!NoProfile \notin Documents
    BY FrontAssumption DEF P!ProfilesAssumption, Documents, P!NoProfile
  <2>2. QED
    BY <1>0, <1>4, <1>5, <2>1, ActiveProfiles, ActiveProfilesNext
<1>7. CallTrue(c) => CallTrue(c)'
  BY <1>0, <1>3, <1>5, <1>6 DEF CallTrue, OneActive, AtMostOneActive
<1>8. QED
  BY <1>0, <1>2, <1>3, <1>4, <1>7, CallStep DEF ProfilesTyped

LEMMA RelistStep ==
    ASSUME ProfilesInv, ExecutorsOnTheirKey', NEW c \in Calls, P!Relist(c)
    PROVE  ProfilesInv'
<1>0. ProfilesTyped /\ call[c].pc = "relist"
  BY DEF ProfilesInv, P!Relist
<1>1. UNCHANGED <<profile, left, faults, overlap, misnamed>>
  BY DEF P!Relist
<1>2. P!Stored' = P!Stored /\ P!Active' = P!Active
  BY <1>1 DEF P!Stored, P!Active
<1>3. PICK new \in ProfileCalls \cup {P!Idle} :
         /\ call' = [call EXCEPT ![c] = new]
         /\ new.pc = "clear" \/ (new.pc = "idle" /\ P!Heirs = {})
  <2>1. \A n \in P!Heirs : [pc |-> "clear", name |-> n] \in ProfileCalls
    BY DEF P!Heirs, P!Stored, ProfileCalls
  <2>2. P!Idle.pc = "idle"
    BY DEF P!Idle
  <2>3. CASE \E n \in P!Heirs : call' = [call EXCEPT ![c] = [pc |-> "clear", name |-> n]]
    <3>1. PICK n \in P!Heirs : call' = [call EXCEPT ![c] = [pc |-> "clear", name |-> n]]
      BY <2>3
    <3>2. PICK new \in ProfileCalls : new = [pc |-> "clear", name |-> n]
      BY <2>1
    <3>3. call' = [call EXCEPT ![c] = new] /\ new.pc = "clear"
      BY <3>1, <3>2
    <3>4. QED
      BY <3>3
  <2>4. CASE P!Heirs = {} /\ call' = [call EXCEPT ![c] = P!Idle]
    BY <2>2, <2>4
  <2>5. QED
    BY <2>3, <2>4 DEF P!Relist
<1>4. call'[c] = new
  BY <1>0, <1>3, CallMoves
<1>5. CallTrue(c) => (new.pc = "idle" => OneActive') /\ CallTrue(c)'
  BY <1>0, <1>2, <1>3, <1>4 DEF CallTrue, OneActive, AtMostOneActive, P!Heirs
<1>6. QED
  BY <1>0, <1>1, <1>3, <1>5, CallStep DEF ProfilesTyped

(* A request or the process gives up; faults are counted.                   *)
LEMMA GiveUpStep ==
    ASSUME ProfilesInv, ExecutorsOnTheirKey',
           P!Restart \/ \E c \in Calls : P!Abort(c)
    PROVE  ProfilesInv'
<1>0. ProfilesTyped
  BY DEF ProfilesInv
<1>1. /\ UNCHANGED <<profile, left, overlap, misnamed>>
      /\ faults' = faults + 1 /\ faults < MaxFaults
  BY DEF P!Restart, P!Abort, P!Fault
<1>2. /\ call' \in [Calls -> ProfileCalls \cup {P!Idle}]
      /\ \A d \in Calls : call'[d] \in {call[d], P!Idle}
  BY <1>0 DEF P!Restart, P!Abort, ProfilesTyped
<1>3. faults' \in 0..MaxFaults /\ faults' # 0
  BY <1>0, <1>1, FrontAssumption DEF ProfilesTyped, P!ProfilesAssumption
<1>4. ProfilesTyped'
  BY <1>0, <1>1, <1>2, <1>3 DEF ProfilesTyped
<1>5. ~overlap' => OneCall'
  BY <1>1, <1>2 DEF ProfilesInv, OneCall, P!Idle
<1>6. QED
  BY <1>3, <1>4, <1>5 DEF ProfilesInv

LEMMA OrderStep ==
    ASSUME ProfilesInv, ExecutorsOnTheirKey',
           \E o \in Confirms : P!Load(o) \/ P!Build(o)
    PROVE  ProfilesInv'
<1>1. UNCHANGED <<profile, call, left, faults, overlap, misnamed>>
  BY DEF P!Load, P!Build
<1>2. P!Stored' = P!Stored /\ P!Active' = P!Active /\ (P!Quiet' <=> P!Quiet)
  BY <1>1 DEF P!Stored, P!Active, P!Quiet
<1>3. \A c \in Calls : CallTrue(c) => CallTrue(c)'
  BY <1>1, <1>2 DEF CallTrue, OneActive, AtMostOneActive, P!KeepsActive
<1>4. ProfilesTyped' /\ (OneCall => OneCall') /\ (OneActive => OneActive')
  BY <1>1, <1>2 DEF ProfilesInv, ProfilesTyped, OneCall, OneActive, AtMostOneActive
<1>5. QED
  BY <1>1, <1>2, <1>3, <1>4 DEF ProfilesInv

LEMMA ProfilesStep == ProfilesInv /\ P!Next => ProfilesInv'
<1> SUFFICES ASSUME ProfilesInv, P!Next PROVE ProfilesInv'
  OBVIOUS
<1>1. ExecutorsOnTheirKey'
  BY ExecutorStep
<1>2. CASE P!Restart \/ \E c \in Calls : P!Abort(c)
  BY <1>1, <1>2, GiveUpStep
<1>3. CASE \E o \in Confirms : P!Load(o) \/ P!Build(o)
  BY <1>1, <1>3, OrderStep
<1>4. ASSUME NEW c \in Calls, P!Request(c) PROVE ProfilesInv'
  <2>1. CASE P!Arrive(c)
    BY <1>1, <2>1, ArriveStep
  <2>2. CASE P!List(c)
    BY <1>1, <2>2, ListStep
  <2>3. CASE P!Save(c)
    BY <1>1, <2>3, SaveStep
  <2>4. CASE P!Clear(c)
    BY <1>1, <2>4, ClearStep
  <2>5. CASE P!Set(c)
    BY <1>1, <2>5, SetStep
  <2>6. CASE P!Remove(c)
    BY <1>1, <2>6, RemoveStep
  <2>7. CASE P!Relist(c)
    BY <1>1, <2>7, RelistStep
  <2>8. QED
    BY <1>2, <1>4, <2>1, <2>2, <2>3, <2>4, <2>5, <2>6, <2>7 DEF P!Request
<1>5. QED
  BY <1>2, <1>3, <1>4 DEF P!Next

LEMMA SameCardinalityOfProfiles == ASSUME NEW A PROVE P!Cardinality(A) = Cardinality(A)
  BY DEF P!Cardinality, Cardinality

LEMMA ProfilesSound == ProfilesInv => P!OneActiveProfile /\ P!OrdersOnTheKeyRead
<1> SUFFICES ASSUME ProfilesInv PROVE P!OneActiveProfile /\ P!OrdersOnTheKeyRead
  OBVIOUS
<1>1. P!OrdersOnTheKeyRead
  BY DEF ProfilesInv, ExecutorsOnTheirKey, P!OrdersOnTheKeyRead
<1>2. ASSUME P!Quiet, ~overlap, ~misnamed, faults = 0
      PROVE  Cardinality(P!Active) = IF P!Stored = {} THEN 0 ELSE 1
  <2>1. OneActive
    BY <1>2 DEF ProfilesInv
  <2>2. P!Active \subseteq P!Stored
    BY DEF P!Active
  <2>3. CASE P!Stored = {}
    BY <2>2, <2>3, FS_EmptySet
  <2>4. CASE P!Stored # {}
    <3>1. PICK n : P!Active = {n}
      BY <2>1, <2>4 DEF OneActive, AtMostOneActive
    <3>2. Cardinality({n}) = 1
      BY FS_Singleton
    <3>3. QED
      BY <2>4, <3>1, <3>2
  <2>5. QED
    BY <2>3, <2>4
<1>3. P!OneActiveProfile
  BY <1>2, SameCardinalityOfProfiles DEF P!OneActiveProfile
<1>4. QED
  BY <1>1, <1>3

-----------------------------------------------------------------------------
(* Membership. The founder numbers given out are 1..n for some n, each to   *)
(* one member. While one call mints, n stands still and is what the call    *)
(* has read, and the member it mints for has no number.                     *)

Plans == {"none", "free", "captain", "commander"}
Records == [status: M!Statuses, tier: Plans, role: {"member", "admin"}, founder: 0..Cap]
StoreOps == M!AdminOps \cup {"request"}
MemberCalls ==
    [pc: {"gate", "status", "write", "plan", "own", "top"}, op: StoreOps,
     by: Subjects, who: Subjects, tier: Plans]
    \cup [pc: {"mint", "plan"}, op: StoreOps, by: Subjects, who: Subjects, tier: Plans, next: 1..Cap]
    \cup [pc: {"free", "allow", "count", "decide", "metered"}, op: {"ai"},
          by: Subjects, who: Subjects, tier: Plans]

MembersTyped ==
    /\ access \in [Subjects -> Records]
    /\ call \in [Calls -> MemberCalls \cup {M!Idle}]
    /\ raced \in BOOLEAN /\ strayed \in BOOLEAN

Numbering(n) ==
    /\ n \in 0..Cap
    /\ \A s \in Subjects : access[s].founder <= n
    /\ \A k \in 1..n : \E s \in Subjects : access[s].founder = k
    /\ \A s, t \in Subjects :
          access[s].founder = access[t].founder /\ access[s].founder > 0 => s = t

MintingAlone ==
    /\ \A c, d \in Calls : M!Minting(c) /\ M!Minting(d) => c = d
    /\ \A c \in Calls : M!Minting(c) => access[call[c].who].founder = 0
    /\ \A c \in Calls : call[c].pc = "mint" => Numbering(call[c].next - 1)

MembersInv ==
    /\ MembersTyped
    /\ ~raced /\ ~strayed => (\E n \in 0..Cap : Numbering(n)) /\ MintingAlone

LEMMA MembersInit == M!Init => MembersInv
<1> SUFFICES ASSUME M!Init PROVE MembersInv
  OBVIOUS
<1>1. MembersTyped
  <2>1. M!Absent \in Records
    BY FrontAssumption DEF M!MembershipAssumption, M!Absent, Records, M!Statuses, Plans
  <2>2. QED
    BY <2>1 DEF M!Init, MembersTyped
<1>2. Numbering(0)
  BY FrontAssumption DEF M!MembershipAssumption, M!Init, M!Absent, Numbering
<1>3. \A c \in Calls : call[c].pc = "idle"
  BY DEF M!Init, M!Idle
<1>4. MintingAlone
  BY <1>3 DEF MintingAlone, M!Minting
<1>5. 0 \in 0..Cap
  BY FrontAssumption DEF M!MembershipAssumption
<1>6. QED
  BY <1>1, <1>2, <1>4, <1>5 DEF MembersInv

(* What the first write of a request makes of a record.                     *)
LEMMA UpdatedRecord ==
    ASSUME NEW r \in Records, NEW req \in MemberCalls, req.op \in StoreOps
    PROVE  /\ M!Updated(req, r) \in Records
           /\ M!Updated(req, r).founder = r.founder
           /\ r.status = "approved" => M!Updated(req, r).status \in {"approved", "revoked"}
<1>0. req.tier \in Plans
  BY DEF MemberCalls
<1>1. CASE req.op = "request"
  BY <1>1 DEF M!Updated, M!Requested, Records, M!Statuses
<1>2. CASE req.op = "approve"
  <2>1. M!Updated(req, r) = M!Approved(r)
    BY <1>2 DEF M!Updated
  <2>2. QED
    BY <2>1 DEF M!Approved, Records, M!Statuses, Plans
<1>3. CASE req.op = "revoke"
  BY <1>3 DEF M!Updated, M!Revoked, Records, M!Statuses
<1>4. CASE req.op \in {"promote", "demote"}
  BY <1>4 DEF M!Updated, M!WithRole, Records, M!Statuses
<1>5. CASE req.op = "tier"
  BY <1>0, <1>5 DEF M!Updated, M!WithTier, Records, M!Statuses
<1>6. QED
  BY <1>1, <1>2, <1>3, <1>4, <1>5 DEF StoreOps, M!AdminOps

LEMMA PlannedRecord ==
    ASSUME NEW r \in Records, NEW tier \in Plans
    PROVE  /\ M!WithTier(r, tier) \in Records
           /\ M!WithTier(r, tier).founder = r.founder
           /\ M!WithTier(r, tier).status = "approved"
  BY DEF M!WithTier, Records, M!Statuses

LEMMA Greatest ==
    ASSUME NEW B \in Nat, NEW F, F \subseteq 0..B, F # {}
    PROVE  \E x \in F : \A y \in F : x >= y
<1> DEFINE D == {B - x : x \in F}
<1>1. \A x \in F : x \in 0..B /\ B - x \in Nat
  OBVIOUS
<1>2. D # {} /\ D \subseteq Nat
  BY <1>1
<1>3. PICK n \in D : \A m \in D : <<m, n>> \notin OpToRel(<, Nat)
  <2>1. IsWellFoundedOn(OpToRel(<, Nat), Nat)
    BY NatLessThanWellFounded, Zenon
  <2>2. QED
    BY <1>2, <2>1, WFMin, Zenon
<1>4. PICK x \in F : n = B - x
  BY <1>3
<1>5. ASSUME NEW y \in F PROVE x >= y
  <2>1. B - y \in D /\ B - y \in Nat /\ n \in Nat
    BY <1>1, <1>2, <1>3
  <2>2. ~(B - y < n)
    BY <1>3, <2>1 DEF OpToRel
  <2>3. x \in Int /\ y \in Int
    BY <1>1
  <2>4. QED
    BY <1>4, <2>1, <2>2, <2>3
<1>6. QED
  BY <1>5

(* The highest number, and that there is one.                               *)
LEMMA HighestNumber ==
    ASSUME MembersTyped
    PROVE  /\ M!Highest \in 0..Cap
           /\ \A n \in 0..Cap : Numbering(n) => M!Highest = n
<1> DEFINE F == {access[s].founder : s \in Subjects}
<1>1. F \subseteq 0..Cap /\ F # {} /\ Cap \in Nat
  BY FrontAssumption DEF M!MembershipAssumption, MembersTyped, Records
<1>2. \E x \in F : \A y \in F : x >= y
  <2> HIDE DEF F
  <2>1. QED
    BY <1>1, Greatest
<1>3. M!Highest \in F /\ \A y \in F : M!Highest >= y
  BY <1>2 DEF M!Highest, M!Max
<1>4. ASSUME NEW n \in 0..Cap, Numbering(n) PROVE M!Highest = n
  <2>1. M!Highest <= n
    BY <1>3, <1>4 DEF Numbering
  <2>2. CASE n = 0
    BY <1>1, <1>3, <2>1, <2>2
  <2>3. CASE n # 0
    <3>1. n \in F
      BY <1>1, <1>4, <2>3 DEF Numbering
    <3>2. QED
      BY <1>1, <1>3, <2>1, <3>1
  <2>4. QED
    BY <2>2, <2>3
<1>5. QED
  BY <1>1, <1>3, <1>4

(* A request moves on: to `new', and the other calls stand still.           *)
Moves(c, new) == new \in MemberCalls \cup {M!Idle} /\ call' = [call EXCEPT ![c] = new]

LEMMA ToMoves ==
    ASSUME MembersTyped, NEW c \in Calls, NEW pc, M!To(c, pc),
           [call[c] EXCEPT !.pc = pc] \in MemberCalls, [call[c] EXCEPT !.pc = pc].pc = pc
    PROVE  \E new : Moves(c, new) /\ new.pc = pc
<1>1. PICK new : new = [call[c] EXCEPT !.pc = pc]
  OBVIOUS
<1>2. Moves(c, new) /\ new.pc = pc
  BY <1>1 DEF MembersTyped, M!To, Moves
<1>3. QED
  BY <1>2

LEMMA ReturnMoves ==
    ASSUME NEW c \in Calls, M!Return(c)
    PROVE  \E new : Moves(c, new) /\ new.pc = "idle"
<1>1. Moves(c, M!Idle)
  BY DEF M!Return, Moves
<1>2. M!Idle.pc = "idle"
  BY DEF M!Idle
<1>3. QED
  BY <1>1, <1>2

LEMMA StoreCall ==
    ASSUME MembersTyped, NEW c \in Calls,
           call[c].pc \in {"gate", "status", "write", "plan", "own", "top", "mint"}
    PROVE  /\ call[c] \in MemberCalls /\ call[c].op \in StoreOps
           /\ call[c].by \in Subjects /\ call[c].who \in Subjects /\ call[c].tier \in Plans
           /\ [call[c] EXCEPT !.pc = "plan"] \in MemberCalls
           /\ [call[c] EXCEPT !.pc = "plan"].pc = "plan"
           /\ call[c].pc \in {"gate", "status", "write", "own", "top"} =>
                 \A pc \in {"status", "write", "own", "top"} :
                    /\ [call[c] EXCEPT !.pc = pc] \in MemberCalls
                    /\ [call[c] EXCEPT !.pc = pc].pc = pc
                    /\ [call[c] EXCEPT !.pc = pc].who = call[c].who
           /\ call[c].pc = "mint" => call[c].next \in 1..Cap
<1>1. call[c] \in MemberCalls
  BY DEF MembersTyped, M!Idle
<1>2. QED
  BY <1>1 DEF MemberCalls

LEMMA AfterFounderMoves ==
    ASSUME MembersTyped, NEW c \in Calls, M!AfterFounder(c),
           call[c].pc \in {"write", "own", "top", "mint"}
    PROVE  \E new : Moves(c, new) /\ new.pc \notin {"top", "mint"}
<1>1. CASE M!To(c, "plan")
  <2>1. [call[c] EXCEPT !.pc = "plan"] \in MemberCalls /\ [call[c] EXCEPT !.pc = "plan"].pc = "plan"
    BY StoreCall
  <2>2. \E new : Moves(c, new) /\ new.pc = "plan"
    BY <1>1, <2>1, ToMoves
  <2>3. QED
    BY <2>2
<1>2. CASE M!Return(c)
  BY <1>2, ReturnMoves
<1>3. QED
  BY <1>1, <1>2 DEF M!AfterFounder

(* The steps that mint nothing.                                             *)
LEMMA PlainMoves ==
    ASSUME MembersTyped, NEW c \in Calls,
           \/ M!Arrive(c) \/ M!Gate(c) \/ M!Status(c) \/ M!Write(c) \/ M!Plan(c)
           \/ M!Free(c) \/ M!Allow(c) \/ M!Count(c) \/ M!Decide(c) \/ M!Fail(c)
    PROVE  \E new : Moves(c, new) /\ new.pc \notin {"top", "mint"}
<1>0. DOMAIN AiLimit \subseteq {"free", "captain"}
  BY FrontAssumption DEF M!MembershipAssumption
<1>1. CASE M!Arrive(c)
  <2>1. PICK by, who \in Subjects, tier \in M!Tiers \cup {"none"}, op \in M!AdminOps \cup {"request", "ai"} :
           call' = [call EXCEPT ![c] = [pc |-> IF op = "ai" THEN "free" ELSE "gate",
                                        op |-> op, by |-> by, who |-> who, tier |-> tier]]
    BY <1>1 DEF M!Arrive
  <2>2. tier \in Plans
    BY <1>0 DEF M!Tiers, Plans
  <2>3. CASE op = "ai"
    <3>1. PICK new : new = [pc |-> "free", op |-> "ai", by |-> by, who |-> who, tier |-> tier]
      OBVIOUS
    <3>2. new \in MemberCalls /\ new.pc = "free"
      BY <2>2, <3>1 DEF MemberCalls
    <3>3. QED
      BY <2>1, <2>3, <3>1, <3>2 DEF Moves
  <2>4. CASE op # "ai"
    <3>1. PICK new : new = [pc |-> "gate", op |-> op, by |-> by, who |-> who, tier |-> tier]
      OBVIOUS
    <3>2. op \in StoreOps
      BY <2>4 DEF StoreOps
    <3>3. new \in MemberCalls /\ new.pc = "gate"
      BY <2>2, <3>1, <3>2 DEF MemberCalls
    <3>4. QED
      BY <2>1, <2>4, <3>1, <3>3 DEF Moves
  <2>5. QED
    BY <2>3, <2>4
<1>2. CASE M!Gate(c)
  <2>1. call[c].pc = "gate" /\ (M!Return(c) \/ M!To(c, "status") \/ M!To(c, "write"))
    BY <1>2 DEF M!Gate
  <2>2. CASE M!Return(c)
    BY <2>2, ReturnMoves
  <2>3. CASE M!To(c, "status")
    <3>1. [call[c] EXCEPT !.pc = "status"] \in MemberCalls /\ [call[c] EXCEPT !.pc = "status"].pc = "status"
      BY <2>1, StoreCall
    <3>2. \E new : Moves(c, new) /\ new.pc = "status"
      BY <2>3, <3>1, ToMoves
    <3>3. QED
      BY <3>2
  <2>4. CASE M!To(c, "write")
    <3>1. [call[c] EXCEPT !.pc = "write"] \in MemberCalls /\ [call[c] EXCEPT !.pc = "write"].pc = "write"
      BY <2>1, StoreCall
    <3>2. \E new : Moves(c, new) /\ new.pc = "write"
      BY <2>4, <3>1, ToMoves
    <3>3. QED
      BY <3>2
  <2>5. QED
    BY <2>1, <2>2, <2>3, <2>4
<1>3. CASE M!Status(c)
  <2>1. call[c].pc = "status" /\ (M!Return(c) \/ M!To(c, "write"))
    BY <1>3 DEF M!Status
  <2>2. CASE M!Return(c)
    BY <2>2, ReturnMoves
  <2>3. CASE M!To(c, "write")
    <3>1. [call[c] EXCEPT !.pc = "write"] \in MemberCalls /\ [call[c] EXCEPT !.pc = "write"].pc = "write"
      BY <2>1, StoreCall
    <3>2. \E new : Moves(c, new) /\ new.pc = "write"
      BY <2>3, <3>1, ToMoves
    <3>3. QED
      BY <3>2
  <2>4. QED
    BY <2>1, <2>2, <2>3
<1>4. CASE M!Write(c)
  <2>1. call[c].pc = "write" /\ (M!Return(c) \/ M!To(c, "own") \/ M!AfterFounder(c))
    BY <1>4 DEF M!Write
  <2>2. CASE M!Return(c)
    BY <2>2, ReturnMoves
  <2>3. CASE M!To(c, "own")
    <3>1. [call[c] EXCEPT !.pc = "own"] \in MemberCalls /\ [call[c] EXCEPT !.pc = "own"].pc = "own"
      BY <2>1, StoreCall
    <3>2. \E new : Moves(c, new) /\ new.pc = "own"
      BY <2>3, <3>1, ToMoves
    <3>3. QED
      BY <3>2
  <2>4. CASE M!AfterFounder(c)
    BY <2>1, <2>4, AfterFounderMoves
  <2>5. QED
    BY <2>1, <2>2, <2>3, <2>4
<1>5. CASE M!Plan(c)
  BY <1>5, ReturnMoves DEF M!Plan
<1>6. ASSUME call[c].pc \in {"free", "allow", "count", "decide", "metered"}
      PROVE  /\ call[c] \in MemberCalls
             /\ \A pc \in {"free", "allow", "count", "decide", "metered"} :
                   /\ [call[c] EXCEPT !.pc = pc] \in MemberCalls
                   /\ [call[c] EXCEPT !.pc = pc].pc = pc
                   /\ \A tier \in Plans :
                         /\ [call[c] EXCEPT !.pc = pc, !.tier = tier] \in MemberCalls
                         /\ [call[c] EXCEPT !.pc = pc, !.tier = tier].pc = pc
  <2>1. call[c] \in MemberCalls
    BY <1>6 DEF MembersTyped, M!Idle
  <2>2. QED
    BY <1>6, <2>1 DEF MemberCalls
<1>7. CASE M!Free(c)
  <2>1. call[c].pc = "free" /\ (M!To(c, "decide") \/ M!To(c, "allow"))
    BY <1>7 DEF M!Free, M!To
  <2>2. CASE M!To(c, "decide")
    <3>1. [call[c] EXCEPT !.pc = "decide"] \in MemberCalls /\ [call[c] EXCEPT !.pc = "decide"].pc = "decide"
      BY <2>1, <1>6
    <3>2. \E new : Moves(c, new) /\ new.pc = "decide"
      BY <2>2, <3>1, ToMoves
    <3>3. QED
      BY <3>2
  <2>3. CASE M!To(c, "allow")
    <3>1. [call[c] EXCEPT !.pc = "allow"] \in MemberCalls /\ [call[c] EXCEPT !.pc = "allow"].pc = "allow"
      BY <2>1, <1>6
    <3>2. \E new : Moves(c, new) /\ new.pc = "allow"
      BY <2>3, <3>1, ToMoves
    <3>3. QED
      BY <3>2
  <2>4. QED
    BY <2>1, <2>2, <2>3
<1>8. CASE M!Allow(c)
  <2>1. call[c].by \in Subjects
    BY <1>6, <1>8 DEF M!Allow, MemberCalls
  <2>2. M!TierOf(call[c].by) \in Plans
    BY <2>1 DEF M!TierOf, MembersTyped, Records, Plans
  <2>3. PICK tier \in Plans : tier = M!TierOf(call[c].by)
    BY <2>2
  <2>4. PICK new : new = [call[c] EXCEPT !.pc = "count", !.tier = tier]
    OBVIOUS
  <2>5. call' = [call EXCEPT ![c].pc = "count", ![c].tier = tier]
    BY <1>8, <2>3 DEF M!Allow
  <2>6. call' = [call EXCEPT ![c] = new]
    BY <2>4, <2>5 DEF MembersTyped
  <2>7. QED
    BY <1>6, <1>8, <2>4, <2>6 DEF M!Allow, Moves
<1>9. CASE M!Count(c)
  <2>1. call[c].pc = "count" /\ (M!Return(c) \/ M!To(c, "metered"))
    BY <1>9 DEF M!Count
  <2>2. CASE M!Return(c)
    BY <2>2, ReturnMoves
  <2>3. CASE M!To(c, "metered")
    <3>1. [call[c] EXCEPT !.pc = "metered"] \in MemberCalls /\ [call[c] EXCEPT !.pc = "metered"].pc = "metered"
      BY <2>1, <1>6
    <3>2. \E new : Moves(c, new) /\ new.pc = "metered"
      BY <2>3, <3>1, ToMoves
    <3>3. QED
      BY <3>2
  <2>4. QED
    BY <2>1, <2>2, <2>3
<1>10. CASE M!Decide(c)
  BY <1>10, ReturnMoves DEF M!Decide
<1>11. CASE M!Fail(c)
  BY <1>11, ReturnMoves, AfterFounderMoves DEF M!Fail, M!Minting
<1>12. QED
  BY <1>1, <1>2, <1>3, <1>4, <1>5, <1>7, <1>8, <1>9, <1>10, <1>11

(* The records after a step: a write gives out no number, and only a        *)
(* revocation takes an approval away.                                       *)
LEMMA RecordsAfter ==
    ASSUME MembersTyped, M!Next
    PROVE  /\ access' \in [Subjects -> Records]
           /\ \A s \in Subjects : access[s].status = "approved" => access'[s].status \in {"approved", "revoked"}
           /\ \A c \in Calls : M!Write(c) \/ M!Plan(c) =>
                 \A s \in Subjects : access'[s].founder = access[s].founder
<1>1. CASE access' = access
  BY <1>1 DEF MembersTyped
<1>2. ASSUME NEW c \in Calls, M!Write(c)
      PROVE  /\ access' \in [Subjects -> Records]
             /\ \A s \in Subjects : /\ access[s].status = "approved" => access'[s].status \in {"approved", "revoked"}
                                    /\ access'[s].founder = access[s].founder
  <2>1. PICK s \in Subjects : s = call[c].who
    BY <1>2, StoreCall DEF M!Write
  <2>2. PICK new : new = M!Updated(call[c], access[s])
    OBVIOUS
  <2>3. /\ new \in Records /\ new.founder = access[s].founder
        /\ access[s].status = "approved" => new.status \in {"approved", "revoked"}
    BY <1>2, <2>2, StoreCall, UpdatedRecord DEF M!Write, MembersTyped
  <2>4. access' = [access EXCEPT ![s] = new]
    BY <1>2, <2>1, <2>2 DEF M!Write, MembersTyped
  <2>5. QED
    BY <2>3, <2>4 DEF MembersTyped
<1>3. ASSUME NEW c \in Calls, M!Plan(c)
      PROVE  /\ access' \in [Subjects -> Records]
             /\ \A s \in Subjects : /\ access[s].status = "approved" => access'[s].status \in {"approved", "revoked"}
                                    /\ access'[s].founder = access[s].founder
  <2>1. PICK s \in Subjects : s = call[c].who
    BY <1>3, StoreCall DEF M!Plan
  <2>2. PICK new : new = M!WithTier(access[s], call[c].tier)
    OBVIOUS
  <2>3. new \in Records /\ new.founder = access[s].founder /\ new.status = "approved"
    <3>1. access[s] \in Records /\ call[c].tier \in Plans
      BY <1>3, StoreCall DEF M!Plan, MembersTyped
    <3>2. QED
      BY <2>2, <3>1, PlannedRecord
  <2>4. access' = [access EXCEPT ![s] = new]
    BY <1>3, <2>1, <2>2 DEF M!Plan, MembersTyped
  <2>5. QED
    BY <2>3, <2>4 DEF MembersTyped
<1>4. ASSUME NEW c \in Calls, M!Mint(c)
      PROVE  /\ access' \in [Subjects -> Records]
             /\ \A s \in Subjects : access'[s].status = access[s].status
  <2>1. PICK s \in Subjects, n \in 1..Cap : s = call[c].who /\ n = call[c].next
    BY <1>4, StoreCall DEF M!Mint
  <2>2. access' = [access EXCEPT ![s].founder = n]
    BY <1>4, <2>1 DEF M!Mint
  <2>3. Cap \in Nat
    BY FrontAssumption DEF M!MembershipAssumption
  <2>4. QED
    BY <2>2, <2>3 DEF MembersTyped, Records
<1>5. CASE M!Restart
  BY <1>1, <1>5 DEF M!Restart
<1>6. ASSUME NEW c \in Calls, M!Handle(c), ~M!Write(c), ~M!Plan(c), ~M!Mint(c)
      PROVE  access' = access
  BY <1>6 DEF M!Handle, M!Arrive, M!Gate, M!Status, M!Own, M!Top, M!Free, M!Allow, M!Count, M!Decide, M!Fail
<1>7. QED
  BY <1>1, <1>2, <1>3, <1>4, <1>5, <1>6 DEF M!Next

(* A step that starts no minting and gives out no number.                   *)
LEMMA PlainStep ==
    ASSUME MembersInv, NEW c \in Calls, NEW new, Moves(c, new), new.pc \notin {"top", "mint"},
           access' \in [Subjects -> Records],
           \A s \in Subjects : access'[s].founder = access[s].founder,
           raced' \in BOOLEAN, strayed' \in BOOLEAN, raced => raced', strayed => strayed'
    PROVE  MembersInv'
<1>1. MembersTyped
  BY DEF MembersInv
<1>2. MembersTyped'
  BY <1>1 DEF MembersTyped, Moves
<1>3. call'[c] = new /\ \A d \in Calls \ {c} : call'[d] = call[d]
  BY <1>1 DEF MembersTyped, Moves
<1>4. \A d \in Calls : M!Minting(d)' => M!Minting(d) /\ d # c /\ call'[d] = call[d]
  BY <1>3 DEF M!Minting
<1>5. \A n : Numbering(n) => Numbering(n)'
  BY DEF Numbering
<1>6. ASSUME MintingAlone PROVE MintingAlone'
  <2>1. \A d, e \in Calls : M!Minting(d)' /\ M!Minting(e)' => d = e
    BY <1>4, <1>6 DEF MintingAlone
  <2>2. ASSUME NEW d \in Calls, M!Minting(d)'
        PROVE  access'[call'[d].who].founder = 0
    <3>1. call'[d] = call[d] /\ M!Minting(d)
      BY <1>4, <2>2
    <3>2. call[d].who \in Subjects
      BY <1>1, <3>1, StoreCall DEF M!Minting
    <3>3. QED
      BY <1>6, <3>1, <3>2 DEF MintingAlone
  <2>3. ASSUME NEW d \in Calls, call'[d].pc = "mint"
        PROVE  Numbering(call[d].next - 1)'
    <3>1. call'[d] = call[d]
      BY <1>4, <2>3 DEF M!Minting
    <3>2. PICK n : n = call[d].next - 1
      OBVIOUS
    <3>3. Numbering(n)'
      BY <1>5, <1>6, <2>3, <3>1, <3>2 DEF MintingAlone
    <3>4. n = call'[d].next - 1
      BY <3>1, <3>2
    <3>5. QED
      BY <3>3, <3>4
  <2>4. QED
    BY <2>1, <2>2, <2>3 DEF MintingAlone
<1>7. QED
  BY <1>2, <1>5, <1>6 DEF MembersInv

(* AssignFounder starts minting for a member it has read no number of.      *)
LEMMA TopMoves ==
    ASSUME MembersInv, NEW c \in Calls, NEW new, Moves(c, new),
           new.pc = "top", new.who = call[c].who, new.who \in Subjects,
           access' = access,
           raced' \in BOOLEAN, strayed' \in BOOLEAN, raced => raced', strayed => strayed',
           ~raced' => \A d \in Calls \ {c} : ~M!Minting(d),
           ~strayed' => access[call[c].who].founder = 0
    PROVE  MembersInv'
<1>1. MembersTyped
  BY DEF MembersInv
<1>2. MembersTyped'
  BY <1>1 DEF MembersTyped, Moves
<1>3. call'[c] = new /\ \A d \in Calls \ {c} : call'[d] = call[d]
  BY <1>1 DEF MembersTyped, Moves
<1>4. \A n : Numbering(n) => Numbering(n)'
  BY DEF Numbering
<1>5. ASSUME ~raced', ~strayed' PROVE MintingAlone'
  <2>1. \A d \in Calls : M!Minting(d)' => d = c
    BY <1>3, <1>5 DEF M!Minting
  <2>2. QED
    BY <1>3, <1>5, <2>1 DEF MintingAlone, M!Minting
<1>6. QED
  BY <1>2, <1>4, <1>5 DEF MembersInv

LEMMA OwnStep ==
    ASSUME MembersInv, NEW c \in Calls, M!Own(c)
    PROVE  MembersInv'
<1> DEFINE s == call[c].who
           numbered == M!Numbered(s)
           others == \E d \in Calls \ {c} : M!Minting(d)
<1>0. MembersTyped /\ call[c].pc = "own" /\ access' = access
  BY DEF MembersInv, M!Own
<1>1. s \in Subjects /\ access[s].founder \in 0..Cap
  BY <1>0, StoreCall DEF MembersTyped, Records
<1>2. raced' = (raced \/ others)
  BY DEF M!Own
<1>3. raced' \in BOOLEAN /\ (raced => raced') /\ (~raced' => ~others)
  BY <1>0, <1>2 DEF MembersTyped
<1>4. access' \in [Subjects -> Records]
  BY <1>0 DEF MembersTyped
<1>5. strayed' \in BOOLEAN /\ (strayed => strayed')
  BY <1>0 DEF M!Own, MembersTyped
<1>6. CASE M!AfterFounder(c)
  <2>1. PICK new : Moves(c, new) /\ new.pc \notin {"top", "mint"}
    BY <1>0, <1>6, AfterFounderMoves
  <2>2. QED
    BY <1>0, <1>3, <1>4, <1>5, <2>1, PlainStep
<1>7. CASE M!To(c, "top") /\ (~numbered \/ strayed' = (strayed \/ numbered))
  <2>1. PICK new : new = [call[c] EXCEPT !.pc = "top"]
    OBVIOUS
  <2>2. new \in MemberCalls /\ new.pc = "top" /\ new.who = s
    BY <1>0, <2>1, StoreCall
  <2>3. Moves(c, new)
    BY <1>0, <1>7, <2>1, <2>2 DEF M!To, MembersTyped, Moves
  <2>4. ~strayed' => ~numbered
    BY <1>7
  <2>5. ~strayed' => access[s].founder = 0
    BY <1>1, <2>4, FrontAssumption DEF M!Numbered, M!MembershipAssumption
  <2>6. QED
    BY <1>0, <1>1, <1>3, <1>5, <2>2, <2>3, <2>5, TopMoves
<1>8. QED
  BY <1>6, <1>7 DEF M!Own

LEMMA TopStep ==
    ASSUME MembersInv, NEW c \in Calls, M!Top(c)
    PROVE  MembersInv'
<1>0. MembersTyped /\ call[c].pc = "top" /\ access' = access /\ raced' = raced /\ strayed' = strayed
  BY DEF MembersInv, M!Top
<1>1. CASE M!AfterFounder(c)
  <2>1. PICK new : Moves(c, new) /\ new.pc \notin {"top", "mint"}
    BY <1>0, <1>1, AfterFounderMoves
  <2>2. QED
    BY <1>0, <2>1, PlainStep DEF MembersTyped
<1>2. CASE ~M!AfterFounder(c)
  <2>1. M!Highest \in 0..Cap /\ M!Highest < Cap /\ Cap \in Nat
    BY <1>0, <1>2, HighestNumber, FrontAssumption DEF M!Top, M!Open, M!MembershipAssumption
  <2>2. PICK next \in 1..Cap : next = M!Highest + 1
    BY <2>1
  <2>3. PICK new : new = [pc |-> "mint", op |-> call[c].op, by |-> call[c].by, who |-> call[c].who,
                          tier |-> call[c].tier, next |-> next]
    OBVIOUS
  <2>4. new \in MemberCalls /\ new.pc = "mint" /\ new.next = next /\ new.who = call[c].who
    BY <1>0, <2>3, StoreCall DEF MemberCalls
  <2>5. call' = [call EXCEPT ![c] = new]
    BY <1>0, <1>2, <2>2, <2>3 DEF M!Top, MembersTyped
  <2>6. MembersTyped'
    BY <1>0, <2>4, <2>5 DEF MembersTyped
  <2>7. call'[c] = new /\ \A d \in Calls \ {c} : call'[d] = call[d]
    BY <1>0, <2>5 DEF MembersTyped
  <2>8. \A n : Numbering(n) => Numbering(n)'
    BY <1>0 DEF Numbering
  <2>9. ASSUME ~raced, ~strayed, NEW n \in 0..Cap, Numbering(n) PROVE MintingAlone'
    <3>1. MintingAlone /\ next - 1 = n
      BY <1>0, <2>1, <2>2, <2>9, HighestNumber DEF MembersInv
    <3>2. \A d \in Calls : M!Minting(d)' => d = c
      BY <1>0, <2>7, <3>1 DEF MintingAlone, M!Minting
    <3>3. access[call[c].who].founder = 0
      BY <1>0, <3>1 DEF MintingAlone, M!Minting
    <3>4. Numbering(new.next - 1)'
      BY <2>4, <2>8, <2>9, <3>1
    <3>5. QED
      BY <1>0, <2>4, <2>7, <3>2, <3>3, <3>4 DEF MintingAlone, M!Minting
  <2>10. QED
    BY <1>0, <2>6, <2>8, <2>9 DEF MembersInv
<1>3. QED
  BY <1>1, <1>2

LEMMA MintStep ==
    ASSUME MembersInv, NEW c \in Calls, M!Mint(c), access' \in [Subjects -> Records]
    PROVE  MembersInv'
<1>0. MembersTyped /\ call[c].pc = "mint" /\ raced' = raced /\ strayed' = strayed
  BY DEF MembersInv, M!Mint
<1>1. PICK s \in Subjects, n \in 1..Cap : s = call[c].who /\ n = call[c].next
  BY <1>0, StoreCall
<1>2. access' = [access EXCEPT ![s].founder = n]
  BY <1>1 DEF M!Mint
<1>3. \A t \in Subjects : access'[t].founder = IF t = s THEN n ELSE access[t].founder
  BY <1>0, <1>2 DEF MembersTyped, Records
<1>4. PICK new : Moves(c, new) /\ new.pc \notin {"top", "mint"}
  BY <1>0, AfterFounderMoves DEF M!Mint
<1>5. MembersTyped'
  BY <1>0, <1>4 DEF MembersTyped, Moves
<1>6. call'[c] = new /\ \A d \in Calls \ {c} : call'[d] = call[d]
  BY <1>0, <1>4 DEF MembersTyped, Moves
<1>7. Cap \in Nat /\ n \in 0..Cap /\ n - 1 \in Nat /\ \A t \in Subjects : access[t].founder \in 0..Cap
  BY <1>0, <1>1, FrontAssumption DEF M!MembershipAssumption, MembersTyped, Records
<1>8. ASSUME ~raced, ~strayed PROVE Numbering(n)' /\ MintingAlone'
  <2>1. MintingAlone /\ access[s].founder = 0 /\ Numbering(n - 1)
    BY <1>0, <1>1, <1>8 DEF MembersInv, MintingAlone, M!Minting
  <2>2. \A t \in Subjects : access[t].founder <= n - 1
    BY <2>1 DEF Numbering
  <2>3. \A t \in Subjects : access'[t].founder <= n
    BY <1>3, <1>7, <2>2
  <2>4. ASSUME NEW k \in 1..n PROVE \E t \in Subjects : access'[t].founder = k
    <3>1. CASE k = n
      BY <1>3, <3>1
    <3>2. CASE k # n
      <4>1. k \in 1..(n - 1)
        BY <1>7, <3>2
      <4>2. PICK t \in Subjects : access[t].founder = k
        BY <2>1, <4>1 DEF Numbering
      <4>3. t # s
        BY <2>1, <4>1, <4>2
      <4>4. QED
        BY <1>3, <4>2, <4>3
    <3>3. QED
      BY <3>1, <3>2
  <2>5. ASSUME NEW t \in Subjects, NEW u \in Subjects,
               access'[t].founder = access'[u].founder, access'[t].founder > 0
        PROVE  t = u
    <3>1. \A v \in Subjects : v # s => access'[v].founder # n
      BY <1>3, <1>7, <2>2
    <3>2. CASE t # s /\ u # s
      BY <1>3, <2>1, <2>5, <3>2 DEF Numbering
    <3>3. QED
      BY <1>3, <2>5, <3>1, <3>2
  <2>6. Numbering(n)'
    BY <1>7, <2>3, <2>4, <2>5 DEF Numbering
  <2>7. \A d \in Calls : ~M!Minting(d)'
    BY <1>0, <1>4, <1>6, <2>1 DEF MintingAlone, M!Minting
  <2>8. MintingAlone'
    BY <2>7 DEF MintingAlone, M!Minting
  <2>9. QED
    BY <2>6, <2>8
<1>9. QED
  BY <1>0, <1>5, <1>7, <1>8 DEF MembersInv

LEMMA MembersStep == MembersInv /\ M!Next => MembersInv'
<1> SUFFICES ASSUME MembersInv, M!Next PROVE MembersInv'
  OBVIOUS
<1>0. MembersTyped /\ access' \in [Subjects -> Records]
  BY RecordsAfter DEF MembersInv
<1>1. CASE M!Restart
  <2>1. call' = [c \in Calls |-> M!Idle] /\ UNCHANGED <<access, raced, strayed>>
    BY <1>1 DEF M!Restart
  <2>2. \A c \in Calls : call'[c].pc = "idle"
    BY <2>1 DEF M!Idle
  <2>3. MembersTyped' /\ \A n : Numbering(n) => Numbering(n)'
    BY <1>0, <2>1 DEF MembersTyped, Numbering
  <2>4. MintingAlone'
    BY <2>2 DEF MintingAlone, M!Minting
  <2>5. QED
    BY <2>1, <2>3, <2>4 DEF MembersInv
<1>2. ASSUME NEW c \in Calls,
             \/ M!Arrive(c) \/ M!Gate(c) \/ M!Status(c) \/ M!Write(c) \/ M!Plan(c)
             \/ M!Free(c) \/ M!Allow(c) \/ M!Count(c) \/ M!Decide(c) \/ M!Fail(c)
      PROVE  MembersInv'
  <2>1. PICK new : Moves(c, new) /\ new.pc \notin {"top", "mint"}
    BY <1>0, <1>2, PlainMoves
  <2>2. raced' = raced /\ strayed' = strayed
    BY <1>2 DEF M!Arrive, M!Gate, M!Status, M!Write, M!Plan, M!Free, M!Allow, M!Count, M!Decide, M!Fail
  <2>3. \A s \in Subjects : access'[s].founder = access[s].founder
    <3>1. CASE M!Write(c) \/ M!Plan(c)
      BY <1>0, <3>1, RecordsAfter
    <3>2. CASE ~(M!Write(c) \/ M!Plan(c))
      <4>1. access' = access
        BY <1>2, <3>2 DEF M!Arrive, M!Gate, M!Status, M!Free, M!Allow, M!Count, M!Decide, M!Fail
      <4>2. QED
        BY <4>1
    <3>3. QED
      BY <3>1, <3>2
  <2>4. QED
    BY <1>0, <2>1, <2>2, <2>3, PlainStep DEF MembersTyped
<1>3. ASSUME NEW c \in Calls, M!Own(c) \/ M!Top(c) \/ M!Mint(c)
      PROVE  MembersInv'
  BY <1>0, <1>3, OwnStep, TopStep, MintStep
<1>4. QED
  BY <1>1, <1>2, <1>3 DEF M!Next, M!Handle

LEMMA SameCardinalityOfMembers == ASSUME NEW A PROVE M!Cardinality(A) = Cardinality(A)
  BY DEF M!Cardinality, Cardinality

LEMMA MembersSound == MembersInv => M!FoundersAreSound
<1> SUFFICES ASSUME MembersInv PROVE M!FoundersAreSound
  OBVIOUS
<1>1. Cap \in Nat /\ \A s \in Subjects : access[s].founder \in 0..Cap
  BY FrontAssumption DEF M!MembershipAssumption, MembersInv, MembersTyped, Records
<1>2. ASSUME ~raced, ~strayed
      PROVE  {access[s].founder : s \in M!Founders} = 1..Cardinality(M!Founders)
  <2>1. PICK n \in 0..Cap : Numbering(n)
    BY <1>2 DEF MembersInv
  <2>2. {access[s].founder : s \in M!Founders} = 1..n
    <3>1. \A s \in M!Founders : access[s].founder \in 1..n
      BY <1>1, <2>1 DEF Numbering, M!Founders
    <3>2. \A k \in 1..n : \E s \in M!Founders : access[s].founder = k
      BY <1>1, <2>1 DEF Numbering, M!Founders
    <3>3. QED
      BY <3>1, <3>2
  <2>3. Cardinality(M!Founders) = n
    <3> DEFINE number == [s \in M!Founders |-> access[s].founder]
    <3>1. number \in Bijection(M!Founders, 1..n)
      <4>1. \A s \in M!Founders : access[s].founder \in 1..n
        BY <2>2
      <4>2. \A k \in 1..n : \E s \in M!Founders : access[s].founder = k
        BY <2>2
      <4>3. \A s, t \in M!Founders : access[s].founder = access[t].founder => s = t
        BY <1>1, <2>1 DEF Numbering, M!Founders
      <4>4. number \in Injection(M!Founders, 1..n)
        BY <4>1, <4>3 DEF Injection, IsInjective
      <4>5. number \in Surjection(M!Founders, 1..n)
        BY <4>1, <4>2 DEF Surjection
      <4>6. QED
        BY <4>4, <4>5 DEF Bijection
    <3>2. QED
      <4>1. ExistsBijection(1..n, M!Founders)
        <5>1. ExistsBijection(M!Founders, 1..n)
          BY <3>1 DEF ExistsBijection
        <5>2. QED
          BY <5>1, Fun_ExistsBijSymmetric
      <4>2. n \in Nat
        BY <1>1
      <4>3. QED
        BY <4>1, <4>2, FS_CountingElements
  <2>4. QED
    BY <2>2, <2>3
<1>3. QED
  BY <1>1, <1>2, SameCardinalityOfMembers DEF M!FoundersAreSound

-----------------------------------------------------------------------------
(* The chat. What is said of an order in a message, or by a handler that is *)
(* about to edit one, is backed by the document: an executed one has its    *)
(* order, a cancelled one is out of reach of every handler.                 *)

Buttons ==
    [do: {"confirm", "cancel"}, id: C!Ids, symbol: {""}]
    \cup [do: {"be", "trail05", "close50", "close100"}, id: {0}, symbol: Symbols]
Messages == [says: {"positions", "review", "confirmed", "cancelled"}, id: 0..MaxPrepared,
             buttons: SUBSET Buttons, offered: SUBSET Buttons]
Someone == Users \cup {CHOOSE u \in Users : TRUE}
Intents == {C!Invalid} \cup {C!Parse(text) : text \in Texts} \cup {C!ButtonIntent(b) : b \in {c \in Buttons : c.id = 0}}
ChatDocs == [status: C!ConfirmationStatus, ttl: Nat, user: Someone]
ChatJobs == [pc: {"free", "prepare", "confirm", "cancel", "send", "complete", "fail", "show"},
             user: Someone, at: 0..MaxMessages, intent: Intents, id: 0..MaxPrepared,
             says: {"", "review", "confirmed", "cancelled"}]

ChatTyped ==
    /\ chat \in Seq(Messages) /\ Len(chat) <= MaxMessages
    /\ doc \in [C!Ids -> ChatDocs] /\ intent \in [C!Ids -> Intents]
    /\ orders \subseteq C!Ids
    /\ job \in [Calls -> ChatJobs]

(* Prepared for somebody on the allowlist, and shown to them.               *)
Reviewable(i) ==
    i \in C!Ids /\ doc[i].status # "absent" /\ doc[i].user \in Allowed /\ C!ChangesExchange(intent[i])
ConfirmShown(i) == \E m \in 1..Len(chat) : \E b \in chat[m].offered : b.do = "confirm" /\ b.id = i

Unsent(i) == i \notin orders /\ \A h \in Calls : job[h].pc = "send" => job[h].id # i
NeverSent(i) == i \in C!Ids /\ Unsent(i) /\ doc[i].status \in {"cancelled", "purged"}

Said(says, i) ==
    /\ says = "confirmed" => i \in orders
    /\ says = "cancelled" => NeverSent(i)
    /\ says = "review" => Reviewable(i)

MessageTrue(m) ==
    /\ Said(m.says, m.id)
    /\ \A b \in m.buttons : b.id # 0 => m.says = "review" /\ b.id = m.id
    /\ \A b \in m.offered : b.do = "confirm" => Reviewable(b.id)

JobTrue(j) ==
    /\ j.at <= Len(chat)
    /\ j.pc # "free" => j.user \in Allowed
    /\ j.pc = "prepare" => C!ChangesExchange(j.intent)
    /\ j.pc \in {"confirm", "cancel", "send", "complete", "fail"} => j.id \in C!Ids
    /\ j.pc \in {"confirm", "send", "complete", "fail"} => Reviewable(j.id) /\ ConfirmShown(j.id)
    /\ j.pc = "complete" => j.id \in orders
    /\ j.pc = "show" => j.says # "" /\ Said(j.says, j.id)

DocTrue(i) ==
    /\ doc[i].status \in {"absent", "pending"} => Unsent(i)
    /\ doc[i].status = "executed" => i \in orders

ChatInv ==
    /\ ChatTyped
    /\ \A m \in 1..Len(chat) : MessageTrue(chat[m])
    /\ \A h \in Calls : JobTrue(job[h])
    /\ \A i \in C!Ids : DocTrue(i)
    /\ \A i \in orders : Reviewable(i) /\ ConfirmShown(i)

LEMMA ChatBounds ==
    /\ MaxMessages \in Nat /\ MaxPrepared \in Nat /\ Allowed \subseteq Users
    /\ C!Ids = 1..MaxPrepared
    /\ 0 \notin C!Ids /\ \A i \in C!Ids : i \in 0..MaxPrepared
    /\ 0 \in 0..MaxPrepared /\ 0 \in 0..MaxMessages
<1>1. MaxMessages \in Nat /\ MaxPrepared \in Nat /\ Allowed \subseteq Users /\ C!Ids = 1..MaxPrepared
  BY FrontAssumption DEF C!ChatAssumption, C!Ids
<1>2. QED
  BY <1>1

LEMMA ChatInit == C!Init => ChatInv
<1> SUFFICES ASSUME C!Init PROVE ChatInv
  OBVIOUS
<1>1. chat = <<>> /\ orders = {}
  BY DEF C!Init
<1>2. C!Free \in ChatJobs /\ C!Free.pc = "free" /\ C!Free.at = 0
  BY ChatBounds DEF C!Free, ChatJobs, Someone, Intents
<1>3. \A h \in Calls : job[h] = C!Free
  BY DEF C!Init
<1>4. doc \in [C!Ids -> ChatDocs] /\ \A i \in C!Ids : doc[i].status = "absent"
  <2>1. PICK d : d = [C!PendingDoc(CHOOSE u \in Users : TRUE, 0) EXCEPT !.status = "absent"]
    OBVIOUS
  <2>2. C!PendingDoc(CHOOSE u \in Users : TRUE, 0) \in ChatDocs
    BY DEF C!PendingDoc, ChatDocs, Someone, C!ConfirmationStatus
  <2>3. d \in ChatDocs /\ d.status = "absent"
    BY <2>1, <2>2 DEF ChatDocs, C!ConfirmationStatus
  <2>4. doc = [i \in C!Ids |-> d]
    BY <2>1 DEF C!Init
  <2>5. QED
    BY <2>3, <2>4
<1>5. ChatTyped
  <2>1. intent \in [C!Ids -> Intents]
    BY DEF C!Init, Intents
  <2>2. job \in [Calls -> ChatJobs]
    BY <1>2 DEF C!Init
  <2>3. QED
    BY <1>1, <1>4, <2>1, <2>2, ChatBounds DEF ChatTyped
<1>6. ASSUME NEW h \in Calls PROVE JobTrue(job[h])
  <2>1. job[h].pc = "free" /\ job[h].at = 0 /\ Len(chat) = 0
    BY <1>1, <1>2, <1>3
  <2>2. QED
    BY <2>1 DEF JobTrue
<1>7. \A i \in C!Ids : DocTrue(i)
  BY <1>1, <1>2, <1>3, <1>4 DEF DocTrue, Unsent
<1>8. QED
  BY <1>1, <1>5, <1>6, <1>7 DEF ChatInv

(* What a step takes from nobody: orders, messages and documents only move  *)
(* on, and what was true of an order stays true.                            *)
Onward ==
    /\ orders \subseteq orders'
    /\ Len(chat) <= Len(chat')
    /\ \A i \in C!Ids :
          /\ Reviewable(i) => Reviewable(i)'
          /\ NeverSent(i) => NeverSent(i)'
          /\ ConfirmShown(i) => ConfirmShown(i)'

LEMMA StaysSaid ==
    ASSUME Onward, NEW says, NEW i, Said(says, i)
    PROVE  Said(says, i)'
  BY DEF Onward, Said, NeverSent, Reviewable

LEMMA StaysTrueOfMessage ==
    ASSUME Onward, NEW m, MessageTrue(m)
    PROVE  MessageTrue(m)'
<1>1. Said(m.says, m.id)'
  BY StaysSaid DEF MessageTrue
<1>2. \A i : Reviewable(i) => Reviewable(i)'
  BY DEF Onward, Reviewable
<1>3. QED
  BY <1>1, <1>2 DEF MessageTrue

LEMMA StaysTrueOfJob ==
    ASSUME Onward, ChatTyped, ChatTyped', NEW j \in ChatJobs, JobTrue(j)
    PROVE  JobTrue(j)'
<1>1. j.at <= Len(chat')
  <2>1. chat \in Seq(Messages) /\ chat' \in Seq(Messages)
    BY DEF ChatTyped
  <2>2. Len(chat) \in Nat /\ Len(chat') \in Nat
    BY <2>1
  <2>3. j.at \in Nat
    <3>1. j.at \in 0..MaxMessages
      BY DEF ChatJobs
    <3>2. QED
      BY <3>1, ChatBounds
  <2>4. j.at <= Len(chat) /\ Len(chat) <= Len(chat')
    BY DEF Onward, JobTrue
  <2>5. QED
    BY <2>2, <2>3, <2>4
<1>2. j.pc = "show" => Said(j.says, j.id)'
  BY StaysSaid DEF JobTrue
<1>3. j.pc \in {"confirm", "send", "complete", "fail"} => Reviewable(j.id)' /\ ConfirmShown(j.id)'
  BY DEF Onward, JobTrue
<1>4. j.pc = "complete" => j.id \in orders'
  BY DEF Onward, JobTrue
<1>5. QED
  BY <1>1, <1>2, <1>3, <1>4 DEF JobTrue

(* The invariant after a step of handler h, from what is new in it.         *)
LEMMA ChatStep ==
    ASSUME ChatInv, ChatTyped', Onward,
           NEW h \in Calls, NEW new \in ChatJobs, job' = [job EXCEPT ![h] = new], JobTrue(new)',
           \A m \in 1..Len(chat') : MessageTrue(chat[m])',
           \A i \in C!Ids : DocTrue(i)',
           \A i \in orders' \ orders : Reviewable(i)' /\ ConfirmShown(i)'
    PROVE  ChatInv'
<1>1. ChatTyped
  BY DEF ChatInv
<1>2. ASSUME NEW g \in Calls PROVE JobTrue(job[g])'
  <2>1. CASE g = h
    BY <1>1, <2>1 DEF ChatTyped
  <2>2. CASE g # h
    <3>1. job'[g] = job[g] /\ job[g] \in ChatJobs /\ JobTrue(job[g])
      BY <1>1, <2>2 DEF ChatInv, ChatTyped
    <3>2. PICK j \in ChatJobs : j = job[g]
      BY <3>1
    <3>3. JobTrue(j)'
      BY <1>1, <3>1, <3>2, StaysTrueOfJob
    <3>4. QED
      BY <3>1, <3>2, <3>3
  <2>3. QED
    BY <2>1, <2>2
<1>3. \A i \in orders' : Reviewable(i)' /\ ConfirmShown(i)'
  BY <1>1 DEF ChatInv, Onward, ChatTyped
<1>4. QED
  BY <1>2, <1>3 DEF ChatInv

(* What a step makes of the documents.                                      *)
DocsOnward ==
    /\ orders \subseteq orders'
    /\ \A i \in C!Ids :
          /\ doc[i].status # "absent" =>
                doc'[i].status # "absent" /\ doc'[i].user = doc[i].user /\ intent'[i] = intent[i]
          /\ doc'[i].status \in {"absent", "pending"} => doc[i].status \in {"absent", "pending"}
          /\ doc[i].status \in {"cancelled", "purged"} => doc'[i].status \in {"cancelled", "purged"}
          /\ doc'[i].status = "executed" => doc[i].status = "executed" \/ i \in orders'
          /\ Unsent(i) /\ (\/ doc'[i].status \in {"absent", "pending"}
                           \/ doc[i].status \in {"cancelled", "purged"}) => Unsent(i)'

LEMMA OnwardDocs ==
    ASSUME ChatInv, DocsOnward, Len(chat) <= Len(chat'),
           \A i \in C!Ids : ConfirmShown(i) => ConfirmShown(i)'
    PROVE  Onward /\ \A i \in C!Ids : DocTrue(i)'
<1>1. \A i \in C!Ids : Reviewable(i) => Reviewable(i)'
  BY DEF DocsOnward, Reviewable
<1>2. \A i \in C!Ids : NeverSent(i) => NeverSent(i)'
  BY DEF DocsOnward, NeverSent
<1>3. \A i \in C!Ids : DocTrue(i)'
  BY DEF ChatInv, DocsOnward, DocTrue
<1>4. QED
  BY <1>1, <1>2, <1>3 DEF Onward, DocsOnward

LEMMA UnsentStays ==
    ASSUME ChatTyped, NEW h \in Calls, NEW new, job' = [job EXCEPT ![h] = new],
           new.pc # "send", orders' = orders, NEW i, Unsent(i)
    PROVE  Unsent(i)'
  BY DEF ChatTyped, Unsent

LEMMA SameDocs ==
    ASSUME ChatInv, NEW h \in Calls, NEW new, job' = [job EXCEPT ![h] = new],
           new.pc # "send", UNCHANGED <<doc, intent, orders>>
    PROVE  DocsOnward
<1>1. ChatTyped
  BY DEF ChatInv
<1>2. \A i \in C!Ids : Unsent(i) => Unsent(i)'
  BY <1>1, UnsentStays
<1>3. QED
  BY <1>2 DEF DocsOnward

LEMMA SameChat ==
    ASSUME ChatInv, Onward, chat' = chat
    PROVE  \A m \in 1..Len(chat') : MessageTrue(chat[m])'
<1> SUFFICES ASSUME NEW m \in 1..Len(chat) PROVE MessageTrue(chat[m])'
  OBVIOUS
<1>1. PICK msg : msg = chat[m]
  OBVIOUS
<1>2. MessageTrue(msg)'
  BY <1>1, StaysTrueOfMessage DEF ChatInv
<1>3. QED
  BY <1>1, <1>2

(* A step that leaves the chat alone.                                       *)
LEMMA QuietChatStep ==
    ASSUME ChatInv, DocsOnward, chat' = chat,
           doc' \in [C!Ids -> ChatDocs], intent' \in [C!Ids -> Intents], orders' \subseteq C!Ids,
           NEW h \in Calls, NEW new \in ChatJobs, job' = [job EXCEPT ![h] = new],
           Onward => JobTrue(new)',
           \A i \in orders' \ orders : Reviewable(i) /\ ConfirmShown(i)
    PROVE  ChatInv'
<1>1. ChatTyped
  BY DEF ChatInv
<1>2. ChatTyped'
  BY <1>1 DEF ChatTyped
<1>3. \A i \in C!Ids : ConfirmShown(i) => ConfirmShown(i)'
  BY DEF ConfirmShown
<1>4. Len(chat) <= Len(chat')
  BY <1>1 DEF ChatTyped
<1>5. Onward /\ \A i \in C!Ids : DocTrue(i)'
  BY <1>3, <1>4, OnwardDocs
<1>6. \A m \in 1..Len(chat') : MessageTrue(chat[m])'
  BY <1>5, SameChat
<1>7. \A i \in orders' \ orders : Reviewable(i)' /\ ConfirmShown(i)'
  BY <1>5 DEF Onward
<1>8. QED
  BY <1>2, <1>5, <1>6, <1>7, ChatStep

LEMMA ChatDocUpdates ==
    ASSUME NEW d \in ChatDocs
    PROVE  /\ C!Taken(d) \in ChatDocs /\ C!Taken(d).status = "executing" /\ C!Taken(d).user = d.user
           /\ C!Cancelled(d) \in ChatDocs /\ C!Cancelled(d).status = "cancelled" /\ C!Cancelled(d).user = d.user
           /\ C!Purged(d) \in ChatDocs /\ C!Purged(d).status = "purged" /\ C!Purged(d).user = d.user
           /\ C!MarkedExpired(d) \in ChatDocs /\ C!MarkedExpired(d).user = d.user
           /\ C!MarkedExpired(d).status = IF d.status = "pending" THEN "expired" ELSE d.status
           /\ C!Older(d) \in ChatDocs /\ C!Older(d).status = d.status /\ C!Older(d).user = d.user
<1>1. C!Taken(d) \in ChatDocs /\ C!Taken(d).status = "executing" /\ C!Taken(d).user = d.user
  BY DEF C!Taken, ChatDocs, C!ConfirmationStatus
<1>2. C!Cancelled(d) \in ChatDocs /\ C!Cancelled(d).status = "cancelled" /\ C!Cancelled(d).user = d.user
  BY DEF C!Cancelled, ChatDocs, C!ConfirmationStatus
<1>3. C!Purged(d) \in ChatDocs /\ C!Purged(d).status = "purged" /\ C!Purged(d).user = d.user
  BY DEF C!Purged, ChatDocs, C!ConfirmationStatus
<1>4. /\ C!MarkedExpired(d) \in ChatDocs /\ C!MarkedExpired(d).user = d.user
      /\ C!MarkedExpired(d).status = IF d.status = "pending" THEN "expired" ELSE d.status
  BY DEF C!MarkedExpired, ChatDocs, C!ConfirmationStatus
<1>5. C!Older(d) \in ChatDocs /\ C!Older(d).status = d.status /\ C!Older(d).user = d.user
  BY DEF C!Older, ChatDocs
<1>6. QED
  BY <1>1, <1>2, <1>3, <1>4, <1>5

LEMMA SettledChatDoc ==
    ASSUME NEW d \in ChatDocs, NEW outcome \in {"executed", "failed"}
    PROVE  /\ C!Settled(d, outcome) \in ChatDocs
           /\ C!Settled(d, outcome).status = outcome /\ C!Settled(d, outcome).user = d.user
  BY FrontAssumption DEF C!Settled, ChatDocs, C!ConfirmationStatus

(* The moves of a handler.                                                  *)
LEMMA ChatJob ==
    ASSUME ChatTyped, NEW h \in Calls
    PROVE  /\ job[h] \in ChatJobs
           /\ C!Free \in ChatJobs /\ C!Free.pc = "free" /\ C!Free.at = 0
           /\ \A pc \in {"send", "complete", "fail"} :
                 LET new == [job[h] EXCEPT !.pc = pc] IN
                 new \in ChatJobs /\ new.pc = pc /\ new.user = job[h].user /\ new.at = job[h].at /\ new.id = job[h].id
           /\ \A says \in {"confirmed", "cancelled"} :
                 LET new == [job[h] EXCEPT !.pc = "show", !.says = says] IN
                 /\ new \in ChatJobs /\ new.pc = "show" /\ new.says = says
                 /\ new.user = job[h].user /\ new.at = job[h].at /\ new.id = job[h].id
<1>1. job[h] \in ChatJobs
  BY DEF ChatTyped
<1>2. C!Free \in ChatJobs /\ C!Free.pc = "free" /\ C!Free.at = 0
  BY ChatBounds DEF C!Free, ChatJobs, Someone, Intents
<1>3. ASSUME NEW pc \in {"send", "complete", "fail"}
      PROVE  LET new == [job[h] EXCEPT !.pc = pc] IN
             new \in ChatJobs /\ new.pc = pc /\ new.user = job[h].user /\ new.at = job[h].at /\ new.id = job[h].id
  BY <1>1 DEF ChatJobs
<1>4. ASSUME NEW says \in {"confirmed", "cancelled"}
      PROVE  LET new == [job[h] EXCEPT !.pc = "show", !.says = says] IN
             /\ new \in ChatJobs /\ new.pc = "show" /\ new.says = says
             /\ new.user = job[h].user /\ new.at = job[h].at /\ new.id = job[h].id
  BY <1>1 DEF ChatJobs
<1>5. QED
  BY <1>1, <1>2, <1>3, <1>4

LEMMA FreeIsTrue ==
    ASSUME ChatTyped, ChatTyped', NEW h \in Calls
    PROVE  JobTrue(C!Free) /\ JobTrue(C!Free)'
<1>1. C!Free.pc = "free" /\ C!Free.at = 0
  BY ChatJob
<1>2. Len(chat) \in Nat /\ Len(chat') \in Nat
  BY DEF ChatTyped
<1>3. QED
  BY <1>1, <1>2 DEF JobTrue

LEMMA TypeStep ==
    ASSUME ChatInv, NEW h \in Calls, NEW u \in Users, NEW text \in Texts, C!Type(h, u, text)
    PROVE  ChatInv'
<1> DEFINE asked == C!Parse(text)
<1>0. ChatTyped /\ u \in Allowed /\ job[h].pc = "free" /\ UNCHANGED <<doc, intent, orders>>
  BY DEF ChatInv, C!Type, C!IsAllowed
<1>1. CASE Len(chat) < MaxMessages /\ chat' = Append(chat, C!Message("positions", 0, C!PositionKeyboard)) /\ UNCHANGED job
  <2>1. PICK new \in ChatJobs : new = job[h] /\ JobTrue(new)
    BY <1>0 DEF ChatInv, ChatTyped
  <2>2. job' = [job EXCEPT ![h] = new] /\ new.pc # "send"
    BY <1>0, <1>1, <2>1 DEF ChatTyped
  <2>3. PICK msg : msg = C!Message("positions", 0, C!PositionKeyboard)
    OBVIOUS
  <2>4. \A b \in C!PositionKeyboard : b \in Buttons /\ b.id = 0 /\ b.do # "confirm"
    <3>1. ASSUME NEW do \in {"be", "trail05", "close50", "close100"}, NEW s \in Symbols
          PROVE  LET b == [do |-> do, id |-> 0, symbol |-> s] IN
                 b \in Buttons /\ b.id = 0 /\ b.do # "confirm"
      BY DEF Buttons
    <3>2. QED
      BY <3>1 DEF C!PositionKeyboard
  <2>5. /\ msg \in Messages /\ msg.says = "positions" /\ msg.id = 0
        /\ msg.buttons = C!PositionKeyboard /\ msg.offered = C!PositionKeyboard
    BY <2>3, <2>4, ChatBounds DEF C!Message, Messages
  <2>6. MessageTrue(msg)
    BY <2>4, <2>5 DEF MessageTrue, Said
  <2>7. /\ chat' \in Seq(Messages) /\ Len(chat') = Len(chat) + 1 /\ Len(chat') <= MaxMessages
        /\ Len(chat) \in Nat
        /\ \A m \in 1..Len(chat) : chat'[m] = chat[m]
        /\ chat'[Len(chat) + 1] = msg
    BY <1>0, <1>1, <2>3, <2>5, ChatBounds DEF ChatTyped
  <2>8. ChatTyped'
    BY <1>0, <1>1, <2>7 DEF ChatTyped
  <2>9. DocsOnward
    BY <1>0, <2>2, SameDocs
  <2>10. \A i \in C!Ids : ConfirmShown(i) => ConfirmShown(i)'
    BY <2>7 DEF ConfirmShown
  <2>11. Len(chat) <= Len(chat')
    BY <2>7
  <2>12. Onward /\ \A i \in C!Ids : DocTrue(i)'
    BY <2>9, <2>10, <2>11, OnwardDocs
  <2>13. JobTrue(new)'
    BY <1>0, <2>1, <2>8, <2>12, StaysTrueOfJob
  <2>14. ASSUME NEW m \in 1..Len(chat') PROVE MessageTrue(chat[m])'
    <3>1. PICK old : old = chat'[m]
      OBVIOUS
    <3>2. old = msg \/ (m \in 1..Len(chat) /\ old = chat[m])
      BY <2>7, <3>1
    <3>3. MessageTrue(old)
      BY <2>6, <3>2 DEF ChatInv
    <3>4. MessageTrue(old)'
      BY <2>12, <3>3, StaysTrueOfMessage
    <3>5. QED
      BY <3>1, <3>4
  <2>15. QED
    BY <1>0, <2>2, <2>8, <2>12, <2>13, <2>14, ChatStep
<1>2. CASE C!ChangesExchange(asked) /\ UNCHANGED chat
           /\ job' = [job EXCEPT ![h] = [C!Free EXCEPT !.pc = "prepare", !.user = u, !.intent = asked]]
  <2>1. PICK it \in Intents : it = asked
    BY DEF Intents
  <2>2. PICK new : new = [C!Free EXCEPT !.pc = "prepare", !.user = u, !.intent = it]
    OBVIOUS
  <2>3. /\ new \in ChatJobs /\ new.pc = "prepare" /\ new.at = 0 /\ new.user = u /\ new.intent = it
    <3>1. C!Free \in ChatJobs /\ C!Free.at = 0 /\ u \in Someone
      BY <1>0, ChatJob DEF Someone
    <3>2. QED
      BY <2>2, <3>1 DEF ChatJobs
  <2>4. job' = [job EXCEPT ![h] = new]
    BY <1>2, <2>1, <2>2
  <2>5. DocsOnward
    BY <1>0, <2>3, <2>4, SameDocs
  <2>6. Len(chat') \in Nat
    BY <1>0, <1>2 DEF ChatTyped
  <2>7. JobTrue(new)'
    BY <1>0, <1>2, <2>1, <2>3, <2>6 DEF JobTrue, C!ChangesExchange
  <2>8. QED
    BY <1>0, <1>2, <2>3, <2>4, <2>5, <2>7, QuietChatStep DEF ChatTyped
<1>3. QED
  BY <1>1, <1>2 DEF C!Type

LEMMA TapStep ==
    ASSUME ChatInv, NEW h \in Calls, NEW u \in Users, NEW m \in 1..Len(chat), NEW b \in chat[m].offered,
           C!Tap(h, u, m, b)
    PROVE  ChatInv'
<1>0. ChatTyped /\ u \in Allowed /\ UNCHANGED <<chat, doc, intent, orders>>
  BY DEF ChatInv, C!Tap, C!IsAllowed
<1>1. /\ b \in Buttons /\ Len(chat) \in Nat /\ m <= Len(chat) /\ m \in 0..MaxMessages
  <2>1. chat[m] \in Messages /\ Len(chat) \in Nat /\ Len(chat) <= MaxMessages
    BY <1>0 DEF ChatTyped
  <2>2. b \in Buttons
    BY <2>1 DEF Messages
  <2>3. QED
    BY <2>1, <2>2, ChatBounds
<1>2. PICK pc, it : /\ pc = IF b.id = 0 THEN "prepare" ELSE b.do
                    /\ it = IF b.id = 0 THEN C!ButtonIntent(b) ELSE C!Invalid
  OBVIOUS
<1>3. CASE b.id = 0
  <2>1. b.do \in {"be", "trail05", "close50", "close100"}
    <3>1. b.id \notin C!Ids
      BY <1>3, ChatBounds
    <3>2. QED
      BY <1>1, <3>1 DEF Buttons
  <2>2. it \in Intents /\ pc = "prepare"
    BY <1>1, <1>2, <1>3 DEF Intents
  <2>3. it = C!ButtonIntent(b)
    BY <1>2, <1>3
  <2>4. C!ChangesExchange(it)
    BY <2>1, <2>3 DEF C!ButtonIntent, C!ChangesExchange, C!Breakeven, C!Trail, C!Close
  <2>5. QED
    <3>1. PICK new : new = [C!Free EXCEPT !.user = u, !.at = m, !.id = b.id, !.pc = pc, !.intent = it]
      OBVIOUS
    <3>2. /\ new \in ChatJobs /\ new.pc = "prepare" /\ new.at = m /\ new.user = u /\ new.intent = it
      <4>1. C!Free \in ChatJobs /\ u \in Someone /\ b.id \in 0..MaxPrepared
        <5>1. C!Free \in ChatJobs /\ u \in Someone
          BY <1>0, ChatJob DEF Someone
        <5>2. QED
          BY <1>3, <5>1, ChatBounds
      <4>2. QED
        BY <1>1, <2>2, <3>1, <4>1 DEF ChatJobs
    <3>3. job' = [job EXCEPT ![h] = new]
      BY <1>2, <3>1 DEF C!Tap
    <3>4. DocsOnward
      BY <1>0, <3>2, <3>3, SameDocs
    <3>5. JobTrue(new)'
      BY <1>0, <1>1, <2>4, <3>2 DEF JobTrue, C!ChangesExchange
    <3>6. QED
      BY <1>0, <3>2, <3>3, <3>4, <3>5, QuietChatStep DEF ChatTyped
<1>4. CASE b.id # 0
  <2>1. b.do \in {"confirm", "cancel"} /\ b.id \in C!Ids
    BY <1>1, <1>4 DEF Buttons
  <2>2. it \in Intents /\ pc = b.do
    BY <1>2, <1>4 DEF Intents
  <2>3. pc = "confirm" => Reviewable(b.id) /\ ConfirmShown(b.id)
    BY <2>2 DEF ChatInv, MessageTrue, ConfirmShown
  <2>4. PICK new : new = [C!Free EXCEPT !.user = u, !.at = m, !.id = b.id, !.pc = pc, !.intent = it]
    OBVIOUS
  <2>5. /\ new \in ChatJobs /\ new.pc = pc /\ new.at = m /\ new.user = u /\ new.id = b.id
    <3>1. C!Free \in ChatJobs /\ u \in Someone /\ b.id \in 0..MaxPrepared
      <4>1. C!Free \in ChatJobs /\ u \in Someone
        BY <1>0, ChatJob DEF Someone
      <4>2. QED
        BY <2>1, <4>1, ChatBounds
    <3>2. QED
      BY <1>1, <2>1, <2>2, <2>4, <3>1 DEF ChatJobs
  <2>6. job' = [job EXCEPT ![h] = new]
    BY <1>2, <2>4 DEF C!Tap
  <2>7. DocsOnward
    BY <1>0, <2>1, <2>2, <2>5, <2>6, SameDocs
  <2>8. JobTrue(new)
    BY <1>0, <1>1, <2>1, <2>2, <2>3, <2>5 DEF JobTrue
  <2>9. ChatTyped'
    BY <1>0, <2>5, <2>6 DEF ChatTyped
  <2>10. Onward => JobTrue(new)'
    BY <1>0, <2>5, <2>8, <2>9, StaysTrueOfJob
  <2>11. QED
    BY <1>0, <2>5, <2>6, <2>7, <2>10, QuietChatStep DEF ChatTyped
<1>5. QED
  BY <1>3, <1>4

(* A handler edits the message of its tap.                                  *)
LEMMA EditMoves ==
    ASSUME ChatTyped, NEW h \in Calls, NEW says \in {"confirmed", "cancelled"}, C!Edit(h, says)
    PROVE  \E new \in ChatJobs :
              /\ job' = [job EXCEPT ![h] = new]
              /\ new.pc = "show" /\ new.says = says
              /\ new.user = job[h].user /\ new.at = job[h].at /\ new.id = job[h].id
<1>1. PICK new : new = [job[h] EXCEPT !.pc = "show", !.says = says]
  OBVIOUS
<1>2. /\ new \in ChatJobs /\ new.pc = "show" /\ new.says = says
      /\ new.user = job[h].user /\ new.at = job[h].at /\ new.id = job[h].id
  BY <1>1, ChatJob
<1>3. job' = [job EXCEPT ![h] = new]
  BY <1>1 DEF C!Edit, ChatTyped
<1>4. QED
  BY <1>2, <1>3

LEMMA GotoMoves ==
    ASSUME ChatTyped, NEW h \in Calls, NEW pc \in {"send", "complete", "fail"}, C!Goto(h, pc)
    PROVE  \E new \in ChatJobs :
              /\ job' = [job EXCEPT ![h] = new]
              /\ new.pc = pc
              /\ new.user = job[h].user /\ new.at = job[h].at /\ new.id = job[h].id
<1>1. PICK new : new = [job[h] EXCEPT !.pc = pc]
  OBVIOUS
<1>2. /\ new \in ChatJobs /\ new.pc = pc
      /\ new.user = job[h].user /\ new.at = job[h].at /\ new.id = job[h].id
  BY <1>1, ChatJob
<1>3. job' = [job EXCEPT ![h] = new]
  BY <1>1 DEF C!Goto, ChatTyped
<1>4. QED
  BY <1>2, <1>3

(* A job that goes on keeps its place and its user.                         *)
LEMMA GoesOn ==
    ASSUME ChatInv, NEW h \in Calls, job[h].pc # "free", chat' = chat,
           NEW new \in ChatJobs, new.user = job[h].user, new.at = job[h].at
    PROVE  new.at <= Len(chat') /\ new.user \in Allowed
  BY DEF ChatInv, JobTrue

LEMMA PrepareStep ==
    ASSUME ChatInv, NEW h \in Calls, C!Prepare(h)
    PROVE  ChatInv'
<1>0. ChatTyped /\ UNCHANGED <<chat, orders>> /\ job[h].pc = "prepare"
  BY DEF ChatInv, C!Prepare
<1>1. CASE C!Leave(h) /\ UNCHANGED <<doc, intent>>
  <2>1. job' = [job EXCEPT ![h] = C!Free] /\ C!Free.pc # "send" /\ C!Free \in ChatJobs
    BY <1>0, <1>1, ChatJob DEF C!Leave
  <2>2. DocsOnward
    BY <1>0, <1>1, <2>1, SameDocs
  <2>3. ChatTyped'
    BY <1>0, <1>1, <2>1 DEF ChatTyped
  <2>4. JobTrue(C!Free)'
    BY <1>0, <2>3, FreeIsTrue
  <2>5. QED
    BY <1>0, <1>1, <2>1, <2>2, <2>4, QuietChatStep DEF ChatTyped
<1>2. CASE \E i \in C!Ids :
             /\ doc[i].status = "absent" /\ \A j \in 1..(i - 1) : doc[j].status # "absent"
             /\ doc' = [doc EXCEPT ![i] = C!PendingDoc(job[h].user, TTL)]
             /\ intent' = [intent EXCEPT ![i] = job[h].intent]
             /\ job' = [job EXCEPT ![h].pc = "show", ![h].says = "review", ![h].id = i]
  <2>1. PICK i \in C!Ids :
             /\ doc[i].status = "absent"
             /\ doc' = [doc EXCEPT ![i] = C!PendingDoc(job[h].user, TTL)]
             /\ intent' = [intent EXCEPT ![i] = job[h].intent]
             /\ job' = [job EXCEPT ![h].pc = "show", ![h].says = "review", ![h].id = i]
    BY <1>2
  <2>2. job[h] \in ChatJobs /\ job[h].user \in Someone /\ job[h].intent \in Intents
    BY <1>0 DEF ChatTyped, ChatJobs
  <2>3. job[h].user \in Allowed /\ C!ChangesExchange(job[h].intent)
    BY <1>0 DEF ChatInv, JobTrue
  <2>4. PICK user \in Someone, it \in Intents : user = job[h].user /\ it = job[h].intent
    BY <2>2
  <2>5. PICK d : d = C!PendingDoc(user, TTL)
    OBVIOUS
  <2>6. d \in ChatDocs /\ d.status = "pending" /\ d.user = user
    BY <2>5, FrontAssumption DEF C!PendingDoc, ChatDocs, C!ConfirmationStatus
  <2>7. doc' = [doc EXCEPT ![i] = d] /\ intent' = [intent EXCEPT ![i] = it]
    BY <2>1, <2>4, <2>5
  <2>8. /\ doc' \in [C!Ids -> ChatDocs] /\ intent' \in [C!Ids -> Intents]
        /\ doc'[i] = d /\ intent'[i] = it
        /\ \A k \in C!Ids \ {i} : doc'[k] = doc[k] /\ intent'[k] = intent[k]
    BY <1>0, <2>6, <2>7 DEF ChatTyped
  <2>9. PICK new : new = [job[h] EXCEPT !.pc = "show", !.says = "review", !.id = i]
    OBVIOUS
  <2>10. /\ new \in ChatJobs /\ new.pc = "show" /\ new.says = "review" /\ new.id = i
         /\ new.user = job[h].user /\ new.at = job[h].at
    <3>1. i \in 0..MaxPrepared
      BY ChatBounds
    <3>2. QED
      BY <2>2, <2>9, <3>1 DEF ChatJobs
  <2>11. job' = [job EXCEPT ![h] = new]
    BY <1>0, <2>1, <2>9 DEF ChatTyped
  <2>12. \A k \in C!Ids : Unsent(k) => Unsent(k)'
    BY <1>0, <2>10, <2>11, UnsentStays
  <2>13. DocsOnward
    <3>1. ASSUME NEW k \in C!Ids
          PROVE  /\ doc[k].status # "absent" =>
                       doc'[k].status # "absent" /\ doc'[k].user = doc[k].user /\ intent'[k] = intent[k]
                 /\ doc'[k].status \in {"absent", "pending"} => doc[k].status \in {"absent", "pending"}
                 /\ doc[k].status \in {"cancelled", "purged"} => doc'[k].status \in {"cancelled", "purged"}
                 /\ doc'[k].status = "executed" => doc[k].status = "executed"
      <4>1. CASE k = i
        BY <2>1, <2>6, <2>8, <4>1
      <4>2. CASE k # i
        BY <2>8, <4>2
      <4>3. QED
        BY <4>1, <4>2
    <3>2. QED
      BY <1>0, <2>12, <3>1 DEF DocsOnward
  <2>14. Reviewable(i)'
    BY <2>3, <2>4, <2>6, <2>8 DEF Reviewable, C!ChangesExchange
  <2>15. new.at <= Len(chat') /\ new.user \in Allowed
    BY <1>0, <2>10, GoesOn
  <2>16. JobTrue(new)'
    BY <2>10, <2>14, <2>15 DEF JobTrue, Said
  <2>17. QED
    BY <1>0, <2>8, <2>10, <2>11, <2>13, <2>16, QuietChatStep DEF ChatTyped
<1>3. QED
  BY <1>1, <1>2 DEF C!Prepare

(* A handler that changes the document of its own order, and nothing else   *)
(* of the store.                                                            *)
LEMMA OneDocOnward ==
    ASSUME ChatInv, NEW h \in Calls, NEW id \in C!Ids, NEW d \in ChatDocs, doc' = [doc EXCEPT ![id] = d],
           doc[id].status # "absent" \/ d = doc[id],
           doc[id].status # "absent" => d.status # "absent" /\ d.user = doc[id].user,
           d.status \in {"absent", "pending"} => doc[id].status \in {"absent", "pending"},
           doc[id].status \in {"cancelled", "purged"} => d.status \in {"cancelled", "purged"},
           d.status = "executed" => doc[id].status = "executed" \/ id \in orders,
           intent' = intent, orders' = orders,
           NEW new \in ChatJobs, job' = [job EXCEPT ![h] = new],
           new.pc = "send" => new.id = id /\ doc[id].status = "pending" /\ d.status = "executing"
    PROVE  /\ doc' \in [C!Ids -> ChatDocs] /\ intent' \in [C!Ids -> Intents]
           /\ doc'[id] = d /\ DocsOnward
<1>0. ChatTyped
  BY DEF ChatInv
<1>1. /\ doc' \in [C!Ids -> ChatDocs] /\ doc'[id] = d
      /\ \A k \in C!Ids \ {id} : doc'[k] = doc[k]
  BY <1>0 DEF ChatTyped
<1>2. ASSUME NEW k \in C!Ids, Unsent(k),
             doc'[k].status \in {"absent", "pending"} \/ doc[k].status \in {"cancelled", "purged"}
      PROVE  Unsent(k)'
  <2>1. CASE new.pc # "send"
    BY <1>0, <1>2, <2>1, UnsentStays
  <2>2. CASE new.pc = "send"
    <3>1. k # id
      BY <1>1, <1>2, <2>2
    <3>2. QED
      BY <1>0, <1>2, <2>2, <3>1 DEF Unsent, ChatTyped
  <2>3. QED
    BY <2>1, <2>2
<1>3. ASSUME NEW k \in C!Ids
      PROVE  /\ doc[k].status # "absent" =>
                   doc'[k].status # "absent" /\ doc'[k].user = doc[k].user /\ intent'[k] = intent[k]
             /\ doc'[k].status \in {"absent", "pending"} => doc[k].status \in {"absent", "pending"}
             /\ doc[k].status \in {"cancelled", "purged"} => doc'[k].status \in {"cancelled", "purged"}
             /\ doc'[k].status = "executed" => doc[k].status = "executed" \/ k \in orders'
  <2>1. CASE k = id
    BY <1>1, <2>1
  <2>2. CASE k # id
    BY <1>1, <2>2
  <2>3. QED
    BY <2>1, <2>2
<1>4. DocsOnward
  BY <1>2, <1>3 DEF DocsOnward
<1>5. QED
  BY <1>0, <1>1, <1>4 DEF ChatTyped

LEMMA FoundStep ==
    ASSUME ChatInv, NEW h \in Calls, C!Found(h), job[h].pc \in {"confirm", "cancel"},
           UNCHANGED <<chat, intent, orders>>
    PROVE  ChatInv'
<1>0. ChatTyped /\ JobTrue(job[h])
  BY DEF ChatInv
<1>1. PICK id \in C!Ids : id = job[h].id
  BY <1>0 DEF JobTrue
<1>2. PICK old \in ChatDocs : old = doc[id]
  BY <1>0 DEF ChatTyped
<1>3. PICK d : d = IF C!Read(h) = "lapsed" THEN C!MarkedExpired(old) ELSE old
  OBVIOUS
<1>4. /\ d \in ChatDocs /\ d.user = old.user
      /\ d.status = old.status \/ (d.status = "expired" /\ old.status = "pending")
      /\ old.status = "absent" => d = old
  <2>1. CASE old.status = "pending"
    BY <1>3, <2>1, ChatDocUpdates
  <2>2. CASE old.status # "pending"
    BY <1>3, <2>2 DEF C!MarkedExpired
  <2>3. QED
    BY <2>1, <2>2
<1>5. doc' = [doc EXCEPT ![id] = d]
  BY <1>0, <1>1, <1>2, <1>3 DEF C!Found, ChatTyped
<1>6. CASE job[h].pc = "confirm" /\ C!Read(h) = "executed"
  <2>1. old.status = "executed"
    BY <1>1, <1>2, <1>6 DEF C!Read, C!Reading
  <2>2. id \in orders
    BY <1>2, <2>1 DEF ChatInv, DocTrue
  <2>3. PICK new \in ChatJobs :
              /\ job' = [job EXCEPT ![h] = new]
              /\ new.pc = "show" /\ new.says = "confirmed"
              /\ new.user = job[h].user /\ new.at = job[h].at /\ new.id = job[h].id
    BY <1>0, <1>6, EditMoves DEF C!Found
  <2>4. /\ doc' \in [C!Ids -> ChatDocs] /\ intent' \in [C!Ids -> Intents] /\ DocsOnward
    BY <1>2, <1>4, <1>5, <2>1, <2>2, <2>3, OneDocOnward
  <2>5. new.at <= Len(chat') /\ new.user \in Allowed
    BY <1>6, <2>3, GoesOn
  <2>6. JobTrue(new)'
    BY <1>1, <2>2, <2>3, <2>5 DEF JobTrue, Said
  <2>7. QED
    BY <1>0, <2>3, <2>4, <2>6, QuietChatStep DEF ChatTyped
<1>7. CASE ~(job[h].pc = "confirm" /\ C!Read(h) = "executed")
  <2>1. job' = [job EXCEPT ![h] = C!Free] /\ C!Free.pc = "free" /\ C!Free \in ChatJobs
    BY <1>0, <1>7, ChatJob DEF C!Found, C!Leave
  <2>2. old.status = "executed" => id \in orders
    BY <1>2 DEF ChatInv, DocTrue
  <2>3. PICK new \in ChatJobs : new = C!Free
    BY <2>1
  <2>4. /\ doc' \in [C!Ids -> ChatDocs] /\ intent' \in [C!Ids -> Intents] /\ DocsOnward
    BY <1>2, <1>4, <1>5, <2>1, <2>2, <2>3, OneDocOnward
  <2>5. ChatTyped'
    BY <1>0, <2>1, <2>4 DEF ChatTyped
  <2>6. JobTrue(C!Free)'
    BY <1>0, <2>5, FreeIsTrue
  <2>7. QED
    BY <1>0, <2>1, <2>4, <2>6, QuietChatStep DEF ChatTyped
<1>8. QED
  BY <1>6, <1>7

LEMMA ConfirmStep ==
    ASSUME ChatInv, NEW h \in Calls, C!Confirm(h)
    PROVE  ChatInv'
<1>0. ChatTyped /\ JobTrue(job[h]) /\ job[h].pc = "confirm" /\ UNCHANGED <<chat, intent, orders>>
  BY DEF ChatInv, C!Confirm
<1>1. PICK id \in C!Ids : id = job[h].id
  BY <1>0 DEF JobTrue
<1>2. CASE C!CanTake(doc[id], job[h].user, C!Live(id))
  <2>1. doc[id].status = "pending" /\ doc[id] \in ChatDocs
    BY <1>0, <1>2 DEF C!CanTake, ChatTyped
  <2>2. PICK old, d : old \in ChatDocs /\ old = doc[id] /\ d = C!Taken(old)
    BY <2>1
  <2>3. d \in ChatDocs /\ d.status = "executing" /\ d.user = old.user
    BY <2>2, ChatDocUpdates
  <2>4. doc' = [doc EXCEPT ![id] = d] /\ C!Goto(h, "send")
    BY <1>0, <1>1, <1>2, <2>2 DEF C!Confirm, ChatTyped
  <2>5. PICK new \in ChatJobs :
           /\ job' = [job EXCEPT ![h] = new]
           /\ new.pc = "send"
           /\ new.user = job[h].user /\ new.at = job[h].at /\ new.id = job[h].id
    BY <1>0, <2>4, GotoMoves
  <2>6. /\ doc' \in [C!Ids -> ChatDocs] /\ intent' \in [C!Ids -> Intents] /\ DocsOnward
    BY <1>0, <1>1, <2>1, <2>2, <2>3, <2>4, <2>5, OneDocOnward
  <2>7. new.at <= Len(chat') /\ new.user \in Allowed
    BY <1>0, <2>5, GoesOn
  <2>8. Onward => Reviewable(id)' /\ ConfirmShown(id)'
    BY <1>0, <1>1 DEF JobTrue, Onward
  <2>9. Onward => JobTrue(new)'
    BY <1>1, <2>5, <2>7, <2>8 DEF JobTrue
  <2>10. QED
    BY <1>0, <2>5, <2>6, <2>9, QuietChatStep DEF ChatTyped
<1>3. CASE ~C!CanTake(doc[id], job[h].user, C!Live(id))
  <2>1. C!Found(h)
    BY <1>1, <1>3 DEF C!Confirm
  <2>2. QED
    BY <1>0, <2>1, FoundStep
<1>4. QED
  BY <1>2, <1>3

LEMMA CancelStep ==
    ASSUME ChatInv, NEW h \in Calls, C!Cancel(h)
    PROVE  ChatInv'
<1>0. ChatTyped /\ JobTrue(job[h]) /\ job[h].pc = "cancel" /\ UNCHANGED <<chat, intent, orders>>
  BY DEF ChatInv, C!Cancel
<1>1. PICK id \in C!Ids : id = job[h].id
  BY <1>0 DEF JobTrue
<1>2. CASE C!CanCancel(doc[id], job[h].user, C!Live(id))
  <2>1. doc[id].status = "pending" /\ doc[id] \in ChatDocs
    BY <1>0, <1>2 DEF C!CanCancel, ChatTyped
  <2>2. PICK old, d : old \in ChatDocs /\ old = doc[id] /\ d = C!Cancelled(old)
    BY <2>1
  <2>3. d \in ChatDocs /\ d.status = "cancelled" /\ d.user = old.user
    BY <2>2, ChatDocUpdates
  <2>4. doc' = [doc EXCEPT ![id] = d] /\ C!Edit(h, "cancelled")
    BY <1>0, <1>1, <1>2, <2>2 DEF C!Cancel, ChatTyped
  <2>5. PICK new \in ChatJobs :
           /\ job' = [job EXCEPT ![h] = new]
           /\ new.pc = "show" /\ new.says = "cancelled"
           /\ new.user = job[h].user /\ new.at = job[h].at /\ new.id = job[h].id
    BY <1>0, <2>4, EditMoves
  <2>6. /\ doc' \in [C!Ids -> ChatDocs] /\ intent' \in [C!Ids -> Intents]
        /\ doc'[id] = d /\ DocsOnward
    BY <1>0, <1>1, <2>1, <2>2, <2>3, <2>4, <2>5, OneDocOnward
  <2>7. new.at <= Len(chat') /\ new.user \in Allowed
    BY <1>0, <2>5, GoesOn
  <2>8. Unsent(id)
    BY <2>1 DEF ChatInv, DocTrue
  <2>9. Unsent(id)'
    BY <1>0, <2>5, <2>8, UnsentStays
  <2>10. NeverSent(id)'
    BY <2>3, <2>6, <2>9 DEF NeverSent
  <2>11. JobTrue(new)'
    BY <1>1, <2>5, <2>7, <2>10 DEF JobTrue, Said
  <2>12. QED
    BY <1>0, <2>5, <2>6, <2>11, QuietChatStep DEF ChatTyped
<1>3. CASE ~C!CanCancel(doc[id], job[h].user, C!Live(id))
  <2>1. C!Found(h)
    BY <1>1, <1>3 DEF C!Cancel
  <2>2. QED
    BY <1>0, <2>1, FoundStep
<1>4. QED
  BY <1>2, <1>3

LEMMA SendStep ==
    ASSUME ChatInv, NEW h \in Calls, C!Send(h)
    PROVE  ChatInv'
<1>0. ChatTyped /\ JobTrue(job[h]) /\ job[h].pc = "send" /\ UNCHANGED <<chat, doc, intent>>
  BY DEF ChatInv, C!Send
<1>1. PICK id \in C!Ids : id = job[h].id /\ Reviewable(id) /\ ConfirmShown(id)
  BY <1>0 DEF JobTrue
<1>2. orders' \in {orders, orders \cup {id}}
  BY <1>1 DEF C!Send
<1>3. PICK new \in ChatJobs :
         /\ job' = [job EXCEPT ![h] = new]
         /\ new.pc \in {"complete", "fail"} /\ (new.pc = "complete" => id \in orders')
         /\ new.user = job[h].user /\ new.at = job[h].at /\ new.id = job[h].id
  <2>1. CASE C!Goto(h, "complete") /\ orders' = orders \cup {id}
    <3>1. PICK new \in ChatJobs :
             /\ job' = [job EXCEPT ![h] = new]
             /\ new.pc = "complete"
             /\ new.user = job[h].user /\ new.at = job[h].at /\ new.id = job[h].id
      BY <1>0, <2>1, GotoMoves
    <3>2. QED
      BY <2>1, <3>1
  <2>2. CASE C!Goto(h, "fail")
    <3>1. PICK new \in ChatJobs :
             /\ job' = [job EXCEPT ![h] = new]
             /\ new.pc = "fail"
             /\ new.user = job[h].user /\ new.at = job[h].at /\ new.id = job[h].id
      BY <1>0, <2>2, GotoMoves
    <3>2. QED
      BY <3>1
  <2>3. QED
    BY <1>1, <2>1, <2>2 DEF C!Send
<1>4. ASSUME NEW k, Unsent(k) PROVE Unsent(k)'
  <2>1. k # id
    BY <1>0, <1>1, <1>4 DEF Unsent
  <2>2. QED
    BY <1>0, <1>2, <1>3, <1>4, <2>1 DEF Unsent, ChatTyped
<1>5. DocsOnward
  BY <1>0, <1>2, <1>4 DEF DocsOnward
<1>6. new.at <= Len(chat') /\ new.user \in Allowed
  BY <1>0, <1>3, GoesOn
<1>7. Onward => Reviewable(id)' /\ ConfirmShown(id)'
  BY <1>1 DEF Onward
<1>8. Onward => JobTrue(new)'
  BY <1>1, <1>3, <1>6, <1>7 DEF JobTrue
<1>9. \A i \in orders' \ orders : Reviewable(i) /\ ConfirmShown(i)
  BY <1>1, <1>2
<1>10. /\ doc' \in [C!Ids -> ChatDocs] /\ intent' \in [C!Ids -> Intents] /\ orders' \subseteq C!Ids
  BY <1>0, <1>1, <1>2 DEF ChatTyped
<1>11. QED
  BY <1>0, <1>3, <1>5, <1>8, <1>9, <1>10, QuietChatStep

LEMMA SettleStep ==
    ASSUME ChatInv, NEW h \in Calls, C!Settle(h)
    PROVE  ChatInv'
<1>0. /\ ChatTyped /\ JobTrue(job[h]) /\ job[h].pc \in {"complete", "fail"}
      /\ UNCHANGED <<chat, intent, orders>>
  BY DEF ChatInv, C!Settle
<1>1. PICK id \in C!Ids : id = job[h].id /\ (job[h].pc = "complete" => id \in orders)
  BY <1>0 DEF JobTrue
<1>2. PICK old \in ChatDocs : old = doc[id]
  BY <1>0 DEF ChatTyped
<1>3. ASSUME NEW d \in ChatDocs, doc' = [doc EXCEPT ![id] = d], C!Leave(h),
             d = old \/ (old.status = "executing" /\ d.status \in {"executed", "failed"} /\ d.user = old.user),
             d.status = "executed" => d = old \/ id \in orders
      PROVE  ChatInv'
  <2>1. PICK new \in ChatJobs : job' = [job EXCEPT ![h] = new] /\ new.pc = "free" /\ new = C!Free
    BY <1>0, <1>3, ChatJob DEF C!Leave
  <2>2. /\ doc' \in [C!Ids -> ChatDocs] /\ intent' \in [C!Ids -> Intents] /\ DocsOnward
    BY <1>0, <1>2, <1>3, <2>1, OneDocOnward
  <2>3. ChatTyped'
    BY <1>0, <2>1, <2>2 DEF ChatTyped
  <2>4. JobTrue(new)'
    BY <1>0, <2>1, <2>3, FreeIsTrue
  <2>5. QED
    BY <1>0, <2>1, <2>2, <2>4, QuietChatStep DEF ChatTyped
<1>4. CASE C!CanSettle(doc[id])
  <2>1. PICK outcome \in {"executed", "failed"} :
           outcome = IF job[h].pc = "complete" THEN "executed" ELSE "failed"
    OBVIOUS
  <2>2. PICK d : d = C!Settled(old, outcome)
    OBVIOUS
  <2>3. d \in ChatDocs /\ d.status = outcome /\ d.user = old.user /\ old.status = "executing"
    BY <1>2, <1>4, <2>2, SettledChatDoc DEF C!CanSettle
  <2>4. doc' = [doc EXCEPT ![id] = d]
    BY <1>0, <1>1, <1>2, <1>4, <2>1, <2>2 DEF C!Settle, ChatTyped
  <2>5. outcome = "executed" => id \in orders
    BY <1>1, <2>1
  <2>6. CASE job[h].pc = "complete"
    <3>1. C!Edit(h, "confirmed")
      BY <1>1, <1>4, <2>6 DEF C!Settle, C!ShownAfter
    <3>2. PICK new \in ChatJobs :
             /\ job' = [job EXCEPT ![h] = new]
             /\ new.pc = "show" /\ new.says = "confirmed"
             /\ new.user = job[h].user /\ new.at = job[h].at /\ new.id = job[h].id
      BY <1>0, <3>1, EditMoves
    <3>3. /\ doc' \in [C!Ids -> ChatDocs] /\ intent' \in [C!Ids -> Intents] /\ DocsOnward
      BY <1>0, <1>2, <2>3, <2>4, <2>5, <3>2, OneDocOnward
    <3>4. new.at <= Len(chat') /\ new.user \in Allowed
      BY <1>0, <3>2, GoesOn
    <3>5. JobTrue(new)'
      BY <1>0, <1>1, <2>6, <3>2, <3>4 DEF JobTrue, Said
    <3>6. QED
      BY <1>0, <3>2, <3>3, <3>5, QuietChatStep DEF ChatTyped
  <2>7. CASE job[h].pc = "fail"
    <3>1. C!Leave(h)
      BY <1>1, <1>4, <2>7 DEF C!Settle, C!ShownAfter
    <3>2. QED
      BY <1>3, <2>3, <2>4, <2>5, <3>1
  <2>8. QED
    BY <1>0, <2>6, <2>7
<1>5. CASE ~C!CanSettle(doc[id])
  <2>1. C!Leave(h) /\ doc' = doc
    BY <1>1, <1>5 DEF C!Settle
  <2>2. doc' = [doc EXCEPT ![id] = old]
    BY <1>0, <1>2, <2>1 DEF ChatTyped
  <2>3. QED
    BY <1>3, <2>1, <2>2
<1>6. QED
  BY <1>4, <1>5

(* A message about an order, over those buttons that were there before.     *)
LEMMA EnlargedMessage ==
    ASSUME NEW says, NEW id, NEW buttons, NEW before
    PROVE  [C!Message(says, id, buttons) EXCEPT !.offered = @ \cup before]
             = [says |-> says, id |-> id, buttons |-> buttons, offered |-> buttons \cup before]
<1>1. PICK m : m = [says |-> says, id |-> id, buttons |-> buttons, offered |-> buttons]
  OBVIOUS
<1>2. PICK new : new = [m EXCEPT !.offered = @ \cup before]
  OBVIOUS
<1>3. m \in [says: {says}, id: {id}, buttons: {buttons}, offered: {buttons}]
  BY <1>1
<1>4. new \in [says: {says}, id: {id}, buttons: {buttons}, offered: {buttons \cup before}]
  BY <1>2, <1>3
<1>5. new = [says |-> says, id |-> id, buttons |-> buttons, offered |-> buttons \cup before]
  BY <1>4
<1>6. QED
  BY <1>1, <1>2, <1>5 DEF C!Message

LEMMA ShownMessage ==
    ASSUME ChatInv, NEW h \in Calls, job[h].pc = "show",
           NEW before \in SUBSET Buttons, \A b \in before : b.do = "confirm" => Reviewable(b.id),
           NEW buttons, buttons = IF job[h].says = "review" THEN C!Review(job[h].id) ELSE {},
           NEW msg, msg = [says |-> job[h].says, id |-> job[h].id,
                           buttons |-> buttons, offered |-> buttons \cup before]
    PROVE  msg \in Messages /\ MessageTrue(msg) /\ before \subseteq msg.offered
<1>0. ChatTyped /\ JobTrue(job[h])
  BY DEF ChatInv
<1>1. PICK says, id : says = job[h].says /\ id = job[h].id
  OBVIOUS
<1>2. /\ says \in {"review", "confirmed", "cancelled"} /\ id \in 0..MaxPrepared
      /\ Said(says, id)
  <2>1. job[h] \in ChatJobs
    BY <1>0 DEF ChatTyped
  <2>2. job[h].says \in {"", "review", "confirmed", "cancelled"} /\ job[h].id \in 0..MaxPrepared
    BY <2>1 DEF ChatJobs
  <2>3. QED
    BY <1>0, <1>1, <2>2 DEF JobTrue
<1>3. \A b \in buttons : b \in Buttons /\ says = "review" /\ b.id = id
  <2>1. CASE says = "review"
    <3>1. id \in C!Ids
      BY <1>2, <2>1 DEF Said, Reviewable
    <3>2. \A do \in {"confirm", "cancel"} :
             [do |-> do, id |-> id, symbol |-> ""] \in Buttons /\ [do |-> do, id |-> id, symbol |-> ""].id = id
      BY <3>1 DEF Buttons
    <3>3. QED
      BY <1>1, <2>1, <3>2 DEF C!Review
  <2>2. CASE says # "review"
    BY <1>1, <2>2
  <2>3. QED
    BY <2>1, <2>2
<1>4. msg = [says |-> says, id |-> id, buttons |-> buttons, offered |-> buttons \cup before]
  BY <1>1
<1>5. msg \in Messages
  BY <1>2, <1>3, <1>4 DEF Messages
<1>6. msg.says = says /\ msg.id = id /\ msg.buttons = buttons /\ msg.offered = buttons \cup before
  BY <1>4
<1>7. MessageTrue(msg)
  BY <1>2, <1>3, <1>6 DEF MessageTrue, Said
<1>8. QED
  BY <1>5, <1>6, <1>7

LEMMA ShowStep ==
    ASSUME ChatInv, NEW h \in Calls, C!Show(h)
    PROVE  ChatInv'
<1>0. /\ ChatTyped /\ JobTrue(job[h]) /\ job[h].pc = "show" /\ job[h] \in ChatJobs
      /\ UNCHANGED <<doc, intent, orders>>
  BY DEF ChatInv, ChatTyped, C!Show
<1>1. PICK new \in ChatJobs : job' = [job EXCEPT ![h] = new] /\ new.pc = "free" /\ new = C!Free
  BY <1>0, ChatJob DEF C!Show, C!Leave
<1>2. DocsOnward
  BY <1>0, <1>1, SameDocs
<1>3. PICK buttons : buttons = IF job[h].says = "review" THEN C!Review(job[h].id) ELSE {}
  OBVIOUS
<1>4. PICK plain : plain = C!Message(job[h].says, job[h].id, buttons)
  OBVIOUS
<1>5. \/ chat' = chat
      \/ Len(chat) < MaxMessages /\ chat' = Append(chat, plain)
      \/ job[h].at # 0 /\ chat' = [chat EXCEPT ![job[h].at] = [plain EXCEPT !.offered = @ \cup chat[job[h].at].offered]]
  BY <1>3, <1>4 DEF C!Show
<1>6. ASSUME ChatTyped', Len(chat) <= Len(chat'),
             \A m \in 1..Len(chat) : chat[m].offered \subseteq chat'[m].offered,
             NEW msg, MessageTrue(msg),
             \A m \in 1..Len(chat') : chat'[m] = msg \/ (m \in 1..Len(chat) /\ chat'[m] = chat[m])
      PROVE  ChatInv'
  <2>1. Len(chat) \in Nat /\ Len(chat') \in Nat
    BY <1>0, <1>6 DEF ChatTyped
  <2>2. \A i \in C!Ids : ConfirmShown(i) => ConfirmShown(i)'
    BY <1>6, <2>1 DEF ConfirmShown
  <2>3. Onward /\ \A i \in C!Ids : DocTrue(i)'
    BY <1>2, <1>6, <2>2, OnwardDocs
  <2>4. ASSUME NEW m \in 1..Len(chat') PROVE MessageTrue(chat[m])'
    <3>1. PICK now : now = chat'[m]
      OBVIOUS
    <3>2. MessageTrue(now)
      BY <1>6, <3>1 DEF ChatInv
    <3>3. MessageTrue(now)'
      BY <2>3, <3>2, StaysTrueOfMessage
    <3>4. QED
      BY <3>1, <3>3
  <2>5. JobTrue(new)'
    BY <1>0, <1>1, <1>6, FreeIsTrue
  <2>6. QED
    BY <1>0, <1>1, <1>6, <2>3, <2>4, <2>5, ChatStep
<1>7. CASE chat' = chat
  <2>1. JobTrue(new)'
    <3>1. ChatTyped'
      BY <1>0, <1>1, <1>7 DEF ChatTyped
    <3>2. QED
      BY <1>0, <1>1, <3>1, FreeIsTrue
  <2>2. QED
    BY <1>0, <1>1, <1>2, <1>7, <2>1, QuietChatStep DEF ChatTyped
<1>8. CASE Len(chat) < MaxMessages /\ chat' = Append(chat, plain)
  <2>1. PICK msg : msg = plain
    OBVIOUS
  <2>2. msg = [says |-> job[h].says, id |-> job[h].id,
               buttons |-> buttons, offered |-> buttons \cup {}]
    BY <1>4, <2>1 DEF C!Message
  <2>3. msg \in Messages /\ MessageTrue(msg)
    BY <1>0, <1>3, <2>2, ShownMessage
  <2>4. /\ chat' \in Seq(Messages) /\ Len(chat') = Len(chat) + 1 /\ Len(chat') <= MaxMessages
        /\ Len(chat) \in Nat
        /\ \A m \in 1..Len(chat) : chat'[m] = chat[m]
        /\ chat'[Len(chat) + 1] = msg
    BY <1>0, <1>8, <2>1, <2>3, ChatBounds DEF ChatTyped
  <2>5. ChatTyped'
    BY <1>0, <1>1, <2>4 DEF ChatTyped
  <2>6. \A m \in 1..Len(chat') : chat'[m] = msg \/ (m \in 1..Len(chat) /\ chat'[m] = chat[m])
    BY <2>4
  <2>7. QED
    BY <1>6, <2>3, <2>4, <2>5, <2>6
<1>9. CASE job[h].at # 0 /\ chat' = [chat EXCEPT ![job[h].at] = [plain EXCEPT !.offered = @ \cup chat[job[h].at].offered]]
  <2>1. Len(chat) \in Nat /\ Len(chat) <= MaxMessages /\ chat \in Seq(Messages)
    BY <1>0 DEF ChatTyped
  <2>2. job[h].at \in 0..MaxMessages /\ job[h].at <= Len(chat)
    BY <1>0 DEF ChatJobs, JobTrue
  <2>3. PICK at \in 1..Len(chat) : at = job[h].at
    BY <1>9, <2>1, <2>2, ChatBounds
  <2>4. PICK before : before = chat[at].offered
    OBVIOUS
  <2>5. before \in SUBSET Buttons /\ \A b \in before : b.do = "confirm" => Reviewable(b.id)
    <3>1. chat[at] \in Messages /\ MessageTrue(chat[at])
      BY <2>1 DEF ChatInv
    <3>2. QED
      BY <2>4, <3>1 DEF Messages, MessageTrue
  <2>6. PICK msg : msg = [plain EXCEPT !.offered = @ \cup before]
    OBVIOUS
  <2>7. msg \in Messages /\ MessageTrue(msg) /\ before \subseteq msg.offered
    <3>1. msg = [says |-> job[h].says, id |-> job[h].id,
                 buttons |-> buttons, offered |-> buttons \cup before]
      BY <1>4, <2>6, EnlargedMessage
    <3>2. before \in SUBSET Buttons
      BY <2>5
    <3>3. \A b \in before : b.do = "confirm" => Reviewable(b.id)
      BY <2>5
    <3>4. job[h].pc = "show"
      BY <1>0
    <3>5. QED
      BY <1>3, <3>1, <3>2, <3>3, <3>4, ShownMessage
  <2>8. chat' = [chat EXCEPT ![at] = msg]
    BY <1>9, <2>3, <2>4, <2>6
  <2>9. /\ chat' \in Seq(Messages) /\ Len(chat') = Len(chat)
        /\ \A m \in 1..Len(chat) : chat'[m] = IF m = at THEN msg ELSE chat[m]
    BY <2>1, <2>7, <2>8
  <2>10. ChatTyped'
    BY <1>0, <1>1, <2>9 DEF ChatTyped
  <2>11. \A m \in 1..Len(chat) : chat[m].offered \subseteq chat'[m].offered
    BY <2>4, <2>7, <2>9
  <2>12. \A m \in 1..Len(chat') : chat'[m] = msg \/ (m \in 1..Len(chat) /\ chat'[m] = chat[m])
    BY <2>9
  <2>13. QED
    BY <1>6, <2>1, <2>7, <2>9, <2>10, <2>11, <2>12
<1>10. QED
  BY <1>5, <1>7, <1>8, <1>9

LEMMA DropStep ==
    ASSUME ChatInv, NEW h \in Calls, C!Drop(h)
    PROVE  ChatInv'
<1>0. ChatTyped /\ UNCHANGED <<chat, doc, intent, orders>>
  BY DEF ChatInv, C!Drop
<1>1. PICK new \in ChatJobs : job' = [job EXCEPT ![h] = new] /\ new.pc = "free" /\ new = C!Free
  BY <1>0, ChatJob DEF C!Drop, C!Leave
<1>2. DocsOnward
  BY <1>0, <1>1, SameDocs
<1>3. ChatTyped'
  BY <1>0, <1>1 DEF ChatTyped
<1>4. JobTrue(new)'
  BY <1>0, <1>1, <1>3, FreeIsTrue
<1>5. QED
  BY <1>0, <1>1, <1>2, <1>4, QuietChatStep DEF ChatTyped

(* Time passes, or the index removes a document.                            *)
LEMMA AgeStep ==
    ASSUME ChatInv, C!Tick \/ \E i \in C!Ids : C!Purge(i)
    PROVE  ChatInv'
<1>0. ChatTyped /\ UNCHANGED <<chat, intent, orders, job>>
  BY DEF ChatInv, C!Tick, C!Purge
<1>1. /\ doc' \in [C!Ids -> ChatDocs]
      /\ \A k \in C!Ids :
            /\ doc'[k].user = doc[k].user
            /\ \/ doc'[k].status = doc[k].status
               \/ doc[k].status # "absent" /\ doc'[k].status = "purged"
  <2>1. CASE C!Tick
    <3>1. doc' = [i \in C!Ids |-> C!Older(doc[i])] /\ \A i \in C!Ids : doc[i] \in ChatDocs
      BY <1>0, <2>1 DEF C!Tick, ChatTyped
    <3>2. QED
      BY <3>1, ChatDocUpdates
  <2>2. ASSUME NEW i \in C!Ids, C!Purge(i)
        PROVE  /\ doc' \in [C!Ids -> ChatDocs]
               /\ \A k \in C!Ids :
                     /\ doc'[k].user = doc[k].user
                     /\ \/ doc'[k].status = doc[k].status
                        \/ doc[k].status # "absent" /\ doc'[k].status = "purged"
    <3>1. PICK old, d : old \in ChatDocs /\ old = doc[i] /\ d = C!Purged(old)
      BY <1>0 DEF ChatTyped
    <3>2. d \in ChatDocs /\ d.status = "purged" /\ d.user = old.user /\ old.status # "absent"
      BY <2>2, <3>1, ChatDocUpdates DEF C!Purge, C!Purgeable, C!Present
    <3>3. doc' = [doc EXCEPT ![i] = d]
      BY <1>0, <2>2, <3>1 DEF C!Purge, ChatTyped
    <3>4. QED
      BY <1>0, <3>1, <3>2, <3>3 DEF ChatTyped
  <2>3. QED
    BY <2>1, <2>2
<1>2. \A k : Unsent(k) => Unsent(k)'
  BY <1>0 DEF Unsent
<1>3. DocsOnward
  BY <1>0, <1>1, <1>2 DEF DocsOnward
<1>4. PICK h \in Calls : TRUE
  BY FrontAssumption DEF M!MembershipAssumption
<1>5. PICK new \in ChatJobs : new = job[h] /\ JobTrue(new)
  BY <1>0 DEF ChatInv, ChatTyped
<1>6. job' = [job EXCEPT ![h] = new]
  BY <1>0, <1>5 DEF ChatTyped
<1>7. ChatTyped'
  BY <1>0, <1>1 DEF ChatTyped
<1>8. Onward => JobTrue(new)'
  BY <1>0, <1>5, <1>7, StaysTrueOfJob
<1>9. QED
  BY <1>0, <1>1, <1>3, <1>5, <1>6, <1>8, QuietChatStep DEF ChatTyped

LEMMA ChatNext == ChatInv /\ C!Next => ChatInv'
<1> SUFFICES ASSUME ChatInv, C!Next PROVE ChatInv'
  OBVIOUS
<1>1. CASE C!Tick \/ \E i \in C!Ids : C!Purge(i)
  BY <1>1, AgeStep
<1>2. ASSUME NEW h \in Calls, C!Update(h) PROVE ChatInv'
  <2>1. ASSUME NEW u \in Users, \E text \in Texts : C!Type(h, u, text) PROVE ChatInv'
    BY <2>1, TypeStep
  <2>2. ASSUME NEW u \in Users, NEW m \in 1..MaxMessages, m <= Len(chat),
               NEW b \in chat[m].offered, C!Tap(h, u, m, b)
        PROVE  ChatInv'
    <3>1. Len(chat) \in Nat
      BY DEF ChatInv, ChatTyped
    <3>2. m \in 1..Len(chat)
      BY <2>2, <3>1, ChatBounds
    <3>3. QED
      BY <2>2, <3>2, TapStep
  <2>3. CASE \/ C!Prepare(h) \/ C!Confirm(h) \/ C!Send(h) \/ C!Settle(h) \/ C!Cancel(h)
             \/ C!Show(h) \/ C!Drop(h)
    BY <2>3, PrepareStep, ConfirmStep, SendStep, SettleStep, CancelStep, ShowStep, DropStep
  <2>4. QED
    BY <1>2, <2>1, <2>2, <2>3 DEF C!Update
<1>3. QED
  BY <1>1, <1>2 DEF C!Next

LEMMA ChatSound == ChatInv => C!ChatTellsTheTruth /\ C!OrdersWereReviewed
<1> SUFFICES ASSUME ChatInv PROVE C!ChatTellsTheTruth /\ C!OrdersWereReviewed
  OBVIOUS
<1>1. ChatTyped /\ DOMAIN chat = 1..Len(chat)
  BY DEF ChatInv, ChatTyped
<1>2. C!ChatTellsTheTruth
  BY <1>1 DEF ChatInv, MessageTrue, Said, NeverSent, Unsent, C!ChatTellsTheTruth
<1>3. C!OrdersWereReviewed
  BY <1>1 DEF ChatInv, Reviewable, ConfirmShown, C!OrdersWereReviewed
<1>4. QED
  BY <1>2, <1>3

-----------------------------------------------------------------------------
(* Paper runs. A run trades inside the window it is at, forward in time,    *)
(* and the windows follow one another.                                      *)

Candles == [from: Nat \ {0}, test: Nat \ {0}, end: Int]

WindowsApart(ws) ==
    /\ ws \in Seq(Candles) /\ Len(ws) > 0
    /\ \A v \in DOMAIN ws : ws[v].from <= ws[v].test /\ ws[v].end <= Bars
    /\ \A v, w \in DOMAIN ws : v < w => ws[v].end < ws[w].from

IsSequence(s) == \E V : s \in Seq(V)

TradesIn(ts, window) ==
    /\ \A k \in 1..Len(ts) :
          /\ ts[k].entry \in Int /\ ts[k].exit \in Int
          /\ window.from <= ts[k].entry /\ ts[k].entry < ts[k].exit /\ ts[k].exit <= window.end
    /\ \A k \in 2..Len(ts) : ts[k - 1].exit < ts[k].entry

PaperInv ==
    /\ mode \in {"preview", "paper", "folds"}
    /\ WindowsApart(plan.windows)
    /\ IsSequence(trades) /\ IsSequence(results)
    /\ fold \in Nat \ {0} /\ fold <= Len(plan.windows) + 1
    /\ Len(results) = fold - 1
    /\ \A f \in 1..Len(results) :
          IsSequence(results[f].trades) /\ TradesIn(results[f].trades, plan.windows[f])
    /\ mode = "preview" => results = <<>>
    /\ mode # "preview" /\ fold <= Len(plan.windows) =>
          /\ bar \in Nat /\ bar >= plan.windows[fold].test
          /\ TradesIn(trades, plan.windows[fold])
          /\ \A k \in 1..Len(trades) : trades[k].exit < bar
    /\ mode # "preview" /\ fold > Len(plan.windows) => trades = <<>>

LEMMA LeastOf ==
    ASSUME NEW T, T \subseteq Nat, T # {}
    PROVE  R!Min(T) \in T /\ \A y \in T : R!Min(T) <= y
<1>1. PICK x \in T : \A y \in T : ~(<<y, x>> \in OpToRel(<, Nat))
  BY WFMin, NatLessThanWellFounded
<1>2. ASSUME NEW y \in T PROVE x <= y
  <2>1. x \in Nat /\ y \in Nat
    OBVIOUS
  <2>2. ~(y < x)
    BY <1>1, <2>1 DEF OpToRel
  <2>3. QED
    BY <2>1, <2>2
<1>3. QED
  BY <1>2 DEF R!Min

LEMMA LeastOfBoth ==
    ASSUME NEW a \in Int, NEW b \in Int
    PROVE  R!Min({a, b}) \in {a, b} /\ R!Min({a, b}) <= a /\ R!Min({a, b}) <= b
BY DEF R!Min

LEMMA GreatestOfBoth ==
    ASSUME NEW a \in Int, NEW b \in Int
    PROVE  R!Max({a, b}) \in {a, b} /\ R!Max({a, b}) >= a /\ R!Max({a, b}) >= b
BY DEF R!Max

LEMMA LastOfRange ==
    ASSUME NEW a \in Int, NEW b \in Int, a <= b
    PROVE  R!Max(a..b) = b
BY DEF R!Max

(* The windows of SplitWalkForwardFolds: the first folds take one candle    *)
(* more when the number does not divide, so each starts where the one       *)
(* before it ended.                                                         *)
LEMMA FoldsApart ==
    ASSUME NEW n \in FoldCounts
    PROVE  WindowsApart(R!Windows(n))
<1> DEFINE size == Bars \div n
           extra == Bars % n
           Start(k) == (k - 1) * size + R!Min({k - 1, extra})
<1>0. n \in Nat \ {0} /\ Bars \in Nat /\ Warmup \in Nat
  BY FrontAssumption DEF R!PaperAssumption
<1>1. size \in Nat /\ extra \in Nat
  BY <1>0
<1>10. Bars = n * size + extra /\ extra < n
  BY <1>0
<1> HIDE DEF size, extra
<1>2. ASSUME NEW k \in Nat \ {0} PROVE Start(k) \in Nat /\ Start(k) <= Start(k + 1)
  <2>1. (k - 1) * size \in Nat /\ k * size \in Nat /\ (k - 1) * size <= k * size
    BY <1>1
  <2>2. /\ R!Min({k - 1, extra}) \in {k - 1, extra} /\ R!Min({k, extra}) \in {k, extra}
        /\ R!Min({k - 1, extra}) <= k - 1 /\ R!Min({k - 1, extra}) <= extra
    <3>1. PICK p \in Int : p = k - 1
      OBVIOUS
    <3>2. extra \in Int /\ k \in Int
      BY <1>1
    <3>3. R!Min({p, extra}) \in {p, extra} /\ R!Min({p, extra}) <= p /\ R!Min({p, extra}) <= extra
      BY <3>2, LeastOfBoth
    <3>4. R!Min({k, extra}) \in {k, extra}
      BY <3>2, LeastOfBoth
    <3>5. QED
      BY <3>1, <3>3, <3>4
  <2>3. k - 1 \in Nat /\ k + 1 - 1 = k
    OBVIOUS
  <2>4. Start(k + 1) = k * size + R!Min({k, extra})
    BY <2>3
  <2>5. QED
    BY <1>1, <2>1, <2>2, <2>3, <2>4
<1>3. ASSUME NEW v \in Nat \ {0}, NEW w \in Nat, v <= w PROVE Start(v) <= Start(w)
  <2>1. (v - 1) * size \in Nat /\ (w - 1) * size \in Nat /\ (v - 1) * size <= (w - 1) * size
    <3>1. PICK d \in Nat : w = v + d
      BY <1>3
    <3>2. (w - 1) * size = (v - 1) * size + d * size /\ d * size \in Nat /\ (v - 1) * size \in Nat
      BY <1>1, <3>1
    <3>3. QED
      BY <3>2
  <2>2. /\ R!Min({v - 1, extra}) \in {v - 1, extra} /\ R!Min({w - 1, extra}) \in {w - 1, extra}
        /\ R!Min({v - 1, extra}) <= v - 1 /\ R!Min({v - 1, extra}) <= extra
    <3>1. PICK p \in Int, q \in Int : p = v - 1 /\ q = w - 1
      OBVIOUS
    <3>2. extra \in Int
      BY <1>1
    <3>3. R!Min({p, extra}) \in {p, extra} /\ R!Min({p, extra}) <= p /\ R!Min({p, extra}) <= extra
      BY <3>2, LeastOfBoth
    <3>4. R!Min({q, extra}) \in {q, extra}
      BY <3>2, LeastOfBoth
    <3>5. QED
      BY <3>1, <3>3, <3>4
  <2>3. QED
    BY <1>1, <1>3, <2>1, <2>2
<1>11. Start(n + 1) = Bars
  <2>1. R!Min({n, extra}) \in {n, extra} /\ R!Min({n, extra}) <= extra
    BY <1>0, <1>1, LeastOfBoth
  <2>2. R!Min({n, extra}) = extra
    BY <1>0, <1>1, <1>10, <2>1
  <2>3. Start(n + 1) = n * size + R!Min({n, extra})
    <3>1. PICK k \in Nat : k = n /\ k + 1 - 1 = k
      BY <1>0
    <3>2. Start(k + 1) = k * size + R!Min({k, extra})
      BY <3>1
    <3>3. QED
      BY <3>1, <3>2
  <2>4. QED
    BY <1>10, <2>2, <2>3
<1> HIDE DEF Start
<1>4. R!Windows(n) = [k \in 1..n |-> [from |-> Start(k) + 1, test |-> Start(k) + Warmup + 1, end |-> Start(k + 1)]]
  BY DEF R!Windows, Start, size, extra
<1>5. PICK ws : ws = R!Windows(n)
  OBVIOUS
<1>6. ASSUME NEW k \in 1..n
      PROVE  /\ ws[k] \in Candles /\ ws[k].from <= ws[k].test /\ ws[k].end <= Bars
             /\ ws[k].from = Start(k) + 1 /\ ws[k].end = Start(k + 1)
  <2>1. k \in Nat \ {0} /\ k + 1 \in Nat \ {0} /\ n + 1 \in Nat /\ k + 1 <= n + 1
    BY <1>0
  <2>2. Start(k) \in Nat /\ Start(k + 1) \in Nat /\ Start(k + 1) <= Bars
    BY <1>0, <1>2, <1>3, <1>11, <2>1
  <2>3. ws[k] = [from |-> Start(k) + 1, test |-> Start(k) + Warmup + 1, end |-> Start(k + 1)]
    BY <1>4, <1>5
  <2>4. QED
    BY <1>0, <2>2, <2>3 DEF Candles
<1>7. ws \in Seq(Candles) /\ Len(ws) = n /\ DOMAIN ws = 1..n
  <2>1. ws \in [1..n -> Candles]
    BY <1>4, <1>5, <1>6
  <2>2. QED
    BY <1>0, <2>1
<1>8. ASSUME NEW v \in 1..n, NEW w \in 1..n, v < w PROVE ws[v].end < ws[w].from
  <2>1. Start(v + 1) <= Start(w) /\ Start(v + 1) \in Nat /\ Start(w) \in Nat
    BY <1>2, <1>3, <1>8
  <2>2. QED
    BY <1>6, <2>1
<1>9. QED
  BY <1>0, <1>5, <1>6, <1>7, <1>8 DEF WindowsApart

LEMMA WholeApart ==
    ASSUME NEW openEnded
    PROVE  WindowsApart(R!Whole(openEnded))
<1>0. Bars \in Nat /\ Warmup \in Nat /\ PlanBars \in Nat
  BY FrontAssumption DEF R!PaperAssumption
<1>1. PICK skip \in Nat : skip = IF openEnded THEN Warmup ELSE R!Max({Warmup, Bars - PlanBars})
  <2>1. R!Max({Warmup, Bars - PlanBars}) \in {Warmup, Bars - PlanBars} /\ R!Max({Warmup, Bars - PlanBars}) >= Warmup
    <3>1. PICK p \in Int : p = Bars - PlanBars
      BY <1>0
    <3>2. QED
      BY <1>0, <3>1, GreatestOfBoth
  <2>2. QED
    BY <1>0, <2>1
<1>2. PICK window : window = [from |-> 1, end |-> Bars, test |-> 1 + skip]
  OBVIOUS
<1>3. R!Whole(openEnded) = <<window>>
  BY <1>1, <1>2 DEF R!Whole
<1>4. window \in Candles /\ window.from <= window.test /\ window.end <= Bars
  BY <1>0, <1>2 DEF Candles
<1>5. <<window>> \in Seq(Candles) /\ Len(<<window>>) = 1 /\ DOMAIN <<window>> = {1} /\ <<window>>[1] = window
  BY <1>4
<1>6. QED
  BY <1>3, <1>4, <1>5 DEF WindowsApart

(* The plan of a run, whatever it was asked as.                             *)
LEMMA PlannedParts ==
    ASSUME NEW goal, NEW bias, NEW anny, NEW candles, NEW windows
    PROVE  /\ R!Planned(goal, bias, anny, candles, windows).goal = goal
           /\ R!Planned(goal, bias, anny, candles, windows).candles = candles
           /\ R!Planned(goal, bias, anny, candles, windows).windows = windows
BY DEF R!Planned

LEMMA PlanOfRun ==
    ASSUME R!Init
    PROVE  /\ mode \in {"preview", "paper", "folds"}
           /\ \/ \E openEnded : plan.windows = R!Whole(openEnded)
              \/ \E n \in FoldCounts : plan.windows = R!Windows(n)
           /\ mode # "preview" => /\ plan.candles \in [1..Bars -> Shapes]
                                  /\ R!Tradable(plan.goal)
                                  /\ \E r \in Requests : plan.goal = R!Sized(R!Run(r), r.use)
<1>1. PICK r \in Requests, bias \in {"both", "long", "short"}, anny \in BOOLEAN, candles \in [1..Bars -> Shapes] :
          \/ /\ mode = "preview" /\ R!Expected(R!ParsedGoal(r)) > 0
             /\ plan = R!Planned(R!ParsedGoal(r), "both", FALSE,
                                 [i \in 1..Bars |-> CHOOSE s \in Shapes : TRUE], R!Whole(TRUE))
          \/ /\ mode = "paper" /\ R!Tradable(R!Sized(R!Run(r), r.use))
             /\ plan = R!Planned(R!Sized(R!Run(r), r.use), bias, anny, candles, R!Whole(anny \/ r.unlimited))
          \/ /\ mode = "folds" /\ anny /\ R!Tradable(R!Sized(R!Run(r), r.use))
             /\ \E n \in FoldCounts :
                   /\ Bars >= n * (Warmup + 2)
                   /\ plan = R!Planned(R!Sized(R!Run(r), r.use), bias, anny, candles, R!Windows(n))
  BY DEF R!Init
<1>2. CASE mode = "preview"
  <2>0. PICK flat : flat = [i \in 1..Bars |-> CHOOSE s \in Shapes : TRUE]
    OBVIOUS
  <2>1. PICK no, all : plan = R!Planned(R!ParsedGoal(r), "both", no, flat, R!Whole(all))
    BY <1>1, <1>2, <2>0
  <2>2. plan.windows = R!Whole(all)
    BY <2>1, PlannedParts
  <2>3. QED
    BY <1>2, <2>2
<1>3. CASE mode = "paper"
  <2>1. PICK openEnded : plan = R!Planned(R!Sized(R!Run(r), r.use), bias, anny, candles, R!Whole(openEnded))
    BY <1>1, <1>3
  <2>2. plan.windows = R!Whole(openEnded) /\ plan.candles = candles /\ plan.goal = R!Sized(R!Run(r), r.use)
    BY <2>1, PlannedParts
  <2>3. R!Tradable(R!Sized(R!Run(r), r.use))
    BY <1>1, <1>3
  <2>4. QED
    BY <1>3, <2>2, <2>3
<1>4. CASE mode = "folds"
  <2>1. PICK n \in FoldCounts : plan = R!Planned(R!Sized(R!Run(r), r.use), bias, anny, candles, R!Windows(n))
    BY <1>1, <1>4
  <2>2. plan.windows = R!Windows(n) /\ plan.candles = candles /\ plan.goal = R!Sized(R!Run(r), r.use)
    BY <2>1, PlannedParts
  <2>3. R!Tradable(R!Sized(R!Run(r), r.use))
    BY <1>1, <1>4
  <2>4. QED
    BY <1>4, <2>2, <2>3
<1>5. QED
  BY <1>1, <1>2, <1>3, <1>4

LEMMA PaperInit == R!Init => PaperInv
<1> SUFFICES ASSUME R!Init PROVE PaperInv
  OBVIOUS
<1>1. mode \in {"preview", "paper", "folds"} /\ WindowsApart(plan.windows)
  BY PlanOfRun, WholeApart, FoldsApart
<1>2. fold = 1 /\ bar = plan.windows[1].test /\ trades = <<>> /\ results = <<>>
  BY DEF R!Init
<1>3. Len(plan.windows) \in Nat /\ Len(plan.windows) > 0 /\ plan.windows[1] \in Candles
  BY <1>1 DEF WindowsApart
<1>4. bar \in Nat /\ bar >= plan.windows[1].test
  BY <1>2, <1>3 DEF Candles
<1>5. IsSequence(<<>>) /\ Len(<<>>) = 0
  <2>1. <<>> \in Seq({})
    OBVIOUS
  <2>2. QED
    BY <2>1 DEF IsSequence
<1>6. QED
  BY <1>1, <1>2, <1>3, <1>4, <1>5 DEF PaperInv, TradesIn

LEMMA AppendedTo ==
    ASSUME NEW s, IsSequence(s), NEW e
    PROVE  /\ IsSequence(Append(s, e)) /\ Len(s) \in Nat /\ Len(Append(s, e)) = Len(s) + 1
           /\ Append(s, e)[Len(s) + 1] = e
           /\ \A k \in 1..Len(s) : Append(s, e)[k] = s[k]
           /\ DOMAIN s = 1..Len(s)
<1>1. PICK V : s \in Seq(V)
  BY DEF IsSequence
<1>2. PICK T : T = V \cup {e}
  OBVIOUS
<1>3. s \in Seq(T) /\ e \in T
  BY <1>1, <1>2
<1>4. Append(s, e) \in Seq(T)
  BY <1>3
<1>5. /\ Len(s) \in Nat /\ Len(Append(s, e)) = Len(s) + 1
      /\ Append(s, e)[Len(s) + 1] = e
      /\ \A k \in 1..Len(s) : Append(s, e)[k] = s[k]
      /\ DOMAIN s = 1..Len(s)
  BY <1>3
<1>6. QED
  BY <1>4, <1>5 DEF IsSequence

LEMMA PreviewStep == ASSUME PaperInv, R!Preview PROVE PaperInv'
<1>1. mode = "preview" /\ UNCHANGED <<mode, plan, fold, bar, results>> /\ \E t : trades' = Append(trades, t)
  BY DEF R!Preview
<1>2. IsSequence(trades')
  BY <1>1, AppendedTo DEF PaperInv
<1>3. QED
  BY <1>1, <1>2 DEF PaperInv, IsSequence

(* One more bar is passed over.                                             *)
LEMMA PassStep == ASSUME PaperInv, R!Running, R!Pass PROVE PaperInv'
<1>1. UNCHANGED <<mode, plan, fold, trades, results>> /\ bar' = bar + 1
  BY DEF R!Pass
<1>2. mode # "preview" /\ fold <= Len(plan.windows)
  BY DEF R!Running
<1>3. /\ bar \in Nat /\ bar >= plan.windows[fold].test
      /\ TradesIn(trades, plan.windows[fold])
      /\ \A k \in 1..Len(trades) : trades[k].exit \in Int /\ trades[k].exit < bar
  BY <1>2 DEF PaperInv, TradesIn
<1>4. plan.windows[fold].test \in Nat
  <2>1. plan.windows[fold] \in Candles
    BY <1>2 DEF PaperInv, WindowsApart
  <2>2. QED
    BY <2>1 DEF Candles
<1>5. bar' \in Nat /\ bar' >= plan.windows[fold].test
  BY <1>1, <1>3, <1>4
<1>6. \A k \in 1..Len(trades) : trades[k].exit < bar'
  BY <1>1, <1>3
<1>7. QED
  BY <1>1, <1>2, <1>3, <1>5, <1>6 DEF PaperInv, IsSequence, TradesIn

(* A window is over, and the next one starts at its first bar.              *)
LEMMA EndFoldStep == ASSUME PaperInv, R!Running, NEW verdict, R!EndFold(verdict) PROVE PaperInv'
<1>1. mode # "preview" /\ fold <= Len(plan.windows) /\ fold \in Nat \ {0} /\ Len(plan.windows) \in Nat
  BY DEF R!Running, PaperInv, WindowsApart
<1>2. PICK over : over = [trades |-> trades, verdict |-> verdict]
  OBVIOUS
<1>3. /\ results' = Append(results, over) /\ trades' = <<>> /\ fold' = fold + 1
      /\ bar' = IF fold < Len(plan.windows) THEN plan.windows[fold + 1].test ELSE bar
      /\ UNCHANGED <<mode, plan>>
  BY <1>2 DEF R!EndFold
<1>4. /\ IsSequence(results') /\ Len(results) = fold - 1 /\ Len(results') = fold
      /\ results'[fold] = over /\ \A f \in 1..(fold - 1) : results'[f] = results[f]
  <2>1. IsSequence(results) /\ Len(results) = fold - 1
    BY DEF PaperInv
  <2>2. Len(results) + 1 = fold
    BY <1>1, <2>1
  <2>3. QED
    BY <1>1, <1>3, <2>1, <2>2, AppendedTo
<1>5. \A f \in 1..fold : IsSequence(results'[f].trades) /\ TradesIn(results'[f].trades, plan.windows[f])
  <2> SUFFICES ASSUME NEW f \in 1..fold
               PROVE  IsSequence(results'[f].trades) /\ TradesIn(results'[f].trades, plan.windows[f])
    OBVIOUS
  <2>1. CASE f = fold
    <3>1. results'[f].trades = trades
      BY <1>2, <1>4, <2>1
    <3>2. QED
      BY <1>1, <2>1, <3>1 DEF PaperInv
  <2>2. CASE f # fold
    <3>1. f \in 1..Len(results) /\ results'[f] = results[f]
      BY <1>1, <1>4, <2>2
    <3>2. QED
      BY <3>1 DEF PaperInv
  <2>3. QED
    BY <2>1, <2>2
<1>6. IsSequence(trades') /\ Len(trades') = 0
  <2>1. <<>> \in Seq({})
    OBVIOUS
  <2>2. QED
    BY <1>3, <2>1 DEF IsSequence
<1>7. fold < Len(plan.windows) => bar' \in Nat /\ bar' >= plan.windows[fold + 1].test
  <2>1. fold < Len(plan.windows) => plan.windows[fold + 1] \in Candles
    BY <1>1 DEF PaperInv, WindowsApart
  <2>2. QED
    BY <1>3, <2>1 DEF Candles
<1>8. QED
  BY <1>1, <1>3, <1>4, <1>5, <1>6, <1>7 DEF PaperInv, TradesIn

(* A trade is resolved on a later bar of the window.                        *)
LEMMA ResolvedLater ==
    ASSUME bar \in Nat, R!Window.end \in Int, bar < R!Window.end, NEW side, NEW level
    PROVE  R!Resolve(side, level).exit \in (bar + 1)..R!Window.end
<1>0. MaxHold \in Nat \ {0}
  BY FrontAssumption DEF R!PaperAssumption
<1>1. PICK last \in (bar + 1)..R!Window.end : last = R!Min({R!Window.end, bar + MaxHold})
  <2>1. PICK hold \in Int : hold = bar + MaxHold
    BY <1>0
  <2>2. R!Min({R!Window.end, hold}) \in {R!Window.end, hold} /\ R!Min({R!Window.end, hold}) <= R!Window.end
    BY <2>1, LeastOfBoth
  <2>3. QED
    BY <1>0, <2>1, <2>2
<1>2. last \in Int /\ last >= bar + 1 /\ last <= R!Window.end
  OBVIOUS
<1>3. PICK seen \in SUBSET Nat : seen = (bar + 1)..last
  OBVIOUS
<1>4. R!Max(seen) = last /\ seen \subseteq (bar + 1)..R!Window.end /\ last \in seen
  <2>1. PICK a \in Int : a = bar + 1
    OBVIOUS
  <2>2. R!Max(a..last) = last
    BY <1>2, <2>1, LastOfRange
  <2>3. QED
    BY <1>2, <1>3, <2>1, <2>2
<1>5. PICK hits \in SUBSET seen :
         hits = {j \in seen : R!Stopped(side, level, plan.candles[j]) \/ R!Reached(side, level, plan.candles[j])}
  OBVIOUS
<1>6. CASE hits = {}
  BY <1>1, <1>3, <1>4, <1>5, <1>6 DEF R!Resolve
<1>7. CASE hits # {}
  <2>1. R!Min(hits) \in hits
    BY <1>7, LeastOf
  <2>2. R!Resolve(side, level).exit = R!Min(hits)
    BY <1>1, <1>3, <1>5, <1>7 DEF R!Resolve
  <2>3. QED
    BY <1>4, <2>1, <2>2
<1>8. QED
  BY <1>6, <1>7

LEMMA TradeStep ==
    ASSUME PaperInv, R!Looking, NEW side, R!Enter(side)
    PROVE  PaperInv'
<1>1. /\ mode # "preview" /\ fold <= Len(plan.windows) /\ fold \in Nat \ {0} /\ bar < R!Window.end
      /\ R!Window = plan.windows[fold] /\ R!Window \in Candles /\ R!Window.from <= R!Window.test
  BY DEF R!Looking, R!Running, R!Window, PaperInv, WindowsApart
<1>2. /\ bar \in Nat /\ bar >= R!Window.test /\ TradesIn(trades, R!Window)
      /\ \A k \in 1..Len(trades) : trades[k].exit < bar
      /\ R!Window.from \in Nat /\ R!Window.test \in Nat /\ R!Window.end \in Int
  BY <1>1 DEF PaperInv, Candles
<1>3. PICK exit, t :
         /\ exit \in (bar + 1)..R!Window.end
         /\ trades' = Append(trades, t) /\ t.entry = bar /\ t.exit = exit
         /\ bar' = R!NextBar(exit) /\ UNCHANGED <<mode, plan, fold, results>>
  <2>1. PICK level : level = R!Bracket(side, plan.candles[bar].close, R!StopPct)
    OBVIOUS
  <2>2. PICK exit \in (bar + 1)..R!Window.end : exit = R!Resolve(side, level).exit
    BY <1>1, <1>2, ResolvedLater
  <2>3. PICK pnl : pnl = R!Booked(side, R!StopPct, R!Resolve(side, level))
    OBVIOUS
  <2>4. PICK t : t = [entry |-> bar, exit |-> exit, pnl |-> pnl, running |-> R!Pnl + pnl]
    OBVIOUS
  <2>5. trades' = Append(trades, t) /\ bar' = R!NextBar(exit) /\ UNCHANGED <<mode, plan, fold, results>>
    BY <2>1, <2>2, <2>3, <2>4 DEF R!Enter
  <2>6. t.entry = bar /\ t.exit = exit
    BY <2>4
  <2>7. QED
    BY <2>5, <2>6
<1>4. /\ IsSequence(trades') /\ Len(trades) \in Nat /\ Len(trades') = Len(trades) + 1
      /\ trades'[Len(trades) + 1] = t /\ \A k \in 1..Len(trades) : trades'[k] = trades[k]
  BY <1>3, AppendedTo DEF PaperInv
<1>5. bar' = exit + 1 /\ bar' \in Nat /\ bar' > bar
  BY <1>2, <1>3 DEF R!NextBar
<1>6. TradesIn(trades', R!Window)
  <2>1. ASSUME NEW k \in 1..Len(trades')
        PROVE  /\ trades'[k].entry \in Int /\ trades'[k].exit \in Int
               /\ R!Window.from <= trades'[k].entry /\ trades'[k].entry < trades'[k].exit
               /\ trades'[k].exit <= R!Window.end
    <3>1. CASE k = Len(trades) + 1
      BY <1>1, <1>2, <1>3, <1>4, <3>1
    <3>2. CASE k # Len(trades) + 1
      <4>1. k \in 1..Len(trades)
        BY <1>4, <3>2
      <4>2. QED
        BY <1>2, <1>4, <4>1 DEF TradesIn
    <3>3. QED
      BY <3>1, <3>2
  <2>2. ASSUME NEW k \in 2..Len(trades') PROVE trades'[k - 1].exit < trades'[k].entry
    <3>1. CASE k = Len(trades) + 1
      <4>1. k - 1 \in 1..Len(trades) /\ trades'[k - 1] = trades[k - 1]
        BY <1>4, <3>1
      <4>2. QED
        BY <1>2, <1>3, <1>4, <3>1, <4>1
    <3>2. CASE k # Len(trades) + 1
      <4>1. k \in 2..Len(trades) /\ k - 1 \in 1..Len(trades) /\ k \in 1..Len(trades)
        BY <1>4, <3>2
      <4>2. QED
        BY <1>2, <1>4, <4>1 DEF TradesIn
    <3>3. QED
      BY <3>1, <3>2
  <2>3. QED
    BY <2>1, <2>2 DEF TradesIn
<1>7. \A k \in 1..Len(trades') : trades'[k].exit < bar'
  <2> SUFFICES ASSUME NEW k \in 1..Len(trades') PROVE trades'[k].exit < bar'
    OBVIOUS
  <2>1. CASE k = Len(trades) + 1
    BY <1>3, <1>4, <1>5, <2>1
  <2>2. CASE k # Len(trades) + 1
    <3>1. k \in 1..Len(trades)
      BY <1>4, <2>2
    <3>2. trades[k].exit < bar /\ trades[k].exit \in Int
      BY <1>2, <3>1 DEF TradesIn
    <3>3. QED
      BY <1>2, <1>4, <1>5, <3>1, <3>2
  <2>3. QED
    BY <2>1, <2>2
<1>8. bar' >= R!Window.test
  BY <1>2, <1>5
<1>9. QED
  BY <1>1, <1>3, <1>4, <1>5, <1>6, <1>7, <1>8 DEF PaperInv

LEMMA PaperStep == PaperInv /\ R!Next => PaperInv'
<1> SUFFICES ASSUME PaperInv, R!Next PROVE PaperInv'
  OBVIOUS
<1>1. CASE R!Preview
  BY <1>1, PreviewStep
<1>2. ASSUME R!Running, NEW verdict, R!EndFold(verdict) PROVE PaperInv'
  BY <1>2, EndFoldStep
<1>3. CASE R!Looking /\ (R!Pass \/ \E side : R!Enter(side))
  BY <1>3, PassStep, TradeStep DEF R!Looking
<1>4. R!Preview \/ (R!Running /\ \E verdict : R!EndFold(verdict))
      \/ (R!Looking /\ (R!Pass \/ \E side : R!Enter(side)))
  BY DEF R!Next, R!Finish, R!AnnyWarmup, R!AnnyStop, R!AnnyBar, R!SignalBar, R!Take, R!Looking
<1>5. QED
  BY <1>1, <1>2, <1>3, <1>4

LEMMA BookOf ==
    ASSUME PaperInv
    PROVE  /\ \A book \in R!Books : IsSequence(book) /\ \E w : TradesIn(book, w)
           /\ DOMAIN results = 1..Len(results) /\ DOMAIN plan.windows = 1..Len(plan.windows)
           /\ Len(results) \in Nat /\ Len(plan.windows) \in Nat /\ Len(results) <= Len(plan.windows)
<1>1. DOMAIN results = 1..Len(results)
  BY AppendedTo DEF PaperInv
<1>2. DOMAIN plan.windows = 1..Len(plan.windows) /\ Len(plan.windows) \in Nat
  BY DEF PaperInv, WindowsApart
<1>3. Len(results) \in Nat /\ Len(results) <= Len(plan.windows)
  BY <1>2 DEF PaperInv
<1>4. ASSUME NEW book \in R!Books PROVE IsSequence(book) /\ \E w : TradesIn(book, w)
  <2>1. CASE \E f \in DOMAIN results : book = results[f].trades
    BY <1>1, <2>1 DEF PaperInv
  <2>2. CASE book = trades /\ mode # "preview"
    <3>1. CASE fold <= Len(plan.windows)
      BY <2>2, <3>1 DEF PaperInv
    <3>2. CASE fold > Len(plan.windows)
      <4>1. book = <<>> /\ IsSequence(book)
        BY <2>2, <3>2 DEF PaperInv
      <4>2. QED
        BY <4>1 DEF TradesIn
    <3>3. QED
      BY <1>2, <3>1, <3>2 DEF PaperInv
  <2>3. QED
    BY <2>1, <2>2 DEF R!Books
<1>5. QED
  BY <1>1, <1>2, <1>3, <1>4

LEMMA TradesApart == PaperInv => R!TradesAreApart
<1> SUFFICES ASSUME PaperInv PROVE R!TradesAreApart
  OBVIOUS
<1>1. ASSUME NEW book \in R!Books, NEW k \in DOMAIN book
      PROVE  /\ book[k].entry < book[k].exit
             /\ k > 1 => book[k - 1].exit < book[k].entry
  <2>1. PICK w : TradesIn(book, w)
    BY BookOf
  <2>2. DOMAIN book = 1..Len(book) /\ Len(book) \in Nat
    BY BookOf, AppendedTo
  <2>3. QED
    BY <2>1, <2>2 DEF TradesIn
<1>2. ASSUME NEW f \in DOMAIN results, NEW k \in DOMAIN results[f].trades,
             NEW w \in DOMAIN plan.windows, w # f
      PROVE  \/ results[f].trades[k].exit < plan.windows[w].from
             \/ plan.windows[w].end < results[f].trades[k].entry
  <2>1. f \in 1..Len(results) /\ f \in DOMAIN plan.windows
    BY BookOf
  <2>2. TradesIn(results[f].trades, plan.windows[f]) /\ IsSequence(results[f].trades)
    BY <2>1 DEF PaperInv
  <2>3. k \in 1..Len(results[f].trades)
    BY <2>2, AppendedTo
  <2>4. PICK t : t = results[f].trades[k]
    OBVIOUS
  <2>5. /\ t.entry \in Int /\ t.exit \in Int
        /\ plan.windows[f].from <= t.entry /\ t.exit <= plan.windows[f].end
    BY <2>2, <2>3, <2>4 DEF TradesIn
  <2>6. plan.windows[f] \in Candles /\ plan.windows[w] \in Candles /\ (f < w \/ w < f)
    <3>1. f \in 1..Len(plan.windows) /\ w \in 1..Len(plan.windows)
      BY <2>1, BookOf
    <3>2. QED
      BY <1>2, <3>1 DEF PaperInv, WindowsApart
  <2>7. /\ f < w => plan.windows[f].end < plan.windows[w].from
        /\ w < f => plan.windows[w].end < plan.windows[f].from
    BY <2>1 DEF PaperInv, WindowsApart
  <2>8. t.exit < plan.windows[w].from \/ plan.windows[w].end < t.entry
    BY <2>5, <2>6, <2>7 DEF Candles
  <2>9. QED
    BY <2>4, <2>8
<1>3. QED
  BY <1>1, <1>2 DEF R!TradesAreApart

-----------------------------------------------------------------------------
(* Induction, over a set.                                                   *)
LEMMA UpTo ==
    ASSUME NEW n \in Nat, NEW T, 0 \in T, \A k \in 0..n : k < n /\ k \in T => k + 1 \in T
    PROVE  0..n \subseteq T
<1> SUFFICES ASSUME (0..n) \ T # {} PROVE FALSE
  OBVIOUS
<1>1. PICK missed : missed = (0..n) \ T
  OBVIOUS
<1>0. missed \subseteq Nat /\ missed # {}
  BY <1>1
<1>2. R!Min(missed) \in missed /\ \A y \in missed : R!Min(missed) <= y
  BY <1>0, LeastOf
<1>3. PICK k \in Nat : k = R!Min(missed) /\ k \in 0..n /\ k \notin T /\ k # 0
  BY <1>0, <1>1, <1>2
<1>4. k - 1 \in 0..n /\ k - 1 < n /\ k - 1 \notin missed
  BY <1>2, <1>3
<1>5. k - 1 \in T /\ k - 1 + 1 = k
  BY <1>1, <1>3, <1>4
<1>6. QED
  BY <1>3, <1>4, <1>5

(* A function that is declared by its first value and a step to the next.   *)
Grows(g, n, z, step) == g[0] = z /\ \A k \in 1..n : g[k] = step[k][g[k - 1]]

LEMMA StepByStep ==
    ASSUME NEW n \in Nat, NEW V, NEW z \in V, NEW step \in [1..n -> [V -> V]]
    PROVE  \E g \in [0..n -> V] : Grows(g, n, z, step)
<1> DEFINE Fits(g, m) == /\ g \in [0..m -> V] /\ g[0] = z
                         /\ \A k \in 1..m : g[k] = step[k][g[k - 1]]
           T == {m \in 0..n : \E g : Fits(g, m)}
<1>1. 0 \in T
  <2>1. PICK g : g = [k \in 0..0 |-> z]
    OBVIOUS
  <2>2. Fits(g, 0) /\ 0 \in 0..n
    BY <2>1
  <2>3. QED
    BY <2>2
<1>2. ASSUME NEW m \in 0..n, m < n, m \in T PROVE m + 1 \in T
  <2>1. PICK h : Fits(h, m)
    BY <1>2
  <2>2. m + 1 \in 1..n /\ m \in 0..m /\ h[m] \in V
    BY <1>2, <2>1
  <2>3. PICK last \in V : last = step[m + 1][h[m]]
    BY <2>2
  <2>4. PICK g : g = [k \in 0..(m + 1) |-> IF k <= m THEN h[k] ELSE last]
    OBVIOUS
  <2>5. g \in [0..(m + 1) -> V] /\ g[0] = z
    BY <2>1, <2>3, <2>4
  <2>6. ASSUME NEW k \in 1..(m + 1) PROVE g[k] = step[k][g[k - 1]]
    <3>1. CASE k <= m
      <4>1. k \in 1..m /\ k \in 0..(m + 1) /\ k - 1 \in 0..(m + 1) /\ k - 1 <= m
        BY <3>1
      <4>2. QED
        BY <2>1, <2>4, <4>1
    <3>2. CASE k = m + 1
      <4>1. k \in 0..(m + 1) /\ ~(k <= m) /\ k - 1 = m /\ m \in 0..(m + 1)
        BY <3>2
      <4>2. g[k] = last /\ g[k - 1] = h[m]
        BY <2>4, <4>1
      <4>3. QED
        BY <2>3, <3>2, <4>2
    <3>3. QED
      BY <3>1, <3>2
  <2>7. Fits(g, m + 1) /\ m + 1 \in 0..n
    BY <2>2, <2>5, <2>6
  <2> HIDE DEF Fits
  <2>8. QED
    BY <2>7
<1> HIDE DEF T
<1>3. n \in T
  <2>1. 0..n \subseteq T
    BY <1>1, <1>2, UpTo
  <2>2. QED
    BY <2>1
<1>4. QED
  BY <1>3 DEF T, Grows

(* The highest of finitely many numbers.                                    *)
LEMMA HighestOf ==
    ASSUME NEW n \in Nat, NEW g \in [0..n -> Int]
    PROVE  \E k \in 0..n : \A j \in 0..n : g[j] <= g[k]
<1> DEFINE T == {m \in 0..n : \E k \in 0..m : \A j \in 0..m : g[j] <= g[k]}
<1>1. 0 \in T
  OBVIOUS
<1>2. ASSUME NEW m \in 0..n, m < n, m \in T PROVE m + 1 \in T
  <2>1. PICK k \in 0..m : \A j \in 0..m : g[j] <= g[k]
    BY <1>2
  <2>2. \A j \in 0..(m + 1) : j \in 0..m \/ j = m + 1
    OBVIOUS
  <2>3. g[k] \in Int /\ g[m + 1] \in Int /\ \A j \in 0..m : g[j] \in Int
    BY <1>2
  <2>4. k \in 0..(m + 1) /\ m + 1 \in 0..(m + 1) /\ m + 1 \in 0..n
    BY <1>2
  <2>5. CASE g[m + 1] <= g[k]
    <3>1. \A j \in 0..(m + 1) : g[j] <= g[k]
      BY <2>1, <2>2, <2>5
    <3>2. QED
      BY <2>4, <3>1
  <2>6. CASE ~(g[m + 1] <= g[k])
    <3>1. \A j \in 0..(m + 1) : g[j] <= g[m + 1]
      BY <2>1, <2>2, <2>3, <2>6
    <3>2. QED
      BY <2>4, <3>1
  <2>7. QED
    BY <2>5, <2>6
<1> HIDE DEF T
<1>3. 0..n \subseteq T
  BY <1>1, <1>2, UpTo
<1>4. n \in T
  BY <1>3
<1>5. QED
  BY <1>4 DEF T

(* What a division gives less of, the larger the divisor.                   *)
LEMMA Divided ==
    ASSUME NEW a \in Nat, NEW d \in Nat \ {0}, NEW e \in Nat \ {0}, d <= e
    PROVE  a \div e \in Nat /\ a \div d \in Nat /\ a \div e <= a \div d
<1>1. PICK p, q : p = a \div d /\ q = a \div e
  OBVIOUS
<1>2. p \in Nat /\ q \in Nat
  BY <1>1
<1>3. a < (p + 1) * d
  BY <1>1
<1>4. q * e <= a
  BY <1>1
<1>5. CASE q > p
  <2>1. PICK x \in Nat : q = p + 1 + x
    BY <1>2, <1>5
  <2>2. PICK y \in Nat : e = d + y
    OBVIOUS
  <2>3. q * e = (p + 1) * d + x * d + q * y
    BY <1>2, <2>1, <2>2
  <2>4. x * d \in Nat /\ q * y \in Nat /\ (p + 1) * d \in Nat
    BY <1>2
  <2>5. QED
    BY <1>2, <1>3, <1>4, <2>3, <2>4
<1>6. QED
  BY <1>1, <1>2, <1>5

-----------------------------------------------------------------------------
(* What a run may lose.                                                      *)
GoalTrue(g) ==
    /\ g.target \in Int /\ g.budget \in Nat /\ g.maxTrades \in Nat
    /\ g.reward \in Nat \ {0} /\ g.risk \in Nat \ {0}
    /\ g.budget > 0 => g.risk <= g.budget

Cost == (FeeRate * ((plan.goal.risk * 1000) \div MinStop)) \div 1000

Kept(ts) ==
    /\ \A k \in 1..Len(ts) :
          /\ ts[k].pnl \in Int /\ ts[k].running \in Int
          /\ ts[k].pnl >= -(plan.goal.risk + Cost)
          /\ k = 1 => ts[k].running = ts[k].pnl
    /\ \A k \in 2..Len(ts) : ts[k].running = ts[k - 1].running + ts[k].pnl
    /\ \A k \in 1..Len(ts) : k < Len(ts) => R!Verdict(plan.goal, ts[k].running, k) = "continue"

MoneyInv ==
    mode # "preview" =>
       /\ GoalTrue(plan.goal) /\ plan.candles \in [1..Bars -> Shapes]
       /\ Kept(trades) /\ \A f \in 1..Len(results) : Kept(results[f].trades)

(* The goal of a run: its risk is inside its budget, unless it has none.    *)
LEMMA SizedGoal ==
    ASSUME NEW r \in Requests, R!Tradable(R!Sized(R!Run(r), r.use))
    PROVE  GoalTrue(R!Sized(R!Run(r), r.use))
<1> DEFINE Goals == [target: Int, capital: Nat \ {0}, budget: Nat, reward: Nat, risk: Nat,
                     winRate: Int, maxTrades: Nat]
<1>0. /\ r.profit \in Nat \ {0} /\ r.capital \in Nat \ {0} /\ MaxTrades \in Nat
      /\ r.risk \in Int /\ r.use \in Int /\ r.winRate \in Int
  BY FrontAssumption DEF R!PaperAssumption
<1>1. PICK p : p = R!ParsedGoal(r)
  OBVIOUS
<1>2. p \in Goals /\ p.risk <= p.budget
  <2>1. PICK part100 \in 1..100 : part100 = R!Risk(r.risk)
    BY <1>0 DEF R!Risk
  <2>2. PICK whole \in Nat : whole = r.capital * part100 /\ whole >= r.capital
    <3>1. PICK x \in Nat : part100 = 1 + x
      BY <2>1
    <3>2. r.capital * part100 = r.capital + r.capital * x /\ r.capital * x \in Nat
      BY <1>0, <3>1
    <3>3. QED
      BY <1>0, <3>2
  <2>3. p = [target |-> r.profit, capital |-> r.capital, budget |-> whole \div 100,
             reward |-> (r.capital * 2) \div 100, risk |-> r.capital \div 100,
             winRate |-> r.winRate, maxTrades |-> MaxTrades]
    BY <1>1, <2>1, <2>2 DEF R!ParsedGoal
  <2>4. /\ whole \div 100 \in Nat /\ r.capital \div 100 \in Nat /\ (r.capital * 2) \div 100 \in Nat
        /\ r.capital \div 100 <= whole \div 100
    BY <1>0, <2>2
  <2>5. QED
    BY <1>0, <2>3, <2>4
<1>3. PICK g : g = R!Run(r)
  OBVIOUS
<1>4. g \in Goals /\ g.risk <= g.budget
  <2>1. CASE r.unlimited
    <3>1. g = [p EXCEPT !.maxTrades = 0]
      BY <1>1, <1>3, <2>1 DEF R!Run
    <3>2. QED
      BY <1>2, <3>1
  <2>2. CASE ~r.unlimited
    BY <1>1, <1>2, <1>3, <2>2 DEF R!Run
  <2>3. QED
    BY <2>1, <2>2
<1>5. PICK use \in 1..100 : use = IF r.use <= 0 THEN 25 ELSE IF r.use > 100 THEN 100 ELSE r.use
  BY <1>0
<1>6. PICK scaled \in Nat : scaled = (g.capital * (4 * use)) \div 10000
  <2>1. g.capital * (4 * use) \in Nat
    BY <1>4
  <2>2. QED
    BY <2>1
<1>7. PICK risk \in Nat : risk = IF g.budget > 0 /\ scaled > g.budget THEN g.budget ELSE scaled
  BY <1>4
<1>8. PICK s : s = R!Sized(g, r.use)
  OBVIOUS
<1>9. CASE scaled <= 0
  <2>1. s = g
    BY <1>5, <1>6, <1>8, <1>9 DEF R!Sized
  <2>2. s.risk > 0 /\ s.reward > 0
    BY <1>3, <1>8 DEF R!Tradable
  <2>3. QED
    BY <1>3, <1>4, <1>8, <2>1, <2>2 DEF GoalTrue
<1>10. CASE scaled > 0
  <2>1. s = [g EXCEPT !.risk = risk, !.reward = 2 * risk]
    BY <1>5, <1>6, <1>7, <1>8, <1>10 DEF R!Sized
  <2>2. PICK double : double = 2 * risk
    OBVIOUS
  <2>3. PICK half : half = [g EXCEPT !.risk = risk]
    OBVIOUS
  <2>4. s = [half EXCEPT !.reward = double]
    BY <2>1, <2>2, <2>3
  <2>5. half \in Goals /\ half.risk = risk /\ half.budget = g.budget
    BY <1>4, <2>3
  <2>6. /\ s.target \in Int /\ s.budget = g.budget /\ s.maxTrades \in Nat
        /\ s.risk = risk /\ s.reward = double
    BY <2>4, <2>5
  <2>7. s.risk > 0 /\ g.budget \in Nat /\ (g.budget > 0 => risk <= g.budget)
    BY <1>4, <1>7, <1>10, <2>6
  <2>8. QED
    BY <1>3, <1>8, <2>2, <2>6, <2>7 DEF GoalTrue
<1>11. QED
  BY <1>9, <1>10

LEMMA MoneyInit == ASSUME R!Init PROVE MoneyInv
<1>1. trades = <<>> /\ results = <<>> /\ Len(<<>>) = 0
  BY DEF R!Init
<1>2. mode # "preview" => GoalTrue(plan.goal) /\ plan.candles \in [1..Bars -> Shapes]
  BY PlanOfRun, SizedGoal
<1>3. QED
  BY <1>1, <1>2 DEF MoneyInv, Kept

(* The bar that is looked at, and its candle.                               *)
LEMMA BarLooked ==
    ASSUME PaperInv, MoneyInv, R!Looking
    PROVE  /\ mode # "preview" /\ R!Window.from \in Nat \ {0} /\ bar \in Nat /\ bar >= R!Window.from
           /\ bar < R!Window.end /\ R!Window.end \in Int /\ R!Window.end <= Bars
           /\ GoalTrue(plan.goal)
           /\ \A j \in 1..Bars : /\ plan.candles[j].low \in Nat /\ plan.candles[j].high \in Nat
                                 /\ plan.candles[j].close \in Nat \ {0}
<1>1. /\ mode # "preview" /\ fold <= Len(plan.windows) /\ fold \in Nat \ {0} /\ bar < R!Window.end
      /\ R!Window = plan.windows[fold] /\ R!Window \in Candles /\ R!Window.from <= R!Window.test
      /\ R!Window.end <= Bars
  BY DEF R!Looking, R!Running, R!Window, PaperInv, WindowsApart
<1>2. bar \in Nat /\ bar >= R!Window.test
  BY <1>1 DEF PaperInv
<1>3. GoalTrue(plan.goal) /\ plan.candles \in [1..Bars -> Shapes]
  BY <1>1 DEF MoneyInv
<1>4. \A s \in Shapes : s.low \in Nat /\ s.high \in Nat /\ s.close \in Nat \ {0}
  BY FrontAssumption DEF R!PaperAssumption
<1>5. \A j \in 1..Bars : plan.candles[j] \in Shapes
  BY <1>3
<1>6. QED
  BY <1>1, <1>2, <1>3, <1>4, <1>5 DEF Candles

LEMMA GreatestOfThree ==
    ASSUME NEW a \in Int, NEW b \in Int, NEW c \in Int
    PROVE  R!Max({a, b, c}) \in Int
<1>1. PICK x \in {a, b, c} : \A y \in {a, b, c} : x >= y
  <2>1. CASE a >= b /\ a >= c
    BY <2>1
  <2>2. CASE b >= a /\ b >= c
    BY <2>2
  <2>3. CASE c >= a /\ c >= b
    BY <2>3
  <2>4. QED
    BY <2>1, <2>2, <2>3
<1>2. R!Max({a, b, c}) \in {a, b, c}
  BY <1>1 DEF R!Max
<1>3. QED
  BY <1>2

LEMMA RangesAreTrue ==
    ASSUME PaperInv, MoneyInv, R!Looking, NEW j \in 2..Bars
    PROVE  R!TrueRange(j) \in Int
<1>0. Bars \in Nat
  BY FrontAssumption DEF R!PaperAssumption
<1>1. j \in 1..Bars /\ j - 1 \in 1..Bars
  BY <1>0
<1>2. PICK c, d : c = plan.candles[j] /\ d = plan.candles[j - 1]
  OBVIOUS
<1>3. c.low \in Nat /\ c.high \in Nat /\ c.close \in Nat \ {0} /\ d.close \in Nat
  BY <1>1, <1>2, BarLooked
<1>4. c.high - c.low \in Int /\ R!Distance(c.high, d.close) \in Int /\ R!Distance(c.low, d.close) \in Int
  BY <1>3 DEF R!Distance
<1>5. PICK most \in Int : most = R!Max({c.high - c.low, R!Distance(c.high, d.close), R!Distance(c.low, d.close)})
  BY <1>4, GreatestOfThree
<1>6. R!TrueRange(j) = (1000 * most) \div c.close
  BY <1>2, <1>5 DEF R!TrueRange
<1>7. QED
  BY <1>3, <1>5, <1>6

LEMMA StopDistance ==
    ASSUME PaperInv, MoneyInv, R!Looking
    PROVE  R!StopPct \in Nat /\ R!StopPct >= MinStop
<1>0. /\ Lookback \in Nat \ {0} /\ MinStop \in Nat \ {0} /\ MaxStop \in Nat /\ MaxStop >= MinStop
      /\ AtrMult \in Nat /\ bar \in Nat \ {0} /\ bar <= Bars /\ Bars \in Nat /\ R!Window.from \in Nat \ {0}
  BY FrontAssumption, BarLooked DEF R!PaperAssumption
<1>1. PICK start \in Nat : start = R!Max({bar - Lookback + 1, R!Window.from + 1}) /\ start >= 2
  <2>1. PICK p \in Int, q \in Int : p = bar - Lookback + 1 /\ q = R!Window.from + 1 /\ q >= 2
    BY <1>0
  <2>2. R!Max({p, q}) \in {p, q} /\ R!Max({p, q}) >= q
    BY <2>1, GreatestOfBoth
  <2>3. QED
    BY <2>1, <2>2
<1> DEFINE Sum(s) == s = [j \in 0..bar |-> IF j < start THEN 0 ELSE s[j - 1] + R!TrueRange(j)]
<1>2. PICK range \in [1..bar -> Int] : \A j \in 1..bar : j >= start => range[j] = R!TrueRange(j)
  <2>1. PICK range : range = [j \in 1..bar |-> IF j >= start THEN R!TrueRange(j) ELSE 0]
    OBVIOUS
  <2>2. \A j \in 1..bar : j >= start => R!TrueRange(j) \in Int
    <3>1. \A j \in 1..bar : j >= start => j \in 2..Bars
      BY <1>0, <1>1
    <3>2. QED
      BY <3>1, RangesAreTrue
  <2>3. range \in [1..bar -> Int]
    BY <2>1, <2>2
  <2>4. QED
    BY <2>1, <2>3
<1>3. \E s : Sum(s)
  <2>1. PICK step : step = [j \in 1..bar |-> [v \in Int |-> IF j < start THEN 0 ELSE v + range[j]]]
    OBVIOUS
  <2>2. step \in [1..bar -> [Int -> Int]]
    BY <1>2, <2>1
  <2>3. PICK s \in [0..bar -> Int] : s[0] = 0 /\ \A j \in 1..bar : s[j] = step[j][s[j - 1]]
    <3>1. bar \in Nat /\ 0 \in Int
      BY <1>0
    <3>2. PICK s \in [0..bar -> Int] : Grows(s, bar, 0, step)
      BY <2>2, <3>1, StepByStep
    <3>3. QED
      BY <3>2 DEF Grows
  <2>4. ASSUME NEW j \in 0..bar PROVE s[j] = IF j < start THEN 0 ELSE s[j - 1] + R!TrueRange(j)
    <3>1. CASE j = 0
      BY <1>1, <2>3, <3>1
    <3>2. CASE j # 0
      <4>1. j \in 1..bar /\ j - 1 \in 0..bar
        BY <1>0, <3>2
      <4>2. PICK v \in Int : v = s[j - 1]
        BY <2>3, <4>1
      <4>3. s[j] = step[j][v]
        BY <2>3, <4>1, <4>2
      <4>4. s[j] = IF j < start THEN 0 ELSE v + range[j]
        BY <2>1, <4>1, <4>2, <4>3
      <4>5. j >= start => range[j] = R!TrueRange(j)
        BY <1>2, <4>1
      <4>6. j \in Int
        OBVIOUS
      <4>7. QED
        BY <1>1, <4>2, <4>4, <4>5, <4>6
    <3>3. QED
      BY <3>1, <3>2
  <2>5. s = [j \in 0..bar |-> s[j]]
    BY <2>3
  <2>6. Sum(s)
    BY <2>4, <2>5
  <2> HIDE DEF Sum
  <2>7. QED
    BY <2>6
<1>4. PICK s : s = (CHOOSE w : Sum(w))
  OBVIOUS
<1>5. Sum(s)
  BY <1>3, <1>4
<1>6. s[bar] \in Int
  <2>1. PICK T : T = {j \in 0..bar : s[j] \in Int}
    OBVIOUS
  <2>2. \A j \in 0..bar : s[j] = IF j < start THEN 0 ELSE s[j - 1] + R!TrueRange(j)
    BY <1>5
  <2>3. 0 \in T
    <3>1. 0 \in 0..bar /\ 0 < start
      BY <1>0, <1>1
    <3>2. s[0] = 0
      BY <2>2, <3>1
    <3>3. QED
      BY <2>1, <3>1, <3>2
  <2>4. ASSUME NEW j \in 0..bar, j < bar, j \in T PROVE j + 1 \in T
    <3>1. j + 1 \in 0..bar /\ j + 1 \in 1..bar /\ j + 1 - 1 = j /\ s[j] \in Int
      BY <1>0, <2>1, <2>4
    <3>2. s[j + 1] = IF j + 1 < start THEN 0 ELSE s[j] + R!TrueRange(j + 1)
      BY <2>2, <3>1
    <3>3. j + 1 >= start => R!TrueRange(j + 1) \in Int
      BY <1>2, <3>1
    <3>4. QED
      BY <1>1, <2>1, <3>1, <3>2, <3>3
  <2>5. 0..bar \subseteq T
    BY <1>0, <2>3, <2>4, UpTo
  <2>6. QED
    BY <1>0, <2>1, <2>5
<1>7. PICK atr \in Int : atr = IF bar < start THEN 0 ELSE s[bar] \div (bar - start + 1)
  BY <1>0, <1>1, <1>6
<1>8. R!StopPct = R!Min({R!Max({AtrMult * atr, MinStop}), MaxStop})
  BY <1>1, <1>4, <1>7 DEF R!StopPct
<1>9. PICK wide \in Int : wide = R!Max({AtrMult * atr, MinStop}) /\ wide >= MinStop
  <2>1. PICK p \in Int : p = AtrMult * atr
    BY <1>0
  <2>2. MinStop \in Int
    BY <1>0
  <2>3. R!Max({p, MinStop}) \in {p, MinStop} /\ R!Max({p, MinStop}) >= MinStop
    BY <2>2, GreatestOfBoth
  <2>4. QED
    BY <1>0, <2>1, <2>3
<1>10. R!Min({wide, MaxStop}) \in {wide, MaxStop}
  <2>1. MaxStop \in Int
    BY <1>0
  <2>2. QED
    BY <2>1, LeastOfBoth
<1>11. QED
  BY <1>0, <1>8, <1>9, <1>10

(* No trade loses more than its risk and the fees of the largest position.  *)
LEMMA BookedLoss ==
    ASSUME PaperInv, MoneyInv, R!Looking, NEW side, NEW pct \in Nat, pct >= MinStop,
           NEW resolved, resolved.exit \in 1..Bars
    PROVE  /\ R!Booked(side, pct, resolved) \in Int
           /\ R!Booked(side, pct, resolved) >= -(plan.goal.risk + Cost) /\ Cost \in Nat
<1>0. MinStop \in Nat \ {0} /\ FeeRate \in Nat
  BY FrontAssumption DEF R!PaperAssumption
<1>1. PICK risk \in Nat, reward \in Nat : risk = plan.goal.risk /\ reward = plan.goal.reward
  BY BarLooked DEF GoalTrue
<1>2. PICK whole \in Nat : whole = risk * 1000
  OBVIOUS
<1>3. PICK notional \in Nat, limit \in Nat :
         notional = whole \div pct /\ limit = whole \div MinStop /\ notional <= limit
  <2>1. pct \in Nat \ {0}
    BY <1>0
  <2>2. whole \div pct \in Nat /\ whole \div MinStop \in Nat /\ whole \div pct <= whole \div MinStop
    BY <1>0, <2>1, Divided
  <2>3. QED
    BY <2>2
<1>4. PICK fee \in Nat : fee = (FeeRate * notional) \div 1000 /\ fee <= Cost /\ Cost \in Nat
  <2>1. PICK x \in Nat : limit = notional + x
    <3>1. limit - notional \in Nat /\ limit = notional + (limit - notional)
      BY <1>3
    <3>2. QED
      BY <3>1
  <2>2. PICK p \in Nat, q \in Nat : p = FeeRate * notional /\ q = FeeRate * x /\ FeeRate * limit = p + q
    BY <1>0, <2>1
  <2>3. Cost = (p + q) \div 1000
    BY <1>1, <1>2, <1>3, <2>2 DEF Cost
  <2>4. p \div 1000 \in Nat /\ p \div 1000 <= (p + q) \div 1000 /\ (p + q) \div 1000 \in Nat
    OBVIOUS
  <2>5. QED
    BY <2>2, <2>3, <2>4
<1>5. PICK entry \in Nat \ {0}, last \in Nat :
         entry = plan.candles[bar].close /\ last = plan.candles[resolved.exit].close
  <2>1. bar \in 1..Bars
    <3>1. Bars \in Nat
      BY FrontAssumption DEF R!PaperAssumption
    <3>2. QED
      BY <3>1, BarLooked
  <2>2. QED
    BY <2>1, BarLooked
<1>6. PICK gain \in Int : gain = (last - entry) * (IF side = "long" THEN 1 ELSE -1)
  OBVIOUS
<1>7. PICK raw \in Int : raw = (gain * notional) \div entry
  OBVIOUS
<1>8. R!Clamped(raw, -risk, reward) \in Int /\ R!Clamped(raw, -risk, reward) >= -risk
  <2>1. PICK p \in Int, q \in Int : p = -risk /\ q = reward
    OBVIOUS
  <2>2. R!Min({q, raw}) \in {q, raw}
    BY LeastOfBoth
  <2>3. PICK low \in Int : low = R!Min({q, raw})
    BY <2>2
  <2>4. R!Max({p, low}) \in {p, low} /\ R!Max({p, low}) >= p
    BY GreatestOfBoth
  <2>5. R!Clamped(raw, p, q) \in Int /\ R!Clamped(raw, p, q) >= p
    BY <2>3, <2>4 DEF R!Clamped
  <2>6. QED
    BY <2>1, <2>5
<1>9. PICK gross \in Int :
          /\ gross >= -risk
          /\ gross = CASE resolved.outcome = "tp" -> reward
                       [] resolved.outcome = "sl" -> -risk
                       [] OTHER -> R!Clamped(raw, -risk, reward)
  <2>1. CASE resolved.outcome = "tp"
    BY <2>1
  <2>2. CASE resolved.outcome = "sl"
    BY <2>2
  <2>3. CASE resolved.outcome # "tp" /\ resolved.outcome # "sl"
    BY <1>8, <2>3
  <2>4. QED
    BY <2>1, <2>2, <2>3
<1>10. R!Booked(side, pct, resolved) = gross - fee
  <2>1. (plan.goal.risk * 1000) \div pct = notional
    BY <1>1, <1>2, <1>3
  <2>2. (plan.candles[resolved.exit].close - plan.candles[bar].close) * (IF side = "long" THEN 1 ELSE -1) = gain
    BY <1>5, <1>6
  <2>3. (gain * notional) \div plan.candles[bar].close = raw
    BY <1>5, <1>7
  <2>4. gross = CASE resolved.outcome = "tp" -> plan.goal.reward
                  [] resolved.outcome = "sl" -> -plan.goal.risk
                  [] OTHER -> R!Clamped(raw, -plan.goal.risk, plan.goal.reward)
    BY <1>1, <1>8, <1>9
  <2>5. (FeeRate * notional) \div 1000 = fee
    BY <1>4
  <2>6. CASE resolved.outcome = "tp"
    <3>1. gross = plan.goal.reward
      BY <2>4, <2>6
    <3>2. R!Booked(side, pct, resolved) = plan.goal.reward - fee
      BY <2>1, <2>5, <2>6 DEF R!Booked
    <3>3. QED
      BY <3>1, <3>2
  <2>7. CASE resolved.outcome = "sl"
    <3>1. gross = -plan.goal.risk
      BY <2>4, <2>7
    <3>2. R!Booked(side, pct, resolved) = -plan.goal.risk - fee
      BY <2>1, <2>5, <2>7 DEF R!Booked
    <3>3. QED
      BY <3>1, <3>2
  <2>8. CASE resolved.outcome # "tp" /\ resolved.outcome # "sl"
    <3>1. gross = R!Clamped(raw, -plan.goal.risk, plan.goal.reward)
      BY <2>4, <2>8
    <3>2. R!Booked(side, pct, resolved) = R!Clamped(raw, -plan.goal.risk, plan.goal.reward) - fee
      <4>1. PICK way : way = (IF side = "long" THEN 1 ELSE -1)
        OBVIOUS
      <4>2. PICK near, far : near = plan.candles[bar].close /\ far = plan.candles[resolved.exit].close
        OBVIOUS
      <4>3. (((far - near) * way) * notional) \div near = raw
        BY <2>2, <2>3, <4>1, <4>2
      <4>4. R!Booked(side, pct, resolved) =
               R!Clamped((((far - near) * way) * notional) \div near, -plan.goal.risk, plan.goal.reward)
               - (FeeRate * notional) \div 1000
        BY <2>1, <2>8, <4>1, <4>2 DEF R!Booked
      <4>5. QED
        BY <2>5, <4>3, <4>4, Zenon
    <3>3. QED
      BY <3>1, <3>2
  <2>9. QED
    BY <2>6, <2>7, <2>8
<1>11. QED
  BY <1>1, <1>4, <1>9, <1>10

LEMMA TradeKept ==
    ASSUME PaperInv, MoneyInv, R!Looking, NEW side, R!Enter(side)
    PROVE  MoneyInv'
<1>1. mode # "preview" /\ GoalTrue(plan.goal) /\ plan.candles \in [1..Bars -> Shapes] /\ Kept(trades)
  BY BarLooked DEF MoneyInv
<1>2. PICK t : /\ trades' = Append(trades, t) /\ UNCHANGED <<mode, plan, results>>
               /\ t.pnl \in Int /\ t.pnl >= -(plan.goal.risk + Cost) /\ t.running = R!Pnl + t.pnl
  <2>1. PICK level : level = R!Bracket(side, plan.candles[bar].close, R!StopPct)
    OBVIOUS
  <2>2. PICK resolved : resolved = R!Resolve(side, level)
    OBVIOUS
  <2>3. resolved.exit \in 1..Bars
    <3>1. /\ bar \in Nat /\ bar < R!Window.end /\ R!Window.end \in Int /\ R!Window.end <= Bars
          /\ Bars \in Nat
      BY FrontAssumption, BarLooked DEF R!PaperAssumption
    <3>2. resolved.exit \in (bar + 1)..R!Window.end
      BY <2>2, <3>1, ResolvedLater
    <3>3. QED
      BY <3>1, <3>2
  <2>4. PICK pct \in Nat : pct = R!StopPct /\ pct >= MinStop
    BY StopDistance
  <2>5. PICK pnl : pnl = R!Booked(side, pct, resolved)
    OBVIOUS
  <2>6. pnl \in Int /\ pnl >= -(plan.goal.risk + Cost)
    BY <2>3, <2>4, <2>5, BookedLoss
  <2>7. PICK t : t = [entry |-> bar, exit |-> resolved.exit, pnl |-> pnl, running |-> R!Pnl + pnl]
    OBVIOUS
  <2>8. trades' = Append(trades, t) /\ UNCHANGED <<mode, plan, results>>
    BY <2>1, <2>2, <2>4, <2>5, <2>7 DEF R!Enter
  <2>9. QED
    BY <2>6, <2>7, <2>8
<1>3. /\ Len(trades) \in Nat /\ Len(trades') = Len(trades) + 1
      /\ trades'[Len(trades) + 1] = t /\ \A k \in 1..Len(trades) : trades'[k] = trades[k]
      /\ trades # <<>> => Len(trades) > 0
  <2>1. IsSequence(trades)
    BY DEF PaperInv
  <2>2. trades # <<>> => Len(trades) > 0
    BY <2>1 DEF IsSequence
  <2>3. QED
    BY <1>2, <2>1, <2>2, AppendedTo
<1>4. R!Pnl \in Int /\ R!Pnl = IF Len(trades) = 0 THEN 0 ELSE trades[Len(trades)].running
  <2>1. CASE trades = <<>>
    <3>1. Len(trades) = 0
      BY <2>1
    <3>2. QED
      BY <2>1, <3>1 DEF R!Pnl
  <2>2. CASE trades # <<>>
    <3>1. Len(trades) \in 1..Len(trades) /\ Len(trades) # 0
      BY <1>3, <2>2
    <3>2. R!Pnl = trades[Len(trades)].running
      BY <2>2 DEF R!Pnl
    <3>3. QED
      BY <1>1, <3>1, <3>2 DEF Kept
  <2>3. QED
    BY <2>1, <2>2
<1>5. R!Verdict(plan.goal, R!Pnl, Len(trades)) = "continue"
  BY DEF R!Looking, R!Now
<1>6. ASSUME NEW k \in 1..Len(trades')
      PROVE  /\ trades'[k].pnl \in Int /\ trades'[k].running \in Int
             /\ trades'[k].pnl >= -(plan.goal.risk + Cost)
             /\ k = 1 => trades'[k].running = trades'[k].pnl
             /\ k > 1 => trades'[k].running = trades'[k - 1].running + trades'[k].pnl
             /\ k < Len(trades') => R!Verdict(plan.goal, trades'[k].running, k) = "continue"
  <2>1. CASE k = Len(trades) + 1
    <3>1. trades'[k] = t /\ ~(k < Len(trades')) /\ t.running \in Int
      BY <1>2, <1>3, <1>4, <2>1
    <3>2. k = 1 => t.running = t.pnl
      BY <1>2, <1>3, <1>4, <2>1
    <3>3. k > 1 => t.running = trades'[k - 1].running + t.pnl
      <4>1. k > 1 => k - 1 = Len(trades) /\ Len(trades) \in 1..Len(trades)
        BY <1>3, <2>1
      <4>2. QED
        BY <1>2, <1>3, <1>4, <4>1
    <3>4. QED
      BY <1>2, <3>1, <3>2, <3>3
  <2>2. CASE k # Len(trades) + 1
    <3>1. k \in 1..Len(trades) /\ trades'[k] = trades[k]
      BY <1>3, <2>2
    <3>2. k > 1 => k \in 2..Len(trades) /\ trades'[k - 1] = trades[k - 1]
      BY <1>3, <3>1
    <3>3. CASE k < Len(trades)
      BY <1>1, <3>1, <3>2, <3>3 DEF Kept
    <3>4. CASE k = Len(trades)
      <4>1. R!Pnl = trades[k].running
        BY <1>4, <3>1, <3>4
      <4>2. R!Verdict(plan.goal, trades[k].running, k) = "continue"
        BY <1>5, <3>4, <4>1
      <4>3. QED
        BY <1>1, <3>1, <3>2, <4>2 DEF Kept
    <3>5. QED
      BY <1>3, <3>1, <3>3, <3>4
  <2>3. QED
    BY <2>1, <2>2
<1>7. Kept(trades)'
  <2>1. UNCHANGED plan /\ Cost' = Cost
    BY <1>2 DEF Cost
  <2>2. \A k \in 2..Len(trades') : k \in 1..Len(trades') /\ k > 1
    BY <1>3
  <2>3. QED
    BY <1>6, <2>1, <2>2 DEF Kept
<1>8. \A f \in 1..Len(results) : Kept(results[f].trades)'
  <2>1. UNCHANGED <<plan, results>> /\ Cost' = Cost
    BY <1>2 DEF Cost
  <2>2. QED
    BY <1>1, <2>1 DEF MoneyInv, Kept
<1>9. QED
  BY <1>1, <1>2, <1>7, <1>8 DEF MoneyInv

LEMMA MoneyStep == PaperInv /\ MoneyInv /\ R!Next => MoneyInv'
<1> SUFFICES ASSUME PaperInv, MoneyInv, R!Next PROVE MoneyInv'
  OBVIOUS
<1>1. CASE R!Preview
  BY <1>1 DEF R!Preview, MoneyInv
<1>2. ASSUME R!Running, NEW verdict, R!EndFold(verdict) PROVE MoneyInv'
  <2>1. PICK over : over = [trades |-> trades, verdict |-> verdict]
    OBVIOUS
  <2>2. results' = Append(results, over) /\ trades' = <<>> /\ UNCHANGED <<mode, plan>>
    BY <1>2, <2>1 DEF R!EndFold
  <2>3. mode # "preview" /\ Cost' = Cost /\ Len(<<>>) = 0
    BY <1>2, <2>2 DEF R!Running, Cost
  <2>4. IsSequence(results)
    BY DEF PaperInv
  <2>5. \A f \in 1..Len(results') : Kept(results'[f].trades)
    <3> SUFFICES ASSUME NEW f \in 1..Len(results') PROVE Kept(results'[f].trades)
      OBVIOUS
    <3>1. CASE f = Len(results) + 1
      BY <2>1, <2>2, <2>3, <2>4, <3>1, AppendedTo DEF MoneyInv
    <3>2. CASE f # Len(results) + 1
      <4>1. f \in 1..Len(results) /\ results'[f] = results[f]
        BY <2>2, <2>4, <3>2, AppendedTo
      <4>2. QED
        BY <2>3, <4>1 DEF MoneyInv
    <3>3. QED
      BY <3>1, <3>2
  <2>6. \A f \in 1..Len(results') : Kept(results[f].trades)'
    BY <2>2, <2>3, <2>5 DEF Kept
  <2>7. Kept(trades)'
    BY <2>2, <2>3 DEF Kept
  <2>8. QED
    BY <2>2, <2>3, <2>6, <2>7 DEF MoneyInv
<1>3. CASE R!Pass
  <2>1. UNCHANGED <<mode, plan, trades, results>>
    BY <1>3 DEF R!Pass
  <2>2. QED
    BY <2>1 DEF MoneyInv, Kept, Cost
<1>4. ASSUME R!Looking, NEW side, R!Enter(side) PROVE MoneyInv'
  BY <1>4, TradeKept
<1>5. R!Preview \/ (R!Running /\ \E verdict : R!EndFold(verdict))
      \/ (R!Looking /\ (R!Pass \/ \E side : R!Enter(side)))
  BY DEF R!Next, R!Finish, R!AnnyWarmup, R!AnnyStop, R!AnnyBar, R!SignalBar, R!Take, R!Looking
<1>6. QED
  BY <1>1, <1>2, <1>3, <1>4, <1>5

(* What is reported as the drawdown of a run is no less than any of its     *)
(* falls.                                                                   *)
LEMMA FallsReported ==
    ASSUME NEW ts, IsSequence(ts), \A k \in 1..Len(ts) : ts[k].running \in Int
    PROVE  /\ R!Drawdown(ts) \in Int
           /\ \A k \in 1..Len(ts) : -ts[k].running <= R!Drawdown(ts)
           /\ \A j, k \in 1..Len(ts) : j < k => ts[j].running - ts[k].running <= R!Drawdown(ts)
<1>0. PICK n \in Nat : n = Len(ts)
  BY AppendedTo
<1> DEFINE Peak(p) == p = [k \in 0..n |-> IF k = 0 THEN 0 ELSE R!Max({p[k - 1], ts[k].running})]
<1>1. \E p : Peak(p)
  <2>1. PICK step : step = [k \in 1..n |-> [v \in Int |-> R!Max({v, ts[k].running})]]
    OBVIOUS
  <2>2. step \in [1..n -> [Int -> Int]]
    <3>1. ASSUME NEW k \in 1..n, NEW v \in Int PROVE R!Max({v, ts[k].running}) \in Int
      <4>1. PICK w \in Int : w = ts[k].running
        BY <1>0
      <4>2. R!Max({v, w}) \in {v, w}
        BY GreatestOfBoth
      <4>3. QED
        BY <4>1, <4>2
    <3>2. QED
      BY <2>1, <3>1
  <2>3. PICK p \in [0..n -> Int] : Grows(p, n, 0, step)
    <3>1. 0 \in Int
      OBVIOUS
    <3>2. QED
      BY <2>2, <3>1, StepByStep
  <2>4. ASSUME NEW k \in 0..n PROVE p[k] = IF k = 0 THEN 0 ELSE R!Max({p[k - 1], ts[k].running})
    <3>1. CASE k = 0
      BY <2>3, <3>1 DEF Grows
    <3>2. CASE k # 0
      <4>1. k \in 1..n /\ k - 1 \in 0..n
        BY <3>2
      <4>2. PICK v \in Int : v = p[k - 1]
        BY <4>1
      <4>3. p[k] = step[k][v]
        BY <2>3, <4>1, <4>2 DEF Grows
      <4>4. step[k][v] = R!Max({v, ts[k].running})
        BY <2>1, <4>1
      <4>5. QED
        BY <3>2, <4>2, <4>3, <4>4
    <3>3. QED
      BY <3>1, <3>2
  <2>5. p = [k \in 0..n |-> p[k]]
    OBVIOUS
  <2>6. Peak(p)
    BY <2>4, <2>5
  <2> HIDE DEF Peak
  <2>7. QED
    BY <2>6
<1>2. PICK peak : peak = (CHOOSE p : Peak(p))
  OBVIOUS
<1>3. Peak(peak)
  BY <1>1, <1>2
<1>4. peak[0] = 0 /\ \A k \in 1..n : peak[k] = R!Max({peak[k - 1], ts[k].running})
  <2>1. \A k \in 0..n : peak[k] = IF k = 0 THEN 0 ELSE R!Max({peak[k - 1], ts[k].running})
    BY <1>3
  <2>2. 0 \in 0..n /\ \A k \in 1..n : k \in 0..n /\ k # 0
    OBVIOUS
  <2>3. QED
    BY <2>1, <2>2
<1> DEFINE High(k) == peak[k] \in Int /\ peak[k] >= 0 /\ \A j \in 1..k : peak[k] >= ts[j].running
<1>5. \A k \in 0..n : High(k)
  <2>1. PICK T : T = {k \in 0..n : High(k)}
    OBVIOUS
  <2>2. 0 \in T
    BY <1>4, <2>1
  <2>3. ASSUME NEW k \in 0..n, k < n, k \in T PROVE k + 1 \in T
    <3>1. k + 1 \in 1..n /\ k + 1 \in 0..n /\ k + 1 - 1 = k
      BY <2>3
    <3>2. PICK v \in Int, w \in Int : v = peak[k] /\ w = ts[k + 1].running
      BY <1>0, <2>1, <2>3, <3>1
    <3>3. peak[k + 1] = R!Max({v, w})
      BY <1>4, <3>1, <3>2
    <3>4. R!Max({v, w}) \in {v, w} /\ R!Max({v, w}) >= v /\ R!Max({v, w}) >= w
      BY GreatestOfBoth
    <3>5. v >= 0 /\ \A j \in 1..k : v >= ts[j].running
      BY <2>1, <2>3, <3>2
    <3>6. \A j \in 1..(k + 1) : ts[j].running \in Int /\ (j \in 1..k \/ j = k + 1)
      BY <1>0, <3>1
    <3>7. PICK most \in Int : most = peak[k + 1] /\ most >= v /\ most >= w
      BY <3>3, <3>4
    <3>8. \A j \in 1..(k + 1) : most >= ts[j].running
      BY <3>2, <3>5, <3>6, <3>7
    <3>9. High(k + 1)
      BY <3>5, <3>7, <3>8
    <3> HIDE DEF High
    <3>10. QED
      BY <2>1, <3>1, <3>9
  <2>4. 0..n \subseteq T
    BY <2>2, <2>3, UpTo
  <2> HIDE DEF High
  <2>5. QED
    BY <2>1, <2>4
<1>6. PICK fall : fall = [k \in 0..n |-> IF k = 0 THEN 0 ELSE peak[k] - ts[k].running]
  OBVIOUS
<1>7. fall \in [0..n -> Int]
  BY <1>0, <1>5, <1>6
<1>8. PICK falls : falls = {0} \cup {peak[k] - ts[k].running : k \in 1..n}
  OBVIOUS
<1>9. falls = {fall[k] : k \in 0..n}
  BY <1>6, <1>8
<1>10. R!Drawdown(ts) \in falls /\ \A x \in falls : x <= R!Drawdown(ts)
  <2>1. PICK k \in 0..n : \A j \in 0..n : fall[j] <= fall[k]
    BY <1>7, HighestOf
  <2>2. \E x \in falls : \A y \in falls : x >= y
    BY <1>7, <1>9, <2>1
  <2>3. R!Max(falls) \in falls /\ \A y \in falls : R!Max(falls) >= y
    BY <2>2 DEF R!Max
  <2>4. R!Drawdown(ts) = R!Max(falls)
    BY <1>0, <1>2, <1>8 DEF R!Drawdown
  <2>5. falls \subseteq Int
    BY <1>7, <1>9
  <2>6. QED
    BY <2>3, <2>4, <2>5
<1>11. R!Drawdown(ts) \in Int
  BY <1>7, <1>9, <1>10
<1>12. ASSUME NEW k \in 1..n
       PROVE  /\ -ts[k].running <= R!Drawdown(ts)
              /\ \A j \in 1..n : j < k => ts[j].running - ts[k].running <= R!Drawdown(ts)
  <2>1. peak[k] - ts[k].running \in falls
    BY <1>8
  <2>2. peak[k] - ts[k].running <= R!Drawdown(ts)
    BY <1>10, <2>1
  <2>3. k \in 0..n /\ \A j \in 1..n : ts[j].running \in Int /\ (j < k => j \in 1..k)
    BY <1>0
  <2>4. peak[k] \in Int /\ peak[k] >= 0 /\ \A j \in 1..k : peak[k] >= ts[j].running
    BY <1>5, <2>3
  <2>5. QED
    BY <1>11, <2>2, <2>3, <2>4
<1>13. QED
  BY <1>0, <1>11, <1>12

LEMMA GoalKept == PaperInv /\ MoneyInv => R!RunKeepsToItsGoal
<1> SUFFICES ASSUME PaperInv, MoneyInv PROVE R!RunKeepsToItsGoal
  OBVIOUS
<1>1. ASSUME NEW book \in R!Books PROVE mode # "preview" /\ IsSequence(book) /\ Kept(book) /\ GoalTrue(plan.goal)
  <2>1. IsSequence(book)
    BY BookOf
  <2>2. mode # "preview"
    <3>1. CASE mode = "preview"
      <4>1. results = <<>>
        BY <3>1 DEF PaperInv
      <4>2. QED
        BY <3>1, <4>1 DEF R!Books
    <3>2. QED
      BY <3>1
  <2>3. DOMAIN results = 1..Len(results)
    BY BookOf
  <2>4. QED
    BY <2>1, <2>2, <2>3 DEF R!Books, MoneyInv
<1>2. ASSUME NEW book \in R!Books PROVE Cost \in Nat
  <2>1. MinStop \in Nat \ {0} /\ FeeRate \in Nat
    BY FrontAssumption DEF R!PaperAssumption
  <2>2. PICK whole \in Nat : whole = plan.goal.risk * 1000
    BY <1>1 DEF GoalTrue
  <2>3. PICK limit \in Nat : limit = whole \div MinStop
    BY <2>1
  <2>4. PICK fee \in Nat : fee = FeeRate * limit
    BY <2>1
  <2>5. Cost = fee \div 1000
    BY <2>2, <2>3, <2>4 DEF Cost
  <2>6. QED
    BY <2>5
<1>3. ASSUME NEW book \in R!Books, NEW k \in DOMAIN book, plan.goal.budget > 0
      PROVE  /\ book[k].pnl >= -(plan.goal.budget + (Cost + 1))
             /\ book[k].running > -2 * (plan.goal.budget + (Cost + 1))
  <2>1. Kept(book) /\ DOMAIN book = 1..Len(book) /\ Len(book) \in Nat
    BY <1>1, AppendedTo
  <2>2. PICK budget \in Nat, risk \in Nat, cost \in Nat :
           /\ budget = plan.goal.budget /\ risk = plan.goal.risk /\ cost = Cost
           /\ budget > 0 /\ risk <= budget
    BY <1>1, <1>2, <1>3 DEF GoalTrue
  <2>3. PICK pnl \in Int, running \in Int :
           pnl = book[k].pnl /\ running = book[k].running /\ pnl >= -(risk + cost)
    BY <2>1, <2>2 DEF Kept
  <2>4. CASE k = 1
    <3>1. running = pnl
      BY <2>1, <2>3, <2>4 DEF Kept
    <3>2. QED
      BY <2>2, <2>3, <3>1
  <2>5. CASE k # 1
    <3>1. k \in 2..Len(book) /\ k - 1 \in 1..Len(book) /\ k - 1 < Len(book)
      BY <2>1, <2>5
    <3>2. PICK before \in Int : before = book[k - 1].running
      BY <2>1, <3>1 DEF Kept
    <3>3. running = before + pnl
      BY <2>1, <2>3, <3>1, <3>2 DEF Kept
    <3>4. R!Verdict(plan.goal, before, k - 1) = "continue"
      BY <2>1, <3>1, <3>2 DEF Kept
    <3>5. ~(before <= -budget)
      BY <2>2, <3>4 DEF R!Verdict
    <3>6. QED
      BY <2>2, <2>3, <3>2, <3>3, <3>5
  <2>6. QED
    BY <2>4, <2>5
<1>4. ASSUME NEW book \in R!Books
      PROVE  /\ \A k \in DOMAIN book : k < Len(book) => R!Verdict(plan.goal, book[k].running, k) = "continue"
             /\ \A j, k \in DOMAIN book : j < k => book[j].running - book[k].running <= R!Drawdown(book)
             /\ \A k \in DOMAIN book : -book[k].running <= R!Drawdown(book)
  <2>1. Kept(book) /\ IsSequence(book) /\ DOMAIN book = 1..Len(book)
    BY <1>1, AppendedTo
  <2>2. \A k \in 1..Len(book) : book[k].running \in Int
    BY <2>1 DEF Kept
  <2>3. QED
    BY <2>1, <2>2, FallsReported DEF Kept
<1>5. PICK fees : fees = Cost + 1
  OBVIOUS
<1>6. \A book \in R!Books :
         /\ \A k \in DOMAIN book : k < Len(book) => R!Verdict(plan.goal, book[k].running, k) = "continue"
         /\ plan.goal.budget > 0 =>
               \A k \in DOMAIN book : /\ book[k].pnl >= -(plan.goal.budget + fees)
                                      /\ book[k].running > -2 * (plan.goal.budget + fees)
         /\ \A j, k \in DOMAIN book : j < k => book[j].running - book[k].running <= R!Drawdown(book)
         /\ \A k \in DOMAIN book : -book[k].running <= R!Drawdown(book)
  BY <1>3, <1>4, <1>5
<1>7. QED
  BY <1>5, <1>6 DEF R!RunKeepsToItsGoal, Cost

-----------------------------------------------------------------------------
(* Signals. What a delivery sends was decided by its panel, and what the    *)
(* exchange gets is that decision, rounded.                                 *)

PanelAnswers == Seq(Decisions \cup {Error})

Passed(d) ==
    /\ delivery[d].decision # Error /\ delivery[d].decision.action # "hold"
    /\ S!Confident(delivery[d].decision)
    /\ delivery[d].intent = S!Translated(delivery[d].decision)

SignalsTyped ==
    /\ config.panel \in Panels /\ config.consensus \in BOOLEAN /\ config.minVotes \in 0..config.panel
    /\ config.auto \in BOOLEAN /\ config.tick \in Ticks
    /\ DOMAIN delivery = Deliveries /\ DOMAIN record = Deliveries
    /\ \A d \in Deliveries :
          /\ delivery[d] = [pc |-> delivery[d].pc, answers |-> delivery[d].answers,
                            decision |-> delivery[d].decision, intent |-> delivery[d].intent]
          /\ delivery[d].answers \in PanelAnswers

ByItsPanel(d) ==
    \E answers \in PanelAnswers :
       /\ answers = delivery[d].answers /\ Len(answers) = config.panel
       /\ delivery[d].decision = S!Decided(answers)

DeliveryTrue(d) ==
    /\ delivery[d].pc # "new" => ByItsPanel(d)
    /\ delivery[d].pc \in {"prepare", "confirm", "pending", "failed", "executed"} => Passed(d)
    /\ delivery[d].pc \in {"confirm", "executed"} => config.auto
    /\ delivery[d].pc # "over" => record[d] = "none"

OrderTrue(o) ==
    \E d, sent, asked :
       /\ d \in Deliveries /\ o = <<d, sent>> /\ config.auto /\ Passed(d)
       /\ delivery[d].pc \in {"failed", "executed", "over"}
       /\ record[d] \in {"none", "failed", "executed"}
       /\ asked = delivery[d].intent
       /\ asked.type = "open" => S!Executable(asked) /\ sent = S!Order(asked)

SignalsInv ==
    /\ SignalsTyped
    /\ \A d \in Deliveries : DeliveryTrue(d)
    /\ \A o \in orders : OrderTrue(o)

LEMMA SignalsInit == S!Init => SignalsInv
<1> SUFFICES ASSUME S!Init PROVE SignalsInv
  OBVIOUS
<1>1. PICK n \in Panels : config \in [panel: {n}, consensus: BOOLEAN, minVotes: 0..n, auto: BOOLEAN, tick: Ticks]
  BY DEF S!Init
<1>2. /\ delivery = [d \in Deliveries |-> S!New] /\ record = [d \in Deliveries |-> "none"] /\ orders = {}
  BY DEF S!Init
<1>3. SignalsTyped
  <2>1. <<>> \in PanelAnswers
    BY DEF PanelAnswers
  <2>2. \A d \in Deliveries : delivery[d] = S!New
    BY <1>2
  <2>3. QED
    BY <1>1, <1>2, <2>1, <2>2 DEF SignalsTyped, S!New
<1>4. \A d \in Deliveries : DeliveryTrue(d)
  BY <1>2 DEF DeliveryTrue, S!New
<1>5. QED
  BY <1>2, <1>3, <1>4 DEF SignalsInv

(* The panel, the tick and the votes asked for are read once.               *)
LEMMA SameRules ==
    ASSUME UNCHANGED config
    PROVE  /\ \A answers : S!Decided(answers)' = S!Decided(answers)
           /\ \A asked : /\ S!Executable(asked)' = S!Executable(asked)
                         /\ S!Order(asked)' = S!Order(asked)
<1>1. \A answers : S!MinVotes(answers)' = S!MinVotes(answers)
  BY DEF S!MinVotes
<1>2. \A answers : S!Aggregate(answers)' = S!Aggregate(answers)
  BY <1>1 DEF S!Aggregate
<1>3. \A answers : S!Decided(answers)' = S!Decided(answers)
  BY <1>2 DEF S!Decided
<1>4. \A asked : S!Executable(asked)' = S!Executable(asked)
  BY DEF S!Executable
<1>5. \A asked : S!Order(asked)' = S!Order(asked)
  BY DEF S!Order
<1>6. QED
  BY <1>3, <1>4, <1>5

(* A delivery that goes on: everything true of the others stays.            *)
LEMMA DeliveryMoves ==
    ASSUME SignalsInv, NEW d \in Deliveries, NEW new, UNCHANGED config,
           delivery' = [delivery EXCEPT ![d] = new],
           new = [pc |-> new.pc, answers |-> new.answers, decision |-> new.decision, intent |-> new.intent],
           new.answers \in PanelAnswers,
           \/ UNCHANGED record
           \/ \E status : record' = [record EXCEPT ![d] = status]
    PROVE  /\ SignalsTyped' /\ delivery'[d] = new
           /\ \A e \in Deliveries : e # d => DeliveryTrue(e)'
           /\ \A o \in orders : o[1] # d => OrderTrue(o)'
<1>0. SignalsTyped
  BY DEF SignalsInv
<1>1. /\ delivery'[d] = new /\ DOMAIN delivery' = Deliveries /\ DOMAIN record' = Deliveries
      /\ \A e \in Deliveries : e # d => delivery'[e] = delivery[e] /\ record'[e] = record[e]
  BY <1>0 DEF SignalsTyped
<1>2. SignalsTyped'
  <2>1. ASSUME NEW e \in Deliveries
        PROVE  /\ delivery'[e] = [pc |-> delivery'[e].pc, answers |-> delivery'[e].answers,
                                  decision |-> delivery'[e].decision, intent |-> delivery'[e].intent]
               /\ delivery'[e].answers \in PanelAnswers
    <3>1. CASE e = d
      BY <1>1, <3>1
    <3>2. CASE e # d
      BY <1>0, <1>1, <3>2 DEF SignalsTyped
    <3>3. QED
      BY <3>1, <3>2
  <2>2. QED
    BY <1>0, <1>1, <2>1 DEF SignalsTyped
<1>3. \A e \in Deliveries : (e # d /\ Passed(e)) => Passed(e)'
  BY <1>1 DEF Passed, S!Confident
<1>4. ASSUME NEW e \in Deliveries, e # d PROVE DeliveryTrue(e)'
  <2>1. DeliveryTrue(e) /\ delivery'[e] = delivery[e] /\ record'[e] = record[e]
    BY <1>1, <1>4 DEF SignalsInv
  <2>2. ByItsPanel(e) => ByItsPanel(e)'
    BY <2>1, SameRules DEF ByItsPanel
  <2>3. QED
    BY <1>3, <1>4, <2>1, <2>2 DEF DeliveryTrue
<1>5. ASSUME NEW o \in orders, o[1] # d PROVE OrderTrue(o)'
  <2>1. PICK e, sent, asked :
           /\ e \in Deliveries /\ o = <<e, sent>> /\ config.auto /\ Passed(e)
           /\ delivery[e].pc \in {"failed", "executed", "over"}
           /\ record[e] \in {"none", "failed", "executed"}
           /\ asked = delivery[e].intent
           /\ asked.type = "open" => S!Executable(asked) /\ sent = S!Order(asked)
    BY DEF SignalsInv, OrderTrue
  <2>2. e # d /\ delivery'[e] = delivery[e] /\ record'[e] = record[e] /\ Passed(e)'
    BY <1>1, <1>3, <1>5, <2>1
  <2>3. asked.type = "open" => S!Executable(asked)' /\ sent = S!Order(asked)'
    BY <2>1, SameRules
  <2>4. QED
    BY <2>1, <2>2, <2>3 DEF OrderTrue
<1>6. QED
  BY <1>1, <1>2, <1>4, <1>5
-----------------------------------------------------------------------------
(* What stands behind an open. The average confidence is a sum over the     *)
(* places of the panel.                                                     *)
LEMMA TotalOf ==
    ASSUME NEW answers \in PanelAnswers, NEW voters,
           \A i \in voters : i \in 1..Len(answers) /\ answers[i].confidence \in Int
    PROVE  /\ S!Total(answers, voters) \in Int
           /\ Len(answers) = 1 /\ voters = {1} => S!Total(answers, voters) = answers[1].confidence
<1> DEFINE n == Len(answers)
           Share(k) == IF k \in voters THEN answers[k].confidence ELSE 0
           Sum(s) == s = [k \in 0..n |-> IF k = 0 THEN 0 ELSE s[k - 1] + Share(k)]
<1>1. n \in Nat
  BY DEF PanelAnswers
<1>2. \A k \in 1..n : Share(k) \in Int
  OBVIOUS
<1> HIDE DEF n, Share
<1>3. PICK step : step = [k \in 1..n |-> [x \in Int |-> x + Share(k)]]
  OBVIOUS
<1>4. step \in [1..n -> [Int -> Int]]
  BY <1>2, <1>3
<1>5. PICK g \in [0..n -> Int] : Grows(g, n, 0, step)
  <2>1. 0 \in Int
    OBVIOUS
  <2>2. QED
    BY <1>1, <1>4, <2>1, StepByStep
<1>6. g[0] = 0 /\ \A k \in 1..n : g[k] = step[k][g[k - 1]]
  BY <1>5 DEF Grows
<1>7. ASSUME NEW k \in 1..n PROVE g[k] = g[k - 1] + Share(k)
  <2>1. k - 1 \in 0..n
    BY <1>1
  <2>2. g[k - 1] \in Int
    BY <2>1
  <2>3. QED
    BY <1>3, <1>6, <2>2
<1>8. Sum(g)
  <2>1. \A k \in 0..n : k = 0 \/ k \in 1..n
    BY <1>1
  <2>2. \A k \in 0..n : g[k] = IF k = 0 THEN 0 ELSE g[k - 1] + Share(k)
    BY <1>6, <1>7, <2>1
  <2>3. QED
    BY <2>2
<1>9. PICK sum : sum = CHOOSE s : Sum(s)
  OBVIOUS
<1>10. Sum(sum)
  BY <1>8, <1>9
<1>11. S!Total(answers, voters) = sum[n]
  BY <1>9 DEF S!Total, n, Share
<1>12. sum[0] = 0 /\ \A k \in 1..n : sum[k] = sum[k - 1] + Share(k)
  BY <1>1, <1>10
<1> HIDE DEF Sum
<1>13. sum[n] \in Int
  <2>1. PICK T : T = {k \in 0..n : sum[k] \in Int}
    OBVIOUS
  <2>2. 0 \in T
    BY <1>1, <1>12, <2>1
  <2>3. ASSUME NEW k \in 0..n, k < n, k \in T PROVE k + 1 \in T
    <3>1. k + 1 \in 1..n /\ k + 1 \in 0..n /\ k + 1 - 1 = k
      BY <1>1, <2>3
    <3>2. sum[k + 1] = sum[k] + Share(k + 1) /\ Share(k + 1) \in Int /\ sum[k] \in Int
      BY <1>2, <1>12, <2>1, <2>3, <3>1
    <3>3. QED
      BY <2>1, <3>1, <3>2
  <2>4. 0..n \subseteq T
    BY <1>1, <2>2, <2>3, UpTo
  <2>5. QED
    BY <1>1, <2>1, <2>4
<1>14. n = 1 /\ voters = {1} => sum[n] = answers[1].confidence
  <2>1. SUFFICES ASSUME n = 1, voters = {1} PROVE sum[n] = answers[1].confidence
    OBVIOUS
  <2>2. sum[1] = sum[0] + Share(1) /\ Share(1) \in Int
    BY <1>2, <1>12, <2>1
  <2>3. Share(1) = answers[1].confidence
    BY <2>1 DEF Share
  <2>4. QED
    BY <1>12, <2>1, <2>2, <2>3
<1>15. QED
  BY <1>11, <1>13, <1>14 DEF n

LEMMA SameCardinalityOfSignals == ASSUME NEW A PROVE S!Cardinality(A) = Cardinality(A)
  BY DEF S!Cardinality, Cardinality

(* Those who vote for a side answered with an open on it.                   *)
LEMMA VotesAreOpens ==
    ASSUME FrontAssumption, NEW answers \in PanelAnswers, NEW side
    PROVE  /\ \A i \in S!Votes(answers, side) :
                 /\ i \in 1..Len(answers)
                 /\ answers[i] \in S!Opening /\ answers[i].side = side
           /\ IsFiniteSet(S!Votes(answers, side))
           /\ S!Cardinality(S!Votes(answers, side)) \in 0..Len(answers)
<1>1. Len(answers) \in Nat /\ DOMAIN answers = 1..Len(answers)
  BY DEF PanelAnswers
<1>2. \A i \in 1..Len(answers) : answers[i] \in Decisions \cup {Error}
  BY DEF PanelAnswers
<1>3. \A d \in Decisions : d.action \in {"hold", "close"} \/ d \in S!Opening
  BY DEF FrontAssumption, S!SignalsAssumption
<1>4. \A i \in S!Votes(answers, side) :
         /\ i \in 1..Len(answers)
         /\ answers[i] \in S!Opening /\ answers[i].side = side
  BY <1>1, <1>2, <1>3 DEF S!Votes
<1>5. S!Votes(answers, side) \subseteq 1..Len(answers)
  BY <1>4
<1>6. /\ IsFiniteSet(1..Len(answers)) /\ Cardinality(1..Len(answers)) = Len(answers)
  <2>1. 0 \in Int /\ 1 \in Int /\ Len(answers) \in Int
    BY <1>1
  <2>2. IsFiniteSet(1..Len(answers)) /\ Cardinality(1..Len(answers)) = IF 1 > Len(answers) THEN 0 ELSE Len(answers) - 1 + 1
    BY <2>1, FS_Interval
  <2>3. QED
    BY <1>1, <2>2
<1>7. /\ IsFiniteSet(S!Votes(answers, side))
      /\ Cardinality(S!Votes(answers, side)) <= Len(answers)
  BY <1>5, <1>6, FS_Subset
<1>8. Cardinality(S!Votes(answers, side)) \in Nat
  BY <1>7, FS_CardinalityType
<1>9. QED
  BY <1>1, <1>4, <1>7, <1>8, SameCardinalityOfSignals

Leads(answers, winners, i) ==
    \A j \in winners : \/ answers[i].confidence > answers[j].confidence
                       \/ answers[i].confidence = answers[j].confidence /\ i <= j

(* Somebody is the first of the most confident.                             *)
LEMMA FirstOfTheSurest ==
    ASSUME NEW n \in Nat, NEW answers, NEW winners, winners # {},
           \A i \in winners : i \in 1..n /\ answers[i].confidence \in Int
    PROVE  \E i \in winners : Leads(answers, winners, i)
<1>0. PICK w \in winners : TRUE
  OBVIOUS
<1>1. PICK g : g = [k \in 0..n |-> answers[IF k \in winners THEN k ELSE w].confidence]
  OBVIOUS
<1>2. g \in [0..n -> Int]
  BY <1>1
<1>3. \A i \in winners : i \in 0..n /\ g[i] = answers[i].confidence
  BY <1>1
<1>4. PICK m \in 0..n : \A j \in 0..n : g[j] <= g[m]
  BY <1>2, HighestOf
<1>5. PICK k \in winners : g[k] = g[m]
  <2>1. CASE m \in winners
    BY <2>1
  <2>2. CASE m \notin winners
    BY <1>1, <1>3, <2>2
  <2>3. QED
    BY <2>1, <2>2
<1>6. PICK T : T = {i \in winners : answers[i].confidence = answers[k].confidence}
  OBVIOUS
<1>7. T \subseteq Nat /\ T # {}
  <2>1. \A i \in winners : i \in Nat
    OBVIOUS
  <2>2. QED
    BY <1>5, <1>6, <2>1
<1>8. PICK i \in T : \A j \in T : i <= j
  BY <1>7, LeastOf
<1>9. ASSUME NEW j \in winners
      PROVE  \/ answers[i].confidence > answers[j].confidence
             \/ answers[i].confidence = answers[j].confidence /\ i <= j
  <2>1. /\ answers[j].confidence <= answers[k].confidence
        /\ answers[i].confidence = answers[k].confidence
        /\ answers[j].confidence \in Int /\ answers[k].confidence \in Int
    BY <1>3, <1>4, <1>5, <1>6, <1>8
  <2>2. CASE answers[j].confidence = answers[k].confidence
    BY <1>6, <1>8, <2>1, <2>2
  <2>3. CASE answers[j].confidence # answers[k].confidence
    BY <2>1, <2>3
  <2>4. QED
    BY <2>2, <2>3
<1>10. QED
  BY <1>6, <1>9 DEF Leads

(* An open that comes out of the vote is the answer of one of the winners,  *)
(* with the average of their confidence.                                    *)
Behind(answers, voters, open, d) ==
    /\ open \in S!Opening /\ voters = S!Votes(answers, open.side) /\ voters # {}
    /\ S!Cardinality(voters) >= S!MinVotes(answers)
    /\ d = [open EXCEPT !.confidence = S!Average(answers, voters)]

LEMMA VotedOpen ==
    ASSUME FrontAssumption, NEW answers \in PanelAnswers, NEW d,
           d = S!Aggregate(answers), d.action # "hold", S!MinVotes(answers) \in Int
    PROVE  \E voters, open : Behind(answers, voters, open, d)
<1>1. PICK side : S!Winners(answers) = S!Votes(answers, side)
  BY DEF S!Winners
<1>2. PICK voters : voters = S!Votes(answers, side)
  OBVIOUS
<1>3. PICK first : first = CHOOSE i \in voters : Leads(answers, voters, i)
  OBVIOUS
<1>4. d = IF voters = {} \/ S!Cardinality(voters) < S!MinVotes(answers) THEN S!Hold
          ELSE [answers[first] EXCEPT !.confidence = S!Average(answers, voters)]
  BY <1>1, <1>2, <1>3 DEF S!Aggregate, Leads
<1>5. S!Hold.action = "hold"
  BY DEF S!Hold
<1>6. /\ voters # {} /\ ~(S!Cardinality(voters) < S!MinVotes(answers))
      /\ d = [answers[first] EXCEPT !.confidence = S!Average(answers, voters)]
  BY <1>4, <1>5
<1>7. Len(answers) \in Nat
  BY DEF PanelAnswers
<1>8. \A i \in voters : i \in 1..Len(answers) /\ answers[i] \in S!Opening /\ answers[i].side = side
  BY <1>2, VotesAreOpens
<1>9. \A i \in voters : i \in 1..Len(answers) /\ answers[i].confidence \in Int
  BY <1>8 DEF S!Opening
<1>10. \E i \in voters : Leads(answers, voters, i)
  BY <1>6, <1>7, <1>9, FirstOfTheSurest
<1>11. first \in voters
  BY <1>3, <1>10
<1>12. S!Cardinality(voters) \in 0..Len(answers)
  BY <1>2, VotesAreOpens
<1>13. Behind(answers, voters, answers[first], d)
  BY <1>2, <1>6, <1>7, <1>8, <1>11, <1>12 DEF Behind
<1>14. QED
  BY <1>13

Backed(answers, side) ==
    /\ 2 * S!Cardinality(S!Votes(answers, side)) > config.panel \/ config.minVotes > 0
    /\ config.panel > 1 => S!Cardinality(S!Votes(answers, side)) >= config.minVotes
    /\ config.consensus => S!Cardinality(S!Votes(answers, side)) = config.panel
    /\ MinConfidence > 0 => S!Total(answers, S!Votes(answers, side)) >=
                               MinConfidence * S!Cardinality(S!Votes(answers, side))

(* A confident open has the panel behind it, and its numbers are those of   *)
(* an advisor.                                                              *)
LEMMA PanelBacks ==
    ASSUME FrontAssumption, SignalsTyped, NEW answers \in PanelAnswers,
           Len(answers) = config.panel, NEW d, d = S!Decided(answers),
           d # Error, d.action = "open", S!Confident(d)
    PROVE  /\ Backed(answers, d.side)
           /\ d.entry \in Int /\ d.sl \in Int /\ d.tp \in Int /\ d.size \in Int
<1>0. /\ config.panel \in Nat \ {0} /\ config.consensus \in BOOLEAN
      /\ config.minVotes \in 0..config.panel /\ MinConfidence \in Nat
  BY DEF SignalsTyped, FrontAssumption, S!SignalsAssumption
<1>1. CASE config.panel = 1
  <2>1. d = answers[1]
    BY <1>1 DEF S!Decided
  <2>2. DOMAIN answers = {1} /\ 1 \in 1..Len(answers) /\ d \in Decisions \cup {Error}
    <3>1. DOMAIN answers = 1..1 /\ 1 \in 1..1
      BY <1>1 DEF PanelAnswers
    <3>2. 1..1 = {1}
      OBVIOUS
    <3>3. \A i \in 1..Len(answers) : answers[i] \in Decisions \cup {Error}
      BY DEF PanelAnswers
    <3>4. QED
      BY <1>1, <2>1, <3>1, <3>2, <3>3
  <2>3. d \in S!Opening
    BY <2>2 DEF FrontAssumption, S!SignalsAssumption
  <2>4. S!Votes(answers, d.side) = {1}
    BY <2>1, <2>2 DEF S!Votes
  <2>5. S!Cardinality(S!Votes(answers, d.side)) = 1
    BY <2>4, SameCardinalityOfSignals, FS_Singleton
  <2>6. d.confidence \in Int /\ \A i \in {1} : i \in 1..Len(answers) /\ answers[i].confidence \in Int
    BY <2>1, <2>2, <2>3 DEF S!Opening
  <2>7. S!Total(answers, {1}) = d.confidence
    BY <1>1, <2>1, <2>6, TotalOf
  <2>8. d.confidence >= MinConfidence
    BY DEF S!Confident
  <2>9. Backed(answers, d.side)
    BY <1>0, <1>1, <2>4, <2>5, <2>6, <2>7, <2>8 DEF Backed
  <2>10. QED
    BY <2>3, <2>9 DEF S!Opening
<1>2. CASE config.panel # 1
  <2>1. d = S!Aggregate(answers)
    BY <1>2 DEF S!Decided
  <2>2. S!MinVotes(answers) \in Int
    BY <1>0 DEF S!MinVotes
  <2>3. PICK voters, open : Behind(answers, voters, open, d)
    BY <2>1, <2>2, VotedOpen
  <2>4. /\ open \in S!Opening /\ voters = S!Votes(answers, open.side) /\ voters # {}
        /\ S!Cardinality(voters) >= S!MinVotes(answers)
        /\ d = [open EXCEPT !.confidence = S!Average(answers, voters)]
    BY <2>3 DEF Behind
  <2>5. /\ d.side = open.side /\ d.confidence = S!Average(answers, voters)
        /\ d.entry \in Int /\ d.sl \in Int /\ d.tp \in Int /\ d.size \in Int
    BY <2>4 DEF S!Opening
  <2>6. PICK count : count = S!Cardinality(voters)
    OBVIOUS
  <2>7. count \in 0..config.panel /\ count # 0
    <3>1. IsFiniteSet(voters) /\ count \in 0..config.panel
      BY <2>4, <2>6, VotesAreOpens
    <3>2. Cardinality(voters) # 0
      BY <2>4, <3>1, FS_EmptySet
    <3>3. QED
      BY <2>6, <3>1, <3>2, SameCardinalityOfSignals
  <2>8. count >= IF config.consensus THEN config.panel
                 ELSE IF config.minVotes = 0 THEN config.panel \div 2 + 1 ELSE config.minVotes
    BY <2>4, <2>6 DEF S!MinVotes
  <2>9. PICK total : total = S!Total(answers, voters)
    OBVIOUS
  <2>10. total \in Int
    <3>1. \A i \in voters : i \in 1..Len(answers) /\ answers[i].confidence \in Int
      BY <2>4, VotesAreOpens DEF S!Opening
    <3>2. QED
      BY <2>9, <3>1, TotalOf
  <2>11. (IF total < 0 THEN -((-total) \div count) ELSE total \div count) >= MinConfidence
    BY <2>5, <2>6, <2>9 DEF S!Confident, S!Average
  <2>12. MinConfidence > 0 => total >= MinConfidence * count
    <3>0. SUFFICES ASSUME MinConfidence > 0 PROVE total >= MinConfidence * count
      OBVIOUS
    <3>1. total >= 0
      <4>1. SUFFICES ASSUME total < 0 PROVE FALSE
        BY <2>10
      <4>2. PICK p \in Nat : p = (-total) \div count
        BY <2>7, <2>10, <4>1
      <4>3. QED
        BY <1>0, <2>11, <3>0, <4>1, <4>2
    <3>2. PICK q \in Int : q = total \div count
      BY <2>7, <2>10
    <3>3. q * count <= total /\ q >= MinConfidence
      BY <2>7, <2>10, <2>11, <3>1, <3>2
    <3>4. PICK x \in Nat : q = MinConfidence + x
      BY <1>0, <3>3
    <3>5. q * count = MinConfidence * count + x * count /\ x * count \in Nat
          /\ MinConfidence * count \in Nat
      BY <1>0, <2>7, <3>4
    <3>6. QED
      BY <2>10, <3>3, <3>5
  <2>13. Backed(answers, d.side)
    BY <1>0, <1>2, <2>4, <2>5, <2>6, <2>7, <2>8, <2>9, <2>12 DEF Backed
  <2>14. QED
    BY <2>5, <2>13
<1>3. QED
  BY <1>1, <1>2

-----------------------------------------------------------------------------
(* What the grammar makes of an open, and rounding.                         *)
OpenOf(d, i) ==
    /\ d.action = "open" /\ d.side \in {"long", "short"}
    /\ i.side = d.side /\ i.entry = d.entry /\ i.sl = d.sl /\ i.tp = d.tp
    /\ i.size = [kind |-> "usdt", amount |-> d.size] /\ d.size > 0
    /\ d.entry > 0 /\ d.sl > 0 /\ d.tp > 0
    /\ S!Bracketed(d.side, d.entry, d.sl, d.tp)

LEMMA ParsedOpen ==
    ASSUME NEW d, S!Translated(d).type = "open"
    PROVE  OpenOf(d, S!Translated(d))
<1>1. S!Invalid.type # "open"
  BY DEF S!Invalid
<1>2. PICK ts : ts = S!Command(d)
  OBVIOUS
<1>3. CASE d.action # "open"
  <2>1. S!Translated(d) = S!Parse(ts)
    BY <1>2, <1>3 DEF S!Translated
  <2>2. ts # <<>> /\ ts[1].word = "close"
    BY <1>2, <1>3 DEF S!Command, S!Word
  <2>3. \/ S!Parse(ts) = S!Invalid
        \/ \E symbol, percent : S!Parse(ts) = S!Close(symbol, percent)
    BY <2>2 DEF S!Parse
  <2>4. QED
    BY <1>1, <2>1, <2>3 DEF S!Close
<1>4. CASE d.action = "open"
  <2>1. d.side \in {"long", "short"} /\ S!Translated(d) = S!Parse(ts)
    BY <1>1, <1>2, <1>4 DEF S!Translated
  <2>2. ts = <<S!Word(d.side), S!Word(d.symbol), S!Num(d.leverage, "x"), S!Word("entry"), S!Num(d.entry, ""),
               S!Word("sl"), S!Num(d.sl, ""), S!Word("tp"), S!Num(d.tp, ""), S!Word("size"),
               S!Num(d.size, "usdt")>>
    BY <1>2, <1>4 DEF S!Command
  <2>3. /\ ts # <<>> /\ Len(ts) = 11 /\ ts[1].word = d.side
        /\ ts[5] = S!Num(d.entry, "") /\ ts[7] = S!Num(d.sl, "") /\ ts[9] = S!Num(d.tp, "")
        /\ ts[10] = S!Word("size") /\ ts[11] = S!Num(d.size, "usdt")
    BY <2>2 DEF S!Word
  <2>4. S!Parse(ts) = IF S!IsOpen(ts) THEN S!Open(ts) ELSE S!Invalid
    BY <2>1, <2>3 DEF S!Parse
  <2>5. S!IsOpen(ts) /\ S!Translated(d) = S!Open(ts)
    BY <1>1, <2>1, <2>4
  <2>6. /\ ts[5].n = d.entry /\ ts[7].n = d.sl /\ ts[9].n = d.tp /\ ts[11].n = d.size
        /\ ts[10].kind = "word" /\ ts[10].word = "size"
    <3>1. S!Num(d.entry, "").n = d.entry /\ S!Num(d.sl, "").n = d.sl
      BY DEF S!Num
    <3>2. S!Num(d.tp, "").n = d.tp /\ S!Num(d.size, "usdt").n = d.size
      BY DEF S!Num
    <3>3. S!Word("size").kind = "word" /\ S!Word("size").word = "size"
      BY DEF S!Word
    <3>4. QED
      BY <2>3, <3>1, <3>2, <3>3, Zenon
  <2>7. /\ S!Positive(ts[5], "") /\ S!Positive(ts[7], "") /\ S!Positive(ts[9], "")
        /\ S!IsSize(ts[10], ts[11]) /\ S!Bracketed(d.side, d.entry, d.sl, d.tp)
    BY <2>3, <2>5, <2>6 DEF S!IsOpen
  <2>8. d.entry > 0 /\ d.sl > 0 /\ d.tp > 0 /\ d.size > 0
    BY <2>6, <2>7 DEF S!Positive, S!IsSize
  <2>9. S!Size(ts[10], ts[11]) = [kind |-> "usdt", amount |-> d.size]
    BY <2>6 DEF S!Size, S!IsWord
  <2>10. /\ S!Open(ts).side = d.side /\ S!Open(ts).entry = d.entry /\ S!Open(ts).sl = d.sl
         /\ S!Open(ts).tp = d.tp /\ S!Open(ts).size = [kind |-> "usdt", amount |-> d.size]
    BY <2>3, <2>6, <2>9 DEF S!Open
  <2>11. QED
    BY <1>4, <2>1, <2>5, <2>7, <2>8, <2>10 DEF OpenOf
<1>5. QED
  BY <1>3, <1>4

LEMMA Floored ==
    ASSUME NEW a \in Int, NEW t \in Nat \ {0}
    PROVE  S!Floor(a, t) \in Int /\ S!Floor(a, t) <= a /\ S!Floor(a, t) % t = 0
<1>1. PICK q \in Int : q = a \div t
  OBVIOUS
<1>2. S!Floor(a, t) = q * t /\ q * t \in Int /\ q * t <= a
  BY <1>1 DEF S!Floor
<1>3. (q * t) % t = 0
  OBVIOUS
<1>4. QED
  BY <1>2, <1>3

LEMMA FloorsApart ==
    ASSUME NEW a \in Int, NEW b \in Int, NEW t \in Nat \ {0}, b - a >= t
    PROVE  S!Floor(a, t) < S!Floor(b, t)
<1>1. PICK p \in Int, q \in Int : p = a \div t /\ q = b \div t
  OBVIOUS
<1>2. p * t <= a /\ b < (q + 1) * t
  BY <1>1
<1>3. CASE p >= q
  <2>1. PICK x \in Nat : p = q + x
    BY <1>3
  <2>2. p * t = q * t + x * t /\ (q + 1) * t = q * t + t /\ x * t \in Nat /\ q * t \in Int
    BY <2>1
  <2>3. QED
    BY <1>2, <2>2
<1>4. CASE p < q
  <2>1. PICK x \in Nat : q = p + 1 + x
    BY <1>4
  <2>2. q * t = p * t + t + x * t /\ x * t \in Nat /\ p * t \in Int
    BY <2>1
  <2>3. S!Floor(a, t) = p * t /\ S!Floor(b, t) = q * t
    BY <1>1 DEF S!Floor
  <2>4. QED
    BY <2>2, <2>3
<1>5. QED
  BY <1>3, <1>4

(* An open that the filters let through is the decision, rounded.           *)
LEMMA OrderFits ==
    ASSUME FrontAssumption, NEW t \in Ticks, config.tick = t, NEW d, NEW i, OpenOf(d, i),
           d.entry \in Int, d.sl \in Int, d.tp \in Int, d.size \in Int,
           S!Executable(i), NEW x, x = S!Order(i)
    PROVE  LET far(level) == level - i.entry >= config.tick \/ i.entry - level >= config.tick
           IN /\ x.side = d.side
              /\ i.size.kind = "usdt" => x.qty * x.entry <= i.size.amount
              /\ x.qty % Step = 0 /\ x.qty >= MinQty
              /\ far(i.sl) /\ far(i.tp) => S!Bracketed(x.side, x.entry, x.sl, x.tp)
<1>0. t \in Nat \ {0} /\ Step \in Nat \ {0}
  BY DEF FrontAssumption, S!SignalsAssumption
<1>1. PICK entry \in Int : entry = S!Floor(d.entry, t)
  BY <1>0, Floored
<1>2. i.entry = d.entry /\ i.sl = d.sl /\ i.tp = d.tp /\ i.side = d.side
      /\ i.size.kind = "usdt" /\ i.size.amount = d.size /\ d.size > 0
  BY DEF OpenOf
<1>3. PICK q : q = S!Quantity(i, entry)
  OBVIOUS
<1>4. entry > 0 /\ q >= MinQty
  BY <1>1, <1>2, <1>3 DEF S!Executable
<1>5. /\ x.side = d.side /\ x.entry = entry /\ x.qty = q
      /\ x.sl = S!Floor(d.sl, t) /\ x.tp = S!Floor(d.tp, t)
  BY <1>1, <1>2, <1>3 DEF S!Order
<1>6. PICK whole \in Int : whole = d.size \div entry
  BY <1>1, <1>4
<1>7. q = S!Floor(whole, Step)
  BY <1>2, <1>3, <1>6 DEF S!Quantity
<1>8. q \in Int /\ q <= whole /\ q % Step = 0
  BY <1>0, <1>7, Floored
<1>9. q * entry <= d.size
  <2>1. whole * entry <= d.size
    BY <1>1, <1>4, <1>6
  <2>2. PICK y \in Nat : whole = q + y
    BY <1>8
  <2>3. whole * entry = q * entry + y * entry /\ y * entry \in Nat /\ q * entry \in Int
    BY <1>1, <1>4, <1>8, <2>2
  <2>4. QED
    BY <2>1, <2>3
<1>10. ASSUME \/ d.sl - d.entry >= t
              \/ d.entry - d.sl >= t,
              \/ d.tp - d.entry >= t
              \/ d.entry - d.tp >= t
       PROVE  S!Bracketed(x.side, x.entry, x.sl, x.tp)
  <2>1. S!Bracketed(d.side, d.entry, d.sl, d.tp)
    BY DEF OpenOf
  <2>2. CASE d.side = "long"
    <3>1. d.sl < d.entry /\ d.entry < d.tp
      BY <2>1, <2>2 DEF S!Bracketed
    <3>2. d.entry - d.sl >= t /\ d.tp - d.entry >= t
      BY <1>0, <1>10, <3>1
    <3>3. S!Floor(d.sl, t) < S!Floor(d.entry, t) /\ S!Floor(d.entry, t) < S!Floor(d.tp, t)
      BY <1>0, <3>2, FloorsApart
    <3>4. QED
      BY <1>1, <1>5, <2>2, <3>3 DEF S!Bracketed
  <2>3. CASE d.side # "long"
    <3>1. d.tp < d.entry /\ d.entry < d.sl
      BY <2>1, <2>3 DEF S!Bracketed
    <3>2. d.sl - d.entry >= t /\ d.entry - d.tp >= t
      BY <1>0, <1>10, <3>1
    <3>3. S!Floor(d.tp, t) < S!Floor(d.entry, t) /\ S!Floor(d.entry, t) < S!Floor(d.sl, t)
      BY <1>0, <3>2, FloorsApart
    <3>4. QED
      BY <1>1, <1>5, <2>3, <3>3 DEF S!Bracketed
  <2>4. QED
    BY <2>2, <2>3
<1>11. QED
  BY <1>2, <1>4, <1>5, <1>8, <1>9, <1>10

LEMMA SignalsSound ==
    FrontAssumption /\ SignalsInv => S!SignalOrdersAreBacked /\ S!OrdersFitTheFilters
<1> SUFFICES ASSUME FrontAssumption, SignalsInv PROVE S!SignalOrdersAreBacked /\ S!OrdersFitTheFilters
  OBVIOUS
<1>1. \A o \in orders : config.auto /\ record[o[1]] \in {"none", "executed", "failed"}
  BY DEF SignalsInv, OrderTrue
<1>2. ASSUME NEW o \in S!Opens
      PROVE  LET i == delivery[o[1]].intent
                 far(level) == level - i.entry >= config.tick \/ i.entry - level >= config.tick
             IN /\ Backed(delivery[o[1]].answers, o[2].side)
                /\ i.size.kind = "usdt" => o[2].qty * o[2].entry <= i.size.amount
                /\ o[2].qty % Step = 0 /\ o[2].qty >= MinQty
                /\ far(i.sl) /\ far(i.tp) => S!Bracketed(o[2].side, o[2].entry, o[2].sl, o[2].tp)
  <2>1. o \in orders /\ delivery[o[1]].intent.type = "open"
    BY <1>2 DEF S!Opens
  <2>2. PICK e, sent, asked :
           /\ e \in Deliveries /\ o = <<e, sent>> /\ config.auto /\ Passed(e)
           /\ delivery[e].pc \in {"failed", "executed", "over"}
           /\ asked = delivery[e].intent
           /\ asked.type = "open" => S!Executable(asked) /\ sent = S!Order(asked)
    BY <2>1 DEF SignalsInv, OrderTrue
  <2>3. o[1] = e /\ o[2] = sent /\ asked.type = "open"
    BY <2>1, <2>2
  <2>4. PICK d : d = delivery[e].decision
    OBVIOUS
  <2>5. asked = S!Translated(d) /\ d # Error /\ d.action # "hold" /\ S!Confident(d)
    BY <2>2, <2>4 DEF Passed
  <2>6. OpenOf(d, asked)
    BY <2>3, <2>5, ParsedOpen
  <2>7. PICK answers \in PanelAnswers :
           /\ answers = delivery[e].answers /\ Len(answers) = config.panel
           /\ d = S!Decided(answers)
    BY <2>2, <2>4 DEF SignalsInv, DeliveryTrue, ByItsPanel
  <2>8. SignalsTyped /\ d.action = "open" /\ config.tick \in Ticks
    BY <2>6 DEF SignalsInv, SignalsTyped, OpenOf
  <2>9. /\ Backed(answers, d.side)
        /\ d.entry \in Int /\ d.sl \in Int /\ d.tp \in Int /\ d.size \in Int
    BY <2>5, <2>7, <2>8, PanelBacks
  <2>10. S!Executable(asked) /\ sent = S!Order(asked)
    BY <2>2, <2>3
  <2>11. QED
    BY <2>2, <2>3, <2>6, <2>7, <2>8, <2>9, <2>10, OrderFits
<1>3. S!SignalOrdersAreBacked
  BY <1>1, <1>2 DEF S!SignalOrdersAreBacked, Backed
<1>4. S!OrdersFitTheFilters
  BY <1>2 DEF S!OrdersFitTheFilters
<1>5. QED
  BY <1>3, <1>4

-----------------------------------------------------------------------------
(* The steps of a delivery.                                                 *)
LEMMA DeliveryGoes ==
    ASSUME SignalsInv, NEW d \in Deliveries, NEW pc, UNCHANGED config, S!Goto(d, pc),
           \/ UNCHANGED record
           \/ \E status : record' = [record EXCEPT ![d] = status]
    PROVE  /\ SignalsTyped'
           /\ \A e \in Deliveries : e # d => DeliveryTrue(e)'
           /\ \A o \in orders : o[1] # d => OrderTrue(o)'
           /\ delivery'[d].pc = pc /\ delivery'[d].intent = delivery[d].intent
           /\ delivery[d].pc # "new" => ByItsPanel(d)'
           /\ Passed(d) => Passed(d)'
<1>1. delivery[d] = [pc |-> delivery[d].pc, answers |-> delivery[d].answers,
                     decision |-> delivery[d].decision, intent |-> delivery[d].intent]
      /\ delivery[d].answers \in PanelAnswers
  BY DEF SignalsInv, SignalsTyped
<1>2. PICK new : new = [delivery[d] EXCEPT !.pc = pc]
  OBVIOUS
<1>3. /\ new = [pc |-> new.pc, answers |-> new.answers, decision |-> new.decision, intent |-> new.intent]
      /\ new.pc = pc /\ new.answers = delivery[d].answers /\ new.decision = delivery[d].decision
      /\ new.intent = delivery[d].intent
  BY <1>1, <1>2
<1>4. delivery' = [delivery EXCEPT ![d] = new]
  BY <1>2 DEF S!Goto
<1>5. /\ SignalsTyped' /\ delivery'[d] = new
      /\ \A e \in Deliveries : e # d => DeliveryTrue(e)'
      /\ \A o \in orders : o[1] # d => OrderTrue(o)'
  BY <1>1, <1>3, <1>4, DeliveryMoves
<1>6. delivery[d].pc # "new" => ByItsPanel(d)'
  <2>1. delivery[d].pc # "new" => ByItsPanel(d)
    BY DEF SignalsInv, DeliveryTrue
  <2>2. ByItsPanel(d) => ByItsPanel(d)'
    BY <1>3, <1>5, SameRules DEF ByItsPanel
  <2>3. QED
    BY <2>1, <2>2
<1>7. Passed(d) => Passed(d)'
  BY <1>3, <1>5 DEF Passed, S!Confident
<1>8. QED
  BY <1>3, <1>5, <1>6, <1>7

(* Before it is confirmed, a delivery has sent nothing.                     *)
LEMMA NothingSentYet ==
    ASSUME SignalsInv, NEW o \in orders
    PROVE  /\ o[1] \in Deliveries
           /\ delivery[o[1]].pc \in {"failed", "executed", "over"}
BY DEF SignalsInv, OrderTrue

LEMMA AskStep ==
    ASSUME SignalsInv, NEW d \in Deliveries, S!Ask(d) PROVE SignalsInv'
<1>1. PICK a \in Decisions \cup {Error} : delivery' = [delivery EXCEPT ![d].answers = Append(@, a)]
  BY DEF S!Ask
<1>2. delivery[d].pc = "new" /\ UNCHANGED <<config, record, orders>>
  BY DEF S!Ask
<1>3. delivery[d] = [pc |-> delivery[d].pc, answers |-> delivery[d].answers,
                     decision |-> delivery[d].decision, intent |-> delivery[d].intent]
      /\ delivery[d].answers \in PanelAnswers
  BY DEF SignalsInv, SignalsTyped
<1>4. PICK new : new = [delivery[d] EXCEPT !.answers = Append(@, a)]
  OBVIOUS
<1>5. /\ new = [pc |-> new.pc, answers |-> new.answers, decision |-> new.decision, intent |-> new.intent]
      /\ new.pc = "new" /\ new.answers = Append(delivery[d].answers, a)
  BY <1>2, <1>3, <1>4
<1>6. new.answers \in PanelAnswers
  BY <1>3, <1>5 DEF PanelAnswers
<1>7. delivery' = [delivery EXCEPT ![d] = new]
  BY <1>1, <1>4
<1>8. /\ SignalsTyped' /\ delivery'[d] = new
      /\ \A e \in Deliveries : e # d => DeliveryTrue(e)'
      /\ \A o \in orders : o[1] # d => OrderTrue(o)'
  BY <1>2, <1>5, <1>6, <1>7, DeliveryMoves
<1>9. DeliveryTrue(d)'
  <2>1. record'[d] = "none"
    BY <1>2 DEF SignalsInv, DeliveryTrue
  <2>2. QED
    BY <1>5, <1>8, <2>1 DEF DeliveryTrue
<1>10. \A o \in orders : o[1] # d
  BY <1>2, NothingSentYet
<1>11. QED
  BY <1>2, <1>8, <1>9, <1>10 DEF SignalsInv

LEMMA DecideStep ==
    ASSUME SignalsInv, NEW d \in Deliveries, S!Decide(d) PROVE SignalsInv'
<1>1. PICK answers : answers = delivery[d].answers
  OBVIOUS
<1>2. PICK decision : decision = S!Decided(answers)
  OBVIOUS
<1>3. /\ delivery[d].pc = "new" /\ UNCHANGED <<config, record, orders>>
      /\ Len(answers) = config.panel
      /\ delivery' = [delivery EXCEPT ![d] = [@ EXCEPT !.pc = "judge", !.decision = decision]]
  BY <1>1, <1>2 DEF S!Decide
<1>4. delivery[d] = [pc |-> delivery[d].pc, answers |-> delivery[d].answers,
                     decision |-> delivery[d].decision, intent |-> delivery[d].intent]
      /\ answers \in PanelAnswers
  BY <1>1 DEF SignalsInv, SignalsTyped
<1>5. PICK new : new = [delivery[d] EXCEPT !.pc = "judge", !.decision = decision]
  OBVIOUS
<1>6. /\ new = [pc |-> new.pc, answers |-> new.answers, decision |-> new.decision, intent |-> new.intent]
      /\ new.pc = "judge" /\ new.answers = answers /\ new.decision = decision
  BY <1>1, <1>4, <1>5
<1>7. delivery' = [delivery EXCEPT ![d] = new]
  BY <1>3, <1>5
<1>8. /\ SignalsTyped' /\ delivery'[d] = new
      /\ \A e \in Deliveries : e # d => DeliveryTrue(e)'
      /\ \A o \in orders : o[1] # d => OrderTrue(o)'
  BY <1>3, <1>4, <1>6, <1>7, DeliveryMoves
<1>9. DeliveryTrue(d)'
  <2>1. record'[d] = "none"
    BY <1>3 DEF SignalsInv, DeliveryTrue
  <2>2. S!Decided(answers)' = decision
    BY <1>2, <1>3, SameRules
  <2>3. ByItsPanel(d)'
    BY <1>3, <1>4, <1>6, <1>8, <2>2 DEF ByItsPanel
  <2>4. QED
    BY <1>6, <1>8, <2>1, <2>3 DEF DeliveryTrue
<1>10. \A o \in orders : o[1] # d
  BY <1>3, NothingSentYet
<1>11. QED
  BY <1>3, <1>8, <1>9, <1>10 DEF SignalsInv

LEMMA JudgeStep ==
    ASSUME SignalsInv, NEW d \in Deliveries, S!Judge(d) PROVE SignalsInv'
<1>1. delivery[d].pc = "judge" /\ UNCHANGED <<config, orders>>
  BY DEF S!Judge
<1>2. \A o \in orders : o[1] # d
  BY <1>1, NothingSentYet
<1>3. ASSUME NEW status, S!Goto(d, "over"), S!Recorded(d, status) PROVE SignalsInv'
  <2>1. \/ UNCHANGED record
        \/ record' = [record EXCEPT ![d] = status]
    BY <1>3 DEF S!Recorded
  <2>2. /\ SignalsTyped'
        /\ \A e \in Deliveries : e # d => DeliveryTrue(e)'
        /\ \A o \in orders : o[1] # d => OrderTrue(o)'
        /\ delivery'[d].pc = "over" /\ ByItsPanel(d)'
    BY <1>1, <1>3, <2>1, DeliveryGoes
  <2>3. DeliveryTrue(d)'
    BY <2>2 DEF DeliveryTrue
  <2>4. QED
    BY <1>1, <1>2, <2>2, <2>3 DEF SignalsInv
<1>4. PICK decision : decision = delivery[d].decision
  OBVIOUS
<1>5. CASE /\ decision # Error /\ decision.action # "hold" /\ S!Confident(decision)
           /\ delivery' = [delivery EXCEPT ![d] = [@ EXCEPT !.pc = "prepare",
                                                   !.intent = S!Translated(decision)]]
           /\ UNCHANGED record
  <2>1. delivery[d] = [pc |-> delivery[d].pc, answers |-> delivery[d].answers,
                       decision |-> delivery[d].decision, intent |-> delivery[d].intent]
        /\ delivery[d].answers \in PanelAnswers
    BY DEF SignalsInv, SignalsTyped
  <2>2. PICK new : new = [delivery[d] EXCEPT !.pc = "prepare", !.intent = S!Translated(decision)]
    OBVIOUS
  <2>3. /\ new = [pc |-> new.pc, answers |-> new.answers, decision |-> new.decision, intent |-> new.intent]
        /\ new.pc = "prepare" /\ new.answers = delivery[d].answers
        /\ new.decision = decision /\ new.intent = S!Translated(decision)
    BY <1>4, <2>1, <2>2
  <2>4. delivery' = [delivery EXCEPT ![d] = new]
    BY <1>5, <2>2
  <2>5. /\ SignalsTyped' /\ delivery'[d] = new
        /\ \A e \in Deliveries : e # d => DeliveryTrue(e)'
        /\ \A o \in orders : o[1] # d => OrderTrue(o)'
    BY <1>1, <1>5, <2>1, <2>3, <2>4, DeliveryMoves
  <2>6. Passed(d)'
    BY <1>5, <2>3, <2>5 DEF Passed, S!Confident
  <2>7. ByItsPanel(d) /\ record'[d] = "none"
    BY <1>1, <1>5 DEF SignalsInv, DeliveryTrue
  <2>8. ByItsPanel(d)'
    BY <1>1, <1>4, <2>3, <2>5, <2>7, SameRules DEF ByItsPanel
  <2>9. DeliveryTrue(d)'
    BY <2>3, <2>5, <2>6, <2>7, <2>8 DEF DeliveryTrue
  <2>10. QED
    BY <1>1, <1>2, <2>5, <2>9 DEF SignalsInv
<1>6. QED
  BY <1>3, <1>4, <1>5 DEF S!Judge

LEMMA PrepareSignalStep ==
    ASSUME SignalsInv, NEW d \in Deliveries, S!Prepare(d) PROVE SignalsInv'
<1>1. /\ delivery[d].pc = "prepare" /\ UNCHANGED <<config, record, orders>>
      /\ S!Goto(d, IF config.auto THEN "confirm" ELSE "pending") \/ S!Goto(d, "failed")
  BY DEF S!Prepare
<1>2. PICK pc : /\ S!Goto(d, pc) /\ pc \in {"confirm", "pending", "failed"}
                /\ pc = "confirm" => config.auto
  BY <1>1
<1>3. Passed(d) /\ record[d] = "none"
  BY <1>1 DEF SignalsInv, DeliveryTrue
<1>4. /\ SignalsTyped'
      /\ \A e \in Deliveries : e # d => DeliveryTrue(e)'
      /\ \A o \in orders : o[1] # d => OrderTrue(o)'
      /\ delivery'[d].pc = pc /\ ByItsPanel(d)' /\ Passed(d)'
  BY <1>1, <1>2, <1>3, DeliveryGoes
<1>5. DeliveryTrue(d)'
  BY <1>1, <1>2, <1>3, <1>4 DEF DeliveryTrue
<1>6. \A o \in orders : o[1] # d
  BY <1>1, NothingSentYet
<1>7. QED
  BY <1>1, <1>4, <1>5, <1>6 DEF SignalsInv

LEMMA ConfirmSignalStep ==
    ASSUME SignalsInv, NEW d \in Deliveries, S!Confirm(d) PROVE SignalsInv'
<1>1. PICK asked : asked = delivery[d].intent
  OBVIOUS
<1>2. PICK x : x = IF asked.type = "open" THEN S!Order(asked) ELSE asked
  OBVIOUS
<1>3. /\ delivery[d].pc = "confirm" /\ UNCHANGED <<config, record>>
      /\ S!Goto(d, "executed") \/ S!Goto(d, "failed")
      /\ \/ orders' = orders
         \/ /\ orders' = orders \cup {<<d, x>>}
            /\ asked.type = "open" => S!Executable(asked)
  BY <1>1, <1>2 DEF S!Confirm
<1>4. PICK pc : S!Goto(d, pc) /\ pc \in {"executed", "failed"}
  BY <1>3
<1>5. Passed(d) /\ record[d] = "none" /\ config.auto
  BY <1>3 DEF SignalsInv, DeliveryTrue
<1>6. /\ SignalsTyped'
      /\ \A e \in Deliveries : e # d => DeliveryTrue(e)'
      /\ \A o \in orders : o[1] # d => OrderTrue(o)'
      /\ delivery'[d].pc = pc /\ delivery'[d].intent = asked /\ ByItsPanel(d)' /\ Passed(d)'
  BY <1>1, <1>3, <1>4, <1>5, DeliveryGoes
<1>7. DeliveryTrue(d)'
  BY <1>3, <1>4, <1>5, <1>6 DEF DeliveryTrue
<1>8. \A o \in orders : o[1] # d
  BY <1>3, NothingSentYet
<1>9. ASSUME NEW o \in orders' PROVE OrderTrue(o)'
  <2>1. CASE o \in orders
    BY <1>6, <1>8, <2>1
  <2>2. CASE o \notin orders
    <3>1. o = <<d, x>> /\ (asked.type = "open" => S!Executable(asked))
      BY <1>3, <2>2
    <3>2. asked.type = "open" => S!Executable(asked)' /\ x = S!Order(asked)'
      BY <1>2, <1>3, <3>1, SameRules
    <3>3. record'[d] = "none" /\ config'.auto /\ delivery'[d].pc \in {"failed", "executed", "over"}
      BY <1>3, <1>4, <1>5, <1>6
    <3>4. QED
      BY <1>6, <3>1, <3>2, <3>3 DEF OrderTrue
  <2>3. QED
    BY <2>1, <2>2
<1>10. QED
  BY <1>6, <1>7, <1>9 DEF SignalsInv

LEMMA RecordOutcomeStep ==
    ASSUME SignalsInv, NEW d \in Deliveries, S!RecordOutcome(d) PROVE SignalsInv'
<1>1. PICK status : status = IF delivery[d].pc = "pending" THEN "confirmation_required" ELSE delivery[d].pc
  OBVIOUS
<1>2. /\ delivery[d].pc \in {"pending", "failed", "executed"} /\ UNCHANGED <<config, orders>>
      /\ S!Goto(d, "over")
      /\ UNCHANGED record \/ record' = [record EXCEPT ![d] = status]
  BY <1>1 DEF S!RecordOutcome, S!Recorded
<1>3. Passed(d) /\ record[d] = "none" /\ d \in DOMAIN record
  BY <1>2 DEF SignalsInv, DeliveryTrue, SignalsTyped
<1>4. /\ SignalsTyped'
      /\ \A e \in Deliveries : e # d => DeliveryTrue(e)'
      /\ \A o \in orders : o[1] # d => OrderTrue(o)'
      /\ delivery'[d].pc = "over" /\ delivery'[d].intent = delivery[d].intent
      /\ ByItsPanel(d)' /\ Passed(d)'
  BY <1>2, <1>3, DeliveryGoes
<1>5. DeliveryTrue(d)'
  BY <1>4 DEF DeliveryTrue
<1>6. ASSUME NEW o \in orders PROVE OrderTrue(o)'
  <2>1. CASE o[1] # d
    BY <1>4, <2>1
  <2>2. CASE o[1] = d
    <3>1. PICK e, sent, asked :
             /\ e \in Deliveries /\ o = <<e, sent>> /\ config.auto
             /\ delivery[e].pc \in {"failed", "executed", "over"}
             /\ asked = delivery[e].intent
             /\ asked.type = "open" => S!Executable(asked) /\ sent = S!Order(asked)
      BY DEF SignalsInv, OrderTrue
    <3>2. e = d
      BY <2>2, <3>1
    <3>3. record'[d] \in {"none", "failed", "executed"}
      BY <1>1, <1>2, <1>3, <3>1, <3>2
    <3>4. asked.type = "open" => S!Executable(asked)' /\ sent = S!Order(asked)'
      BY <1>2, <3>1, SameRules
    <3>5. QED
      BY <1>2, <1>4, <3>1, <3>2, <3>3, <3>4 DEF OrderTrue
  <2>3. QED
    BY <2>1, <2>2
<1>7. QED
  BY <1>2, <1>4, <1>5, <1>6 DEF SignalsInv

LEMMA SignalsStep == SignalsInv /\ S!Next => SignalsInv'
<1> SUFFICES ASSUME SignalsInv, NEW d \in Deliveries, S!Deliver(d) PROVE SignalsInv'
  BY DEF S!Next
<1>1. CASE S!Ask(d)
  BY <1>1, AskStep
<1>2. CASE S!Decide(d)
  BY <1>2, DecideStep
<1>3. CASE S!Judge(d)
  BY <1>3, JudgeStep
<1>4. CASE S!Prepare(d)
  BY <1>4, PrepareSignalStep
<1>5. CASE S!Confirm(d)
  BY <1>5, ConfirmSignalStep
<1>6. CASE S!RecordOutcome(d)
  BY <1>6, RecordOutcomeStep
<1>7. QED
  BY <1>1, <1>2, <1>3, <1>4, <1>5, <1>6 DEF S!Deliver

LEMMA SignalsStay ==
    SignalsInv /\ UNCHANGED <<mSignals, orders>> => SignalsInv'
<1> SUFFICES ASSUME SignalsInv, UNCHANGED <<mSignals, orders>> PROVE SignalsInv'
  OBVIOUS
<1>0. UNCHANGED <<config, delivery, record, orders>>
  BY DEF mSignals
<1>1. SignalsTyped'
  BY <1>0 DEF SignalsInv, SignalsTyped
<1>2. \A d : (ByItsPanel(d) => ByItsPanel(d)') /\ (Passed(d) => Passed(d)')
  BY <1>0, SameRules DEF ByItsPanel, Passed, S!Confident
<1>3. \A d : DeliveryTrue(d) => DeliveryTrue(d)'
  BY <1>0, <1>2 DEF DeliveryTrue
<1>4. \A o : OrderTrue(o) => OrderTrue(o)'
  BY <1>0, <1>2, SameRules DEF OrderTrue
<1>5. QED
  BY <1>0, <1>1, <1>3, <1>4 DEF SignalsInv

-----------------------------------------------------------------------------
(* The parts together: the one that was drawn keeps its invariant.          *)

IInv ==
    /\ part = "access" => MembersInv
    /\ part = "invites" => InvitesInv
    /\ part = "profiles" => ProfilesInv
    /\ part = "chat" => ChatInv
    /\ part = "signals" => SignalsInv
    /\ part = "paper" => PaperInv /\ MoneyInv

LEMMA PartsInit == Init => IInv
<1> SUFFICES ASSUME Init PROVE IInv
  OBVIOUS
<1>1. /\ part = "access" => M!Init
      /\ part = "invites" => I!Init
      /\ part = "profiles" => P!Init
      /\ part = "chat" => C!Init
      /\ part = "signals" => S!Init
      /\ part = "paper" => R!Init
  BY DEF Init
<1>2. QED
  BY <1>1, MembersInit, InvitesInit, ProfilesInit, ChatInit, SignalsInit, PaperInit, MoneyInit DEF IInv

LEMMA MembersStay ==
    MembersInv /\ UNCHANGED <<access, call, raced, strayed>> => MembersInv'
<1> SUFFICES ASSUME MembersInv, UNCHANGED <<access, call, raced, strayed>> PROVE MembersInv'
  OBVIOUS
<1>1. MembersTyped'
  BY DEF MembersInv, MembersTyped
<1>2. \A n : Numbering(n) <=> Numbering(n)'
  BY DEF Numbering
<1>3. MintingAlone => MintingAlone'
  BY <1>2 DEF MintingAlone, M!Minting
<1>4. QED
  BY <1>1, <1>2, <1>3 DEF MembersInv

LEMMA InvitesStay ==
    InvitesInv /\ UNCHANGED <<mInvites, faults>> => InvitesInv'
<1> SUFFICES ASSUME InvitesInv, UNCHANGED <<mInvites, faults>> PROVE InvitesInv'
  OBVIOUS
<1>0. UNCHANGED <<row, drawn, waitlisting, join, account, requested, shared, faults>>
  BY DEF mInvites
<1>1. InvitesTyped'
  BY <1>0 DEF InvitesInv, InvitesTyped
<1>2. \A t : (TokenTrue(t) => TokenTrue(t)') /\ (TokenUnused(t) => TokenUnused(t)')
  BY <1>0 DEF TokenTrue, TokenUnused, I!Holding
<1>3. QED
  BY <1>0, <1>1, <1>2 DEF InvitesInv

LEMMA ProfilesStay ==
    ProfilesInv /\ UNCHANGED <<mProfiles, call, left, faults>> => ProfilesInv'
<1> SUFFICES ASSUME ProfilesInv, UNCHANGED <<mProfiles, call, left, faults>> PROVE ProfilesInv'
  OBVIOUS
<1>0. UNCHANGED <<profile, cache, order, overlap, misnamed, call, left, faults>>
  BY DEF mProfiles
<1>1. ProfilesTyped' /\ ExecutorsOnTheirKey'
  BY <1>0 DEF ProfilesInv, ProfilesTyped, ExecutorsOnTheirKey
<1>2. P!Stored' = P!Stored
  BY <1>0 DEF P!Stored
<1>3. P!Active' = P!Active
  BY <1>0, <1>2 DEF P!Active
<1>4. (OneActive <=> OneActive') /\ (AtMostOneActive <=> AtMostOneActive')
  BY <1>2, <1>3 DEF OneActive, AtMostOneActive
<1>5. \A n : P!KeepsActive(n)' <=> P!KeepsActive(n)
  BY <1>0, <1>2, <1>3 DEF P!KeepsActive
<1>6. \A c : CallTrue(c) => CallTrue(c)'
  BY <1>0, <1>3, <1>4, <1>5 DEF CallTrue
<1>7. (OneCall => OneCall') /\ (P!Quiet' => P!Quiet)
  BY <1>0 DEF OneCall, P!Quiet
<1>8. QED
  BY <1>0, <1>1, <1>4, <1>6, <1>7 DEF ProfilesInv

LEMMA ChatStays ==
    ChatInv /\ UNCHANGED <<mChat, orders>> => ChatInv'
<1> SUFFICES ASSUME ChatInv, UNCHANGED <<mChat, orders>> PROVE ChatInv'
  OBVIOUS
<1>0. UNCHANGED <<chat, doc, intent, job, orders>>
  BY DEF mChat
<1>1. ChatTyped'
  BY <1>0 DEF ChatInv, ChatTyped
<1>2. \A i : /\ Reviewable(i) => Reviewable(i)'
             /\ ConfirmShown(i) => ConfirmShown(i)'
             /\ Unsent(i) => Unsent(i)'
             /\ NeverSent(i) => NeverSent(i)'
  BY <1>0 DEF Reviewable, ConfirmShown, Unsent, NeverSent
<1>3. \A says, i : Said(says, i) => Said(says, i)'
  BY <1>0, <1>2 DEF Said
<1>4. \A m : MessageTrue(m) => MessageTrue(m)'
  BY <1>2, <1>3 DEF MessageTrue
<1>5. \A j : JobTrue(j) => JobTrue(j)'
  BY <1>0, <1>2, <1>3 DEF JobTrue
<1>6. \A i : DocTrue(i) => DocTrue(i)'
  BY <1>0, <1>2 DEF DocTrue
<1>7. QED
  BY <1>0, <1>1, <1>2, <1>4, <1>5, <1>6 DEF ChatInv

LEMMA MoneyStays ==
    MoneyInv /\ UNCHANGED mPaper => MoneyInv'
BY DEF mPaper, MoneyInv, Kept, Cost, GoalTrue

LEMMA PaperStays ==
    PaperInv /\ UNCHANGED mPaper => PaperInv'
<1> SUFFICES ASSUME PaperInv, UNCHANGED mPaper PROVE PaperInv'
  OBVIOUS
<1>0. UNCHANGED <<mode, plan, fold, bar, trades, results>>
  BY DEF mPaper
<1>1. /\ WindowsApart(plan.windows) <=> WindowsApart(plan.windows)'
      /\ IsSequence(trades) <=> IsSequence(trades)'
      /\ IsSequence(results) <=> IsSequence(results)'
      /\ \A f : IsSequence(results[f].trades) <=> IsSequence(results[f].trades)'
      /\ \A f, w : TradesIn(results[f].trades, w) <=> TradesIn(results[f].trades, w)'
      /\ \A w : TradesIn(trades, w) <=> TradesIn(trades, w)'
  BY <1>0 DEF WindowsApart, IsSequence, TradesIn
<1>2. QED
  BY <1>0, <1>1 DEF PaperInv, WindowsApart, IsSequence, TradesIn

LEMMA PartsStep == IInv /\ [Next]_vars => IInv'
<1> SUFFICES ASSUME IInv, [Next]_vars PROVE IInv'
  OBVIOUS
<1>1. CASE part = "access" /\ M!Next /\ part' = part
  BY <1>1, MembersStep DEF IInv
<1>2. CASE part = "invites" /\ I!Next /\ part' = part
  BY <1>2, InvitesStep DEF IInv
<1>3. CASE part = "profiles" /\ P!Next /\ part' = part
  BY <1>3, ProfilesStep DEF IInv
<1>4. CASE part = "chat" /\ C!Next /\ part' = part
  BY <1>4, ChatNext DEF IInv
<1>5. CASE part = "signals" /\ S!Next /\ part' = part
  BY <1>5, SignalsStep DEF IInv
<1>6. CASE part = "paper" /\ R!Next /\ part' = part
  BY <1>6, PaperStep, MoneyStep DEF IInv
<1>7. CASE UNCHANGED vars
  <2>1. UNCHANGED <<part, call, left, faults, orders, mAccess, mInvites, mProfiles, mChat, mSignals,
                   mPaper>>
    BY <1>7 DEF vars
  <2>2. UNCHANGED <<access, call, raced, strayed>>
    BY <2>1 DEF mAccess
  <2>3. QED
    BY <2>1, <2>2, MembersStay, InvitesStay, ProfilesStay, ChatStays, SignalsStay,
         PaperStays, MoneyStays DEF IInv
<1>8. QED
  BY <1>1, <1>2, <1>3, <1>4, <1>5, <1>6, <1>7 DEF Next

(* The part that was drawn keeps its invariant through every overlap of its *)
(* handlers, every fault and every restart.                                 *)
THEOREM FrontInvariant == Spec => []IInv
<1>1. Init => IInv
  BY PartsInit
<1>2. IInv /\ [Next]_vars => IInv'
  BY PartsStep
<1>3. QED
  BY <1>1, <1>2, PTL DEF Spec

(* Founder numbers never pass the cap and are given out without a gap, to   *)
(* one member each, unless two approvals overlapped or a founder's own      *)
(* number could not be read (AssignFounder).                                *)
THEOREM FoundersSound == Spec => []FoundersAreSound
<1>1. IInv => FoundersAreSound
  BY MembersSound DEF IInv, FoundersAreSound
<1>2. QED
  BY <1>1, FrontInvariant, PTL

(* Once approved, a subject is approved until somebody revokes it: a second *)
(* request, a late approval or a change of tier does not undo it (Request,  *)
(* Approve, SetTier).                                                       *)
THEOREM ApprovalKept == Spec => ApprovalSurvives
<1>1. ASSUME IInv, [Next]_vars
      PROVE  [part = "access" => \A s \in Subjects : access[s].status = "approved" =>
                 access'[s].status \in {"approved", "revoked"}]_vars
  <2>1. CASE UNCHANGED vars
    BY <2>1
  <2>2. CASE Next
    <3>1. SUFFICES ASSUME part = "access"
                   PROVE  \A s \in Subjects : access[s].status = "approved" =>
                             access'[s].status \in {"approved", "revoked"}
      OBVIOUS
    <3>2. MembersTyped /\ M!Next
      BY <1>1, <2>2, <3>1 DEF IInv, MembersInv, Next
    <3>3. QED
      BY <3>2, RecordsAfter
  <2>3. QED
    BY <1>1, <2>1, <2>2
<1>2. QED
  BY <1>1, FrontInvariant, PTL DEF Spec, ApprovalSurvives

(* One invitation makes one account, unless two joins found the link at     *)
(* once or a call failed (handleInviteRegister).                            *)
THEOREM InvitesSpentOnce == Spec => []InviteSpentOnce
<1>1. IInv => InviteSpentOnce
  BY InvitesSpent DEF IInv, InviteSpentOnce
<1>2. QED
  BY <1>1, FrontInvariant, PTL

(* A user who has profiles has exactly one active between requests, unless  *)
(* requests overlapped, failed or named no profile (StoreProfile,           *)
(* SetActive, DeleteProfile).                                               *)
THEOREM OneProfileActive == Spec => []OneActiveProfile
<1>1. IInv => OneActiveProfile
  BY ProfilesSound DEF IInv, OneActiveProfile
<1>2. QED
  BY <1>1, FrontInvariant, PTL

(* Whatever is stored, activated and evicted meanwhile, an order runs on an *)
(* executor built for the key it read (ExecutorFor).                        *)
THEOREM OrdersRunOnTheirKey == Spec => []OrdersOnTheKeyRead
<1>1. IInv => OrdersOnTheKeyRead
  BY ProfilesSound DEF IInv, OrdersOnTheKeyRead
<1>2. QED
  BY <1>1, FrontInvariant, PTL

(* A message that says an order is confirmed or cancelled stays true,       *)
(* however handlers overlap and edit it (handleCallback).                   *)
THEOREM ChatIsTruthful == Spec => []ChatTellsTheTruth
<1>1. IInv => ChatTellsTheTruth
  BY ChatSound DEF IInv, ChatTellsTheTruth
<1>2. QED
  BY <1>1, FrontInvariant, PTL

(* Every order that was sent had been shown for review, with its button, to *)
(* somebody on the allowlist (Handle, handleCallback).                      *)
THEOREM OrdersReviewed == Spec => []OrdersWereReviewed
<1>1. IInv => OrdersWereReviewed
  BY ChatSound DEF IInv, OrdersWereReviewed
<1>2. QED
  BY <1>1, FrontInvariant, PTL

(* An order of a signal has the panel behind it, in number and in           *)
(* confidence, no record hides it, and what the exchange gets is the        *)
(* decision rounded within the filters (Process, Decide, executeOpen).      *)
THEOREM SignalOrdersSound == Spec => []SignalOrdersAreSound
<1>1. FrontAssumption /\ IInv => SignalOrdersAreSound
  BY SignalsSound DEF IInv, SignalOrdersAreSound
<1>2. FrontAssumption
  BY FrontAssumption
<1>3. QED
  BY <1>1, <1>2, FrontInvariant, PTL

(* The trades of a run, and of all folds of a walk-forward, are apart in    *)
(* time, and no fold trades on candles of another (RunPaper,                *)
(* SplitWalkForwardFolds).                                                  *)
THEOREM TradesKeptApart == Spec => []TradesAreApart
<1>1. IInv => TradesAreApart
  BY TradesApart DEF IInv, TradesAreApart
<1>2. QED
  BY <1>1, FrontInvariant, PTL

(* A run enters no trade once a stop rule applies, loses no more than its   *)
(* budget and one more trade, and reports a drawdown that is no less than   *)
(* any fall (RunPaper, applyLeverageSizing, maxDrawdownUSDT).               *)
THEOREM RunsKeepToTheirGoal == Spec => []RunKeepsToItsGoal
<1>1. IInv => RunKeepsToItsGoal
  BY GoalKept DEF IInv, RunKeepsToItsGoal
<1>2. QED
  BY <1>1, FrontInvariant, PTL
=============================================================================
