----------------------------- MODULE Membership -----------------------------
(* Who may use the application: the access records that the web handlers    *)
(* (api/access.go) and the bot's admin commands (telegram/handler.go) share *)
(* in MongoDB (app/access.go), the founder numbers of the private beta, and *)
(* the metered AI runs that are counted in the process (api/tiers.go).      *)
(* ACCESS_OPEN is off.                                                      *)
EXTENDS Integers, FiniteSets, FiniteSetsExt

CONSTANTS
    Subjects,
    Root,       \* the subject of TELEGRAM_ADMIN_USER_ID
    Calls,      \* requests the process handles at once
    AiLimit,    \* AIPerDay of the tiers that have one, free among them
    Cap,        \* MissionZeroCap
    MaxCalls,   \* bound: requests
    MaxFaults   \* bound: accesses to the store that fail, restarts

MembershipAssumption ==
    /\ Root \in Subjects /\ IsFiniteSet(Calls) /\ Calls # {}
    /\ "free" \in DOMAIN AiLimit /\ DOMAIN AiLimit \subseteq {"free", "captain"}
    /\ \A t \in DOMAIN AiLimit : AiLimit[t] \in Nat
    /\ Cap \in Nat /\ MaxCalls \in Nat /\ MaxFaults \in Nat

VARIABLES
    access,     \* the access collection
    beta,       \* PRIVATE_BETA
    call,
    usage,      \* memUsage of kind ai, today
    left,       \* requests to come
    faults,
    raced,      \* history: two calls of AssignFounder overlapped
    strayed     \* history: a founder's own number could not be read

vars == <<access, beta, call, usage, left, faults, raced, strayed>>

Tiers == DOMAIN AiLimit \cup {"commander"}
Statuses == {"absent", "requested", "approved", "revoked"}
Absent == [status |-> "absent", tier |-> "none", role |-> "member", founder |-> 0]

Idle == [pc |-> "idle"]

Init ==
    /\ access = [s \in Subjects |-> Absent]
    /\ beta \in BOOLEAN
    /\ call = [c \in Calls |-> Idle]
    /\ usage = [s \in Subjects |-> 0]
    /\ left = MaxCalls
    /\ faults = 0
    /\ raced = FALSE /\ strayed = FALSE

Fault == faults < MaxFaults /\ faults' = faults + 1
----------------------------------------------------------------------------
(* The updates of mongoAccess. Each is one upsert of the subject's record.  *)

\* Seeded fault: the filter on the status is left out.
RequestedAnyway(r) == [r EXCEPT !.status = "requested"]
Requested(r) == IF r.status = "approved" THEN r ELSE [r EXCEPT !.status = "requested"]

Approved(r) == [r EXCEPT !.status = "approved", !.tier = IF r = Absent THEN "free" ELSE @]
Revoked(r) == [r EXCEPT !.status = "revoked"]
WithRole(r, role) == [r EXCEPT !.role = role, !.status = "approved"]
WithTier(r, tier) == [r EXCEPT !.tier = tier, !.status = "approved"]

(* What a request writes first. *)
Updated(job, r) ==
    CASE job.op = "request" -> Requested(r)
      [] job.op = "approve" -> Approved(r)
      [] job.op = "revoke"  -> Revoked(r)
      [] job.op = "promote" -> WithRole(r, "admin")
      [] job.op = "demote"  -> WithRole(r, "member")
      [] job.op = "tier"    -> WithTier(r, job.tier)
----------------------------------------------------------------------------
IsAdmin(s) == s = Root \/ access[s].role = "admin"

(* aiFreeForSubject *)
AiFree(s) == s = Root \/ (beta /\ access[s].status = "approved")

TierOf(s) ==
    LET r == access[s] IN
    IF s = Root THEN "commander"
    ELSE IF r.tier \in {"captain", "commander"} THEN r.tier
    ELSE IF beta /\ r.status = "approved" THEN "commander"
    ELSE IF r.founder > 0 THEN "captain"
    ELSE IF r.tier # "none" THEN r.tier ELSE "free"

To(c, pc) == call' = [call EXCEPT ![c].pc = pc]
Return(c) == call' = [call EXCEPT ![c] = Idle]

AdminOps == {"approve", "revoke", "promote", "demote", "tier"}

(* A request arrives: of a member for access or for an AI run, or of        *)
(* whoever takes themselves for an admin. With /approve the bot may also    *)
(* set a plan; only the root admin uses the bot.                            *)
Arrive(c) ==
    /\ call[c].pc = "idle" /\ left > 0
    /\ left' = left - 1
    /\ \E by, who \in Subjects, tier \in Tiers \cup {"none"}, op \in AdminOps \cup {"request", "ai"} :
          /\ op \in {"request", "ai"} => who = by /\ tier = "none"
          /\ op = "tier" => tier # "none"
          /\ tier # "none" => op = "tier" \/ (op = "approve" /\ by = Root)
          /\ call' = [call EXCEPT ![c] = [pc |-> IF op = "ai" THEN "free" ELSE "gate",
                                          op |-> op, by |-> by, who |-> who, tier |-> tier]]
    /\ UNCHANGED <<access, beta, usage, faults, raced, strayed>>

(* isAdmin, which reads the role of everyone but the root admin; the root   *)
(* admin's record cannot be revoked.                                        *)
Gate(c) ==
    LET job == call[c] IN
    /\ job.pc = "gate"
    /\ \/ /\ job.op = "request"
          /\ IF IsAdmin(job.by) THEN Return(c) ELSE To(c, "status")
       \/ /\ job.op \in AdminOps
          /\ IF ~IsAdmin(job.by) \/ (job.op = "revoke" /\ job.who = Root)
             THEN Return(c) ELSE To(c, "write")
    /\ UNCHANGED <<access, beta, usage, left, faults, raced, strayed>>

(* The second read of approved. *)
Status(c) ==
    /\ call[c].pc = "status"
    /\ IF access[call[c].by].status = "approved" THEN Return(c) ELSE To(c, "write")
    /\ UNCHANGED <<access, beta, usage, left, faults, raced, strayed>>

(* The plan of /approve, set when AssignFounder has returned. *)
AfterFounder(c) == IF call[c].tier # "none" THEN To(c, "plan") ELSE Return(c)

Write(c) ==
    LET job == call[c] IN
    /\ job.pc = "write"
    /\ access' = [access EXCEPT ![job.who] = Updated(job, @)]
    /\ IF job.op # "approve" THEN Return(c)
       ELSE IF beta THEN To(c, "own") ELSE AfterFounder(c)
    /\ UNCHANGED <<beta, usage, left, faults, raced, strayed>>

Plan(c) ==
    /\ call[c].pc = "plan"
    /\ access' = [access EXCEPT ![call[c].who] = WithTier(@, call[c].tier)]
    /\ Return(c)
    /\ UNCHANGED <<beta, usage, left, faults, raced, strayed>>
----------------------------------------------------------------------------
(* AssignFounder: two reads and a write. *)

Minting(c) == call[c].pc \in {"top", "mint"}

\* Seeded fault: every approval mints a number.
NumberedNever(s) == FALSE
(* The member has a number already. *)
Numbered(s) == access[s].founder > 0

Own(c) ==
    LET n == Numbered(call[c].who) IN
    /\ call[c].pc = "own"
    /\ raced' = (raced \/ \E d \in Calls \ {c} : Minting(d))
    /\ \/ (IF n THEN AfterFounder(c) ELSE To(c, "top")) /\ UNCHANGED <<faults, strayed>>
       \/ Fault /\ To(c, "top") /\ strayed' = (strayed \/ n)
    /\ UNCHANGED <<access, beta, usage, left>>

Highest == Max({access[s].founder : s \in Subjects})

(* A number is left under the cap. *)
Open(top) == top < Cap

Top(c) ==
    /\ call[c].pc = "top"
    /\ IF Open(Highest)
       THEN call' = [call EXCEPT ![c] = [pc |-> "mint", op |-> @.op, by |-> @.by, who |-> @.who,
                                         tier |-> @.tier, next |-> Highest + 1]]
       ELSE AfterFounder(c)
    /\ UNCHANGED <<access, beta, usage, left, faults, raced, strayed>>

Mint(c) ==
    /\ call[c].pc = "mint"
    /\ access' = [access EXCEPT ![call[c].who].founder = call[c].next]
    /\ AfterFounder(c)
    /\ UNCHANGED <<beta, usage, left, faults, raced, strayed>>
----------------------------------------------------------------------------
(* aiBias on the server's own key. *)

Free(c) ==
    /\ call[c].pc = "free"
    /\ IF AiFree(call[c].by)
       THEN call' = [call EXCEPT ![c].pc = "decide"]
       ELSE call' = [call EXCEPT ![c].pc = "allow"]
    /\ UNCHANGED <<access, beta, usage, left, faults, raced, strayed>>

(* allow: the tier, then the count. *)
Allow(c) ==
    /\ call[c].pc = "allow"
    /\ call' = [call EXCEPT ![c].pc = "count", ![c].tier = TierOf(call[c].by)]
    /\ UNCHANGED <<access, beta, usage, left, faults, raced, strayed>>

\* Seeded fault: the limit itself is let through.
UnderUpTo(n, tier) == tier \notin DOMAIN AiLimit \/ n <= AiLimit[tier]
Under(n, tier) == tier \notin DOMAIN AiLimit \/ n < AiLimit[tier]

Count(c) ==
    /\ call[c].pc = "count"
    /\ IF Under(usage[call[c].by], call[c].tier) THEN To(c, "metered") ELSE Return(c)
    /\ UNCHANGED <<access, beta, usage, left, faults, raced, strayed>>

(* Advisor.Decide answers or fails; an answer to a metered run is counted,  *)
(* whatever the limit of the tier.                                          *)
Decide(c) ==
    /\ call[c].pc \in {"decide", "metered"}
    /\ \/ UNCHANGED usage
       \/ call[c].pc = "metered" /\ usage' = [usage EXCEPT ![call[c].by] = @ + 1]
    /\ Return(c)
    /\ UNCHANGED <<access, beta, left, faults, raced, strayed>>
----------------------------------------------------------------------------
(* An access to the store fails. AssignFounder's errors are dropped; a read *)
(* of the gate that fails refuses; every other ends the request.            *)
Fail(c) ==
    /\ call[c].pc \in {"gate", "status", "write", "plan", "top", "mint"} /\ Fault
    /\ IF Minting(c) THEN AfterFounder(c) ELSE Return(c)
    /\ UNCHANGED <<access, beta, usage, left, raced, strayed>>

(* The process restarts, or is deployed again after the public launch.      *)
Restart ==
    /\ \/ UNCHANGED beta /\ Fault
       \/ beta /\ beta' = FALSE /\ UNCHANGED faults
    /\ call' = [c \in Calls |-> Idle]
    /\ usage' = [s \in Subjects |-> 0]
    /\ UNCHANGED <<access, left, raced, strayed>>

Handle(c) ==
    \/ Arrive(c) \/ Gate(c) \/ Status(c) \/ Write(c) \/ Plan(c)
    \/ Own(c) \/ Top(c) \/ Mint(c)
    \/ Free(c) \/ Allow(c) \/ Count(c) \/ Decide(c)
    \/ Fail(c)

Next == Restart \/ \E c \in Calls : Handle(c)

Spec == Init /\ [][Next]_vars
----------------------------------------------------------------------------
TypeOK ==
    /\ access \in [Subjects -> [status: Statuses, tier: Tiers \cup {"none"},
                                role: {"member", "admin"}, founder: 0..Cap]]
    /\ beta \in BOOLEAN /\ raced \in BOOLEAN /\ strayed \in BOOLEAN
    /\ \A c \in Calls :
          \/ call[c] = Idle
          \/ /\ call[c].pc \in {"gate", "status", "write", "plan", "own", "top", "mint",
                                "free", "allow", "count", "decide", "metered"}
             /\ call[c].by \in Subjects /\ call[c].who \in Subjects
             /\ call[c].tier \in Tiers \cup {"none"}
             /\ call[c].pc = "mint" => call[c].next \in 1..Cap
    /\ usage \in [Subjects -> Nat]
    /\ left \in 0..MaxCalls /\ faults \in 0..MaxFaults

Founders == {s \in Subjects : access[s].founder > 0}

(* The founder numbers of the private beta never pass the cap. They are     *)
(* 1, 2, 3, ..., each given to one member, unless two approvals overlapped  *)
(* or a founder's own number could not be read.                             *)
FoundersAreSound ==
    /\ \A s \in Subjects : access[s].founder <= Cap
    /\ ~raced /\ ~strayed =>
          {access[s].founder : s \in Founders} = 1..Cardinality(Founders)

(* A request for access that was checked before the approval and written    *)
(* after it does not take the approval back: only a revocation does.        *)
ApprovalSurvives ==
    [][\A s \in Subjects : access[s].status = "approved" =>
          access'[s].status \in {"approved", "revoked"}]_vars

(* The count of AI runs passes the highest limit by no more than the runs   *)
(* that were let through before one of them was counted.                    *)
UsageBounded ==
    \A s \in Subjects :
       usage[s] <= Max({AiLimit[t] : t \in DOMAIN AiLimit}) + Cardinality(Calls) - 1
=============================================================================
