------------------------------- MODULE Invites -------------------------------
(* Invitations of the closed beta: the interest row of one email address    *)
(* (interest/interest.go over storage/mongo/interest.go), the admin's       *)
(* invite and waitlist requests, and people who join with a link            *)
(* (api/server.go), each of whom creates an account (users/users.go).       *)
EXTENDS Integers, FiniteSets

CONSTANTS
    Tokens,      \* random invite tokens, each drawn once
    NoToken,
    Joins,       \* requests of handleInviteRegister
    Usernames,
    MaxFaults    \* bound: accesses to the store that fail, lost processes

InvitesAssumption == NoToken \notin Tokens /\ MaxFaults \in Nat

VARIABLES
    row,         \* the interest record of the address
    drawn,       \* tokens given out
    waitlisting, \* handleAdminInterestWaitlist has sent its mail
    join,
    account,     \* per username, the token its account was created with
    requested,   \* usernames with an access request
    faults,
    shared       \* history: tokens that two joins held at the same time

vars == <<row, drawn, waitlisting, join, account, requested, faults, shared>>

Absent == [status |-> "absent", hash |-> NoToken, live |-> FALSE]
Outside == [pc |-> "idle"]

Init ==
    /\ row = Absent
    /\ drawn = {}
    /\ waitlisting = FALSE
    /\ join = [j \in Joins |-> Outside]
    /\ account = [u \in Usernames |-> NoToken]
    /\ requested = {}
    /\ faults = 0
    /\ shared = {}

Fault == faults < MaxFaults /\ faults' = faults + 1
----------------------------------------------------------------------------
(* The updates of InterestRepository, by the email alone; none is an upsert. *)

Update(r, new) == IF r = Absent THEN r ELSE new

Invited(r, t) == Update(r, [status |-> "invited", hash |-> t, live |-> TRUE])
Waitlisted(r) == Update(r, [status |-> "waitlisted", hash |-> NoToken, live |-> FALSE])

\* Seeded fault: the filter asks for a row that was not invited yet.
RegisteredIfNew(r) ==
    IF r.status = "new" THEN [r EXCEPT !.status = "registered", !.hash = NoToken] ELSE r
Registered(r) == Update(r, [status |-> "registered", hash |-> NoToken, live |-> r.live])

(* FindInvite: the hash of an invited row that has not expired.             *)
Valid(t) == row.hash = t /\ row.status = "invited" /\ row.live
----------------------------------------------------------------------------
(* handleInterest: an insert under the unique index on the address.         *)
Interest ==
    /\ row = Absent
    /\ row' = [Absent EXCEPT !.status = "new"]
    /\ UNCHANGED <<drawn, waitlisting, join, account, requested, faults, shared>>

(* handleAdminInterestInvite, also for somebody who has registered. The     *)
(* mail is sent after the row is written, and whether or not it matched.    *)
Invite(t) ==
    /\ t \notin drawn
    /\ drawn' = drawn \cup {t}
    /\ row' = Invited(row, t)
    /\ UNCHANGED <<waitlisting, join, account, requested, faults, shared>>

Expire ==
    /\ row.live
    /\ row' = [row EXCEPT !.live = FALSE]
    /\ UNCHANGED <<drawn, waitlisting, join, account, requested, faults, shared>>

(* handleAdminInterestWaitlist: the mail first, the status after it.        *)
SendWaitlist ==
    /\ ~waitlisting /\ waitlisting' = TRUE
    /\ UNCHANGED <<row, drawn, join, account, requested, faults, shared>>

MarkWaitlisted ==
    /\ waitlisting /\ waitlisting' = FALSE
    /\ \/ row' = Waitlisted(row) /\ UNCHANGED faults
       \/ UNCHANGED row /\ Fault
    /\ UNCHANGED <<drawn, join, account, requested, shared>>
----------------------------------------------------------------------------
(* handleInviteRegister *)

Holding(j, t) == join[j].pc # "idle" /\ join[j].token = t

Find(j, t) ==
    /\ join[j].pc = "idle" /\ t \in drawn /\ Valid(t)
    /\ \E u \in Usernames : join' = [join EXCEPT ![j] = [pc |-> "check", token |-> t, name |-> u]]
    /\ shared' = IF \E k \in Joins : Holding(k, t) THEN shared \cup {t} ELSE shared
    /\ UNCHANGED <<row, drawn, waitlisting, account, requested, faults>>

(* users.Register: a lookup, and an insert under the unique index.          *)
Taken(u) == account[u] # NoToken

Check(j) ==
    /\ join[j].pc = "check"
    /\ join' = [join EXCEPT ![j] = IF Taken(@.name) THEN Outside ELSE [@ EXCEPT !.pc = "create"]]
    /\ UNCHANGED <<row, drawn, waitlisting, account, requested, faults, shared>>

Create(j) ==
    /\ join[j].pc = "create"
    /\ IF Taken(join[j].name)
       THEN join' = [join EXCEPT ![j] = Outside] /\ UNCHANGED account
       ELSE /\ account' = [account EXCEPT ![join[j].name] = join[j].token]
            /\ join' = [join EXCEPT ![j].pc = "request"]
    /\ UNCHANGED <<row, drawn, waitlisting, requested, faults, shared>>

(* access.Request and MarkRegistered are logged when they fail.             *)
RequestAccess(j) ==
    /\ join[j].pc = "request"
    /\ \/ requested' = requested \cup {join[j].name} /\ UNCHANGED faults
       \/ UNCHANGED requested /\ Fault
    /\ join' = [join EXCEPT ![j].pc = "mark"]
    /\ UNCHANGED <<row, drawn, waitlisting, account, shared>>

MarkRegistered(j) ==
    /\ join[j].pc = "mark"
    /\ \/ row' = Registered(row) /\ UNCHANGED faults
       \/ UNCHANGED row /\ Fault
    /\ join' = [join EXCEPT ![j] = Outside]
    /\ UNCHANGED <<drawn, waitlisting, account, requested, shared>>

(* A store refuses, the insert is applied and its answer lost (the account  *)
(* then is in place without its mark), or the process dies.                 *)
Abort(j) ==
    /\ join[j].pc # "idle" /\ Fault
    /\ join' = [join EXCEPT ![j] = Outside]
    /\ UNCHANGED <<row, drawn, waitlisting, account, requested, shared>>

Joining(j) ==
    \/ \E t \in Tokens : Find(j, t)
    \/ Check(j) \/ Create(j) \/ RequestAccess(j) \/ MarkRegistered(j) \/ Abort(j)

Next ==
    \/ Interest \/ Expire \/ SendWaitlist \/ MarkWaitlisted
    \/ \E t \in Tokens : Invite(t)
    \/ \E j \in Joins : Joining(j)

Spec == Init /\ [][Next]_vars
----------------------------------------------------------------------------
TypeOK ==
    /\ row.status \in {"absent", "new", "invited", "registered", "waitlisted"}
    /\ row.hash \in Tokens \cup {NoToken} /\ row.live \in BOOLEAN
    /\ drawn \subseteq Tokens /\ shared \subseteq Tokens
    /\ waitlisting \in BOOLEAN
    /\ \A j \in Joins :
          \/ join[j] = Outside
          \/ join[j] \in [pc: {"check", "create", "request", "mark"}, token: Tokens, name: Usernames]
    /\ account \in [Usernames -> Tokens \cup {NoToken}]
    /\ requested \subseteq Usernames
    /\ faults \in 0..MaxFaults

MadeWith(t) == {u \in Usernames : account[u] = t}

(* One invitation makes one account. A second one takes two joins that both *)
(* found the link before either was marked, or a mark that was lost; a new  *)
(* invitation, a waitlist mail or a mark that comes late revive nothing.    *)
InviteSpentOnce ==
    \A t \in Tokens : Cardinality(MadeWith(t)) > 1 => t \in shared \/ faults > 0
=============================================================================
