------------------------------ MODULE Profiles ------------------------------
(* The key profiles of one user: CredentialService (auth/credentials.go)    *)
(* over its MongoDB repository (storage/mongo/credentials.go), which makes a *)
(* profile active in two updates, and the orders that look for the user's   *)
(* executor (exchange/binance/provider.go) meanwhile.                       *)
EXTENDS Integers, FiniteSets

CONSTANTS
    Names,      \* profile names
    Keys,       \* API keys
    Secrets,    \* what is entered as their secret
    Calls,      \* requests of the user in progress
    Orders,     \* confirms that ask for an executor
    None,       \* no profile, no key
    MaxCalls,   \* bound: requests
    MaxFaults   \* bound: accesses to the store that fail, restarts

ProfilesAssumption ==
    /\ None \notin Keys \cup Names
    /\ MaxCalls \in Nat /\ MaxFaults \in Nat

VARIABLES
    profile,    \* the user's documents
    cache,      \* executors built by this process, by cache key
    call,
    order,
    left,
    faults,
    overlap,    \* history: two requests ran at once
    misnamed    \* history: a profile that does not exist was activated

vars == <<profile, cache, call, order, left, faults, overlap, misnamed>>

Idle == [pc |-> "idle"]
NoProfile == [key |-> None, secret |-> None, active |-> FALSE]

Init ==
    /\ profile = [n \in Names |-> NoProfile]
    /\ cache = {}
    /\ call = [c \in Calls |-> Idle]
    /\ order = [o \in Orders |-> [pc |-> "new"]]
    /\ left = MaxCalls
    /\ faults = 0
    /\ overlap = FALSE /\ misnamed = FALSE

Stored == {n \in Names : profile[n] # NoProfile}
Active == {n \in Stored : profile[n].active}

Fault == faults < MaxFaults /\ faults' = faults + 1
----------------------------------------------------------------------------
(* A request starts: StoreProfile, SetActive or DeleteProfile.              *)
Arrive(c) ==
    /\ call[c].pc = "idle" /\ left > 0
    /\ left' = left - 1
    /\ overlap' = (overlap \/ \E d \in Calls : call[d].pc # "idle")
    /\ \E n \in Names :
          \/ \E k \in Keys, s \in Secrets :
                call' = [call EXCEPT ![c] = [pc |-> "list", name |-> n, key |-> k, secret |-> s]]
          \/ call' = [call EXCEPT ![c] = [pc |-> "clear", name |-> n]]
          \/ call' = [call EXCEPT ![c] = [pc |-> "remove", name |-> n]]
    /\ UNCHANGED <<profile, cache, order, faults, misnamed>>

\* Seeded fault: a profile that is stored again is inactive.
KeepsActiveIfFirst(n) == Stored = {}
(* What StoreProfile reads: the first profile becomes active, and an active *)
(* one that is replaced stays so.                                           *)
KeepsActive(n) == Stored = {} \/ n \in Active

List(c) ==
    /\ call[c].pc = "list"
    /\ call' = [call EXCEPT ![c] = [pc |-> "save", name |-> @.name, key |-> @.key,
                                    secret |-> @.secret, active |-> KeepsActive(@.name)]]
    /\ UNCHANGED <<profile, cache, order, left, faults, overlap, misnamed>>

Save(c) ==
    LET job == call[c] IN
    /\ job.pc = "save"
    /\ profile' = [profile EXCEPT ![job.name] =
                      [key |-> job.key, secret |-> job.secret, active |-> job.active]]
    /\ call' = [call EXCEPT ![c] = IF job.active THEN [pc |-> "clear", name |-> job.name] ELSE Idle]
    /\ UNCHANGED <<cache, order, left, faults, overlap, misnamed>>

(* SetActive: UpdateMany, then UpdateOne, which may match nothing.          *)
Clear(c) ==
    /\ call[c].pc = "clear"
    /\ profile' = [n \in Names |-> [profile[n] EXCEPT !.active = FALSE]]
    /\ call' = [call EXCEPT ![c].pc = "set"]
    /\ UNCHANGED <<cache, order, left, faults, overlap, misnamed>>

Set(c) ==
    LET n == call[c].name IN
    /\ call[c].pc = "set"
    /\ profile' = [profile EXCEPT ![n].active = n \in Stored]
    /\ misnamed' = (misnamed \/ n \notin Stored)
    /\ call' = [call EXCEPT ![c] = Idle]
    /\ UNCHANGED <<cache, order, left, faults, overlap>>

Remove(c) ==
    /\ call[c].pc = "remove"
    /\ profile' = [profile EXCEPT ![call[c].name] = NoProfile]
    /\ call' = [call EXCEPT ![c] = [pc |-> "relist"]]
    /\ UNCHANGED <<cache, order, left, faults, overlap, misnamed>>

\* Seeded fault: the next profile is not promoted.
HeirNone == {}
(* The profiles one of which DeleteProfile promotes: the first of those     *)
(* left, in the order of the collection, if none of them is active.         *)
Heirs == IF Active = {} THEN Stored ELSE {}

Relist(c) ==
    /\ call[c].pc = "relist"
    /\ \/ \E n \in Heirs : call' = [call EXCEPT ![c] = [pc |-> "clear", name |-> n]]
       \/ Heirs = {} /\ call' = [call EXCEPT ![c] = Idle]
    /\ UNCHANGED <<profile, cache, order, left, faults, overlap, misnamed>>

(* A read or a write fails: the request returns the error.                  *)
Abort(c) ==
    /\ call[c].pc # "idle" /\ Fault
    /\ call' = [call EXCEPT ![c] = Idle]
    /\ UNCHANGED <<profile, cache, order, left, overlap, misnamed>>

(* The process restarts with an empty cache; an order under way is over.    *)
Restart ==
    /\ Fault
    /\ call' = [c \in Calls |-> Idle]
    /\ cache' = {}
    /\ order' = [o \in Orders |-> IF order[o].pc = "build" THEN [pc |-> "new"] ELSE order[o]]
    /\ UNCHANGED <<profile, left, overlap, misnamed>>
----------------------------------------------------------------------------
(* ExecutorFor: Load, then the cache under its mutex. Without an active     *)
(* profile the order goes to the executor of the platform's own account.    *)

\* Seeded fault: one executor per user.
CacheKeyOfUser(k) == "user"
CacheKey(k) == k

Load(o) ==
    /\ order[o].pc = "new"
    /\ \/ /\ Active = {}
          /\ order' = [order EXCEPT ![o] = [pc |-> "shared", had |-> Stored # {}]]
       \/ \E n \in Active :
             order' = [order EXCEPT ![o] = [pc |-> "build", key |-> profile[n].key,
                                            secret |-> profile[n].secret]]
    /\ UNCHANGED <<profile, cache, call, left, faults, overlap, misnamed>>

Cached(k) == {e \in cache : e.at = CacheKey(k)}

Build(o) ==
    LET job == order[o]
        new == [at |-> CacheKey(job.key), key |-> job.key, secret |-> job.secret]
    IN /\ job.pc = "build"
       /\ cache' = IF Cached(job.key) = {} THEN cache \cup {new} ELSE cache
       /\ \E e \in IF Cached(job.key) = {} THEN {new} ELSE Cached(job.key) :
             order' = [order EXCEPT ![o] = [pc |-> "own", read |-> job.key, key |-> e.key,
                                            secret |-> e.secret]]
       /\ UNCHANGED <<profile, call, left, faults, overlap, misnamed>>

Request(c) ==
    \/ Arrive(c) \/ List(c) \/ Save(c) \/ Clear(c) \/ Set(c)
    \/ Remove(c) \/ Relist(c) \/ Abort(c)

Next ==
    \/ Restart
    \/ \E c \in Calls : Request(c)
    \/ \E o \in Orders : Load(o) \/ Build(o)

Spec == Init /\ [][Next]_vars
----------------------------------------------------------------------------
TypeOK ==
    /\ profile \in [Names -> [key: Keys \cup {None}, secret: Secrets \cup {None}, active: BOOLEAN]]
    /\ \A e \in cache : e.key \in Keys /\ e.secret \in Secrets
    /\ \A c \in Calls :
          call[c].pc \in {"idle", "list", "save", "clear", "set", "remove", "relist"}
    /\ \A o \in Orders : order[o].pc \in {"new", "build", "own", "shared"}
    /\ left \in 0..MaxCalls /\ faults \in 0..MaxFaults
    /\ overlap \in BOOLEAN /\ misnamed \in BOOLEAN

Quiet == \A c \in Calls : call[c].pc = "idle"

(* Whatever is stored, replaced, activated and deleted, one request after   *)
(* the other, a user who has profiles has exactly one active when none of   *)
(* the requests failed or named a profile that is not there.                *)
OneActiveProfile ==
    Quiet /\ ~overlap /\ ~misnamed /\ faults = 0 =>
        Cardinality(Active) = IF Stored = {} THEN 0 ELSE 1

(* After a switch of profiles no order runs on the executor of another key. *)
OrdersOnTheKeyRead ==
    \A o \in Orders : order[o].pc = "own" => order[o].key = order[o].read

(* Stated by ExecutorFor's comment (provider.go:43): an order falls back to *)
(* the shared account when the user has no stored credential.               *)
FallbackMeansNoCredential ==
    \A o \in Orders : order[o].pc = "shared" => ~order[o].had
=============================================================================
