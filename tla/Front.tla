------------------------------- MODULE Front -------------------------------
(***************************************************************************)
(* The parts of the process that share no state with one another: `part'   *)
(* is drawn in the initial state and only that part steps, so the states   *)
(* are the disjoint union of the states of Membership, Invites, Profiles,  *)
(* Chat, Signals and PaperRun.  Variables and constants of the same name   *)
(* in two parts are shared, since the parts never meet; those of the parts *)
(* that stand still are `off'.                                             *)
(***************************************************************************)
EXTENDS Commands, FiniteSets

CONSTANTS
    Root, Subjects, Calls, AiLimit, Cap, MaxCalls, MaxFaults,        \* Membership
    Keys, NoToken, Usernames,                                        \* Invites, Profiles
    Secrets, Names, Confirms, None,                                  \* Profiles
    Users, Allowed, TTL, Retention,                                  \* Chat
    Texts, Symbols, MaxMessages, MaxPrepared,
    Deliveries, Panels, Decisions, Error, MinConfidence,             \* Signals
    Ticks, Step, MinQty, MinNotional,
    Requests, MaxTrades, Bars, Shapes, Warmup, PlanBars, MaxHold,    \* PaperRun
    Lookback, MinStop, MaxStop, AtrMult, FeeRate, FoldCounts,
    Observations, AnnyTarget, AnnyTrades, AnnyLosses,
    off

VARIABLES
    part,
    access, beta, call, usage, left, faults, raced, strayed,         \* Membership
    row, drawn, waitlisting, join, account, requested, shared,       \* Invites
    profile, cache, order, overlap, misnamed,                        \* Profiles
    chat, doc, intent, orders, job,                                  \* Chat
    config, delivery, record,                                        \* Signals
    mode, plan, fold, bar, trades, results                           \* PaperRun

mAccess == <<access, beta, usage, raced, strayed>>
mInvites == <<row, drawn, waitlisting, join, account, requested, shared>>
mProfiles == <<profile, cache, order, overlap, misnamed>>
mChat == <<chat, doc, intent, job>>
mSignals == <<config, delivery, record>>
mPaper == <<mode, plan, fold, bar, trades, results>>
vars == <<part, call, left, faults, orders, mAccess, mInvites, mProfiles, mChat, mSignals, mPaper>>

M == INSTANCE Membership
I == INSTANCE Invites WITH Tokens <- Keys, Joins <- Calls
P == INSTANCE Profiles WITH Orders <- Confirms
C == INSTANCE Chat WITH Handlers <- Calls
S == INSTANCE Signals
R == INSTANCE PaperRun

ASSUME FrontAssumption ==
    /\ M!MembershipAssumption /\ I!InvitesAssumption /\ P!ProfilesAssumption
    /\ C!ChatAssumption /\ S!SignalsAssumption /\ R!PaperAssumption
    /\ TTL \in Nat \ {0} /\ Retention \in Nat

AccessOff == access = off /\ beta = off /\ usage = off /\ raced = off /\ strayed = off
InvitesOff == /\ row = off /\ drawn = off /\ waitlisting = off /\ join = off
              /\ account = off /\ requested = off /\ shared = off
ProfilesOff == profile = off /\ cache = off /\ order = off /\ overlap = off /\ misnamed = off
ChatOff == chat = off /\ doc = off /\ intent = off /\ job = off
SignalsOff == config = off /\ delivery = off /\ record = off
PaperOff == mode = off /\ plan = off /\ fold = off /\ bar = off /\ trades = off /\ results = off

Init ==
    \/ /\ part = "access" /\ M!Init /\ orders = off
       /\ InvitesOff /\ ProfilesOff /\ ChatOff /\ SignalsOff /\ PaperOff
    \/ /\ part = "invites" /\ I!Init /\ call = off /\ left = off /\ orders = off
       /\ AccessOff /\ ProfilesOff /\ ChatOff /\ SignalsOff /\ PaperOff
    \/ /\ part = "profiles" /\ P!Init /\ orders = off
       /\ AccessOff /\ InvitesOff /\ ChatOff /\ SignalsOff /\ PaperOff
    \/ /\ part = "chat" /\ C!Init /\ call = off /\ left = off /\ faults = off
       /\ AccessOff /\ InvitesOff /\ ProfilesOff /\ SignalsOff /\ PaperOff
    \/ /\ part = "signals" /\ S!Init /\ call = off /\ left = off
       /\ AccessOff /\ InvitesOff /\ ProfilesOff /\ ChatOff /\ PaperOff
    \/ /\ part = "paper" /\ R!Init /\ call = off /\ left = off /\ faults = off /\ orders = off
       /\ AccessOff /\ InvitesOff /\ ProfilesOff /\ ChatOff /\ SignalsOff

Next ==
    \/ /\ part = "access" /\ M!Next
       /\ UNCHANGED <<part, orders, mInvites, mProfiles, mChat, mSignals, mPaper>>
    \/ /\ part = "invites" /\ I!Next
       /\ UNCHANGED <<part, call, left, orders, mAccess, mProfiles, mChat, mSignals, mPaper>>
    \/ /\ part = "profiles" /\ P!Next
       /\ UNCHANGED <<part, orders, mAccess, mInvites, mChat, mSignals, mPaper>>
    \/ /\ part = "chat" /\ C!Next
       /\ UNCHANGED <<part, call, left, faults, mAccess, mInvites, mProfiles, mSignals, mPaper>>
    \/ /\ part = "signals" /\ S!Next
       /\ UNCHANGED <<part, call, left, mAccess, mInvites, mProfiles, mChat, mPaper>>
    \/ /\ part = "paper" /\ R!Next
       /\ UNCHANGED <<part, call, left, faults, orders, mAccess, mInvites, mProfiles, mChat, mSignals>>

Spec == Init /\ [][Next]_vars
-----------------------------------------------------------------------------
(* The properties of the parts, each explained in its module.               *)

(* Founder numbers never pass the cap and are 1, 2, 3, ... (AssignFounder). *)
FoundersAreSound == part = "access" => M!FoundersAreSound

(* Only a revocation ends an approval (Request, Approve, Revoke).           *)
ApprovalSurvives ==
    [][part = "access" => \A s \in Subjects : access[s].status = "approved" =>
           access'[s].status \in {"approved", "revoked"}]_vars

(* One invitation makes one account (handleInviteRegister).                 *)
InviteSpentOnce == part = "invites" => I!InviteSpentOnce

(* A user who has profiles has one active (StoreProfile, DeleteProfile).    *)
OneActiveProfile == part = "profiles" => P!OneActiveProfile

(* An order runs on the executor of the key that was read (ExecutorFor).    *)
OrdersOnTheKeyRead == part = "profiles" => P!OrdersOnTheKeyRead

(* What a chat message says of its order is true for good (handleCallback). *)
ChatTellsTheTruth == part = "chat" => C!ChatTellsTheTruth

(* What is sent was reviewed by somebody on the allowlist (Handle).         *)
OrdersWereReviewed == part = "chat" => C!OrdersWereReviewed

(* An order of a signal has the panel behind it (Process, Decide), and      *)
(* rounding keeps it within what was decided (executeOpen).                 *)
SignalOrdersAreSound ==
    part = "signals" => S!SignalOrdersAreBacked /\ S!OrdersFitTheFilters

(* Trades and folds of a paper run are apart in time (RunPaper).            *)
TradesAreApart == part = "paper" => R!TradesAreApart

(* A paper run keeps to its goal (RunPaper, applyLeverageSizing).           *)
RunKeepsToItsGoal == part = "paper" => R!RunKeepsToItsGoal
=============================================================================
