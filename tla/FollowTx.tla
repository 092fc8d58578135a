-------------------------------- MODULE FollowTx --------------------------------
(***************************************************************************)
(* SetFollow, the transaction behind following and unfollowing, statement  *)
(* by statement with its row locks: both account rows, in the order        *)
(* follower, target; both counter rows; the follow row. Two accounts that  *)
(* follow each other at the same time wait in a circle; InnoDB then rolls  *)
(* one transaction back.                                                   *)
(*                                                                         *)
(* A row read FOR UPDATE is the last committed one, and writes become      *)
(* visible at Commit, which releases the locks. The rules for the delta    *)
(* and for replayed keys are those of ActionRules, written out again in    *)
(* domain/relation/entity.go. ensureStat inserts a counter row of zeros if *)
(* there is none, and locks it; a missing row reads as zeros everywhere.   *)
(* Left out are the gaps of indexes: looking for a follow row that is not  *)
(* there (gorm.go:62) locks the gap it is missing from, so two first       *)
(* follows may also wait in a circle with their insertions. InnoDB breaks  *)
(* it like the others; InteractionLocks has such gaps.                     *)
(*                                                                         *)
(* Source: internal/infra/persistence/relation/gorm.go and                 *)
(* internal/application/relation/service.go.                               *)
(***************************************************************************)
EXTENDS ActionRules, FiniteSets

CONSTANTS
    Procs,     \* goroutines that serve requests
    Users,
    Pairs,     \* who may ask to follow whom
    Requests,  \* what they ask: records with pair, active and key
    NoRequest,
    MaxSuspended   \* bound: accounts taken out of use in the whole run

VARIABLES
    normal,       \* accounts in status normal
    follow,       \* follow[pair]: the row of user_follow
    following,    \* following_count and follower_count of user_relation_stat
    followers,
    pc, req,      \* per goroutine: next step and request,
    held,         \*   rows locked by its transaction,
    delta,        \*   the change of the counters it has decided on,
    counts        \*   and the two counters it is going to write

rows   == <<normal, follow, following, followers>>
locals == <<pc, req, held, delta, counts>>
vars   == <<normal, follow, following, followers, pc, req, held, delta, counts>>

ASSUME UsersFinite == IsFiniteSet(Users)

\* NewFollow refuses a user who follows himself.
ASSUME PairsOfUsers == \A p \in Pairs : p \in Users \X Users /\ p[1] # p[2]

ASSUME RequestsTyped == Requests \subseteq [pair : Pairs, active : BOOLEAN, key : Key]

ASSUME NoRequestIsNone == NoRequest \notin Requests

Account(u)   == <<"account", u>>
StatRow(u)   == <<"stat", u>>
FollowRow(p) == <<"follow", p>>

Init ==
    /\ normal = Users
    /\ follow = [p \in Pairs |-> Absent]
    /\ following = [u \in Users |-> 0]
    /\ followers = [u \in Users |-> 0]
    /\ pc = [i \in Procs |-> "idle"]
    /\ req = [i \in Procs |-> NoRequest]
    /\ held = [i \in Procs |-> {}]
    /\ delta = [i \in Procs |-> 0]
    /\ counts = [i \in Procs |-> <<0, 0>>]

UserOf(i)   == req[i].pair[1]
TargetOf(i) == req[i].pair[2]

Goto(i, label) == pc' = [pc EXCEPT ![i] = label]

Unlocked(i, row) == \A j \in Procs \ {i} : row \notin held[j]

Hold(i, row) == held' = [held EXCEPT ![i] = @ \cup {row}]

\* Commit or rollback: the locks go.
Finish(i) ==
    /\ Goto(i, "idle")
    /\ req' = [req EXCEPT ![i] = NoRequest]
    /\ held' = [held EXCEPT ![i] = {}]
    /\ delta' = [delta EXCEPT ![i] = 0]
    /\ counts' = [counts EXCEPT ![i] = <<0, 0>>]

Begin(i, r) ==
    /\ pc[i] = "idle"
    /\ req' = [req EXCEPT ![i] = r]
    /\ Goto(i, "user")
    /\ UNCHANGED <<rows, held, delta, counts>>

\* Wrong variant: the account is locked whatever its status.
LockAnyAccount(i, u, next) ==
    /\ Unlocked(i, Account(u))
    /\ Hold(i, Account(u)) /\ Goto(i, next)
    /\ UNCHANGED <<rows, req, delta, counts>>

\* lockNormalUser: an account that is not normal ends the transaction.
LockAccount(i, u, next) ==
    /\ Unlocked(i, Account(u))
    /\ IF u \in normal
       THEN Hold(i, Account(u)) /\ Goto(i, next) /\ UNCHANGED <<req, delta, counts>>
       ELSE Finish(i)
    /\ UNCHANGED rows

LockUser(i) == pc[i] = "user" /\ LockAccount(i, UserOf(i), "target")

\* Wrong variant: the transaction of a target that is not normal is left open.
LeaveTargetOpen(i) ==
    /\ pc[i] = "target"
    /\ TargetOf(i) \in normal
    /\ LockAccount(i, TargetOf(i), "userStat")

LockTarget(i) == pc[i] = "target" /\ LockAccount(i, TargetOf(i), "userStat")

\* ensureStat.
LockStat(i, u, next) ==
    /\ Unlocked(i, StatRow(u))
    /\ Hold(i, StatRow(u))
    /\ Goto(i, next)
    /\ UNCHANGED <<rows, req, delta, counts>>

EnsureUserStat(i)   == pc[i] = "userStat" /\ LockStat(i, UserOf(i), "targetStat")
EnsureTargetStat(i) == pc[i] = "targetStat" /\ LockStat(i, TargetOf(i), "follow")

\* The follow row decides what the request changes.
FindFollow(i) ==
    /\ pc[i] = "follow"
    /\ Unlocked(i, FollowRow(req[i].pair))
    /\ Hold(i, FollowRow(req[i].pair))
    /\ delta' = [delta EXCEPT ![i] = RowDelta(follow[req[i].pair], req[i].active, req[i].key)]
    /\ Goto(i, "counts")
    /\ UNCHANGED <<rows, req, counts>>

\* Wrong variant: the target's counter is not read again after the delta is known.
KeepTargetCount(i) == <<Clamp(following[UserOf(i)] + delta[i]), followers[TargetOf(i)]>>

\* updateStat for both users, or currentStat if there is nothing to change.
NewCounts(i) ==
    <<Clamp(following[UserOf(i)] + delta[i]), Clamp(followers[TargetOf(i)] + delta[i])>>

UpdateStats(i) ==
    /\ pc[i] = "counts"
    /\ counts' = [counts EXCEPT ![i] = NewCounts(i)]
    /\ Goto(i, "commit")
    /\ UNCHANGED <<rows, req, held, delta>>

\* The row the transaction leaves: new, rewritten, or that of the replayed request.
Stored(i) == RowAfter(follow[req[i].pair], req[i].active, req[i].key)

Commit(i) ==
    /\ pc[i] = "commit"
    /\ follow' = [follow EXCEPT ![req[i].pair] = Stored(i)]
    /\ following' = [following EXCEPT ![UserOf(i)] = counts[i][1]]
    /\ followers' = [followers EXCEPT ![TargetOf(i)] = counts[i][2]]
    /\ Finish(i)
    /\ UNCHANGED normal

\* What the next statement of `i` waits for.
Wanted(i) ==
    CASE pc[i] = "user"       -> {Account(UserOf(i))}
      [] pc[i] = "target"     -> {Account(TargetOf(i))}
      [] pc[i] = "userStat"   -> {StatRow(UserOf(i))}
      [] pc[i] = "targetStat" -> {StatRow(TargetOf(i))}
      [] pc[i] = "follow"     -> {FollowRow(req[i].pair)}
      [] OTHER                -> {}

WaitsFor(i, j) == i # j /\ Wanted(i) \cap held[j] # {}

\* `i` waits for a transaction that, directly or not, waits for `i`.
InCircle(i) ==
    \E S \in SUBSET Procs :
        /\ i \in S
        /\ \A j \in S : \E k \in S : WaitsFor(j, k)

\* InnoDB rolls back a transaction of a circle as soon as the circle closes.
Victim(i) == InCircle(i) /\ Finish(i) /\ UNCHANGED rows

\* An error of the database, a cancelled request, the end of the process.
Abort(i) ==
    /\ pc[i] # "idle"
    /\ Finish(i)
    /\ UNCHANGED rows

\* An account is taken out of use, in one UPDATE; nothing in this repository does.
Suspend(u) ==
    /\ u \in normal
    /\ Cardinality(Users \ normal) < MaxSuspended
    /\ \A i \in Procs : Account(u) \notin held[i]
    /\ normal' = normal \ {u}
    /\ UNCHANGED <<follow, following, followers, locals>>

Advance(i) ==
    \/ LockUser(i) \/ LockTarget(i) \/ EnsureUserStat(i) \/ EnsureTargetStat(i)
    \/ FindFollow(i) \/ UpdateStats(i) \/ Commit(i)

Next ==
    \/ \E i \in Procs : \/ \E r \in Requests : Begin(i, r)
                        \/ Advance(i) \/ Victim(i) \/ Abort(i)
    \/ \E u \in Users : Suspend(u)

\* InnoDB grants a row lock to those who wait for it in their order, so nobody is
\* passed over for ever, and does not leave a circle alone.
Fairness == \A i \in Procs : SF_vars(Advance(i)) /\ WF_vars(Victim(i))

Spec == Init /\ [][Next]_vars /\ Fairness

--------------------------------------------------------------------------------
(* Properties *)

PCs == {"idle", "user", "target", "userStat", "targetStat", "follow", "counts", "commit"}

RowNames == {Account(u) : u \in Users} \cup {StatRow(u) : u \in Users}
                                       \cup {FollowRow(p) : p \in Pairs}

TypeOK ==
    /\ normal \subseteq Users
    /\ follow \in [Pairs -> Record]
    /\ following \in [Users -> Nat]
    /\ followers \in [Users -> Nat]
    /\ pc \in [Procs -> PCs]
    /\ req \in [Procs -> Requests \cup {NoRequest}]
    /\ held \in [Procs -> SUBSET RowNames]
    /\ delta \in [Procs -> {-1, 0, 1}]
    /\ counts \in [Procs -> Nat \X Nat]

Follows == {p \in Pairs : follow[p].status = Active}

Followed(u)  == {p \in Follows : p[1] = u}
Following(u) == {p \in Follows : p[2] = u}

(* The counters of every user are the numbers of active follow rows of and   *)
(* to that user, whatever replays, repeated unfollows, rollbacks and         *)
(* concurrent requests of other users for the same counters have done        *)
(* (gorm.go:107). The profile page counts the rows, the list the counters.   *)
CountersAgree ==
    \A u \in Users : /\ following[u] = Cardinality(Followed(u))
                     /\ followers[u] = Cardinality(Following(u))

(* Every request comes to an end: circles are broken, and no way out of the  *)
(* transaction leaves a lock behind (gorm.go:47, 123).                       *)
RequestsEnd == \A i \in Procs : pc[i] # "idle" ~> pc[i] = "idle"

(* The strengthening under which CountersAgree is inductive. Exclusive: a    *)
(* row is locked by one transaction at a time.                               *)
Exclusive == \A i, j \in Procs : i # j => held[i] \cap held[j] = {}

(* A transaction holds what it has locked on its way.                        *)
Staged ==
    \A i \in Procs :
        /\ pc[i] = "idle" <=> req[i] = NoRequest
        /\ pc[i] \notin {"idle", "user"} => Account(UserOf(i)) \in held[i]
        /\ pc[i] \in PCs \ {"idle", "user", "target"} => Account(TargetOf(i)) \in held[i]

(* What it has read under its locks is still true.                           *)
Decided ==
    \A i \in Procs :
        /\ pc[i] \in {"counts", "commit"} =>
              delta[i] = RowDelta(follow[req[i].pair], req[i].active, req[i].key)
        /\ pc[i] = "commit" => counts[i] = NewCounts(i)

(* The accounts it has locked are still in use.                              *)
Indeed ==
    \A i \in Procs :
        /\ pc[i] \notin {"idle", "user"} => UserOf(i) \in normal
        /\ pc[i] \in PCs \ {"idle", "user", "target"} => TargetOf(i) \in normal

IInv == TypeOK /\ Exclusive /\ Staged /\ Decided /\ Indeed /\ CountersAgree

(* The transactions implement the promise of FollowLedger.                   *)
Ledger == INSTANCE FollowLedger WITH follows <- Follows

LedgerSpec == Ledger!Spec
================================================================================
