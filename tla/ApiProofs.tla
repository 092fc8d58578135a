------------------------------- MODULE ApiProofs -------------------------------
(***************************************************************************)
(* Proofs about the parts of the API: FollowTx, for every number of        *)
(* goroutines and users, and the nine parts that MCApiParts runs, for all  *)
(* values of their constants within the named assumptions.                 *)
(*                                                                         *)
(* FollowTx: a transaction past its first two locks holds both account     *)
(* rows (Staged) and nobody else does (Exclusive). Whatever it has read of *)
(* these two users and of their pair is therefore still true when it       *)
(* commits (Decided), and the counters it installs are the sizes of the    *)
(* sets of follows it leaves behind.                                       *)
(*                                                                         *)
(* Lists: a finite set in a strict total order has one element of each     *)
(* rank, so RankedBy lists each element once and in order. A page is the   *)
(* beginning of such a list behind a cursor, which is the last row shown:  *)
(* FeedPages and Playback then only need that a row which may yet be shown *)
(* never moves back. HotWindow counts places in the sum of the minutes,    *)
(* Recommend compares with what a video would be ranked as now.            *)
(*                                                                         *)
(* The remaining parts keep what their processes have learnt: StatCache    *)
(* owes a reset whenever counters are wrong, RateLimit balances what was   *)
(* taken from a bucket with what has flowed in, Accounts and Playback keep *)
(* their unique keys, Upload what it has checked, Embeddings the ids up to *)
(* which all vectors are written.                                          *)
(***************************************************************************)
EXTENDS FollowTx, MCApiParts, SequenceTheorems, FiniteSetTheorems, FunctionTheorems,
        WellFoundedInduction, NaturalsInduction, TLAPS

--------------------------------------------------------------------------------
(* FollowTx.                                                                *)
(* The rules and the sets that are counted *)

(* The delta of a request is the change it makes to the number of active     *)
(* rows (domain/relation/entity.go, ResolveFollowDelta).                     *)
LEMMA DeltaIsTheChange ==
    ASSUME NEW was \in Record, NEW active \in BOOLEAN, NEW key \in Key
    PROVE  /\ RowAfter(was, active, key) \in Record
           /\ RowDelta(was, active, key) \in {-1, 0, 1}
           /\ RowAfter(was, active, key).status = Active
                  => RowDelta(was, active, key) = (IF was.status = Active THEN 0 ELSE 1)
           /\ RowAfter(was, active, key).status # Active
                  => RowDelta(was, active, key) = (IF was.status = Active THEN -1 ELSE 0)
  BY DEF Record, Status, Key, RowAfter, RowDelta, IsReplay, ResolveActionDelta,
         StatusFromActive, Active, Canceled, Unset

LEMMA PairsFinite == IsFiniteSet(Pairs)
  <1>1. IsFiniteSet(Users \X Users)
    BY UsersFinite, FS_Product
  <1>2. Pairs \subseteq Users \X Users
    BY PairsOfUsers
  <1> QED
    BY <1>1, <1>2, FS_Subset

(* The follows of a user and to a user can be counted.                       *)
LEMMA FollowsFinite ==
    ASSUME NEW u
    PROVE  /\ IsFiniteSet(Followed(u)) /\ Cardinality(Followed(u)) \in Nat
           /\ IsFiniteSet(Following(u)) /\ Cardinality(Following(u)) \in Nat
  BY PairsFinite, FS_Subset, FS_CardinalityType DEF Followed, Following, Follows

(* Both users of a request are users, and not one.                           *)
LEMMA RequestTyped ==
    ASSUME TypeOK, NEW i \in Procs, req[i] # NoRequest
    PROVE  /\ req[i] \in Requests
           /\ req[i].pair \in Pairs /\ req[i].active \in BOOLEAN /\ req[i].key \in Key
           /\ UserOf(i) \in Users /\ TargetOf(i) \in Users /\ UserOf(i) # TargetOf(i)
           /\ req[i].pair = <<UserOf(i), TargetOf(i)>>
  <1>1. req[i] \in Requests
    BY DEF TypeOK
  <1>2. req[i] \in [pair : Pairs, active : BOOLEAN, key : Key]
    BY <1>1, RequestsTyped
  <1>3. req[i].pair \in Users \X Users /\ req[i].pair[1] # req[i].pair[2]
    BY <1>2, PairsOfUsers
  <1> QED
    BY <1>1, <1>2, <1>3 DEF UserOf, TargetOf

(* Rows of different kinds or users are different.                           *)
LEMMA RowsDiffer ==
    ASSUME NEW u, NEW v
    PROVE  /\ Account(u) = Account(v) => u = v
           /\ StatRow(u) = StatRow(v) => u = v
  BY DEF Account, StatRow

--------------------------------------------------------------------------------
(* Steps that change no row *)

(* The counters and follows that are compared only look at the rows.         *)
LEMMA RowsKept ==
    ASSUME CountersAgree, UNCHANGED rows
    PROVE  CountersAgree'
  BY DEF rows, CountersAgree, Followed, Following, Follows

(* A transaction that ends without a commit leaves every invariant alone.    *)
LEMMA FinishKeepsIInv ==
    ASSUME IInv, NEW i \in Procs, Finish(i), UNCHANGED rows
    PROVE  IInv'
  <1> USE DEF Finish, Goto
  <1>1. TypeOK'
    BY DEF IInv, TypeOK, rows, PCs
  <1>2. Exclusive'
    BY DEF IInv, TypeOK, Exclusive
  <1>3. Staged'
    BY DEF IInv, TypeOK, Staged, UserOf, TargetOf
  <1>4. Decided'
    BY DEF IInv, TypeOK, Decided, NewCounts, UserOf, TargetOf, rows
  <1>5. Indeed'
    BY DEF IInv, TypeOK, Indeed, UserOf, TargetOf, rows
  <1> QED
    BY <1>1, <1>2, <1>3, <1>4, <1>5, RowsKept DEF IInv

LEMMA BeginKeepsIInv ==
    ASSUME IInv, NEW i \in Procs, NEW r \in Requests, Begin(i, r)
    PROVE  IInv'
  <1> USE DEF Begin, Goto
  <1>1. TypeOK'
    BY DEF IInv, TypeOK, rows, PCs
  <1>2. Exclusive'
    BY DEF IInv, Exclusive
  <1>3. Staged'
    BY NoRequestIsNone DEF IInv, TypeOK, Staged, UserOf, TargetOf
  <1>4. Decided'
    BY DEF IInv, TypeOK, Decided, NewCounts, UserOf, TargetOf, rows
  <1>5. Indeed'
    BY DEF IInv, TypeOK, Indeed, UserOf, TargetOf, rows, PCs
  <1> QED
    BY <1>1, <1>2, <1>3, <1>4, <1>5, RowsKept DEF IInv

LEMMA LockUserKeepsIInv ==
    ASSUME IInv, NEW i \in Procs, LockUser(i)
    PROVE  IInv'
  <1>1. CASE UserOf(i) \notin normal
    BY <1>1, FinishKeepsIInv DEF LockUser, LockAccount
  <1>2. CASE UserOf(i) \in normal
    <2> USE <1>2 DEF LockUser, LockAccount, Goto, Hold, Unlocked
    <2>0. /\ req[i] # NoRequest /\ Account(UserOf(i)) \in RowNames
          /\ pc[i] = "user"
      BY RequestTyped DEF IInv, Staged, RowNames
    <2>1. TypeOK'
      BY SMTT(30), <2>0 DEF IInv, TypeOK, rows, PCs
    <2>2. Exclusive'
      BY DEF IInv, TypeOK, Exclusive
    <2>3. Staged'
      BY <2>0 DEF IInv, TypeOK, Staged, UserOf, TargetOf
    <2>4. Decided' /\ Indeed'
      BY DEF IInv, TypeOK, Decided, Indeed, NewCounts, UserOf, TargetOf, rows, PCs
    <2> QED
      BY RowsKept, <2>1, <2>2, <2>3, <2>4 DEF IInv
  <1> QED
    BY <1>1, <1>2

LEMMA LockTargetKeepsIInv ==
    ASSUME IInv, NEW i \in Procs, LockTarget(i)
    PROVE  IInv'
  <1>1. CASE TargetOf(i) \notin normal
    BY <1>1, FinishKeepsIInv DEF LockTarget, LockAccount
  <1>2. CASE TargetOf(i) \in normal
    <2> USE <1>2 DEF LockTarget, LockAccount, Goto, Hold, Unlocked
    <2>0. /\ req[i] # NoRequest /\ Account(TargetOf(i)) \in RowNames
          /\ pc[i] = "target"
      BY RequestTyped DEF IInv, Staged, RowNames
    <2>1. TypeOK'
      BY <2>0 DEF IInv, TypeOK, rows, PCs
    <2>2. Exclusive'
      BY DEF IInv, TypeOK, Exclusive
    <2>3. Staged'
      BY <2>0 DEF IInv, TypeOK, Staged, UserOf, TargetOf
    <2>4. Decided' /\ Indeed'
      BY DEF IInv, TypeOK, Decided, Indeed, NewCounts, UserOf, TargetOf, rows, PCs
    <2> QED
      BY RowsKept, <2>1, <2>2, <2>3, <2>4 DEF IInv
  <1> QED
    BY <1>1, <1>2

LEMMA EnsureUserStatKeepsIInv ==
    ASSUME IInv, NEW i \in Procs, EnsureUserStat(i)
    PROVE  IInv'
  <1> USE DEF EnsureUserStat, LockStat, Goto, Hold, Unlocked
  <1>0. req[i] # NoRequest /\ UserOf(i) \in Users
    BY RequestTyped DEF IInv, Staged
  <1>1. TypeOK'
    BY <1>0 DEF IInv, TypeOK, rows, PCs, RowNames
  <1>2. Exclusive'
    BY DEF IInv, TypeOK, Exclusive
  <1>3. Staged'
    BY <1>0 DEF IInv, TypeOK, Staged, UserOf, TargetOf, PCs
  <1>4. Decided'
    BY DEF IInv, TypeOK, Decided, NewCounts, UserOf, TargetOf, rows
  <1>5. Indeed'
    BY DEF IInv, TypeOK, Indeed, UserOf, TargetOf, rows, PCs
  <1> QED
    BY <1>1, <1>2, <1>3, <1>4, <1>5, RowsKept DEF IInv

LEMMA EnsureTargetStatKeepsIInv ==
    ASSUME IInv, NEW i \in Procs, EnsureTargetStat(i)
    PROVE  IInv'
  <1> USE DEF EnsureTargetStat, LockStat, Goto, Hold, Unlocked
  <1>0. req[i] # NoRequest /\ TargetOf(i) \in Users
    BY RequestTyped DEF IInv, Staged
  <1>1. TypeOK'
    BY <1>0 DEF IInv, TypeOK, rows, PCs, RowNames
  <1>2. Exclusive'
    BY DEF IInv, TypeOK, Exclusive
  <1>3. Staged'
    BY <1>0 DEF IInv, TypeOK, Staged, UserOf, TargetOf, PCs
  <1>4. Decided'
    BY DEF IInv, TypeOK, Decided, NewCounts, UserOf, TargetOf, rows
  <1>5. Indeed'
    BY DEF IInv, TypeOK, Indeed, UserOf, TargetOf, rows, PCs
  <1> QED
    BY <1>1, <1>2, <1>3, <1>4, <1>5, RowsKept DEF IInv

LEMMA FindFollowKeepsIInv ==
    ASSUME IInv, NEW i \in Procs, FindFollow(i)
    PROVE  IInv'
  <1> USE DEF FindFollow, Goto, Hold, Unlocked
  <1>0. /\ req[i] # NoRequest
        /\ req[i].pair \in Pairs /\ req[i].active \in BOOLEAN /\ req[i].key \in Key
    BY RequestTyped DEF IInv, Staged
  <1>1. RowDelta(follow[req[i].pair], req[i].active, req[i].key) \in {-1, 0, 1}
    BY <1>0, DeltaIsTheChange DEF IInv, TypeOK
  <1>2. TypeOK'
    BY SMTT(30), <1>0, <1>1 DEF IInv, TypeOK, rows, PCs, RowNames
  <1>3. Exclusive'
    BY DEF IInv, TypeOK, Exclusive
  <1>4. Staged'
    BY <1>0 DEF IInv, TypeOK, Staged, UserOf, TargetOf, PCs
  <1>5. Decided'
    BY DEF IInv, TypeOK, Decided, NewCounts, UserOf, TargetOf, rows
  <1>6. Indeed'
    BY DEF IInv, TypeOK, Indeed, UserOf, TargetOf, rows, PCs
  <1> QED
    BY <1>2, <1>3, <1>4, <1>5, <1>6, RowsKept DEF IInv

LEMMA UpdateStatsKeepsIInv ==
    ASSUME IInv, NEW i \in Procs, UpdateStats(i)
    PROVE  IInv'
  <1> USE DEF UpdateStats, Goto
  <1>0. req[i] # NoRequest /\ UserOf(i) \in Users /\ TargetOf(i) \in Users
    BY RequestTyped DEF IInv, Staged
  <1>1. NewCounts(i) \in Nat \X Nat
    BY <1>0 DEF IInv, TypeOK, NewCounts, Clamp
  <1>2. TypeOK'
    BY <1>1 DEF IInv, TypeOK, rows, PCs
  <1>3. Exclusive'
    BY DEF IInv, Exclusive
  <1>4. Staged'
    BY DEF IInv, TypeOK, Staged, UserOf, TargetOf, PCs
  <1>5. Decided'
    BY DEF IInv, TypeOK, Decided, NewCounts, UserOf, TargetOf, rows
  <1>6. Indeed'
    BY DEF IInv, TypeOK, Indeed, UserOf, TargetOf, rows, PCs
  <1> QED
    BY <1>2, <1>3, <1>4, <1>5, <1>6, RowsKept DEF IInv

(* An account is only taken out of use while no transaction holds it.        *)
LEMMA SuspendKeepsIInv ==
    ASSUME IInv, NEW u \in Users, Suspend(u)
    PROVE  IInv'
  <1> USE DEF Suspend, locals
  <1>1. TypeOK'
    BY DEF IInv, TypeOK
  <1>2. Exclusive'
    BY DEF IInv, Exclusive
  <1>3. Staged'
    BY DEF IInv, Staged, UserOf, TargetOf
  <1>4. Decided'
    BY DEF IInv, Decided, NewCounts, UserOf, TargetOf
  <1>5. Indeed'
    BY DEF IInv, Staged, Indeed, UserOf, TargetOf
  <1>6. CountersAgree'
    BY DEF IInv, CountersAgree, Followed, Following, Follows
  <1> QED
    BY <1>1, <1>2, <1>3, <1>4, <1>5, <1>6 DEF IInv

--------------------------------------------------------------------------------
(* Commit *)

(* No two transactions past their first locks share a user.                  *)
LEMMA UsersApart ==
    ASSUME IInv, NEW i \in Procs, NEW j \in Procs, i # j,
           pc[i] \in PCs \ {"idle", "user", "target"},
           pc[j] \in PCs \ {"idle", "user", "target"}
    PROVE  {UserOf(i), TargetOf(i)} \cap {UserOf(j), TargetOf(j)} = {}
  <1>1. /\ {Account(UserOf(i)), Account(TargetOf(i))} \subseteq held[i]
        /\ {Account(UserOf(j)), Account(TargetOf(j))} \subseteq held[j]
    BY DEF IInv, Staged, PCs
  <1>2. held[i] \cap held[j] = {}
    BY DEF IInv, Exclusive
  <1> QED
    BY <1>1, <1>2, RowsDiffer

(* What a commit does to the follows and to the two counters.                *)
LEMMA CommitMoves ==
    ASSUME IInv, NEW i \in Procs, Commit(i)
    PROVE  LET p == req[i].pair
           IN  /\ p \in Pairs /\ p = <<UserOf(i), TargetOf(i)>>
               /\ UserOf(i) \in normal /\ TargetOf(i) \in normal
               /\ UserOf(i) # TargetOf(i)
               /\ \/ delta[i] = 1 /\ p \notin Follows /\ Follows' = Follows \cup {p}
                  \/ delta[i] = 0 /\ Follows' = Follows
                  \/ delta[i] = -1 /\ p \in Follows /\ Follows' = Follows \ {p}
               /\ following' = [following EXCEPT ![UserOf(i)] = @ + delta[i]]
               /\ followers' = [followers EXCEPT ![TargetOf(i)] = @ + delta[i]]
  <1> DEFINE p == req[i].pair
  <1>1. /\ pc[i] = "commit" /\ req[i] # NoRequest
        /\ p \in Pairs /\ req[i].active \in BOOLEAN /\ req[i].key \in Key
        /\ UserOf(i) \in Users /\ TargetOf(i) \in Users /\ UserOf(i) # TargetOf(i)
        /\ p = <<UserOf(i), TargetOf(i)>>
    BY RequestTyped DEF IInv, Staged, Commit
  <1>2. UserOf(i) \in normal /\ TargetOf(i) \in normal
    BY <1>1 DEF IInv, Indeed, PCs
  <1>3. /\ delta[i] = RowDelta(follow[p], req[i].active, req[i].key)
        /\ counts[i] = NewCounts(i)
    BY <1>1 DEF IInv, Decided
  <1>4. follow[p] \in Record /\ follow \in [Pairs -> Record]
    BY <1>1 DEF IInv, TypeOK
  <1>5. /\ Stored(i).status = Active => delta[i] = (IF follow[p].status = Active THEN 0 ELSE 1)
        /\ Stored(i).status # Active => delta[i] = (IF follow[p].status = Active THEN -1 ELSE 0)
    BY <1>1, <1>3, <1>4, DeltaIsTheChange DEF Stored
  <1>6. follow' = [follow EXCEPT ![p] = Stored(i)]
    BY DEF Commit
  <1>7. Follows' = IF Stored(i).status = Active THEN Follows \cup {p} ELSE Follows \ {p}
    BY <1>1, <1>4, <1>6 DEF Follows
  <1>8. p \in Follows <=> follow[p].status = Active
    BY <1>1 DEF Follows
  <1>9. \/ delta[i] = 1 /\ p \notin Follows /\ Follows' = Follows \cup {p}
        \/ delta[i] = 0 /\ Follows' = Follows
        \/ delta[i] = -1 /\ p \in Follows /\ Follows' = Follows \ {p}
    BY <1>5, <1>7, <1>8
  <1>10. ASSUME p \in Follows
         PROVE  following[UserOf(i)] > 0 /\ followers[TargetOf(i)] > 0
    <2>1. p \in Followed(UserOf(i)) /\ p \in Following(TargetOf(i))
      BY <1>10 DEF Followed, Following, UserOf, TargetOf
    <2>2. Cardinality(Followed(UserOf(i))) # 0 /\ Cardinality(Following(TargetOf(i))) # 0
      BY <2>1, FollowsFinite, FS_EmptySet
    <2> QED
      BY <1>1, <2>2, FollowsFinite DEF IInv, CountersAgree
  <1>11. /\ counts[i][1] = following[UserOf(i)] + delta[i]
         /\ counts[i][2] = followers[TargetOf(i)] + delta[i]
    BY <1>1, <1>3, <1>9, <1>10 DEF IInv, TypeOK, NewCounts, Clamp
  <1>12. /\ following' = [following EXCEPT ![UserOf(i)] = @ + delta[i]]
         /\ followers' = [followers EXCEPT ![TargetOf(i)] = @ + delta[i]]
    BY <1>11 DEF Commit
  <1> QED
    BY <1>1, <1>2, <1>9, <1>12

(* The counters move with the sets they count.                               *)
LEMMA CommitKeepsCounters ==
    ASSUME IInv, NEW i \in Procs, Commit(i)
    PROVE  CountersAgree'
  <1> DEFINE p == req[i].pair
  <1>1. /\ p \in Pairs /\ p[1] = UserOf(i) /\ p[2] = TargetOf(i)
        /\ \/ delta[i] = 1 /\ p \notin Follows /\ Follows' = Follows \cup {p}
           \/ delta[i] = 0 /\ Follows' = Follows
           \/ delta[i] = -1 /\ p \in Follows /\ Follows' = Follows \ {p}
        /\ following' = [following EXCEPT ![UserOf(i)] = @ + delta[i]]
        /\ followers' = [followers EXCEPT ![TargetOf(i)] = @ + delta[i]]
    BY CommitMoves DEF UserOf, TargetOf
  <1>2. /\ following \in [Users -> Nat] /\ followers \in [Users -> Nat]
        /\ \A u \in Users : /\ following[u] = Cardinality(Followed(u))
                            /\ followers[u] = Cardinality(Following(u))
    BY DEF IInv, TypeOK, CountersAgree
  <1>3. ASSUME NEW u \in Users
        PROVE  /\ following'[u] = Cardinality(Followed(u)')
               /\ followers'[u] = Cardinality(Following(u)')
    <2>1. /\ IsFiniteSet(Followed(u)) /\ IsFiniteSet(Following(u))
          /\ Cardinality(Followed(u)) \in Nat /\ Cardinality(Following(u)) \in Nat
      BY FollowsFinite
    <2>2. following'[u] = Cardinality(Followed(u)')
      <3>1. CASE u # UserOf(i) \/ delta[i] = 0
        <4>1. Followed(u)' = Followed(u)
          BY <1>1, <3>1 DEF Followed
        <4>2. following'[u] = following[u]
          BY <1>1, <1>2, <3>1
        <4> QED
          BY <1>2, <4>1, <4>2
      <3>2. CASE u = UserOf(i) /\ delta[i] = 1
        <4>1. Followed(u)' = Followed(u) \cup {p} /\ p \notin Followed(u)
          BY <1>1, <3>2 DEF Followed
        <4>2. following'[u] = following[u] + 1
          BY <1>1, <1>2, <3>2
        <4>3. Cardinality(Followed(u)') = Cardinality(Followed(u)) + 1
          BY <2>1, <4>1, FS_AddElement
        <4> QED
          BY <1>2, <4>2, <4>3
      <3>3. CASE u = UserOf(i) /\ delta[i] = -1
        <4>1. Followed(u)' = Followed(u) \ {p} /\ p \in Followed(u)
          BY <1>1, <3>3 DEF Followed
        <4>2. following'[u] = following[u] - 1
          BY <1>1, <1>2, <3>3
        <4>3. Cardinality(Followed(u)') = Cardinality(Followed(u)) - 1
          BY <2>1, <4>1, FS_RemoveElement
        <4> QED
          BY <1>2, <4>2, <4>3
      <3> QED
        BY <1>1, <3>1, <3>2, <3>3
    <2>3. followers'[u] = Cardinality(Following(u)')
      <3>1. CASE u # TargetOf(i) \/ delta[i] = 0
        <4>1. Following(u)' = Following(u)
          BY <1>1, <3>1 DEF Following
        <4>2. followers'[u] = followers[u]
          BY <1>1, <1>2, <3>1
        <4> QED
          BY <1>2, <4>1, <4>2
      <3>2. CASE u = TargetOf(i) /\ delta[i] = 1
        <4>1. Following(u)' = Following(u) \cup {p} /\ p \notin Following(u)
          BY <1>1, <3>2 DEF Following
        <4>2. followers'[u] = followers[u] + 1
          BY <1>1, <1>2, <3>2
        <4>3. Cardinality(Following(u)') = Cardinality(Following(u)) + 1
          BY <2>1, <4>1, FS_AddElement
        <4> QED
          BY <1>2, <4>2, <4>3
      <3>3. CASE u = TargetOf(i) /\ delta[i] = -1
        <4>1. Following(u)' = Following(u) \ {p} /\ p \in Following(u)
          BY <1>1, <3>3 DEF Following
        <4>2. followers'[u] = followers[u] - 1
          BY <1>1, <1>2, <3>3
        <4>3. Cardinality(Following(u)') = Cardinality(Following(u)) - 1
          BY <2>1, <4>1, FS_RemoveElement
        <4> QED
          BY <1>2, <4>2, <4>3
      <3> QED
        BY <1>1, <3>1, <3>2, <3>3
    <2> QED
      BY <2>2, <2>3
  <1> QED
    BY <1>3 DEF CountersAgree

LEMMA CommitKeepsIInv ==
    ASSUME IInv, NEW i \in Procs, Commit(i)
    PROVE  IInv'
  <1> USE DEF Commit, Finish, Goto
  <1>0. /\ req[i] # NoRequest /\ req[i].pair \in Pairs
        /\ req[i].active \in BOOLEAN /\ req[i].key \in Key
        /\ UserOf(i) \in Users /\ TargetOf(i) \in Users
        /\ req[i].pair = <<UserOf(i), TargetOf(i)>>
    BY RequestTyped DEF IInv, Staged
  <1>1. TypeOK'
    <2>1. Stored(i) \in Record
      BY <1>0, DeltaIsTheChange DEF IInv, TypeOK, Stored
    <2>2. counts[i][1] \in Nat /\ counts[i][2] \in Nat
      BY DEF IInv, TypeOK
    <2> QED
      BY <1>0, <2>1, <2>2 DEF IInv, TypeOK, PCs
  <1>2. Exclusive'
    BY DEF IInv, TypeOK, Exclusive
  <1>3. Staged'
    BY DEF IInv, TypeOK, Staged, UserOf, TargetOf
  <1>4. Decided'
    <2>1. SUFFICES ASSUME NEW j \in Procs, j # i, pc[j] \in {"counts", "commit"}
                   PROVE  /\ delta'[j] = RowDelta(follow'[req'[j].pair], req'[j].active, req'[j].key)
                          /\ pc'[j] = "commit" => counts'[j] = NewCounts(j)'
      BY DEF IInv, TypeOK, Decided
    <2>2. {UserOf(i), TargetOf(i)} \cap {UserOf(j), TargetOf(j)} = {}
      BY <2>1, UsersApart DEF PCs
    <2>3. /\ req[j] # NoRequest /\ req[j].pair \in Pairs
          /\ UserOf(j) \in Users /\ TargetOf(j) \in Users
          /\ req[j].pair = <<UserOf(j), TargetOf(j)>>
      BY <2>1, RequestTyped DEF IInv, Staged
    <2>4. /\ req'[j] = req[j] /\ delta'[j] = delta[j] /\ counts'[j] = counts[j] /\ pc'[j] = pc[j]
      BY <2>1 DEF IInv, TypeOK
    <2>5. follow'[req[j].pair] = follow[req[j].pair]
      <3>1. req[j].pair # req[i].pair
        BY <2>2 DEF UserOf
      <3> QED
        BY <2>3, <3>1 DEF IInv, TypeOK
    <2>6. following'[UserOf(j)] = following[UserOf(j)] /\ followers'[TargetOf(j)] = followers[TargetOf(j)]
      <3>1. UserOf(i) # UserOf(j) /\ TargetOf(i) # TargetOf(j)
        BY <2>2
      <3> QED
        BY <2>3, <3>1 DEF IInv, TypeOK
    <2> QED
      BY <2>1, <2>4, <2>5, <2>6 DEF IInv, Decided, NewCounts, UserOf, TargetOf
  <1>5. Indeed'
    BY DEF IInv, TypeOK, Indeed, UserOf, TargetOf, PCs
  <1> QED
    BY <1>1, <1>2, <1>3, <1>4, <1>5, CommitKeepsCounters DEF IInv

--------------------------------------------------------------------------------
(* The theorems *)

LEMMA InitIInv == Init => IInv
  <1> SUFFICES ASSUME Init PROVE IInv
    OBVIOUS
  <1> USE DEF Init
  <1>1. TypeOK
    BY DEF TypeOK, PCs, Record, Status, Key, Absent, Unset
  <1>2. Exclusive /\ Staged /\ Decided /\ Indeed
    BY DEF Exclusive, Staged, Decided, Indeed, PCs
  <1>3. Follows = {}
    BY DEF Follows, Absent, Unset, Active
  <1>4. CountersAgree
    BY <1>3, FS_EmptySet DEF CountersAgree, Followed, Following
  <1> QED
    BY <1>1, <1>2, <1>4 DEF IInv

LEMMA NextKeepsIInv == IInv /\ [Next]_vars => IInv'
  <1> SUFFICES ASSUME IInv, [Next]_vars PROVE IInv'
    OBVIOUS
  <1>1. ASSUME NEW i \in Procs, NEW r \in Requests, Begin(i, r) PROVE IInv'
    BY <1>1, BeginKeepsIInv
  <1>2. ASSUME NEW i \in Procs, Advance(i) PROVE IInv'
    BY <1>2, LockUserKeepsIInv, LockTargetKeepsIInv, EnsureUserStatKeepsIInv,
       EnsureTargetStatKeepsIInv, FindFollowKeepsIInv, UpdateStatsKeepsIInv, CommitKeepsIInv
       DEF Advance
  <1>3. ASSUME NEW i \in Procs, Victim(i) \/ Abort(i) PROVE IInv'
    BY <1>3, FinishKeepsIInv DEF Victim, Abort
  <1>4. ASSUME NEW u \in Users, Suspend(u) PROVE IInv'
    BY <1>4, SuspendKeepsIInv
  <1>5. CASE UNCHANGED vars
    <2> USE <1>5 DEF vars
    <2>1. TypeOK' /\ Exclusive' /\ Staged'
      BY DEF IInv, TypeOK, Exclusive, Staged, UserOf, TargetOf
    <2>2. Decided' /\ Indeed'
      BY DEF IInv, Decided, Indeed, NewCounts, UserOf, TargetOf
    <2>3. CountersAgree'
      BY RowsKept DEF IInv, rows
    <2> QED
      BY <2>1, <2>2, <2>3 DEF IInv
  <1> QED
    BY <1>1, <1>2, <1>3, <1>4, <1>5 DEF Next

(* Every reachable state has the types the transactions are written for.     *)
THEOREM TypeCorrect == Spec => []TypeOK
  <1>1. IInv => TypeOK
    BY DEF IInv
  <1> QED
    BY <1>1, InitIInv, NextKeepsIInv, PTL DEF Spec

(* The counters of every user are the numbers of active follow rows of and   *)
(* to that user, for any number of users and concurrent transactions         *)
(* (gorm.go:107).                                                            *)
THEOREM CountersAreExact == Spec => []CountersAgree
  <1>1. IInv => CountersAgree
    BY DEF IInv
  <1> QED
    BY <1>1, InitIInv, NextKeepsIInv, PTL DEF Spec

--------------------------------------------------------------------------------
(* Refinement *)

LEMMA InitRefines == Init => Ledger!Init
  BY DEF Init, Ledger!Init, Follows, Absent, Unset, Active

(* Only Commit and Suspend change what the ledger sees.                      *)
LEMMA ViewKept ==
    ASSUME UNCHANGED rows
    PROVE  UNCHANGED Ledger!followVars
  BY DEF rows, Ledger!followVars, Follows

LEMMA CommitRefines ==
    ASSUME IInv, NEW i \in Procs, Commit(i)
    PROVE  [Ledger!Next]_(Ledger!followVars)
  <1> DEFINE u == UserOf(i)
             t == TargetOf(i)
             p == req[i].pair
  <1>1. /\ p \in Pairs /\ p = <<u, t>> /\ u \in normal /\ t \in normal
        /\ \/ delta[i] = 1 /\ p \notin Follows /\ Follows' = Follows \cup {p}
           \/ delta[i] = 0 /\ Follows' = Follows
           \/ delta[i] = -1 /\ p \in Follows /\ Follows' = Follows \ {p}
        /\ following' = [following EXCEPT ![u] = @ + delta[i]]
        /\ followers' = [followers EXCEPT ![t] = @ + delta[i]]
    BY CommitMoves
  <1>2. normal' = normal
    BY DEF Commit
  <1>3. p[1] = u /\ p[2] = t
    BY DEF UserOf, TargetOf
  <1>4. CASE delta[i] = 1
    <2>1. Ledger!Follow(p[1], p[2])
      BY <1>1, <1>2, <1>3, <1>4 DEF Ledger!Follow, Ledger!Shift
    <2> QED
      BY <1>1, <2>1 DEF Ledger!Next
  <1>5. CASE delta[i] = -1
    <2>1. Ledger!Unfollow(p[1], p[2])
      BY <1>1, <1>2, <1>3, <1>5 DEF Ledger!Unfollow, Ledger!Shift
    <2> QED
      BY <1>1, <2>1 DEF Ledger!Next
  <1>6. CASE delta[i] = 0
    <2>1. following' = following /\ followers' = followers
      BY <1>1, <1>6 DEF IInv, TypeOK
    <2> QED
      BY <1>1, <1>2, <1>6, <2>1 DEF Ledger!followVars
  <1> QED
    BY <1>1, <1>4, <1>5, <1>6

LEMMA NextRefines == IInv /\ [Next]_vars => [Ledger!Next]_(Ledger!followVars)
  <1> SUFFICES ASSUME IInv, [Next]_vars PROVE [Ledger!Next]_(Ledger!followVars)
    OBVIOUS
  <1>1. ASSUME NEW i \in Procs, NEW r \in Requests, Begin(i, r)
        PROVE  UNCHANGED Ledger!followVars
    BY <1>1, ViewKept DEF Begin
  <1>2. ASSUME NEW i \in Procs,
               \/ LockUser(i) \/ LockTarget(i) \/ EnsureUserStat(i) \/ EnsureTargetStat(i)
               \/ FindFollow(i) \/ UpdateStats(i) \/ Victim(i) \/ Abort(i)
        PROVE  UNCHANGED Ledger!followVars
    <2>1. UNCHANGED rows
      BY <1>2 DEF LockUser, LockTarget, LockAccount, EnsureUserStat, EnsureTargetStat, LockStat,
         FindFollow, UpdateStats, Victim, Abort
    <2> QED
      BY <2>1, ViewKept
  <1>3. ASSUME NEW i \in Procs, Commit(i) PROVE [Ledger!Next]_(Ledger!followVars)
    BY <1>3, CommitRefines
  <1>4. ASSUME NEW u \in Users, Suspend(u) PROVE Ledger!Next
    <2>1. Ledger!Suspend(u)
      BY <1>4 DEF Suspend, Ledger!Suspend, Follows
    <2> QED
      BY <2>1 DEF Ledger!Next
  <1>5. CASE UNCHANGED vars
    BY <1>5, ViewKept DEF vars, rows
  <1> QED
    BY <1>1, <1>2, <1>3, <1>4, <1>5 DEF Next, Advance

(* SetFollow implements the ledger: a follow and both counters change in one *)
(* step, and nothing else changes them.                                      *)
THEOREM LedgerIsImplemented == Spec => LedgerSpec
  <1>1. Init => Ledger!Init
    BY InitRefines
  <1> QED
    BY <1>1, InitIInv, NextKeepsIInv, NextRefines, PTL DEF Spec, LedgerSpec, Ledger!Spec

--------------------------------------------------------------------------------
(* Rows in an order, and pages of them.                                     *)

StrictOrder(S, R) ==
    /\ \A x \in S : <<x, x>> \notin R
    /\ \A x, y, z \in S : <<x, y>> \in R /\ <<y, z>> \in R => <<x, z>> \in R
    /\ \A x, y \in S : x = y \/ <<x, y>> \in R \/ <<y, x>> \in R

\* A sequence in which the element at i has i - 1 others before it.
LEMMA EveryRankIsTaken ==
    ASSUME NEW S, IsFiniteSet(S), NEW R, StrictOrder(S, R),
           NEW s, s = [i \in 1..Cardinality(S) |-> s[i]],
           \A i \in 1..Cardinality(S) :
               (\E x \in S : Cardinality({y \in S : <<y, x>> \in R}) = i - 1) =>
                   s[i] \in S /\ Cardinality({y \in S : <<y, s[i]>> \in R}) = i - 1
    PROVE  /\ s \in Seq(S) /\ Len(s) = Cardinality(S)
           /\ \A x \in S : \E i \in 1..Len(s) : s[i] = x
           /\ \A i, j \in 1..Len(s) : i < j => <<s[i], s[j]>> \in R
  <1> DEFINE below(x) == {y \in S : <<y, x>> \in R}
             n == Cardinality(S)
             rank == [x \in S |-> Cardinality(below(x))]
  <1>1. n \in Nat
    BY FS_CardinalityType
  <1>2. ASSUME NEW x \in S
        PROVE  IsFiniteSet(below(x)) /\ rank[x] \in Nat /\ rank[x] < n
    <2>1. below(x) \subseteq S /\ x \notin below(x)
      BY DEF StrictOrder
    <2>2. IsFiniteSet(below(x)) /\ Cardinality(below(x)) < n
      <3>1. below(x) # S
        BY <2>1
      <3> HIDE DEF below
      <3> QED
        BY <1>1, <2>1, <3>1, FS_Subset, FS_CardinalityType
    <2> QED
      BY <2>2, FS_CardinalityType
  <1>3. ASSUME NEW x \in S, NEW y \in S, <<x, y>> \in R
        PROVE  rank[x] < rank[y]
    <2>1. below(x) \subseteq below(y)
      BY <1>3 DEF StrictOrder
    <2>2. x \in below(y) /\ x \notin below(x)
      BY <1>3 DEF StrictOrder
    <2>3. IsFiniteSet(below(y))
      BY <1>2
    <2>4. rank[x] = Cardinality(below(x)) /\ rank[y] = Cardinality(below(y))
      OBVIOUS
    <2> HIDE DEF below, rank
    <2>5. below(x) # below(y)
      BY <2>2
    <2> QED
      BY <2>1, <2>3, <2>4, <2>5, FS_Subset, FS_CardinalityType
  <1>0. rank = [x \in S |-> rank[x]] /\ \A x \in S : rank[x] = Cardinality(below(x))
    BY Zenon
  <1>a. \A i \in 1..n : (\E x \in S : Cardinality(below(x)) = i - 1) =>
            s[i] \in S /\ Cardinality(below(s[i])) = i - 1
    OBVIOUS
  <1>n. n = Cardinality(S)
    OBVIOUS
  <1> HIDE DEF rank, n, below
  <1>4. \A x, y \in S : rank[x] = rank[y] => x = y
    <2> SUFFICES ASSUME NEW x \in S, NEW y \in S, rank[x] = rank[y] PROVE x = y
      OBVIOUS
    <2>1. rank[x] \in Nat /\ rank[y] \in Nat
      BY <1>2
    <2>2. CASE <<x, y>> \in R
      BY <1>3, <2>1, <2>2
    <2>3. CASE <<y, x>> \in R
      BY <1>3, <2>1, <2>3
    <2> QED
      BY <2>2, <2>3 DEF StrictOrder
  <1>5. \A k \in 0..n - 1 : \E x \in S : rank[x] = k
    <2>1. rank \in [S -> 0..n - 1]
      BY <1>0, <1>1, <1>2
    <2>2. IsFiniteSet(0..n - 1) /\ Cardinality(0..n - 1) = n
      BY <1>1, FS_Interval
    <2>3. rank \in Injection(S, 0..n - 1)
      BY <1>4, <2>1 DEF Injection, IsInjective
    <2>4. rank \in Surjection(S, 0..n - 1)
      BY <1>n, <2>2, <2>3, FS_Injection
    <2> QED
      BY <2>4 DEF Surjection
  <1>6. ASSUME NEW i \in 1..n
        PROVE  s[i] \in S /\ rank[s[i]] = i - 1
    <2>2. \E x \in S : Cardinality(below(x)) = i - 1
      <3>1. i - 1 \in 0..n - 1
        BY <1>1
      <3> QED
        BY <1>0, <1>5, <3>1
    <2>3. s[i] \in S /\ Cardinality(below(s[i])) = i - 1
      BY <1>a, <2>2
    <2> QED
      BY <1>0, <2>3
  <1>7. s \in [1..n -> S]
    BY <1>6, <1>n
  <1>8. \A x \in S : \E i \in 1..n : s[i] = x
    <2> SUFFICES ASSUME NEW x \in S PROVE \E i \in 1..n : s[i] = x
      OBVIOUS
    <2>1. rank[x] + 1 \in 1..n
      BY <1>1, <1>2
    <2>2. s[rank[x] + 1] \in S /\ rank[s[rank[x] + 1]] = (rank[x] + 1) - 1
      BY <1>6, <2>1
    <2>3. (rank[x] + 1) - 1 = rank[x]
      BY <1>2
    <2> QED
      BY <1>4, <2>1, <2>2, <2>3
  <1>9. \A i, j \in 1..n : i < j => <<s[i], s[j]>> \in R
    <2> SUFFICES ASSUME NEW i \in 1..n, NEW j \in 1..n, i < j PROVE <<s[i], s[j]>> \in R
      OBVIOUS
    <2>1. /\ s[i] \in S /\ rank[s[i]] = i - 1
          /\ s[j] \in S /\ rank[s[j]] = j - 1
      BY <1>6
    <2>2. ~(rank[s[j]] < rank[s[i]]) /\ rank[s[j]] # rank[s[i]]
      BY <1>1, <2>1
    <2>3. <<s[j], s[i]>> \notin R
      BY <1>3, <2>1, <2>2
    <2> QED
      BY <2>1, <2>2, <2>3 DEF StrictOrder
  <1> QED
    BY <1>1, <1>7, <1>8, <1>9, <1>n

LEMMA RowsAreRanked ==
    ASSUME NEW S \in SUBSET (Int \X Int), IsFiniteSet(S)
    PROVE  LET s == RankedBy(S, Newer)
           IN  /\ s \in Seq(S) /\ Len(s) = Cardinality(S)
               /\ \A x \in S : \E i \in 1..Len(s) : s[i] = x
               /\ \A i, j \in 1..Len(s) : i < j => Newer(s[i], s[j])
  <1> DEFINE R == {p \in S \X S : Newer(p[1], p[2])}
             s == RankedBy(S, Newer)
  <1>1. \A x, y \in S : <<y, x>> \in R <=> Newer(y, x)
    OBVIOUS
  <1>2. StrictOrder(S, R)
    <2>1. \A x \in S : x = <<x[1], x[2]>> /\ x[1] \in Int /\ x[2] \in Int
      OBVIOUS
    <2> HIDE DEF R
    <2> QED
      BY <1>1, <2>1 DEF StrictOrder, Newer
  <1>3. \A x \in S : {y \in S : <<y, x>> \in R} = {y \in S : Newer(y, x)}
    OBVIOUS
  <1>4. s = [i \in 1..Cardinality(S) |-> s[i]]
    BY SMTT(30) DEF RankedBy
  <1>5. ASSUME NEW i \in 1..Cardinality(S), \E x \in S : Cardinality({y \in S : <<y, x>> \in R}) = i - 1
        PROVE  s[i] \in S /\ Cardinality({y \in S : <<y, s[i]>> \in R}) = i - 1
    <2>1. \E x \in S : Cardinality({y \in S : Newer(y, x)}) = i - 1
      BY <1>3, <1>5
    <2>2. s[i] = CHOOSE x \in S : Cardinality({y \in S : Newer(y, x)}) = i - 1
      BY DEF RankedBy
    <2>3. s[i] \in S /\ Cardinality({y \in S : Newer(y, s[i])}) = i - 1
      BY <2>1, <2>2
    <2> QED
      BY <1>3, <2>3
  <1> HIDE DEF R, s
  <1>6. /\ s \in Seq(S) /\ Len(s) = Cardinality(S)
        /\ \A x \in S : \E i \in 1..Len(s) : s[i] = x
        /\ \A i, j \in 1..Len(s) : i < j => <<s[i], s[j]>> \in R
    BY <1>2, <1>4, <1>5, EveryRankIsTaken
  <1>7. \A i \in 1..Len(s) : s[i] \in S
    BY <1>6
  <1>8. \A i, j \in 1..Len(s) : i < j => Newer(s[i], s[j])
    BY <1>1, <1>6, <1>7
  <1> QED
    BY <1>6, <1>8 DEF s

LEMMA SmallerOfTwo == \A a, b \in Int : Min({a, b}) = IF a <= b THEN a ELSE b
  <1> SUFFICES ASSUME NEW a \in Int, NEW b \in Int
               PROVE  Min({a, b}) = IF a <= b THEN a ELSE b
    OBVIOUS
  <1>1. CASE a <= b
    BY <1>1 DEF Min
  <1>2. CASE ~(a <= b)
    BY <1>2 DEF Min
  <1> QED
    BY <1>1, <1>2

LEMMA FirstOnes ==
    ASSUME NEW S, NEW s \in Seq(S), NEW n \in Nat, n <= Len(s)
    PROVE  /\ SubSeq(s, 1, n) \in Seq(S) /\ Len(SubSeq(s, 1, n)) = n
           /\ \A i \in 1..n : SubSeq(s, 1, n)[i] = s[i]
  <1>1. n \in 0..Len(s)
    OBVIOUS
  <1> QED
    BY <1>1, SubSeqProperties

\* Query: the first rows behind the cursor, in their order; those left out come
\* after all of them.
LEMMA QueryGivesFirst ==
    ASSUME NEW all \in SUBSET (Int \X Int), IsFiniteSet(all), NEW c, NEW limit \in Nat
    PROVE  LET beyond == {r \in all : After(c, r)}
               items == Query(all, c, limit)
           IN  /\ items \in Seq(beyond) /\ Len(items) <= limit
               /\ \A i, j \in 1..Len(items) : i < j => Newer(items[i], items[j])
               /\ \A r \in beyond :
                      \/ \E i \in 1..Len(items) : items[i] = r
                      \/ /\ Len(items) = limit
                         /\ \A i \in 1..Len(items) : Newer(items[i], r)
  <1> DEFINE beyond == {r \in all : After(c, r)}
             sorted == RankedBy(beyond, Newer)
             n == Min({limit, Len(sorted)})
             items == SubSeq(sorted, 1, n)
  <1>1. beyond \in SUBSET (Int \X Int) /\ IsFiniteSet(beyond)
    BY FS_Subset
  <1>2. items = Query(all, c, limit)
    BY DEF Query
  <1> HIDE DEF beyond
  <1>3. /\ sorted \in Seq(beyond) /\ Len(sorted) \in Nat
        /\ \A x \in beyond : \E i \in 1..Len(sorted) : sorted[i] = x
        /\ \A i, j \in 1..Len(sorted) : i < j => Newer(sorted[i], sorted[j])
    BY <1>1, RowsAreRanked, LenProperties
  <1> HIDE DEF sorted
  <1>4. n \in Nat /\ n <= Len(sorted) /\ n <= limit /\ (n = Len(sorted) \/ n = limit)
    BY <1>3, SmallerOfTwo
  <1> HIDE DEF n
  <1>5. items \in Seq(beyond) /\ Len(items) = n /\ \A i \in 1..n : items[i] = sorted[i]
    BY <1>3, <1>4, FirstOnes
  <1> HIDE DEF items
  <1>6. ASSUME NEW r \in beyond
        PROVE  \/ \E i \in 1..Len(items) : items[i] = r
               \/ /\ Len(items) = limit
                  /\ \A i \in 1..Len(items) : Newer(items[i], r)
    <2>1. PICK k \in 1..Len(sorted) : sorted[k] = r
      BY <1>3
    <2>2. CASE k <= n
      <3>1. k \in 1..Len(items) /\ items[k] = r
        BY <1>4, <1>5, <2>1, <2>2
      <3> QED
        BY <3>1
    <2>3. CASE n < k
      <3>1. n = limit
        BY <1>3, <1>4, <2>3
      <3>2. ASSUME NEW i \in 1..Len(items) PROVE Newer(items[i], r)
        <4>1. i \in 1..n /\ i \in 1..Len(sorted) /\ i < k
          BY <1>3, <1>4, <1>5, <2>3
        <4> QED
          BY <1>3, <1>5, <2>1, <4>1
      <3> QED
        BY <1>5, <3>1, <3>2
    <2> QED
      BY <1>4, <2>2, <2>3
  <1>7. \A i, j \in 1..Len(items) : i < j => Newer(items[i], items[j])
    <2>1. 1..Len(items) = 1..n /\ 1..n \subseteq 1..Len(sorted)
      BY <1>3, <1>4, <1>5
    <2> QED
      BY Zenon, <1>3, <1>5, <2>1
  <1> QED
    BY <1>2, <1>4, <1>5, <1>6, <1>7 DEF beyond

\* Page: the first rows behind the cursor; if there are more, it names its last
\* row, and they come after it.
LEMMA PageGivesFirst ==
    ASSUME NEW all \in SUBSET (Int \X Int), IsFiniteSet(all), NEW c, NEW limit \in Nat \ {0}
    PROVE  LET beyond == {r \in all : After(c, r)}
               g == Page(all, c, limit)
           IN  /\ g = [items |-> g.items, more |-> g.more, next |-> g.next]
               /\ g.items \in Seq(beyond) /\ g.more \in BOOLEAN
               /\ \A i, j \in 1..Len(g.items) : i < j => Newer(g.items[i], g.items[j])
               /\ g.next = NextCursor(g.items)
               /\ g.more => /\ g.items # <<>>
                            /\ \A r \in beyond : r \in ToSet(g.items) \/ Newer(g.next, r)
               /\ ~g.more => beyond \subseteq ToSet(g.items)
  <1> DEFINE beyond == {r \in all : After(c, r)}
             items == Query(all, c, limit + 1)
             more == Len(items) > limit
             first == SubSeq(items, 1, limit)
             some == IF more THEN first ELSE items
             g == Page(all, c, limit)
  <1>1. g = [items |-> some, more |-> more, next |-> NextCursor(some)]
    BY DEF Page
  <1>2. /\ items \in Seq(beyond) /\ Len(items) <= limit + 1 /\ Len(items) \in Nat
        /\ \A i, j \in 1..Len(items) : i < j => Newer(items[i], items[j])
        /\ \A r \in beyond :
               \/ \E i \in 1..Len(items) : items[i] = r
               \/ /\ Len(items) = limit + 1
                  /\ \A i \in 1..Len(items) : Newer(items[i], r)
    <2>1. limit + 1 \in Nat
      OBVIOUS
    <2> QED
      BY <2>1, QueryGivesFirst, LenProperties
  <1> HIDE DEF items, beyond, g
  <1>3. g.items = some /\ g.more = more /\ g.next = NextCursor(some)
    BY <1>1
  <1>4. CASE more
    <2>1. Len(items) = limit + 1
      BY <1>2, <1>4
    <2>2. /\ first \in Seq(beyond) /\ Len(first) = limit
          /\ \A i \in 1..limit : first[i] = items[i]
      BY <1>2, <2>1, FirstOnes
    <2> HIDE DEF first
    <2>3. some = first /\ first # <<>>
      BY <1>4, <2>2
    <2>4. \A i, j \in 1..Len(some) : i < j => Newer(some[i], some[j])
      <3>1. 1..limit \subseteq 1..Len(items)
        BY <2>1
      <3> QED
        BY <1>2, <2>2, <2>3, <3>1
    <2>5. NextCursor(some) = items[limit] /\ limit \in 1..Len(items)
      BY <2>1, <2>2, <2>3 DEF NextCursor, Last
    <2>6. ASSUME NEW r \in beyond
          PROVE  r \in ToSet(some) \/ Newer(NextCursor(some), r)
      <3>1. CASE \A i \in 1..Len(items) : Newer(items[i], r)
        BY <2>5, <3>1
      <3>2. CASE \E i \in 1..Len(items) : items[i] = r
        <4>1. PICK i \in 1..Len(items) : items[i] = r
          BY <3>2
        <4>2. CASE i \in 1..limit
          BY <2>2, <2>3, <4>1, <4>2 DEF ToSet
        <4>3. CASE i = limit + 1
          BY <1>2, <2>5, <4>1, <4>3
        <4> QED
          BY <2>1, <4>1, <4>2, <4>3
      <3> QED
        BY <1>2, <3>1, <3>2
    <2> QED
      BY <1>1, <1>3, <1>4, <2>2, <2>3, <2>4, <2>6 DEF beyond, g
  <1>5. CASE ~more
    <2>1. some = items
      BY <1>5
    <2>2. \A r \in beyond : \E i \in 1..Len(items) : items[i] = r
      BY <1>2, <1>5
    <2>3. beyond \subseteq ToSet(items)
      BY <1>2, <2>2 DEF ToSet
    <2>4. g.items = items /\ g.more = FALSE /\ g.next = NextCursor(items)
      <3>1. more = FALSE
        BY <1>5
      <3> HIDE DEF more, some
      <3> QED
        BY <1>3, <2>1, <3>1
    <2>5. g = [items |-> g.items, more |-> g.more, next |-> g.next]
      BY <1>1, <2>1, <2>4
    <2>6. /\ g.items \in Seq(beyond) /\ g.more \in BOOLEAN
          /\ \A i, j \in 1..Len(g.items) : i < j => Newer(g.items[i], g.items[j])
          /\ g.next = NextCursor(g.items)
          /\ beyond \subseteq ToSet(g.items)
      BY <1>2, <2>3, <2>4
    <2> QED
      BY <2>4, <2>5, <2>6 DEF beyond, g
  <1> QED
    BY <1>4, <1>5

--------------------------------------------------------------------------------
(* Folds.                                                                   *)

LEMMA LeastNumber ==
    ASSUME NEW T \in SUBSET Nat, T # {}
    PROVE  \E x \in T : \A y \in T : x <= y
  <1>1. IsWellFoundedOn(OpToRel(<, Nat), Nat)
    BY NatLessThanWellFounded, Zenon
  <1>2. PICK x \in T : \A y \in T : <<y, x>> \notin OpToRel(<, Nat)
    BY <1>1, WFMin
  <1>3. \A y \in T : ~(y < x)
    BY <1>2, Zenon DEF OpToRel
  <1> QED
    BY <1>3

\* Induction, for a set of numbers.
LEMMA FromZeroOn ==
    ASSUME NEW T \in SUBSET Nat, 0 \in T, \A k \in T : k + 1 \in T
    PROVE  T = Nat
  <1> SUFFICES ASSUME Nat \ T # {} PROVE FALSE
    OBVIOUS
  <1>1. PICK x \in Nat \ T : \A y \in Nat \ T : x <= y
    BY LeastNumber
  <1>2. x # 0 /\ x - 1 \in Nat /\ ~(x <= x - 1)
    OBVIOUS
  <1>3. x - 1 \in T
    BY <1>1, <1>2
  <1>4. (x - 1) + 1 = x
    BY <1>2
  <1> QED
    BY <1>3, <1>4

ChoosesFrom(S, choice) == \A s \in SUBSET S : s # {} => choice[s] \in s

StaysIn(Q, S, f) == \A q \in Q, x \in S : f[<<q, x>>] \in Q

IsFold(g, S, base, choice, f) ==
    \A s \in SUBSET S : g[s] = IF s = {} THEN base ELSE f[<<g[s \ {choice[s]}], choice[s]>>]

\* The functions by which the folds are defined exist.
LEMMA FoldIsDefined ==
    ASSUME NEW S, IsFiniteSet(S), NEW Q, NEW base \in Q,
           NEW choice, ChoosesFrom(S, choice), NEW f, StaysIn(Q, S, f)
    PROVE  \E g \in [SUBSET S -> Q] : IsFold(g, S, base, choice, f)
  <1> DEFINE small(k) == {s \in SUBSET S : Cardinality(s) <= k}
             Fits(g, s) == g[s] = IF s = {} THEN base ELSE f[<<g[s \ {choice[s]}], choice[s]>>]
             T == {k \in Nat : \E g \in [small(k) -> Q] : \A s \in small(k) : Fits(g, s)}
  <1>c. \A s \in SUBSET S : s # {} => choice[s] \in s
    BY DEF ChoosesFrom
  <1>f. \A q \in Q, x \in S : f[<<q, x>>] \in Q
    BY DEF StaysIn
  <1>1. \A s \in SUBSET S : IsFiniteSet(s) /\ Cardinality(s) \in Nat /\ (Cardinality(s) = 0 <=> s = {})
    BY FS_Subset, FS_CardinalityType, FS_EmptySet
  <1>2. 0 \in T
    <2> DEFINE g == [s \in small(0) |-> base]
    <2>1. \A s \in small(0) : s = {}
      BY <1>1
    <2>2. g \in [small(0) -> Q] /\ \A s \in small(0) : Fits(g, s)
      BY <2>1
    <2> HIDE DEF Fits, small, g
    <2> QED
      BY <2>2
  <1>3. ASSUME NEW k \in T PROVE k + 1 \in T
    <2>0. k \in Nat /\ k + 1 \in Nat
      OBVIOUS
    <2>1. PICK g \in [small(k) -> Q] : \A s \in small(k) : Fits(g, s)
      OBVIOUS
    <2> DEFINE h == [s \in small(k + 1) |-> IF s = {} THEN base ELSE f[<<g[s \ {choice[s]}], choice[s]>>]]
    <2>2. ASSUME NEW s \in small(k + 1), s # {}
          PROVE  s \ {choice[s]} \in small(k) /\ choice[s] \in S
      <3>1. choice[s] \in s /\ s \in SUBSET S /\ Cardinality(s) <= k + 1
        BY <1>c, <2>2
      <3>2. Cardinality(s \ {choice[s]}) = Cardinality(s) - 1
        BY <1>1, <3>1, FS_RemoveElement
      <3>3. s \ {choice[s]} \in SUBSET S /\ choice[s] \in S /\ Cardinality(s \ {choice[s]}) <= k
        BY <1>1, <2>0, <3>1, <3>2
      <3> QED
        BY <3>3
    <2>3. small(k) \subseteq small(k + 1)
      BY <1>1, <2>0
    <2>4. ASSUME NEW s \in small(k + 1) PROVE h[s] \in Q
      <3>1. CASE s = {}
        BY <3>1
      <3>2. CASE s # {}
        <4>1. g[s \ {choice[s]}] \in Q
          BY <2>2, <3>2
        <4> QED
          BY <1>f, <2>2, <3>2, <4>1
      <3> QED
        BY <3>1, <3>2
    <2>5. h \in [small(k + 1) -> Q]
      BY <2>4
    <2>6. \A s \in small(k) : h[s] = g[s]
      BY <2>1, <2>3
    <2>7. ASSUME NEW s \in small(k + 1) PROVE Fits(h, s)
      <3>1. CASE s = {}
        BY <3>1
      <3>2. CASE s # {}
        <4>1. h[s] = f[<<g[s \ {choice[s]}], choice[s]>>]
          BY <3>2
        <4>2. h[s \ {choice[s]}] = g[s \ {choice[s]}]
          BY <2>2, <2>6, <3>2
        <4> HIDE DEF h
        <4> QED
          BY <3>2, <4>1, <4>2
      <3> QED
        BY <3>1, <3>2
    <2> HIDE DEF Fits, small, h
    <2> QED
      BY <2>0, <2>5, <2>7
  <1>4. T = Nat
    <2>1. T \in SUBSET Nat /\ \A k \in T : k + 1 \in T
      BY <1>3
    <2> HIDE DEF T
    <2> QED
      BY <1>2, <2>1, FromZeroOn
  <1>5. Cardinality(S) \in T
    BY <1>1, <1>4
  <1>6. small(Cardinality(S)) = SUBSET S
    BY <1>1, FS_Subset
  <1> QED
    BY <1>5, <1>6 DEF IsFold

\* What holds of the start, and of each step, holds at the end.
LEMMA FoldKeeps ==
    ASSUME NEW n \in Nat, NEW g, NEW P, g[1..0] \in P[0],
           \A k \in 0..n - 1 : g[1..k] \in P[k] => g[1..k + 1] \in P[k + 1]
    PROVE  g[1..n] \in P[n]
  <1> DEFINE T == {k \in Nat : k <= n => g[1..k] \in P[k]}
  <1>1. 0 \in T
    OBVIOUS
  <1>2. \A k \in T : k + 1 \in T
    OBVIOUS
  <1> HIDE DEF T
  <1>3. T = Nat
    BY <1>1, <1>2, FromZeroOn DEF T
  <1> QED
    BY <1>3 DEF T

--------------------------------------------------------------------------------
(* FeedPages.                                                               *)

LEMMA EverythingIsRows ==
    /\ Everything \in SUBSET (Int \X Int)
    /\ IsFiniteSet(Everything)
    /\ Start \notin Everything
    /\ Cursor = Everything \cup {Start}
  <1>1. IsFiniteSet(Times \X Ids)
    BY RowsAreNumbered, FS_Product
  <1>2. ASSUME Start \in Everything
        PROVE  FALSE
    <2>1. PICK t \in Times, i \in Ids : Start = <<t, i>>
      BY <1>2 DEF Everything
    <2>2. Len(Start) = 1 /\ Len(<<t, i>>) = 2
      BY DEF Start
    <2> QED
      BY <2>1, <2>2
  <1>3. Cursor = Everything \cup {Start}
    BY DEF Cursor, Everything
  <1>4. Everything \in SUBSET (Int \X Int)
    <2>1. Times \subseteq Int /\ Ids \subseteq Int
      BY RowsAreNumbered
    <2>2. ASSUME NEW r \in Times \X Ids
          PROVE  r \in Int \X Int
      BY <2>1
    <2> QED
      BY <2>2 DEF Everything
  <1> QED
    BY <1>1, <1>2, <1>3, <1>4 DEF Everything

LEMMA LimitsArePositive ==
    \A default, max \in Nat \ {0} : NormalizeLimit(Limit, default, max) \in Nat \ {0}
  <1> SUFFICES ASSUME NEW default \in Nat \ {0}, NEW max \in Nat \ {0}
               PROVE  NormalizeLimit(Limit, default, max) \in Nat \ {0}
    OBVIOUS
  <1>1. CASE Limit <= 0
    BY <1>1 DEF NormalizeLimit
  <1>2. CASE Limit > 0
    BY <1>2, LimitIsNumber, SmallerOfTwo DEF NormalizeLimit
  <1> QED
    BY <1>1, <1>2, LimitIsNumber

\* The page that is loaded is a page for its cursor.
LEMMA LoadedIsRight ==
    ASSUME PagesTypes, NEW c \in Cursor
    PROVE  /\ Loaded(c) \in PageRecord /\ Loaded(c) # NoPage
           /\ Loaded(c).known = listed
           /\ PageIsFor(c, Loaded(c))
  <1>1. PICK limit \in Nat \ {0} : PageOf(c) = Page(listed, c, limit)
    <2>1. PageOf(c) \in {Page(listed, c, NormalizeLimit(Limit, 10, 100)),
                         Page(listed, c, NormalizeLimit(Limit, 20, 100))}
      <3>1. listing \in Kinds
        BY DEF PagesTypes
      <3> QED
        BY <3>1 DEF PageOf, Kinds, TimelinePage, CommentPage, MessagePage, FollowingPage,
                    FollowerPage, UserPage
    <2> QED
      BY <2>1, LimitsArePositive
  <1> DEFINE g == Page(listed, c, limit)
             beyond == {r \in listed : After(c, r)}
             l == Loaded(c)
  <1>2. listed \in SUBSET (Int \X Int) /\ IsFiniteSet(listed) /\ listed \subseteq Everything
    BY EverythingIsRows, FS_Subset DEF PagesTypes
  <1>3. /\ g.items \in Seq(beyond) /\ g.more \in BOOLEAN
        /\ \A i, j \in 1..Len(g.items) : i < j => Newer(g.items[i], g.items[j])
        /\ g.next = NextCursor(g.items)
        /\ g.more => /\ g.items # <<>>
                     /\ \A r \in beyond : r \in ToSet(g.items) \/ Newer(g.next, r)
        /\ ~g.more => beyond \subseteq ToSet(g.items)
    BY <1>2, PageGivesFirst
  <1>4. l = [items |-> g.items, more |-> g.more, next |-> g.next, known |-> listed]
    BY <1>1 DEF Loaded
  <1>5. l.items = g.items /\ l.more = g.more /\ l.next = g.next /\ l.known = listed
    BY <1>4
  <1> HIDE DEF g, l
  <1>6. beyond \subseteq listed /\ \A r \in beyond : After(c, r)
    OBVIOUS
  <1>7. \A r \in listed : After(c, r) => r \in beyond
    OBVIOUS
  <1> HIDE DEF beyond
  <1>8. ToSet(g.items) \subseteq beyond
    BY <1>3 DEF ToSet
  <1>9. g.items \in Seq(Everything) /\ g.next \in Cursor
    <2>1. g.items \in Seq(Everything)
      BY <1>2, <1>3, <1>6, SeqMonotonic
    <2>2. CASE g.items = <<>>
      BY <1>3, <2>2, EverythingIsRows DEF NextCursor
    <2>3. CASE g.items # <<>>
      <3>1. g.next = g.items[Len(g.items)] /\ Len(g.items) \in 1..Len(g.items)
        BY <1>3, <2>1, <2>3, EmptySeq, LenProperties DEF NextCursor, Last
      <3> QED
        BY <2>1, <3>1, EverythingIsRows
    <2> QED
      BY <2>1, <2>2, <2>3
  <1>10. l \in PageRecord
    BY <1>2, <1>3, <1>4, <1>9 DEF PageRecord
  <1>11. PageIsFor(c, l)
    <2>1. g.more => g.next = Last(g.items)
      BY <1>3 DEF NextCursor
    <2>2. \A r \in listed : After(c, r) => r \in ToSet(g.items) \/ (g.more /\ Newer(g.next, r))
      BY <1>3, <1>7
    <2> QED
      BY <1>3, <1>5, <1>6, <1>8, <2>1, <2>2 DEF PageIsFor, Descending
  <1> QED
    BY <1>5, <1>10, <1>11, NoPageIsNone DEF l

\* What a session has shown, when the next page is shown behind it.
LEMMA PageGoesOn ==
    ASSUME NEW s \in Seq(Everything), NEW g \in PageRecord, NEW off \in SUBSET Everything,
           NEW ids, NEW k,
           Descending(s), IdsDiffer(s), NoneMovesBack(s, off, ids),
           OneOfEachId(off, ids), ShownOrBehind(k, s, NextCursor(s)),
           PageIsFor(NextCursor(s), g), g.known \subseteq off
    PROVE  LET z == s \o g.items
           IN  /\ z \in Seq(Everything)
               /\ Descending(z) /\ IdsDiffer(z) /\ NoneMovesBack(z, off, ids)
               /\ g.more => g.next = NextCursor(z) /\ ShownOrBehind(k \cap g.known, z, g.next)
               /\ ~g.more => k \cap g.known \subseteq ToSet(z)
  <1> DEFINE t == g.items
             z == s \o t
             m == Len(s)
             n == Len(t)
  <1>1. t \in Seq(Everything)
    BY DEF PageRecord
  <1>2. /\ z \in Seq(Everything) /\ Len(z) = m + n /\ m \in Nat /\ n \in Nat
        /\ \A i \in 1..m : z[i] = s[i] /\ s[i] \in Everything
        /\ \A i \in 1..n : z[m + i] = t[i] /\ t[i] \in Everything
    BY <1>1, ConcatProperties
  <1>3. \A i \in 1..m + n : i \in 1..m \/ (i - m \in 1..n /\ z[i] = t[i - m])
    <2> SUFFICES ASSUME NEW i \in 1..m + n, i \notin 1..m
                 PROVE  i - m \in 1..n /\ z[i] = t[i - m]
      OBVIOUS
    <2>1. i - m \in 1..n /\ m + (i - m) = i
      BY <1>2
    <2> QED
      BY <1>2, <2>1
  <1>t. \A i \in 1..n : t[i] \in ToSet(t) /\ t[i] \in g.known /\ After(NextCursor(s), t[i])
    BY <1>1 DEF ToSet, PageIsFor
  <1>s. \A i \in 1..m : s[i] \in ToSet(s)
    BY DEF ToSet
  <1>d. \A i, j \in 1..n : i < j => Newer(t[i], t[j])
    BY DEF PageIsFor, Descending
  <1>o. /\ \A r, q \in off : r[2] = q[2] => r = q
        /\ \A r \in off : r[2] \in ids
        /\ \A q \in ToSet(s) : q[2] \in ids /\ \A r \in off : r[2] = q[2] => r[1] >= q[1]
    BY DEF OneOfEachId, NoneMovesBack
  <1>e. \A q \in Everything : q[1] \in Int /\ q[2] \in Int
    BY EverythingIsRows
  <1>4. ASSUME NEW i \in 1..m, NEW j \in 1..n
        PROVE  Newer(s[i], t[j])
    <2>1. NextCursor(s) = s[m] /\ m \in 1..m
      BY <1>2 DEF NextCursor, Last
    <2>2. Newer(s[m], t[j])
      <3>1. s[m] # Start
        BY <1>2, <2>1, EverythingIsRows
      <3> QED
        BY <1>t, <2>1, <3>1 DEF After, Newer
    <2>3. i = m \/ Newer(s[i], s[m])
      BY <2>1 DEF Descending
    <2>4. /\ s[i][1] \in Int /\ s[i][2] \in Int /\ s[m][1] \in Int /\ s[m][2] \in Int
          /\ t[j][1] \in Int /\ t[j][2] \in Int
      BY <1>2, <1>e, <2>1
    <2> QED
      BY SMTT(30), <2>2, <2>3, <2>4 DEF Newer
  <1> HIDE DEF z
  <1>5. ASSUME NEW i \in 1..m + n, NEW j \in 1..m + n, i < j
        PROVE  Newer(z[i], z[j]) /\ z[i][2] # z[j][2]
    <2>1. CASE i \in 1..m /\ j \in 1..m
      <3>1. z[i] = s[i] /\ z[j] = s[j]
        BY <1>2, <2>1
      <3>2. Newer(s[i], s[j])
        BY <1>5, <2>1 DEF Descending
      <3>3. s[i][2] # s[j][2]
        BY <1>5, <2>1 DEF IdsDiffer
      <3> QED
        BY <3>1, <3>2, <3>3
    <2>2. CASE i \in 1..m /\ j \notin 1..m
      <3>1. j - m \in 1..n /\ z[j] = t[j - m] /\ z[i] = s[i]
        BY <1>2, <1>3, <2>2
      <3>2. Newer(s[i], t[j - m])
        BY <1>4, <2>2, <3>1
      <3>3. t[j - m] \in off /\ s[i] \in ToSet(s)
        BY <1>t, <1>s, <2>2, <3>1
      <3>4. s[i][1] \in Int /\ t[j - m][1] \in Int /\ s[i][2] \in Int /\ t[j - m][2] \in Int
        BY <1>2, <1>e, <2>2, <3>1
      <3>5. t[j - m][2] = s[i][2] => t[j - m][1] >= s[i][1]
        BY <1>o, <3>3
      <3> QED
        BY <3>1, <3>2, <3>4, <3>5 DEF Newer
    <2>3. CASE i \notin 1..m
      <3>a. m \in Nat /\ n \in Nat
        BY <1>2
      <3>b. j \notin 1..m /\ i - m < j - m
        BY <1>5, <2>3, <3>a
      <3>c. i - m \in 1..n /\ z[i] = t[i - m]
        BY Zenon, <1>3, <2>3
      <3>d. j - m \in 1..n /\ z[j] = t[j - m]
        BY Zenon, <1>3, <3>b
      <3>1. /\ i - m \in 1..n /\ z[i] = t[i - m]
            /\ j - m \in 1..n /\ z[j] = t[j - m] /\ i - m < j - m
        BY <3>b, <3>c, <3>d
      <3>2. Newer(t[i - m], t[j - m])
        BY <1>d, <3>1
      <3>3. t[i - m] \in off /\ t[j - m] \in off
        BY <1>t, <3>1
      <3>4. t[i - m] # t[j - m]
        <4>1. t[i - m][1] \in Int /\ t[i - m][2] \in Int
          BY <1>2, <1>e, <3>1
        <4>2. ~Newer(t[i - m], t[i - m])
          BY <4>1 DEF Newer
        <4> QED
          BY <3>2, <4>2
      <3> QED
        BY <1>o, <3>1, <3>2, <3>3, <3>4
    <2> QED
      BY <2>1, <2>2, <2>3
  <1>6. ToSet(z) = ToSet(s) \cup ToSet(t)
    <2>1. DOMAIN z = 1..m + n /\ DOMAIN s = 1..m /\ DOMAIN t = 1..n
      BY <1>1, <1>2
    <2>2. ToSet(z) \subseteq ToSet(s) \cup ToSet(t)
      <3> SUFFICES ASSUME NEW i \in 1..m + n
                   PROVE  z[i] \in ToSet(s) \cup ToSet(t)
        BY <2>1 DEF ToSet
      <3>1. CASE i \in 1..m
        BY <1>2, <1>s, <3>1
      <3>2. CASE i \notin 1..m
        BY <1>3, <1>t, <3>2
      <3> QED
        BY <3>1, <3>2
    <2>3. ToSet(s) \subseteq ToSet(z)
      <3> SUFFICES ASSUME NEW i \in 1..m PROVE s[i] \in ToSet(z)
        BY <2>1 DEF ToSet
      <3>1. i \in 1..m + n /\ z[i] = s[i]
        BY <1>2
      <3> QED
        BY <2>1, <3>1 DEF ToSet
    <2>4. ToSet(t) \subseteq ToSet(z)
      <3> SUFFICES ASSUME NEW i \in 1..n PROVE t[i] \in ToSet(z)
        BY <2>1 DEF ToSet
      <3>1. m + i \in 1..m + n /\ z[m + i] = t[i]
        BY <1>2
      <3> QED
        BY <2>1, <3>1 DEF ToSet
    <2> QED
      BY <2>2, <2>3, <2>4
  <1>7. g.more => g.next = NextCursor(z)
    <2> SUFFICES ASSUME g.more PROVE g.next = NextCursor(z)
      OBVIOUS
    <2>1. t # <<>> /\ g.next = t[n]
      BY DEF PageIsFor, Last
    <2>2. n \in 1..n /\ m + n > 0
      BY <1>1, <1>2, <2>1, EmptySeq
    <2>3. z # <<>>
      <3>1. Len(<<>>) = 0
        OBVIOUS
      <3> QED
        BY <1>2, <2>2, <3>1
    <2>4. z[Len(z)] = t[n]
      BY <1>2, <2>2
    <2> QED
      BY <2>1, <2>3, <2>4 DEF NextCursor, Last
  <1>8. ASSUME NEW r \in k \cap g.known
        PROVE  r \in ToSet(z) \/ (g.more /\ After(g.next, r))
    <2>1. CASE r \in ToSet(s)
      BY <1>6, <2>1
    <2>2. CASE After(NextCursor(s), r)
      <3>1. r \in ToSet(t) \/ (g.more /\ Newer(g.next, r))
        BY <2>2 DEF PageIsFor
      <3>2. Newer(g.next, r) => After(g.next, r)
        BY DEF Newer, After
      <3> QED
        BY <1>6, <3>1, <3>2
    <2> QED
      BY <2>1, <2>2 DEF ShownOrBehind
  <1>9. ASSUME NEW q \in ToSet(z)
        PROVE  q[2] \in ids /\ \A r \in off : r[2] = q[2] => r[1] >= q[1]
    <2>1. CASE q \in ToSet(s)
      BY <1>o, <2>1
    <2>2. CASE q \in ToSet(t)
      <3>1. q \in off
        BY <2>2 DEF PageIsFor
      <3>2. q[1] \in Int
        BY <1>e, <3>1
      <3> QED
        BY <1>o, <3>1, <3>2
    <2> QED
      BY <1>6, <2>1, <2>2
  <1>10. Descending(z) /\ IdsDiffer(z)
    BY <1>2, <1>5 DEF Descending, IdsDiffer
  <1>11. NoneMovesBack(z, off, ids)
    BY <1>9 DEF NoneMovesBack
  <1>12. g.more => ShownOrBehind(k \cap g.known, z, g.next)
    BY <1>8 DEF ShownOrBehind
  <1> QED
    BY <1>2, <1>7, <1>8, <1>10, <1>11, <1>12 DEF z

-----------------------------------------------------------------------------
\* What may yet be shown, and the sessions.

LEMMA OfferedHolds ==
    ASSUME PagesTypes
    PROVE  /\ Offered \subseteq Everything /\ listed \subseteq Offered
           /\ \A c \in Cursor : page[c] # NoPage => page[c] \in PageRecord /\ page[c].known \subseteq Offered
           /\ \A p \in Readers : got[p] # NoPage => got[p] \in PageRecord /\ got[p].known \subseteq Offered
  <1>1. \A c \in Cursor : page[c] # NoPage => page[c] \in PageRecord /\ page[c].known \subseteq Everything
    BY DEF PagesTypes, PageRecord
  <1>2. \A p \in Readers : got[p] # NoPage => got[p] \in PageRecord /\ got[p].known \subseteq Everything
    BY DEF PagesTypes, PageRecord
  <1> QED
    BY <1>1, <1>2 DEF PagesTypes, Offered

LEMMA OfferedShrinks ==
    ASSUME NEW S, listed' \subseteq S,
           \A c \in Cursor : page'[c] # NoPage => page'[c].known \subseteq S,
           \A p \in Readers : got'[p] # NoPage => got'[p].known \subseteq S
    PROVE  Offered' \subseteq S
  BY DEF Offered

LEMMA IdsStay ==
    ASSUME IdsAreOnce, Offered' \subseteq Offered, used' = used
    PROVE  IdsAreOnce'
  BY DEF IdsAreOnce, OneOfEachId

LEMMA SessionStays ==
    ASSUME NEW p \in Readers, SessionIsSound(p),
           shown'[p] = shown[p], cursor'[p] = cursor[p], sure'[p] = sure[p],
           at'[p] = "done" <=> at[p] = "done",
           NoneMovesBack(shown[p], Offered', used')
    PROVE  SessionIsSound(p)'
  BY DEF SessionIsSound

LEMMA NoneMovesBackAmongFewer ==
    ASSUME NEW s, NEW off, NEW few \in SUBSET off, NEW ids, NEW more, ids \subseteq more,
           NoneMovesBack(s, off, ids)
    PROVE  NoneMovesBack(s, few, more)
  BY DEF NoneMovesBack

LEMMA SessionIsNew ==
    ASSUME NEW p \in Readers, shown'[p] = <<>>, cursor'[p] = Start, at'[p] = "idle",
           sure'[p] = Everything
    PROVE  SessionIsSound(p)'
  <1>1. ToSet(<<>>) = {} /\ Len(<<>>) = 0 /\ 1..0 = {}
    BY DEF ToSet
  <1>2. NextCursor(<<>>) = Start
    BY DEF NextCursor
  <1>3. ShownOrBehind(Everything, <<>>, Start)
    BY DEF After, ShownOrBehind
  <1>4. Descending(<<>>) /\ IdsDiffer(<<>>) /\ NoneMovesBack(<<>>, Offered', used')
    BY <1>1 DEF Descending, IdsDiffer, NoneMovesBack
  <1> QED
    BY <1>2, <1>3, <1>4 DEF SessionIsSound

LEMMA SessionGoesOn ==
    ASSUME PagesIInv, NEW p \in Readers, at[p] # "done",
           NEW g \in PageRecord, PageIsFor(cursor[p], g), g.known \subseteq Offered,
           shown'[p] = shown[p] \o g.items, cursor'[p] = g.next, sure'[p] = sure[p] \cap g.known,
           at'[p] = (IF g.more THEN "answered" ELSE "done"),
           used' = used, Offered' \subseteq Offered
    PROVE  SessionIsSound(p)' /\ shown'[p] \in Seq(Everything)
  <1>1. /\ Descending(shown[p]) /\ IdsDiffer(shown[p]) /\ NoneMovesBack(shown[p], Offered, used)
        /\ cursor[p] = NextCursor(shown[p]) /\ ShownOrBehind(sure[p], shown[p], NextCursor(shown[p]))
    BY DEF PagesIInv, SessionsAreSound, SessionIsSound
  <1>2. OneOfEachId(Offered, used) /\ Offered \in SUBSET Everything /\ shown[p] \in Seq(Everything)
    BY OfferedHolds DEF PagesIInv, IdsAreOnce, PagesTypes
  <1> DEFINE z == shown'[p]
  <1>3. /\ z \in Seq(Everything)
        /\ Descending(z) /\ IdsDiffer(z) /\ NoneMovesBack(z, Offered, used)
        /\ g.more => g.next = NextCursor(z) /\ ShownOrBehind(sure[p] \cap g.known, z, g.next)
        /\ ~g.more => sure[p] \cap g.known \subseteq ToSet(z)
    BY <1>1, <1>2, PageGoesOn
  <1>4. NoneMovesBack(z, Offered', used')
    BY <1>3, NoneMovesBackAmongFewer
  <1>5. at'[p] # "done" <=> g.more
    OBVIOUS
  <1> QED
    BY <1>3, <1>4, <1>5 DEF SessionIsSound

LEMMA SessionsStay ==
    ASSUME PagesIInv, NEW p \in Readers,
           shown'[p] = shown[p], cursor'[p] = cursor[p], sure'[p] = sure[p],
           at'[p] = "done" <=> at[p] = "done", used' = used, Offered' \subseteq Offered
    PROVE  SessionIsSound(p)'
  <1>1. SessionIsSound(p)
    BY DEF PagesIInv, SessionsAreSound
  <1>2. NoneMovesBack(shown[p], Offered', used')
    BY <1>1, NoneMovesBackAmongFewer DEF SessionIsSound
  <1> QED
    BY <1>1, <1>2, SessionStays

LEMMA LeadersStay ==
    ASSUME OneLeader, listing' = listing,
           \A q \in Readers : Leading(q)' => Leading(q) /\ cursor'[q] = cursor[q]
    PROVE  OneLeader'
  BY DEF OneLeader, Cached

-----------------------------------------------------------------------------
\* Kinds of steps.

LEMMA ReaderMoves ==
    ASSUME PagesIInv, NEW p \in Readers, NEW l \in {"get", "join", "wait", "recheck", "query"},
           at[p] \notin {"store", "done"}, GotoStep(p, l),
           UNCHANGED <<list, page, loads, session, got>>, faults' \in Nat, faults <= faults',
           Cached \/ l = "query", OneLeader', l = "query" => loads[cursor[p]] <= faults'
    PROVE  PagesIInv'
  <1> USE DEF list, session
  <1>0. PagesTypes /\ PagesInHand /\ PagesAreRight /\ IdsAreOnce /\ LoadsAreCounted
    BY DEF PagesIInv
  <1>1. at'[p] = l /\ \A q \in Readers \ {p} : at'[q] = at[q]
    BY <1>0 DEF PagesTypes, GotoStep
  <1>2. PagesTypes'
    BY <1>0 DEF PagesTypes, GotoStep, ReadingSteps
  <1>3. PagesInHand'
    BY <1>0, <1>1 DEF PagesInHand, Cached
  <1>4. PagesAreRight'
    BY <1>0 DEF PagesAreRight
  <1>5. Offered' \subseteq Offered
    BY DEF Offered
  <1>6. IdsAreOnce'
    BY <1>0, <1>5, IdsStay
  <1>7. SessionsAreSound'
    <2>1. ASSUME NEW q \in Readers PROVE SessionIsSound(q)'
      <3>1. at'[q] = "done" <=> at[q] = "done"
        BY <1>1
      <3> QED
        BY <1>5, <3>1, SessionsStay
    <2> QED
      BY <2>1 DEF SessionsAreSound
  <1>8. LoadsAreCounted'
    <2>1. \A q \in Readers : at'[q] = "store" <=> at[q] = "store"
      BY <1>1
    <2>2. \A c \in Cursor : loads[c] \in Nat
      BY <1>0 DEF PagesTypes
    <2>3. \A c \in Cursor : loads[c] <= 1 + faults'
      BY <1>0, <2>2 DEF LoadsAreCounted, PagesTypes
    <2>4. ASSUME NEW c \in Cursor, page[c] = NoPage, \A q \in Readers : at'[q] = "store" => cursor[q] # c
          PROVE  loads[c] <= faults'
      <3>1. loads[c] <= faults
        BY <1>0, <2>1, <2>4 DEF LoadsAreCounted
      <3> QED
        BY <1>0, <2>2, <3>1 DEF PagesTypes
    <2>5. ASSUME NEW q \in Readers, at'[q] = "query"
          PROVE  loads[cursor[q]] <= faults'
      <3>1. CASE q = p
        BY <1>1, <2>5, <3>1
      <3>2. CASE q # p
        <4>1. loads[cursor[q]] <= faults /\ cursor[q] \in Cursor
          BY <1>0, <1>1, <2>5, <3>2 DEF LoadsAreCounted, PagesTypes
        <4> QED
          BY <1>0, <2>2, <4>1 DEF PagesTypes
      <3> QED
        BY <3>1, <3>2
    <2> QED
      BY <2>3, <2>4, <2>5 DEF LoadsAreCounted
  <1> QED
    BY <1>2, <1>3, <1>4, <1>6, <1>7, <1>8 DEF PagesIInv

\* What the readers ps are answered.
LEMMA ReadersAreAnswered ==
    ASSUME PagesIInv, NEW ps \in SUBSET Readers, NEW c \in Cursor,
           \A q \in ps : cursor[q] = c /\ at[q] # "done",
           NEW g \in PageRecord, PageIsFor(c, g), g.known \subseteq Offered, Answer(ps, g),
           UNCHANGED <<list, loads>>, faults' \in Nat, faults <= faults',
           page' \in [Cursor -> PageRecord \cup {NoPage}],
           \A d \in Cursor : page'[d] # page[d] => Cached /\ d = c /\ page'[d] = g,
           \A d \in Cursor : (page'[d] = NoPage /\ \A q \in Readers : at'[q] = "store" => cursor'[q] # d)
               => loads[d] <= faults'
    PROVE  PagesIInv'
  <1> USE DEF list
  <1>0. PagesTypes /\ PagesInHand /\ PagesAreRight /\ IdsAreOnce /\ LoadsAreCounted /\ OneLeader
    BY DEF PagesIInv
  <1>1. ASSUME NEW q \in ps
        PROVE  /\ q \in Readers
               /\ at'[q] = (IF g.more THEN "answered" ELSE "done") /\ cursor'[q] = g.next
               /\ shown'[q] = shown[q] \o g.items /\ sure'[q] = sure[q] \cap g.known
               /\ got'[q] = NoPage
    BY DEF Answer
  <1>2. ASSUME NEW q \in Readers \ ps
        PROVE  /\ at'[q] = at[q] /\ cursor'[q] = cursor[q]
               /\ shown'[q] = shown[q] /\ sure'[q] = sure[q] /\ got'[q] = got[q]
    BY DEF Answer
  <1>3. Offered' \subseteq Offered
    <2>1. \A d \in Cursor : page'[d] # NoPage => page'[d].known \subseteq Offered
      BY <1>0, OfferedHolds
    <2>2. \A q \in Readers : got'[q] # NoPage => got'[q].known \subseteq Offered
      BY <1>0, <1>1, <1>2, OfferedHolds
    <2>3. listed' \subseteq Offered
      BY <1>0, OfferedHolds
    <2> QED
      BY <2>1, <2>2, <2>3, OfferedShrinks
  <1>4. SessionsAreSound' /\ \A q \in Readers : shown'[q] \in Seq(Everything)
    <2>1. ASSUME NEW q \in ps PROVE SessionIsSound(q)' /\ shown'[q] \in Seq(Everything)
      BY <1>1, <1>3, <2>1, SessionGoesOn
    <2>2. ASSUME NEW q \in Readers \ ps PROVE SessionIsSound(q)' /\ shown'[q] \in Seq(Everything)
      BY <1>0, <1>2, <1>3, <2>2, SessionsStay DEF PagesTypes
    <2> QED
      BY <2>1, <2>2 DEF SessionsAreSound
  <1>5. PagesTypes'
    <2>1. at' \in [Readers -> ReadingSteps]
      BY <1>0 DEF PagesTypes, Answer, ReadingSteps
    <2>2. cursor' \in [Readers -> Cursor]
      BY <1>0 DEF PagesTypes, Answer, PageRecord
    <2>3. sure' \in [Readers -> SUBSET Everything]
      BY <1>0 DEF PagesTypes, Answer
    <2>4. got' \in [Readers -> PageRecord \cup {NoPage}]
      BY <1>0 DEF PagesTypes, Answer
    <2>5. shown' \in [Readers -> Seq(Everything)]
      <3>1. shown' = [q \in Readers |-> shown'[q]]
        BY DEF Answer
      <3> QED
        BY <1>4, <3>1
    <2> QED
      BY <1>0, <2>1, <2>2, <2>3, <2>4, <2>5 DEF PagesTypes
  <1>6. PagesInHand'
    <2>1. \A q \in Readers : got'[q] # NoPage <=> at'[q] = "store"
      BY <1>0, <1>1, <1>2 DEF PagesInHand
    <2>2. ~Cached => \A d \in Cursor : page'[d] = NoPage
      BY <1>0 DEF PagesInHand
    <2>3. ~Cached => \A q \in Readers : at'[q] \in {"idle", "query", "answered", "done"}
      BY <1>0, <1>1, <1>2 DEF PagesInHand
    <2> QED
      BY <2>1, <2>2, <2>3 DEF PagesInHand, Cached
  <1>7. PagesAreRight'
    <2>1. ASSUME NEW d \in Cursor, page'[d] # NoPage
          PROVE  PageIsFor(d, page'[d])
      BY <1>0, <2>1 DEF PagesAreRight
    <2>2. ASSUME NEW q \in Readers, got'[q] # NoPage
          PROVE  PageIsFor(cursor'[q], got'[q])
      BY <1>0, <1>1, <1>2, <2>2 DEF PagesAreRight
    <2> QED
      BY <2>1, <2>2 DEF PagesAreRight
  <1>8. IdsAreOnce'
    BY <1>0, <1>3, IdsStay
  <1>9. OneLeader'
    <2>1. ASSUME NEW q \in Readers, Leading(q)'
          PROVE  Leading(q) /\ cursor'[q] = cursor[q]
      BY <1>1, <1>2, <2>1 DEF Leading
    <2> QED
      BY <1>0, <2>1, LeadersStay
  <1>10. LoadsAreCounted'
    <2>1. \A d \in Cursor : loads[d] \in Nat
      BY <1>0 DEF PagesTypes
    <2>2. \A d \in Cursor : loads[d] <= 1 + faults'
      BY <1>0, <2>1 DEF LoadsAreCounted, PagesTypes
    <2>3. ASSUME NEW q \in Readers, at'[q] = "query"
          PROVE  loads[cursor'[q]] <= faults'
      <3>1. at[q] = "query" /\ cursor'[q] = cursor[q]
        BY <1>1, <1>2, <2>3
      <3>2. loads[cursor[q]] <= faults /\ cursor[q] \in Cursor
        BY <1>0, <3>1 DEF LoadsAreCounted, PagesTypes
      <3> QED
        BY <1>0, <2>1, <3>1, <3>2 DEF PagesTypes
    <2> QED
      BY <2>2, <2>3 DEF LoadsAreCounted
  <1> QED
    BY <1>4, <1>5, <1>6, <1>7, <1>8, <1>9, <1>10 DEF PagesIInv

\* The readers ps are gone.
LEMMA ReadersLeave ==
    ASSUME PagesIInv, NEW ps \in SUBSET Readers, \A q \in ps : at[q] # "store", Leave(ps),
           UNCHANGED <<list, page, loads>>, faults' \in Nat, faults <= faults'
    PROVE  PagesIInv'
  <1> USE DEF list
  <1>0. PagesTypes /\ PagesInHand /\ PagesAreRight /\ IdsAreOnce /\ LoadsAreCounted /\ OneLeader
    BY DEF PagesIInv
  <1>1. ASSUME NEW q \in ps
        PROVE  /\ q \in Readers
               /\ at'[q] = "idle" /\ cursor'[q] = Start /\ shown'[q] = <<>> /\ sure'[q] = Everything
               /\ got'[q] = NoPage
    BY DEF Leave
  <1>2. ASSUME NEW q \in Readers \ ps
        PROVE  /\ at'[q] = at[q] /\ cursor'[q] = cursor[q]
               /\ shown'[q] = shown[q] /\ sure'[q] = sure[q] /\ got'[q] = got[q]
    BY DEF Leave
  <1>3. Offered' \subseteq Offered
    <2>1. \A d \in Cursor : page'[d] # NoPage => page'[d].known \subseteq Offered
      BY <1>0, OfferedHolds
    <2>2. \A q \in Readers : got'[q] # NoPage => got'[q].known \subseteq Offered
      BY <1>0, <1>1, <1>2, OfferedHolds
    <2>3. listed' \subseteq Offered
      BY <1>0, OfferedHolds
    <2> QED
      BY <2>1, <2>2, <2>3, OfferedShrinks
  <1>4. SessionsAreSound'
    <2>1. ASSUME NEW q \in ps PROVE SessionIsSound(q)'
      BY <1>1, <2>1, SessionIsNew
    <2>2. ASSUME NEW q \in Readers \ ps PROVE SessionIsSound(q)'
      BY <1>0, <1>2, <1>3, <2>2, SessionsStay DEF PagesTypes
    <2> QED
      BY <2>1, <2>2 DEF SessionsAreSound
  <1>5. PagesTypes'
    <2>1. at' \in [Readers -> ReadingSteps]
      BY <1>0 DEF PagesTypes, Leave, ReadingSteps
    <2>2. cursor' \in [Readers -> Cursor]
      BY <1>0, EverythingIsRows DEF PagesTypes, Leave
    <2>3. sure' \in [Readers -> SUBSET Everything]
      BY <1>0 DEF PagesTypes, Leave
    <2>4. got' \in [Readers -> PageRecord \cup {NoPage}]
      BY <1>0 DEF PagesTypes, Leave
    <2>5. shown' \in [Readers -> Seq(Everything)]
      BY <1>0, EmptySeq DEF PagesTypes, Leave
    <2> QED
      BY <1>0, <2>1, <2>2, <2>3, <2>4, <2>5 DEF PagesTypes
  <1>6. PagesInHand'
    <2>1. \A q \in Readers : got'[q] # NoPage <=> at'[q] = "store"
      BY <1>0, <1>1, <1>2 DEF PagesInHand
    <2>2. ~Cached => \A q \in Readers : at'[q] \in {"idle", "query", "answered", "done"}
      BY <1>0, <1>1, <1>2 DEF PagesInHand
    <2> QED
      BY <1>0, <2>1, <2>2 DEF PagesInHand, Cached
  <1>7. PagesAreRight'
    BY <1>0, <1>1, <1>2 DEF PagesAreRight
  <1>8. IdsAreOnce'
    BY <1>0, <1>3, IdsStay
  <1>9. OneLeader'
    <2>1. ASSUME NEW q \in Readers, Leading(q)'
          PROVE  Leading(q) /\ cursor'[q] = cursor[q]
      BY <1>1, <1>2, <2>1 DEF Leading
    <2> QED
      BY <1>0, <2>1, LeadersStay
  <1>10. LoadsAreCounted'
    <2>1. \A d \in Cursor : loads[d] \in Nat
      BY <1>0 DEF PagesTypes
    <2>2. \A d \in Cursor : loads[d] <= 1 + faults'
      BY <1>0, <2>1 DEF LoadsAreCounted, PagesTypes
    <2>3. ASSUME NEW q \in Readers, at'[q] = "query"
          PROVE  loads[cursor'[q]] <= faults'
      <3>1. at[q] = "query" /\ cursor'[q] = cursor[q]
        BY <1>1, <1>2, <2>3
      <3>2. loads[cursor[q]] <= faults /\ cursor[q] \in Cursor
        BY <1>0, <3>1 DEF LoadsAreCounted, PagesTypes
      <3> QED
        BY <1>0, <2>1, <3>1, <3>2 DEF PagesTypes
    <2>4. ASSUME NEW d \in Cursor, page[d] = NoPage, \A q \in Readers : at'[q] = "store" => cursor'[q] # d
          PROVE  loads[d] <= faults'
      <3>1. \A q \in Readers : at[q] = "store" => cursor[q] # d
        BY <1>2, <2>4
      <3>2. loads[d] <= faults
        BY <1>0, <2>4, <3>1 DEF LoadsAreCounted
      <3> QED
        BY <1>0, <2>1, <3>2 DEF PagesTypes
    <2> QED
      BY <2>2, <2>3, <2>4 DEF LoadsAreCounted
  <1> QED
    BY <1>4, <1>5, <1>6, <1>7, <1>8, <1>9, <1>10 DEF PagesIInv

\* The list changes: what is offered is what was, and one row that is new or
\* has moved to the front.
LEMMA ListChanges ==
    ASSUME PagesIInv, Change, listed' \in SUBSET Everything, used' \in SUBSET Ids,
           used \subseteq used', IdsAreOnce',
           \A p \in Readers : NoneMovesBack(shown[p], Offered', used')
    PROVE  PagesIInv'
  <1> USE DEF Change, session
  <1>0. PagesTypes /\ PagesInHand /\ PagesAreRight /\ OneLeader /\ LoadsAreCounted /\ SessionsAreSound
    BY DEF PagesIInv
  <1>1. PagesTypes'
    BY <1>0 DEF PagesTypes
  <1>2. PagesInHand' /\ PagesAreRight' /\ OneLeader' /\ LoadsAreCounted'
    BY <1>0 DEF PagesInHand, PagesAreRight, OneLeader, LoadsAreCounted, Cached, Leading
  <1>3. SessionsAreSound'
    <2> SUFFICES ASSUME NEW p \in Readers PROVE SessionIsSound(p)'
      BY DEF SessionsAreSound
    <2>1. SessionIsSound(p)
      BY <1>0 DEF SessionsAreSound
    <2> QED
      BY <2>1, SessionStays
  <1> QED
    BY <1>1, <1>2, <1>3 DEF PagesIInv

-----------------------------------------------------------------------------
\* The steps.

LEMMA RowIsAdded ==
    ASSUME PagesIInv, AddRow
    PROVE  PagesIInv'
  <1>0. PagesTypes /\ IdsAreOnce /\ SessionsAreSound
    BY DEF PagesIInv
  <1> DEFINE i == Min(Ids \ used)
  <1>1. i \in Ids \ used
    <2> DEFINE S == Ids \ used
    <2>1. S \subseteq Nat /\ S # {}
      BY <1>0, RowsAreNumbered DEF PagesTypes, AddRow
    <2>2. \E x \in S : \A y \in S : x <= y
      <3>1. IsWellFoundedOn(OpToRel(<, Nat), Nat)
        BY NatLessThanWellFounded, Zenon
      <3>2. PICK x \in S : \A y \in S : <<y, x>> \notin OpToRel(<, Nat)
        BY <2>1, <3>1, WFMin
      <3>3. \A y \in S : ~(y < x)
        BY <2>1, <3>2, Zenon DEF OpToRel
      <3> QED
        BY <2>1, <3>3
    <2>3. i = CHOOSE x \in S : \A y \in S : x <= y
      BY DEF Min
    <2> QED
      BY <2>2, <2>3
  <1>2. PICK t \in Times : listed' = listed \cup {<<t, i>>}
    BY DEF AddRow
  <1>3. used' = used \cup {i} /\ Change
    BY DEF AddRow
  <1> HIDE DEF i
  <1> DEFINE new == <<t, i>>
  <1>4. new \in Everything /\ new[1] = t /\ new[2] = i
    BY <1>1 DEF Everything
  <1>5. Offered' \subseteq Offered \cup {new}
    <2>1. /\ listed' \subseteq Offered \cup {new}
          /\ \A c \in Cursor : page'[c] # NoPage => page'[c].known \subseteq Offered \cup {new}
          /\ \A p \in Readers : got'[p] # NoPage => got'[p].known \subseteq Offered \cup {new}
      BY <1>0, <1>2, <1>3, OfferedHolds DEF Change
    <2> QED
      BY <2>1, OfferedShrinks
  <1>6. \A r \in Offered : r[2] \in used
    BY <1>0 DEF IdsAreOnce, OneOfEachId
  <1> HIDE DEF new
  <1>7. IdsAreOnce'
    <2>1. ASSUME NEW r \in Offered', NEW s \in Offered', r[2] = s[2] PROVE r = s
      <3>1. CASE r \in Offered /\ s \in Offered
        BY <1>0, <2>1, <3>1 DEF IdsAreOnce, OneOfEachId
      <3>2. CASE r \notin Offered \/ s \notin Offered
        BY <1>1, <1>4, <1>5, <1>6, <2>1, <3>2
      <3> QED
        BY <3>1, <3>2
    <2>2. ASSUME NEW r \in Offered' PROVE r[2] \in used'
      BY <1>3, <1>4, <1>5, <1>6
    <2> QED
      BY <2>1, <2>2 DEF IdsAreOnce, OneOfEachId
  <1>8. ASSUME NEW p \in Readers PROVE NoneMovesBack(shown[p], Offered', used')
    <2>1. \A r \in ToSet(shown[p]) : r[2] \in used /\ \A q \in Offered : q[2] = r[2] => q[1] >= r[1]
      BY <1>0 DEF SessionsAreSound, SessionIsSound, NoneMovesBack
    <2> QED
      BY <1>1, <1>3, <1>4, <1>5, <2>1 DEF NoneMovesBack
  <1>9. listed' \in SUBSET Everything /\ used' \in SUBSET Ids /\ used \subseteq used'
    BY <1>0, <1>1, <1>2, <1>3, <1>4 DEF PagesTypes, new
  <1> QED
    BY <1>3, <1>7, <1>8, <1>9, ListChanges

LEMMA RowIsRemoved ==
    ASSUME PagesIInv, RemoveRow
    PROVE  PagesIInv'
  <1>0. PagesTypes /\ IdsAreOnce /\ SessionsAreSound /\ Change /\ used' = used /\ listed' \subseteq listed
    BY DEF PagesIInv, RemoveRow
  <1>1. Offered' \subseteq Offered
    BY <1>0, OfferedHolds, OfferedShrinks DEF Change
  <1>2. IdsAreOnce'
    BY <1>0, <1>1, IdsStay
  <1>3. ASSUME NEW p \in Readers PROVE NoneMovesBack(shown[p], Offered', used')
    BY <1>0, <1>1, NoneMovesBackAmongFewer DEF SessionsAreSound, SessionIsSound
  <1> QED
    BY <1>0, <1>2, <1>3, ListChanges DEF PagesTypes

LEMMA RowIsMoved ==
    ASSUME PagesIInv, MoveRow
    PROVE  PagesIInv'
  <1>0. PagesTypes /\ PagesInHand /\ IdsAreOnce /\ SessionsAreSound /\ Change /\ used' = used
    BY DEF PagesIInv, MoveRow
  <1>1. PICK r \in listed, t \in Times : t > r[1] /\ listed' = (listed \ {r}) \cup {<<t, r[2]>>}
    BY DEF MoveRow
  <1>2. ~Cached
    BY DEF MoveRow, Cached
  <1> DEFINE moved == <<t, r[2]>>
  <1>3. r \in Everything /\ r[2] \in Ids /\ r[1] \in Times
    BY <1>0 DEF PagesTypes, Everything
  <1>4. moved \in Everything /\ moved[1] = t /\ moved[2] = r[2] /\ t > r[1]
    BY <1>1, <1>3 DEF Everything
  <1>5. r[1] \in Int /\ t \in Int
    <2>1. Times \subseteq Int
      BY RowsAreNumbered
    <2>2. t \in Times
      OBVIOUS
    <2> QED
      BY <1>3, <2>1, <2>2, Zenon
  <1> HIDE DEF moved
  <1>6. Offered' = listed'
    <2>1. listed' \in SUBSET Everything
      BY <1>0, <1>1, <1>4 DEF PagesTypes, moved
    <2>2. (\A c \in Cursor : page'[c] = NoPage) /\ (\A p \in Readers : got'[p] = NoPage)
      BY <1>0, <1>2 DEF PagesInHand, Change
    <2> QED
      BY <2>1, <2>2 DEF Offered
  <1>7. listed \subseteq Offered
    BY <1>0, OfferedHolds
  <1>8. listed' = (listed \ {r}) \cup {moved}
    BY <1>1 DEF moved
  <1>9. \A q \in listed : q[2] = r[2] => q = r
    BY <1>0, <1>7 DEF IdsAreOnce, OneOfEachId
  <1>10. IdsAreOnce'
    <2>1. ASSUME NEW q \in listed', NEW s \in listed', q[2] = s[2] PROVE q = s
      <3>1. CASE q \in listed /\ s \in listed
        BY <1>0, <1>7, <2>1, <3>1 DEF IdsAreOnce, OneOfEachId
      <3>2. CASE q = moved \/ s = moved
        BY <1>4, <1>8, <1>9, <2>1, <3>2
      <3> QED
        BY <1>8, <3>1, <3>2
    <2>2. ASSUME NEW q \in listed' PROVE q[2] \in used'
      BY <1>0, <1>4, <1>7, <1>8 DEF IdsAreOnce, OneOfEachId
    <2> QED
      BY <1>6, <2>1, <2>2 DEF IdsAreOnce, OneOfEachId
  <1>11. ASSUME NEW p \in Readers PROVE NoneMovesBack(shown[p], Offered', used')
    <2>1. /\ \A s \in ToSet(shown[p]) : s[2] \in used /\ \A q \in Offered : q[2] = s[2] => q[1] >= s[1]
          /\ \A s \in ToSet(shown[p]) : s[1] \in Int
      <3>1. ToSet(shown[p]) \subseteq Everything
        BY <1>0 DEF PagesTypes, ToSet
      <3> QED
        BY <1>0, <3>1, EverythingIsRows DEF SessionsAreSound, SessionIsSound, NoneMovesBack
    <2>2. ASSUME NEW s \in ToSet(shown[p]), NEW q \in listed', q[2] = s[2]
          PROVE  q[1] >= s[1]
      <3>1. CASE q = moved
        <4>1. r[1] >= s[1]
          BY <1>4, <1>7, <2>1, <2>2, <3>1
        <4> QED
          BY <1>4, <1>5, <2>1, <3>1, <4>1
      <3>2. CASE q \in listed
        BY <1>7, <2>1, <2>2, <3>2
      <3> QED
        BY <1>8, <3>1, <3>2
    <2> QED
      BY <1>0, <1>6, <2>1, <2>2 DEF NoneMovesBack
  <1>12. listed' \in SUBSET Everything
    BY <1>0, <1>4, <1>8 DEF PagesTypes
  <1> QED
    BY <1>0, <1>10, <1>11, <1>12, ListChanges DEF PagesTypes

LEMMA PageExpires ==
    ASSUME PagesIInv, Expire
    PROVE  PagesIInv'
  <1> USE DEF list, session
  <1>0. /\ PagesTypes /\ PagesInHand /\ PagesAreRight /\ IdsAreOnce /\ OneLeader /\ LoadsAreCounted
        /\ UNCHANGED <<list, at, session, got, changes, faults>>
    BY DEF PagesIInv, Expire
  <1>1. PICK c \in Cursor : /\ page' = [page EXCEPT ![c] = NoPage]
                            /\ loads' = [loads EXCEPT ![c] = 0]
    BY DEF Expire
  <1>2. /\ page'[c] = NoPage /\ loads'[c] = 0
        /\ \A d \in Cursor \ {c} : page'[d] = page[d] /\ loads'[d] = loads[d]
    BY <1>0, <1>1 DEF PagesTypes
  <1>3. PagesTypes'
    <2>1. page' \in [Cursor -> PageRecord \cup {NoPage}] /\ loads' \in [Cursor -> Nat]
      BY <1>0, <1>1 DEF PagesTypes
    <2> QED
      BY <1>0, <2>1 DEF PagesTypes
  <1>4. PagesInHand' /\ PagesAreRight' /\ OneLeader'
    BY <1>0, <1>2 DEF PagesInHand, PagesAreRight, OneLeader, Cached, Leading
  <1>5. Offered' \subseteq Offered
    <2>1. \A d \in Cursor : page'[d] # NoPage => page'[d].known \subseteq Offered
      BY <1>0, <1>2, OfferedHolds
    <2> QED
      BY <1>0, <2>1, OfferedHolds, OfferedShrinks
  <1>6. IdsAreOnce'
    BY <1>0, <1>5, IdsStay
  <1>7. SessionsAreSound'
    BY <1>0, <1>5, SessionsStay DEF SessionsAreSound
  <1>8. LoadsAreCounted'
    <2>1. faults \in Nat
      BY <1>0 DEF PagesTypes
    <2>2. \A d \in Cursor : loads'[d] <= 1 + faults
      BY <1>0, <1>2, <2>1 DEF LoadsAreCounted
    <2>3. \A d \in Cursor : (page'[d] = NoPage /\ \A q \in Readers : at[q] = "store" => cursor[q] # d)
              => loads'[d] <= faults
      BY <1>0, <1>2, <2>1 DEF LoadsAreCounted
    <2>4. \A q \in Readers : at[q] = "query" => loads'[cursor[q]] <= faults
      <3>1. \A q \in Readers : cursor[q] \in Cursor
        BY <1>0 DEF PagesTypes
      <3> QED
        BY <1>0, <1>2, <2>1, <3>1 DEF LoadsAreCounted
    <2> QED
      BY <1>0, <2>2, <2>3, <2>4 DEF LoadsAreCounted
  <1> QED
    BY <1>3, <1>4, <1>6, <1>7, <1>8 DEF PagesIInv

LEMMA SessionBegins ==
    ASSUME PagesIInv, NEW p \in Readers, BeginSession(p) \/ Continue(p)
    PROVE  PagesIInv'
  <1>0. PagesTypes /\ PagesInHand /\ OneLeader /\ LoadsAreCounted
    BY DEF PagesIInv
  <1> DEFINE l == IF Cached THEN "get" ELSE "query"
  <1>1. /\ at[p] \in {"idle", "answered"} /\ GotoStep(p, l)
        /\ UNCHANGED <<list, page, loads, session, got, changes, faults>>
    BY DEF BeginSession, Continue
  <1>2. faults \in Nat /\ cursor[p] \in Cursor
    BY <1>0 DEF PagesTypes
  <1>3. l = "query" => loads[cursor[p]] <= faults
    <2> SUFFICES ASSUME ~Cached PROVE loads[cursor[p]] <= faults
      OBVIOUS
    <2>1. /\ page[cursor[p]] = NoPage
          /\ \A q \in Readers : at[q] # "store"
      BY <1>0, <1>2 DEF PagesInHand
    <2> QED
      BY <1>0, <1>2, <2>1 DEF LoadsAreCounted
  <1>4. OneLeader'
    <2>1. CASE Cached
      <3>1. ASSUME NEW q \in Readers, Leading(q)' PROVE Leading(q) /\ cursor'[q] = cursor[q]
        BY <1>0, <1>1, <2>1, <3>1 DEF Leading, GotoStep, PagesTypes, session
      <3> QED
        BY <1>0, <1>1, <3>1, LeadersStay DEF list
    <2>2. CASE ~Cached
      BY <1>1, <2>2 DEF OneLeader, Cached, list
    <2> QED
      BY <2>1, <2>2
  <1> QED
    BY <1>1, <1>2, <1>3, <1>4, ReaderMoves

\* The answers, from a page that is there.
LEMMA HitIsAnswered ==
    ASSUME PagesIInv, NEW p \in Readers, at[p] \in {"get", "recheck"},
           NEW ps \in SUBSET Readers, \A q \in ps : cursor[q] = cursor[p] /\ at[q] # "done",
           \A q \in ps : at[q] # "store",
           Hit(p), Answer(ps, page[cursor[p]]), UNCHANGED <<list, page, loads, changes, faults>>
    PROVE  PagesIInv'
  <1>0. PagesTypes /\ PagesAreRight /\ LoadsAreCounted
    BY DEF PagesIInv
  <1> DEFINE c == cursor[p]
             g == page[c]
  <1>1. c \in Cursor /\ g # NoPage
    BY <1>0 DEF PagesTypes, Hit
  <1>2. g \in PageRecord /\ PageIsFor(c, g) /\ g.known \subseteq Offered
    BY <1>0, <1>1, OfferedHolds DEF PagesAreRight
  <1>3. faults \in Nat /\ page \in [Cursor -> PageRecord \cup {NoPage}]
    BY <1>0 DEF PagesTypes
  <1>4. \A q \in Readers : at[q] = "store" => at'[q] = "store" /\ cursor'[q] = cursor[q]
    BY DEF Answer
  <1>5. \A d \in Cursor : (page[d] = NoPage /\ \A q \in Readers : at'[q] = "store" => cursor'[q] # d)
            => loads[d] <= faults
    BY <1>0, <1>4 DEF LoadsAreCounted
  <1> HIDE DEF g, c
  <1>6. /\ \A q \in ps : cursor[q] = c /\ at[q] # "done"
        /\ Answer(ps, g)
    BY DEF c, g
  <1> QED
    BY <1>1, <1>2, <1>3, <1>5, <1>6, ReadersAreAnswered

LEMMA PageIsGot ==
    ASSUME PagesIInv, NEW p \in Readers, GetPage(p)
    PROVE  PagesIInv'
  <1>0. PagesTypes /\ PagesInHand /\ OneLeader /\ at[p] = "get" /\ UNCHANGED <<list, page, loads, changes>>
    BY DEF PagesIInv, GetPage
  <1>1. CASE Hit(p) /\ Answer({p}, page[cursor[p]]) /\ UNCHANGED faults
    BY <1>0, <1>1, HitIsAnswered
  <1>2. CASE NotRead(p) /\ GotoStep(p, "join") /\ UNCHANGED <<session, got>>
    <2>1. faults' \in Nat /\ faults <= faults'
      BY <1>0, <1>2 DEF NotRead, Fault, PagesTypes
    <2>2. Cached
      BY <1>0 DEF PagesInHand
    <2>3. ASSUME NEW q \in Readers, Leading(q)' PROVE Leading(q) /\ cursor'[q] = cursor[q]
      BY <1>0, <1>2, <2>3 DEF Leading, GotoStep, PagesTypes, session
    <2>4. OneLeader'
      BY <1>0, <2>3, LeadersStay DEF list
    <2> QED
      BY <1>0, <1>2, <2>1, <2>2, <2>4, ReaderMoves
  <1> QED
    BY <1>1, <1>2 DEF GetPage

LEMMA ReaderJoins ==
    ASSUME PagesIInv, NEW p \in Readers, Join(p)
    PROVE  PagesIInv'
  <1>0. /\ PagesTypes /\ PagesInHand /\ OneLeader /\ at[p] = "join"
        /\ UNCHANGED <<list, page, loads, session, got, changes, faults>>
    BY DEF PagesIInv, Join
  <1> DEFINE led == \E q \in Readers \ {p} : Leading(q) /\ cursor[q] = cursor[p]
             l == IF led THEN "wait" ELSE "recheck"
  <1>1. GotoStep(p, l) /\ faults \in Nat
    BY <1>0 DEF Join, PagesTypes
  <1>2. Cached
    BY <1>0 DEF PagesInHand
  <1>3. cursor' = cursor /\ at'[p] = l /\ \A q \in Readers \ {p} : at'[q] = at[q]
    BY <1>0, <1>1 DEF GotoStep, PagesTypes, session
  <1>4. OneLeader'
    <2> SUFFICES ASSUME NEW q \in Readers, NEW r \in Readers, Leading(q)', Leading(r)',
                        cursor[q] = cursor[r], q # r
                 PROVE  FALSE
      BY <1>3 DEF OneLeader
    <2>1. CASE q # p /\ r # p
      BY <1>0, <1>2, <1>3, <2>1 DEF OneLeader, Leading
    <2>2. CASE q = p \/ r = p
      BY <1>3, <2>2 DEF Leading
    <2> QED
      BY <2>1, <2>2
  <1> QED
    BY <1>0, <1>1, <1>2, <1>4, ReaderMoves

LEMMA LeaderRechecks ==
    ASSUME PagesIInv, NEW p \in Readers, Recheck(p)
    PROVE  PagesIInv'
  <1>0. /\ PagesTypes /\ PagesInHand /\ OneLeader /\ LoadsAreCounted /\ at[p] = "recheck"
        /\ UNCHANGED <<list, page, loads, changes>>
    BY DEF PagesIInv, Recheck
  <1>1. CASE Hit(p) /\ Answer({p} \cup Followers(p), page[cursor[p]]) /\ UNCHANGED faults
    <2>1. \A q \in {p} \cup Followers(p) : cursor[q] = cursor[p] /\ at[q] \in {"wait", "recheck"}
      BY <1>0 DEF Followers
    <2>2. {p} \cup Followers(p) \in SUBSET Readers
      BY DEF Followers
    <2> QED
      BY <1>0, <1>1, <2>1, <2>2, HitIsAnswered
  <1>2. CASE NotRead(p) /\ GotoStep(p, "query") /\ UNCHANGED <<session, got>>
    <2>0. faults \in Nat /\ cursor[p] \in Cursor /\ loads[cursor[p]] \in Nat
      BY <1>0 DEF PagesTypes
    <2>1. faults' \in Nat /\ faults <= faults'
      BY <1>2, <2>0 DEF NotRead, Fault
    <2>2. Cached
      BY <1>0 DEF PagesInHand
    <2>3. ASSUME NEW q \in Readers, Leading(q)' PROVE Leading(q) /\ cursor'[q] = cursor[q]
      BY <1>0, <1>2, <2>3 DEF Leading, GotoStep, PagesTypes, session
    <2>4. OneLeader'
      BY <1>0, <2>3, LeadersStay DEF list
    <2>5. loads[cursor[p]] <= faults'
      <3>1. CASE ~Hit(p) /\ UNCHANGED faults
        <4>1. ASSUME NEW q \in Readers, at[q] = "store" PROVE cursor[q] # cursor[p]
          BY <1>0, <2>2, <4>1 DEF OneLeader, Leading
        <4> QED
          BY <1>0, <2>0, <3>1, <4>1 DEF LoadsAreCounted, Hit
      <3>2. CASE Fault
        BY <1>0, <2>0, <3>2 DEF LoadsAreCounted, Fault
      <3> QED
        BY <1>2, <3>1, <3>2 DEF NotRead
    <2> QED
      BY <1>0, <1>2, <2>1, <2>2, <2>4, <2>5, ReaderMoves
  <1> QED
    BY <1>1, <1>2 DEF Recheck

LEMMA PageIsQueried ==
    ASSUME PagesIInv, NEW p \in Readers, QueryPage(p)
    PROVE  PagesIInv'
  <1> USE DEF list
  <1>0. /\ PagesTypes /\ PagesInHand /\ PagesAreRight /\ IdsAreOnce /\ OneLeader /\ LoadsAreCounted
        /\ at[p] = "query" /\ UNCHANGED <<list, page, changes>>
    BY DEF PagesIInv, QueryPage
  <1>1. faults \in Nat /\ cursor[p] \in Cursor /\ loads[cursor[p]] \in Nat
    BY <1>0 DEF PagesTypes
  <1> DEFINE c == cursor[p]
             g == Loaded(c)
  <1>2. g \in PageRecord /\ g # NoPage /\ PageIsFor(c, g) /\ g.known = listed /\ g.known \subseteq Offered
    BY <1>0, <1>1, LoadedIsRight, OfferedHolds
  <1>3. CASE ~Cached /\ Answer({p}, g) /\ UNCHANGED <<loads, faults>>
    <2>1. \A d \in Cursor : (page[d] = NoPage /\ \A q \in Readers : at'[q] = "store" => cursor'[q] # d)
              => loads[d] <= faults
      <3>1. \A q \in Readers : at[q] # "store"
        BY <1>0, <1>3 DEF PagesInHand
      <3> QED
        BY <1>0, <3>1 DEF LoadsAreCounted
    <2>2. page \in [Cursor -> PageRecord \cup {NoPage}]
      BY <1>0 DEF PagesTypes
    <2> HIDE DEF g
    <2> QED
      BY <1>0, <1>1, <1>2, <1>3, <2>1, <2>2, ReadersAreAnswered
  <1>4. CASE Fault /\ Leave({p} \cup Followers(p)) /\ UNCHANGED loads
    <2>1. /\ {p} \cup Followers(p) \in SUBSET Readers
          /\ \A q \in {p} \cup Followers(p) : at[q] # "store"
      BY <1>0 DEF Followers
    <2>2. faults' \in Nat /\ faults <= faults'
      BY <1>1, <1>4 DEF Fault
    <2> QED
      BY <1>0, <1>4, <2>1, <2>2, ReadersLeave
  <1>5. CASE /\ Cached
             /\ got' = [got EXCEPT ![p] = g]
             /\ loads' = [loads EXCEPT ![c] = @ + 1]
             /\ GotoStep(p, "store")
             /\ UNCHANGED <<session, faults>>
    <2> USE DEF session
    <2> HIDE DEF g
    <2>1. /\ got'[p] = g /\ at'[p] = "store" /\ loads'[c] = loads[c] + 1
          /\ \A q \in Readers \ {p} : got'[q] = got[q] /\ at'[q] = at[q]
          /\ \A d \in Cursor \ {c} : loads'[d] = loads[d]
      BY <1>0, <1>1, <1>5 DEF PagesTypes, GotoStep
    <2>2. PagesTypes'
      <3>1. got' \in [Readers -> PageRecord \cup {NoPage}]
        BY <1>0, <1>2, <1>5 DEF PagesTypes
      <3>2. loads' \in [Cursor -> Nat]
        BY <1>0, <1>1, <1>5 DEF PagesTypes
      <3>3. at' \in [Readers -> ReadingSteps]
        BY <1>0, <1>5 DEF PagesTypes, GotoStep, ReadingSteps
      <3> QED
        BY <1>0, <1>5, <3>1, <3>2, <3>3 DEF PagesTypes
    <2>3. PagesInHand'
      BY <1>0, <1>2, <1>5, <2>1 DEF PagesInHand, Cached
    <2>4. PagesAreRight'
      <3>1. ASSUME NEW q \in Readers, got'[q] # NoPage PROVE PageIsFor(cursor[q], got'[q])
        BY <1>0, <1>2, <2>1, <3>1 DEF PagesAreRight
      <3> QED
        BY <1>0, <1>5, <3>1 DEF PagesAreRight
    <2>5. Offered' \subseteq Offered
      <3>1. \A d \in Cursor : page'[d] # NoPage => page'[d].known \subseteq Offered
        BY <1>0, OfferedHolds
      <3>2. \A q \in Readers : got'[q] # NoPage => got'[q].known \subseteq Offered
        BY <1>0, <1>2, <2>1, OfferedHolds
      <3>3. listed' \subseteq Offered
        BY <1>0, OfferedHolds
      <3> QED
        BY <3>1, <3>2, <3>3, OfferedShrinks
    <2>6. IdsAreOnce'
      BY <1>0, <2>5, IdsStay
    <2>7. SessionsAreSound'
      <3>1. ASSUME NEW q \in Readers PROVE SessionIsSound(q)'
        <4>1. at'[q] = "done" <=> at[q] = "done"
          BY <1>0, <2>1
        <4> QED
          BY <1>0, <1>5, <2>5, <4>1, SessionsStay
      <3> QED
        BY <3>1 DEF SessionsAreSound
    <2>8. OneLeader'
      <3>1. ASSUME NEW q \in Readers, Leading(q)' PROVE Leading(q) /\ cursor'[q] = cursor[q]
        BY <1>0, <1>5, <2>1, <3>1 DEF Leading
      <3> QED
        BY <1>0, <3>1, LeadersStay
    <2>9. LoadsAreCounted'
      <3>1. loads[c] <= faults
        BY <1>0 DEF LoadsAreCounted
      <3>2. \A d \in Cursor : loads'[d] <= 1 + faults
        BY <1>0, <1>1, <2>1, <3>1 DEF LoadsAreCounted
      <3>3. ASSUME NEW d \in Cursor, page[d] = NoPage, \A q \in Readers : at'[q] = "store" => cursor[q] # d
            PROVE  loads'[d] <= faults
        <4>1. d # c /\ \A q \in Readers : at[q] = "store" => cursor[q] # d
          BY <1>0, <2>1, <3>3
        <4> QED
          BY <1>0, <2>1, <3>3, <4>1 DEF LoadsAreCounted
      <3>4. ASSUME NEW q \in Readers, at'[q] = "query"
            PROVE  loads'[cursor[q]] <= faults
        <4>1. q # p /\ at[q] = "query" /\ cursor[q] \in Cursor
          BY <1>0, <2>1, <3>4 DEF PagesTypes
        <4>2. cursor[q] # c
          BY <1>0, <1>5, <4>1 DEF OneLeader, Leading
        <4> QED
          BY <1>0, <2>1, <4>1, <4>2 DEF LoadsAreCounted
      <3> QED
        BY <1>0, <1>5, <3>2, <3>3, <3>4 DEF LoadsAreCounted
    <2> QED
      BY <2>2, <2>3, <2>4, <2>6, <2>7, <2>8, <2>9 DEF PagesIInv
  <1> QED
    BY <1>3, <1>4, <1>5 DEF QueryPage

LEMMA PageIsStored ==
    ASSUME PagesIInv, NEW p \in Readers, StorePage(p)
    PROVE  PagesIInv'
  <1>0. /\ PagesTypes /\ PagesInHand /\ PagesAreRight /\ OneLeader /\ LoadsAreCounted
        /\ at[p] = "store" /\ UNCHANGED <<list, loads, changes>>
    BY DEF PagesIInv, StorePage
  <1> DEFINE c == cursor[p]
             g == got[p]
             ps == {p} \cup Followers(p)
  <1>1. faults \in Nat /\ c \in Cursor /\ page \in [Cursor -> PageRecord \cup {NoPage}]
    BY <1>0 DEF PagesTypes
  <1>2. g \in PageRecord /\ g # NoPage /\ PageIsFor(c, g) /\ g.known \subseteq Offered
    BY <1>0, OfferedHolds DEF PagesInHand, PagesAreRight
  <1>3. ps \in SUBSET Readers /\ \A q \in ps : cursor[q] = c /\ at[q] \in {"wait", "store"}
    BY <1>0 DEF Followers
  <1>4. Answer(ps, g)
    BY DEF StorePage
  <1>5. Cached
    BY <1>0 DEF PagesInHand
  <1>6. \/ page' = [page EXCEPT ![c] = g] /\ UNCHANGED faults
        \/ Fault /\ UNCHANGED page
    BY DEF StorePage
  <1> HIDE DEF g, c
  <1>7. faults' \in Nat /\ faults <= faults'
    BY <1>1, <1>6 DEF Fault
  <1>8. /\ page' \in [Cursor -> PageRecord \cup {NoPage}]
        /\ \A d \in Cursor : page'[d] # page[d] => d = c /\ page'[d] = g
    BY <1>1, <1>2, <1>6
  <1>9. ASSUME NEW d \in Cursor, page'[d] = NoPage, \A q \in Readers : at'[q] = "store" => cursor'[q] # d
        PROVE  loads[d] <= faults'
    <2>0. loads[d] \in Nat
      BY <1>0 DEF PagesTypes
    <2>1. CASE d = c
      <3>1. Fault
        BY <1>1, <1>2, <1>6, <1>9, <2>1
      <3> QED
        BY <1>0, <1>1, <2>0, <3>1 DEF LoadsAreCounted, Fault
    <2>2. CASE d # c
      <3>1. page[d] = NoPage
        BY <1>8, <1>9, <2>2
      <3>2. ASSUME NEW q \in Readers, at[q] = "store" PROVE cursor[q] # d
        <4>1. CASE q \in ps
          BY <1>3, <2>2, <4>1
        <4>2. CASE q \notin ps
          BY <1>4, <1>9, <3>2, <4>2 DEF Answer
        <4> QED
          BY <4>1, <4>2
      <3> QED
        BY <1>0, <1>1, <1>7, <2>0, <3>1, <3>2 DEF LoadsAreCounted
    <2> QED
      BY <2>1, <2>2
  <1> HIDE DEF ps
  <1> QED
    BY <1>0, <1>1, <1>2, <1>3, <1>4, <1>5, <1>7, <1>8, <1>9, ReadersAreAnswered

LEMMA SessionEnds ==
    ASSUME PagesIInv, NEW p \in Readers, End(p)
    PROVE  PagesIInv'
  <1>1. faults \in Nat
    BY DEF PagesIInv, PagesTypes
  <1>2. \A q \in {p} : at[q] # "store"
    BY DEF End
  <1> QED
    BY <1>1, <1>2, ReadersLeave DEF End

LEMMA PagesBegin == PagesInit => PagesIInv
  <1> SUFFICES ASSUME PagesInit PROVE PagesIInv
    OBVIOUS
  <1> USE DEF PagesInit
  <1>1. PICK timeOf \in [used -> Times] : listed = {<<timeOf[i], i>> : i \in used}
    OBVIOUS
  <1>2. used \subseteq Ids
    OBVIOUS
  <1>3. listed \subseteq Everything /\ \A r \in listed : r[2] \in used /\ r = <<timeOf[r[2]], r[2]>>
    BY <1>1, <1>2 DEF Everything
  <1>4. PagesTypes
    BY <1>2, <1>3, EverythingIsRows, EmptySeq DEF PagesTypes, ReadingSteps
  <1>5. Offered = listed
    BY <1>3 DEF Offered
  <1>6. PagesInHand /\ PagesAreRight
    BY DEF PagesInHand, PagesAreRight
  <1>7. IdsAreOnce
    BY <1>3, <1>5 DEF IdsAreOnce, OneOfEachId
  <1>8. SessionsAreSound
    <2> SUFFICES ASSUME NEW p \in Readers PROVE SessionIsSound(p)
      BY DEF SessionsAreSound
    <2>1. ToSet(<<>>) = {} /\ Len(<<>>) = 0 /\ 1..0 = {}
      BY DEF ToSet
    <2>2. Descending(<<>>) /\ IdsDiffer(<<>>) /\ NoneMovesBack(<<>>, Offered, used)
      BY <2>1 DEF Descending, IdsDiffer, NoneMovesBack
    <2>3. ShownOrBehind(Everything, <<>>, Start) /\ NextCursor(<<>>) = Start
      BY DEF ShownOrBehind, After, NextCursor
    <2> QED
      BY <2>2, <2>3 DEF SessionIsSound
  <1>9. OneLeader /\ LoadsAreCounted
    BY EverythingIsRows DEF OneLeader, LoadsAreCounted, Leading
  <1> QED
    BY <1>4, <1>6, <1>7, <1>8, <1>9 DEF PagesIInv

LEMMA PagesSteps == PagesIInv /\ [PagesNext]_pagesVars => PagesIInv'
  <1> SUFFICES ASSUME PagesIInv, [PagesNext]_pagesVars
               PROVE  PagesIInv'
    OBVIOUS
  <1>1. CASE UNCHANGED pagesVars
    <2>1. PagesTypes' /\ PagesInHand' /\ PagesAreRight' /\ OneLeader' /\ LoadsAreCounted'
      BY <1>1 DEF pagesVars, PagesIInv, PagesTypes, PagesInHand, PagesAreRight, OneLeader,
                  LoadsAreCounted, Cached, Leading
    <2>2. Offered' = Offered
      BY <1>1 DEF pagesVars, Offered
    <2>3. IdsAreOnce' /\ SessionsAreSound'
      BY <1>1, <2>2 DEF pagesVars, PagesIInv, IdsAreOnce, SessionsAreSound, SessionIsSound
    <2> QED
      BY <2>1, <2>3 DEF PagesIInv
  <1>2. CASE AddRow \/ RemoveRow \/ MoveRow \/ Expire
    BY <1>2, RowIsAdded, RowIsRemoved, RowIsMoved, PageExpires
  <1>3. ASSUME NEW p \in Readers,
               \/ BeginSession(p) \/ GetPage(p) \/ Join(p) \/ Recheck(p) \/ QueryPage(p) \/ StorePage(p)
               \/ Continue(p) \/ End(p)
        PROVE  PagesIInv'
    BY <1>3, SessionBegins, PageIsGot, ReaderJoins, LeaderRechecks, PageIsQueried, PageIsStored,
       SessionEnds
  <1> QED
    BY <1>1, <1>2, <1>3 DEF PagesNext

LEMMA PagesInvariant == PagesSpec => []PagesIInv
  BY PagesBegin, PagesSteps, PTL DEF PagesSpec

\* A sequence in which no id comes twice has as many ids as rows.
LEMMA IdsAreCounted ==
    ASSUME NEW s \in Seq(Everything), IdsDiffer(s)
    PROVE  Cardinality({r[2] : r \in ToSet(s)}) = Len(s)
  <1> DEFINE n == Len(s)
             ids == {r[2] : r \in ToSet(s)}
             f == [i \in 1..n |-> s[i][2]]
  <1>1. n \in Nat /\ IsFiniteSet(1..n) /\ Cardinality(1..n) = n
    <2>1. n \in Nat
      OBVIOUS
    <2> HIDE DEF n
    <2> QED
      BY <2>1, FS_Interval
  <1>2. f \in Surjection(1..n, ids)
    <2>1. \A i \in 1..n : f[i] \in ids
      BY DEF ToSet
    <2>2. f \in [1..n -> ids]
      BY <2>1
    <2>3. \A x \in ids : \E i \in 1..n : f[i] = x
      BY DEF ToSet
    <2> QED
      BY <2>2, <2>3 DEF Surjection
  <1>3. f \in Injection(1..n, ids)
    <2>1. f \in [1..n -> ids] /\ \A i, j \in 1..n : f[i] = f[j] => i = j
      <3>1. \A i, j \in 1..n : i < j => f[i] # f[j]
        BY DEF IdsDiffer
      <3>2. f \in [1..n -> ids]
        BY <1>2 DEF Surjection
      <3> HIDE DEF f
      <3>3. \A i, j \in 1..n : f[i] = f[j] => i = j
        BY <1>1, <3>1
      <3> QED
        BY <3>2, <3>3
    <2> HIDE DEF f, ids
    <2> QED
      BY <2>1 DEF Injection, IsInjective
  <1> HIDE DEF f, ids
  <1> QED
    BY <1>1, <1>2, <1>3, FS_Surjection DEF ids

(* A reader of one session sees no row twice and, at the end, has seen every     *)
(* row that was there on each of its pages, whatever is added, removed or moved  *)
(* in between and whether pages come from the cache or not (loadFeedPage and the *)
(* cursors of the five lists): for any readers, rows, times and page size.       *)
THEOREM RowsAreShownOnce == PagesSpec => []EveryRowOnce
  <1>1. PagesIInv => EveryRowOnce
    <2> SUFFICES ASSUME PagesIInv, NEW p \in Readers
                 PROVE  NothingTwice(p) /\ NothingSkipped(p)
      BY DEF EveryRowOnce
    <2>1. SessionIsSound(p) /\ shown[p] \in Seq(Everything)
      BY DEF PagesIInv, SessionsAreSound, PagesTypes
    <2> QED
      BY <2>1, IdsAreCounted DEF SessionIsSound, NothingTwice, NothingSkipped
  <1> QED
    BY <1>1, PagesInvariant, PTL

(* A page is loaded once, and once more for each call that failed: the single    *)
(* flight of loadFeedPage, with its second look into the cache, lets no two      *)
(* readers load it side by side or after each other.                             *)
THEOREM PagesAreLoadedOnce == PagesSpec => []PageLoadedOnce
  <1>1. PagesIInv => PageLoadedOnce
    BY DEF PagesIInv, LoadsAreCounted, PageLoadedOnce
  <1> QED
    BY <1>1, PagesInvariant, PTL

--------------------------------------------------------------------------------
(* Playback.                                                                *)

LEMMA ReportsBegin == PlaybackInit => ReportIInv
  BY DEF PlaybackInit, ReportIInv, ReportTypes, KeysAreUnique, AnswersAreLogged, AnswerIsLogged, SomeKey, NoReport

\* A step that leaves the log and the reports alone.
LEMMA ReportsStay ==
    ASSUME ReportIInv, UNCHANGED <<log, report>>
    PROVE  ReportIInv'
  BY DEF ReportIInv, ReportTypes, KeysAreUnique, AnswersAreLogged, AnswerIsLogged, RowsWith

\* What was said of a request whose report does not change.
LEMMA ReportKeptIsLogged ==
    ASSUME NEW q \in Reporters, UNCHANGED log, report'[q] = report[q], AnswersAreLogged
    PROVE  AnswerIsLogged(q)'
  <1>1. AnswerIsLogged(q)
    BY DEF AnswersAreLogged
  <1>2. report[q].at = "existing" => RowsWith(report[q].key)' # {}
    <2>1. RowsWith(report[q].key)' = RowsWith(report[q].key)
      BY DEF RowsWith
    <2> QED
      BY <1>1, <2>1 DEF AnswerIsLogged
  <1> QED
    BY <1>1, <1>2 DEF AnswerIsLogged

\* A step of one request that logs nothing and answers nothing.
LEMMA ReportGoesOn ==
    ASSUME ReportIInv, NEW r \in Reporters, report[r].at # "answered", UNCHANGED log,
           NEW a \in {"insert", "existing", "failed"}, NEW k \in SomeKey,
           report' = [report EXCEPT ![r].at = a, ![r].key = k],
           a = "existing" => RowsWith(k) # {}
    PROVE  ReportIInv'
  <1> USE DEF ReportIInv
  <1>1. /\ \A q \in Reporters \ {r} : report'[q] = report[q]
        /\ report'[r] = [report[r] EXCEPT !.at = a, !.key = k]
    BY DEF ReportTypes
  <1>2. ReportTypes'
    BY DEF ReportTypes
  <1>3. KeysAreUnique'
    BY DEF KeysAreUnique
  <1>4. ASSUME NEW q \in Reporters
        PROVE  AnswerIsLogged(q)'
    <2>1. CASE q = r
      <3>1. report'[r].at = a /\ report'[r].key = k /\ report'[r].created = report[r].created
        BY <1>1 DEF ReportTypes
      <3>2. a = "existing" => RowsWith(report[r].key)' # {}
        BY <1>1, <3>1 DEF RowsWith, ReportTypes
      <3> QED
        BY <2>1, <3>1, <3>2 DEF AnswersAreLogged, AnswerIsLogged
    <2>2. CASE q # r
      BY <1>1, <2>2, ReportKeptIsLogged
    <2> QED
      BY <2>1, <2>2
  <1> QED
    BY <1>2, <1>3, <1>4 DEF AnswersAreLogged

\* The row that is inserted: its key is on no other row.
LEMMA RowIsInserted ==
    ASSUME ReportIInv, NEW r \in Reporters, RowsWith(report[r].key) = {},
           log' = Append(log, [key |-> report[r].key, by |-> r])
    PROVE  /\ log' \in Seq([key : SomeKey, by : Reporters])
           /\ KeysAreUnique'
           /\ \A i \in DOMAIN log : i \in DOMAIN log' /\ log'[i] = log[i]
           /\ Len(log) + 1 \in DOMAIN log'
           /\ log'[Len(log) + 1] = [key |-> report[r].key, by |-> r]
  <1> DEFINE entry == [key |-> report[r].key, by |-> r]
  <1>1. log \in Seq([key : SomeKey, by : Reporters]) /\ entry \in [key : SomeKey, by : Reporters]
    BY DEF ReportIInv, ReportTypes
  <1> HIDE DEF entry
  <1>2. /\ log' \in Seq([key : SomeKey, by : Reporters])
        /\ DOMAIN log = 1..Len(log) /\ DOMAIN log' = 1..(Len(log) + 1) /\ Len(log) \in Nat
        /\ \A i \in 1..Len(log) : log'[i] = log[i]
        /\ log'[Len(log) + 1] = entry
    BY <1>1, AppendProperties DEF entry
  <1>3. KeysAreUnique'
    <2> SUFFICES ASSUME NEW i \in DOMAIN log', NEW j \in DOMAIN log',
                        log'[i].key = log'[j].key, log'[i].key # NoReportKey
                 PROVE  i = j
      BY DEF KeysAreUnique
    <2>1. CASE i \in 1..Len(log) /\ j \in 1..Len(log)
      BY <1>2, <2>1 DEF KeysAreUnique, ReportIInv
    <2>2. \A l \in 1..Len(log) : report[r].key # NoReportKey => log[l].key # report[r].key
      BY <1>2 DEF RowsWith
    <2>3. entry.key = report[r].key
      BY DEF entry
    <2> QED
      BY <1>2, <2>1, <2>2, <2>3
  <1> QED
    BY <1>2, <1>3 DEF entry

LEMMA RowIsInsertedUnanswered ==
    ASSUME ReportIInv, NEW r \in Reporters, report[r].at = "insert",
           RowsWith(report[r].key) = {},
           log' = Append(log, [key |-> report[r].key, by |-> r]),
           NEW t \in [at : {"failed", "answered"}, key : SomeKey, row : Nat, created : BOOLEAN],
           t.key = report[r].key,
           \/ t.at = "failed" /\ ~t.created
           \/ t.at = "answered" /\ t.created /\ t.row = Len(log) + 1,
           report' = [report EXCEPT ![r] = t]
    PROVE  ReportIInv'
  <1> USE DEF ReportIInv
  <1>1. (\A q \in Reporters \ {r} : report'[q] = report[q]) /\ report'[r] = t
    BY DEF ReportTypes
  <1>2. ReportTypes' /\ KeysAreUnique'
    <2>1. t \in [at : {"idle", "insert", "existing", "failed", "answered"},
                 key : SomeKey, row : Nat, created : BOOLEAN]
      OBVIOUS
    <2> QED
      BY <2>1, RowIsInserted DEF ReportTypes
  <1>3. ASSUME NEW q \in Reporters
        PROVE  AnswerIsLogged(q)'
    <2>1. CASE q = r
      BY <1>1, <2>1, RowIsInserted DEF AnswerIsLogged
    <2>2. CASE q # r
      <3>1. \A i \in DOMAIN log : i \in DOMAIN log' /\ log'[i] = log[i]
        BY RowIsInserted
      <3>2. report'[q] = report[q]
        BY <1>1, <2>2
      <3>3. report[q].at = "existing" => RowsWith(report[q].key)' # {}
        BY <3>1, <3>2 DEF AnswersAreLogged, AnswerIsLogged, RowsWith
      <3> QED
        BY <3>1, <3>2, <3>3 DEF AnswersAreLogged, AnswerIsLogged
    <2> QED
      BY <2>1, <2>2
  <1> QED
    BY <1>2, <1>3 DEF AnswersAreLogged

\* The one row with a key.
LEMMA ExistingIsThere ==
    ASSUME ReportIInv, NEW k, RowsWith(k) # {}
    PROVE  /\ Max(RowsWith(k)) \in DOMAIN log
           /\ log[Max(RowsWith(k))].key = k
           /\ k # NoReportKey
           /\ Max(RowsWith(k)) \in Nat
  <1>1. k # NoReportKey /\ RowsWith(k) = {i \in DOMAIN log : log[i].key = k}
    BY DEF RowsWith
  <1>2. PICK i \in RowsWith(k) : TRUE
    OBVIOUS
  <1>3. \A j \in RowsWith(k) : j = i
    BY <1>1, <1>2 DEF ReportIInv, KeysAreUnique
  <1>4. DOMAIN log \subseteq Nat
    BY DEF ReportIInv, ReportTypes
  <1>5. Max(RowsWith(k)) = i
    BY <1>1, <1>2, <1>3, <1>4 DEF Max
  <1> QED
    BY <1>1, <1>2, <1>4, <1>5

LEMMA ReportIsAnswered ==
    ASSUME ReportIInv, NEW r \in Reporters, report[r].at = "existing", UNCHANGED log,
           report' = [report EXCEPT ![r].at = "answered", ![r].row = Max(RowsWith(report[r].key))]
    PROVE  ReportIInv'
  <1> USE DEF ReportIInv
  <1> DEFINE m == Max(RowsWith(report[r].key))
  <1>1. /\ m \in DOMAIN log /\ m \in Nat
        /\ log[m].key = report[r].key
        /\ report[r].key # NoReportKey
        /\ ~report[r].created
    <2>1. RowsWith(report[r].key) # {} /\ ~report[r].created
      BY DEF AnswersAreLogged, AnswerIsLogged
    <2> QED
      BY <2>1, ExistingIsThere
  <1>2. report' = [report EXCEPT ![r].at = "answered", ![r].row = m]
    OBVIOUS
  <1> HIDE DEF m
  <1>3. /\ \A q \in Reporters \ {r} : report'[q] = report[q]
        /\ report'[r] = [report[r] EXCEPT !.at = "answered", !.row = m]
    BY <1>2 DEF ReportTypes
  <1>4. ReportTypes'
    <2>1. [report[r] EXCEPT !.at = "answered", !.row = m]
             \in [at : {"idle", "insert", "existing", "failed", "answered"},
                  key : SomeKey, row : Nat, created : BOOLEAN]
      BY <1>1 DEF ReportTypes
    <2>2. log' \in Seq([key : SomeKey, by : Reporters])
      BY DEF ReportTypes
    <2>3. report' \in [Reporters -> [at : {"idle", "insert", "existing", "failed", "answered"},
                                    key : SomeKey, row : Nat, created : BOOLEAN]]
      BY <1>2, <1>3, <2>1 DEF ReportTypes
    <2> QED
      BY <2>2, <2>3 DEF ReportTypes
  <1>5. KeysAreUnique'
    BY DEF KeysAreUnique
  <1>6. ASSUME NEW q \in Reporters
        PROVE  AnswerIsLogged(q)'
    <2>1. CASE q = r
      <3>1. /\ report'[r].at = "answered" /\ report'[r].row = m
            /\ report'[r].key = report[r].key /\ report'[r].created = report[r].created
        BY ZenonT(60), <1>3 DEF ReportTypes
      <3> QED
        BY <1>1, <2>1, <3>1 DEF AnswerIsLogged
    <2>2. CASE q # r
      BY <1>3, <2>2, ReportKeptIsLogged
    <2> QED
      BY <2>1, <2>2
  <1> QED
    BY <1>4, <1>5, <1>6 DEF AnswersAreLogged

LEMMA ReportSteps == ReportIInv /\ [PlaybackNext]_playbackVars => ReportIInv'
  <1> SUFFICES ASSUME ReportIInv, [PlaybackNext]_playbackVars
               PROVE  ReportIInv'
    OBVIOUS
  <1>1. CASE UNCHANGED playbackVars
    BY <1>1, ReportsStay DEF playbackVars
  <1>2. CASE GetConfig \/ AskPreload \/ FindCurrentVideo \/ ListPreloadVideos \/ PreloadFails
             \/ WatchNext \/ PublishReel \/ WithdrawReel
    <2>1. UNCHANGED <<log, report>>
      BY <1>2 DEF GetConfig, AskPreload, FindCurrentVideo, ListPreloadVideos, PreloadFails,
                  WatchNext, PublishReel, WithdrawReel
    <2> QED
      BY <2>1, ReportsStay
  <1>3. ASSUME NEW r \in Reporters, SendReport(r)
        PROVE  ReportIInv'
    <2>1. PICK k \in SomeKey : report' = [report EXCEPT ![r].at = "insert", ![r].key = k]
      BY <1>3 DEF SendReport, SomeKey
    <2> QED
      BY <1>3, <2>1, ReportGoesOn DEF SendReport
  <1>4. ASSUME NEW r \in Reporters, Resend(r)
        PROVE  ReportIInv'
    <2>1. report[r].key \in SomeKey
      BY DEF ReportIInv, ReportTypes
    <2>2. report' = [report EXCEPT ![r].at = "insert", ![r].key = report[r].key]
      BY <1>4 DEF Resend, ReportIInv, ReportTypes
    <2> QED
      BY <1>4, <2>1, <2>2, ReportGoesOn DEF Resend
  <1>5. ASSUME NEW r \in Reporters, FindExistingQoS(r)
        PROVE  ReportIInv'
    <2>1. CASE report' = [report EXCEPT ![r].at = "answered", ![r].row = Max(RowsWith(report[r].key))]
      BY <1>5, <2>1, ReportIsAnswered DEF FindExistingQoS
    <2>2. CASE report' = [report EXCEPT ![r].at = "failed"]
      <3>1. report[r].key \in SomeKey
        BY DEF ReportIInv, ReportTypes
      <3>2. report' = [report EXCEPT ![r].at = "failed", ![r].key = report[r].key]
        BY <2>2 DEF ReportIInv, ReportTypes
      <3> QED
        BY <1>5, <3>1, <3>2, ReportGoesOn DEF FindExistingQoS
    <2> QED
      BY <1>5, <2>1, <2>2 DEF FindExistingQoS
  <1>6. ASSUME NEW r \in Reporters, CreateQoSReport(r)
        PROVE  ReportIInv'
    <2> DEFINE inserted == log' = Append(log, [key |-> report[r].key, by |-> r])
               Becomes(t) == report' = [report EXCEPT ![r] = t]
               answered == [report[r] EXCEPT !.at = "answered", !.row = Len(log) + 1, !.created = TRUE]
               failed == [report[r] EXCEPT !.at = "failed"]
    <2>1. /\ report[r].at = "insert" /\ ~report[r].created
          /\ report[r].key \in SomeKey
      BY <1>6 DEF CreateQoSReport, ReportIInv, ReportTypes, AnswersAreLogged, AnswerIsLogged
    <2>2. \/ RowsWith(report[r].key) = {} /\ inserted /\ Becomes(answered)
          \/ RowsWith(report[r].key) # {} /\ UNCHANGED log
             /\ report' = [report EXCEPT ![r].at = "existing"]
          \/ UNCHANGED log /\ report' = [report EXCEPT ![r].at = "failed"]
          \/ RowsWith(report[r].key) = {} /\ inserted /\ Becomes(failed)
      BY <1>6 DEF CreateQoSReport, ReportIInv, ReportTypes
    <2>3. Len(log) \in Nat
      BY DEF ReportIInv, ReportTypes
    <2>4. ASSUME RowsWith(report[r].key) = {}, inserted, Becomes(answered)
          PROVE  ReportIInv'
      <3>1. /\ answered \in [at : {"failed", "answered"}, key : SomeKey, row : Nat, created : BOOLEAN]
            /\ answered.key = report[r].key /\ answered.at = "answered" /\ answered.created = TRUE
            /\ answered.row = Len(log) + 1
        <4>1. report[r] \in [at : {"idle", "insert", "existing", "failed", "answered"},
                             key : SomeKey, row : Nat, created : BOOLEAN]
          BY DEF ReportIInv, ReportTypes
        <4>2. Len(log) + 1 \in Nat
          BY <2>3
        <4> QED
          BY <4>1, <4>2
      <3> HIDE DEF answered
      <3> QED
        BY <2>1, <2>4, <3>1, RowIsInsertedUnanswered
    <2>5. ASSUME RowsWith(report[r].key) = {}, inserted, Becomes(failed)
          PROVE  ReportIInv'
      <3>1. /\ failed \in [at : {"failed", "answered"}, key : SomeKey, row : Nat, created : BOOLEAN]
            /\ failed.key = report[r].key /\ failed.at = "failed" /\ ~failed.created
        BY <2>1 DEF ReportIInv, ReportTypes
      <3> HIDE DEF failed
      <3> QED
        BY <2>1, <2>5, <3>1, RowIsInsertedUnanswered
    <2>6. ASSUME NEW a \in {"existing", "failed"}, UNCHANGED log,
                 report' = [report EXCEPT ![r].at = a], a = "existing" => RowsWith(report[r].key) # {}
          PROVE  ReportIInv'
      <3>1. report' = [report EXCEPT ![r].at = a, ![r].key = report[r].key]
        BY <2>6 DEF ReportIInv, ReportTypes
      <3> QED
        BY <2>1, <2>6, <3>1, ReportGoesOn
    <2> QED
      BY <2>2, <2>4, <2>5, <2>6
  <1> QED
    BY <1>1, <1>2, <1>3, <1>4, <1>5, <1>6 DEF PlaybackNext

LEMMA ReportsAreSound == ReportIInv => ReportedOnce
  <1> SUFFICES ASSUME ReportIInv PROVE ReportedOnce
    OBVIOUS
  <1>1. ASSUME NEW r \in Reporters, NEW s \in Reporters,
               report[r].at = "answered", report[s].at = "answered", r # s
        PROVE  IF report[r].key = report[s].key /\ report[r].key # NoReportKey
               THEN report[r].row = report[s].row /\ ~(report[r].created /\ report[s].created)
               ELSE report[r].row # report[s].row
    <2>1. /\ report[r].row \in DOMAIN log /\ report[s].row \in DOMAIN log
          /\ log[report[r].row].key = report[r].key /\ log[report[s].row].key = report[s].key
          /\ report[r].created => log[report[r].row].by = r
          /\ report[s].created => log[report[s].row].by = s
          /\ report[r].key = NoReportKey => report[r].created
          /\ report[s].key = NoReportKey => report[s].created
      BY <1>1 DEF ReportIInv, AnswersAreLogged, AnswerIsLogged
    <2> QED
      BY <1>1, <2>1 DEF ReportIInv, KeysAreUnique
  <1> QED
    BY <1>1 DEF ReportedOnce, ReportIInv, KeysAreUnique

(* Reports with one key share a row that one of them has created, all others     *)
(* have rows of their own (CreateQoSReport): for any reporters, keys and errors. *)
THEOREM ReportsAreLoggedOnce == PlaybackSpec => []ReportedOnce
  <1>1. PlaybackSpec => []ReportIInv
    BY ReportsBegin, ReportSteps, PTL DEF PlaybackSpec
  <1> QED
    BY <1>1, ReportsAreSound, PTL

-----------------------------------------------------------------------------
\* Loading ahead.

LEMMA ReelsAreRows ==
    /\ AllReels \in SUBSET (Int \X Int)
    /\ IsFiniteSet(AllReels)
    /\ Start \notin AllReels
    /\ Max(Reels) \in Reels
    /\ \A r \in AllReels : r[1] \in Int /\ r[2] \in Nat \ {0}
  <1>1. IsFiniteSet(AllReels)
    BY ReelsAreNumbered, FS_Product DEF AllReels
  <1>2. ASSUME Start \in AllReels
        PROVE  FALSE
    <2>1. PICK t \in PlayTimes, i \in Reels : Start = <<t, i>>
      BY <1>2 DEF AllReels
    <2>2. Len(Start) = 1 /\ Len(<<t, i>>) = 2
      BY DEF Start
    <2> QED
      BY <2>1, <2>2
  <1>3. Reels \subseteq Nat \ {0} /\ PlayTimes \subseteq Int
    <2>1. Cardinality(Reels) \in Nat
      BY ReelsAreNumbered, FS_CardinalityType
    <2> QED
      BY <2>1, ReelsAreNumbered
  <1>4. ASSUME NEW r \in AllReels
        PROVE  r \in Int \X Int /\ r[1] \in Int /\ r[2] \in Nat \ {0}
    <2>1. r[1] \in PlayTimes /\ r[2] \in Reels /\ r = <<r[1], r[2]>>
      BY <1>4 DEF AllReels
    <2>2. r[1] \in Int /\ r[2] \in Nat \ {0}
      BY <1>3, <2>1
    <2> QED
      BY <2>1, <2>2
  <1>5. Max(Reels) \in Reels
    <2> DEFINE n == Cardinality(Reels)
    <2>1. n \in Nat /\ n \in Reels /\ \A i \in Reels : n >= i
      <3>1. n \in Nat
        BY ReelsAreNumbered, FS_CardinalityType
      <3> QED
        BY <3>1, ReelsAreNumbered
    <2> HIDE DEF n
    <2>2. \E x \in Reels : \A i \in Reels : x >= i
      BY <2>1
    <2> QED
      BY <2>2 DEF Max
  <1> QED
    BY <1>1, <1>2, <1>4, <1>5

LEMMA PreloadCountIsNat == \A n \in Int : PreloadCount(n) \in Nat
  <1> SUFFICES ASSUME NEW n \in Int PROVE PreloadCount(n) \in Nat
    OBVIOUS
  <1> QED
    BY SmallerOfTwo DEF PreloadCount, NormalizeLimit

LEMMA PlayBegins == PlaybackInit => PlayIInv
  <1> SUFFICES ASSUME PlaybackInit PROVE PlayIInv
    OBVIOUS
  <1> USE DEF PlaybackInit
  <1>1. reels \subseteq AllReels /\ \A r \in reels : r[1] = r[2] /\ r = <<r[1], r[2]>> /\ r[2] < Max(Reels)
    BY DEF AllReels
  <1>2. player.at = "config" /\ player.ahead = <<>> /\ player.current = 0
    OBVIOUS
  <1>3. PlayTypes
    <2>1. player \in [at : {"config", "watch", "find", "list"}, limit : Int, current : Nat,
                     anchor : AllReels \cup {Start}, ahead : Seq(AllReels)]
      BY EmptySeq
    <2> QED
      BY <1>1, <2>1, EmptySeq DEF PlayTypes
  <1>4. Around = reels
    BY <1>2 DEF Around, ToSet
  <1>5. ReelsKeepTime
    <2>1. Max(Reels) \in Int
      BY ReelsAreRows, ReelsAreNumbered, FS_CardinalityType
    <2>2. \A r \in reels : r[2] # Max(Reels)
      <3>1. \A r \in reels : r[2] \in Int
        BY <1>1, ReelsAreRows
      <3> QED
        BY <1>1, <2>1, <3>1
    <2>3. \A r, s \in reels : r[2] = s[2] => r = s
      BY <1>1
    <2> QED
      BY <1>4, <2>2, <2>3 DEF ReelsKeepTime
  <1>6. PlayerKnowsPlace
    BY <1>2 DEF PlayerKnowsPlace
  <1>7. WatchedInOrder
    BY <1>2 DEF WatchedInOrder
  <1> QED
    BY <1>3, <1>5, <1>6, <1>7 DEF PlayIInv

LEMMA PlayStays ==
    ASSUME PlayIInv, UNCHANGED <<reels, player, watched, astray>>
    PROVE  PlayIInv'
  <1>1. Around' = Around
    BY DEF Around
  <1> QED
    BY <1>1 DEF PlayIInv, PlayTypes, ReelsKeepTime, PlayerKnowsPlace, WatchedInOrder

\* A step of the player that leaves the list loaded ahead and the videos alone.
LEMMA PlayerMoves ==
    ASSUME PlayIInv, UNCHANGED <<reels, watched>>,
           player' \in [at : {"config", "watch", "find", "list"}, limit : Int, current : Nat,
                        anchor : AllReels \cup {Start}, ahead : Seq(AllReels)],
           player'.ahead = player.ahead, player'.current = player.current,
           astray' \in BOOLEAN, astray => astray',
           player'.at # "watch" => player'.ahead = <<>>,
           player'.at # "config", player'.at = "find" => watched # <<>>,
           player'.at = "list" /\ ~astray' => player'.anchor = NextCursor(watched)
    PROVE  PlayIInv'
  <1>1. Around' = Around
    BY DEF Around
  <1>2. PlayTypes' /\ ReelsKeepTime' /\ PlayerKnowsPlace'
    BY <1>1 DEF PlayIInv, PlayTypes, ReelsKeepTime, PlayerKnowsPlace
  <1>3. WatchedInOrder'
    BY DEF PlayIInv, WatchedInOrder
  <1> QED
    BY <1>2, <1>3 DEF PlayIInv

LEMMA PlayConfig ==
    ASSUME PlayIInv, GetConfig
    PROVE  PlayIInv'
  <1>1. PICK configs \in ConfigTables, network \in Networks :
            player' = [player EXCEPT !.at = "watch",
                          !.limit = NormalizeConfig(FindConfig(configs, network)).preload]
    BY DEF GetConfig
  <1> DEFINE entry == FindConfig(configs, network)
             n == NormalizeConfig(entry).preload
  <1>2. entry.preload \in Int
    BY SettingsAreNumbers DEF FindConfig
  <1>3. n \in Nat
    <2> HIDE DEF entry
    <2>1. n = PreloadCount(entry.preload)
      BY DEF NormalizeConfig
    <2> QED
      BY <1>2, <2>1, PreloadCountIsNat
  <1>4. player' = [player EXCEPT !.at = "watch", !.limit = n]
    BY <1>1
  <1> HIDE DEF n
  <1> QED
    <2>1. /\ player \in [at : {"config", "watch", "find", "list"}, limit : Int, current : Nat,
                         anchor : AllReels \cup {Start}, ahead : Seq(AllReels)]
          /\ n \in Int
      BY <1>3 DEF PlayIInv, PlayTypes
    <2>2. player' \in [at : {"config", "watch", "find", "list"}, limit : Int, current : Nat,
                       anchor : AllReels \cup {Start}, ahead : Seq(AllReels)]
      BY <1>4, <2>1
    <2>3. player'.ahead = player.ahead /\ player'.current = player.current /\ player'.at = "watch"
      BY <1>4, <2>1
    <2> QED
      BY <2>2, <2>3, PlayerMoves DEF GetConfig, PlayIInv, PlayTypes

LEMMA PlayAsk ==
    ASSUME PlayIInv, AskPreload
    PROVE  PlayIInv'
  <1> DEFINE l == IF player.current = 0 THEN "list" ELSE "find"
  <1>1. /\ player.at = "watch" /\ player.ahead = <<>>
        /\ player' = [player EXCEPT !.at = l, !.anchor = Start]
        /\ UNCHANGED <<reels, watched, astray>>
    BY DEF AskPreload
  <1>2. /\ player' \in [at : {"config", "watch", "find", "list"}, limit : Int, current : Nat,
                        anchor : AllReels \cup {Start}, ahead : Seq(AllReels)]
        /\ player'.ahead = <<>> /\ player'.current = player.current
        /\ player'.at = l /\ player'.anchor = Start
    BY <1>1 DEF PlayIInv, PlayTypes
  <1>3. player.current = 0 <=> watched = <<>>
    <2> SUFFICES ASSUME watched # <<>> PROVE player.current # 0
      BY DEF PlayIInv, PlayerKnowsPlace
    <2>1. Last(watched) \in AllReels
      <3>1. watched \in Seq(AllReels) /\ Len(watched) \in 1..Len(watched)
        BY EmptySeq, LenProperties DEF PlayIInv, PlayTypes
      <3> QED
        BY <3>1 DEF Last
    <2> QED
      BY <2>1, ReelsAreRows DEF PlayIInv, PlayerKnowsPlace
  <1>4. l = "list" => Start = NextCursor(watched)
    BY <1>3 DEF NextCursor
  <1> QED
    BY <1>1, <1>2, <1>3, <1>4, PlayerMoves DEF PlayIInv, PlayTypes

LEMMA PlayFind ==
    ASSUME PlayIInv, FindCurrentVideo
    PROVE  PlayIInv'
  <1> DEFINE current == {r \in reels : r[2] = player.current}
             anchor == IF current = {} THEN Start ELSE CHOOSE r \in current : TRUE
  <1>1. /\ player.at = "find" /\ player' = [player EXCEPT !.at = "list", !.anchor = anchor]
        /\ astray' = (astray \/ current = {})
        /\ UNCHANGED <<reels, watched>>
    BY DEF FindCurrentVideo
  <1>2. watched # <<>> /\ player.current = Last(watched)[2] /\ player.ahead = <<>>
    BY <1>1 DEF PlayIInv, PlayerKnowsPlace
  <1>3. Last(watched) \in AllReels /\ Last(watched) \in Around
    <2>1. watched \in Seq(AllReels) /\ Len(watched) \in 1..Len(watched)
      BY <1>2, EmptySeq, LenProperties DEF PlayIInv, PlayTypes
    <2> QED
      BY <2>1 DEF Last, Around, ToSet
  <1>4. current # {} => anchor = Last(watched)
    <2> SUFFICES ASSUME current # {} PROVE anchor = Last(watched)
      OBVIOUS
    <2>1. anchor \in current
      OBVIOUS
    <2>2. anchor \in reels /\ anchor[2] = Last(watched)[2]
      BY <1>2, <2>1
    <2> HIDE DEF anchor
    <2>3. anchor \in Around
      BY <2>2 DEF Around
    <2> QED
      BY <1>3, <2>2, <2>3 DEF PlayIInv, ReelsKeepTime
  <1>5. anchor \in AllReels \cup {Start}
    BY <1>3, <1>4
  <1>6. ~astray' => current # {}
    BY <1>1
  <1>7. (astray => astray') /\ astray' \in BOOLEAN
    BY <1>1
  <1> HIDE DEF anchor, current
  <1>8. /\ player' \in [at : {"config", "watch", "find", "list"}, limit : Int, current : Nat,
                        anchor : AllReels \cup {Start}, ahead : Seq(AllReels)]
        /\ player'.ahead = <<>> /\ player'.current = player.current
        /\ player'.at = "list" /\ player'.anchor = anchor
    BY <1>1, <1>2, <1>5 DEF PlayIInv, PlayTypes
  <1>9. NextCursor(watched) = Last(watched)
    BY <1>2 DEF NextCursor
  <1> QED
    BY <1>1, <1>2, <1>4, <1>6, <1>7, <1>8, <1>9, PlayerMoves

LEMMA PlayFails ==
    ASSUME PlayIInv, PreloadFails
    PROVE  PlayIInv'
  <1>1. /\ player' \in [at : {"config", "watch", "find", "list"}, limit : Int, current : Nat,
                        anchor : AllReels \cup {Start}, ahead : Seq(AllReels)]
        /\ player'.ahead = player.ahead /\ player'.current = player.current /\ player'.at = "watch"
    BY DEF PreloadFails, PlayIInv, PlayTypes
  <1> QED
    BY <1>1, PlayerMoves DEF PreloadFails, PlayIInv, PlayTypes

LEMMA PlayLists ==
    ASSUME PlayIInv, ListPreloadVideos
    PROVE  PlayIInv'
  <1> DEFINE items == Query(reels, player.anchor, PreloadCount(player.limit))
             beyond == {r \in reels : After(player.anchor, r)}
  <1>1. /\ player.at = "list" /\ player' = [player EXCEPT !.at = "watch", !.ahead = items]
        /\ UNCHANGED <<reels, watched, astray>>
    BY DEF ListPreloadVideos
  <1>2. /\ items \in Seq(beyond)
        /\ \A i, j \in 1..Len(items) : i < j => Newer(items[i], items[j])
    <2>1. reels \in SUBSET (Int \X Int) /\ IsFiniteSet(reels)
      BY ReelsAreRows, FS_Subset DEF PlayIInv, PlayTypes
    <2>2. PreloadCount(player.limit) \in Nat
      BY PreloadCountIsNat DEF PlayIInv, PlayTypes
    <2> QED
      BY SMTT(30), <2>1, <2>2, QueryGivesFirst
  <1>3. beyond \subseteq reels /\ beyond \subseteq AllReels
    BY DEF PlayIInv, PlayTypes
  <1>b. \A r \in beyond : After(player.anchor, r)
    OBVIOUS
  <1> HIDE DEF items, beyond
  <1>4. items \in Seq(AllReels) /\ ToSet(items) \subseteq beyond
    BY <1>2, <1>3, SeqMonotonic DEF ToSet
  <1>5. /\ player'.at = "watch" /\ player'.ahead = items /\ player'.current = player.current
        /\ player' \in [at : {"config", "watch", "find", "list"}, limit : Int, current : Nat,
                        anchor : AllReels \cup {Start}, ahead : Seq(AllReels)]
    BY <1>1, <1>4 DEF PlayIInv, PlayTypes
  <1>6. PlayTypes'
    BY <1>1, <1>5 DEF PlayIInv, PlayTypes
  <1>7. ReelsKeepTime'
    <2>1. Around' \subseteq Around
      BY <1>1, <1>3, <1>4, <1>5 DEF Around
    <2> QED
      BY <1>1, <2>1 DEF PlayIInv, ReelsKeepTime
  <1>8. PlayerKnowsPlace'
    BY <1>1, <1>5 DEF PlayIInv, PlayerKnowsPlace
  <1>9. WatchedInOrder'
    <2> SUFFICES ASSUME ~astray
                 PROVE  \A i \in 1..Len(watched), j \in 1..Len(items) : Newer(watched[i], items[j])
      BY <1>1, <1>2, <1>5 DEF WatchedInOrder, PlayIInv
    <2> SUFFICES ASSUME NEW i \in 1..Len(watched), NEW j \in 1..Len(items)
                 PROVE  Newer(watched[i], items[j])
      OBVIOUS
    <2> DEFINE n == Len(watched)
    <2>1. watched \in Seq(AllReels) /\ n \in Nat /\ n \in 1..n /\ watched # <<>>
      BY EmptySeq, LenProperties DEF PlayIInv, PlayTypes
    <2>2. player.anchor = watched[n] /\ watched[n] # Start
      <3>1. player.anchor = Last(watched)
        BY <1>1, <2>1 DEF PlayIInv, PlayerKnowsPlace, NextCursor
      <3> QED
        BY <2>1, <3>1, ReelsAreRows DEF Last
    <2>3. items[j] \in beyond
      BY <1>2
    <2>4. Newer(watched[n], items[j])
      BY <1>b, <2>2, <2>3 DEF After, Newer
    <2>5. i = n \/ Newer(watched[i], watched[n])
      BY <2>1 DEF PlayIInv, WatchedInOrder
    <2>6. /\ watched[i][1] \in Int /\ watched[i][2] \in Int
          /\ watched[n][1] \in Int /\ watched[n][2] \in Int
          /\ items[j][1] \in Int /\ items[j][2] \in Int
      <3>1. watched[i] \in AllReels /\ watched[n] \in AllReels /\ items[j] \in AllReels
        BY <1>3, <2>1, <2>3
      <3> QED
        BY <3>1, ReelsAreRows
    <2> QED
      BY <2>4, <2>5, <2>6 DEF Newer
  <1> QED
    BY <1>6, <1>7, <1>8, <1>9 DEF PlayIInv

\* The next video is the first of those loaded ahead.
LEMMA PlayNext ==
    ASSUME PlayIInv, WatchNext
    PROVE  PlayIInv'
  <1> DEFINE ahead == player.ahead
             head == Head(ahead)
             rest == Tail(ahead)
             n == Len(watched)
             m == Len(ahead)
  <1>0. PlayTypes /\ ReelsKeepTime /\ PlayerKnowsPlace /\ WatchedInOrder
    BY DEF PlayIInv
  <1>1. /\ player.at = "watch" /\ ahead # <<>>
        /\ player' = [player EXCEPT !.current = head[2], !.ahead = rest]
        /\ watched' = Append(watched, head)
        /\ UNCHANGED <<reels, astray>>
    BY DEF WatchNext
  <1>2. ahead \in Seq(AllReels) /\ watched \in Seq(AllReels) /\ n \in Nat /\ m \in Nat
    BY <1>0 DEF PlayTypes
  <1>a. \A i, j \in 1..m : ~astray /\ i < j => Newer(ahead[i], ahead[j])
    BY <1>0 DEF WatchedInOrder
  <1>b. \A i, j \in 1..n : ~astray /\ i < j => Newer(watched[i], watched[j])
    BY <1>0 DEF WatchedInOrder
  <1>c. \A i \in 1..n, j \in 1..m : ~astray => Newer(watched[i], ahead[j])
    BY <1>0 DEF WatchedInOrder
  <1>d. ToSet(ahead) \subseteq Around /\ ToSet(watched) \subseteq Around
    BY DEF Around
  <1>e. /\ player' = [player EXCEPT !.current = head[2], !.ahead = rest]
        /\ player \in [at : {"config", "watch", "find", "list"}, limit : Int, current : Nat,
                       anchor : AllReels \cup {Start}, ahead : Seq(AllReels)]
    BY <1>0, <1>1 DEF PlayTypes
  <1> HIDE DEF ahead
  <1>3. /\ head \in AllReels /\ head = ahead[1] /\ 1 \in 1..m
        /\ rest \in Seq(AllReels) /\ Len(rest) = m - 1 /\ \A i \in 1..m - 1 : rest[i] = ahead[i + 1]
    BY <1>1, <1>2, HeadTailProperties
  <1>4. /\ watched' \in Seq(AllReels) /\ Len(watched') = n + 1
        /\ (\A i \in 1..n : watched'[i] = watched[i]) /\ watched'[n + 1] = head
    BY <1>1, <1>2, <1>3, AppendProperties
  <1> HIDE DEF head, rest, n, m
  <1>5. head[2] \in Nat
    BY <1>3, ReelsAreRows
  <1>6. /\ player'.at = "watch" /\ player'.ahead = rest /\ player'.current = head[2]
        /\ player' \in [at : {"config", "watch", "find", "list"}, limit : Int, current : Nat,
                        anchor : AllReels \cup {Start}, ahead : Seq(AllReels)]
    BY <1>1, <1>3, <1>5, <1>e
  <1>7. PlayTypes'
    BY <1>0, <1>1, <1>4, <1>6 DEF PlayTypes
  <1>8. ReelsKeepTime'
    <2>1. ToSet(rest) \subseteq ToSet(ahead) /\ head \in ToSet(ahead)
      <3>1. \A i \in 1..m - 1 : i + 1 \in 1..m /\ rest[i] = ahead[i + 1]
        BY <1>2, <1>3
      <3>2. DOMAIN rest = 1..m - 1 /\ DOMAIN ahead = 1..m
        BY <1>2, <1>3 DEF m
      <3> QED
        BY <1>3, <3>1, <3>2 DEF ToSet
    <2>2. ToSet(watched') \subseteq ToSet(watched) \cup {head}
      <3>1. DOMAIN watched' = 1..n + 1 /\ DOMAIN watched = 1..n
        BY <1>2, <1>4 DEF n
      <3>2. \A i \in 1..n + 1 : watched'[i] = head \/ (i \in 1..n /\ watched'[i] = watched[i])
        BY <1>2, <1>4
      <3> QED
        BY <3>1, <3>2 DEF ToSet
    <2>3. Around' \subseteq Around
      <3>1. Around' = reels \cup ToSet(watched') \cup ToSet(rest)
        BY <1>1, <1>6 DEF Around
      <3>2. reels \subseteq Around
        BY DEF Around
      <3> QED
        BY <1>d, <2>1, <2>2, <3>1, <3>2
    <2> QED
      BY <1>0, <1>1, <2>3 DEF ReelsKeepTime
  <1>9. PlayerKnowsPlace'
    <2>1. watched' # <<>> /\ Last(watched') = head
      <3>1. n + 1 # 0 /\ Len(<<>>) = 0
        BY <1>2
      <3> QED
        BY <1>4, <3>1 DEF Last
    <2> QED
      BY <1>6, <2>1 DEF PlayerKnowsPlace
  <1>10. WatchedInOrder'
    <2> SUFFICES ASSUME ~astray
                 PROVE  /\ \A i, j \in 1..n + 1 : i < j => Newer(watched'[i], watched'[j])
                        /\ \A i, j \in 1..m - 1 : i < j => Newer(rest[i], rest[j])
                        /\ \A i \in 1..n + 1, j \in 1..m - 1 : Newer(watched'[i], rest[j])
      BY <1>1, <1>3, <1>4, <1>6 DEF WatchedInOrder
    <2>1. ASSUME NEW i \in 1..n + 1, NEW j \in 1..n + 1, i < j
          PROVE  Newer(watched'[i], watched'[j])
      <3>1. i \in 1..n /\ watched'[i] = watched[i]
        BY <1>2, <1>4, <2>1
      <3>2. CASE j \in 1..n
        BY <1>b, <1>4, <2>1, <3>1, <3>2
      <3>3. CASE j = n + 1
        BY <1>3, <1>4, <1>c, <3>1, <3>3
      <3> QED
        BY <1>2, <3>2, <3>3
    <2>2. ASSUME NEW i \in 1..m - 1, NEW j \in 1..m - 1, i < j
          PROVE  Newer(rest[i], rest[j])
      <3>1. i + 1 \in 1..m /\ j + 1 \in 1..m /\ i + 1 < j + 1
        BY <1>2, <2>2
      <3> QED
        BY <1>a, <1>3, <3>1
    <2>3. ASSUME NEW i \in 1..n + 1, NEW j \in 1..m - 1
          PROVE  Newer(watched'[i], rest[j])
      <3>1. j + 1 \in 1..m /\ 1 < j + 1 /\ rest[j] = ahead[j + 1]
        BY <1>2, <1>3
      <3>2. CASE i \in 1..n
        BY <1>4, <1>c, <3>1, <3>2
      <3>3. CASE i = n + 1
        BY <1>a, <1>3, <1>4, <3>1, <3>3
      <3> QED
        BY <1>2, <3>2, <3>3
    <2> QED
      BY <2>1, <2>2, <2>3
  <1> QED
    BY <1>7, <1>8, <1>9, <1>10 DEF PlayIInv

LEMMA PlayPublishes ==
    ASSUME PlayIInv, PublishReel \/ WithdrawReel
    PROVE  PlayIInv'
  <1>0. /\ PlayTypes /\ ReelsKeepTime /\ PlayerKnowsPlace /\ WatchedInOrder
        /\ UNCHANGED <<player, watched, astray>>
    BY DEF PlayIInv, PublishReel, WithdrawReel
  <1>1. PlayerKnowsPlace' /\ WatchedInOrder'
    BY <1>0 DEF PlayerKnowsPlace, WatchedInOrder
  <1>2. CASE PublishReel
    <2>1. PICK t \in PlayTimes : reels' = reels \cup {<<t, Max(Reels)>>}
      BY <1>2 DEF PublishReel
    <2> DEFINE new == <<t, Max(Reels)>>
    <2>2. new \in AllReels /\ new[2] = Max(Reels)
      BY ReelsAreRows DEF AllReels
    <2>3. \A r \in reels : r[2] # Max(Reels)
      BY <1>2 DEF PublishReel
    <2> HIDE DEF new
    <2>4. Around' = Around \cup {new}
      BY <1>0, <2>1 DEF Around, new
    <2>5. \A r \in Around : r[2] # Max(Reels)
      BY <1>0, <2>3 DEF ReelsKeepTime
    <2>6. ReelsKeepTime'
      BY <1>0, <2>1, <2>2, <2>4, <2>5 DEF ReelsKeepTime, new
    <2>7. PlayTypes'
      BY <1>0, <2>1, <2>2 DEF PlayTypes, new
    <2> QED
      BY <1>1, <2>6, <2>7 DEF PlayIInv
  <1>3. CASE WithdrawReel
    <2>1. PICK r \in reels : r[2] # Max(Reels) /\ reels' = reels \ {r}
      BY <1>3 DEF WithdrawReel
    <2>2. Around' \subseteq Around
      BY <1>0, <2>1 DEF Around
    <2>3. ReelsKeepTime'
      BY <1>0, <2>1, <2>2 DEF ReelsKeepTime
    <2>4. PlayTypes'
      BY <1>0, <2>1 DEF PlayTypes
    <2> QED
      BY <1>1, <2>3, <2>4 DEF PlayIInv
  <1> QED
    BY <1>2, <1>3

LEMMA PlaySteps == PlayIInv /\ [PlaybackNext]_playbackVars => PlayIInv'
  <1> SUFFICES ASSUME PlayIInv, [PlaybackNext]_playbackVars
               PROVE  PlayIInv'
    OBVIOUS
  <1>1. CASE UNCHANGED playbackVars
    BY <1>1, PlayStays DEF playbackVars
  <1>2. CASE \E r \in Reporters :
                 SendReport(r) \/ CreateQoSReport(r) \/ FindExistingQoS(r) \/ Resend(r)
    <2>1. UNCHANGED <<reels, player, watched, astray>>
      BY <1>2 DEF SendReport, CreateQoSReport, FindExistingQoS, Resend
    <2> QED
      BY <2>1, PlayStays
  <1>3. CASE \/ GetConfig \/ AskPreload \/ FindCurrentVideo \/ ListPreloadVideos \/ PreloadFails
             \/ WatchNext \/ PublishReel \/ WithdrawReel
    BY <1>3, PlayConfig, PlayAsk, PlayFind, PlayLists, PlayFails, PlayNext, PlayPublishes
  <1> QED
    BY <1>1, <1>2, <1>3 DEF PlaybackNext

(* A player never goes back: each video it plays comes behind the one before,    *)
(* unless its current one has gone (ListPreloadVideos): for any videos, times,   *)
(* settings and networks.                                                        *)
THEOREM VideosArePlayedOnce == PlaybackSpec => []PlayedOnce
  <1>1. PlaybackSpec => []PlayIInv
    BY PlayBegins, PlaySteps, PTL DEF PlaybackSpec
  <1>2. PlayIInv => PlayedOnce
    <2> SUFFICES ASSUME PlayIInv, ~astray PROVE \A i, j \in DOMAIN watched : i < j => Newer(watched[i], watched[j])
      BY DEF PlayedOnce
    <2>1. DOMAIN watched = 1..Len(watched)
      BY DEF PlayIInv, PlayTypes
    <2> QED
      BY <2>1 DEF PlayIInv, WatchedInOrder
  <1> QED
    BY <1>1, <1>2, PTL

--------------------------------------------------------------------------------
(* Accounts.                                                                *)

LEMMA AccountInitInv == AccountInit => AccountIInv
  <1> SUFFICES ASSUME AccountInit PROVE AccountIInv
    OBVIOUS
  <1>1. NoGuest \in GuestRecords /\ NoGuest.at = "idle" /\ NoGuest.answer = "none"
    BY DEF NoGuest, GuestRecords, GuestSteps, AccountAnswers
  <1>2. AccountTypes
    BY <1>1 DEF AccountInit, AccountTypes
  <1>3. OneUserEach
    BY DEF AccountInit, OneUserEach
  <1> QED
    BY <1>1, <1>2, <1>3 DEF AccountInit, AccountIInv, GuestsKnow

\* A new row leaves the others where they are.
LEMMA InsertedRows ==
    ASSUME AccountTypes, NEW g \in Guests, Inserted(g)
    PROVE  /\ accounts' \in Seq(AccountRows)
           /\ \A s : RowsOf(s)' = RowsOf(s) \cup
                        (IF SameAs[guest[g].spelling] = SameAs[s] THEN {Len(accounts) + 1} ELSE {})
           /\ \A i \in DOMAIN accounts : i \in DOMAIN accounts' /\ accounts'[i] = accounts[i]
           /\ DOMAIN accounts' = DOMAIN accounts \cup {Len(accounts) + 1}
           /\ accounts'[Len(accounts) + 1] = [spelling |-> guest[g].spelling, password |-> guest[g].password]
  <1>1. PICK new \in AccountRows : new = [spelling |-> guest[g].spelling, password |-> guest[g].password]
    BY DEF AccountTypes, GuestRecords, AccountRows
  <1>2. accounts \in Seq(AccountRows) /\ accounts' = Append(accounts, new)
    BY <1>1 DEF Inserted, AccountTypes
  <1>3. /\ accounts' \in Seq(AccountRows)
        /\ \A i \in DOMAIN accounts : i \in DOMAIN accounts' /\ accounts'[i] = accounts[i]
        /\ DOMAIN accounts' = DOMAIN accounts \cup {Len(accounts) + 1}
        /\ accounts'[Len(accounts) + 1] = new
    BY <1>2
  <1>4. new.spelling = guest[g].spelling
    BY <1>1
  <1>5. ASSUME NEW s
        PROVE  RowsOf(s)' = RowsOf(s) \cup
                        (IF SameAs[guest[g].spelling] = SameAs[s] THEN {Len(accounts) + 1} ELSE {})
    BY <1>3, <1>4 DEF RowsOf
  <1> QED
    BY <1>1, <1>3, <1>5

LEMMA AnswerTold ==
    ASSUME AccountTypes, NEW g \in Guests, NEW answer \in AccountAnswers, Told(g, answer)
    PROVE  /\ guest' \in [Guests -> GuestRecords]
           /\ guest'[g].at = "idle" /\ guest'[g].answer = answer
           /\ guest'[g].spelling = guest[g].spelling /\ guest'[g].password = guest[g].password
           /\ \A h \in Guests \ {g} : guest'[h] = guest[h]
  <1>1. guest[g] \in GuestRecords
    BY DEF AccountTypes
  <1>2. PICK r : r = [guest[g] EXCEPT !.at = "idle", !.row = 0, !.answer = answer]
    OBVIOUS
  <1>3. r \in GuestRecords /\ r.at = "idle" /\ r.answer = answer
        /\ r.spelling = guest[g].spelling /\ r.password = guest[g].password
    BY <1>1, <1>2 DEF GuestRecords, GuestSteps
  <1>4. guest' = [guest EXCEPT ![g] = r]
    BY <1>2 DEF Told
  <1> QED
    BY <1>3, <1>4 DEF AccountTypes

\* Answers that say nothing of the account.
LEMMA RefusalKeeps ==
    ASSUME AccountIInv, NEW g \in Guests, UNCHANGED <<accounts, token, served, clock>>,
           guest' \in [Guests -> GuestRecords],
           \A h \in Guests \ {g} : guest'[h] = guest[h],
           guest'[g].at # "verify",
           guest'[g].answer \notin {"registered", "token"}
    PROVE  AccountIInv'
  <1>1. \A s : RowsOf(s)' = RowsOf(s)
    BY DEF RowsOf
  <1>2. AccountTypes' /\ OneUserEach'
    BY <1>1 DEF AccountIInv, AccountTypes, OneUserEach
  <1>3. \A h \in Guests : ValidToken(token[h])' = ValidToken(token[h])
    BY DEF ValidToken
  <1>4. GuestsKnow'
    BY <1>1, <1>3 DEF AccountIInv, GuestsKnow
  <1> QED
    BY <1>2, <1>4 DEF AccountIInv

LEMMA VisitKeeps ==
    ASSUME AccountIInv, NEW g \in Guests, NewUser(g) \/ Login(g)
    PROVE  AccountIInv'
  <1>1. PICK s \in Spellings, w \in Passwords :
          \/ guest' = [guest EXCEPT ![g] = [NoGuest EXCEPT !.answer = "refused"]]
          \/ guest' = [guest EXCEPT ![g] = [NoGuest EXCEPT !.at = "save", !.spelling = s, !.password = w]]
          \/ guest' = [guest EXCEPT ![g] = [NoGuest EXCEPT !.at = "find", !.spelling = s, !.password = w]]
    BY Zenon DEF NewUser, Login
  <1>2. /\ [NoGuest EXCEPT !.answer = "refused"] \in GuestRecords
        /\ [NoGuest EXCEPT !.at = "save", !.spelling = s, !.password = w] \in GuestRecords
        /\ [NoGuest EXCEPT !.at = "find", !.spelling = s, !.password = w] \in GuestRecords
    BY DEF NoGuest, GuestRecords, GuestSteps, AccountAnswers
  <1>3. PICK r \in GuestRecords : guest' = [guest EXCEPT ![g] = r] /\ r.at # "verify"
                                  /\ r.answer \in {"none", "refused"}
    BY <1>1, <1>2 DEF NoGuest
  <1>4. guest' \in [Guests -> GuestRecords] /\ guest'[g] = r /\ \A h \in Guests \ {g} : guest'[h] = guest[h]
    BY <1>3 DEF AccountIInv, AccountTypes
  <1>5. UNCHANGED <<accounts, token, served, clock>>
    BY DEF NewUser, Login
  <1> QED
    BY <1>3, <1>4, <1>5, RefusalKeeps

\* A row of its own, or none, whatever the client is told.
LEMMA InsertKeeps ==
    ASSUME AccountIInv, NEW g \in Guests, Inserted(g), RowsOf(guest[g].spelling) = {},
           UNCHANGED <<token, served, clock>>,
           NEW answer \in {"registered", "failed"}, Told(g, answer)
    PROVE  AccountIInv'
  <1>1. /\ accounts' \in Seq(AccountRows)
        /\ \A s : RowsOf(s)' = RowsOf(s) \cup
                     (IF SameAs[guest[g].spelling] = SameAs[s] THEN {Len(accounts) + 1} ELSE {})
        /\ \A i \in DOMAIN accounts : i \in DOMAIN accounts' /\ accounts'[i] = accounts[i]
        /\ DOMAIN accounts' = DOMAIN accounts \cup {Len(accounts) + 1}
        /\ accounts'[Len(accounts) + 1] = [spelling |-> guest[g].spelling, password |-> guest[g].password]
    BY InsertedRows DEF AccountIInv
  <1>2. /\ guest' \in [Guests -> GuestRecords]
        /\ guest'[g].at = "idle" /\ guest'[g].answer = answer
        /\ guest'[g].spelling = guest[g].spelling /\ guest'[g].password = guest[g].password
        /\ \A h \in Guests \ {g} : guest'[h] = guest[h]
    BY AnswerTold DEF AccountIInv, AccountAnswers
  <1>3. AccountTypes'
    BY <1>1, <1>2 DEF AccountIInv, AccountTypes
  <1>4. ASSUME NEW s, NEW i \in RowsOf(s) PROVE i \in RowsOf(s)' /\ accounts'[i] = accounts[i]
    BY <1>1, <1>4 DEF RowsOf
  <1>5. \A s : s = guest[g].spelling => Len(accounts) + 1 \in RowsOf(s)'
    BY <1>1 DEF RowsOf
  <1>6. \A h \in Guests : ValidToken(token[h])' = ValidToken(token[h])
    BY DEF ValidToken
  <1>7. GuestsKnow'
    <2> SUFFICES ASSUME NEW h \in Guests
                 PROVE  (/\ guest[h].at = "verify" => guest[h].row \in RowsOf(guest[h].spelling)
                         /\ guest[h].at = "idle" /\ guest[h].answer = "registered" =>
                               \E i \in RowsOf(guest[h].spelling) : accounts[i].password = guest[h].password
                         /\ guest[h].answer = "token" =>
                               \E i \in RowsOf(guest[h].spelling) :
                                   /\ accounts[i].password = guest[h].password
                                   /\ token[h] # NoToken => token[h].user = i
                         /\ served[h] # 0 => ValidToken(token[h]) /\ served[h] = token[h].user)'
      BY DEF GuestsKnow
    <2>1. CASE h = g
      <3>1. accounts'[Len(accounts) + 1].password = guest[g].password
        BY <1>1
      <3> QED
        BY <1>2, <1>5, <1>6, <2>1, <3>1 DEF AccountIInv, GuestsKnow
    <2>2. CASE h # g
      <3>1. guest'[h] = guest[h]
        BY <1>2, <2>2
      <3> QED
        BY <1>4, <1>6, <3>1 DEF AccountIInv, GuestsKnow
    <2> QED
      BY <2>1, <2>2
  <1>8. OneUserEach'
    <2> SUFFICES ASSUME NEW i \in DOMAIN accounts', NEW s, s = accounts'[i].spelling
                 PROVE  RowsOf(s)' = {i}
      BY DEF OneUserEach
    <2>1. RowsOf(s)' = RowsOf(s) \cup
             (IF SameAs[guest[g].spelling] = SameAs[s] THEN {Len(accounts) + 1} ELSE {})
      BY <1>1
    <2>2. CASE i \in DOMAIN accounts
      <3>1. s = accounts[i].spelling
        BY <1>1, <2>2
      <3>2. RowsOf(s) = {i}
        BY <2>2, <3>1 DEF AccountIInv, OneUserEach
      <3>3. SameAs[guest[g].spelling] # SameAs[s]
        BY <2>2, <3>1 DEF RowsOf
      <3> QED
        BY <2>1, <3>2, <3>3
    <2>3. CASE i = Len(accounts) + 1
      <3>1. s = guest[g].spelling
        BY <1>1, <2>3
      <3>2. RowsOf(s) = {}
        BY <3>1
      <3> QED
        BY <2>1, <2>3, <3>1, <3>2
    <2> QED
      BY <1>1, <2>2, <2>3
  <1> QED
    BY <1>3, <1>7, <1>8 DEF AccountIInv

LEMMA SaveUserKeeps ==
    ASSUME AccountIInv, NEW g \in Guests, SaveUser(g)
    PROVE  AccountIInv'
  <1>1. UNCHANGED <<token, served, clock>>
    BY DEF SaveUser
  <1>2. CASE Inserted(g) /\ RowsOf(guest[g].spelling) = {} /\ (Told(g, "registered") \/ Told(g, "failed"))
    BY <1>1, <1>2, InsertKeeps
  <1>3. CASE UNCHANGED accounts /\ (Told(g, "failed") \/ Told(g, "exists"))
    BY <1>1, <1>3, AnswerTold, RefusalKeeps DEF AccountIInv, AccountAnswers
  <1> QED
    BY <1>2, <1>3 DEF SaveUser

LEMMA FindByAccountKeeps ==
    ASSUME AccountIInv, NEW g \in Guests, FindByAccount(g)
    PROVE  AccountIInv'
  <1>1. UNCHANGED <<accounts, token, served, clock>>
    BY DEF FindByAccount
  <1>2. CASE Told(g, "invalid") \/ Told(g, "failed")
    BY <1>1, <1>2, AnswerTold, RefusalKeeps DEF AccountIInv, AccountAnswers
  <1>3. CASE \E i \in RowsOf(guest[g].spelling) : guest' = [guest EXCEPT ![g].at = "verify", ![g].row = i]
    <2>1. PICK i \in RowsOf(guest[g].spelling) : guest' = [guest EXCEPT ![g].at = "verify", ![g].row = i]
      BY <1>3
    <2>2. i \in Nat /\ guest[g] \in GuestRecords
      BY DEF RowsOf, AccountIInv, AccountTypes
    <2>3. PICK r : r = [guest[g] EXCEPT !.at = "verify", !.row = i]
      OBVIOUS
    <2>4. /\ r \in GuestRecords /\ r.at = "verify" /\ r.row = i
          /\ r.spelling = guest[g].spelling /\ r.password = guest[g].password /\ r.answer = guest[g].answer
      BY <2>2, <2>3 DEF GuestRecords, GuestSteps
    <2>5. guest' = [guest EXCEPT ![g] = r]
      BY <2>1, <2>3
    <2>6. guest' \in [Guests -> GuestRecords] /\ guest'[g] = r /\ \A h \in Guests \ {g} : guest'[h] = guest[h]
      BY <2>4, <2>5 DEF AccountIInv, AccountTypes
    <2>7. \A s : RowsOf(s)' = RowsOf(s)
      BY <1>1 DEF RowsOf
    <2>8. AccountTypes' /\ OneUserEach'
      BY <1>1, <2>6, <2>7 DEF AccountIInv, AccountTypes, OneUserEach
    <2>9. \A h \in Guests : ValidToken(token[h])' = ValidToken(token[h])
      BY <1>1 DEF ValidToken
    <2>10. GuestsKnow'
      BY <1>1, <2>4, <2>6, <2>7, <2>9 DEF AccountIInv, GuestsKnow
    <2> QED
      BY <2>8, <2>10 DEF AccountIInv
  <1> QED
    BY <1>2, <1>3 DEF FindByAccount

LEMMA AuthenticateKeeps ==
    ASSUME AccountIInv, NEW g \in Guests, Authenticate(g)
    PROVE  AccountIInv'
  <1>1. UNCHANGED <<accounts, clock>> /\ guest[g].row \in RowsOf(guest[g].spelling)
    BY DEF Authenticate, AccountIInv, GuestsKnow
  <1>2. CASE UNCHANGED <<token, served>> /\ (Told(g, "refused") \/ Told(g, "invalid"))
    BY <1>1, <1>2, AnswerTold, RefusalKeeps DEF AccountIInv, AccountAnswers
  <1>3. CASE /\ guest[g].password = accounts[guest[g].row].password
             /\ token' = [token EXCEPT ![g] = Signed(guest[g].row)]
             /\ served' = [served EXCEPT ![g] = 0]
             /\ Told(g, "token")
    <2>1. /\ guest' \in [Guests -> GuestRecords]
          /\ guest'[g].at = "idle" /\ guest'[g].answer = "token"
          /\ guest'[g].spelling = guest[g].spelling /\ guest'[g].password = guest[g].password
          /\ \A h \in Guests \ {g} : guest'[h] = guest[h]
      BY <1>3, AnswerTold DEF AccountIInv, AccountAnswers
    <2>2. PICK t : t = Signed(guest[g].row)
      OBVIOUS
    <2>3. t \in [user : Nat, expires : Nat] /\ t.user = guest[g].row
      <3>1. guest[g] \in GuestRecords
        BY DEF AccountIInv, AccountTypes
      <3>2. guest[g].row \in Nat
        BY <3>1 DEF GuestRecords
      <3>3. clock + AccessTTL \in Nat
        BY AccessTTLNat DEF AccountIInv, AccountTypes
      <3> QED
        BY <2>2, <3>2, <3>3 DEF Signed
    <2>4. token' \in [Guests -> [user : Nat, expires : Nat] \cup {NoToken}] /\ token'[g] = t
          /\ \A h \in Guests \ {g} : token'[h] = token[h]
      BY <1>3, <2>2, <2>3 DEF AccountIInv, AccountTypes
    <2>5. served' \in [Guests -> Nat] /\ served'[g] = 0 /\ \A h \in Guests \ {g} : served'[h] = served[h]
      BY <1>3 DEF AccountIInv, AccountTypes
    <2>6. \A s : RowsOf(s)' = RowsOf(s)
      BY <1>1 DEF RowsOf
    <2>7. AccountTypes' /\ OneUserEach'
      BY <1>1, <2>1, <2>4, <2>5, <2>6 DEF AccountIInv, AccountTypes, OneUserEach
    <2>8. \A h \in Guests \ {g} : ValidToken(token[h])' = ValidToken(token[h])
      BY <1>1, <2>4 DEF ValidToken
    <2>9. GuestsKnow'
      BY <1>1, <1>3, <2>1, <2>3, <2>4, <2>5, <2>6, <2>8 DEF AccountIInv, GuestsKnow
    <2> QED
      BY <2>7, <2>9 DEF AccountIInv
  <1> QED
    BY <1>2, <1>3 DEF Authenticate

LEMMA RequestKeeps ==
    ASSUME AccountIInv, NEW g \in Guests, OptionalRequest(g) \/ RequiredRequest(g)
    PROVE  AccountIInv'
  <1>1. UNCHANGED <<accounts, guest, clock>> /\ \A s : RowsOf(s)' = RowsOf(s)
    BY DEF OptionalRequest, RequiredRequest, RowsOf
  <1>2. /\ token[g] \in [user : Nat, expires : Nat] \cup {NoToken}
        /\ ValidToken(token[g]) => token[g].user \in Nat
    BY DEF AccountIInv, AccountTypes, ValidToken
  <1>3. /\ token' \in [Guests -> [user : Nat, expires : Nat] \cup {NoToken}]
        /\ \A h \in Guests \ {g} : token'[h] = token[h]
        /\ token'[g] = token[g] \/ (token'[g] = NoToken /\ served'[g] = 0)
    BY DEF OptionalRequest, RequiredRequest, AccountIInv, AccountTypes
  <1>4. /\ served' \in [Guests -> Nat]
        /\ \A h \in Guests \ {g} : served'[h] = served[h]
        /\ served'[g] # 0 => ValidToken(token[g]) /\ served'[g] = token[g].user
    BY SMTT(30), <1>2 DEF OptionalRequest, RequiredRequest, AccountIInv, AccountTypes
  <1>5. AccountTypes' /\ OneUserEach'
    BY <1>1, <1>3, <1>4 DEF AccountIInv, AccountTypes, OneUserEach
  <1>6. \A h \in Guests : token'[h] = token[h] => ValidToken(token[h])' = ValidToken(token[h])
    BY <1>1 DEF ValidToken
  <1>7. GuestsKnow'
    BY <1>1, <1>3, <1>4, <1>6 DEF AccountIInv, GuestsKnow
  <1> QED
    BY <1>5, <1>7 DEF AccountIInv

LEMMA TimeKeeps ==
    ASSUME AccountIInv, TimePasses
    PROVE  AccountIInv'
  <1>1. UNCHANGED <<accounts, guest, token>> /\ \A s : RowsOf(s)' = RowsOf(s)
    BY DEF TimePasses, RowsOf
  <1>2. served' \in [Guests -> Nat] /\ \A g \in Guests : served'[g] = 0
    BY DEF TimePasses
  <1>3. AccountTypes'
    <2>1. clock' \in Nat
      BY DEF TimePasses, AccountIInv, AccountTypes
    <2> QED
      BY <1>1, <1>2, <2>1 DEF AccountIInv, AccountTypes
  <1>5. OneUserEach'
    BY <1>1 DEF AccountIInv, OneUserEach
  <1>4. GuestsKnow'
    BY <1>1, <1>2 DEF AccountIInv, GuestsKnow
  <1> QED
    BY <1>3, <1>4, <1>5 DEF AccountIInv

LEMMA AccountStepsKeepIInv == AccountIInv /\ [AccountNext]_accountVars => AccountIInv'
  <1> SUFFICES ASSUME AccountIInv, [AccountNext]_accountVars PROVE AccountIInv'
    OBVIOUS
  <1>1. CASE UNCHANGED accountVars
    <2>1. UNCHANGED <<accounts, guest, token, served, clock>> /\ \A s : RowsOf(s)' = RowsOf(s)
      BY <1>1 DEF accountVars, RowsOf
    <2>2. \A g \in Guests : ValidToken(token[g])' = ValidToken(token[g])
      BY <2>1 DEF ValidToken
    <2> QED
      BY <2>1, <2>2 DEF AccountIInv, AccountTypes, OneUserEach, GuestsKnow
  <1>2. CASE AccountNext
    BY <1>2, VisitKeeps, SaveUserKeeps, FindByAccountKeeps, AuthenticateKeeps, RequestKeeps, TimeKeeps
       DEF AccountNext
  <1> QED
    BY <1>1, <1>2

\* There is one row, so what some row says every row says.
LEMMA AccountsAreOneUsers == AccountIInv => AccountsHaveOneUser
  <1> SUFFICES ASSUME AccountIInv PROVE AccountsHaveOneUser
    OBVIOUS
  <1>1. ASSUME NEW s, NEW i \in RowsOf(s), NEW j \in RowsOf(s) PROVE i = j
    <2>1. i \in DOMAIN accounts /\ j \in DOMAIN accounts /\ SameAs[accounts[i].spelling] = SameAs[accounts[j].spelling]
      BY <1>1 DEF RowsOf
    <2>2. j \in RowsOf(accounts[i].spelling)
      BY <2>1 DEF RowsOf
    <2> QED
      BY <2>1, <2>2 DEF AccountIInv, OneUserEach
  <1>2. RegisteredOwn
    BY DEF RegisteredOwn, AccountIInv, GuestsKnow
  <1>3. ASSUME NEW g \in Guests, guest[g].answer = "token", NEW i \in RowsOf(guest[g].spelling)
        PROVE  /\ accounts[i].password = guest[g].password
               /\ token[g] # NoToken => token[g].user = i
    BY <1>1, <1>3 DEF AccountIInv, GuestsKnow
  <1> QED
    BY <1>2, <1>3 DEF AccountsHaveOneUser, AccountIInv, GuestsKnow

(* An account is one user's, however it is spelled and whoever registers   *)
(* at the same time; who logs in with its password is served as its user   *)
(* (application/account/service.go): for any clients, spellings, passwords *)
(* and failing calls.                                                      *)
THEOREM AccountsAreHeldOnce == AccountSpec => []AccountsHaveOneUser
  BY AccountInitInv, AccountStepsKeepIInv, AccountsAreOneUsers, PTL DEF AccountSpec

--------------------------------------------------------------------------------
(* Upload.                                                                  *)

\* The records stay records: a step changes a label, an end also the answer.
LEMMA LabelsFit ==
    ASSUME UploadTypes, NEW u \in Uploads, NEW label \in UploadSteps, Step(u, label)
    PROVE  upload' \in [Uploads -> [at : UploadSteps, file : Files \cup {NoFile},
                                    answer : {"none", "url", "error"}]]
  BY DEF UploadTypes, Step

LEMMA AnswersFit ==
    ASSUME UploadTypes, NEW u \in Uploads, NEW answer \in {"url", "error"}, Answered(u, answer)
    PROVE  upload' \in [Uploads -> [at : UploadSteps, file : Files \cup {NoFile},
                                    answer : {"none", "url", "error"}]]
  <1>1. "answered" \in UploadSteps /\ answer \in {"none", "url", "error"}
    BY DEF UploadSteps
  <1> QED
    BY <1>1 DEF UploadTypes, Answered

\* The files on disk, and the sets of the uploads that hold or left them.
LEMMA DisksFit ==
    ASSUME UploadTypes, NEW u \in Uploads,
           \/ ReceiveFile(u) \/ CreateFile(u) \/ CopyFile(u) \/ ProbeVideo(u) \/ CreateTemp(u)
           \/ RewriteVideo(u) \/ RenameTemp(u) \/ RollBack(u)
    PROVE  /\ stored' \in [Uploads -> {"absent", "part", "whole", "faststart"}]
           /\ scratch' \subseteq Uploads
           /\ stranded' \subseteq Uploads
  <1>1. scratch' \subseteq Uploads
    BY DEF UploadTypes, ReceiveFile, CreateFile, CopyFile, ProbeVideo, CreateTemp, RewriteVideo,
           RenameTemp, RollBack, RemoveTemp
  <1>2. CASE RemoveFile(u)
    BY <1>1, <1>2 DEF UploadTypes, RemoveFile
  <1>3. CASE /\ stranded' \in {stranded, stranded \cup {u}}
             /\ \/ UNCHANGED stored
                \/ \E k \in {"part", "whole", "faststart"} : stored' = [stored EXCEPT ![u] = k]
    BY <1>1, <1>3 DEF UploadTypes
  <1>4. RemoveFile(u) \/ stranded' \in {stranded, stranded \cup {u}}
    BY DEF ReceiveFile, CreateFile, CopyFile, ProbeVideo, CreateTemp, RewriteVideo, RenameTemp,
           RollBack, RemoveTemp
  <1>5. \/ RemoveFile(u) \/ UNCHANGED stored
        \/ \E k \in {"part", "whole", "faststart"} : stored' = [stored EXCEPT ![u] = k]
    BY DEF ReceiveFile, CreateFile, CopyFile, ProbeVideo, CreateTemp, RewriteVideo, RenameTemp,
           RollBack
  <1> QED
    BY <1>2, <1>3, <1>4, <1>5

LEMMA UploadKeepsTypes ==
    ASSUME UploadTypes, NEW u \in Uploads,
           \/ ReceiveFile(u) \/ CreateFile(u) \/ CopyFile(u) \/ ProbeVideo(u) \/ CreateTemp(u)
           \/ RewriteVideo(u) \/ RenameTemp(u) \/ RollBack(u)
    PROVE  UploadTypes'
  <1>1. CASE ReceiveFile(u)
    BY <1>1 DEF ReceiveFile, UploadTypes, UploadSteps
  <1>2. CASE \E label \in UploadSteps : Step(u, label)
    BY <1>2, LabelsFit, DisksFit DEF UploadTypes
  <1>3. CASE \E answer \in {"url", "error"} : Answered(u, answer)
    BY <1>3, AnswersFit, DisksFit DEF UploadTypes
  <1>4. \/ ReceiveFile(u)
        \/ \E label \in {"copy", "probe", "temp", "rewrite", "rename", "rollback"} : Step(u, label)
        \/ \E answer \in {"url", "error"} : Answered(u, answer)
    BY DEF CreateFile, CopyFile, ProbeVideo, CreateTemp, RewriteVideo, RenameTemp, RollBack
  <1>5. {"copy", "probe", "temp", "rewrite", "rename", "rollback"} \subseteq UploadSteps
    BY DEF UploadSteps
  <1> QED
    BY <1>1, <1>2, <1>3, <1>4, <1>5

(* An upload that does not move keeps all that is known of it.             *)
LEMMA UploadKeepsIInv ==
    ASSUME UploadIInv, NEW u \in Uploads,
           \/ ReceiveFile(u) \/ CreateFile(u) \/ CopyFile(u) \/ ProbeVideo(u) \/ CreateTemp(u)
           \/ RewriteVideo(u) \/ RenameTemp(u) \/ RollBack(u)
    PROVE  UploadIInv'
  <1>1. UploadTypes'
    BY UploadKeepsTypes DEF UploadIInv
  <1> USE DEF UploadIInv, UploadTypes, CheckedSoFar, ScratchIsHeld, UploadsSettle, UploadSteps
  <1>2. CASE ReceiveFile(u)
    BY <1>2 DEF ReceiveFile
  <1>3. CASE CreateFile(u)
    <2> USE <1>3 DEF CreateFile, Step, Answered
    <2>1. CheckedSoFar'
      OBVIOUS
    <2>2. ScratchIsHeld'
      OBVIOUS
    <2>3. UploadsSettle'
      OBVIOUS
    <2> QED
      BY <1>1, <2>1, <2>2, <2>3
  <1>4. CASE CopyFile(u)
    <2> USE <1>4 DEF CopyFile, Step, Answered, RemoveFile
    <2>1. CheckedSoFar'
      OBVIOUS
    <2>2. ScratchIsHeld'
      OBVIOUS
    <2>3. UploadsSettle'
      OBVIOUS
    <2> QED
      BY <1>1, <2>1, <2>2, <2>3
  <1>5. CASE ProbeVideo(u)
    <2> USE <1>5 DEF ProbeVideo, Step, Answered
    <2>1. CheckedSoFar'
      OBVIOUS
    <2>2. ScratchIsHeld'
      OBVIOUS
    <2>3. UploadsSettle'
      OBVIOUS
    <2> QED
      BY <1>1, <2>1, <2>2, <2>3
  <1>6. CASE CreateTemp(u)
    BY <1>6 DEF CreateTemp, Step
  <1>7. CASE RewriteVideo(u)
    <2> USE <1>7 DEF RewriteVideo, Step, RemoveTemp
    <2>1. CheckedSoFar'
      OBVIOUS
    <2>2. ScratchIsHeld'
      OBVIOUS
    <2>3. UploadsSettle'
      OBVIOUS
    <2> QED
      BY <1>1, <2>1, <2>2, <2>3
  <1>8. CASE RenameTemp(u)
    <2> USE <1>8 DEF RenameTemp, Step, Answered, RemoveTemp
    <2>1. CheckedSoFar'
      OBVIOUS
    <2>2. ScratchIsHeld'
      OBVIOUS
    <2>3. UploadsSettle'
      OBVIOUS
    <2> QED
      BY <1>1, <2>1, <2>2, <2>3
  <1>9. CASE RollBack(u)
    <2> USE <1>9 DEF RollBack, Answered, RemoveFile
    <2>1. CheckedSoFar'
      OBVIOUS
    <2>2. ScratchIsHeld'
      OBVIOUS
    <2>3. UploadsSettle'
      OBVIOUS
    <2> QED
      BY <1>1, <2>1, <2>2, <2>3
  <1> QED
    BY <1>2, <1>3, <1>4, <1>5, <1>6, <1>7, <1>8, <1>9

LEMMA CrashKeepsUploads ==
    ASSUME UploadIInv, UploadsCrash
    PROVE  UploadIInv'
  <1> USE DEF UploadIInv, UploadTypes, CheckedSoFar, ScratchIsHeld, UploadsSettle, UploadSteps, UploadsCrash
  <1>1. UploadTypes'
    OBVIOUS
  <1>2. CheckedSoFar' /\ ScratchIsHeld'
    OBVIOUS
  <1>3. UploadsSettle'
    OBVIOUS
  <1> QED
    BY <1>1, <1>2, <1>3

LEMMA UploadsBegin == UploadInit => UploadIInv
  BY DEF UploadInit, NoUpload, UploadIInv, UploadTypes, CheckedSoFar, ScratchIsHeld,
         UploadsSettle, UploadSteps

LEMMA UploadsGoOn ==
    ASSUME UploadIInv, [UploadNext]_uploadVars
    PROVE  UploadIInv'
  <1>1. ASSUME uploadVars' = uploadVars PROVE UploadIInv'
    BY <1>1 DEF uploadVars, UploadIInv, UploadTypes, CheckedSoFar, ScratchIsHeld, UploadsSettle
  <1> QED
    BY UploadKeepsIInv, CrashKeepsUploads, <1>1 DEF UploadNext

(* An answered URL names a whole file that all rules accepted, and an      *)
(* upload that is over leaves nothing else on disk unless the process died *)
(* or a removal failed (application/upload/service.go, Save): for any      *)
(* uploads, files and faults.                                              *)
THEOREM UploadsAreSettled == UploadSpec => []UploadsSettle
  <1>1. UploadIInv => UploadsSettle
    BY DEF UploadIInv
  <1> QED
    BY <1>1, UploadsBegin, UploadsGoOn, PTL DEF UploadSpec

--------------------------------------------------------------------------------
(* StatCache.                                                               *)
(* Counts that wear off                                                      *)

LEMMA CountsTyped ==
    ASSUME StatTypes
    PROVE  /\ DbStat \in Counts
           /\ IsFiniteSet(likers) /\ Cardinality(likers) \in Nat
           /\ \A c \in Counts, d \in Int : Plus(c, d) \in Counts
           /\ \A c \in Counts : Plus(c, 0) = c
           /\ [like |-> 0, comment |-> 0] \in Counts
  <1>1. IsFiniteSet(likers) /\ Cardinality(likers) \in Nat
    BY LikersFinite, FS_Subset, FS_CardinalityType DEF StatTypes
  <1> QED
    BY <1>1 DEF StatTypes, DbStat, Counts, Plus

\* Who is of which kind.
LEMMA KindsApart ==
    /\ Worker \in Processes
    /\ \A p \in Likers : p \in Processes /\ p # Worker
    /\ \A p \in Viewers : p \in Processes /\ p # Worker /\ p \notin Likers /\ p \notin Commenters
    /\ \A p \in Commenters : p \in Processes /\ p # Worker /\ p \notin Likers
  BY ProcessesApart DEF Processes

\* Another process's step, which leaves the database's likes and the counters alone.
LEMMA OtherStepsKeepStats ==
    ASSUME StatIInv, NEW p \in Processes, p # Worker,
           NEW label \in StepsOf(p), Go(p, label),
           NEW sum \in Counts \cup {NoStat}, Has(p, sum),
           label \in {"exec", "sync", "store", "publish"} \/ (p \in Likers /\ label # "idle")
               => sum # NoStat,
           p \in Likers /\ step[p] \in {"base", "shards", "store", "publish"}
               => label \in {"base", "shards", "store", "publish"} \/ likeEvents' # <<>>,
           likeEvents' = <<>> => likeEvents = <<>>,
           likeEvents' \in Seq([user : Likers, active : BOOLEAN]),
           snapshot' \in Counts \cup {NoStat},
           UNCHANGED <<database, counters>>
    PROVE  StatIInv'
  <1> USE KindsApart DEF StatIInv, Go, Has, database, counters
  <1>1. /\ step'[p] = label /\ stat'[p] = sum
        /\ \A q \in Processes \ {p} : step'[q] = step[q] /\ stat'[q] = stat[q]
    BY DEF StatTypes
  <1>2. StatTypes'
    BY <1>1 DEF StatTypes
  <1>3. CountsAtHand'
    BY <1>1 DEF CountsAtHand, StepsOf
  <1>4. ResetOwed => ResetOwed'
    BY <1>1 DEF ResetOwed
  <1>5. WorkerIsUpToDate'
    BY <1>1, <1>4 DEF WorkerIsUpToDate
  <1>6. CountersRight'
    BY <1>1, <1>4 DEF CountersRight
  <1>7. CommentsRight'
    BY DEF CommentsRight
  <1> QED
    BY <1>2, <1>3, <1>5, <1>6, <1>7

\* UNCHANGED stat is a process that keeps what it has.
LEMMA KeepsItsCounts ==
    ASSUME StatTypes, NEW p \in Processes, UNCHANGED stat
    PROVE  Has(p, stat[p]) /\ stat[p] \in Counts \cup {NoStat}
  BY DEF StatTypes, Has

LEMMA ReadersKeepStats ==
    ASSUME StatIInv, NEW p \in Processes,
           \/ ReadBase(p) \/ ReadFallback(p) \/ ReadShards(p) \/ GetStats(p) \/ GetStatsFails(p)
           \/ BatchGetFeedStats(p)
    PROVE  StatIInv'
  <1> USE DEF StatIInv
  <1>0. /\ step[p] \in StepsOf(p) /\ stat[p] \in Counts \cup {NoStat}
        /\ statBase \in Counts \cup {NoStat} /\ snapshot \in Counts \cup {NoStat}
        /\ likeEvents \in Seq([user : Likers, active : BOOLEAN])
        /\ p \in Likers /\ step[p] # "idle" => stat[p] # NoStat
        /\ shards \in Int
    BY DEF StatTypes, CountsAtHand
  <1>1. CASE ReadBase(p)
    <2>1. p \in Likers \/ p \in Viewers
      BY <1>0, <1>1 DEF ReadBase, StepsOf, Processes
    <2>2. CASE statBase # NoStat
      BY <1>0, <1>1, <2>1, <2>2, KindsApart, OtherStepsKeepStats DEF ReadBase, StepsOf
    <2>3. CASE statBase = NoStat /\ p \in Likers
      BY <1>0, <1>1, <2>3, KindsApart, KeepsItsCounts, OtherStepsKeepStats DEF ReadBase, StepsOf
    <2>4. CASE statBase = NoStat /\ p \in Viewers
      BY <1>0, <1>1, <2>4, KindsApart, KeepsItsCounts, OtherStepsKeepStats DEF ReadBase, StepsOf
    <2> QED
      BY <2>1, <2>2, <2>3, <2>4
  <1>2. CASE ReadFallback(p)
    <2>1. p \in Viewers
      BY <1>0, <1>2 DEF ReadFallback, StepsOf, Processes
    <2> QED
      BY <1>0, <1>2, <2>1, KindsApart, OtherStepsKeepStats DEF ReadFallback, StepsOf
  <1>3. CASE ReadShards(p)
    <2>1. p \in Likers \/ p \in Viewers
      BY <1>0, <1>3 DEF ReadShards, StepsOf, Processes
    <2>2. CASE stat[p] = NoStat /\ shards = 0
      <3>1. p \in Viewers
        BY <1>0, <1>3, <2>1, <2>2 DEF ReadShards
      <3> QED
        BY <1>0, <1>3, <2>2, <3>1, KindsApart, KeepsItsCounts, OtherStepsKeepStats DEF ReadShards, StepsOf
    <2>3. CASE ~(stat[p] = NoStat /\ shards = 0)
      <3> DEFINE sum == Plus(IF stat[p] = NoStat THEN [like |-> 0, comment |-> 0] ELSE stat[p], shards)
      <3>1. sum \in Counts /\ sum # NoStat
        BY <1>0, CountsTyped, NoStatIsNone
      <3>2. Has(p, sum) /\ Go(p, "store") /\ UNCHANGED <<database, counters, snapshot, likeEvents, bound>>
        BY <1>3, <2>3 DEF ReadShards
      <3> HIDE DEF sum
      <3>3. "store" \in StepsOf(p)
        BY <2>1, KindsApart DEF StepsOf
      <3>4. p # Worker
        BY <2>1, KindsApart
      <3> QED
        BY <1>0, <3>1, <3>2, <3>3, <3>4, OtherStepsKeepStats
    <2> QED
      BY <2>2, <2>3
  <1>4. CASE GetStats(p)
    <2>1. CASE snapshot # NoStat
      <3>1. Go(p, "idle")
        BY <1>4, <2>1 DEF GetStats, Go, StatTypes
      <3> QED
        BY <1>0, <1>4, <2>1, <3>1, KindsApart, KeepsItsCounts, OtherStepsKeepStats DEF GetStats, StepsOf
    <2>2. CASE snapshot = NoStat
      BY <1>0, <1>4, <2>2, KindsApart, KeepsItsCounts, OtherStepsKeepStats DEF GetStats, StepsOf
    <2> QED
      BY <2>1, <2>2
  <1>5. CASE GetStatsFails(p)
    BY <1>0, <1>5, KindsApart, OtherStepsKeepStats DEF GetStatsFails, StepsOf
  <1>6. CASE BatchGetFeedStats(p)
    <2>1. p \in Viewers
      BY <1>0, <1>6 DEF BatchGetFeedStats, StepsOf, Processes
    <2>2. DbStat \in Counts /\ DbStat # NoStat
      BY CountsTyped, NoStatIsNone
    <2> QED
      BY <1>0, <1>6, <2>1, <2>2, KindsApart, OtherStepsKeepStats DEF BatchGetFeedStats, StepsOf
  <1> QED
    BY <1>1, <1>2, <1>3, <1>4, <1>5, <1>6


LEMMA StoreKeepsStats ==
    ASSUME StatIInv, NEW p \in Processes, StoreSnapshot(p)
    PROVE  StatIInv'
  <1> USE DEF StatIInv
  <1>0. /\ step[p] = "store" /\ stat[p] \in Counts /\ stat[p] # NoStat
        /\ snapshot' \in Counts \cup {NoStat} /\ UNCHANGED <<database, counters, likeEvents>>
        /\ likeEvents \in Seq([user : Likers, active : BOOLEAN])
    BY DEF StoreSnapshot, StatTypes, CountsAtHand
  <1>1. CASE p \in Likers
    <2>1. Go(p, "publish") /\ Has(p, stat[p]) /\ "publish" \in StepsOf(p) /\ p # Worker
      BY <1>1, KindsApart, KeepsItsCounts DEF StoreSnapshot, StepsOf
    <2> QED
      BY <1>0, <1>1, <2>1, OtherStepsKeepStats
  <1>2. CASE p \notin Likers /\ p # Worker
    <2>1. Go(p, "idle") /\ Has(p, NoStat) /\ "idle" \in StepsOf(p)
      BY <1>2 DEF StoreSnapshot, StepsOf, Ends
    <2> QED
      BY <1>0, <1>2, <2>1, OtherStepsKeepStats
  <1>3. CASE p = Worker
    <2> USE <1>3, <1>0, KindsApart
    <2>1. Go(Worker, "idle") /\ Has(Worker, NoStat)
      BY DEF StoreSnapshot, Ends
    <2>2. /\ step'[Worker] = "idle" /\ stat'[Worker] = NoStat
          /\ \A q \in Processes \ {Worker} : step'[q] = step[q] /\ stat'[q] = stat[q]
      BY <2>1 DEF Go, Has, StatTypes
    <2>3. StatTypes'
      BY <2>1, <2>2 DEF StatTypes, StepsOf, Go, Has, database, counters
    <2>4. CountsAtHand'
      BY <2>2 DEF CountsAtHand
    <2>5. ResetOwed => ResetOwed'
      BY <2>2 DEF ResetOwed
    <2>6. WorkerIsUpToDate'
      BY <2>2 DEF WorkerIsUpToDate
    <2>7. CountersRight'
      BY <2>2, <2>5 DEF CountersRight, database, counters
    <2>8. CommentsRight'
      BY DEF CommentsRight, database, counters
    <2> QED
      BY <2>3, <2>4, <2>6, <2>7, <2>8
  <1> QED
    BY <1>1, <1>2, <1>3

--------------------------------------------------------------------------------
(* Likes                                                                     *)

LEMMA BeginLikeKeepsStats ==
    ASSUME StatIInv, NEW u \in Processes, BeginLike(u)
    PROVE  StatIInv'
  <1>1. /\ DbStat \in Counts /\ DbStat # NoStat
        /\ likeEvents \in Seq([user : Likers, active : BOOLEAN]) /\ snapshot \in Counts \cup {NoStat}
    BY CountsTyped, NoStatIsNone DEF StatIInv, StatTypes
  <1>2. u # Worker /\ "exec" \in StepsOf(u)
    BY KindsApart DEF BeginLike, StepsOf
  <1> QED
    BY <1>1, <1>2, OtherStepsKeepStats DEF BeginLike

LEMMA SetLikeKeepsStats ==
    ASSUME StatIInv, NEW u \in Processes, SetLike(u)
    PROVE  StatIInv'
  <1> USE KindsApart DEF StatIInv, SetLike, Go, database, counters
  <1>0. u \in Likers /\ u # Worker /\ stat[u] \in Counts
    BY NoStatIsNone DEF StatTypes, StepsOf, CountsAtHand
  <1>1. /\ step'[u] = "base" /\ stat' = stat
        /\ \A q \in Processes \ {u} : step'[q] = step[q]
    BY DEF StatTypes
  <1>2. StatTypes'
    <2>1. statBase' \in Counts \cup {NoStat} /\ shards' \in Int
      BY <1>0 DEF StatTypes
    <2>0. behind' \in BOOLEAN
      <3>1. behind' = behind \/ behind' = (stat[u].comment # comments)
        OBVIOUS
      <3> QED
        BY <3>1 DEF StatTypes
    <2>2. "base" \in StepsOf(u)
      BY <1>0 DEF StepsOf
    <2> QED
      BY <1>1, <2>0, <2>1, <2>2 DEF StatTypes
  <1>3. CountsAtHand'
    BY <1>0, <1>1, NoStatIsNone DEF CountsAtHand
  <1>4. ResetOwed'
    BY <1>0, <1>1 DEF ResetOwed
  <1>5. WorkerIsUpToDate'
    BY <1>0, <1>1, <1>4 DEF WorkerIsUpToDate
  <1>6. CountersRight'
    BY <1>4 DEF CountersRight
  <1>7. CommentsRight'
    BY <1>0, NoStatIsNone DEF CommentsRight, StatTypes
  <1> QED
    BY <1>2, <1>3, <1>5, <1>6, <1>7

LEMMA PublishLikeKeepsStats ==
    ASSUME StatIInv, NEW u \in Processes, PublishLike(u)
    PROVE  StatIInv'
  <1>1. u \in Likers /\ u # Worker /\ likeEvents \in Seq([user : Likers, active : BOOLEAN])
    BY KindsApart DEF StatIInv, StatTypes, StepsOf, PublishLike
  <1>2. likeEvents' \in Seq([user : Likers, active : BOOLEAN]) /\ likeEvents' # <<>>
    <2> DEFINE e == [user |-> u, active |-> u \in liked]
    <2>1. e \in [user : Likers, active : BOOLEAN] /\ likeEvents' = Append(likeEvents, e)
      BY <1>1 DEF PublishLike
    <2> HIDE DEF e
    <2> QED
      BY <1>1, <2>1
  <1>3. Go(u, "idle") /\ Has(u, NoStat) /\ "idle" \in StepsOf(u) /\ snapshot' \in Counts \cup {NoStat}
        /\ UNCHANGED <<database, counters>>
    BY <1>1 DEF PublishLike, Ends, StepsOf, StatIInv, StatTypes
  <1> QED
    BY <1>1, <1>2, <1>3, OtherStepsKeepStats

--------------------------------------------------------------------------------
(* The worker                                                                *)

LEMMA ApplyLikeKeepsStats ==
    ASSUME StatIInv, ApplyLike
    PROVE  StatIInv'
  <1> USE KindsApart DEF StatIInv, ApplyLike, Go, counters
  <1>1. /\ step'[Worker] = "read" /\ stat' = stat
        /\ \A q \in Processes \ {Worker} : step'[q] = step[q]
    BY DEF StatTypes
  <1>2. Head(likeEvents).user \in Likers /\ Tail(likeEvents) \in Seq([user : Likers, active : BOOLEAN])
    <2>1. Head(likeEvents) \in [user : Likers, active : BOOLEAN]
          /\ Tail(likeEvents) \in Seq([user : Likers, active : BOOLEAN])
      BY HeadTailProperties DEF StatTypes
    <2> QED
      BY <2>1
  <1>3. StatTypes'
    BY <1>1, <1>2 DEF StatTypes, StepsOf
  <1>4. CountsAtHand'
    BY <1>1, KindsApart DEF CountsAtHand
  <1>5. WorkerIsUpToDate' /\ CountersRight' /\ CommentsRight'
    BY <1>1 DEF WorkerIsUpToDate, CountersRight, CommentsRight
  <1> QED
    BY <1>3, <1>4, <1>5

LEMMA ReadStatKeepsStats ==
    ASSUME StatIInv, ReadStat
    PROVE  StatIInv'
  <1> USE KindsApart DEF StatIInv, ReadStat, Go, Has, database, counters
  <1>0. DbStat \in Counts /\ DbStat # NoStat
    BY CountsTyped, NoStatIsNone
  <1>1. /\ step'[Worker] = "reset" /\ stat'[Worker] = DbStat
        /\ \A q \in Processes \ {Worker} : step'[q] = step[q] /\ stat'[q] = stat[q]
    BY DEF StatTypes
  <1>3. StatTypes'
    BY <1>0, <1>1 DEF StatTypes, StepsOf
  <1>4. CountsAtHand'
    BY <1>0, <1>1, KindsApart DEF CountsAtHand
  <1>5. WorkerIsUpToDate'
    BY <1>1 DEF WorkerIsUpToDate, DbStat
  <1>6. CountersRight' /\ CommentsRight'
    BY <1>1 DEF CountersRight, CommentsRight
  <1> QED
    BY <1>3, <1>4, <1>5, <1>6

LEMMA ResetKeepsStats ==
    ASSUME StatIInv, ResetBase \/ DropCounterShards
    PROVE  StatIInv'
  <1> USE KindsApart DEF StatIInv, ResetBase, DropCounterShards, Go, database, counters
  <1>0. stat[Worker] \in Counts /\ stat[Worker] # NoStat /\ comments \in Nat
    BY NoStatIsNone DEF StatTypes, CountsAtHand
  <1>1. /\ step'[Worker] \in {"drop", "store"} /\ stat' = stat
        /\ \A q \in Processes \ {Worker} : step'[q] = step[q]
    BY DEF StatTypes
  <1>2. ResetOwed' <=> ResetOwed
    BY <1>1 DEF ResetOwed
  <1>3. StatTypes'
    <2>1. behind' \in BOOLEAN
      <3>1. behind' = behind \/ behind' = (stat[Worker].comment # comments)
        OBVIOUS
      <3> QED
        BY <3>1 DEF StatTypes
    <2>2. /\ step' \in [Processes -> UNION {StepsOf(p) : p \in Processes}]
          /\ \A p \in Processes : step'[p] \in StepsOf(p)
      BY <1>1 DEF StatTypes, StepsOf
    <2> QED
      BY <1>0, <2>1, <2>2 DEF StatTypes
  <1>4. CountsAtHand'
    BY <1>0, <1>1, KindsApart DEF CountsAtHand
  <1>5. WorkerIsUpToDate'
    BY <1>0, <1>1, <1>2 DEF WorkerIsUpToDate, StatTypes
  <1>6. CountersRight'
    BY <1>0, <1>1, <1>2 DEF CountersRight, WorkerIsUpToDate, StatTypes
  <1>7. CommentsRight'
    BY <1>0 DEF CommentsRight, StatTypes
  <1> QED
    BY <1>3, <1>4, <1>5, <1>6, <1>7

--------------------------------------------------------------------------------
(* Comments, and time                                                        *)

LEMMA CommentKeepsStats ==
    ASSUME StatIInv, NEW c \in Processes, CommitComment(c)
    PROVE  StatIInv'
  <1> USE KindsApart DEF StatIInv, CommitComment, Go, Has
  <1>0. c \in Commenters /\ c # Worker /\ c \notin Likers
    OBVIOUS
  <1>1. comments' \in Nat /\ [like |-> 0, comment |-> comments'] \in Counts
        /\ [like |-> 0, comment |-> comments'] # NoStat
    BY NoStatIsNone DEF StatTypes, Counts
  <1>2. /\ step'[c] = "sync" /\ stat'[c] = [like |-> 0, comment |-> comments']
        /\ \A q \in Processes \ {c} : step'[q] = step[q] /\ stat'[q] = stat[q]
    BY DEF StatTypes
  <1>3. StatTypes'
    BY <1>0, <1>1, <1>2 DEF StatTypes, StepsOf
  <1>4. CountsAtHand'
    BY <1>0, <1>1, <1>2 DEF CountsAtHand
  <1>5. ResetOwed' <=> ResetOwed
    BY <1>0, <1>2 DEF ResetOwed
  <1>6. WorkerIsUpToDate' /\ CountersRight'
    BY <1>0, <1>2, <1>5 DEF WorkerIsUpToDate, CountersRight
  <1>7. CommentsRight'
    BY DEF CommentsRight
  <1> QED
    BY <1>3, <1>4, <1>6, <1>7

LEMMA SyncKeepsStats ==
    ASSUME StatIInv, NEW c \in Processes, SyncCommentCount(c)
    PROVE  StatIInv'
  <1>1. /\ c \in Commenters /\ c # Worker /\ c \notin Likers /\ "store" \in StepsOf(c)
        /\ stat[c] \in Counts /\ DbStat \in Counts
        /\ likeEvents \in Seq([user : Likers, active : BOOLEAN]) /\ snapshot \in Counts \cup {NoStat}
    BY KindsApart, CountsTyped DEF StatIInv, StatTypes, CountsAtHand, SyncCommentCount, StepsOf, Processes
  <1>2. [like |-> DbStat.like, comment |-> stat[c].comment] \in Counts
    BY <1>1 DEF Counts
  <1>3. \E sum \in Counts : Has(c, sum)
    BY <1>1, <1>2, KeepsItsCounts DEF SyncCommentCount, StatIInv
  <1> QED
    BY <1>1, <1>3, NoStatIsNone, OtherStepsKeepStats DEF SyncCommentCount

LEMMA ExpiryKeepsStats ==
    ASSUME StatIInv, SnapshotExpires \/ CountersExpire
    PROVE  StatIInv'
  <1> USE DEF StatIInv, SnapshotExpires, CountersExpire, database, counters
  <1>1. StatTypes'
    <2>1. behind' \in BOOLEAN
      <3>1. behind' = behind \/ behind' = FALSE
        OBVIOUS
      <3> QED
        BY <3>1 DEF StatTypes
    <2> QED
      BY <2>1 DEF StatTypes
  <1>2. CountsAtHand'
    BY DEF CountsAtHand
  <1>3. ResetOwed' <=> ResetOwed
    BY DEF ResetOwed
  <1>4. WorkerIsUpToDate'
    BY <1>3, KindsApart DEF WorkerIsUpToDate, AtRest
  <1>5. CountersRight' /\ CommentsRight'
    BY <1>3 DEF CountersRight, CommentsRight
  <1> QED
    BY <1>1, <1>2, <1>4, <1>5

LEMMA StatInitHolds == StatInit => StatIInv
  <1> SUFFICES ASSUME StatInit PROVE StatIInv
    OBVIOUS
  <1> USE DEF StatInit
  <1>1. StatTypes
    <2>1. \A p \in Processes : "idle" \in StepsOf(p)
      BY DEF StepsOf
    <2>2. /\ step \in [Processes -> UNION {StepsOf(p) : p \in Processes}]
          /\ \A p \in Processes : step[p] \in StepsOf(p)
      BY <2>1
    <2>3. likeEvents \in Seq([user : Likers, active : BOOLEAN])
      OBVIOUS
    <2>4. behind \in BOOLEAN
      <3>1. behind = FALSE
        OBVIOUS
      <3> QED
        BY <3>1
    <2> QED
      BY <2>2, <2>3, <2>4 DEF StatTypes
  <1>2. CountsAtHand /\ WorkerIsUpToDate /\ CommentsRight
    BY KindsApart DEF CountsAtHand, WorkerIsUpToDate, CommentsRight
  <1>3. CountersRight
    BY DEF CountersRight
  <1> QED
    BY <1>1, <1>2, <1>3 DEF StatIInv

LEMMA StatStepsKeepIInv == StatIInv /\ [StatNext]_statVars => StatIInv'
  <1> SUFFICES ASSUME StatIInv, [StatNext]_statVars PROVE StatIInv'
    OBVIOUS
  <1>1. CASE UNCHANGED statVars
    BY <1>1 DEF statVars, StatIInv, StatTypes, CountsAtHand, WorkerIsUpToDate, CountersRight,
                CommentsRight, ResetOwed
  <1>2. CASE StatNext
    BY <1>2, ReadersKeepStats, StoreKeepsStats, BeginLikeKeepsStats, SetLikeKeepsStats,
       PublishLikeKeepsStats, ApplyLikeKeepsStats, ReadStatKeepsStats, ResetKeepsStats,
       CommentKeepsStats, SyncKeepsStats, ExpiryKeepsStats DEF StatNext
  <1> QED
    BY <1>1, <1>2

(* Wrong counts wear off: whatever readers, likes and comments store past  *)
(* each other, at rest the likes shown are those of the database, and the  *)
(* comments too unless some were written since the base was read           *)
(* (infra/cache/feed_stat_cache.go and action_state_cache.go).             *)
THEOREM CountsAreSettled == StatSpec => []CountsSettle
  <1>1. StatIInv => CountsSettle
    <2> SUFFICES ASSUME StatIInv, AtRest, snapshot = NoStat
                 PROVE  ShownStat.like = DbStat.like /\ (ShownStat.comment = DbStat.comment \/ behind)
      BY DEF CountsSettle
    <2>1. ~ResetOwed /\ step[Worker] = "idle"
      BY KindsApart DEF AtRest, ResetOwed
    <2>2. shards = 0 /\ (statBase # NoStat => statBase.like = Cardinality(likers))
      BY <2>1 DEF StatIInv, CountersRight
    <2>3. CASE statBase = NoStat
      BY <2>2, <2>3 DEF ShownStat
    <2>4. CASE statBase # NoStat
      <3>1. statBase \in Counts
        BY <2>4 DEF StatIInv, StatTypes
      <3>2. ShownStat = statBase
        BY <2>2, <2>4, <3>1, CountsTyped DEF ShownStat, StatIInv
      <3> QED
        BY <2>2, <2>4, <3>2 DEF DbStat, StatIInv, CommentsRight
    <2> QED
      BY <2>3, <2>4
  <1> QED
    BY <1>1, StatInitHolds, StatStepsKeepIInv, PTL DEF StatSpec

--------------------------------------------------------------------------------
(* RateLimit.                                                               *)
(* The token bucket                                                          *)

\* One interval fits into the burst, and multiplication does what it should.
LEMMA BucketSize ==
    ASSUME limited \in LimitKinds
    PROVE  /\ Interval \in Nat /\ Interval > 0 /\ Burst \in Nat /\ Burst > 0
           /\ Burst * Interval \in Nat /\ Interval <= Burst * Interval
           /\ \A n \in Nat : Interval * n \in Nat /\ Interval * (n + 1) = Interval * n + Interval
           /\ Interval * 0 = 0
  <1>1. Interval \in Nat /\ Interval > 0 /\ Burst \in Nat /\ Burst > 0
    BY LimitsPositive DEF Interval, Burst
  <1> HIDE DEF Interval, Burst
  <1>2. \A i, b \in Nat : b > 0 => b * i \in Nat /\ i <= b * i
    OBVIOUS
  <1>3. \A i, n \in Nat : i * n \in Nat /\ i * (n + 1) = i * n + i /\ i * 0 = 0
    OBVIOUS
  <1> QED
    BY <1>1, <1>2, <1>3

\* The calls admitted since a, as they are counted.
LEMMA AdmissionsCounted ==
    ASSUME LimitTypes, NEW a \in 0..time
    PROVE  /\ AdmittedIn(a, time) \in Nat
           /\ (\A i \in DOMAIN admitted : admitted[i] < a) => AdmittedIn(a, time) = 0
  <1> DEFINE S == {i \in DOMAIN admitted : a <= admitted[i] /\ admitted[i] <= time}
  <1>1. IsFiniteSet(S)
    <2>1. IsFiniteSet(DOMAIN admitted)
      BY FS_Interval DEF LimitTypes
    <2> QED
      BY <2>1, FS_Subset
  <1>2. Cardinality(S) \in Nat
    BY <1>1, FS_CardinalityType
  <1>3. (\A i \in DOMAIN admitted : admitted[i] < a) => S = {}
    BY DEF LimitTypes
  <1>4. Cardinality({}) = 0
    BY FS_EmptySet
  <1>5. AdmittedIn(a, time) = Cardinality(S)
    BY DEF AdmittedIn
  <1> HIDE DEF S
  <1> QED
    BY <1>2, <1>3, <1>4, <1>5

LEMMA LevelTyped ==
    ASSUME LimitTypes
    PROVE  LevelNow \in 0..(Burst * Interval)
  <1> DEFINE full == Burst * Interval
  <1>1. full \in Nat
    BY BucketSize DEF LimitTypes
  <1>2. visitor \in [level : 0..full, seen : 0..time] \cup {NoVisitor} /\ time \in Nat
    BY DEF LimitTypes
  <1>3. LevelNow = IF visitor = NoVisitor THEN full
                   ELSE IF visitor.level + (time - visitor.seen) > full THEN full
                   ELSE visitor.level + (time - visitor.seen)
    BY DEF LevelNow, Level
  <1> SUFFICES LevelNow \in 0..full
    OBVIOUS
  <1> HIDE DEF full
  <1> QED
    BY <1>1, <1>2, <1>3

LEMMA AllowKeepsBucket ==
    ASSUME LimitIInv, Allow
    PROVE  LimitIInv'
  <1> DEFINE full == Burst * Interval
  <1>1. /\ full \in Nat /\ Interval \in Nat /\ Interval <= full
        /\ time \in Nat /\ time' = time /\ limited' = limited /\ limited \in LimitKinds
        /\ Interval' = Interval /\ Burst' = Burst
        /\ admitted \in Seq(0..time)
    BY BucketSize DEF LimitIInv, LimitTypes, Allow, Interval, Burst
  <1>2. LevelNow \in 0..full
    BY LevelTyped DEF LimitIInv
  <1>3. \/ /\ LevelNow >= Interval
           /\ visitor' = [level |-> LevelNow - Interval, seen |-> time] /\ admitted' = Append(admitted, time)
        \/ /\ visitor' = [level |-> LevelNow, seen |-> time] /\ admitted' = admitted
    BY DEF Allow, LevelNow
  <1>4. visitor' \in [level : 0..full, seen : 0..time]
    <2> HIDE DEF full
    <2> QED
      BY <1>1, <1>2, <1>3
  <1>5. visitor' # NoVisitor
    <2> HIDE DEF full
    <2>1. visitor' \in [level : Nat, seen : Nat]
      BY <1>1, <1>4
    <2> QED
      BY <2>1, NoVisitorIsNone
  <1>6. admitted' \in Seq(0..time)
    <2>1. time \in 0..time
      BY <1>1
    <2>2. Append(admitted, time) \in Seq(0..time)
      BY <1>1, <2>1, AppendProperties
    <2> QED
      BY <1>1, <1>3, <2>2
  <1>7. LimitTypes'
    BY <1>1, <1>4, <1>6 DEF LimitTypes
  <1>8. SeenLast'
    <2>1. visitor'.seen = time
      BY <1>3
    <2>2. \A i \in DOMAIN admitted' : admitted'[i] <= time
      BY <1>1, <1>6
    <2> QED
      BY <2>1, <2>2 DEF SeenLast
  <1>9. LevelNow' = visitor'.level
    <2>1. LevelNow' = IF visitor'.level + (time - time) > full THEN full
                      ELSE visitor'.level + (time - time)
      BY <1>1, <1>3, <1>5 DEF LevelNow, Level
    <2> HIDE DEF full
    <2> QED
      BY <1>1, <1>4, <2>1
  <1>10. ASSUME NEW a \in 0..time, time - a <= IdleTTL \/ full <= IdleTTL
         PROVE  Interval * AdmittedIn(a, time)' + visitor'.level <= full + (time - a)
    <2>1. Interval * AdmittedIn(a, time) + LevelNow <= full + (time - a)
      BY <1>10 DEF LimitIInv, BucketBalance
    <2>2. AdmittedIn(a, time) \in Nat
      BY AdmissionsCounted DEF LimitIInv
    <2>3. CASE admitted' = Append(admitted, time) /\ LevelNow >= Interval /\ visitor'.level = LevelNow - Interval
      <3> DEFINE S == {i \in DOMAIN admitted : a <= admitted[i] /\ admitted[i] <= time}
                 T == {i \in DOMAIN admitted' : a <= admitted'[i] /\ admitted'[i] <= time}
      <3>1. T = S \cup {Len(admitted) + 1} /\ Len(admitted) + 1 \notin S
        BY <1>1, <2>3
      <3>2. IsFiniteSet(S)
        <4>1. IsFiniteSet(DOMAIN admitted)
          BY <1>1, FS_Interval
        <4> QED
          BY <4>1, FS_Subset
      <3>3. Cardinality(T) = Cardinality(S) + 1
        <4> HIDE DEF S, T
        <4> QED
          BY <3>1, <3>2, FS_AddElement
      <3>4. AdmittedIn(a, time)' = AdmittedIn(a, time) + 1
        BY <1>1, <3>3 DEF AdmittedIn
      <3> DEFINE n == AdmittedIn(a, time)
      <3>5. Interval * (n + 1) = Interval * n + Interval /\ Interval * n \in Nat
        BY <1>1, <2>2, BucketSize
      <3>6. Interval * n + LevelNow <= full + (time - a)
        BY <2>1
      <3>7. Interval * AdmittedIn(a, time)' = Interval * n + Interval
        BY <3>4, <3>5
      <3> HIDE DEF n, full
      <3> QED
        BY <1>1, <1>2, <2>3, <3>5, <3>6, <3>7
    <2>4. CASE admitted' = admitted /\ visitor'.level = LevelNow
      <3>1. AdmittedIn(a, time)' = AdmittedIn(a, time)
        BY <1>1, <2>4 DEF AdmittedIn
      <3> QED
        BY <2>1, <2>4, <3>1
    <2> QED
      BY <1>3, <2>3, <2>4
  <1>11. BucketBalance'
    BY <1>1, <1>9, <1>10 DEF BucketBalance
  <1> QED
    BY <1>7, <1>8, <1>11 DEF LimitIInv

LEMMA TimeKeepsBucket ==
    ASSUME LimitIInv, TimeGoesOn
    PROVE  LimitIInv'
  <1> DEFINE full == Burst * Interval
  <1>1. /\ full \in Nat /\ Interval \in Nat
        /\ time \in Nat /\ time' = time + 1 /\ limited' = limited /\ limited \in LimitKinds
        /\ Interval' = Interval /\ Burst' = Burst
        /\ admitted \in Seq(0..time) /\ admitted' = admitted /\ visitor' = visitor
        /\ IdleTTL \in Nat
    BY BucketSize, LimitsPositive DEF LimitIInv, LimitTypes, TimeGoesOn, Interval, Burst
  <1>2. LevelNow \in 0..full
    BY LevelTyped DEF LimitIInv
  <1>3. visitor \in [level : 0..full, seen : 0..time] \cup {NoVisitor}
    BY DEF LimitIInv, LimitTypes
  <1>4. LimitTypes'
    <2>1. visitor' \in [level : 0..full, seen : 0..(time + 1)] \cup {NoVisitor}
      BY <1>1, <1>3
    <2>2. admitted' \in Seq(0..(time + 1))
      BY <1>1
    <2> QED
      BY <1>1, <2>1, <2>2 DEF LimitTypes
  <1>5. SeenLast'
    BY <1>1 DEF LimitIInv, SeenLast
  <1>6. LevelNow' \in 0..full /\ LevelNow' <= LevelNow + 1
    <2>1. LevelNow = IF visitor = NoVisitor THEN full
                     ELSE IF visitor.level + (time - visitor.seen) > full THEN full
                     ELSE visitor.level + (time - visitor.seen)
      BY DEF LevelNow, Level
    <2>2. LevelNow' = IF visitor = NoVisitor THEN full
                      ELSE IF visitor.level + ((time + 1) - visitor.seen) > full THEN full
                      ELSE visitor.level + ((time + 1) - visitor.seen)
      <3>1. (Burst * Interval)' = full
        BY <1>1
      <3>2. CASE visitor = NoVisitor
        BY <1>1, <3>1, <3>2 DEF LevelNow
      <3>3. CASE visitor # NoVisitor
        <4>1. LevelNow' = Level(visitor, time)'
          BY <1>1, <3>3 DEF LevelNow
        <4>2. Level(visitor, time)' = IF visitor'.level + (time' - visitor'.seen) > (Burst * Interval)'
                                      THEN (Burst * Interval)'
                                      ELSE visitor'.level + (time' - visitor'.seen)
          BY DEF Level
        <4> QED
          BY <1>1, <3>1, <3>3, <4>1, <4>2
      <3> QED
        BY <3>2, <3>3
    <2> HIDE DEF full
    <2> QED
      BY <1>1, <1>3, <2>1, <2>2
  <1>7. ASSUME NEW a \in 0..(time + 1), (time + 1) - a <= IdleTTL \/ full <= IdleTTL
        PROVE  Interval * AdmittedIn(a, time)' + LevelNow' <= full + ((time + 1) - a)
    <2>1. CASE a = time + 1
      <3>1. \A i \in DOMAIN admitted : admitted[i] < a
        BY <1>1, <2>1
      <3>2. a \in 0..time'
        BY <1>1
      <3>3. AdmittedIn(a, time)' = 0
        <4>1. {i \in DOMAIN admitted' : a <= admitted'[i] /\ admitted'[i] <= time'} = {}
          BY <1>1, <2>1
        <4> QED
          BY <4>1, FS_EmptySet DEF AdmittedIn
      <3>4. Interval * AdmittedIn(a, time)' = 0
        BY <1>1, <3>3, BucketSize
      <3> HIDE DEF full
      <3> QED
        BY <1>1, <1>6, <2>1, <3>4
    <2>2. CASE a \in 0..time
      <3>1. time - a <= IdleTTL \/ full <= IdleTTL
        <4> HIDE DEF full
        <4> QED
          BY <1>1, <1>7
      <3>2. Interval * AdmittedIn(a, time) + LevelNow <= full + (time - a)
        BY <2>2, <3>1 DEF LimitIInv, BucketBalance
      <3>3. AdmittedIn(a, time)' = AdmittedIn(a, time)
        <4>1. {i \in DOMAIN admitted' : a <= admitted'[i] /\ admitted'[i] <= time'}
                = {i \in DOMAIN admitted : a <= admitted[i] /\ admitted[i] <= time}
          BY <1>1
        <4> QED
          BY <4>1 DEF AdmittedIn
      <3>4. Interval * AdmittedIn(a, time) \in Nat
        BY <1>1, <2>2, AdmissionsCounted, BucketSize DEF LimitIInv
      <3> DEFINE n == Interval * AdmittedIn(a, time)
      <3>5. Interval * AdmittedIn(a, time)' = n /\ n + LevelNow <= full + (time - a) /\ n \in Nat
        BY <3>2, <3>3, <3>4
      <3> HIDE DEF n, full
      <3> QED
        BY <1>1, <1>2, <1>6, <3>5
    <2> QED
      BY <1>1, <2>1, <2>2
  <1>8. BucketBalance'
    <2>1. time' = time + 1 /\ Interval' = Interval /\ Burst' = Burst
      BY <1>1
    <2>2. (Burst * Interval)' = full
      BY <2>1
    <2> SUFFICES ASSUME NEW a \in 0..time', time' - a <= IdleTTL \/ (Burst * Interval)' <= IdleTTL
                 PROVE  (Interval * AdmittedIn(a, time) + LevelNow)' <= (Burst * Interval)' + (time' - a)
      BY DEF BucketBalance
    <2>3. (time + 1) - a <= IdleTTL \/ full <= IdleTTL
      BY <2>1, <2>2
    <2>4. a \in 0..(time + 1)
      BY <2>1
    <2>5. Interval * AdmittedIn(a, time)' + LevelNow' <= full + ((time + 1) - a)
      BY <1>7, <2>3, <2>4
    <2> HIDE DEF full
    <2> QED
      BY <2>1, <2>2, <2>5
  <1> QED
    BY <1>4, <1>5, <1>8 DEF LimitIInv

LEMMA CleanupKeepsBucket ==
    ASSUME LimitIInv, CleanupIdle
    PROVE  LimitIInv'
  <1> DEFINE full == Burst * Interval
  <1>1. /\ full \in Nat /\ Interval \in Nat
        /\ time \in Nat /\ time' = time /\ limited' = limited /\ limited \in LimitKinds
        /\ Interval' = Interval /\ Burst' = Burst
        /\ admitted \in Seq(0..time) /\ admitted' = admitted
        /\ IdleTTL \in Nat
    BY BucketSize, LimitsPositive DEF LimitIInv, LimitTypes, CleanupIdle, Interval, Burst
  <1>2. visitor \in [level : 0..full, seen : 0..time] \cup {NoVisitor}
    BY DEF LimitIInv, LimitTypes
  <1>3. CASE visitor' = visitor
    BY <1>1, <1>3 DEF LimitIInv, LimitTypes, SeenLast, BucketBalance, AdmittedIn, LevelNow, Level
  <1>4. CASE visitor # NoVisitor /\ time - visitor.seen > IdleTTL /\ visitor' = NoVisitor
    <2>1. LimitTypes' /\ SeenLast'
      BY <1>1, <1>4 DEF LimitTypes, SeenLast
    <2>2. LevelNow' = full
      BY <1>1, <1>4 DEF LevelNow
    <2>3. ASSUME NEW a \in 0..time, time - a <= IdleTTL \/ full <= IdleTTL
          PROVE  Interval * AdmittedIn(a, time)' + full <= full + (time - a)
      <3>1. AdmittedIn(a, time)' = AdmittedIn(a, time)
        BY <1>1 DEF AdmittedIn
      <3>2. CASE a <= visitor.seen
        <4>1. full <= IdleTTL
          <5> HIDE DEF full
          <5> QED
            BY <1>1, <1>2, <1>4, <2>3, <3>2
        <4>2. LevelNow = full
          <5>1. LevelNow = IF visitor.level + (time - visitor.seen) > full THEN full
                           ELSE visitor.level + (time - visitor.seen)
            BY <1>4 DEF LevelNow, Level
          <5> HIDE DEF full
          <5> QED
            BY <1>1, <1>2, <1>4, <4>1, <5>1
        <4>3. Interval * AdmittedIn(a, time) + LevelNow <= full + (time - a)
          BY <2>3 DEF LimitIInv, BucketBalance
        <4> QED
          BY <3>1, <4>2, <4>3
      <3>3. CASE a > visitor.seen
        <4>1. \A i \in DOMAIN admitted : admitted[i] < a
          <5>1. visitor.seen \in Nat
            BY <1>2, <1>4
          <5>2. \A i \in DOMAIN admitted : admitted[i] \in 0..time /\ admitted[i] <= visitor.seen
            BY <1>1, <1>4 DEF LimitIInv, SeenLast
          <5> QED
            BY <1>1, <3>3, <5>1, <5>2
        <4>2. AdmittedIn(a, time) = 0
          BY <4>1, AdmissionsCounted DEF LimitIInv
        <4>3. Interval * AdmittedIn(a, time)' = 0
          BY <1>1, <3>1, <4>2, BucketSize
        <4> HIDE DEF full
        <4> QED
          BY <1>1, <4>3
      <3> QED
        BY <1>1, <1>2, <1>4, <3>2, <3>3
    <2>4. BucketBalance'
      BY <1>1, <2>2, <2>3 DEF BucketBalance
    <2> QED
      BY <2>1, <2>4 DEF LimitIInv
  <1> QED
    BY <1>3, <1>4 DEF CleanupIdle

\* From the balance to the number of calls.
LEMMA BalanceBounds ==
    ASSUME NEW i \in Nat, i > 0, NEW b \in Nat, NEW n \in Nat, NEW d \in Nat, NEW l \in Nat,
           i * n + l <= b * i + d
    PROVE  n <= b + d \div i
  <1> DEFINE q == d \div i
  <1>1. q \in Nat /\ d < i * (q + 1)
    OBVIOUS
  <1> HIDE DEF q
  <1>2. i * n < i * (b + q + 1)
    <2>1. i * (b + q + 1) = b * i + i * (q + 1)
      BY <1>1
    <2>2. i * n \in Nat /\ b * i \in Nat /\ i * (q + 1) \in Nat
      BY <1>1
    <2> QED
      BY <1>1, <2>1, <2>2
  <1>3. n < b + q + 1
    <2>1. \A x, y \in Nat : x >= y => i * x >= i * y
      OBVIOUS
    <2>2. i * n \in Nat /\ i * (b + q + 1) \in Nat /\ b + q + 1 \in Nat
      BY <1>1
    <2> QED
      BY <1>1, <1>2, <2>1, <2>2
  <1> QED
    BY <1>1, <1>3 DEF q

LEMMA BucketIsFull ==
    ASSUME LimitInit
    PROVE  LimitIInv
  <1> DEFINE full == Burst * Interval
  <1>1. /\ full \in Nat /\ limited \in LimitKinds /\ visitor = NoVisitor /\ time = 0
        /\ admitted = <<>> /\ IdleTTL \in Nat
    BY BucketSize, LimitsPositive DEF LimitInit
  <1>2. LimitTypes /\ SeenLast
    BY <1>1 DEF LimitTypes, SeenLast
  <1>3. \A a \in 0..time : a = 0 /\ AdmittedIn(a, time) = 0
    BY <1>1, <1>2, AdmissionsCounted
  <1>4. Interval * 0 = 0
    BY <1>1, BucketSize
  <1>5. LevelNow = full
    BY <1>1 DEF LevelNow
  <1>6. BucketBalance
    <2> SUFFICES ASSUME NEW a \in 0..time
                 PROVE  Interval * AdmittedIn(a, time) + LevelNow <= full + (time - a)
      BY DEF BucketBalance
    <2>1. a = 0 /\ Interval * AdmittedIn(a, time) = 0
      BY <1>3, <1>4
    <2> HIDE DEF full
    <2> QED
      BY <1>1, <1>5, <2>1
  <1> QED
    BY <1>2, <1>6 DEF LimitIInv

LEMMA BucketIsKept ==
    ASSUME LimitIInv, [LimitNext]_limitVars
    PROVE  LimitIInv'
  <1>1. ASSUME limitVars' = limitVars PROVE LimitIInv'
    BY <1>1 DEF limitVars, LimitIInv, LimitTypes, SeenLast, BucketBalance, AdmittedIn, LevelNow,
                Level, Interval, Burst
  <1> QED
    BY AllowKeepsBucket, TimeKeepsBucket, CleanupKeepsBucket, <1>1 DEF LimitNext

(* A client is admitted no more than the burst and one call for each       *)
(* interval, over any time no longer than visitorIdleTTL, and over any     *)
(* time at all when a bucket fills up within it, although idle clients are *)
(* forgotten (interfaces/http/middleware/rate_limit.go): for any interval, *)
(* burst and idle time.                                                    *)
THEOREM AdmissionsAreBounded == LimitSpec => []AdmissionsBounded
  <1>1. LimitIInv => AdmissionsBounded
    <2> SUFFICES ASSUME LimitIInv, NEW a \in 0..time,
                        time - a <= IdleTTL \/ Burst * Interval <= IdleTTL
                 PROVE  AdmittedIn(a, time) <= Burst + (time - a) \div Interval
      BY DEF AdmissionsBounded
    <2>1. Interval \in Nat /\ Interval > 0 /\ Burst \in Nat /\ time - a \in Nat
      BY BucketSize DEF LimitIInv, LimitTypes
    <2>5. AdmittedIn(a, time) \in Nat
      BY AdmissionsCounted DEF LimitIInv
    <2>2. LevelNow \in Nat
      BY LevelTyped, BucketSize DEF LimitIInv, LimitTypes
    <2>3. Interval * AdmittedIn(a, time) + LevelNow <= Burst * Interval + (time - a)
      BY DEF LimitIInv, BucketBalance
    <2> QED
      BY <2>1, <2>2, <2>3, <2>5, BalanceBounds
  <1> QED
    BY <1>1, BucketIsFull, BucketIsKept, PTL DEF LimitSpec

--------------------------------------------------------------------------------
(* Embeddings.                                                              *)

LEMMA IdsAreRanked ==
    ASSUME NEW S \in SUBSET Int, IsFiniteSet(S)
    PROVE  LET s == RankedBy(S, SmallerId)
           IN  /\ s \in Seq(S) /\ Len(s) = Cardinality(S)
               /\ \A x \in S : \E i \in 1..Len(s) : s[i] = x
               /\ \A i, j \in 1..Len(s) : i < j => s[i] < s[j]
  <1> DEFINE R == {p \in S \X S : p[1] < p[2]}
             s == RankedBy(S, SmallerId)
  <1>1. \A x, y \in S : <<y, x>> \in R <=> y < x
    OBVIOUS
  <1>2. StrictOrder(S, R)
    <2> HIDE DEF R
    <2> QED
      BY <1>1 DEF StrictOrder
  <1>3. \A x \in S : {y \in S : <<y, x>> \in R} = {y \in S : SmallerId(y, x)}
    BY DEF SmallerId
  <1>4. s = [i \in 1..Cardinality(S) |-> s[i]]
    <2> DEFINE e(i) == CHOOSE x \in S : Cardinality({y \in S : SmallerId(y, x)}) = i - 1
    <2>1. s = [i \in 1..Cardinality(S) |-> e(i)]
      BY DEF RankedBy
    <2> HIDE DEF e, s
    <2> QED
      BY <2>1
  <1>5. ASSUME NEW i \in 1..Cardinality(S), \E x \in S : Cardinality({y \in S : <<y, x>> \in R}) = i - 1
        PROVE  s[i] \in S /\ Cardinality({y \in S : <<y, s[i]>> \in R}) = i - 1
    <2>1. \E x \in S : Cardinality({y \in S : SmallerId(y, x)}) = i - 1
      BY <1>3, <1>5
    <2>2. s[i] = CHOOSE x \in S : Cardinality({y \in S : SmallerId(y, x)}) = i - 1
      BY DEF RankedBy
    <2>3. s[i] \in S /\ Cardinality({y \in S : SmallerId(y, s[i])}) = i - 1
      BY <2>1, <2>2
    <2> QED
      BY <1>3, <2>3
  <1> HIDE DEF R, s
  <1>6. /\ s \in Seq(S) /\ Len(s) = Cardinality(S)
        /\ \A x \in S : \E i \in 1..Len(s) : s[i] = x
        /\ \A i, j \in 1..Len(s) : i < j => <<s[i], s[j]>> \in R
    BY <1>2, <1>4, <1>5, EveryRankIsTaken
  <1>7. \A i \in 1..Len(s) : s[i] \in S
    BY <1>6
  <1>8. \A i, j \in 1..Len(s) : i < j => s[i] < s[j]
    BY <1>1, <1>6, <1>7
  <1> QED
    BY <1>6, <1>8 DEF s

LEMMA EmbeddingInitially == EmbeddingInit => EmbeddingIInv
  <1> SUFFICES ASSUME EmbeddingInit PROVE EmbeddingIInv
    OBVIOUS
  <1>1. EmbeddingTypes
    BY EmptySeq DEF EmbeddingInit, EmbeddingTypes, NotStarted
  <1> QED
    BY <1>1 DEF EmbeddingInit, EmbeddingIInv, NotStarted, PromisesWereRows, PageAscends, SavedSoFar,
                RestIsBehind, RebuildCovers

\* The vectors only grow, the rebuild stands still, and no free id of a promise
\* is published.
LEMMA ClipsMayChange ==
    ASSUME EmbeddingIInv, UNCHANGED rebuild, vectors \subseteq vectors',
           row' \in [Clips -> {"none", "published", "deleted"}],
           \A v \in Clips : row[v] # "none" => row'[v] # "none" /\ (row'[v] = "published" => row[v] = "published")
    PROVE  EmbeddingIInv'
  <1>1. EmbeddingTypes' /\ PageAscends'
    BY DEF EmbeddingIInv, EmbeddingTypes, PageAscends
  <1>2. rebuild.promised \subseteq Clips
    BY DEF EmbeddingIInv, EmbeddingTypes
  <1>3. PromisesWereRows'
    BY <1>2 DEF EmbeddingIInv, PromisesWereRows
  <1>4. (rebuild.promised \cap PublishedClips)' \subseteq rebuild.promised \cap PublishedClips
    BY <1>2 DEF EmbeddingIInv, PromisesWereRows, PublishedClips
  <1>5. SavedSoFar'
    BY <1>4 DEF EmbeddingIInv, SavedSoFar
  <1>6. RestIsBehind'
    BY <1>4 DEF EmbeddingIInv, RestIsBehind
  <1>7. RebuildCovers'
    BY <1>4 DEF EmbeddingIInv, RebuildCovers
  <1> QED
    BY <1>1, <1>3, <1>5, <1>6, <1>7 DEF EmbeddingIInv

LEMMA EmbeddingStart ==
    ASSUME EmbeddingIInv, StartRebuild
    PROVE  EmbeddingIInv'
  <1>1. /\ rebuild' = [at |-> "list", after |-> 0, page |-> <<>>, size |-> 0, promised |-> PublishedClips]
        /\ UNCHANGED <<row, vectors>>
    BY DEF StartRebuild, NotStarted
  <1>2. EmbeddingTypes'
    BY <1>1, EmptySeq DEF EmbeddingIInv, EmbeddingTypes, PublishedClips
  <1>3. PromisesWereRows' /\ PageAscends' /\ RestIsBehind' /\ RebuildCovers'
    BY <1>1 DEF PromisesWereRows, PageAscends, RestIsBehind, RebuildCovers, PublishedClips
  <1>4. SavedSoFar'
    BY <1>1, ClipsAreNumbered DEF SavedSoFar, PublishedClips
  <1> QED
    BY <1>2, <1>3, <1>4 DEF EmbeddingIInv

LEMMA EmbeddingFails ==
    ASSUME EmbeddingIInv, NEW which, Fails(which)
    PROVE  EmbeddingIInv'
  <1>1. rebuild' = [rebuild EXCEPT !.at = "failed"] /\ UNCHANGED <<row, vectors>>
    BY DEF Fails
  <1> QED
    BY <1>1 DEF EmbeddingIInv, EmbeddingTypes, PromisesWereRows, PageAscends, SavedSoFar, RestIsBehind,
                RebuildCovers

LEMMA EmbeddingList ==
    ASSUME EmbeddingIInv, ListVideoTexts
    PROVE  EmbeddingIInv'
  <1> DEFINE beyond == {v \in PublishedClips : v > rebuild.after}
             ids == RankedBy(beyond, SmallerId)
             n == Min({BatchSize, Len(ids)})
             texts == SubSeq(ids, 1, n)
             then == IF texts = <<>> THEN "done" ELSE "save"
  <1>1. /\ rebuild.at = "list"
        /\ rebuild' = [rebuild EXCEPT !.at = then, !.page = texts, !.size = Len(texts)]
        /\ UNCHANGED <<row, vectors>>
    BY DEF ListVideoTexts
  <1>2. beyond \in SUBSET Int /\ beyond \subseteq Clips /\ IsFiniteSet(beyond)
    <2>1. beyond \subseteq Clips /\ Clips \subseteq Int
      BY ClipsAreNumbered DEF PublishedClips
    <2> HIDE DEF beyond
    <2> QED
      BY <2>1, ClipsAreNumbered, FS_Subset
  <1>3. /\ ids \in Seq(beyond) /\ Len(ids) \in Nat
        /\ \A x \in beyond : \E i \in 1..Len(ids) : ids[i] = x
        /\ \A i, j \in 1..Len(ids) : i < j => ids[i] < ids[j]
    <2> HIDE DEF beyond
    <2> QED
      BY <1>2, IdsAreRanked, LenProperties
  <1> HIDE DEF ids
  <1>4. n \in Nat /\ n <= Len(ids) /\ (n = Len(ids) \/ n = BatchSize)
    BY <1>3, SmallerOfTwo, BatchIsNumber
  <1> HIDE DEF n
  <1>5. texts \in Seq(beyond) /\ Len(texts) = n /\ \A i \in 1..n : texts[i] = ids[i]
    <2> HIDE DEF beyond
    <2> QED
      BY <1>3, <1>4, FirstOnes
  <1> HIDE DEF texts
  <1>6. texts \in Seq(Clips)
    BY <1>2, <1>5, SeqMonotonic
  <1>7. \A i \in 1..Len(texts) : texts[i] \in beyond
    BY <1>5
  <1>8. \A i, j \in 1..Len(texts) : i < j => texts[i] < texts[j]
    <2>1. 1..Len(texts) = 1..n /\ 1..n \subseteq 1..Len(ids)
      BY <1>3, <1>4, <1>5
    <2> HIDE DEF beyond
    <2> QED
      BY Zenon, <1>3, <1>5, <2>1
  <1>9. ASSUME NEW v \in beyond
        PROVE  \/ \E i \in 1..Len(texts) : texts[i] = v
               \/ Len(texts) = BatchSize /\ \A i \in 1..Len(texts) : texts[i] < v
    <2>1. PICK k \in 1..Len(ids) : ids[k] = v
      BY <1>3
    <2>2. CASE k <= n
      <3>1. k \in 1..Len(texts) /\ texts[k] = v
        BY <1>4, <1>5, <2>1, <2>2
      <3> QED
        BY <3>1
    <2>3. CASE n < k
      <3>1. n = BatchSize
        BY <1>3, <1>4, <2>3
      <3>2. ASSUME NEW i \in 1..Len(texts) PROVE texts[i] < v
        <4>1. i \in 1..n /\ i \in 1..Len(ids) /\ i < k
          BY <1>3, <1>4, <1>5, <2>3
        <4> QED
          BY <1>3, <1>5, <2>1, <4>1
      <3> QED
        BY <1>5, <3>1, <3>2
    <2> QED
      BY <1>4, <2>2, <2>3
  <1>10. Len(texts) \in Nat /\ (texts = <<>> <=> Len(texts) = 0)
    BY <1>6, LenProperties, EmptySeq
  <1>11. EmbeddingTypes'
    BY <1>1, <1>6, <1>10 DEF EmbeddingIInv, EmbeddingTypes
  <1>12. /\ rebuild'.page = texts /\ rebuild'.size = Len(texts) /\ rebuild'.at = then
         /\ rebuild'.after = rebuild.after /\ rebuild'.promised = rebuild.promised
    BY <1>1 DEF EmbeddingIInv, EmbeddingTypes
  <1>13. PublishedClips' = PublishedClips /\ rebuild.after \in Nat
    BY <1>1 DEF PublishedClips, EmbeddingIInv, EmbeddingTypes
  <1>14. PromisesWereRows'
    BY <1>1, <1>12 DEF EmbeddingIInv, PromisesWereRows
  <1>15. PageAscends'
    BY <1>7, <1>8, <1>12 DEF PageAscends
  <1>16. SavedSoFar'
    BY <1>1, <1>12, <1>13 DEF EmbeddingIInv, SavedSoFar
  <1>17. \A v \in PublishedClips : v <= rebuild.after \/ v \in beyond
    BY <1>13, ClipsAreNumbered DEF PublishedClips
  <1> HIDE DEF beyond
  <1>18. RestIsBehind'
    BY <1>9, <1>12, <1>13, <1>17 DEF RestIsBehind
  <1>19. RebuildCovers'
    <2> SUFFICES ASSUME texts = <<>>, NEW v \in rebuild.promised \cap PublishedClips
                 PROVE  <<v, Model>> \in vectors
      BY <1>1, <1>12, <1>13 DEF RebuildCovers
    <2>1. v \notin beyond
      BY <1>9, <1>10, BatchIsNumber
    <2> QED
      BY <1>1, <1>17, <2>1 DEF EmbeddingIInv, SavedSoFar
  <1> QED
    BY <1>11, <1>14, <1>15, <1>16, <1>18, <1>19 DEF EmbeddingIInv

LEMMA EmbeddingSave ==
    ASSUME EmbeddingIInv, SaveVideoText
    PROVE  EmbeddingIInv'
  <1> DEFINE v == Head(rebuild.page)
             rest == Tail(rebuild.page)
             then == IF rest # <<>> THEN "save" ELSE IF rebuild.size < BatchSize THEN "done" ELSE "list"
  <1>1. /\ rebuild.at = "save"
        /\ rebuild' = [rebuild EXCEPT !.page = rest, !.after = v, !.at = then]
        /\ vectors' = vectors \cup {<<v, Model>>} /\ UNCHANGED row
    BY DEF SaveVideoText, GenerateForPublishedVideo, Saved, NewVideoEmbedding
  <1>2. /\ rebuild.page \in Seq(Clips) /\ rebuild.page # <<>>
        /\ rebuild.after \in Nat /\ rebuild.size \in Nat
        /\ \A i \in 1..Len(rebuild.page) : rebuild.page[i] > rebuild.after
        /\ \A i, j \in 1..Len(rebuild.page) : i < j => rebuild.page[i] < rebuild.page[j]
    BY <1>1 DEF EmbeddingIInv, EmbeddingTypes, PageAscends
  <1>3. /\ v = rebuild.page[1] /\ v \in Clips /\ rest \in Seq(Clips)
        /\ Len(rest) = Len(rebuild.page) - 1 /\ Len(rest) \in Nat
        /\ \A i \in 1..Len(rest) : rest[i] = rebuild.page[i + 1]
        /\ 1 \in 1..Len(rebuild.page) /\ Len(rebuild.page) \in Nat
    BY <1>2, HeadTailProperties, EmptySeq, LenProperties
  <1>4. rest = <<>> <=> Len(rest) = 0
    BY <1>3, EmptySeq
  <1>5. v \in Nat
    BY <1>3, ClipsAreNumbered
  <1> HIDE DEF v, rest
  <1>6. EmbeddingTypes'
    BY <1>1, <1>3, <1>5 DEF EmbeddingIInv, EmbeddingTypes
  <1>7. /\ rebuild'.page = rest /\ rebuild'.after = v /\ rebuild'.at = then
        /\ rebuild'.size = rebuild.size /\ rebuild'.promised = rebuild.promised
    BY <1>1 DEF EmbeddingIInv, EmbeddingTypes
  <1>8. PublishedClips' = PublishedClips
    BY <1>1 DEF PublishedClips
  <1>9. PromisesWereRows'
    BY <1>1, <1>7 DEF EmbeddingIInv, PromisesWereRows
  <1>10. \A i \in 1..Len(rest) : i + 1 \in 1..Len(rebuild.page) /\ rest[i] = rebuild.page[i + 1]
    BY <1>3
  <1>11. \A i \in 1..Len(rest) : rest[i] > v
    <2> SUFFICES ASSUME NEW i \in 1..Len(rest) PROVE rest[i] > v
      OBVIOUS
    <2>1. rebuild.page[1] < rebuild.page[i + 1]
      BY <1>2, <1>3, <1>10
    <2>2. rest[i] \in Clips
      BY <1>3
    <2> QED
      BY <1>3, <1>5, <1>10, <2>1, <2>2, ClipsAreNumbered
  <1>12. PageAscends'
    <2>1. \A i, j \in 1..Len(rest) : i < j => rest[i] < rest[j]
      BY <1>2, <1>10
    <2> QED
      BY <1>7, <1>11, <2>1 DEF PageAscends
  <1>13. ASSUME NEW w \in rebuild.promised \cap PublishedClips
         PROVE  /\ w \in Int
                /\ w <= v => <<w, Model>> \in vectors'
                /\ \/ w <= v
                   \/ \E i \in 1..Len(rest) : rest[i] = w
                   \/ rebuild.size = BatchSize /\ \A i \in 1..Len(rest) : rest[i] < w
                /\ rest = <<>> /\ rebuild.size < BatchSize => w <= v
    <2>1. w \in Nat
      BY ClipsAreNumbered DEF PublishedClips
    <2>2. CASE w <= rebuild.after
      <3>1. <<w, Model>> \in vectors
        BY <1>1, <2>2 DEF EmbeddingIInv, SavedSoFar
      <3>2. rebuild.after < v
        BY <1>2, <1>3
      <3> QED
        BY <1>1, <1>2, <1>5, <2>1, <2>2, <3>1, <3>2
    <2>3. CASE \E i \in 1..Len(rebuild.page) : rebuild.page[i] = w
      <3>1. PICK i \in 1..Len(rebuild.page) : rebuild.page[i] = w
        BY <2>3
      <3>2. CASE i = 1
        BY <1>1, <1>3, <2>1, <3>1, <3>2
      <3>3. CASE i # 1
        <4>1. i - 1 \in 1..Len(rest) /\ rest[i - 1] = w
          BY <1>3, <3>1, <3>3
        <4>2. w > v
          BY <1>11, <4>1
        <4> QED
          BY <1>4, <1>5, <2>1, <4>1, <4>2
      <3> QED
        BY <3>2, <3>3
    <2>4. CASE rebuild.size = BatchSize /\ \A i \in 1..Len(rebuild.page) : rebuild.page[i] < w
      <3>1. v < w
        BY <1>3, <2>4
      <3>2. \A i \in 1..Len(rest) : rest[i] < w
        BY <1>10, <2>4
      <3> QED
        BY <1>5, <2>1, <2>4, <3>1, <3>2, BatchIsNumber
    <2> QED
      BY <1>1, <2>2, <2>3, <2>4 DEF EmbeddingIInv, RestIsBehind
  <1>14. SavedSoFar'
    BY <1>7, <1>8, <1>13 DEF SavedSoFar
  <1>15. RestIsBehind'
    BY <1>7, <1>8, <1>13 DEF RestIsBehind
  <1>16. RebuildCovers'
    BY <1>7, <1>8, <1>13 DEF RebuildCovers
  <1> QED
    BY <1>6, <1>9, <1>12, <1>14, <1>15, <1>16 DEF EmbeddingIInv

LEMMA EmbeddingStep ==
    ASSUME EmbeddingIInv, [EmbeddingNext]_embeddingVars
    PROVE  EmbeddingIInv'
  <1>0. row \in [Clips -> {"none", "published", "deleted"}]
    BY DEF EmbeddingIInv, EmbeddingTypes
  <1>1. CASE PublishClip
    <2>1. PICK v \in Clips :
              /\ row[v] = "none" /\ row' = [row EXCEPT ![v] = "published"]
              /\ vectors \subseteq vectors'
      BY <1>1 DEF PublishClip
    <2> QED
      BY <1>0, <1>1, <2>1, ClipsMayChange DEF PublishClip
  <1>2. CASE DeleteClip
    <2>1. PICK v \in PublishedClips : row' = [row EXCEPT ![v] = "deleted"]
      BY <1>2 DEF DeleteClip
    <2>2. v \in Clips /\ row[v] = "published"
      BY DEF PublishedClips
    <2> QED
      BY <1>0, <1>2, <2>1, <2>2, ClipsMayChange DEF DeleteClip
  <1>3. CASE HandleVideoPublished
    <2>1. vectors \subseteq vectors'
      BY <1>3 DEF HandleVideoPublished, GenerateForPublishedVideo, Saved
    <2> QED
      BY <1>0, <1>3, <2>1, ClipsMayChange DEF HandleVideoPublished
  <1>4. CASE StartRebuild
    BY <1>4, EmbeddingStart
  <1>5. CASE ListVideoTexts
    BY <1>5, EmbeddingList
  <1>6. CASE SaveVideoText
    BY <1>6, EmbeddingSave
  <1>7. CASE Fails("list")
    BY <1>7, EmbeddingFails
  <1>8. CASE Fails("save")
    BY <1>8, EmbeddingFails
  <1>9. CASE UNCHANGED embeddingVars
    BY <1>0, <1>9, ClipsMayChange DEF embeddingVars
  <1> QED
    BY <1>1, <1>2, <1>3, <1>4, <1>5, <1>6, <1>7, <1>8, <1>9 DEF EmbeddingNext

(* A rebuild that ends without an error has written the vector of every    *)
(* video that was published when it began and still is: application/       *)
(* embedding/service.go RebuildPublishedVideos.                            *)
THEOREM RebuildsCoverPublished == EmbeddingSpec => []RebuildCovers
  <1>1. EmbeddingIInv => RebuildCovers
    BY DEF EmbeddingIInv
  <1> QED
    BY <1>1, EmbeddingInitially, EmbeddingStep, PTL DEF EmbeddingSpec

--------------------------------------------------------------------------------
(* HotWindow.                                                               *)

LEMMA TotalIsNumber ==
    ASSUME NEW S, IsFiniteSet(S), NEW f \in [S -> Int]
    PROVE  SumFunction(f) \in Int
  <1> DEFINE Is(h) == h = [s \in SUBSET S |-> IF s = {} THEN 0
                                              ELSE LET x == CHOOSE y \in s : TRUE
                                                   IN  f[x] + h[s \ {x}]]
             iter == CHOOSE h : Is(h)
             choice == [s \in SUBSET S |-> CHOOSE y \in s : TRUE]
             add == [p \in Int \X S |-> f[p[2]] + p[1]]
  <1>1. SumFunction(f) = iter[S]
    <2>1. DOMAIN f = S
      OBVIOUS
    <2> QED
      BY <2>1 DEF SumFunction, SumFunctionOnSet, FoldFunctionOnSet, MapThenFoldSet
  <1>2. \A s \in SUBSET S : s # {} => choice[s] \in s /\ choice[s] = CHOOSE y \in s : TRUE
    OBVIOUS
  <1>3. \A r \in Int, x \in S : add[<<r, x>>] = f[x] + r /\ add[<<r, x>>] \in Int
    OBVIOUS
  <1> HIDE DEF add, choice
  <1>4. PICK g \in [SUBSET S -> Int] : IsFold(g, S, 0, choice, add)
    <2>1. ChoosesFrom(S, choice)
      BY <1>2 DEF ChoosesFrom
    <2>2. StaysIn(Int, S, add)
      BY <1>3 DEF StaysIn
    <2>3. 0 \in Int
      OBVIOUS
    <2> QED
      BY <2>1, <2>2, <2>3, FoldIsDefined
  <1>5. \A s \in SUBSET S : g[s] = IF s = {} THEN 0 ELSE f[choice[s]] + g[s \ {choice[s]}]
    <2> SUFFICES ASSUME NEW s \in SUBSET S, s # {}
                 PROVE  g[s] = f[choice[s]] + g[s \ {choice[s]}]
      BY <1>4 DEF IsFold
    <2>1. choice[s] \in S /\ s \ {choice[s]} \in SUBSET S
      BY <1>2
    <2>2. g[s \ {choice[s]}] \in Int
      BY <2>1
    <2> QED
      BY <1>3, <1>4, <2>1, <2>2 DEF IsFold
  <1>6. Is(g)
    BY <1>2, <1>5
  <1>7. Is(iter)
    BY <1>6
  <1>8. \A s \in SUBSET S : iter[s] = IF s = {} THEN 0 ELSE f[choice[s]] + iter[s \ {choice[s]}]
    BY ZenonT(60), <1>2, <1>7
  <1> HIDE DEF iter, Is
  <1> DEFINE T == {s \in SUBSET S : iter[s] \in Int}
  <1>9. \A n \in Nat : \A s \in SUBSET S : Cardinality(s) = n => iter[s] \in Int
    <2> DEFINE M == {n \in Nat : \A s \in SUBSET S : Cardinality(s) = n => iter[s] \in Int}
    <2>1. 0 \in M
      <3>1. \A s \in SUBSET S : Cardinality(s) = 0 => s = {}
        BY FS_Subset, FS_EmptySet
      <3>2. \A s \in SUBSET S : Cardinality(s) = 0 => iter[s] \in Int
        <4> SUFFICES ASSUME NEW s \in SUBSET S, Cardinality(s) = 0 PROVE iter[s] \in Int
          OBVIOUS
        <4>1. s = {}
          BY <3>1
        <4>2. iter[s] = 0
          BY <1>8, <4>1
        <4> QED
          BY <4>2
      <3> QED
        BY <3>2
    <2>2. ASSUME NEW n \in M PROVE n + 1 \in M
      <3> SUFFICES ASSUME NEW s \in SUBSET S, Cardinality(s) = n + 1 PROVE iter[s] \in Int
        OBVIOUS
      <3>1. s # {}
        <4> SUFFICES ASSUME s = {} PROVE FALSE
          OBVIOUS
        <4>1. n \in Nat /\ Cardinality(s) = 0
          BY FS_EmptySet
        <4>2. n + 1 = 0
          BY <4>1
        <4> QED
          BY <4>1, <4>2
      <3> DEFINE x == choice[s]
      <3>2. x \in s /\ x \in S
        BY <1>2, <3>1
      <3> HIDE DEF x
      <3>3. Cardinality(s \ {x}) = n /\ s \ {x} \in SUBSET S
        <4>1. IsFiniteSet(s) /\ n \in Nat
          BY FS_Subset
        <4>2. Cardinality(s \ {x}) = Cardinality(s) - 1
          BY <3>2, <4>1, FS_RemoveElement
        <4> QED
          BY <4>1, <4>2
      <3>4. iter[s \ {x}] \in Int /\ f[x] \in Int
        BY <3>2, <3>3
      <3> QED
        BY SMTT(30), <1>8, <3>1, <3>4 DEF x
    <2>3. M = Nat
      <3> HIDE DEF M
      <3>1. M \in SUBSET Nat
        BY DEF M
      <3> QED
        BY <2>1, <2>2, <3>1, FromZeroOn
    <2> QED
      BY <2>3
  <1>10. Cardinality(S) \in Nat
    BY FS_CardinalityType
  <1> QED
    BY <1>1, <1>9, <1>10

LEMMA RowsOfScores ==
    ASSUME NEW w, AreScores(w)
    PROVE  LET pairs == {<<w[v], v>> : v \in DOMAIN w}
           IN  /\ pairs \in SUBSET (Int \X Int) /\ IsFiniteSet(pairs)
               /\ \A p \in pairs : p[2] \in DOMAIN w /\ p = <<w[p[2]], p[2]>>
               /\ \A v \in DOMAIN w : <<w[v], v>> \in pairs /\ w[v] \in Int /\ v \in Int
  <1> DEFINE pairs == {<<w[v], v>> : v \in DOMAIN w}
  <1>1. \A v \in DOMAIN w : <<w[v], v>> \in pairs /\ w[v] \in Int /\ v \in Int /\ v \in HotVideos
    BY VideosAreNumbers DEF AreScores
  <1>2. \A p \in pairs : p[2] \in DOMAIN w /\ p = <<w[p[2]], p[2]>>
    OBVIOUS
  <1> HIDE DEF pairs
  <1>3. pairs \in SUBSET (Int \X Int)
    BY <1>1, <1>2
  <1>4. IsFiniteSet(pairs)
    <2> DEFINE f == [p \in pairs |-> p[2]]
    <2>1. f \in Injection(pairs, HotVideos)
      BY <1>1, <1>2 DEF Injection, IsInjective
    <2> QED
      BY <2>1, VideosAreNumbers, FS_Injection
  <1> QED
    BY <1>1, <1>2, <1>3, <1>4 DEF pairs

LEMMA NewerIsOrder ==
    ASSUME NEW p \in Int \X Int, NEW q \in Int \X Int
    PROVE  ~Newer(p, p) /\ ~(Newer(p, q) /\ Newer(q, p))
  BY DEF Newer

\* The scores of a window in their order.
Listed(w, s) ==
    /\ s \in Seq(Int \X Int) /\ Len(s) \in Nat
    /\ \A i \in 1..Len(s) : s[i][2] \in DOMAIN w /\ s[i] = <<w[s[i][2]], s[i][2]>>
    /\ \A v \in DOMAIN w : \E i \in 1..Len(s) : s[i] = <<w[v], v>>
    /\ \A i, j \in 1..Len(s) : i < j => Newer(s[i], s[j])

LEMMA WindowIsListed ==
    ASSUME NEW w, AreScores(w), w # NoWindow
    PROVE  Listed(w, Sorted(w))
  <1> DEFINE pairs == {<<w[v], v>> : v \in DOMAIN w}
             s == Sorted(w)
  <1>1. /\ pairs \in SUBSET (Int \X Int) /\ IsFiniteSet(pairs)
        /\ \A p \in pairs : p[2] \in DOMAIN w /\ p = <<w[p[2]], p[2]>>
        /\ \A v \in DOMAIN w : <<w[v], v>> \in pairs
    BY RowsOfScores
  <1>2. s = RankedBy(pairs, Newer)
    BY DEF Sorted
  <1> HIDE DEF pairs, s
  <1>3. /\ s \in Seq(pairs) /\ \A x \in pairs : \E i \in 1..Len(s) : s[i] = x
        /\ \A i, j \in 1..Len(s) : i < j => Newer(s[i], s[j])
    BY <1>1, <1>2, RowsAreRanked
  <1>4. s \in Seq(Int \X Int)
    BY <1>1, <1>3, SeqMonotonic
  <1>5. Len(s) \in Nat /\ \A i \in 1..Len(s) : s[i] \in pairs
    BY <1>3, LenProperties
  <1>6. \A i \in 1..Len(s) : s[i][2] \in DOMAIN w /\ s[i] = <<w[s[i][2]], s[i][2]>>
    BY <1>1, <1>5
  <1>7. \A v \in DOMAIN w : \E i \in 1..Len(s) : s[i] = <<w[v], v>>
    BY <1>1, <1>3
  <1> QED
    BY <1>3, <1>4, <1>5, <1>6, <1>7 DEF Listed, s

LEMMA PlacesAreKept ==
    ASSUME NEW w, AreScores(w), NEW sum, AreScores(sum), NEW s, Listed(w, s),
           Positive(w) = Positive(sum), \A v \in Positive(sum) : w[v] = sum[v],
           NEW i \in 1..Len(s), s[i][2] \in Positive(sum)
    PROVE  PlaceIn(sum, s[i][2]) = i
  <1> DEFINE v == s[i][2]
             entry(u) == <<w[u], u>>
             U == {u \in Positive(sum) : Newer(<<sum[u], u>>, <<sum[v], v>>)}
             I == 1..i - 1
             g == [j \in I |-> s[j][2]]
  <1>1. /\ Len(s) \in Nat
        /\ \A j \in 1..Len(s) : s[j][2] \in DOMAIN w /\ s[j] = entry(s[j][2])
        /\ \A u \in DOMAIN w : \E j \in 1..Len(s) : s[j] = entry(u)
        /\ \A j, k \in 1..Len(s) : j < k => Newer(s[j], s[k])
    BY DEF Listed
  <1>2. \A u \in DOMAIN w : w[u] \in Int /\ u \in Int /\ entry(u) \in Int \X Int /\ entry(u)[1] = w[u] /\ entry(u)[2] = u
    BY RowsOfScores
  <1>3. v \in DOMAIN w /\ w[v] > 0 /\ v \in Positive(w)
    BY DEF Positive
  <1>4. \A u \in Positive(sum) : u \in DOMAIN w /\ <<sum[u], u>> = entry(u)
    BY DEF Positive
  <1>5. U = {u \in Positive(w) : Newer(entry(u), entry(v))}
    BY <1>3, <1>4
  <1>6. ASSUME NEW j \in I PROVE j \in 1..Len(s) /\ j < i /\ s[j][2] \in U
    <2>1. j \in 1..Len(s) /\ j < i
      BY <1>1
    <2> DEFINE u == s[j][2]
    <2>2. u \in DOMAIN w /\ Newer(entry(u), entry(v))
      BY <1>1, <2>1
    <2> HIDE DEF u, v
    <2>3. w[u] >= w[v]
      <3> HIDE DEF entry
      <3>1. Newer(entry(u), entry(v)) /\ entry(u)[1] = w[u] /\ entry(v)[1] = w[v] /\ w[u] \in Int /\ w[v] \in Int
        BY <1>2, <1>3, <2>2
      <3> QED
        BY <3>1 DEF Newer
    <2>4. w[u] > 0
      BY <1>2, <1>3, <2>2, <2>3
    <2>5. u \in Positive(w)
      BY <2>2, <2>4 DEF Positive
    <2> QED
      BY <1>5, <2>1, <2>2, <2>5 DEF u
  <1>7. ASSUME NEW j \in I, NEW k \in I, s[j][2] = s[k][2] PROVE j = k
    <2>1. j \in 1..Len(s) /\ k \in 1..Len(s)
      BY <1>6
    <2>2. s[j] = s[k] /\ s[j] \in Int \X Int
      <3>1. s[j] = entry(s[j][2]) /\ s[k] = entry(s[k][2]) /\ s[j][2] \in DOMAIN w
        BY <1>1, <2>1
      <3>2. s[j] = s[k]
        BY <1>7, <3>1
      <3>3. entry(s[j][2]) \in Int \X Int
        BY <1>2, <3>1
      <3> QED
        BY <3>1, <3>2, <3>3
    <2>3. ~(j < k) /\ ~(k < j)
      <3>1. ~Newer(s[j], s[j])
        BY <2>2, NewerIsOrder
      <3> QED
        BY <1>1, <2>1, <2>2, <3>1
    <2> QED
      BY <2>1, <2>3
  <1>8. ASSUME NEW u \in U PROVE \E j \in I : s[j][2] = u
    <2>1. u \in DOMAIN w /\ Newer(entry(u), entry(v))
      BY <1>5 DEF Positive
    <2>2. PICK j \in 1..Len(s) : s[j] = entry(u)
      BY <1>1, <2>1
    <2>3. s[j][2] = u /\ s[i] = entry(v) /\ s[j] \in Int \X Int /\ s[i] \in Int \X Int
      BY <1>1, <1>2, <1>3, <2>1, <2>2
    <2>4. j # i /\ ~(i < j)
      <3>1. Newer(s[j], s[i])
        BY <2>1, <2>2, <2>3
      <3>2. ~Newer(s[i], s[i]) /\ ~Newer(s[i], s[j])
        BY <2>3, <3>1, NewerIsOrder
      <3> QED
        BY <1>1, <3>1, <3>2
    <2>5. j \in I
      BY <1>1, <2>4
    <2> QED
      BY <2>3, <2>5
  <1> HIDE DEF U
  <1>9. g \in Bijection(I, U)
    <2>1. g \in [I -> U]
      BY <1>6
    <2> QED
      BY <1>7, <1>8, <2>1 DEF Bijection, Injection, Surjection, IsInjective
  <1>10. i - 1 \in Nat
    BY <1>1
  <1>11. IsFiniteSet(I) /\ Cardinality(I) = i - 1
    <2> DEFINE n == i - 1
    <2>1. n \in Int /\ n >= 0 /\ 1 \in Int
      BY <1>10
    <2> HIDE DEF n
    <2>2. IsFiniteSet(1..n) /\ Cardinality(1..n) = IF 1 > n THEN 0 ELSE n - 1 + 1
      BY <2>1, FS_Interval
    <2>3. IsFiniteSet(1..n) /\ Cardinality(1..n) = n
      BY <2>1, <2>2
    <2> QED
      BY <2>3 DEF n
  <1>12. Cardinality(U) = i - 1
    <2>1. ExistsBijection(I, U)
      BY <1>9 DEF ExistsBijection
    <2> HIDE DEF I
    <2> QED
      BY <1>11, <2>1, FS_Bijection
  <1> QED
    BY <1>10, <1>12 DEF PlaceIn, U

\* The sums of a window's minutes.
LEMMA SumIsScores ==
    ASSUME HotTypes, NEW m \in HotMinutes
    PROVE  AreScores(Sum(m))
  <1> DEFINE ms == MinutesOf(m)
             V == UNION {DOMAIN bucket[k] : k \in ms}
  <1>1. ms \in SUBSET HotMinutes /\ IsFiniteSet(ms)
    <2>1. ms \in SUBSET HotMinutes
      BY DEF MinutesOf
    <2> HIDE DEF ms
    <2> QED
      BY <2>1, MinutesAreNumbers, FS_Subset
  <1>2. Sum(m) = [v \in V |-> SumFunction([k \in ms |-> Score(k, v)])]
    BY DEF Sum, Union
  <1> HIDE DEF ms
  <1>3. V \subseteq HotVideos
    BY <1>1 DEF HotTypes, AreScores
  <1>4. ASSUME NEW v PROVE SumFunction([k \in ms |-> Score(k, v)]) \in Int
    <2> DEFINE f == [k \in ms |-> Score(k, v)]
    <2>1. f \in [ms -> Int]
      <3>1. ASSUME NEW k \in ms PROVE Score(k, v) \in Int
        BY <1>1 DEF HotTypes, AreScores, Score
      <3> QED
        BY <3>1
    <2> HIDE DEF f
    <2>2. SumFunction(f) \in Int
      BY <1>1, <2>1, TotalIsNumber
    <2> QED
      BY <2>2 DEF f
  <1> HIDE DEF V
  <1> QED
    BY <1>2, <1>3, <1>4 DEF AreScores

LEMMA SumStays ==
    ASSUME NEW m, \A k \in MinutesOf(m) : bucket'[k] = bucket[k]
    PROVE  Sum(m)' = Sum(m)
  <1> DEFINE ms == MinutesOf(m)
  <1>1. \A k \in ms : \A v : Score(k, v)' = Score(k, v)
    BY DEF Score
  <1>2. UNION {DOMAIN bucket'[k] : k \in ms} = UNION {DOMAIN bucket[k] : k \in ms}
    OBVIOUS
  <1> HIDE DEF ms
  <1>3. \A v : [k \in ms |-> Score(k, v)'] = [k \in ms |-> Score(k, v)]
    BY <1>1
  <1> QED
    BY <1>2, <1>3 DEF Sum, Union, ms

\* A window that changes without harm.
Harmless(sum, w, w2) ==
    Agrees(w, sum) => /\ Agrees(w2, sum)
                      /\ w # NoWindow /\ Positive(sum) # {} => w2 # NoWindow

LEMMA ReaderFollows ==
    ASSUME NEW sum, NEW w, NEW w2, NEW x, ReadsBy(sum, w, x), Harmless(sum, w, w2)
    PROVE  ReadsBy(sum, w2, x)
  BY DEF ReadsBy, Harmless

LEMMA ReaderGoesOn ==
    ASSUME NEW sum, NEW w, NEW w2, NEW x \in HotSession, NEW a, NEW y, y = [x EXCEPT !.at = a],
           ReadsBy(sum, w, x), Harmless(sum, w, w2), x.at # "idle", a # "done",
           a \in {"trim", "range"} => x.at \in {"trim", "range"} \/ w2 # NoWindow \/ Positive(sum) = {}
    PROVE  ReadsBy(sum, w2, y)
  <1>1. /\ y.at = a /\ y.seen = x.seen /\ y.offset = x.offset /\ y.quiet = x.quiet
        /\ y.kept = x.kept
    BY DEF HotSession
  <1> QED
    BY <1>1 DEF ReadsBy, Harmless

\* The videos read from an offset on.
PageFrom(s, k) == [i \in 1..Min({HotLimit, Len(s) - k}) |-> s[k + i][2]]

LEMMA PageIsRead ==
    ASSUME NEW s, Len(s) \in Nat, NEW k \in Nat, \A i \in 1..Len(s) : s[i][2] \in HotVideos
    PROVE  \E n \in Nat :
             /\ PageFrom(s, k) \in Seq(HotVideos) /\ Len(PageFrom(s, k)) = n
             /\ \A i \in 1..n : k + i \in 1..Len(s) /\ PageFrom(s, k)[i] = s[k + i][2]
             /\ Len(s) - k <= HotLimit => Len(s) <= k + n
  <1> DEFINE l == Len(s)
             c == Min({HotLimit, l - k})
             n == IF c < 0 THEN 0 ELSE c
             z == PageFrom(s, k)
  <1>1. l \in Nat /\ HotLimit \in Nat
    BY HotLimitIsNumber
  <1>2. z = [i \in 1..c |-> s[k + i][2]]
    BY DEF PageFrom
  <1> HIDE DEF l, z
  <1>3. c = IF HotLimit <= l - k THEN HotLimit ELSE l - k
    BY <1>1, SmallerOfTwo
  <1> HIDE DEF c
  <1>4. /\ c \in Int /\ n \in Nat /\ (c < 0 => n = 0) /\ (c >= 0 => n = c)
        /\ (n > 0 => k + n <= l) /\ (l - k <= HotLimit => l <= k + n)
    BY <1>1, <1>3
  <1> HIDE DEF n
  <1>5. \A i : i \in 1..c <=> i \in 1..n
    BY <1>4
  <1>6. z = [i \in 1..n |-> s[k + i][2]]
    <2>1. 1..c = 1..n
      BY <1>5
    <2> QED
      BY <1>2, <2>1
  <1>7. \A i \in 1..n : k + i \in 1..l
    BY <1>1, <1>4
  <1>8. \A i \in 1..n : s[k + i][2] \in HotVideos
    BY <1>7 DEF l
  <1>9. z \in [1..n -> HotVideos]
    BY <1>6, <1>8
  <1>10. z \in Seq(HotVideos)
    BY <1>4, <1>9, SeqDef
  <1>11. Len(z) = n
    BY <1>4, <1>9, <1>10, LenProperties
  <1> QED
    BY <1>4, <1>6, <1>7, <1>10, <1>11 DEF z, l

LEMMA SortedIsListed ==
    ASSUME NEW w, w # NoWindow => AreScores(w)
    PROVE  /\ Len(Sorted(w)) \in Nat /\ \A i \in 1..Len(Sorted(w)) : Sorted(w)[i][2] \in HotVideos
           /\ w # NoWindow => Listed(w, Sorted(w))
           /\ w = NoWindow => Len(Sorted(w)) = 0
  <1>1. CASE w = NoWindow
    <2>1. Sorted(w) = <<>>
      BY <1>1 DEF Sorted
    <2>2. Len(<<>>) = 0
      OBVIOUS
    <2> QED
      BY <1>1, <2>1, <2>2
  <1>2. CASE w # NoWindow
    <2> DEFINE s == Sorted(w)
    <2>1. AreScores(w) /\ Listed(w, s)
      BY <1>2, WindowIsListed
    <2> HIDE DEF s
    <2>2. Len(s) \in Nat /\ \A i \in 1..Len(s) : s[i][2] \in HotVideos
      BY <2>1 DEF Listed, AreScores
    <2> QED
      BY <1>2, <2>1, <2>2 DEF s
  <1> QED
    BY <1>1, <1>2

\* A page is read: the session goes on by the sum.
LEMMA PageContinues ==
    ASSUME NEW sum, AreScores(sum), NEW w, w # NoWindow => AreScores(w),
           NEW x \in HotSession, x.at = "range", ReadsBy(sum, w, x), NEW y \in HotSession,
           LET s    == Sorted(w)
               read == PageFrom(s, x.offset)
           IN  y = [x EXCEPT !.at = IF Len(s) - x.offset > HotLimit THEN "shown" ELSE "done",
                             !.offset = @ + Len(read), !.seen = @ \o read]
    PROVE  ReadsBy(sum, w, y)
  <1> DEFINE s == Sorted(w)
             l == Len(s)
             k == x.offset
             read == PageFrom(s, k)
             old == x.seen
             z == old \o read
  <1>1. /\ l \in Nat /\ \A i \in 1..l : s[i][2] \in HotVideos
        /\ w # NoWindow => Listed(w, s)
        /\ w = NoWindow => l = 0
    BY SortedIsListed
  <1>2. k \in Nat /\ old \in Seq(HotVideos) /\ x.quiet \in BOOLEAN /\ x.kept \in BOOLEAN
    BY DEF HotSession
  <1>3. /\ y.at = (IF l - k > HotLimit THEN "shown" ELSE "done")
        /\ y.offset = k + Len(read) /\ y.seen = z /\ y.quiet = x.quiet /\ y.kept = x.kept
    BY DEF HotSession
  <1> HIDE DEF s, k, l
  <1>4. PICK n \in Nat :
          /\ read \in Seq(HotVideos) /\ Len(read) = n
          /\ \A i \in 1..n : k + i \in 1..l /\ read[i] = s[k + i][2]
          /\ l - k <= HotLimit => l <= k + n
    BY <1>1, <1>2, PageIsRead DEF l
  <1> SUFFICES ASSUME x.quiet = TRUE
               PROVE  /\ Agrees(w, sum)
                      /\ y.offset = Len(y.seen)
                      /\ \A i \in 1..Len(y.seen) : y.seen[i] \in Positive(sum) => PlaceIn(sum, y.seen[i]) = i
                      /\ \A v \in Positive(sum) : PlaceIn(sum, v) <= y.offset => v \in ToSet(y.seen)
                      /\ y.at = "done" /\ y.kept = TRUE => Positive(sum) \subseteq ToSet(y.seen)
    BY <1>3 DEF ReadsBy
  <1>5. /\ Agrees(w, sum) /\ k = Len(old)
        /\ \A i \in 1..Len(old) : old[i] \in Positive(sum) => PlaceIn(sum, old[i]) = i
        /\ \A v \in Positive(sum) : PlaceIn(sum, v) <= k => v \in ToSet(old)
        /\ x.kept = TRUE /\ Positive(sum) # {} => w # NoWindow
    BY DEF ReadsBy, k
  <1> HIDE DEF read, old
  <1>6. /\ z \in Seq(HotVideos) /\ Len(z) = k + n
        /\ \A i \in 1..k + n : z[i] = IF i <= k THEN old[i] ELSE read[i - k]
    BY ZenonT(60), <1>2, <1>4, <1>5, ConcatProperties
  <1>7. DOMAIN z = 1..k + n /\ DOMAIN old = 1..k
    BY <1>2, <1>5, <1>6, LenProperties
  <1>8. ToSet(z) = {z[i] : i \in 1..k + n} /\ ToSet(old) = {old[i] : i \in 1..k}
    BY <1>7 DEF ToSet
  <1> HIDE DEF z
  <1>9. \A i \in 1..k + n : i > k => i \in 1..l /\ z[i] = s[i][2]
    <2> SUFFICES ASSUME NEW i \in 1..k + n, i > k PROVE i \in 1..l /\ z[i] = s[i][2]
      OBVIOUS
    <2>1. i - k \in 1..n /\ k + (i - k) = i /\ ~(i <= k)
      BY <1>2
    <2> QED
      BY <1>4, <1>6, <2>1
  <1>10. \A i \in 1..k : z[i] = old[i] /\ i \in 1..k + n
    BY <1>2, <1>6
  <1>11. w # NoWindow => /\ AreScores(w) /\ Listed(w, s)
                         /\ Positive(w) = Positive(sum) /\ \A v \in Positive(sum) : w[v] = sum[v]
    BY <1>1, <1>5 DEF Agrees
  <1>12. w # NoWindow => \A i \in 1..l : s[i][2] \in Positive(sum) => PlaceIn(sum, s[i][2]) = i
    BY <1>11, PlacesAreKept DEF l
  <1>13. w # NoWindow => \A v \in Positive(sum) : PlaceIn(sum, v) \in 1..l /\ s[PlaceIn(sum, v)][2] = v
    <2> SUFFICES ASSUME w # NoWindow, NEW v \in Positive(sum)
                 PROVE  PlaceIn(sum, v) \in 1..l /\ s[PlaceIn(sum, v)][2] = v
      OBVIOUS
    <2>1. v \in DOMAIN w
      BY <1>11 DEF Positive
    <2>2. PICK i \in 1..l : s[i] = <<w[v], v>>
      BY <1>11, <2>1 DEF Listed, l
    <2>3. s[i][2] = v
      BY <2>2
    <2> QED
      BY <1>12, <2>2, <2>3
  <1>14. \A i \in 1..k + n : z[i] \in Positive(sum) => PlaceIn(sum, z[i]) = i
    <2> SUFFICES ASSUME NEW i \in 1..k + n, z[i] \in Positive(sum) PROVE PlaceIn(sum, z[i]) = i
      OBVIOUS
    <2>1. CASE i <= k
      <3>1. i \in 1..k
        BY <1>2, <2>1
      <3> QED
        BY <1>5, <1>10, <3>1
    <2>2. CASE i > k
      <3>1. i \in 1..l /\ z[i] = s[i][2]
        BY <1>9, <2>2
      <3>2. w # NoWindow
        BY <1>1, <3>1
      <3> QED
        BY <1>12, <3>1, <3>2
    <2> QED
      BY <1>2, <2>1, <2>2
  <1>15. \A v \in ToSet(old) : v \in ToSet(z)
    BY <1>8, <1>10
  <1>16. w # NoWindow => \A v \in Positive(sum) : PlaceIn(sum, v) <= k + n => v \in ToSet(z)
    <2> SUFFICES ASSUME w # NoWindow, NEW v \in Positive(sum), PlaceIn(sum, v) <= k + n PROVE v \in ToSet(z)
      OBVIOUS
    <2> DEFINE i == PlaceIn(sum, v)
    <2>1. i \in 1..l /\ s[i][2] = v /\ i <= k + n
      BY <1>13
    <2>c. i <= k => v \in ToSet(old)
      BY <1>5
    <2> HIDE DEF i
    <2>2. CASE i <= k
      BY <1>15, <2>2, <2>c
    <2>3. CASE i > k
      <3>1. i \in 1..k + n
        BY <1>1, <1>2, <2>1
      <3> QED
        BY <1>8, <1>9, <2>1, <2>3, <3>1
    <2> QED
      BY <1>1, <1>2, <2>1, <2>2, <2>3
  <1>17. w = NoWindow => n = 0
    <2> SUFFICES ASSUME w = NoWindow, n # 0 PROVE FALSE
      OBVIOUS
    <2>1. 1 \in 1..n
      BY <1>4
    <2>2. k + 1 \in 1..l /\ l = 0
      BY <1>1, <1>4, <2>1
    <2> QED
      BY <1>2, <2>2
  <1>18. \A v \in Positive(sum) : PlaceIn(sum, v) <= k + n => v \in ToSet(z)
    <2>1. CASE w = NoWindow
      <3>1. k + n = k
        BY <1>2, <1>17, <2>1
      <3> QED
        BY <1>5, <1>15, <3>1
    <2>2. CASE w # NoWindow
      BY <1>16, <2>2
    <2> QED
      BY <2>1, <2>2
  <1>19. l - k <= HotLimit /\ x.kept = TRUE => Positive(sum) \subseteq ToSet(z)
    <2> SUFFICES ASSUME l - k <= HotLimit, x.kept = TRUE, NEW v \in Positive(sum) PROVE v \in ToSet(z)
      OBVIOUS
    <2>1. w # NoWindow
      BY <1>5
    <2>2. PlaceIn(sum, v) \in 1..l /\ l <= k + n
      BY <1>4, <1>13, <2>1
    <2>3. PlaceIn(sum, v) <= k + n
      BY <1>1, <1>2, <2>2
    <2> QED
      BY <1>18, <2>3
  <1>20. y.at = "done" => l - k <= HotLimit
    BY <1>1, <1>2, <1>3, HotLimitIsNumber
  <1> QED
    BY <1>3, <1>4, <1>5, <1>6, <1>14, <1>18, <1>19, <1>20 DEF z

\* A reader without a session goes by anything.
LEMMA IdleReaderIsServed ==
    ASSUME NEW sum, NEW w, NEW x, x.at = "idle"
    PROVE  ReadsBy(sum, w, x)
  BY DEF ReadsBy

LEMMA ReadersAreServed ==
    ASSUME HotTypes',
           \A r \in HotReaders, m \in HotMinutes :
               m = hot'[r].end => ReadsBy(Sum(m)', window'[m], hot'[r])
    PROVE  HotIInv'
  <1> SUFFICES ASSUME NEW r \in HotReaders
               PROVE  ReadsBy(Sum(hot[r].end), window[hot[r].end], hot[r])'
    BY DEF HotIInv
  <1>1. PICK m \in HotMinutes : m = hot'[r].end
    BY DEF HotTypes, HotSession
  <1>2. ReadsBy(Sum(m)', window'[m], hot'[r])
    BY <1>1
  <1> QED
    BY <1>1, <1>2 DEF Sum, Union, Score

\* Only a window and the session of one reader change.
LEMMA OneReaderMoves ==
    ASSUME HotIInv, HotTypes', bucket' = bucket,
           \A m \in HotMinutes : Harmless(Sum(m), window[m], window'[m]),
           NEW r \in HotReaders, \A q \in HotReaders \ {r} : hot'[q] = hot[q],
           \A m \in HotMinutes : m = hot'[r].end => ReadsBy(Sum(m), window'[m], hot'[r])
    PROVE  HotIInv'
  <1> SUFFICES ASSUME NEW q \in HotReaders, NEW m \in HotMinutes, m = hot'[q].end
               PROVE  ReadsBy(Sum(m)', window'[m], hot'[q])
    BY ReadersAreServed
  <1>1. Sum(m)' = Sum(m)
    BY SumStays
  <1>2. CASE q = r
    BY <1>1, <1>2
  <1>3. CASE q # r
    <2>1. hot'[q] = hot[q]
      BY <1>3
    <2>2. ReadsBy(Sum(m), window[m], hot[q])
      BY <2>1 DEF HotIInv
    <2> QED
      BY <1>1, <2>1, <2>2, ReaderFollows
  <1> QED
    BY <1>2, <1>3

LEMMA WindowFollowsItself == \A sum, w : Harmless(sum, w, w)
  BY DEF Harmless

LEMMA HotBegins == HotInit => HotIInv
  <1> SUFFICES ASSUME HotInit PROVE HotIInv
    OBVIOUS
  <1>1. NoReading \in HotSession /\ NoReading.at = "idle" /\ NoReading.seen = <<>>
    <2>1. <<>> \in Seq(HotVideos)
      BY EmptySeq
    <2> QED
      BY <2>1, MinutesAreNumbers DEF NoReading, HotSession
  <1>2. AreScores(<<>>)
    <2>1. DOMAIN <<>> = {}
      OBVIOUS
    <2> QED
      BY <2>1 DEF AreScores
  <1>3. HotTypes
    BY <1>1, <1>2, MinutesAreNumbers DEF HotInit, HotTypes
  <1>4. \A r \in HotReaders : hot[r].at = "idle"
    BY <1>1 DEF HotInit
  <1> QED
    BY <1>3, <1>4, IdleReaderIsServed DEF HotIInv

LEMMA SessionFacts ==
    ASSUME HotIInv, NEW r \in HotReaders
    PROVE  /\ HotTypes /\ hot[r] \in HotSession /\ hot[r].end \in HotMinutes
           /\ AreScores(Sum(hot[r].end))
           /\ window[hot[r].end] # NoWindow => AreScores(window[hot[r].end])
           /\ ReadsBy(Sum(hot[r].end), window[hot[r].end], hot[r])
  <1>1. HotTypes /\ hot[r] \in HotSession /\ hot[r].end \in HotMinutes
    BY DEF HotIInv, HotTypes, HotSession
  <1>2. AreScores(Sum(hot[r].end))
    BY <1>1, SumIsScores
  <1> QED
    BY <1>1, <1>2 DEF HotIInv, HotTypes

\* The session of one reader changes, and nothing else that counts.
LEMMA SessionChanges ==
    ASSUME HotIInv, NEW r \in HotReaders, NEW x \in HotSession, hot' = [hot EXCEPT ![r] = x],
           UNCHANGED <<bucket, window>>, minute' = minute, x.at = "idle" => x.seen = <<>>,
           ReadsBy(Sum(x.end), window[x.end], x)
    PROVE  HotIInv'
  <1>1. hot \in [HotReaders -> HotSession] /\ HotTypes
    BY DEF HotIInv, HotTypes
  <1>2. hot'[r] = x /\ \A q \in HotReaders \ {r} : hot'[q] = hot[q]
    BY <1>1
  <1>3. HotTypes'
    BY <1>1, <1>2 DEF HotTypes
  <1>4. \A m \in HotMinutes : Harmless(Sum(m), window[m], window'[m])
    BY WindowFollowsItself
  <1> QED
    BY <1>2, <1>3, <1>4, OneReaderMoves

LEMMA ReaderLeaves ==
    ASSUME HotIInv, NEW r \in HotReaders, hot' = [hot EXCEPT ![r] = NoReading],
           UNCHANGED <<bucket, window, minute>>
    PROVE  HotIInv'
  <1>1. NoReading \in HotSession /\ NoReading.at = "idle" /\ NoReading.seen = <<>>
    <2>1. <<>> \in Seq(HotVideos)
      BY EmptySeq
    <2> QED
      BY <2>1, MinutesAreNumbers DEF NoReading, HotSession
  <1> HIDE DEF NoReading
  <1> QED
    BY <1>1, IdleReaderIsServed, SessionChanges

LEMMA HotIsOpened == ASSUME HotIInv, NEW r \in HotReaders, OpenHot(r) PROVE HotIInv'
  <1> DEFINE x == [NoReading EXCEPT !.at = "exists", !.end = minute, !.quiet = UpToDate(minute)]
  <1>1. hot' = [hot EXCEPT ![r] = x] /\ UNCHANGED <<bucket, window, minute>>
    BY DEF OpenHot
  <1>2. minute \in HotMinutes /\ UpToDate(minute) \in BOOLEAN
    BY DEF HotIInv, HotTypes, UpToDate, Agrees
  <1>3. /\ x \in HotSession /\ x.at = "exists" /\ x.end = minute /\ x.quiet = UpToDate(minute)
        /\ x.seen = <<>> /\ x.offset = 0
    <2>1. <<>> \in Seq(HotVideos)
      BY EmptySeq
    <2> HIDE DEF UpToDate
    <2> QED
      BY <1>2, <2>1 DEF NoReading, HotSession
  <1>4. ASSUME x.quiet = TRUE PROVE ReadsBy(Sum(minute), window[minute], x)
    <2> DEFINE total == Sum(minute)
               w == window[minute]
    <2>1. Agrees(w, total)
      BY <1>3, <1>4 DEF UpToDate, Sum
    <2>2. \A v \in Positive(total) : ~(PlaceIn(total, v) <= 0)
      <3>1. AreScores(total)
        BY <1>2, SumIsScores DEF HotIInv
      <3> HIDE DEF total
      <3> SUFFICES ASSUME NEW v \in Positive(total) PROVE ~(PlaceIn(total, v) <= 0)
        OBVIOUS
      <3> DEFINE U == {u \in Positive(total) : Newer(<<total[u], u>>, <<total[v], v>>)}
      <3>2. U \subseteq HotVideos
        BY <3>1 DEF Positive, AreScores
      <3>3. Cardinality(U) \in Nat
        <4> HIDE DEF U
        <4> QED
          BY <3>2, VideosAreNumbers, FS_Subset, FS_CardinalityType
      <3> QED
        BY <3>3 DEF PlaceIn
    <2> HIDE DEF total, w, x
    <2>3. Len(x.seen) = 0
      BY <1>3
    <2> QED
      BY <1>3, <2>1, <2>2, <2>3 DEF ReadsBy, total, w
  <1>5. ReadsBy(Sum(x.end), window[x.end], x)
    <2>1. CASE x.quiet = TRUE
      BY <1>3, <1>4, <2>1
    <2>2. CASE x.quiet # TRUE
      BY <2>2 DEF ReadsBy
    <2> QED
      BY <2>1, <2>2
  <1> HIDE DEF x
  <1> QED
    BY <1>1, <1>3, <1>5, SessionChanges

LEMMA NextIsAsked == ASSUME HotIInv, NEW r \in HotReaders, NextHot(r) PROVE HotIInv'
  <1> DEFINE x == [hot[r] EXCEPT !.at = "exists"]
  <1>1. /\ hot' = [hot EXCEPT ![r] = x] /\ UNCHANGED <<bucket, window, minute>>
        /\ hot[r].at = "shown"
    BY DEF NextHot
  <1>2. x \in HotSession /\ x.at = "exists" /\ x.end = hot[r].end
    BY SessionFacts DEF HotSession
  <1>3. ReadsBy(Sum(x.end), window[x.end], x)
    <2> DEFINE total == Sum(hot[r].end)
               w == window[hot[r].end]
    <2>1. hot[r] \in HotSession /\ ReadsBy(total, w, hot[r]) /\ Harmless(total, w, w)
      BY SessionFacts, WindowFollowsItself
    <2> HIDE DEF total, w
    <2>2. ReadsBy(total, w, x)
      BY <1>1, <2>1, ReaderGoesOn
    <2> QED
      BY <1>2, <2>2 DEF total, w
  <1> HIDE DEF x
  <1> QED
    BY <1>1, <1>2, <1>3, SessionChanges

LEMMA WindowIsLookedFor == ASSUME HotIInv, NEW r \in HotReaders, ExistsWindow(r) PROVE HotIInv'
  <1> DEFINE a == IF window[hot[r].end] = NoWindow THEN "union" ELSE "range"
             x == [hot[r] EXCEPT !.at = a]
  <1>1. /\ hot' = [hot EXCEPT ![r] = x] /\ UNCHANGED <<bucket, window, minute>>
        /\ hot[r].at = "exists"
    BY DEF ExistsWindow
  <1>2. x \in HotSession /\ x.at = a /\ x.at # "idle" /\ x.end = hot[r].end
    BY SessionFacts DEF HotSession
  <1>3. a # "done" /\ (a \in {"trim", "range"} => window[hot[r].end] # NoWindow)
    OBVIOUS
  <1>4. ReadsBy(Sum(x.end), window[x.end], x)
    <2> DEFINE total == Sum(hot[r].end)
               w == window[hot[r].end]
    <2>1. hot[r] \in HotSession /\ ReadsBy(total, w, hot[r]) /\ Harmless(total, w, w)
      BY SessionFacts, WindowFollowsItself
    <2>2. a # "done" /\ (a \in {"trim", "range"} => w # NoWindow)
      OBVIOUS
    <2> HIDE DEF total, w, a
    <2>3. ReadsBy(total, w, x)
      BY <1>1, <2>1, <2>2, ReaderGoesOn
    <2> QED
      BY <1>2, <2>3 DEF total, w
  <1> HIDE DEF x
  <1> QED
    BY <1>1, <1>2, <1>4, SessionChanges

\* A reader stores a window.
LEMMA WindowIsStored ==
    ASSUME HotIInv, NEW r \in HotReaders, NEW w2, w2 # NoWindow => AreScores(w2),
           NEW a \in {"trim", "range"}, hot[r].at \in {"union", "trim"},
           hot' = [hot EXCEPT ![r].at = a], window' = [window EXCEPT ![hot[r].end] = w2],
           UNCHANGED <<bucket, minute>>,
           Harmless(Sum(hot[r].end), window[hot[r].end], w2),
           hot[r].at = "trim" \/ w2 # NoWindow \/ Positive(Sum(hot[r].end)) = {}
    PROVE  HotIInv'
  <1> DEFINE e == hot[r].end
             x == [hot[r] EXCEPT !.at = a]
  <1>1. HotTypes /\ hot[r] \in HotSession /\ e \in HotMinutes /\ ReadsBy(Sum(e), window[e], hot[r])
    BY SessionFacts
  <1>2. hot'[r] = x /\ \A q \in HotReaders \ {r} : hot'[q] = hot[q]
    BY <1>1 DEF HotTypes
  <1>3. x \in HotSession /\ x.end = e /\ x.at # "idle"
    BY <1>1 DEF HotSession
  <1>4. window'[e] = w2 /\ DOMAIN window' = HotMinutes /\ \A m \in HotMinutes \ {e} : window'[m] = window[m]
    BY <1>1 DEF HotTypes
  <1>5. hot' \in [HotReaders -> HotSession] /\ hot' = [hot EXCEPT ![r] = x]
    BY <1>1, <1>3 DEF HotTypes
  <1>6. HotTypes'
    <2>1. \A m \in HotMinutes : window'[m] # NoWindow => AreScores(window'[m])
      BY <1>1, <1>4 DEF HotTypes
    <2>2. \A q \in HotReaders : hot'[q].at = "idle" => hot'[q].seen = <<>>
      BY <1>1, <1>2, <1>3 DEF HotTypes
    <2> QED
      BY <1>1, <1>4, <1>5, <2>1, <2>2 DEF HotTypes
  <1>7. \A m \in HotMinutes : Harmless(Sum(m), window[m], window'[m])
    BY <1>4, WindowFollowsItself
  <1>8. ReadsBy(Sum(e), w2, x)
    BY <1>1, ReaderGoesOn
  <1> HIDE DEF x, e
  <1>9. \A m \in HotMinutes : m = hot'[r].end => ReadsBy(Sum(m), window'[m], hot'[r])
    BY <1>2, <1>3, <1>4, <1>8
  <1> QED
    BY <1>2, <1>6, <1>7, <1>9, OneReaderMoves

LEMMA WindowIsSummed == ASSUME HotIInv, NEW r \in HotReaders, UnionWindow(r) PROVE HotIInv'
  <1> DEFINE e == hot[r].end
             total == Sum(e)
             w2 == IF DOMAIN total = {} THEN NoWindow ELSE total
  <1>1. /\ hot[r].at = "union" /\ hot' = [hot EXCEPT ![r].at = "trim"]
        /\ window' = [window EXCEPT ![e] = w2] /\ UNCHANGED <<bucket, minute>>
    BY DEF UnionWindow, Sum
  <1>2. AreScores(total)
    BY SessionFacts
  <1> HIDE DEF total
  <1>3. w2 # NoWindow => w2 = total
    OBVIOUS
  <1>4. Positive(total) # {} => w2 = total /\ w2 # NoWindow
    <2> SUFFICES ASSUME Positive(total) # {} PROVE w2 = total /\ w2 # NoWindow
      OBVIOUS
    <2>1. w2 = total
      BY DEF Positive
    <2>2. total # NoWindow
      BY <1>2, NoWindowIsNone DEF AreScores
    <2> QED
      BY <2>1, <2>2
  <1> HIDE DEF w2
  <1>5. Harmless(total, window[e], w2)
    BY <1>3, <1>4 DEF Harmless, Agrees
  <1>6. w2 # NoWindow \/ Positive(total) = {}
    BY <1>4
  <1>7. w2 # NoWindow => AreScores(w2)
    BY <1>2, <1>3
  <1> QED
    BY <1>1, <1>5, <1>6, <1>7, WindowIsStored DEF total

LEMMA WindowIsTrimmed == ASSUME HotIInv, NEW r \in HotReaders, TrimWindow(r) PROVE HotIInv'
  <1> DEFINE e == hot[r].end
             w == window[e]
             new == IF w = NoWindow THEN {} ELSE Positive(w)
             w2 == IF new = {} THEN NoWindow ELSE [v \in new |-> w[v]]
  <1>1. /\ hot[r].at = "trim" /\ hot' = [hot EXCEPT ![r].at = "range"]
        /\ window' = [window EXCEPT ![e] = w2] /\ UNCHANGED <<bucket, minute>>
    BY DEF TrimWindow
  <1>2. w # NoWindow => AreScores(w)
    BY SessionFacts
  <1> HIDE DEF w
  <1>3. w = NoWindow => w2 = NoWindow
    OBVIOUS
  <1>4. w # NoWindow /\ Positive(w) = {} => w2 = NoWindow
    OBVIOUS
  <1>5. ASSUME w # NoWindow, Positive(w) # {}
        PROVE  w2 # NoWindow /\ AreScores(w2) /\ Positive(w2) = Positive(w) /\ \A v \in Positive(w) : w2[v] = w[v]
    <2>1. w2 = [v \in Positive(w) |-> w[v]]
      BY <1>5
    <2>2. \A v \in Positive(w) : v \in DOMAIN w /\ v \in HotVideos /\ w[v] \in Int /\ w[v] > 0
      BY <1>2, <1>5 DEF AreScores, Positive
    <2> HIDE DEF w2
    <2>3. AreScores(w2)
      BY <2>1, <2>2 DEF AreScores
    <2>4. w2 # NoWindow
      BY <2>3, NoWindowIsNone DEF AreScores
    <2>5. Positive(w2) = Positive(w)
      <3>1. DOMAIN w2 = Positive(w) /\ \A v \in Positive(w) : w2[v] > 0
        BY <2>1, <2>2
      <3> QED
        BY <3>1 DEF Positive
    <2> QED
      BY <2>1, <2>3, <2>4, <2>5
  <1> HIDE DEF w2, new
  <1>6. Harmless(Sum(e), w, w2)
    BY <1>3, <1>4, <1>5 DEF Harmless, Agrees
  <1>7. w2 # NoWindow => AreScores(w2)
    BY <1>3, <1>4, <1>5
  <1> QED
    BY <1>1, <1>6, <1>7, WindowIsStored DEF w

LEMMA WindowIsRead == ASSUME HotIInv, NEW r \in HotReaders, RangeWindow(r) PROVE HotIInv'
  <1> DEFINE e == hot[r].end
             s == Sorted(window[e])
             k == hot[r].offset
             read == PageFrom(s, k)
             x == [hot[r] EXCEPT !.at = IF Len(s) - k > HotLimit THEN "shown" ELSE "done",
                                 !.offset = @ + Len(read), !.seen = @ \o read]
  <1>1. /\ hot[r].at = "range" /\ UNCHANGED <<bucket, window, minute>>
        /\ hot' = [hot EXCEPT ![r].at = IF Len(s) - k > HotLimit THEN "shown" ELSE "done",
                              ![r].offset = @ + Len(read), ![r].seen = @ \o read]
    BY DEF RangeWindow, PageFrom
  <1>2. /\ hot[r] \in HotSession /\ e \in HotMinutes /\ AreScores(Sum(e)) /\ k \in Nat
        /\ window[e] # NoWindow => AreScores(window[e])
        /\ ReadsBy(Sum(e), window[e], hot[r])
    BY SessionFacts DEF HotSession
  <1>3. Len(s) \in Nat /\ \A i \in 1..Len(s) : s[i][2] \in HotVideos
    BY <1>2, SortedIsListed
  <1>4. read \in Seq(HotVideos) /\ Len(read) \in Nat /\ hot[r].seen \o read \in Seq(HotVideos)
    <2>1. read \in Seq(HotVideos)
      <3> HIDE DEF s, k
      <3> QED
        BY <1>2, <1>3, PageIsRead
    <2>2. hot[r].seen \in Seq(HotVideos)
      BY <1>2 DEF HotSession
    <2> HIDE DEF read
    <2> QED
      BY <2>1, <2>2, LenProperties, ConcatProperties
  <1>5. hot' = [hot EXCEPT ![r] = x]
    <2> HIDE DEF read, s, k
    <2>1. hot \in [HotReaders -> HotSession]
      BY SessionFacts DEF HotTypes
    <2> QED
      BY <1>1, <2>1
  <1>6. x \in HotSession /\ x.end = e /\ x.at # "idle"
    <2> DEFINE l == Len(read)
               z == hot[r].seen \o read
    <2>1. l \in Nat /\ z \in Seq(HotVideos)
      BY <1>4
    <2>2. x = [hot[r] EXCEPT !.at = IF Len(s) - k > HotLimit THEN "shown" ELSE "done",
                             !.offset = k + l, !.seen = z]
      OBVIOUS
    <2>3. k + l \in Nat
      BY <1>2, <2>1
    <2> HIDE DEF x, l, z, read, s, k
    <2> QED
      BY <1>2, <2>1, <2>2, <2>3 DEF HotSession
  <1>7. ReadsBy(Sum(e), window[e], x)
    BY <1>1, <1>2, <1>6, PageContinues
  <1> HIDE DEF x
  <1> QED
    BY <1>1, <1>5, <1>6, <1>7, SessionChanges

\* A score ends the quiet of the sessions whose hour it falls into.
LEMMA ScoreIsAdded == ASSUME HotIInv, AddHotScore PROVE HotIInv'
  <1>1. PICK m \in {minute - 1, minute} \cap HotMinutes : \E v \in HotVideos : \E change \in {-1, 1} :
          /\ bucket' = [bucket EXCEPT ![m] =
                [u \in DOMAIN @ \cup {v} |-> Score(m, u) + (IF u = v THEN change ELSE 0)]]
          /\ hot' = [r \in HotReaders |->
                [hot[r] EXCEPT !.quiet = @ /\ (hot[r].at = "idle" \/ m \notin MinutesOf(hot[r].end))]]
    BY DEF AddHotScore
  <1>2. PICK v \in HotVideos, change \in {-1, 1} :
          /\ bucket' = [bucket EXCEPT ![m] =
                [u \in DOMAIN @ \cup {v} |-> Score(m, u) + (IF u = v THEN change ELSE 0)]]
          /\ hot' = [r \in HotReaders |->
                [hot[r] EXCEPT !.quiet = @ /\ (hot[r].at = "idle" \/ m \notin MinutesOf(hot[r].end))]]
    BY <1>1
  <1>3. UNCHANGED <<minute, window>> /\ HotTypes /\ m \in HotMinutes
    BY DEF AddHotScore, HotIInv
  <1>4. /\ DOMAIN bucket' = HotMinutes /\ \A k \in HotMinutes \ {m} : bucket'[k] = bucket[k]
        /\ bucket'[m] = [u \in DOMAIN bucket[m] \cup {v} |-> Score(m, u) + (IF u = v THEN change ELSE 0)]
    BY <1>2, <1>3 DEF HotTypes
  <1>5. AreScores(bucket'[m])
    <2>1. AreScores(bucket[m])
      BY <1>3 DEF HotTypes
    <2>2. \A u : Score(m, u) \in Int
      BY <2>1 DEF AreScores, Score
    <2> QED
      BY <1>4, <2>1, <2>2 DEF AreScores
  <1>6. ASSUME NEW r \in HotReaders
        PROVE  /\ hot'[r] \in HotSession /\ hot'[r].at = hot[r].at /\ hot'[r].end = hot[r].end
               /\ hot'[r].offset = hot[r].offset /\ hot'[r].seen = hot[r].seen /\ hot'[r].kept = hot[r].kept
               /\ hot'[r].quiet = TRUE /\ hot[r].at # "idle" =>
                    hot[r].quiet = TRUE /\ m \notin MinutesOf(hot[r].end)
    <2> DEFINE quiet == hot[r].quiet /\ (hot[r].at = "idle" \/ m \notin MinutesOf(hot[r].end))
    <2>1. hot'[r] = [hot[r] EXCEPT !.quiet = quiet] /\ hot[r] \in HotSession
      BY <1>2, <1>3 DEF HotTypes
    <2>2. quiet \in BOOLEAN /\ (quiet = TRUE /\ hot[r].at # "idle" => hot[r].quiet = TRUE /\ m \notin MinutesOf(hot[r].end))
      <3>1. hot[r].quiet \in BOOLEAN
        BY <2>1 DEF HotSession
      <3> QED
        BY <3>1
    <2> HIDE DEF quiet
    <2>3. /\ hot'[r] \in HotSession /\ hot'[r].at = hot[r].at /\ hot'[r].end = hot[r].end
          /\ hot'[r].offset = hot[r].offset /\ hot'[r].seen = hot[r].seen /\ hot'[r].kept = hot[r].kept
          /\ hot'[r].quiet = quiet
      BY <2>1, <2>2 DEF HotSession
    <2> QED
      BY <2>2, <2>3
  <1>7. HotTypes'
    <2>1. hot' \in [HotReaders -> HotSession]
      BY <1>2, <1>6
    <2>2. \A k \in HotMinutes : AreScores(bucket'[k])
      BY <1>3, <1>4, <1>5 DEF HotTypes
    <2> QED
      BY <1>3, <1>4, <1>6, <2>1, <2>2 DEF HotTypes
  <1> SUFFICES ASSUME NEW r \in HotReaders, NEW e \in HotMinutes, e = hot'[r].end
               PROVE  ReadsBy(Sum(e)', window'[e], hot'[r])
    BY <1>7, ReadersAreServed
  <1>8. CASE hot'[r].quiet # TRUE \/ hot'[r].at = "idle"
    BY <1>8 DEF ReadsBy
  <1>9. CASE hot'[r].quiet = TRUE /\ hot'[r].at # "idle"
    <2>1. hot[r].quiet = TRUE /\ hot[r].at # "idle" /\ m \notin MinutesOf(e) /\ e = hot[r].end
      BY <1>6, <1>9
    <2>2. \A k \in MinutesOf(e) : k \in HotMinutes \ {m}
      BY <2>1 DEF MinutesOf
    <2>3. Sum(e)' = Sum(e)
      BY <1>4, <2>2, SumStays
    <2>4. ReadsBy(Sum(e), window[e], hot[r])
      BY <2>1 DEF HotIInv
    <2>5. ReadsBy(Sum(e), window[e], hot'[r])
      BY <1>6, <2>1, <2>4 DEF ReadsBy
    <2> QED
      BY <1>3, <2>3, <2>5
  <1> QED
    BY <1>8, <1>9

LEMMA WindowIsLost == ASSUME HotIInv, WindowExpires PROVE HotIInv'
  <1>1. PICK m \in expires :
          /\ window' = [window EXCEPT ![m] = NoWindow]
          /\ hot' = [r \in HotReaders |->
                [hot[r] EXCEPT !.kept = @ /\ (hot[r].end # m \/ hot[r].at \notin {"trim", "range"})]]
    BY DEF WindowExpires
  <1>2. UNCHANGED <<minute, bucket>> /\ HotTypes
    BY DEF WindowExpires, HotIInv
  <1>3. /\ DOMAIN window' = HotMinutes
        /\ \A k \in HotMinutes : window'[k] = IF k = m THEN NoWindow ELSE window[k]
    BY <1>1, <1>2 DEF HotTypes
  <1>4. ASSUME NEW r \in HotReaders
        PROVE  /\ hot'[r] \in HotSession /\ hot'[r].at = hot[r].at /\ hot'[r].end = hot[r].end
               /\ hot'[r].offset = hot[r].offset /\ hot'[r].seen = hot[r].seen /\ hot'[r].quiet = hot[r].quiet
               /\ hot'[r].kept = TRUE => /\ hot[r].kept = TRUE
                                         /\ hot[r].end # m \/ hot[r].at \notin {"trim", "range"}
    <2> DEFINE kept == hot[r].kept /\ (hot[r].end # m \/ hot[r].at \notin {"trim", "range"})
    <2>1. hot'[r] = [hot[r] EXCEPT !.kept = kept] /\ hot[r] \in HotSession
      BY <1>1, <1>2 DEF HotTypes
    <2>2. /\ kept \in BOOLEAN
          /\ kept = TRUE => hot[r].kept = TRUE /\ (hot[r].end # m \/ hot[r].at \notin {"trim", "range"})
      <3>1. hot[r].kept \in BOOLEAN
        BY <2>1 DEF HotSession
      <3> QED
        BY <3>1
    <2> HIDE DEF kept
    <2>3. /\ hot'[r] \in HotSession /\ hot'[r].at = hot[r].at /\ hot'[r].end = hot[r].end
          /\ hot'[r].offset = hot[r].offset /\ hot'[r].seen = hot[r].seen /\ hot'[r].quiet = hot[r].quiet
          /\ hot'[r].kept = kept
      BY <2>1, <2>2 DEF HotSession
    <2> QED
      BY <2>2, <2>3
  <1>5. HotTypes'
    <2>1. hot' \in [HotReaders -> HotSession]
      BY <1>1, <1>4
    <2>2. \A k \in HotMinutes : window'[k] # NoWindow => AreScores(window'[k])
      BY <1>2, <1>3 DEF HotTypes
    <2> QED
      BY <1>2, <1>3, <1>4, <2>1, <2>2 DEF HotTypes
  <1> SUFFICES ASSUME NEW r \in HotReaders, NEW e \in HotMinutes, e = hot'[r].end
               PROVE  ReadsBy(Sum(e)', window'[e], hot'[r])
    BY <1>5, ReadersAreServed
  <1> DEFINE total == Sum(e)
             w == window[e]
             w2 == window'[e]
             x == hot[r]
             y == hot'[r]
  <1>6. Sum(e)' = total
    BY <1>2, SumStays
  <1>7. ReadsBy(total, w, x)
    BY <1>4 DEF HotIInv
  <1>8. w2 = w \/ (w2 = NoWindow /\ e = m)
    BY <1>3
  <1>9. /\ y.at = x.at /\ y.end = x.end /\ y.offset = x.offset /\ y.seen = x.seen /\ y.quiet = x.quiet
        /\ y.kept = TRUE => x.kept = TRUE /\ (x.end # m \/ x.at \notin {"trim", "range"})
        /\ x.end = e
    BY <1>4
  <1> HIDE DEF total, w, w2, x, y
  <1>10. Agrees(w, total) => Agrees(w2, total)
    BY <1>8 DEF Agrees
  <1>11. y.at \in {"trim", "range"} /\ y.kept = TRUE => w2 = w
    BY <1>8, <1>9
  <1>12. ReadsBy(total, w2, y)
    BY <1>7, <1>9, <1>10, <1>11 DEF ReadsBy
  <1> QED
    BY <1>6, <1>12 DEF w2, y

LEMMA HotSteps == HotIInv /\ [HotNext]_hotVars => HotIInv'
  <1> SUFFICES ASSUME HotIInv, [HotNext]_hotVars PROVE HotIInv'
    OBVIOUS
  <1>1. CASE AddHotScore
    BY <1>1, ScoreIsAdded
  <1>2. CASE WindowExpires
    BY <1>2, WindowIsLost
  <1>3. CASE MinuteTurns \/ UNCHANGED hotVars
    <2>1. UNCHANGED <<bucket, window, hot>> /\ (minute' \in HotMinutes \/ minute' = minute)
      BY <1>3 DEF MinuteTurns, hotVars
    <2>2. HotTypes'
      BY <2>1 DEF HotIInv, HotTypes
    <2> SUFFICES ASSUME NEW r \in HotReaders, NEW e \in HotMinutes, e = hot'[r].end
                 PROVE  ReadsBy(Sum(e)', window'[e], hot'[r])
      BY <2>2, ReadersAreServed
    <2>3. Sum(e)' = Sum(e)
      BY <2>1, SumStays
    <2>4. ReadsBy(Sum(e), window[e], hot[r])
      BY <2>1 DEF HotIInv
    <2> QED
      BY <2>1, <2>3, <2>4
  <1>4. ASSUME NEW r \in HotReaders, CloseHot(r) \/ FailHot(r) PROVE HotIInv'
    <2>1. hot' = [hot EXCEPT ![r] = NoReading] /\ UNCHANGED <<bucket, window, minute>>
      BY <1>4 DEF CloseHot, FailHot
    <2> QED
      BY <2>1, ReaderLeaves
  <1>5. ASSUME NEW r \in HotReaders,
               OpenHot(r) \/ NextHot(r) \/ ExistsWindow(r) \/ UnionWindow(r) \/ TrimWindow(r) \/ RangeWindow(r)
        PROVE  HotIInv'
    BY <1>5, HotIsOpened, NextIsAsked, WindowIsLookedFor, WindowIsSummed, WindowIsTrimmed, WindowIsRead
  <1> QED
    BY <1>1, <1>2, <1>3, <1>4, <1>5 DEF HotNext

LEMMA HotInvariant == HotSpec => []HotIInv
  BY HotBegins, HotSteps, PTL DEF HotSpec

(* The hot list (HotWindow, listPageFromHotWindow): a session that begins with an    *)
(* up-to-date window and in whose hour no score changes shows no video with a        *)
(* positive score twice and, unless the window expires under a page, shows all of    *)
(* them, however many readers build, trim and lose the window between its pages.     *)
THEOREM HotVideosAreShownOnce == HotSpec => []HotPagesAgree
  <1>1. HotIInv => HotPagesAgree
    <2> SUFFICES ASSUME HotIInv, NEW r \in HotReaders, hot[r].quiet
                 PROVE  LET seen     == hot[r].seen
                            positive == Positive(Sum(hot[r].end))
                        IN  /\ \A i, j \in DOMAIN seen : (seen[i] = seen[j] /\ seen[i] \in positive) => i = j
                            /\ (hot[r].at = "done" /\ hot[r].kept) => positive \subseteq ToSet(seen)
      BY DEF HotPagesAgree, Sum
    <2> DEFINE x == hot[r]
               total == Sum(x.end)
    <2>1. x \in HotSession /\ ReadsBy(total, window[x.end], x) /\ HotTypes
      BY SessionFacts
    <2>2. /\ x.quiet = TRUE /\ (x.kept => x.kept = TRUE) /\ DOMAIN x.seen = 1..Len(x.seen)
      BY <2>1, LenProperties DEF HotSession
    <2>3. CASE x.at = "idle"
      <3>1. x.seen = <<>>
        BY <2>1, <2>3 DEF HotTypes
      <3> QED
        BY <2>3, <3>1
    <2>4. CASE x.at # "idle"
      BY <2>1, <2>2, <2>4 DEF ReadsBy
    <2> QED
      BY <2>3, <2>4
  <1> QED
    BY <1>1, HotInvariant, PTL

--------------------------------------------------------------------------------
(* interleaveByAuthor.                                                      *)

LEMMA LargestOf ==
    ASSUME NEW n \in Nat, NEW s \in SUBSET (1..n), s # {}
    PROVE  Max(s) \in s /\ \A y \in s : Max(s) >= y
  <1> DEFINE T == {n - x : x \in s}
  <1>0. \A x \in s : x \in 1..n
    OBVIOUS
  <1>1. T \in SUBSET Nat /\ T # {}
    <2>1. \A x \in s : n - x \in Nat
      BY <1>0
    <2> QED
      BY <2>1
  <1>2. PICK m \in T : \A y \in T : m <= y
    BY <1>1, LeastNumber
  <1>3. PICK x \in s : m = n - x
    OBVIOUS
  <1>4. \A y \in s : x >= y
    <2> SUFFICES ASSUME NEW y \in s PROVE x >= y
      OBVIOUS
    <2>1. n - y \in T
      OBVIOUS
    <2>2. n - x <= n - y /\ x \in Int /\ y \in Int
      BY <1>0, <1>2, <1>3, <2>1
    <2> QED
      BY <2>2
  <1> QED
    BY <1>4 DEF Max

LEMMA LargestOfFirst ==
    ASSUME NEW k \in Nat
    PROVE  Max(1..k + 1) = k + 1
  <1> DEFINE s == 1..k + 1
  <1>1. s \in SUBSET s /\ k + 1 \in s /\ s # {} /\ k + 1 \in Nat
    OBVIOUS
  <1>2. Max(1..k + 1) \in 1..k + 1 /\ Max(1..k + 1) >= k + 1
    <2> HIDE DEF s
    <2>1. Max(s) \in s /\ \A y \in s : Max(s) >= y
      BY <1>1, LargestOf DEF s
    <2> QED
      BY <1>1, <2>1 DEF s
  <1> QED
    BY <1>2

\* The states of interleaveByAuthor, for candidates of which the author matters.
Spreading == [out : Seq(Candidate), delayed : Seq(Candidate)]

LEMMA PlaceKeepsType ==
    ASSUME NEW q \in Spreading, NEW c \in Candidate
    PROVE  Place(q, c) \in Spreading
  <1>1. Append(q.out, c) \in Seq(Candidate) /\ Append(q.delayed, c) \in Seq(Candidate)
    BY AppendProperties DEF Spreading
  <1> QED
    BY <1>1 DEF Place, Spreading

\* A pass goes through those that wait, one by one.
LEMMA SpreadIsStepwise ==
    ASSUME NEW q \in Spreading
    PROVE  \E g : /\ Spread(q) = g[1..Len(q.delayed)]
                  /\ g[1..0] = [out |-> q.out, delayed |-> <<>>]
                  /\ \A k \in 0..Len(q.delayed) - 1 :
                        g[1..k + 1] = Place(g[1..k], q.delayed[k + 1])
  <1> DEFINE d == q.delayed
             n == Len(d)
             S == 1..n
             base == [out |-> q.out, delayed |-> <<>>]
             choice == [s \in SUBSET S |-> Max(s)]
             f == [p \in Spreading \X S |-> Place(p[1], d[p[2]])]
             Is(h) == h = [s \in SUBSET S |-> IF s = {} THEN base ELSE Place(h[s \ {Max(s)}], d[Max(s)])]
             iter == CHOOSE h : Is(h)
  <1>1. d \in Seq(Candidate) /\ n \in Nat /\ DOMAIN d = S /\ base \in Spreading
    BY LenProperties, EmptySeq DEF Spreading
  <1>2. Spread(q) = iter[S]
    <2>1. Spread(q) = (CHOOSE h : h = [s \in SUBSET DOMAIN d |-> IF s = {} THEN base ELSE Place(h[s \ {Max(s)}], d[Max(s)])])[DOMAIN d]
      BY DEF Spread, FoldLeft, MapThenFoldSet
    <2> QED
      BY <1>1, <2>1
  <1> HIDE DEF n
  <1>3. \A s \in SUBSET S : s # {} => choice[s] \in s /\ choice[s] = Max(s)
    BY <1>1, LargestOf
  <1>4. \A r \in Spreading, x \in S : f[<<r, x>>] = Place(r, d[x]) /\ f[<<r, x>>] \in Spreading
    <2> SUFFICES ASSUME NEW r \in Spreading, NEW x \in S
                 PROVE  f[<<r, x>>] = Place(r, d[x]) /\ f[<<r, x>>] \in Spreading
      OBVIOUS
    <2>1. d[x] \in Candidate
      BY <1>1
    <2> QED
      BY <2>1, PlaceKeepsType
  <1>5. IsFiniteSet(S)
    BY <1>1, FS_Interval
  <1> HIDE DEF f, choice, base, d, S
  <1>6. PICK g \in [SUBSET S -> Spreading] : IsFold(g, S, base, choice, f)
    <2>1. ChoosesFrom(S, choice)
      BY <1>3 DEF ChoosesFrom
    <2>2. StaysIn(Spreading, S, f)
      BY <1>4 DEF StaysIn
    <2>3. base \in Spreading
      BY <1>1
    <2> QED
      BY <1>5, <2>1, <2>2, <2>3, FoldIsDefined
  <1>7. \A s \in SUBSET S : g[s] = IF s = {} THEN base ELSE Place(g[s \ {Max(s)}], d[Max(s)])
    <2> SUFFICES ASSUME NEW s \in SUBSET S, s # {}
                 PROVE  g[s] = Place(g[s \ {Max(s)}], d[Max(s)])
      BY <1>6 DEF IsFold
    <2>1. choice[s] = Max(s) /\ Max(s) \in S /\ s \ {Max(s)} \in SUBSET S
      BY <1>3
    <2>2. g[s \ {Max(s)}] \in Spreading
      BY <2>1
    <2> QED
      BY ZenonT(60), <1>4, <1>6, <2>1, <2>2 DEF IsFold
  <1>8. Is(g)
    BY <1>7
  <1>9. Is(iter)
    BY <1>8
  <1>10. \A s \in SUBSET S : iter[s] = IF s = {} THEN base ELSE Place(iter[s \ {Max(s)}], d[Max(s)])
    BY <1>9
  <1> HIDE DEF iter, Is
  <1>11. iter[1..0] = base
    <2>1. 1..0 = {}
      OBVIOUS
    <2> QED
      BY <1>10, <2>1
  <1>12. \A k \in 0..n - 1 : iter[1..k + 1] = Place(iter[1..k], d[k + 1])
    <2> SUFFICES ASSUME NEW k \in 0..n - 1 PROVE iter[1..k + 1] = Place(iter[1..k], d[k + 1])
      OBVIOUS
    <2>1. k \in Nat /\ 1..k + 1 \in SUBSET S /\ 1..k + 1 # {} /\ (1..k + 1) \ {k + 1} = 1..k
      <3>1. k \in Nat /\ \A i \in 1..k + 1 : i \in 1..n
        BY <1>1
      <3>2. \A i : i \in (1..k + 1) \ {k + 1} <=> i \in 1..k
        BY <3>1
      <3>3. 1..k + 1 \subseteq S
        BY <3>1 DEF S
      <3>4. k + 1 \in 1..k + 1
        BY <3>1
      <3> QED
        BY <3>1, <3>2, <3>3, <3>4
    <2> QED
      BY <1>10, <2>1, LargestOfFirst
  <1> QED
    BY <1>1, <1>2, <1>11, <1>12 DEF base, d, S, n

LEMMA SetOfAppend ==
    ASSUME NEW S, NEW s \in Seq(S), NEW e \in S
    PROVE  ToSet(Append(s, e)) = ToSet(s) \cup {e}
  <1> DEFINE t == Append(s, e)
  <1>1. /\ t \in Seq(S) /\ Len(t) = Len(s) + 1 /\ Len(s) \in Nat
        /\ \A i \in 1..Len(s) : t[i] = s[i]
        /\ t[Len(s) + 1] = e
    BY AppendProperties, LenProperties
  <1>2. DOMAIN t = 1..Len(t) /\ DOMAIN s = 1..Len(s)
    BY <1>1, LenProperties
  <1> HIDE DEF t
  <1>3. \A i \in 1..Len(t) : i \in 1..Len(s) \/ i = Len(s) + 1
    BY <1>1
  <1>4. 1..Len(s) \subseteq 1..Len(t) /\ Len(s) + 1 \in 1..Len(t)
    BY <1>1
  <1>5. ToSet(t) \subseteq ToSet(s) \cup {e}
    BY <1>1, <1>2, <1>3 DEF ToSet
  <1>6. ToSet(s) \cup {e} \subseteq ToSet(t)
    BY <1>1, <1>2, <1>4 DEF ToSet
  <1> QED
    BY <1>5, <1>6 DEF t

AuthorFor(c) == AuthorOf[c.video]

\* No author follows itself.
Alternates(s) == \A i \in 2..Len(s) : AuthorFor(s[i]) # AuthorFor(s[i - 1])

\* All that wait are of the author shown last.
Stuck(q) == \A i \in 1..Len(q.delayed) : q.out # <<>> /\ AuthorFor(q.delayed[i]) = AuthorFor(Last(q.out))

FirstOf(s, k) == {s[i] : i \in 1..k}

\* What a pass has made of p after k candidates: if none was placed, all are of
\* one author, and none of those is ever placed.
Placed(p, k, q) ==
    /\ q \in Spreading /\ Alternates(q.out)
    /\ Len(q.out) + Len(q.delayed) = Len(p.out) + k
    /\ ToSet(q.out) \cup ToSet(q.delayed) = ToSet(p.out) \cup FirstOf(p.delayed, k)
    /\ Len(q.delayed) < k \/ (q.out = p.out /\ Stuck(q))
    /\ Stuck(p) => q.out = p.out /\ Stuck(q)

LEMMA PlacedFirst ==
    ASSUME NEW p \in Spreading, Alternates(p.out)
    PROVE  Placed(p, 0, [out |-> p.out, delayed |-> <<>>])
  <1> DEFINE q == [out |-> p.out, delayed |-> <<>>]
  <1>1. q \in Spreading /\ q.out = p.out /\ q.delayed = <<>>
    BY EmptySeq DEF Spreading
  <1>2. Len(q.delayed) = 0 /\ Len(p.out) \in Nat
    BY <1>1, EmptySeq, LenProperties DEF Spreading
  <1>3. ToSet(q.delayed) = {} /\ FirstOf(p.delayed, 0) = {}
    BY <1>1 DEF ToSet, FirstOf
  <1>4. Stuck(q)
    BY <1>2 DEF Stuck
  <1> HIDE DEF q
  <1> QED
    BY <1>1, <1>2, <1>3, <1>4 DEF Placed, q

LEMMA AlternatesOn ==
    ASSUME NEW s \in Seq(Candidate), NEW c \in Candidate, Alternates(s),
           s = <<>> \/ AuthorFor(Last(s)) # AuthorFor(c)
    PROVE  Alternates(Append(s, c))
  <1> DEFINE t == Append(s, c)
  <1>1. /\ Len(t) = Len(s) + 1 /\ Len(s) \in Nat
        /\ \A i \in 1..Len(s) : t[i] = s[i]
        /\ t[Len(s) + 1] = c
    BY AppendProperties, LenProperties
  <1> HIDE DEF t
  <1> SUFFICES ASSUME NEW i \in 2..Len(t) PROVE AuthorFor(t[i]) # AuthorFor(t[i - 1])
    BY DEF Alternates, t
  <1>2. CASE i \in 2..Len(s)
    <2>1. i \in 1..Len(s) /\ i - 1 \in 1..Len(s)
      BY <1>1, <1>2
    <2> QED
      BY <1>1, <1>2, <2>1 DEF Alternates
  <1>3. CASE i = Len(s) + 1
    <2>1. Len(s) # 0 /\ i - 1 = Len(s) /\ Len(s) \in 1..Len(s)
      BY <1>1, <1>3
    <2>2. s # <<>>
      BY <2>1, EmptySeq
    <2>3. t[i] = c /\ t[i - 1] = Last(s)
      BY <1>1, <1>3, <2>1 DEF Last
    <2> QED
      BY <2>2, <2>3
  <1> QED
    BY <1>1, <1>2, <1>3

LEMMA PlacedNext ==
    ASSUME NEW p \in Spreading, NEW k \in 0..Len(p.delayed) - 1, NEW q, Placed(p, k, q)
    PROVE  Placed(p, k + 1, Place(q, p.delayed[k + 1]))
  <1> DEFINE c == p.delayed[k + 1]
             r == Place(q, c)
             waits == q.out # <<>> /\ AuthorFor(Last(q.out)) = AuthorFor(c)
  <1>1. /\ p.delayed \in Seq(Candidate) /\ p.out \in Seq(Candidate)
        /\ q.delayed \in Seq(Candidate) /\ q.out \in Seq(Candidate)
        /\ q = [out |-> q.out, delayed |-> q.delayed] /\ q \in Spreading
    BY DEF Spreading, Placed
  <1>2. c \in Candidate /\ k \in Nat /\ k + 1 \in 1..Len(p.delayed)
    BY <1>1, LenProperties
  <1>3. Len(p.out) \in Nat /\ Len(p.delayed) \in Nat /\ Len(q.out) \in Nat /\ Len(q.delayed) \in Nat
    BY <1>1, LenProperties
  <1>p. /\ Len(q.out) + Len(q.delayed) = Len(p.out) + k
        /\ Len(q.delayed) < k \/ q.out = p.out
    BY DEF Placed
  <1>q. /\ (Len(q.out) + 1) + Len(q.delayed) = Len(p.out) + (k + 1)
        /\ Len(q.out) + (Len(q.delayed) + 1) = Len(p.out) + (k + 1)
        /\ Len(q.out) = Len(p.out) => Len(q.delayed) <= k
    <2> DEFINE a == Len(q.out)
               b == Len(q.delayed)
               x == Len(p.out)
    <2>1. a \in Nat /\ b \in Nat /\ x \in Nat /\ k \in Nat /\ a + b = x + k
      BY <1>2, <1>3, <1>p
    <2> HIDE DEF a, b, x
    <2>2. (a + 1) + b = x + (k + 1) /\ a + (b + 1) = x + (k + 1) /\ (a = x => b <= k)
      BY <2>1
    <2> QED
      BY <2>2 DEF a, b, x
  <1>4. FirstOf(p.delayed, k + 1) = FirstOf(p.delayed, k) \cup {c}
    <2>1. \A i : i \in 1..k + 1 <=> i \in 1..k \/ i = k + 1
      BY <1>2
    <2> QED
      BY <2>1 DEF FirstOf
  <1>5. r \in Spreading
    BY <1>1, <1>2, PlaceKeepsType
  <1>6. Stuck(p) => p.out # <<>> /\ AuthorFor(c) = AuthorFor(Last(p.out))
    BY <1>2 DEF Stuck
  <1>7. r = IF waits THEN [q EXCEPT !.delayed = Append(q.delayed, c)] ELSE [q EXCEPT !.out = Append(q.out, c)]
    BY DEF Place, AuthorFor
  <1> HIDE DEF c, r
  <1>8. CASE waits
    <2> DEFINE d == Append(q.delayed, c)
    <2>1. r.out = q.out /\ r.delayed = d
      BY <1>1, <1>7, <1>8
    <2>2. /\ Len(d) = Len(q.delayed) + 1
          /\ \A i \in 1..Len(q.delayed) : d[i] = q.delayed[i]
          /\ d[Len(q.delayed) + 1] = c
      BY <1>1, <1>2, AppendProperties
    <2>3. ToSet(d) = ToSet(q.delayed) \cup {c}
      BY <1>1, <1>2, SetOfAppend
    <2> HIDE DEF d
    <2>4. Stuck(q) => Stuck(r)
      <3> SUFFICES ASSUME Stuck(q), NEW i \in 1..Len(d)
                   PROVE  q.out # <<>> /\ AuthorFor(d[i]) = AuthorFor(Last(q.out))
        BY <2>1 DEF Stuck
      <3>1. CASE i \in 1..Len(q.delayed)
        BY <2>2, <3>1 DEF Stuck
      <3>2. CASE i = Len(q.delayed) + 1
        BY <1>8, <2>2, <3>2
      <3> QED
        BY <1>3, <2>2, <3>1, <3>2
    <2>5. Alternates(r.out)
      BY <2>1 DEF Placed
    <2>6. Len(r.out) + Len(r.delayed) = Len(p.out) + (k + 1)
      BY <1>q, <2>1, <2>2
    <2>7. ToSet(r.out) \cup ToSet(r.delayed) = ToSet(p.out) \cup FirstOf(p.delayed, k + 1)
      BY <1>4, <2>1, <2>3 DEF Placed
    <2>8. Len(r.delayed) < k + 1 \/ (r.out = p.out /\ Stuck(r))
      BY <1>2, <1>3, <2>1, <2>2, <2>4 DEF Placed
    <2>9. Stuck(p) => r.out = p.out /\ Stuck(r)
      BY <2>1, <2>4 DEF Placed
    <2>10. Placed(p, k + 1, r)
      BY <1>5, <2>5, <2>6, <2>7, <2>8, <2>9 DEF Placed
    <2> QED
      BY <2>10 DEF r, c
  <1>9. CASE ~waits
    <2> DEFINE o == Append(q.out, c)
    <2>1. r.out = o /\ r.delayed = q.delayed
      BY <1>1, <1>7, <1>9
    <2>2. Len(o) = Len(q.out) + 1
      BY <1>1, <1>2, AppendProperties
    <2>3. ToSet(o) = ToSet(q.out) \cup {c}
      BY <1>1, <1>2, SetOfAppend
    <2>4. Alternates(o)
      BY <1>1, <1>2, <1>9, AlternatesOn DEF Placed
    <2> HIDE DEF o
    <2>5. Len(r.out) + Len(r.delayed) = Len(p.out) + (k + 1)
      BY <1>q, <2>1, <2>2
    <2>6. ToSet(r.out) \cup ToSet(r.delayed) = ToSet(p.out) \cup FirstOf(p.delayed, k + 1)
      BY <1>4, <2>1, <2>3 DEF Placed
    <2>7. Len(q.delayed) <= k
      <3>1. CASE Len(q.delayed) < k
        BY <1>2, <1>3, <3>1
      <3>2. CASE q.out = p.out
        BY <1>q, <3>2
      <3> QED
        BY <1>p, <3>1, <3>2
    <2>8. ~Stuck(p)
      BY <1>6, <1>9 DEF Placed
    <2>9. Len(r.delayed) < k + 1 /\ Alternates(r.out)
      BY <1>2, <1>3, <2>1, <2>4, <2>7
    <2>10. Placed(p, k + 1, r)
      BY <1>5, <2>5, <2>6, <2>8, <2>9 DEF Placed
    <2> QED
      BY <2>10 DEF r, c
  <1> QED
    BY <1>8, <1>9

LEMMA SpreadKeepsType ==
    ASSUME NEW q \in Spreading
    PROVE  Spread(q) \in Spreading
  <1> DEFINE d == q.delayed
             n == Len(d)
             base == [out |-> q.out, delayed |-> <<>>]
  <1>1. d \in Seq(Candidate) /\ n \in Nat /\ base \in Spreading
    BY LenProperties, EmptySeq DEF Spreading
  <1>2. PICK g : /\ Spread(q) = g[1..n] /\ g[1..0] = base
                 /\ \A k \in 0..n - 1 : g[1..k + 1] = Place(g[1..k], d[k + 1])
    BY SpreadIsStepwise
  <1> DEFINE P == [k \in 0..n |-> Spreading]
  <1>3. g[1..0] \in P[0]
    BY <1>1, <1>2
  <1>4. \A k \in 0..n - 1 : g[1..k] \in P[k] => g[1..k + 1] \in P[k + 1]
    <2> SUFFICES ASSUME NEW k \in 0..n - 1, g[1..k] \in Spreading
                 PROVE  g[1..k + 1] \in P[k + 1]
      BY <1>1
    <2>1. d[k + 1] \in Candidate /\ k + 1 \in 0..n
      BY <1>1
    <2> QED
      BY <1>2, <2>1, PlaceKeepsType
  <1>5. P[n] = Spreading
    BY <1>1
  <1> HIDE DEF n, P
  <1>6. g[1..n] \in P[n]
    BY <1>1, <1>3, <1>4, FoldKeeps
  <1> QED
    BY <1>2, <1>5, <1>6

LEMMA SpreadPlaces ==
    ASSUME NEW q \in Spreading, Alternates(q.out)
    PROVE  Placed(q, Len(q.delayed), Spread(q))
  <1> DEFINE d == q.delayed
             n == Len(d)
             base == [out |-> q.out, delayed |-> <<>>]
  <1>1. d \in Seq(Candidate) /\ n \in Nat
    BY LenProperties DEF Spreading
  <1>2. PICK g : /\ Spread(q) = g[1..n] /\ g[1..0] = base
                 /\ \A k \in 0..n - 1 : g[1..k + 1] = Place(g[1..k], d[k + 1])
    BY SpreadIsStepwise
  <1> DEFINE P == [k \in 0..n |-> {r \in Spreading : Placed(q, k, r)}]
  <1>3. g[1..0] \in P[0]
    <2>1. Placed(q, 0, base) /\ 0 \in 0..n
      BY <1>1, PlacedFirst
    <2>2. base \in Spreading
      BY EmptySeq DEF Spreading
    <2> HIDE DEF base
    <2> QED
      BY <1>2, <2>1, <2>2
  <1>4. \A k \in 0..n - 1 : g[1..k] \in P[k] => g[1..k + 1] \in P[k + 1]
    <2> SUFFICES ASSUME NEW k \in 0..n - 1, g[1..k] \in P[k]
                 PROVE  g[1..k + 1] \in P[k + 1]
      OBVIOUS
    <2>0. k \in 0..n /\ k + 1 \in 0..n
      BY <1>1
    <2>1. g[1..k] \in Spreading /\ Placed(q, k, g[1..k])
      BY <2>0
    <2>2. Placed(q, k + 1, g[1..k + 1])
      BY <1>2, <2>1, PlacedNext
    <2>3. g[1..k + 1] \in Spreading
      BY <2>2 DEF Placed
    <2> QED
      BY <2>0, <2>2, <2>3
  <1>5. \A r \in P[n] : Placed(q, n, r)
    <2>1. n \in 0..n
      BY <1>1
    <2> QED
      BY <2>1
  <1> HIDE DEF n, P
  <1>6. g[1..n] \in P[n]
    BY <1>1, <1>3, <1>4, FoldKeeps
  <1> QED
    BY <1>2, <1>5, <1>6 DEF n

\* The passes, as many as there are candidates.
LEMMA PassesAreStepwise ==
    ASSUME NEW s \in Seq(Candidate)
    PROVE  \E g : /\ Passes(s) = g[1..Len(s)]
                  /\ g[1..0] = [out |-> <<>>, delayed |-> s]
                  /\ \A k \in 0..Len(s) - 1 : g[1..k + 1] = Spread(g[1..k])
  <1> DEFINE n == Len(s)
             S == 1..n
             base == [out |-> <<>>, delayed |-> s]
             choice == [t \in SUBSET S |-> Max(t)]
             f == [p \in Spreading \X S |-> Spread(p[1])]
             Is(h) == h = [t \in SUBSET S |-> IF t = {} THEN base ELSE Spread(h[t \ {Max(t)}])]
             iter == CHOOSE h : Is(h)
  <1>1. n \in Nat /\ DOMAIN s = S /\ base \in Spreading
    BY LenProperties, EmptySeq DEF Spreading
  <1>2. Passes(s) = iter[S]
    <2>1. Passes(s) = (CHOOSE h : h = [t \in SUBSET DOMAIN s |-> IF t = {} THEN base ELSE Spread(h[t \ {Max(t)}])])[DOMAIN s]
      BY DEF Passes, NextPass, FoldLeft, MapThenFoldSet
    <2> QED
      BY <1>1, <2>1
  <1> HIDE DEF n
  <1>3. \A t \in SUBSET S : t # {} => choice[t] \in t /\ choice[t] = Max(t)
    BY <1>1, LargestOf
  <1>4. \A r \in Spreading, x \in S : f[<<r, x>>] = Spread(r) /\ f[<<r, x>>] \in Spreading
    BY SpreadKeepsType
  <1>5. IsFiniteSet(S)
    BY <1>1, FS_Interval
  <1> HIDE DEF f, choice, base, S
  <1>6. PICK g \in [SUBSET S -> Spreading] : IsFold(g, S, base, choice, f)
    <2>1. ChoosesFrom(S, choice)
      BY <1>3 DEF ChoosesFrom
    <2>2. StaysIn(Spreading, S, f)
      BY <1>4 DEF StaysIn
    <2>3. base \in Spreading
      BY <1>1
    <2> QED
      BY <1>5, <2>1, <2>2, <2>3, FoldIsDefined
  <1>7. \A t \in SUBSET S : g[t] = IF t = {} THEN base ELSE Spread(g[t \ {Max(t)}])
    <2> SUFFICES ASSUME NEW t \in SUBSET S, t # {}
                 PROVE  g[t] = Spread(g[t \ {Max(t)}])
      BY <1>6 DEF IsFold
    <2>1. choice[t] = Max(t) /\ Max(t) \in S /\ t \ {Max(t)} \in SUBSET S
      BY <1>3
    <2>2. g[t \ {Max(t)}] \in Spreading
      BY <2>1
    <2> QED
      BY ZenonT(60), <1>4, <1>6, <2>1, <2>2 DEF IsFold
  <1>8. Is(g)
    BY <1>7
  <1>9. Is(iter)
    BY <1>8
  <1>10. \A t \in SUBSET S : iter[t] = IF t = {} THEN base ELSE Spread(iter[t \ {Max(t)}])
    BY <1>9
  <1> HIDE DEF iter, Is
  <1>11. iter[1..0] = base
    <2>1. 1..0 = {}
      OBVIOUS
    <2> QED
      BY <1>10, <2>1
  <1>12. \A k \in 0..n - 1 : iter[1..k + 1] = Spread(iter[1..k])
    <2> SUFFICES ASSUME NEW k \in 0..n - 1 PROVE iter[1..k + 1] = Spread(iter[1..k])
      OBVIOUS
    <2>1. k \in Nat /\ 1..k + 1 \in SUBSET S /\ 1..k + 1 # {} /\ (1..k + 1) \ {k + 1} = 1..k
      <3>1. k \in Nat /\ \A i \in 1..k + 1 : i \in 1..n
        BY <1>1
      <3>2. \A i : i \in (1..k + 1) \ {k + 1} <=> i \in 1..k
        BY <3>1
      <3>3. 1..k + 1 \subseteq S
        BY <3>1 DEF S
      <3>4. k + 1 \in 1..k + 1
        BY <3>1
      <3> QED
        BY <3>1, <3>2, <3>3, <3>4
    <2> QED
      BY <1>10, <2>1, LargestOfFirst
  <1> QED
    BY <1>1, <1>2, <1>11, <1>12 DEF base, S, n

\* After k passes, so many are placed, or the rest is of one author.
Passed(s, k, q) ==
    /\ q \in Spreading /\ Alternates(q.out)
    /\ Len(q.out) + Len(q.delayed) = Len(s)
    /\ ToSet(q.out) \cup ToSet(q.delayed) = ToSet(s)
    /\ Len(q.delayed) + k <= Len(s) \/ Stuck(q)

LEMMA PassedNext ==
    ASSUME NEW s \in Seq(Candidate), NEW k \in Nat, NEW q, Passed(s, k, q)
    PROVE  Passed(s, k + 1, Spread(q))
  <1> DEFINE r == Spread(q)
             n == Len(q.delayed)
             a == Len(q.out)
             b == Len(r.out)
             m == Len(r.delayed)
             l == Len(s)
  <1>1. q \in Spreading /\ Alternates(q.out) /\ a + n = l /\ (n + k <= l \/ Stuck(q))
    BY DEF Passed
  <1>2. Placed(q, n, r)
    BY <1>1, SpreadPlaces
  <1> HIDE DEF r
  <1>3. /\ r \in Spreading /\ Alternates(r.out) /\ b + m = a + n
        /\ m < n \/ Stuck(r)
        /\ Stuck(q) => Stuck(r)
    BY <1>2 DEF Placed
  <1>4. a \in Nat /\ b \in Nat /\ m \in Nat /\ n \in Nat /\ l \in Nat
    BY <1>1, <1>3, LenProperties DEF Spreading
  <1>5. ToSet(q.delayed) = FirstOf(q.delayed, n)
    BY <1>1, LenProperties DEF ToSet, FirstOf, Spreading
  <1>6. ToSet(r.out) \cup ToSet(r.delayed) = ToSet(s)
    BY <1>2, <1>5 DEF Placed, Passed
  <1>7. b + m = l /\ (m + (k + 1) <= l \/ Stuck(r))
    <2> HIDE DEF a, b, m, n, l
    <2> QED
      BY <1>1, <1>3, <1>4
  <1> QED
    BY <1>3, <1>6, <1>7 DEF Passed, r

LEMMA PassesEnd ==
    ASSUME NEW s \in Seq(Candidate)
    PROVE  Passed(s, Len(s), Passes(s))
  <1> DEFINE n == Len(s)
             base == [out |-> <<>>, delayed |-> s]
  <1>1. n \in Nat
    BY LenProperties
  <1>2. PICK g : /\ Passes(s) = g[1..n] /\ g[1..0] = base
                 /\ \A k \in 0..n - 1 : g[1..k + 1] = Spread(g[1..k])
    BY PassesAreStepwise
  <1> DEFINE P == [k \in 0..n |-> {r \in Spreading : Passed(s, k, r)}]
  <1>3. Passed(s, 0, base) /\ base \in Spreading
    <2>1. base \in Spreading /\ base.out = <<>> /\ base.delayed = s
      BY EmptySeq DEF Spreading
    <2> HIDE DEF base
    <2>2. Alternates(base.out) /\ Len(base.out) = 0 /\ ToSet(base.out) = {}
      BY <2>1, EmptySeq DEF Alternates, ToSet
    <2>3. 0 + Len(s) = Len(s) /\ Len(s) + 0 <= Len(s)
      BY <1>1
    <2> QED
      BY <2>1, <2>2, <2>3 DEF Passed
  <1>4. g[1..0] \in P[0]
    <2>1. 0 \in 0..n
      BY <1>1
    <2> HIDE DEF base
    <2> QED
      BY <1>2, <1>3, <2>1
  <1>5. \A k \in 0..n - 1 : g[1..k] \in P[k] => g[1..k + 1] \in P[k + 1]
    <2> SUFFICES ASSUME NEW k \in 0..n - 1, g[1..k] \in P[k]
                 PROVE  g[1..k + 1] \in P[k + 1]
      OBVIOUS
    <2>0. k \in 0..n /\ k + 1 \in 0..n /\ k \in Nat
      BY <1>1
    <2>1. Passed(s, k, g[1..k])
      BY <2>0
    <2>2. Passed(s, k + 1, g[1..k + 1])
      BY <1>2, <2>0, <2>1, PassedNext
    <2>3. g[1..k + 1] \in Spreading
      BY <2>2 DEF Passed
    <2> QED
      BY <2>0, <2>2, <2>3
  <1>6. \A r \in P[n] : Passed(s, n, r)
    <2>1. n \in 0..n
      BY <1>1
    <2> QED
      BY <2>1
  <1> HIDE DEF n, P
  <1>7. g[1..n] \in P[n]
    BY <1>1, <1>4, <1>5, FoldKeeps
  <1> QED
    BY <1>2, <1>6, <1>7 DEF n

LEMMA SetOfConcat ==
    ASSUME NEW S, NEW s \in Seq(S), NEW t \in Seq(S)
    PROVE  ToSet(s \o t) = ToSet(s) \cup ToSet(t)
  <1> DEFINE z == s \o t
             m == Len(s)
             n == Len(t)
  <1>1. /\ z \in Seq(S) /\ Len(z) = m + n /\ m \in Nat /\ n \in Nat
        /\ \A i \in 1..m + n : z[i] = IF i <= m THEN s[i] ELSE t[i - m]
    BY ConcatProperties, LenProperties
  <1>2. DOMAIN z = 1..m + n /\ DOMAIN s = 1..m /\ DOMAIN t = 1..n
    BY <1>1, LenProperties
  <1> HIDE DEF z, m, n
  <1>3. \A i \in 1..m : i \in 1..m + n /\ i <= m
    BY <1>1
  <1>4. \A i \in 1..n : i + m \in 1..m + n /\ ~(i + m <= m) /\ (i + m) - m = i
    BY <1>1
  <1>5. \A i \in 1..m + n : (i <= m /\ i \in 1..m) \/ (~(i <= m) /\ i - m \in 1..n)
    BY <1>1
  <1>6. ToSet(z) \subseteq ToSet(s) \cup ToSet(t)
    BY <1>1, <1>2, <1>5 DEF ToSet
  <1>7. ToSet(s) \subseteq ToSet(z)
    BY <1>1, <1>2, <1>3 DEF ToSet
  <1>8. ToSet(t) \subseteq ToSet(z)
    <2> SUFFICES ASSUME NEW i \in 1..n PROVE t[i] \in ToSet(z)
      BY <1>2 DEF ToSet
    <2>1. z[i + m] = t[i] /\ i + m \in DOMAIN z
      BY <1>1, <1>2, <1>4
    <2> QED
      BY <2>1 DEF ToSet
  <1> QED
    BY <1>6, <1>7, <1>8 DEF z

\* interleaveByAuthor loses nothing, and two of one author follow each other
\* only where nothing else is left.
LEMMA InterleaveSpreads ==
    ASSUME NEW s \in Seq(Candidate)
    PROVE  LET t == InterleaveByAuthor(s)
           IN  /\ t \in Seq(Candidate) /\ Len(t) = Len(s) /\ ToSet(t) = ToSet(s)
               /\ \A i, j \in 1..Len(t) :
                    (i > 1 /\ AuthorFor(t[i]) = AuthorFor(t[i - 1]) /\ j > i) => AuthorFor(t[j]) = AuthorFor(t[i])
  <1> DEFINE t == InterleaveByAuthor(s)
  <1>1. Len(s) \in Nat
    BY LenProperties
  <1>2. CASE Len(s) <= 2
    <2>1. t = s
      BY <1>2 DEF InterleaveByAuthor
    <2>2. \A i, j \in 1..Len(s) : ~(i > 1 /\ j > i)
      BY <1>1, <1>2
    <2> QED
      BY <2>1, <2>2
  <1>3. CASE ~(Len(s) <= 2)
    <2> DEFINE q == Passes(s)
               o == q.out
               d == q.delayed
               m == Len(o)
               n == Len(d)
               z == o \o d
    <2>1. t = z
      BY <1>3 DEF InterleaveByAuthor
    <2>2. Passed(s, Len(s), q)
      BY PassesEnd
    <2> HIDE DEF q
    <2>3. o \in Seq(Candidate) /\ d \in Seq(Candidate) /\ m \in Nat /\ n \in Nat
      BY <2>2, LenProperties DEF Passed, Spreading
    <2>4. m + n = Len(s) /\ Alternates(o) /\ ToSet(o) \cup ToSet(d) = ToSet(s)
      BY <2>2 DEF Passed
    <2>5. Stuck(q)
      <3>1. CASE n + Len(s) <= Len(s)
        <4>1. n = 0
          <5> HIDE DEF n
          <5> QED
            BY <1>1, <2>3, <3>1
        <4> QED
          BY <4>1 DEF Stuck
      <3> QED
        BY <2>2, <3>1 DEF Passed
    <2>6. \A i \in 1..n : o # <<>> /\ AuthorFor(d[i]) = AuthorFor(o[m])
      BY <2>5 DEF Stuck, Last
    <2> HIDE DEF o, d
    <2>7. /\ z \in Seq(Candidate) /\ Len(z) = m + n
          /\ \A i \in 1..m + n : z[i] = IF i <= m THEN o[i] ELSE d[i - m]
      BY <2>3, ConcatProperties
    <2>8. ToSet(z) = ToSet(o) \cup ToSet(d)
      BY <2>3, SetOfConcat
    <2> HIDE DEF z
    <2>9. m = 0 => o = <<>>
      BY <2>3, EmptySeq
    <2>a. \A i \in 2..m : AuthorFor(o[i]) # AuthorFor(o[i - 1])
      BY <2>4 DEF Alternates
    <2> HIDE DEF m, n
    <2>10. ASSUME NEW i \in 1..m + n, i > m
           PROVE  AuthorFor(z[i]) = AuthorFor(o[m])
      <3>1. i - m \in 1..n /\ ~(i <= m)
        BY <2>3, <2>10
      <3> QED
        BY <2>6, <2>7, <3>1
    <2>11. ASSUME NEW i \in 1..m + n, NEW j \in 1..m + n, i > 1, j > i,
                  AuthorFor(z[i]) = AuthorFor(z[i - 1])
           PROVE  AuthorFor(z[j]) = AuthorFor(z[i])
      <3>1. CASE i <= m
        <4>1. i \in 2..m /\ i - 1 \in 1..m + n /\ i - 1 <= m
          BY <2>3, <2>11, <3>1
        <4>2. z[i] = o[i] /\ z[i - 1] = o[i - 1]
          BY <2>7, <3>1, <4>1
        <4> QED
          BY <2>11, <2>a, <4>1, <4>2
      <3>2. CASE i > m
        <4>1. j > m
          BY <2>3, <2>11, <3>2
        <4> QED
          BY <2>10, <3>2, <4>1
      <3> QED
        BY <2>3, <3>1, <3>2
    <2>12. \A i, j \in 1..m + n :
              (i > 1 /\ AuthorFor(z[i]) = AuthorFor(z[i - 1]) /\ j > i) => AuthorFor(z[j]) = AuthorFor(z[i])
      BY <2>11
    <2> QED
      BY <2>1, <2>4, <2>7, <2>8, <2>12 DEF m, n
  <1> QED
    BY <1>1, <1>2, <1>3

--------------------------------------------------------------------------------
(* Recommend: ranking.                                                      *)

LEMMA CandidateFields ==
    /\ \A c \in Candidate : /\ c.video \in Catalog /\ c.score \in Int /\ c.video \in Int
                            /\ PublishedAt[c.video] \in Int
                            /\ c = [video |-> c.video, score |-> c.score]
    /\ NoCandidate \notin Candidate
  <1>1. NoCandidate \notin Candidate
    BY NoCandidateIsNone DEF Candidate
  <1>2. ASSUME NEW c \in Candidate
        PROVE  /\ c.video \in Catalog /\ c.score \in Int /\ c.video \in Int
               /\ PublishedAt[c.video] \in Int
               /\ c = [video |-> c.video, score |-> c.score]
    <2>1. c.video \in Catalog /\ c.score \in Int /\ c = [video |-> c.video, score |-> c.score]
      BY DEF Candidate
    <2> QED
      BY <2>1, CatalogIsNumbered, AgesAreNumbers
  <1> QED
    BY <1>1, <1>2

LEMMA BetterIsOrder ==
    /\ \A c \in Candidate : ~Better(c, c)
    /\ \A b, c, d \in Candidate : Better(b, c) /\ Better(c, d) => Better(b, d)
    /\ \A c, d \in Candidate : c = d \/ Better(c, d) \/ Better(d, c)
  <1>1. \A c \in Candidate : ~Better(c, c)
    BY CandidateFields DEF Better
  <1>2. \A b, c, d \in Candidate : Better(b, c) /\ Better(c, d) => Better(b, d)
    BY CandidateFields DEF Better
  <1>3. ASSUME NEW c \in Candidate, NEW d \in Candidate, ~Better(c, d), ~Better(d, c)
        PROVE  c = d
    <2>1. c.score = d.score /\ c.video = d.video
      BY <1>3, CandidateFields DEF Better
    <2> QED
      BY <2>1, CandidateFields
  <1> QED
    BY <1>1, <1>2, <1>3

LEMMA CandidatesAreRanked ==
    ASSUME NEW S \in SUBSET Candidate, IsFiniteSet(S)
    PROVE  LET s == RankedBy(S, Better)
           IN  /\ s \in Seq(S) /\ Len(s) = Cardinality(S)
               /\ \A x \in S : \E i \in 1..Len(s) : s[i] = x
               /\ \A i, j \in 1..Len(s) : i < j => Better(s[i], s[j])
  <1> DEFINE R == {p \in S \X S : Better(p[1], p[2])}
             s == RankedBy(S, Better)
  <1>1. \A x, y \in S : <<y, x>> \in R <=> Better(y, x)
    OBVIOUS
  <1>2. StrictOrder(S, R)
    <2> HIDE DEF R
    <2>1. /\ \A c \in S : ~Better(c, c)
          /\ \A b, c, d \in S : Better(b, c) /\ Better(c, d) => Better(b, d)
          /\ \A c, d \in S : c = d \/ Better(c, d) \/ Better(d, c)
      BY BetterIsOrder
    <2> QED
      BY <1>1, <2>1 DEF StrictOrder
  <1>3. \A x \in S : {y \in S : <<y, x>> \in R} = {y \in S : Better(y, x)}
    OBVIOUS
  <1>4. s = [i \in 1..Cardinality(S) |-> s[i]]
    <2> DEFINE e(i) == CHOOSE x \in S : Cardinality({y \in S : Better(y, x)}) = i - 1
    <2>1. s = [i \in 1..Cardinality(S) |-> e(i)]
      BY DEF RankedBy
    <2> HIDE DEF e, s
    <2> QED
      BY <2>1
  <1>5. ASSUME NEW i \in 1..Cardinality(S), \E x \in S : Cardinality({y \in S : <<y, x>> \in R}) = i - 1
        PROVE  s[i] \in S /\ Cardinality({y \in S : <<y, s[i]>> \in R}) = i - 1
    <2>1. \E x \in S : Cardinality({y \in S : Better(y, x)}) = i - 1
      BY <1>3, <1>5
    <2>2. s[i] = CHOOSE x \in S : Cardinality({y \in S : Better(y, x)}) = i - 1
      BY DEF RankedBy
    <2>3. s[i] \in S /\ Cardinality({y \in S : Better(y, s[i])}) = i - 1
      BY <2>1, <2>2
    <2> QED
      BY <1>3, <2>3
  <1> HIDE DEF R, s
  <1>6. /\ s \in Seq(S) /\ Len(s) = Cardinality(S)
        /\ \A x \in S : \E i \in 1..Len(s) : s[i] = x
        /\ \A i, j \in 1..Len(s) : i < j => <<s[i], s[j]>> \in R
    BY <1>2, <1>4, <1>5, EveryRankIsTaken
  <1>7. \A i \in 1..Len(s) : s[i] \in S
    BY <1>6
  <1>8. \A i, j \in 1..Len(s) : i < j => Better(s[i], s[j])
    BY <1>1, <1>6, <1>7
  <1> QED
    BY <1>6, <1>8 DEF s

LEMMA HotterIsOrder ==
    ASSUME heat \in [Catalog -> Int]
    PROVE  /\ \A v \in Catalog : ~Hotter(v, v)
           /\ \A u, v, w \in Catalog : Hotter(u, v) /\ Hotter(v, w) => Hotter(u, w)
           /\ \A v, w \in Catalog : v = w \/ Hotter(v, w) \/ Hotter(w, v)
  <1>1. \A v \in Catalog : heat[v] \in Int /\ PublishedAt[v] \in Int /\ v \in Int
    BY CatalogIsNumbered, AgesAreNumbers
  <1> QED
    BY <1>1 DEF Hotter

LEMMA VideosAreRanked ==
    ASSUME NEW S \in SUBSET Catalog, heat \in [Catalog -> Int]
    PROVE  LET s == RankedBy(S, Hotter)
           IN  /\ s \in Seq(S) /\ Len(s) = Cardinality(S)
               /\ \A x \in S : \E i \in 1..Len(s) : s[i] = x
               /\ \A i, j \in 1..Len(s) : i < j => Hotter(s[i], s[j])
  <1> DEFINE R == {p \in S \X S : Hotter(p[1], p[2])}
             s == RankedBy(S, Hotter)
  <1>0. IsFiniteSet(S)
    BY CatalogIsNumbered, FS_Subset
  <1>1. \A x, y \in S : <<y, x>> \in R <=> Hotter(y, x)
    OBVIOUS
  <1>2. StrictOrder(S, R)
    <2> HIDE DEF R
    <2>1. /\ \A c \in S : ~Hotter(c, c)
          /\ \A b, c, d \in S : Hotter(b, c) /\ Hotter(c, d) => Hotter(b, d)
          /\ \A c, d \in S : c = d \/ Hotter(c, d) \/ Hotter(d, c)
      BY HotterIsOrder
    <2> QED
      BY <1>1, <2>1 DEF StrictOrder
  <1>3. \A x \in S : {y \in S : <<y, x>> \in R} = {y \in S : Hotter(y, x)}
    OBVIOUS
  <1>4. s = [i \in 1..Cardinality(S) |-> s[i]]
    <2> DEFINE e(i) == CHOOSE x \in S : Cardinality({y \in S : Hotter(y, x)}) = i - 1
    <2>1. s = [i \in 1..Cardinality(S) |-> e(i)]
      BY DEF RankedBy
    <2> HIDE DEF e, s
    <2> QED
      BY <2>1
  <1>5. ASSUME NEW i \in 1..Cardinality(S), \E x \in S : Cardinality({y \in S : <<y, x>> \in R}) = i - 1
        PROVE  s[i] \in S /\ Cardinality({y \in S : <<y, s[i]>> \in R}) = i - 1
    <2>1. \E x \in S : Cardinality({y \in S : Hotter(y, x)}) = i - 1
      BY <1>3, <1>5
    <2>2. s[i] = CHOOSE x \in S : Cardinality({y \in S : Hotter(y, x)}) = i - 1
      BY DEF RankedBy
    <2>3. s[i] \in S /\ Cardinality({y \in S : Hotter(y, s[i])}) = i - 1
      BY <2>1, <2>2
    <2> QED
      BY <1>3, <2>3
  <1> HIDE DEF R, s
  <1>6. /\ s \in Seq(S) /\ Len(s) = Cardinality(S)
        /\ \A x \in S : \E i \in 1..Len(s) : s[i] = x
        /\ \A i, j \in 1..Len(s) : i < j => <<s[i], s[j]>> \in R
    BY <1>0, <1>2, <1>4, <1>5, EveryRankIsTaken
  <1>7. \A i \in 1..Len(s) : s[i] \in S
    BY <1>6
  <1>8. \A i, j \in 1..Len(s) : i < j => Hotter(s[i], s[j])
    BY <1>1, <1>6, <1>7
  <1> QED
    BY <1>6, <1>8 DEF s

LEMMA LimitIsNumberOf ==
    ASSUME NEW size \in Nat
    PROVE  CandidatePoolLimit(size) \in Int
  <1> DEFINE a == size * PoolMultiplier
             m == Max({a, MinPool})
  <1>1. a \in Int /\ MinPool \in Int /\ MaxPool \in Int
    BY SizesAreNumbers
  <1> HIDE DEF a
  <1>2. m \in Int
    <2>1. CASE a >= MinPool
      <3>1. \E x \in {a, MinPool} : \A y \in {a, MinPool} : x >= y
        BY <1>1, <2>1
      <3> QED
        BY <1>1, <3>1 DEF Max
    <2>2. CASE MinPool >= a
      <3>1. \E x \in {a, MinPool} : \A y \in {a, MinPool} : x >= y
        BY <1>1, <2>2
      <3> QED
        BY <1>1, <3>1 DEF Max
    <2> QED
      BY <1>1, <2>1, <2>2
  <1> HIDE DEF m
  <1>3. Min({m, MaxPool}) \in Int
    BY <1>1, <1>2, SmallerOfTwo
  <1> QED
    BY <1>3 DEF CandidatePoolLimit, m, a

\* A pool has videos to choose from, each once and with the heat it has; all of
\* them, if there are no more than fit.
LEMMA PoolIsHottest ==
    ASSUME NEW S \in SUBSET Catalog, heat \in [Catalog -> Int], NEW n \in Int
    PROVE  LET pool == Hottest(S, n)
           IN  /\ pool \subseteq [video : Catalog, hot : Int]
               /\ \A c \in pool : c.hot = heat[c.video]
               /\ \A c, d \in pool : c.video = d.video => c = d
               /\ Cardinality(S) <= n => \A v \in S : \E c \in pool : c.video = v
  <1> DEFINE s == RankedBy(S, Hotter)
             k == Min({n, Len(s)})
             pool == {[video |-> s[i], hot |-> heat[s[i]]] : i \in 1..k}
  <1>1. /\ s \in Seq(S) /\ Len(s) = Cardinality(S) /\ Len(s) \in Nat
        /\ \A x \in S : \E i \in 1..Len(s) : s[i] = x
    BY VideosAreRanked, LenProperties
  <1>2. Hottest(S, n) = pool
    BY DEF Hottest
  <1> HIDE DEF s
  <1>3. k \in Int /\ k <= Len(s) /\ (Cardinality(S) <= n => k = Len(s))
    BY <1>1, SmallerOfTwo
  <1> HIDE DEF k
  <1>4. \A i \in 1..k : s[i] \in Catalog /\ heat[s[i]] \in Int
    <2>1. \A i \in 1..k : i \in 1..Len(s)
      BY <1>1, <1>3
    <2> QED
      BY <1>1, <2>1
  <1>5. \A c \in pool : /\ c \in [video : Catalog, hot : Int] /\ c.hot = heat[c.video]
                        /\ c = [video |-> c.video, hot |-> heat[c.video]]
    BY <1>4
  <1>6. Cardinality(S) <= n => \A v \in S : \E c \in pool : c.video = v
    <2> SUFFICES ASSUME Cardinality(S) <= n, NEW v \in S PROVE \E c \in pool : c.video = v
      OBVIOUS
    <2>1. PICK i \in 1..k : s[i] = v
      BY <1>1, <1>3
    <2>2. [video |-> s[i], hot |-> heat[s[i]]] \in pool
      OBVIOUS
    <2> QED
      BY <2>1, <2>2
  <1> HIDE DEF pool
  <1>7. \A c, d \in pool : c.video = d.video => c = d
    BY <1>5
  <1> QED
    BY <1>2, <1>5, <1>6, <1>7

LEMMA StandingIsCandidate ==
    ASSUME RecommendTypes, NEW v \in Catalog, NEW heated \in Int
    PROVE  RankScore(v, heated) \in Int /\ Standing(v) \in Candidate
  <1>1. PublishedAt[v] \div 2 \in Int /\ Minute(now) \in Int /\ Fresh \in Int
    BY AgesAreNumbers DEF RecommendTypes, Minute
  <1>2. Freshness(v) \in Int
    BY <1>1 DEF Freshness
  <1>3. Similarity(v) \in Int
    BY DEF Similarity
  <1>4. \A h \in Int : RankScore(v, h) \in Int
    BY <1>2, <1>3 DEF RankScore
  <1>5. heat[v] \in Int
    BY DEF RecommendTypes
  <1> QED
    BY <1>4, <1>5 DEF Standing, Candidate

LEMMA PermutationDiffers ==
    ASSUME NEW S, NEW s \in Seq(S), NEW t \in Seq(S), Len(s) = Len(t), ToSet(s) = ToSet(t),
           \A i, j \in 1..Len(s) : s[i] = s[j] => i = j
    PROVE  \A i, j \in 1..Len(t) : t[i] = t[j] => i = j
  <1> DEFINE n == Len(s)
             T == ToSet(s)
  <1>1. n \in Nat /\ DOMAIN s = 1..n /\ DOMAIN t = 1..n /\ s \in [1..n -> S] /\ t \in [1..n -> S]
    BY LenProperties
  <1>2. T = {s[i] : i \in 1..n} /\ T = {t[i] : i \in 1..n}
    BY <1>1 DEF ToSet
  <1>3. \A i, j \in 1..n : s[i] = s[j] => i = j
    OBVIOUS
  <1>d. Len(t) = n
    OBVIOUS
  <1> HIDE DEF n, T
  <1>4. s \in Surjection(1..n, T) /\ s \in Injection(1..n, T) /\ t \in Surjection(1..n, T)
    <2>1. s \in [1..n -> T] /\ t \in [1..n -> T]
      BY <1>1, <1>2
    <2>2. \A x \in T : (\E i \in 1..n : s[i] = x) /\ (\E i \in 1..n : t[i] = x)
      BY <1>2
    <2> QED
      BY <1>3, <2>1, <2>2 DEF Surjection, Injection, IsInjective
  <1>5. IsFiniteSet(1..n)
    BY <1>1, FS_Interval
  <1>6. Cardinality(T) = Cardinality(1..n)
    BY <1>4, <1>5, FS_Surjection
  <1>7. t \in Injection(1..n, T)
    BY <1>4, <1>5, <1>6, FS_Surjection
  <1> QED
    BY <1>7, <1>d DEF Injection, IsInjective

\* The first ones of those kept, in their order; the others come behind the last.
CutOf(keep, chosen, more, size) ==
    /\ chosen \in Seq(keep)
    /\ \A i, j \in 1..Len(chosen) : i < j => Better(chosen[i], chosen[j])
    /\ more => Len(chosen) = size
    /\ \A c \in keep : \/ c \in ToSet(chosen)
                       \/ more /\ Better(Last(chosen), c)

LEMMA CutsAreFirst ==
    ASSUME NEW keep \in SUBSET Candidate, IsFiniteSet(keep), NEW size \in Nat, size # 0
    PROVE  LET ranked == RankedBy(keep, Better)
               more   == Len(ranked) > size
           IN  CutOf(keep, IF more THEN SubSeq(ranked, 1, size) ELSE ranked, more, size)
  <1> DEFINE ranked == RankedBy(keep, Better)
             more == Len(ranked) > size
             first == SubSeq(ranked, 1, size)
             chosen == IF more THEN first ELSE ranked
  <1>1. /\ ranked \in Seq(keep) /\ Len(ranked) \in Nat
        /\ \A x \in keep : \E i \in 1..Len(ranked) : ranked[i] = x
        /\ \A i, j \in 1..Len(ranked) : i < j => Better(ranked[i], ranked[j])
    BY CandidatesAreRanked, LenProperties
  <1> HIDE DEF ranked
  <1>2. CASE more
    <2>1. first \in Seq(keep) /\ Len(first) = size /\ \A i \in 1..size : first[i] = ranked[i]
      BY <1>1, <1>2, FirstOnes
    <2> HIDE DEF first
    <2>2. 1..size \subseteq 1..Len(ranked) /\ size \in 1..size
      BY <1>1, <1>2
    <2>3. \A i, j \in 1..Len(first) : i < j => Better(first[i], first[j])
      BY Zenon, <1>1, <2>1, <2>2
    <2>4. Last(first) = ranked[size]
      BY <2>1, <2>2 DEF Last
    <2>5. DOMAIN first = 1..size
      BY <2>1, LenProperties
    <2>6. ASSUME NEW c \in keep PROVE c \in ToSet(first) \/ Better(Last(first), c)
      <3>1. PICK i \in 1..Len(ranked) : ranked[i] = c
        BY <1>1
      <3>2. CASE i <= size
        <4>1. i \in 1..size
          BY <1>1, <3>1, <3>2
        <4>2. first[i] = c /\ i \in DOMAIN first
          BY <2>1, <2>5, <3>1, <4>1
        <4> QED
          BY <4>2 DEF ToSet
      <3>3. CASE size < i
        <4>1. size \in 1..Len(ranked) /\ size < i
          BY <2>2, <3>3
        <4>2. Better(ranked[size], ranked[i])
          BY <1>1, <4>1
        <4> QED
          BY <2>4, <3>1, <4>2
      <3> QED
        BY <1>1, <3>2, <3>3
    <2>7. chosen = first
      BY <1>2
    <2>8. CutOf(keep, first, more, size)
      BY <1>2, <2>1, <2>3, <2>6 DEF CutOf
    <2>9. CutOf(keep, chosen, more, size)
      BY <2>7, <2>8
    <2> QED
      BY <2>9 DEF ranked, first
  <1>3. CASE ~more
    <2>1. keep \subseteq ToSet(ranked)
      <3>1. DOMAIN ranked = 1..Len(ranked)
        BY <1>1, LenProperties
      <3> QED
        BY <1>1, <3>1 DEF ToSet
    <2> QED
      BY <1>1, <1>3, <2>1 DEF CutOf, ranked
  <1> QED
    BY <1>2, <1>3

--------------------------------------------------------------------------------
(* Recommend: sessions.                                                     *)

LEMMA SessionFields ==
    ASSUME RecommendTypes
    PROVE  /\ reading.seen \in Seq(Catalog) /\ reading.latest \in Seq(Catalog)
           /\ reading.size \in Nat /\ reading.offered \subseteq Catalog
           /\ reading.behind # NoCandidate => reading.behind \in Candidate
           /\ ToSet(reading.seen) \subseteq Catalog
           /\ Len(reading.seen) \in Nat /\ DOMAIN reading.seen = 1..Len(reading.seen)
           /\ Len(reading.latest) \in Nat /\ DOMAIN reading.latest = 1..Len(reading.latest)
  <1>1. /\ reading.seen \in Seq(Catalog) /\ reading.latest \in Seq(Catalog)
        /\ reading.size \in Nat /\ reading.offered \subseteq Catalog
        /\ reading.behind # NoCandidate => reading.behind \in Candidate
    BY DEF RecommendTypes
  <1>2. /\ Len(reading.seen) \in Nat /\ DOMAIN reading.seen = 1..Len(reading.seen)
        /\ Len(reading.latest) \in Nat /\ DOMAIN reading.latest = 1..Len(reading.latest)
    BY <1>1, LenProperties
  <1>3. ToSet(reading.seen) \subseteq Catalog
    BY <1>1, <1>2 DEF ToSet
  <1> QED
    BY <1>1, <1>2, <1>3

\* Without a session there is nothing to keep.
LEMMA IdleIsSettled == RecommendTypes /\ reading = NoSession => RecommendIInv
  <1> SUFFICES ASSUME RecommendTypes, reading = NoSession PROVE RecommendIInv
    OBVIOUS
  <1>1. /\ reading.at = "idle" /\ reading.behind = NoCandidate /\ reading.seen = <<>>
        /\ reading.latest = <<>> /\ reading.at # "pool" /\ reading.at # "done"
        /\ reading.at # "shown"
    BY DEF NoSession
  <1>2. Len(reading.seen) = 0 /\ DOMAIN reading.latest = {}
    BY <1>1
  <1>3. PoolIsCurrent /\ CursorIsCurrent
    BY <1>1 DEF PoolIsCurrent, CursorIsCurrent
  <1>4. SeenOnce /\ AuthorsAlternate
    BY <1>2 DEF SeenOnce, AuthorsAlternate
  <1>5. OfferedIsAhead
    BY <1>1 DEF OfferedIsAhead, Behind
  <1> QED
    BY <1>3, <1>4, <1>5 DEF RecommendIInv

LEMMA IdleStaysSettled == (RecommendTypes /\ reading = NoSession => RecommendIInv)'
  BY IdleIsSettled, PTL

LEMMA RecommendBegins == RecommendInit => RecommendIInv
  <1> SUFFICES ASSUME RecommendInit PROVE RecommendIInv
    OBVIOUS
  <1>1. NoSession \in [at : {"idle", "pool", "shown", "done"}, size : Nat,
                       behind : Candidate \cup {NoCandidate},
                       pool : (SUBSET [video : Catalog, hot : Int]) \cup {NoCandidate},
                       seen : Seq(Catalog), latest : Seq(Catalog), offered : SUBSET Catalog,
                       still : BOOLEAN, full : BOOLEAN]
    <2>1. <<>> \in Seq(Catalog)
      BY EmptySeq
    <2> QED
      BY <2>1 DEF NoSession
  <1>2. RecommendTypes
    <2>1. heat \in [Catalog -> Int]
      BY HeatsAreNumbers DEF RecommendInit
    <2>2. exposedAt \in [Catalog -> Nat \cup {Never}] /\ now \in Nat /\ published \subseteq Catalog
      BY DEF RecommendInit
    <2>3. reading = NoSession /\ reading.at # "pool"
      BY DEF RecommendInit, NoSession
    <2> QED
      BY <1>1, <2>1, <2>2, <2>3 DEF RecommendTypes
  <1> QED
    BY <1>2, IdleIsSettled DEF RecommendInit

\* Scores do not move while heat, taste and the minute stay.
ScoresStay == heat' = heat /\ taste' = taste /\ Minute(now') = Minute(now)

LEMMA StandingStays ==
    ASSUME ScoresStay, NEW v
    PROVE  Standing(v)' = Standing(v)
  <1>1. Freshness(v)' = Freshness(v)
    BY DEF ScoresStay, Freshness
  <1>2. Similarity(v)' = Similarity(v) /\ HasUserVector' = HasUserVector
    BY DEF ScoresStay, Similarity, HasUserVector
  <1>3. RankScore(v, heat[v])' = RankScore(v, heat[v])
    BY <1>1, <1>2 DEF ScoresStay, RankScore
  <1> QED
    BY <1>3 DEF Standing

LEMMA SessionStaysRight ==
    ASSUME RecommendIInv, RecommendTypes', ScoresStay, reading' = reading
    PROVE  RecommendIInv'
  <1>1. PoolIsCurrent'
    BY DEF RecommendIInv, PoolIsCurrent, ScoresStay
  <1>2. CursorIsCurrent'
    BY StandingStays DEF RecommendIInv, CursorIsCurrent
  <1>3. SeenOnce' /\ AuthorsAlternate'
    BY DEF RecommendIInv, SeenOnce, AuthorsAlternate
  <1>4. OfferedIsAhead'
    BY StandingStays DEF RecommendIInv, OfferedIsAhead, Behind
  <1> QED
    BY <1>1, <1>2, <1>3, <1>4 DEF RecommendIInv

\* When scores move, little is promised of the session.
LEMMA SessionMoves ==
    ASSUME RecommendIInv, Moved,
           published' \subseteq Catalog, heat' \in [Catalog -> Int], now' \in Nat,
           exposedAt' \in [Catalog -> Nat \cup {Never}]
    PROVE  RecommendIInv'
  <1> USE DEF Moved
  <1>0. RecommendTypes
    BY DEF RecommendIInv
  <1>1. CASE reading.at = "idle"
    <2>1. reading = NoSession
      BY <1>0, <1>1 DEF RecommendTypes
    <2>2. reading' = NoSession /\ reading' = reading
      <3>1. (reading.at = "idle") = TRUE
        BY <1>1
      <3>2. reading' = [reading EXCEPT !.still = TRUE]
        BY <3>1
      <3>3. reading' = reading
        BY <2>1, <3>2 DEF NoSession
      <3> QED
        BY <2>1, <3>3
    <2>3. RecommendTypes'
      BY <1>0, <1>1, <2>2 DEF RecommendTypes
    <2> QED
      BY <2>2, <2>3, IdleStaysSettled
  <1>2. CASE reading.at # "idle"
    <2>1. reading' = [reading EXCEPT !.still = FALSE]
      BY <1>2
    <2>2. /\ reading'.at = reading.at /\ reading'.size = reading.size
          /\ reading'.pool = reading.pool /\ reading'.latest = reading.latest
          /\ reading'.still = FALSE
      BY <1>0, <2>1 DEF RecommendTypes
    <2>3. RecommendTypes'
      BY <1>0, <1>2, <2>1 DEF RecommendTypes
    <2>4. PoolIsCurrent' /\ CursorIsCurrent' /\ SeenOnce' /\ OfferedIsAhead'
      BY <2>2 DEF RecommendIInv, PoolIsCurrent, CursorIsCurrent, SeenOnce, OfferedIsAhead
    <2>5. AuthorsAlternate'
      BY <2>2 DEF RecommendIInv, AuthorsAlternate
    <2> QED
      BY <2>3, <2>4, <2>5 DEF RecommendIInv
  <1> QED
    BY <1>1, <1>2

LEMMA PoolIsListed == RecommendIInv /\ ListCandidatePool => RecommendIInv'
  <1> SUFFICES ASSUME RecommendIInv, ListCandidatePool PROVE RecommendIInv'
    OBVIOUS
  <1>0. /\ RecommendTypes /\ published \subseteq Catalog /\ heat \in [Catalog -> Int]
        /\ UNCHANGED <<published, heat, taste, now, exposedAt>>
        /\ reading.at \in {"idle", "shown"}
    BY DEF RecommendIInv, RecommendTypes, ListCandidatePool
  <1>s. ScoresStay
    BY <1>0 DEF ScoresStay
  <1>1. PICK size \in Limits :
          reading' = [reading EXCEPT !.at = "pool", !.size = size,
                                     !.pool = Hottest(Eligible, CandidatePoolLimit(size)),
                                     !.offered = @ \cap Eligible,
                                     !.full = @ /\ Cardinality(Eligible) <= CandidatePoolLimit(size)]
    BY DEF ListCandidatePool
  <1> DEFINE n == CandidatePoolLimit(size)
             chosen == Hottest(Eligible, n)
  <1>2. size \in Nat /\ size # 0
    BY SizesAreNumbers
  <1>3. Eligible \in SUBSET Catalog
    BY <1>0 DEF Eligible
  <1>4. n \in Int
    BY <1>2, LimitIsNumberOf
  <1>5. /\ chosen \subseteq [video : Catalog, hot : Int]
        /\ \A c \in chosen : c.hot = heat[c.video]
        /\ \A c, d \in chosen : c.video = d.video => c = d
        /\ Cardinality(Eligible) <= n => \A v \in Eligible : \E c \in chosen : c.video = v
    BY <1>0, <1>3, <1>4, PoolIsHottest
  <1> HIDE DEF n, chosen
  <1>6. /\ reading'.at = "pool" /\ reading'.size = size /\ reading'.pool = chosen
        /\ reading'.offered = reading.offered \cap Eligible
        /\ reading'.full = (reading.full /\ Cardinality(Eligible) <= n)
        /\ reading'.still = reading.still /\ reading'.behind = reading.behind
        /\ reading'.seen = reading.seen /\ reading'.latest = reading.latest
    BY <1>0, <1>1 DEF RecommendTypes, n, chosen
  <1>7. RecommendTypes'
    <2>1. reading' \in [at : {"idle", "pool", "shown", "done"}, size : Nat,
                    behind : Candidate \cup {NoCandidate},
                    pool : (SUBSET [video : Catalog, hot : Int]) \cup {NoCandidate},
                    seen : Seq(Catalog), latest : Seq(Catalog), offered : SUBSET Catalog,
                    still : BOOLEAN, full : BOOLEAN]
      BY <1>0, <1>1, <1>2, <1>5 DEF RecommendTypes, n, chosen
    <2> QED
      BY <1>0, <1>2, <1>5, <1>6, <2>1 DEF RecommendTypes
  <1>8. PoolIsCurrent'
    BY <1>0, <1>5, <1>6 DEF PoolIsCurrent
  <1>9. CASE reading.at = "idle"
    <2>1. reading = NoSession
      BY <1>0, <1>9 DEF RecommendTypes
    <2>2. reading.behind = NoCandidate /\ reading.seen = <<>> /\ reading.latest = <<>>
      BY <2>1 DEF NoSession
    <2>3. CursorIsCurrent' /\ SeenOnce' /\ AuthorsAlternate'
      <3>1. ToSet(<<>>) = {}
        BY DEF ToSet
      <3> QED
        BY <1>6, <2>2, <3>1 DEF CursorIsCurrent, SeenOnce, AuthorsAlternate
    <2>4. OfferedIsAhead'
      BY <1>5, <1>6, <2>2 DEF OfferedIsAhead, Behind
    <2> QED
      BY <1>7, <1>8, <2>3, <2>4 DEF RecommendIInv
  <1>10. CASE reading.at = "shown"
    <2>1. CursorIsCurrent'
      BY <1>6, <1>10, <1>s, StandingStays DEF RecommendIInv, CursorIsCurrent
    <2>2. SeenOnce' /\ AuthorsAlternate'
      BY <1>6 DEF RecommendIInv, SeenOnce, AuthorsAlternate
    <2>3. OfferedIsAhead'
      <3>1. ASSUME reading'.still = TRUE, reading'.full = TRUE, NEW v \in reading'.offered
            PROVE  \/ v \in ToSet(reading.seen)
                   \/ /\ Behind(Standing(v), reading.behind)
                      /\ \E c \in chosen : c.video = v
        <4>1. reading.full = TRUE /\ Cardinality(Eligible) <= n
          BY <1>0, <1>6, <3>1 DEF RecommendTypes
        <4>2. v \in reading.offered /\ v \in Eligible /\ reading.still = TRUE
          BY <1>6, <3>1
        <4>3. v \in ToSet(reading.seen) \/ Behind(Standing(v), reading.behind)
          BY <4>1, <4>2 DEF RecommendIInv, OfferedIsAhead
        <4> QED
          BY <1>5, <4>1, <4>2, <4>3
      <3> QED
        BY <1>6, <1>s, <3>1, StandingStays DEF OfferedIsAhead, Behind
    <2> QED
      BY <1>7, <1>8, <2>1, <2>2, <2>3 DEF RecommendIInv
  <1> QED
    BY <1>0, <1>9, <1>10

\* A finite pool, each video once.
LEMMA VideosAreFinite ==
    ASSUME NEW S \in SUBSET Candidate, \A c, d \in S : c.video = d.video => c = d
    PROVE  IsFiniteSet(S)
  <1> DEFINE f == [c \in S |-> c.video]
  <1>1. f \in Injection(S, Catalog)
    BY CandidateFields DEF Injection, IsInjective
  <1> QED
    BY <1>1, CatalogIsNumbered, FS_Injection

\* What is behind the cursor of those that the pool holds.
Kept == {c \in Scored(reading.pool) : Behind(c, reading.behind)}

LEMMA KeptIsRanked ==
    ASSUME RecommendIInv, reading.at = "pool"
    PROVE  /\ Kept \in SUBSET Candidate /\ IsFiniteSet(Kept)
           /\ \A c, d \in Kept : c.video = d.video => c = d
           /\ reading.still = TRUE => \A c \in Kept : c = Standing(c.video)
           /\ reading.still = TRUE =>
                \A p \in reading.pool : Standing(p.video) \in Scored(reading.pool)
  <1> DEFINE pool == reading.pool
             score(p) == [video |-> p.video, score |-> RankScore(p.video, p.hot)]
  <1>1. /\ RecommendTypes /\ pool \subseteq [video : Catalog, hot : Int]
        /\ \A p, q \in pool : p.video = q.video => p = q
        /\ reading.still = TRUE => \A p \in pool : p.hot = heat[p.video]
    BY DEF RecommendIInv, RecommendTypes, PoolIsCurrent
  <1>2. \A c \in Kept : \E p \in pool : c = score(p)
    BY DEF Kept, Scored
  <1>h. \A p \in pool : score(p) \in Scored(pool)
    BY DEF Scored
  <1> HIDE DEF pool
  <1>3. \A p \in pool : score(p) \in Candidate /\ score(p).video = p.video
    BY <1>1, StandingIsCandidate DEF Candidate
  <1>4. reading.still = TRUE => \A p \in pool : score(p) = Standing(p.video)
    BY <1>1 DEF Standing
  <1> HIDE DEF score
  <1>5. Kept \in SUBSET Candidate
    BY <1>2, <1>3
  <1>6. \A c, d \in Kept : c.video = d.video => c = d
    BY <1>1, <1>2, <1>3
  <1>7. IsFiniteSet(Kept)
    BY <1>5, <1>6, VideosAreFinite
  <1>8. reading.still = TRUE => \A c \in Kept : c = Standing(c.video)
    BY <1>2, <1>3, <1>4
  <1> QED
    BY <1>4, <1>5, <1>6, <1>7, <1>8, <1>h DEF pool

\* The page that is shown: those of the front, in any order, each of its videos once.
MixOf(front, mixed) ==
    /\ mixed \in Seq(Candidate) /\ Len(mixed) = Len(front) /\ ToSet(mixed) = ToSet(front)
    /\ \A i, j \in 1..Len(mixed) : mixed[i] = mixed[j] => i = j
    /\ \A i, j \in 1..Len(mixed) :
          (i > 1 /\ AuthorFor(mixed[i]) = AuthorFor(mixed[i - 1]) /\ j > i) => AuthorFor(mixed[j]) = AuthorFor(mixed[i])

LEMMA FrontIsShown ==
    ASSUME NEW keep \in SUBSET Candidate, NEW front, NEW more, NEW size,
           CutOf(keep, front, more, size)
    PROVE  MixOf(front, InterleaveByAuthor(front))
  <1>1. front \in Seq(keep) /\ \A i, j \in 1..Len(front) : i < j => Better(front[i], front[j])
    BY DEF CutOf
  <1>2. /\ front \in Seq(Candidate) /\ Len(front) \in Nat
        /\ \A i \in 1..Len(front) : front[i] \in Candidate
    BY <1>1, LenProperties
  <1>3. \A i, j \in 1..Len(front) : front[i] = front[j] => i = j
    <2> SUFFICES ASSUME NEW i \in 1..Len(front), NEW j \in 1..Len(front), front[i] = front[j], i # j
                 PROVE  FALSE
      OBVIOUS
    <2>1. i < j \/ j < i
      OBVIOUS
    <2>2. ~Better(front[i], front[i])
      BY <1>2, BetterIsOrder
    <2> QED
      BY <1>1, <2>1, <2>2
  <1>4. LET t == InterleaveByAuthor(front)
        IN  /\ t \in Seq(Candidate) /\ Len(t) = Len(front) /\ ToSet(t) = ToSet(front)
            /\ \A i, j \in 1..Len(t) :
                 (i > 1 /\ AuthorFor(t[i]) = AuthorFor(t[i - 1]) /\ j > i) => AuthorFor(t[j]) = AuthorFor(t[i])
    BY <1>2, InterleaveSpreads
  <1> DEFINE t == InterleaveByAuthor(front)
  <1>5. /\ t \in Seq(Candidate) /\ Len(t) = Len(front) /\ ToSet(t) = ToSet(front)
        /\ \A i, j \in 1..Len(t) :
             (i > 1 /\ AuthorFor(t[i]) = AuthorFor(t[i - 1]) /\ j > i) => AuthorFor(t[j]) = AuthorFor(t[i])
    BY <1>4
  <1> HIDE DEF t
  <1>6. \A i, j \in 1..Len(t) : t[i] = t[j] => i = j
    BY <1>2, <1>3, <1>5, PermutationDiffers
  <1> QED
    BY <1>5, <1>6 DEF MixOf, t

\* The videos of a page.
VideosOf(mixed) == [i \in DOMAIN mixed |-> mixed[i].video]

ShowsVideos(front, mixed) ==
    /\ VideosOf(mixed) \in Seq(Catalog) /\ Len(VideosOf(mixed)) = Len(mixed)
    /\ \A i \in 1..Len(mixed) : mixed[i] \in ToSet(front) /\ VideosOf(mixed)[i] = mixed[i].video
    /\ \A i, j \in 1..Len(mixed) : VideosOf(mixed)[i] = VideosOf(mixed)[j] => i = j
    /\ \A c \in ToSet(front) : c.video \in ToSet(VideosOf(mixed))
    /\ \A v \in ToSet(VideosOf(mixed)) : \E c \in ToSet(front) : v = c.video

LEMMA PageShowsVideos ==
    ASSUME NEW keep \in SUBSET Candidate, NEW front, NEW mixed, ToSet(front) \subseteq keep,
           MixOf(front, mixed), \A c, d \in keep : c.video = d.video => c = d
    PROVE  ShowsVideos(front, mixed)
  <1> DEFINE n == Len(mixed)
             w == VideosOf(mixed)
  <1>1. /\ mixed \in Seq(Candidate) /\ n \in Nat /\ DOMAIN mixed = 1..n
        /\ \A i \in 1..n : mixed[i] \in Candidate
    BY LenProperties DEF MixOf
  <1>2. w = [i \in 1..n |-> mixed[i].video]
    BY <1>1 DEF VideosOf
  <1>3. ToSet(mixed) = ToSet(front) /\ \A i, j \in 1..n : mixed[i] = mixed[j] => i = j
    BY DEF MixOf
  <1>t. ToSet(mixed) = {mixed[i] : i \in 1..n}
    BY <1>1 DEF ToSet
  <1> HIDE DEF n, w
  <1>4. \A i \in 1..n : w[i] = mixed[i].video /\ w[i] \in Catalog
    BY <1>1, <1>2, CandidateFields
  <1>5. w \in Seq(Catalog) /\ Len(w) = n /\ DOMAIN w = 1..n
    <2>1. w \in [1..n -> Catalog]
      BY <1>2, <1>4
    <2>2. w \in Seq(Catalog)
      BY <1>1, <2>1, SeqDef
    <2> QED
      BY <1>1, <2>1, <2>2, LenProperties
  <1>6. \A i \in 1..n : mixed[i] \in ToSet(front)
    BY <1>3, <1>t
  <1>7. \A i, j \in 1..n : w[i] = w[j] => i = j
    BY <1>3, <1>4, <1>6
  <1>8. ToSet(w) = {w[i] : i \in 1..n}
    BY <1>5 DEF ToSet
  <1>9. ASSUME NEW c \in ToSet(front) PROVE c.video \in ToSet(w)
    <2>1. PICK i \in 1..n : mixed[i] = c
      BY <1>3, <1>t
    <2> QED
      BY <1>4, <1>8, <2>1
  <1>10. ASSUME NEW v \in ToSet(w) PROVE \E c \in ToSet(front) : v = c.video
    <2>1. PICK i \in 1..n : w[i] = v
      BY <1>8
    <2> QED
      BY <1>4, <1>6, <2>1
  <1> QED
    BY <1>4, <1>5, <1>6, <1>7, <1>9, <1>10 DEF n, w, ShowsVideos

LEMMA FrontIsRanked ==
    ASSUME RecommendIInv, reading.at = "pool"
    PROVE  LET ranked == Ranked(reading.pool, reading.behind)
               more   == Len(ranked) > reading.size
           IN  CutOf(Kept, IF more THEN SubSeq(ranked, 1, reading.size) ELSE ranked, more, reading.size)
  <1>1. reading.size \in Nat /\ reading.size # 0
    BY DEF RecommendIInv, RecommendTypes
  <1>2. Kept \in SUBSET Candidate /\ IsFiniteSet(Kept)
    BY KeptIsRanked
  <1>3. Ranked(reading.pool, reading.behind) = RankedBy(Kept, Better)
    BY DEF Ranked, Kept
  <1> HIDE DEF Kept
  <1> QED
    BY <1>1, <1>2, <1>3, CutsAreFirst

\* A step that ranks a pool shows a page of the front of what is behind the cursor.
PageStep(front, more, mixed) ==
    /\ CutOf(Kept, front, more, reading.size) /\ more \in BOOLEAN
    /\ MixOf(front, mixed)
    /\ reading' = [reading EXCEPT !.at = IF more THEN "shown" ELSE "done",
                                  !.behind = NextCandidate(front),
                                  !.pool = NoCandidate,
                                  !.seen = @ \o VideosOf(mixed),
                                  !.latest = VideosOf(mixed)]

LEMMA PageIsRanked ==
    ASSUME RecommendIInv, RankCandidates
    PROVE  \E front, more, mixed : PageStep(front, more, mixed)
  <1> DEFINE ranked == Ranked(reading.pool, reading.behind)
             more   == Len(ranked) > reading.size
             front  == IF more THEN SubSeq(ranked, 1, reading.size) ELSE ranked
             mixed   == InterleaveByAuthor(front)
  <1>1. reading.at = "pool"
    BY DEF RankCandidates
  <1>2. CutOf(Kept, front, more, reading.size)
    BY <1>1, FrontIsRanked
  <1>3. Kept \in SUBSET Candidate
    BY <1>1, KeptIsRanked
  <1>4. reading' = [reading EXCEPT !.at = IF more THEN "shown" ELSE "done",
                                   !.behind = NextCandidate(front),
                                   !.pool = NoCandidate,
                                   !.seen = @ \o VideosOf(mixed),
                                   !.latest = VideosOf(mixed)]
    BY DEF RankCandidates, VideosOf
  <1>5. more \in BOOLEAN
    OBVIOUS
  <1> HIDE DEF front, more
  <1>6. MixOf(front, mixed)
    BY <1>2, <1>3, FrontIsShown
  <1> QED
    BY <1>2, <1>4, <1>5, <1>6 DEF PageStep

LEMMA FrontEnds ==
    ASSUME RecommendIInv, reading.at = "pool", NEW front, NEW more, CutOf(Kept, front, more, reading.size)
    PROVE  /\ ToSet(front) \subseteq Kept /\ Len(front) \in Nat
           /\ front = <<>> => ~more /\ ToSet(front) = {}
           /\ front # <<>> => /\ Last(front) \in Kept
                              /\ \A c \in ToSet(front) : ~Better(Last(front), c)
  <1> DEFINE n == Len(front)
  <1>1. /\ front \in Seq(Kept) /\ n \in Nat /\ DOMAIN front = 1..n
        /\ \A i \in 1..n : front[i] \in Kept
        /\ \A i, j \in 1..n : i < j => Better(front[i], front[j])
        /\ more => n = reading.size
        /\ front = <<>> <=> n = 0
    BY LenProperties, EmptySeq DEF CutOf
  <1>2. ToSet(front) = {front[i] : i \in 1..n}
    BY <1>1 DEF ToSet
  <1>3. Kept \in SUBSET Candidate /\ reading.size # 0
    BY KeptIsRanked DEF RecommendIInv, RecommendTypes
  <1>4. Last(front) = front[n]
    BY DEF Last
  <1> HIDE DEF n
  <1>5. ASSUME n # 0, NEW i \in 1..n PROVE ~Better(front[n], front[i])
    <2>1. n \in 1..n /\ (i < n \/ i = n)
      BY <1>1, <1>5
    <2>2. front[i] \in Candidate /\ front[n] \in Candidate
      BY <1>1, <1>3, <2>1
    <2> QED
      BY <1>1, <2>1, <2>2, BetterIsOrder
  <1>6. n # 0 => front[n] \in Kept
    BY <1>1
  <1>7. ToSet(front) \subseteq Kept
    BY <1>1, <1>2
  <1>8. n = 0 => ~more /\ ToSet(front) = {}
    BY <1>1, <1>2, <1>3
  <1>9. n # 0 => \A c \in ToSet(front) : ~Better(front[n], c)
    BY <1>2, <1>5
  <1>10. Len(front) \in Nat
    BY <1>1 DEF n
  <1> QED
    BY <1>1, <1>4, <1>6, <1>7, <1>8, <1>9, <1>10

LEMMA PageIsTyped ==
    ASSUME RecommendIInv, reading.at = "pool", NEW front, NEW more, NEW mixed, PageStep(front, more, mixed)
    PROVE  /\ VideosOf(mixed) \in Seq(Catalog)
           /\ reading'.at = (IF more THEN "shown" ELSE "done")
           /\ reading'.behind = NextCandidate(front) /\ reading'.seen = reading.seen \o VideosOf(mixed)
           /\ reading'.latest = VideosOf(mixed) /\ reading'.still = reading.still
           /\ reading'.full = reading.full /\ reading'.offered = reading.offered
           /\ reading' \in [at : {"idle", "pool", "shown", "done"}, size : Nat,
                            behind : Candidate \cup {NoCandidate},
                            pool : (SUBSET [video : Catalog, hot : Int]) \cup {NoCandidate},
                            seen : Seq(Catalog), latest : Seq(Catalog), offered : SUBSET Catalog,
                            still : BOOLEAN, full : BOOLEAN]
  <1> DEFINE w == VideosOf(mixed)
             next == NextCandidate(front)
             z == reading.seen \o w
  <1>1. /\ Kept \in SUBSET Candidate /\ \A c, d \in Kept : c.video = d.video => c = d
        /\ RecommendTypes
    BY KeptIsRanked DEF RecommendIInv
  <1>2. /\ ToSet(front) \subseteq Kept
        /\ front # <<>> => Last(front) \in Kept
    BY FrontEnds DEF PageStep
  <1>3. w \in Seq(Catalog)
    <2>1. ShowsVideos(front, mixed)
      BY <1>1, <1>2, PageShowsVideos DEF PageStep
    <2> QED
      BY <2>1 DEF ShowsVideos
  <1>4. next \in Candidate \cup {NoCandidate}
    BY <1>1, <1>2 DEF NextCandidate
  <1>5. z \in Seq(Catalog)
    BY <1>1, <1>3, SessionFields, ConcatProperties
  <1>6. reading' = [reading EXCEPT !.at = IF more THEN "shown" ELSE "done", !.behind = next,
                                   !.pool = NoCandidate, !.seen = z, !.latest = w]
    BY DEF PageStep
  <1>7. more \in BOOLEAN
    BY DEF PageStep
  <1> HIDE DEF w, next, z
  <1>8. /\ w \in Seq(Catalog)
        /\ reading'.at = (IF more THEN "shown" ELSE "done")
        /\ reading'.behind = next /\ reading'.seen = z
        /\ reading'.latest = w /\ reading'.still = reading.still
        /\ reading'.full = reading.full /\ reading'.offered = reading.offered
        /\ reading' \in [at : {"idle", "pool", "shown", "done"}, size : Nat,
                            behind : Candidate \cup {NoCandidate},
                            pool : (SUBSET [video : Catalog, hot : Int]) \cup {NoCandidate},
                            seen : Seq(Catalog), latest : Seq(Catalog), offered : SUBSET Catalog,
                            still : BOOLEAN, full : BOOLEAN]
    BY <1>1, <1>3, <1>4, <1>5, <1>6, <1>7 DEF RecommendTypes
  <1> QED
    BY <1>8 DEF w, next, z

\* What a page adds, while scores stand still: videos behind the cursor, each once.
LEMMA PageGoesBehind ==
    ASSUME RecommendIInv, reading.at = "pool", reading.still = TRUE,
           NEW front, NEW more, NEW mixed, PageStep(front, more, mixed)
    PROVE  LET w == VideosOf(mixed)
           IN  /\ \A i, j \in 1..Len(w) : w[i] = w[j] => i = j
               /\ \A v \in ToSet(w) : /\ v \in Catalog /\ Standing(v) \in ToSet(front)
                                      /\ Behind(Standing(v), reading.behind)
               /\ \A v \in Catalog : Standing(v) \in ToSet(front) => v \in ToSet(w)
  <1> DEFINE w == VideosOf(mixed)
  <1>1. /\ Kept \in SUBSET Candidate /\ \A c, d \in Kept : c.video = d.video => c = d
        /\ \A c \in Kept : c = Standing(c.video)
    BY KeptIsRanked
  <1>2. ToSet(front) \subseteq Kept
    BY FrontEnds DEF PageStep
  <1>3. /\ Len(w) = Len(mixed)
        /\ \A i, j \in 1..Len(mixed) : w[i] = w[j] => i = j
        /\ \A c \in ToSet(front) : c.video \in ToSet(w)
        /\ \A v \in ToSet(w) : \E c \in ToSet(front) : v = c.video
    <2>1. MixOf(front, mixed)
      BY DEF PageStep
    <2>2. Kept \in SUBSET Candidate /\ \A c, d \in Kept : c.video = d.video => c = d
      BY <1>1
    <2>3. ShowsVideos(front, mixed)
      BY <1>2, <2>1, <2>2, PageShowsVideos
    <2> QED
      BY <2>3 DEF ShowsVideos
  <1>4. \A c \in Kept : Behind(c, reading.behind)
    BY DEF Kept
  <1> HIDE DEF w
  <1>5. ASSUME NEW v \in ToSet(w)
        PROVE  v \in Catalog /\ Standing(v) \in ToSet(front) /\ Behind(Standing(v), reading.behind)
    <2>1. PICK c \in ToSet(front) : v = c.video
      BY <1>3
    <2>2. c \in Kept /\ c = Standing(v) /\ c.video \in Catalog
      BY <1>1, <1>2, <2>1, CandidateFields
    <2> QED
      BY <1>4, <2>1, <2>2
  <1>6. \A v \in Catalog : Standing(v) \in ToSet(front) => v \in ToSet(w)
    BY <1>3 DEF Standing
  <1>7. \A i, j \in 1..Len(w) : w[i] = w[j] => i = j
    BY <1>3
  <1> QED
    BY <1>5, <1>6, <1>7 DEF w

LEMMA SeenStaysOnce ==
    ASSUME RecommendIInv, reading.at = "pool", NEW front, NEW more, NEW mixed, PageStep(front, more, mixed)
    PROVE  SeenOnce'
  <1> SUFFICES ASSUME reading.still = TRUE
               PROVE  \A i, j \in 1..Len(reading'.seen) : reading'.seen[i] = reading'.seen[j] => i = j
    BY PageIsTyped DEF SeenOnce
  <1> DEFINE w == VideosOf(mixed)
             old == reading.seen
             z == old \o w
             m == Len(old)
             n == Len(w)
  <1>1. RecommendTypes /\ CursorIsCurrent /\ SeenOnce
    BY DEF RecommendIInv
  <1>2. w \in Seq(Catalog) /\ reading'.seen = z /\ old \in Seq(Catalog)
    BY <1>1, PageIsTyped, SessionFields
  <1>3. /\ \A i, j \in 1..n : w[i] = w[j] => i = j
        /\ \A v \in ToSet(w) : Behind(Standing(v), reading.behind)
    BY PageGoesBehind
  <1>4. /\ \A i, j \in 1..m : old[i] = old[j] => i = j
        /\ \A v \in ToSet(old) : reading.behind # NoCandidate /\ ~Better(reading.behind, Standing(v))
    BY <1>1 DEF SeenOnce, CursorIsCurrent
  <1>5. ToSet(old) \cap ToSet(w) = {}
    BY <1>3, <1>4 DEF Behind
  <1>6. /\ Len(z) = m + n /\ m \in Nat /\ n \in Nat
        /\ \A i \in 1..m + n : z[i] = IF i <= m THEN old[i] ELSE w[i - m]
    BY <1>2, ConcatProperties, LenProperties
  <1>7. (\A i \in 1..m : old[i] \in ToSet(old)) /\ (\A i \in 1..n : w[i] \in ToSet(w))
    <2>1. DOMAIN old = 1..m /\ DOMAIN w = 1..n
      BY <1>2, LenProperties
    <2> QED
      BY <2>1 DEF ToSet
  <1> HIDE DEF w, old, z, m, n
  <1>8. \A i \in 1..m + n : i > m => i - m \in 1..n
    BY <1>6
  <1>9. \A i, j \in 1..m + n : z[i] = z[j] => i = j
    <2> SUFFICES ASSUME NEW i \in 1..m + n, NEW j \in 1..m + n, z[i] = z[j] PROVE i = j
      OBVIOUS
    <2>1. CASE i <= m /\ j <= m
      BY <1>4, <1>6, <2>1
    <2>2. CASE i <= m /\ j > m
      <3>1. z[i] \in ToSet(old) /\ z[j] \in ToSet(w)
        BY <1>6, <1>7, <1>8, <2>2
      <3> QED
        BY <1>5, <3>1
    <2>3. CASE i > m /\ j <= m
      <3>1. z[j] \in ToSet(old) /\ z[i] \in ToSet(w)
        BY <1>6, <1>7, <1>8, <2>3
      <3> QED
        BY <1>5, <3>1
    <2>4. CASE i > m /\ j > m
      <3>1. i - m \in 1..n /\ j - m \in 1..n /\ w[i - m] = w[j - m]
        BY <1>6, <1>8, <2>4
      <3>2. i - m = j - m
        BY <1>3, <3>1
      <3> QED
        BY <1>6, <3>2
    <2> QED
      BY <1>6, <2>1, <2>2, <2>3, <2>4
  <1> QED
    BY <1>2, <1>6, <1>9

LEMMA CursorStaysCurrent ==
    ASSUME RecommendIInv, reading.at = "pool", ScoresStay,
           NEW front, NEW more, NEW mixed, PageStep(front, more, mixed)
    PROVE  CursorIsCurrent'
  <1>1. /\ reading'.at = (IF more THEN "shown" ELSE "done") /\ reading'.still = reading.still
        /\ reading'.behind = NextCandidate(front) /\ reading'.seen = reading.seen \o VideosOf(mixed)
        /\ VideosOf(mixed) \in Seq(Catalog)
    BY PageIsTyped
  <1> SUFFICES ASSUME reading.still = TRUE, more
               PROVE  /\ reading'.behind # NoCandidate => reading'.behind = Standing(reading'.behind.video)
                      /\ \A v \in ToSet(reading'.seen) :
                            reading'.behind # NoCandidate /\ ~Better(reading'.behind, Standing(v))
    BY <1>1, StandingStays DEF CursorIsCurrent
  <1> DEFINE last == Last(front)
             mark == reading.behind
  <1>2. /\ front # <<>> /\ last \in Kept /\ \A c \in ToSet(front) : ~Better(last, c)
    BY FrontEnds DEF PageStep
  <1>3. /\ last \in Candidate /\ last = Standing(last.video) /\ Behind(last, mark)
    BY <1>2, KeptIsRanked DEF Kept
  <1>4. reading'.behind = last /\ last # NoCandidate
    BY <1>1, <1>2, <1>3, CandidateFields DEF NextCandidate
  <1>5. /\ RecommendTypes
        /\ mark # NoCandidate => mark \in Candidate
        /\ \A v \in ToSet(reading.seen) :
              v \in Catalog /\ mark # NoCandidate /\ ~Better(mark, Standing(v))
    BY SessionFields DEF RecommendIInv, CursorIsCurrent
  <1> HIDE DEF last, mark
  <1>6. ToSet(reading'.seen) = ToSet(reading.seen) \cup ToSet(VideosOf(mixed))
    BY <1>1, <1>5, SessionFields, SetOfConcat
  <1>7. ASSUME NEW v \in ToSet(reading.seen) PROVE ~Better(last, Standing(v))
    <2>1. v \in Catalog /\ mark \in Candidate /\ ~Better(mark, Standing(v)) /\ mark # NoCandidate
      BY <1>5
    <2>2. Better(mark, last)
      BY <1>3, <2>1 DEF Behind
    <2>3. Standing(v) \in Candidate
      <3>1. heat[v] \in Int
        BY <1>5, <2>1 DEF RecommendTypes
      <3> QED
        BY <1>5, <2>1, <3>1, StandingIsCandidate
    <2> QED
      BY <1>3, <2>1, <2>2, <2>3, BetterIsOrder
  <1>8. ASSUME NEW v \in ToSet(VideosOf(mixed)) PROVE ~Better(last, Standing(v))
    BY <1>2, <1>8, PageGoesBehind
  <1> QED
    BY <1>3, <1>4, <1>6, <1>7, <1>8

LEMMA OfferedStaysAhead ==
    ASSUME RecommendIInv, reading.at = "pool", ScoresStay,
           NEW front, NEW more, NEW mixed, PageStep(front, more, mixed)
    PROVE  OfferedIsAhead'
  <1>1. /\ reading'.at = (IF more THEN "shown" ELSE "done") /\ reading'.still = reading.still
        /\ reading'.behind = NextCandidate(front) /\ reading'.seen = reading.seen \o VideosOf(mixed)
        /\ reading'.full = reading.full /\ reading'.offered = reading.offered
        /\ VideosOf(mixed) \in Seq(Catalog) /\ more \in BOOLEAN
    BY PageIsTyped DEF PageStep
  <1> SUFFICES ASSUME reading.still = TRUE, reading.full = TRUE, NEW v \in reading.offered
               PROVE  \/ v \in ToSet(reading'.seen)
                      \/ more /\ Behind(Standing(v), reading'.behind)
    BY <1>1, StandingStays DEF OfferedIsAhead, Behind
  <1>2. RecommendTypes /\ v \in Catalog
    BY SessionFields DEF RecommendIInv
  <1>3. ToSet(reading'.seen) = ToSet(reading.seen) \cup ToSet(VideosOf(mixed))
    BY <1>1, <1>2, SessionFields, SetOfConcat
  <1>4. CASE v \in ToSet(reading.seen)
    BY <1>3, <1>4
  <1>5. CASE v \notin ToSet(reading.seen)
    <2>1. Behind(Standing(v), reading.behind) /\ \E c \in reading.pool : c.video = v
      BY <1>5 DEF RecommendIInv, OfferedIsAhead
    <2>2. Standing(v) \in Kept
      BY <2>1, KeptIsRanked DEF Kept
    <2>3. Standing(v) \in ToSet(front) \/ (more /\ Better(Last(front), Standing(v)))
      BY <2>2 DEF PageStep, CutOf
    <2>4. CASE Standing(v) \in ToSet(front)
      <3>1. v \in ToSet(VideosOf(mixed))
        BY <1>2, <2>4, PageGoesBehind
      <3> QED
        BY <1>3, <3>1
    <2>5. CASE more /\ Better(Last(front), Standing(v))
      <3>1. front # <<>>
        BY <2>5, FrontEnds DEF PageStep
      <3> QED
        BY <1>1, <2>5, <3>1 DEF NextCandidate, Behind
    <2> QED
      BY <2>3, <2>4, <2>5
  <1> QED
    BY <1>4, <1>5

LEMMA AuthorsStayApart ==
    ASSUME RecommendIInv, reading.at = "pool", NEW front, NEW more, NEW mixed, PageStep(front, more, mixed)
    PROVE  AuthorsAlternate'
  <1>1. reading'.latest = VideosOf(mixed)
    BY PageIsTyped
  <1>2. /\ Kept \in SUBSET Candidate /\ \A c, d \in Kept : c.video = d.video => c = d
        /\ ToSet(front) \subseteq Kept
    BY KeptIsRanked, FrontEnds DEF PageStep
  <1> DEFINE n == Len(mixed)
             w == VideosOf(mixed)
  <1>3. w \in Seq(Catalog) /\ Len(w) = n /\ \A i \in 1..n : w[i] = mixed[i].video
    <2>1. ShowsVideos(front, mixed)
      BY <1>2, PageShowsVideos DEF PageStep
    <2> QED
      BY <2>1 DEF ShowsVideos
  <1>4. DOMAIN w = 1..n /\ n \in Nat
    BY <1>3, LenProperties
  <1>5. \A i, j \in 1..n :
          (i > 1 /\ AuthorFor(mixed[i]) = AuthorFor(mixed[i - 1]) /\ j > i) => AuthorFor(mixed[j]) = AuthorFor(mixed[i])
    BY DEF PageStep, MixOf
  <1> HIDE DEF n, w
  <1>6. \A i \in 1..n : AuthorOf[w[i]] = AuthorFor(mixed[i])
    BY <1>3 DEF AuthorFor
  <1>7. \A i \in 1..n : i > 1 => i - 1 \in 1..n
    BY <1>4
  <1>8. \A i, j \in 1..n :
          (i > 1 /\ AuthorOf[w[i]] = AuthorOf[w[i - 1]] /\ j > i) => AuthorOf[w[j]] = AuthorOf[w[i]]
    BY <1>5, <1>6, <1>7
  <1>9. \A i, j \in DOMAIN reading'.latest :
          (i > 1 /\ AuthorOf[reading'.latest[i]] = AuthorOf[reading'.latest[i - 1]] /\ j > i)
          => AuthorOf[reading'.latest[j]] = AuthorOf[reading'.latest[i]]
    BY <1>1, <1>4, <1>8 DEF w
  <1> QED
    BY <1>9 DEF AuthorsAlternate

LEMMA CandidatesAreShown == RecommendIInv /\ RankCandidates => RecommendIInv'
  <1> SUFFICES ASSUME RecommendIInv, RankCandidates PROVE RecommendIInv'
    OBVIOUS
  <1>1. PICK front, more, mixed : PageStep(front, more, mixed)
    BY PageIsRanked
  <1>2. /\ reading.at = "pool" /\ UNCHANGED <<published, heat, taste, now, exposedAt>>
        /\ RecommendTypes
    BY DEF RankCandidates, RecommendIInv
  <1>3. ScoresStay
    BY <1>2 DEF ScoresStay
  <1>4. RecommendTypes' /\ PoolIsCurrent'
    <2>1. reading'.at = "shown" \/ reading'.at = "done"
      BY <1>1, <1>2, PageIsTyped
    <2>2. reading' \in [at : {"idle", "pool", "shown", "done"}, size : Nat,
                            behind : Candidate \cup {NoCandidate},
                            pool : (SUBSET [video : Catalog, hot : Int]) \cup {NoCandidate},
                            seen : Seq(Catalog), latest : Seq(Catalog), offered : SUBSET Catalog,
                            still : BOOLEAN, full : BOOLEAN]
      BY <1>1, <1>2, PageIsTyped
    <2> QED
      BY <1>2, <2>1, <2>2 DEF RecommendTypes, PoolIsCurrent
  <1>5. CursorIsCurrent' /\ SeenOnce' /\ OfferedIsAhead' /\ AuthorsAlternate'
    BY <1>1, <1>2, <1>3, CursorStaysCurrent, SeenStaysOnce, OfferedStaysAhead, AuthorsStayApart
  <1> QED
    BY <1>4, <1>5 DEF RecommendIInv

LEMMA RecommendSteps == RecommendIInv /\ [RecommendNext]_recommendVars => RecommendIInv'
  <1> SUFFICES ASSUME RecommendIInv, [RecommendNext]_recommendVars PROVE RecommendIInv'
    OBVIOUS
  <1>0. /\ RecommendTypes /\ published \subseteq Catalog /\ heat \in [Catalog -> Int]
        /\ now \in Nat /\ exposedAt \in [Catalog -> Nat \cup {Never}]
    BY DEF RecommendIInv, RecommendTypes
  <1>1. CASE ListCandidatePool
    BY <1>1, PoolIsListed
  <1>2. CASE RankCandidates
    BY <1>2, CandidatesAreShown
  <1>3. CASE EndReading
    <2>1. reading' = NoSession /\ UNCHANGED <<published, heat, taste, now, exposedAt>>
      BY <1>3 DEF EndReading
    <2>2. RecommendTypes'
      <3>1. /\ NoSession.at = "idle"
            /\ NoSession \in [at : {"idle", "pool", "shown", "done"}, size : Nat,
                       behind : Candidate \cup {NoCandidate},
                       pool : (SUBSET [video : Catalog, hot : Int]) \cup {NoCandidate},
                       seen : Seq(Catalog), latest : Seq(Catalog), offered : SUBSET Catalog,
                       still : BOOLEAN, full : BOOLEAN]
        <4>1. <<>> \in Seq(Catalog)
          BY EmptySeq
        <4> QED
          BY <4>1 DEF NoSession
      <3> QED
        BY <1>0, <2>1, <3>1 DEF RecommendTypes
    <2> QED
      BY <2>1, <2>2, IdleStaysSettled
  <1>4. CASE SaveExposures
    <2>1. /\ UNCHANGED <<published, heat, taste, now, reading>>
          /\ \E vs : exposedAt' = Exposed(vs)
      BY <1>4 DEF SaveExposures
    <2>2. RecommendTypes' /\ ScoresStay
      BY <1>0, <2>1 DEF RecommendTypes, ScoresStay, Exposed
    <2> QED
      BY <2>1, <2>2, SessionStaysRight
  <1>5. CASE HeatChanges
    <2>1. /\ Moved /\ UNCHANGED <<published, taste, now, exposedAt>>
          /\ \E v \in Catalog : heat' = [heat EXCEPT ![v] = 1 - @]
      BY <1>5 DEF HeatChanges
    <2>2. heat' \in [Catalog -> Int]
      BY <1>0, <2>1
    <2> QED
      BY <1>0, <2>1, <2>2, SessionMoves
  <1>6. CASE TasteChanges
    <2>1. Moved /\ UNCHANGED <<published, heat, now, exposedAt>>
      BY <1>6 DEF TasteChanges
    <2> QED
      BY <1>0, <2>1, SessionMoves
  <1>7. CASE Withdraw
    <2>1. UNCHANGED <<heat, taste, now, exposedAt, reading>> /\ published' \subseteq Catalog
      BY <1>0, <1>7 DEF Withdraw
    <2>2. RecommendTypes' /\ ScoresStay
      BY <1>0, <2>1 DEF RecommendTypes, ScoresStay
    <2> QED
      BY <2>1, <2>2, SessionStaysRight
  <1>8. CASE Tick
    <2>1. /\ UNCHANGED <<published, heat, taste, exposedAt, moves>> /\ now' \in Nat
          /\ IF Minute(now') = Minute(now) THEN UNCHANGED reading ELSE Moved
      BY <1>0, <1>8 DEF Tick
    <2>2. CASE Minute(now') = Minute(now)
      <3>1. RecommendTypes' /\ ScoresStay /\ reading' = reading
        BY <1>0, <2>1, <2>2 DEF RecommendTypes, ScoresStay
      <3> QED
        BY <3>1, SessionStaysRight
    <2>3. CASE Minute(now') # Minute(now)
      BY <1>0, <2>1, <2>3, SessionMoves
    <2> QED
      BY <2>2, <2>3
  <1>9. CASE UNCHANGED recommendVars
    <2>1. UNCHANGED <<published, heat, taste, now, exposedAt, reading, moves>>
      BY <1>9 DEF recommendVars
    <2>2. RecommendTypes' /\ ScoresStay
      BY <1>0, <2>1 DEF RecommendTypes, ScoresStay
    <2> QED
      BY <2>1, <2>2, SessionStaysRight
  <1> QED
    BY <1>1, <1>2, <1>3, <1>4, <1>5, <1>6, <1>7, <1>8, <1>9 DEF RecommendNext

LEMMA RecommendInvariant == RecommendSpec => []RecommendIInv
  BY RecommendBegins, RecommendSteps, PTL DEF RecommendSpec

\* A sequence whose entries differ has as many members as entries.
LEMMA DifferentAreCounted ==
    ASSUME NEW S, NEW s \in Seq(S), \A i, j \in 1..Len(s) : s[i] = s[j] => i = j
    PROVE  Cardinality(ToSet(s)) = Len(s)
  <1> DEFINE n == Len(s)
             T == ToSet(s)
  <1>1. n \in Nat /\ DOMAIN s = 1..n /\ s \in [1..n -> S]
    BY LenProperties
  <1>2. T = {s[i] : i \in 1..n} /\ \A i, j \in 1..n : s[i] = s[j] => i = j
    BY <1>1 DEF ToSet
  <1>d. n = Len(s) /\ T = ToSet(s)
    OBVIOUS
  <1> HIDE DEF n, T
  <1>3. s \in Surjection(1..n, T) /\ s \in Injection(1..n, T)
    <2>1. s \in [1..n -> T]
      BY <1>1, <1>2
    <2>2. \A x \in T : \E i \in 1..n : s[i] = x
      BY <1>2
    <2> QED
      BY <1>2, <2>1, <2>2 DEF Surjection, Injection, IsInjective
  <1>4. IsFiniteSet(1..n) /\ Cardinality(1..n) = n
    BY <1>1, FS_Interval
  <1>5. Cardinality(T) = Cardinality(1..n)
    BY <1>3, <1>4, FS_Surjection
  <1> QED
    BY <1>4, <1>5, <1>d

\* The window of the decision begins no later than that of the pool.
LEMMA DecisionsAreStricter == RecommendTypes => DecisionsAgree
  <1> SUFFICES ASSUME RecommendTypes, NEW v \in published, Allowed(v) PROVE v \in Eligible
    BY DEF DecisionsAgree
  <1> DEFINE x == exposedAt[v]
             k == now \div 2
  <1>1. now \in Nat /\ WeekTicks \in Int /\ x \in Nat \cup {Never}
    BY AgesAreNumbers DEF RecommendTypes
  <1>2. k \in Int /\ 2 * k <= now
    BY <1>1
  <1>3. ~(x # Never /\ x >= 2 * k - WeekTicks)
    BY DEF Allowed, RecentlyExposed, Minute
  <1> HIDE DEF x, k
  <1>4. ~(x # Never /\ x >= now - WeekTicks)
    <2> SUFFICES ASSUME x # Never, x >= now - WeekTicks PROVE FALSE
      OBVIOUS
    <2>1. x \in Nat
      BY <1>1
    <2>2. x >= 2 * k - WeekTicks
      BY <1>1, <1>2, <2>1
    <2> QED
      BY <1>3, <2>2
  <1> QED
    BY <1>4 DEF Eligible, RecentlyExposed, x

(* Paging through recommendations (Recommend, the pools and the cursor): while the *)
(* scores a session began with stand still, it shows no video twice, whatever is   *)
(* exposed or withdrawn in between, and who reads to the end, with pools that hold *)
(* all, has seen every video that could be offered at each page. The exposure      *)
(* decision never lets pass what the pool would have left out.                     *)
THEOREM RecommendationsAreShownOnce == RecommendSpec => []RecommendedOnce
  <1>1. RecommendIInv => RecommendedOnce
    <2> SUFFICES ASSUME RecommendIInv PROVE RecommendedOnce
      OBVIOUS
    <2>1. RecommendTypes /\ SeenOnce /\ OfferedIsAhead
      BY DEF RecommendIInv
    <2>2. NothingComesTwice
      <3> SUFFICES ASSUME reading.still PROVE Cardinality(ToSet(reading.seen)) = Len(reading.seen)
        BY DEF NothingComesTwice
      <3>1. reading.still = TRUE
        BY <2>1 DEF RecommendTypes
      <3>2. reading.seen \in Seq(Catalog)
        BY <2>1, SessionFields
      <3>3. \A i, j \in 1..Len(reading.seen) : reading.seen[i] = reading.seen[j] => i = j
        BY <2>1, <3>1 DEF SeenOnce
      <3> QED
        BY <3>2, <3>3, DifferentAreCounted
    <2>3. NothingIsMissed
      <3> SUFFICES ASSUME reading.at = "done", reading.still, reading.full,
                          NEW v \in reading.offered
                   PROVE  v \in ToSet(reading.seen)
        BY DEF NothingIsMissed
      <3>1. reading.still = TRUE /\ reading.full = TRUE
        BY <2>1 DEF RecommendTypes
      <3> QED
        BY <2>1, <3>1 DEF OfferedIsAhead
    <2>4. DecisionsAgree
      BY <2>1, DecisionsAreStricter
    <2> QED
      BY <2>2, <2>3, <2>4 DEF RecommendedOnce
  <1> QED
    BY <1>1, RecommendInvariant, PTL

(* The pages of the recommendations (interleaveByAuthor): after two videos of one   *)
(* author in a row, a page goes on with that author only, because there is nobody   *)
(* else left.                                                                       *)
THEOREM AuthorsAreSpread == RecommendSpec => []AuthorsAlternate
  <1>1. RecommendIInv => AuthorsAlternate
    BY DEF RecommendIInv
  <1> QED
    BY <1>1, RecommendInvariant, PTL

--------------------------------------------------------------------------------
(* The parts together.                                                      *)

\* A step of the parts together is one of each part, or leaves it as it is.
LEMMA PartsBegin ==
    ASSUME PartsInit
    PROVE  PagesInit /\ PlaybackInit /\ AccountInit
  BY DEF PartsInit

LEMMA PartsGoOn ==
    ASSUME [PartsNext]_partsVars
    PROVE  [PagesNext]_pagesVars /\ [PlaybackNext]_playbackVars /\ [AccountNext]_accountVars
  BY DEF PartsNext, partsVars

LEMMA PartsAreTheirs == PartsSpec => PagesSpec /\ PlaybackSpec /\ AccountSpec
  BY PartsBegin, PartsGoOn, PTL DEF PartsSpec, PagesSpec, PlaybackSpec, AccountSpec

(* Lists that change are shown once, when the parts run as the model       *)
(* checker runs them: the pages behind a cursor, and the videos a player   *)
(* loads ahead (application/feed, application/playback).                   *)
THEOREM ListsAreShownOnce == PartsSpec => []ListsShownOnce
  <1>1. EveryRowOnce /\ PlayedOnce => ListsShownOnce
    BY DEF ListsShownOnce
  <1> QED
    BY <1>1, PartsAreTheirs, RowsAreShownOnce, VideosArePlayedOnce, PTL

(* A unique key names one row, when the parts run as the model checker     *)
(* runs them: the account of a user and the idempotency key of a report    *)
(* (infra/persistence/account, infra/persistence/playback).                *)
THEOREM KeysAreRows == PartsSpec => []KeysNameOneRow
  <1>1. AccountsHaveOneUser /\ ReportedOnce => KeysNameOneRow
    BY DEF KeysNameOneRow
  <1> QED
    BY <1>1, PartsAreTheirs, AccountsAreHeldOnce, ReportsAreLoggedOnce, PTL
================================================================================
