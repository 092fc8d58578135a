-------------------------- MODULE InteractionTxProofs --------------------------
(***************************************************************************)
(* Proofs about InteractionTx, for every number of goroutines, users,      *)
(* action types, keys and comments, and, at the end, about InteractionLocks*)
(* for every number of transactions, videos and rows.                      *)
(*                                                                         *)
(* The argument: whoever computes or writes a counter holds the video row  *)
(* (Staged), only one transaction holds a row (Exclusive), so between a    *)
(* transaction's reads and its commit nobody else changes what it has read *)
(* (Decided), and the counter it installs is the size of the set it leaves *)
(* behind.                                                                 *)
(*                                                                         *)
(* Circles: whoever waits for a comment holds nothing, whoever waits for a *)
(* video holds at most a comment, and past the video's lock a transaction  *)
(* waits only at its insertion, and only for others past theirs.           *)
(***************************************************************************)
EXTENDS InteractionTx, InteractionLocks, FiniteSetTheorems, WellFoundedInduction,
        NaturalsInduction, TLAPS

--------------------------------------------------------------------------------
(* The rules *)

(* The delta of a request is the change it makes to the number of active     *)
(* rows: a canceled or missing row counts zero, an active one counts one.    *)
LEMMA RowDeltaIsTheChange ==
    ASSUME NEW rec \in Record, NEW active \in BOOLEAN, NEW key \in Key
    PROVE  /\ RowAfter(rec, active, key) \in Record
           /\ RowDelta(rec, active, key) \in {-1, 0, 1}
           /\ RowAfter(rec, active, key).status = Active
                  => RowDelta(rec, active, key) = (IF rec.status = Active THEN 0 ELSE 1)
           /\ RowAfter(rec, active, key).status # Active
                  => RowDelta(rec, active, key) = (IF rec.status = Active THEN -1 ELSE 0)
  BY DEF Record, Status, Key, RowAfter, RowDelta, IsReplay, ResolveActionDelta,
         StatusFromActive, Active, Canceled, Unset

LEMMA ClampNat == ASSUME NEW n \in Int PROVE Clamp(n) \in Nat /\ (n >= 0 => Clamp(n) = n)
  BY DEF Clamp

(* The sets the counters are compared with are finite.                       *)
LEMMA MarkedFinite ==
    ASSUME NEW t \in Types
    PROVE  IsFiniteSet(Marked(t)) /\ Cardinality(Marked(t)) \in Nat
  BY UsersFinite, FS_Subset, FS_CardinalityType DEF Marked

LEMMA VisibleFinite == IsFiniteSet(Visible) /\ Cardinality(Visible) \in Nat
  BY CommentIdsFinite, FS_Subset, FS_CardinalityType DEF Visible

--------------------------------------------------------------------------------
(* Steps that change no row *)

(* A transaction that ends without a commit leaves every invariant alone.    *)
LEMMA FinishKeepsIInv ==
    ASSUME IInv, NEW p \in Procs, Finish(p), UNCHANGED rows
    PROVE  IInv'
  <1>1. TypeOK'
    BY DEF IInv, TypeOK, Finish, rows, PCs
  <1>2. Exclusive'
    BY DEF IInv, TypeOK, Exclusive, Finish
  <1>3. Staged'
    BY DEF IInv, TypeOK, Staged, Finish, Past, Inside
  <1>4. Decided'
    BY DEF IInv, TypeOK, Decided, Finish, Past, Inside, rows, SameKey, Counter, NoRequest
  <1>5. ActionCountsAgree' /\ CommentCountAgrees' /\ CommentKeysUnique'
    BY DEF IInv, rows, ActionCountsAgree, CommentCountAgrees, CommentKeysUnique,
           Marked, Visible, SameKey
  <1>6. QED
    BY <1>1, <1>2, <1>3, <1>4, <1>5 DEF IInv

(* The invariants about the rows only look at the rows.                      *)
LEMMA RowsKept ==
    ASSUME IInv, UNCHANGED rows
    PROVE  ActionCountsAgree' /\ CommentCountAgrees' /\ CommentKeysUnique'
  BY DEF IInv, rows, ActionCountsAgree, CommentCountAgrees, CommentKeysUnique,
         Marked, Visible, SameKey

LEMMA BeginKeepsIInv ==
    ASSUME IInv, NEW p \in Procs, NEW r \in Request, Begin(p, r)
    PROVE  IInv'
  <1> USE DEF Begin, Goto
  <1>1. TypeOK'
    BY DEF IInv, TypeOK, rows, PCs
  <1>2. Exclusive'
    BY DEF IInv, Exclusive
  <1>3. Staged'
    BY DEF IInv, TypeOK, Staged, Past, Inside
  <1>4. Decided'
    BY DEF IInv, TypeOK, Staged, Decided, Past, Inside, rows, SameKey, Counter
  <1>5. QED
    BY <1>1, <1>2, <1>3, <1>4, RowsKept DEF IInv

LEMMA LookupKeepsIInv ==
    ASSUME IInv, NEW p \in Procs, Lookup(p)
    PROVE  IInv'
  <1>1. CASE SameKey(req[p].user, req[p].key) # {}
    BY <1>1, FinishKeepsIInv DEF Lookup
  <1>2. CASE SameKey(req[p].user, req[p].key) = {}
    <2> USE <1>2 DEF Lookup, Goto
    <2>1. TypeOK'
      BY DEF IInv, TypeOK, rows, PCs
    <2>2. Exclusive'
      BY DEF IInv, Exclusive
    <2>3. Staged'
      BY DEF IInv, TypeOK, Staged, Past, Inside
    <2>4. Decided'
      BY DEF IInv, TypeOK, Staged, Decided, Past, Inside, rows, SameKey, Counter
    <2>5. QED
      BY <2>1, <2>2, <2>3, <2>4, RowsKept DEF IInv
  <1>3. QED
    BY <1>1, <1>2

LEMMA LockCommentKeepsIInv ==
    ASSUME IInv, NEW p \in Procs, LockComment(p)
    PROVE  IInv'
  <1> DEFINE c == req[p].id
  <1>1. CASE comment[c].status = Unset
    BY <1>1, FinishKeepsIInv DEF LockComment
  <1>2. CASE comment[c].status # Unset
    <2> USE <1>2 DEF LockComment, Goto, Lock, Free
    <2>0. req[p] \in DeleteRequest /\ c \in CommentIds
      BY DEF IInv, Staged, Past, Request, SetRequest, CreateRequest, DeleteRequest
    <2>1. TypeOK'
      BY <2>0, SMTT(30) DEF IInv, TypeOK, rows, PCs, RowNames
    <2>2. Exclusive'
      BY DEF IInv, TypeOK, Exclusive
    <2>3. Staged'
      BY <2>0 DEF IInv, TypeOK, Staged, Past, Inside
    <2>4. Decided'
      BY <2>0 DEF IInv, TypeOK, Staged, Decided, Past, Inside, rows, SameKey, Counter
    <2>5. QED
      BY <2>1, <2>2, <2>3, <2>4, RowsKept DEF IInv
  <1>3. QED
    BY <1>1, <1>2

LEMMA LockVideoKeepsIInv ==
    ASSUME IInv, NEW p \in Procs, LockVideo(p)
    PROVE  IInv'
  <1> DEFINE refused == \/ req[p].op # "deleteComment" /\ ~published
                        \/ req[p].op = "deleteComment" /\ ~CanDelete(p)
  <1>1. CASE refused
    BY <1>1, FinishKeepsIInv DEF LockVideo
  <1>2. CASE ~refused
    <2> USE <1>2 DEF LockVideo, Goto, Lock, Free, AfterVideo
    <2>0. req[p] \in Request
      BY DEF IInv, Staged
    <2>1. TypeOK'
      BY <2>0 DEF IInv, TypeOK, rows, PCs, RowNames
    <2>2. Exclusive'
      BY DEF IInv, TypeOK, Exclusive
    <2>3. Staged'
      BY <2>0 DEF IInv, TypeOK, Staged, Past, Inside, Request, SetRequest, CreateRequest, DeleteRequest
    <2>4. Decided'
      BY <2>0 DEF IInv, TypeOK, Staged, Decided, Past, Inside, rows, SameKey, Counter,
                  Request, SetRequest, CreateRequest, DeleteRequest
    <2>5. QED
      BY <2>1, <2>2, <2>3, <2>4, RowsKept DEF IInv
  <1>3. QED
    BY <1>1, <1>2

LEMMA LockActionKeepsIInv ==
    ASSUME IInv, NEW p \in Procs, LockAction(p)
    PROVE  IInv'
  <1> DEFINE r == req[p]
             rec == action[r.type][r.user]
  <1> USE DEF LockAction, Goto, Lock, Free
  <1>1. r \in SetRequest /\ rec \in Record
    BY DEF IInv, TypeOK, Staged, Past, Request, SetRequest, CreateRequest, DeleteRequest
  <1>2. RowDelta(rec, r.active, r.key) \in {-1, 0, 1}
    BY <1>1, RowDeltaIsTheChange DEF SetRequest
  <1>3. TypeOK'
    <2>1. held' \in [Procs -> SUBSET RowNames]
      <3>1. ActionRow(r.type, r.user) \in RowNames
        BY <1>1 DEF RowNames, SetRequest
      <3>2. held' = [held EXCEPT ![p] = @ \cup {ActionRow(r.type, r.user)}] \/ held' = held
        OBVIOUS
      <3> QED
        BY <3>1, <3>2 DEF IInv, TypeOK
    <2> QED
      BY <1>1, <1>2, <2>1 DEF IInv, TypeOK, rows, PCs
  <1>4. Exclusive'
    BY DEF IInv, TypeOK, Exclusive
  <1>5. Staged'
    BY <1>1 DEF IInv, TypeOK, Staged, Past, Inside, SetRequest
  <1>6. Decided'
    BY <1>1 DEF IInv, TypeOK, Staged, Decided, Past, Inside, rows, SameKey, Counter, SetRequest
  <1>7. QED
    BY <1>3, <1>4, <1>5, <1>6, RowsKept DEF IInv

LEMMA InsertCommentKeepsIInv ==
    ASSUME IInv, NEW p \in Procs, InsertComment(p)
    PROVE  IInv'
  <1>1. CASE SameKey(req[p].user, req[p].key) # {}
    BY <1>1, FinishKeepsIInv DEF InsertComment
  <1>2. CASE SameKey(req[p].user, req[p].key) = {}
    <2> USE <1>2 DEF InsertComment, Goto
    <2>0. req[p] \in CreateRequest
      BY DEF IInv, Staged, Past, Request, SetRequest, CreateRequest, DeleteRequest
    <2>1. TypeOK'
      BY DEF IInv, TypeOK, rows, PCs
    <2>2. Exclusive'
      BY DEF IInv, Exclusive
    <2>3. Staged'
      BY <2>0 DEF IInv, TypeOK, Staged, Past, Inside, CreateRequest
    <2>4. Decided'
      BY <2>0 DEF IInv, TypeOK, Staged, Decided, Past, Inside, rows, SameKey, Counter, CreateRequest
    <2>5. QED
      BY <2>1, <2>2, <2>3, <2>4, RowsKept DEF IInv
  <1>3. QED
    BY <1>1, <1>2

LEMMA LockStatKeepsIInv ==
    ASSUME IInv, NEW p \in Procs, LockStat(p)
    PROVE  IInv'
  <1> USE DEF LockStat, Goto, Lock, Free
  <1>1. Counter(p) \in Nat /\ delta[p] \in Int
    BY DEF IInv, TypeOK, Staged, Counter, Request, SetRequest, CreateRequest, DeleteRequest
  <1>2. Clamp(Counter(p) + delta[p]) \in Nat
    BY <1>1, ClampNat
  <1>3. TypeOK'
    BY <1>2, SMTT(30) DEF IInv, TypeOK, rows, PCs, RowNames
  <1>4. Exclusive'
    BY DEF IInv, TypeOK, Exclusive
  <1>5. Staged'
    BY DEF IInv, TypeOK, Staged, Past, Inside
  <1>6. Decided'
    BY DEF IInv, TypeOK, Staged, Decided, Past, Inside, rows, SameKey, Counter
  <1>7. QED
    BY <1>3, <1>4, <1>5, <1>6, RowsKept DEF IInv

LEMMA WithdrawKeepsIInv ==
    ASSUME IInv, Withdraw
    PROVE  IInv'
  <1> USE DEF Withdraw, Free, locals
  <1>0. /\ published' = FALSE
        /\ UNCHANGED <<action, tally, comment, commentTally, pc, req, held, delta, count>>
    OBVIOUS
  <1>1. TypeOK'
    BY <1>0 DEF IInv, TypeOK
  <1>2. Exclusive' /\ Staged'
    BY DEF IInv, Exclusive, Staged, Past, Inside
  <1>3. Decided'
    BY DEF IInv, TypeOK, Staged, Decided, Past, Inside, SameKey, Counter
  <1>4. ActionCountsAgree' /\ CommentCountAgrees' /\ CommentKeysUnique'
    BY DEF IInv, ActionCountsAgree, CommentCountAgrees, CommentKeysUnique,
           Marked, Visible, SameKey
  <1>5. QED
    BY <1>1, <1>2, <1>3, <1>4 DEF IInv

--------------------------------------------------------------------------------
(* Commits *)

(* While one transaction is inside, no other one is past the video's lock.   *)
LEMMA InsideAlone ==
    ASSUME IInv, NEW p \in Procs, NEW q \in Procs, p # q, Past(p, Inside)
    PROVE  ~Past(q, Inside)
  BY DEF IInv, Exclusive, Staged

(* The bookkeeping of the goroutine that commits.                            *)
LEMMA CommitLocals ==
    ASSUME IInv, NEW p \in Procs, Finish(p)
    PROVE  /\ Exclusive' /\ Staged'
           /\ pc' \in [Procs -> PCs] /\ req' \in [Procs -> Request \cup {NoRequest}]
           /\ held' \in [Procs -> SUBSET RowNames]
           /\ delta' \in [Procs -> {-1, 0, 1}] /\ count' \in [Procs -> Nat]
  <1>1. Exclusive'
    BY DEF IInv, TypeOK, Exclusive, Finish
  <1>2. Staged'
    BY DEF IInv, TypeOK, Staged, Finish, Past, Inside
  <1>3. QED
    BY <1>1, <1>2 DEF IInv, TypeOK, Finish, PCs

LEMMA CommitActionKeepsIInv ==
    ASSUME IInv, NEW p \in Procs, pc[p] = "commit", req[p].op = "setAction",
           CommitAction(p), Finish(p)
    PROVE  IInv'
  <1> DEFINE r == req[p]
  <1>1. r \in SetRequest
    BY DEF IInv, TypeOK, Staged, Request, SetRequest, CreateRequest, DeleteRequest
  <1> PICK t \in Types, u \in Users : t = r.type /\ u = r.user
    BY <1>1 DEF SetRequest
  <1> PICK rec \in Record : rec = action[t][u]
    BY DEF IInv, TypeOK
  <1>0. r.active \in BOOLEAN /\ r.key \in Key
    BY <1>1 DEF SetRequest
  <1> PICK new \in Record : new = RowAfter(rec, r.active, r.key)
    BY <1>0, RowDeltaIsTheChange
  <1>2. /\ new.status = Active => delta[p] = (IF rec.status = Active THEN 0 ELSE 1)
        /\ new.status # Active => delta[p] = (IF rec.status = Active THEN -1 ELSE 0)
    <2>1. delta[p] = RowDelta(rec, r.active, r.key)
      BY DEF IInv, Decided, Past
    <2>2. /\ RowAfter(rec, r.active, r.key).status = Active
               => RowDelta(rec, r.active, r.key) = (IF rec.status = Active THEN 0 ELSE 1)
          /\ RowAfter(rec, r.active, r.key).status # Active
               => RowDelta(rec, r.active, r.key) = (IF rec.status = Active THEN -1 ELSE 0)
      BY <1>0, RowDeltaIsTheChange
    <2>3. QED
      BY <2>1, <2>2
  <1>3. /\ action' = [action EXCEPT ![t][u] = new]
        /\ tally' = [tally EXCEPT ![t] = count[p]]
        /\ UNCHANGED <<published, comment, commentTally>>
    BY DEF CommitAction
  <1>4. /\ action' \in [Types -> [Users -> Record]]
        /\ action'[t][u] = new
        /\ \A v \in Users \ {u} : action'[t][v] = action[t][v]
        /\ \A s \in Types \ {t} : action'[s] = action[s]
    BY <1>3 DEF IInv, TypeOK
  <1>5. count[p] = Clamp(Cardinality(Marked(t)) + delta[p])
    BY DEF IInv, Decided, Counter, ActionCountsAgree
  <1>6. count[p] = Cardinality(Marked(t)')
    <2>1. u \in Marked(t) <=> rec.status = Active
      BY DEF Marked
    <2>2. CASE new.status = Active
      <3>1. Marked(t)' = Marked(t) \cup {u}
        <4>1. \A v \in Users : v \in Marked(t)' <=> v = u \/ v \in Marked(t)
          BY <1>4, <2>2 DEF Marked
        <4>2. Marked(t)' \subseteq Users /\ Marked(t) \subseteq Users
          BY DEF Marked
        <4>3. QED
          BY <4>1, <4>2
      <3>2. Cardinality(Marked(t) \cup {u}) = Cardinality(Marked(t)) + delta[p]
        <4>1. Cardinality(Marked(t) \cup {u}) =
                IF u \in Marked(t) THEN Cardinality(Marked(t)) ELSE Cardinality(Marked(t)) + 1
          BY MarkedFinite, FS_AddElement
        <4>2. delta[p] = IF u \in Marked(t) THEN 0 ELSE 1
          BY <1>2, <2>1, <2>2
        <4>3. QED
          BY <4>1, <4>2, MarkedFinite
      <3>3. Cardinality(Marked(t)) + delta[p] \in Nat
        BY <1>2, <2>2, MarkedFinite
      <3>4. QED
        BY <1>5, <3>1, <3>2, <3>3, ClampNat
    <2>3. CASE new.status # Active
      <3>1. Marked(t)' = Marked(t) \ {u}
        <4>1. \A v \in Users : v \in Marked(t)' <=> v # u /\ v \in Marked(t)
          BY <1>4, <2>3 DEF Marked
        <4>2. Marked(t)' \subseteq Users /\ Marked(t) \subseteq Users
          BY DEF Marked
        <4>3. QED
          BY <4>1, <4>2
      <3>2. Cardinality(Marked(t) \ {u}) = Cardinality(Marked(t)) + delta[p]
        <4>1. Cardinality(Marked(t) \ {u}) =
                IF u \in Marked(t) THEN Cardinality(Marked(t)) - 1 ELSE Cardinality(Marked(t))
          BY MarkedFinite, FS_RemoveElement
        <4>2. delta[p] = IF u \in Marked(t) THEN -1 ELSE 0
          BY <1>2, <2>1, <2>3
        <4>3. QED
          BY <4>1, <4>2, MarkedFinite
      <3>3. Cardinality(Marked(t) \ {u}) \in Nat
        BY MarkedFinite, FS_RemoveElement, FS_CardinalityType
      <3>4. QED
        BY <1>5, <3>1, <3>2, <3>3, ClampNat
    <2>4. QED
      BY <2>2, <2>3
  <1>7. TypeOK'
    BY <1>3, <1>4, CommitLocals DEF IInv, TypeOK
  <1>8. ActionCountsAgree'
    <2>1. ASSUME NEW s \in Types \ {t} PROVE tally'[s] = Cardinality(Marked(s)')
      <3>1. Marked(s)' = Marked(s)
        BY <1>4 DEF Marked
      <3>2. tally'[s] = tally[s]
        BY <1>3 DEF IInv, TypeOK
      <3>3. tally[s] = Cardinality(Marked(s))
        BY DEF IInv, ActionCountsAgree
      <3>4. QED
        BY <3>1, <3>2, <3>3
    <2>2. tally'[t] = Cardinality(Marked(t)')
      BY <1>3, <1>6 DEF IInv, TypeOK
    <2>3. \A s \in Types : tally'[s] = Cardinality(Marked(s)')
      BY <2>1, <2>2
    <2>4. QED
      BY <2>3 DEF ActionCountsAgree
  <1>9. CommentCountAgrees' /\ CommentKeysUnique'
    BY <1>3 DEF IInv, CommentCountAgrees, CommentKeysUnique, Visible, SameKey
  <1>10. Decided'
    <2>1. /\ pc'[p] = "idle" /\ req'[p] = NoRequest
          /\ \A q \in Procs \ {p} : /\ pc'[q] = pc[q] /\ req'[q] = req[q]
                                   /\ held'[q] = held[q] /\ delta'[q] = delta[q]
      BY DEF IInv, TypeOK, Finish
    <2>2. \A q \in Procs \ {p} : pc[q] \notin {"action", "insert", "stat", "commit"}
      BY InsideAlone DEF Past, Inside
    <2>3. comment' = comment
      BY <1>3
    <2>4. QED
      BY <2>1, <2>2, <2>3 DEF IInv, Decided, Past, Inside, NoRequest
  <1>11. QED
    BY <1>7, <1>8, <1>9, <1>10, CommitLocals DEF IInv

LEMMA CommitCreateKeepsIInv ==
    ASSUME IInv, NEW p \in Procs, pc[p] = "commit", req[p].op = "createComment",
           CommitCreate(p), Finish(p)
    PROVE  IInv'
  <1> DEFINE r == req[p]
  <1>1. r \in CreateRequest /\ r.user \in Users /\ r.key \in Key
    BY DEF IInv, TypeOK, Staged, Request, SetRequest, CreateRequest, DeleteRequest
  <1>2. PICK c \in FreshIds :
            /\ comment' = [comment EXCEPT ![c] =
                             [status |-> Normal, user |-> r.user, key |-> r.key]]
            /\ commentTally' = count[p]
            /\ UNCHANGED <<published, action, tally>>
    BY DEF CommitCreate
  <1>3. c \in CommentIds /\ comment[c].status = Unset
    BY <1>2 DEF FreshIds
  <1>4. /\ comment' \in [CommentIds -> CommentRow]
        /\ comment'[c] = [status |-> Normal, user |-> r.user, key |-> r.key]
        /\ \A d \in CommentIds \ {c} : comment'[d] = comment[d]
    BY <1>1, <1>2, <1>3 DEF IInv, TypeOK, CommentRow
  <1>5. commentTally' = Cardinality(Visible')
    <2>1. Visible' = Visible \cup {c} /\ c \notin Visible
      BY <1>3, <1>4 DEF Visible, Normal, Unset
    <2>2. count[p] = Clamp(Cardinality(Visible) + 1)
      BY DEF IInv, Decided, Past, Counter, CommentCountAgrees
    <2>3. Cardinality(Visible \cup {c}) = Cardinality(Visible) + 1
      BY <2>1, VisibleFinite, FS_AddElement
    <2>4. QED
      BY <1>2, <2>1, <2>2, <2>3, VisibleFinite, ClampNat
  <1>6. TypeOK'
    <2>1. commentTally' \in Nat
      BY <1>2 DEF IInv, TypeOK
    <2>2. QED
      BY <1>2, <1>4, <2>1, CommitLocals DEF IInv, TypeOK
  <1>7. ActionCountsAgree'
    BY <1>2 DEF IInv, ActionCountsAgree, Marked
  <1>8. CommentKeysUnique'
    <2> SUFFICES ASSUME NEW u \in Users, NEW k \in Keys
                 PROVE  Cardinality(SameKey(u, k)') <= 1
      BY DEF CommentKeysUnique
    <2>1. CASE u = r.user /\ k = r.key
      <3>1. SameKey(u, k) = {}
        BY <2>1 DEF IInv, Decided, Past
      <3>2. SameKey(u, k)' = {c}
        BY <1>3, <1>4, <2>1, <3>1, NoKeyAssumption DEF SameKey, Normal, Unset
      <3>3. QED
        BY <3>2, FS_Singleton
    <2>2. CASE ~(u = r.user /\ k = r.key)
      <3>1. SameKey(u, k)' = SameKey(u, k)
        BY <1>3, <1>4, <2>2 DEF SameKey, Normal, Unset
      <3>2. QED
        BY <3>1 DEF IInv, CommentKeysUnique
    <2>3. QED
      BY <2>1, <2>2
  <1>9. Decided'
    <2>1. \A q \in Procs : q # p => pc'[q] = pc[q] /\ req'[q] = req[q] /\ held'[q] = held[q]
                                   /\ delta'[q] = delta[q] /\ ~Past(q, Inside)
      BY InsideAlone DEF IInv, TypeOK, Finish, Past, Inside
    <2>2. pc'[p] = "idle" /\ req'[p] = NoRequest
      BY DEF IInv, TypeOK, Finish
    <2>3. \A q \in Procs : q # p /\ pc[q] = "video" /\ req[q].op = "deleteComment" =>
              /\ req[q].id \in CommentIds
              /\ comment[req[q].id].status # Unset
      BY DEF IInv, Staged, Decided, Past, Request, SetRequest, CreateRequest, DeleteRequest
    <2>4. QED
      BY <1>2, <1>3, <1>4, <2>1, <2>2, <2>3 DEF IInv, Decided, Past, Inside, NoRequest
  <1>10. QED
    BY <1>5, <1>6, <1>7, <1>8, <1>9, CommitLocals DEF IInv, CommentCountAgrees

LEMMA CommitDeleteKeepsIInv ==
    ASSUME IInv, NEW p \in Procs, pc[p] = "commit", req[p].op = "deleteComment",
           CommitDelete(p), Finish(p)
    PROVE  IInv'
  <1>0. req[p] \in DeleteRequest
    BY DEF IInv, TypeOK, Staged, Request, SetRequest, CreateRequest, DeleteRequest
  <1> PICK c \in CommentIds : c = req[p].id
    BY <1>0 DEF DeleteRequest
  <1>1. /\ comment[c].status # Unset /\ CommentIdRow(c) \in held[p]
        /\ delta[p] = IF comment[c].status = Normal THEN -1 ELSE 0
    BY DEF IInv, Decided, Past
  <1>2. /\ comment' = [comment EXCEPT ![c].status = Deleted]
        /\ commentTally' = count[p]
        /\ UNCHANGED <<published, action, tally>>
    BY DEF CommitDelete
  <1>3. /\ comment' \in [CommentIds -> CommentRow]
        /\ comment'[c].status = Deleted
        /\ comment'[c].user = comment[c].user /\ comment'[c].key = comment[c].key
        /\ \A d \in CommentIds \ {c} : comment'[d] = comment[d]
    <2>1. comment \in [CommentIds -> CommentRow]
      BY DEF IInv, TypeOK
    <2>2. [comment[c] EXCEPT !.status = Deleted] \in CommentRow
      BY <2>1 DEF CommentRow
    <2>3. comment' = [comment EXCEPT ![c] = [comment[c] EXCEPT !.status = Deleted]]
      BY <1>2
    <2>4. comment'[c] = [comment[c] EXCEPT !.status = Deleted]
      BY <2>1, <2>3
    <2>5. comment[c] \in CommentRow
      BY <2>1
    <2>6. /\ comment'[c].status = Deleted
          /\ comment'[c].user = comment[c].user /\ comment'[c].key = comment[c].key
      BY <2>4, <2>5 DEF CommentRow
    <2>7. QED
      BY <2>1, <2>2, <2>3, <2>6
  <1>4. commentTally' = Cardinality(Visible')
    <2>1. Visible' = Visible \ {c}
      BY <1>1, <1>3 DEF Visible, Normal, Deleted
    <2>2. c \in Visible <=> comment[c].status = Normal
      BY <1>1 DEF Visible
    <2>3. Cardinality(Visible \ {c}) = Cardinality(Visible) + delta[p]
      <3>1. Cardinality(Visible \ {c}) =
              IF c \in Visible THEN Cardinality(Visible) - 1 ELSE Cardinality(Visible)
        BY VisibleFinite, FS_RemoveElement
      <3>2. delta[p] = IF c \in Visible THEN -1 ELSE 0
        BY <1>1, <2>2
      <3>3. QED
        BY <3>1, <3>2, VisibleFinite
    <2>4. Cardinality(Visible \ {c}) \in Nat
      BY VisibleFinite, FS_RemoveElement, FS_CardinalityType
    <2>5. count[p] = Clamp(Cardinality(Visible) + delta[p])
      BY DEF IInv, Decided, Past, Counter, CommentCountAgrees
    <2>6. QED
      BY <1>2, <2>1, <2>3, <2>4, <2>5, ClampNat
  <1>5. TypeOK'
    <2>1. commentTally' \in Nat
      BY <1>2 DEF IInv, TypeOK
    <2>2. QED
      BY <1>2, <1>3, <2>1, CommitLocals DEF IInv, TypeOK
  <1>6. ActionCountsAgree'
    BY <1>2 DEF IInv, ActionCountsAgree, Marked
  <1>7. \A u \in Users, k \in Key : SameKey(u, k)' = SameKey(u, k)
    BY <1>1, <1>3 DEF SameKey, Unset, Deleted
  <1>8. CommentKeysUnique'
    BY <1>7 DEF IInv, CommentKeysUnique, Key
  <1>9. Decided'
    <2>1. \A q \in Procs : q # p => pc'[q] = pc[q] /\ req'[q] = req[q] /\ held'[q] = held[q]
                                   /\ delta'[q] = delta[q] /\ ~Past(q, Inside)
      BY InsideAlone DEF IInv, TypeOK, Finish, Past, Inside
    <2>2. pc'[p] = "idle" /\ req'[p] = NoRequest
      BY DEF IInv, TypeOK, Finish
    <2>3. \A q \in Procs : q # p /\ pc[q] = "video" /\ req[q].op = "deleteComment" =>
              /\ req[q].id \in CommentIds
              /\ CommentIdRow(req[q].id) \in held[q]
      BY DEF IInv, Staged, Decided, Past, Request, SetRequest, CreateRequest, DeleteRequest
    <2>4. \A q \in Procs : q # p /\ pc[q] = "video" /\ req[q].op = "deleteComment" => req[q].id # c
      BY <1>1, <2>3 DEF IInv, Exclusive
    <2>5. QED
      BY <1>2, <1>3, <2>1, <2>2, <2>3, <2>4 DEF IInv, Decided, Past, Inside, NoRequest
  <1>10. QED
    BY <1>4, <1>5, <1>6, <1>8, <1>9, CommitLocals DEF IInv, CommentCountAgrees

--------------------------------------------------------------------------------
(* The invariant *)

LEMMA InitIInv == Init => IInv
  <1> SUFFICES ASSUME Init PROVE IInv
    OBVIOUS
  <1> USE DEF Init
  <1>1. TypeOK
    BY DEF TypeOK, PCs, Record, Status, Key, Absent, CommentRow, NoComment, RowNames
  <1>2. Exclusive /\ Staged /\ Decided
    BY DEF Exclusive, Staged, Decided, Past, Inside, NoRequest
  <1>3. ActionCountsAgree
    <2>1. \A t \in Types : Marked(t) = {}
      BY DEF Marked, Absent, Unset, Active
    <2>2. QED
      BY <2>1, FS_EmptySet DEF ActionCountsAgree
  <1>4. CommentCountAgrees
    <2>1. Visible = {}
      BY DEF Visible, NoComment, Unset, Normal
    <2>2. QED
      BY <2>1, FS_EmptySet DEF CommentCountAgrees
  <1>5. CommentKeysUnique
    <2>1. \A u \in Users, k \in Keys : SameKey(u, k) = {}
      BY DEF SameKey, NoComment, Unset
    <2>2. \A u \in Users, k \in Keys : Cardinality(SameKey(u, k)) = 0
      BY <2>1, FS_EmptySet
    <2>3. QED
      BY <2>2 DEF CommentKeysUnique
  <1>6. QED
    BY <1>1, <1>2, <1>3, <1>4, <1>5 DEF IInv

LEMMA NextKeepsIInv == IInv /\ [Next]_vars => IInv'
  <1> SUFFICES ASSUME IInv, [Next]_vars PROVE IInv'
    OBVIOUS
  <1>1. ASSUME NEW p \in Procs, NEW r \in Request, Begin(p, r) PROVE IInv'
    BY <1>1, BeginKeepsIInv
  <1>2. ASSUME NEW p \in Procs, Advance(p) PROVE IInv'
    <2>1. CASE Commit(p)
      <3>1. CASE req[p].op = "setAction" /\ CommitAction(p)
        BY <2>1, <3>1, CommitActionKeepsIInv DEF Commit
      <3>2. CASE req[p].op = "createComment" /\ CommitCreate(p)
        BY <2>1, <3>2, CommitCreateKeepsIInv DEF Commit
      <3>3. CASE req[p].op = "deleteComment" /\ CommitDelete(p)
        BY <2>1, <3>3, CommitDeleteKeepsIInv DEF Commit
      <3>4. QED
        BY <2>1, <3>1, <3>2, <3>3 DEF Commit
    <2>2. QED
      BY <1>2, <2>1, LookupKeepsIInv, LockCommentKeepsIInv, LockVideoKeepsIInv,
         LockActionKeepsIInv, InsertCommentKeepsIInv, LockStatKeepsIInv DEF Advance
  <1>3. ASSUME NEW p \in Procs, Abort(p) PROVE IInv'
    BY <1>3, FinishKeepsIInv DEF Abort
  <1>4. CASE Withdraw
    BY <1>4, WithdrawKeepsIInv
  <1>5. CASE UNCHANGED vars
    BY <1>5 DEF vars, IInv, TypeOK, Exclusive, Staged, Decided, Past, SameKey, Counter,
                ActionCountsAgree, CommentCountAgrees, CommentKeysUnique, Marked, Visible
  <1>6. QED
    BY <1>1, <1>2, <1>3, <1>4, <1>5 DEF Next

(* Every reachable state is well typed: counters never go below zero, a      *)
(* transaction only holds rows of the four tables it uses.                   *)
THEOREM TypeCorrect == Spec => []TypeOK
  <1>1. IInv => TypeOK
    BY DEF IInv
  <1>2. QED
    BY <1>1, InitIInv, NextKeepsIInv, PTL DEF Spec

(* The counters of video_stat are the sizes of the sets they count, for any  *)
(* number of concurrent requests (gorm.go SetAction, CreateComment,          *)
(* DeleteComment); in particular clampCount never changes a value.           *)
THEOREM CountersAgree == Spec => [](ActionCountsAgree /\ CommentCountAgrees)
  <1>1. IInv => ActionCountsAgree /\ CommentCountAgrees
    BY DEF IInv
  <1>2. QED
    BY <1>1, InitIInv, NextKeepsIInv, PTL DEF Spec

(* Of these, comment_count, which two deletions of one comment, or a retried *)
(* creation, would change twice (gorm.go:322, 204).                          *)
THEOREM CommentsAreCounted == Spec => []CommentCountAgrees
  BY CountersAgree, PTL

(* A retried CreateComment never leaves two comments with one key.           *)
THEOREM RetriesCreateOneComment == Spec => []CommentKeysUnique
  <1>1. IInv => CommentKeysUnique
    BY DEF IInv
  <1>2. QED
    BY <1>1, InitIInv, NextKeepsIInv, PTL DEF Spec
--------------------------------------------------------------------------------
(* What a commit does to the marked users and the visible comments *)

(* A committed SetAction moves one user into or out of one set of marks.     *)
LEMMA CommitActionMoves ==
    ASSUME IInv, NEW p \in Procs, pc[p] = "commit", req[p].op = "setAction", CommitAction(p)
    PROVE  \E t \in Types, u \in Users, on \in BOOLEAN :
              /\ published
              /\ Marked(t)' = IF on THEN Marked(t) \cup {u} ELSE Marked(t) \ {u}
              /\ \A s \in Types \ {t} : Marked(s)' = Marked(s)
              /\ tally' = [tally EXCEPT ![t] = count[p]]
              /\ UNCHANGED <<published, comment, commentTally>>
  <1> DEFINE r == req[p]
  <1>1. r \in SetRequest /\ published
    BY DEF IInv, TypeOK, Staged, Decided, Past, Inside,
           Request, SetRequest, CreateRequest, DeleteRequest
  <1> PICK t \in Types, u \in Users : t = r.type /\ u = r.user
    BY <1>1 DEF SetRequest
  <1> PICK new \in Record : new = RowAfter(action[t][u], r.active, r.key)
    BY <1>1, RowDeltaIsTheChange DEF IInv, TypeOK, SetRequest
  <1>2. action' = [action EXCEPT ![t][u] = new]
    BY DEF CommitAction
  <1>3. \A s \in Types \ {t} : Marked(s)' = Marked(s)
    BY <1>2 DEF Marked, IInv, TypeOK
  <1>4. CASE new.status = Active
    <2>1. Marked(t)' = Marked(t) \cup {u}
      BY <1>2, <1>4 DEF Marked, IInv, TypeOK
    <2>2. QED
      BY <1>1, <1>3, <2>1 DEF CommitAction
  <1>5. CASE new.status # Active
    <2>1. Marked(t)' = Marked(t) \ {u}
      BY <1>2, <1>5 DEF Marked, IInv, TypeOK
    <2>2. QED
      BY <1>1, <1>3, <2>1 DEF CommitAction
  <1>6. QED
    BY <1>4, <1>5

LEMMA CommitCreateAdds ==
    ASSUME IInv, NEW p \in Procs, pc[p] = "commit", req[p].op = "createComment", CommitCreate(p)
    PROVE  /\ published
           /\ \E c \in CommentIds : Visible' = Visible \cup {c}
           /\ UNCHANGED <<published, action, tally>>
  <1>1. published
    BY DEF IInv, Decided, Past, Inside
  <1>2. \E c \in CommentIds : Visible' = Visible \cup {c}
    BY DEF CommitCreate, FreshIds, Visible, IInv, TypeOK, Unset, Normal
  <1>3. QED
    BY <1>1, <1>2 DEF CommitCreate

LEMMA CommitDeleteRemoves ==
    ASSUME IInv, NEW p \in Procs, pc[p] = "commit", req[p].op = "deleteComment", CommitDelete(p)
    PROVE  /\ \E c \in CommentIds : Visible' = Visible \ {c}
           /\ UNCHANGED <<published, action, tally>>
  <1>1. req[p] \in DeleteRequest
    BY DEF IInv, TypeOK, Staged, Request, SetRequest, CreateRequest, DeleteRequest
  <1> PICK c \in CommentIds : c = req[p].id
    BY <1>1 DEF DeleteRequest
  <1>2. Visible' = Visible \ {c}
    BY DEF CommitDelete, Visible, IInv, TypeOK, CommentRow, Normal, Deleted
  <1>3. QED
    BY <1>2 DEF CommitDelete

(* Every other step leaves the rows alone, or only withdraws the video.      *)
LEMMA OnlyCommitsWrite ==
    ASSUME [Next]_vars, ~Withdraw, \A p \in Procs : ~Commit(p)
    PROVE  UNCHANGED rows
  BY DEF Next, Advance, vars, rows, Begin, Lookup, LockComment, LockVideo, LockAction,
         InsertComment, LockStat, Abort

LEMMA ViewsKept ==
    ASSUME UNCHANGED rows
    PROVE  /\ UNCHANGED <<published, action, tally, comment, commentTally, Visible>>
           /\ \A t \in Types : Marked(t)' = Marked(t)
  BY DEF rows, Marked, Visible

--------------------------------------------------------------------------------
(* A withdrawn video is frozen *)

(* A like, favorite or comment that is in flight when the author deletes the *)
(* video either has committed before or changes nothing (lockPublishedVideo).*)
THEOREM WithdrawnVideosAreFrozen == Spec => WithdrawnIsFrozen
  <1> DEFINE Frozen == ~published => /\ UNCHANGED <<published, action, tally>>
                                     /\ Visible' \subseteq Visible
  <1>1. ASSUME IInv, [Next]_vars PROVE Frozen
    <2>1. CASE Withdraw
      BY <2>1 DEF Withdraw
    <2>2. ASSUME NEW p \in Procs, Commit(p) PROVE Frozen
      BY <1>1, <2>2, CommitActionMoves, CommitCreateAdds, CommitDeleteRemoves DEF Commit
    <2>3. CASE ~Withdraw /\ \A p \in Procs : ~Commit(p)
      BY <1>1, <2>3, OnlyCommitsWrite, ViewsKept
    <2>4. QED
      BY <2>1, <2>2, <2>3
  <1>2. IInv /\ [Next]_vars => [Frozen]_vars
    BY <1>1
  <1>3. QED
    BY <1>2, InitIInv, NextKeepsIInv, PTL DEF Spec, WithdrawnIsFrozen

--------------------------------------------------------------------------------
(* Refinement *)

LEMMA InitRefines == Init => Ledger!Init
  BY DEF Init, Ledger!Init, Marked, Visible, Absent, NoComment, Unset, Active, Normal

(* The size of a set with one element more or less.                          *)
LEMMA FollowIsCardinality ==
    ASSUME NEW S, NEW x, IsFiniteSet(S)
    PROVE  /\ Ledger!Follow(Cardinality(S), S, S \cup {x}) = Cardinality(S \cup {x})
           /\ Ledger!Follow(Cardinality(S), S, S \ {x}) = Cardinality(S \ {x})
  <1>1. /\ x \in S => S \cup {x} = S
        /\ x \notin S => S \cup {x} # S /\ S \subseteq S \cup {x}
        /\ x \notin S => S \ {x} = S
        /\ x \in S => S \ {x} # S /\ ~(S \subseteq S \ {x})
    OBVIOUS
  <1>2. Cardinality(S \cup {x}) = IF x \in S THEN Cardinality(S) ELSE Cardinality(S) + 1
    BY FS_AddElement
  <1>3. Cardinality(S \ {x}) = IF x \in S THEN Cardinality(S) - 1 ELSE Cardinality(S)
    BY FS_RemoveElement
  <1>4. QED
    BY <1>1, <1>2, <1>3 DEF Ledger!Follow

LEMMA FollowReaches ==
    ASSUME NEW S, NEW T, NEW x, IsFiniteSet(S), T = S \cup {x} \/ T = S \ {x},
           NEW m, NEW n, m = Cardinality(S), n = Cardinality(T)
    PROVE  n = Ledger!Follow(m, S, T)
  <1>1. CASE T = S \cup {x}
    BY <1>1, FollowIsCardinality, Zenon
  <1>2. CASE T = S \ {x}
    BY <1>2, FollowIsCardinality, Zenon
  <1>3. QED
    BY <1>1, <1>2

LEMMA StepRefines == IInv /\ IInv' /\ [Next]_vars => [Ledger!Next]_(Ledger!ledgerVars)
  <1> SUFFICES ASSUME IInv, IInv', [Next]_vars
               PROVE  Ledger!Next \/ UNCHANGED Ledger!ledgerVars
    OBVIOUS
  <1> DEFINE marks == [t \in Types |-> Marked(t)]
  <1>1. ASSUME NEW p \in Procs, pc[p] = "commit", req[p].op = "setAction", CommitAction(p)
        PROVE  Ledger!Next
    <2>1. PICK t \in Types, u \in Users, on \in BOOLEAN :
              /\ published
              /\ Marked(t)' = IF on THEN Marked(t) \cup {u} ELSE Marked(t) \ {u}
              /\ \A s \in Types \ {t} : Marked(s)' = Marked(s)
              /\ tally' = [tally EXCEPT ![t] = count[p]]
              /\ UNCHANGED <<published, comment, commentTally>>
      BY <1>1, CommitActionMoves
    <2>2. marks' = [marks EXCEPT ![t] = IF on THEN @ \cup {u} ELSE @ \ {u}]
      BY <2>1
    <2>3. tally'[t] = Ledger!Follow(tally[t], Marked(t), Marked(t)')
      <3>1. tally'[t] = Cardinality(Marked(t)') /\ tally[t] = Cardinality(Marked(t))
        BY DEF IInv, ActionCountsAgree
      <3>2. IsFiniteSet(Marked(t))
        BY MarkedFinite
      <3>3. Marked(t)' = Marked(t) \cup {u} \/ Marked(t)' = Marked(t) \ {u}
        BY <2>1
      <3>4. QED
        BY <3>1, <3>2, <3>3, FollowReaches, Zenon
    <2>4. UNCHANGED Visible
      BY <2>1 DEF Visible
    <2>5. Ledger!Mark(u, t, on)
      BY <2>1, <2>2, <2>3, <2>4 DEF Ledger!Mark, IInv, TypeOK
    <2>6. QED
      BY <2>5 DEF Ledger!Next
  <1>2. ASSUME NEW p \in Procs, pc[p] = "commit", req[p].op = "createComment", CommitCreate(p)
        PROVE  Ledger!Next
    <2>1. PICK c \in CommentIds : Visible' = Visible \cup {c}
      BY <1>2, CommitCreateAdds
    <2>2. published /\ UNCHANGED <<published, action, tally>>
      BY <1>2, CommitCreateAdds
    <2>3. \A t \in Types : Marked(t)' = Marked(t)
      BY <2>2 DEF Marked
    <2>4. commentTally' = Ledger!Follow(commentTally, Visible, Visible')
      BY <2>1, VisibleFinite, FollowIsCardinality DEF IInv, CommentCountAgrees
    <2>5. Ledger!AddComment(c)
      BY <2>1, <2>2, <2>3, <2>4 DEF Ledger!AddComment
    <2>6. QED
      BY <2>5 DEF Ledger!Next
  <1>3. ASSUME NEW p \in Procs, pc[p] = "commit", req[p].op = "deleteComment", CommitDelete(p)
        PROVE  Ledger!Next
    <2>1. PICK c \in CommentIds : Visible' = Visible \ {c}
      BY <1>3, CommitDeleteRemoves
    <2>2. UNCHANGED <<published, action, tally>>
      BY <1>3, CommitDeleteRemoves
    <2>3. \A t \in Types : Marked(t)' = Marked(t)
      BY <2>2 DEF Marked
    <2>4. commentTally' = Ledger!Follow(commentTally, Visible, Visible')
      BY <2>1, VisibleFinite, FollowIsCardinality DEF IInv, CommentCountAgrees
    <2>5. Ledger!RemoveComment(c)
      BY <2>1, <2>2, <2>3, <2>4 DEF Ledger!RemoveComment
    <2>6. QED
      BY <2>5 DEF Ledger!Next
  <1>4. ASSUME Withdraw PROVE Ledger!Next
    <2>1. UNCHANGED Visible /\ \A t \in Types : Marked(t)' = Marked(t)
      BY <1>4 DEF Withdraw, Marked, Visible
    <2>2. Ledger!Withdraw
      BY <1>4, <2>1 DEF Withdraw, Ledger!Withdraw
    <2>3. QED
      BY <2>2 DEF Ledger!Next
  <1>5. CASE ~Withdraw /\ \A p \in Procs : ~Commit(p)
    BY <1>5, OnlyCommitsWrite, ViewsKept DEF Ledger!ledgerVars
  <1>6. ASSUME NEW p \in Procs, Commit(p) PROVE Ledger!Next
    BY <1>1, <1>2, <1>3, <1>6 DEF Commit
  <1>7. QED
    BY <1>4, <1>5, <1>6

(* Row locks, lock order and rollbacks implement atomic updates of sets whose*)
(* sizes the counters are: the repository keeps the ledger's promise.        *)
THEOREM LedgerIsImplemented == Spec => LedgerSpec
  <1>1. QED
    BY InitRefines, StepRefines, InitIInv, NextKeepsIInv, PTL
       DEF Spec, LedgerSpec, Ledger!Spec
--------------------------------------------------------------------------------
(* Circles of waiting transactions, across videos *)

\* The kinds of records are apart, and each names what it is of.
LEMMA RecordsApart ==
    ASSUME NEW v, NEW w, NEW n, NEW m
    PROVE  /\ VideoRecord(v) # StatRecord(w) /\ VideoRecord(v) # ActionRecord(n)
           /\ VideoRecord(v) # CommentRecord(n) /\ StatRecord(v) # ActionRecord(n)
           /\ StatRecord(v) # CommentRecord(n) /\ ActionRecord(n) # CommentRecord(m)
           /\ StatRecord(v) = StatRecord(w) => v = w
           /\ ActionRecord(n) = ActionRecord(m) => n = m
  <1>1. /\ VideoRecord(v)[1] = "video" /\ StatRecord(w)[1] = "stat"
        /\ StatRecord(v)[1] = "stat" /\ ActionRecord(n)[1] = "action"
        /\ CommentRecord(n)[1] = "comment" /\ CommentRecord(m)[1] = "comment"
    BY DEF VideoRecord, StatRecord, ActionRecord, CommentRecord
  <1>2. /\ StatRecord(v)[2] = v /\ StatRecord(w)[2] = w
        /\ ActionRecord(n)[2] = n /\ ActionRecord(m)[2] = m
    BY DEF StatRecord, ActionRecord
  <1> QED
    BY <1>1, <1>2

\* A call that is served, and the row its statement is about.
LEMMA ServedCall ==
    ASSUME LocksTypeOK, Ordered, NEW s \in Sessions, step[s] # "idle"
    PROVE  /\ call[s] \in Call /\ call[s].op \in Ops /\ Place(s) \in Places
           /\ Table(s) \in Tables /\ Found(s) \in Row \cup {Missing}
           /\ call[s].video \in Videos \cup {NoVideo}
  <1>1. call[s] \in Call
    BY DEF LocksTypeOK, Ordered
  <1>2. call[s].op \in Ops /\ Place(s) \in Places /\ Table(s) \in Tables
        /\ call[s].video \in Videos \cup {NoVideo}
    BY <1>1 DEF Call, Place, Table, Tables
  <1> QED
    BY <1>1, <1>2 DEF LocksTypeOK, Found

LEMMA GapIsAGap ==
    ASSUME LocksTypeOK, Ordered, NEW s \in Sessions, step[s] # "idle"
    PROVE  Gap(s) \in Tables \X (Places \cup {End})
  <1> DEFINE later == {n \in Places : n > Place(s) /\ row[Table(s)][n] # Missing}
  <1>1. CASE later = {}
    BY <1>1, ServedCall DEF Gap
  <1>2. CASE later # {}
    <2>1. later \in SUBSET Nat
      BY PlacesAreNumbers
    <2> HIDE DEF later
    <2>2. IsWellFoundedOn(OpToRel(<, Nat), Nat)
      BY NatLessThanWellFounded, Zenon
    <2>3. PICK n \in later : \A m \in later : <<m, n>> \notin OpToRel(<, Nat)
      BY <1>2, <2>1, <2>2, WFMin
    <2>4. \A m \in later : ~(m < n)
      BY <2>1, <2>3, Zenon DEF OpToRel
    <2>5. \A m \in later : n <= m
      BY <2>1, <2>4
    <2>6. PICK k \in Places : k = CHOOSE i \in later : \A m \in later : i <= m
      BY <2>5 DEF later
    <2>7. Gap(s) = <<Table(s), k>>
      BY <1>2, <2>6 DEF Gap, later
    <2> QED
      BY <2>7, ServedCall
  <1> QED
    BY <1>1, <1>2

\* What depends on steps, calls and locked records only.
LocalInv == OneHolder /\ Ordered /\ OwnRecords

LEMMA EndKeepsLocal ==
    ASSUME LocksTypeOK, LocalInv, NEW s \in Sessions, EndCall(s)
    PROVE  /\ LocalInv'
           /\ step' \in [Sessions -> Labels] /\ call' \in [Sessions -> Call \cup {NoCall}]
           /\ records' \in [Sessions -> SUBSET RecordNames]
           /\ step'[s] = "idle"
           /\ \A q \in Sessions \ {s} : step'[q] = step[q] /\ call'[q] = call[q]
  <1> USE DEF LocksTypeOK, LocalInv, EndCall, To
  <1>1. OneHolder'
    BY DEF OneHolder
  <1>2. Ordered'
    BY DEF Ordered, Within, Place
  <1>3. OwnRecords'
    BY DEF OwnRecords, Within, Place
  <1> QED
    BY <1>1, <1>2, <1>3 DEF Labels

\* A session that ends has left no row behind that is still its own.
LEMMA EndKeeps ==
    ASSUME LocksIInv, NEW s \in Sessions, EndCall(s), gaps'[s] = {},
           gaps' \in [Sessions -> SUBSET (Tables \X (Places \cup {End}))],
           row' \in [Tables -> [Places -> Row \cup {Missing}]],
           \A q \in Sessions : gaps[q] = {} => gaps'[q] = {},
           \A q \in Sessions, t \in Tables, n \in Places :
              row'[t][n] # Missing /\ row'[t][n].by = q =>
                 q # s /\ row[t][n] # Missing /\ row[t][n].by = q
    PROVE  LocksIInv'
  <1>1. /\ LocksTypeOK' /\ OneHolder' /\ Ordered' /\ OwnRecords'
        /\ \A q \in Sessions \ {s} : step'[q] = step[q] /\ call'[q] = call[q]
    BY EndKeepsLocal DEF LocksIInv, LocalInv, LocksTypeOK
  <1>2. GapsBehindVideo'
    BY <1>1 DEF LocksIInv, GapsBehindVideo
  <1>3. RowsBehindVideo'
    BY <1>1 DEF LocksIInv, RowsBehindVideo, Table, Place
  <1> QED
    BY <1>1, <1>2, <1>3 DEF LocksIInv

LEMMA RefusedKeeps ==
    ASSUME LocksIInv, NEW s \in Sessions, Refused(s)
    PROVE  LocksIInv'
  <1>1. step[s] \in {"comment", "video", "insert"}
    BY DEF Refused
  <1>2. \A t \in Tables, n \in Places : row[t][n] # Missing => row[t][n].by # s
    BY <1>1 DEF LocksIInv, RowsBehindVideo
  <1>3. gaps' \in [Sessions -> SUBSET (Tables \X (Places \cup {End}))]
    BY DEF Refused, LocksIInv, LocksTypeOK
  <1>4. gaps'[s] = {} /\ \A q \in Sessions : gaps[q] = {} => gaps'[q] = {}
    BY DEF Refused, LocksIInv, LocksTypeOK
  <1> QED
    BY <1>2, <1>3, <1>4, EndKeeps DEF Refused, LocksIInv, LocksTypeOK

LEMMA CommitKeeps ==
    ASSUME LocksIInv, NEW s \in Sessions, CommitRows(s)
    PROVE  LocksIInv'
  <1>1. /\ Table(s) \in Tables /\ Place(s) \in Places
        /\ Found(s) \in Row \cup {Missing}
    BY ServedCall DEF LocksIInv, CommitRows
  <1>2. row' \in [Tables -> [Places -> Row \cup {Missing}]]
    <2>1. CASE Inserted(s)
      <3>1. [Found(s) EXCEPT !.by = Nobody] \in Row
        BY <1>1, <2>1 DEF Inserted, Row
      <3> QED
        BY <1>1, <2>1, <3>1 DEF CommitRows, LocksIInv, LocksTypeOK, Found
    <2>2. CASE ~Inserted(s)
      BY <2>2 DEF CommitRows, LocksIInv, LocksTypeOK
    <2> QED
      BY <2>1, <2>2
  <1>3. ASSUME NEW q \in Sessions, NEW t \in Tables, NEW n \in Places,
               row'[t][n] # Missing, row'[t][n].by = q
        PROVE  q # s /\ row[t][n] # Missing /\ row[t][n].by = q
    <2>1. CASE t = Table(s) /\ n = Place(s) /\ Inserted(s)
      <3>1. row'[t][n] = [Found(s) EXCEPT !.by = Nobody]
        BY <1>1, <2>1 DEF CommitRows, LocksIInv, LocksTypeOK, Found
      <3>2. [Found(s) EXCEPT !.by = Nobody].by = Nobody
        BY <1>1, <2>1 DEF Inserted, Row
      <3> QED
        BY <1>3, <3>1, <3>2, NothingIsSomething
    <2>2. CASE ~(t = Table(s) /\ n = Place(s) /\ Inserted(s))
      <3>1. row'[t][n] = row[t][n]
        BY <1>1, <2>2 DEF CommitRows, LocksIInv, LocksTypeOK
      <3>2. q = s => t = Table(s) /\ n = Place(s)
        BY <1>3, <3>1 DEF LocksIInv, RowsBehindVideo
      <3> QED
        BY <1>3, <2>2, <3>1, <3>2 DEF Inserted, Found
    <2> QED
      BY <2>1, <2>2
  <1>4. /\ gaps' \in [Sessions -> SUBSET (Tables \X (Places \cup {End}))]
        /\ gaps'[s] = {} /\ \A q \in Sessions : gaps[q] = {} => gaps'[q] = {}
    BY DEF CommitRows, LocksIInv, LocksTypeOK
  <1> QED
    BY <1>2, <1>3, <1>4, EndKeeps DEF CommitRows

LEMMA RollBackKeeps ==
    ASSUME LocksIInv, NEW s \in Sessions, RollBack(s)
    PROVE  LocksIInv'
  <1>1. /\ Table(s) \in Tables /\ Place(s) \in Places
        /\ Gap(s) \in Tables \X (Places \cup {End})
    BY ServedCall, GapIsAGap DEF LocksIInv, RollBack
  <1>2. CASE Inserted(s)
    <2>1. /\ row' = [row EXCEPT ![Table(s)][Place(s)] = Missing]
          /\ gaps' = [q \in Sessions |->
                        IF q = s THEN {}
                        ELSE IF Own(s) \in gaps[q] THEN (gaps[q] \ {Own(s)}) \cup {Gap(s)}
                        ELSE gaps[q]]
      BY <1>2 DEF RollBack
    <2>2. row' \in [Tables -> [Places -> Row \cup {Missing}]]
      BY <1>1, <2>1 DEF LocksIInv, LocksTypeOK
    <2>3. gaps' \in [Sessions -> SUBSET (Tables \X (Places \cup {End}))]
      BY <1>1, <2>1 DEF LocksIInv, LocksTypeOK
    <2>4. gaps'[s] = {} /\ \A q \in Sessions : gaps[q] = {} => gaps'[q] = {}
      BY <2>1
    <2>5. ASSUME NEW q \in Sessions, NEW t \in Tables, NEW n \in Places,
                 row'[t][n] # Missing, row'[t][n].by = q
          PROVE  q # s /\ row[t][n] # Missing /\ row[t][n].by = q
      <3>1. ~(t = Table(s) /\ n = Place(s))
        BY <1>1, <2>1, <2>5 DEF LocksIInv, LocksTypeOK
      <3>2. row'[t][n] = row[t][n]
        BY <1>1, <2>1, <3>1 DEF LocksIInv, LocksTypeOK
      <3> QED
        BY <2>5, <3>1, <3>2 DEF LocksIInv, RowsBehindVideo
    <2> QED
      BY <2>2, <2>3, <2>4, <2>5, EndKeeps DEF RollBack
  <1>3. CASE ~Inserted(s)
    <2>1. row' = row /\ gaps' = [gaps EXCEPT ![s] = {}]
      BY <1>3 DEF RollBack
    <2>2. /\ gaps' \in [Sessions -> SUBSET (Tables \X (Places \cup {End}))]
          /\ gaps'[s] = {} /\ \A q \in Sessions : gaps[q] = {} => gaps'[q] = {}
      BY <2>1 DEF LocksIInv, LocksTypeOK
    <2>3. \A t \in Tables, n \in Places : row[t][n] # Missing => row[t][n].by # s
      BY <1>3 DEF LocksIInv, RowsBehindVideo, Inserted, Found
    <2> QED
      BY <2>1, <2>2, <2>3, EndKeeps DEF RollBack, LocksIInv, LocksTypeOK
  <1> QED
    BY <1>2, <1>3

LEMMA BlockersAreAhead ==
    ASSUME LocksIInv, NEW s \in Sessions, NEW q \in Blockers(s)
    PROVE  /\ q \in Sessions /\ q # s
           /\ step[s] \in {"comment", "video", "insert"}
           /\ step[s] = "comment" => step[q] \notin {"idle", "comment"}
           /\ step[s] = "video" => Within(q)
           /\ step[s] = "insert" => step[q] \in {"insert", "stat", "commit"}
  <1>1. q \in Sessions /\ q # s
    BY DEF Blockers, Holders, Inserter
  <1>2. step[s] \in {"comment", "video", "look", "insert", "stat"}
    BY DEF Blockers
  <1>3. /\ Place(s) \in Places /\ Table(s) \in Tables
        /\ q \in Inserter(s) => /\ step[q] \in {"stat", "commit"}
                               /\ Table(q) = Table(s) /\ Place(q) = Place(s)
                               /\ call[q].op # "deleteComment"
    BY <1>1, <1>2, ServedCall DEF LocksIInv, RowsBehindVideo, Inserter, Found
  \* Two transactions on one video are not both past its lock.
  <1>4. ASSUME Within(s), Within(q) PROVE call[s].video # call[q].video
    BY <1>1, <1>4 DEF LocksIInv, OneHolder, Ordered
  <1>5. CASE step[s] = "comment"
    <2>1. q \in Holders(CommentRecord(Place(s))) \/ q \in Inserter(s)
      BY <1>5 DEF Blockers
    <2>2. records[q] # {} => step[q] \notin {"idle", "comment"}
      BY <1>1 DEF LocksIInv, Ordered
    <2> QED
      BY <1>1, <1>3, <1>5, <2>1, <2>2 DEF Holders
  <1>6. CASE step[s] = "video"
    <2>1. VideoRecord(call[s].video) \in records[q]
      BY <1>6 DEF Blockers, Holders
    <2>2. Within(q)
      BY <1>1, <2>1, RecordsApart DEF LocksIInv, OwnRecords
    <2> QED
      BY <1>1, <1>6, <2>2
  <1>7. step[s] # "look"
    <2> SUFFICES ASSUME step[s] = "look" PROVE FALSE
      OBVIOUS
    <2>1. /\ Within(s) /\ call[s].op = "setAction"
          /\ call[s].video = VideoAt[Place(s)]
      BY DEF Within, LocksIInv, Ordered
    <2>2. q \in Holders(ActionRecord(Place(s))) \/ q \in Inserter(s)
      BY DEF Blockers
    <2>3. Within(q) /\ call[q].op = "setAction" /\ Place(q) = Place(s)
      <3>1. CASE ActionRecord(Place(s)) \in records[q]
        BY <1>1, <3>1, RecordsApart DEF LocksIInv, OwnRecords
      <3>2. CASE q \in Inserter(s)
        BY <1>3, <2>1, <3>2 DEF Within, Table
      <3> QED
        BY <2>2, <3>1, <3>2 DEF Holders
    <2>4. call[q].video = VideoAt[Place(q)]
      BY <1>1, <2>3 DEF LocksIInv, Ordered, Within
    <2> QED
      BY <1>4, <2>1, <2>3, <2>4
  <1>8. CASE step[s] = "insert"
    <2>1. gaps[q] # {} \/ q \in Inserter(s)
      BY <1>8 DEF Blockers
    <2> QED
      BY <1>1, <1>3, <1>8, <2>1 DEF LocksIInv, GapsBehindVideo
  <1>9. step[s] # "stat"
    <2> SUFFICES ASSUME step[s] = "stat" PROVE FALSE
      OBVIOUS
    <2>1. StatRecord(call[s].video) \in records[q]
      BY DEF Blockers, Holders
    <2>2. Within(q) /\ call[q].video = call[s].video
      BY <1>1, <2>1, RecordsApart DEF LocksIInv, OwnRecords
    <2> QED
      BY <1>4, <2>2 DEF Within
  <1> QED
    BY <1>1, <1>2, <1>5, <1>6, <1>7, <1>8, <1>9

LEMMA CirclesInsert ==
    ASSUME LocksIInv
    PROVE  CirclesAreOfInserts
  <1> SUFFICES ASSUME NEW S \in SUBSET Sessions, Circle(S)
               PROVE  /\ Circle(InsertingOf(S))
                      /\ \A s, q \in InsertingOf(S) : s # q => call[s].video # call[q].video
    BY DEF CirclesAreOfInserts
  <1>1. \A s \in S : \E q \in S : q \in Blockers(s)
    BY DEF Circle
  <1>2. \A s \in S : step[s] \in {"comment", "video", "insert"}
    BY <1>1, BlockersAreAhead
  <1>3. ASSUME NEW s \in InsertingOf(S) PROVE Blockers(s) \cap InsertingOf(S) # {}
    <2>1. s \in S /\ step[s] = "insert"
      BY DEF InsertingOf
    <2>2. PICK q \in S : q \in Blockers(s)
      BY <1>1, <2>1
    <2>3. step[q] = "insert"
      BY <1>2, <2>1, <2>2, BlockersAreAhead
    <2> QED
      BY <2>2, <2>3 DEF InsertingOf
  <1>4. \A s \in S : step[s] = "video" => \E q \in S : step[q] = "insert"
    BY <1>1, <1>2, BlockersAreAhead DEF Within
  <1>5. \A s \in S : step[s] = "comment" => \E q \in S : step[q] \in {"video", "insert"}
    BY <1>1, <1>2, BlockersAreAhead
  <1>6. InsertingOf(S) # {}
    BY <1>2, <1>4, <1>5 DEF Circle, InsertingOf
  <1>7. ASSUME NEW s \in InsertingOf(S), NEW q \in InsertingOf(S), s # q
        PROVE  call[s].video # call[q].video
    <2>1. s \in Sessions /\ q \in Sessions /\ Within(s) /\ Within(q)
      BY DEF InsertingOf, Within
    <2> QED
      BY <1>7, <2>1 DEF LocksIInv, OneHolder, Ordered
  <1> QED
    BY <1>3, <1>6, <1>7 DEF Circle

\* A lock that is granted, by a statement that neither inserts nor ends.
LEMMA TakeKeepsOneHolder ==
    ASSUME LocksTypeOK, OneHolder, NEW s \in Sessions, NEW r, Take(s, r),
           \A q \in Sessions \ {s} : r \notin records[q]
    PROVE  OneHolder'
  BY DEF LocksTypeOK, OneHolder, Take

LEMMA ArriveKeeps ==
    ASSUME LocksIInv, NEW s \in Sessions, NEW c \in Offers, Arrive(s, c)
    PROVE  LocksIInv'
  <1> USE DEF LocksIInv, Arrive, To
  <1>1. /\ c \in Call /\ c.op \in Ops
        /\ c.op = "setAction" => c.video = VideoAt[c.place]
        /\ c.op # "deleteComment" => c.video \in Videos
    BY OffersTyped DEF Call
  <1>2. LocksTypeOK'
    BY <1>1 DEF LocksTypeOK, Labels
  <1>3. OneHolder'
    BY DEF OneHolder
  <1>4. Ordered'
    BY <1>1, NothingIsSomething DEF Ordered, LocksTypeOK, Within, Place, Ops
  <1>5. OwnRecords'
    BY DEF OwnRecords, Ordered, LocksTypeOK, Within, Place
  <1>6. GapsBehindVideo' /\ RowsBehindVideo'
    BY DEF GapsBehindVideo, RowsBehindVideo, LocksTypeOK, Table, Place
  <1> QED
    BY <1>2, <1>3, <1>4, <1>5, <1>6

LEMMA CommentLockKeeps ==
    ASSUME LocksIInv, NEW s \in Sessions, CommentLock(s)
    PROVE  LocksIInv'
  <1> USE DEF LocksIInv, CommentLock, To
  <1> DEFINE r == CommentRecord(Place(s))
             c == [call[s] EXCEPT !.video = Found(s).video]
  <1>1. /\ call[s] \in Call /\ Place(s) \in Places /\ call[s].op = "deleteComment"
        /\ Found(s).video \in Videos /\ records[s] = {}
    BY ServedCall DEF Row, Ordered
  <1>2. /\ c \in Call /\ c.op = call[s].op /\ c.place = call[s].place
        /\ c.video \in Videos /\ c # NoCall
    BY <1>1, NothingIsSomething DEF Call
  <1>3. /\ step' = [step EXCEPT ![s] = "video"] /\ call' = [call EXCEPT ![s] = c]
        /\ records' = [records EXCEPT ![s] = @ \cup {r}]
        /\ UNCHANGED <<row, gaps>>
    BY DEF Take
  <1>4. LocksTypeOK'
    BY <1>1, <1>2, <1>3 DEF LocksTypeOK, Labels, RecordNames
  <1>5. OneHolder'
    <2>1. \A q \in Sessions \ {s} : r \notin records[q]
      BY DEF Blockers, Holders
    <2> QED
      BY <2>1, TakeKeepsOneHolder
  <1>6. Ordered'
    BY <1>1, <1>2, <1>3 DEF Ordered, LocksTypeOK, Within, Place
  <1>7. OwnRecords'
    BY <1>1, <1>2, <1>3 DEF OwnRecords, LocksTypeOK, Within, Place
  <1>8. GapsBehindVideo'
    BY <1>3 DEF GapsBehindVideo, LocksTypeOK
  <1>9. RowsBehindVideo'
    BY <1>3 DEF RowsBehindVideo, LocksTypeOK, Table, Place
  <1> QED
    BY <1>4, <1>5, <1>6, <1>7, <1>8, <1>9

LEMMA VideoLockKeeps ==
    ASSUME LocksIInv, NEW s \in Sessions, VideoLock(s)
    PROVE  LocksIInv'
  <1> USE DEF LocksIInv, VideoLock, To
  <1> DEFINE r == VideoRecord(call[s].video)
  <1>1. call[s].op \in Ops /\ call[s].video \in Videos
    BY ServedCall DEF Ordered
  <1>2. /\ AfterVideoLock(s) \in {"look", "insert", "stat"}
        /\ AfterVideoLock(s) = "look" => call[s].op = "setAction"
        /\ AfterVideoLock(s) = "insert" => call[s].op = "createComment"
    BY <1>1 DEF AfterVideoLock, Ops
  <1>3. LocksTypeOK'
    BY <1>1, <1>2 DEF LocksTypeOK, Labels, RecordNames, Take
  <1>4. OneHolder'
    <2>1. \A q \in Sessions \ {s} : r \notin records[q]
      BY DEF Blockers, Holders
    <2> QED
      BY <2>1, TakeKeepsOneHolder
  <1>5. Ordered'
    BY <1>1, <1>2 DEF Ordered, LocksTypeOK, Within, Place, Take
  <1>6. OwnRecords'
    BY <1>2 DEF OwnRecords, LocksTypeOK, Within, Place, Take
  <1>7. GapsBehindVideo' /\ RowsBehindVideo'
    BY DEF GapsBehindVideo, RowsBehindVideo, LocksTypeOK, Table, Place
  <1> QED
    BY <1>3, <1>4, <1>5, <1>6, <1>7

LEMMA LookKeeps ==
    ASSUME LocksIInv, NEW s \in Sessions, Look(s)
    PROVE  LocksIInv'
  <1> USE DEF LocksIInv, Look, To
  <1>1. /\ Place(s) \in Places /\ Gap(s) \in Tables \X (Places \cup {End})
        /\ call[s].op = "setAction"
    BY ServedCall, GapIsAGap DEF Ordered
  <1>2. CASE Found(s) # Missing
    <2> USE <1>2
    <2> DEFINE r == ActionRecord(Place(s))
    <2>1. LocksTypeOK'
      BY <1>1 DEF LocksTypeOK, Labels, RecordNames, Take
    <2>2. OneHolder'
      <3>1. \A q \in Sessions \ {s} : r \notin records[q]
        BY DEF Blockers, Holders
      <3> QED
        BY <3>1, TakeKeepsOneHolder
    <2>3. Ordered'
      BY <1>1 DEF Ordered, LocksTypeOK, Within, Place, Take
    <2>4. OwnRecords'
      BY <1>1 DEF OwnRecords, LocksTypeOK, Within, Place, Take
    <2>5. GapsBehindVideo' /\ RowsBehindVideo'
      BY DEF GapsBehindVideo, RowsBehindVideo, LocksTypeOK, Table, Place
    <2> QED
      BY <2>1, <2>2, <2>3, <2>4, <2>5
  <1>3. CASE Found(s) = Missing
    <2> USE <1>3
    <2>1. LocksTypeOK'
      BY <1>1 DEF LocksTypeOK, Labels
    <2>2. OneHolder'
      BY DEF OneHolder
    <2>3. Ordered'
      BY <1>1 DEF Ordered, LocksTypeOK, Within, Place
    <2>4. OwnRecords'
      BY DEF OwnRecords, LocksTypeOK, Within, Place
    <2>5. GapsBehindVideo' /\ RowsBehindVideo'
      BY DEF GapsBehindVideo, RowsBehindVideo, LocksTypeOK, Table, Place
    <2> QED
      BY <2>1, <2>2, <2>3, <2>4, <2>5
  <1> QED
    BY <1>2, <1>3

LEMMA InsertKeeps ==
    ASSUME LocksIInv, NEW s \in Sessions, InsertRow(s)
    PROVE  LocksIInv'
  <1> USE DEF LocksIInv, InsertRow, To
  <1> DEFINE new == [by |-> s, video |-> call[s].video]
  <1>1. /\ Place(s) \in Places /\ Table(s) \in Tables /\ call[s].video \in Videos
        /\ call[s].op # "deleteComment"
    BY ServedCall DEF Ordered
  <1>2. new \in Row /\ new # Missing
    BY <1>1, NothingIsSomething DEF Row
  <1>3. LocksTypeOK'
    BY <1>1, <1>2 DEF LocksTypeOK, Labels, Own
  <1>4. OneHolder'
    BY DEF OneHolder
  <1>5. Ordered'
    BY DEF Ordered, LocksTypeOK, Within, Place
  <1>6. OwnRecords'
    BY DEF OwnRecords, LocksTypeOK, Within, Place
  <1>7. GapsBehindVideo'
    BY DEF GapsBehindVideo, LocksTypeOK
  <1>8. RowsBehindVideo'
    <2> SUFFICES ASSUME NEW q \in Sessions, NEW t \in Tables, NEW n \in Places,
                        row'[t][n] # Missing, row'[t][n].by = q
                 PROVE  /\ step'[q] \in {"stat", "commit"} /\ call[q].op # "deleteComment"
                        /\ t = Table(q) /\ n = Place(q)
      BY DEF RowsBehindVideo, Table, Place
    <2>1. CASE t = Table(s) /\ n = Place(s)
      <3>1. row'[t][n] = new
        BY <1>1, <2>1 DEF LocksTypeOK
      <3> QED
        BY <1>1, <2>1, <3>1 DEF LocksTypeOK
    <2>2. CASE ~(t = Table(s) /\ n = Place(s))
      <3>1. row'[t][n] = row[t][n]
        BY <1>1, <2>2 DEF LocksTypeOK
      <3> QED
        BY <3>1 DEF RowsBehindVideo, LocksTypeOK
    <2> QED
      BY <2>1, <2>2
  <1> QED
    BY <1>3, <1>4, <1>5, <1>6, <1>7, <1>8

LEMMA AskKeeps ==
    ASSUME LocksIInv, NEW s \in Sessions, AskForRow(s)
    PROVE  LocksIInv'
  <1> USE DEF LocksIInv, AskForRow
  <1>1. Place(s) \in Places /\ Table(s) \in Tables
    BY ServedCall
  <1>2. LocksTypeOK'
    BY <1>1 DEF LocksTypeOK, Own
  <1>3. OneHolder' /\ Ordered' /\ OwnRecords'
    BY DEF OneHolder, Ordered, OwnRecords, Within, Place
  <1>4. GapsBehindVideo' /\ RowsBehindVideo'
    BY DEF GapsBehindVideo, RowsBehindVideo, LocksTypeOK, Table, Place
  <1> QED
    BY <1>2, <1>3, <1>4

LEMMA StatLockKeeps ==
    ASSUME LocksIInv, NEW s \in Sessions, StatLock(s)
    PROVE  LocksIInv'
  <1> USE DEF LocksIInv, StatLock, To
  <1> DEFINE r == StatRecord(call[s].video)
  <1>1. call[s].video \in Videos
    BY DEF Ordered
  <1>2. LocksTypeOK'
    BY <1>1 DEF LocksTypeOK, Labels, RecordNames, Take
  <1>3. OneHolder'
    <2>1. \A q \in Sessions \ {s} : r \notin records[q]
      BY DEF Blockers, Holders
    <2> QED
      BY <2>1, TakeKeepsOneHolder
  <1>4. Ordered'
    BY DEF Ordered, LocksTypeOK, Within, Place, Take
  <1>5. OwnRecords'
    BY DEF OwnRecords, LocksTypeOK, Within, Place, Take
  <1>6. GapsBehindVideo' /\ RowsBehindVideo'
    BY DEF GapsBehindVideo, RowsBehindVideo, LocksTypeOK, Table, Place
  <1> QED
    BY <1>2, <1>3, <1>4, <1>5, <1>6

LEMMA LocksKept == LocksIInv /\ [NextLocks]_lockVars => LocksIInv'
  <1> SUFFICES ASSUME LocksIInv, [NextLocks]_lockVars PROVE LocksIInv'
    OBVIOUS
  <1>1. CASE UNCHANGED lockVars
    <2>1. LocksTypeOK' /\ OneHolder' /\ Ordered' /\ OwnRecords'
      BY <1>1 DEF LocksIInv, lockVars, LocksTypeOK, OneHolder, Ordered, OwnRecords, Within, Place
    <2>2. GapsBehindVideo' /\ RowsBehindVideo'
      BY <1>1 DEF LocksIInv, lockVars, GapsBehindVideo, RowsBehindVideo, Table, Place
    <2> QED
      BY <2>1, <2>2 DEF LocksIInv
  <1>2. CASE NextLocks
    BY <1>2, ArriveKeeps, CommentLockKeeps, VideoLockKeeps, RefusedKeeps, LookKeeps,
       InsertKeeps, AskKeeps, StatLockKeeps, CommitKeeps, RollBackKeeps DEF NextLocks
  <1> QED
    BY <1>1, <1>2

LEMMA LocksBegin == InitLocks => LocksIInv
  BY DEF InitLocks, LocksIInv, LocksTypeOK, Labels, OneHolder, Ordered, OwnRecords, Within,
         GapsBehindVideo, RowsBehindVideo

(* Whoever waits for each other in a circle is about to insert, each on a    *)
(* video of his own: the order comment, video, action, counters of SetAction,*)
(* CreateComment and DeleteComment (gorm.go:110-174, 190-218, 321-364) closes*)
(* no circle, for any number of transactions, videos and rows. What closes   *)
(* circles are gaps in the unique indexes, locked before the insertion (116),*)
(* and rows with one key, whose insertion was rolled back (204).             *)
THEOREM OnlyInsertsWaitInCircles == LocksSpec => []CirclesAreOfInserts
  <1> QED
    BY LocksBegin, LocksKept, CirclesInsert, PTL DEF LocksSpec
================================================================================
