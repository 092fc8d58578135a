------------------------------ MODULE FollowLedger ------------------------------
(***************************************************************************)
(* What the relation repository promises: it keeps the set of pairs <<user,*)
(* author>> that follow, and in the same step that a pair enters or leaves *)
(* it, and in no other, the two counters of the pair move by one. Accounts *)
(* that are no longer normal neither gain nor lose a follow. FollowTx, the *)
(* row-lock model of the code, implements this module, and FollowingFeed   *)
(* takes its step as one action.                                           *)
(***************************************************************************)
EXTENDS Integers

CONSTANTS Users, Pairs

VARIABLES
    normal,       \* the accounts in status normal
    follows,      \* the pairs that follow
    following,    \* following[u]: how many u follows
    followers     \* followers[u]: how many follow u

followVars == <<normal, follows, following, followers>>

Init ==
    /\ normal = Users
    /\ follows = {}
    /\ following = [u \in Users |-> 0]
    /\ followers = [u \in Users |-> 0]

Shift(count, u, d) == [count EXCEPT ![u] = @ + d]

Follow(u, t) ==
    /\ {u, t} \subseteq normal
    /\ <<u, t>> \notin follows
    /\ follows' = follows \cup {<<u, t>>}
    /\ following' = Shift(following, u, 1)
    /\ followers' = Shift(followers, t, 1)
    /\ UNCHANGED normal

Unfollow(u, t) ==
    /\ {u, t} \subseteq normal
    /\ <<u, t>> \in follows
    /\ follows' = follows \ {<<u, t>>}
    /\ following' = Shift(following, u, -1)
    /\ followers' = Shift(followers, t, -1)
    /\ UNCHANGED normal

Suspend(u) ==
    /\ normal' = normal \ {u}
    /\ UNCHANGED <<follows, following, followers>>

Next ==
    \/ \E p \in Pairs : Follow(p[1], p[2]) \/ Unfollow(p[1], p[2])
    \/ \E u \in Users : Suspend(u)

Spec == Init /\ [][Next]_followVars
================================================================================
