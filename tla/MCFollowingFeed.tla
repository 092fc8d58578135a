---------------------------- MODULE MCFollowingFeed ----------------------------
(* Model-checking instance of FollowingFeed: two users, one author with two   *)
(* videos and one with one.                                                   *)
EXTENDS FollowingFeed, TLC

CONSTANTS Prolific, Novice   \* the authors

TwoOfProlific == [v \in Videos |-> IF v = 2 THEN Novice ELSE Prolific]
HandlersAlike == Permutations(Handlers)
StartSecond == {2} \X Authors

(* following_index_cache.go:87: the index counts as complete only when it      *)
(* covers all authors the user follows; if not, the database is asked. Said    *)
(* of the moments in which nothing is under way: an author whose videos have   *)
(* all been handled, and who has any, is in an index that is taken as complete.*)
CompleteCoversAuthors ==
    Idle /\ pending = {} =>
        \A u \in Users, v \in Public :
            TakenAsComplete(u) /\ AuthorOf[v] \in FollowedAuthors(u) /\ Handled(v)
                => \E x \in Indexed(u) : AuthorOf[x] = AuthorOf[v]
================================================================================
