------------------------------- MODULE MCFollowTx -------------------------------
(* Model-checking instance of FollowTx: two users who follow each other, and  *)
(* a third one whom one of them may follow.                                   *)
EXTENDS FollowTx, TLC

CONSTANTS Ann, Bob, Cid

ThreePairs == {<<Ann, Bob>>, <<Bob, Ann>>, <<Cid, Ann>>}

\* Only Ann uses a key.
ThreePairRequests ==
    {r \in [pair : ThreePairs, active : BOOLEAN, key : Key] :
        r.key # NoKey => r.pair = <<Ann, Bob>>}
================================================================================
