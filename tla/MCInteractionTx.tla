---------------------------- MODULE MCInteractionTx ----------------------------
(* Model-checking instance of the interaction transactions: the rows of one    *)
(* video, or the locks on several. The two share no state, and a behaviour is  *)
(* of one of them. For the locks: first actions on two videos whose rows are   *)
(* neighbours, creations of one comment on three videos, and of one next to it.*)
EXTENDS InteractionTx, InteractionLocks, TLC

CONSTANTS v1, v2, v3

TwoVideosInTurn == [n \in Places |-> IF n = 1 THEN v1 ELSE v2]

SevenOffers ==
    {[op |-> "setAction", place |-> n, video |-> TwoVideosInTurn[n]] : n \in Places}
    \cup {[op |-> "createComment", place |-> 1, video |-> v] : v \in Videos}
    \cup {[op |-> "createComment", place |-> 2, video |-> v1]}
    \cup {[op |-> "deleteComment", place |-> 1, video |-> NoVideo]}

VARIABLE part  \* what the behaviour is of

InteractionVars == <<part, vars, lockVars>>

InteractionInit == part \in {"rows", "locks"} /\ Init /\ InitLocks

InteractionNext ==
    \/ part = "rows" /\ Next /\ UNCHANGED <<part, lockVars>>
    \/ part = "locks" /\ NextLocks /\ UNCHANGED <<part, vars>>

InteractionSpec == InteractionInit /\ [][InteractionNext]_InteractionVars

\* Goroutines and comment ids are interchangeable; users are not (the author).
Symmetry == Permutations(Procs) \cup Permutations(CommentIds)
================================================================================
