--------------------------- MODULE InteractionLedger ---------------------------
(***************************************************************************)
(* What the interaction repository promises about one video: it keeps the  *)
(* set of users whose like (or favorite) is active and the set of visible  *)
(* comments, and a counter of video_stat moves by one exactly when an      *)
(* element enters or leaves its set, in the same step. A withdrawn video   *)
(* accepts no new like, favorite or comment.                               *)
(* InteractionTx, the row-lock model of the code, implements this module.  *)
(***************************************************************************)
EXTENDS Integers

CONSTANTS Users, Types, CommentIds

VARIABLES
    published,     \* the video is in status Published
    marks,         \* marks[t]: the users whose action of type t is active
    tally,         \* tally[t]: the counter of action type t in video_stat
    visible,       \* the comments in status Normal
    commentTally   \* comment_count of video_stat

ledgerVars == <<published, marks, tally, visible, commentTally>>

Init ==
    /\ published = TRUE
    /\ marks = [t \in Types |-> {}]
    /\ tally = [t \in Types |-> 0]
    /\ visible = {}
    /\ commentTally = 0

\* How a counter follows a set that becomes `after`.
Follow(n, before, after) ==
    IF after = before THEN n ELSE IF before \subseteq after THEN n + 1 ELSE n - 1

\* A user turns an action of one type on or off; the counter follows the set.
Mark(u, t, on) ==
    LET after == IF on THEN marks[t] \cup {u} ELSE marks[t] \ {u} IN
    /\ published
    /\ marks' = [marks EXCEPT ![t] = after]
    /\ tally' = [tally EXCEPT ![t] = Follow(@, marks[t], after)]
    /\ UNCHANGED <<published, visible, commentTally>>

AddComment(c) ==
    /\ published
    /\ visible' = visible \cup {c}
    /\ commentTally' = Follow(commentTally, visible, visible')
    /\ UNCHANGED <<published, marks, tally>>

RemoveComment(c) ==
    /\ visible' = visible \ {c}
    /\ commentTally' = Follow(commentTally, visible, visible')
    /\ UNCHANGED <<published, marks, tally>>

Withdraw ==
    /\ published' = FALSE
    /\ UNCHANGED <<marks, tally, visible, commentTally>>

Next ==
    \/ \E u \in Users, t \in Types, on \in BOOLEAN : Mark(u, t, on)
    \/ \E c \in CommentIds : AddComment(c) \/ RemoveComment(c)
    \/ Withdraw

Spec == Init /\ [][Next]_ledgerVars
================================================================================
