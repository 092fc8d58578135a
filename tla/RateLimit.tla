------------------------------- MODULE RateLimit -------------------------------
(***************************************************************************)
(* The rate limit of login and registration: a token bucket per client     *)
(* address in the memory of the process, and a loop that forgets clients   *)
(* which have been idle for longer than visitorIdleTTL. A forgotten client *)
(* starts again with a full bucket.                                        *)
(*                                                                         *)
(* One client is modelled: buckets do not meet. A token is Interval ticks; *)
(* rate.Limiter computes the level when it is asked.                       *)
(*                                                                         *)
(* Source: interfaces/http/middleware/rate_limit.go                        *)
(***************************************************************************)
EXTENDS Integers, Sequences, FiniteSets

CONSTANTS
    LimitKinds,   \* pairs of interval and burst: one for login, one for registration
    IdleTTL,      \* visitorIdleTTL, also the period of the loop
    NoVisitor,
    MaxTime       \* bound: the clock

ASSUME LimitsPositive ==
    /\ IdleTTL \in Nat \ {0}
    /\ \A k \in LimitKinds : k[1] \in Nat \ {0} /\ k[2] \in Nat \ {0}

ASSUME NoVisitorIsNone == NoVisitor \notin [level : Nat, seen : Nat]

VARIABLES
    limited,      \* the limit
    time,
    visitor,      \* NoVisitor, or the level of the bucket when last asked, and that time
    admitted,     \* the times of the admitted calls
    loopAt        \* the next tick of the loop

limitVars == <<limited, time, visitor, admitted, loopAt>>

Interval == limited[1]
Burst == limited[2]

LimitInit ==
    /\ limited \in LimitKinds
    /\ time = 0
    /\ visitor = NoVisitor
    /\ admitted = <<>>
    /\ loopAt = IdleTTL

\* The level of a bucket at a time: it fills up, to the burst.
Level(v, t) ==
    LET level == v.level + (t - v.seen)
    IN  IF level > Burst * Interval THEN Burst * Interval ELSE level

\* allow: a new visitor has a full bucket; a refused call is seen as well.
Allow ==
    /\ LET level == IF visitor = NoVisitor THEN Burst * Interval ELSE Level(visitor, time)
       IN  IF level >= Interval
           THEN visitor' = [level |-> level - Interval, seen |-> time] /\ admitted' = Append(admitted, time)
           ELSE visitor' = [level |-> level, seen |-> time] /\ UNCHANGED admitted
    /\ UNCHANGED <<limited, time, loopAt>>

TimeGoesOn ==
    /\ time < MaxTime
    /\ time < loopAt
    /\ time' = time + 1
    /\ UNCHANGED <<limited, visitor, admitted, loopAt>>

\* Wrong: every visitor is forgotten.
CleanupAll ==
    /\ time = loopAt
    /\ visitor' = NoVisitor
    /\ loopAt' = loopAt + IdleTTL
    /\ UNCHANGED <<limited, time, admitted>>

CleanupIdle ==
    /\ time = loopAt
    /\ visitor' = IF visitor # NoVisitor /\ time - visitor.seen > IdleTTL THEN NoVisitor ELSE visitor
    /\ loopAt' = loopAt + IdleTTL
    /\ UNCHANGED <<limited, time, admitted>>

LimitNext == Allow \/ TimeGoesOn \/ CleanupIdle

-----------------------------------------------------------------------------
\* Calls admitted from one time to another.
AdmittedIn(a, b) == Cardinality({i \in DOMAIN admitted : a <= admitted[i] /\ admitted[i] <= b})

(* Where forgetting idle clients does not soften the limit: over no longer *)
(* than visitorIdleTTL a client gets the burst and one more for each       *)
(* interval; and over any time, when a bucket fills up within              *)
(* visitorIdleTTL, as the one of login does. The bucket of registration    *)
(* takes longer, and nothing is said of it over more than visitorIdleTTL:  *)
(* there the code contradicts rate_limit.go:20, five times an hour on      *)
(* average.                                                                *)
AdmissionsBounded ==
    \A a \in 0..time :
        (time - a <= IdleTTL \/ Burst * Interval <= IdleTTL) =>
            AdmittedIn(a, time) <= Burst + (time - a) \div Interval
-----------------------------------------------------------------------------
(* The strengthening that is inductive.                                    *)

LimitSpec == LimitInit /\ [][LimitNext]_limitVars

LimitTypes ==
    /\ limited \in LimitKinds
    /\ time \in Nat
    /\ visitor \in [level : 0..(Burst * Interval), seen : 0..time] \cup {NoVisitor}
    /\ admitted \in Seq(0..time)

\* The level of the bucket now.
LevelNow == IF visitor = NoVisitor THEN Burst * Interval ELSE Level(visitor, time)

\* An admitted call was the last to be seen, or came before it.
SeenLast == visitor # NoVisitor => \A i \in DOMAIN admitted : admitted[i] <= visitor.seen

\* What was taken from the bucket since a, and what is left, were in it at a or
\* have flowed in.
BucketBalance ==
    \A a \in 0..time :
        (time - a <= IdleTTL \/ Burst * Interval <= IdleTTL) =>
            Interval * AdmittedIn(a, time) + LevelNow <= Burst * Interval + (time - a)

LimitIInv == LimitTypes /\ SeenLast /\ BucketBalance
================================================================================
