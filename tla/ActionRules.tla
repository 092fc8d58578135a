------------------------------ MODULE ActionRules ------------------------------
(***************************************************************************)
(* The pure rules of a like or favorite: how a stored status and a target  *)
(* status give a count delta, and how one request rewrites a stored row.   *)
(* The database row (InteractionTx) and the Redis hash (ActionPipeline)    *)
(* are rewritten by two pieces of code that must agree on these rules.     *)
(*                                                                         *)
(* Source: internal/domain/interaction/entity.go (rules),                  *)
(* internal/infra/persistence/interaction/gorm.go (row) and                *)
(* internal/infra/cache/action_state_cache.go (hash).                      *)
(***************************************************************************)
EXTENDS Integers

CONSTANTS
    Keys,    \* the idempotency keys clients may send
    NoKey    \* the empty idempotency key

ASSUME NoKeyAssumption == NoKey \notin Keys

Unset    == "unset"
Active   == "active"
Canceled == "canceled"

Status == {Unset, Active, Canceled}
Key    == Keys \cup {NoKey}

\* One stored action: a database row or a Redis hash. A missing one is Absent.
Record == [status : Status, key : Key]
Absent == [status |-> Unset, key |-> NoKey]

StatusFromActive(active) == IF active THEN Active ELSE Canceled

\* The count delta of moving a stored status to the target status.
ResolveActionDelta(current, active) ==
    IF current = Unset THEN IF active THEN 1 ELSE 0
    ELSE IF current = StatusFromActive(active) THEN 0
    ELSE IF active THEN 1 ELSE -1

\* A request repeats the stored one when it carries the same non-empty key.
IsReplay(record, key) ==
    /\ record.status # Unset
    /\ key # NoKey
    /\ record.key = key

\* Wrong variant: a replay is not recognised and toggles the count again.
RowDeltaNoReplay(record, active, key) == IF active THEN 1 ELSE -1

\* What SetAction and SetActionState compute from the row or hash they read.
RowDelta(record, active, key) ==
    IF IsReplay(record, key) THEN 0 ELSE ResolveActionDelta(record.status, active)

\* Wrong variant: a replay rewrites the status although its delta is zero.
RowAfterReplayRewrites(record, active, key) ==
    [status |-> StatusFromActive(active), key |-> key]

RowAfter(record, active, key) ==
    IF IsReplay(record, key)
    THEN record
    ELSE [status |-> StatusFromActive(active), key |-> key]

\* Counters never go below zero (clampCount, clampRedisCount).
Clamp(n) == IF n < 0 THEN 0 ELSE n
================================================================================
