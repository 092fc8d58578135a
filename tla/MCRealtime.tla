------------------------------- MODULE MCRealtime -------------------------------
(* Model-checking instance of Realtime.                                       *)
EXTENDS Realtime, TLC

CONSTANT Ann

MessageFor(u, e, k) == [user |-> u, event |-> e, key |-> k]

\* Two messages, one known by its event and one by its idempotency key.
SourcesOfAnn == {MessageFor(Ann, "liked", NoString), MessageFor(Ann, NoString, "key")}
================================================================================
