-------------------------------- MODULE Messages --------------------------------
(***************************************************************************)
(* The messages of the users and the notifications about them. A row is    *)
(* made once for an event id and once for an idempotency key of a user:    *)
(* both columns have unique indexes, an INSERT that meets one of them      *)
(* fails, and the existing row is returned. A row that has been made, and  *)
(* every change of rows to read, starts a goroutine that reads the unread  *)
(* count and publishes it; nothing orders these goroutines.                *)
(*                                                                         *)
(* Source: internal/application/message/service.go,                        *)
(* internal/infra/persistence/message/gorm.go and                          *)
(* internal/domain/message/entity.go.                                      *)
(***************************************************************************)
EXTENDS Naturals, FiniteSets

CONSTANTS
    Sources,        \* the internal events: records with user, event and key;
                    \*   an event or key may be missing (NoString)
    NoString,
    Unknown,        \* UnreadCountUnknown: the count could not be read
    MaxChanges      \* bound: calls that change rows in the whole run

VARIABLES
    messages,       \* rows: records with id, user, event, key, read
    notices,        \* goroutines that notify: records with type, id, user
    counted,        \* of these, those that have read the count: records with
                    \*   type, id, user and count
    changes         \* calls so far, for the bound; it also names the notices

messageVars == <<messages, notices, counted, changes>>

Kinds == {"message", "unread"}

\* The users who get messages.
Addressees == {s.user : s \in Sources}

\* The notifications that may be published.
Frames == [type : Kinds, id : 0..MaxChanges, user : Addressees,
           count : 0..MaxChanges \cup {Unknown}]

ASSUME MaxChangesNat == MaxChanges \in Nat

MessagesInit ==
    /\ messages = {}
    /\ notices = {}
    /\ counted = {}
    /\ changes = 0

UnreadOf(u) == {m \in messages : m.user = u /\ ~ m.read}

CountUnread(u) == Cardinality(UnreadOf(u))

\* findExisting: the rows that a duplicate event id or key points to.
Existing(s) ==
    {m \in messages :
        /\ m.user = s.user
        /\ \/ s.event # NoString /\ m.event = s.event
           \/ s.key # NoString /\ m.key = s.key}

Inserted(s) == Existing(s) = {}

Notice(kind, u) == [type |-> kind, id |-> changes, user |-> u]

\* CreateFromActorEvent. A call that finds an existing row changes nothing.
CreateFromEvent(s) ==
    /\ changes < MaxChanges
    /\ changes' = changes + 1
    /\ messages' = IF Existing(s) = {}
                   THEN messages \cup {[id |-> Cardinality(messages) + 1, user |-> s.user,
                                        event |-> s.event, key |-> s.key, read |-> FALSE]}
                   ELSE messages
    /\ notices' = IF Inserted(s) THEN notices \cup {Notice("message", s.user)} ELSE notices
    /\ UNCHANGED counted

\* MarkRead of some messages of the user, or of all of them (no ids given).
MarkRead(u, ids) ==
    LET hit == {m \in UnreadOf(u) : ids = {} \/ m.id \in ids}
    IN  /\ changes < MaxChanges
        /\ hit # {}
        /\ changes' = changes + 1
        /\ messages' = (messages \ hit) \cup {[m EXCEPT !.read = TRUE] : m \in hit}
        /\ notices' = notices \cup {Notice("unread", u)}
        /\ UNCHANGED counted

\* currentUnreadCount, in the goroutine: the count, or Unknown if it fails.
CountForNotice(n, count) ==
    /\ n \in notices
    /\ notices' = notices \ {n}
    /\ counted' = counted \cup {[type |-> n.type, id |-> n.id, user |-> n.user, count |-> count]}
    /\ UNCHANGED <<messages, changes>>

CurrentCount(n) == CountUnread(n.user)

\* The goroutine has published its notification, or given up.
NoticeEnds(n) ==
    /\ n \in counted
    /\ counted' = counted \ {n}
    /\ UNCHANGED <<messages, notices, changes>>

--------------------------------------------------------------------------------

\* The type invariant of the messages. Every row has cost a call.
MessagesTypeOK ==
    /\ messages \subseteq [id : 1..MaxChanges, user : Addressees,
                          event : {s.event : s \in Sources}, key : {s.key : s \in Sources},
                          read : BOOLEAN]
    /\ IsFiniteSet(messages) /\ Cardinality(messages) <= changes
    /\ changes \in 0..MaxChanges
    /\ notices \subseteq [type : Kinds, id : 0..MaxChanges, user : Addressees]
    /\ counted \subseteq Frames
================================================================================
