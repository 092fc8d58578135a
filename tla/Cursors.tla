-------------------------------- MODULE Cursors --------------------------------
(***************************************************************************)
(* Cursor paging, as every list of this system does it: rows are ordered   *)
(* by time and then id, newest first, a cursor names the last row of the   *)
(* page before, and one row more than the page holds is read to see        *)
(* whether there are more.                                                 *)
(*                                                                         *)
(* A row is a pair of time and id; a cursor is such a pair, or Start. The  *)
(* code wraps it in JSON and base64 with nanoseconds, and what it decodes  *)
(* is what it encoded.                                                     *)
(*                                                                         *)
(* Source: application/{feed,interaction,message,relation} and the queries *)
(* of infra/persistence/{feed,interaction,message,relation}.               *)
(***************************************************************************)
EXTENDS Integers, FiniteSets, SequencesExt

Start == <<"start">>

\* The order of the lists: r comes before s.
Newer(r, s) == r[1] > s[1] \/ (r[1] = s[1] /\ r[2] > s[2])

\* A finite set in an order: at i is the element with i - 1 others before it.
RankedBy(S, before(_, _)) ==
    [i \in 1..Cardinality(S) |-> CHOOSE x \in S : Cardinality({y \in S : before(y, x)}) = i - 1]

\* Wrong: rows of the same time are taken to be behind the cursor.
AfterTime(cursor, r) == cursor = Start \/ r[1] < cursor[1]

\* The WHERE clause that continues behind a cursor.
After(cursor, r) == cursor = Start \/ r[1] < cursor[1] \/ (r[1] = cursor[1] /\ r[2] < cursor[2])

\* The query of a list: the first rows behind the cursor, at most "limit".
Query(rows, cursor, limit) ==
    LET sorted == RankedBy({r \in rows : After(cursor, r)}, Newer)
    IN  SubSeq(sorted, 1, Min({limit, Len(sorted)}))

\* The cursor of the next page; an empty page has none.
NextCursor(items) == IF items = <<>> THEN Start ELSE Last(items)

\* The page: its items, whether there are more, and the cursor of the next.
Page(rows, cursor, limit) ==
    LET items == Query(rows, cursor, limit + 1)
        more  == Len(items) > limit
        shown == IF more THEN SubSeq(items, 1, limit) ELSE items
    IN  [items |-> shown, more |-> more, next |-> NextCursor(shown)]

\* normalizeLimit: a default for none, a cap for too many.
NormalizeLimit(limit, default, max) ==
    IF limit <= 0 THEN default ELSE Min({limit, max})

-----------------------------------------------------------------------------
(* The lists, each with the limit the client asks for. *)

TimelinePage(rows, cursor, limit) == Page(rows, cursor, NormalizeLimit(limit, 10, 100))

CommentPage(rows, cursor, limit) == Page(rows, cursor, NormalizeLimit(limit, 20, 100))

MessagePage(rows, cursor, limit) == Page(rows, cursor, NormalizeLimit(limit, 20, 100))

UserPage(rows, cursor, limit) == Page(rows, cursor, NormalizeLimit(limit, 20, 100))

FollowingPage(rows, cursor, limit) == UserPage(rows, cursor, limit)

FollowerPage(rows, cursor, limit) == UserPage(rows, cursor, limit)
================================================================================
