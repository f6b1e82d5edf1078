---------------------------- MODULE EffectiveDating ----------------------------
(***************************************************************************)
(* What effective-dated tables promise their readers.  A subject has rows, *)
(* each with a value that is in force from one date until another; a row   *)
(* without an end is open.  The promise is that of universe_memberships    *)
(* ("membership intervals are preserved") and of company_classifications   *)
(* ("Effective-dated so changes are preserved over time"), whose writers   *)
(* UniverseMembership and SecArchives implement this specification.        *)
(***************************************************************************)
EXTENDS Integers

CONSTANTS Subjects, Values, Dates

\* 0 stands for the NULL of an open row.
DatesArePositive == Dates \subseteq Nat \ {0}

VARIABLE history     \* history[s]: the rows of s

RowOf == [value: Values, from: Dates, until: Dates \cup {0}]

HistoryTypeOK == history \in [Subjects -> SUBSET RowOf]

HistoryInit == history = [s \in Subjects |-> {}]

\* Every date a row names has come.
Recorded(rows, date) ==
    \A x \in rows : x.from <= date /\ x.until <= date

Closed(rows, date) ==
    {IF x.until = 0 THEN [x EXCEPT !.until = date] ELSE x : x \in rows}

\* At a date not before any on record the open row is closed, and then another
\* may be opened.
Revised(old, new) ==
    \E date \in Dates :
      /\ Recorded(old, date)
      /\ \/ new = Closed(old, date)
         \/ \E v \in Values :
              new = Closed(old, date) \cup {[value |-> v, from |-> date, until |-> 0]}

HistoryNext ==
    /\ history' \in [Subjects -> SUBSET RowOf]
    /\ \A s \in Subjects : history'[s] = history[s] \/ Revised(history[s], history'[s])

HistorySpec == HistoryInit /\ [][HistoryNext]_history
--------------------------------------------------------------------------------
InForce(x, date) == x.from <= date /\ (x.until = 0 \/ date < x.until)

AsOf(s, date) == {x.value : x \in {y \in history[s] : InForce(y, date)}}

\* Rows of a subject follow each other without overlap; only the last is open.
RowsAreDisjoint ==
    \A s \in Subjects : \A x, y \in history[s] :
      x # y => \/ x.until # 0 /\ x.until <= y.from
               \/ y.until # 0 /\ y.until <= x.from

\* A query as of any date finds at most one value ("Return one selected
\* security per active training-universe company").
AsOfIsUnique ==
    \A s \in Subjects, date \in Dates : \A v, w \in AsOf(s, date) : v = w

\* What a query as of a date before the last change answered, it answers for
\* ever: point-in-time reads can be repeated.
PastIsFinal ==
    [][\A s \in Subjects, date \in Dates :
         (\E x \in history[s] : date < x.from \/ date < x.until) =>
           AsOf(s, date)' = AsOf(s, date)]_history
================================================================================
