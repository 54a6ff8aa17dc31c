---------------------------- MODULE StaticArray ----------------------------
(***************************************************************************)
(* CStaticArray<T> (Def/StaticArray.h): the fixed table from which the     *)
(* game server takes its user slots, its player objects and its rooms.     *)
(* A slot is free when its element says IsEmpty(); the table itself keeps  *)
(* only a scan cursor, which every successful search moves up by one and   *)
(* nothing ever brings back.                                               *)
(***************************************************************************)
EXTENDS Integers, FiniteSetsExt

\* What GetFreeKey answers when every slot it looked at is taken.
NoKey == -1

\* The second loop of GetFreeKey runs to the cursor, not to the size: once the
\* cursor has passed the size, a search in a full table calls IsEmpty() on
\* memory behind the last element.
Wild == -2

\* The first loop finds the first free slot at or after the cursor, the second
\* one the first free slot before it.
GetFreeKey(free, size, cursor) ==
    LET ahead == {k \in free : k >= cursor}
    IN  IF ahead # {} THEN Min(ahead)
        ELSE IF free # {} THEN Min(free)
        ELSE IF cursor > size THEN Wild
        ELSE NoKey

\* m_nCursor++ on success.  Every cursor above the size behaves like size + 1,
\* so the cursor stops there and the state space stays finite.
CursorAfter(key, size, cursor) ==
    IF key >= 0 /\ cursor <= size THEN cursor + 1 ELSE cursor

=============================================================================
