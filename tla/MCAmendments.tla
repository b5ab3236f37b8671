---------------------------- MODULE MCAmendments ----------------------------
(***************************************************************************)
(* Small instances of Amendments with one order: two free lines whose      *)
(* targets overlap what they hold, and three lines whose prices are netted *)
(* while the order is held, paid, expires or is given up.                  *)
(***************************************************************************)
EXTENDS Amendments, TLC

CONSTANTS o1, a1, a2, p1, p2, p3, b1

slot(c, s, e) == [court |-> c, start |-> s, end |-> e]
offer(i, c)   == [slot |-> i, cents |-> c]

MCOrderOf == [l \in Lines |-> o1]

A1 == slot("A", 2, 4)
A2 == slot("A", 4, 6)
A3 == slot("A", 3, 5)
B1 == slot("B", 2, 3)

\* Two free lines beside each other; what they may take instead is each other's
\* interval, or overlaps both and costs something.
MCCourtOffers  == {offer(A1, 0), offer(A2, 0), offer(A3, 1)}
MCFreeBookings == {[l \in Lines |-> offer(IF l = 1 THEN A1 ELSE A2, 0)]}

MCBlockSlots   == {A2}

\* Three lines, one to get dearer and two to get cheaper.
MCPriceOffers   == {offer(A1, 2), offer(A1, 3), offer(A2, 0), offer(A2, 1),
                    offer(B1, 0), offer(B1, 1)}
MCPriceBookings == {[l \in Lines |-> CASE l = 1 -> offer(A1, 2)
                                       [] l = 2 -> offer(A2, 1)
                                       [] OTHER -> offer(B1, 1)]}

MCSymmetry == Permutations(Amendments) \cup Permutations(Payments)
=============================================================================
