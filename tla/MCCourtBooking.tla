--------------------------- MODULE MCCourtBooking ---------------------------
(***************************************************************************)
(* Small instances of CourtBooking for TLC.  The court of venue v1 has two *)
(* adjacent intervals and one that overlaps both; venue v2 has a court of  *)
(* its own.  Prices allow a wallet payment, a provider payment and a mixed *)
(* one; in MCFree one selection costs nothing.                             *)
(***************************************************************************)
EXTENDS CourtBooking, TLC

CONSTANTS v1, v2

Interval(venue, court, from, to) ==
  [venue |-> venue, court |-> court, start |-> from, end |-> to]
Early == Interval(v1, 1, 2, 4)
Clash == Interval(v1, 1, 3, 5)
After == Interval(v1, 1, 4, 5)
Other == Interval(v2, 2, 2, 4)

Priced(venue, slots, total) == [venue |-> venue, slots |-> slots, total |-> total]

MCIntervals  == {Early, Clash, After, Other}
MCSelections == {Priced(v1, {Early, After}, 2), Priced(v1, {Clash}, 1),
                 Priced(v2, {Other}, 2)}
MCFree       == {Priced(v1, {Early, After}, 0), Priced(v1, {Clash}, 2)}
MCPolicies   == {[quoteMinutes |-> 1, holdMinutes |-> 2]}
MCCredited   == [c \in Customers |-> 2]

MCSymmetry == Permutations(Payments) \cup Permutations(Txns) \cup
              Permutations(EventIds) \cup Permutations(Quotes) \cup
              Permutations(Blocks)
=============================================================================
