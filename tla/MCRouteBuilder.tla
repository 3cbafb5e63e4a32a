--------------------------- MODULE MCRouteBuilder ---------------------------
(* Routes over one Raydium pool and four states of Huma modes.                *)
EXTENDS RouteBuilder

Pool == [name |-> "pool", protocol |-> "RaydiumAMM", coin |-> "usdc", pc |-> "sol"]

HumaMode(name, mode, strategy, farmed, initialized) ==
  [name |-> name, protocol |-> "Huma", underlying |-> "usdc", mode |-> mode,
   strategy |-> strategy, farmed |-> farmed, initialized |-> initialized]

Jup == HumaMode("huma_jup", "pst", "JupLend", FALSE, TRUE)
Kamino == HumaMode("huma_kamino", "pst", "Kamino", FALSE, TRUE)
Farmed == HumaMode("huma_farmed", "pst", "Kamino", TRUE, TRUE)
Fresh == HumaMode("huma_fresh", "pst", "JupLend", FALSE, FALSE)

Mints == << "usdc", "pst", "sol" >>

\* A leg from one slot of Mints to another, asked with the mints of those slots.
LegOf(venue, from, to, weight) ==
  [venue |-> venue, from |-> from, to |-> to, weight_nanos |-> weight,
   request |-> [input_mint |-> Mints[from + 1], output_mint |-> Mints[to + 1],
                amount |-> 3, swap_type |-> "ExactIn"]]
All == 1000000000
Half == 500000000

RouteOf(legSeq) == [mints |-> Mints, amount |-> 300, legs |-> legSeq]

Venues == {Pool, Jup, Kamino, Farmed, Fresh}
Ends == {<<0, 1>>, <<0, 2>>, <<1, 0>>, <<2, 0>>}
\* Any first leg, a second one after it, and there and back again.
Singles == {RouteOf(<< LegOf(v, e[1], e[2], All) >>) : v \in Venues, e \in Ends}
Pairs == {RouteOf(<< LegOf(v, 0, 1, w), LegOf(u, e[1], e[2], All) >>) :
            v \in {Jup, Farmed}, u \in Venues, e \in Ends, w \in {0, Half}}
Triples == {RouteOf(<< LegOf(Pool, 0, 2, Half), LegOf(v, 0, 1, All), LegOf(u, 1, 0, All) >>) :
              v \in {Jup, Kamino}, u \in {Jup, Farmed}}
ExactOut == {[RouteOf(<< LegOf(v, 0, e, All) >>) EXCEPT !.legs[1].request.swap_type = "ExactOut"] :
               v \in {Pool, Jup}, e \in {1, 2}}
\* Indices and sizes that execute refuses.
IllFormed == {[RouteOf(<< LegOf(Pool, 0, 2, All) >>) EXCEPT !.legs[1].to = 3],
              [RouteOf(<< LegOf(Pool, 0, 2, All) >>) EXCEPT !.legs[1].from = 1],
              RouteOf(<< >>), [RouteOf(<< LegOf(Pool, 0, 2, All) >>) EXCEPT !.mints = << "usdc" >>],
              RouteOf([k \in 1 .. 13 |-> LegOf(Pool, 0, 2, 0)])}

AllRoutes == Singles \cup Pairs \cup Triples \cup ExactOut \cup IllFormed
=============================================================================
