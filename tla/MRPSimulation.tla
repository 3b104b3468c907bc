----------------------------- MODULE MRPSimulation -----------------------------
(***************************************************************************)
(* What the runner computes from its inputs, for one part: the rows         *)
(* MRPInputRepository loads, the walk of simulate_inventory_and_mrp over    *)
(* them, and MRPRunner._summarize.  Pure: no state.                        *)
(*                                                                         *)
(* A case of inputs is a record: the days with a forecast, and for every    *)
(* day of the horizon its demand, its open purchases and its lost capacity; *)
(* the stock on hand and the safety stock.  Days are numbers, quantities    *)
(* whole: no rounding.                                                     *)
(***************************************************************************)
EXTENDS Integers, FiniteSets

LOCAL INSTANCE Functions

CONSTANTS
    Horizon,       \* horizon_days
    Leadtime,      \* leadtime_days
    Demands,       \* bound: demand of a day
    Deliveries,    \* bound: purchases of a day
    LostQtys,      \* bound: capacity lost on a day
    Stocks         \* bound: stock on hand, and safety stock

ASSUME MRPAssumption ==
    /\ Horizon \in Nat /\ Leadtime \in Nat
    /\ Demands \subseteq Nat /\ Deliveries \subseteq Nat
    /\ LostQtys \subseteq Nat /\ Stocks \subseteq Nat

Days == 1..Horizon

Cases == [forecast : SUBSET Days, demand : [Days -> Demands],
          purchase : [Days -> Deliveries], lost : [Days -> LostQtys],
          stock : Stocks, safety : Stocks]

Most(a, b) == IF a >= b THEN a ELSE b
First(S)   == CHOOSE d \in S : \A e \in S : d <= e
NoDay      == 0

Total(f, S) == FoldFunctionOnSet(LAMBDA x, y : x + y, 0, f, S)

-----------------------------------------------------------------------------
(* load_forecast and load_capacity_loss: a row for each forecast day.      *)

\* Mutant: lost capacity is taken off without looking at what there was.
Incoming_Raw(c, d) == c.purchase[d] - c.lost[d]

\* What a day's row brings in.
Incoming(c, d) == Most(0, c.purchase[d] - c.lost[d])

\* Mutant: a backlog is not carried to the next day.
Carried_Clipped(end) == Most(0, end)

\* prev_end, negative for a backlog.
Carried(end) == end

\* end_available at the end of each day; a day without a row changes nothing.
EndAvailable(c) ==
    LET end[d \in 0..Horizon] ==
            IF d = 0 THEN c.stock
            ELSE IF d \notin c.forecast THEN end[d - 1]
            ELSE Carried(end[d - 1]) + Incoming(c, d) - c.demand[d]
    IN end

Shortage(c)    == [d \in c.forecast |-> Most(0, -EndAvailable(c)[d])]

\* Mutant: the order makes up for the shortage, not for the safety stock.
Recommended_Bare(c) == [d \in c.forecast |-> Most(0, -EndAvailable(c)[d])]

Recommended(c) == [d \in c.forecast |-> Most(0, c.safety - EndAvailable(c)[d])]

\* _summarize: the first row with an order is the suggestion.
Summary(c) ==
    LET shortage    == Shortage(c)
        recommended == Recommended(c)
        short  == {d \in c.forecast : shortage[d] > 0}
        orders == {d \in c.forecast : recommended[d] > 0}
    IN [total_shortage  |-> Total(shortage, c.forecast),
        lost            |-> Total(c.lost, c.forecast),
        earliest        |-> IF short = {} THEN NoDay ELSE First(short),
        eta             |-> IF orders = {} THEN NoDay ELSE First(orders),
        order_date      |-> IF orders = {} THEN NoDay ELSE First(orders) - Leadtime,
        po_qty          |-> IF orders = {} THEN 0 ELSE recommended[First(orders)],
        has_shortage    |-> short # {}]

-----------------------------------------------------------------------------
(* Properties                                                              *)

\* The walk is its closed form: what is available at the end of a forecast day
\* is the stock, plus all that came in, less all demand up to that day
\* (mrp_service.py:14).
WalkIsBalance ==
    \A c \in Cases : \A d \in c.forecast :
        LET until == {e \in c.forecast : e <= d}
            came  == [e \in until |-> IF c.purchase[e] >= c.lost[e]
                                      THEN c.purchase[e] - c.lost[e] ELSE 0]
        IN EndAvailable(c)[d] = c.stock + Total(came, until) - Total(c.demand, until)

Ordered(c, qty, d) == [c EXCEPT !.purchase = [e \in Days |->
                           IF e = d THEN c.lost[d] + Incoming(c, d) + qty ELSE @[e]]]

\* The suggestion is in time and enough: a plan with a shortage suggests an
\* order, needed no later than the first shortage, and with that order in the
\* simulation its day ends on the safety stock and no day until then is short.
SuggestionHolds ==
    \A c \in Cases :
        LET s == Summary(c) IN
        /\ s.has_shortage => s.po_qty > 0 /\ s.eta <= s.earliest
        /\ s.po_qty > 0 =>
              LET after == EndAvailable(Ordered(c, s.po_qty, s.eta)) IN
              /\ after[s.eta] = c.safety
              /\ \A d \in c.forecast : d <= s.eta => after[d] >= 0
=============================================================================
