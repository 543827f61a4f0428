--------------------------- MODULE OrderBookState ---------------------------
(***************************************************************************)
(* The pure order book of gateway/orderbook/src/orderbook_state.rs.        *)
(*                                                                         *)
(* A book maps every level, a <<side, price>> pair, to a size; size 0 is a *)
(* level the BTreeMap does not hold.  A delta maps every level to the      *)
(* absolute size it announces, or to NoChange for a level that the event   *)
(* does not list (the code also ignores a listed negative size, so -1      *)
(* stands for both).                                                       *)
(*                                                                         *)
(* Here and in the other modules, a definition named Slip... is the next   *)
(* definition with a mistake a programmer could make; no specification     *)
(* uses it, it shows that the properties would notice.                     *)
(***************************************************************************)
EXTENDS Integers, FiniteSets

CONSTANTS Prices,   \* the price grid, a finite set of integers
          MaxSize,  \* the largest size a level can have
          Depth     \* ORDERBOOK_DEPTH: levels per side requested and shown

ASSUME BookAssumption ==
    /\ Prices \subseteq Int
    /\ MaxSize \in Nat
    /\ Depth \in Nat

Side  == {"bid", "ask"}
Level == Side \X Prices
Size  == 0..MaxSize
Book  == [Level -> Size]

NoChange == -1
Delta == [Level -> Size \cup {NoChange}]

EmptyBook == [l \in Level |-> 0]

-----------------------------------------------------------------------------
(* l is nearer to the middle of the book than m.                           *)
Better(l, m) ==
    /\ l[1] = m[1]
    /\ IF l[1] = "bid" THEN l[2] > m[2] ELSE l[2] < m[2]

(* The levels among the best Depth of their side.                          *)
Top(b) ==
    {l \in Level :
        /\ b[l] > 0
        /\ Cardinality({m \in Level : b[m] > 0 /\ Better(m, l)}) < Depth}

(* depth_view, and what get_market_liquidity returns for a depth.          *)
DepthView(b) == [l \in Level |-> IF l \in Top(b) THEN b[l] ELSE 0]

is_empty(b) == b = EmptyBook

(* reset_from_snapshot: both sides are cleared, then load_side inserts the *)
(* levels of positive size.                                                *)
LoadSides(levels) == [l \in Level |-> IF levels[l] > 0 THEN levels[l] ELSE 0]

(* Slip: a listed size is stored whatever its sign.                        *)
SlipApplyUnfiltered(b, delta) == [l \in Level |-> delta[l]]

(* apply_side_delta: 0 removes, a positive size replaces.                  *)
ApplySides(b, delta) ==
    [l \in Level |-> IF delta[l] >= 0 THEN delta[l] ELSE b[l]]

(* Slip: an event that starts after the local book is applied.             *)
SlipNoGapCheck(lastTs, last_max, max) == IF max <= lastTs THEN "stale" ELSE "applied"

(* The outcome apply_delta returns for an event that covers the engine's   *)
(* changes after last_max and up to max, when the local book is at lastTs. *)
ApplyOutcome(lastTs, last_max, max) ==
    IF max <= lastTs THEN "stale"
    ELSE IF last_max > lastTs THEN "gap"
    ELSE "applied"
=============================================================================
