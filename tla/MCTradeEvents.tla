---------------------------- MODULE MCTradeEvents ----------------------------
(* One trade and its three possible events; the outcome is recorded after the
   creation, so it has the later created_at. *)
EXTENDS TradeEvents

MCRowOf == [t \in Trades |-> [created |-> 1, completed |-> 2, failed |-> 3]]
=============================================================================
