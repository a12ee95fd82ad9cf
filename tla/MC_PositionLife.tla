--------------------------- MODULE MC_PositionLife ---------------------------
(* PositionLife under the default exit rules.  Of the three prices one is  *)
(* at the stop loss, one at the early negative exit, and one takes profit  *)
(* and activates the trailing stop.                                        *)
EXTENDS PositionLife

MC_Quotes == {96, 98, 105}

DefaultRules ==
    [chosen |-> TRUE, max_position_loss |-> -3, take_profit |-> 4,
     partial_take_profit |-> TRUE, trailing_activation |-> 2,
     trailing_drop |-> 15, profit_protection |-> TRUE,
     protection_trigger |-> 2, protection_floor |-> 0,
     early_negative |-> TRUE, early_negative_ticks |-> 1,
     early_negative_rate |-> -1, time_stop |-> TRUE, time_stop_ticks |-> 3,
     time_stop_min_profit |-> 0]

MC_ExitRules ==
    {DefaultRules, [DefaultRules EXCEPT !.profit_protection = FALSE,
                                        !.early_negative = FALSE]}
=============================================================================
