--------------------------- MODULE MCVendorRouting ----------------------------
(* Small constants for VendorRouting. *)
EXTENDS VendorRouting, TLC

CONSTANTS c1, c2

MCTradingDays == {1, 2}
MCOldDays == {1}

(* One call for an indicator, and another for that or for anything else.   *)
Ask(methods, inputs, dates) == [method : methods, input : inputs, date : dates]

MCRequests ==
  c1 :> Ask({"get_indicators"}, {"good"}, {1}) @@
  c2 :> (Ask({"get_indicators"}, Inputs, {2}) \cup
         Ask({"get_stock_data", "get_global_news"}, {"good", "bad"}, {2}) \cup
         Ask(Methods, {"good"}, {2}))

(* A tool of its own, an unknown name and categories that are missing; and *)
(* both vendors named for all.                                             *)
MCConfigs ==
  {[tool_vendors |-> "get_stock_data" :> <<"alpha_vantage", "yahoo">>,
    data_vendors |-> "fundamental_data" :> <<"alpha_vantage">> @@
                     "technical_indicators" :> <<"yfinance">>],
   [tool_vendors |-> [t \in {} |-> <<>>],
    data_vendors |-> [k \in DOMAIN ToolsCategories |-> <<"alpha_vantage", "yfinance">>]]}
=============================================================================
