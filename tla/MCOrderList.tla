---------------------------- MODULE MCOrderList -----------------------------
(* Two orders of one asset's market, one of them own, and a token order.   *)
EXTENDS OrderList

MCOrder == {"bid", "own", "token"}
MCAssetOf == [o \in MCOrder |-> IF o = "token" THEN "gold" ELSE "usdt"]
MCOwn == {"own"}
MCSwapAsset == {"usdt"}
=============================================================================
