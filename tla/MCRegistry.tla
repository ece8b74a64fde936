----------------------------- MODULE MCRegistry -----------------------------
(***************************************************************************)
(* Instances of Registry for TLC: the channel is smaller than the number   *)
(* of events that can be published, so that a slow client lags.            *)
(***************************************************************************)
EXTENDS Registry, TLC

MCMatches == [pat \in {"*", "offline"} |->
                  IF pat = "*" THEN Kinds ELSE {"offline"}]

ASSUME ClientsCanLag == 2 * MaxRefreshes > Capacity
=============================================================================
