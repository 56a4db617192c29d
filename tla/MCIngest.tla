------------------------------ MODULE MCIngest -------------------------------
(***************************************************************************)
(* An instance of Ingest for TLC: one car, which both sources report.      *)
(***************************************************************************)
EXTENDS Ingest, TLC

CONSTANTS odometer, soc0, refresh, metrics, mayPrice, junePrice, May, June, garage, telemetry, r1

\* soc0 is the state of charge while the car is unreachable.
Slugs1 == [e \in Event |->
    CASE e = odometer -> "odometer" [] e = soc0 -> "soc" [] e = refresh -> "lastrefresh"
      [] e = metrics -> "metrics" [] e \in {mayPrice, junePrice} -> "gas"]

MonthOf1 == [e \in Event |-> IF e = mayPrice THEN May ELSE June]

\* The two months may change places, together with their prices.
Twins ==
    {f \in Permutations({May, June, mayPrice, junePrice}) :
        /\ {f[May], f[June]} = {May, June}
        /\ f[May] = May <=> f[mayPrice] = mayPrice}
=============================================================================
