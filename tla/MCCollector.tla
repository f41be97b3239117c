---------------------------- MODULE MCCollector -----------------------------
(* The instance of Collector that TLC checks: two keys, one subscriber.    *)
EXTENDS Collector

=============================================================================
