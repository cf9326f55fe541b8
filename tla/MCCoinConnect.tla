----------------------------- MODULE MCCoinConnect -----------------------------
(* Small instances of CoinConnect: one phone, known by its lease and by its *)
(* hardware address, and two requests at a time.                            *)
EXTENDS CoinConnect, TLC

CONSTANTS ip1, m1

MCClients == {[ip |-> ip1, mac |-> m1]}

(* Three seconds with a two-second minute: a remainder is left to round.    *)
MCReports == {[pulses |-> 1, secs |-> 3]}
TapSymmetry == Permutations(Taps)
=============================================================================
