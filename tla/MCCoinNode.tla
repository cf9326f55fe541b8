------------------------------ MODULE MCCoinNode ------------------------------
(* One acceptor crediting one client.                                       *)
EXTENDS CoinNode, TLC

CONSTANTS box, client

MCClientOf == box :> client

(* The board's event ids are all the ids there are. *)
MCEvents == {box} \X Nat
=============================================================================
