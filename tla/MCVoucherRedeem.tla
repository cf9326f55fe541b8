---------------------------- MODULE MCVoucherRedeem ----------------------------
(* One key, two devices that want it and two operators' clicks.             *)
EXTENDS VoucherRedeem, TLC

CONSTANTS key, batch

MCBatchOf == key :> batch

(* A single-use key and one for two uses, inside an hour.                   *)
MCOffers == {[maxUses |-> 1, duration |-> 1], [maxUses |-> 2, duration |-> 1]}

(* Bound: clicks overlap on the single-use key only.                        *)
ClicksBound ==
    vouchers[key].maxUses > 1 => Cardinality({c \in Clicks : operator[c] # Resting}) <= 1

Symmetry == Permutations(Requests) \cup Permutations(Clicks)
=============================================================================
