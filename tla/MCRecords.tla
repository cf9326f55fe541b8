------------------------------- MODULE MCRecords -------------------------------
(* What the panel keeps on file, one scene a behaviour: a key that three     *)
(* requests try to redeem at once, the router inventory with the guests it   *)
(* attributes, the operators' account, the DEVICES page.  The other scenes   *)
(* are at rest.                                                              *)
EXTENDS VoucherLedger, RouterInventory, OperatorAccounts, DeviceInventory, TLC

CONSTANTS key, batch

VARIABLE scene

Scenes == {"keys", "inventory", "account", "devices"}

RecordsInit ==
    /\ scene \in Scenes
    /\ LedgerInit /\ InventoryInit /\ AccountsInit /\ DevicesInit
    /\ scene # "inventory" => Registered = {}

RecordsNext ==
    /\ UNCHANGED scene
    /\ \/ /\ scene = "keys" /\ LedgerNext
          /\ UNCHANGED <<inventoryVars, accountVars, deviceVars>>
       \/ /\ scene = "inventory" /\ InventoryNext
          /\ UNCHANGED <<ledgerVars, accountVars, deviceVars>>
       \/ /\ scene = "account" /\ AccountsNext
          /\ UNCHANGED <<ledgerVars, inventoryVars, deviceVars>>
       \/ /\ scene = "devices" /\ DevicesNext
          /\ UNCHANGED <<ledgerVars, inventoryVars, accountVars>>

RecordsVars == <<scene, ledgerVars, inventoryVars, accountVars, deviceVars>>

RecordsSpec == RecordsInit /\ [][RecordsNext]_RecordsVars

(* Keys: commits to other rows are those to any other table. *)
MCBatchOf == key :> batch

(* Single use without a window, and two uses inside two hours. *)
MCOffers == {[maxUses |-> 1, duration |-> 0], [maxUses |-> 2, duration |-> 2]}

(* Inventory: one of the routers has a hotspot name, and keeps its address. *)
InventoryBound == routers[1].host # "h2" /\ routers[2].tag = NoTag
=============================================================================
