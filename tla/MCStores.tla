------------------------------- MODULE MCStores -------------------------------
(* Three stores of the database, one scene a behaviour: the coin tally of    *)
(* one client, the tariff of three tiers, the session history of two phones  *)
(* that share a user name.  Fairness is asked of the scene that plays.       *)
EXTENDS CoinLedger, CoinTariff, SessionHistory

VARIABLE scene

storesVars == <<scene, ledgerVars, tiers, historyVars>>

StoresInit ==
    /\ scene \in {"tally", "tariff", "history"}
    /\ LedgerInit /\ TariffInit /\ HistoryInit
    /\ scene # "tally" => idle = 0
    /\ scene # "history" => hasIds

StoresNext ==
    /\ UNCHANGED scene
    /\ \/ scene = "tally" /\ LedgerNext /\ UNCHANGED <<tiers, historyVars>>
       \/ scene = "tariff" /\ TariffNext /\ UNCHANGED <<ledgerVars, historyVars>>
       \/ scene = "history" /\ HistoryNext /\ UNCHANGED <<ledgerVars, tiers>>

StoresSpec ==
    /\ StoresInit /\ [][StoresNext]_storesVars
    /\ scene = "tally" => LedgerFairness

(* A zero-pulse report, an ordinary one and one above the per-report cap.  *)
MCReports == {[pulses |-> 0, secs |-> 0], [pulses |-> 1, secs |-> 1],
              [pulses |-> 1, secs |-> 3]}

(* Three sets of terms that are accepted, and three that are not. *)
MCTerms == {<<500, 0, 0, 1>>, <<2000, 0, 0, 5>>, <<2000, 0, 0, 1>>,
            <<500, 0, 0, 0>>, <<500, 0, 24, 0>>, <<100001, 0, 0, 1>>}
=============================================================================
