----------------------------- MODULE MCChapters -----------------------------
(* Chapters 1 and 2 in one exploration: the single-user machines, the cash, the
   ledger and the chains have nothing in common, so that a behaviour is one of any of
   them, beside which the others stay as they are. *)
EXTENDS MCMachines, MCDigitalCash, MCCurrencyLedger, MCChains

VARIABLE running

\* A state of each that it may start in, for when it is not the one that runs.
MachineAside == machine = "LightSwitch" /\ from_state = FALSE /\ state = from_state /\ log = <<>>
CashAside    == bills = {} /\ next_serial = 0 /\ issued = {} /\ cash_minted = 0
ChainAside   == /\ lesson = "header_chain" /\ start = Unit
                /\ chain = <<GenesisOf(lesson, start)>> /\ changes = 0

ChaptersInit ==
    /\ running \in {"machine", "cash", "ledger", "chain"}
    /\ IF running = "machine" THEN MachineInit ELSE MachineAside
    /\ IF running = "cash" THEN CashInit ELSE CashAside
    /\ LedgerInit
    /\ IF running = "chain" THEN ChainsInit ELSE ChainAside

ChaptersNext ==
    \/ /\ running = "machine" /\ MachineNext
       /\ UNCHANGED <<running, cashVars, ledgerVars, chainsVars>>
    \/ /\ running = "cash" /\ CashNext
       /\ UNCHANGED <<running, machineVars, ledgerVars, chainsVars>>
    \/ /\ running = "ledger" /\ LedgerNext
       /\ UNCHANGED <<running, machineVars, cashVars, chainsVars>>
    \/ /\ running = "chain" /\ ChainsNext
       /\ UNCHANGED <<running, machineVars, cashVars, ledgerVars>>

chaptersVars == <<running, machineVars, cashVars, ledgerVars, chainsVars>>

ChaptersSpec == ChaptersInit /\ [][ChaptersNext]_chaptersVars
=============================================================================
