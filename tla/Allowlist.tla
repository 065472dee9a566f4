------------------------------- MODULE Allowlist -------------------------------
(***************************************************************************)
(* The contracts a workspace lets its treasuries call, each pinned to the  *)
(* code it ran when it was allowed (ledger/store/contract.go,              *)
(* api/invoke.go).  The code behind an address can be replaced at any      *)
(* moment, by people who have nothing to do with the workspace.            *)
(***************************************************************************)
EXTENDS Integers, Sequences

CONSTANTS
    Orgs,           \* workspaces
    Callees,        \* third-party contracts
    Codes,          \* the code they may run, in the order it replaces one another
    ContractCalls,  \* the deployment's switch; needs a Soroban RPC too
    None

VARIABLES
    allowed,   \* table allowed_contracts: the pin, or None
    code,      \* the network: what each contract runs
    reviewed   \* history: every code a workspace has pinned

pins == <<allowed, code, reviewed>>

ASSUME AllowlistAssumption ==
    /\ Codes \subseteq Nat
    /\ ContractCalls \in BOOLEAN
    /\ None \notin Codes /\ None \notin Orgs

(* An argument is type:value; a value is stood for by the types it reads as,   *)
(* "i128" among them only if it is whole and fits.                             *)
ParseContractArgs(words) ==
    \A i \in DOMAIN words : words[i].kind \in words[i].reads

(* AllowedContractByLabel, AllowedContractByAddress: the live row, if any. *)
allowedWhere(org, c) == {p \in Codes : allowed[org][c] = p}

(* AllowContract inserts; the live label and address are unique. *)
AllowContract(org, c, pin) ==
    /\ allowed[org][c] = None
    /\ allowed' = [allowed EXCEPT ![org][c] = pin]
    /\ reviewed' = [reviewed EXCEPT ![org][c] = @ \cup {pin}]
    /\ UNCHANGED code

DisallowContract(org, c) ==
    /\ allowed[org][c] # None
    /\ allowed' = [allowed EXCEPT ![org][c] = None]
    /\ UNCHANGED <<reviewed, code>>

ContractExecutable(c) == code[c]

\* Mutant: an allowed address is enough.
checkPinned_Address(c, pin) == TRUE

checkPinned(c, pin) == ContractExecutable(c) = pin

(* The contract is upgraded. *)
Replace(c, new) ==
    /\ new > code[c]
    /\ code' = [code EXCEPT ![c] = new]
    /\ UNCHANGED <<allowed, reviewed>>

AllowlistInit ==
    /\ allowed = [org \in Orgs |-> [c \in Callees |-> None]]
    /\ reviewed = [org \in Orgs |-> [c \in Callees |-> {}]]
    /\ code \in [Callees -> {n \in Codes : \A o \in Codes : n <= o}]

AllowlistTypeOK ==
    /\ allowed \in [Orgs -> [Callees -> Codes \cup {None}]]
    /\ reviewed \in [Orgs -> [Callees -> SUBSET Codes]]
    /\ code \in [Callees -> Codes]
================================================================================
