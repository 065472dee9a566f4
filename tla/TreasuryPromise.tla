---------------------------- MODULE TreasuryPromise ----------------------------
(***************************************************************************)
(* What dao-treasury promises its members: nobody stands above them.  The  *)
(* rules change, and money leaves, only when one proposal is carried out;  *)
(* except that a spend within the limit the rules set moves money and      *)
(* nothing else.  How a proposal comes to be decided is left open.         *)
(***************************************************************************)
EXTENDS Integers

CONSTANTS Ids, Tokens

VARIABLES
    standing,  \* each proposal's status; "Unborn" before it is made
    rules,     \* policy, members and weights, who may be paid
    limit,     \* the part of the rules that allows a spend
    funds      \* what is held of each token

promise == <<standing, rules, limit, funds>>

Live == {"Open", "Passed"}

Init ==
    /\ standing = [id \in Ids |-> "Unborn"]
    /\ funds = [t \in Tokens |-> 0]

(* One token's holding falls, by at least 1 and at most n. *)
Pays(n) ==
    \E t \in Tokens :
        /\ funds'[t] < funds[t] /\ funds[t] - funds'[t] <= n /\ funds'[t] >= 0
        /\ funds' = [funds EXCEPT ![t] = funds'[t]]

(* A proposal is made, decided or withdrawn, which by itself does nothing. *)
Deliberate(id) ==
    /\ \/ standing[id] = "Unborn" /\ standing' = [standing EXCEPT ![id] = "Open"]
       \/ /\ standing[id] = "Open"
          /\ \E s \in {"Passed", "Rejected", "Cancelled"} :
                standing' = [standing EXCEPT ![id] = s]
    /\ UNCHANGED <<rules, limit, funds>>

(* A live proposal does its one thing: pay, change the rules, or stop another. *)
CarryOut(id) ==
    /\ standing[id] \in Live
    /\ \/ /\ standing' = [standing EXCEPT ![id] = "Executed"]
          /\ \/ UNCHANGED <<rules, limit>> /\ \E t \in Tokens : Pays(funds[t])
             \/ UNCHANGED funds
       \/ \E other \in Ids \ {id} :
             /\ standing[other] \in Live
             /\ standing' = [standing EXCEPT ![id] = "Executed", ![other] = "Cancelled"]
             /\ UNCHANGED <<rules, limit, funds>>

SpendWithinLimit == Pays(limit) /\ UNCHANGED <<standing, rules, limit>>

Receive ==
    /\ \E t \in Tokens : /\ funds'[t] > funds[t]
                         /\ funds' = [funds EXCEPT ![t] = funds'[t]]
    /\ UNCHANGED <<standing, rules, limit>>

Next ==
    \/ \E id \in Ids : Deliberate(id) \/ CarryOut(id)
    \/ SpendWithinLimit
    \/ Receive

Spec == Init /\ [][Next]_promise
================================================================================
