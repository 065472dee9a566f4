-------------------------------- MODULE MCCalls --------------------------------
(***************************************************************************)
(* Two members and one contract: not there yet, or with a payment that has *)
(* been voted on and closed.                                               *)
(***************************************************************************)
EXTENDS Calls, TLC

CONSTANTS m1, m2

MCRole == [m \in Members |-> IF m = m1 THEN 4 ELSE 1]
MCWallet == Members
MCPurses == [m \in Members |-> IF m = m2 THEN 1 ELSE 0]
Symmetry == Permutations(Requests)

Founded ==
    [made |-> TRUE, voters |-> Members, allowed |-> TRUE, timelock |-> 0, funds |-> 1,
     life |-> 4, proposals |-> <<>>]
Unmade == [Founded EXCEPT !.made = FALSE, !.voters = {}, !.funds = 0, !.life = 1]

\* A payment one member voted for.
Pending(a, status, yes) ==
    [action |-> a, proposer |-> m1, memo |-> NoNote, yes |-> yes, no |-> {}, closes |-> 0,
     status |-> status, executable |-> 0]
Removal == [NoAction EXCEPT !.kind = "SetMember", !.who = m2]
Voted == [Founded EXCEPT !.proposals = <<Pending(NoAction, "Open", {m1})>>]

MCHistories == {Unmade, Voted}
MCActions ==
    {NoAction, Removal, [NoAction EXCEPT !.kind = "Revoke", !.target = 1],
     [NoAction EXCEPT !.kind = "SetPolicy", !.wait = 1]}
================================================================================
