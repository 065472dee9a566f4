----------------------------- MODULE MCDaoTreasury -----------------------------
(* Small instances of DaoTreasury for TLC. *)
EXTENDS DaoTreasury

CONSTANTS ann, bob, cid, r, tok

MCAccounts == {ann, bob, cid}
MCRecipients == {r}
MCTokens == {tok}
None == {}

Rule(q, ap, period, lock, limit) ==
    [quorum_bps |-> q, approval_bps |-> ap, voting_period |-> period, timelock |-> lock,
     spend_limit |-> limit, spend_window |-> IF limit = 0 THEN 0 ELSE 3]
Simple == Rule(5000, 5001, 2, 1, 0)
Strict == Rule(10000, 6700, 2, 0, 0)
Loose  == Rule(1, 5001, 2, 2, 2)
Quick  == Rule(5000, 5001, 1, 1, 0)

Pay1 == [kind |-> "Pay", token |-> tok, to |-> r, amount |-> 1]
Set(m, w) == [kind |-> "SetMember", address |-> m, weight |-> w]
Allow == [kind |-> "AllowRecipient", to |-> r]
Deny == [kind |-> "DenyRecipient", to |-> r]
Stop == [kind |-> "Revoke", target |-> 1]
Change(p) == [kind |-> "SetPolicy", policy |-> p]

Weigh(x, y, z) == [m \in MCAccounts |-> IF m = ann THEN x ELSE IF m = bob THEN y ELSE z]

\* Changing who decides and how, while votes run: weights that meet u32 saturation.
VoteActions == {Set(ann, 0), Set(cid, 3)}
VoteFoundings == {Weigh(1, 1, 1), Weigh(3, 2, 0), Weigh(1, 0, 0)}
VotePolicies == {Quick}

\* Paying and stopping a payment.
StopActions == {Pay1, Deny, Stop, Change(Strict)}
StopFoundings == {Weigh(2, 1, 0)}
StopPolicies == {Simple}

\* Spending under the limit.
SpendActions == {Deny, Allow}
SpendFoundings == {Weigh(1, 0, 0)}
SpendPolicies == {Loose}
================================================================================
