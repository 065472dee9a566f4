------------------------------ MODULE MCProposals ------------------------------
(* Small instances of Proposals for TLC. *)
EXTENDS Proposals, TLC

CONSTANTS ann, bob, mia, adm, acme, t1, t2, t3, v1, q1, q2, c1, usd, none, xlm

Weigh(x, y) == [k \in {ann, bob} |-> IF k = ann THEN x ELSE y]
Both == [weight |-> Weigh(1, 1), medium |-> 2]
Alone == [weight |-> Weigh(1, 0), medium |-> 1]

\* One treasury, requests racing to sign, execute and withdraw.
RaceTreasuries == {t1}
RaceOrg == [t \in RaceTreasuries |-> acme]
NoVaults == {}
RaceHandovers == {{ann, bob}}
OneHand == {{ann}}
RaceSets == {Both, Alone}
Rotated == [weight |-> Weigh(0, 1), medium |-> 1]
Turns == {Alone, Rotated}
Unlimited == [o \in {acme} |-> [PerPayment |-> 0, Daily |-> 0]]
Either == Permutations({q1, q2})
AtAcme == [x \in {mia, adm} |-> acme]
Roles == [x \in {mia, adm} |-> IF x = adm THEN "admin" ELSE "observer"]

\* What may be asked for, and what the network may say of what it is asked of.
USD == [code |-> "USDC", issuer |-> usd]
XLM == [form |-> "native"]
USDC == [form |-> "code", code |-> "USDC"]
Full == [form |-> "full", asset |-> USD]
Trustline(balance) == [balance |-> balance, limit |-> 9, selling |-> 0, authorized |-> TRUE]
Holder(native, lines) ==
    [exists |-> TRUE, isIssuer |-> FALSE, native |-> native, selling |-> 1, owns |-> 1,
     sponsoring |-> 0, sponsored |-> 0, lines |-> lines]
Bare == Holder(6, [x \in {} |-> 0])
Held(balance) == Holder(9, [x \in {USD} |-> Trustline(balance)])
Accounts == {Bare, Held(0), Held(4)}
Books == {{}, {3}, {2, 4}}
SwapOut == [kind |-> "dex", amount |-> 2, from |-> USDC, to |-> XLM, minimum |-> 0, slippage |-> 3000]
Invoke == [kind |-> "invoke", callee |-> c1, args |-> <<[kind |-> "i128", reads |-> {"i128", "string"}]>>]
Restore == [kind |-> "restore", callee |-> c1, args |-> <<>>]
Payment == [kind |-> "payment", amount |-> 2, asset |-> none]
TrustUSD == [kind |-> "trustline", open |-> TRUE, text |-> Full]
UntrustUSD == [kind |-> "trustline", open |-> FALSE, text |-> USDC]
RaceAsks == {SwapOut, TrustUSD, UntrustUSD}
CallAsks == {Invoke, Restore}
LimitAsks == {Payment}

\* Several treasuries, requests racing to propose.
ManyTreasuries == {t1, t2, t3}
ManyOrg == [t \in ManyTreasuries \cup {v1} |-> acme]
Limited == [o \in {acme} |-> [PerPayment |-> 2, Daily |-> 2]]
NoHandovers == {}
Sole == {Alone}
================================================================================
