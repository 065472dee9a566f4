------------------------------ MODULE MCIngestion ------------------------------
(* Small instances of Ingestion for TLC. *)
EXTENDS Ingestion

CONSTANTS
    none, acme, zeta, xlm, usd,
    vault, safe, wallet, other,             \* addresses: contract, treasury, member, stranger
    vaultAcc, safeAcc, walletAcc, ext1, ext2

MCAddresses == {vault, safe, wallet, other}
MCAccounts == {vaultAcc, safeAcc, walletAcc, ext1, ext2}
MCHome == [x \in {vault, safe} |-> IF x = vault THEN vaultAcc ELSE safeAcc]
MCExternal == [org \in {acme, zeta} |-> IF org = acme THEN ext1 ELSE ext2]
MCLinks == {<<wallet, walletAcc>>}

\* The wallet belongs to the other workspace.
Apart == [acc \in MCAccounts |-> IF acc \in {walletAcc, ext2} THEN zeta ELSE acme]

MCInitial ==
    [x \in MCAddresses |->
       [asset \in {xlm, usd} |-> IF x = safe /\ asset = xlm THEN 2 ELSE 0]]

Do(stream, kind, from, to, asset, amount) ==
    [stream |-> stream, kind |-> kind, ok |-> TRUE, from |-> from, to |-> to, asset |-> asset,
     amount |-> amount, sent |-> asset, sentAmount |-> amount, readable |-> TRUE]
Classic(kind, from, to, asset, amount) == Do("operations", kind, from, to, asset, amount)
Contract(from, to, asset, amount) == Do("transfers", "transfer", from, to, asset, amount)
Path(from, sent, sentAmount, to, asset, amount) ==
    [Classic("path_payment", from, to, asset, amount) EXCEPT
       !.sent = sent, !.sentAmount = sentAmount]
Failed(op) == [op EXCEPT !.ok = FALSE]
Unreadable(op) == [op EXCEPT !.readable = FALSE, !.amount = 0]

\* Every kind of record; each address moves in one stream only.
BooksHistories == {
    <<Classic("create_account", other, wallet, xlm, 2),
      Contract(other, vault, usd, 1),
      Classic("payment", wallet, safe, xlm, 2),
      Contract(vault, other, usd, 1),
      Path(safe, xlm, 3, safe, usd, 2),
      Classic("account_merge", wallet, other, xlm, 0)>>,
    <<Classic("create_account", safe, wallet, xlm, 2),
      Unreadable(Contract(other, other, usd, 1)),
      Classic("other", safe, wallet, xlm, 1),
      Contract(other, vault, usd, 0),
      Failed(Classic("payment", safe, other, xlm, 1)),
      Contract(vault, vault, usd, 0),
      Classic("payment", wallet, other, xlm, 2)>>,
    <<Contract(other, vault, usd, 2),
      Classic("create_account", safe, wallet, xlm, 0),
      Unreadable(Contract(vault, other, usd, 1)),
      Classic("payment", safe, wallet, xlm, 1)>> }

(* What the theorem on NothingInvented asks of the tables and of what happened. *)
ASSUME TellAllOnce == OwnAccounts /\ \A h \in Histories : Solvent(h) /\ OneStream(h)
================================================================================
