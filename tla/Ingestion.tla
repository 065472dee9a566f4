------------------------------- MODULE Ingestion -------------------------------
(***************************************************************************)
(* The books: what the network did, read from its streams by one worker    *)
(* each (ingestion/), translated, and posted to the double-entry ledger of *)
(* every workspace it touches (ledger/ledger.go, ledger/store/account.go). *)
(*                                                                         *)
(* The history has happened; the workers are behind it.  A step of one is  *)
(* one database statement or transaction, and the process may stop between *)
(* any two.  Meanwhile members link wallets and hand accounts back.        *)
(***************************************************************************)
EXTENDS Integers, Sequences, FiniteSets, FiniteSetsExt

CONSTANTS
    Orgs,        \* workspaces
    Accounts,    \* rows of ledger_accounts
    OrgOf,       \* the workspace each account belongs to
    External,    \* the counterparty account of each workspace
    Addresses,   \* addresses on the network
    Nobody,      \* no address, no account
    Home,        \* the account of every address watched from the start and never closed
    Links,       \* <<address, account>>: wallets members may link or be given
    Assets,
    Streams,     \* "operations" (Horizon) and "transfers" (Soroban RPC)
    Initial,     \* what each address held before the history, by asset
    Histories,   \* what may have happened: sequences of Op, oldest first
    PageSize,    \* records fetched at once
    MaxCrashes   \* bound: times the process stops half way

VARIABLES
    history,  \* what happened
    tracked,  \* table tracked_addresses: the account of each address, or Nobody
    books,    \* tables ledger_transactions and ledger_entries
    cursor,   \* table ingestion_cursors: the last record done, 0 for no row
    worker,   \* Ingester.Run, one per stream
    oldest,   \* the oldest record the RPC still has
    crashes

vars == <<history, tracked, books, cursor, worker, oldest, crashes>>

OpKind == {"payment", "create_account", "path_payment", "account_merge", "transfer", "other"}
Op ==
    [stream: Streams, kind: OpKind, ok: BOOLEAN, from: Addresses, to: Addresses,
     asset: Assets, amount: Nat, sent: Assets, sentAmount: Nat, readable: BOOLEAN]

Movement ==
    [from: Addresses \cup {Nobody}, to: Addresses \cup {Nobody},
     asset: Assets, amount: Nat, readable: BOOLEAN]
Key == [record: Nat, movement: Nat, opening: Nat]
Transaction ==
    [org: Orgs, key: Key, kind: {"send", "withdrawal", "deposit", "opening"},
     debit: Accounts, credit: Accounts, asset: Assets, amount: Nat]

--------------------------------------------------------------------------------
(* What a record of a stream says happened. *)

Move(from, to, asset, amount, readable) ==
    [from |-> from, to |-> to, asset |-> asset, amount |-> amount, readable |-> readable]

\* One operation or event as value going from somewhere to somewhere.
Movements(op) ==
    IF ~op.ok THEN <<>>
    ELSE CASE op.kind \in {"account_merge", "other"} -> <<>>
           [] op.kind = "payment" -> <<Move(op.from, op.to, op.asset, op.amount, TRUE)>>
           [] op.kind = "create_account" ->
                IF op.amount > 0 THEN <<Move(op.from, op.to, op.asset, op.amount, TRUE)>> ELSE <<>>
           [] op.kind = "path_payment" ->
                <<Move(op.from, Nobody, op.sent, op.sentAmount, TRUE),
                  Move(Nobody, op.to, op.asset, op.amount, TRUE)>>
           [] op.kind = "transfer" ->
                IF op.amount > 0 \/ ~op.readable
                THEN <<Move(op.from, op.to, op.asset, op.amount, op.readable)>> ELSE <<>>

\* The account a merge deleted.
Closed(op) == IF op.ok /\ op.kind = "account_merge" THEN op.from ELSE Nobody

ASSUME IngestionAssumption ==
    /\ OrgOf \in [Accounts -> Orgs] /\ External \in [Orgs -> Accounts]
    /\ Nobody \notin Accounts \cup Addresses
    /\ DOMAIN Home \subseteq Addresses /\ \A x \in DOMAIN Home : Home[x] \in Accounts
    /\ Links \subseteq (Addresses \ DOMAIN Home) \X Accounts
    /\ Initial \in [Addresses -> [Assets -> Nat]]
    /\ Histories \subseteq Seq(Op)
    /\ \A h \in Histories : \A i \in DOMAIN h : Closed(h[i]) \notin DOMAIN Home
    /\ PageSize \in Nat \ {0} /\ MaxCrashes \in Nat

--------------------------------------------------------------------------------
(* The ledger. *)

\* What the trigger keeps in ledger_balances.
Balance(account, asset) ==
    LET lines == {b \in books : b.asset = asset}
    IN  MapThenSumSet(LAMBDA b : b.amount, {b \in lines : b.credit = account})
          - MapThenSumSet(LAMBDA b : b.amount, {b \in lines : b.debit = account})

AllowsNegative(account) == \E org \in Orgs : External[org] = account

\* What Post answers: the key decides first, then the balances, then the commit's own checks.
Outcome(tx) ==
    CASE \E b \in books : b.org = tx.org /\ b.key = tx.key ->
           IF tx \in books THEN "replay" ELSE "reused"
      [] OTHER ->
           IF ~AllowsNegative(tx.debit) /\ Balance(tx.debit, tx.asset) < tx.amount THEN "short"
           ELSE IF {OrgOf[tx.debit], OrgOf[tx.credit]} # {tx.org} THEN "cross" ELSE "new"

\* What one movement is in the books of every workspace it touches.
Entry(key, kind, debit, credit, move) ==
    [org |-> OrgOf[IF kind = "deposit" THEN credit ELSE debit], key |-> key, kind |-> kind,
     debit |-> debit, credit |-> credit, asset |-> move.asset, amount |-> move.amount]
entriesFor(key, from, to, move) ==
    IF from # Nobody /\ to # Nobody /\ OrgOf[from] = OrgOf[to]
    THEN <<Entry(key, "send", from, to, move)>>
    ELSE (IF from = Nobody THEN <<>>
          ELSE <<Entry(key, "withdrawal", from, External[OrgOf[from]], move)>>)
         \o (IF to = Nobody THEN <<>>
             ELSE <<Entry(key, "deposit", External[OrgOf[to]], to, move)>>)

\* Mutant: the legs of a path payment share a key.
KeyOf_RecordOnly(i, op, n) == [record |-> i, opening |-> 0, movement |-> 0]

\* One movement is keyed by its record; several by their place in it as well.
KeyOf(i, op, n) ==
    [record |-> i, opening |-> 0,
     movement |-> IF Len(Movements(op)) > 1 THEN n ELSE 0]

--------------------------------------------------------------------------------
(* Reading a stream. *)

Whose(address) == IF address = Nobody THEN Nobody ELSE tracked[address]

Idle == [pc |-> "idle"]
At == [record: Nat, rest: SUBSET Nat, n: Nat]  \* a record, those fetched with it, a movement
Worker ==
    [pc: {"idle"}]
    \cup [pc: {"from", "close", "save"}, at: At]
    \cup [pc: {"to"}, at: At, from: Accounts \cup {Nobody}]
    \cup [pc: {"post", "open", "again"}, at: At, todo: Seq(Transaction)]
    \cup [pc: {"opening"}, at: At, todo: Seq(Transaction), short: Nat]
    \cup [pc: {"release"}, at: At, org: Orgs]

To(s, next) == worker' = [worker EXCEPT ![s] = next]
Reach(s, at) ==
    To(s, [pc |-> IF at.n <= Len(Movements(history[at.record])) THEN "from" ELSE "close",
           at |-> at])
NextMovement(s) == Reach(s, [worker[s].at EXCEPT !.n = @ + 1])
NextRecord(s, page) ==
    \E i \in page :
      /\ \A j \in page : i <= j
      /\ Reach(s, [record |-> i, rest |-> page \ {i}, n |-> 1])
Posting(s, todo) ==
    IF todo = <<>> THEN NextMovement(s)
    ELSE To(s, [pc |-> "post", at |-> worker[s].at, todo |-> todo])

\* Mutant: reads on past a hole.
checkRetention_Skips(s) == TRUE

\* An RPC that no longer reaches back to the cursor is not read at all, and
\* neither is one whose history begins after the configured start.
checkRetention(s) == s = "transfers" => oldest <= IF cursor[s] = 0 THEN 1 ELSE cursor[s]

\* What the endpoint has after the cursor.
Available(s) ==
    {i \in DOMAIN history :
       history[i].stream = s /\ i > cursor[s] /\ (s = "transfers" => i >= oldest)}

\* One page, oldest first and without gaps.
Once(s) ==
    /\ worker[s].pc = "idle"
    /\ checkRetention(s)
    /\ \E page \in SUBSET Available(s) :
         /\ Cardinality(page) <= PageSize
         /\ \A i \in page, j \in Available(s) : j < i => j \in page
         /\ NextRecord(s, page)
    /\ UNCHANGED <<history, tracked, books, cursor, oldest, crashes>>

This(s) == history[worker[s].at.record]
ThisMove(s) == Movements(This(s))[worker[s].at.n]

\* applyMovement asks whose the sender is, then whose the receiver is.
LookUpFrom(s) ==
    /\ worker[s].pc = "from"
    /\ To(s, [pc |-> "to", at |-> worker[s].at, from |-> Whose(ThisMove(s).from)])
    /\ UNCHANGED <<history, tracked, books, cursor, oldest, crashes>>

applyMovement(s) ==
    LET w == worker[s]
        to == Whose(ThisMove(s).to)
    IN  /\ w.pc = "to"
        /\ CASE w.from = Nobody /\ to = Nobody -> NextMovement(s)
             [] OTHER ->
                  IF ThisMove(s).readable /\ ThisMove(s).amount > 0
                  THEN Posting(s, entriesFor(KeyOf(w.at.record, This(s), w.at.n), w.from, to, ThisMove(s)))
                  ELSE To(s, Idle)
        /\ UNCHANGED <<history, tracked, books, cursor, oldest, crashes>>

Post(s) ==
    LET w == worker[s]
        tx == Head(w.todo)
    IN  /\ w.pc = "post"
        /\ CASE Outcome(tx) = "new" -> books' = books \cup {tx} /\ Posting(s, Tail(w.todo))
             [] Outcome(tx) = "replay" -> UNCHANGED books /\ Posting(s, Tail(w.todo))
             [] Outcome(tx) = "short" ->
                  UNCHANGED books /\ To(s, [pc |-> "open", at |-> w.at, todo |-> w.todo])
             [] OTHER -> UNCHANGED books /\ To(s, Idle)
        /\ UNCHANGED <<history, tracked, cursor, oldest, crashes>>

\* Mutant: books the whole payment, not what is missing.
open_Whole(s) ==
    LET w == worker[s]
    IN  /\ w.pc = "open"
        /\ To(s, [pc |-> "opening", at |-> w.at, todo |-> w.todo, short |-> Head(w.todo).amount])
        /\ UNCHANGED <<history, tracked, books, cursor, oldest, crashes>>

\* The account paid what these books never saw arrive: read how much is missing.
open(s) ==
    LET w == worker[s]
        tx == Head(w.todo)
        short == tx.amount - Balance(tx.debit, tx.asset)
    IN  /\ w.pc = "open"
        /\ To(s, IF short <= 0 THEN [pc |-> "again", at |-> w.at, todo |-> w.todo]
                 ELSE [pc |-> "opening", at |-> w.at, todo |-> w.todo, short |-> short])
        /\ UNCHANGED <<history, tracked, books, cursor, oldest, crashes>>

\* Book it from outside, under a key that names the amount.
PostOpening(s) ==
    LET w == worker[s]
        tx == Head(w.todo)
        opening == [tx EXCEPT !.kind = "opening", !.debit = External[tx.org],
                              !.credit = tx.debit, !.amount = w.short,
                              !.key = [@ EXCEPT !.opening = w.short]]
    IN  /\ w.pc = "opening"
        /\ IF Outcome(opening) \in {"new", "replay"}
           THEN /\ books' = books \cup {opening}
                /\ To(s, [pc |-> "again", at |-> w.at, todo |-> w.todo])
           ELSE UNCHANGED books /\ To(s, Idle)
        /\ UNCHANGED <<history, tracked, cursor, oldest, crashes>>

PostAgain(s) ==
    LET w == worker[s]
        tx == Head(w.todo)
    IN  /\ w.pc = "again"
        /\ IF Outcome(tx) \in {"new", "replay"}
           THEN books' = books \cup {tx} /\ Posting(s, Tail(w.todo))
           ELSE UNCHANGED books /\ To(s, Idle)
        /\ UNCHANGED <<history, tracked, cursor, oldest, crashes>>

\* A merged account is forgotten, if it was one of ours.
applyClose(s) ==
    LET w == worker[s]
        account == Whose(Closed(This(s)))
    IN  /\ w.pc = "close"
        /\ To(s, IF account = Nobody THEN [pc |-> "save", at |-> w.at]
                 ELSE [pc |-> "release", at |-> w.at, org |-> OrgOf[account]])
        /\ UNCHANGED <<history, tracked, books, cursor, oldest, crashes>>

Released(org, address) ==
    IF tracked[address] # Nobody /\ OrgOf[tracked[address]] = org
    THEN [tracked EXCEPT ![address] = Nobody] ELSE tracked
ReleaseClosed(s) ==
    LET w == worker[s]
    IN  /\ w.pc = "release"
        /\ tracked' = Released(w.org, Closed(This(s)))
        /\ To(s, [pc |-> "save", at |-> w.at])
        /\ UNCHANGED <<history, books, cursor, oldest, crashes>>

\* Mutant: saves where the next record would be.
saveCursor_Next(s) ==
    LET w == worker[s]
    IN  /\ w.pc = "save"
        /\ cursor' = [cursor EXCEPT ![s] = w.at.record + 1]
        /\ IF w.at.rest = {} THEN To(s, Idle) ELSE NextRecord(s, w.at.rest)
        /\ UNCHANGED <<history, tracked, books, oldest, crashes>>

\* The cursor moves only after everything the record meant is committed.
saveCursor(s) ==
    LET w == worker[s]
    IN  /\ w.pc = "save"
        /\ cursor' = [cursor EXCEPT ![s] = w.at.record]
        /\ IF w.at.rest = {} THEN To(s, Idle) ELSE NextRecord(s, w.at.rest)
        /\ UNCHANGED <<history, tracked, books, oldest, crashes>>

--------------------------------------------------------------------------------
(* Everything else. *)

\* The process stops, or a statement fails: Run starts again from the cursor.
Crash(s) ==
    /\ worker[s].pc # "idle" /\ crashes < MaxCrashes
    /\ crashes' = crashes + 1
    /\ To(s, Idle)
    /\ UNCHANGED <<history, tracked, books, cursor, oldest>>

\* A member links a wallet, or is given one: the first workspace to track it keeps it.
TrackAddress(x, account) ==
    /\ <<x, account>> \in Links
    /\ tracked[x] = Nobody
    /\ tracked' = [tracked EXCEPT ![x] = account]
    /\ UNCHANGED <<history, books, cursor, worker, oldest, crashes>>

\* A member hands a provisioned account back: the merge landed, the address goes.
ReleaseAddress(x, account) ==
    /\ <<x, account>> \in Links
    /\ \E i \in DOMAIN history : Closed(history[i]) = x
    /\ tracked[x] = account
    /\ tracked' = Released(OrgOf[account], x)
    /\ UNCHANGED <<history, books, cursor, worker, oldest, crashes>>

\* The RPC drops its oldest events.
Forget ==
    /\ oldest < Len(history)
    /\ oldest' = oldest + 1
    /\ UNCHANGED <<history, tracked, books, cursor, worker, crashes>>

Init ==
    /\ history \in Histories
    /\ tracked = [x \in Addresses |-> IF x \in DOMAIN Home THEN Home[x] ELSE Nobody]
    /\ books = {}
    /\ cursor = [s \in Streams |-> 0]
    /\ worker = [s \in Streams |-> Idle]
    /\ oldest = 1
    /\ crashes = 0

Run(s) ==
    \/ Once(s) \/ LookUpFrom(s) \/ applyMovement(s)
    \/ Post(s) \/ open(s) \/ PostOpening(s) \/ PostAgain(s)
    \/ applyClose(s) \/ ReleaseClosed(s) \/ saveCursor(s)
Next ==
    \/ \E s \in Streams : Run(s) \/ Crash(s)
    \/ \E link \in Links : TrackAddress(link[1], link[2]) \/ ReleaseAddress(link[1], link[2])
    \/ Forget

Spec == Init /\ [][Next]_vars
(* Run loops until the process is told to stop, with a backoff of its own. *)
FairSpec == Spec /\ \A s \in Streams : WF_vars(Run(s))

--------------------------------------------------------------------------------
(* Properties. *)

\* Every table and every worker stays well typed: balances are only ever asked of
\* accounts, and nothing but a positive amount is ever written as missing (open).
TypeOK ==
    /\ history \in Histories
    /\ tracked \in [Addresses -> Accounts \cup {Nobody}]
    /\ \A b \in books : b \in Transaction /\ b.amount > 0 /\ OrgOf[b.debit] = b.org
                                           /\ OrgOf[b.credit] = b.org
    /\ cursor \in [Streams -> 0..Len(history)]
    /\ worker \in [Streams -> Worker]
    /\ oldest \in Nat /\ crashes \in 0..MaxCrashes

\* Both sides of a movement are in the books of whoever is watched throughout.
Recorded(B, i, op, n) ==
    LET move == Movements(op)[n]
        Line(b) == b.key = KeyOf(i, op, n) /\ b.asset = move.asset /\ b.amount = move.amount
    IN  /\ move.from \in DOMAIN Home => \E b \in B : Line(b) /\ b.debit = Home[move.from]
        /\ move.to \in DOMAIN Home => \E b \in B : Line(b) /\ b.credit = Home[move.to]

\* A cursor that has passed a record vouches for it: whatever stopped, restarted or was
\* forgotten by the RPC in between, every movement of a watched address up to the cursor is
\* booked on its account ("silently loses payments ... the one failure a payments system
\* cannot absorb", Once; checkRetention).
NothingLost ==
    \A s \in Streams : \A i \in 1..cursor[s] :
      history[i].stream = s =>
        \A n \in DOMAIN Movements(history[i]) : Recorded(books, i, history[i], n)

\* The addresses an account may be the account of.
Owns(x, account) == IF x \in DOMAIN Home THEN Home[x] = account ELSE <<x, account>> \in Links

\* What an operation takes from an address, as far as it is a movement, and what it brings one.
Paid(op, x, asset) ==
    LET out == {n \in DOMAIN Movements(op) :
                  Movements(op)[n].from = x /\ Movements(op)[n].asset = asset}
    IN  IF out = {} THEN 0 ELSE Movements(op)[CHOOSE n \in out : TRUE].amount
Received(op, x, asset) ==
    IF op.ok /\ op.kind # "other" /\ op.to = x /\ op.asset = asset THEN op.amount ELSE 0

Total(amount, S) == MapThenSumSet(LAMBDA i : amount[i], S)
PaidIn(h, x, asset) == [i \in DOMAIN h |-> Paid(h[i], x, asset)]
ReceivedIn(h, x, asset) == [i \in DOMAIN h |-> Received(h[i], x, asset)]

\* What an address received on the network that its account was never credited for.
Unseen(x, account, asset) ==
    Total(ReceivedIn(history, x, asset),
          {i \in DOMAIN history : ~\E b \in books : b.key.record = i /\ b.kind # "opening"
                                                    /\ b.credit = account})

\* Opening balances stand for money the books never saw arrive and for nothing else: what
\* an address held before its history and what it received unbooked covers them, however
\* often the posting is retried ("Nothing is invented", open).
NothingInvented ==
    \A x \in Addresses, account \in Accounts, asset \in Assets :
      Owns(x, account) =>
        MapThenSumSet(LAMBDA b : b.amount,
          {b \in books : b.kind = "opening" /\ b.credit = account /\ b.asset = asset})
          <= Initial[x][asset] + Unseen(x, account, asset)

Watched == DOMAIN Home \cup {link[1] : link \in Links}

(* What NothingInvented needs of the tables and of the network, and nothing else does. *)

\* No two addresses share an account (the unique index of tracked_addresses on it), and
\* none has the account of a workspace's counterparties.
OwnAccounts ==
    \A x \in Watched, account \in Accounts :
      Owns(x, account) => ~AllowsNegative(account) /\ \A y \in Watched : Owns(y, account) => y = x

\* A watched address pays only what it held or had received by then.
Solvent(h) ==
    \A x \in Watched, asset \in Assets : \A i \in DOMAIN h :
      Total(PaidIn(h, x, asset), 1..i)
        <= Initial[x][asset] + Total(ReceivedIn(h, x, asset), 1..(i - 1))

\* What it pays and receives of an asset is told by one stream: two are read at their own pace.
OneStream(h) ==
    \A x \in Watched, asset \in Assets : \A i, j \in DOMAIN h :
      /\ PaidIn(h, x, asset)[i] + ReceivedIn(h, x, asset)[i] > 0
      /\ PaidIn(h, x, asset)[j] + ReceivedIn(h, x, asset)[j] > 0
      => h[i].stream = h[j].stream

\* A stream is read to its end unless it stands before an amount nobody can read of an
\* address somebody watches, or before a hole in what the RPC still has: no crash, no
\* unknown operation, no stranger's transfer and no poor wallet holds it (Run, apply, open).
ReadToTheEnd(s) == \A i \in DOMAIN history : history[i].stream = s => i <= cursor[s]
Held(s) ==
    \/ ~checkRetention(s)
    \/ \E i \in DOMAIN history :
         /\ history[i].stream = s /\ i > cursor[s]
         /\ ~history[i].readable /\ {history[i].from, history[i].to} \cap Watched # {}
CatchesUp == \A s \in Streams : <>[](ReadToTheEnd(s) \/ Held(s))
================================================================================
