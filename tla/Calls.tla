--------------------------------- MODULE Calls ---------------------------------
(***************************************************************************)
(* How a workspace works with a treasury held by a contract                *)
(* (api/daotreasury.go, core/daotreasury.go, ledger/store/member_call.go,  *)
(* settlement/soroban.go, api/keeper.go).  A member's call is simulated,   *)
(* recorded, signed on a page and sent inside a fee bump; what needs       *)
(* nobody's signature is relayed from one account of the deployment, one   *)
(* transaction at a time.                                                  *)
(*                                                                         *)
(* Module DaoTreasury is the contract itself.  Here it is what a caller    *)
(* can tell of it: who votes, what is proposed and how that stands.        *)
(***************************************************************************)
EXTENDS Integers, Sequences, FiniteSets

CONSTANTS
    Members,
    RoleOf,      \* role of each member: 1 observer, 2 proposer, 3 approver, 4 admin
    Wallet,      \* members who have linked a wallet
    Busy,        \* members who use it elsewhere too, once
    Contracts,   \* addresses a treasury contract can be created at
    Purses,      \* what wallets hold of the token at first
    Histories,   \* what may have happened to a contract before
    Actions,     \* what may be proposed
    Notes,       \* what a proposer may write about it
    NoNote,
    Relay,       \* the account that relays
    None,
    Requests,    \* requests and keeper passes in progress at a time
    Quorum, Approval, Voting, \* the rules of the contract, in percent and in time
    Lifetime,    \* memberCallLifetime
    SorobanTimeout,
    KeepFloor, KeepTarget, KeepLeast, KeepCeiling, RentPerLedger, \* the keeper's rent
    MaxCalls,    \* bound: rows of member_calls
    MaxProposals,\* bound: proposals of a contract
    MaxSeq,      \* bound: sequence numbers
    MaxTime      \* bound: clock

VARIABLES
    known,     \* table treasuries: the contracts of the workspace
    rows,      \* table member_calls
    relaying,  \* the mutex: who holds it
    req,       \* requests in progress
    chain,     \* the contracts
    purse,     \* what a member's wallet holds of the token
    seq,       \* sequence numbers of the wallets and of the relay account
    queue,     \* envelopes the network has queued
    ended,     \* envelopes included, and how
    abandoned, \* sequence numbers of relayed envelopes nobody waits for any longer
    now

network == <<chain, purse, seq, queue, ended>>
vars == <<known, rows, relaying, req, network, abandoned, now>>

Status == {"Open", "Passed", "Rejected", "Cancelled", "Executed"}
Function == {"propose", "vote", "cancel", "spend", "transfer", "create", "tally", "execute",
             "extend", "state"}
Actionable == {"Pay", "SetPolicy", "SetMember", "AllowRecipient", "DenyRecipient", "Revoke"}
Action ==
    {a \in [kind: Actionable, who: Members \cup {None}, weight: {0, 1}, target: Nat, wait: Nat] :
       a.kind = "SetMember" => a.who \in Members}
Proposal == [action: Action, proposer: Members, memo: Notes, yes: SUBSET Members,
             no: SUBSET Members, closes: Nat, status: Status, executable: Nat]
Contract == [made: BOOLEAN, voters: SUBSET Members, allowed: BOOLEAN, timelock: Nat, funds: Nat,
             life: Nat, proposals: Seq(Proposal)]
NoAction == [kind |-> "Pay", who |-> None, weight |-> 0, target |-> 0, wait |-> 0]
Call == [contract: Contracts, fn: Function, id: Nat, yes: BOOLEAN, action: Action, note: Notes]
Envelope == [from: Members \cup {Relay}, call: Call, seq: Nat, expires: Nat]
Row == [env: Envelope, submitted: BOOLEAN, landed: {"no", "success", "failed"}, number: Nat]
Request ==
    [pc: {"idle"}]
    \cup [pc: {"submit", "await", "release", "record"}, env: Envelope]
    \cup [pc: {"land"}, env: Envelope, failed: BOOLEAN, number: Nat]
    \cup [pc: {"want"}, call: Call]
    \cup [pc: {"look"}, call: Call]
    \cup [pc: {"reply"}, call: Call, says: {"rejected", "carried out"}, already: BOOLEAN]

ASSUME CallsAssumption ==
    /\ RoleOf \in [Members -> 0..4] /\ Wallet \subseteq Members /\ Busy \subseteq Wallet
    /\ Relay \notin Members /\ None \notin Members \cup Requests
    /\ NoNote \in Notes /\ Actions \subseteq Action
    /\ Histories \subseteq Contract /\ Purses \in [Members -> Nat]
    /\ Quorum \in 1..100 /\ Approval \in 51..100 /\ Voting \in Nat
    /\ Lifetime \in Nat \ {0} /\ SorobanTimeout \in Nat \ {0}
    /\ KeepTarget \in Nat /\ KeepFloor \in 1..KeepTarget /\ KeepLeast \in Nat \ {0}
    /\ KeepCeiling \in Nat /\ RentPerLedger \in Nat
    /\ MaxCalls \in Nat /\ MaxProposals \in Nat /\ MaxSeq \in Nat /\ MaxTime \in Nat
    /\ IsFiniteSet(Members) /\ IsFiniteSet(Requests)

Idle == [pc |-> "idle"]
At(r, pc) == req[r].pc = pc
Goto(r, next) == req' = [req EXCEPT ![r] = next]
Step(r, pc) == Goto(r, [req[r] EXCEPT !.pc = pc])
Bare(c, fn) ==
    [contract |-> c, fn |-> fn, id |-> 0, yes |-> FALSE, action |-> NoAction, note |-> NoNote]
Numbered(c, fn, id) == [Bare(c, fn) EXCEPT !.id = id]
P(call) == chain[call.contract].proposals[call.id]

--------------------------------------------------------------------------------
(* The contract, as far as a caller can tell. *)
Enough(part, whole, percent) == part * 100 >= whole * percent

Outcome(c, p) ==
    LET total == Cardinality(chain[c].voters)
        yes == Cardinality(p.yes)
        cast == yes + Cardinality(p.no)
    IN  IF now >= p.closes
        THEN IF Enough(cast, total, Quorum) /\ Enough(yes, cast, Approval)
             THEN "Passed" ELSE "Rejected"
        ELSE IF Enough(yes, total, Approval) /\ Enough(cast, total, Quorum) THEN "Passed"
        ELSE IF ~Enough(total - Cardinality(p.no), total, Approval) THEN "Rejected"
        ELSE "Open"

Settled(c, p) ==
    IF p.status # "Open" THEN p
    ELSE [p EXCEPT !.status = Outcome(c, p),
                   !.executable = IF Outcome(c, p) # "Passed" THEN @
                                  ELSE IF p.action.kind \in {"DenyRecipient", "Revoke"} THEN now
                                  ELSE now + chain[c].timelock]

Checked(c, a) ==
    CASE a.kind = "Pay"       -> chain[c].allowed
      [] a.kind = "SetMember" -> a.weight = 1 \/ chain[c].voters \ {a.who} # {}
      [] a.kind = "Revoke"    -> /\ a.target \in DOMAIN chain[c].proposals
                                 /\ chain[c].proposals[a.target].status \in {"Open", "Passed"}
      [] OTHER                -> TRUE

\* Whether the contract takes the call, now, from whoever is asking.
Accepts(from, call) ==
    LET c == call.contract
        here == chain[c].made /\ call.id \in DOMAIN chain[c].proposals
        open == here /\ P(call).status = "Open"
    IN  CASE call.fn = "propose" -> from \in chain[c].voters /\ Checked(c, call.action)
          [] call.fn = "vote"    -> /\ open /\ from \in chain[c].voters /\ now < P(call).closes
                                    /\ from \notin P(call).yes \cup P(call).no
          [] call.fn = "cancel"  -> open /\ P(call).proposer = from
          [] call.fn = "spend"   -> /\ from \in chain[c].voters
                                    /\ chain[c].allowed /\ chain[c].funds > 0
          [] call.fn = "transfer"-> from \in Members /\ purse[from] > 0
          [] call.fn = "create"  -> ~chain[c].made
          [] call.fn = "tally"   -> open /\ Outcome(c, P(call)) # "Open"
          [] call.fn \in {"extend", "state"} -> chain[c].made
          [] call.fn = "execute" ->
               /\ here /\ Settled(c, P(call)).status = "Passed"
               /\ now >= Settled(c, P(call)).executable
               /\ Checked(c, P(call).action)
               /\ P(call).action.kind = "Pay" => chain[c].funds > 0
               /\ P(call).action.kind = "Revoke" => P(call).action.target # call.id

Did(k, a) ==
    CASE a.kind = "Pay"            -> [k EXCEPT !.funds = @ - 1]
      [] a.kind = "SetPolicy"      -> [k EXCEPT !.timelock = a.wait]
      [] a.kind = "SetMember"      -> [k EXCEPT !.voters = IF a.weight = 0 THEN @ \ {a.who}
                                                           ELSE @ \cup {a.who}]
      [] a.kind = "AllowRecipient" -> [k EXCEPT !.allowed = TRUE]
      [] a.kind = "DenyRecipient"  -> [k EXCEPT !.allowed = FALSE]
      [] a.kind = "Revoke"         -> [k EXCEPT !.proposals[a.target].status = "Cancelled"]

\* Whoever may approve and has a wallet: the voters a contract is created with.
Founders == {m \in Wallet : RoleOf[m] >= 3}

\* The contract after a call it took.
Took(from, call) ==
    LET c == call.contract
        k == chain[c]
        id == call.id
        voted == IF call.yes THEN [P(call) EXCEPT !.yes = @ \cup {from}]
                 ELSE [P(call) EXCEPT !.no = @ \cup {from}]
    IN  CASE call.fn = "propose" ->
               [k EXCEPT !.proposals = Append(@,
                  [action |-> call.action, proposer |-> from, memo |-> call.note, yes |-> {},
                   no |-> {}, closes |-> now + Voting, status |-> "Open", executable |-> 0])]
          [] call.fn = "vote"    -> [k EXCEPT !.proposals[id] = Settled(c, voted)]
          [] call.fn = "cancel"  -> [k EXCEPT !.proposals[id].status = "Cancelled"]
          [] call.fn = "spend"   -> [k EXCEPT !.funds = @ - 1]
          [] call.fn = "transfer"-> [k EXCEPT !.funds = @ + 1]
          [] call.fn = "create"  -> [k EXCEPT !.made = TRUE, !.voters = Founders]
          [] call.fn = "state"   -> k
          [] call.fn = "tally"   -> [k EXCEPT !.proposals[id] = Settled(c, @)]
          [] call.fn = "extend"  -> [k EXCEPT !.life = IF @ < id THEN id ELSE @]
          [] call.fn = "execute" ->
               Did([k EXCEPT !.proposals[id] = [Settled(c, @) EXCEPT !.status = "Executed"]],
                   P(call).action)

--------------------------------------------------------------------------------
(* Asking the network.  A call is simulated before anybody signs it, and a     *)
(* question is a call that is simulated and never sent.                       *)

\* The contract as the call would leave it now, if it takes it.
Simulate(from, call) == IF Accepts(from, call) THEN {Took(from, call)} ELSE {}

Read(call) == Simulate(Relay, call)
readTreasury(c) == Read(Bare(c, "state"))
memberWeight(c, m) == Cardinality({k \in readTreasury(c) : m \in k.voters})
treasuryState(c) ==
    {[timelock |-> k.timelock, allowed |-> k.allowed, proposals |-> Len(k.proposals),
      weight |-> [m \in k.voters |-> memberWeight(c, m)]] : k \in readTreasury(c)}

\* A proposal, and what settling it would record: nothing while it is undecided.
chainProposal(c, id) ==
    {[proposal |-> k.proposals[id],
      settles  |-> LET tally == Read(Numbered(c, "tally", id))
                   IN  IF tally = {} THEN "Open"
                       ELSE (CHOOSE t \in tally : TRUE).proposals[id].status]
       : k \in readTreasury(c)}

\* What proposers here wrote, by the number the contract gave each.
ProposalNotes(c) ==
    {[id |-> row.number, note |-> row.env.call.note] :
       row \in {w \in rows : w.env.call.contract = c /\ w.number # 0}}
\* Shown only with the proposal whose memo commits to it.
attachNotes(c, id) ==
    LET held == {n \in ProposalNotes(c) :
                   n.id = id /\ n.note # NoNote /\ n.note = chain[c].proposals[id].memo}
    IN  IF held = {} THEN NoNote ELSE (CHOOSE n \in held : TRUE).note
ChainProposalByID(c, id) ==
    {[proposal |-> v.proposal, settles |-> v.settles, note |-> attachNotes(c, id)] :
       v \in chainProposal(c, id)}

\* The transaction of a call the simulation took.
PrepareCall(from, call, timeout) ==
    {[from |-> from, call |-> call, seq |-> seq[from] + 1, expires |-> now + timeout] :
       k \in Simulate(from, call)}

--------------------------------------------------------------------------------
\* The treasury a command names; or the only one, when it names none.
addressed(name) ==
    IF name # None THEN known \cap {name}
    ELSE IF Cardinality(known) = 1 THEN known ELSE {}
Addressable == UNION {addressed(name) : name \in Contracts \cup {None}}

SaveMemberCall(e) ==
    rows' = IF \E row \in rows : row.env = e THEN rows
            ELSE rows \cup {[env |-> e, submitted |-> FALSE, landed |-> "no", number |-> 0]}

(* A member's call: built on what the network says now, and recorded.  The     *)
(* same call built twice in one second is one row.                            *)
prepareMemberCall(r, m, call) ==
    /\ At(r, "idle")
    /\ Cardinality(rows) < MaxCalls /\ seq[m] < MaxSeq /\ now + Lifetime <= MaxTime
    /\ call.fn = "propose" => Len(chain[call.contract].proposals) < MaxProposals
    /\ call.contract \in known /\ m \in Wallet
    /\ \E e \in PrepareCall(m, call, Lifetime) : SaveMemberCall(e)
    /\ UNCHANGED <<known, relaying, req, network, abandoned, now>>

ProposeOnChain(r, m, c, a, note) ==
    prepareMemberCall(r, m, [Bare(c, "propose") EXCEPT !.action = a, !.note = note])
VoteOnChain(r, m, c, id, yes) ==
    prepareMemberCall(r, m, [Numbered(c, "vote", id) EXCEPT !.yes = yes])
WithdrawOnChain(r, m, c, id) == prepareMemberCall(r, m, Numbered(c, "cancel", id))
SpendOnChain(r, m, c) == prepareMemberCall(r, m, Bare(c, "spend"))
DepositOnChain(r, m, c) == prepareMemberCall(r, m, Bare(c, "transfer"))

(* The commands that end in one. *)

\* What each command puts to the voters.
payFromContract == {NoAction}
allow(adding) ==
    {[NoAction EXCEPT !.kind = IF adding THEN "AllowRecipient" ELSE "DenyRecipient"]}
voter ==
    {[NoAction EXCEPT !.kind = "SetMember", !.who = m, !.weight = w] : m \in Wallet, w \in {0, 1}}
rules(c) ==
    {[NoAction EXCEPT !.kind = "SetPolicy", !.wait = w] : w \in 0..MaxTime, s \in treasuryState(c)}
stop(c) == {[NoAction EXCEPT !.kind = "Revoke", !.target = id] : id \in DOMAIN chain[c].proposals}
Asked(c) ==
    Actions \cap UNION {payFromContract, allow(TRUE), allow(FALSE), voter, rules(c), stop(c)}

\* Only a payment has room for a note.
putToVoters(r, m, c, a, note) ==
    /\ note = NoNote \/ a.kind = "Pay"
    /\ ProposeOnChain(r, m, c, a, note)

vote(r, m, c, id, approve) ==
    /\ \E v \in ChainProposalByID(c, id) : v.proposal.status = "Open" /\ v.settles = "Open"
    /\ VoteOnChain(r, m, c, id, approve)
reject(r, m, c, id) == vote(r, m, c, id, FALSE)
withdraw(r, m, c, id) ==
    /\ \E v \in ChainProposalByID(c, id) :
         v.proposal.status = "Open" /\ v.proposal.proposer = m
    /\ WithdrawOnChain(r, m, c, id)
spend(r, m, c) == SpendOnChain(r, m, c)
deposit(r, m, c) == DepositOnChain(r, m, c)

\* From which role up each may be asked for, of a treasury there is.
daoTreasuryCommands(r, m, c) ==
    \/ RoleOf[m] >= 1 /\ (deposit(r, m, c)
                         \/ \E id \in DOMAIN chain[c].proposals :
                              \/ vote(r, m, c, id, TRUE) \/ reject(r, m, c, id)
                              \/ withdraw(r, m, c, id))
    \/ RoleOf[m] >= 2 /\ (spend(r, m, c)
                         \/ \E a \in Asked(c), note \in Notes : putToVoters(r, m, c, a, note))

--------------------------------------------------------------------------------
(* Its signature comes back: one conditional UPDATE claims it.  The page's     *)
(* handler reads the row first; the UPDATE asks the same again.               *)
With(env, S) == {row \in rows : row.env # env} \cup {S}
RowOf(env) == CHOOSE row \in rows : row.env = env

ClaimMemberCall(r, row) ==
    /\ At(r, "idle")
    /\ row \in rows /\ ~row.submitted /\ now < row.env.expires
    /\ rows' = With(row.env, [row EXCEPT !.submitted = TRUE])
    /\ Goto(r, [pc |-> "submit", env |-> row.env])
    /\ UNCHANGED <<known, relaying, network, abandoned, now>>

LoadMemberCall(m, row) ==
    row \in rows /\ row.env.from = m /\ ~row.submitted /\ now < row.env.expires
sameTransaction(row, signed) == row.env = signed
handleCallSubmit(r, m, row, signed) ==
    /\ LoadMemberCall(m, row) /\ sameTransaction(row, signed)
    /\ ClaimMemberCall(r, row)

ReleaseMemberCall(r) ==
    /\ At(r, "release")
    /\ LET row == RowOf(req[r].env)
       IN  rows' = IF row.landed = "no" THEN With(row.env, [row EXCEPT !.submitted = FALSE])
                   ELSE rows
    /\ Goto(r, Idle)
    /\ UNCHANGED <<known, relaying, network, abandoned, now>>

--------------------------------------------------------------------------------
(* sendSoroban and awaitSoroban, for members' calls and for relayed ones.      *)
(* A relayed transaction that is over lets go of the mutex.                   *)
Relayed(r) == req[r].env.from = Relay
\* Mutant: unlocks only when all went well.
End_Locked(r) == Goto(r, Idle) /\ UNCHANGED relaying

End(r) ==
    /\ Goto(r, Idle)
    /\ relaying' = IF relaying = r THEN None ELSE relaying
Valid(e) == seq[e.from] + 1 = e.seq /\ now <= e.expires

\* PENDING; DUPLICATE; or the request fails, having arrived or not.
Send(r) ==
    /\ At(r, "submit")
    /\ \/ Valid(req[r].env) /\ queue' = queue \cup {req[r].env}
       \/ UNCHANGED queue
    /\ Step(r, "await")
    /\ UNCHANGED <<known, rows, relaying, chain, purse, seq, ended, abandoned, now>>

\* ERROR, with a sequence number that is used: the claim stays.
BadSequence(r) ==
    /\ At(r, "submit") /\ seq[req[r].env.from] + 1 # req[r].env.seq
    /\ End(r)
    /\ UNCHANGED <<known, rows, network, abandoned, now>>

\* The fee bump around a member's call cannot be built or signed.
FeeBumpSoroban(r) ==
    /\ At(r, "submit") /\ ~Relayed(r)
    /\ Step(r, "release")
    /\ UNCHANGED <<known, rows, relaying, network, abandoned, now>>

\* ERROR for another reason, or TRY_AGAIN_LATER: it is not queued.
TurnedAway(r) ==
    /\ At(r, "submit") /\ req[r].env \notin queue
    /\ IF Relayed(r) THEN End(r) ELSE Step(r, "release") /\ UNCHANGED relaying
    /\ UNCHANGED <<known, rows, network, abandoned, now>>

\* What an included call returned, where the answer can be read.
returnValueOf(e) == {0} \cup {x.number : x \in {y \in ended : y.env = e}}
\* The number a call that proposed was given; 0 when it cannot be read.
returnedProposal(e) == IF e.call.fn = "propose" THEN returnValueOf(e) ELSE {0}

\* What becomes of the request when its transaction is known to be in a ledger.
Landing(r, failed, already, numbers) ==
    LET e == req[r].env
        over == relaying' = IF relaying = r THEN None ELSE relaying
        rest == [pc |-> "reply", call |-> e.call, already |-> already,
                 says |-> IF e.call.fn = "execute" THEN "carried out" ELSE "rejected"]
    IN  IF ~Relayed(r)
        THEN /\ \E n \in numbers :
                  Goto(r, [pc |-> "land", env |-> e, failed |-> failed, number |-> n])
             /\ UNCHANGED relaying
        ELSE IF failed \/ e.call.fn = "extend" THEN End(r)
        ELSE IF e.call.fn = "create" THEN Step(r, "record") /\ UNCHANGED relaying
        ELSE IF e.call.fn = "tally" /\ e.call.yes
        THEN Goto(r, [pc |-> "look", call |-> e.call]) /\ over
        ELSE Goto(r, rest) /\ over

\* Mutant: does not ask how it ended.
Found_Included(r) ==
    /\ At(r, "await")
    /\ \E x \in ended :
         /\ x.env = req[r].env
         /\ Landing(r, FALSE, FALSE, returnedProposal(x.env))
    /\ UNCHANGED <<known, rows, network, abandoned, now>>

\* SUCCESS or FAILED.  The return value may be unreadable.
Found(r) ==
    /\ At(r, "await")
    /\ \E x \in ended :
         /\ x.env = req[r].env
         /\ Landing(r, ~x.ok, FALSE, IF x.ok THEN returnedProposal(x.env) ELSE {0})
    /\ UNCHANGED <<known, rows, network, abandoned, now>>

\* Mutant: takes a history that starts later for one that has it.
LookedUp_Forgotten(r) ==
    /\ At(r, "await")
    /\ Relayed(r) => \E x \in ended : x.env = req[r].env
    /\ Landing(r, FALSE, TRUE, {0})
    /\ UNCHANGED <<known, rows, network, abandoned, now>>

\* NOT_FOUND from a node whose history starts later: the full history says that it
\* is there, and not how it ended.
LookedUp(r) ==
    /\ At(r, "await")
    /\ \E x \in ended : x.env = req[r].env
    /\ Landing(r, FALSE, TRUE, {0})
    /\ UNCHANGED <<known, rows, network, abandoned, now>>

\* Past its time bounds and not included; or nobody waits any longer.
Forsake(r) == abandoned' = IF Relayed(r) THEN abandoned \cup {req[r].env.seq} ELSE abandoned
Expired(r) ==
    /\ At(r, "await") /\ now > req[r].env.expires
    /\ \A x \in ended : x.env # req[r].env
    /\ End(r)
    /\ UNCHANGED <<known, rows, network, abandoned, now>>

\* Mutant: takes not known for turned away.
GaveUp_Releases(r) ==
    /\ At(r, "await")
    /\ IF Relayed(r) THEN End(r) /\ Forsake(r)
       ELSE Step(r, "release") /\ UNCHANGED <<relaying, abandoned>>
    /\ UNCHANGED <<known, rows, network, now>>

GaveUp(r) ==
    /\ At(r, "await")
    /\ End(r) /\ Forsake(r)
    /\ UNCHANGED <<known, rows, network, now>>

LandMemberCall(r) ==
    /\ At(r, "land")
    /\ rows' = With(req[r].env,
                    [env |-> req[r].env, submitted |-> TRUE, number |-> req[r].number,
                     landed |-> IF req[r].failed THEN "failed" ELSE "success"])
    /\ Goto(r, Idle)
    /\ UNCHANGED <<known, relaying, network, abandoned, now>>

--------------------------------------------------------------------------------
(* What needs nobody's signature.  The mutex is held from building the         *)
(* transaction until its outcome is known, or nobody waits for it.            *)
\* Mutant: does not take the mutex.
relay_AtOnce(r, e) ==
    /\ seq[Relay] < MaxSeq /\ now + SorobanTimeout <= MaxTime
    /\ Goto(r, [pc |-> "submit", env |-> e])
    /\ UNCHANGED <<known, rows, relaying, network, abandoned, now>>

relay(r, e) ==
    /\ relaying = None
    /\ seq[Relay] < MaxSeq /\ now + SorobanTimeout <= MaxTime
    /\ relaying' = r
    /\ Goto(r, [pc |-> "submit", env |-> e])
    /\ UNCHANGED <<known, rows, network, abandoned, now>>

PrepareCreate(c) == PrepareCall(Relay, Bare(c, "create"), SorobanTimeout)
CreateContractTreasury(r, c, voters) ==
    /\ voters # {}
    /\ \E e \in PrepareCreate(c) : relay(r, e)
createTreasury(r, m, c) ==
    At(r, "idle") /\ RoleOf[m] >= 4 /\ CreateContractTreasury(r, c, Founders)

\* It exists; recording it may fail, and is the last thing done under the mutex.
AddContractTreasury(r) ==
    /\ At(r, "record")
    /\ known' = known \cup {req[r].env.call.contract} \/ UNCHANGED known
    /\ End(r)
    /\ UNCHANGED <<rows, network, abandoned, now>>

AdoptContractTreasury(r, m, c) ==
    /\ memberWeight(c, m) > 0
    /\ known' = known \cup {c}
    /\ UNCHANGED <<rows, relaying, req, network, abandoned, now>>
adoptTreasury(r, m, c) ==
    At(r, "idle") /\ RoleOf[m] >= 4 /\ m \in Wallet /\ AdoptContractTreasury(r, m, c)

(* executeOnChain: the proposal is read, and what is then relayed depends on   *)
(* it.  The flag yes of a tally says that carrying out may follow.            *)
ToRelay(c, id) ==
    {[Numbered(c, IF v.proposal.status = "Open" THEN "tally" ELSE "execute", id)
        EXCEPT !.yes = (v.settles = "Passed")] :
       v \in {w \in ChainProposalByID(c, id) :
                \/ w.proposal.status = "Open" /\ w.settles # "Open"
                \/ w.proposal.status = "Passed" /\ now >= w.proposal.executable}}

executeOnChain(r, c, id) ==
    /\ At(r, "idle")
    /\ \E call \in ToRelay(c, id) : Goto(r, [pc |-> "want", call |-> call])
    /\ UNCHANGED <<known, rows, relaying, network, abandoned, now>>

relayFor(r) ==
    /\ req[r].call.contract \in known
    /\ \E e \in PrepareCall(Relay, req[r].call, SorobanTimeout) : relay(r, e)
SettleOnChain(r) == At(r, "want") /\ req[r].call.fn = "tally" /\ relayFor(r)
ExecuteOnChain(r) == At(r, "want") /\ req[r].call.fn = "execute" /\ relayFor(r)
\* The simulation refuses it.
Refused(r) ==
    /\ At(r, "want") /\ relaying = None /\ Simulate(Relay, req[r].call) = {}
    /\ Goto(r, Idle)
    /\ UNCHANGED <<known, rows, relaying, network, abandoned, now>>

\* Read again once its outcome is recorded.
LookAgain(r) ==
    /\ At(r, "look")
    /\ LET c == req[r].call.contract
           id == req[r].call.id
       IN  \E v \in ChainProposalByID(c, id) :
             Goto(r, IF v.proposal.status = "Passed" /\ now >= v.proposal.executable
                     THEN [pc |-> "want", call |-> Numbered(c, "execute", id)] ELSE Idle)
    /\ UNCHANGED <<known, rows, relaying, network, abandoned, now>>

Reply(r) ==
    /\ At(r, "reply") /\ Goto(r, Idle)
    /\ UNCHANGED <<known, rows, relaying, network, abandoned, now>>

(* The keeper.  What a contract has left, for those that are there. *)
Lives == [c \in {k \in known : chain[k].made} |-> chain[c].life]

\* How far it can be made to live: half the reach for as long as that costs too much,
\* and nothing when half is too little to be worth it.
Halved(had) ==
    {t \in 0..KeepTarget : \E k \in 0..KeepTarget : t - had = (KeepTarget - had) \div 2^k}
Affordable(had, t) == (t - had) * RentPerLedger <= KeepCeiling
reach(had) ==
    {t \in Halved(had) :
       /\ Affordable(had, t) /\ \A u \in Halved(had) : Affordable(had, u) => u <= t
       /\ t = KeepTarget \/ t - had >= KeepLeast}

PrepareExtension(c, target) == PrepareCall(Relay, Numbered(c, "extend", target), SorobanTimeout)
extend(r, c, had) ==
    \E target \in reach(had) : \E e \in PrepareExtension(c, target) : relay(r, e)
KeepContractsAlive(r) ==
    /\ At(r, "idle")
    /\ \E c \in DOMAIN Lives : Lives[c] < KeepFloor /\ extend(r, c, Lives[c])

\* A request ends early: its process stops, or a read or a statement fails.
Quit(r) ==
    /\ ~At(r, "idle") /\ End(r)
    /\ IF At(r, "submit") \/ At(r, "await") THEN Forsake(r) ELSE UNCHANGED abandoned
    /\ UNCHANGED <<known, rows, network, now>>

--------------------------------------------------------------------------------
(* The network. *)
Include(e) ==
    /\ e \in queue /\ queue' = queue \ {e}
    /\ IF ~Valid(e) THEN UNCHANGED <<chain, purse, seq, ended>>
       ELSE /\ seq' = [seq EXCEPT ![e.from] = e.seq]
            /\ LET c == e.call.contract
                   ok == Accepts(e.from, e.call)
                   number == IF ok /\ e.call.fn = "propose"
                             THEN Len(chain[c].proposals) + 1 ELSE 0
               IN  /\ ended' = ended \cup {[env |-> e, ok |-> ok, number |-> number]}
                   /\ chain' = IF ok THEN [chain EXCEPT ![c] = Took(e.from, e.call)] ELSE chain
                   /\ purse' = IF ok /\ e.call.fn = "transfer"
                               THEN [purse EXCEPT ![e.from] = @ - 1] ELSE purse
    /\ UNCHANGED <<known, rows, relaying, req, abandoned, now>>

\* A wallet is used elsewhere.
Elsewhere(m) ==
    /\ m \in Busy /\ seq[m] = 0 /\ seq' = [seq EXCEPT ![m] = @ + 1]
    /\ UNCHANGED <<known, rows, relaying, req, chain, purse, queue, ended, abandoned, now>>

Tick ==
    /\ now < MaxTime /\ now' = now + 1
    /\ UNCHANGED <<known, rows, relaying, req, network, abandoned>>

--------------------------------------------------------------------------------
Init ==
    /\ known = {} /\ rows = {} /\ relaying = None
    /\ req = [r \in Requests |-> Idle]
    /\ chain \in [Contracts -> Histories]
    /\ purse = Purses
    /\ seq = [a \in Members \cup {Relay} |-> 0]
    /\ queue = {} /\ ended = {} /\ abandoned = {}
    /\ now = 0

Next ==
    \/ \E r \in Requests :
         \/ \E m \in Members, c \in Contracts : createTreasury(r, m, c) \/ adoptTreasury(r, m, c)
         \/ /\ At(r, "idle") /\ Cardinality(rows) < MaxCalls
            /\ \E m \in Members, c \in Addressable : daoTreasuryCommands(r, m, c)
         \/ \E row \in rows : handleCallSubmit(r, row.env.from, row, row.env)
         \/ ReleaseMemberCall(r)
         \/ Send(r) \/ FeeBumpSoroban(r) \/ BadSequence(r) \/ TurnedAway(r)
         \/ Found(r) \/ LookedUp(r) \/ Expired(r) \/ GaveUp(r) \/ LandMemberCall(r)
         \/ AddContractTreasury(r)
         \/ \E c \in Addressable : \E id \in DOMAIN chain[c].proposals : executeOnChain(r, c, id)
         \/ KeepContractsAlive(r)
         \/ SettleOnChain(r) \/ ExecuteOnChain(r) \/ Refused(r) \/ LookAgain(r) \/ Reply(r)
         \/ Quit(r)
    \/ \E e \in queue : Include(e)
    \/ \E m \in Members : Elsewhere(m)
    \/ Tick

Spec == Init /\ [][Next]_vars

--------------------------------------------------------------------------------
(* Properties. *)

(* Tables, requests and contracts have their shape, and only a request that    *)
(* relays holds the mutex.                                                    *)
TypeOK ==
    /\ known \subseteq Contracts /\ rows \subseteq Row
    /\ relaying \in Requests \cup {None} /\ req \in [Requests -> Request]
    /\ chain \in [Contracts -> Contract] /\ purse \in [Members -> Nat]
    /\ seq \in [Members \cup {Relay} -> Nat]
    /\ queue \subseteq Envelope /\ ended \subseteq [env: Envelope, ok: BOOLEAN, number: Nat]
    /\ abandoned \subseteq Nat /\ now \in Nat
    /\ relaying # None => req[relaying].pc \in {"submit", "await", "record"}

(* ledger/store/member_call.go:184: a call that may be submitted again was     *)
(* never sent: no bump of it is queued or in a ledger, however its submission  *)
(* ended.                                                                     *)
UnclaimedNothingSent ==
    \A row \in rows :
      ~row.submitted => row.env \notin queue /\ \A x \in ended : x.env # row.env

(* api/daotreasury.go:1097: what is recorded of a call is what became of it:   *)
(* landed only if in a ledger, failed only if it failed there, and the number  *)
(* only of the proposal this very call opened, so that the note shown with a   *)
(* proposal is the one its own proposer wrote.                                *)
LandedIsTrue ==
    \A row \in rows :
      /\ row.landed # "no" => \E x \in ended : x.env = row.env /\ (row.landed = "failed" => ~x.ok)
      /\ row.number # 0 =>
           LET ps == chain[row.env.call.contract].proposals
           IN  /\ row.number \in DOMAIN ps
               /\ ps[row.number].proposer = row.env.from
               /\ attachNotes(row.env.call.contract, row.number) = row.env.call.note
               /\ \A other \in rows :
                    other.number = row.number
                    /\ other.env.call.contract = row.env.call.contract => other.env = row.env

(* api/daotreasury.go:1138: relayed transactions take turns, so that one is    *)
(* out of date when it is sent only if another, sent before it, was given up   *)
(* on while it could still land.                                              *)
RelaysTakeTurns ==
    \A r \in Requests :
      At(r, "submit") /\ Relayed(r) =>
        \/ req[r].env.seq = seq[Relay] + 1
        \/ req[r].env.seq \in abandoned

(* core/daotreasury.go:940: somebody is told that a proposal is carried out    *)
(* only when it is, although votes, payments and other executions race the     *)
(* relayed transaction; unless only the full history could be asked.          *)
CarriedOutIsExecuted ==
    \A r \in Requests :
      At(r, "reply") /\ req[r].says = "carried out" /\ ~req[r].already =>
        P(req[r].call).status = "Executed"
================================================================================
