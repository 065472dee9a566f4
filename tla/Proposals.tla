------------------------------- MODULE Proposals -------------------------------
(***************************************************************************)
(* Proposals of the treasuries that are ordinary accounts: an unsigned     *)
(* envelope is recorded (api/proposal.go, ledger/store/proposal.go),       *)
(* members sign it one by one, anybody submits it once it has the weight,  *)
(* and the network decides (settlement/settlement.go).                     *)
(*                                                                         *)
(* Each element of Requests serves one HTTP or chat request at a time.  A  *)
(* step of it is one database transaction or one answer of the network, so *)
(* requests interleave between any two of them.  Requests come from chat   *)
(* (core/proposal.go, core/assets.go, core/contracts.go) or from the page  *)
(* behind a link (api/approve_http.go).                                    *)
(***************************************************************************)
EXTENDS Integers, Sequences, FiniteSets, FiniteSetsExt, Assets, Allowlist

CONSTANTS
    Treasuries,   \* classic treasuries
    Vaults,       \* treasuries held by a contract (modelled in Calls)
    OrgOf,        \* the workspace of each treasury
    Policy,       \* store.SpendPolicy of each workspace: PerPayment, Daily; 0 is none
    MaxPayment,   \* the deployment's own ceilings; 0 is none
    MaxDaily,
    Members,      \* who may ask
    Home,         \* the workspace each is a member of
    RoleOf,       \* the role each has there
    Asks,         \* what may be asked to be proposed
    Holdings,     \* what Horizon may say an account is
    Markets,      \* what the paths found for an exchange may deliver
    Keys,         \* keys that are, or were, signers of a treasury
    Handovers,    \* the signatures that may come back on one envelope
    SignerSets,   \* what a treasury's signers and medium threshold may be
    Requests,     \* requests served at a time
    TTL,          \* org.ProposalTTL
    Day,          \* 24 hours
    MaxProposals, \* bound: proposals opened
    MaxSeq,       \* bound: sequence numbers used by others
    MaxTime       \* bound: clock

VARIABLES
    rows,     \* table proposals
    sigs,     \* table proposal_signatures: the keys with a row, by proposal
    req,      \* the requests in progress
    account,  \* each treasury on the network: sequence, signers, threshold
    flight,   \* envelopes the network has queued
    ledger,   \* what became of each proposal's envelope on the ledger
    now

store   == <<rows, sigs>>
network == <<account, flight, ledger>>
vars    == <<store, req, network, now, pins>>

(* A payroll is opened the way a payment is (Drafts has what comes before). *)
Classic == {"payment", "trustline", "dex"}
Kinds == Classic \cup {"invoke", "restore"}
(* amount: what it moves out of the deployment's asset, which the ceilings     *)
(* bound; floor: a swap's; callee: a call's.                                   *)
Draft == [treasury: Treasuries, kind: Kinds, amount: Nat, floor: Nat,
          callee: Callees \cup {None}, by: Members]
Status == {"open", "executed", "failed", "cancelled", "expired"}
Row ==
    [treasury: Treasuries, kind: Kinds, amount: Nat, floor: Nat,
     callee: Callees \cup {None}, by: Members,
     seq: Nat, created: Nat, expires: Nat, status: Status]
Request ==
    [pc: {"idle"}]
    \cup [pc: {"pin"}, draft: Draft, pin: Codes]
    \cup [pc: {"workspace", "deployment", "build"}, draft: Draft]
    \cup [pc: {"create"}, draft: Draft, seq: Nat, expires: Nat]
    \cup [pc: {"sign"}, id: Nat, keys: SUBSET Keys]
    \cup [pc: {"view", "loaded", "rebuild", "waiting", "lookup"}, id: Nat]
    \cup [pc: {"quote", "callee"}, id: Nat, keys: SUBSET Keys]
    \cup [pc: {"pinned"}, id: Nat, keys: SUBSET Keys, pin: Codes]
    \cup [pc: {"submit"}, id: Nat, keys: SUBSET Keys, seen: Codes \cup {None}]
    \cup [pc: {"resolve"}, id: Nat, as: Status \ {"open"}]
    \cup [pc: {"allow"}, org: Orgs, callee: Callees, pin: Codes]
SignerSet == [weight: [Keys -> 0..255], medium: 0..255]
Account == [seq: Nat, set: SignerSet]

ASSUME ProposalsAssumption ==
    /\ OrgOf \in [Treasuries \cup Vaults -> Orgs]
    /\ Treasuries \cap Vaults = {} /\ None \notin Treasuries \cup Vaults
    /\ Policy \in [Orgs -> [PerPayment: Nat, Daily: Nat]]
    /\ MaxPayment \in Nat /\ MaxDaily \in Nat
    /\ Home \in [Members -> Orgs]
    /\ RoleOf \in [Members -> {"none", "observer", "proposer", "approver", "admin"}]
    /\ \A ask \in Asks :
         /\ ask.kind \in {"payment", "dex"} => ask.amount \in Nat
         /\ ask.kind = "dex" => ask.minimum \in Nat /\ ask.slippage \in Nat
         /\ ask.kind \in {"invoke", "restore"} => ask.callee \in Callees
    /\ \A paths \in Markets : IsFiniteSet(paths) /\ \A x \in paths : x \in Nat
    /\ Handovers \subseteq SUBSET Keys
    /\ SignerSets \subseteq SignerSet
    /\ Requests # {} /\ IsFiniteSet(Requests) /\ IsFiniteSet(Keys)
    /\ TTL \in Nat \ {0} /\ Day \in Nat \ {0}
    /\ MaxProposals \in Nat /\ MaxSeq \in Nat /\ MaxTime \in Nat

Idle == [pc |-> "idle"]
At(r, pc) == req[r].pc = pc
Goto(r, next) == req' = [req EXCEPT ![r] = next]

--------------------------------------------------------------------------------
(* The statements of ledger/store. *)

(* expireSQL, over the treasuries its further predicate names. *)
Expired(T) ==
    [i \in DOMAIN rows |->
        IF rows[i].status = "open" /\ rows[i].expires <= now /\ rows[i].treasury \in T
        THEN [rows[i] EXCEPT !.status = "expired"] ELSE rows[i]]
ExpireProposals == rows' = Expired(Treasuries)

\* Mutant: an open proposal has moved nothing yet.
ProposedSince_Executed(T, since) ==
    MapThenSumSet(LAMBDA i : rows[i].amount,
        {i \in DOMAIN rows :
            /\ rows[i].treasury \in T
            /\ rows[i].created > since
            /\ rows[i].status = "executed"})

(* ProposedSince: what the open and the executed proposals move. *)
ProposedSince(T, since) ==
    MapThenSumSet(LAMBDA i : rows[i].amount,
        {i \in DOMAIN rows :
            /\ rows[i].treasury \in T
            /\ rows[i].created > since
            /\ rows[i].status \in {"open", "executed"}})

(* The two unique indexes: one open proposal per treasury, one row per hash.   *)
(* An envelope's hash is fixed by its source, sequence, content and bounds.    *)
SlotFree(after, t) == \A i \in DOMAIN after : after[i].treasury = t => after[i].status # "open"
Hash(p) == <<p.treasury, p.seq, p.kind, p.amount, p.floor, p.callee, p.expires>>

--------------------------------------------------------------------------------
(* Proposing: checkSpend, then the envelope, then the row. *)
Within(limit, n) == limit = 0 \/ n <= limit
TreasuriesOf(org) == {t \in Treasuries : OrgOf[t] = org}

(* checkSpend, as far as the payment alone; what moves nothing is not held     *)
(* against anything.                                                           *)
checkSpend(r, d) ==
    IF d.amount = 0 THEN Goto(r, [pc |-> "build", draft |-> d])
    ELSE /\ Within(Policy[OrgOf[d.treasury]].PerPayment, d.amount)
         /\ Within(MaxPayment, d.amount)
         /\ Goto(r, [pc |-> "workspace", draft |-> d])

(* What each command takes, and from whom. *)
Rank == [none |-> 0, observer |-> 1, proposer |-> 2, approver |-> 3, admin |-> 4]
AtLeast(m, role) == Rank[RoleOf[m]] >= Rank[role]
proposalCommands == [pay |-> "proposer", approve |-> "observer", execute |-> "observer",
                     cancel |-> "proposer", proposals |-> "observer"]
assetCommands == [trust |-> "proposer", untrust |-> "proposer", swap |-> "proposer"]
contractCommands == [contract |-> "admin", invoke |-> "proposer", restore |-> "proposer"]

(* The treasury a command is about: the one named, or the only one.  Empty     *)
(* when whoever asked is asked which.                                          *)
Linked(org) == {t \in Treasuries \cup Vaults : OrgOf[t] = org}
soleTreasury(org, name) ==
    IF name = None THEN {t \in Linked(org) : Linked(org) = {t}} ELSE {name} \cap Linked(org)
(* classicTreasury refuses a treasury held by a contract. *)
classicTreasury(org, name) == soleTreasury(org, name) \cap Treasuries

Asked(r, ask, kind) == At(r, "idle") /\ Len(rows) < MaxProposals /\ ask.kind = kind
DraftOf(t, kind, amount, floor, callee, m) ==
    [treasury |-> t, kind |-> kind, amount |-> amount, floor |-> floor,
     callee |-> callee, by |-> m]

ProposePayment(r, t, amount, m) ==
    /\ amount > 0 /\ t \in Treasuries
    /\ checkSpend(r, DraftOf(t, "payment", amount, 0, None, m))

(* /pay, in the deployment's asset only; from a vault it is another road. *)
pay(r, m, name, ask) ==
    /\ Asked(r, ask, "payment") /\ AtLeast(m, proposalCommands.pay)
    /\ ask.asset \in {None, Asset}
    /\ \E t \in soleTreasury(Home[m], name) : ProposePayment(r, t, ask.amount, m)
    /\ UNCHANGED <<store, network, now, pins>>

(* /trust and /untrust. *)
trust(r, m, name, ask) ==
    /\ Asked(r, ask, "trustline")
    /\ AtLeast(m, IF ask.open THEN assetCommands.trust ELSE assetCommands.untrust)
    /\ \E t \in classicTreasury(Home[m], name) :
         /\ {a \in Holdings \X Holdings :
               IF ask.open THEN mayTrust(t, a[1], ask.text, a[2].exists)
               ELSE mayUntrust(a[1], ask.text)} # {}
         /\ checkSpend(r, DraftOf(t, "trustline", 0, 0, None, m))
    /\ UNCHANGED <<store, network, now, pins>>

(* /swap, once a floor or a tolerance is named, not both; only what it sends   *)
(* of the deployment's asset counts as spent.                                  *)
swap(r, m, name, ask) ==
    /\ Asked(r, ask, "dex") /\ AtLeast(m, assetCommands.swap)
    /\ (ask.minimum > 0) # (ask.slippage > 0)
    /\ \E t \in classicTreasury(Home[m], name) :
       \E from \in {x[1] : x \in UNION {swapsOf(ask, a) : a \in Holdings}} :
       \E floor \in UNION {floorOf(ask, QuoteStrictSend(paths)) : paths \in Markets} :
         checkSpend(r, DraftOf(t, "dex", IF from = Asset THEN ask.amount ELSE 0, floor, None, m))
    /\ UNCHANGED <<store, network, now, pins>>

(* Calls and restores start alike: the pin is read, then held against what the *)
(* contract runs.  A call is simulated and built if nothing it touches is      *)
(* archived, a restore if something is; what is not as asked is left to Quit.  *)
call(r, m, name, ask) ==
    /\ ContractCalls /\ ParseContractArgs(ask.args)
    /\ \E t \in classicTreasury(Home[m], name), pin \in allowedWhere(Home[m], ask.callee) :
         Goto(r, [pc |-> "pin", pin |-> pin,
                  draft |-> DraftOf(t, ask.kind, 0, 0, ask.callee, m)])
    /\ UNCHANGED <<store, network, now, pins>>
invoke(r, m, name, ask) ==
    Asked(r, ask, "invoke") /\ AtLeast(m, contractCommands.invoke) /\ call(r, m, name, ask)
restore(r, m, name, ask) ==
    Asked(r, ask, "restore") /\ AtLeast(m, contractCommands.restore) /\ call(r, m, name, ask)

Pinned(r, kind) ==
    /\ At(r, "pin") /\ req[r].draft.kind = kind
    /\ checkPinned(req[r].draft.callee, req[r].pin)
    /\ Goto(r, [pc |-> "build", draft |-> req[r].draft])
    /\ UNCHANGED <<store, network, now, pins>>

ProposeInvoke(r) == Pinned(r, "invoke")
ProposeRestore(r) == Pinned(r, "restore")

CheckWorkspaceDay(r) ==
    /\ At(r, "workspace")
    /\ LET d == req[r].draft
           org == OrgOf[d.treasury]
       IN  /\ Within(Policy[org].Daily,
                     ProposedSince(TreasuriesOf(org), now - Day) + d.amount)
           /\ Goto(r, [pc |-> "deployment", draft |-> d])
    /\ UNCHANGED <<store, network, now, pins>>

CheckDeploymentDay(r) ==
    /\ At(r, "deployment")
    /\ LET d == req[r].draft
       IN  /\ Within(MaxDaily, ProposedSince(Treasuries, now - Day) + d.amount)
           /\ Goto(r, [pc |-> "build", draft |-> d])
    /\ UNCHANGED <<store, network, now, pins>>

(* The envelope reserves the sequence number after the account's current one.  *)
(* A payment is built for a destination that can receive it.                   *)
Build(r) ==
    /\ At(r, "build") /\ now + TTL <= MaxTime
    /\ req[r].draft.kind = "payment" => \E a \in Holdings : preflight(a, req[r].draft.amount)
    /\ Goto(r, [pc |-> "create", draft |-> req[r].draft,
                seq |-> account[req[r].draft.treasury].seq + 1, expires |-> now + TTL])
    /\ UNCHANGED <<store, network, now, pins>>

(* One transaction: clear the slot, then take it.  A refusal rolls both back,  *)
(* and is left to Quit.                                                       *)
CreateProposal(r) ==
    /\ At(r, "create") /\ Len(rows) < MaxProposals
    /\ LET d == req[r].draft
           row == [treasury |-> d.treasury, kind |-> d.kind, amount |-> d.amount,
                   floor |-> d.floor, callee |-> d.callee, by |-> d.by,
                   seq |-> req[r].seq, created |-> now,
                   expires |-> req[r].expires, status |-> "open"]
       IN  /\ row.expires > row.created
           /\ SlotFree(Expired({d.treasury}), d.treasury)
           /\ \A i \in DOMAIN rows : Hash(rows[i]) # Hash(row)
           /\ rows' = Append(Expired({d.treasury}), row)
    /\ sigs' = Append(sigs, {})
    /\ ledger' = Append(ledger, "none")
    /\ Goto(r, Idle)
    /\ UNCHANGED <<account, flight, now, pins>>

--------------------------------------------------------------------------------
(* Approving. *)
Weight(set, S) == MapThenSumSet(LAMBDA k : set.weight[k], S)
SignersOf(t) == {k \in Keys : account[t].set.weight[k] > 0}

(* Keeps the signatures of keys that are signers of the account now. *)
Approve(r, id, keys) ==
    /\ At(r, "idle")
    /\ rows[id].status = "open"
    /\ LET attributed == keys \cap SignersOf(rows[id].treasury)
       IN  attributed # {} /\ Goto(r, [pc |-> "sign", id |-> id, keys |-> attributed])
    /\ UNCHANGED <<store, network, now, pins>>

(* One transaction per signature, the row locked; a closed or outlived         *)
(* proposal refuses it, and ends the request (Quit).                          *)
AddSignature(r, k) ==
    /\ At(r, "sign") /\ k \in req[r].keys
    /\ LET id == req[r].id
           left == req[r].keys \ {k}
       IN  /\ rows[id].status = "open" /\ now < rows[id].expires
           /\ sigs' = [sigs EXCEPT ![id] = @ \cup {k}]
           /\ Goto(r, IF left = {} THEN [pc |-> "view", id |-> id]
                      ELSE [pc |-> "sign", id |-> id, keys |-> left])
    /\ UNCHANGED <<rows, network, now, pins>>

(* LoadProposal expires what is stale before it reads anything. *)
View(r) ==
    /\ At(r, "view")
    /\ ExpireProposals /\ Goto(r, Idle)
    /\ UNCHANGED <<sigs, network, now, pins>>

--------------------------------------------------------------------------------
(* Commands about a proposal, of a classic treasury: those about one held by   *)
(* a contract go down its own road.  A treasury named in the text, and not as  *)
(* an option, says which road and is then not heard again.                     *)
Names == Treasuries \cup Vaults \cup {None}
byKind(org, name) == Linked(org) \cap Vaults = {} \/ name \in Linked(org) \cap Treasuries

(* By its number, or the open one of the treasury (OpenProposal). *)
namedProposal(org, name, n) ==
    IF n # 0 THEN {i \in DOMAIN rows : i = n /\ OrgOf[rows[i].treasury] = org}
    ELSE {i \in DOMAIN rows : rows[i].treasury \in soleTreasury(org, name) /\ rows[i].status = "open"}

(* What the words of a command may come to. *)
Findable(org) ==
    {i \in DOMAIN rows : \E name \in Names, typed \in BOOLEAN : \E n \in {0, i} :
        byKind(org, name) /\ i \in namedProposal(org, IF typed THEN None ELSE name, n)}
Found(m, cmd, id) == AtLeast(m, proposalCommands[cmd]) /\ id \in Findable(Home[m])

(* /approve loads the proposal, and with it expires what is stale; it hands    *)
(* out a link if it is open.  /proposals lists nothing past its window as      *)
(* open.                                                                       *)
approve(m, id) ==
    /\ Found(m, "approve", id) /\ ExpireProposals
    /\ UNCHANGED <<sigs, req, network, now, pins>>
proposals(m) ==
    /\ AtLeast(m, proposalCommands.proposals) /\ ExpireProposals
    /\ UNCHANGED <<sigs, req, network, now, pins>>

--------------------------------------------------------------------------------
(* Executing: from chat, or from the page behind a link (handleExecute).       *)
ExecuteProposal(r, id) ==
    /\ At(r, "idle")
    /\ ExpireProposals
    /\ Goto(r, IF rows'[id].status = "open" THEN [pc |-> "loaded", id |-> id] ELSE Idle)
    /\ UNCHANGED <<sigs, network, now, pins>>

(* /execute loads it once more than ExecuteProposal does, just before: the     *)
(* later load is the one that decides.                                         *)
execute(r, m, id) == Found(m, "execute", id) /\ ExecuteProposal(r, id)

Ready(id) ==
    LET set == account[rows[id].treasury].set
    IN  set.medium > 0 /\ Weight(set, sigs[id] \cap SignersOf(rows[id].treasury)) >= set.medium

SequenceMoved(id) == account[rows[id].treasury].seq >= rows[id].seq

SequenceGuard(r) ==
    /\ At(r, "loaded") /\ Ready(req[r].id)
    /\ Goto(r, IF SequenceMoved(req[r].id)
               THEN [pc |-> "resolve", id |-> req[r].id, as |-> "failed"]
               ELSE [pc |-> "rebuild", id |-> req[r].id])
    /\ UNCHANGED <<store, network, now, pins>>

(* The signatures stored by now go on the envelope, and no later ones.  Then   *)
(* a swap asks the market, a call looks its contract up, and the rest is       *)
(* submitted; calls and restores only while they are on.                       *)
ToSubmit(id, keys, seen) == [pc |-> "submit", id |-> id, keys |-> keys, seen |-> seen]
applySignatures(r) ==
    /\ At(r, "rebuild")
    /\ LET id == req[r].id
           next(pc) == [pc |-> pc, id |-> id, keys |-> sigs[id]]
       IN  Goto(r, CASE rows[id].kind = "dex" -> next("quote")
                     [] rows[id].kind = "invoke" -> next("callee")
                     [] rows[id].kind = "restore" /\ ~ContractCalls -> Idle
                     [] OTHER -> ToSubmit(id, sigs[id], None))
    /\ UNCHANGED <<store, network, now, pins>>

(* A market that moved leaves the swap open, its signatures unspent. *)
Requote(r) ==
    /\ At(r, "quote")
    /\ \E paths \in Markets, asked \in BOOLEAN :
         Goto(r, IF stillDelivers(paths, asked, rows[req[r].id].floor)
                 THEN ToSubmit(req[r].id, req[r].keys, None) ELSE Idle)
    /\ UNCHANGED <<store, network, now, pins>>

(* The pin in force now, which need not be the one the call was proposed       *)
(* under; then what the contract runs.                                         *)
LookUpCallee(r) ==
    /\ At(r, "callee") /\ ContractCalls
    /\ LET p == rows[req[r].id]
       IN  \E pin \in allowedWhere(OrgOf[p.treasury], p.callee) :
             Goto(r, [pc |-> "pinned", id |-> req[r].id, keys |-> req[r].keys, pin |-> pin])
    /\ UNCHANGED <<store, network, now, pins>>
PinnedStill(r) ==
    /\ At(r, "pinned")
    /\ LET c == rows[req[r].id].callee
       IN  /\ checkPinned(c, req[r].pin)
           /\ Goto(r, ToSubmit(req[r].id, req[r].keys, ContractExecutable(c)))
    /\ UNCHANGED <<store, network, now, pins>>

(* The network: an envelope it takes needs its sequence number to be next, its *)
(* time not over, the weight, and no signature of a key that does not count.   *)
Authorised(id, S) ==
    LET set == account[rows[id].treasury].set
    IN  S \subseteq SignersOf(rows[id].treasury) /\ Weight(set, S) >= set.medium
Valid(id, S) ==
    /\ account[rows[id].treasury].seq + 1 = rows[id].seq
    /\ now <= rows[id].expires
    /\ Authorised(id, S)
Refusals(id, S) ==
    {"tx_insufficient_fee"}
    \cup (IF SequenceMoved(id) THEN {"tx_bad_seq"} ELSE {})
    \cup (IF now > rows[id].expires THEN {"tx_too_late"} ELSE {})
    \cup (IF Authorised(id, S) THEN {} ELSE {"tx_bad_auth"})

\* Mutant: any refusal is final.
Spent_Always(result) == TRUE
Spent(result) == result \in {"tx_failed", "tx_bad_seq", "tx_too_late"}

(* The network queues the envelope, or has it already; or the request is lost  *)
(* on the way.                                                                *)
Submit(r) ==
    /\ At(r, "submit")
    /\ LET id == req[r].id
       IN  /\ \/ /\ ledger[id] = "none" /\ Valid(id, req[r].keys)
                 /\ \A f \in flight : f.id # id
                 /\ flight' = flight \cup {[id |-> id, sigs |-> req[r].keys]}
              \/ UNCHANGED flight
           /\ Goto(r, [pc |-> "waiting", id |-> id])
    /\ UNCHANGED <<store, account, ledger, now, pins>>

\* Mutant: resolves to open what it means to leave open.
Refused_Open(r) ==
    /\ At(r, "submit")
    /\ LET id == req[r].id
       IN  /\ ledger[id] = "none"
           /\ \E result \in Refusals(id, req[r].keys) :
                Goto(r, [pc |-> "resolve", id |-> id,
                         as |-> IF ~Spent(result) THEN "open"
                                ELSE IF result = "tx_too_late" THEN "expired" ELSE "failed"])
    /\ UNCHANGED <<store, network, now, pins>>

(* refused: a spent envelope closes the proposal, any other leaves it open.    *)
(* The Soroban path closes nothing on a refusal.                              *)
Refused(r) ==
    /\ At(r, "submit")
    /\ LET id == req[r].id
       IN  /\ ledger[id] = "none"
           /\ \E result \in Refusals(id, req[r].keys) :
                Goto(r, IF rows[id].kind \in Classic /\ Spent(result)
                        THEN [pc |-> "resolve", id |-> id,
                              as |-> IF result = "tx_too_late" THEN "expired" ELSE "failed"]
                        ELSE Idle)
    /\ UNCHANGED <<store, network, now, pins>>

(* The submission answers once the envelope is on the ledger: executed, or     *)
(* tx_failed for a classic one and Failed for a contract call.                *)
Answered(r) ==
    /\ At(r, "waiting") /\ ledger[req[r].id] # "none"
    /\ Goto(r, [pc |-> "resolve", id |-> req[r].id,
                as |-> IF ledger[req[r].id] = "ok" THEN "executed" ELSE "failed"])
    /\ UNCHANGED <<store, network, now, pins>>

(* No answer: ask Horizon for the hash.  A Soroban call gets there when the    *)
(* RPC no longer covers its window.                                           *)
Unanswered(r) ==
    /\ At(r, "waiting")
    /\ Goto(r, [pc |-> "lookup", id |-> req[r].id])
    /\ UNCHANGED <<store, network, now, pins>>

\* Mutant: does not tell found from not found.
LookupTransaction_Found(r) ==
    /\ At(r, "lookup")
    /\ Goto(r, [pc |-> "resolve", id |-> req[r].id, as |-> "executed"])
    /\ UNCHANGED <<store, network, now, pins>>

(* Found counts as landed, whatever became of it.  Not found settles nothing,  *)
(* and the proposal stays open.                                               *)
LookupTransaction(r) ==
    /\ At(r, "lookup")
    /\ Goto(r, IF ledger[req[r].id] # "none"
               THEN [pc |-> "resolve", id |-> req[r].id, as |-> "executed"] ELSE Idle)
    /\ UNCHANGED <<store, network, now, pins>>

(* The compare-and-set that closes a proposal. *)
ResolveProposal(r) ==
    /\ At(r, "resolve")
    /\ LET id == req[r].id
       IN  rows' = [rows EXCEPT ![id].status = IF @ = "open" THEN req[r].as ELSE @]
    /\ Goto(r, Idle)
    /\ UNCHANGED <<sigs, network, now, pins>>

(* Withdrawing, by whoever proposed it or an admin. *)
CancelProposal(r, id, m) ==
    /\ At(r, "idle")
    /\ ExpireProposals
    /\ Goto(r, IF rows'[id].status = "open" /\ (AtLeast(m, "admin") \/ rows[id].by = m)
               THEN [pc |-> "resolve", id |-> id, as |-> "cancelled"] ELSE Idle)
    /\ UNCHANGED <<sigs, network, now, pins>>
cancel(r, m, id) == Found(m, "cancel", id) /\ CancelProposal(r, id, m)

(* /contract allow: what it runs is read, then recorded as its pin. *)
contractAllow(r, m, c) ==
    /\ At(r, "idle") /\ AtLeast(m, contractCommands.contract) /\ ContractCalls
    /\ Goto(r, [pc |-> "allow", org |-> Home[m], callee |-> c, pin |-> ContractExecutable(c)])
    /\ UNCHANGED <<store, network, now, pins>>
Allow(r) ==
    /\ At(r, "allow") /\ AllowContract(req[r].org, req[r].callee, req[r].pin)
    /\ Goto(r, Idle)
    /\ UNCHANGED <<store, network, now>>

(* /contract remove. *)
contractRemove(m, c) ==
    /\ AtLeast(m, contractCommands.contract) /\ DisallowContract(Home[m], c)
    /\ UNCHANGED <<store, req, network, now>>

(* A request ends early: a check refuses, a read or a statement fails, the     *)
(* caller goes away, the process restarts.                                    *)
Quit(r) ==
    /\ ~At(r, "idle")
    /\ Goto(r, Idle)
    /\ UNCHANGED <<store, network, now, pins>>

\* Mutant: the timer is never started.
Sweep_Never == FALSE /\ UNCHANGED vars

(* sweepProposals, on its timer. *)
Sweep ==
    /\ ExpireProposals
    /\ UNCHANGED <<sigs, req, network, now, pins>>

--------------------------------------------------------------------------------
(* The world outside. *)

(* A queued envelope reaches a ledger; its operations succeed or fail there.   *)
(* One that never does is one this is not taken for.                          *)
Include(f) ==
    /\ f \in flight /\ ledger[f.id] = "none" /\ Valid(f.id, f.sigs)
    /\ account' = [account EXCEPT ![rows[f.id].treasury].seq = rows[f.id].seq]
    /\ \E result \in {"ok", "failed"} : ledger' = [ledger EXCEPT ![f.id] = result]
    /\ flight' = flight \ {f}
    /\ UNCHANGED <<store, req, now, pins>>

(* The code of a contract is replaced by those who may. *)
Upgrade(c, new) == Replace(c, new) /\ UNCHANGED <<store, req, network, now>>

(* The treasury transacts by other means. *)
Foreign(t) ==
    /\ account[t].seq < MaxSeq
    /\ account' = [account EXCEPT ![t].seq = @ + 1]
    /\ UNCHANGED <<store, req, flight, ledger, now, pins>>

(* Its signers change. *)
ChangeSigners(t, set) ==
    /\ account[t].set # set
    /\ account' = [account EXCEPT ![t].set = set]
    /\ UNCHANGED <<store, req, flight, ledger, now, pins>>

Tick ==
    /\ now < MaxTime
    /\ now' = now + 1
    /\ UNCHANGED <<store, req, network, pins>>

Init ==
    /\ rows = <<>> /\ sigs = <<>> /\ ledger = <<>>
    /\ req = [r \in Requests |-> Idle]
    /\ account \in [Treasuries -> [seq: {0}, set: SignerSets]]
    /\ flight = {}
    /\ now = 0
    /\ AllowlistInit

Ids == 1..MaxProposals
AskAny(r) ==
    \E m \in Members, name \in Names, ask \in Asks :
        pay(r, m, name, ask) \/ trust(r, m, name, ask) \/ swap(r, m, name, ask)
        \/ invoke(r, m, name, ask) \/ restore(r, m, name, ask)
Serve(r) ==
    \/ AskAny(r) \/ ProposeInvoke(r) \/ ProposeRestore(r)
    \/ CheckWorkspaceDay(r) \/ CheckDeploymentDay(r) \/ Build(r) \/ CreateProposal(r)
    \/ \E id \in DOMAIN rows, keys \in Handovers : Approve(r, id, keys)
    \/ \E k \in Keys : AddSignature(r, k)
    \/ View(r)
    \/ \E id \in DOMAIN rows, m \in Members : execute(r, m, id) \/ cancel(r, m, id)
    \/ \E id \in DOMAIN rows : ExecuteProposal(r, id)
    \/ SequenceGuard(r) \/ applySignatures(r) \/ Requote(r) \/ LookUpCallee(r) \/ PinnedStill(r)
    \/ Submit(r) \/ Refused(r) \/ Answered(r) \/ Unanswered(r)
    \/ LookupTransaction(r) \/ ResolveProposal(r)
    \/ \E m \in Members, c \in Callees : contractAllow(r, m, c)
    \/ Allow(r)
    \/ Quit(r)
Statements ==
    \/ \E m \in Members : proposals(m)
    \/ \E id \in DOMAIN rows, m \in Members : approve(m, id)
    \/ \E m \in Members, c \in Callees : contractRemove(m, c)
World ==
    \/ \E f \in flight : Include(f)
    \/ \E t \in Treasuries : Foreign(t)
    \/ \E t \in Treasuries, set \in SignerSets : ChangeSigners(t, set)
    \/ \E c \in Callees, new \in Codes : Upgrade(c, new)
    \/ Tick
Next == (\E r \in Requests : Serve(r)) \/ Statements \/ Sweep \/ World

Spec == Init /\ [][Next]_vars
(* The sweep runs every minute for as long as the process does, and time passes. *)
FairSpec == Spec /\ WF_vars(Sweep) /\ WF_vars(Tick)

--------------------------------------------------------------------------------
(* Type correctness of the tables, the requests and the network's view. *)
TypeOK ==
    /\ rows \in Seq(Row) /\ Len(rows) <= MaxProposals
    /\ sigs \in Seq(SUBSET Keys) /\ Len(sigs) = Len(rows)
    /\ ledger \in Seq({"none", "ok", "failed"}) /\ Len(ledger) = Len(rows)
    /\ req \in [Requests -> Request]
    /\ \A r \in Requests : "id" \in DOMAIN req[r] => req[r].id \in DOMAIN rows
    /\ account \in [Treasuries -> Account]
    /\ flight \subseteq [id: DOMAIN rows, sigs: SUBSET Keys]
    /\ now \in 0..MaxTime
    /\ AllowlistTypeOK

(* Nothing is recorded as executed on the strength of a lost answer: the       *)
(* envelope of every executed proposal is on the ledger, however requests      *)
(* raced, timed out or restarted (api/proposal.go ExecuteProposal,             *)
(* settlement.go Submit, resolveAmbiguous).                                    *)
ExecutedIsOnLedger ==
    \A i \in DOMAIN rows : rows[i].status = "executed" => ledger[i] # "none"

(* A proposal is recorded as failed only once its envelope is past saving: if  *)
(* it has not landed by then it never will, so what a signer set or a fee put  *)
(* off is never written off (settlement.go Rejection.Spent, api/proposal.go    *)
(* refused and the sequence guard).                                            *)
FailedIsDead ==
    [][\A i \in DOMAIN rows :
         rows[i].status = "failed" /\ ledger[i] # "ok" => ledger'[i] # "ok"]_vars

(* No call is handed to the network while its contract runs code its           *)
(* workspace has never pinned, however long the signatures took and whatever   *)
(* was allowed, removed and upgraded meanwhile; unless it was replaced after    *)
(* the very request that submits it had looked (api/invoke.go checkPinned,     *)
(* api/proposal.go:454).                                                       *)
UnseenCodeIsRefused ==
    [][\A f \in flight' \ flight :
         LET p == rows[f.id]
         IN  p.kind = "invoke" =>
               \/ code[p.callee] \in reviewed[OrgOf[p.treasury]][p.callee]
               \/ \E r \in Requests :
                    /\ At(r, "submit") /\ req[r].id = f.id
                    /\ req[r].seen # code[p.callee]]_vars

(* The daily ceilings are read without a lock, so racing requests may pass     *)
(* them together; but never by more than one payment for each request beyond   *)
(* the first (rails.go checkSpend, workspace.go ProposedSince).                *)
Racing == Cardinality(Requests) - 1
Committed(T) ==
    MapThenSumSet(LAMBDA i : rows[i].amount,
        {i \in DOMAIN rows : /\ rows[i].treasury \in T /\ now - rows[i].created < Day
                             /\ rows[i].status \notin {"failed", "cancelled", "expired"}})
CeilingsHold ==
    /\ \A org \in Orgs :
         LET p == Policy[org]
         IN  p.Daily > 0 /\ p.PerPayment > 0 =>
               Committed(TreasuriesOf(org)) <= p.Daily + Racing * p.PerPayment
    /\ MaxDaily > 0 /\ MaxPayment > 0 =>
         Committed(Treasuries) <= MaxDaily + Racing * MaxPayment

(* No proposal holds its treasury's one slot for good: each is closed in the   *)
(* end, though every request that touches it may die half way (app/sweep.go,   *)
(* store/proposal.go ExpireProposals).                                         *)
EveryProposalCloses ==
    \A i \in Ids : (i \in DOMAIN rows) ~> (i \in DOMAIN rows /\ rows[i].status # "open")

--------------------------------------------------------------------------------
(* Stated in the source; refuted by the runs that check them. *)

(* api/proposal.go:519-522: after an ambiguous submission the next attempt     *)
(* finds the transaction on chain or does not; marking it failed would invite  *)
(* a second envelope for a payment that may already have landed.              *)
FailedMeansNotPaid ==
    \A i \in DOMAIN rows : rows[i].status = "failed" => ledger[i] # "ok"
================================================================================
