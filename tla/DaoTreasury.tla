------------------------------ MODULE DaoTreasury ------------------------------
(***************************************************************************)
(* The Soroban contract contracts/dao-treasury: a treasury its members     *)
(* vote in, with no admin over it.  One action per entry point that        *)
(* changes state.  A refused call reverts everything it wrote, so a        *)
(* refusal is a guard that is not met.  Rent (keep, keep_alive, bump) does *)
(* not change what the contract decides and is left out.                   *)
(***************************************************************************)
EXTENDS Integers, Sequences, FiniteSets

CONSTANTS
    Accounts,     \* addresses that are, or may become, members
    Recipients,   \* addresses that may be paid
    Tokens,       \* token contracts
    Actions,      \* what may be proposed: a subset of ActionType
    Foundings,    \* the weight maps a treasury may be set up with
    Policies,     \* the policies it may be set up with
    Amounts,      \* amounts deposited, or spent without a proposal
    U32Max,       \* the largest u32: member weights and tallies saturate at it
    MaxProposals, \* bound: proposals opened
    MaxTime,      \* bound: ledger timestamps run over 0..MaxTime
    MaxBalance    \* bound: deposits stop here

VARIABLES
    policy,       \* Key::Policy
    weight,       \* Key::Member(a); 0 where there is no entry
    members,      \* Key::Members, the list, as a set
    allowed,      \* the recipients with a Key::Allowed entry
    allowlist,    \* Key::Allowlist, the list, as a set
    proposals,    \* Key::Proposal(id) at index id; Key::NextId is Len + 1
    voted,        \* Key::Voted(id, a), with the weight the Voted event carries
    window,       \* Key::Window
    balance,      \* what the treasury holds of each token (the token's state)
    now,          \* env.ledger().timestamp()
    history,      \* what the events say of each proposal; read by no action
    spends        \* what the Spent events say was spent at each time; likewise

rules == <<policy, weight, members, allowed, allowlist>>
vars  == <<rules, proposals, voted, window, balance, now, history, spends>>

FULL_BPS == 10000
LONGEST_PERIOD == 365 * 86400

Weights == 0..U32Max
Policy ==
    [quorum_bps: Nat, approval_bps: Nat, voting_period: Nat, timelock: Nat,
     spend_limit: Int, spend_window: Nat]
ActionType ==
    [kind: {"Pay"}, token: Tokens, to: Recipients, amount: Int]
    \cup [kind: {"SetPolicy"}, policy: Policy]
    \cup [kind: {"SetMember"}, address: Accounts, weight: Weights]
    \cup [kind: {"AllowRecipient", "DenyRecipient"}, to: Recipients]
    \cup [kind: {"Revoke"}, target: Nat]
Status == {"Open", "Passed", "Executed", "Rejected", "Cancelled"}
Proposal ==
    [proposer: Accounts, action: Actions, status: Status, closes_at: Nat,
     executable_at: Nat, yes: Weights, no: Weights]
Ballot == [cast: {"none", "for", "against"}, weight: Weights]
\* No verdict yet, and no window opened yet.
NEVER == -1
Window == [start: Int, spent: Int]
\* The wait the action would have had when the proposal was opened, when it was
\* decided, and the wait it had by then.
Record == [openWait: Nat, decidedAt: Int, decidedWait: Nat]

ASSUME ConstantsAssumption ==
    /\ IsFiniteSet(Accounts)
    /\ Actions \subseteq ActionType
    /\ Foundings \subseteq [Accounts -> Weights]
    /\ Policies \subseteq Policy
    /\ Amounts \subseteq Int
    /\ U32Max \in Nat \ {0}
    /\ MaxProposals \in Nat
    /\ MaxTime \in Nat
    /\ MaxBalance \in Nat

--------------------------------------------------------------------------------
(* u32 arithmetic: saturating_add and saturating_sub. *)
Sat(n) == IF n > U32Max THEN U32Max ELSE n
SatAdd(a, b) == Sat(a + b)
SatSub(a, b) == IF a < b THEN 0 ELSE a - b
Lesser(a, b) == IF a < b THEN a ELSE b

(* A voter of weight w has the unit votes <<voter, 1>> .. <<voter, w>>, so the *)
(* sum of some voters' weights is the number of their unit votes.              *)
UnitVotes(S, w) == UNION {{m} \X (1..w[m]) : m \in S}
total_weight == Sat(Cardinality(UnitVotes(members, weight)))

(* total * bps / 10000, rounded up. *)
needed(total, bps) ==
    Lesser((total * bps + FULL_BPS - 1) \div FULL_BPS, total)

check_policy(p) ==
    /\ p.quorum_bps \in 1..FULL_BPS
    /\ p.approval_bps \in (FULL_BPS \div 2 + 1)..FULL_BPS
    /\ p.voting_period \in 1..LONGEST_PERIOD
    /\ p.timelock <= LONGEST_PERIOD
    /\ p.spend_window <= LONGEST_PERIOD
    /\ p.spend_limit >= 0
    /\ p.spend_limit > 0 => p.spend_window > 0

can_replace(p) ==
    check_policy(p) /\ needed(total_weight, p.quorum_bps) <= total_weight

\* Mutant: anybody may leave.
can_set_member_Anybody(m, w) == TRUE
can_set_member(m, w) ==
    LET resulting == SatAdd(SatSub(total_weight, weight[m]), w)
    IN  resulting # 0 /\ needed(resulting, policy.quorum_bps) <= resulting

restricts(action) == action.kind \in {"DenyRecipient", "Revoke"}
\* Mutant: everything waits.
wait_Always(p, action) == p.timelock
wait(p, action) == IF restricts(action) THEN 0 ELSE p.timelock

\* Mutant: revokes whatever there is.
revocable_Anything(id) == id \in DOMAIN proposals
revocable(id) ==
    id \in DOMAIN proposals /\ proposals[id].status \in {"Open", "Passed"}

check(action) ==
    CASE action.kind = "Pay"       -> action.amount > 0 /\ action.to \in allowed
      [] action.kind = "SetPolicy" -> check_policy(action.policy)
      [] action.kind = "SetMember" -> can_set_member(action.address, action.weight)
      [] action.kind = "Revoke"    -> revocable(action.target)
      [] OTHER                     -> TRUE

\* Mutant: half of what was cast is enough.
closed_outcome_Half(pol, total, yes, no) ==
    LET cast == SatAdd(yes, no)
    IN  IF cast < needed(total, pol.quorum_bps) \/ 2 * yes < cast
        THEN "Rejected" ELSE "Passed"
closed_outcome(pol, total, yes, no) ==
    LET cast == SatAdd(yes, no)
    IN  IF cast < needed(total, pol.quorum_bps)
           \/ yes < needed(cast, pol.approval_bps)
        THEN "Rejected" ELSE "Passed"

\* Mutant: gives up one vote too soon.
early_outcome_TooSoon(pol, total, yes, no) ==
    LET mark == needed(total, pol.approval_bps)
        cast == SatAdd(yes, no)
    IN  IF total = 0 THEN "Open"
        ELSE IF yes >= mark /\ cast >= needed(total, pol.quorum_bps) THEN "Passed"
        ELSE IF SatSub(total, no) <= mark THEN "Rejected"
        ELSE "Open"
(* "Open" where the code returns None. *)
early_outcome(pol, total, yes, no) ==
    LET mark == needed(total, pol.approval_bps)
        cast == SatAdd(yes, no)
    IN  IF total = 0 THEN "Open"
        ELSE IF yes >= mark /\ cast >= needed(total, pol.quorum_bps) THEN "Passed"
        ELSE IF SatSub(total, no) < mark THEN "Rejected"
        ELSE "Open"

outcome(p) ==
    IF now >= p.closes_at
    THEN closed_outcome(policy, total_weight, p.yes, p.no)
    ELSE early_outcome(policy, total_weight, p.yes, p.no)

\* Mutant: forgets the wait.
settle_AtOnce(p) ==
    IF p.status # "Open" THEN p
    ELSE IF outcome(p) = "Passed"
         THEN [p EXCEPT !.status = "Passed", !.executable_at = now]
         ELSE [p EXCEPT !.status = outcome(p)]

(* The proposal as settle leaves it. *)
settle(p) ==
    IF p.status # "Open" THEN p
    ELSE IF outcome(p) = "Passed"
         THEN [p EXCEPT !.status = "Passed",
                        !.executable_at = Lesser(now + wait(policy, p.action), @)]
         ELSE [p EXCEPT !.status = outcome(p)]

(* The Decided event, if settling p published one. *)
Noted(h, before, after) ==
    IF before.status = "Open" /\ after.status # "Open"
    THEN [h EXCEPT !.decidedAt = now,
                   !.decidedWait = wait(policy, before.action)]
    ELSE h

--------------------------------------------------------------------------------
(* policy::setup, in the transaction that creates the contract. *)
Init ==
    /\ policy \in Policies /\ check_policy(policy)
    /\ weight \in Foundings
    /\ members = {a \in Accounts : weight[a] > 0} /\ members # {}
    /\ needed(total_weight, policy.quorum_bps) <= total_weight
    /\ allowed \in SUBSET Recipients /\ allowlist = allowed
    /\ proposals = <<>> /\ voted = <<>> /\ history = <<>>
    /\ window = [start |-> NEVER, spent |-> 0]
    /\ balance = [t \in Tokens |-> 0]
    /\ now = 0
    /\ spends = [t \in 0..MaxTime |-> 0]

Propose(proposer, action) ==
    /\ Len(proposals) < MaxProposals
    /\ weight[proposer] # 0
    /\ check(action)
    /\ LET closes_at == now + policy.voting_period
       IN  proposals' = Append(proposals,
             [proposer |-> proposer, action |-> action, status |-> "Open",
              closes_at |-> closes_at,
              executable_at |-> closes_at + wait(policy, action),
              yes |-> 0, no |-> 0])
    /\ voted' = Append(voted, [a \in Accounts |-> [cast |-> "none", weight |-> 0]])
    /\ history' = Append(history, [openWait |-> wait(policy, action),
                                   decidedAt |-> NEVER, decidedWait |-> 0])
    /\ UNCHANGED <<rules, window, balance, now, spends>>

\* Mutant: does not look for an earlier vote.
Vote_Again(voter, id, approve) ==
    /\ weight[voter] # 0
    /\ id \in DOMAIN proposals
    /\ proposals[id].status = "Open" /\ now < proposals[id].closes_at
    /\ voted' = [voted EXCEPT ![id][voter] =
                   [cast |-> IF approve THEN "for" ELSE "against",
                    weight |-> weight[voter]]]
    /\ LET p == proposals[id]
           counted == IF approve
                      THEN [p EXCEPT !.yes = SatAdd(@, weight[voter])]
                      ELSE [p EXCEPT !.no = SatAdd(@, weight[voter])]
       IN  /\ proposals' = [proposals EXCEPT ![id] = settle(counted)]
           /\ history' = [history EXCEPT ![id] = Noted(@, counted, settle(counted))]
    /\ UNCHANGED <<rules, window, balance, now, spends>>

(* A vote counts with the weight its voter has now, then may settle the matter. *)
Vote(voter, id, approve) ==
    /\ weight[voter] # 0
    /\ id \in DOMAIN proposals
    /\ proposals[id].status = "Open" /\ now < proposals[id].closes_at
    /\ voted[id][voter].cast = "none"
    /\ voted' = [voted EXCEPT ![id][voter] =
                   [cast |-> IF approve THEN "for" ELSE "against",
                    weight |-> weight[voter]]]
    /\ LET p == proposals[id]
           counted == IF approve
                      THEN [p EXCEPT !.yes = SatAdd(@, weight[voter])]
                      ELSE [p EXCEPT !.no = SatAdd(@, weight[voter])]
       IN  /\ proposals' = [proposals EXCEPT ![id] = settle(counted)]
           /\ history' = [history EXCEPT ![id] = Noted(@, counted, settle(counted))]
    /\ UNCHANGED <<rules, window, balance, now, spends>>

Tally(id) ==
    /\ id \in DOMAIN proposals
    /\ proposals[id].status = "Open"
    /\ settle(proposals[id]).status # "Open"
    /\ proposals' = [proposals EXCEPT ![id] = settle(@)]
    /\ history' = [history EXCEPT ![id] = Noted(@, proposals[id], settle(proposals[id]))]
    /\ UNCHANGED <<rules, voted, window, balance, now, spends>>

(* What every kind of execute does first: settle, check the wait, mark. *)
Executable(id) ==
    /\ id \in DOMAIN proposals
    /\ settle(proposals[id]).status = "Passed"
    /\ now >= settle(proposals[id]).executable_at

Mark(id) ==
    /\ proposals' = [proposals EXCEPT ![id] = [settle(@) EXCEPT !.status = "Executed"]]
    /\ history' = [history EXCEPT ![id] = Noted(@, proposals[id], settle(proposals[id]))]

(* token::transfer out of the treasury: refused without the funds. *)
pay_out(token, amount) ==
    /\ balance[token] >= amount
    /\ balance' = [balance EXCEPT ![token] = @ - amount]

ExecutePay(id) ==
    /\ Executable(id) /\ Mark(id)
    /\ LET a == proposals[id].action
       IN  a.kind = "Pay" /\ a.to \in allowed /\ pay_out(a.token, a.amount)
    /\ UNCHANGED <<rules, voted, window, now, spends>>

ExecuteSetPolicy(id) ==
    /\ Executable(id) /\ Mark(id)
    /\ proposals[id].action.kind = "SetPolicy"
    /\ can_replace(proposals[id].action.policy)
    /\ policy' = proposals[id].action.policy
    /\ UNCHANGED <<weight, members, allowed, allowlist, voted, window, balance, now, spends>>

\* Mutant: leaves a removed member on the list.
set_member_Listed(m, w) ==
    /\ can_set_member(m, w)
    /\ weight' = [weight EXCEPT ![m] = w]
    /\ members' = members \cup {m}

set_member(m, w) ==
    /\ can_set_member(m, w)
    /\ weight' = [weight EXCEPT ![m] = w]
    /\ members' = IF w = 0 THEN members \ {m} ELSE members \cup {m}

ExecuteSetMember(id) ==
    /\ Executable(id) /\ Mark(id)
    /\ LET a == proposals[id].action
       IN  a.kind = "SetMember" /\ set_member(a.address, a.weight)
    /\ UNCHANGED <<policy, allowed, allowlist, voted, window, balance, now, spends>>

ExecuteAllow(id) ==
    /\ Executable(id) /\ Mark(id)
    /\ LET a == proposals[id].action
       IN  /\ a.kind = "AllowRecipient"
           /\ allowed' = allowed \cup {a.to}
           /\ allowlist' = allowlist \cup {a.to}
    /\ UNCHANGED <<policy, weight, members, voted, window, balance, now, spends>>

ExecuteDeny(id) ==
    /\ Executable(id) /\ Mark(id)
    /\ LET a == proposals[id].action
       IN  /\ a.kind = "DenyRecipient"
           /\ allowed' = allowed \ {a.to}
           /\ allowlist' = allowlist \ {a.to}
    /\ UNCHANGED <<policy, weight, members, voted, window, balance, now, spends>>

(* revocable sees this proposal already marked executed, so not itself. *)
ExecuteRevoke(id) ==
    /\ Executable(id)
    /\ proposals[id].action.kind = "Revoke"
    /\ LET target == proposals[id].action.target
       IN  /\ revocable(target) /\ target # id
           /\ proposals' = [proposals EXCEPT
                              ![id] = [settle(@) EXCEPT !.status = "Executed"],
                              ![target].status = "Cancelled"]
           /\ history' = [history EXCEPT
                            ![id] = Noted(@, proposals[id], settle(proposals[id]))]
    /\ UNCHANGED <<rules, voted, window, balance, now, spends>>

\* Mutant: withdraws whatever its state.
Cancel_Late(proposer, id) ==
    /\ id \in DOMAIN proposals
    /\ proposals[id].proposer = proposer
    /\ proposals' = [proposals EXCEPT ![id].status = "Cancelled"]
    /\ UNCHANGED <<rules, voted, window, balance, now, history, spends>>

Cancel(proposer, id) ==
    /\ id \in DOMAIN proposals
    /\ proposals[id].status = "Open"
    /\ proposals[id].proposer = proposer
    /\ proposals' = [proposals EXCEPT ![id].status = "Cancelled"]
    /\ UNCHANGED <<rules, voted, window, balance, now, history, spends>>

\* Mutant: a fresh window every time.
current_Fresh(width) == [start |-> now, spent |-> 0]

(* The window that is open now, or a fresh one. *)
current(width) ==
    IF window.start # NEVER /\ width > 0 /\ now < window.start + width
    THEN window ELSE [start |-> now, spent |-> 0]

\* Mutant: keeps count and ignores it.
Spend_Unlimited(member, token, to, amount) ==
    /\ weight[member] # 0
    /\ amount > 0
    /\ to \in allowed
    /\ policy.spend_limit # 0
    /\ window' = [current(policy.spend_window) EXCEPT !.spent = @ + amount]
    /\ pay_out(token, amount)
    /\ spends' = [spends EXCEPT ![now] = @ + amount]
    /\ UNCHANGED <<rules, proposals, voted, now, history>>

Spend(member, token, to, amount) ==
    /\ weight[member] # 0
    /\ amount > 0
    /\ to \in allowed
    /\ policy.spend_limit # 0
    /\ LET w == current(policy.spend_window)
       IN  /\ w.spent + amount <= policy.spend_limit
           /\ window' = [w EXCEPT !.spent = @ + amount]
    /\ pay_out(token, amount)
    /\ spends' = [spends EXCEPT ![now] = @ + amount]
    /\ UNCHANGED <<rules, proposals, voted, now, history>>

(* The environment: somebody pays in, and ledgers close. *)
Deposit(token, amount) ==
    /\ amount > 0 /\ balance[token] + amount <= MaxBalance
    /\ balance' = [balance EXCEPT ![token] = @ + amount]
    /\ UNCHANGED <<rules, proposals, voted, window, now, history, spends>>

Tick ==
    /\ now < MaxTime
    /\ now' = now + 1
    /\ UNCHANGED <<rules, proposals, voted, window, balance, history, spends>>

Execute(id) ==
    \/ ExecutePay(id) \/ ExecuteSetPolicy(id) \/ ExecuteSetMember(id)
    \/ ExecuteAllow(id) \/ ExecuteDeny(id) \/ ExecuteRevoke(id)

Next ==
    \/ \E a \in Accounts, x \in Actions : Propose(a, x)
    \/ \E a \in Accounts, id \in 1..MaxProposals, v \in BOOLEAN : Vote(a, id, v)
    \/ \E id \in 1..MaxProposals : Tally(id)
    \/ \E id \in 1..MaxProposals : Execute(id)
    \/ \E a \in Accounts, id \in 1..MaxProposals : Cancel(a, id)
    \/ \E a \in Accounts, t \in Tokens, r \in Recipients, n \in Amounts : Spend(a, t, r, n)
    \/ \E t \in Tokens, n \in Amounts : Deposit(t, n)
    \/ Tick

Spec == Init /\ [][Next]_vars

--------------------------------------------------------------------------------
(* Type correctness of the contract's storage. *)
TypeOK ==
    /\ policy \in Policy
    /\ weight \in [Accounts -> Weights]
    /\ members \subseteq Accounts
    /\ allowed \subseteq Recipients /\ allowlist \subseteq Recipients
    /\ proposals \in Seq(Proposal)
    /\ voted \in Seq([Accounts -> Ballot])
    /\ history \in Seq(Record)
    /\ Len(voted) = Len(proposals) /\ Len(history) = Len(proposals)
    /\ Len(proposals) <= MaxProposals
    /\ window \in Window
    /\ balance \in [Tokens -> Nat]
    /\ now \in 0..MaxTime
    /\ spends \in [0..MaxTime -> Nat]

(* The lists the contract reports agree with the entries it decides by:       *)
(* everybody in the member list has weight and nobody else does, and the      *)
(* allowlist is exactly who may be paid (policy.rs set_member, allow, deny).  *)
ListsAgree ==
    /\ members = {a \in Accounts : weight[a] > 0}
    /\ allowlist = allowed

(* No sequence of votes strands the treasury: it always has a member, and     *)
(* its members, if they all agree, pass a proposal at once whatever the       *)
(* policy in force (policy.rs set_member, replace, check; WouldLockOut).      *)
NeverLockedOut ==
    /\ members # {}
    /\ early_outcome(policy, total_weight, total_weight, 0) = "Passed"

(* Every tally is the saturated sum of the weights of the ballots recorded    *)
(* for that side, each voter counted once with the weight they had when they  *)
(* voted, whatever was done to their membership since (proposals.rs vote).    *)
BallotsFor(id, side) ==
    UnitVotes({a \in Accounts : voted[id][a].cast = side},
              [a \in Accounts |-> voted[id][a].weight])
TalliesExact ==
    \A id \in DOMAIN proposals :
        /\ proposals[id].yes = Sat(Cardinality(BallotsFor(id, "for")))
        /\ proposals[id].no = Sat(Cardinality(BallotsFor(id, "against")))

Decided(id) == history[id].decidedAt # NEVER
Approved(id) == proposals[id].status \in {"Passed", "Executed"}

(* A proposal approved after its voting closed was favoured by more than half *)
(* of what was cast, and somebody voted: below u32 saturation no tie and no   *)
(* empty vote ever passes (proposals.rs closed_outcome, policy.rs check).     *)
ClosedMajority ==
    \A id \in DOMAIN proposals :
        LET p == proposals[id]
        IN  /\ Approved(id) /\ history[id].decidedAt >= p.closes_at
            /\ p.yes + p.no <= U32Max
            => p.yes > p.no

(* An approved proposal that needs a wait cannot be carried out before the    *)
(* earlier of its verdict and the end of voting, plus the smaller of the      *)
(* timelocks in force when it was opened and when it was decided              *)
(* (proposals.rs propose, settle, execute).                                   *)
TimelockRuns ==
    \A id \in DOMAIN proposals :
        LET p == proposals[id]
            h == history[id]
        IN  Approved(id) =>
                /\ Decided(id)
                /\ p.executable_at >= Lesser(h.decidedAt, p.closes_at)
                                      + Lesser(h.openWait, h.decidedWait)
                /\ p.status = "Executed" => now >= p.executable_at

(* What can only stop something never waits: once the members have passed a   *)
(* denial or a revocation it can be carried out at once, so that it can land  *)
(* before what it stops (types.rs restricts, proposals.rs wait).              *)
StoppingNeverWaits ==
    \A id \in DOMAIN proposals :
        Approved(id) /\ restricts(proposals[id].action)
            => proposals[id].executable_at <= now

(* A verdict is for good: rejected, cancelled and executed proposals never    *)
(* change again, a passed one is only ever executed or revoked, and neither   *)
(* a proposal's action nor its close ever changes (proposals.rs settle,       *)
(* execute, cancel).                                                          *)
VerdictsStand ==
    [][\A id \in DOMAIN proposals :
         LET p == proposals[id]
             q == proposals'[id]
         IN  /\ p.action = q.action /\ p.closes_at = q.closes_at
             /\ p.status \in {"Rejected", "Cancelled", "Executed"} => q = p
             /\ p.status = "Passed" =>
                  q.status \in {"Passed", "Executed", "Cancelled"}]_vars

(* What early settling claims of one proposal: whichever of the members who   *)
(* have not voted vote, for or against, the vote once closed ends the same.   *)
Unvoted(id) == {a \in members : voted[id][a].cast = "none"}
LastWord(id, verdict) ==
    \A S \in SUBSET Unvoted(id) : \A F \in SUBSET S :
        closed_outcome(policy, total_weight,
            SatAdd(proposals[id].yes, Cardinality(UnitVotes(F, weight))),
            SatAdd(proposals[id].no, Cardinality(UnitVotes(S \ F, weight))))
        = verdict

(* Every ballot is still backed by the weight it was cast with, and the       *)
(* weights do not saturate.                                                   *)
Backed(id) ==
    /\ \A a \in Accounts : voted[id][a].cast # "none" => weight[a] = voted[id][a].weight
    /\ Cardinality(UnitVotes(members, weight)) <= U32Max

(* Settling while voting is open takes nothing from the votes not yet cast:   *)
(* as long as no ballot's weight has been changed under it, no further votes  *)
(* could make the closed vote end differently (proposals.rs early_outcome).   *)
EarlyVerdictIsLast ==
    [][\A id \in DOMAIN proposals :
         /\ proposals[id].status = "Open" /\ now < proposals[id].closes_at
         /\ proposals'[id].status \in {"Passed", "Rejected"}
         /\ Backed(id)'
         => LastWord(id, proposals[id].status)']_vars

(* What was spent without a proposal at the times in lo..hi. *)
SpentIn(lo, hi) ==
    Cardinality(UnitVotes({t \in 0..MaxTime : lo <= t /\ t <= hi}, spends))

(* Under one policy, no stretch of time as long as the spending window ever   *)
(* sees more than twice the limit go out without a proposal, however the      *)
(* payments fall on the windows (spend.rs current, spend).                    *)
SpendsAtMostTwice ==
    \A t \in 0..MaxTime :
        SpentIn(t, t + policy.spend_window - 1) <= 2 * policy.spend_limit

(* The contract keeps its promise: seen from outside, every step is one that  *)
(* TreasuryPromise allows, so the rules change and money leaves only by a     *)
(* proposal carried out or a spend within the limit (lib.rs: nobody stands    *)
(* above the members).                                                        *)
Promise == INSTANCE TreasuryPromise WITH
    Ids <- 1..MaxProposals,
    standing <- [id \in 1..MaxProposals |->
                   IF id \in DOMAIN proposals THEN proposals[id].status ELSE "Unborn"],
    limit <- policy.spend_limit,
    funds <- balance
KeepsPromise == Promise!Spec
================================================================================
