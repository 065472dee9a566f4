--------------------------- MODULE DaoTreasuryProofs ---------------------------
(* Theorems about DaoTreasury, for every value of its constants. *)
EXTENDS DaoTreasury, FiniteSetTheorems, SequenceTheorems, TLAPS

(* Saturating addition stays within u32. *)
LEMMA SatType ==
    ASSUME NEW n \in Nat
    PROVE  Sat(n) \in Weights
  BY ConstantsAssumption DEF Sat, Weights

(* A wait is a natural number, whatever the action. *)
LEMMA WaitType ==
    ASSUME NEW pol \in Policy, NEW action
    PROVE  wait(pol, action) \in Nat
  BY DEF wait, Policy

(* Whatever the rules in force, an outcome is a verdict or none yet. *)
LEMMA OutcomeType ==
    ASSUME NEW p
    PROVE  outcome(p) \in {"Open", "Passed", "Rejected"}
  BY DEF outcome, closed_outcome, early_outcome

(* Settling changes a proposal's status and executable_at, and only if it was *)
(* open.                                                                      *)
LEMMA SettleShape ==
    ASSUME TypeOK, NEW p \in Proposal
    PROVE  /\ settle(p) \in Proposal
           /\ settle(p).action = p.action /\ settle(p).closes_at = p.closes_at
           /\ settle(p).proposer = p.proposer
           /\ settle(p).yes = p.yes /\ settle(p).no = p.no
           /\ p.status # "Open" => settle(p) = p
           /\ p.status = "Open" =>
                /\ settle(p).status = outcome(p)
                /\ settle(p).executable_at =
                     IF outcome(p) = "Passed"
                     THEN Lesser(now + wait(policy, p.action), p.executable_at)
                     ELSE p.executable_at
  <1>1. wait(policy, p.action) \in Nat
    BY WaitType DEF TypeOK
  <1>2. outcome(p) \in {"Open", "Passed", "Rejected"}
    BY OutcomeType
  <1>3. Lesser(now + wait(policy, p.action), p.executable_at) \in Nat
    BY <1>1 DEF TypeOK, Lesser, Proposal
  <1>4. CASE p.status # "Open"
    BY <1>4 DEF settle
  <1>5. CASE p.status = "Open" /\ outcome(p) = "Passed"
    <2>1. settle(p) = [p EXCEPT !.status = "Passed",
             !.executable_at = Lesser(now + wait(policy, p.action), p.executable_at)]
      BY <1>5 DEF settle
    <2> QED BY <2>1, <1>3, <1>5 DEF Proposal, Status
  <1>6. CASE p.status = "Open" /\ outcome(p) # "Passed"
    <2>1. settle(p) = [p EXCEPT !.status = outcome(p)]
      BY <1>6 DEF settle
    <2> QED BY <2>1, <1>2, <1>6 DEF Proposal, Status
  <1> QED BY <1>4, <1>5, <1>6

(* The note taken of a verdict is a history record. *)
LEMMA NotedType ==
    ASSUME TypeOK, NEW h \in Record, NEW p, NEW q
    PROVE  /\ Noted(h, p, q) \in Record
           /\ Noted(h, p, q).openWait = h.openWait
           /\ p.status = "Open" /\ q.status # "Open" =>
                /\ Noted(h, p, q).decidedAt = now
                /\ Noted(h, p, q).decidedWait = wait(policy, p.action)
           /\ ~(p.status = "Open" /\ q.status # "Open") => Noted(h, p, q) = h
  <1>1. wait(policy, p.action) \in Nat
    BY WaitType DEF TypeOK
  <1>2. now \in Int
    BY DEF TypeOK
  <1>3. CASE p.status = "Open" /\ q.status # "Open"
    <2>1. Noted(h, p, q) = [h EXCEPT !.decidedAt = now,
                                     !.decidedWait = wait(policy, p.action)]
      BY <1>3 DEF Noted
    <2> QED BY <2>1, <1>1, <1>2, <1>3 DEF Record
  <1>4. CASE ~(p.status = "Open" /\ q.status # "Open")
    BY <1>4 DEF Noted
  <1> QED BY <1>3, <1>4

(* Replacing one proposal and its record keeps the storage typed. *)
LEMMA Replace ==
    ASSUME TypeOK, NEW id \in DOMAIN proposals, NEW q \in Proposal, NEW h \in Record
    PROVE  /\ [proposals EXCEPT ![id] = q] \in Seq(Proposal)
           /\ Len([proposals EXCEPT ![id] = q]) = Len(proposals)
           /\ [history EXCEPT ![id] = h] \in Seq(Record)
           /\ Len([history EXCEPT ![id] = h]) = Len(history)
  <1>1. id \in 1..Len(proposals) /\ id \in 1..Len(history)
    BY DEF TypeOK
  <1>2. proposals \in Seq(Proposal) /\ history \in Seq(Record)
    BY DEF TypeOK
  <1> QED BY <1>1, <1>2, ExceptSeq

(* What is stored at an id has the type of what is stored. *)
LEMMA Stored ==
    ASSUME TypeOK, NEW id \in DOMAIN proposals
    PROVE  /\ proposals[id] \in Proposal /\ voted[id] \in [Accounts -> Ballot]
           /\ history[id] \in Record
           /\ id \in DOMAIN voted /\ id \in DOMAIN history
           /\ id \in 1..Len(proposals)
  BY DEF TypeOK

(* settle and the note of it, at a stored proposal. *)
LEMMA SettleStored ==
    ASSUME TypeOK, NEW id \in DOMAIN proposals
    PROVE  /\ settle(proposals[id]) \in Proposal
           /\ [settle(proposals[id]) EXCEPT !.status = "Executed"] \in Proposal
           /\ Noted(history[id], proposals[id], settle(proposals[id])) \in Record
  <1>1. settle(proposals[id]) \in Proposal
    BY Stored, SettleShape
  <1>2. Noted(history[id], proposals[id], settle(proposals[id])) \in Record
    BY Stored, NotedType
  <1> QED BY <1>1, <1>2 DEF Proposal, Status

(* Marking a proposal executed keeps the storage typed. *)
LEMMA MarkType ==
    ASSUME TypeOK, NEW id, Executable(id), Mark(id)
    PROVE  /\ proposals' \in Seq(Proposal) /\ history' \in Seq(Record)
           /\ Len(proposals') = Len(proposals) /\ Len(history') = Len(history)
  <1>1. id \in DOMAIN proposals
    BY DEF Executable
  <1> QED BY <1>1, SettleStored, Replace DEF Mark

(* The tally a vote leaves is a proposal. *)
Counted(p, approve, w) ==
    IF approve THEN [p EXCEPT !.yes = SatAdd(@, w)] ELSE [p EXCEPT !.no = SatAdd(@, w)]

(* A counted proposal is a proposal. *)
LEMMA CountedType ==
    ASSUME NEW p \in Proposal, NEW approve \in BOOLEAN, NEW w \in Weights
    PROVE  Counted(p, approve, w) \in Proposal
  <1>1. p.yes + w \in Nat /\ p.no + w \in Nat
    BY ConstantsAssumption DEF Proposal, Weights
  <1>2. SatAdd(p.yes, w) \in Weights /\ SatAdd(p.no, w) \in Weights
    BY <1>1, SatType DEF SatAdd
  <1>3. /\ [p EXCEPT !.yes = SatAdd(@, w)] \in Proposal
        /\ [p EXCEPT !.no = SatAdd(@, w)] \in Proposal
    BY <1>2 DEF Proposal
  <1> QED BY <1>3 DEF Counted

(* Every step keeps the contract's storage typed. *)
LEMMA TypeStep == TypeOK /\ [Next]_vars => TypeOK'
  <1> SUFFICES ASSUME TypeOK, [Next]_vars PROVE TypeOK'
    OBVIOUS
  <1>1. ASSUME NEW m \in Accounts, NEW x \in Actions, Propose(m, x)
        PROVE  TypeOK'
    <2> DEFINE p == [proposer |-> m, action |-> x, status |-> "Open",
                     closes_at |-> now + policy.voting_period,
                     executable_at |-> now + policy.voting_period + wait(policy, x),
                     yes |-> 0, no |-> 0]
               v == [z \in Accounts |-> [cast |-> "none", weight |-> 0]]
               h == [openWait |-> wait(policy, x), decidedAt |-> NEVER, decidedWait |-> 0]
    <2>1. wait(policy, x) \in Nat /\ policy.voting_period \in Nat /\ now \in Nat
      BY WaitType DEF TypeOK, Policy
    <2>2. p \in Proposal
      BY <2>1, ConstantsAssumption DEF Proposal, Status, Weights
    <2>3. v \in [Accounts -> Ballot]
      BY ConstantsAssumption DEF Ballot, Weights
    <2>4. h \in Record
      BY <2>1 DEF Record, NEVER
    <2>5. proposals' = Append(proposals, p) /\ voted' = Append(voted, v)
          /\ history' = Append(history, h)
      BY <1>1 DEF Propose
    <2>6. Len(proposals) < MaxProposals
      BY <1>1 DEF Propose
    <2> HIDE DEF p, v, h
    <2>7. /\ proposals' \in Seq(Proposal) /\ Len(proposals') = Len(proposals) + 1
          /\ voted' \in Seq([Accounts -> Ballot]) /\ Len(voted') = Len(voted) + 1
          /\ history' \in Seq(Record) /\ Len(history') = Len(history) + 1
      BY <2>2, <2>3, <2>4, <2>5 DEF TypeOK
    <2> QED BY <1>1, <2>6, <2>7, ConstantsAssumption DEF TypeOK, Propose, rules
  <1>2. ASSUME NEW m \in Accounts, NEW id \in 1..MaxProposals, NEW ok \in BOOLEAN,
               Vote(m, id, ok)
        PROVE  TypeOK'
    <2> DEFINE c == Counted(proposals[id], ok, weight[m])
               bal == [cast |-> IF ok THEN "for" ELSE "against", weight |-> weight[m]]
    <2>1. id \in DOMAIN proposals /\ weight[m] \in Weights
      BY <1>2 DEF Vote, TypeOK
    <2>2. c \in Proposal
      BY <2>1, Stored, CountedType
    <2>3. bal \in Ballot
      BY <2>1 DEF Ballot
    <2>4. /\ proposals' = [proposals EXCEPT ![id] = settle(c)]
          /\ history' = [history EXCEPT ![id] = Noted(history[id], c, settle(c))]
      BY <1>2 DEF Vote, Counted
    <2>5. voted' = [voted EXCEPT ![id] = [voted[id] EXCEPT ![m] = bal]]
      BY <1>2 DEF Vote
    <2> HIDE DEF c, bal
    <2>6. settle(c) \in Proposal /\ Noted(history[id], c, settle(c)) \in Record
      BY <2>1, <2>2, Stored, SettleShape, NotedType
    <2>7. /\ proposals' \in Seq(Proposal) /\ Len(proposals') = Len(proposals)
          /\ history' \in Seq(Record) /\ Len(history') = Len(history)
      BY <2>1, <2>4, <2>6, Replace
    <2>8. [voted[id] EXCEPT ![m] = bal] \in [Accounts -> Ballot]
      BY <2>1, <2>3, Stored
    <2>9. voted' \in Seq([Accounts -> Ballot]) /\ Len(voted') = Len(voted)
      <3>1. voted \in Seq([Accounts -> Ballot]) /\ id \in 1..Len(voted)
        BY <2>1 DEF TypeOK
      <3> QED BY <3>1, <2>5, <2>8, ExceptSeq
    <2> QED BY <1>2, <2>7, <2>9 DEF TypeOK, Vote, rules
  <1>3. ASSUME NEW id \in 1..MaxProposals, Tally(id)
        PROVE  TypeOK'
    <2>1. id \in DOMAIN proposals
      BY <1>3 DEF Tally
    <2>2. /\ proposals' \in Seq(Proposal) /\ Len(proposals') = Len(proposals)
          /\ history' \in Seq(Record) /\ Len(history') = Len(history)
      BY <1>3, <2>1, SettleStored, Replace DEF Tally
    <2> QED BY <1>3, <2>2 DEF TypeOK, Tally, rules
  <1>4. ASSUME NEW id \in 1..MaxProposals, ExecutePay(id)
        PROVE  TypeOK'
    <2>1. proposals[id].action \in Actions /\ proposals[id].action.kind = "Pay"
      BY <1>4, Stored DEF ExecutePay, Executable, Proposal
    <2>2. proposals[id].action.token \in Tokens /\ proposals[id].action.amount \in Int
      BY <2>1, ConstantsAssumption DEF ActionType
    <2>3. balance' \in [Tokens -> Nat]
      BY <1>4, <2>2 DEF ExecutePay, pay_out, TypeOK
    <2> QED BY <1>4, <2>3, MarkType DEF TypeOK, ExecutePay, rules
  <1>5. ASSUME NEW id \in 1..MaxProposals, ExecuteSetPolicy(id)
        PROVE  TypeOK'
    <2>1. proposals[id].action \in Actions /\ proposals[id].action.kind = "SetPolicy"
      BY <1>5, Stored DEF ExecuteSetPolicy, Executable, Proposal
    <2>2. proposals[id].action.policy \in Policy
      BY <2>1, ConstantsAssumption DEF ActionType
    <2> QED BY <1>5, <2>2, MarkType DEF TypeOK, ExecuteSetPolicy
  <1>6. ASSUME NEW id \in 1..MaxProposals, ExecuteSetMember(id)
        PROVE  TypeOK'
    <2>1. proposals[id].action \in Actions /\ proposals[id].action.kind = "SetMember"
      BY <1>6, Stored DEF ExecuteSetMember, Executable, Proposal
    <2>2. proposals[id].action.address \in Accounts /\ proposals[id].action.weight \in Weights
      BY <2>1, ConstantsAssumption DEF ActionType
    <2>3. weight' \in [Accounts -> Weights] /\ members' \subseteq Accounts
      BY <1>6, <2>2 DEF ExecuteSetMember, set_member, TypeOK
    <2> QED BY <1>6, <2>3, MarkType DEF TypeOK, ExecuteSetMember
  <1>7. ASSUME NEW id \in 1..MaxProposals, ExecuteAllow(id) \/ ExecuteDeny(id)
        PROVE  TypeOK'
    <2>1. /\ proposals[id].action \in Actions
          /\ proposals[id].action.kind \in {"AllowRecipient", "DenyRecipient"}
      BY <1>7, Stored DEF ExecuteAllow, ExecuteDeny, Executable, Proposal
    <2>2. proposals[id].action.to \in Recipients
      BY <2>1, ConstantsAssumption DEF ActionType
    <2>3. Executable(id) /\ Mark(id)
      BY <1>7 DEF ExecuteAllow, ExecuteDeny
    <2> QED BY <1>7, <2>2, <2>3, MarkType DEF TypeOK, ExecuteAllow, ExecuteDeny
  <1>8. ASSUME NEW id \in 1..MaxProposals, ExecuteRevoke(id)
        PROVE  TypeOK'
    <2> DEFINE t == proposals[id].action.target
               q == [settle(proposals[id]) EXCEPT !.status = "Executed"]
               s == [proposals EXCEPT ![id] = q]
               h == Noted(history[id], proposals[id], settle(proposals[id]))
    <2>1. id \in DOMAIN proposals /\ t \in DOMAIN proposals
      BY <1>8 DEF ExecuteRevoke, Executable, revocable
    <2>2. q \in Proposal /\ h \in Record
      BY <2>1, SettleStored
    <2>3. /\ proposals' = [s EXCEPT ![t] = [s[t] EXCEPT !.status = "Cancelled"]]
          /\ history' = [history EXCEPT ![id] = h]
      BY <1>8 DEF ExecuteRevoke
    <2> HIDE DEF t, q, h
    <2>4. s \in Seq(Proposal) /\ Len(s) = Len(proposals)
          /\ history' \in Seq(Record) /\ Len(history') = Len(history)
      BY <2>1, <2>2, <2>3, Replace
    <2> HIDE DEF s
    <2>5. t \in 1..Len(s)
      BY <2>1, <2>4, Stored
    <2>6. [s[t] EXCEPT !.status = "Cancelled"] \in Proposal
      <3>1. s[t] \in Proposal
        BY <2>4, <2>5
      <3> QED BY <3>1 DEF Proposal, Status
    <2>7. proposals' \in Seq(Proposal) /\ Len(proposals') = Len(s)
      BY <2>3, <2>4, <2>5, <2>6, ExceptSeq
    <2> QED BY <1>8, <2>4, <2>7 DEF TypeOK, ExecuteRevoke, rules
  <1>9. ASSUME NEW m \in Accounts, NEW id \in 1..MaxProposals, Cancel(m, id)
        PROVE  TypeOK'
    <2>1. id \in DOMAIN proposals
      BY <1>9 DEF Cancel
    <2>2. [proposals[id] EXCEPT !.status = "Cancelled"] \in Proposal
      BY <2>1, Stored DEF Proposal, Status
    <2>3. proposals' = [proposals EXCEPT ![id] = [proposals[id] EXCEPT !.status = "Cancelled"]]
      BY <1>9 DEF Cancel
    <2>4. proposals' \in Seq(Proposal) /\ Len(proposals') = Len(proposals)
      BY <2>1, <2>2, <2>3, Stored, Replace
    <2> QED BY <1>9, <2>4 DEF TypeOK, Cancel, rules
  <1>10. ASSUME NEW m \in Accounts, NEW t \in Tokens, NEW to \in Recipients,
                NEW n \in Amounts, Spend(m, t, to, n)
         PROVE  TypeOK'
    <2>1. n \in Int /\ n > 0
      BY <1>10, ConstantsAssumption DEF Spend
    <2>2. current(policy.spend_window) \in Window
      BY DEF current, TypeOK, Window
    <2>3. window' \in Window
      BY <1>10, <2>1, <2>2 DEF Spend, Window
    <2>4. balance' \in [Tokens -> Nat]
      BY <1>10, <2>1 DEF Spend, pay_out, TypeOK
    <2>5. spends' \in [0..MaxTime -> Nat]
      BY <1>10, <2>1 DEF Spend, TypeOK
    <2> QED BY <1>10, <2>3, <2>4, <2>5 DEF TypeOK, Spend, rules
  <1>11. ASSUME NEW t \in Tokens, NEW n \in Amounts, Deposit(t, n)
         PROVE  TypeOK'
    <2>1. n \in Int
      BY ConstantsAssumption
    <2> QED BY <1>11, <2>1 DEF TypeOK, Deposit, rules
  <1>12. CASE Tick
    BY <1>12, ConstantsAssumption DEF TypeOK, Tick, rules
  <1>13. CASE UNCHANGED vars
    BY <1>13 DEF TypeOK, vars, rules
  <1> QED
    BY <1>1, <1>2, <1>3, <1>4, <1>5, <1>6, <1>7, <1>8, <1>9, <1>10, <1>11, <1>12, <1>13
    DEF Next, Execute

(* The contract's storage keeps its type in every reachable state, whatever   *)
(* its members propose, vote, execute, withdraw and spend.                    *)
THEOREM TypeCorrect == Spec => []TypeOK
  <1>1. Init => TypeOK
    <2> SUFFICES ASSUME Init PROVE TypeOK
      OBVIOUS
    <2> QED BY ConstantsAssumption DEF Init, TypeOK, Window, NEVER
  <1> QED BY <1>1, TypeStep, PTL DEF Spec

--------------------------------------------------------------------------------
(* Thresholds.  A quorum of at least one basis point of some weight is some   *)
(* weight, and no threshold exceeds what it is a share of.                    *)
LEMMA NeededBounds ==
    ASSUME NEW t \in Nat, NEW q \in 1..FULL_BPS
    PROVE  /\ needed(t, q) \in Nat /\ needed(t, q) <= t
           /\ t > 0 => needed(t, q) > 0
  <1>1. t * q \in Nat /\ (t > 0 => t * q >= 1)
    <2>1. q \in Nat /\ q >= 1
      BY DEF FULL_BPS
    <2>2. t * q \in Nat
      BY <2>1
    <2>3. t >= 1 => t * q >= t
      BY <2>1
    <2> QED BY <2>2, <2>3
  <1> DEFINE p == t * q
  <1>2. p \in Nat /\ (t > 0 => p >= 1)
    BY <1>1
  <1> HIDE DEF p
  <1>3. (p + 9999) \div 10000 \in Nat /\ (p >= 1 => (p + 9999) \div 10000 >= 1)
    BY <1>2
  <1>4. needed(t, q) = Lesser((p + 9999) \div 10000, t)
    BY <1>2 DEF needed, FULL_BPS, p
  <1> QED BY <1>2, <1>3, <1>4 DEF Lesser

(* The thresholds of a policy the contract accepts are shares of the whole. *)
LEMMA Thresholds ==
    ASSUME NEW pol, check_policy(pol)
    PROVE  /\ pol.quorum_bps \in 1..FULL_BPS
           /\ pol.approval_bps \in (FULL_BPS \div 2 + 1)..FULL_BPS
           /\ pol.approval_bps \in 1..FULL_BPS
  <1>1. pol.quorum_bps \in 1..FULL_BPS
        /\ pol.approval_bps \in (FULL_BPS \div 2 + 1)..FULL_BPS
    BY Zenon DEF check_policy
  <1>2. FULL_BPS \in Nat /\ FULL_BPS \div 2 \in Nat
    BY DEF FULL_BPS
  <1> QED BY <1>1, <1>2

(* Reaching an approval threshold above one half of some votes takes more     *)
(* than half of them.                                                         *)
LEMMA NeededIsMajority ==
    ASSUME NEW t \in Nat \ {0}, NEW q \in (FULL_BPS \div 2 + 1)..FULL_BPS, NEW y \in Nat,
           y >= needed(t, q)
    PROVE  2 * y > t
  <1> DEFINE p == t * q
  <1>1. p \in Nat /\ p >= t * 5001
    BY DEF FULL_BPS
  <1>2. needed(t, q) = Lesser((p + 9999) \div 10000, t)
    BY <1>1 DEF needed, FULL_BPS
  <1> HIDE DEF p
  <1>3. (p + 9999) \div 10000 \in Nat /\ 10000 * ((p + 9999) \div 10000) >= p
    BY <1>1
  <1>4. CASE (p + 9999) \div 10000 < t
    <2>1. y >= (p + 9999) \div 10000
      BY <1>2, <1>4 DEF Lesser
    <2> QED BY <1>1, <1>3, <2>1
  <1>5. CASE ~((p + 9999) \div 10000 < t)
    BY <1>2, <1>5 DEF Lesser
  <1> QED BY <1>4, <1>5

(* The unit votes of finitely many voters are finite in number. *)
LEMMA UnitVotesFinite ==
    ASSUME NEW S \in SUBSET Accounts, NEW w \in [Accounts -> Weights]
    PROVE  /\ IsFiniteSet(UnitVotes(S, w))
           /\ Cardinality(UnitVotes(S, w)) \in Nat
           /\ UnitVotes(S, w) = {} <=> \A m \in S : w[m] = 0
  <1>1. IsFiniteSet(Accounts \X (1..U32Max))
    <2>1. IsFiniteSet(1..U32Max)
      BY ConstantsAssumption, FS_Interval
    <2> QED BY <2>1, ConstantsAssumption, FS_Product
  <1>2. UnitVotes(S, w) \subseteq Accounts \X (1..U32Max)
    BY ConstantsAssumption DEF UnitVotes, Weights
  <1>3. IsFiniteSet(UnitVotes(S, w))
    BY <1>1, <1>2, FS_Subset
  <1>4. Cardinality(UnitVotes(S, w)) \in Nat
    BY <1>3, FS_CardinalityType
  <1>5. ASSUME NEW m \in S, w[m] # 0
        PROVE  UnitVotes(S, w) # {}
    <2>1. <<m, 1>> \in {m} \X (1..w[m])
      BY <1>5, ConstantsAssumption DEF Weights
    <2> QED BY <2>1 DEF UnitVotes
  <1>6. ASSUME \A m \in S : w[m] = 0
        PROVE  UnitVotes(S, w) = {}
    BY <1>6 DEF UnitVotes
  <1> QED BY <1>3, <1>4, <1>5, <1>6

(* One voter has as many unit votes as weight. *)
LEMMA UnitVotesOne ==
    ASSUME NEW m, NEW n \in Nat
    PROVE  IsFiniteSet({m} \X (1..n)) /\ Cardinality({m} \X (1..n)) = n
  <1>1. IsFiniteSet({m}) /\ Cardinality({m}) = 1
    BY FS_Singleton
  <1>2. IsFiniteSet(1..n) /\ Cardinality(1..n) = n
    BY FS_Interval
  <1>3. /\ IsFiniteSet({m} \X (1..n))
        /\ Cardinality({m} \X (1..n)) = Cardinality({m}) * Cardinality(1..n)
    BY <1>1, <1>2, FS_Product, Zenon
  <1> QED BY <1>1, <1>2, <1>3

(* With a member, the total weight is positive and fits a u32. *)
LEMMA TotalPositive ==
    ASSUME TypeOK, ListsAgree, members # {}
    PROVE  total_weight \in 1..U32Max
  <1>1. Cardinality(UnitVotes(members, weight)) \in Nat
    BY UnitVotesFinite DEF TypeOK
  <1>2. UnitVotes(members, weight) # {}
    <2>1. PICK m \in members : TRUE
      OBVIOUS
    <2>2. weight[m] # 0
      BY <2>1, ConstantsAssumption DEF TypeOK, ListsAgree, Weights
    <2>3. members \in SUBSET Accounts /\ weight \in [Accounts -> Weights]
      BY DEF TypeOK
    <2> QED BY <2>1, <2>2, <2>3, UnitVotesFinite
  <1>3. Cardinality(UnitVotes(members, weight)) # 0
    BY <1>2, UnitVotesFinite, FS_EmptySet DEF TypeOK
  <1> QED BY <1>1, <1>3, ConstantsAssumption DEF total_weight, Sat

(* Only four kinds of proposal change the rules, and only when carried out. *)
LEMMA RulesMove ==
    ASSUME [Next]_vars
    PROVE  \/ UNCHANGED rules
           \/ \E id \in 1..MaxProposals :
                \/ ExecuteSetPolicy(id) \/ ExecuteSetMember(id)
                \/ ExecuteAllow(id) \/ ExecuteDeny(id)
  <1>1. ASSUME NEW m \in Accounts, NEW x \in Actions, Propose(m, x) PROVE UNCHANGED rules
    BY <1>1 DEF Propose, rules
  <1>2. ASSUME NEW m \in Accounts, NEW id, NEW ok, Vote(m, id, ok) PROVE UNCHANGED rules
    BY <1>2 DEF Vote, rules
  <1>3. ASSUME NEW id, Tally(id) PROVE UNCHANGED rules
    BY <1>3 DEF Tally, rules
  <1>4. ASSUME NEW id, ExecutePay(id) \/ ExecuteRevoke(id) PROVE UNCHANGED rules
    BY <1>4 DEF ExecutePay, ExecuteRevoke, rules
  <1>5. ASSUME NEW m, NEW id, Cancel(m, id) PROVE UNCHANGED rules
    BY <1>5 DEF Cancel, rules
  <1>6. ASSUME NEW m, NEW t, NEW to, NEW n, Spend(m, t, to, n) PROVE UNCHANGED rules
    BY <1>6 DEF Spend, rules
  <1>7. ASSUME NEW t, NEW n, Deposit(t, n) PROVE UNCHANGED rules
    BY <1>7 DEF Deposit, rules
  <1>8. CASE Tick
    BY <1>8 DEF Tick, rules
  <1>9. CASE UNCHANGED vars
    BY <1>9 DEF vars, rules
  <1> QED BY <1>1, <1>2, <1>3, <1>4, <1>5, <1>6, <1>7, <1>8, <1>9 DEF Next, Execute

(* The inductive part of never being locked out: the lists agree with the     *)
(* entries, there is a member, and the policy is one that was checked.        *)
RulesInv == ListsAgree /\ members # {} /\ check_policy(policy)

(* The last member cannot be removed: the total is then that member's own     *)
(* weight, and what results from taking it away is the zero that is refused.  *)
LEMMA LastMemberStays ==
    ASSUME TypeOK, ListsAgree, NEW m \in Accounts, can_set_member(m, 0)
    PROVE  members # {m}
  <1> SUFFICES ASSUME members = {m} PROVE FALSE
    OBVIOUS
  <1>1. weight[m] \in Weights /\ weight[m] \in Nat /\ weight[m] <= U32Max
    BY ConstantsAssumption DEF TypeOK, Weights
  <1>2. UnitVotes(members, weight) = {m} \X (1..weight[m])
    BY DEF UnitVotes
  <1>3. Cardinality(UnitVotes(members, weight)) = weight[m]
    BY <1>1, <1>2, UnitVotesOne
  <1>4. total_weight = weight[m]
    BY <1>1, <1>3, ConstantsAssumption DEF total_weight, Sat
  <1>5. SatAdd(SatSub(total_weight, weight[m]), 0) = 0
    BY <1>1, <1>4, ConstantsAssumption DEF SatAdd, SatSub, Sat
  <1> QED BY <1>5 DEF can_set_member

(* Whatever changes the rules keeps them usable. *)
LEMMA RulesStep == TypeOK /\ RulesInv /\ [Next]_vars => RulesInv'
  <1> SUFFICES ASSUME TypeOK, RulesInv, [Next]_vars PROVE RulesInv'
    OBVIOUS
  <1>1. CASE UNCHANGED rules
    BY <1>1 DEF RulesInv, ListsAgree, rules, check_policy
  <1>2. ASSUME NEW id \in 1..MaxProposals, ExecuteSetPolicy(id)
        PROVE  RulesInv'
    BY <1>2 DEF RulesInv, ListsAgree, ExecuteSetPolicy, can_replace, check_policy
  <1>3. ASSUME NEW id \in 1..MaxProposals, ExecuteSetMember(id)
        PROVE  RulesInv'
    <2> DEFINE m == proposals[id].action.address
               w == proposals[id].action.weight
    <2>1. proposals[id].action \in Actions /\ proposals[id].action.kind = "SetMember"
      BY <1>3, Stored DEF ExecuteSetMember, Executable, Proposal
    <2>2. m \in Accounts /\ w \in Weights
      BY <2>1, ConstantsAssumption DEF ActionType
    <2>3. set_member(m, w) /\ UNCHANGED <<policy, allowed, allowlist>>
      BY <1>3 DEF ExecuteSetMember
    <2> HIDE DEF m, w
    <2>4. members' # {}
      BY <2>2, <2>3, LastMemberStays DEF set_member, RulesInv
    <2>5. members' = {z \in Accounts : weight'[z] > 0}
      BY <2>2, <2>3, ConstantsAssumption DEF set_member, RulesInv, ListsAgree, TypeOK, Weights
    <2> QED BY <2>3, <2>4, <2>5 DEF RulesInv, ListsAgree, check_policy
  <1>4. ASSUME NEW id \in 1..MaxProposals, ExecuteAllow(id) \/ ExecuteDeny(id)
        PROVE  RulesInv'
    BY <1>4 DEF RulesInv, ListsAgree, ExecuteAllow, ExecuteDeny, check_policy
  <1> QED BY <1>1, <1>2, <1>3, <1>4, RulesMove

(* In every reachable state the lists agree with the entries, there is a       *)
(* member and the policy in force is one policy.rs check accepts.             *)
THEOREM RulesInvariant == Spec => []RulesInv
  <1>1. Init => RulesInv
    BY DEF Init, RulesInv, ListsAgree
  <1>2. TypeOK /\ RulesInv /\ [Next]_vars => RulesInv'
    BY RulesStep
  <1> QED BY <1>1, <1>2, TypeCorrect, PTL DEF Spec

(* The member list and the allowlist a treasury reports are, in every         *)
(* reachable state, exactly the entries it decides by.                        *)
THEOREM ListsAlwaysAgree == Spec => []ListsAgree
  <1>1. RulesInv => ListsAgree
    BY DEF RulesInv
  <1> QED BY <1>1, RulesInvariant, PTL

(* No sequence of proposals, votes and executions, under any policy and any   *)
(* weights, leaves a treasury whose members cannot pass anything.             *)
THEOREM TreasuryNeverLockedOut == Spec => []NeverLockedOut
  <1>1. TypeOK /\ RulesInv => NeverLockedOut
    <2> SUFFICES ASSUME TypeOK, RulesInv PROVE NeverLockedOut
      OBVIOUS
    <2>1. total_weight \in 1..U32Max
      BY TotalPositive DEF RulesInv
    <2>2. policy.approval_bps \in 1..FULL_BPS /\ policy.quorum_bps \in 1..FULL_BPS
      BY Thresholds DEF RulesInv
    <2> DEFINE t == total_weight
    <2>3. t \in Nat /\ t # 0 /\ t <= U32Max
      BY <2>1, ConstantsAssumption
    <2> HIDE DEF t
    <2>4. needed(t, policy.approval_bps) <= t /\ needed(t, policy.quorum_bps) <= t
      BY <2>2, <2>3, NeededBounds
    <2>5. SatAdd(t, 0) = t
      BY <2>3, ConstantsAssumption DEF SatAdd, Sat
    <2>6. needed(t, policy.approval_bps) \in Nat /\ needed(t, policy.quorum_bps) \in Nat
      BY <2>2, <2>3, NeededBounds
    <2>7. early_outcome(policy, t, t, 0) = "Passed"
      BY <2>3, <2>4, <2>5, <2>6 DEF early_outcome
    <2> QED BY <2>7 DEF NeverLockedOut, RulesInv, t
  <1> QED BY <1>1, TypeCorrect, RulesInvariant, PTL

--------------------------------------------------------------------------------
(* Saturating twice is saturating once. *)
LEMMA SatSat ==
    ASSUME NEW x \in Nat, NEW y \in Nat
    PROVE  SatAdd(Sat(x), y) = Sat(x + y)
  BY ConstantsAssumption DEF SatAdd, Sat

(* The unit votes behind one side of a ballot box. *)
Box(box, side) ==
    UnitVotes({z \in Accounts : box[z].cast = side}, [z \in Accounts |-> box[z].weight])

(* A first ballot adds its weight to its side and nothing to the other. *)
LEMMA BallotAdds ==
    ASSUME NEW box \in [Accounts -> Ballot], NEW m \in Accounts, NEW w \in Weights,
           NEW side \in {"for", "against"}, NEW other \in {"for", "against"},
           NEW new \in [Accounts -> Ballot], box[m].cast = "none",
           new[m].cast = side, new[m].weight = w,
           \A z \in Accounts : z # m => new[z] = box[z]
    PROVE  Cardinality(Box(new, other)) =
             Cardinality(Box(box, other)) + (IF other = side THEN w ELSE 0)
  <1>1. w \in Nat
    BY ConstantsAssumption DEF Weights
  <1>2. /\ {z \in Accounts : box[z].cast = other} \in SUBSET Accounts
        /\ [z \in Accounts |-> box[z].weight] \in [Accounts -> Weights]
    BY DEF Ballot
  <1>3. IsFiniteSet(Box(box, other)) /\ Cardinality(Box(box, other)) \in Nat
    BY <1>2, UnitVotesFinite DEF Box
  <1>4. CASE other = side
    <2>1. Box(new, other) = Box(box, other) \cup ({m} \X (1..w))
      BY <1>4 DEF Box, UnitVotes, Ballot
    <2>2. Box(box, other) \cap ({m} \X (1..w)) = {}
      BY <1>4 DEF Box, UnitVotes
    <2>3. IsFiniteSet({m} \X (1..w)) /\ Cardinality({m} \X (1..w)) = w
      BY <1>1, UnitVotesOne
    <2>4. Cardinality(Box(new, other)) = Cardinality(Box(box, other)) + w - Cardinality({})
      BY <1>3, <2>1, <2>2, <2>3, FS_Union
    <2> QED BY <1>1, <1>3, <1>4, <2>4, FS_EmptySet
  <1>5. CASE other # side
    <2>1. Box(new, other) = Box(box, other)
      BY <1>5 DEF Box, UnitVotes, Ballot
    <2> QED BY <1>3, <1>5, <2>1
  <1> QED BY <1>4, <1>5

--------------------------------------------------------------------------------
(* What a step can do to one proposal p, its record h and its ballots: nothing, *)
(* a vote, a verdict, its execution, or its being stopped.                      *)
Same(id) ==
    proposals'[id] = proposals[id] /\ history'[id] = history[id] /\ voted'[id] = voted[id]
VotedOn(id) ==
    \E m \in Accounts, ok \in BOOLEAN :
        LET c == Counted(proposals[id], ok, weight[m])
        IN  /\ proposals[id].status = "Open" /\ voted[id][m].cast = "none"
            /\ proposals'[id] = settle(c)
            /\ history'[id] = Noted(history[id], c, settle(c))
            /\ voted'[id] = [voted[id] EXCEPT ![m] =
                   [cast |-> IF ok THEN "for" ELSE "against", weight |-> weight[m]]]
Tallied(id) ==
    /\ proposals[id].status = "Open" /\ proposals'[id] = settle(proposals[id])
    /\ history'[id] = Noted(history[id], proposals[id], settle(proposals[id]))
    /\ voted'[id] = voted[id]
CarriedOut(id) ==
    /\ settle(proposals[id]).status = "Passed"
    /\ now >= settle(proposals[id]).executable_at
    /\ proposals'[id] = [settle(proposals[id]) EXCEPT !.status = "Executed"]
    /\ history'[id] = Noted(history[id], proposals[id], settle(proposals[id]))
    /\ voted'[id] = voted[id]
Stopped(id) ==
    /\ proposals[id].status \in {"Open", "Passed"}
    /\ proposals'[id] = [proposals[id] EXCEPT !.status = "Cancelled"]
    /\ history'[id] = history[id] /\ voted'[id] = voted[id]
Fate(id) ==
    /\ id \in DOMAIN proposals'
    /\ \/ Same(id)
       \/ now' = now /\ (VotedOn(id) \/ Tallied(id) \/ CarriedOut(id) \/ Stopped(id))
Born(id) ==
    \E x \in Actions :
        /\ check(x)
        /\ proposals'[id].status = "Open" /\ proposals'[id].action = x
        /\ proposals'[id].yes = 0 /\ proposals'[id].no = 0
        /\ proposals'[id].executable_at = proposals'[id].closes_at + wait(policy, x)
        /\ history'[id].openWait = wait(policy, x) /\ history'[id].decidedAt = NEVER
        /\ voted'[id] = [z \in Accounts |-> [cast |-> "none", weight |-> 0]]

(* A step that marks one proposal executed carries that one out and leaves    *)
(* the others as they are.                                                    *)
LEMMA MarkFate ==
    ASSUME TypeOK, NEW id, Executable(id), Mark(id), UNCHANGED <<voted, now>>
    PROVE  /\ DOMAIN proposals' = DOMAIN proposals
           /\ \A k \in DOMAIN proposals : Fate(k)
  <1>1. id \in DOMAIN proposals /\ DOMAIN history = DOMAIN proposals
    BY DEF Executable, TypeOK
  <1>2. DOMAIN proposals' = DOMAIN proposals
    BY <1>1 DEF Mark
  <1>3. CarriedOut(id)
    BY <1>1 DEF Mark, Executable, CarriedOut
  <1>4. \A k \in DOMAIN proposals : k # id => Same(k)
    BY <1>1 DEF Mark, Same
  <1> QED BY <1>2, <1>3, <1>4 DEF Fate

(* A step gives every proposal one of those fates, opens new proposals as     *)
(* open and empty, and does not turn the clock back.                          *)
LEMMA Fates ==
    ASSUME TypeOK, [Next]_vars
    PROVE  /\ \A k \in DOMAIN proposals : Fate(k)
           /\ \A k \in DOMAIN proposals' \ DOMAIN proposals : Born(k)
           /\ now' >= now
  <1> DEFINE Goal == /\ \A k \in DOMAIN proposals : Fate(k)
                     /\ \A k \in DOMAIN proposals' \ DOMAIN proposals : Born(k)
                     /\ now' >= now
  <1>0. now \in Int
    BY DEF TypeOK
  <1>a. ASSUME UNCHANGED <<proposals, voted, history>>, now' >= now PROVE Goal
    BY <1>a DEF Fate, Same
  <1>b. ASSUME NEW id, Executable(id), Mark(id), UNCHANGED <<voted, now>> PROVE Goal
    BY <1>b, <1>0, MarkFate
  <1>1. ASSUME NEW m \in Accounts, NEW x \in Actions, Propose(m, x)
        PROVE  Goal
    <2> DEFINE p == [proposer |-> m, action |-> x, status |-> "Open",
                     closes_at |-> now + policy.voting_period,
                     executable_at |-> now + policy.voting_period + wait(policy, x),
                     yes |-> 0, no |-> 0]
               v == [z \in Accounts |-> [cast |-> "none", weight |-> 0]]
               h == [openWait |-> wait(policy, x), decidedAt |-> NEVER, decidedWait |-> 0]
    <2>1. proposals' = Append(proposals, p) /\ voted' = Append(voted, v)
          /\ history' = Append(history, h) /\ now' = now /\ check(x)
      BY <1>1 DEF Propose
    <2>2. proposals \in Seq(Proposal) /\ voted \in Seq([Accounts -> Ballot])
          /\ history \in Seq(Record)
          /\ Len(voted) = Len(proposals) /\ Len(history) = Len(proposals)
      BY DEF TypeOK
    <2>3. p.status = "Open" /\ p.action = x /\ p.yes = 0 /\ p.no = 0
          /\ p.executable_at = p.closes_at + wait(policy, x)
          /\ h.openWait = wait(policy, x) /\ h.decidedAt = NEVER
      OBVIOUS
    <2> HIDE DEF p, h
    <2>4. \A k \in DOMAIN proposals : k \in DOMAIN proposals' /\ Same(k)
      BY <2>1, <2>2 DEF Same
    <2>5. \A k \in DOMAIN proposals' \ DOMAIN proposals :
             proposals'[k] = p /\ history'[k] = h /\ voted'[k] = v
      BY <2>1, <2>2
    <2>6. \A k \in DOMAIN proposals' \ DOMAIN proposals : Born(k)
      BY <2>1, <2>3, <2>5 DEF Born
    <2> QED BY <1>0, <2>1, <2>4, <2>6 DEF Fate
  <1>2. ASSUME NEW m \in Accounts, NEW id \in 1..MaxProposals, NEW ok \in BOOLEAN,
               Vote(m, id, ok)
        PROVE  Goal
    <2> DEFINE c == Counted(proposals[id], ok, weight[m])
    <2>1. id \in DOMAIN proposals /\ id \in DOMAIN history /\ id \in DOMAIN voted
      BY <1>2, Stored DEF Vote
    <2>2. /\ proposals' = [proposals EXCEPT ![id] = settle(c)]
          /\ history' = [history EXCEPT ![id] = Noted(history[id], c, settle(c))]
      BY <1>2 DEF Vote, Counted
    <2>3. voted' = [voted EXCEPT ![id] = [voted[id] EXCEPT ![m] =
             [cast |-> IF ok THEN "for" ELSE "against", weight |-> weight[m]]]]
      BY <1>2 DEF Vote
    <2>4. proposals[id].status = "Open" /\ voted[id][m].cast = "none" /\ now' = now
      BY <1>2 DEF Vote
    <2>5. VotedOn(id)
      BY <2>1, <2>2, <2>3, <2>4 DEF VotedOn
    <2>6. DOMAIN proposals' = DOMAIN proposals
      BY <2>2
    <2>7. \A k \in DOMAIN proposals : k # id => Same(k)
      BY <2>2, <2>3 DEF Same
    <2> QED BY <1>0, <2>4, <2>5, <2>6, <2>7 DEF Fate
  <1>3. ASSUME NEW id \in 1..MaxProposals, Tally(id)
        PROVE  Goal
    <2>1. id \in DOMAIN proposals /\ id \in DOMAIN history /\ now' = now
      BY <1>3, Stored DEF Tally
    <2>2. Tallied(id)
      BY <1>3, <2>1 DEF Tally, Tallied
    <2>3. DOMAIN proposals' = DOMAIN proposals
      BY <1>3 DEF Tally
    <2>4. \A k \in DOMAIN proposals : k # id => Same(k)
      BY <1>3 DEF Tally, Same
    <2> QED BY <1>0, <2>1, <2>2, <2>3, <2>4 DEF Fate
  <1>4. ASSUME NEW id \in 1..MaxProposals,
               ExecutePay(id) \/ ExecuteSetPolicy(id) \/ ExecuteSetMember(id)
               \/ ExecuteAllow(id) \/ ExecuteDeny(id)
        PROVE  Goal
    <2>1. Executable(id) /\ Mark(id) /\ UNCHANGED <<voted, now>>
      BY <1>4 DEF ExecutePay, ExecuteSetPolicy, ExecuteSetMember, ExecuteAllow, ExecuteDeny
    <2> QED BY <2>1, <1>b
  <1>5. ASSUME NEW id \in 1..MaxProposals, ExecuteRevoke(id)
        PROVE  Goal
    <2> DEFINE t == proposals[id].action.target
               q == [settle(proposals[id]) EXCEPT !.status = "Executed"]
               s == [proposals EXCEPT ![id] = q]
    <2>1. /\ id \in DOMAIN proposals /\ t \in DOMAIN proposals /\ id \in DOMAIN history
          /\ proposals[t].status \in {"Open", "Passed"} /\ now' = now
      BY <1>5, Stored DEF ExecuteRevoke, Executable, revocable
    <2>2. /\ proposals' = [s EXCEPT ![t] = [s[t] EXCEPT !.status = "Cancelled"]]
          /\ history' = [history EXCEPT ![id] =
                 Noted(history[id], proposals[id], settle(proposals[id]))]
          /\ voted' = voted
      BY <1>5 DEF ExecuteRevoke
    <2>3. DOMAIN proposals' = DOMAIN proposals
      BY <2>2
    <2>x. t # id
      BY <1>5 DEF ExecuteRevoke
    <2>4. CarriedOut(id)
      BY <1>5, <2>1, <2>2, <2>x DEF CarriedOut, ExecuteRevoke, Executable
    <2>5. Stopped(t)
      BY <2>1, <2>2, <2>x DEF Stopped
    <2>6. \A k \in DOMAIN proposals : k # id /\ k # t => Same(k)
      BY <2>1, <2>2 DEF Same
    <2> QED BY <1>0, <2>1, <2>3, <2>4, <2>5, <2>6 DEF Fate
  <1>6. ASSUME NEW m \in Accounts, NEW id \in 1..MaxProposals, Cancel(m, id)
        PROVE  Goal
    <2>1. id \in DOMAIN proposals /\ now' = now
      BY <1>6 DEF Cancel
    <2>2. Stopped(id)
      BY <1>6 DEF Cancel, Stopped
    <2>3. DOMAIN proposals' = DOMAIN proposals
      BY <1>6 DEF Cancel
    <2>4. \A k \in DOMAIN proposals : k # id => Same(k)
      BY <1>6 DEF Cancel, Same
    <2> QED BY <1>0, <2>1, <2>2, <2>3, <2>4 DEF Fate
  <1>7. ASSUME NEW m \in Accounts, NEW t \in Tokens, NEW to \in Recipients,
               NEW n \in Amounts, Spend(m, t, to, n)
        PROVE  Goal
    BY <1>7, <1>0, <1>a DEF Spend
  <1>8. ASSUME NEW t \in Tokens, NEW n \in Amounts, Deposit(t, n)
        PROVE  Goal
    BY <1>8, <1>0, <1>a DEF Deposit
  <1>9. CASE Tick
    BY <1>9, <1>0, <1>a DEF Tick
  <1>10. CASE UNCHANGED vars
    BY <1>10, <1>0, <1>a DEF vars
  <1> QED BY <1>1, <1>2, <1>3, <1>4, <1>5, <1>6, <1>7, <1>8, <1>9, <1>10 DEF Next, Execute

--------------------------------------------------------------------------------
(* The tallies, proposal by proposal. *)
TallyOf(id) ==
    /\ proposals[id].yes = Sat(Cardinality(Box(voted[id], "for")))
    /\ proposals[id].no = Sat(Cardinality(Box(voted[id], "against")))

(* A ballot box is finite, so its size is a number. *)
LEMMA BoxSize ==
    ASSUME NEW box \in [Accounts -> Ballot], NEW side \in {"for", "against"}
    PROVE  Cardinality(Box(box, side)) \in Nat
  <1>1. /\ {z \in Accounts : box[z].cast = side} \in SUBSET Accounts
        /\ [z \in Accounts |-> box[z].weight] \in [Accounts -> Weights]
    BY DEF Ballot
  <1> QED BY <1>1, UnitVotesFinite DEF Box

(* A vote adds to the tally what it adds to the box. *)
LEMMA BoxTallies ==
    ASSUME NEW box \in [Accounts -> Ballot], NEW m \in Accounts, NEW w \in Weights,
           NEW ok \in BOOLEAN, NEW new \in [Accounts -> Ballot], box[m].cast = "none",
           new[m].cast = (IF ok THEN "for" ELSE "against"), new[m].weight = w,
           \A z \in Accounts : z # m => new[z] = box[z],
           NEW yes, yes = Sat(Cardinality(Box(box, "for"))),
           NEW no, no = Sat(Cardinality(Box(box, "against")))
    PROVE  /\ Sat(Cardinality(Box(new, "for"))) = IF ok THEN SatAdd(yes, w) ELSE yes
           /\ Sat(Cardinality(Box(new, "against"))) = IF ok THEN no ELSE SatAdd(no, w)
  <1>1. w \in Nat
    BY ConstantsAssumption DEF Weights
  <1>2. Cardinality(Box(box, "for")) \in Nat /\ Cardinality(Box(box, "against")) \in Nat
    BY BoxSize
  <1>3. CASE ok
    <2>1. Cardinality(Box(new, "for")) = Cardinality(Box(box, "for")) + w
      BY <1>3, BallotAdds
    <2>2. Cardinality(Box(new, "against")) = Cardinality(Box(box, "against"))
      BY <1>2, <1>3, BallotAdds
    <2>3. SatAdd(yes, w) = Sat(Cardinality(Box(box, "for")) + w)
      BY <1>1, <1>2, SatSat
    <2> QED BY <1>3, <2>1, <2>2, <2>3
  <1>4. CASE ~ok
    <2>1. Cardinality(Box(new, "against")) = Cardinality(Box(box, "against")) + w
      BY <1>4, BallotAdds
    <2>2. Cardinality(Box(new, "for")) = Cardinality(Box(box, "for"))
      BY <1>2, <1>4, BallotAdds
    <2>3. SatAdd(no, w) = Sat(Cardinality(Box(box, "against")) + w)
      BY <1>1, <1>2, SatSat
    <2> QED BY <1>4, <2>1, <2>2, <2>3
  <1> QED BY <1>3, <1>4

(* So a vote keeps the tally of the proposal it is cast on. *)
LEMMA VoteTallies ==
    ASSUME TypeOK, NEW id \in DOMAIN proposals, TallyOf(id), VotedOn(id)
    PROVE  TallyOf(id)'
  <1>1. PICK m \in Accounts, ok \in BOOLEAN :
          /\ voted[id][m].cast = "none"
          /\ proposals'[id] = settle(Counted(proposals[id], ok, weight[m]))
          /\ voted'[id] = [voted[id] EXCEPT ![m] =
                   [cast |-> IF ok THEN "for" ELSE "against", weight |-> weight[m]]]
    BY DEF VotedOn
  <1>2. weight[m] \in Weights /\ voted[id] \in [Accounts -> Ballot] /\ proposals[id] \in Proposal
    BY Stored DEF TypeOK
  <1>3. Counted(proposals[id], ok, weight[m]) \in Proposal
    BY <1>2, CountedType
  <1>4. /\ proposals'[id].yes =
             IF ok THEN SatAdd(proposals[id].yes, weight[m]) ELSE proposals[id].yes
        /\ proposals'[id].no =
             IF ok THEN proposals[id].no ELSE SatAdd(proposals[id].no, weight[m])
    <2>1. /\ proposals'[id].yes = Counted(proposals[id], ok, weight[m]).yes
          /\ proposals'[id].no = Counted(proposals[id], ok, weight[m]).no
      BY <1>1, <1>3, SettleShape
    <2> QED BY <2>1, <1>2 DEF Counted, Proposal
  <1>5. /\ voted'[id][m].cast = (IF ok THEN "for" ELSE "against")
        /\ voted'[id][m].weight = weight[m]
        /\ \A z \in Accounts : z # m => voted'[id][z] = voted[id][z]
        /\ voted'[id] \in [Accounts -> Ballot]
    BY <1>1, <1>2 DEF Ballot
  <1>6. /\ Sat(Cardinality(Box(voted'[id], "for"))) =
             IF ok THEN SatAdd(proposals[id].yes, weight[m]) ELSE proposals[id].yes
        /\ Sat(Cardinality(Box(voted'[id], "against"))) =
             IF ok THEN proposals[id].no ELSE SatAdd(proposals[id].no, weight[m])
    BY <1>1, <1>2, <1>5, BoxTallies DEF TallyOf
  <1> QED BY <1>4, <1>6 DEF TallyOf

(* Nothing but a vote touches a tally or a box. *)
LEMMA TallyStep ==
    ASSUME TypeOK, NEW id \in DOMAIN proposals, TallyOf(id), Fate(id)
    PROVE  TallyOf(id)'
  <1>1. proposals[id] \in Proposal
    BY Stored
  <1>2. CASE VotedOn(id)
    BY <1>2, VoteTallies
  <1>3. CASE Same(id)
    BY <1>3 DEF Same, TallyOf
  <1>4. CASE Tallied(id)
    BY <1>1, <1>4, SettleShape DEF Tallied, TallyOf
  <1>5. CASE CarriedOut(id)
    <2>1. settle(proposals[id]) \in Proposal /\ settle(proposals[id]).yes = proposals[id].yes
          /\ settle(proposals[id]).no = proposals[id].no
      BY <1>1, SettleShape
    <2>2. /\ [settle(proposals[id]) EXCEPT !.status = "Executed"].yes = proposals[id].yes
          /\ [settle(proposals[id]) EXCEPT !.status = "Executed"].no = proposals[id].no
      BY <2>1 DEF Proposal
    <2> QED BY <1>5, <2>2 DEF CarriedOut, TallyOf
  <1>6. CASE Stopped(id)
    <2>1. /\ [proposals[id] EXCEPT !.status = "Cancelled"].yes = proposals[id].yes
          /\ [proposals[id] EXCEPT !.status = "Cancelled"].no = proposals[id].no
      BY <1>1 DEF Proposal
    <2> QED BY <1>6, <2>1 DEF Stopped, TallyOf
  <1> QED BY <1>2, <1>3, <1>4, <1>5, <1>6 DEF Fate

(* Every tally is the saturated sum of the weights of the ballots on record,  *)
(* in every reachable state, however votes, membership changes and verdicts   *)
(* interleave.                                                                *)
THEOREM TalliesAlwaysExact == Spec => []TalliesExact
  <1> DEFINE Inv == \A id \in DOMAIN proposals : TallyOf(id)
  <1>1. Init => Inv
    BY DEF Init
  <1>2. TypeOK /\ Inv /\ [Next]_vars => Inv'
    <2> SUFFICES ASSUME TypeOK, Inv, [Next]_vars, NEW id \in DOMAIN proposals'
                 PROVE  TallyOf(id)'
      OBVIOUS
    <2>1. CASE id \in DOMAIN proposals
      BY <2>1, Fates, TallyStep
    <2>2. CASE id \notin DOMAIN proposals
      <3>1. Born(id)
        BY <2>2, Fates
      <3>2. /\ proposals'[id].yes = 0 /\ proposals'[id].no = 0
            /\ voted'[id] = [z \in Accounts |-> [cast |-> "none", weight |-> 0]]
        BY <3>1 DEF Born
      <3>3. Box(voted'[id], "for") = {} /\ Box(voted'[id], "against") = {}
        BY <3>2 DEF Box, UnitVotes
      <3>4. Sat(Cardinality({})) = 0
        BY FS_EmptySet, ConstantsAssumption DEF Sat
      <3> QED BY <3>2, <3>3, <3>4 DEF TallyOf
    <2> QED BY <2>1, <2>2
  <1>3. Inv => TalliesExact
    BY DEF TallyOf, TalliesExact, BallotsFor, Box
  <1> QED BY <1>1, <1>2, <1>3, TypeCorrect, PTL DEF Spec

--------------------------------------------------------------------------------
(* What a verdict leaves behind, for a proposal p with record h at time t: the *)
(* inductive invariant behind the timelock and the majority.  While it is open *)
(* no verdict is noted and executable_at is the close plus the wait it was     *)
(* opened with; once approved, it is the earlier of that and the verdict plus  *)
(* the wait of the moment.                                                     *)
VerdictInv(p, h, t) ==
    /\ p.status = "Open" =>
         h.decidedAt = NEVER /\ p.executable_at = p.closes_at + h.openWait
    /\ restricts(p.action) => h.openWait = 0
    /\ p.status \in {"Passed", "Executed"} =>
         /\ h.decidedAt \in 0..t
         /\ p.executable_at = Lesser(h.decidedAt + h.decidedWait, p.closes_at + h.openWait)
         /\ restricts(p.action) => h.decidedWait = 0
         /\ h.decidedAt >= p.closes_at /\ p.yes + p.no <= U32Max => p.yes > p.no
    /\ p.status = "Executed" => t >= p.executable_at

(* A closed vote that passes was favoured by more than half of what was cast. *)
LEMMA ClosedPass ==
    ASSUME NEW pol, check_policy(pol), NEW total \in 1..U32Max,
           NEW yes \in Weights, NEW no \in Weights, yes + no <= U32Max,
           closed_outcome(pol, total, yes, no) = "Passed"
    PROVE  yes > no
  <1>1. yes \in Nat /\ no \in Nat /\ total \in Nat /\ total > 0
    BY ConstantsAssumption DEF Weights
  <1>2. SatAdd(yes, no) = yes + no
    BY <1>1, ConstantsAssumption DEF SatAdd, Sat
  <1>3. pol.quorum_bps \in 1..FULL_BPS
        /\ pol.approval_bps \in (FULL_BPS \div 2 + 1)..FULL_BPS
        /\ pol.approval_bps \in 1..FULL_BPS
    BY Thresholds
  <1>4. needed(total, pol.quorum_bps) \in Nat /\ needed(total, pol.quorum_bps) > 0
    BY <1>1, <1>3, NeededBounds
  <1>5. ~(yes + no < needed(total, pol.quorum_bps))
        /\ ~(yes < needed(yes + no, pol.approval_bps))
    BY <1>2 DEF closed_outcome
  <1>6. yes + no \in Nat \ {0}
    BY <1>1, <1>4, <1>5
  <1>7. needed(yes + no, pol.approval_bps) \in Nat
    BY <1>3, <1>6, NeededBounds
  <1>8. yes >= needed(yes + no, pol.approval_bps)
    BY <1>1, <1>5, <1>7
  <1>9. 2 * yes > yes + no
    BY <1>1, <1>3, <1>6, <1>8, NeededIsMajority
  <1> QED BY <1>1, <1>9

(* Settling an open proposal establishes the invariant, verdict or not. *)
LEMMA Settles ==
    ASSUME TypeOK, RulesInv, NEW c \in Proposal, c.status = "Open", NEW h \in Record,
           VerdictInv(c, h, now)
    PROVE  VerdictInv(settle(c), Noted(h, c, settle(c)), now)
  <1> DEFINE q == settle(c)
             g == Noted(h, c, settle(c))
  <1>1. /\ q \in Proposal /\ q.action = c.action /\ q.closes_at = c.closes_at
        /\ q.yes = c.yes /\ q.no = c.no /\ q.status = outcome(c)
        /\ q.executable_at = IF outcome(c) = "Passed"
                             THEN Lesser(now + wait(policy, c.action), c.executable_at)
                             ELSE c.executable_at
    BY SettleShape
  <1>2. /\ g.openWait = h.openWait
        /\ q.status # "Open" => g.decidedAt = now /\ g.decidedWait = wait(policy, c.action)
        /\ q.status = "Open" => g = h
    BY NotedType
  <1>3. outcome(c) \in {"Open", "Passed", "Rejected"}
    BY OutcomeType
  <1>4. h.decidedAt = NEVER /\ c.executable_at = c.closes_at + h.openWait
        /\ (restricts(c.action) => h.openWait = 0)
    BY DEF VerdictInv
  <1>5. restricts(c.action) => wait(policy, c.action) = 0
    BY DEF wait
  <1>6. now \in Nat
    BY DEF TypeOK
  <1>7. ASSUME outcome(c) = "Passed", now >= c.closes_at, c.yes + c.no <= U32Max
        PROVE  c.yes > c.no
    <2>1. closed_outcome(policy, total_weight, c.yes, c.no) = "Passed"
      BY <1>7 DEF outcome
    <2>2. total_weight \in 1..U32Max /\ check_policy(policy)
      BY TotalPositive DEF RulesInv
    <2>3. c.yes \in Weights /\ c.no \in Weights
      BY DEF Proposal
    <2> QED BY <1>7, <2>1, <2>2, <2>3, ClosedPass
  <1> HIDE DEF q, g
  <1>8. CASE outcome(c) = "Passed"
    BY <1>1, <1>2, <1>4, <1>5, <1>6, <1>7, <1>8 DEF VerdictInv, q, g
  <1>9. CASE outcome(c) # "Passed"
    BY <1>1, <1>2, <1>3, <1>4, <1>9 DEF VerdictInv, q, g
  <1> QED BY <1>8, <1>9

(* Carrying out what has passed, once it may be, keeps the invariant. *)
LEMMA Executes ==
    ASSUME NEW q \in Proposal, NEW h \in Record, NEW t, VerdictInv(q, h, t),
           q.status = "Passed", t >= q.executable_at
    PROVE  VerdictInv([q EXCEPT !.status = "Executed"], h, t)
  <1> DEFINE r == [q EXCEPT !.status = "Executed"]
  <1>1. /\ r.status = "Executed" /\ r.action = q.action /\ r.closes_at = q.closes_at
        /\ r.executable_at = q.executable_at /\ r.yes = q.yes /\ r.no = q.no
    BY DEF Proposal
  <1> HIDE DEF r
  <1>2. VerdictInv(r, h, t)
    BY <1>1 DEF VerdictInv
  <1> QED BY <1>2 DEF r

(* Every fate keeps the invariant. *)
LEMMA VerdictStep ==
    ASSUME TypeOK, RulesInv, NEW id \in DOMAIN proposals, Fate(id), now' >= now, now' \in Nat,
           VerdictInv(proposals[id], history[id], now)
    PROVE  VerdictInv(proposals[id], history[id], now)'
  <1>1. proposals[id] \in Proposal /\ history[id] \in Record /\ now \in Nat
    BY Stored DEF TypeOK
  <1>2. CASE Same(id)
    <2>1. proposals[id].executable_at \in Nat
      BY <1>1 DEF Proposal
    <2> QED BY <1>1, <1>2, <2>1 DEF Same, VerdictInv
  <1>3. CASE VotedOn(id) /\ now' = now
    <2>1. PICK m \in Accounts, ok \in BOOLEAN :
            /\ proposals[id].status = "Open"
            /\ proposals'[id] = settle(Counted(proposals[id], ok, weight[m]))
            /\ history'[id] = Noted(history[id], Counted(proposals[id], ok, weight[m]),
                                    settle(Counted(proposals[id], ok, weight[m])))
      BY <1>3 DEF VotedOn
    <2> DEFINE c == Counted(proposals[id], ok, weight[m])
    <2>2. weight[m] \in Weights
      BY DEF TypeOK
    <2>3. c \in Proposal
      BY <1>1, <2>2, CountedType
    <2>4. /\ c.status = "Open" /\ c.action = proposals[id].action
          /\ c.closes_at = proposals[id].closes_at
          /\ c.executable_at = proposals[id].executable_at
      BY <1>1, <2>1 DEF Counted, Proposal
    <2>5. proposals'[id] = settle(c) /\ history'[id] = Noted(history[id], c, settle(c))
      BY <2>1
    <2> HIDE DEF c
    <2>6. VerdictInv(c, history[id], now)
      BY <2>1, <2>4 DEF VerdictInv
    <2>7. VerdictInv(settle(c), Noted(history[id], c, settle(c)), now)
      BY <1>1, <2>3, <2>4, <2>6, Settles
    <2> QED BY <1>3, <2>5, <2>7
  <1>4. CASE Tallied(id) /\ now' = now
    BY <1>1, <1>4, Settles DEF Tallied
  <1>5. CASE CarriedOut(id) /\ now' = now
    <2> DEFINE q == settle(proposals[id])
               g == Noted(history[id], proposals[id], settle(proposals[id]))
    <2>1. q.status = "Passed" /\ now >= q.executable_at
          /\ proposals'[id] = [q EXCEPT !.status = "Executed"] /\ history'[id] = g
      BY <1>5 DEF CarriedOut
    <2>2. q \in Proposal /\ g \in Record
      BY SettleStored
    <2>3. VerdictInv(q, g, now)
      <3>1. CASE proposals[id].status = "Open"
        BY <1>1, <3>1, Settles
      <3>2. CASE proposals[id].status # "Open"
        <4>1. q = proposals[id] /\ g = history[id]
          BY <1>1, <3>2, SettleShape, NotedType
        <4> QED BY <4>1
      <3> QED BY <3>1, <3>2
    <2> HIDE DEF q, g
    <2>4. VerdictInv([q EXCEPT !.status = "Executed"], g, now)
      BY <2>1, <2>2, <2>3, Executes
    <2> QED BY <1>5, <2>1, <2>4
  <1>6. CASE Stopped(id) /\ now' = now
    <2> DEFINE r == [proposals[id] EXCEPT !.status = "Cancelled"]
    <2>1. r.status = "Cancelled" /\ r.action = proposals[id].action
      BY <1>1 DEF Proposal
    <2>2. proposals'[id] = r /\ history'[id] = history[id]
      BY <1>6 DEF Stopped
    <2> HIDE DEF r
    <2> QED BY <2>1, <2>2 DEF VerdictInv
  <1> QED BY <1>2, <1>3, <1>4, <1>5, <1>6 DEF Fate

AllVerdicts == \A id \in DOMAIN proposals : VerdictInv(proposals[id], history[id], now)

(* In every reachable state every proposal satisfies VerdictInv. *)
THEOREM VerdictInvariant == Spec => []AllVerdicts
  <1>1. Init => AllVerdicts
    BY DEF Init, AllVerdicts
  <1>2. TypeOK /\ TypeOK' /\ RulesInv /\ AllVerdicts /\ [Next]_vars => AllVerdicts'
    <2> SUFFICES ASSUME TypeOK, TypeOK', RulesInv, AllVerdicts, [Next]_vars,
                        NEW id \in DOMAIN proposals'
                 PROVE  VerdictInv(proposals[id], history[id], now)'
      BY DEF AllVerdicts
    <2>1. CASE id \in DOMAIN proposals
      <3>1. Fate(id) /\ now' >= now /\ now' \in Nat
        BY <2>1, Fates DEF TypeOK
      <3> QED BY <2>1, <3>1, VerdictStep DEF AllVerdicts
    <2>2. CASE id \notin DOMAIN proposals
      <3>1. Born(id)
        BY <2>2, Fates
      <3> QED BY <3>1 DEF Born, VerdictInv, wait
    <2> QED BY <2>1, <2>2
  <1> QED BY <1>1, <1>2, TypeCorrect, RulesInvariant, PTL DEF Spec

(* Below u32 saturation no tie and no empty vote ever passes once voting has  *)
(* closed, for any policy the contract accepts and however membership moved.  *)
THEOREM ClosedVotesNeedMajority == Spec => []ClosedMajority
  <1>1. AllVerdicts => ClosedMajority
    BY DEF AllVerdicts, VerdictInv, ClosedMajority, Approved
  <1> QED BY <1>1, VerdictInvariant, PTL

(* No interleaving of votes, tallies, policy changes and executions carries   *)
(* out a proposal before its timelock has run.                                *)
THEOREM TimelockAlwaysRuns == Spec => []TimelockRuns
  <1>1. TypeOK /\ AllVerdicts => TimelockRuns
    <2> SUFFICES ASSUME TypeOK, AllVerdicts, NEW id \in DOMAIN proposals, Approved(id)
                 PROVE  LET p == proposals[id]
                            h == history[id]
                        IN  /\ Decided(id)
                            /\ p.executable_at >= Lesser(h.decidedAt, p.closes_at)
                                                  + Lesser(h.openWait, h.decidedWait)
                            /\ p.status = "Executed" => now >= p.executable_at
      BY DEF TimelockRuns
    <2>1. VerdictInv(proposals[id], history[id], now)
      BY DEF AllVerdicts
    <2>2. proposals[id] \in Proposal /\ history[id] \in Record /\ now \in Nat
      BY Stored DEF TypeOK
    <2>3. /\ proposals[id].closes_at \in Nat /\ proposals[id].executable_at \in Nat
          /\ history[id].openWait \in Nat /\ history[id].decidedWait \in Nat
      BY <2>2 DEF Proposal, Record
    <2>4. /\ history[id].decidedAt \in Nat
          /\ proposals[id].executable_at = Lesser(history[id].decidedAt + history[id].decidedWait,
                                     proposals[id].closes_at + history[id].openWait)
          /\ proposals[id].status = "Executed" => now >= proposals[id].executable_at
      BY <2>1, <2>2 DEF VerdictInv, Approved
    <2>5. Decided(id)
      BY <2>4 DEF Decided, NEVER
    <2> QED BY <2>3, <2>4, <2>5 DEF Lesser
  <1> QED BY <1>1, TypeCorrect, VerdictInvariant, PTL

(* A denial or a revocation that has passed can be carried out at once, in    *)
(* every reachable state.                                                     *)
THEOREM StoppingWaitsForNothing == Spec => []StoppingNeverWaits
  <1>1. TypeOK /\ AllVerdicts => StoppingNeverWaits
    <2> SUFFICES ASSUME TypeOK, AllVerdicts, NEW id \in DOMAIN proposals, Approved(id),
                        restricts(proposals[id].action)
                 PROVE  proposals[id].executable_at <= now
      BY DEF StoppingNeverWaits
    <2>1. VerdictInv(proposals[id], history[id], now)
      BY DEF AllVerdicts
    <2>2. proposals[id] \in Proposal /\ history[id] \in Record /\ now \in Nat
      BY Stored DEF TypeOK
    <2>3. proposals[id].closes_at \in Nat
      BY <2>2 DEF Proposal
    <2>4. /\ history[id].decidedAt \in 0..now
          /\ proposals[id].executable_at =
               Lesser(history[id].decidedAt + 0, proposals[id].closes_at + 0)
      BY <2>1 DEF VerdictInv, Approved
    <2> QED BY <2>2, <2>3, <2>4 DEF Lesser
  <1> QED BY <1>1, TypeCorrect, VerdictInvariant, PTL

(* What a proposal can become. *)
Stands(p, q) ==
    /\ p.action = q.action /\ p.closes_at = q.closes_at
    /\ p.status \in {"Rejected", "Cancelled", "Executed"} => q = p
    /\ p.status = "Passed" => q.status \in {"Passed", "Executed", "Cancelled"}

(* No step makes anything else of it. *)
LEMMA FateStands ==
    ASSUME TypeOK, [Next]_vars, NEW id \in DOMAIN proposals
    PROVE  Stands(proposals[id], proposals'[id])
  <1>1. Fate(id)
    BY Fates
  <1>2. proposals[id] \in Proposal
    BY Stored
  <1>3. CASE Same(id)
    BY <1>3 DEF Same, Stands
  <1>4. CASE VotedOn(id)
    <2>1. PICK m \in Accounts, ok \in BOOLEAN :
            /\ proposals[id].status = "Open"
            /\ proposals'[id] = settle(Counted(proposals[id], ok, weight[m]))
      BY <1>4 DEF VotedOn
    <2>2. weight[m] \in Weights
      BY DEF TypeOK
    <2>3. /\ Counted(proposals[id], ok, weight[m]) \in Proposal
          /\ Counted(proposals[id], ok, weight[m]).action = proposals[id].action
          /\ Counted(proposals[id], ok, weight[m]).closes_at = proposals[id].closes_at
      <3>1. Counted(proposals[id], ok, weight[m]) \in Proposal
        BY <1>2, <2>2, CountedType
      <3> QED BY <1>2, <3>1 DEF Counted, Proposal
    <2> QED BY <2>1, <2>3, SettleShape DEF Stands
  <1>5. CASE Tallied(id)
    BY <1>2, <1>5, SettleShape DEF Tallied, Stands
  <1>6. CASE CarriedOut(id)
    <2> DEFINE q == settle(proposals[id])
    <2>1. /\ q \in Proposal /\ q.action = proposals[id].action
          /\ q.closes_at = proposals[id].closes_at
          /\ proposals[id].status # "Open" => q = proposals[id]
      BY <1>2, SettleShape
    <2>2. q.status = "Passed" /\ proposals'[id] = [q EXCEPT !.status = "Executed"]
      BY <1>6 DEF CarriedOut
    <2> HIDE DEF q
    <2>3. /\ proposals'[id].action = q.action /\ proposals'[id].closes_at = q.closes_at
          /\ proposals'[id].status = "Executed"
      BY <2>1, <2>2 DEF Proposal
    <2> QED BY <2>1, <2>2, <2>3 DEF Stands
  <1>7. CASE Stopped(id)
    BY <1>2, <1>7 DEF Stopped, Proposal, Stands
  <1> QED BY <1>1, <1>3, <1>4, <1>5, <1>6, <1>7 DEF Fate

(* A verdict is for good: no step changes a rejected, cancelled or executed   *)
(* proposal, or makes of a passed one anything but executed or cancelled.     *)
THEOREM VerdictsAlwaysStand == Spec => VerdictsStand
  <1>1. TypeOK /\ [Next]_vars =>
          [\A id \in DOMAIN proposals : Stands(proposals[id], proposals'[id])]_vars
    BY FateStands
  <1> QED BY <1>1, TypeCorrect, PTL DEF Spec, VerdictsStand, Stands

--------------------------------------------------------------------------------
(* The contract keeps its promise. *)

(* A payment put to the vote is of something, and what was spent in the window *)
(* is not negative.                                                            *)
PaysInv ==
    /\ \A id \in DOMAIN proposals :
         proposals[id].action.kind = "Pay" => proposals[id].action.amount > 0
    /\ window.spent >= 0

(* Every step keeps it: a proposal's action never changes, and a window is     *)
(* only ever added to.                                                         *)
LEMMA PaysStep == TypeOK /\ PaysInv /\ [Next]_vars => PaysInv'
  <1> SUFFICES ASSUME TypeOK, PaysInv, [Next]_vars PROVE PaysInv'
    OBVIOUS
  <1>1. ASSUME NEW id \in DOMAIN proposals', proposals'[id].action.kind = "Pay"
        PROVE  proposals'[id].action.amount > 0
    <2>1. CASE id \in DOMAIN proposals
      <3>1. proposals'[id].action = proposals[id].action
        BY <2>1, FateStands DEF Stands
      <3> QED BY <1>1, <2>1, <3>1 DEF PaysInv
    <2>2. CASE id \notin DOMAIN proposals
      <3>1. Born(id)
        BY <1>1, <2>2, Fates
      <3>2. check(proposals'[id].action)
        BY <3>1 DEF Born
      <3> QED BY <1>1, <3>2 DEF check
    <2> QED BY <2>1, <2>2
  <1>2. window \in Window /\ window.spent \in Int
    BY DEF TypeOK, Window
  <1>3. ASSUME NEW m \in Accounts, NEW t \in Tokens, NEW to \in Recipients, NEW n \in Amounts,
               Spend(m, t, to, n)
        PROVE  window'.spent >= 0
    <2> DEFINE w == current(policy.spend_window)
    <2>1. window' = [w EXCEPT !.spent = w.spent + n] /\ n > 0 /\ n \in Int
      BY <1>3, ConstantsAssumption DEF Spend
    <2>2. w \in Window /\ w.spent >= 0
      BY <1>2 DEF current, PaysInv, TypeOK, Window
    <2> HIDE DEF w
    <2>3. window'.spent = w.spent + n /\ w.spent \in Int
      BY <2>1, <2>2 DEF Window
    <2> QED BY <2>1, <2>2, <2>3
  <1>4. window' = window \/ window'.spent >= 0
    BY <1>3 DEF Next, vars, rules, Propose, Vote, Tally, Execute, ExecutePay, ExecuteSetPolicy,
                ExecuteSetMember, ExecuteAllow, ExecuteDeny, ExecuteRevoke, Cancel, Deposit, Tick
  <1> QED BY <1>1, <1>4 DEF PaysInv

(* So it holds from the start. *)
LEMMA PaysInvariant == Spec => []PaysInv
  <1>1. Init => PaysInv
    BY DEF Init, PaysInv
  <1> QED BY <1>1, PaysStep, TypeCorrect, PTL DEF Spec

\* How a proposal stands, seen from outside.
Standing(ps) ==
    [id \in 1..MaxProposals |-> IF id \in DOMAIN ps THEN ps[id].status ELSE "Unborn"]

(* One stored proposal replaced. *)
LEMMA StandingMoves ==
    ASSUME TypeOK, NEW id \in DOMAIN proposals, NEW q \in Proposal,
           proposals' = [proposals EXCEPT ![id] = q]
    PROVE  /\ id \in 1..MaxProposals /\ Standing(proposals)[id] = proposals[id].status
           /\ Standing(proposals') = [Standing(proposals) EXCEPT ![id] = q.status]
  <1>1. proposals \in Seq(Proposal) /\ Len(proposals) \in Nat /\ Len(proposals) <= MaxProposals
        /\ DOMAIN proposals = 1..Len(proposals)
    BY DEF TypeOK
  <1>2. id \in 1..MaxProposals
    BY <1>1, ConstantsAssumption
  <1>3. DOMAIN proposals' = DOMAIN proposals /\ proposals'[id] = q
        /\ \A k \in DOMAIN proposals : k # id => proposals'[k] = proposals[k]
    BY <1>1
  <1> QED BY <1>2, <1>3 DEF Standing

(* What is decided or withdrawn: a step that only deliberates. *)
LEMMA Deliberates ==
    ASSUME TypeOK, NEW id \in DOMAIN proposals, NEW q \in Proposal,
           proposals[id].status = "Open",
           q.status \in {"Open", "Passed", "Rejected", "Cancelled"},
           proposals' = [proposals EXCEPT ![id] = q], UNCHANGED <<rules, balance>>
    PROVE  [Promise!Next]_(Promise!promise)
  <1>1. /\ id \in 1..MaxProposals /\ Standing(proposals)[id] = "Open"
        /\ Standing(proposals') = [Standing(proposals) EXCEPT ![id] = q.status]
    BY StandingMoves
  <1>2. policy' = policy
    BY DEF rules
  <1>3. CASE q.status = "Open"
    <2>1. Standing(proposals') = Standing(proposals)
      BY <1>1, <1>3 DEF Standing
    <2> QED BY <1>2, <2>1 DEF Promise!promise, Standing
  <1>4. CASE q.status # "Open"
    <2>1. Promise!Deliberate(id)
      BY <1>1, <1>2, <1>4 DEF Promise!Deliberate, Standing
    <2> QED BY <1>1, <2>1 DEF Promise!Next
  <1> QED BY <1>3, <1>4

(* A proposal that is carried out was live, and is executed. *)
LEMMA CarriesOut ==
    ASSUME TypeOK, NEW id, Executable(id), Mark(id)
    PROVE  /\ id \in 1..MaxProposals /\ Standing(proposals)[id] \in {"Open", "Passed"}
           /\ Standing(proposals') = [Standing(proposals) EXCEPT ![id] = "Executed"]
  <1> DEFINE q == [settle(proposals[id]) EXCEPT !.status = "Executed"]
  <1>1. id \in DOMAIN proposals /\ settle(proposals[id]).status = "Passed"
    BY DEF Executable
  <1>2. proposals[id] \in Proposal
    BY <1>1, Stored
  <1>3. settle(proposals[id]) \in Proposal /\ q \in Proposal
    BY <1>1, SettleStored
  <1>4. proposals[id].status \in {"Open", "Passed"}
    BY <1>1, <1>2, SettleShape
  <1>5. proposals' = [proposals EXCEPT ![id] = q]
    BY DEF Mark
  <1>6. q.status = "Executed"
    BY <1>3 DEF Proposal
  <1> HIDE DEF q
  <1> QED BY <1>1, <1>3, <1>4, <1>5, <1>6, StandingMoves

(* One token's holding falls. *)
LEMMA Falls ==
    ASSUME TypeOK, NEW t \in Tokens, NEW n \in Int, n > 0, pay_out(t, n), NEW most \in Int,
           n <= most
    PROVE  Promise!Pays(most)
  <1>1. balance \in [Tokens -> Nat]
    BY DEF TypeOK
  <1>2. balance[t] >= n /\ balance' = [balance EXCEPT ![t] = balance[t] - n]
    BY DEF pay_out
  <1>3. balance'[t] = balance[t] - n /\ balance[t] \in Nat
    BY <1>1, <1>2
  <1>4. balance'[t] < balance[t] /\ balance[t] - balance'[t] <= most /\ balance'[t] >= 0
    BY <1>2, <1>3
  <1>5. balance' = [balance EXCEPT ![t] = balance'[t]]
    BY <1>2, <1>3
  <1> QED BY <1>4, <1>5 DEF Promise!Pays

(* Seen from outside, every step of the contract is one the promise allows. *)
LEMMA PromiseStep == TypeOK /\ PaysInv /\ [Next]_vars => [Promise!Next]_(Promise!promise)
  <1> SUFFICES ASSUME TypeOK, PaysInv, [Next]_vars PROVE [Promise!Next]_(Promise!promise)
    OBVIOUS
  <1>1. /\ proposals \in Seq(Proposal) /\ Len(proposals) \in Nat
        /\ Len(proposals) <= MaxProposals /\ DOMAIN proposals = 1..Len(proposals)
        /\ balance \in [Tokens -> Nat]
    BY DEF TypeOK
  <1>2. ASSUME UNCHANGED <<rules, proposals, balance>>
        PROVE  [Promise!Next]_(Promise!promise)
    BY <1>2 DEF Promise!promise, rules
  <1>3. ASSUME NEW m \in Accounts, NEW x \in Actions, Propose(m, x)
        PROVE  [Promise!Next]_(Promise!promise)
    <2>0. PICK k \in Nat : k = Len(proposals) + 1
      BY <1>1
    <2> DEFINE p == [proposer |-> m, action |-> x, status |-> "Open",
                     closes_at |-> now + policy.voting_period,
                     executable_at |-> now + policy.voting_period + wait(policy, x),
                     yes |-> 0, no |-> 0]
    <2>1. /\ proposals' = Append(proposals, p) /\ Len(proposals) < MaxProposals
          /\ UNCHANGED <<rules, balance>>
      BY <1>3 DEF Propose
    <2>2. p.status = "Open"
      OBVIOUS
    <2> HIDE DEF p
    <2>3. /\ DOMAIN proposals' = DOMAIN proposals \cup {k} /\ proposals'[k] = p
          /\ \A i \in DOMAIN proposals : proposals'[i] = proposals[i]
          /\ k \in 1..MaxProposals /\ k \notin DOMAIN proposals
      BY <1>1, <2>0, <2>1, ConstantsAssumption
    <2>4. /\ Standing(proposals)[k] = "Unborn"
          /\ Standing(proposals') = [Standing(proposals) EXCEPT ![k] = "Open"]
      BY <2>2, <2>3 DEF Standing
    <2>5. Promise!Deliberate(k)
      BY <2>1, <2>4 DEF Promise!Deliberate, Standing, rules
    <2> QED BY <2>3, <2>5 DEF Promise!Next
  <1>4. ASSUME NEW m \in Accounts, NEW id \in 1..MaxProposals, NEW ok \in BOOLEAN,
               Vote(m, id, ok)
        PROVE  [Promise!Next]_(Promise!promise)
    <2> DEFINE c == Counted(proposals[id], ok, weight[m])
    <2>1. /\ id \in DOMAIN proposals /\ proposals[id].status = "Open"
          /\ proposals' = [proposals EXCEPT ![id] = settle(c)] /\ UNCHANGED <<rules, balance>>
      BY <1>4 DEF Vote, Counted
    <2>2. weight[m] \in Weights /\ proposals[id] \in Proposal
      BY <2>1, Stored DEF TypeOK
    <2>3. c \in Proposal
      BY <2>2, CountedType
    <2>4. c.status = "Open"
      BY <2>1, <2>2 DEF Counted, Proposal
    <2> HIDE DEF c
    <2>5. settle(c) \in Proposal /\ settle(c).status \in {"Open", "Passed", "Rejected"}
      BY <2>3, <2>4, SettleShape, OutcomeType
    <2> QED BY <2>1, <2>5, Deliberates
  <1>5. ASSUME NEW id \in 1..MaxProposals, Tally(id)
        PROVE  [Promise!Next]_(Promise!promise)
    <2>1. /\ id \in DOMAIN proposals /\ proposals[id].status = "Open"
          /\ proposals' = [proposals EXCEPT ![id] = settle(proposals[id])]
          /\ UNCHANGED <<rules, balance>>
      BY <1>5 DEF Tally
    <2>2. proposals[id] \in Proposal
      BY <2>1, Stored
    <2>3. /\ settle(proposals[id]) \in Proposal
          /\ settle(proposals[id]).status \in {"Open", "Passed", "Rejected"}
      BY <2>1, <2>2, SettleShape, OutcomeType
    <2> QED BY <2>1, <2>3, Deliberates
  <1>6. ASSUME NEW m \in Accounts, NEW id \in 1..MaxProposals, Cancel(m, id)
        PROVE  [Promise!Next]_(Promise!promise)
    <2> DEFINE q == [proposals[id] EXCEPT !.status = "Cancelled"]
    <2>1. /\ id \in DOMAIN proposals /\ proposals[id].status = "Open"
          /\ proposals' = [proposals EXCEPT ![id] = q] /\ UNCHANGED <<rules, balance>>
      BY <1>6 DEF Cancel
    <2>2. proposals[id] \in Proposal
      BY <2>1, Stored
    <2>3. q \in Proposal /\ q.status = "Cancelled"
      BY <2>2 DEF Proposal, Status
    <2> HIDE DEF q
    <2> QED BY <2>1, <2>3, Deliberates
  <1>7. ASSUME NEW id \in 1..MaxProposals, ExecutePay(id)
        PROVE  [Promise!Next]_(Promise!promise)
    <2> DEFINE a == proposals[id].action
    <2>1. Executable(id) /\ Mark(id) /\ a.kind = "Pay" /\ pay_out(a.token, a.amount)
          /\ UNCHANGED rules
      BY <1>7 DEF ExecutePay
    <2>2. id \in DOMAIN proposals
      BY <2>1 DEF Executable
    <2>3. a \in ActionType
      BY <2>2, Stored, ConstantsAssumption DEF Proposal
    <2>4. a.token \in Tokens /\ a.amount \in Int
      BY <2>1, <2>3 DEF ActionType
    <2>5. a.amount > 0
      BY <2>1, <2>2 DEF PaysInv
    <2> HIDE DEF a
    <2>6. balance[a.token] \in Int /\ a.amount <= balance[a.token]
      BY <1>1, <2>1, <2>4 DEF pay_out
    <2>7. Promise!Pays(balance[a.token])
      BY <2>1, <2>4, <2>5, <2>6, Falls
    <2>8. /\ id \in 1..MaxProposals /\ Standing(proposals)[id] \in {"Open", "Passed"}
          /\ Standing(proposals') = [Standing(proposals) EXCEPT ![id] = "Executed"]
      BY <2>1, CarriesOut
    <2>9. Promise!CarryOut(id)
      BY <2>1, <2>4, <2>7, <2>8 DEF Promise!CarryOut, Promise!Live, Standing, rules
    <2> QED BY <2>8, <2>9 DEF Promise!Next
  <1>8. ASSUME NEW id \in 1..MaxProposals,
               ExecuteSetPolicy(id) \/ ExecuteSetMember(id) \/ ExecuteAllow(id) \/ ExecuteDeny(id)
        PROVE  [Promise!Next]_(Promise!promise)
    <2>1. Executable(id) /\ Mark(id) /\ balance' = balance
      BY <1>8 DEF ExecuteSetPolicy, ExecuteSetMember, ExecuteAllow, ExecuteDeny
    <2>2. /\ id \in 1..MaxProposals /\ Standing(proposals)[id] \in {"Open", "Passed"}
          /\ Standing(proposals') = [Standing(proposals) EXCEPT ![id] = "Executed"]
      BY <2>1, CarriesOut
    <2>3. Promise!CarryOut(id)
      BY <2>1, <2>2 DEF Promise!CarryOut, Promise!Live, Standing
    <2> QED BY <2>2, <2>3 DEF Promise!Next
  <1>9. ASSUME NEW id \in 1..MaxProposals, ExecuteRevoke(id)
        PROVE  [Promise!Next]_(Promise!promise)
    <2> DEFINE t == proposals[id].action.target
               q == [settle(proposals[id]) EXCEPT !.status = "Executed"]
               s == [proposals EXCEPT ![id] = q]
    <2>1. /\ id \in DOMAIN proposals /\ t \in DOMAIN proposals /\ t # id
          /\ settle(proposals[id]).status = "Passed"
          /\ proposals[t].status \in {"Open", "Passed"} /\ UNCHANGED <<rules, balance>>
          /\ proposals' = [s EXCEPT ![t] = [s[t] EXCEPT !.status = "Cancelled"]]
      BY <1>9 DEF ExecuteRevoke, Executable, revocable
    <2>2. proposals[id] \in Proposal /\ proposals[t] \in Proposal
      BY <2>1, Stored
    <2>3. settle(proposals[id]) \in Proposal
      BY <2>1, SettleStored
    <2>4. proposals[id].status \in {"Open", "Passed"}
      BY <2>1, <2>2, SettleShape
    <2>5. q.status = "Executed" /\ [proposals[t] EXCEPT !.status = "Cancelled"].status = "Cancelled"
      BY <2>2, <2>3 DEF Proposal
    <2> HIDE DEF q, t
    <2>6. /\ DOMAIN proposals' = DOMAIN proposals /\ proposals'[id] = q
          /\ proposals'[t] = [proposals[t] EXCEPT !.status = "Cancelled"]
          /\ \A k \in DOMAIN proposals : k # id /\ k # t => proposals'[k] = proposals[k]
      BY <1>1, <2>1
    <2>7. id \in 1..MaxProposals /\ t \in 1..MaxProposals
      BY <1>1, <2>1, ConstantsAssumption
    <2>8. /\ Standing(proposals)[id] \in {"Open", "Passed"}
          /\ Standing(proposals)[t] \in {"Open", "Passed"}
          /\ Standing(proposals') =
               [Standing(proposals) EXCEPT ![id] = "Executed", ![t] = "Cancelled"]
      BY <2>1, <2>4, <2>5, <2>6, <2>7 DEF Standing
    <2>9. Promise!CarryOut(id)
      BY <2>1, <2>7, <2>8 DEF Promise!CarryOut, Promise!Live, Standing, rules
    <2> QED BY <2>7, <2>9 DEF Promise!Next
  <1>10. ASSUME NEW m \in Accounts, NEW t \in Tokens, NEW to \in Recipients, NEW n \in Amounts,
                Spend(m, t, to, n)
         PROVE  [Promise!Next]_(Promise!promise)
    <2> DEFINE w == current(policy.spend_window)
    <2>1. /\ n > 0 /\ n \in Int /\ w.spent + n <= policy.spend_limit /\ pay_out(t, n)
          /\ UNCHANGED <<rules, proposals>>
      BY <1>10, ConstantsAssumption DEF Spend
    <2>2. w.spent >= 0 /\ w.spent \in Int /\ policy.spend_limit \in Int
      BY DEF current, PaysInv, TypeOK, Window, Policy
    <2> HIDE DEF w
    <2>3. n <= policy.spend_limit
      BY <2>1, <2>2
    <2>4. Promise!Pays(policy.spend_limit)
      BY <2>1, <2>2, <2>3, Falls
    <2>5. Promise!SpendWithinLimit
      BY <2>1, <2>4 DEF Promise!SpendWithinLimit, rules
    <2> QED BY <2>5 DEF Promise!Next
  <1>11. ASSUME NEW t \in Tokens, NEW n \in Amounts, Deposit(t, n)
         PROVE  [Promise!Next]_(Promise!promise)
    <2>1. /\ n > 0 /\ n \in Int /\ balance' = [balance EXCEPT ![t] = balance[t] + n]
          /\ UNCHANGED <<rules, proposals>>
      BY <1>11, ConstantsAssumption DEF Deposit
    <2>2. balance'[t] = balance[t] + n /\ balance[t] \in Nat
      BY <1>1, <2>1
    <2>3. balance'[t] > balance[t]
      BY <2>1, <2>2
    <2>4. balance' = [balance EXCEPT ![t] = balance'[t]]
      BY <2>1, <2>2
    <2>5. Promise!Receive
      BY <2>1, <2>3, <2>4 DEF Promise!Receive, rules
    <2> QED BY <2>5 DEF Promise!Next
  <1>12. CASE Tick \/ UNCHANGED vars
    BY <1>2, <1>12 DEF Tick, vars
  <1> QED BY <1>3, <1>4, <1>5, <1>6, <1>7, <1>8, <1>9, <1>10, <1>11, <1>12 DEF Next, Execute

(* The contract implements TreasuryPromise: whatever the members vote for, the *)
(* rules change and money leaves only by a live proposal carried out, once, or *)
(* by a spend within the limit.                                                *)
THEOREM PromiseKept == Spec => KeepsPromise
  <1>1. Init => Promise!Init
    BY DEF Init, Promise!Init
  <1> QED BY <1>1, PromiseStep, TypeCorrect, PaysInvariant, PTL DEF Spec, KeepsPromise, Promise!Spec

--------------------------------------------------------------------------------
(* Spending without a proposal. *)

(* Finitely many voters have finitely many unit votes, whatever their weights. *)
LEMMA UnitsFinite ==
    ASSUME NEW S, IsFiniteSet(S), NEW w, \A m \in S : w[m] \in Nat
    PROVE  IsFiniteSet(UnitVotes(S, w)) /\ Cardinality(UnitVotes(S, w)) \in Nat
  <1> DEFINE T == {{m} \X (1..w[m]) : m \in S}
             f == [m \in S |-> {m} \X (1..w[m])]
  <1>1. f \in Surjection(S, T)
    BY DEF Surjection
  <1>2. IsFiniteSet(T)
    <2> HIDE DEF T, f
    <2> QED BY <1>1, FS_Surjection
  <1>3. ASSUME NEW U \in T
        PROVE  IsFiniteSet(U)
    <2>1. PICK m \in S : U = {m} \X (1..w[m])
      OBVIOUS
    <2>2. w[m] \in Nat
      OBVIOUS
    <2> QED BY <2>1, <2>2, UnitVotesOne
  <1> HIDE DEF T
  <1>4. IsFiniteSet(UNION T)
    BY <1>2, <1>3, FS_UNION
  <1>5. IsFiniteSet(UnitVotes(S, w))
    BY <1>4 DEF T, UnitVotes
  <1> QED BY <1>5, FS_CardinalityType

(* More voters have no fewer, and two groups together no more than both. *)
LEMMA UnitsSplit ==
    ASSUME NEW R, NEW S, NEW T, IsFiniteSet(S), IsFiniteSet(T), R \subseteq S \cup T,
           NEW w, \A m \in S \cup T : w[m] \in Nat
    PROVE  Cardinality(UnitVotes(R, w)) <= Cardinality(UnitVotes(S, w)) + Cardinality(UnitVotes(T, w))
  <1> DEFINE A == UnitVotes(R, w)
             B == UnitVotes(S, w)
             C == UnitVotes(T, w)
  <1>1. IsFiniteSet(B) /\ Cardinality(B) \in Nat /\ IsFiniteSet(C) /\ Cardinality(C) \in Nat
    BY UnitsFinite
  <1>2. A \subseteq B \cup C
    BY DEF UnitVotes
  <1> HIDE DEF A, B, C
  <1>3. /\ IsFiniteSet(B \cup C)
        /\ Cardinality(B \cup C) = Cardinality(B) + Cardinality(C) - Cardinality(B \cap C)
    BY <1>1, FS_Union
  <1>4. Cardinality(B \cap C) \in Nat
    <2>1. IsFiniteSet(B \cap C)
      BY <1>1, FS_Intersection
    <2> QED BY <2>1, FS_CardinalityType
  <1>5. Cardinality(A) <= Cardinality(B \cup C) /\ Cardinality(A) \in Nat
    <2>1. IsFiniteSet(A) /\ Cardinality(A) <= Cardinality(B \cup C)
      BY <1>2, <1>3, FS_Subset
    <2> QED BY <2>1, FS_CardinalityType
  <1>6. Cardinality(A) <= Cardinality(B) + Cardinality(C)
    BY <1>1, <1>3, <1>4, <1>5
  <1> QED BY <1>6 DEF A, B, C

(* No weight, no votes. *)
LEMMA UnitsNone ==
    ASSUME NEW S, NEW w, \A m \in S : w[m] = 0
    PROVE  Cardinality(UnitVotes(S, w)) = 0
  <1>1. UnitVotes(S, w) = {}
    BY DEF UnitVotes
  <1> QED BY <1>1, FS_EmptySet

(* One voter's weight raised. *)
LEMMA UnitsAdd ==
    ASSUME NEW D, IsFiniteSet(D), NEW w \in [D -> Nat], NEW x \in D, NEW n \in Nat,
           NEW S \in SUBSET D, NEW v \in [D -> Nat], v[x] = w[x] + n,
           \A m \in D \ {x} : v[m] = w[m]
    PROVE  /\ x \in S => Cardinality(UnitVotes(S, v)) = Cardinality(UnitVotes(S, w)) + n
           /\ x \notin S => Cardinality(UnitVotes(S, v)) = Cardinality(UnitVotes(S, w))
  <1> DEFINE A == UnitVotes(S, w)
             B == {x} \X ((w[x] + 1)..(w[x] + n))
  <1>1. v \in [D -> Nat] /\ v[x] = w[x] + n /\ \A m \in D : m # x => v[m] = w[m]
    OBVIOUS
  <1>2. w[x] \in Nat
    OBVIOUS
  <1>3. IsFiniteSet(S)
    BY FS_Subset
  <1>4. IsFiniteSet(A) /\ Cardinality(A) \in Nat
    BY <1>3, UnitsFinite
  <1>5. CASE x \notin S
    <2>1. UnitVotes(S, v) = A
      BY <1>1, <1>5 DEF UnitVotes
    <2> QED BY <1>4, <1>5, <2>1
  <1>6. CASE x \in S
    <2>1. IsFiniteSet(B) /\ Cardinality(B) = n
      <3> DEFINE I == (w[x] + 1)..(w[x] + n)
      <3>0. PICK lo \in Int, hi \in Int : lo = w[x] + 1 /\ hi = w[x] + n
        BY <1>2
      <3>1. IsFiniteSet(lo..hi) /\ Cardinality(lo..hi) = IF lo > hi THEN 0 ELSE hi - lo + 1
        BY FS_Interval
      <3>2. IsFiniteSet(I) /\ Cardinality(I) = n
        BY <1>2, <3>0, <3>1
      <3>3. IsFiniteSet({x}) /\ Cardinality({x}) = 1
        BY FS_Singleton
      <3> HIDE DEF I
      <3>4. IsFiniteSet({x} \X I) /\ Cardinality({x} \X I) = Cardinality({x}) * Cardinality(I)
        BY <3>2, <3>3, FS_Product, Zenon
      <3>5. Cardinality({x} \X I) = n
        BY <3>2, <3>3, <3>4
      <3> QED BY <3>4, <3>5 DEF I
    <2>2. A \cap B = {}
      BY <1>2 DEF UnitVotes
    <2>3. UnitVotes(S, v) = A \cup B
      <3>1. ASSUME NEW m \in S, m # x
            PROVE  {m} \X (1..v[m]) = {m} \X (1..w[m])
        BY <1>1, <3>1
      <3>2. {x} \X (1..v[x]) = ({x} \X (1..w[x])) \cup B
        <4>1. 1..v[x] = (1..w[x]) \cup ((w[x] + 1)..(w[x] + n))
          BY <1>1, <1>2
        <4> QED BY <4>1
      <3> HIDE DEF B
      <3>3. ASSUME NEW u
            PROVE  u \in UnitVotes(S, v) <=> \E m \in S : u \in {m} \X (1..v[m])
        BY DEF UnitVotes
      <3>4. ASSUME NEW u
            PROVE  u \in UnitVotes(S, w) <=> \E m \in S : u \in {m} \X (1..w[m])
        BY DEF UnitVotes
      <3>5. ASSUME NEW u
            PROVE  (\E m \in S : u \in {m} \X (1..v[m]))
                     <=> (\E m \in S : u \in {m} \X (1..w[m])) \/ u \in B
        <4>1. ASSUME NEW m \in S, u \in {m} \X (1..v[m])
              PROVE  (\E k \in S : u \in {k} \X (1..w[k])) \/ u \in B
          BY <3>1, <3>2, <4>1
        <4>2. ASSUME NEW m \in S, u \in {m} \X (1..w[m])
              PROVE  \E k \in S : u \in {k} \X (1..v[k])
          BY <3>1, <3>2, <4>2
        <4>3. u \in B => \E k \in S : u \in {k} \X (1..v[k])
          BY <1>6, <3>2
        <4> QED BY <4>1, <4>2, <4>3
      <3> QED BY <3>3, <3>4, <3>5 DEF A
    <2> HIDE DEF A, B
    <2>4. Cardinality(A \cup B) = Cardinality(A) + Cardinality(B) - Cardinality(A \cap B)
      BY <1>4, <2>1, FS_Union
    <2>5. Cardinality(A \cap B) = 0
      BY <2>2, FS_EmptySet
    <2>6. Cardinality(A \cup B) = Cardinality(A) + n
      BY <1>4, <2>1, <2>4, <2>5
    <2> QED BY <1>6, <2>3, <2>6 DEF A
  <1> QED BY <1>5, <1>6

Times == 0..MaxTime
Between(lo, hi) == {t \in Times : lo <= t /\ t <= hi}
\* What w says was spent at those times.
Sum(w, lo, hi) == Cardinality(UnitVotes(Between(lo, hi), w))

(* Sums of what was spent are numbers; a stretch covered by two others sees no *)
(* more than both of them, and one covered by another no more than that one.   *)
LEMMA Stretches ==
    ASSUME NEW w \in [Times -> Nat], NEW R, NEW S \in SUBSET Times, NEW T \in SUBSET Times,
           R \subseteq S \cup T
    PROVE  /\ Cardinality(UnitVotes(R, w)) \in Nat /\ Cardinality(UnitVotes(S, w)) \in Nat
           /\ Cardinality(UnitVotes(T, w)) \in Nat
           /\ Cardinality(UnitVotes(R, w)) <=
                Cardinality(UnitVotes(S, w)) + Cardinality(UnitVotes(T, w))
           /\ R \subseteq S => Cardinality(UnitVotes(R, w)) <= Cardinality(UnitVotes(S, w))
  <1>1. IsFiniteSet(Times)
    BY ConstantsAssumption, FS_Interval DEF Times
  <1>2. IsFiniteSet(R) /\ IsFiniteSet(S) /\ IsFiniteSet(T)
    BY <1>1, FS_Subset
  <1>3. /\ Cardinality(UnitVotes(R, w)) \in Nat /\ Cardinality(UnitVotes(S, w)) \in Nat
        /\ Cardinality(UnitVotes(T, w)) \in Nat
    BY <1>2, UnitsFinite
  <1>4. Cardinality(UnitVotes(R, w)) <=
          Cardinality(UnitVotes(S, w)) + Cardinality(UnitVotes(T, w))
    BY <1>2, UnitsSplit
  <1>5. ASSUME R \subseteq S
        PROVE  Cardinality(UnitVotes(R, w)) <= Cardinality(UnitVotes(S, w))
    <2>1. IsFiniteSet({}) /\ R \subseteq S \cup {} /\ \A m \in S \cup {} : w[m] \in Nat
      BY <1>5, FS_EmptySet
    <2>2. Cardinality(UnitVotes(R, w)) <=
            Cardinality(UnitVotes(S, w)) + Cardinality(UnitVotes({}, w))
      BY <1>2, <2>1, UnitsSplit
    <2>3. Cardinality(UnitVotes({}, w)) = 0
      BY UnitsNone
    <2> QED BY <1>3, <2>2, <2>3
  <1> QED BY <1>3, <1>4, <1>5

(* Spending adds to the stretches that see it, and to no other. *)
LEMMA SpendAdds ==
    ASSUME NEW w \in [Times -> Nat], NEW x \in Times, NEW n \in Nat, NEW lo, NEW hi,
           NEW v \in [Times -> Nat], v[x] = w[x] + n, \A k \in Times \ {x} : v[k] = w[k]
    PROVE  /\ x \in Between(lo, hi) => Sum(v, lo, hi) = Sum(w, lo, hi) + n
           /\ x \notin Between(lo, hi) => Sum(v, lo, hi) = Sum(w, lo, hi)
  <1>1. IsFiniteSet(Times)
    BY ConstantsAssumption, FS_Interval DEF Times
  <1> DEFINE S == Between(lo, hi)
  <1>2. S \in SUBSET Times
    BY DEF Between
  <1> HIDE DEF S
  <1>3. /\ x \in S => Cardinality(UnitVotes(S, v)) = Cardinality(UnitVotes(S, w)) + n
        /\ x \notin S => Cardinality(UnitVotes(S, v)) = Cardinality(UnitVotes(S, w))
    BY <1>1, <1>2, UnitsAdd
  <1> QED BY <1>3 DEF Sum, S

\* One stretch as long as the window, for a limit.
Twice(w, W, L) == \A t \in Times : Sum(w, t, t + W - 1) <= 2 * L

\* The window knows all that was spent since it opened, which is within the limit,
\* as is all that was spent within a window's width before it did.
WindowOK(w, win, t, W, L) ==
    /\ win.start \in 0..t
    /\ Sum(w, win.start, MaxTime) = win.spent /\ win.spent <= L
    /\ Sum(w, win.start - W, win.start - 1) <= L
    /\ \A k \in Times : k >= win.start + W => w[k] = 0
SpendInv(w, win, t, W, L) ==
    /\ win.start = NEVER => \A k \in Times : w[k] = 0
    /\ win.start # NEVER => WindowOK(w, win, t, W, L)
    /\ \A k \in Times : k > t => w[k] = 0
    /\ Twice(w, W, L)

(* A stretch that sees what is spent now lies in the window, or begins within  *)
(* a window's width before it.                                                 *)
LEMMA TwiceHolds ==
    ASSUME NEW w \in [Times -> Nat], NEW win \in Window, NEW t \in Times, NEW W \in Nat, W > 0,
           NEW L \in Nat, WindowOK(w, win, t, W, L),
           NEW k \in Times, t \in Between(k, k + W - 1)
    PROVE  Sum(w, k, k + W - 1) <= 2 * L
  <1> DEFINE s == win.start
             R == Between(k, k + W - 1)
             S == Between(s, MaxTime)
             T == Between(s - W, s - 1)
  <1>1. s \in Nat /\ s <= t /\ k \in Nat /\ t \in Nat /\ k <= t /\ t <= k + W - 1 /\ MaxTime \in Nat
    BY ConstantsAssumption DEF WindowOK, Times, Between
  <1>2. R \subseteq Times /\ S \subseteq Times /\ T \subseteq Times
    BY DEF Between
  <1>3. R \subseteq S \cup T
    <2> SUFFICES ASSUME NEW i \in R PROVE i \in S \cup T
      OBVIOUS
    <2>1. i \in Nat /\ i <= MaxTime /\ k <= i /\ i <= k + W - 1 /\ i \in Times
      BY DEF Between, Times
    <2>2. CASE i >= s
      BY <1>1, <2>1, <2>2 DEF Between
    <2>3. CASE i < s
      BY <1>1, <2>1, <2>3 DEF Between
    <2> QED BY <1>1, <2>1, <2>2, <2>3
  <1>4. /\ Cardinality(UnitVotes(R, w)) \in Nat /\ Cardinality(UnitVotes(S, w)) \in Nat
        /\ Cardinality(UnitVotes(T, w)) \in Nat
        /\ Cardinality(UnitVotes(R, w)) <=
             Cardinality(UnitVotes(S, w)) + Cardinality(UnitVotes(T, w))
    BY <1>2, <1>3, Stretches
  <1>5. Cardinality(UnitVotes(S, w)) <= L /\ Cardinality(UnitVotes(T, w)) <= L
    BY DEF WindowOK, Sum
  <1> HIDE DEF R, S, T
  <1>6. Cardinality(UnitVotes(R, w)) <= 2 * L
    BY <1>4, <1>5
  <1> QED BY <1>6 DEF Sum, R

(* Spending within the limit keeps the invariant: in the window that is open,  *)
(* or in a fresh one.                                                          *)
LEMMA SpendKeeps ==
    ASSUME TypeOK, check_policy(policy),
           SpendInv(spends, window, now, policy.spend_window, policy.spend_limit),
           NEW m \in Accounts, NEW tok \in Tokens, NEW to \in Recipients, NEW n \in Amounts,
           Spend(m, tok, to, n)
    PROVE  SpendInv(spends', window', now, policy.spend_window, policy.spend_limit)
  <1> DEFINE W == policy.spend_window
             L == policy.spend_limit
             c == current(W)
             w == spends
             v == [w EXCEPT ![now] = w[now] + n]
  <1>1. W \in Nat /\ W > 0 /\ L \in Nat /\ now \in Times /\ w \in [Times -> Nat] /\ window \in Window
    BY DEF TypeOK, Policy, check_policy, Spend, Times
  <1>2. /\ n \in Nat /\ n > 0 /\ c.spent + n <= L /\ window' = [c EXCEPT !.spent = c.spent + n]
        /\ spends' = v
    BY ConstantsAssumption DEF Spend
  <1>3. now \in Nat /\ MaxTime \in Nat /\ now <= MaxTime
    BY <1>1, ConstantsAssumption DEF Times
  <1>4. v \in [Times -> Nat] /\ \A k \in Times : k # now => v[k] = w[k]
    BY <1>1, <1>2
  <1>5. SpendInv(w, window, now, W, L)
    OBVIOUS
  <1> HIDE DEF W, L
  <1>6. c \in Window /\ c.start \in 0..now /\ now < c.start + W
    <2>1. CASE window.start # NEVER /\ W > 0 /\ now < window.start + W
      <3>1. c = window
        BY <2>1 DEF current
      <3> QED BY <1>1, <1>5, <2>1, <3>1 DEF SpendInv, WindowOK
    <2>2. CASE ~(window.start # NEVER /\ W > 0 /\ now < window.start + W)
      <3>1. c = [start |-> now, spent |-> 0]
        BY <2>2 DEF current
      <3> QED BY <1>1, <1>3, <3>1 DEF Window
    <2> QED BY <2>1, <2>2
  <1>7. /\ Sum(w, c.start, MaxTime) = c.spent
        /\ Sum(w, c.start - W, c.start - 1) <= L
    <2>1. CASE window.start # NEVER /\ W > 0 /\ now < window.start + W
      <3>1. c = window
        BY <2>1 DEF current
      <3> QED BY <1>5, <2>1, <3>1 DEF SpendInv, WindowOK
    <2>2. CASE ~(window.start # NEVER /\ W > 0 /\ now < window.start + W)
      <3>1. c.start = now /\ c.spent = 0
        BY <2>2 DEF current
      <3>2. \A k \in Between(now, MaxTime) : w[k] = 0
        <4>1. CASE window.start = NEVER
          BY <1>5, <4>1 DEF SpendInv, Between
        <4>2. CASE window.start # NEVER
          <5>1. window.start \in Nat /\ window.start + W <= now
            BY <1>1, <1>3, <1>5, <2>2, <4>2 DEF SpendInv, WindowOK
          <5>2. ASSUME NEW k \in Between(now, MaxTime)
                PROVE  k \in Times /\ k >= window.start + W
            BY <1>1, <1>3, <5>1 DEF Between, Times
          <5> QED BY <1>5, <4>2, <5>2 DEF SpendInv, WindowOK
        <4> QED BY <4>1, <4>2
      <3>3. Sum(w, now, MaxTime) = 0
        BY <3>2, UnitsNone DEF Sum
      <3>4. Sum(w, now - W, now - 1) <= L
        <4>1. CASE window.start = NEVER
          <5>1. \A k \in Between(now - W, now - 1) : w[k] = 0
            BY <1>5, <4>1 DEF SpendInv, Between
          <5>2. Sum(w, now - W, now - 1) = 0
            BY <5>1, UnitsNone DEF Sum
          <5> QED BY <1>1, <5>2
        <4>2. CASE window.start # NEVER
          <5> DEFINE S == Between(window.start, MaxTime)
                     R == Between(now - W, now - 1)
          <5>1. window.start \in Nat /\ window.start + W <= now
            BY <1>1, <1>3, <1>5, <2>2, <4>2 DEF SpendInv, WindowOK
          <5>2. R \subseteq S /\ S \subseteq Times /\ R \subseteq S \cup S
            BY <1>1, <1>3, <5>1 DEF Between, Times
          <5>3. /\ Cardinality(UnitVotes(R, w)) <= Cardinality(UnitVotes(S, w))
                /\ Cardinality(UnitVotes(R, w)) \in Nat /\ Cardinality(UnitVotes(S, w)) \in Nat
            BY <1>1, <5>2, Stretches
          <5>4. Cardinality(UnitVotes(S, w)) <= L
            BY <1>5, <4>2 DEF SpendInv, WindowOK, Sum
          <5> HIDE DEF R, S
          <5>5. Cardinality(UnitVotes(R, w)) <= L
            BY <1>1, <5>3, <5>4
          <5> QED BY <5>5 DEF Sum, R
        <4> QED BY <4>1, <4>2
      <3> QED BY <3>1, <3>3, <3>4
    <2> QED BY <2>1, <2>2
  <1>8. \A k \in Times : k >= c.start + W => w[k] = 0
    <2>1. CASE window.start # NEVER /\ W > 0 /\ now < window.start + W
      <3>1. c = window
        BY <2>1 DEF current
      <3> QED BY <1>5, <2>1, <3>1 DEF SpendInv, WindowOK
    <2>2. CASE ~(window.start # NEVER /\ W > 0 /\ now < window.start + W)
      <3>1. c.start = now
        BY <2>2 DEF current
      <3>2. \A k \in Times : k >= now + W => k > now
        BY <1>1, <1>3 DEF Times
      <3> QED BY <1>5, <3>1, <3>2 DEF SpendInv
    <2> QED BY <2>1, <2>2
  <1> HIDE DEF c, v, w
  <1>9. window' \in Window /\ window'.start = c.start /\ window'.spent = c.spent + n
    BY <1>1, <1>2, <1>6 DEF Window
  <1>10. c.start \in Nat /\ c.start <= now /\ c.spent \in Int
    BY <1>6 DEF Window
  <1>11. v \in [Times -> Nat] /\ v[now] = w[now] + n /\ \A k \in Times \ {now} : v[k] = w[k]
    BY <1>1, <1>2 DEF v
  <1>12. /\ Sum(v, c.start, MaxTime) = Sum(w, c.start, MaxTime) + n
         /\ Sum(v, c.start - W, c.start - 1) = Sum(w, c.start - W, c.start - 1)
    <2>1. now \in Between(c.start, MaxTime) /\ now \notin Between(c.start - W, c.start - 1)
      BY <1>1, <1>3, <1>10 DEF Between
    <2> QED BY <1>1, <1>2, <1>11, <2>1, SpendAdds
  <1>13. WindowOK(v, window', now, W, L)
    <2>1. \A k \in Times : k >= c.start + W => k # now
      BY <1>1, <1>3, <1>6, <1>10 DEF Times
    <2>2. \A k \in Times : k >= c.start + W => v[k] = 0
      BY <1>4, <1>8, <2>1
    <2> QED BY <1>2, <1>6, <1>7, <1>9, <1>12, <2>2 DEF WindowOK
  <1>14. \A k \in Times : k > now => v[k] = 0
    BY <1>3, <1>4, <1>5 DEF SpendInv
  <1>15. Twice(v, W, L)
    <2> SUFFICES ASSUME NEW k \in Times PROVE Sum(v, k, k + W - 1) <= 2 * L
      BY DEF Twice
    <2>1. CASE now \in Between(k, k + W - 1)
      BY <1>1, <1>4, <1>9, <1>13, <2>1, TwiceHolds
    <2>2. CASE now \notin Between(k, k + W - 1)
      <3>1. Sum(v, k, k + W - 1) = Sum(w, k, k + W - 1)
        BY <1>1, <1>2, <1>11, <2>2, SpendAdds
      <3>2. Sum(w, k, k + W - 1) <= 2 * L
        BY <1>5 DEF SpendInv, Twice
      <3> QED BY <3>1, <3>2
    <2> QED BY <2>1, <2>2
  <1>16. window'.start # NEVER
    BY <1>9, <1>10 DEF NEVER
  <1> QED BY <1>2, <1>13, <1>14, <1>15, <1>16 DEF SpendInv, W, L

(* Under one policy no stretch of time as long as the spending window sees     *)
(* more than twice the limit go out without a proposal, for any window, limit  *)
(* and amounts, however the payments fall.                                     *)
THEOREM SpendingBounded ==
    ASSUME \A a \in Actions : a.kind # "SetPolicy"
    PROVE  Spec => []SpendsAtMostTwice
  <1> DEFINE I == SpendInv(spends, window, now, policy.spend_window, policy.spend_limit)
  <1>1. Init => I
    <2> SUFFICES ASSUME Init PROVE I
      OBVIOUS
    <2>1. /\ window.start = NEVER /\ spends = [t \in Times |-> 0]
          /\ policy.spend_limit \in Nat
      BY ConstantsAssumption DEF Init, Times, check_policy, Policy
    <2>2. \A k \in Times : spends[k] = 0
      BY <2>1
    <2>3. Twice(spends, policy.spend_window, policy.spend_limit)
      <3> SUFFICES ASSUME NEW t \in Times
                   PROVE  Sum(spends, t, t + policy.spend_window - 1) <= 2 * policy.spend_limit
        BY DEF Twice
      <3>1. \A k \in Between(t, t + policy.spend_window - 1) : spends[k] = 0
        BY <2>2 DEF Between
      <3>2. Sum(spends, t, t + policy.spend_window - 1) = 0
        BY <3>1, UnitsNone DEF Sum
      <3> QED BY <2>1, <3>2
    <2> QED BY <2>1, <2>2, <2>3 DEF SpendInv
  <1>2. TypeOK /\ TypeOK' /\ RulesInv /\ I /\ [Next]_vars => I'
    <2> SUFFICES ASSUME TypeOK, TypeOK', RulesInv, I, [Next]_vars PROVE I'
      OBVIOUS
    <2>1. policy' = policy
      <3>1. ASSUME NEW id, ExecuteSetPolicy(id) PROVE FALSE
        <4>1. id \in DOMAIN proposals /\ proposals[id].action.kind = "SetPolicy"
          BY <3>1 DEF ExecuteSetPolicy, Executable
        <4>2. proposals[id].action \in Actions
          BY <4>1, Stored DEF Proposal
        <4> QED BY <4>1, <4>2
      <3> QED BY <3>1 DEF Next, vars, rules, Propose, Vote, Tally, Execute, ExecutePay,
                ExecuteSetMember, ExecuteAllow, ExecuteDeny, ExecuteRevoke, Cancel, Spend, Deposit,
                Tick
    <2>2. CASE \E m \in Accounts, t \in Tokens, to \in Recipients, n \in Amounts : Spend(m, t, to, n)
      <3>1. SpendInv(spends', window', now, policy.spend_window, policy.spend_limit)
        BY <2>2, SpendKeeps DEF RulesInv
      <3>2. now' = now
        BY <2>2 DEF Spend
      <3> QED BY <2>1, <3>1, <3>2
    <2>3. CASE ~\E m \in Accounts, t \in Tokens, to \in Recipients, n \in Amounts :
                  Spend(m, t, to, n)
      <3>1. window' = window /\ spends' = spends
        BY <2>3 DEF Next, vars, rules, Propose, Vote, Tally, Execute, ExecutePay, ExecuteSetPolicy,
                    ExecuteSetMember, ExecuteAllow, ExecuteDeny, ExecuteRevoke, Cancel, Deposit, Tick
      <3>2. now' >= now /\ now \in Nat /\ now' \in Nat
        BY Fates DEF TypeOK
      <3>3. window.start \in 0..now => window.start \in 0..now'
        BY <3>2
      <3>4. \A k \in Times : k > now' => k > now
        BY <3>2 DEF Times
      <3> QED BY <2>1, <3>1, <3>3, <3>4 DEF SpendInv, WindowOK
    <2> QED BY <2>2, <2>3
  <1>3. I => SpendsAtMostTwice
    BY DEF SpendInv, Twice, Sum, Between, Times, SpendsAtMostTwice, SpentIn
  <1> HIDE DEF I
  <1> QED BY <1>1, <1>2, <1>3, TypeCorrect, RulesInvariant, PTL DEF Spec

--------------------------------------------------------------------------------
(* b basis points of t, in ten-thousandths. *)
Share(t, b) == t * b

(* Settling early.  Reaching a threshold is having that share of the whole:    *)
(* the rounding up loses nothing.                                              *)
LEMMA NeededIsShare ==
    ASSUME NEW t \in Nat, NEW b \in 1..FULL_BPS, NEW y \in Nat
    PROVE  Share(t, b) \in Nat /\ (y >= needed(t, b) <=> 10000 * y >= Share(t, b))
  <1> DEFINE p == t * b
             d == (p + 9999) \div 10000
  <1>1. b \in Nat /\ b <= 10000
    BY DEF FULL_BPS
  <1>2. p \in Nat /\ p <= 10000 * t
    <2>1. p \in Nat
      BY <1>1
    <2>2. t * b <= t * 10000
      BY <1>1
    <2> QED BY <2>1, <2>2
  <1>3. needed(t, b) = Lesser(d, t)
    BY <1>2 DEF needed, FULL_BPS
  <1> HIDE DEF p
  <1>4. d \in Nat /\ 10000 * d >= p /\ 10000 * d <= p + 9999
    BY <1>2
  <1> HIDE DEF d
  <1>5. d <= t
    BY <1>2, <1>4
  <1>6. needed(t, b) = d
    BY <1>3, <1>4, <1>5 DEF Lesser
  <1>7. y >= d <=> 10000 * y >= p
    BY <1>2, <1>4
  <1> QED BY <1>2, <1>6, <1>7 DEF p, Share

(* A share of more is more, by no more than what was added. *)
LEMMA ShareGrows ==
    ASSUME NEW s \in Nat, NEW t \in Nat, s <= t, NEW b \in 1..FULL_BPS
    PROVE  /\ Share(s, b) \in Nat /\ Share(t, b) \in Nat
           /\ Share(s, b) <= Share(t, b) /\ Share(t, b) <= Share(s, b) + 10000 * (t - s)
  <1>1. b \in Nat /\ b <= 10000
    BY DEF FULL_BPS
  <1> DEFINE u == t - s
  <1>2. u \in Nat /\ t = s + u
    OBVIOUS
  <1> HIDE DEF u
  <1>3. u * b \in Nat /\ u * b <= u * 10000 /\ s * b \in Nat
    BY <1>1, <1>2
  <1>4. (s + u) * b = s * b + u * b
    BY <1>1, <1>2
  <1>5. t * b = s * b + u * b
    BY <1>2, <1>4
  <1>6. /\ s * b \in Nat /\ t * b \in Nat
        /\ s * b <= t * b /\ t * b <= s * b + 10000 * (t - s)
    BY <1>2, <1>3, <1>5
  <1> QED BY <1>6 DEF Share

(* The verdict settle gives early, on a count of yes and no out of total, is   *)
(* the verdict once closed whatever f more say yes and g more say no, as long  *)
(* as all of them together are no more than total.                             *)
LEMMA EarlyIsClosed ==
    ASSUME NEW pol, check_policy(pol), NEW total \in 1..U32Max,
           NEW yes \in Nat, NEW no \in Nat, NEW f \in Nat, NEW g \in Nat,
           yes + no + f + g <= total, early_outcome(pol, total, yes, no) # "Open"
    PROVE  closed_outcome(pol, total, SatAdd(yes, f), SatAdd(no, g))
             = early_outcome(pol, total, yes, no)
  <1> DEFINE a == pol.approval_bps
             q == pol.quorum_bps
             c == yes + f + no + g
             m == needed(total, a)
             k == needed(total, q)
  <1>1. /\ q \in 1..FULL_BPS /\ a \in 1..FULL_BPS
        /\ total \in Nat /\ total > 0 /\ total <= U32Max /\ U32Max \in Nat
    BY Thresholds, ConstantsAssumption
  <1>2. /\ SatAdd(yes, f) = yes + f /\ SatAdd(no, g) = no + g
        /\ SatAdd(yes + f, no + g) = c /\ SatAdd(yes, no) = yes + no
        /\ SatSub(total, no) = total - no
    BY <1>1 DEF SatAdd, SatSub, Sat
  <1>3. c \in Nat /\ c <= total /\ c >= yes + no
    BY <1>1
  <1>4. m \in Nat /\ k \in Nat /\ needed(c, a) \in Nat
    BY <1>1, <1>3, NeededBounds
  <1>5. closed_outcome(pol, total, SatAdd(yes, f), SatAdd(no, g)) =
          IF c < k \/ yes + f < needed(c, a) THEN "Rejected" ELSE "Passed"
    BY <1>2 DEF closed_outcome
  <1>6. early_outcome(pol, total, yes, no) =
          IF yes >= m /\ yes + no >= k THEN "Passed"
          ELSE IF total - no < m THEN "Rejected" ELSE "Open"
    BY <1>1, <1>2 DEF early_outcome
  <1>7. /\ Share(c, a) \in Nat /\ Share(total, a) \in Nat
        /\ Share(c, a) <= Share(total, a) /\ Share(total, a) <= Share(c, a) + 10000 * (total - c)
    <2>1. c \in Nat /\ total \in Nat /\ c <= total /\ a \in 1..FULL_BPS
      BY <1>1, <1>3
    <2> HIDE DEF a, c
    <2> QED BY <2>1, ShareGrows
  <1>8. /\ yes >= m <=> 10000 * yes >= Share(total, a)
        /\ total - no >= m <=> 10000 * (total - no) >= Share(total, a)
        /\ yes + f >= needed(c, a) <=> 10000 * (yes + f) >= Share(c, a)
    <2> DEFINE left == total - no
               more == yes + f
    <2>1. left \in Nat /\ more \in Nat /\ c \in Nat /\ total \in Nat /\ a \in 1..FULL_BPS
      BY <1>1, <1>3
    <2> HIDE DEF left, more, a, c
    <2>2. /\ yes >= needed(total, a) <=> 10000 * yes >= Share(total, a)
          /\ left >= needed(total, a) <=> 10000 * left >= Share(total, a)
          /\ more >= needed(c, a) <=> 10000 * more >= Share(c, a)
      BY <2>1, NeededIsShare
    <2> QED BY <2>2 DEF left, more
  <1> DEFINE ta == Share(total, a)
             ca == Share(c, a)
             n == needed(c, a)
             early == early_outcome(pol, total, yes, no)
             closed == closed_outcome(pol, total, SatAdd(yes, f), SatAdd(no, g))
  <1>9. /\ ta \in Nat /\ ca \in Nat /\ ca <= ta /\ ta <= ca + 10000 * (total - c)
        /\ n \in Nat
        /\ yes >= m <=> 10000 * yes >= ta
        /\ total - no >= m <=> 10000 * (total - no) >= ta
        /\ yes + f >= n <=> 10000 * (yes + f) >= ca
        /\ closed = IF c < k \/ yes + f < n THEN "Rejected" ELSE "Passed"
        /\ early = IF yes >= m /\ yes + no >= k THEN "Passed"
                   ELSE IF total - no < m THEN "Rejected" ELSE "Open"
        /\ early # "Open"
    BY <1>4, <1>5, <1>6, <1>7, <1>8
  <1>10. c = yes + f + no + g
    OBVIOUS
  <1> HIDE DEF a, q, c, m, k, ta, ca, n, early, closed
  <1>11. ASSUME yes >= m /\ yes + no >= k
         PROVE  closed = early
    BY <1>1, <1>3, <1>4, <1>9, <1>10, <1>11
  <1>12. ASSUME ~(yes >= m /\ yes + no >= k)
         PROVE  closed = early
    <2>1. early = "Rejected" /\ total - no < m
      BY <1>9, <1>12
    <2>2. 10000 * (total - no) < ta
      BY <1>1, <1>3, <1>4, <1>9, <2>1
    <2>3. 10000 * (yes + f) < ca
      BY <1>1, <1>3, <1>9, <1>10, <2>2
    <2>4. yes + f < n
      BY <1>9, <2>3
    <2> QED BY <1>9, <2>1, <2>4
  <1>13. closed = early
    BY <1>11, <1>12, <1>9
  <1> QED BY <1>13 DEF closed, early

(* Two sets with nothing in common have together as many members as the two.   *)
LEMMA Apart ==
    ASSUME NEW X, NEW Y, IsFiniteSet(X), IsFiniteSet(Y), X \cap Y = {}
    PROVE  /\ IsFiniteSet(X \cup Y) /\ Cardinality(X \cup Y) = Cardinality(X) + Cardinality(Y)
           /\ Cardinality(X) \in Nat /\ Cardinality(Y) \in Nat
  <1>1. /\ IsFiniteSet(X \cup Y)
        /\ Cardinality(X \cup Y) = Cardinality(X) + Cardinality(Y) - Cardinality(X \cap Y)
    BY FS_Union
  <1>2. Cardinality(X \cap Y) = 0 /\ Cardinality(X) \in Nat /\ Cardinality(Y) \in Nat
    BY FS_EmptySet, FS_CardinalityType
  <1> QED BY <1>1, <1>2

(* Voters who are not the same have different unit votes, all of them among    *)
(* the members' when they are members.                                         *)
LEMMA UnitVotesApart ==
    ASSUME NEW w, NEW A, NEW B, A \cap B = {}
    PROVE  UnitVotes(A, w) \cap UnitVotes(B, w) = {}
  BY DEF UnitVotes

(* Four groups of members without a member in common have no more weight       *)
(* between them than all the members.                                          *)
LEMMA FourGroups ==
    ASSUME NEW w \in [Accounts -> Weights], NEW M \in SUBSET Accounts,
           NEW A \in SUBSET M, NEW B \in SUBSET M, NEW C \in SUBSET M, NEW D \in SUBSET M,
           A \cap B = {}, (A \cup B) \cap C = {}, (A \cup B \cup C) \cap D = {}
    PROVE  Cardinality(UnitVotes(A, w)) + Cardinality(UnitVotes(B, w))
             + Cardinality(UnitVotes(C, w)) + Cardinality(UnitVotes(D, w))
             <= Cardinality(UnitVotes(M, w))
  <1> DEFINE U(X) == UnitVotes(X, w)
  <1>1. /\ IsFiniteSet(U(A)) /\ IsFiniteSet(U(B)) /\ IsFiniteSet(U(C)) /\ IsFiniteSet(U(D))
        /\ IsFiniteSet(U(M))
        /\ Cardinality(U(A)) \in Nat /\ Cardinality(U(B)) \in Nat
        /\ Cardinality(U(C)) \in Nat /\ Cardinality(U(D)) \in Nat
    <2>1. /\ A \in SUBSET Accounts /\ B \in SUBSET Accounts
          /\ C \in SUBSET Accounts /\ D \in SUBSET Accounts
      OBVIOUS
    <2> QED BY <2>1, UnitVotesFinite
  <1>2. /\ U(A) \cap U(B) = {} /\ U(A) \cap U(C) = {} /\ U(B) \cap U(C) = {}
        /\ U(A) \cap U(D) = {} /\ U(B) \cap U(D) = {} /\ U(C) \cap U(D) = {}
    <2>1. /\ A \cap C = {} /\ B \cap C = {} /\ A \cap D = {} /\ B \cap D = {} /\ C \cap D = {}
      OBVIOUS
    <2> QED BY <2>1, UnitVotesApart
  <1>3. U(A) \subseteq U(M) /\ U(B) \subseteq U(M) /\ U(C) \subseteq U(M) /\ U(D) \subseteq U(M)
    BY DEF UnitVotes
  <1> HIDE DEF U
  <1>4. /\ IsFiniteSet(U(A) \cup U(B))
        /\ Cardinality(U(A) \cup U(B)) = Cardinality(U(A)) + Cardinality(U(B))
    BY <1>1, <1>2, Apart
  <1>5. (U(A) \cup U(B)) \cap U(C) = {}
    BY <1>2
  <1>6. /\ IsFiniteSet((U(A) \cup U(B)) \cup U(C))
        /\ Cardinality((U(A) \cup U(B)) \cup U(C))
             = Cardinality(U(A) \cup U(B)) + Cardinality(U(C))
    BY <1>1, <1>4, <1>5, Apart
  <1>7. ((U(A) \cup U(B)) \cup U(C)) \cap U(D) = {}
    BY <1>2
  <1>8. Cardinality(((U(A) \cup U(B)) \cup U(C)) \cup U(D))
          = Cardinality((U(A) \cup U(B)) \cup U(C)) + Cardinality(U(D))
    BY <1>1, <1>6, <1>7, Apart
  <1>9. Cardinality(((U(A) \cup U(B)) \cup U(C)) \cup U(D)) <= Cardinality(U(M))
    <2>1. ((U(A) \cup U(B)) \cup U(C)) \cup U(D) \subseteq U(M)
      BY <1>3
    <2> QED BY <1>1, <2>1, FS_Subset
  <1>10. Cardinality(U(A)) + Cardinality(U(B)) + Cardinality(U(C)) + Cardinality(U(D))
           <= Cardinality(U(M))
    BY <1>1, <1>4, <1>6, <1>8, <1>9
  <1> QED BY <1>10 DEF U

(* The voters on a side who are members, by what they weigh now. *)
Side(id, side) == {a \in members : voted[id][a].cast = side}

(* While every ballot is backed, a side of the box holds the weight its        *)
(* voters have.                                                                *)
LEMMA BackedBox ==
    ASSUME TypeOK, ListsAgree, NEW id \in DOMAIN proposals, Backed(id),
           NEW side \in {"for", "against"}
    PROVE  BallotsFor(id, side) = UnitVotes(Side(id, side), weight)
  <1>1. \A z \in Accounts : voted[id][z].cast = side => weight[z] = voted[id][z].weight
    BY DEF Backed
  <1>2. \A z \in Accounts : weight[z] \in Nat /\ (z \in members <=> weight[z] > 0)
    BY ConstantsAssumption DEF TypeOK, ListsAgree, Weights
  <1> DEFINE V == {a \in Accounts : voted[id][a].cast = side}
             w == [a \in Accounts |-> voted[id][a].weight]
  <1>3. \A z \in V : w[z] = weight[z] /\ z \in Accounts
    BY <1>1
  <1>4. Side(id, side) = {z \in V : weight[z] > 0}
    BY <1>2 DEF Side, TypeOK
  <1> HIDE DEF V, w
  <1>5. \A z \in V : weight[z] \in Nat
    BY <1>2, <1>3
  <1>6. UnitVotes(V, w) = UnitVotes(Side(id, side), weight)
    <2>1. ASSUME NEW e \in UnitVotes(V, w) PROVE e \in UnitVotes(Side(id, side), weight)
      <3>1. PICK z \in V : e \in {z} \X (1..w[z])
        BY <2>1 DEF UnitVotes
      <3>2. w[z] = weight[z] /\ weight[z] \in Nat
        BY <1>3, <1>5
      <3>3. e \in {z} \X (1..weight[z]) /\ weight[z] > 0
        BY <3>1, <3>2
      <3> QED BY <1>4, <3>3 DEF UnitVotes
    <2>2. ASSUME NEW e \in UnitVotes(Side(id, side), weight) PROVE e \in UnitVotes(V, w)
      <3>1. PICK z \in Side(id, side) : e \in {z} \X (1..weight[z])
        BY <2>2 DEF UnitVotes
      <3> QED BY <1>3, <1>4, <3>1 DEF UnitVotes
    <2> QED BY <2>1, <2>2
  <1> QED BY <1>6 DEF BallotsFor, V, w

(* What an early verdict claims, whatever the state. *)
EarlyHolds ==
    \A id \in DOMAIN proposals :
        LET verdict == early_outcome(policy, total_weight, proposals[id].yes, proposals[id].no)
        IN  Backed(id) /\ verdict # "Open" => LastWord(id, verdict)

(* It is so: yes, no and the votes to come are four groups of members.         *)
LEMMA EarlyCounts == TypeOK /\ RulesInv /\ TalliesExact => EarlyHolds
  <1> SUFFICES ASSUME TypeOK, RulesInv, TalliesExact, NEW id \in DOMAIN proposals, Backed(id),
                      early_outcome(policy, total_weight, proposals[id].yes, proposals[id].no)
                        # "Open",
                      NEW S \in SUBSET Unvoted(id), NEW F \in SUBSET S
               PROVE  closed_outcome(policy, total_weight,
                        SatAdd(proposals[id].yes, Cardinality(UnitVotes(F, weight))),
                        SatAdd(proposals[id].no, Cardinality(UnitVotes(S \ F, weight))))
                      = early_outcome(policy, total_weight, proposals[id].yes, proposals[id].no)
    BY DEF EarlyHolds, LastWord
  <1> DEFINE A == Side(id, "for")
             B == Side(id, "against")
             C == S \ F
             y == Cardinality(UnitVotes(A, weight))
             n == Cardinality(UnitVotes(B, weight))
             f == Cardinality(UnitVotes(F, weight))
             g == Cardinality(UnitVotes(C, weight))
             t == Cardinality(UnitVotes(members, weight))
  <1>1. /\ weight \in [Accounts -> Weights] /\ members \in SUBSET Accounts
        /\ ListsAgree /\ members # {} /\ check_policy(policy) /\ U32Max \in Nat
    BY ConstantsAssumption DEF TypeOK, RulesInv
  <1>2. /\ A \in SUBSET members /\ B \in SUBSET members
        /\ F \in SUBSET members /\ C \in SUBSET members
        /\ A \cap B = {} /\ (A \cup B) \cap F = {} /\ (A \cup B \cup F) \cap C = {}
    BY DEF Side, Unvoted
  <1> HIDE DEF A, B, C
  <1>3. y + n + f + g <= t
    BY <1>1, <1>2, FourGroups
  <1>4. y \in Nat /\ n \in Nat /\ f \in Nat /\ g \in Nat /\ t \in Nat
    <2>1. /\ A \in SUBSET Accounts /\ B \in SUBSET Accounts
          /\ F \in SUBSET Accounts /\ C \in SUBSET Accounts
      BY <1>1, <1>2
    <2> QED BY <1>1, <2>1, UnitVotesFinite
  <1>5. t <= U32Max /\ total_weight \in 1..U32Max
    BY <1>1, TotalPositive DEF Backed
  <1>6. total_weight = t
    BY <1>1, <1>4, <1>5 DEF total_weight, Sat
  <1>7. proposals[id].yes = Sat(y) /\ proposals[id].no = Sat(n)
    BY <1>1, BackedBox DEF TalliesExact, A, B
  <1> HIDE DEF y, n, f, g, t
  <1>8. proposals[id].yes = y /\ proposals[id].no = n
    BY <1>1, <1>3, <1>4, <1>5, <1>7 DEF Sat
  <1>9. closed_outcome(policy, total_weight, SatAdd(y, f), SatAdd(n, g))
          = early_outcome(policy, total_weight, y, n)
    BY <1>1, <1>3, <1>4, <1>5, <1>6, <1>8, EarlyIsClosed
  <1> QED BY <1>8, <1>9 DEF f, g, C

(* A verdict given while voting is open is early_outcome's on the count the    *)
(* step leaves, under the rules the step leaves.                               *)
LEMMA SettledEarly ==
    ASSUME TypeOK, [Next]_vars, NEW id \in DOMAIN proposals, proposals[id].status = "Open",
           now < proposals[id].closes_at, proposals'[id].status \in {"Passed", "Rejected"}
    PROVE  /\ id \in DOMAIN proposals'
           /\ proposals'[id].status =
                early_outcome(policy', total_weight', proposals'[id].yes, proposals'[id].no)
  <1>1. Fate(id)
    BY Fates
  <1>2. proposals[id] \in Proposal /\ now \in Int
    BY Stored DEF TypeOK
  <1>3. ~Same(id) /\ ~CarriedOut(id) /\ ~Stopped(id)
    <2>1. ~Same(id)
      BY DEF Same
    <2>2. ~CarriedOut(id)
      <3>1. settle(proposals[id]) \in Proposal
        BY <1>2, SettleShape
      <3>2. [settle(proposals[id]) EXCEPT !.status = "Executed"].status = "Executed"
        BY <3>1 DEF Proposal
      <3> QED BY <3>2 DEF CarriedOut
    <2>3. ~Stopped(id)
      <3>1. [proposals[id] EXCEPT !.status = "Cancelled"].status = "Cancelled"
        BY <1>2 DEF Proposal
      <3> QED BY <3>1 DEF Stopped
    <2> QED BY <2>1, <2>2, <2>3
  <1>4. PICK c \in Proposal : /\ c.status = "Open" /\ c.closes_at = proposals[id].closes_at
                              /\ proposals'[id] = settle(c)
    <2>1. CASE VotedOn(id)
      <3>1. PICK m \in Accounts, ok \in BOOLEAN :
              proposals'[id] = settle(Counted(proposals[id], ok, weight[m]))
        BY <2>1 DEF VotedOn
      <3>2. weight[m] \in Weights
        BY DEF TypeOK
      <3>3. Counted(proposals[id], ok, weight[m]) \in Proposal
        BY <1>2, <3>2, CountedType
      <3>4. /\ Counted(proposals[id], ok, weight[m]).status = proposals[id].status
            /\ Counted(proposals[id], ok, weight[m]).closes_at = proposals[id].closes_at
        BY <1>2, <3>3 DEF Counted, Proposal
      <3> QED BY <3>1, <3>3, <3>4
    <2>2. CASE Tallied(id)
      BY <1>2, <2>2 DEF Tallied
    <2> QED BY <1>1, <1>3, <2>1, <2>2 DEF Fate
  <1>5. UNCHANGED rules
    <2>1. ASSUME NEW k \in 1..MaxProposals,
                 ExecuteSetPolicy(k) \/ ExecuteSetMember(k) \/ ExecuteAllow(k) \/ ExecuteDeny(k)
          PROVE  FALSE
      <3>1. Executable(k) /\ Mark(k) /\ k \in DOMAIN proposals
        BY <2>1 DEF ExecuteSetPolicy, ExecuteSetMember, ExecuteAllow, ExecuteDeny, Executable
      <3>2. id = k
        BY <3>1 DEF Mark
      <3>3. settle(proposals[k]) \in Proposal
        BY <1>2, <3>2, SettleShape
      <3>4. proposals'[k].status = "Executed"
        BY <3>1, <3>3 DEF Mark, Proposal
      <3> QED BY <3>2, <3>4
    <2> QED BY <2>1, RulesMove
  <1>6. policy' = policy /\ total_weight' = total_weight
    BY <1>5 DEF rules, total_weight
  <1>7. /\ settle(c).status = outcome(c) /\ settle(c).yes = c.yes /\ settle(c).no = c.no
    BY <1>4, SettleShape
  <1>8. outcome(c) = early_outcome(policy, total_weight, c.yes, c.no)
    <2>1. c.closes_at \in Nat
      BY <1>4 DEF Proposal
    <2> QED BY <1>2, <1>4, <2>1 DEF outcome
  <1> QED BY <1>1, <1>4, <1>6, <1>7, <1>8 DEF Fate

(* Settling while voting is open takes nothing from the votes not yet cast:    *)
(* as long as no ballot's weight has been changed under it, no further votes   *)
(* could make the closed vote end differently, for every policy the contract   *)
(* accepts and all weights (proposals.rs early_outcome).                       *)
THEOREM EarlyVerdictsStand == Spec => EarlyVerdictIsLast
  <1>1. TypeOK /\ EarlyHolds' /\ [Next]_vars =>
          [\A id \in DOMAIN proposals :
             /\ proposals[id].status = "Open" /\ now < proposals[id].closes_at
             /\ proposals'[id].status \in {"Passed", "Rejected"}
             /\ Backed(id)'
             => LastWord(id, proposals[id].status)']_vars
    <2> SUFFICES ASSUME TypeOK, EarlyHolds', [Next]_vars, NEW id \in DOMAIN proposals,
                        proposals[id].status = "Open", now < proposals[id].closes_at,
                        proposals'[id].status \in {"Passed", "Rejected"}, Backed(id)'
                 PROVE  LastWord(id, proposals[id].status)'
      OBVIOUS
    <2>1. /\ id \in DOMAIN proposals'
          /\ proposals'[id].status =
               early_outcome(policy', total_weight', proposals'[id].yes, proposals'[id].no)
      BY SettledEarly
    <2> QED BY <2>1 DEF EarlyHolds, LastWord
  <1>2. TypeOK /\ RulesInv /\ TalliesExact => EarlyHolds
    BY EarlyCounts
  <1> QED BY <1>1, <1>2, TypeCorrect, RulesInvariant, TalliesAlwaysExact, PTL
       DEF Spec, EarlyVerdictIsLast
================================================================================
