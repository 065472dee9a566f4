------------------------------ MODULE CallsProofs ------------------------------
(***************************************************************************)
(* What is recorded of members' calls, and what is said of relayed ones,   *)
(* is what became of them, for any number of members, contracts and        *)
(* requests, and any history of the contracts.                             *)
(***************************************************************************)
EXTENDS Calls, SequenceTheorems, TLAPS

Sent(e, Q, E) == e \in Q \/ \E x \in E : x.env = e
\* A request that has the mutex, and one that has a member's call.
Relays(q) == q.pc \in {"submit", "await", "record"} /\ q.env.from = Relay
Claims(q) == q.pc \in {"submit", "await", "release", "land"} /\ q.env.from # Relay
Claimed(e, R) == \E row \in R : row.env = e /\ row.submitted
Numbers(e, n, E) == \E x \in E : x.env = e /\ x.number = n
Failed(e, E) == \E x \in E : x.env = e /\ ~x.ok
Executed(call, K) ==
    /\ call.id \in DOMAIN K[call.contract].proposals
    /\ K[call.contract].proposals[call.id].status = "Executed"

\* What a request rests on: the mutex is its own if it relays, and its row if it has
\* a member's call, of which nothing was sent before it says so.
ReqOK(r, q, M, R, Q, E, K, S, A) ==
    /\ q \in Request
    /\ Relays(q) <=> M = r
    /\ q.pc = "record" => q.env.from = Relay
    /\ q.pc \in {"release", "land"} => q.env.from # Relay
    /\ Claims(q) => Claimed(q.env, R)
    /\ Claims(q) /\ q.pc \in {"submit", "release"} => ~Sent(q.env, Q, E)
    /\ q.pc = "land" =>
         /\ \E x \in E : x.env = q.env
         /\ q.failed => Failed(q.env, E)
         /\ q.number # 0 => Numbers(q.env, q.number, E)
    /\ q.pc = "reply" /\ q.says = "carried out" /\ ~q.already => Executed(q.call, K)
    /\ q.pc = "submit" /\ q.env.from = Relay => q.env.seq = S[Relay] + 1 \/ q.env.seq \in A
\* A row is of a member, unsent until it is claimed, and says what became of it.
RowOK(row, Q, E) ==
    /\ row.env.from # Relay
    /\ ~row.submitted => ~Sent(row.env, Q, E)
    /\ row.landed # "no" => \E x \in E : x.env = row.env
    /\ row.landed = "failed" => Failed(row.env, E)
    /\ row.number # 0 => Numbers(row.env, row.number, E)
\* An envelope in a ledger has used its sequence number, and the contract shows it.
EndOK(x, K, S) ==
    /\ x.env.seq <= S[x.env.from]
    /\ x.number # 0 =>
         LET ps == K[x.env.call.contract].proposals
         IN  /\ x.number \in DOMAIN ps
             /\ ps[x.number].proposer = x.env.from /\ ps[x.number].memo = x.env.call.note
    /\ x.ok /\ x.env.call.fn = "execute" => Executed(x.env.call, K)
\* A relayed envelope that may still land is waited for, or given up on.
FlightOK(f, S, A, t, q) ==
    f.from = Relay =>
      \/ f.seq \in A \/ f.seq <= S[Relay] \/ t > f.expires
      \/ \E r \in Requests : q[r].pc = "await" /\ q[r].env = f

Tables ==
    /\ known \subseteq Contracts /\ rows \subseteq Row
    /\ relaying \in Requests \cup {None} /\ req \in [Requests -> Request]
    /\ chain \in [Contracts -> Contract] /\ purse \in [Members -> Nat]
    /\ seq \in [Members \cup {Relay} -> Nat]
    /\ queue \subseteq Envelope /\ ended \subseteq [env: Envelope, ok: BOOLEAN, number: Nat]
    /\ abandoned \subseteq Nat /\ now \in Nat
RequestsOK ==
    \A r \in Requests :
      ReqOK(r, req[r], relaying, rows, queue, ended, chain, seq, abandoned)
OneClaim ==
    \A r, s \in Requests : Claims(req[r]) /\ Claims(req[s]) /\ req[r].env = req[s].env => r = s
RowsOK ==
    /\ \A row \in rows : RowOK(row, queue, ended)
    /\ \A row, other \in rows : row.env = other.env => row = other
SentOK ==
    /\ \A e \in Envelope :
         Sent(e, queue, ended) /\ e.from # Relay => \E row \in rows : row.env = e
    /\ \A f \in queue : FlightOK(f, seq, abandoned, now, req)
EndsOK ==
    /\ \A x \in ended : EndOK(x, chain, seq)
    /\ \A x, y \in ended :
         x.number # 0 /\ x.number = y.number /\ x.env.call.contract = y.env.call.contract
           => x.env = y.env
IInv == Tables /\ RequestsOK /\ OneClaim /\ RowsOK /\ SentOK /\ EndsOK

--------------------------------------------------------------------------------
(* The contract: a call it takes keeps its shape and what it has decided. *)

\* What no call undoes: who proposed, what the memo commits to, and having been
\* carried out.
Grows(ps, ns) ==
    \A i \in DOMAIN ps :
      /\ i \in DOMAIN ns
      /\ ns[i].proposer = ps[i].proposer /\ ns[i].memo = ps[i].memo
      /\ ps[i].status = "Executed" => ns[i].status = "Executed"

(* Settling a proposal decides what is open, and changes nothing else of it. *)
LEMMA SettledType ==
    ASSUME NEW c \in Contracts, chain \in [Contracts -> Contract], now \in Nat,
           NEW p \in Proposal
    PROVE  /\ Settled(c, p) \in Proposal
           /\ Settled(c, p).proposer = p.proposer /\ Settled(c, p).memo = p.memo
           /\ Settled(c, p).action = p.action
           /\ p.status = "Executed" => Settled(c, p).status = "Executed"
  <1>1. CASE p.status # "Open"
    BY <1>1 DEF Settled
  <1>2. CASE p.status = "Open"
    <2>1. Outcome(c, p) \in Status
      BY DEF Outcome, Status
    <2>2. chain[c].timelock \in Nat
      BY DEF Contract
    <2> DEFINE e == IF Outcome(c, p) # "Passed" THEN p.executable
                    ELSE IF p.action.kind \in {"DenyRecipient", "Revoke"} THEN now
                    ELSE now + chain[c].timelock
    <2>3. e \in Nat
      BY <2>2 DEF Proposal
    <2>4. Settled(c, p) = [p EXCEPT !.status = Outcome(c, p), !.executable = e]
      BY <1>2 DEF Settled
    <2> HIDE DEF e
    <2>5. Settled(c, p) \in Proposal
      BY <2>1, <2>3, <2>4 DEF Proposal
    <2> QED BY <1>2, <2>4, <2>5 DEF Proposal
  <1> QED BY <1>1, <1>2

(* One proposal replaced by what it has become. *)
LEMMA Replaced ==
    ASSUME NEW k \in Contract, NEW id \in DOMAIN k.proposals, NEW p \in Proposal,
           p.proposer = k.proposals[id].proposer, p.memo = k.proposals[id].memo,
           k.proposals[id].status = "Executed" => p.status = "Executed"
    PROVE  LET ns == [k.proposals EXCEPT ![id] = p]
           IN  /\ ns \in Seq(Proposal) /\ DOMAIN ns = DOMAIN k.proposals /\ ns[id] = p
               /\ \A i \in DOMAIN ns : i # id => ns[i] = k.proposals[i]
               /\ Grows(k.proposals, ns)
  <1> DEFINE ps == k.proposals
             ns == [ps EXCEPT ![id] = p]
  <1>1. ps \in Seq(Proposal)
    BY DEF Contract
  <1>2. /\ ns \in Seq(Proposal) /\ DOMAIN ns = DOMAIN ps /\ ns[id] = p
        /\ \A i \in DOMAIN ns : i # id => ns[i] = ps[i]
    BY <1>1
  <1> HIDE DEF ps
  <1>3. Grows(ps, ns)
    <2> HIDE DEF ns
    <2> SUFFICES ASSUME NEW i \in DOMAIN ps
                 PROVE  /\ i \in DOMAIN ns
                        /\ ns[i].proposer = ps[i].proposer /\ ns[i].memo = ps[i].memo
                        /\ ps[i].status = "Executed" => ns[i].status = "Executed"
      BY DEF Grows
    <2> QED BY <1>2 DEF ps
  <1> QED BY <1>2, <1>3 DEF ps

(* Other fields change, and the proposals stay. *)
LEMMA SameProposals ==
    ASSUME NEW k \in Contract
    PROVE  /\ Grows(k.proposals, k.proposals)
           /\ \A x \in Nat : /\ [k EXCEPT !.funds = x] \in Contract
                             /\ [k EXCEPT !.funds = x].proposals = k.proposals
                             /\ [k EXCEPT !.timelock = x] \in Contract
                             /\ [k EXCEPT !.timelock = x].proposals = k.proposals
                             /\ [k EXCEPT !.life = x] \in Contract
                             /\ [k EXCEPT !.life = x].proposals = k.proposals
           /\ \A S \in SUBSET Members :
                /\ [k EXCEPT !.voters = S] \in Contract
                /\ [k EXCEPT !.voters = S].proposals = k.proposals
                /\ [k EXCEPT !.made = TRUE, !.voters = S] \in Contract
                /\ [k EXCEPT !.made = TRUE, !.voters = S].proposals = k.proposals
           /\ \A b \in BOOLEAN : /\ [k EXCEPT !.allowed = b] \in Contract
                                 /\ [k EXCEPT !.allowed = b].proposals = k.proposals
  <1>1. Grows(k.proposals, k.proposals)
    BY DEF Grows
  <1> QED BY <1>1 DEF Contract

(* The proposals change, and other fields stay. *)
LEMMA OtherProposals ==
    ASSUME NEW k \in Contract, NEW ns \in Seq(Proposal)
    PROVE  /\ [k EXCEPT !.proposals = ns] \in Contract
           /\ [k EXCEPT !.proposals = ns].proposals = ns
           /\ [k EXCEPT !.proposals = ns].funds = k.funds
           /\ [k EXCEPT !.proposals = ns].voters = k.voters
  BY DEF Contract

(* Growing twice is growing. *)
LEMMA GrowsOn ==
    ASSUME NEW ps, NEW qs, NEW ns, Grows(ps, qs), Grows(qs, ns)
    PROVE  Grows(ps, ns)
  BY DEF Grows

(* Carrying out an action. *)
LEMMA DidType ==
    ASSUME NEW k \in Contract, NEW a \in Action, a.kind = "Pay" => k.funds > 0,
           a.kind = "Revoke" => /\ a.target \in DOMAIN k.proposals
                                /\ k.proposals[a.target].status # "Executed"
    PROVE  /\ Did(k, a) \in Contract /\ Grows(k.proposals, Did(k, a).proposals)
           /\ \A i \in DOMAIN k.proposals :
                (a.kind = "Revoke" => i # a.target) => Did(k, a).proposals[i] = k.proposals[i]
  <1>1. a.kind \in Actionable /\ a.wait \in Nat /\ (a.kind = "SetMember" => a.who \in Members)
    BY DEF Action
  <1>2. k.funds \in Nat /\ k.voters \in SUBSET Members /\ k.proposals \in Seq(Proposal)
    BY DEF Contract
  <1>3. CASE a.kind = "Pay"
    <2>1. Did(k, a) = [k EXCEPT !.funds = k.funds - 1] /\ k.funds - 1 \in Nat
      BY <1>2, <1>3 DEF Did
    <2> QED BY <2>1, SameProposals
  <1>4. CASE a.kind = "SetPolicy"
    <2>1. Did(k, a) = [k EXCEPT !.timelock = a.wait]
      BY <1>4 DEF Did
    <2> QED BY <1>1, <2>1, SameProposals
  <1>5. CASE a.kind = "SetMember"
    <2>1. PICK S \in SUBSET Members : Did(k, a) = [k EXCEPT !.voters = S]
      BY <1>1, <1>2, <1>5 DEF Did
    <2> QED BY <2>1, SameProposals
  <1>6. CASE a.kind \in {"AllowRecipient", "DenyRecipient"}
    <2>1. \/ Did(k, a) = [k EXCEPT !.allowed = TRUE]
          \/ Did(k, a) = [k EXCEPT !.allowed = FALSE]
      <3>1. CASE a.kind = "AllowRecipient"
        BY <3>1 DEF Did
      <3>2. CASE a.kind = "DenyRecipient"
        BY <3>2 DEF Did
      <3> QED BY <1>6, <3>1, <3>2
    <2> QED BY <2>1, SameProposals
  <1>7. CASE a.kind = "Revoke"
    <2> DEFINE old == k.proposals[a.target]
               p == [old EXCEPT !.status = "Cancelled"]
               ns == [k.proposals EXCEPT ![a.target] = p]
    <2>1. Did(k, a) = [k EXCEPT !.proposals = ns]
      BY <1>7 DEF Did
    <2>2. old \in Proposal /\ old.status # "Executed"
      BY <1>2, <1>7
    <2>3. p \in Proposal /\ p.proposer = old.proposer /\ p.memo = old.memo
      BY <2>2 DEF Proposal, Status
    <2> HIDE DEF p
    <2>4. /\ ns \in Seq(Proposal) /\ DOMAIN ns = DOMAIN k.proposals
          /\ \A i \in DOMAIN ns : i # a.target => ns[i] = k.proposals[i]
          /\ Grows(k.proposals, ns)
      BY <1>7, <2>2, <2>3, Replaced
    <2> HIDE DEF ns
    <2> QED BY <1>7, <2>1, <2>4, OtherProposals
  <1> QED BY <1>1, <1>3, <1>4, <1>5, <1>6, <1>7 DEF Actionable

(* A call the contract takes: what it decides stays decided, a proposal is put  *)
(* at the end under its proposer's name, and what is carried out says so.       *)
LEMMA TookType ==
    ASSUME Tables, NEW from, NEW call \in Call, Accepts(from, call)
    PROVE  LET ps == chain[call.contract].proposals
               new == Took(from, call)
           IN  /\ new \in Contract /\ Grows(ps, new.proposals)
               /\ call.fn = "execute" =>
                    /\ call.id \in DOMAIN new.proposals
                    /\ new.proposals[call.id].status = "Executed"
               /\ call.fn = "propose" =>
                    /\ Len(ps) + 1 \in DOMAIN new.proposals
                    /\ new.proposals[Len(ps) + 1].proposer = from
                    /\ new.proposals[Len(ps) + 1].memo = call.note
  <1> DEFINE c == call.contract
             k == chain[c]
             ps == k.proposals
             id == call.id
             new == Took(from, call)
  <1>1. c \in Contracts /\ id \in Nat /\ call.fn \in Function /\ call.action \in Action
        /\ call.note \in Notes
    BY DEF Call
  <1>2. chain \in [Contracts -> Contract] /\ now \in Nat
    BY DEF Tables
  <1>3. k \in Contract
    BY <1>1, <1>2
  <1>4. ps \in Seq(Proposal) /\ k.voters \in SUBSET Members /\ k.funds \in Nat /\ k.life \in Nat
    BY <1>3 DEF Contract
  <1> HIDE DEF c
  <1>5. ASSUME id \in DOMAIN ps, NEW p \in Proposal, p.proposer = ps[id].proposer,
               p.memo = ps[id].memo, ps[id].status = "Executed" => p.status = "Executed",
               new = [k EXCEPT !.proposals = [ps EXCEPT ![id] = p]]
        PROVE  new \in Contract /\ Grows(ps, new.proposals)
    <2> DEFINE ns == [ps EXCEPT ![id] = p]
    <2>1. ns \in Seq(Proposal) /\ Grows(ps, ns)
      BY <1>3, <1>5, Replaced
    <2> HIDE DEF ns
    <2>2. new = [k EXCEPT !.proposals = ns]
      BY <1>5 DEF ns
    <2> HIDE DEF new, k
    <2> QED BY <1>3, <2>1, <2>2, OtherProposals
  <1>6. CASE call.fn = "propose"
    <2> DEFINE p == [action |-> call.action, proposer |-> from, memo |-> call.note, yes |-> {},
                     no |-> {}, closes |-> now + Voting, status |-> "Open", executable |-> 0]
    <2>1. from \in Members
      BY <1>4, <1>6 DEF Accepts, c
    <2>2. p \in Proposal
      BY <1>1, <1>2, <2>1, CallsAssumption DEF Proposal, Status
    <2>3. new = [k EXCEPT !.proposals = Append(ps, p)]
      BY <1>6 DEF Took, c
    <2>4. p.proposer = from /\ p.memo = call.note
      OBVIOUS
    <2> HIDE DEF p
    <2>5. /\ Append(ps, p) \in Seq(Proposal) /\ Len(Append(ps, p)) = Len(ps) + 1
          /\ \A i \in 1..Len(ps) : Append(ps, p)[i] = ps[i]
          /\ Append(ps, p)[Len(ps) + 1] = p
          /\ DOMAIN ps = 1..Len(ps) /\ DOMAIN Append(ps, p) = 1..(Len(ps) + 1) /\ Len(ps) \in Nat
      BY <1>4, <2>2
    <2>6. Grows(ps, Append(ps, p))
      BY <2>5 DEF Grows
    <2>7. new \in Contract /\ new.proposals = Append(ps, p)
      <3> HIDE DEF new, k
      <3> QED BY <1>3, <2>3, <2>5, OtherProposals
    <2>8. Len(ps) + 1 \in DOMAIN new.proposals /\ new.proposals[Len(ps) + 1] = p
      BY <2>5, <2>7
    <2> HIDE DEF new, ps
    <2> QED BY <1>6, <2>4, <2>6, <2>7, <2>8 DEF new, ps, c
  <1>7. CASE call.fn = "vote"
    <2> DEFINE voted == IF call.yes THEN [ps[id] EXCEPT !.yes = @ \cup {from}]
                        ELSE [ps[id] EXCEPT !.no = @ \cup {from}]
               p == Settled(c, voted)
    <2>1. id \in DOMAIN ps /\ ps[id].status = "Open" /\ from \in k.voters
      BY <1>7 DEF Accepts, P, c
    <2>2. ps[id] \in Proposal /\ from \in Members
      BY <1>4, <2>1
    <2>3. voted \in Proposal /\ voted.proposer = ps[id].proposer /\ voted.memo = ps[id].memo
      BY <2>2 DEF Proposal
    <2>4. new = [k EXCEPT !.proposals = [ps EXCEPT ![id] = p]]
      BY <1>7 DEF Took, P, c
    <2> HIDE DEF voted, new
    <2>5. p \in Proposal /\ p.proposer = ps[id].proposer /\ p.memo = ps[id].memo
      BY <1>1, <1>2, <2>3, SettledType
    <2> HIDE DEF p
    <2>6. new \in Contract /\ Grows(ps, new.proposals)
      BY <1>5, <2>1, <2>4, <2>5
    <2> QED BY <1>7, <2>6 DEF new, c
  <1>8. CASE call.fn = "cancel"
    <2> DEFINE p == [ps[id] EXCEPT !.status = "Cancelled"]
    <2>1. id \in DOMAIN ps /\ ps[id].status = "Open"
      BY <1>8 DEF Accepts, P, c
    <2>2. ps[id] \in Proposal
      BY <1>4, <2>1
    <2>3. p \in Proposal /\ p.proposer = ps[id].proposer /\ p.memo = ps[id].memo
      BY <2>2 DEF Proposal, Status
    <2>4. new = [k EXCEPT !.proposals = [ps EXCEPT ![id] = p]]
      BY <1>8 DEF Took, c
    <2> HIDE DEF p, new
    <2>5. new \in Contract /\ Grows(ps, new.proposals)
      BY <1>5, <2>1, <2>3, <2>4
    <2> QED BY <1>8, <2>5 DEF new, c
  <1>9. CASE call.fn = "tally"
    <2> DEFINE p == Settled(c, ps[id])
    <2>1. id \in DOMAIN ps /\ ps[id].status = "Open"
      BY <1>9 DEF Accepts, P, c
    <2>2. ps[id] \in Proposal
      BY <1>4, <2>1
    <2>3. p \in Proposal /\ p.proposer = ps[id].proposer /\ p.memo = ps[id].memo
      BY <1>1, <1>2, <2>2, SettledType
    <2>4. new = [k EXCEPT !.proposals = [ps EXCEPT ![id] = p]]
      BY <1>9 DEF Took, c
    <2> HIDE DEF p, new
    <2>5. new \in Contract /\ Grows(ps, new.proposals)
      BY <1>5, <2>1, <2>3, <2>4
    <2> QED BY <1>9, <2>5 DEF new, c
  <1>10. CASE call.fn \in {"spend", "transfer", "create", "extend", "state"}
    <2>1. ASSUME NEW x \in Nat, new = [k EXCEPT !.funds = x] \/ new = [k EXCEPT !.life = x]
          PROVE  new \in Contract /\ new.proposals = k.proposals
      <3> HIDE DEF new, k
      <3> QED BY <1>3, <2>1, SameProposals
    <2>2. new \in Contract /\ new.proposals = k.proposals
      <3>1. CASE call.fn = "spend"
        <4>1. new = [k EXCEPT !.funds = k.funds - 1] /\ k.funds > 0
          BY <3>1 DEF Took, Accepts, c
        <4>2. k.funds - 1 \in Nat
          BY <1>4, <4>1
        <4> QED BY <2>1, <4>1, <4>2
      <3>2. CASE call.fn = "transfer"
        <4>1. new = [k EXCEPT !.funds = k.funds + 1]
          BY <3>2 DEF Took, c
        <4>2. k.funds + 1 \in Nat
          BY <1>4
        <4> QED BY <2>1, <4>1, <4>2
      <3>3. CASE call.fn = "create"
        <4>1. new = [k EXCEPT !.made = TRUE, !.voters = Founders]
          BY <3>3 DEF Took, c
        <4>2. Founders \in SUBSET Members
          BY CallsAssumption DEF Founders
        <4> HIDE DEF new, k
        <4> QED BY <1>3, <4>1, <4>2, SameProposals
      <3>4. CASE call.fn = "extend"
        <4> DEFINE x == IF k.life < id THEN id ELSE k.life
        <4>1. new = [k EXCEPT !.life = x]
          BY <3>4 DEF Took, c
        <4>2. x \in Nat
          BY <1>1, <1>4
        <4> HIDE DEF x
        <4> QED BY <2>1, <4>1, <4>2
      <3>5. CASE call.fn = "state"
        <4>1. new = k
          BY <3>5 DEF Took, c
        <4> QED BY <1>3, <4>1
      <3> QED BY <1>10, <3>1, <3>2, <3>3, <3>4, <3>5
    <2>3. Grows(k.proposals, k.proposals)
      BY <1>3, SameProposals
    <2> HIDE DEF new, k
    <2> QED BY <1>10, <2>2, <2>3 DEF new, k, c
  <1>11. CASE call.fn = "execute"
    <2> DEFINE a == ps[id].action
               p == [Settled(c, ps[id]) EXCEPT !.status = "Executed"]
               ns == [ps EXCEPT ![id] = p]
               j == [k EXCEPT !.proposals = ns]
    <2>1. /\ id \in DOMAIN ps /\ Checked(c, a) /\ (a.kind = "Pay" => k.funds > 0)
          /\ a.kind = "Revoke" => a.target # id
          /\ Settled(c, ps[id]).status = "Passed"
      <3>1. /\ id \in DOMAIN ps /\ Settled(c, ps[id]).status = "Passed"
            /\ Checked(c, P(call).action)
            /\ P(call).action.kind = "Pay" => k.funds > 0
            /\ P(call).action.kind = "Revoke" => P(call).action.target # id
        <4> HIDE DEF a
        <4> QED BY <1>11 DEF Accepts, P, c
      <3>2. P(call) = ps[id]
        BY DEF P, c
      <3> QED BY <3>1, <3>2
    <2>2. ps[id] \in Proposal /\ a \in Action
      <3>1. ps[id] \in Proposal
        BY <1>4, <2>1
      <3> QED BY <3>1 DEF Proposal
    <2>3. /\ Settled(c, ps[id]) \in Proposal
          /\ Settled(c, ps[id]).proposer = ps[id].proposer
          /\ Settled(c, ps[id]).memo = ps[id].memo
      BY <1>1, <1>2, <2>2, SettledType
    <2>4. p \in Proposal /\ p.proposer = ps[id].proposer /\ p.memo = ps[id].memo
          /\ p.status = "Executed"
      BY <2>3 DEF Proposal, Status
    <2>5. new = Did(j, a)
      BY <1>11 DEF Took, P, c
    <2> HIDE DEF p
    <2>6. /\ ns \in Seq(Proposal) /\ DOMAIN ns = DOMAIN ps /\ ns[id] = p
          /\ \A i \in DOMAIN ns : i # id => ns[i] = ps[i]
          /\ Grows(ps, ns)
      BY <1>3, <2>1, <2>4, Replaced
    <2> HIDE DEF ns
    <2>7. j \in Contract /\ j.proposals = ns /\ j.funds = k.funds
      <3> HIDE DEF k
      <3> QED BY <1>3, <2>6, OtherProposals
    <2>8. a.kind = "Revoke" => /\ a.target \in DOMAIN j.proposals
                               /\ j.proposals[a.target].status # "Executed"
      <3> SUFFICES ASSUME a.kind = "Revoke"
                   PROVE  /\ a.target \in DOMAIN j.proposals
                          /\ j.proposals[a.target].status # "Executed"
        OBVIOUS
      <3>1. a.target \in DOMAIN ps /\ ps[a.target].status \in {"Open", "Passed"}
        BY <2>1 DEF Checked
      <3>2. ns[a.target] = ps[a.target]
        BY <2>1, <2>6, <3>1
      <3> QED BY <2>6, <2>7, <3>1, <3>2
    <2> HIDE DEF j, a
    <2>9. /\ Did(j, a) \in Contract /\ Grows(j.proposals, Did(j, a).proposals)
          /\ \A i \in DOMAIN j.proposals :
               (a.kind = "Revoke" => i # a.target) => Did(j, a).proposals[i] = j.proposals[i]
      BY <2>1, <2>2, <2>7, <2>8, DidType
    <2>10. Grows(ps, Did(j, a).proposals)
      BY <2>6, <2>7, <2>9, GrowsOn
    <2>11. id \in DOMAIN Did(j, a).proposals /\ Did(j, a).proposals[id] = p
      BY <2>1, <2>6, <2>7, <2>9 DEF Grows
    <2> HIDE DEF new
    <2> QED BY <1>11, <2>4, <2>5, <2>9, <2>10, <2>11 DEF new, c
  <1> QED BY <1>1, <1>6, <1>7, <1>8, <1>9, <1>10, <1>11 DEF Function

--------------------------------------------------------------------------------
(* Requests: what each rests on. *)

(* What a request in a state carries. *)
LEMMA Shapes ==
    ASSUME NEW q \in Request
    PROVE  /\ q.pc \in {"idle", "submit", "await", "release", "record", "land", "want", "look",
                        "reply"}
           /\ q.pc \in {"submit", "await", "release", "record"} =>
                q \in [pc: {"submit", "await", "release", "record"}, env: Envelope]
           /\ q.pc = "land" => q \in [pc: {"land"}, env: Envelope, failed: BOOLEAN, number: Nat]
           /\ q.pc = "want" => q \in [pc: {"want"}, call: Call]
           /\ q.pc = "look" => q \in [pc: {"look"}, call: Call]
           /\ q.pc = "reply" =>
                q \in [pc: {"reply"}, call: Call, says: {"rejected", "carried out"},
                       already: BOOLEAN]
           /\ q.pc \in {"submit", "await", "release", "record", "land"} => q.env \in Envelope
           /\ q.pc \in {"want", "look", "reply"} => q.call \in Call
  <1>1. CASE q \in [pc: {"idle"}]
    BY <1>1
  <1>2. CASE q \in [pc: {"submit", "await", "release", "record"}, env: Envelope]
    BY <1>2
  <1>3. CASE q \in [pc: {"land"}, env: Envelope, failed: BOOLEAN, number: Nat]
    BY <1>3
  <1>4. CASE q \in [pc: {"want"}, call: Call]
    BY <1>4
  <1>5. CASE q \in [pc: {"look"}, call: Call]
    BY <1>5
  <1>6. CASE q \in [pc: {"reply"}, call: Call, says: {"rejected", "carried out"},
                    already: BOOLEAN]
    BY <1>6
  <1> QED BY <1>1, <1>2, <1>3, <1>4, <1>5, <1>6 DEF Request

(* What a request rests on lasts while nobody takes it away. *)
LEMMA Lasts ==
    ASSUME NEW s, NEW q, NEW M, NEW R, NEW Q, NEW E, NEW K, NEW S, NEW A,
           NEW Mn, NEW Rn, NEW Qn, NEW En, NEW Kn, NEW Sn, NEW An,
           ReqOK(s, q, M, R, Q, E, K, S, A), (Mn = s) <=> (M = s),
           Claims(q) /\ Claimed(q.env, R) => Claimed(q.env, Rn),
           Claims(q) /\ q.pc \in {"submit", "release"} /\ ~Sent(q.env, Q, E)
             => ~Sent(q.env, Qn, En),
           E \subseteq En,
           \A c \in Contracts : Grows(K[c].proposals, Kn[c].proposals),
           Relays(q) /\ q.pc = "submit" /\ (q.env.seq = S[Relay] + 1 \/ q.env.seq \in A)
             => q.env.seq = Sn[Relay] + 1 \/ q.env.seq \in An
    PROVE  ReqOK(s, q, Mn, Rn, Qn, En, Kn, Sn, An)
  <1>1. q \in Request
    BY DEF ReqOK
  <1>2. /\ Relays(q) <=> Mn = s
        /\ q.pc = "record" => q.env.from = Relay
        /\ q.pc \in {"release", "land"} => q.env.from # Relay
        /\ Claims(q) => Claimed(q.env, Rn)
        /\ Claims(q) /\ q.pc \in {"submit", "release"} => ~Sent(q.env, Qn, En)
    BY DEF ReqOK
  <1>3. q.pc = "land" =>
         /\ \E x \in En : x.env = q.env
         /\ q.failed => Failed(q.env, En)
         /\ q.number # 0 => Numbers(q.env, q.number, En)
    BY DEF ReqOK, Failed, Numbers
  <1>4. q.pc = "reply" /\ q.says = "carried out" /\ ~q.already => Executed(q.call, Kn)
    <2> SUFFICES ASSUME q.pc = "reply", q.says = "carried out", ~q.already
                 PROVE  Executed(q.call, Kn)
      OBVIOUS
    <2>1. q.call.contract \in Contracts
      BY <1>1, Shapes DEF Call
    <2>2. Executed(q.call, K)
      BY DEF ReqOK
    <2> QED BY <2>1, <2>2 DEF Executed, Grows
  <1>5. q.pc = "submit" /\ q.env.from = Relay
          => q.env.seq = Sn[Relay] + 1 \/ q.env.seq \in An
    BY DEF ReqOK, Relays
  <1> QED BY <1>1, <1>2, <1>3, <1>4, <1>5 DEF ReqOK

(* A request that has neither an envelope nor a verdict rests on nothing. *)
LEMMA FreeOK ==
    ASSUME NEW r, NEW q \in Request, q.pc \in {"idle", "want", "look"},
           NEW M, M # r, NEW R, NEW Q, NEW E, NEW K, NEW S, NEW A
    PROVE  ReqOK(r, q, M, R, Q, E, K, S, A) /\ ~Claims(q)
  BY DEF ReqOK, Relays, Claims

(* A request with an envelope. *)
LEMMA EnvOK ==
    ASSUME NEW r, NEW pc \in {"submit", "await", "release", "record"}, NEW e \in Envelope,
           NEW M, NEW R, NEW Q, NEW E, NEW K, NEW S, NEW A,
           (pc # "release" /\ e.from = Relay) <=> M = r,
           pc = "record" => e.from = Relay, pc = "release" => e.from # Relay,
           e.from # Relay => Claimed(e, R),
           e.from # Relay /\ pc \in {"submit", "release"} => ~Sent(e, Q, E),
           e.from = Relay /\ pc = "submit" => e.seq = S[Relay] + 1 \/ e.seq \in A
    PROVE  ReqOK(r, [pc |-> pc, env |-> e], M, R, Q, E, K, S, A)
  <1> DEFINE q == [pc |-> pc, env |-> e]
  <1>1. q \in Request /\ q.pc = pc /\ q.env = e
    BY DEF Request
  <1> HIDE DEF q
  <1>2. Relays(q) <=> M = r
    BY <1>1 DEF Relays
  <1>3. ReqOK(r, q, M, R, Q, E, K, S, A)
    BY <1>1, <1>2 DEF ReqOK, Claims
  <1> QED BY <1>3 DEF q

(* A request that has seen what became of a member's call. *)
LEMMA LandOK ==
    ASSUME NEW r, NEW e \in Envelope, NEW failed \in BOOLEAN, NEW n \in Nat, NEW M, M # r,
           NEW R, NEW Q, NEW E, NEW K, NEW S, NEW A, e.from # Relay, Claimed(e, R),
           \E x \in E : x.env = e, failed => Failed(e, E), n # 0 => Numbers(e, n, E)
    PROVE  ReqOK(r, [pc |-> "land", env |-> e, failed |-> failed, number |-> n],
                 M, R, Q, E, K, S, A)
  <1> DEFINE q == [pc |-> "land", env |-> e, failed |-> failed, number |-> n]
  <1>1. q \in Request /\ q.pc = "land" /\ q.env = e /\ q.failed = failed /\ q.number = n
    BY DEF Request
  <1> HIDE DEF q
  <1>2. ReqOK(r, q, M, R, Q, E, K, S, A)
    BY <1>1 DEF ReqOK, Relays, Claims
  <1> QED BY <1>2 DEF q

(* A request that answers somebody. *)
LEMMA ReplyOK ==
    ASSUME NEW r, NEW call \in Call, NEW already \in BOOLEAN, NEW M, M # r,
           NEW says \in {"rejected", "carried out"},
           NEW R, NEW Q, NEW E, NEW K, NEW S, NEW A,
           says = "carried out" /\ ~already => Executed(call, K)
    PROVE  ReqOK(r, [pc |-> "reply", call |-> call, already |-> already, says |-> says],
                 M, R, Q, E, K, S, A)
  <1> DEFINE q == [pc |-> "reply", call |-> call, already |-> already, says |-> says]
  <1>1. q \in Request /\ q.pc = "reply" /\ q.call = call /\ q.already = already /\ q.says = says
    BY DEF Request
  <1> HIDE DEF q
  <1>2. ReqOK(r, q, M, R, Q, E, K, S, A)
    BY <1>1 DEF ReqOK, Relays, Claims
  <1> QED BY <1>2 DEF q

--------------------------------------------------------------------------------
(* Steps that write nothing: a request goes on. *)

(* Contracts that stand still. *)
LEMMA Still ==
    ASSUME Tables
    PROVE  \A c \in Contracts : chain[c] \in Contract
                                /\ Grows(chain[c].proposals, chain[c].proposals)
  BY DEF Tables, Grows

(* A request goes on; it may take or let go of the mutex, and claims nothing    *)
(* new.  What it waited for on behalf of the relay is over, or given up on.     *)
LEMMA Move ==
    ASSUME IInv, NEW r \in Requests, NEW q, Goto(r, q),
           known' \subseteq Contracts, UNCHANGED <<rows, network, now>>,
           relaying' \in Requests \cup {None},
           \A s \in Requests \ {r} : (relaying' = s) <=> (relaying = s),
           abandoned \subseteq abandoned', abandoned' \subseteq Nat,
           ReqOK(r, q, relaying', rows, queue, ended, chain, seq, abandoned'),
           Claims(q) => Claims(req[r]) /\ q.env = req[r].env,
           req[r].pc = "await" /\ req[r].env.from = Relay =>
             \/ req[r].env.seq \in abandoned' \/ req[r].env.seq <= seq[Relay]
             \/ now > req[r].env.expires
    PROVE  IInv'
  <1>1. /\ rows' = rows /\ chain' = chain /\ purse' = purse /\ seq' = seq
        /\ queue' = queue /\ ended' = ended /\ now' = now
    BY DEF network
  <1>2. q \in Request
    BY DEF ReqOK
  <1>3. req' \in [Requests -> Request] /\ req'[r] = q /\ \A s \in Requests \ {r} : req'[s] = req[s]
    BY <1>2 DEF Goto, IInv, Tables
  <1>4. Tables'
    BY <1>1, <1>3 DEF IInv, Tables
  <1>5. ASSUME NEW s \in Requests
        PROVE  ReqOK(s, req'[s], relaying', rows', queue', ended', chain', seq', abandoned')
    <2>1. CASE s = r
      BY <1>1, <1>3, <2>1
    <2>2. CASE s # r
      <3>1. ReqOK(s, req[s], relaying, rows, queue, ended, chain, seq, abandoned)
        BY DEF IInv, RequestsOK
      <3>2. \A c \in Contracts : Grows(chain[c].proposals, chain[c].proposals)
        BY Still DEF IInv
      <3>3. (relaying' = s) <=> (relaying = s)
        BY <2>2
      <3>4. /\ Claims(req[s]) /\ Claimed(req[s].env, rows) => Claimed(req[s].env, rows)
            /\ Claims(req[s]) /\ req[s].pc \in {"submit", "release"}
               /\ ~Sent(req[s].env, queue, ended) => ~Sent(req[s].env, queue, ended)
            /\ ended \subseteq ended
            /\ Relays(req[s]) /\ req[s].pc = "submit"
               /\ (req[s].env.seq = seq[Relay] + 1 \/ req[s].env.seq \in abandoned)
                 => req[s].env.seq = seq[Relay] + 1 \/ req[s].env.seq \in abandoned'
        OBVIOUS
      <3>5. ReqOK(s, req[s], relaying', rows, queue, ended, chain, seq, abandoned')
        BY <3>1, <3>2, <3>3, <3>4, Lasts
      <3> QED BY <1>1, <1>3, <2>2, <3>5
    <2> QED BY <2>1, <2>2
  <1>6. RequestsOK'
    BY <1>5 DEF RequestsOK
  <1>7. OneClaim'
    <2> SUFFICES ASSUME NEW s \in Requests, NEW t \in Requests, Claims(req'[s]), Claims(req'[t]),
                        req'[s].env = req'[t].env
                 PROVE  s = t
      BY DEF OneClaim
    <2>1. ASSUME NEW u \in Requests, Claims(req'[u])
          PROVE  Claims(req[u]) /\ req[u].env = req'[u].env
      BY <1>3, <2>1
    <2> QED BY <2>1 DEF IInv, OneClaim
  <1>8. RowsOK' /\ EndsOK'
    BY <1>1 DEF IInv, RowsOK, EndsOK
  <1>9. ASSUME NEW f \in queue
        PROVE  FlightOK(f, seq', abandoned', now', req')
    <2> SUFFICES ASSUME f.from = Relay
                 PROVE  \/ f.seq \in abandoned' \/ f.seq <= seq[Relay] \/ now > f.expires
                        \/ \E s \in Requests : req'[s].pc = "await" /\ req'[s].env = f
      BY <1>1 DEF FlightOK
    <2>1. \/ f.seq \in abandoned \/ f.seq <= seq[Relay] \/ now > f.expires
          \/ \E s \in Requests : req[s].pc = "await" /\ req[s].env = f
      BY DEF IInv, SentOK, FlightOK
    <2>2. ASSUME NEW s \in Requests, req[s].pc = "await", req[s].env = f
          PROVE  \/ f.seq \in abandoned' \/ f.seq <= seq[Relay] \/ now > f.expires
                 \/ \E u \in Requests : req'[u].pc = "await" /\ req'[u].env = f
      BY <1>3, <2>2
    <2> QED BY <2>1, <2>2
  <1>10. SentOK'
    BY <1>1, <1>9 DEF IInv, SentOK
  <1> QED BY <1>4, <1>6, <1>7, <1>8, <1>10 DEF IInv

(* Most record no treasury. *)
LEMMA QuietMove ==
    ASSUME IInv, NEW r \in Requests, NEW q, Goto(r, q),
           UNCHANGED <<known, rows, network, now>>,
           relaying' \in Requests \cup {None},
           \A s \in Requests \ {r} : (relaying' = s) <=> (relaying = s),
           abandoned \subseteq abandoned', abandoned' \subseteq Nat,
           ReqOK(r, q, relaying', rows, queue, ended, chain, seq, abandoned'),
           Claims(q) => Claims(req[r]) /\ q.env = req[r].env,
           req[r].pc = "await" /\ req[r].env.from = Relay =>
             \/ req[r].env.seq \in abandoned' \/ req[r].env.seq <= seq[Relay]
             \/ now > req[r].env.expires
    PROVE  IInv'
  <1>1. known' \subseteq Contracts /\ UNCHANGED <<rows, network, now>>
    BY DEF IInv, Tables
  <1> QED BY <1>1, Move

(* A request that ends lets go of the mutex if it has it. *)
LEMMA Released ==
    ASSUME IInv, NEW r \in Requests, relaying' = IF relaying = r THEN None ELSE relaying
    PROVE  /\ relaying' \in Requests \cup {None} /\ relaying' # r
           /\ \A s \in Requests \ {r} : (relaying' = s) <=> (relaying = s)
  BY CallsAssumption DEF IInv, Tables

(* And rests on nothing. *)
LEMMA EndStep ==
    ASSUME IInv, NEW r \in Requests, End(r), UNCHANGED <<known, rows, network, now>>,
           abandoned \subseteq abandoned', abandoned' \subseteq Nat,
           req[r].pc = "await" /\ req[r].env.from = Relay =>
             \/ req[r].env.seq \in abandoned' \/ req[r].env.seq <= seq[Relay]
             \/ now > req[r].env.expires
    PROVE  IInv'
  <1>1. Goto(r, Idle) /\ relaying' = IF relaying = r THEN None ELSE relaying
    BY DEF End
  <1>2. Idle \in Request /\ Idle.pc = "idle"
    BY DEF Idle, Request
  <1>3. /\ relaying' \in Requests \cup {None} /\ relaying' # r
        /\ \A s \in Requests \ {r} : (relaying' = s) <=> (relaying = s)
    BY <1>1, Released
  <1>4. ReqOK(r, Idle, relaying', rows, queue, ended, chain, seq, abandoned') /\ ~Claims(Idle)
    BY <1>2, <1>3, FreeOK
  <1> QED BY <1>1, <1>3, <1>4, QuietMove

(* What is known of a request that has an envelope. *)
LEMMA Has ==
    ASSUME IInv, NEW r \in Requests,
           req[r].pc \in {"submit", "await", "release", "record", "land"}
    PROVE  /\ req[r] \in Request /\ req[r].env \in Envelope /\ req[r].env.seq \in Nat
           /\ req[r].env.call \in Call /\ req[r].env.from \in Members \cup {Relay}
           /\ ReqOK(r, req[r], relaying, rows, queue, ended, chain, seq, abandoned)
           /\ (relaying = r) <=> Relays(req[r])
  <1>1. ReqOK(r, req[r], relaying, rows, queue, ended, chain, seq, abandoned)
    BY DEF IInv, RequestsOK
  <1>2. req[r] \in Request
    BY <1>1 DEF ReqOK
  <1>3. req[r].env \in Envelope
    BY <1>2, Shapes
  <1> QED BY <1>1, <1>2, <1>3 DEF ReqOK, Envelope

(* An envelope goes from one state of a request to another. *)
LEMMA Stepped ==
    ASSUME IInv, NEW r \in Requests, req[r].pc \in {"submit", "await", "release", "record"},
           NEW pc, Step(r, pc)
    PROVE  Goto(r, [pc |-> pc, env |-> req[r].env])
  <1>1. req[r] \in [pc: {"submit", "await", "release", "record"}, env: Envelope]
    BY Shapes DEF IInv, Tables
  <1>2. [req[r] EXCEPT !.pc = pc] = [pc |-> pc, env |-> req[r].env]
    BY <1>1
  <1> QED BY <1>2 DEF Step, Goto

(* BadSequence, Expired, GaveUp and Quit. *)
LEMMA EndingStep ==
    ASSUME IInv, NEW r \in Requests, BadSequence(r) \/ Expired(r) \/ GaveUp(r) \/ Quit(r)
    PROVE  IInv'
  <1>1. End(r) /\ UNCHANGED <<known, rows, network, now>>
    BY DEF BadSequence, Expired, GaveUp, Quit
  <1>2. abandoned \in SUBSET Nat
    BY DEF IInv, Tables
  <1>3. CASE BadSequence(r)
    <2>1. req[r].pc = "submit" /\ abandoned' = abandoned
      BY <1>3 DEF BadSequence, At
    <2> QED BY <1>1, <1>2, <2>1, EndStep
  <1>4. CASE Expired(r)
    <2>1. now > req[r].env.expires /\ abandoned' = abandoned
      BY <1>4 DEF Expired
    <2> QED BY <1>1, <1>2, <2>1, EndStep
  <1>5. ASSUME Forsake(r), req[r].pc \in {"submit", "await"}
        PROVE  IInv'
    <2>1. req[r].env.seq \in Nat
      BY <1>5, Has
    <2>2. /\ abandoned \subseteq abandoned' /\ abandoned' \subseteq Nat
          /\ req[r].env.from = Relay => req[r].env.seq \in abandoned'
      BY <1>2, <1>5, <2>1 DEF Forsake, Relayed
    <2> QED BY <1>1, <2>2, EndStep
  <1>6. CASE GaveUp(r)
    BY <1>5, <1>6 DEF GaveUp, At
  <1>7. CASE Quit(r)
    <2>1. CASE At(r, "submit") \/ At(r, "await")
      BY <1>5, <1>7, <2>1 DEF Quit, At
    <2>2. CASE ~(At(r, "submit") \/ At(r, "await"))
      <3>1. req[r].pc # "await" /\ abandoned' = abandoned
        BY <1>7, <2>2 DEF Quit, At
      <3> QED BY <1>1, <1>2, <3>1, EndStep
    <2> QED BY <2>1, <2>2
  <1> QED BY <1>3, <1>4, <1>6, <1>7

(* FeeBumpSoroban and TurnedAway: nothing was sent, and the claim goes back. *)
LEMMA TurnedStep ==
    ASSUME IInv, NEW r \in Requests, FeeBumpSoroban(r) \/ TurnedAway(r)
    PROVE  IInv'
  <1> DEFINE e == req[r].env
  <1>1. req[r].pc = "submit" /\ UNCHANGED <<known, rows, network, now>> /\ abandoned' = abandoned
    BY DEF FeeBumpSoroban, TurnedAway, At
  <1>2. abandoned \in SUBSET Nat
    BY DEF IInv, Tables
  <1>3. /\ e \in Envelope
        /\ (relaying = r) <=> Relays(req[r])
        /\ ReqOK(r, req[r], relaying, rows, queue, ended, chain, seq, abandoned)
    BY <1>1, Has
  <1>4. CASE e.from = Relay
    <2>1. End(r)
      BY <1>4 DEF FeeBumpSoroban, TurnedAway, Relayed
    <2> QED BY <1>1, <1>2, <2>1, EndStep
  <1>5. CASE e.from # Relay
    <2>1. Step(r, "release") /\ relaying' = relaying
      BY <1>5 DEF FeeBumpSoroban, TurnedAway, Relayed
    <2>2. Goto(r, [pc |-> "release", env |-> e])
      BY <1>1, <2>1, Stepped
    <2>3. relaying # r /\ Claims(req[r])
      BY <1>1, <1>3, <1>5 DEF Relays, Claims
    <2>4. Claimed(e, rows) /\ ~Sent(e, queue, ended)
      BY <1>1, <1>3, <2>3 DEF ReqOK
    <2> HIDE DEF e
    <2>5. ReqOK(r, [pc |-> "release", env |-> e], relaying, rows, queue, ended, chain, seq,
                abandoned)
      BY <1>3, <1>5, <2>3, <2>4, EnvOK
    <2>6. Claims([pc |-> "release", env |-> e]) =>
            Claims(req[r]) /\ [pc |-> "release", env |-> e].env = req[r].env
      BY <2>3 DEF e
    <2>7. relaying' \in Requests \cup {None}
          /\ \A s \in Requests \ {r} : (relaying' = s) <=> (relaying = s)
      BY <2>1 DEF IInv, Tables
    <2>8. ReqOK(r, [pc |-> "release", env |-> e], relaying', rows, queue, ended, chain, seq,
                abandoned')
      BY <1>1, <2>1, <2>5
    <2> QED BY <1>1, <1>2, <2>2, <2>6, <2>7, <2>8, QuietMove
  <1> QED BY <1>4, <1>5

(* Found and LookedUp: what is in a ledger is over.  What is recorded of it and *)
(* said about it follows how it ended there.                                    *)
LEMMA LandingStep ==
    ASSUME IInv, NEW r \in Requests, req[r].pc = "await", NEW failed \in BOOLEAN,
           NEW already \in BOOLEAN, NEW numbers, Landing(r, failed, already, numbers),
           UNCHANGED <<known, rows, network, abandoned, now>>,
           NEW x \in ended, x.env = req[r].env, failed => Failed(req[r].env, ended),
           \A n \in numbers : n \in Nat /\ (n # 0 => Numbers(req[r].env, n, ended)),
           ~failed /\ ~already => x.ok
    PROVE  IInv'
  <1> DEFINE e == req[r].env
             over == relaying' = IF relaying = r THEN None ELSE relaying
  <1>1. /\ e \in Envelope /\ e.call \in Call
        /\ (relaying = r) <=> Relays(req[r])
        /\ ReqOK(r, req[r], relaying, rows, queue, ended, chain, seq, abandoned)
    BY Has
  <1>2. UNCHANGED <<known, rows, network, now>> /\ abandoned' = abandoned
        /\ abandoned \subseteq abandoned' /\ abandoned' \subseteq Nat
    BY DEF IInv, Tables
  <1>3. e.from = Relay => e.seq <= seq[Relay]
    BY DEF IInv, EndsOK, EndOK
  <1>4. relaying \in Requests \cup {None}
    BY DEF IInv, Tables
  <1>5. CASE e.from # Relay
    <2>1. /\ \E n \in numbers :
               Goto(r, [pc |-> "land", env |-> e, failed |-> failed, number |-> n])
          /\ relaying' = relaying
      BY <1>5 DEF Landing, Relayed
    <2>2. PICK n \in numbers :
            Goto(r, [pc |-> "land", env |-> e, failed |-> failed, number |-> n])
      BY <2>1
    <2> DEFINE q == [pc |-> "land", env |-> e, failed |-> failed, number |-> n]
    <2>3. relaying # r /\ Claims(req[r])
      BY <1>1, <1>5 DEF Relays, Claims
    <2>4. Claimed(e, rows)
      BY <1>1, <2>3 DEF ReqOK
    <2>5. q.env = req[r].env
      OBVIOUS
    <2>6. n \in Nat /\ (n # 0 => Numbers(e, n, ended)) /\ (failed => Failed(e, ended))
          /\ \E y \in ended : y.env = e
      OBVIOUS
    <2> HIDE DEF e
    <2>7. ReqOK(r, q, relaying, rows, queue, ended, chain, seq, abandoned)
      BY <1>1, <1>5, <2>3, <2>4, <2>6, LandOK
    <2> HIDE DEF q
    <2>8. Goto(r, q)
      BY <2>2 DEF q
    <2> QED BY <1>2, <1>4, <1>5, <2>1, <2>3, <2>5, <2>7, <2>8, QuietMove DEF e
  <1>6. CASE e.from = Relay /\ (failed \/ e.call.fn = "extend")
    <2>1. End(r)
      BY <1>6 DEF Landing, Relayed
    <2> QED BY <1>2, <1>3, <2>1, EndStep
  <1>7. CASE e.from = Relay /\ ~(failed \/ e.call.fn = "extend") /\ e.call.fn = "create"
    <2>1. Step(r, "record") /\ relaying' = relaying
      BY <1>7 DEF Landing, Relayed
    <2> DEFINE q == [pc |-> "record", env |-> e]
    <2>2. Goto(r, q)
      BY <2>1, Stepped
    <2>3. relaying = r
      BY <1>1, <1>7 DEF Relays
    <2>4. ~Claims(q)
      BY DEF Claims
    <2>5. ReqOK(r, q, relaying, rows, queue, ended, chain, seq, abandoned)
      <3> HIDE DEF e
      <3> QED BY <1>1, <1>7, <2>3, EnvOK
    <2> HIDE DEF q
    <2> QED BY <1>2, <1>3, <1>4, <2>1, <2>2, <2>4, <2>5, QuietMove
  <1>8. ASSUME e.from = Relay, over, NEW q, Goto(r, q), ~Claims(q),
               relaying' # r => ReqOK(r, q, relaying', rows, queue, ended, chain, seq, abandoned)
        PROVE  IInv'
    <2>1. /\ relaying' \in Requests \cup {None} /\ relaying' # r
          /\ \A s \in Requests \ {r} : (relaying' = s) <=> (relaying = s)
      BY <1>8, Released
    <2> QED BY <1>2, <1>3, <1>8, <2>1, QuietMove
  <1>9. CASE /\ e.from = Relay /\ ~(failed \/ e.call.fn = "extend") /\ e.call.fn # "create"
             /\ e.call.fn = "tally" /\ e.call.yes
    <2> DEFINE q == [pc |-> "look", call |-> e.call]
    <2>1. Goto(r, q) /\ over
      BY <1>9 DEF Landing, Relayed
    <2>2. q \in Request /\ q.pc = "look"
      BY <1>1 DEF Request
    <2> HIDE DEF q
    <2>3. ~Claims(q)
      BY <2>2 DEF Claims
    <2>4. relaying' # r => ReqOK(r, q, relaying', rows, queue, ended, chain, seq, abandoned)
      BY <2>2, FreeOK
    <2> QED BY <1>8, <1>9, <2>1, <2>3, <2>4
  <1>10. CASE /\ e.from = Relay /\ ~(failed \/ e.call.fn = "extend") /\ e.call.fn # "create"
              /\ ~(e.call.fn = "tally" /\ e.call.yes)
    <2> DEFINE says == IF e.call.fn = "execute" THEN "carried out" ELSE "rejected"
               q == [pc |-> "reply", call |-> e.call, already |-> already, says |-> says]
    <2>1. Goto(r, q) /\ over
      BY <1>10 DEF Landing, Relayed
    <2>2. ~Claims(q)
      BY DEF Claims
    <2>3. says \in {"rejected", "carried out"}
      OBVIOUS
    <2>4. says = "carried out" /\ ~already => Executed(e.call, chain)
      <3> SUFFICES ASSUME says = "carried out", ~already PROVE Executed(e.call, chain)
        OBVIOUS
      <3>1. x.ok /\ x.env.call.fn = "execute"
        BY <1>10
      <3>2. Executed(x.env.call, chain)
        BY <3>1 DEF IInv, EndsOK, EndOK
      <3> QED BY <3>2
    <2> HIDE DEF says
    <2>5. ASSUME relaying' # r
          PROVE  ReqOK(r, q, relaying', rows, queue, ended, chain, seq, abandoned)
      <3> HIDE DEF e
      <3> QED BY <1>1, <2>3, <2>4, <2>5, ReplyOK
    <2> HIDE DEF q
    <2> QED BY <1>8, <1>10, <2>1, <2>2, <2>5
  <1> QED BY <1>5, <1>6, <1>7, <1>9, <1>10

(* The two ways it is found. *)
LEMMA FoundStep ==
    ASSUME IInv, NEW r \in Requests, Found(r) \/ LookedUp(r)
    PROVE  IInv'
  <1>1. req[r].pc = "await" /\ UNCHANGED <<known, rows, network, abandoned, now>>
    BY DEF Found, LookedUp, At
  <1>2. \A y \in ended : y.number \in Nat /\ y.ok \in BOOLEAN
    BY DEF IInv, Tables
  <1>3. \A n \in returnedProposal(req[r].env) :
          n \in Nat /\ (n # 0 => Numbers(req[r].env, n, ended))
    BY <1>2 DEF returnedProposal, returnValueOf, Numbers
  <1>4. CASE Found(r)
    <2>1. PICK x \in ended :
            /\ x.env = req[r].env
            /\ Landing(r, ~x.ok, FALSE, IF x.ok THEN returnedProposal(x.env) ELSE {0})
      BY <1>4 DEF Found
    <2> DEFINE failed == ~x.ok
               numbers == IF x.ok THEN returnedProposal(x.env) ELSE {0}
    <2>2. failed \in BOOLEAN /\ FALSE \in BOOLEAN
      OBVIOUS
    <2>3. failed => Failed(req[r].env, ended)
      BY <2>1 DEF Failed
    <2>4. \A n \in numbers : n \in Nat /\ (n # 0 => Numbers(req[r].env, n, ended))
      BY <1>3, <2>1
    <2>5. Landing(r, failed, FALSE, numbers) /\ x.env = req[r].env
      BY <2>1
    <2>6. ~failed /\ ~FALSE => x.ok
      OBVIOUS
    <2> HIDE DEF failed, numbers
    <2> QED BY <1>1, <2>2, <2>3, <2>4, <2>5, <2>6, LandingStep
  <1>5. CASE LookedUp(r)
    <2>1. PICK x \in ended : x.env = req[r].env
      BY <1>5 DEF LookedUp
    <2> DEFINE failed == FALSE
               already == TRUE
               numbers == {0}
    <2>2. Landing(r, failed, already, numbers)
      BY <1>5 DEF LookedUp
    <2>3. \A n \in numbers : n \in Nat /\ (n # 0 => Numbers(req[r].env, n, ended))
      OBVIOUS
    <2>4. failed \in BOOLEAN /\ already \in BOOLEAN /\ (failed => Failed(req[r].env, ended))
          /\ (~failed /\ ~already => x.ok)
      OBVIOUS
    <2> HIDE DEF failed, already, numbers
    <2> QED BY <1>1, <2>1, <2>2, <2>3, <2>4, LandingStep
  <1> QED BY <1>4, <1>5

(* The calls that are built have the shape of one. *)
LEMMA CallType ==
    ASSUME NEW c \in Contracts, NEW fn \in Function, NEW id \in Nat
    PROVE  /\ NoAction \in Action
           /\ Bare(c, fn) \in Call /\ Bare(c, fn).contract = c /\ Bare(c, fn).fn = fn
           /\ Numbered(c, fn, id) \in Call
           /\ \A yes \in BOOLEAN : [Numbered(c, fn, id) EXCEPT !.yes = yes] \in Call
           /\ \A a \in Action, note \in Notes :
                [Bare(c, fn) EXCEPT !.action = a, !.note = note] \in Call
  <1>1. NoAction \in Action
    BY DEF NoAction, Action, Actionable
  <1>2. /\ Bare(c, fn) \in Call /\ Bare(c, fn).contract = c /\ Bare(c, fn).fn = fn
    BY <1>1, CallsAssumption DEF Bare, Call
  <1>3. Numbered(c, fn, id) \in Call
    BY <1>2 DEF Numbered, Call
  <1>4. \A yes \in BOOLEAN : [Numbered(c, fn, id) EXCEPT !.yes = yes] \in Call
    BY <1>3 DEF Call
  <1>5. \A a \in Action, note \in Notes : [Bare(c, fn) EXCEPT !.action = a, !.note = note] \in Call
    BY <1>2 DEF Call
  <1> QED BY <1>1, <1>2, <1>3, <1>4, <1>5

(* A transaction is prepared for the next sequence number of who signs it. *)
LEMMA Prepared ==
    ASSUME Tables, NEW from \in Members \cup {Relay}, NEW call \in Call, NEW timeout \in Nat,
           NEW e \in PrepareCall(from, call, timeout)
    PROVE  /\ e \in Envelope /\ e.from = from /\ e.call = call /\ e.seq = seq[from] + 1
           /\ Accepts(from, call)
  <1>1. e = [from |-> from, call |-> call, seq |-> seq[from] + 1, expires |-> now + timeout]
    BY DEF PrepareCall
  <1>2. seq[from] + 1 \in Nat /\ now + timeout \in Nat
    BY DEF Tables
  <1>3. e \in Envelope
    BY <1>1, <1>2 DEF Envelope
  <1>4. Accepts(from, call)
    BY DEF PrepareCall, Simulate
  <1> QED BY <1>1, <1>3, <1>4

(* relay takes the mutex for an envelope built on the latest sequence number. *)
LEMMA RelayStep ==
    ASSUME IInv, NEW r \in Requests, req[r].pc \in {"idle", "want"}, NEW e \in Envelope,
           e.from = Relay, e.seq = seq[Relay] + 1, relay(r, e)
    PROVE  IInv'
  <1> DEFINE q == [pc |-> "submit", env |-> e]
  <1>1. /\ relaying = None /\ relaying' = r /\ Goto(r, q)
        /\ UNCHANGED <<known, rows, network, now>> /\ abandoned' = abandoned
    BY DEF relay
  <1>2. abandoned \in SUBSET Nat
    BY DEF IInv, Tables
  <1>3. ReqOK(r, q, r, rows, queue, ended, chain, seq, abandoned)
    BY EnvOK
  <1>4. ~Claims(q)
    BY DEF Claims
  <1>5. \A s \in Requests \ {r} : (relaying' = s) <=> (relaying = s)
    BY <1>1, CallsAssumption
  <1> HIDE DEF q
  <1>6. ReqOK(r, q, relaying', rows, queue, ended, chain, seq, abandoned')
    BY <1>1, <1>3
  <1> QED BY <1>1, <1>2, <1>4, <1>5, <1>6, QuietMove

(* createTreasury, KeepContractsAlive, SettleOnChain and ExecuteOnChain. *)
LEMMA RelayingStep ==
    ASSUME IInv, NEW r \in Requests,
           \/ \E m \in Members, c \in Contracts : createTreasury(r, m, c)
           \/ KeepContractsAlive(r) \/ SettleOnChain(r) \/ ExecuteOnChain(r)
    PROVE  IInv'
  <1>1. Tables /\ Relay \in Members \cup {Relay} /\ SorobanTimeout \in Nat
    BY CallsAssumption DEF IInv
  <1>2. ASSUME NEW call \in Call, NEW e \in PrepareCall(Relay, call, SorobanTimeout), relay(r, e),
               req[r].pc \in {"idle", "want"}
        PROVE  IInv'
    <2>1. e \in Envelope /\ e.from = Relay /\ e.seq = seq[Relay] + 1
      BY <1>1, Prepared
    <2> QED BY <1>2, <2>1, RelayStep
  <1>3. ASSUME NEW m \in Members, NEW c \in Contracts, createTreasury(r, m, c)
        PROVE  IInv'
    <2>1. req[r].pc = "idle" /\ \E e \in PrepareCall(Relay, Bare(c, "create"), SorobanTimeout) :
            relay(r, e)
      BY <1>3 DEF createTreasury, CreateContractTreasury, PrepareCreate, At
    <2>2. Bare(c, "create") \in Call
      BY CallType DEF Function
    <2> QED BY <1>2, <2>1, <2>2
  <1>4. CASE KeepContractsAlive(r)
    <2>1. PICK c \in DOMAIN Lives : extend(r, c, Lives[c])
      BY <1>4 DEF KeepContractsAlive
    <2>2. c \in Contracts
      BY DEF Lives, IInv, Tables
    <2>3. PICK target \in reach(Lives[c]) : \E e \in PrepareExtension(c, target) : relay(r, e)
      BY <2>1 DEF extend
    <2>4. target \in Nat
      BY CallsAssumption DEF reach, Halved
    <2>5. Numbered(c, "extend", target) \in Call
      BY <2>2, <2>4, CallType DEF Function
    <2>6. req[r].pc = "idle"
      BY <1>4 DEF KeepContractsAlive, At
    <2> QED BY <1>2, <2>3, <2>5, <2>6 DEF PrepareExtension
  <1>5. CASE SettleOnChain(r) \/ ExecuteOnChain(r)
    <2>1. req[r].pc = "want" /\ relayFor(r)
      BY <1>5 DEF SettleOnChain, ExecuteOnChain, At
    <2>2. req[r].call \in Call
      BY <2>1, Shapes DEF IInv, Tables
    <2> QED BY <1>2, <2>1, <2>2 DEF relayFor
  <1> QED BY <1>3, <1>4, <1>5

(* executeOnChain, Refused, LookAgain and Reply: reading, and answering. *)
LEMMA ReadingStep ==
    ASSUME IInv, NEW r \in Requests,
           \/ \E c \in Addressable : \E id \in DOMAIN chain[c].proposals : executeOnChain(r, c, id)
           \/ Refused(r) \/ LookAgain(r) \/ Reply(r)
    PROVE  IInv'
  <1>1. /\ UNCHANGED <<known, rows, network, now>> /\ abandoned' = abandoned
        /\ relaying' = relaying /\ req[r].pc \in {"idle", "want", "look", "reply"}
    BY DEF executeOnChain, Refused, LookAgain, Reply, At
  <1>2. relaying # r
    <2>1. ReqOK(r, req[r], relaying, rows, queue, ended, chain, seq, abandoned)
      BY DEF IInv, RequestsOK
    <2> QED BY <1>1, <2>1 DEF ReqOK, Relays
  <1>3. Idle \in Request /\ Idle.pc = "idle"
    BY DEF Idle, Request
  <1>4. ASSUME NEW call \in Call
        PROVE  [pc |-> "want", call |-> call] \in Request
               /\ [pc |-> "want", call |-> call].pc = "want"
    BY DEF Request
  <1>5. \E q \in Request : Goto(r, q) /\ q.pc \in {"idle", "want"}
    <2>1. CASE Refused(r) \/ Reply(r)
      BY <1>3, <2>1 DEF Refused, Reply
    <2>2. ASSUME NEW c \in Addressable, NEW id \in DOMAIN chain[c].proposals,
                 executeOnChain(r, c, id)
          PROVE  \E q \in Request : Goto(r, q) /\ q.pc \in {"idle", "want"}
      <3>1. PICK call \in ToRelay(c, id) : Goto(r, [pc |-> "want", call |-> call])
        BY <2>2 DEF executeOnChain
      <3>2. c \in Contracts
        BY DEF Addressable, addressed, IInv, Tables
      <3>3. id \in Nat
        <4>1. chain[c].proposals \in Seq(Proposal)
          BY <3>2 DEF IInv, Tables, Contract
        <4> QED BY <4>1
      <3>4. PICK fn \in {"tally", "execute"}, yes \in BOOLEAN :
              call = [Numbered(c, fn, id) EXCEPT !.yes = yes]
        BY DEF ToRelay
      <3>5. call \in Call
        BY <3>2, <3>3, <3>4, CallType DEF Function
      <3> QED BY <1>4, <3>1, <3>5
    <2>3. CASE LookAgain(r)
      <3> DEFINE call == Numbered(req[r].call.contract, "execute", req[r].call.id)
      <3>1. Goto(r, [pc |-> "want", call |-> call]) \/ Goto(r, Idle)
        BY <2>3 DEF LookAgain
      <3>2. req[r].call \in Call
        BY <2>3, Shapes DEF LookAgain, At, IInv, Tables
      <3>3. req[r].call.contract \in Contracts /\ req[r].call.id \in Nat
        BY <3>2 DEF Call
      <3>4. call \in Call
        BY <3>3, CallType DEF Function
      <3> HIDE DEF call
      <3> QED BY <1>3, <1>4, <3>1, <3>4
    <2> QED BY <2>1, <2>2, <2>3
  <1>6. PICK q \in Request : Goto(r, q) /\ q.pc \in {"idle", "want"}
    BY <1>5
  <1>7. ReqOK(r, q, relaying, rows, queue, ended, chain, seq, abandoned) /\ ~Claims(q)
    BY <1>2, <1>6, FreeOK
  <1>8. /\ relaying' \in Requests \cup {None} /\ abandoned \subseteq abandoned'
        /\ abandoned' \subseteq Nat
        /\ \A s \in Requests \ {r} : (relaying' = s) <=> (relaying = s)
        /\ ReqOK(r, q, relaying', rows, queue, ended, chain, seq, abandoned')
    BY <1>1, <1>7 DEF IInv, Tables
  <1> QED BY <1>1, <1>6, <1>7, <1>8, QuietMove

(* AddContractTreasury and adoptTreasury: a treasury is recorded. *)
LEMMA KnownStep ==
    ASSUME IInv, NEW r \in Requests,
           \/ AddContractTreasury(r)
           \/ \E m \in Members, c \in Contracts : adoptTreasury(r, m, c)
    PROVE  IInv'
  <1>1. CASE AddContractTreasury(r)
    <2>1. req[r].pc = "record" /\ End(r) /\ UNCHANGED <<rows, network, now>>
          /\ abandoned' = abandoned
      BY <1>1 DEF AddContractTreasury, At
    <2>2. req[r].env.call.contract \in Contracts
      BY <2>1, Has DEF Call
    <2>3. known' \subseteq Contracts
      BY <1>1, <2>2 DEF AddContractTreasury, IInv, Tables
    <2>4. Goto(r, Idle) /\ relaying' = IF relaying = r THEN None ELSE relaying
      BY <2>1 DEF End
    <2>5. Idle \in Request /\ Idle.pc = "idle"
      BY DEF Idle, Request
    <2>6. /\ relaying' \in Requests \cup {None} /\ relaying' # r
          /\ \A s \in Requests \ {r} : (relaying' = s) <=> (relaying = s)
      BY <2>4, Released
    <2>7. ReqOK(r, Idle, relaying', rows, queue, ended, chain, seq, abandoned') /\ ~Claims(Idle)
      BY <2>5, <2>6, FreeOK
    <2>8. abandoned \subseteq abandoned' /\ abandoned' \subseteq Nat
      BY <2>1 DEF IInv, Tables
    <2> QED BY <2>1, <2>3, <2>4, <2>6, <2>7, <2>8, Move
  <1>2. ASSUME NEW m \in Members, NEW c \in Contracts, adoptTreasury(r, m, c)
        PROVE  IInv'
    <2>1. /\ known' = known \cup {c} /\ rows' = rows /\ relaying' = relaying /\ req' = req
          /\ chain' = chain /\ purse' = purse /\ seq' = seq /\ queue' = queue /\ ended' = ended
          /\ abandoned' = abandoned /\ now' = now
      BY <1>2 DEF adoptTreasury, AdoptContractTreasury, network
    <2>2. Tables'
      BY <2>1 DEF IInv, Tables
    <2> QED BY <2>1, <2>2 DEF IInv, RequestsOK, OneClaim, RowsOK, SentOK, EndsOK
  <1> QED BY <1>1, <1>2

--------------------------------------------------------------------------------
(* Steps that write to the table of members' calls. *)

(* One row rewritten. *)
LEMMA Rewritten ==
    ASSUME IInv, NEW e, NEW S \in Row, S.env = e, \E row \in rows : row.env = e,
           RowOK(S, queue, ended)
    PROVE  LET R == With(e, S)
           IN  /\ R \subseteq Row /\ \A row \in R : RowOK(row, queue, ended)
               /\ \A row, other \in R : row.env = other.env => row = other
               /\ \A row \in rows : \E new \in R : new.env = row.env
               /\ \A f : f # e /\ Claimed(f, rows) => Claimed(f, R)
               /\ S.submitted => Claimed(e, R)
  <1> DEFINE R == With(e, S)
  <1>1. rows \subseteq Row /\ S \in R /\ \A row \in R : row = S \/ (row \in rows /\ row.env # e)
    BY DEF With, IInv, Tables
  <1>2. \A row \in rows : row.env # e => row \in R
    BY DEF With
  <1>3. /\ \A row \in rows : RowOK(row, queue, ended)
        /\ \A row, other \in rows : row.env = other.env => row = other
    BY DEF IInv, RowsOK
  <1> HIDE DEF R
  <1>4. R \subseteq Row /\ \A row \in R : RowOK(row, queue, ended)
    BY <1>1, <1>3
  <1>5. \A row, other \in R : row.env = other.env => row = other
    BY <1>1, <1>3
  <1>6. \A row \in rows : \E new \in R : new.env = row.env
    BY <1>1, <1>2
  <1>7. \A f : f # e /\ Claimed(f, rows) => Claimed(f, R)
    BY <1>2 DEF Claimed
  <1>8. S.submitted => Claimed(e, R)
    BY <1>1 DEF Claimed
  <1> QED BY <1>4, <1>5, <1>6, <1>7, <1>8 DEF R

(* A request goes on having written to the table. *)
LEMMA RowsMove ==
    ASSUME IInv, NEW r \in Requests, NEW q, Goto(r, q), req[r].pc # "await",
           UNCHANGED <<known, relaying, network, abandoned, now>>,
           rows' \subseteq Row, \A row \in rows' : RowOK(row, queue, ended),
           \A row, other \in rows' : row.env = other.env => row = other,
           \A row \in rows : \E new \in rows' : new.env = row.env,
           \A s \in Requests \ {r} : Claims(req[s]) => Claimed(req[s].env, rows'),
           ReqOK(r, q, relaying, rows', queue, ended, chain, seq, abandoned),
           Claims(q) => \A s \in Requests \ {r} : Claims(req[s]) => req[s].env # q.env
    PROVE  IInv'
  <1>1. /\ known' = known /\ relaying' = relaying /\ chain' = chain /\ purse' = purse
        /\ seq' = seq /\ queue' = queue /\ ended' = ended /\ now' = now
        /\ abandoned' = abandoned
    BY DEF network
  <1>2. q \in Request
    BY DEF ReqOK
  <1>3. req' \in [Requests -> Request] /\ req'[r] = q /\ \A s \in Requests \ {r} : req'[s] = req[s]
    BY <1>2 DEF Goto, IInv, Tables
  <1>4. Tables'
    BY <1>1, <1>3 DEF IInv, Tables
  <1>5. ASSUME NEW s \in Requests
        PROVE  ReqOK(s, req'[s], relaying', rows', queue', ended', chain', seq', abandoned')
    <2>1. CASE s = r
      BY <1>1, <1>3, <2>1
    <2>2. CASE s # r
      <3>1. ReqOK(s, req[s], relaying, rows, queue, ended, chain, seq, abandoned)
        BY DEF IInv, RequestsOK
      <3>2. ReqOK(s, req[s], relaying, rows', queue, ended, chain, seq, abandoned)
        BY <2>2, <3>1 DEF ReqOK
      <3> QED BY <1>1, <1>3, <2>2, <3>2
    <2> QED BY <2>1, <2>2
  <1>6. RequestsOK'
    BY <1>5 DEF RequestsOK
  <1>7. OneClaim'
    <2> SUFFICES ASSUME NEW s \in Requests, NEW t \in Requests, Claims(req'[s]), Claims(req'[t]),
                        req'[s].env = req'[t].env
                 PROVE  s = t
      BY DEF OneClaim
    <2>1. CASE s # r /\ t # r
      BY <1>3, <2>1 DEF IInv, OneClaim
    <2>2. CASE s = r /\ t # r
      BY <1>3, <2>2
    <2>3. CASE s # r /\ t = r
      BY <1>3, <2>3
    <2> QED BY <2>1, <2>2, <2>3
  <1>8. RowsOK' /\ EndsOK'
    BY <1>1 DEF IInv, RowsOK, EndsOK
  <1>9. ASSUME NEW f \in queue
        PROVE  FlightOK(f, seq', abandoned', now', req')
    <2>1. FlightOK(f, seq, abandoned, now, req)
      BY DEF IInv, SentOK
    <2> QED BY <1>1, <1>3, <2>1 DEF FlightOK
  <1>10. SentOK'
    BY <1>1, <1>9 DEF IInv, SentOK
  <1> QED BY <1>4, <1>6, <1>7, <1>8, <1>10 DEF IInv

(* ClaimMemberCall: nobody has the call, and nothing of it was sent. *)
LEMMA ClaimStep ==
    ASSUME IInv, NEW r \in Requests, NEW row \in rows, ClaimMemberCall(r, row)
    PROVE  IInv'
  <1> DEFINE e == row.env
             S == [row EXCEPT !.submitted = TRUE]
             q == [pc |-> "submit", env |-> e]
  <1>1. /\ req[r].pc = "idle" /\ ~row.submitted /\ rows' = With(e, S) /\ Goto(r, q)
        /\ UNCHANGED <<known, relaying, network, abandoned, now>>
    BY DEF ClaimMemberCall, At
  <1>2. row \in Row /\ RowOK(row, queue, ended)
    BY DEF IInv, Tables, RowsOK
  <1>3. S \in Row /\ S.env = e /\ S.submitted /\ S.landed = row.landed /\ S.number = row.number
    BY <1>2 DEF Row
  <1>4. e \in Envelope /\ e.from # Relay /\ ~Sent(e, queue, ended)
    BY <1>1, <1>2 DEF Row, RowOK
  <1> HIDE DEF S
  <1>5. RowOK(S, queue, ended)
    BY <1>2, <1>3 DEF RowOK
  <1> HIDE DEF e
  <1>6. \E old \in rows : old.env = e
    BY DEF e
  <1>7. /\ rows' \subseteq Row /\ \A w \in rows' : RowOK(w, queue, ended)
        /\ \A w, other \in rows' : w.env = other.env => w = other
        /\ \A w \in rows : \E new \in rows' : new.env = w.env
        /\ \A f : f # e /\ Claimed(f, rows) => Claimed(f, rows')
        /\ Claimed(e, rows')
    BY <1>1, <1>3, <1>5, <1>6, Rewritten
  <1>8. ASSUME NEW s \in Requests, Claims(req[s])
        PROVE  req[s].env # e /\ Claimed(req[s].env, rows)
    <2>1. Claimed(req[s].env, rows)
      BY <1>8 DEF IInv, RequestsOK, ReqOK
    <2>2. PICK w \in rows : w.env = req[s].env /\ w.submitted
      BY <2>1 DEF Claimed
    <2>3. w # row
      BY <1>1, <2>2
    <2>4. w.env # row.env
      BY <2>3 DEF IInv, RowsOK
    <2> QED BY <2>1, <2>2, <2>4 DEF e
  <1>9. relaying # r
    <2>1. ReqOK(r, req[r], relaying, rows, queue, ended, chain, seq, abandoned)
      BY DEF IInv, RequestsOK
    <2> QED BY <1>1, <2>1 DEF ReqOK, Relays
  <1>10. ReqOK(r, q, relaying, rows', queue, ended, chain, seq, abandoned)
    BY <1>4, <1>7, <1>9, EnvOK
  <1>11. q.env = e
    OBVIOUS
  <1> HIDE DEF q
  <1>12. /\ \A s \in Requests \ {r} : Claims(req[s]) => Claimed(req[s].env, rows')
         /\ Claims(q) => \A s \in Requests \ {r} : Claims(req[s]) => req[s].env # q.env
    BY <1>7, <1>8, <1>11
  <1> QED BY <1>1, <1>7, <1>10, <1>12, RowsMove

(* ReleaseMemberCall and LandMemberCall: who has the call writes to its row. *)
LEMMA WritingStep ==
    ASSUME IInv, NEW r \in Requests, ReleaseMemberCall(r) \/ LandMemberCall(r)
    PROVE  IInv'
  <1> DEFINE e == req[r].env
  <1>1. /\ req[r].pc \in {"release", "land"} /\ Goto(r, Idle)
        /\ UNCHANGED <<known, relaying, network, abandoned, now>>
    BY DEF ReleaseMemberCall, LandMemberCall, At
  <1>2. /\ req[r] \in Request /\ e \in Envelope
        /\ (relaying = r) <=> Relays(req[r])
        /\ ReqOK(r, req[r], relaying, rows, queue, ended, chain, seq, abandoned)
    BY <1>1, Has
  <1>3. e.from # Relay /\ Claims(req[r]) /\ relaying # r
    BY <1>1, <1>2 DEF ReqOK, Claims, Relays
  <1>4. Claimed(e, rows)
    BY <1>2, <1>3 DEF ReqOK
  <1>5. Idle \in Request /\ Idle.pc = "idle"
    BY DEF Idle, Request
  <1>6. ReqOK(r, Idle, relaying, rows', queue, ended, chain, seq, abandoned) /\ ~Claims(Idle)
    BY <1>3, <1>5, FreeOK
  <1>7. ASSUME NEW s \in Requests \ {r}, Claims(req[s])
        PROVE  req[s].env # e /\ Claimed(req[s].env, rows)
    <2>1. Claimed(req[s].env, rows)
      BY <1>7 DEF IInv, RequestsOK, ReqOK
    <2> QED BY <1>3, <1>7, <2>1 DEF IInv, OneClaim
  <1>8. \E old \in rows : old.env = e
    BY <1>4 DEF Claimed
  <1> HIDE DEF e
  <1>9. ASSUME NEW S \in Row, S.env = e, RowOK(S, queue, ended), rows' = With(e, S)
        PROVE  IInv'
    <2>1. /\ rows' \subseteq Row /\ \A w \in rows' : RowOK(w, queue, ended)
          /\ \A w, other \in rows' : w.env = other.env => w = other
          /\ \A w \in rows : \E new \in rows' : new.env = w.env
          /\ \A f : f # e /\ Claimed(f, rows) => Claimed(f, rows')
      BY <1>8, <1>9, Rewritten
    <2>2. \A s \in Requests \ {r} : Claims(req[s]) => Claimed(req[s].env, rows')
      BY <1>7, <2>1
    <2> QED BY <1>1, <1>6, <2>1, <2>2, RowsMove
  <1>10. CASE ReleaseMemberCall(r)
    <2> DEFINE row == RowOf(e)
    <2>1. row \in rows /\ row.env = e
      BY <1>8 DEF RowOf
    <2>2. rows' = IF row.landed = "no" THEN With(row.env, [row EXCEPT !.submitted = FALSE])
                  ELSE rows
      BY <1>10 DEF ReleaseMemberCall, e
    <2> HIDE DEF row
    <2>3. row \in Row /\ RowOK(row, queue, ended)
      BY <2>1 DEF IInv, Tables, RowsOK
    <2>4. CASE row.landed = "no"
      <3> DEFINE S == [row EXCEPT !.submitted = FALSE]
      <3>1. S \in Row /\ S.env = e /\ S.landed = row.landed /\ S.number = row.number
        BY <2>1, <2>3 DEF Row
      <3>2. ~Sent(e, queue, ended)
        <4>1. req[r].pc = "release"
          BY <1>10 DEF ReleaseMemberCall, At
        <4> QED BY <1>2, <1>3, <4>1 DEF ReqOK, e
      <3>3. rows' = With(e, S)
        BY <2>1, <2>2, <2>4
      <3> HIDE DEF S
      <3>4. RowOK(S, queue, ended)
        BY <1>3, <2>1, <2>3, <3>1, <3>2 DEF RowOK
      <3> QED BY <1>9, <3>1, <3>3, <3>4
    <2>5. CASE row.landed # "no"
      <3>1. rows' = rows
        BY <2>2, <2>5
      <3>2. \A s \in Requests \ {r} : Claims(req[s]) => Claimed(req[s].env, rows')
        BY <1>7, <3>1
      <3>3. /\ rows' \subseteq Row /\ \A w \in rows' : RowOK(w, queue, ended)
            /\ \A w, other \in rows' : w.env = other.env => w = other
            /\ \A w \in rows : \E new \in rows' : new.env = w.env
        BY <3>1 DEF IInv, Tables, RowsOK
      <3> QED BY <1>1, <1>6, <3>2, <3>3, RowsMove
    <2> QED BY <2>4, <2>5
  <1>11. CASE LandMemberCall(r)
    <2> DEFINE S == [env |-> e, submitted |-> TRUE, number |-> req[r].number,
                     landed |-> IF req[r].failed THEN "failed" ELSE "success"]
    <2>1. rows' = With(e, S) /\ req[r].pc = "land"
      BY <1>11 DEF LandMemberCall, At, e
    <2>2. req[r].number \in Nat /\ req[r].failed \in BOOLEAN
      BY <1>2, <2>1, Shapes
    <2>3. S \in Row
      BY <1>2, <2>2 DEF Row
    <2>4. /\ S.env = e /\ S.submitted /\ S.number = req[r].number
          /\ S.landed = "failed" => req[r].failed
      OBVIOUS
    <2> HIDE DEF S
    <2>5. /\ \E x \in ended : x.env = e
          /\ req[r].failed => Failed(e, ended)
          /\ req[r].number # 0 => Numbers(e, req[r].number, ended)
      BY <1>2, <2>1 DEF ReqOK, e
    <2>6. RowOK(S, queue, ended)
      BY <1>3, <2>4, <2>5 DEF RowOK
    <2> QED BY <1>9, <2>1, <2>3, <2>4, <2>6
  <1> QED BY <1>10, <1>11

(* prepareMemberCall: a row of its own for an envelope, or the row there is. *)
LEMMA PrepareStep ==
    ASSUME IInv, NEW r \in Requests, NEW m \in Members, NEW call \in Call,
           prepareMemberCall(r, m, call)
    PROVE  IInv'
  <1>1. req[r].pc = "idle" /\ req' = req /\ UNCHANGED <<known, relaying, network, abandoned, now>>
    BY DEF prepareMemberCall, At
  <1>2. PICK e \in PrepareCall(m, call, Lifetime) : SaveMemberCall(e)
    BY DEF prepareMemberCall
  <1>3. e \in Envelope /\ e.from = m
    BY Prepared, CallsAssumption DEF IInv
  <1>4. e.from # Relay
    BY <1>3, CallsAssumption
  <1> DEFINE S == [env |-> e, submitted |-> FALSE, landed |-> "no", number |-> 0]
             q == req[r]
  <1>5. S \in Row /\ S.env = e /\ ~S.submitted /\ S.landed = "no" /\ S.number = 0
    BY <1>3 DEF Row
  <1>6. \/ rows' = rows
        \/ (\A row \in rows : row.env # e) /\ rows' = rows \cup {S}
    BY <1>2 DEF SaveMemberCall
  <1> HIDE DEF S
  <1>7. /\ rows \subseteq Row /\ \A row \in rows : RowOK(row, queue, ended)
        /\ \A row, other \in rows : row.env = other.env => row = other
    BY DEF IInv, Tables, RowsOK
  <1>8. (\A row \in rows : row.env # e) => RowOK(S, queue, ended)
    <2> SUFFICES ASSUME \A row \in rows : row.env # e
                 PROVE  RowOK(S, queue, ended)
      OBVIOUS
    <2>1. ~Sent(e, queue, ended)
      BY <1>3, <1>4 DEF IInv, SentOK
    <2> QED BY <1>4, <1>5, <2>1 DEF RowOK
  <1>9. /\ rows' \subseteq Row /\ \A row \in rows' : RowOK(row, queue, ended)
        /\ \A row, other \in rows' : row.env = other.env => row = other
    BY <1>5, <1>6, <1>7, <1>8
  <1>10. rows \subseteq rows'
    BY <1>6
  <1>11. \A f : Claimed(f, rows) => Claimed(f, rows')
    BY <1>10 DEF Claimed
  <1>12. \A s \in Requests : ReqOK(s, req[s], relaying, rows, queue, ended, chain, seq, abandoned)
    BY DEF IInv, RequestsOK
  <1>13. \A s \in Requests \ {r} : Claims(req[s]) => Claimed(req[s].env, rows')
    BY <1>11, <1>12 DEF ReqOK
  <1>14. q \in Request /\ q.pc = "idle" /\ relaying # r
    BY <1>1, <1>12 DEF ReqOK, Relays
  <1>15. Goto(r, q)
    BY <1>1 DEF Goto, IInv, Tables
  <1> HIDE DEF q
  <1>16. ReqOK(r, q, relaying, rows', queue, ended, chain, seq, abandoned) /\ ~Claims(q)
    BY <1>14, FreeOK
  <1>17. \A row \in rows : \E new \in rows' : new.env = row.env
    BY <1>10
  <1> QED BY <1>1, <1>9, <1>13, <1>15, <1>16, <1>17, RowsMove

(* The commands, each of which prepares a call. *)
LEMMA CommandStep ==
    ASSUME IInv, NEW r \in Requests, NEW m \in Members, NEW c \in Addressable,
           daoTreasuryCommands(r, m, c)
    PROVE  IInv'
  <1>1. c \in Contracts
    BY DEF Addressable, addressed, IInv, Tables
  <1>2. ASSUME NEW id \in DOMAIN chain[c].proposals
        PROVE  id \in Nat
    <2>1. chain[c].proposals \in Seq(Proposal)
      BY <1>1 DEF IInv, Tables, Contract
    <2> QED BY <1>2, <2>1
  <1>3. ASSUME NEW id \in DOMAIN chain[c].proposals, NEW yes \in BOOLEAN,
               VoteOnChain(r, m, c, id, yes)
        PROVE  IInv'
    <2>1. [Numbered(c, "vote", id) EXCEPT !.yes = yes] \in Call
      BY <1>1, <1>2, CallType DEF Function
    <2> QED BY <1>3, <2>1, PrepareStep DEF VoteOnChain
  <1>4. ASSUME NEW id \in DOMAIN chain[c].proposals, WithdrawOnChain(r, m, c, id)
        PROVE  IInv'
    <2>1. Numbered(c, "cancel", id) \in Call
      BY <1>1, <1>2, CallType DEF Function
    <2> QED BY <1>4, <2>1, PrepareStep DEF WithdrawOnChain
  <1>5. CASE SpendOnChain(r, m, c)
    <2>1. Bare(c, "spend") \in Call
      BY <1>1, CallType DEF Function
    <2> QED BY <1>5, <2>1, PrepareStep DEF SpendOnChain
  <1>6. CASE DepositOnChain(r, m, c)
    <2>1. Bare(c, "transfer") \in Call
      BY <1>1, CallType DEF Function
    <2> QED BY <1>6, <2>1, PrepareStep DEF DepositOnChain
  <1>7. ASSUME NEW a \in Action, NEW note \in Notes, ProposeOnChain(r, m, c, a, note)
        PROVE  IInv'
    <2>1. [Bare(c, "propose") EXCEPT !.action = a, !.note = note] \in Call
      BY <1>1, CallType DEF Function
    <2> QED BY <1>7, <2>1, PrepareStep DEF ProposeOnChain
  <1>8. Asked(c) \subseteq Action
    BY CallsAssumption DEF Asked
  <1>9. CASE \E a \in Asked(c), note \in Notes : putToVoters(r, m, c, a, note)
    BY <1>7, <1>8, <1>9 DEF putToVoters
  <1>10. CASE \E id \in DOMAIN chain[c].proposals :
                \/ vote(r, m, c, id, TRUE) \/ reject(r, m, c, id) \/ withdraw(r, m, c, id)
    <2>1. PICK id \in DOMAIN chain[c].proposals :
            \/ VoteOnChain(r, m, c, id, TRUE) \/ VoteOnChain(r, m, c, id, FALSE)
            \/ WithdrawOnChain(r, m, c, id)
      BY <1>10 DEF vote, reject, withdraw
    <2>2. \A yes \in BOOLEAN : VoteOnChain(r, m, c, id, yes) => IInv'
      BY <1>3
    <2>3. VoteOnChain(r, m, c, id, TRUE) => IInv'
      BY <2>2
    <2>4. VoteOnChain(r, m, c, id, FALSE) => IInv'
      BY <2>2
    <2> QED BY <1>4, <2>1, <2>3, <2>4
  <1> QED BY <1>5, <1>6, <1>9, <1>10 DEF daoTreasuryCommands, deposit, spend

--------------------------------------------------------------------------------
(* Steps of the network. *)

(* Send: from here on what was claimed may land. *)
LEMMA SendStep ==
    ASSUME IInv, NEW r \in Requests, Send(r)
    PROVE  IInv'
  <1> DEFINE e == req[r].env
             q == [pc |-> "await", env |-> e]
  <1>1. /\ req[r].pc = "submit" /\ Step(r, "await")
        /\ known' = known /\ rows' = rows /\ relaying' = relaying /\ chain' = chain
        /\ purse' = purse /\ seq' = seq /\ ended' = ended /\ abandoned' = abandoned /\ now' = now
        /\ queue' = queue \cup {e} \/ queue' = queue
    BY DEF Send, At
  <1>2. /\ e \in Envelope
        /\ (relaying = r) <=> Relays(req[r])
        /\ ReqOK(r, req[r], relaying, rows, queue, ended, chain, seq, abandoned)
    BY <1>1, Has
  <1>3. Goto(r, q)
    BY <1>1, Stepped
  <1>4. e.from # Relay => Claims(req[r]) /\ Claimed(e, rows)
    BY <1>1, <1>2 DEF ReqOK, Claims
  <1>5. (relaying = r) <=> (e.from = Relay)
    BY <1>1, <1>2 DEF Relays
  <1>6. \A s \in Requests : ReqOK(s, req[s], relaying, rows, queue, ended, chain, seq, abandoned)
    BY DEF IInv, RequestsOK
  <1>7. ASSUME NEW s \in Requests \ {r}, Claims(req[s])
        PROVE  req[s].env # e
    <2>1. CASE e.from = Relay
      BY <1>7, <2>1 DEF Claims
    <2>2. CASE e.from # Relay
      BY <1>4, <1>7, <2>2 DEF IInv, OneClaim
    <2> QED BY <2>1, <2>2
  <1>8. q.pc = "await" /\ q.env = e
    OBVIOUS
  <1>9. Claims(q) => Claims(req[r])
    BY <1>4, <1>8 DEF Claims
  <1>10. queue \subseteq queue' /\ queue' \subseteq queue \cup {e}
    BY <1>1
  <1>11. e = req[r].env
    OBVIOUS
  <1> HIDE DEF e
  <1>12. ReqOK(r, q, relaying, rows, queue', ended, chain, seq, abandoned)
    BY <1>2, <1>4, <1>5, EnvOK
  <1> HIDE DEF q
  <1>13. req' \in [Requests -> Request] /\ req'[r] = q
         /\ \A s \in Requests \ {r} : req'[s] = req[s]
    <2>1. q \in Request
      BY <1>12 DEF ReqOK
    <2> QED BY <1>3, <2>1 DEF Goto, IInv, Tables
  <1>14. Tables'
    BY <1>1, <1>2, <1>13 DEF IInv, Tables
  <1>15. ASSUME NEW s \in Requests
         PROVE  ReqOK(s, req'[s], relaying', rows', queue', ended', chain', seq', abandoned')
    <2>1. CASE s = r
      BY <1>1, <1>12, <1>13, <2>1
    <2>2. CASE s # r
      <3>1. Claims(req[s]) => req[s].env # e
        BY <1>7, <2>2
      <3>2. Claims(req[s]) /\ ~Sent(req[s].env, queue, ended) => ~Sent(req[s].env, queue', ended)
        BY <1>10, <3>1 DEF Sent
      <3>3. ReqOK(s, req[s], relaying, rows, queue, ended, chain, seq, abandoned)
        BY <1>6
      <3>4. ReqOK(s, req[s], relaying, rows, queue', ended, chain, seq, abandoned)
        BY <3>2, <3>3 DEF ReqOK
      <3> QED BY <1>1, <1>13, <2>2, <3>4
    <2> QED BY <2>1, <2>2
  <1>16. RequestsOK'
    BY <1>15 DEF RequestsOK
  <1>17. OneClaim'
    <2> SUFFICES ASSUME NEW s \in Requests, NEW t \in Requests, Claims(req'[s]), Claims(req'[t]),
                        req'[s].env = req'[t].env
                 PROVE  s = t
      BY DEF OneClaim
    <2>1. ASSUME NEW u \in Requests, Claims(req'[u])
          PROVE  Claims(req[u]) /\ req[u].env = req'[u].env
      BY <1>8, <1>9, <1>11, <1>13, <2>1
    <2> QED BY <2>1 DEF IInv, OneClaim
  <1>18. ASSUME NEW row \in rows
         PROVE  RowOK(row, queue', ended)
    <2>1. RowOK(row, queue, ended)
      BY DEF IInv, RowsOK
    <2>2. ~row.submitted => row.env # e
      <3> SUFFICES ASSUME ~row.submitted, row.env = e PROVE FALSE
        OBVIOUS
      <3>1. e.from # Relay
        BY <2>1 DEF RowOK
      <3>2. PICK w \in rows : w.env = e /\ w.submitted
        BY <1>4, <3>1 DEF Claimed
      <3> QED BY <3>2 DEF IInv, RowsOK
    <2>3. ~row.submitted => ~Sent(row.env, queue', ended)
      BY <1>10, <2>1, <2>2 DEF RowOK, Sent
    <2> QED BY <2>1, <2>3 DEF RowOK
  <1>19. RowsOK' /\ EndsOK'
    BY <1>1, <1>18 DEF IInv, RowsOK, EndsOK
  <1>20. ASSUME NEW f \in Envelope, Sent(f, queue', ended), f.from # Relay
         PROVE  \E row \in rows : row.env = f
    <2>1. CASE f = e
      BY <1>4, <1>20, <2>1 DEF Claimed
    <2>2. CASE f # e
      <3>1. Sent(f, queue, ended)
        BY <1>10, <1>20, <2>2 DEF Sent
      <3> QED BY <1>20, <3>1 DEF IInv, SentOK
    <2> QED BY <2>1, <2>2
  <1>21. ASSUME NEW f \in queue'
         PROVE  FlightOK(f, seq, abandoned, now, req')
    <2>1. CASE f = e
      BY <1>8, <1>13, <2>1 DEF FlightOK
    <2>2. CASE f # e
      <3>1. FlightOK(f, seq, abandoned, now, req)
        BY <1>10, <2>2 DEF IInv, SentOK
      <3>2. ASSUME NEW s \in Requests, req[s].pc = "await"
            PROVE  req'[s] = req[s]
        BY <1>1, <1>13, <3>2
      <3> QED BY <3>1, <3>2 DEF FlightOK
    <2> QED BY <2>1, <2>2
  <1>22. SentOK'
    BY <1>1, <1>20, <1>21 DEF SentOK
  <1> QED BY <1>14, <1>16, <1>17, <1>19, <1>22 DEF IInv

(* Elsewhere and Tick: sequence numbers of wallets and the clock only grow. *)
LEMMA WorldStep ==
    ASSUME IInv, (\E m \in Members : Elsewhere(m)) \/ Tick
    PROVE  IInv'
  <1>1. /\ known' = known /\ rows' = rows /\ relaying' = relaying /\ req' = req /\ chain' = chain
        /\ purse' = purse /\ queue' = queue /\ ended' = ended /\ abandoned' = abandoned
    BY DEF Elsewhere, Tick, network
  <1>2. /\ seq \in [Members \cup {Relay} -> Nat] /\ now \in Nat
        /\ queue \subseteq Envelope /\ ended \subseteq [env: Envelope, ok: BOOLEAN, number: Nat]
    BY DEF IInv, Tables
  <1>3. /\ seq' \in [Members \cup {Relay} -> Nat] /\ seq'[Relay] = seq[Relay]
        /\ \A a \in Members \cup {Relay} : seq[a] <= seq'[a]
        /\ now' \in Nat /\ now <= now'
    <2>1. CASE Tick
      BY <1>2, <2>1 DEF Tick, network
    <2>2. ASSUME NEW m \in Members, Elsewhere(m)
          PROVE  /\ seq' \in [Members \cup {Relay} -> Nat] /\ seq'[Relay] = seq[Relay]
                 /\ \A a \in Members \cup {Relay} : seq[a] <= seq'[a]
                 /\ now' = now
      <3>1. seq' = [seq EXCEPT ![m] = @ + 1] /\ now' = now
        BY <2>2 DEF Elsewhere
      <3> QED BY <1>2, <3>1, CallsAssumption
    <2> QED BY <1>2, <2>1, <2>2
  <1>4. Tables'
    BY <1>1, <1>3 DEF IInv, Tables
  <1>5. RequestsOK'
    <2>1. \A s \in Requests :
            ReqOK(s, req[s], relaying, rows, queue, ended, chain, seq, abandoned)
      BY DEF IInv, RequestsOK
    <2>2. \A s \in Requests :
            ReqOK(s, req[s], relaying, rows, queue, ended, chain, seq', abandoned)
      BY <1>3, <2>1 DEF ReqOK
    <2> QED BY <1>1, <2>2 DEF RequestsOK
  <1>6. OneClaim' /\ RowsOK'
    BY <1>1 DEF IInv, OneClaim, RowsOK
  <1>7. ASSUME NEW f \in queue
        PROVE  FlightOK(f, seq', abandoned, now', req)
    <2>1. FlightOK(f, seq, abandoned, now, req)
      BY DEF IInv, SentOK
    <2>2. f.expires \in Nat
      BY <1>2 DEF Envelope
    <2>3. now > f.expires => now' > f.expires
      BY <1>2, <1>3, <2>2
    <2> QED BY <1>3, <2>1, <2>3 DEF FlightOK
  <1>8. SentOK'
    BY <1>1, <1>7 DEF IInv, SentOK
  <1>9. ASSUME NEW x \in ended
        PROVE  EndOK(x, chain, seq')
    <2>1. EndOK(x, chain, seq)
      BY DEF IInv, EndsOK
    <2>2. x.env.from \in Members \cup {Relay} /\ x.env.seq \in Nat
      BY <1>2 DEF Envelope
    <2>3. x.env.seq <= seq[x.env.from]
      BY <2>1 DEF EndOK
    <2>4. x.env.seq <= seq'[x.env.from]
      <3>1. seq[x.env.from] <= seq'[x.env.from] /\ seq[x.env.from] \in Nat
            /\ seq'[x.env.from] \in Nat
        BY <1>2, <1>3, <2>2
      <3> QED BY <2>2, <2>3, <3>1
    <2> QED BY <2>1, <2>4 DEF EndOK
  <1>10. EndsOK'
    BY <1>1, <1>9 DEF IInv, EndsOK
  <1> QED BY <1>4, <1>5, <1>6, <1>8, <1>10 DEF IInv

(* What is in a ledger stays true of the contracts as they grow. *)
LEMMA EndLasts ==
    ASSUME NEW x, x.env.call \in Call, x.env.seq \in Nat, x.env.from \in Members \cup {Relay},
           NEW K, NEW Kn, \A c \in Contracts : Grows(K[c].proposals, Kn[c].proposals),
           NEW S \in [Members \cup {Relay} -> Nat], NEW Sn \in [Members \cup {Relay} -> Nat],
           \A a \in Members \cup {Relay} : S[a] <= Sn[a], EndOK(x, K, S)
    PROVE  EndOK(x, Kn, Sn)
  <1> DEFINE c == x.env.call.contract
  <1>1. c \in Contracts
    BY DEF Call
  <1>2. Grows(K[c].proposals, Kn[c].proposals)
    BY <1>1
  <1>3. x.env.seq <= Sn[x.env.from]
    <2>1. x.env.seq <= S[x.env.from]
      BY DEF EndOK
    <2>2. S[x.env.from] <= Sn[x.env.from] /\ S[x.env.from] \in Nat /\ Sn[x.env.from] \in Nat
      OBVIOUS
    <2> QED BY <2>1, <2>2
  <1>4. x.number # 0 =>
          /\ x.number \in DOMAIN Kn[c].proposals
          /\ Kn[c].proposals[x.number].proposer = x.env.from
          /\ Kn[c].proposals[x.number].memo = x.env.call.note
    BY <1>2 DEF EndOK, Grows
  <1>5. x.ok /\ x.env.call.fn = "execute" => Executed(x.env.call, Kn)
    BY <1>2 DEF EndOK, Executed, Grows
  <1> QED BY <1>3, <1>4, <1>5 DEF EndOK

(* An envelope leaves the queue for a ledger, where its sequence number says.   *)
LEMMA IncludedStep ==
    ASSUME IInv, NEW e \in queue, Include(e), Valid(e)
    PROVE  IInv'
  <1> DEFINE c == e.call.contract
             ok == Accepts(e.from, e.call)
             number == IF ok /\ e.call.fn = "propose" THEN Len(chain[c].proposals) + 1 ELSE 0
             x == [env |-> e, ok |-> ok, number |-> number]
  <1>1. /\ queue' = queue \ {e} /\ seq' = [seq EXCEPT ![e.from] = e.seq]
        /\ ended' = ended \cup {x}
        /\ chain' = IF ok THEN [chain EXCEPT ![c] = Took(e.from, e.call)] ELSE chain
        /\ purse' = IF ok /\ e.call.fn = "transfer" THEN [purse EXCEPT ![e.from] = @ - 1]
                    ELSE purse
        /\ known' = known /\ rows' = rows /\ relaying' = relaying /\ req' = req
        /\ abandoned' = abandoned /\ now' = now
    BY DEF Include
  <1>2. /\ Tables /\ e \in Envelope
        /\ seq \in [Members \cup {Relay} -> Nat] /\ chain \in [Contracts -> Contract]
        /\ queue \subseteq Envelope /\ ended \subseteq [env: Envelope, ok: BOOLEAN, number: Nat]
        /\ purse \in [Members -> Nat] /\ now \in Nat
    BY DEF IInv, Tables
  <1>3. /\ e.from \in Members \cup {Relay} /\ e.call \in Call /\ e.seq \in Nat /\ c \in Contracts
        /\ e.expires \in Nat
    BY <1>2 DEF Envelope, Call
  <1>4. seq[e.from] + 1 = e.seq /\ now <= e.expires
    BY DEF Valid
  <1>5. chain[c] \in Contract /\ chain[c].proposals \in Seq(Proposal)
    BY <1>2, <1>3 DEF Contract
  <1>6. ok \in BOOLEAN
    <2>1. e.call.fn \in Function /\ chain[c].made \in BOOLEAN
      BY <1>3, <1>5 DEF Call, Contract
    <2>2. CASE e.call.fn \in {"extend", "state"}
      BY <2>1, <2>2 DEF Accepts
    <2>3. CASE e.call.fn = "propose"
      BY <2>3 DEF Accepts
    <2>4. CASE e.call.fn \in {"vote", "cancel"}
      BY <2>4 DEF Accepts
    <2>5. CASE e.call.fn \in {"spend", "transfer"}
      BY <2>5 DEF Accepts
    <2>6. CASE e.call.fn \in {"create", "tally"}
      BY <2>6 DEF Accepts
    <2>7. CASE e.call.fn = "execute"
      BY <2>7 DEF Accepts
    <2> QED BY <2>1, <2>2, <2>4, <2>3, <2>5, <2>6, <2>7 DEF Function
  <1>7. ok => /\ Took(e.from, e.call) \in Contract
              /\ Grows(chain[c].proposals, Took(e.from, e.call).proposals)
              /\ e.call.fn = "execute" =>
                   /\ e.call.id \in DOMAIN Took(e.from, e.call).proposals
                   /\ Took(e.from, e.call).proposals[e.call.id].status = "Executed"
              /\ e.call.fn = "propose" =>
                   /\ Len(chain[c].proposals) + 1 \in DOMAIN Took(e.from, e.call).proposals
                   /\ Took(e.from, e.call).proposals[Len(chain[c].proposals) + 1].proposer = e.from
                   /\ Took(e.from, e.call).proposals[Len(chain[c].proposals) + 1].memo = e.call.note
    BY <1>2, <1>3, TookType
  <1>8. /\ chain' \in [Contracts -> Contract]
        /\ ok => chain'[c] = Took(e.from, e.call)
        /\ \A k \in Contracts : Grows(chain[k].proposals, chain'[k].proposals)
    <2>1. \A k \in Contracts : Grows(chain[k].proposals, chain[k].proposals)
      BY <1>2, Still
    <2>2. CASE ok
      <3>1. chain' = [chain EXCEPT ![c] = Took(e.from, e.call)]
        BY <1>1, <2>2
      <3> HIDE DEF ok, c
      <3> QED BY <1>2, <1>3, <1>7, <2>1, <2>2, <3>1
    <2>3. CASE ~ok
      BY <1>1, <1>2, <2>1, <2>3
    <2> QED BY <2>2, <2>3
  <1>9. /\ number \in Nat
        /\ number # 0 => ok /\ e.call.fn = "propose" /\ number = Len(chain[c].proposals) + 1
    BY <1>5
  <1>10. x \in [env: Envelope, ok: BOOLEAN, number: Nat]
         /\ x.env = e /\ x.ok = ok /\ x.number = number
    BY <1>2, <1>6, <1>9
  <1>11. purse' \in [Members -> Nat]
    <2>1. ok /\ e.call.fn = "transfer" => e.from \in Members /\ purse[e.from] > 0
      BY DEF Accepts
    <2>2. CASE ok /\ e.call.fn = "transfer"
      <3> DEFINE v == purse[e.from] - 1
      <3>1. purse' = [purse EXCEPT ![e.from] = v]
        BY <1>1, <2>2
      <3>2. v \in Nat
        BY <1>2, <2>1, <2>2
      <3> HIDE DEF v
      <3> QED BY <1>2, <3>1, <3>2
    <2>3. CASE ~(ok /\ e.call.fn = "transfer")
      BY <1>1, <1>2, <2>3
    <2> QED BY <2>2, <2>3
  <1> HIDE DEF x, number, ok
  <1>12. /\ seq' \in [Members \cup {Relay} -> Nat] /\ seq'[e.from] = e.seq
         /\ \A a \in Members \cup {Relay} : a # e.from => seq'[a] = seq[a]
         /\ \A a \in Members \cup {Relay} : seq[a] <= seq'[a]
    BY <1>1, <1>2, <1>3, <1>4
  <1>13. Tables'
    BY <1>1, <1>2, <1>8, <1>10, <1>11, <1>12 DEF Tables
  <1>14. \A f : Sent(f, queue', ended') => Sent(f, queue, ended)
    BY <1>1, <1>10 DEF Sent
  <1>15. \A s \in Requests : ReqOK(s, req[s], relaying, rows, queue, ended, chain, seq, abandoned)
    BY DEF IInv, RequestsOK
  <1>16. ASSUME NEW s \in Requests, Relays(req[s]), req[s].pc = "submit", e.from = Relay
         PROVE  e.seq \in abandoned
    <2>1. \/ e.seq \in abandoned \/ e.seq <= seq[Relay] \/ now > e.expires
          \/ \E t \in Requests : req[t].pc = "await" /\ req[t].env = e
      BY <1>16 DEF IInv, SentOK, FlightOK
    <2>2. ~(e.seq <= seq[Relay]) /\ ~(now > e.expires)
      BY <1>2, <1>3, <1>4, <1>16
    <2>3. ASSUME NEW t \in Requests, req[t].pc = "await", req[t].env = e
          PROVE  FALSE
      <3>1. Relays(req[t])
        BY <1>16, <2>3 DEF Relays
      <3>2. relaying = t /\ relaying = s
        BY <1>15, <1>16, <3>1 DEF ReqOK
      <3> QED BY <1>16, <2>3, <3>2
    <2> QED BY <2>1, <2>2, <2>3
  <1>17. ASSUME NEW s \in Requests
         PROVE  ReqOK(s, req[s], relaying, rows, queue', ended', chain', seq', abandoned)
    <2>1. ReqOK(s, req[s], relaying, rows, queue, ended, chain, seq, abandoned)
      BY <1>15
    <2>2. ended \subseteq ended'
      BY <1>1
    <2>3. Relays(req[s]) /\ req[s].pc = "submit"
          /\ (req[s].env.seq = seq[Relay] + 1 \/ req[s].env.seq \in abandoned)
            => req[s].env.seq = seq'[Relay] + 1 \/ req[s].env.seq \in abandoned
      <3>1. CASE e.from # Relay
        <4>1. seq'[Relay] = seq[Relay]
          BY <1>12, <3>1
        <4> QED BY <4>1
      <3>2. CASE e.from = Relay
        <4>1. seq[Relay] + 1 = e.seq
          BY <1>4, <3>2
        <4> QED BY <1>16, <3>2, <4>1
      <3> QED BY <3>1, <3>2
    <2>4. Claims(req[s]) /\ req[s].pc \in {"submit", "release"}
          /\ ~Sent(req[s].env, queue, ended) => ~Sent(req[s].env, queue', ended')
      BY <1>14
    <2>5. /\ Claims(req[s]) /\ Claimed(req[s].env, rows) => Claimed(req[s].env, rows)
          /\ (relaying = s) <=> (relaying = s)
      OBVIOUS
    <2> QED BY <2>1, <2>2, <2>3, <1>8, <2>4, <2>5, Lasts
  <1>18. RequestsOK' /\ OneClaim'
    BY <1>1, <1>17 DEF IInv, RequestsOK, OneClaim
  <1>19. RowsOK'
    <2>1. ASSUME NEW row \in rows
          PROVE  RowOK(row, queue', ended')
      <3>1. RowOK(row, queue, ended) /\ ended \subseteq ended'
        BY <1>1 DEF IInv, RowsOK
      <3>2. ~row.submitted => ~Sent(row.env, queue', ended')
        BY <1>14, <3>1 DEF RowOK
      <3> QED BY <3>1, <3>2 DEF RowOK, Failed, Numbers
    <2> QED BY <1>1, <2>1 DEF IInv, RowsOK
  <1>20. SentOK'
    <2>1. ASSUME NEW f \in queue'
          PROVE  FlightOK(f, seq', abandoned, now, req)
      <3>1. FlightOK(f, seq, abandoned, now, req) /\ f \in Envelope
        BY <1>1, <1>2 DEF IInv, SentOK
      <3>2. f.seq \in Nat /\ seq[Relay] \in Nat /\ seq'[Relay] \in Nat /\ seq[Relay] <= seq'[Relay]
        BY <1>2, <1>12, <3>1 DEF Envelope
      <3>3. f.seq <= seq[Relay] => f.seq <= seq'[Relay]
        BY <3>2
      <3> QED BY <3>1, <3>3 DEF FlightOK
    <2> QED BY <1>1, <1>14, <2>1 DEF IInv, SentOK
  <1>21. EndOK(x, chain', seq')
    <2>1. x.env.seq <= seq'[x.env.from]
      BY <1>3, <1>10, <1>12
    <2>2. x.number # 0 =>
            /\ x.number \in DOMAIN chain'[c].proposals
            /\ chain'[c].proposals[x.number].proposer = e.from
            /\ chain'[c].proposals[x.number].memo = e.call.note
      BY <1>7, <1>8, <1>9, <1>10
    <2>3. x.ok /\ e.call.fn = "execute" => Executed(e.call, chain')
      BY <1>7, <1>8, <1>10 DEF Executed
    <2> QED BY <1>10, <2>1, <2>2, <2>3 DEF EndOK
  <1>22. ASSUME NEW y \in ended
         PROVE  /\ EndOK(y, chain', seq')
                /\ y.number # 0 /\ y.env.call.contract = c => y.number # number
    <2>1. EndOK(y, chain, seq) /\ y.env \in Envelope
      BY <1>2 DEF IInv, EndsOK
    <2>2. y.env.call \in Call /\ y.env.seq \in Nat /\ y.env.from \in Members \cup {Relay}
      BY <2>1 DEF Envelope
    <2>3. EndOK(y, chain', seq')
      BY <1>2, <1>8, <1>12, <2>1, <2>2, EndLasts
    <2>4. ASSUME y.number # 0, y.env.call.contract = c
          PROVE  y.number # number
      <3>1. y.number \in DOMAIN chain[c].proposals
        BY <2>1, <2>4 DEF EndOK
      <3>2. Len(chain[c].proposals) + 1 \notin DOMAIN chain[c].proposals
        BY <1>5
      <3> QED BY <1>9, <2>4, <3>1, <3>2
    <2> QED BY <2>3, <2>4
  <1>23. EndsOK'
    <2>1. \A y \in ended' : EndOK(y, chain', seq')
      BY <1>1, <1>21, <1>22
    <2>2. ASSUME NEW y \in ended', NEW z \in ended', y.number # 0, y.number = z.number,
                 y.env.call.contract = z.env.call.contract
          PROVE  y.env = z.env
      <3>1. CASE y \in ended /\ z \in ended
        BY <2>2, <3>1 DEF IInv, EndsOK
      <3>2. CASE y = x /\ z \in ended
        BY <1>10, <1>22, <2>2, <3>2
      <3>3. CASE y \in ended /\ z = x
        BY <1>10, <1>22, <2>2, <3>3
      <3> QED BY <1>1, <3>1, <3>2, <3>3
    <2> QED BY <2>1, <2>2 DEF EndsOK
  <1> QED BY <1>13, <1>18, <1>19, <1>20, <1>23 DEF IInv

(* Include: or it has come too late, and is dropped. *)
LEMMA IncludeStep ==
    ASSUME IInv, NEW e \in queue, Include(e)
    PROVE  IInv'
  <1>1. CASE Valid(e)
    BY <1>1, IncludedStep
  <1>2. CASE ~Valid(e)
    <2>1. /\ queue' = queue \ {e} /\ seq' = seq /\ ended' = ended /\ chain' = chain
          /\ purse' = purse /\ known' = known /\ rows' = rows /\ relaying' = relaying
          /\ req' = req /\ abandoned' = abandoned /\ now' = now
      BY <1>2 DEF Include
    <2>2. Tables'
      BY <2>1 DEF IInv, Tables
    <2>3. \A f : Sent(f, queue', ended) => Sent(f, queue, ended)
      BY <2>1 DEF Sent
    <2>4. ASSUME NEW s \in Requests
          PROVE  ReqOK(s, req[s], relaying, rows, queue', ended, chain, seq, abandoned)
      <3>1. ReqOK(s, req[s], relaying, rows, queue, ended, chain, seq, abandoned)
        BY DEF IInv, RequestsOK
      <3> QED BY <2>3, <3>1 DEF ReqOK
    <2>5. ASSUME NEW row \in rows
          PROVE  RowOK(row, queue', ended)
      <3>1. RowOK(row, queue, ended)
        BY DEF IInv, RowsOK
      <3> QED BY <2>3, <3>1 DEF RowOK
    <2>6. RequestsOK' /\ RowsOK'
      BY <2>1, <2>4, <2>5 DEF IInv, RequestsOK, RowsOK
    <2>7. SentOK' /\ OneClaim' /\ EndsOK'
      BY <2>1, <2>3 DEF IInv, SentOK, OneClaim, EndsOK
    <2> QED BY <2>2, <2>6, <2>7 DEF IInv
  <1> QED BY <1>1, <1>2

--------------------------------------------------------------------------------
(* The invariant, and what follows from it. *)

(* At first nothing is recorded, asked for or sent. *)
LEMMA InitIInv == Init => IInv
  <1> SUFFICES ASSUME Init PROVE IInv
    OBVIOUS
  <1>1. /\ known = {} /\ rows = {} /\ relaying = None /\ queue = {} /\ ended = {}
        /\ abandoned = {} /\ now = 0 /\ purse = Purses /\ chain \in [Contracts -> Histories]
        /\ req = [r \in Requests |-> Idle] /\ seq = [a \in Members \cup {Relay} |-> 0]
    BY DEF Init
  <1>2. Idle \in Request /\ Idle.pc = "idle"
    BY DEF Idle, Request
  <1>3. \A r \in Requests : req[r] \in Request /\ req[r].pc = "idle"
    BY <1>1, <1>2
  <1>4. Tables
    BY <1>1, <1>2, CallsAssumption DEF Tables
  <1>5. \A r \in Requests :
          /\ ReqOK(r, req[r], relaying, rows, queue, ended, chain, seq, abandoned)
          /\ ~Claims(req[r])
    BY <1>1, <1>3, FreeOK, CallsAssumption
  <1>6. RequestsOK /\ OneClaim
    BY <1>5 DEF RequestsOK, OneClaim
  <1>7. RowsOK /\ SentOK /\ EndsOK
    BY <1>1 DEF RowsOK, SentOK, EndsOK, Sent
  <1> QED BY <1>4, <1>6, <1>7 DEF IInv

(* Every step keeps it. *)
LEMMA NextIInv == IInv /\ [Next]_vars => IInv'
  <1> SUFFICES ASSUME IInv, [Next]_vars PROVE IInv'
    OBVIOUS
  <1>1. ASSUME NEW r \in Requests, NEW m \in Members, NEW c \in Contracts,
               createTreasury(r, m, c) \/ adoptTreasury(r, m, c)
        PROVE  IInv'
    BY <1>1, RelayingStep, KnownStep
  <1>2. ASSUME NEW r \in Requests, NEW m \in Members, NEW c \in Addressable,
               daoTreasuryCommands(r, m, c)
        PROVE  IInv'
    BY <1>2, CommandStep
  <1>3. ASSUME NEW r \in Requests, NEW row \in rows, handleCallSubmit(r, row.env.from, row, row.env)
        PROVE  IInv'
    BY <1>3, ClaimStep DEF handleCallSubmit
  <1>4. ASSUME NEW r \in Requests,
               \/ ReleaseMemberCall(r) \/ LandMemberCall(r)
               \/ Send(r) \/ FeeBumpSoroban(r) \/ BadSequence(r) \/ TurnedAway(r)
               \/ Found(r) \/ LookedUp(r) \/ Expired(r) \/ GaveUp(r) \/ Quit(r)
        PROVE  IInv'
    BY <1>4, WritingStep, SendStep, TurnedStep, EndingStep, FoundStep
  <1>5. ASSUME NEW r \in Requests,
               \/ AddContractTreasury(r) \/ KeepContractsAlive(r)
               \/ SettleOnChain(r) \/ ExecuteOnChain(r)
        PROVE  IInv'
    BY <1>5, KnownStep, RelayingStep
  <1>6. ASSUME NEW r \in Requests,
               \/ \E c \in Addressable :
                    \E id \in DOMAIN chain[c].proposals : executeOnChain(r, c, id)
               \/ Refused(r) \/ LookAgain(r) \/ Reply(r)
        PROVE  IInv'
    BY <1>6, ReadingStep
  <1>7. ASSUME NEW e \in queue, Include(e)
        PROVE  IInv'
    BY <1>7, IncludeStep
  <1>8. CASE (\E m \in Members : Elsewhere(m)) \/ Tick
    BY <1>8, WorldStep
  <1>9. CASE UNCHANGED vars
    <2>1. /\ known' = known /\ rows' = rows /\ relaying' = relaying /\ req' = req
          /\ chain' = chain /\ purse' = purse /\ seq' = seq /\ queue' = queue /\ ended' = ended
          /\ abandoned' = abandoned /\ now' = now
      BY <1>9 DEF vars, network
    <2> QED BY <2>1 DEF IInv, Tables, RequestsOK, OneClaim, RowsOK, SentOK, EndsOK
  <1> QED BY <1>1, <1>2, <1>3, <1>4, <1>5, <1>6, <1>7, <1>8, <1>9 DEF Next

(* What tables, requests, the queue and the ledger say of one another: a call  *)
(* has one row and one request at a time, what is sent has a row that is       *)
(* claimed, the mutex belongs to whoever relays, and the contracts show what   *)
(* is in a ledger.                                                             *)
THEOREM CallsSound == Spec => []IInv
  BY InitIInv, NextIInv, PTL DEF Spec

(* Tables, requests and contracts keep their shape, whatever the network does  *)
(* with what was sent, and only a request that relays holds the mutex.         *)
THEOREM TypeCorrect == Spec => []TypeOK
  <1>1. IInv => TypeOK
    <2> SUFFICES ASSUME IInv PROVE TypeOK
      OBVIOUS
    <2>1. Tables
      BY DEF IInv
    <2>2. relaying # None => req[relaying].pc \in {"submit", "await", "record"}
      <3> SUFFICES ASSUME relaying # None
                   PROVE  req[relaying].pc \in {"submit", "await", "record"}
        OBVIOUS
      <3>1. relaying \in Requests
        BY <2>1 DEF Tables
      <3>2. Relays(req[relaying])
        BY <3>1 DEF IInv, RequestsOK, ReqOK
      <3> QED BY <3>2 DEF Relays
    <2> QED BY <2>1, <2>2 DEF Tables, TypeOK
  <1> QED BY <1>1, CallsSound, PTL

(* A member's call that may be submitted again was never sent: its claim is    *)
(* given back only by the request that has it, before anything is queued.      *)
THEOREM NothingSentUnclaimed == Spec => []UnclaimedNothingSent
  <1>1. IInv => UnclaimedNothingSent
    BY DEF IInv, RowsOK, RowOK, Sent, UnclaimedNothingSent
  <1> QED BY <1>1, CallsSound, PTL

(* What the page and the notes show of a call is what became of it in a ledger *)
(* and, for a proposal, what its own proposer wrote about it.                  *)
THEOREM RecordedIsTrue == Spec => []LandedIsTrue
  <1>1. IInv => LandedIsTrue
    <2> SUFFICES ASSUME IInv, NEW row \in rows
                 PROVE  /\ row.landed # "no" =>
                             \E x \in ended : x.env = row.env /\ (row.landed = "failed" => ~x.ok)
                        /\ row.number # 0 =>
                             LET ps == chain[row.env.call.contract].proposals
                             IN  /\ row.number \in DOMAIN ps
                                 /\ ps[row.number].proposer = row.env.from
                                 /\ attachNotes(row.env.call.contract, row.number)
                                      = row.env.call.note
                                 /\ \A other \in rows :
                                      other.number = row.number
                                      /\ other.env.call.contract = row.env.call.contract
                                        => other.env = row.env
      BY DEF LandedIsTrue
    <2>1. RowOK(row, queue, ended)
      BY DEF IInv, RowsOK
    <2>2. row.landed # "no" =>
            \E x \in ended : x.env = row.env /\ (row.landed = "failed" => ~x.ok)
      BY <2>1 DEF RowOK, Failed
    <2>3. ASSUME row.number # 0
          PROVE  LET ps == chain[row.env.call.contract].proposals
                 IN  /\ row.number \in DOMAIN ps
                     /\ ps[row.number].proposer = row.env.from
                     /\ attachNotes(row.env.call.contract, row.number) = row.env.call.note
                     /\ \A other \in rows :
                          other.number = row.number
                          /\ other.env.call.contract = row.env.call.contract
                            => other.env = row.env
      <3> DEFINE c == row.env.call.contract
                 n == row.number
                 ps == chain[c].proposals
                 held == {p \in ProposalNotes(c) :
                            p.id = n /\ p.note # NoNote /\ p.note = chain[c].proposals[n].memo}
      <3>1. PICK x \in ended : x.env = row.env /\ x.number = n
        BY <2>1, <2>3 DEF RowOK, Numbers
      <3>2. n \in DOMAIN ps /\ ps[n].proposer = row.env.from /\ ps[n].memo = row.env.call.note
        BY <2>3, <3>1 DEF IInv, EndsOK, EndOK
      <3>3. ASSUME NEW other \in rows, other.number = n, other.env.call.contract = c
            PROVE  other.env = row.env
        <4>1. PICK y \in ended : y.env = other.env /\ y.number = n
          BY <2>3, <3>3 DEF IInv, RowsOK, RowOK, Numbers
        <4> QED BY <2>3, <3>1, <3>3, <4>1 DEF IInv, EndsOK
      <3>4. attachNotes(c, n) = IF held = {} THEN NoNote ELSE (CHOOSE p \in held : TRUE).note
        BY DEF attachNotes
      <3>5. \A p \in held : p.note = row.env.call.note
        BY <3>2
      <3>6. row.env.call.note # NoNote => held # {}
        <4> SUFFICES ASSUME row.env.call.note # NoNote PROVE held # {}
          OBVIOUS
        <4> DEFINE p == [id |-> n, note |-> row.env.call.note]
        <4>1. p \in ProposalNotes(c)
          BY <2>3 DEF ProposalNotes
        <4>2. p.id = n /\ p.note = row.env.call.note
          OBVIOUS
        <4> HIDE DEF p
        <4>3. p \in held
          BY <3>2, <4>1, <4>2
        <4> QED BY <4>3
      <3>7. \A p \in held : p.note # NoNote
        OBVIOUS
      <3> HIDE DEF held
      <3>8. attachNotes(c, n) = row.env.call.note
        <4>1. CASE held = {}
          BY <3>4, <3>6, <4>1
        <4>2. CASE held # {}
          <5>1. (CHOOSE p \in held : TRUE) \in held
            BY <4>2
          <5> QED BY <3>4, <3>5, <4>2, <5>1
        <4> QED BY <4>1, <4>2
      <3> QED BY <3>2, <3>3, <3>8
    <2> QED BY <2>2, <2>3
  <1> QED BY <1>1, CallsSound, PTL

(* Relayed transactions take turns: one is out of date when it is sent only if *)
(* another was given up on while it could still land.                          *)
THEOREM TurnsAreTaken == Spec => []RelaysTakeTurns
  <1>1. IInv => RelaysTakeTurns
    BY DEF IInv, RequestsOK, ReqOK, RelaysTakeTurns, At, Relayed
  <1> QED BY <1>1, CallsSound, PTL

(* Somebody is told that a proposal is carried out only when it is, unless     *)
(* only the full history could be asked.                                       *)
THEOREM SaidIsDone == Spec => []CarriedOutIsExecuted
  <1>1. IInv => CarriedOutIsExecuted
    BY DEF IInv, RequestsOK, ReqOK, Executed, CarriedOutIsExecuted, At, P
  <1> QED BY <1>1, CallsSound, PTL
================================================================================
