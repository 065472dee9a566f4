---------------------------- MODULE ProposalsProofs ----------------------------
(* Theorems about Proposals, for every set of treasuries, members and requests. *)
EXTENDS Proposals, SequenceTheorems, SumProofs

(***************************************************************************)
(* The inductive invariant says of each row, and of each request in        *)
(* progress, what it rests on: what a request is about to record has       *)
(* happened on the ledger or can no longer happen there, and what it is    *)
(* about to submit runs code that was pinned when it looked.  Each part is *)
(* a statement about values, so that it can be carried from one state to   *)
(* the next.                                                               *)
(***************************************************************************)
Drafting == {"pin", "workspace", "deployment", "build", "create"}
Calling == {"invoke", "restore"}
Aimed(p) == p.kind \in Calling => p.callee \in Callees

\* The envelope of p has landed, or its sequence number is gone.
Past(p, l, A) == l # "none" \/ p.seq <= A[p.treasury].seq

RowOK(p, l, A) ==
    /\ p \in Row /\ Aimed(p)
    /\ p.status = "executed" => l # "none"
    /\ p.status = "failed" => Past(p, l, A)

Pin(p, V) == V[OrgOf[p.treasury]][p.callee]
ReqOK(q, R, L, A, V) ==
    /\ q \in Request
    /\ "id" \in DOMAIN q => q.id \in DOMAIN R
    /\ q.pc \in Drafting => Aimed(q.draft)
    /\ q.pc = "resolve" /\ q.as = "executed" => L[q.id] # "none"
    /\ q.pc = "resolve" /\ q.as = "failed" => Past(R[q.id], L[q.id], A)
    /\ q.pc = "quote" => R[q.id].kind = "dex"
    /\ q.pc \in {"callee", "pinned"} => R[q.id].kind = "invoke"
    /\ q.pc = "pinned" => q.pin \in Pin(R[q.id], V)
    /\ q.pc = "submit" /\ R[q.id].kind = "invoke" => q.seen \in Pin(R[q.id], V)

Tables ==
    /\ rows \in Seq(Row) /\ Len(rows) <= MaxProposals
    /\ sigs \in Seq(SUBSET Keys) /\ Len(sigs) = Len(rows)
    /\ ledger \in Seq({"none", "ok", "failed"}) /\ Len(ledger) = Len(rows)
    /\ account \in [Treasuries -> Account]
    /\ flight \subseteq [id: DOMAIN rows, sigs: SUBSET Keys]
    /\ now \in 0..MaxTime
    /\ req \in [Requests -> Request]
RowsOK == \A i \in DOMAIN rows : RowOK(rows[i], ledger[i], account)
RequestsOK == \A r \in Requests : ReqOK(req[r], rows, ledger, account, reviewed)
PinsOK ==
    /\ AllowlistTypeOK
    /\ \A o \in Orgs, c \in Callees : allowed[o][c] # None => allowed[o][c] \in reviewed[o][c]
IInv == Tables /\ RowsOK /\ RequestsOK /\ PinsOK

(* It contains the type invariant and what the tables are checked for. *)
LEMMA IInvType == IInv => TypeOK /\ ExecutedIsOnLedger
  BY DEF IInv, Tables, RowsOK, RequestsOK, PinsOK, RowOK, ReqOK, TypeOK, ExecutedIsOnLedger

--------------------------------------------------------------------------------
(* What no step undoes. *)
Fixed(p, q) ==
    /\ p.treasury = q.treasury /\ p.kind = q.kind /\ p.amount = q.amount
    /\ p.callee = q.callee /\ p.seq = q.seq /\ p.created = q.created
Goes(R, L, A, V, Rn, Ln, An, Vn) ==
    /\ DOMAIN R \subseteq DOMAIN Rn
    /\ \A i \in DOMAIN R : Fixed(R[i], Rn[i]) /\ (L[i] # "none" => Ln[i] # "none")
    /\ \A t \in Treasuries : A[t].seq <= An[t].seq
    /\ \A o \in Orgs, c \in Callees : V[o][c] \subseteq Vn[o][c]

(* The record a request is, by where it stands. *)
LEMMA Shapes ==
    ASSUME NEW q \in Request
    PROVE  /\ q.pc = "pin" => q \in [pc: {"pin"}, draft: Draft, pin: Codes]
           /\ q.pc \in {"workspace", "deployment", "build"} =>
                q \in [pc: {"workspace", "deployment", "build"}, draft: Draft]
           /\ q.pc = "create" => q \in [pc: {"create"}, draft: Draft, seq: Nat, expires: Nat]
           /\ q.pc = "sign" => q \in [pc: {"sign"}, id: Nat, keys: SUBSET Keys]
           /\ q.pc \in {"view", "loaded", "rebuild", "waiting", "lookup"} =>
                q \in [pc: {"view", "loaded", "rebuild", "waiting", "lookup"}, id: Nat]
           /\ q.pc \in {"quote", "callee"} =>
                q \in [pc: {"quote", "callee"}, id: Nat, keys: SUBSET Keys]
           /\ q.pc = "pinned" => q \in [pc: {"pinned"}, id: Nat, keys: SUBSET Keys, pin: Codes]
           /\ q.pc = "submit" =>
                q \in [pc: {"submit"}, id: Nat, keys: SUBSET Keys, seen: Codes \cup {None}]
           /\ q.pc = "resolve" => q \in [pc: {"resolve"}, id: Nat, as: Status \ {"open"}]
           /\ q.pc = "allow" => q \in [pc: {"allow"}, org: Orgs, callee: Callees, pin: Codes]
  BY DEF Request

(* The requests that are about a proposal name it. *)
LEMMA Named ==
    ASSUME NEW q \in Request, NEW R, NEW L, NEW A, NEW V, ReqOK(q, R, L, A, V),
           q.pc \in {"sign", "view", "loaded", "rebuild", "waiting", "lookup", "quote", "callee",
                     "pinned", "submit", "resolve"}
    PROVE  q.id \in DOMAIN R
  <1>1. "id" \in DOMAIN q
    BY Shapes
  <1> QED BY <1>1 DEF ReqOK

(* What a request rests on is not taken away from it by others. *)
LEMMA Lasts ==
    ASSUME NEW q, NEW R \in Seq(Row), NEW L, NEW A \in [Treasuries -> Account], NEW V,
           NEW Rn \in Seq(Row), NEW Ln, NEW An \in [Treasuries -> Account], NEW Vn,
           ReqOK(q, R, L, A, V), Goes(R, L, A, V, Rn, Ln, An, Vn),
           \A i \in DOMAIN R : Aimed(R[i])
    PROVE  ReqOK(q, Rn, Ln, An, Vn)
  <1>1. q \in Request /\ ("id" \in DOMAIN q => q.id \in DOMAIN Rn)
    BY DEF ReqOK, Goes
  <1>2. q.pc \in Drafting => Aimed(q.draft)
    BY DEF ReqOK
  <1>3. ASSUME NEW i \in DOMAIN R
        PROVE  /\ R[i] \in Row /\ Fixed(R[i], Rn[i]) /\ (L[i] # "none" => Ln[i] # "none")
               /\ Past(R[i], L[i], A) => Past(Rn[i], Ln[i], An)
    <2>1. R[i] \in Row /\ Fixed(R[i], Rn[i]) /\ (L[i] # "none" => Ln[i] # "none")
      BY DEF Goes
    <2>2. R[i].treasury \in Treasuries /\ R[i].seq \in Nat
      BY <2>1 DEF Row
    <2>3. A[R[i].treasury].seq <= An[R[i].treasury].seq
          /\ A[R[i].treasury].seq \in Nat /\ An[R[i].treasury].seq \in Nat
      BY <2>2 DEF Goes, Account
    <2> QED BY <2>1, <2>2, <2>3 DEF Past, Fixed
  <1>4. ASSUME NEW i \in DOMAIN R, R[i].kind = "invoke"
        PROVE  Pin(R[i], V) \subseteq Pin(Rn[i], Vn)
    <2>1. R[i].treasury \in Treasuries /\ R[i].callee \in Callees
      BY <1>3, <1>4 DEF Aimed, Calling, Row
    <2>2. OrgOf[R[i].treasury] \in Orgs
      BY <2>1, ProposalsAssumption
    <2>3. V[OrgOf[R[i].treasury]][R[i].callee] \subseteq Vn[OrgOf[R[i].treasury]][R[i].callee]
      BY <2>1, <2>2 DEF Goes
    <2> QED BY <1>3, <2>3 DEF Pin, Fixed
  <1>5. CASE q.pc = "resolve"
    <2>1. q.id \in DOMAIN R
      BY <1>1, <1>5, Named
    <2>2. /\ q.as = "executed" => L[q.id] # "none"
          /\ q.as = "failed" => Past(R[q.id], L[q.id], A)
      BY <1>5 DEF ReqOK
    <2> QED BY <1>1, <1>2, <1>3, <1>5, <2>1, <2>2 DEF ReqOK
  <1>6. CASE q.pc \in {"quote", "callee", "pinned", "submit"}
    <2>1. q.id \in DOMAIN R
      BY <1>1, <1>6, Named
    <2>2. Rn[q.id].kind = R[q.id].kind
      BY <1>3, <2>1 DEF Fixed
    <2>3. /\ q.pc = "quote" => R[q.id].kind = "dex"
          /\ q.pc \in {"callee", "pinned"} => R[q.id].kind = "invoke"
          /\ q.pc = "pinned" => q.pin \in Pin(R[q.id], V)
          /\ q.pc = "submit" /\ R[q.id].kind = "invoke" => q.seen \in Pin(R[q.id], V)
      BY DEF ReqOK
    <2>4. R[q.id].kind = "invoke" => Pin(R[q.id], V) \subseteq Pin(Rn[q.id], Vn)
      BY <1>4, <2>1
    <2> QED BY <1>1, <1>2, <1>6, <2>2, <2>3, <2>4 DEF ReqOK
  <1>7. CASE q.pc \notin {"resolve", "quote", "callee", "pinned", "submit"}
    BY <1>1, <1>2, <1>7 DEF ReqOK
  <1> QED BY <1>5, <1>6, <1>7

--------------------------------------------------------------------------------
(* Carrying the invariant over a step. *)
Steps == Goes(rows, ledger, account, reviewed, rows', ledger', account', reviewed')

(* A step that keeps what no step undoes keeps the requests it does not move. *)
LEMMA Carry ==
    ASSUME IInv, Tables', RowsOK', PinsOK', Steps,
           \A r \in Requests :
             req'[r] = req[r] \/ ReqOK(req'[r], rows', ledger', account', reviewed')
    PROVE  IInv'
  <1>1. /\ rows \in Seq(Row) /\ rows' \in Seq(Row)
        /\ account \in [Treasuries -> Account] /\ account' \in [Treasuries -> Account]
    BY DEF IInv, Tables
  <1>2. \A i \in DOMAIN rows : Aimed(rows[i])
    BY DEF IInv, RowsOK, RowOK
  <1>3. ASSUME NEW r \in Requests
        PROVE  ReqOK(req'[r], rows', ledger', account', reviewed')
    <2>1. CASE req'[r] = req[r]
      <3>1. ReqOK(req[r], rows, ledger, account, reviewed)
        BY DEF IInv, RequestsOK
      <3>2. ReqOK(req[r], rows', ledger', account', reviewed')
        BY <1>1, <1>2, <3>1, Lasts DEF Steps
      <3> QED BY <2>1, <3>2
    <2> QED BY <2>1
  <1>4. RequestsOK'
    BY <1>3 DEF RequestsOK
  <1> QED BY <1>4 DEF IInv

(* Standing still undoes nothing. *)
LEMMA Still ==
    ASSUME IInv
    PROVE  /\ \A i \in DOMAIN rows : rows[i] \in Row /\ Fixed(rows[i], rows[i])
           /\ \A t \in Treasuries : account[t].seq \in Nat /\ account[t].seq <= account[t].seq
           /\ Goes(rows, ledger, account, reviewed, rows, ledger, account, reviewed)
  <1>1. \A i \in DOMAIN rows : rows[i] \in Row /\ Fixed(rows[i], rows[i])
    BY DEF IInv, Tables, Fixed
  <1>2. \A t \in Treasuries : account[t].seq \in Nat /\ account[t].seq <= account[t].seq
    BY DEF IInv, Tables, Account
  <1> QED BY <1>1, <1>2 DEF Goes

(* A request goes on, and nothing else happens. *)
LEMMA QuietMove ==
    ASSUME IInv, NEW r \in Requests, NEW q, ReqOK(q, rows, ledger, account, reviewed),
           Goto(r, q), UNCHANGED <<store, network, now, pins>>
    PROVE  IInv'
  <1>1. /\ rows' = rows /\ ledger' = ledger /\ account' = account /\ reviewed' = reviewed
        /\ sigs' = sigs /\ flight' = flight /\ now' = now /\ allowed' = allowed /\ code' = code
    BY DEF store, network, pins
  <1>2. q \in Request
    BY DEF ReqOK
  <1>3. req' \in [Requests -> Request] /\ req'[r] = q /\ \A s \in Requests \ {r} : req'[s] = req[s]
    BY <1>2 DEF Goto, IInv, Tables
  <1>4. Tables'
    BY <1>1, <1>3 DEF IInv, Tables
  <1>5. RowsOK'
    BY <1>1 DEF IInv, RowsOK
  <1>6. PinsOK'
    BY <1>1 DEF IInv, PinsOK, AllowlistTypeOK
  <1>7. Steps
    BY <1>1, Still DEF Steps
  <1> QED BY <1>1, <1>3, <1>4, <1>5, <1>6, <1>7, Carry

(* Doing nothing is always right. *)
LEMMA IdleOK ==
    ASSUME NEW R, NEW L, NEW A, NEW V
    PROVE  ReqOK(Idle, R, L, A, V)
  <1>1. Idle \in Request
    BY DEF Idle, Request
  <1> QED BY <1>1 DEF ReqOK, Idle, Drafting

(* So is beginning to draft what may be drafted. *)
LEMMA DraftOK ==
    ASSUME NEW R, NEW L, NEW A, NEW V, NEW d \in Draft, Aimed(d),
           NEW pc \in {"workspace", "deployment", "build"}
    PROVE  ReqOK([pc |-> pc, draft |-> d], R, L, A, V)
  <1> DEFINE q == [pc |-> pc, draft |-> d]
  <1>1. q \in Request
    BY DEF Request
  <1>2. DOMAIN q = {"pc", "draft"} /\ q.pc = pc /\ q.draft = d
    OBVIOUS
  <1> HIDE DEF q
  <1>3. ReqOK(q, R, L, A, V)
    BY <1>1, <1>2 DEF ReqOK
  <1> QED BY <1>3 DEF q

(* And to look at a proposal there is. *)
LEMMA LookOK ==
    ASSUME NEW R \in Seq(Row), NEW L, NEW A, NEW V, NEW id \in DOMAIN R,
           NEW pc \in {"view", "loaded", "rebuild", "waiting", "lookup"}
    PROVE  ReqOK([pc |-> pc, id |-> id], R, L, A, V)
  <1> DEFINE q == [pc |-> pc, id |-> id]
  <1>0. id \in Nat
    OBVIOUS
  <1>1. q \in Request
    BY <1>0 DEF Request
  <1>2. DOMAIN q = {"pc", "id"} /\ q.pc = pc /\ q.id = id
    OBVIOUS
  <1> HIDE DEF q
  <1>3. ReqOK(q, R, L, A, V)
    BY <1>1, <1>2 DEF ReqOK, Drafting
  <1> QED BY <1>3 DEF q

(* And to record what has happened. *)
LEMMA ResolveOK ==
    ASSUME NEW R \in Seq(Row), NEW L, NEW A, NEW V, NEW id \in DOMAIN R,
           NEW as \in Status \ {"open"}, as = "executed" => L[id] # "none",
           as = "failed" => Past(R[id], L[id], A)
    PROVE  ReqOK([pc |-> "resolve", id |-> id, as |-> as], R, L, A, V)
  <1> DEFINE q == [pc |-> "resolve", id |-> id, as |-> as]
  <1>0. id \in Nat
    OBVIOUS
  <1>1. q \in Request
    BY <1>0 DEF Request
  <1>2. DOMAIN q = {"pc", "id", "as"} /\ q.pc = "resolve" /\ q.id = id /\ q.as = as
    OBVIOUS
  <1> HIDE DEF q
  <1>3. ReqOK(q, R, L, A, V)
    BY <1>1, <1>2 DEF ReqOK, Drafting
  <1> QED BY <1>3 DEF q

(* And to submit what runs code that was pinned. *)
LEMMA SubmitOK ==
    ASSUME NEW R \in Seq(Row), NEW L, NEW A, NEW V, NEW id \in DOMAIN R,
           NEW keys \in SUBSET Keys, NEW seen \in Codes \cup {None},
           R[id].kind = "invoke" => seen \in Pin(R[id], V)
    PROVE  ReqOK(ToSubmit(id, keys, seen), R, L, A, V)
  <1> DEFINE q == ToSubmit(id, keys, seen)
  <1>0. id \in Nat
    OBVIOUS
  <1>1. q \in Request
    BY <1>0 DEF Request, ToSubmit
  <1>2. DOMAIN q = {"pc", "id", "keys", "seen"} /\ q.pc = "submit" /\ q.id = id /\ q.seen = seen
    BY DEF ToSubmit
  <1> HIDE DEF q
  <1>3. ReqOK(q, R, L, A, V)
    BY <1>1, <1>2 DEF ReqOK, Drafting
  <1> QED BY <1>3 DEF q

--------------------------------------------------------------------------------
(* Proposing. *)

(* The floor of an exchange is a positive amount. *)
LEMMA FloorType ==
    ASSUME NEW ask \in Asks, ask.kind = "dex", NEW paths \in Markets,
           NEW floor \in floorOf(ask, QuoteStrictSend(paths))
    PROVE  floor \in Nat
  <1>1. IsFiniteSet(paths) /\ \A x \in paths : x \in Nat
    BY ProposalsAssumption
  <1>2. IsFiniteSet({0} \cup paths)
    <2>1. {0} \cup paths = paths \cup {0}
      OBVIOUS
    <2> QED BY <1>1, <2>1, FS_AddElement
  <1>3. \A x \in {0} \cup paths : x \in Nat
    BY <1>1
  <1>4. Max({0} \cup paths) \in {0} \cup paths
    BY <1>2, <1>3, MaxOfNaturals
  <1>5. QuoteStrictSend(paths) \in Nat
    BY <1>3, <1>4 DEF QuoteStrictSend
  <1>6. ask.minimum \in Nat /\ ask.slippage \in Nat
    BY ProposalsAssumption
  <1>7. \A quote \in Nat : quote * (10000 - ask.slippage) \in Int
    BY <1>6
  <1>8. SlippageBound(QuoteStrictSend(paths), ask.slippage) \in Int
    BY <1>5, <1>7 DEF SlippageBound
  <1>9. floor > 0 /\ floor \in Int
    BY <1>6, <1>8 DEF floorOf, Swap
  <1> QED BY <1>9

(* A draft is one, and names a contract if it calls one. *)
LEMMA DraftType ==
    ASSUME NEW t \in Treasuries, NEW kind \in Kinds, NEW amount \in Nat, NEW floor \in Nat,
           NEW callee \in Callees \cup {None}, NEW m \in Members,
           kind \in Calling => callee \in Callees
    PROVE  /\ DraftOf(t, kind, amount, floor, callee, m) \in Draft
           /\ Aimed(DraftOf(t, kind, amount, floor, callee, m))
  BY DEF DraftOf, Draft, Aimed

(* checkSpend starts a request on its way. *)
LEMMA SpendStep ==
    ASSUME IInv, NEW r \in Requests, NEW d \in Draft, Aimed(d), checkSpend(r, d),
           UNCHANGED <<store, network, now, pins>>
    PROVE  IInv'
  <1>1. Goto(r, [pc |-> "build", draft |-> d]) \/ Goto(r, [pc |-> "workspace", draft |-> d])
    BY DEF checkSpend
  <1> QED BY <1>1, DraftOK, QuietMove

(* pay, trust, swap, invoke and restore: what is asked for becomes a draft. *)
LEMMA AskStep ==
    ASSUME IInv, NEW r \in Requests, AskAny(r)
    PROVE  IInv'
  <1>1. PICK m \in Members, name \in Names, ask \in Asks :
          pay(r, m, name, ask) \/ trust(r, m, name, ask) \/ swap(r, m, name, ask)
          \/ invoke(r, m, name, ask) \/ restore(r, m, name, ask)
    BY DEF AskAny
  <1>2. CASE pay(r, m, name, ask)
    <2>1. PICK t \in Treasuries : checkSpend(r, DraftOf(t, "payment", ask.amount, 0, None, m))
      BY <1>2 DEF pay, ProposePayment
    <2>2. ask.amount \in Nat
      BY <1>2, ProposalsAssumption DEF pay, Asked
    <2>3. UNCHANGED <<store, network, now, pins>>
      BY <1>2 DEF pay
    <2>4. /\ DraftOf(t, "payment", ask.amount, 0, None, m) \in Draft
          /\ Aimed(DraftOf(t, "payment", ask.amount, 0, None, m))
      BY <2>2, DraftType DEF Kinds, Classic, Calling
    <2> QED BY <2>1, <2>3, <2>4, SpendStep
  <1>3. CASE trust(r, m, name, ask)
    <2>1. PICK t \in Treasuries : checkSpend(r, DraftOf(t, "trustline", 0, 0, None, m))
      BY <1>3 DEF trust, classicTreasury
    <2>2. UNCHANGED <<store, network, now, pins>>
      BY <1>3 DEF trust
    <2>3. /\ DraftOf(t, "trustline", 0, 0, None, m) \in Draft
          /\ Aimed(DraftOf(t, "trustline", 0, 0, None, m))
      BY DraftType DEF Kinds, Classic, Calling
    <2> QED BY <2>1, <2>2, <2>3, SpendStep
  <1>4. CASE swap(r, m, name, ask)
    <2>0. PICK t \in Treasuries, paths \in Markets, amount \in {0, ask.amount} :
            \E floor \in floorOf(ask, QuoteStrictSend(paths)) :
              checkSpend(r, DraftOf(t, "dex", amount, floor, None, m))
      BY <1>4 DEF swap, classicTreasury
    <2>1. PICK floor \in floorOf(ask, QuoteStrictSend(paths)) :
            checkSpend(r, DraftOf(t, "dex", amount, floor, None, m))
      BY <2>0
    <2>2. ask.kind = "dex"
      BY <1>4 DEF swap, Asked
    <2>3. amount \in Nat
      BY <2>2, ProposalsAssumption
    <2>4. floor \in Nat
      BY <2>2, FloorType
    <2>5. UNCHANGED <<store, network, now, pins>>
      BY <1>4 DEF swap
    <2>6. /\ DraftOf(t, "dex", amount, floor, None, m) \in Draft
          /\ Aimed(DraftOf(t, "dex", amount, floor, None, m))
      BY <2>3, <2>4, DraftType DEF Kinds, Classic, Calling
    <2> QED BY <2>1, <2>5, <2>6, SpendStep
  <1>5. CASE invoke(r, m, name, ask) \/ restore(r, m, name, ask)
    <2>1. call(r, m, name, ask) /\ ask.kind \in Calling
      BY <1>5 DEF invoke, restore, Asked, Calling
    <2>2. PICK t \in Treasuries, pin \in Codes :
            Goto(r, [pc |-> "pin", pin |-> pin,
                     draft |-> DraftOf(t, ask.kind, 0, 0, ask.callee, m)])
      BY <2>1 DEF call, classicTreasury, allowedWhere
    <2>3. ask.callee \in Callees
      BY <2>1, ProposalsAssumption DEF Calling
    <2> DEFINE d == DraftOf(t, ask.kind, 0, 0, ask.callee, m)
               q == [pc |-> "pin", pin |-> pin, draft |-> d]
    <2>4. d \in Draft /\ Aimed(d)
      BY <2>1, <2>3, DraftType DEF Kinds, Calling
    <2> HIDE DEF d
    <2>5. q \in Request
      BY <2>4 DEF Request
    <2>6. DOMAIN q = {"pc", "pin", "draft"} /\ q.pc = "pin" /\ q.draft = d
      OBVIOUS
    <2>7. UNCHANGED <<store, network, now, pins>>
      BY <2>1 DEF call
    <2>8. Goto(r, q)
      BY <2>2 DEF d
    <2> HIDE DEF q
    <2>9. ReqOK(q, rows, ledger, account, reviewed)
      BY <2>4, <2>5, <2>6 DEF ReqOK
    <2> QED BY <2>7, <2>8, <2>9, QuietMove
  <1> QED BY <1>1, <1>2, <1>3, <1>4, <1>5

(* A request that drafts has its draft. *)
LEMMA Drafted ==
    ASSUME IInv, NEW r \in Requests, req[r].pc \in Drafting
    PROVE  req[r].draft \in Draft /\ Aimed(req[r].draft)
  <1>1. ReqOK(req[r], rows, ledger, account, reviewed) /\ req[r] \in Request
    BY DEF IInv, RequestsOK, ReqOK
  <1>2. req[r].draft \in Draft
    BY <1>1, Shapes DEF Drafting
  <1> QED BY <1>1, <1>2 DEF ReqOK

(* ProposeInvoke, ProposeRestore, the checks of the day and Build. *)
LEMMA ProposingStep ==
    ASSUME IInv, NEW r \in Requests,
           ProposeInvoke(r) \/ ProposeRestore(r) \/ CheckWorkspaceDay(r) \/ CheckDeploymentDay(r)
           \/ Build(r)
    PROVE  IInv'
  <1>1. req[r].pc \in Drafting /\ UNCHANGED <<store, network, now, pins>>
    BY DEF ProposeInvoke, ProposeRestore, Pinned, CheckWorkspaceDay, CheckDeploymentDay, Build,
           At, Drafting
  <1>2. req[r].draft \in Draft /\ Aimed(req[r].draft)
    BY <1>1, Drafted
  <1>3. CASE ~Build(r)
    <2>1. \/ Goto(r, [pc |-> "build", draft |-> req[r].draft])
          \/ Goto(r, [pc |-> "deployment", draft |-> req[r].draft])
      BY <1>3 DEF ProposeInvoke, ProposeRestore, Pinned, CheckWorkspaceDay, CheckDeploymentDay
    <2> QED BY <1>1, <1>2, <2>1, DraftOK, QuietMove
  <1>4. CASE Build(r)
    <2> DEFINE d == req[r].draft
               seq == account[d.treasury].seq + 1
               q == [pc |-> "create", draft |-> d, seq |-> seq, expires |-> now + TTL]
    <2>1. d.treasury \in Treasuries
      BY <1>2 DEF Draft
    <2>2. seq \in Nat /\ now + TTL \in Nat
      BY <2>1, ProposalsAssumption DEF IInv, Tables, Account
    <2>3. Goto(r, q)
      BY <1>4 DEF Build
    <2>4. DOMAIN q = {"pc", "draft", "seq", "expires"} /\ q.pc = "create" /\ q.draft = d
      OBVIOUS
    <2> HIDE DEF seq
    <2>5. q \in Request
      BY <1>2, <2>2 DEF Request
    <2> HIDE DEF q, d
    <2>6. ReqOK(q, rows, ledger, account, reviewed)
      BY <1>2, <2>4, <2>5 DEF ReqOK, d
    <2> QED BY <1>1, <2>3, <2>6, QuietMove
  <1> QED BY <1>3, <1>4

--------------------------------------------------------------------------------
(* Approving, executing and what the network answers. *)

(* A request about a proposal, and the proposal. *)
LEMMA About ==
    ASSUME IInv, NEW r \in Requests,
           req[r].pc \in {"sign", "view", "loaded", "rebuild", "waiting", "lookup", "quote",
                          "callee", "pinned", "submit", "resolve"}
    PROVE  /\ req[r] \in Request /\ ReqOK(req[r], rows, ledger, account, reviewed)
           /\ req[r].id \in DOMAIN rows /\ rows \in Seq(Row)
           /\ rows[req[r].id] \in Row /\ Aimed(rows[req[r].id])
  <1>1. req[r] \in Request /\ ReqOK(req[r], rows, ledger, account, reviewed)
    BY DEF IInv, RequestsOK, ReqOK
  <1>2. req[r].id \in DOMAIN rows
    BY <1>1, Named
  <1> QED BY <1>1, <1>2 DEF IInv, Tables, RowsOK, RowOK

(* Approve and SequenceGuard. *)
LEMMA ApprovingStep ==
    ASSUME IInv, NEW r \in Requests,
           (\E id \in DOMAIN rows, keys \in Handovers : Approve(r, id, keys)) \/ SequenceGuard(r)
    PROVE  IInv'
  <1>1. ASSUME NEW id \in DOMAIN rows, NEW keys \in Handovers, Approve(r, id, keys)
        PROVE  IInv'
    <2> DEFINE kept == keys \cap SignersOf(rows[id].treasury)
               q == [pc |-> "sign", id |-> id, keys |-> kept]
    <2>1. Goto(r, q) /\ UNCHANGED <<store, network, now, pins>>
      BY <1>1 DEF Approve
    <2>2. kept \in SUBSET Keys /\ id \in Nat
      BY ProposalsAssumption DEF IInv, Tables
    <2> HIDE DEF kept
    <2>3. q \in Request
      BY <2>2 DEF Request
    <2>4. DOMAIN q = {"pc", "id", "keys"} /\ q.pc = "sign" /\ q.id = id
      OBVIOUS
    <2> HIDE DEF q
    <2>5. ReqOK(q, rows, ledger, account, reviewed)
      BY <2>3, <2>4 DEF ReqOK, Drafting
    <2> QED BY <2>1, <2>5, QuietMove
  <1>2. CASE SequenceGuard(r)
    <2> DEFINE id == req[r].id
    <2>1. id \in DOMAIN rows /\ rows \in Seq(Row)
      BY <1>2, About DEF SequenceGuard, At
    <2>2. UNCHANGED <<store, network, now, pins>>
      BY <1>2 DEF SequenceGuard
    <2>3. CASE SequenceMoved(id)
      <3>1. Goto(r, [pc |-> "resolve", id |-> id, as |-> "failed"])
        BY <1>2, <2>3 DEF SequenceGuard
      <3>2. rows[id].seq <= account[rows[id].treasury].seq
        <4>1. rows[id] \in Row
          BY <2>1
        <4>2. rows[id].seq \in Nat /\ account[rows[id].treasury].seq \in Nat
          BY <4>1 DEF Row, IInv, Tables, Account
        <4> QED BY <2>3, <4>2 DEF SequenceMoved
      <3>3. Past(rows[id], ledger[id], account)
        BY <3>2 DEF Past
      <3>4. "failed" \in Status \ {"open"}
        BY DEF Status
      <3> HIDE DEF id
      <3>5. ReqOK([pc |-> "resolve", id |-> id, as |-> "failed"], rows, ledger, account, reviewed)
        BY <2>1, <3>3, <3>4, ResolveOK
      <3> QED BY <2>2, <3>1, <3>5, QuietMove
    <2>4. CASE ~SequenceMoved(id)
      <3>1. Goto(r, [pc |-> "rebuild", id |-> id])
        BY <1>2, <2>4 DEF SequenceGuard
      <3> QED BY <2>1, <2>2, <3>1, LookOK, QuietMove
    <2> QED BY <2>3, <2>4
  <1> QED BY <1>1, <1>2

(* applySignatures: each kind goes its way. *)
LEMMA ApplyStep ==
    ASSUME IInv, NEW r \in Requests, applySignatures(r)
    PROVE  IInv'
  <1> DEFINE id == req[r].id
             keys == sigs[id]
             next(pc) == [pc |-> pc, id |-> id, keys |-> keys]
  <1>1. id \in DOMAIN rows /\ rows \in Seq(Row) /\ rows[id] \in Row
    BY About DEF applySignatures, At
  <1>2. keys \in SUBSET Keys /\ id \in Nat
    BY <1>1 DEF IInv, Tables
  <1>3. UNCHANGED <<store, network, now, pins>>
    BY DEF applySignatures
  <1>4. CASE rows[id].kind \in {"dex", "invoke"}
    <2> DEFINE q == next(IF rows[id].kind = "dex" THEN "quote" ELSE "callee")
    <2>1. Goto(r, q)
      <3>1. CASE rows[id].kind = "dex"
        BY <3>1 DEF applySignatures
      <3>2. CASE rows[id].kind = "invoke"
        BY <3>2 DEF applySignatures
      <3> QED BY <1>4, <3>1, <3>2
    <2> HIDE DEF keys
    <2>2. q \in Request
      BY <1>2 DEF Request
    <2>3. DOMAIN q = {"pc", "id", "keys"} /\ q.id = id
          /\ q.pc = (IF rows[id].kind = "dex" THEN "quote" ELSE "callee")
      OBVIOUS
    <2> HIDE DEF q
    <2>4. ReqOK(q, rows, ledger, account, reviewed)
      BY <1>1, <1>4, <2>2, <2>3 DEF ReqOK, Drafting
    <2> QED BY <1>3, <2>1, <2>4, QuietMove
  <1>5. CASE rows[id].kind \notin {"dex", "invoke"}
    <2>1. Goto(r, Idle) \/ Goto(r, ToSubmit(id, keys, None))
      <3>1. CASE rows[id].kind = "restore" /\ ~ContractCalls
        BY <3>1 DEF applySignatures
      <3>2. CASE ~(rows[id].kind = "restore" /\ ~ContractCalls)
        BY <1>5, <3>2 DEF applySignatures
      <3> QED BY <3>1, <3>2
    <2> HIDE DEF keys, id
    <2>2. ReqOK(ToSubmit(id, keys, None), rows, ledger, account, reviewed)
      BY <1>1, <1>2, <1>5, SubmitOK
    <2> QED BY <1>3, <2>1, <2>2, IdleOK, QuietMove
  <1> QED BY <1>4, <1>5

(* Requote, LookUpCallee and PinnedStill: what is submitted runs pinned code. *)
LEMMA CheckingStep ==
    ASSUME IInv, NEW r \in Requests, Requote(r) \/ LookUpCallee(r) \/ PinnedStill(r)
    PROVE  IInv'
  <1> DEFINE id == req[r].id
             keys == req[r].keys
  <1>1. /\ id \in DOMAIN rows /\ rows \in Seq(Row) /\ rows[id] \in Row /\ req[r] \in Request
        /\ Aimed(rows[id]) /\ ReqOK(req[r], rows, ledger, account, reviewed)
    BY About DEF Requote, LookUpCallee, PinnedStill, At
  <1>2. keys \in SUBSET Keys /\ id \in Nat
    BY <1>1, Shapes DEF Requote, LookUpCallee, PinnedStill, At
  <1>3. UNCHANGED <<store, network, now, pins>>
    BY DEF Requote, LookUpCallee, PinnedStill
  <1>4. CASE Requote(r)
    <2>1. Goto(r, Idle) \/ Goto(r, ToSubmit(id, keys, None))
      BY <1>4 DEF Requote
    <2>2. rows[id].kind = "dex"
      BY <1>1, <1>4 DEF ReqOK, Requote, At
    <2> HIDE DEF keys, id
    <2>3. ReqOK(ToSubmit(id, keys, None), rows, ledger, account, reviewed)
      BY <1>1, <1>2, <2>2, SubmitOK
    <2> QED BY <1>3, <2>1, <2>3, IdleOK, QuietMove
  <1>5. CASE LookUpCallee(r)
    <2>1. rows[id].kind = "invoke"
      BY <1>1, <1>5 DEF ReqOK, LookUpCallee, At
    <2>2. rows[id].callee \in Callees /\ OrgOf[rows[id].treasury] \in Orgs
      BY <1>1, <2>1, ProposalsAssumption DEF Aimed, Calling, Row
    <2>3. PICK pin \in Codes :
            /\ allowed[OrgOf[rows[id].treasury]][rows[id].callee] = pin
            /\ Goto(r, [pc |-> "pinned", id |-> id, keys |-> keys, pin |-> pin])
      BY <1>5 DEF LookUpCallee, allowedWhere
    <2>4. pin \in Pin(rows[id], reviewed)
      BY <2>2, <2>3, AllowlistAssumption DEF IInv, PinsOK, Pin
    <2> DEFINE q == [pc |-> "pinned", id |-> id, keys |-> keys, pin |-> pin]
    <2> HIDE DEF keys, id
    <2>5. q \in Request
      BY <1>2 DEF Request
    <2>6. DOMAIN q = {"pc", "id", "keys", "pin"} /\ q.pc = "pinned" /\ q.id = id /\ q.pin = pin
      OBVIOUS
    <2> HIDE DEF q
    <2>7. ReqOK(q, rows, ledger, account, reviewed)
      BY <1>1, <2>1, <2>4, <2>5, <2>6 DEF ReqOK, Drafting
    <2>8. Goto(r, q)
      BY <2>3 DEF q
    <2> QED BY <1>3, <2>7, <2>8, QuietMove
  <1>6. CASE PinnedStill(r)
    <2>1. rows[id].kind = "invoke" /\ req[r].pin \in Pin(rows[id], reviewed)
      BY <1>1, <1>6 DEF ReqOK, PinnedStill, At
    <2> DEFINE seen == code[rows[id].callee]
    <2>2. seen = req[r].pin /\ Goto(r, ToSubmit(id, keys, seen))
      BY <1>6 DEF PinnedStill, checkPinned, ContractExecutable
    <2>3. req[r].pin \in Codes
      BY <1>1, <1>6, Shapes DEF PinnedStill, At
    <2> HIDE DEF keys, id, seen
    <2>4. ReqOK(ToSubmit(id, keys, seen), rows, ledger, account, reviewed)
      BY <1>1, <1>2, <2>1, <2>2, <2>3, SubmitOK
    <2> QED BY <1>3, <2>2, <2>4, QuietMove
  <1> QED BY <1>4, <1>5, <1>6

(* Refused, Answered, Unanswered and LookupTransaction: a verdict follows the   *)
(* ledger, or a sequence number that is gone.                                   *)
LEMMA AnsweringStep ==
    ASSUME IInv, NEW r \in Requests,
           Refused(r) \/ Answered(r) \/ Unanswered(r) \/ LookupTransaction(r)
    PROVE  IInv'
  <1> DEFINE id == req[r].id
  <1>1. id \in DOMAIN rows /\ rows \in Seq(Row) /\ rows[id] \in Row
    BY About DEF Refused, Answered, Unanswered, LookupTransaction, At
  <1>2. UNCHANGED <<store, network, now, pins>>
    BY DEF Refused, Answered, Unanswered, LookupTransaction
  <1>3. ASSUME NEW as \in Status \ {"open"}, as = "executed" => ledger[id] # "none",
               as = "failed" => Past(rows[id], ledger[id], account),
               Goto(r, [pc |-> "resolve", id |-> id, as |-> as])
        PROVE  IInv'
    <2> HIDE DEF id
    <2>1. ReqOK([pc |-> "resolve", id |-> id, as |-> as], rows, ledger, account, reviewed)
      BY <1>1, <1>3, ResolveOK
    <2> QED BY <1>2, <1>3, <2>1, QuietMove
  <1>4. ASSUME Goto(r, Idle) PROVE IInv'
    BY <1>2, <1>4, IdleOK, QuietMove
  <1>5. {"executed", "failed", "expired"} \subseteq Status \ {"open"}
    BY DEF Status
  <1>6. CASE Refused(r)
    <2>1. PICK result \in Refusals(id, req[r].keys) :
            Goto(r, IF rows[id].kind \in Classic /\ Spent(result)
                    THEN [pc |-> "resolve", id |-> id,
                          as |-> IF result = "tx_too_late" THEN "expired" ELSE "failed"]
                    ELSE Idle)
      BY <1>6 DEF Refused
    <2>2. CASE ~(rows[id].kind \in Classic /\ Spent(result))
      BY <1>4, <2>1, <2>2
    <2>3. CASE rows[id].kind \in Classic /\ Spent(result) /\ result = "tx_too_late"
      <3>1. Goto(r, [pc |-> "resolve", id |-> id, as |-> "expired"])
        BY <2>1, <2>3
      <3> QED BY <1>3, <1>5, <3>1
    <2>4. CASE rows[id].kind \in Classic /\ Spent(result) /\ result # "tx_too_late"
      <3>1. Goto(r, [pc |-> "resolve", id |-> id, as |-> "failed"])
        BY <2>1, <2>4
      <3>2. SequenceMoved(id)
        BY <2>4 DEF Refusals, Spent
      <3>3. rows[id].seq <= account[rows[id].treasury].seq
        <4>1. rows[id].seq \in Nat /\ account[rows[id].treasury].seq \in Nat
          BY <1>1 DEF Row, IInv, Tables, Account
        <4> QED BY <3>2, <4>1 DEF SequenceMoved
      <3>4. Past(rows[id], ledger[id], account)
        BY <3>3 DEF Past
      <3> QED BY <1>3, <1>5, <3>1, <3>4
    <2> QED BY <2>2, <2>3, <2>4
  <1>7. CASE Answered(r)
    <2>1. ledger[id] # "none" /\ Past(rows[id], ledger[id], account)
      BY <1>7 DEF Answered, Past
    <2>2. \/ Goto(r, [pc |-> "resolve", id |-> id, as |-> "executed"])
          \/ Goto(r, [pc |-> "resolve", id |-> id, as |-> "failed"])
      BY <1>7 DEF Answered
    <2> QED BY <1>3, <1>5, <2>1, <2>2
  <1>8. CASE Unanswered(r)
    <2>1. Goto(r, [pc |-> "lookup", id |-> id])
      BY <1>8 DEF Unanswered
    <2> QED BY <1>1, <1>2, <2>1, LookOK, QuietMove
  <1>9. CASE LookupTransaction(r)
    <2>1. \/ Goto(r, Idle)
          \/ ledger[id] # "none" /\ Goto(r, [pc |-> "resolve", id |-> id, as |-> "executed"])
      BY <1>9 DEF LookupTransaction
    <2> QED BY <1>3, <1>4, <1>5, <2>1
  <1> QED BY <1>6, <1>7, <1>8, <1>9

(* contractAllow reads, and Quit gives up. *)
LEMMA EndingStep ==
    ASSUME IInv, NEW r \in Requests,
           (\E m \in Members, c \in Callees : contractAllow(r, m, c)) \/ Quit(r)
    PROVE  IInv'
  <1>1. ASSUME NEW m \in Members, NEW c \in Callees, contractAllow(r, m, c)
        PROVE  IInv'
    <2> DEFINE q == [pc |-> "allow", org |-> Home[m], callee |-> c, pin |-> code[c]]
    <2>1. Goto(r, q) /\ UNCHANGED <<store, network, now, pins>>
      BY <1>1 DEF contractAllow, ContractExecutable
    <2>2. Home[m] \in Orgs /\ code[c] \in Codes
      BY ProposalsAssumption DEF IInv, PinsOK, AllowlistTypeOK
    <2>3. q \in Request
      BY <2>2 DEF Request
    <2>4. DOMAIN q = {"pc", "org", "callee", "pin"} /\ q.pc = "allow"
      OBVIOUS
    <2> HIDE DEF q
    <2>5. ReqOK(q, rows, ledger, account, reviewed)
      BY <2>3, <2>4 DEF ReqOK, Drafting
    <2> QED BY <2>1, <2>5, QuietMove
  <1>2. CASE Quit(r)
    BY <1>2, IdleOK, QuietMove DEF Quit
  <1> QED BY <1>1, <1>2

--------------------------------------------------------------------------------
(* Writing to the tables. *)

(* Rows change their status, and a request may go on with it. *)
LEMMA Restate ==
    ASSUME IInv, rows' \in Seq(Row), Len(rows') = Len(rows),
           \A i \in DOMAIN rows : Fixed(rows[i], rows'[i]) /\ RowOK(rows'[i], ledger[i], account),
           UNCHANGED <<sigs, network, now, pins>>, req' \in [Requests -> Request],
           \A r \in Requests :
             req'[r] = req[r] \/ ReqOK(req'[r], rows', ledger', account', reviewed')
    PROVE  IInv'
  <1>1. /\ ledger' = ledger /\ account' = account /\ reviewed' = reviewed
        /\ sigs' = sigs /\ flight' = flight /\ now' = now /\ allowed' = allowed /\ code' = code
    BY DEF network, pins
  <1>2. DOMAIN rows' = DOMAIN rows
    BY DEF IInv, Tables
  <1>3. Tables'
    BY <1>1, <1>2 DEF IInv, Tables
  <1>4. RowsOK'
    BY <1>1, <1>2 DEF IInv, RowsOK
  <1>5. PinsOK'
    BY <1>1 DEF IInv, PinsOK, AllowlistTypeOK
  <1>6. Steps
    BY <1>1, <1>2, Still DEF Steps, Goes
  <1> QED BY <1>3, <1>4, <1>5, <1>6, Carry

(* Another status, if it is true of the row. *)
LEMMA Relabelled ==
    ASSUME NEW p \in Row, NEW as \in Status
    PROVE  LET q == [p EXCEPT !.status = as]
           IN  q \in Row /\ q.status = as /\ Fixed(p, q) /\ (Aimed(p) => Aimed(q))
               /\ q.expires = p.expires
  BY DEF Row, Fixed, Aimed

(* What has run out of time is expired, and nothing else changes. *)
LEMMA ExpiredRows ==
    ASSUME IInv, NEW T
    PROVE  /\ Expired(T) \in Seq(Row) /\ Len(Expired(T)) = Len(rows)
           /\ DOMAIN Expired(T) = DOMAIN rows
           /\ \A i \in DOMAIN rows :
                /\ Expired(T)[i] \in Row /\ Fixed(rows[i], Expired(T)[i])
                /\ RowOK(Expired(T)[i], ledger[i], account)
                /\ \/ Expired(T)[i] = rows[i]
                   \/ Expired(T)[i].status = "expired" /\ rows[i].status = "open"
  <1> DEFINE E == Expired(T)
  <1>0. rows \in Seq(Row) /\ Len(rows) \in Nat /\ DOMAIN rows = 1..Len(rows)
    BY DEF IInv, Tables
  <1>1. ASSUME NEW i \in DOMAIN rows
        PROVE  /\ E[i] \in Row /\ Fixed(rows[i], E[i]) /\ RowOK(E[i], ledger[i], account)
               /\ E[i] = rows[i] \/ (E[i].status = "expired" /\ rows[i].status = "open")
    <2>1. rows[i] \in Row /\ RowOK(rows[i], ledger[i], account)
      BY <1>0 DEF IInv, RowsOK
    <2>2. \/ E[i] = rows[i]
          \/ E[i] = [rows[i] EXCEPT !.status = "expired"] /\ rows[i].status = "open"
      BY DEF Expired
    <2> HIDE DEF E
    <2>3. CASE E[i] = rows[i]
      <3>1. E[i] \in Row /\ RowOK(E[i], ledger[i], account)
        BY <2>1, <2>3
      <3>2. Fixed(rows[i], E[i])
        BY <2>3 DEF Fixed
      <3> QED BY <2>3, <3>1, <3>2
    <2>4. CASE E[i] = [rows[i] EXCEPT !.status = "expired"] /\ rows[i].status = "open"
      <3>1. "expired" \in Status
        BY DEF Status
      <3>2. /\ E[i] \in Row /\ E[i].status = "expired" /\ Fixed(rows[i], E[i])
            /\ Aimed(rows[i]) => Aimed(E[i])
        BY <2>1, <2>4, <3>1, Relabelled
      <3>3. RowOK(E[i], ledger[i], account)
        BY <2>1, <3>2 DEF RowOK
      <3> QED BY <2>4, <3>2, <3>3
    <2> QED BY <2>2, <2>3, <2>4
  <1>2. E = [i \in 1..Len(rows) |-> E[i]] /\ DOMAIN E = 1..Len(rows)
    BY <1>0 DEF Expired
  <1>3. \A i \in 1..Len(rows) : E[i] \in Row
    BY <1>0, <1>1
  <1> HIDE DEF E
  <1>4. E \in Seq(Row) /\ Len(E) = Len(rows)
    BY <1>0, <1>2, <1>3, IsASeq, LenProperties
  <1> QED BY <1>0, <1>1, <1>2, <1>4 DEF E

(* View, ExecuteProposal, execute, CancelProposal, cancel: a load, and on.      *)
LEMMA LoadStep ==
    ASSUME IInv, NEW r \in Requests, NEW q, ExpireProposals, Goto(r, q),
           UNCHANGED <<sigs, network, now, pins>>,
           \/ q = Idle
           \/ \E id \in DOMAIN rows : q = [pc |-> "loaded", id |-> id]
           \/ \E id \in DOMAIN rows : q = [pc |-> "resolve", id |-> id, as |-> "cancelled"]
    PROVE  IInv'
  <1>1. /\ rows' \in Seq(Row) /\ Len(rows') = Len(rows) /\ DOMAIN rows' = DOMAIN rows
        /\ \A i \in DOMAIN rows : Fixed(rows[i], rows'[i]) /\ RowOK(rows'[i], ledger[i], account)
    BY ExpiredRows DEF ExpireProposals
  <1>2. "cancelled" \in Status \ {"open"}
    BY DEF Status
  <1>3. ReqOK(q, rows', ledger', account', reviewed')
    <2>1. CASE q = Idle
      BY <2>1, IdleOK
    <2>2. CASE \E id \in DOMAIN rows : q = [pc |-> "loaded", id |-> id]
      BY <1>1, <2>2, LookOK
    <2>3. CASE \E id \in DOMAIN rows : q = [pc |-> "resolve", id |-> id, as |-> "cancelled"]
      BY <1>1, <1>2, <2>3, ResolveOK
    <2> QED BY <2>1, <2>2, <2>3
  <1>4. q \in Request
    BY <1>3 DEF ReqOK
  <1>5. req' \in [Requests -> Request] /\ req'[r] = q /\ \A s \in Requests \ {r} : req'[s] = req[s]
    BY <1>4 DEF Goto, IInv, Tables
  <1> QED BY <1>1, <1>3, <1>5, Restate

(* The actions that do so. *)
LEMMA LoadingStep ==
    ASSUME IInv, NEW r \in Requests,
           \/ View(r)
           \/ \E id \in DOMAIN rows, m \in Members : execute(r, m, id) \/ cancel(r, m, id)
           \/ \E id \in DOMAIN rows : ExecuteProposal(r, id)
    PROVE  IInv'
  <1>1. CASE View(r)
    BY <1>1, LoadStep DEF View
  <1>2. ASSUME NEW id \in DOMAIN rows, ExecuteProposal(r, id)
        PROVE  IInv'
    <2>1. Goto(r, [pc |-> "loaded", id |-> id]) \/ Goto(r, Idle)
      BY <1>2 DEF ExecuteProposal
    <2>2. ExpireProposals /\ UNCHANGED <<sigs, network, now, pins>>
      BY <1>2 DEF ExecuteProposal
    <2> QED BY <2>1, <2>2, LoadStep
  <1>3. ASSUME NEW id \in DOMAIN rows, NEW m \in Members, cancel(r, m, id)
        PROVE  IInv'
    <2>1. Goto(r, [pc |-> "resolve", id |-> id, as |-> "cancelled"]) \/ Goto(r, Idle)
      BY <1>3 DEF cancel, CancelProposal
    <2>2. ExpireProposals /\ UNCHANGED <<sigs, network, now, pins>>
      BY <1>3 DEF cancel, CancelProposal
    <2> QED BY <2>1, <2>2, LoadStep
  <1> QED BY <1>1, <1>2, <1>3 DEF execute

(* approve, proposals and the sweep expire what is stale. *)
LEMMA SweepStep ==
    ASSUME IInv, ExpireProposals, UNCHANGED <<sigs, req, network, now, pins>>
    PROVE  IInv'
  <1>1. /\ rows' \in Seq(Row) /\ Len(rows') = Len(rows) /\ DOMAIN rows' = DOMAIN rows
        /\ \A i \in DOMAIN rows : Fixed(rows[i], rows'[i]) /\ RowOK(rows'[i], ledger[i], account)
    BY ExpiredRows DEF ExpireProposals
  <1>2. req' = req /\ req' \in [Requests -> Request]
    BY DEF IInv, Tables
  <1> QED BY <1>1, <1>2, Restate

(* ResolveProposal closes what is open with what the request knows. *)
LEMMA ResolveStep ==
    ASSUME IInv, NEW r \in Requests, ResolveProposal(r)
    PROVE  IInv'
  <1> DEFINE id == req[r].id
             as == req[r].as
  <1>1. /\ id \in DOMAIN rows /\ rows \in Seq(Row) /\ rows[id] \in Row
        /\ ReqOK(req[r], rows, ledger, account, reviewed) /\ req[r] \in Request
    BY About DEF ResolveProposal, At
  <1>2. as \in Status \ {"open"}
    BY <1>1, Shapes DEF ResolveProposal, At
  <1>3. /\ as = "executed" => ledger[id] # "none"
        /\ as = "failed" => Past(rows[id], ledger[id], account)
    BY <1>1 DEF ReqOK, ResolveProposal, At
  <1>4. /\ rows' = [rows EXCEPT ![id].status = IF @ = "open" THEN as ELSE @]
        /\ Goto(r, Idle) /\ UNCHANGED <<sigs, network, now, pins>>
    BY DEF ResolveProposal
  <1> DEFINE new == [rows[id] EXCEPT !.status = as]
  <1>5. /\ new \in Row /\ new.status = as /\ Fixed(rows[id], new)
        /\ Aimed(rows[id]) => Aimed(new)
    BY <1>1, <1>2, Relabelled
  <1>6. rows' = rows \/ rows' = [rows EXCEPT ![id] = new]
    <2>1. CASE rows[id].status = "open"
      BY <1>4, <2>1
    <2>2. CASE rows[id].status # "open"
      <3>1. rows[id] = [rows[id] EXCEPT !.status = rows[id].status]
        BY <1>1 DEF Row
      <3>2. rows' = [rows EXCEPT ![id] = rows[id]]
        BY <1>4, <2>2, <3>1
      <3> QED BY <1>1, <3>2
    <2> QED BY <2>1, <2>2
  <1>7. Past(rows[id], ledger[id], account) => Past(new, ledger[id], account)
    BY <1>5 DEF Past, Fixed
  <1>8. RowOK(new, ledger[id], account)
    <2>1. Aimed(rows[id])
      BY <1>1 DEF IInv, RowsOK, RowOK
    <2> HIDE DEF new, id, as
    <2> QED BY <1>3, <1>5, <1>7, <2>1 DEF RowOK
  <1> HIDE DEF new, as
  <1>9. rows' \in Seq(Row) /\ Len(rows') = Len(rows)
    BY <1>1, <1>5, <1>6
  <1>10. ASSUME NEW i \in DOMAIN rows
         PROVE  Fixed(rows[i], rows'[i]) /\ RowOK(rows'[i], ledger[i], account)
    <2>1. CASE rows'[i] = rows[i]
      <3>1. RowOK(rows'[i], ledger[i], account)
        BY <2>1 DEF IInv, RowsOK
      <3>2. Fixed(rows[i], rows'[i])
        BY <2>1 DEF Fixed
      <3> QED BY <3>1, <3>2
    <2>2. CASE i = id /\ rows'[i] = new
      BY <1>5, <1>8, <2>2
    <2>3. rows'[i] = rows[i] \/ (i = id /\ rows'[i] = new)
      <3> HIDE DEF id
      <3>1. CASE rows' = [rows EXCEPT ![id] = new]
        BY <1>1, <3>1
      <3> QED BY <1>6, <3>1
    <2> QED BY <2>1, <2>2, <2>3
  <1>11. Idle \in Request
    BY DEF Idle, Request
  <1>12. /\ req' \in [Requests -> Request] /\ req'[r] = Idle
         /\ \A s \in Requests \ {r} : req'[s] = req[s]
    BY <1>4, <1>11 DEF Goto, IInv, Tables
  <1> QED BY <1>4, <1>9, <1>10, <1>12, IdleOK, Restate

(* A sequence with one more at its end. *)
LEMMA Longer ==
    ASSUME NEW S, NEW s \in Seq(S), NEW x \in S
    PROVE  /\ Append(s, x) \in Seq(S) /\ Len(Append(s, x)) = Len(s) + 1
           /\ DOMAIN Append(s, x) = 1..(Len(s) + 1) /\ DOMAIN s = 1..Len(s) /\ Len(s) \in Nat
           /\ \A i \in DOMAIN s : Append(s, x)[i] = s[i]
           /\ Append(s, x)[Len(s) + 1] = x
  BY AppendProperties, LenProperties

(* The row a request opens. *)
NewRow(q, t) ==
    [treasury |-> q.draft.treasury, kind |-> q.draft.kind, amount |-> q.draft.amount,
     floor |-> q.draft.floor, callee |-> q.draft.callee, by |-> q.draft.by,
     seq |-> q.seq, created |-> t, expires |-> q.expires, status |-> "open"]

(* What CreateProposal leaves: the rows there were, and the new one. *)
LEMMA Created ==
    ASSUME IInv, NEW r \in Requests, CreateProposal(r)
    PROVE  LET n == Len(rows) + 1
               row == NewRow(req[r], now)
           IN  /\ row \in Row /\ Aimed(row) /\ row.status = "open"
               /\ row.treasury = req[r].draft.treasury /\ row.amount = req[r].draft.amount
               /\ req[r].draft \in Draft
               /\ rows' \in Seq(Row) /\ Len(rows') = n /\ Len(rows) \in Nat
               /\ DOMAIN rows = 1..Len(rows) /\ DOMAIN rows' = 1..n
               /\ rows'[n] = row /\ ledger' = Append(ledger, "none")
               /\ \A i \in DOMAIN rows :
                    /\ rows'[i] = Expired({req[r].draft.treasury})[i]
                    /\ ledger'[i] = ledger[i]
               /\ ledger' \in Seq({"none", "ok", "failed"}) /\ Len(ledger') = n
               /\ sigs' \in Seq(SUBSET Keys) /\ Len(sigs') = n
  <1> DEFINE d == req[r].draft
             row == NewRow(req[r], now)
             n == Len(rows) + 1
             E == Expired({d.treasury})
  <1>1. req[r].pc \in Drafting /\ req[r].pc = "create"
    BY DEF CreateProposal, At, Drafting
  <1>2. d \in Draft /\ Aimed(d) /\ req[r] \in Request
    BY <1>1, Drafted DEF IInv, Tables
  <1>3. req[r].seq \in Nat /\ req[r].expires \in Nat /\ now \in Nat
    BY <1>1, <1>2, Shapes, ProposalsAssumption DEF IInv, Tables
  <1>4. /\ row.treasury = d.treasury /\ row.kind = d.kind /\ row.amount = d.amount
        /\ row.callee = d.callee /\ row.status = "open"
    BY DEF NewRow
  <1>5. row \in Row
    <2> HIDE DEF d
    <2>1. "open" \in Status
      BY DEF Status
    <2>2. /\ d.treasury \in Treasuries /\ d.kind \in Kinds /\ d.amount \in Nat /\ d.floor \in Nat
          /\ d.callee \in Callees \cup {None} /\ d.by \in Members
      BY <1>2 DEF Draft
    <2> QED BY <1>3, <2>1, <2>2 DEF NewRow, Row, d
  <1>6. Aimed(row)
    <2> HIDE DEF row, d
    <2> QED BY <1>2, <1>4 DEF Aimed
  <1>7. rows' = Append(E, row) /\ ledger' = Append(ledger, "none") /\ sigs' = Append(sigs, {})
    BY DEF CreateProposal, NewRow
  <1>8. E \in Seq(Row) /\ Len(E) = Len(rows) /\ DOMAIN E = DOMAIN rows
    BY ExpiredRows
  <1>9. /\ ledger \in Seq({"none", "ok", "failed"}) /\ Len(ledger) = Len(rows)
        /\ sigs \in Seq(SUBSET Keys) /\ Len(sigs) = Len(rows) /\ {} \in SUBSET Keys
    BY DEF IInv, Tables
  <1> HIDE DEF row, E, d
  <1>10. /\ rows' \in Seq(Row) /\ Len(rows') = n /\ Len(rows) \in Nat
         /\ DOMAIN rows = 1..Len(rows) /\ DOMAIN rows' = 1..n /\ rows'[n] = row
         /\ \A i \in DOMAIN rows : rows'[i] = E[i]
    BY <1>5, <1>7, <1>8, Longer
  <1>11. /\ ledger' \in Seq({"none", "ok", "failed"}) /\ Len(ledger') = n
         /\ \A i \in DOMAIN ledger : ledger'[i] = ledger[i]
         /\ DOMAIN ledger = 1..Len(rows)
    BY <1>7, <1>9, Longer
  <1>12. sigs' \in Seq(SUBSET Keys) /\ Len(sigs') = n
    BY <1>7, <1>9, Longer
  <1>13. \A i \in DOMAIN rows : rows'[i] = E[i] /\ ledger'[i] = ledger[i]
    BY <1>10, <1>11
  <1> QED BY <1>2, <1>4, <1>5, <1>6, <1>7, <1>10, <1>11, <1>12, <1>13 DEF row, E, d

(* CreateProposal. *)
LEMMA CreateStep ==
    ASSUME IInv, NEW r \in Requests, CreateProposal(r)
    PROVE  IInv'
  <1> DEFINE n == Len(rows) + 1
             row == NewRow(req[r], now)
             E == Expired({req[r].draft.treasury})
  <1>1. /\ row \in Row /\ Aimed(row) /\ row.status = "open"
        /\ rows' \in Seq(Row) /\ Len(rows') = n /\ Len(rows) \in Nat
        /\ DOMAIN rows = 1..Len(rows) /\ DOMAIN rows' = 1..n
        /\ rows'[n] = row
        /\ \A i \in DOMAIN rows : rows'[i] = E[i] /\ ledger'[i] = ledger[i]
        /\ ledger' \in Seq({"none", "ok", "failed"}) /\ Len(ledger') = n
        /\ sigs' \in Seq(SUBSET Keys) /\ Len(sigs') = n
    BY Created
  <1>2. /\ Goto(r, Idle) /\ account' = account /\ flight' = flight /\ now' = now
        /\ allowed' = allowed /\ code' = code /\ reviewed' = reviewed /\ Len(rows) < MaxProposals
    BY DEF CreateProposal, pins
  <1>3. \A i \in DOMAIN rows : Fixed(rows[i], E[i]) /\ RowOK(E[i], ledger[i], account)
    BY ExpiredRows
  <1> HIDE DEF row, E
  <1>4. Idle \in Request
    BY DEF Idle, Request
  <1>5. /\ req' \in [Requests -> Request] /\ req'[r] = Idle
        /\ \A s \in Requests \ {r} : req'[s] = req[s]
    BY <1>2, <1>4 DEF Goto, IInv, Tables
  <1>6. DOMAIN rows \subseteq DOMAIN rows'
    BY <1>1
  <1>7. Tables'
    <2>1. flight' \subseteq [id: DOMAIN rows', sigs: SUBSET Keys]
      BY <1>2, <1>6 DEF IInv, Tables
    <2>2. Len(rows') <= MaxProposals
      BY <1>1, <1>2, ProposalsAssumption
    <2> QED BY <1>1, <1>2, <1>5, <2>1, <2>2 DEF IInv, Tables
  <1>8. RowsOK'
    <2> SUFFICES ASSUME NEW i \in DOMAIN rows'
                 PROVE  RowOK(rows'[i], ledger'[i], account')
      BY DEF RowsOK
    <2>1. CASE i \in DOMAIN rows
      BY <1>1, <1>2, <1>3, <2>1
    <2>2. CASE i = n
      <3>1. RowOK(row, ledger'[i], account')
        BY <1>1 DEF RowOK
      <3> QED BY <1>1, <2>2, <3>1
    <2> QED BY <1>1, <2>1, <2>2
  <1>9. PinsOK'
    BY <1>2 DEF IInv, PinsOK, AllowlistTypeOK
  <1>10. Steps
    <2>1. \A i \in DOMAIN rows : Fixed(rows[i], rows'[i]) /\ (ledger[i] # "none" => ledger'[i] # "none")
      BY <1>1, <1>3
    <2>2. \A t \in Treasuries : account[t].seq <= account'[t].seq
      BY <1>2, Still
    <2> QED BY <1>2, <1>6, <2>1, <2>2 DEF Steps, Goes
  <1> QED BY <1>5, <1>7, <1>8, <1>9, <1>10, IdleOK, Carry

(* AddSignature and Submit: a signature or a queued envelope, and on. *)
LEMMA HandOverStep ==
    ASSUME IInv, NEW r \in Requests, (\E k \in Keys : AddSignature(r, k)) \/ Submit(r)
    PROVE  IInv'
  <1> DEFINE id == req[r].id
  <1>1. /\ id \in DOMAIN rows /\ rows \in Seq(Row) /\ id \in Nat /\ req[r] \in Request
        /\ req[r].keys \in SUBSET Keys
    BY About, Shapes DEF AddSignature, Submit, At
  <1>2. /\ rows' = rows /\ ledger' = ledger /\ account' = account /\ reviewed' = reviewed
        /\ now' = now /\ allowed' = allowed /\ code' = code
    BY DEF AddSignature, Submit, store, network, pins
  <1>3. /\ sigs' \in Seq(SUBSET Keys) /\ Len(sigs') = Len(rows)
        /\ flight' \subseteq [id: DOMAIN rows, sigs: SUBSET Keys]
    <2>1. ASSUME NEW k \in Keys, AddSignature(r, k)
          PROVE  /\ sigs' \in Seq(SUBSET Keys) /\ Len(sigs') = Len(rows) /\ flight' = flight
      <3>1. sigs' = [sigs EXCEPT ![id] = @ \cup {k}] /\ flight' = flight
        BY <2>1 DEF AddSignature, network
      <3>2. sigs \in Seq(SUBSET Keys) /\ Len(sigs) = Len(rows) /\ id \in DOMAIN sigs
        BY <1>1 DEF IInv, Tables
      <3>3. sigs[id] \cup {k} \in SUBSET Keys
        BY <3>2
      <3> QED BY <3>1, <3>2, <3>3
    <2>2. CASE Submit(r)
      <3>1. sigs' = sigs /\ (flight' = flight \/ flight' = flight \cup {[id |-> id, sigs |-> req[r].keys]})
        BY <2>2 DEF Submit, store
      <3>2. [id |-> id, sigs |-> req[r].keys] \in [id: DOMAIN rows, sigs: SUBSET Keys]
        BY <1>1
      <3> QED BY <3>1, <3>2 DEF IInv, Tables
    <2> QED BY <2>1, <2>2 DEF IInv, Tables
  <1>4. PICK q : Goto(r, q) /\ ReqOK(q, rows, ledger, account, reviewed)
    <2>1. ASSUME NEW k \in Keys, AddSignature(r, k)
          PROVE  \E q : Goto(r, q) /\ ReqOK(q, rows, ledger, account, reviewed)
      <3> DEFINE left == req[r].keys \ {k}
                 s == [pc |-> "sign", id |-> id, keys |-> left]
      <3>1. Goto(r, [pc |-> "view", id |-> id]) \/ Goto(r, s)
        BY <2>1 DEF AddSignature
      <3>2. s \in Request
        BY <1>1 DEF Request
      <3>3. DOMAIN s = {"pc", "id", "keys"} /\ s.pc = "sign" /\ s.id = id
        OBVIOUS
      <3> HIDE DEF s, id
      <3>4. ReqOK(s, rows, ledger, account, reviewed)
        BY <1>1, <3>2, <3>3 DEF ReqOK, Drafting
      <3>5. ReqOK([pc |-> "view", id |-> id], rows, ledger, account, reviewed)
        BY <1>1, LookOK
      <3> QED BY <3>1, <3>4, <3>5
    <2>2. CASE Submit(r)
      <3>1. Goto(r, [pc |-> "waiting", id |-> id])
        BY <2>2 DEF Submit
      <3>2. ReqOK([pc |-> "waiting", id |-> id], rows, ledger, account, reviewed)
        BY <1>1, LookOK
      <3> QED BY <3>1, <3>2
    <2> QED BY <2>1, <2>2
  <1>5. q \in Request
    BY <1>4 DEF ReqOK
  <1>6. req' \in [Requests -> Request] /\ req'[r] = q /\ \A s \in Requests \ {r} : req'[s] = req[s]
    BY <1>4, <1>5 DEF Goto, IInv, Tables
  <1>7. Tables'
    BY <1>2, <1>3, <1>6 DEF IInv, Tables
  <1>8. RowsOK' /\ PinsOK'
    BY <1>2 DEF IInv, RowsOK, PinsOK, AllowlistTypeOK
  <1>9. Steps
    BY <1>2, Still DEF Steps
  <1> QED BY <1>2, <1>4, <1>6, <1>7, <1>8, <1>9, Carry

--------------------------------------------------------------------------------
(* The list of contracts, and the world outside. *)

(* What changes neither rows nor the ledger nor takes a sequence number back. *)
LEMMA OutsideStep ==
    ASSUME IInv, rows' = rows, sigs' = sigs, ledger' = ledger, flight' = flight,
           account' \in [Treasuries -> Account],
           \A t \in Treasuries : account[t].seq <= account'[t].seq,
           now' \in 0..MaxTime, PinsOK',
           \A o \in Orgs, c \in Callees : reviewed[o][c] \subseteq reviewed'[o][c],
           req' \in [Requests -> Request],
           \A r \in Requests : req'[r] = req[r] \/ req'[r] = Idle
    PROVE  IInv'
  <1>1. Tables'
    BY DEF IInv, Tables
  <1>2. Steps
    BY Still DEF Steps, Goes
  <1>3. RowsOK'
    <2> SUFFICES ASSUME NEW i \in DOMAIN rows PROVE RowOK(rows[i], ledger[i], account')
      BY DEF RowsOK
    <2>1. RowOK(rows[i], ledger[i], account)
      BY DEF IInv, RowsOK
    <2>2. rows[i].treasury \in Treasuries /\ rows[i].seq \in Nat
      BY <2>1 DEF RowOK, Row
    <2>3. /\ account[rows[i].treasury].seq <= account'[rows[i].treasury].seq
          /\ account[rows[i].treasury].seq \in Nat /\ account'[rows[i].treasury].seq \in Nat
      BY <2>2 DEF IInv, Tables, Account
    <2>4. Past(rows[i], ledger[i], account) => Past(rows[i], ledger[i], account')
      BY <2>2, <2>3 DEF Past
    <2> QED BY <2>1, <2>4 DEF RowOK
  <1>4. \A r \in Requests :
          req'[r] = req[r] \/ ReqOK(req'[r], rows', ledger', account', reviewed')
    BY IdleOK
  <1> QED BY <1>1, <1>2, <1>3, <1>4, Carry

(* Allow, contractRemove and Upgrade. *)
LEMMA PinStep ==
    ASSUME IInv,
           \/ \E r \in Requests : Allow(r)
           \/ \E m \in Members, c \in Callees : contractRemove(m, c)
           \/ \E c \in Callees, new \in Codes : Upgrade(c, new)
    PROVE  IInv'
  <1>1. /\ rows' = rows /\ sigs' = sigs /\ ledger' = ledger /\ flight' = flight
        /\ account' = account /\ now' = now
    BY DEF Allow, contractRemove, Upgrade, store, network
  <1>2. req' \in [Requests -> Request] /\ \A r \in Requests : req'[r] = req[r] \/ req'[r] = Idle
    <2>1. Idle \in Request
      BY DEF Idle, Request
    <2> QED BY <2>1 DEF Allow, contractRemove, Upgrade, Goto, IInv, Tables
  <1>3. /\ account' \in [Treasuries -> Account] /\ now' \in 0..MaxTime
        /\ \A t \in Treasuries : account[t].seq <= account'[t].seq
    BY <1>1, Still DEF IInv, Tables
  <1>4. PinsOK' /\ \A o \in Orgs, c \in Callees : reviewed[o][c] \subseteq reviewed'[o][c]
    <2>1. ASSUME NEW r \in Requests, Allow(r)
          PROVE  PinsOK' /\ \A o \in Orgs, c \in Callees : reviewed[o][c] \subseteq reviewed'[o][c]
      <3> DEFINE o == req[r].org
                 c == req[r].callee
                 pin == req[r].pin
      <3>1. o \in Orgs /\ c \in Callees /\ pin \in Codes
        BY <2>1, Shapes DEF Allow, At, IInv, Tables
      <3>2. /\ allowed' = [allowed EXCEPT ![o][c] = pin]
            /\ reviewed' = [reviewed EXCEPT ![o][c] = @ \cup {pin}] /\ code' = code
        BY <2>1 DEF Allow, AllowContract
      <3> HIDE DEF o, c, pin
      <3>3. AllowlistTypeOK'
        BY <3>1, <3>2 DEF IInv, PinsOK, AllowlistTypeOK
      <3>4. ASSUME NEW p \in Orgs, NEW d \in Callees
            PROVE  /\ reviewed[p][d] \subseteq reviewed'[p][d]
                   /\ allowed'[p][d] # None => allowed'[p][d] \in reviewed'[p][d]
        <4>1. CASE p = o /\ d = c
          BY <3>1, <3>2, <4>1 DEF IInv, PinsOK, AllowlistTypeOK
        <4>2. CASE ~(p = o /\ d = c)
          <5>1. allowed'[p][d] = allowed[p][d] /\ reviewed'[p][d] = reviewed[p][d]
            BY <3>1, <3>2, <4>2 DEF IInv, PinsOK, AllowlistTypeOK
          <5> QED BY <5>1 DEF IInv, PinsOK
        <4> QED BY <4>1, <4>2
      <3> QED BY <3>3, <3>4 DEF PinsOK
    <2>2. ASSUME NEW m \in Members, NEW c \in Callees, contractRemove(m, c)
          PROVE  PinsOK' /\ \A o \in Orgs, d \in Callees : reviewed[o][d] \subseteq reviewed'[o][d]
      <3> DEFINE o == Home[m]
      <3>1. o \in Orgs
        BY ProposalsAssumption
      <3>2. allowed' = [allowed EXCEPT ![o][c] = None] /\ reviewed' = reviewed /\ code' = code
        BY <2>2 DEF contractRemove, DisallowContract
      <3> HIDE DEF o
      <3>3. AllowlistTypeOK'
        BY <3>1, <3>2 DEF IInv, PinsOK, AllowlistTypeOK
      <3>4. ASSUME NEW p \in Orgs, NEW d \in Callees, allowed'[p][d] # None
            PROVE  allowed'[p][d] \in reviewed'[p][d]
        BY <3>1, <3>2, <3>4 DEF IInv, PinsOK, AllowlistTypeOK
      <3> QED BY <3>2, <3>3, <3>4 DEF PinsOK
    <2>3. ASSUME NEW c \in Callees, NEW new \in Codes, Upgrade(c, new)
          PROVE  PinsOK' /\ \A o \in Orgs, d \in Callees : reviewed[o][d] \subseteq reviewed'[o][d]
      BY <2>3 DEF Upgrade, Replace, IInv, PinsOK, AllowlistTypeOK
    <2> QED BY <2>1, <2>2, <2>3
  <1> QED BY <1>1, <1>2, <1>3, <1>4, OutsideStep

(* Foreign, ChangeSigners and Tick. *)
LEMMA WorldStep ==
    ASSUME IInv,
           \/ \E t \in Treasuries : Foreign(t)
           \/ \E t \in Treasuries, set \in SignerSets : ChangeSigners(t, set)
           \/ Tick
    PROVE  IInv'
  <1>1. /\ rows' = rows /\ sigs' = sigs /\ ledger' = ledger /\ flight' = flight /\ req' = req
        /\ allowed' = allowed /\ code' = code /\ reviewed' = reviewed
    BY DEF Foreign, ChangeSigners, Tick, store, network, pins
  <1>2. now' \in 0..MaxTime
    BY ProposalsAssumption DEF Foreign, ChangeSigners, Tick, IInv, Tables
  <1>3. /\ account' \in [Treasuries -> Account]
        /\ \A t \in Treasuries : account[t].seq <= account'[t].seq
    <2>0. account \in [Treasuries -> Account]
      BY DEF IInv, Tables
    <2>1. ASSUME NEW t \in Treasuries, NEW a \in Account, account[t].seq <= a.seq,
                 account' = [account EXCEPT ![t] = a]
          PROVE  /\ account' \in [Treasuries -> Account]
                 /\ \A u \in Treasuries : account[u].seq <= account'[u].seq
      BY <2>0, <2>1, Still
    <2>2. ASSUME NEW t \in Treasuries, Foreign(t)
          PROVE  /\ account' \in [Treasuries -> Account]
                 /\ \A u \in Treasuries : account[u].seq <= account'[u].seq
      <3> DEFINE a == [account[t] EXCEPT !.seq = @ + 1]
      <3>1. account' = [account EXCEPT ![t] = a]
        BY <2>2 DEF Foreign
      <3>2. a \in Account /\ account[t].seq <= a.seq
        BY <2>0 DEF Account
      <3> HIDE DEF a
      <3> QED BY <2>1, <3>1, <3>2
    <2>3. ASSUME NEW t \in Treasuries, NEW set \in SignerSets, ChangeSigners(t, set)
          PROVE  /\ account' \in [Treasuries -> Account]
                 /\ \A u \in Treasuries : account[u].seq <= account'[u].seq
      <3> DEFINE a == [account[t] EXCEPT !.set = set]
      <3>1. account' = [account EXCEPT ![t] = a]
        BY <2>3 DEF ChangeSigners
      <3>2. set \in SignerSet
        BY ProposalsAssumption
      <3>3. a \in Account /\ account[t].seq <= a.seq
        BY <2>0, <3>2 DEF Account
      <3> HIDE DEF a
      <3> QED BY <2>1, <3>1, <3>3
    <2>4. CASE Tick
      <3>1. account' = account
        BY <2>4 DEF Tick, network
      <3> QED BY <2>0, <3>1, Still
    <2> QED BY <2>2, <2>3, <2>4
  <1>4. /\ PinsOK' /\ req' \in [Requests -> Request]
        /\ \A o \in Orgs, c \in Callees : reviewed[o][c] \subseteq reviewed'[o][c]
    BY <1>1 DEF IInv, PinsOK, AllowlistTypeOK, Tables
  <1> QED BY <1>1, <1>2, <1>3, <1>4, OutsideStep

(* Include: the sequence number is used, and the envelope is on the ledger. *)
LEMMA IncludeStep ==
    ASSUME IInv, NEW f \in flight, Include(f)
    PROVE  IInv'
  <1> DEFINE id == f.id
             t == rows[id].treasury
             a == [account[t] EXCEPT !.seq = rows[id].seq]
  <1>1. id \in DOMAIN rows /\ rows[id] \in Row /\ t \in Treasuries /\ rows[id].seq \in Nat
    <2>1. f \in [id: DOMAIN rows, sigs: SUBSET Keys] /\ rows \in Seq(Row)
      BY DEF IInv, Tables
    <2>2. id \in DOMAIN rows
      BY <2>1
    <2>3. rows[id] \in Row
      BY <2>1, <2>2
    <2> QED BY <2>2, <2>3 DEF Row
  <1>2. /\ rows' = rows /\ sigs' = sigs /\ req' = req /\ now' = now /\ flight' \subseteq flight
        /\ allowed' = allowed /\ code' = code /\ reviewed' = reviewed
    BY DEF Include, store, pins
  <1>3. account' = [account EXCEPT ![t] = a] /\ account[t].seq + 1 = rows[id].seq
    BY DEF Include, Valid
  <1>4. account \in [Treasuries -> Account]
    BY DEF IInv, Tables
  <1>5. a \in Account /\ a.seq = rows[id].seq /\ account[t].seq \in Nat
    BY <1>1, <1>4 DEF Account
  <1>6. account[t].seq <= a.seq
    BY <1>1, <1>3, <1>5
  <1> HIDE DEF a, t
  <1>7. /\ account' \in [Treasuries -> Account]
        /\ \A u \in Treasuries : account[u].seq <= account'[u].seq
    BY <1>1, <1>3, <1>4, <1>5, <1>6, Still
  <1>8. PICK result \in {"ok", "failed"} : ledger' = [ledger EXCEPT ![id] = result]
    BY DEF Include
  <1>9. ledger \in Seq({"none", "ok", "failed"}) /\ Len(ledger) = Len(rows) /\ id \in DOMAIN ledger
    BY <1>1 DEF IInv, Tables
  <1>10. /\ ledger' \in Seq({"none", "ok", "failed"}) /\ Len(ledger') = Len(rows)
         /\ DOMAIN ledger' = DOMAIN ledger /\ DOMAIN ledger = DOMAIN rows
    BY <1>8, <1>9 DEF IInv, Tables
  <1> HIDE DEF id
  <1>11. \A i \in DOMAIN rows : ledger[i] # "none" => ledger'[i] # "none"
    BY <1>8, <1>9, <1>10
  <1>12. Tables'
    BY <1>2, <1>7, <1>10 DEF IInv, Tables
  <1>13. Steps
    BY <1>2, <1>7, <1>11, Still DEF Steps, Goes
  <1>14. RowsOK'
    <2> SUFFICES ASSUME NEW i \in DOMAIN rows PROVE RowOK(rows[i], ledger'[i], account')
      BY <1>2 DEF RowsOK
    <2>1. RowOK(rows[i], ledger[i], account)
      BY DEF IInv, RowsOK
    <2>2. rows[i].treasury \in Treasuries /\ rows[i].seq \in Nat
      BY <2>1 DEF RowOK, Row
    <2>3. /\ account[rows[i].treasury].seq <= account'[rows[i].treasury].seq
          /\ account[rows[i].treasury].seq \in Nat /\ account'[rows[i].treasury].seq \in Nat
      BY <1>4, <1>7, <2>2 DEF Account
    <2>4. Past(rows[i], ledger[i], account) => Past(rows[i], ledger'[i], account')
      BY <1>11, <2>2, <2>3 DEF Past
    <2> QED BY <1>11, <2>1, <2>4 DEF RowOK
  <1>15. PinsOK'
    BY <1>2 DEF IInv, PinsOK, AllowlistTypeOK
  <1> QED BY <1>2, <1>12, <1>13, <1>14, <1>15, Carry

--------------------------------------------------------------------------------
(* The first state. *)
LEMMA InitIInv == Init => IInv
  <1> SUFFICES ASSUME Init PROVE IInv
    OBVIOUS
  <1>1. Idle \in Request
    BY DEF Idle, Request
  <1>2. account \in [Treasuries -> Account]
    <2>1. [seq: {0}, set: SignerSets] \subseteq Account
      BY ProposalsAssumption DEF Account
    <2> QED BY <2>1 DEF Init
  <1>3. /\ rows = <<>> /\ sigs = <<>> /\ ledger = <<>> /\ flight = {} /\ now = 0
        /\ req = [r \in Requests |-> Idle]
    BY DEF Init
  <1>4. Tables
    BY <1>1, <1>2, <1>3, ProposalsAssumption DEF Tables
  <1>5. RowsOK
    BY <1>3 DEF RowsOK
  <1>6. RequestsOK
    BY <1>3, IdleOK DEF RequestsOK
  <1>7. PinsOK
    BY DEF Init, AllowlistInit, PinsOK, AllowlistTypeOK
  <1> QED BY <1>4, <1>5, <1>6, <1>7 DEF IInv

(* Every step keeps the invariant. *)
LEMMA NextIInv == IInv /\ [Next]_vars => IInv'
  <1> SUFFICES ASSUME IInv, [Next]_vars PROVE IInv'
    OBVIOUS
  <1>1. ASSUME NEW r \in Requests, Serve(r)
        PROVE  IInv'
    BY <1>1, AskStep, ProposingStep, CreateStep, ApprovingStep, HandOverStep, LoadingStep,
       ApplyStep, CheckingStep, AnsweringStep, ResolveStep, EndingStep, PinStep
    DEF Serve
  <1>2. CASE Statements
    <2>1. ASSUME NEW m \in Members, proposals(m) PROVE IInv'
      BY <2>1, SweepStep DEF proposals
    <2>2. ASSUME NEW id \in DOMAIN rows, NEW m \in Members, approve(m, id) PROVE IInv'
      BY <2>2, SweepStep DEF approve
    <2> QED BY <1>2, <2>1, <2>2, PinStep DEF Statements
  <1>3. CASE Sweep
    BY <1>3, SweepStep DEF Sweep
  <1>4. CASE World
    BY <1>4, IncludeStep, WorldStep, PinStep DEF World
  <1>5. CASE UNCHANGED vars
    BY <1>5, SweepStep, OutsideStep, Still DEF vars, store, network, pins, IInv, Tables, PinsOK,
       AllowlistTypeOK
  <1> QED BY <1>1, <1>2, <1>3, <1>4, <1>5 DEF Next

(* Each row and each request rests on what has happened. *)
THEOREM ProposalsSound == Spec => []IInv
  BY InitIInv, NextIInv, PTL DEF Spec

(* The tables, the requests and the network's view keep their types. *)
THEOREM TypeCorrect == Spec => []TypeOK
  BY IInvType, ProposalsSound, PTL

(* A proposal is recorded as executed only if its envelope is on the ledger,    *)
(* whatever races, timeouts and restarts there were.                            *)
THEOREM ExecutedNeedsLedger == Spec => []ExecutedIsOnLedger
  BY IInvType, ProposalsSound, PTL

(* Only Include and CreateProposal write to the ledger. *)
LEMMA LedgerWrites ==
    ASSUME [Next]_vars
    PROVE  \/ ledger' = ledger
           \/ \E f \in flight : Include(f)
           \/ \E r \in Requests : CreateProposal(r)
  <1>1. ASSUME NEW r \in Requests, Serve(r), ~CreateProposal(r)
        PROVE  ledger' = ledger
    <2>1. CASE AskAny(r)
      BY <2>1 DEF AskAny, pay, trust, swap, invoke, restore, call, network
    <2>2. CASE \/ ProposeInvoke(r) \/ ProposeRestore(r) \/ CheckWorkspaceDay(r)
               \/ CheckDeploymentDay(r) \/ Build(r) \/ View(r)
      BY <2>2 DEF ProposeInvoke, ProposeRestore, Pinned, CheckWorkspaceDay, CheckDeploymentDay,
                  Build, View, network
    <2>3. CASE \/ \E id \in DOMAIN rows, keys \in Handovers : Approve(r, id, keys)
               \/ \E k \in Keys : AddSignature(r, k)
               \/ \E id \in DOMAIN rows, m \in Members : execute(r, m, id) \/ cancel(r, m, id)
               \/ \E id \in DOMAIN rows : ExecuteProposal(r, id)
      BY <2>3 DEF Approve, AddSignature, execute, cancel, ExecuteProposal, CancelProposal, network
    <2>4. CASE \/ SequenceGuard(r) \/ applySignatures(r) \/ Requote(r) \/ LookUpCallee(r)
               \/ PinnedStill(r) \/ Submit(r) \/ Refused(r) \/ Answered(r) \/ Unanswered(r)
      BY <2>4 DEF SequenceGuard, applySignatures, Requote, LookUpCallee, PinnedStill, Submit,
                  Refused, Answered, Unanswered, network
    <2>5. CASE \/ LookupTransaction(r) \/ ResolveProposal(r) \/ Allow(r) \/ Quit(r)
               \/ \E m \in Members, c \in Callees : contractAllow(r, m, c)
      BY <2>5 DEF LookupTransaction, ResolveProposal, Allow, Quit, contractAllow, network
    <2> QED BY <2>1, <2>2, <1>1, <2>3, <2>4, <2>5 DEF Serve
  <1>2. CASE Statements \/ Sweep \/ UNCHANGED vars
    BY <1>2 DEF Statements, Sweep, vars, proposals, approve, contractRemove, network
  <1>3. ASSUME World, \A f \in flight : ~Include(f)
        PROVE  ledger' = ledger
    BY <1>3 DEF World, Foreign, ChangeSigners, Upgrade, Tick, network
  <1> QED BY <1>1, <1>2, <1>3 DEF Next

(* A proposal recorded as failed is past saving: if it has not landed by then,  *)
(* it never will.                                                               *)
THEOREM FailureIsFinal == Spec => FailedIsDead
  <1> DEFINE A == \A i \in DOMAIN rows :
                    rows[i].status = "failed" /\ ledger[i] # "ok" => ledger'[i] # "ok"
  <1>1. ASSUME IInv, [Next]_vars
        PROVE  A
    <2> SUFFICES ASSUME NEW i \in DOMAIN rows, rows[i].status = "failed", ledger[i] # "ok"
                 PROVE  ledger'[i] # "ok"
      OBVIOUS
    <2>1. CASE ledger' = ledger
      BY <2>1
    <2>2. ASSUME NEW f \in flight, Include(f)
          PROVE  ledger'[i] # "ok"
      <3>1. PICK result : ledger' = [ledger EXCEPT ![f.id] = result]
        BY <2>2 DEF Include
      <3>2. CASE i # f.id
        <4>1. ledger'[i] = ledger[i]
          BY <1>1, <3>1, <3>2 DEF IInv, Tables
        <4> QED BY <4>1
      <3>3. CASE i = f.id
        <4>1. ledger[i] = "none" /\ account[rows[i].treasury].seq + 1 = rows[i].seq
          BY <2>2, <3>3 DEF Include, Valid
        <4>2. RowOK(rows[i], ledger[i], account)
          BY <1>1 DEF IInv, RowsOK
        <4>3. rows[i].seq <= account[rows[i].treasury].seq
          BY <4>1, <4>2 DEF RowOK, Past
        <4>4. rows[i].treasury \in Treasuries
          BY <4>2 DEF RowOK, Row
        <4>5. account[rows[i].treasury].seq \in Nat
          BY <1>1, <4>4 DEF IInv, Tables, Account
        <4> QED BY <4>1, <4>3, <4>5
      <3> QED BY <3>2, <3>3
    <2>3. ASSUME NEW r \in Requests, CreateProposal(r)
          PROVE  ledger'[i] # "ok"
      <3>1. ledger'[i] = ledger[i]
        BY <1>1, <2>3, Created
      <3> QED BY <3>1
    <2> QED BY <1>1, <2>1, <2>2, <2>3, LedgerWrites
  <1>2. IInv /\ [Next]_vars => [A]_vars
    BY <1>1
  <1> QED BY <1>2, ProposalsSound, PTL DEF Spec, FailedIsDead

(* Only Submit queues an envelope. *)
LEMMA Queues ==
    ASSUME [Next]_vars
    PROVE  flight' \subseteq flight \/ \E r \in Requests : Submit(r)
  <1>1. ASSUME NEW r \in Requests, Serve(r), ~Submit(r)
        PROVE  flight' = flight
    <2>1. CASE AskAny(r)
      BY <2>1 DEF AskAny, pay, trust, swap, invoke, restore, call, network
    <2>2. CASE \/ ProposeInvoke(r) \/ ProposeRestore(r) \/ CheckWorkspaceDay(r)
               \/ CheckDeploymentDay(r) \/ Build(r) \/ View(r) \/ CreateProposal(r)
      BY <2>2 DEF ProposeInvoke, ProposeRestore, Pinned, CheckWorkspaceDay, CheckDeploymentDay,
                  Build, View, CreateProposal, network
    <2>3. CASE \/ \E id \in DOMAIN rows, keys \in Handovers : Approve(r, id, keys)
               \/ \E k \in Keys : AddSignature(r, k)
               \/ \E id \in DOMAIN rows, m \in Members : execute(r, m, id) \/ cancel(r, m, id)
               \/ \E id \in DOMAIN rows : ExecuteProposal(r, id)
      BY <2>3 DEF Approve, AddSignature, execute, cancel, ExecuteProposal, CancelProposal, network
    <2>4. CASE \/ SequenceGuard(r) \/ applySignatures(r) \/ Requote(r) \/ LookUpCallee(r)
               \/ PinnedStill(r) \/ Refused(r) \/ Answered(r) \/ Unanswered(r)
      BY <2>4 DEF SequenceGuard, applySignatures, Requote, LookUpCallee, PinnedStill,
                  Refused, Answered, Unanswered, network
    <2>5. CASE \/ LookupTransaction(r) \/ ResolveProposal(r) \/ Allow(r) \/ Quit(r)
               \/ \E m \in Members, c \in Callees : contractAllow(r, m, c)
      BY <2>5 DEF LookupTransaction, ResolveProposal, Allow, Quit, contractAllow, network
    <2> QED BY <2>1, <2>2, <1>1, <2>3, <2>4, <2>5 DEF Serve
  <1>2. CASE Statements \/ Sweep \/ UNCHANGED vars
    BY <1>2 DEF Statements, Sweep, vars, proposals, approve, contractRemove, network
  <1>3. CASE World
    BY <1>3 DEF World, Include, Foreign, ChangeSigners, Upgrade, Tick, network
  <1> QED BY <1>1, <1>2, <1>3 DEF Next

(* No call is handed to the network while its contract runs code its workspace  *)
(* never pinned, unless it was replaced after the request had looked.           *)
THEOREM OnlyPinnedCode == Spec => UnseenCodeIsRefused
  <1> DEFINE A == \A f \in flight' \ flight :
                    LET p == rows[f.id]
                    IN  p.kind = "invoke" =>
                          \/ code[p.callee] \in reviewed[OrgOf[p.treasury]][p.callee]
                          \/ \E r \in Requests :
                               /\ At(r, "submit") /\ req[r].id = f.id
                               /\ req[r].seen # code[p.callee]
  <1>1. ASSUME IInv, [Next]_vars
        PROVE  A
    <2> SUFFICES ASSUME NEW f \in flight' \ flight, rows[f.id].kind = "invoke"
                 PROVE  \/ code[rows[f.id].callee] \in Pin(rows[f.id], reviewed)
                        \/ \E r \in Requests :
                             /\ At(r, "submit") /\ req[r].id = f.id
                             /\ req[r].seen # code[rows[f.id].callee]
      BY DEF Pin
    <2>1. PICK r \in Requests : Submit(r)
      BY <1>1, Queues
    <2>2. At(r, "submit") /\ req[r].id = f.id
      BY <2>1 DEF Submit
    <2>3. ReqOK(req[r], rows, ledger, account, reviewed)
      BY <1>1 DEF IInv, RequestsOK
    <2>4. req[r].seen \in Pin(rows[f.id], reviewed)
      BY <2>2, <2>3 DEF ReqOK, At
    <2> QED BY <2>2, <2>4
  <1>2. IInv /\ [Next]_vars => [A]_vars
    BY <1>1
  <1> QED BY <1>2, ProposalsSound, PTL DEF Spec, UnseenCodeIsRefused

--------------------------------------------------------------------------------
(***************************************************************************)
(* The ceilings.  What is committed and what the requests that have passed *)
(* the check are about to commit are bounded together: each check bounds   *)
(* what it saw with its own payment, and every other request adds at most  *)
(* one payment to that.                                                    *)
(***************************************************************************)
Counts == {"open", "executed"}
Amounts(R) == [i \in DOMAIN R |-> R[i].amount]
LiveRows(R, T, t) ==
    {i \in DOMAIN R : R[i].treasury \in T /\ R[i].created > t - Day /\ R[i].status \in Counts}
\* What a request past the check is about to commit.
Due(q, T, P) == IF q.pc \in P /\ q.draft.treasury \in T THEN q.draft.amount ELSE 0
Dues(Q, T, P) == [r \in Requests |-> Due(Q[r], T, P)]
Moved(R, T, t) == Sum(Amounts(R), LiveRows(R, T, t))
Owed(Q, T, P) == Sum(Dues(Q, T, P), Requests)
Bounded(R, t, Q, T, P, D, b) == Moved(R, T, t) + Owed(Q, T, P) <= D + Racing * b

PastWorkspace == {"deployment", "build", "create"}
PastDeployment == {"build", "create"}
SmallDraft(q) ==
    q.pc \in Drafting =>
      /\ Within(Policy[OrgOf[q.draft.treasury]].PerPayment, q.draft.amount)
      /\ Within(MaxPayment, q.draft.amount)
      /\ q.pc = "pin" => q.draft.amount = 0
WorkspaceBound(org) ==
    Policy[org].Daily > 0 /\ Policy[org].PerPayment > 0 =>
      Bounded(rows, now, req, TreasuriesOf(org), PastWorkspace, Policy[org].Daily,
              Policy[org].PerPayment)
DeploymentBound ==
    MaxDaily > 0 /\ MaxPayment > 0 =>
      Bounded(rows, now, req, Treasuries, PastDeployment, MaxDaily, MaxPayment)
SpendInv ==
    /\ \A r \in Requests : SmallDraft(req[r])
    /\ \A org \in Orgs : WorkspaceBound(org)
    /\ DeploymentBound

(* The amounts of the rows are natural numbers, and there are finitely many. *)
LEMMA AmountsType ==
    ASSUME NEW R \in Seq(Row)
    PROVE  /\ IsFiniteSet(DOMAIN R) /\ Amounts(R) \in [DOMAIN R -> Nat]
           /\ DOMAIN Amounts(R) = DOMAIN R
  <1>1. DOMAIN R = 1..Len(R) /\ Len(R) \in Nat
    OBVIOUS
  <1>2. IsFiniteSet(DOMAIN R)
    BY <1>1, FS_Interval
  <1>3. ASSUME NEW i \in DOMAIN R PROVE R[i].amount \in Nat
    <2>1. R[i] \in Row
      OBVIOUS
    <2> QED BY <2>1 DEF Row
  <1> QED BY <1>2, <1>3 DEF Amounts

(* The sum of the store is that sum. *)
LEMMA StoreSum ==
    ASSUME NEW R \in Seq(Row), NEW S, S \subseteq DOMAIN R
    PROVE  MapThenSumSet(LAMBDA i : R[i].amount, S) = Sum(Amounts(R), S)
  <1> DEFINE f == Amounts(R)
             Rec(g) == g = [s \in SUBSET S |->
                     IF s = {} THEN 0
                     ELSE R[CHOOSE x \in s : TRUE].amount + g[s \ {CHOOSE x \in s : TRUE}]]
             it == CHOOSE g : Rec(g)
  <1>1. MapThenSumSet(LAMBDA i : R[i].amount, S) = it[S]
    BY DEF MapThenSumSet, MapThenFoldSet
  <1>2. IsFiniteSet(S) /\ IsFiniteSet(DOMAIN f) /\ DOMAIN f = DOMAIN R
    BY AmountsType, FS_Subset
  <1>3. ASSUME NEW s \in SUBSET S, s # {}
        PROVE  f[Pick(s)] = R[Pick(s)].amount
    <2>1. Pick(s) \in DOMAIN R
      BY <1>3, Picked
    <2> QED BY <2>1 DEF Amounts
  <1>4. ASSUME NEW g
        PROVE  Rec(g) <=> Adds(g, f, S)
    <2>1. \A s \in SUBSET S :
            (IF s = {} THEN 0
             ELSE R[CHOOSE x \in s : TRUE].amount + g[s \ {CHOOSE x \in s : TRUE}])
            = (IF s = {} THEN 0 ELSE f[Pick(s)] + g[s \ {Pick(s)}])
      <3> HIDE DEF f
      <3> QED BY <1>3 DEF Pick
    <2> HIDE DEF f
    <2> QED BY <2>1 DEF Adds
  <1>5. \E g : Adds(g, f, S)
    BY <1>2, AddsExists
  <1> HIDE DEF f
  <1>6. \E g : Rec(g)
    <2>1. PICK g : Adds(g, f, S)
      BY <1>5
    <2>2. Rec(g)
      <3> HIDE DEF Rec
      <3> QED BY <1>4, <2>1
    <2> QED BY <2>2
  <1>7. Rec(it)
    <2> HIDE DEF Rec
    <2> QED BY <1>6
  <1>8. Adds(it, f, S)
    <2> HIDE DEF Rec, it
    <2> QED BY <1>4, <1>7
  <1> HIDE DEF it, Rec
  <1>9. PICK k : Adds(k, f, DOMAIN f) /\ \A T : Sum(f, T) = k[T]
    BY <1>2, SumIsAdds
  <1>10. it[S] = k[S]
    BY <1>2, <1>8, <1>9, AddsAgree
  <1> QED BY <1>1, <1>9, <1>10 DEF f

(* ProposedSince and Committed are the same sum: the check sees what counts. *)
LEMMA CommittedIsSpent ==
    ASSUME IInv, NEW T
    PROVE  /\ ProposedSince(T, now - Day) = Moved(rows, T, now)
           /\ Committed(T) = Moved(rows, T, now)
  <1>1. rows \in Seq(Row) /\ \A i \in DOMAIN rows : rows[i] \in Row
    BY DEF IInv, Tables
  <1> DEFINE S == {i \in DOMAIN rows : /\ rows[i].treasury \in T
                                       /\ rows[i].created > now - Day
                                       /\ rows[i].status \in {"open", "executed"}}
             C == {i \in DOMAIN rows :
                     /\ rows[i].treasury \in T /\ now - rows[i].created < Day
                     /\ rows[i].status \notin {"failed", "cancelled", "expired"}}
  <1>2. S = LiveRows(rows, T, now)
    BY DEF LiveRows, Counts
  <1>3. \A i \in DOMAIN rows :
          /\ (rows[i].created > now - Day) <=> (now - rows[i].created < Day)
          /\ (rows[i].status \in {"open", "executed"})
               <=> (rows[i].status \notin {"failed", "cancelled", "expired"})
    <2> SUFFICES ASSUME NEW i \in DOMAIN rows
                 PROVE  /\ (rows[i].created > now - Day) <=> (now - rows[i].created < Day)
                        /\ (rows[i].status \in {"open", "executed"})
                             <=> (rows[i].status \notin {"failed", "cancelled", "expired"})
      OBVIOUS
    <2>1. rows[i].created \in Nat /\ rows[i].status \in Status
      BY <1>1 DEF Row
    <2>2. now \in Nat /\ Day \in Nat
      BY ProposalsAssumption DEF IInv, Tables
    <2> QED BY <2>1, <2>2 DEF Status
  <1>4. C = S
    BY <1>3
  <1>5. ProposedSince(T, now - Day) = MapThenSumSet(LAMBDA i : rows[i].amount, S)
    BY DEF ProposedSince
  <1>6. Committed(T) = MapThenSumSet(LAMBDA i : rows[i].amount, C)
    BY DEF Committed
  <1>7. S \subseteq DOMAIN rows
    OBVIOUS
  <1> HIDE DEF S, C
  <1>8. MapThenSumSet(LAMBDA i : rows[i].amount, S) = Sum(Amounts(rows), S)
    BY <1>1, <1>7, StoreSum
  <1> QED BY <1>2, <1>4, <1>5, <1>6, <1>8 DEF Moved

(* What requests owe are natural numbers. *)
LEMMA DuesType ==
    ASSUME NEW Q \in [Requests -> Request], NEW T, NEW P \in SUBSET Drafting
    PROVE  /\ IsFiniteSet(Requests) /\ Dues(Q, T, P) \in [Requests -> Nat]
           /\ \A r \in Requests : Dues(Q, T, P)[r] = Due(Q[r], T, P) /\ Due(Q[r], T, P) \in Nat
  <1>1. IsFiniteSet(Requests)
    BY ProposalsAssumption
  <1>2. ASSUME NEW r \in Requests PROVE Due(Q[r], T, P) \in Nat
    <2>1. CASE Q[r].pc \in P
      <3>1. Q[r].pc \in Drafting /\ Q[r] \in Request
        BY <2>1
      <3>2. Q[r].draft \in Draft
        BY <3>1, Shapes DEF Drafting
      <3> QED BY <3>2 DEF Due, Draft
    <2>2. CASE Q[r].pc \notin P
      BY <2>2 DEF Due
    <2> QED BY <2>1, <2>2
  <1> QED BY <1>1, <1>2 DEF Dues

(* What rows commit does not grow while they keep to what they are. *)
Kept ==
    /\ DOMAIN rows' = DOMAIN rows
    /\ \A i \in DOMAIN rows :
         Fixed(rows[i], rows'[i]) /\ (rows'[i].status \in Counts => rows[i].status \in Counts)

(* While rows keep to what they are and time passes, they count for no more. *)
LEMMA MovedShrinks ==
    ASSUME IInv, IInv', NEW T, now' >= now,
           DOMAIN rows \subseteq DOMAIN rows',
           \A i \in DOMAIN rows :
             Fixed(rows[i], rows'[i]) /\ (rows'[i].status \in Counts => rows[i].status \in Counts)
    PROVE  /\ Sum(Amounts(rows'), LiveRows(rows', T, now') \cap DOMAIN rows) <= Moved(rows, T, now)
           /\ Sum(Amounts(rows'), LiveRows(rows', T, now') \cap DOMAIN rows) \in Nat
           /\ Moved(rows, T, now) \in Nat
  <1> DEFINE N == LiveRows(rows', T, now') \cap DOMAIN rows
             O == LiveRows(rows, T, now)
  <1>1. rows \in Seq(Row) /\ rows' \in Seq(Row) /\ now \in Nat /\ now' \in Nat /\ Day \in Nat
    BY ProposalsAssumption DEF IInv, Tables
  <1>2. /\ IsFiniteSet(DOMAIN rows) /\ Amounts(rows) \in [DOMAIN rows -> Nat]
        /\ DOMAIN Amounts(rows) = DOMAIN rows
        /\ IsFiniteSet(DOMAIN rows') /\ Amounts(rows') \in [DOMAIN rows' -> Nat]
        /\ DOMAIN Amounts(rows') = DOMAIN rows'
    BY <1>1, AmountsType
  <1>3. N \subseteq O
    <2> SUFFICES ASSUME NEW i \in N PROVE i \in O
      OBVIOUS
    <2>1. i \in DOMAIN rows /\ i \in DOMAIN rows'
      OBVIOUS
    <2>2. rows[i].created \in Nat
      <3>1. rows[i] \in Row
        BY <1>1, <2>1
      <3> QED BY <3>1 DEF Row
    <2>3. /\ rows'[i].treasury \in T /\ rows'[i].created > now' - Day /\ rows'[i].status \in Counts
      BY DEF LiveRows
    <2>4. rows[i].treasury \in T /\ rows[i].created = rows'[i].created /\ rows[i].status \in Counts
      BY <2>1, <2>3 DEF Fixed
    <2>5. rows[i].created > now - Day
      BY <1>1, <2>2, <2>3, <2>4
    <2> QED BY <2>1, <2>4, <2>5 DEF LiveRows
  <1>4. N \subseteq DOMAIN rows /\ N \subseteq DOMAIN rows' /\ O \subseteq DOMAIN rows
    BY DEF LiveRows
  <1> HIDE DEF N, O
  <1>5. \A i \in N : Amounts(rows)[i] = Amounts(rows')[i]
    BY <1>4 DEF Amounts, Fixed
  <1>6. Sum(Amounts(rows), N) = Sum(Amounts(rows'), N)
    BY <1>2, <1>4, <1>5, SumAgree
  <1>7. Sum(Amounts(rows), N) <= Sum(Amounts(rows), O)
    BY <1>2, <1>3, <1>4, SumGrows
  <1>8. Sum(Amounts(rows'), N) \in Nat /\ Sum(Amounts(rows), O) \in Nat
    BY <1>2, <1>4, SumTerm
  <1> QED BY <1>6, <1>7, <1>8 DEF Moved, N, O

(* A step keeps a bound when a request goes on without owing more, opens what   *)
(* it owes, or has just been checked.                                           *)
LEMMA BoundStep ==
    ASSUME IInv, IInv', NEW T, NEW P \in SUBSET Drafting, "create" \in P, NEW D \in Nat,
           NEW b \in Nat, Bounded(rows, now, req, T, P, D, b),
           NEW r \in Requests, \A s \in Requests \ {r} : req'[s] = req[s],
           \A s \in Requests : Due(req'[s], T, P) <= b, now' >= now,
           \/ Kept /\ Due(req'[r], T, P) <= Due(req[r], T, P)
           \/ CreateProposal(r)
           \/ /\ rows' = rows /\ now' = now
              /\ Moved(rows, T, now) + Due(req'[r], T, P) <= D
    PROVE  Bounded(rows', now', req', T, P, D, b)
  <1>1. req \in [Requests -> Request] /\ req' \in [Requests -> Request]
    BY DEF IInv, Tables
  <1>2. IsFiniteSet(Requests) /\ Racing \in Nat /\ Racing * b \in Nat
    <2>1. IsFiniteSet(Requests) /\ Requests # {}
      BY ProposalsAssumption
    <2>2. Cardinality(Requests) \in Nat /\ Cardinality(Requests) # 0
      BY <2>1, FS_CardinalityType, FS_EmptySet
    <2>3. Racing \in Nat
      BY <2>2 DEF Racing
    <2> QED BY <2>1, <2>3
  <1> DEFINE f == Dues(req, T, P)
             h == Dues(req', T, P)
             x == Due(req[r], T, P)
             y == Due(req'[r], T, P)
  <1>3. /\ f \in [Requests -> Nat] /\ h \in [Requests -> Nat]
        /\ f[r] = x /\ h[r] = y /\ x \in Nat /\ y \in Nat
        /\ \A s \in Requests : h[s] = Due(req'[s], T, P)
    BY <1>1, DuesType
  <1>4. \A s \in Requests \ {r} : f[s] = h[s]
    BY <1>1, DuesType
  <1> HIDE DEF f, h, x, y
  <1>5. Sum(f, Requests) + y = Sum(h, Requests) + x
    BY <1>2, <1>3, <1>4, SumMove
  <1>6. Sum(f, Requests) \in Nat /\ Sum(h, Requests) \in Nat
    BY <1>2, <1>3, SumTerm
  <1>7. Owed(req, T, P) = Sum(f, Requests) /\ Owed(req', T, P) = Sum(h, Requests)
    BY DEF Owed, f, h
  <1>8. Moved(rows, T, now) + Sum(f, Requests) <= D + Racing * b
    BY <1>7 DEF Bounded
  <1>9. CASE Kept /\ Due(req'[r], T, P) <= Due(req[r], T, P)
    <2>1. y <= x
      BY <1>9 DEF x, y
    <2>2. LiveRows(rows', T, now') \cap DOMAIN rows = LiveRows(rows', T, now')
      BY <1>9 DEF Kept, LiveRows
    <2>3. /\ Moved(rows', T, now') <= Moved(rows, T, now)
          /\ Moved(rows', T, now') \in Nat /\ Moved(rows, T, now) \in Nat
      <3>1. DOMAIN rows \subseteq DOMAIN rows'
        BY <1>9 DEF Kept
      <3>2. \A i \in DOMAIN rows :
              /\ Fixed(rows[i], rows'[i])
              /\ rows'[i].status \in Counts => rows[i].status \in Counts
        BY <1>9 DEF Kept
      <3> QED BY <2>2, <3>1, <3>2, MovedShrinks DEF Moved
    <2>4. Moved(rows', T, now') + Sum(h, Requests) <= D + Racing * b
      BY <1>2, <1>3, <1>5, <1>6, <1>8, <2>1, <2>3
    <2> QED BY <1>7, <2>4 DEF Bounded
  <1>10. CASE CreateProposal(r)
    <2> DEFINE n == Len(rows) + 1
               row == NewRow(req[r], now)
               S == LiveRows(rows', T, now') \cap DOMAIN rows
    <2>1. /\ row.treasury = req[r].draft.treasury /\ row.amount = req[r].draft.amount
          /\ rows' \in Seq(Row) /\ Len(rows) \in Nat /\ row \in Row
          /\ DOMAIN rows = 1..Len(rows) /\ DOMAIN rows' = 1..n /\ rows'[n] = row
          /\ \A i \in DOMAIN rows : rows'[i] = Expired({req[r].draft.treasury})[i]
      BY <1>10, Created
    <2>2. \A i \in DOMAIN rows :
            Fixed(rows[i], rows'[i]) /\ (rows'[i].status \in Counts => rows[i].status \in Counts)
      BY <2>1, ExpiredRows DEF Counts
    <2>3. DOMAIN rows \subseteq DOMAIN rows' /\ n \in DOMAIN rows' /\ n \notin DOMAIN rows
      BY <2>1
    <2>4. /\ Sum(Amounts(rows'), S) <= Moved(rows, T, now)
          /\ Sum(Amounts(rows'), S) \in Nat /\ Moved(rows, T, now) \in Nat
      BY <2>2, <2>3, MovedShrinks
    <2>5. req[r].pc = "create" /\ req'[r] = Idle
      BY <1>1, <1>10 DEF CreateProposal, At, Goto
    <2>6. y = 0
      BY <2>5 DEF y, Due, Idle, Drafting
    <2>7. x = IF row.treasury \in T THEN row.amount ELSE 0
      BY <2>1, <2>5 DEF x, Due
    <2>8. Amounts(rows')[n] = row.amount /\ row.amount \in Nat
      <3> HIDE DEF row, n
      <3> QED BY <2>1, <2>3 DEF Amounts, Row
    <2>9. IsFiniteSet(DOMAIN rows') /\ Amounts(rows') \in [DOMAIN rows' -> Nat]
      BY <2>1, AmountsType
    <2>10. LiveRows(rows', T, now') \subseteq S \cup {n} /\ S \subseteq DOMAIN rows
           /\ S \subseteq LiveRows(rows', T, now')
      BY <2>1 DEF LiveRows
    <2>11. n \in LiveRows(rows', T, now') => row.treasury \in T
      BY <2>1 DEF LiveRows
    <2> HIDE DEF S, row, n
    <2>12. Moved(rows', T, now') <= Sum(Amounts(rows'), S) + x /\ Moved(rows', T, now') \in Nat
      <3>1. CASE n \in LiveRows(rows', T, now')
        <4>1. LiveRows(rows', T, now') = S \cup {n}
          BY <2>10, <3>1
        <4>2. S \in SUBSET DOMAIN rows' /\ n \in DOMAIN rows' \ S
          BY <2>3, <2>10
        <4>3. Sum(Amounts(rows'), S \cup {n}) = Amounts(rows')[n] + Sum(Amounts(rows'), S)
          BY <2>9, <4>2, SumAdd
        <4>4. Moved(rows', T, now') = row.amount + Sum(Amounts(rows'), S)
          BY <2>8, <4>1, <4>3 DEF Moved
        <4>5. x = row.amount
          BY <2>7, <2>11, <3>1
        <4> QED BY <2>4, <2>8, <4>4, <4>5
      <3>2. CASE n \notin LiveRows(rows', T, now')
        <4>1. LiveRows(rows', T, now') = S
          BY <2>10, <3>2
        <4>2. Moved(rows', T, now') = Sum(Amounts(rows'), S)
          BY <4>1 DEF Moved
        <4> QED BY <1>3, <2>4, <4>2
      <3> QED BY <3>1, <3>2
    <2>13. Moved(rows', T, now') + Sum(h, Requests) <= D + Racing * b
      BY <1>2, <1>3, <1>5, <1>6, <1>8, <2>4, <2>6, <2>12
    <2> QED BY <1>7, <2>13 DEF Bounded
  <1>11. CASE /\ rows' = rows /\ now' = now
              /\ Moved(rows, T, now) + Due(req'[r], T, P) <= D
    <2>1. Moved(rows, T, now) + y <= D
      BY <1>11 DEF y
    <2>2. /\ Sum(h, Requests) = y + Sum(h, Requests \ {r})
          /\ Sum(h, Requests \ {r}) \in Nat
      BY <1>2, <1>3, SumTerm
    <2>3. Cardinality(Requests \ {r}) = Racing
      BY <1>2, FS_RemoveElement DEF Racing
    <2>4. Sum(h, Requests \ {r}) <= Racing * b
      <3>1. \A s \in Requests \ {r} : h[s] <= b
        BY <1>3
      <3>2. Sum(h, Requests \ {r}) <= Cardinality(Requests \ {r}) * b
        BY <1>2, <1>3, <3>1, SumBound
      <3> QED BY <2>3, <3>2
    <2>5. Moved(rows, T, now) \in Nat
      <3>1. rows \in Seq(Row) /\ LiveRows(rows, T, now) \in SUBSET DOMAIN rows
        BY DEF IInv, Tables, LiveRows
      <3>2. IsFiniteSet(DOMAIN rows) /\ Amounts(rows) \in [DOMAIN rows -> Nat]
        BY <3>1, AmountsType
      <3> QED BY <3>1, <3>2, SumTerm DEF Moved
    <2>6. Moved(rows, T, now) + Sum(h, Requests) <= D + Racing * b
      BY <1>2, <1>3, <2>1, <2>2, <2>4, <2>5
    <2> QED BY <1>7, <1>11, <2>6 DEF Bounded
  <1> QED BY <1>9, <1>10, <1>11

(* How a step moves one request. *)
Others(r) == \A s \in Requests \ {r} : req'[s] = req[s]
Elsewhere(r) == Kept /\ now' >= now /\ (req'[r] = req[r] \/ req'[r].pc \notin Drafting)
Asking(r) ==
    /\ rows' = rows /\ now' = now /\ SmallDraft(req'[r])
    /\ \/ req'[r].pc \in {"pin", "workspace"}
       \/ req'[r].pc = "build" /\ req'[r].draft.amount = 0
Onward(r, from, to) ==
    /\ rows' = rows /\ now' = now
    /\ req[r].pc = from /\ req'[r].pc = to /\ req'[r].draft = req[r].draft
Progress(r) ==
    /\ Others(r)
    /\ \/ Elsewhere(r) \/ Asking(r) \/ CreateProposal(r)
       \/ Onward(r, "pin", "build") \/ Onward(r, "build", "create")
       \/ CheckWorkspaceDay(r) \/ CheckDeploymentDay(r)

(* Rows that stay as they are keep to what they are. *)
LEMMA SameKept ==
    ASSUME IInv, rows' = rows
    PROVE  Kept
  BY Still DEF Kept

(* A request that goes on leaves the others. *)
LEMMA GoesOn ==
    ASSUME IInv, NEW r \in Requests, NEW q, Goto(r, q)
    PROVE  Others(r) /\ req'[r] = q
  BY DEF Goto, Others, IInv, Tables

(* checkSpend lets a draft through that is within what one payment may be. *)
LEMMA SpendProgress ==
    ASSUME IInv, NEW r \in Requests, NEW d \in Draft, checkSpend(r, d), rows' = rows, now' = now
    PROVE  Progress(r)
  <1> DEFINE pp == Policy[OrgOf[d.treasury]].PerPayment
  <1>1. d.amount \in Nat /\ pp \in Nat /\ MaxPayment \in Nat
    BY ProposalsAssumption DEF Draft
  <1>2. CASE d.amount = 0
    <2>1. Goto(r, [pc |-> "build", draft |-> d])
      BY <1>2 DEF checkSpend
    <2>2. Others(r) /\ req'[r] = [pc |-> "build", draft |-> d]
      BY <2>1, GoesOn
    <2>3. req'[r].pc = "build" /\ req'[r].draft = d
      BY <2>2
    <2>4. Within(pp, 0) /\ Within(MaxPayment, 0)
      BY <1>1 DEF Within
    <2>5. SmallDraft(req'[r])
      BY <1>2, <2>3, <2>4 DEF SmallDraft
    <2> QED BY <1>2, <2>2, <2>3, <2>5 DEF Progress, Asking
  <1>3. CASE d.amount # 0
    <2>1. /\ Goto(r, [pc |-> "workspace", draft |-> d])
          /\ Within(pp, d.amount) /\ Within(MaxPayment, d.amount)
      BY <1>3 DEF checkSpend
    <2>2. Others(r) /\ req'[r] = [pc |-> "workspace", draft |-> d]
      BY <2>1, GoesOn
    <2>3. req'[r].pc = "workspace" /\ req'[r].draft = d
      BY <2>2
    <2>4. SmallDraft(req'[r])
      BY <2>1, <2>3 DEF SmallDraft
    <2> QED BY <2>2, <2>3, <2>4 DEF Progress, Asking
  <1> QED BY <1>2, <1>3

(* Asking for something. *)
LEMMA AskProgress ==
    ASSUME IInv, NEW r \in Requests, AskAny(r)
    PROVE  Progress(r)
  <1>1. PICK m \in Members, name \in Names, ask \in Asks :
          pay(r, m, name, ask) \/ trust(r, m, name, ask) \/ swap(r, m, name, ask)
          \/ invoke(r, m, name, ask) \/ restore(r, m, name, ask)
    BY DEF AskAny
  <1>2. rows' = rows /\ now' = now
    BY <1>1 DEF pay, trust, swap, invoke, restore, call, store
  <1>3. CASE pay(r, m, name, ask)
    <2>1. PICK t \in Treasuries : checkSpend(r, DraftOf(t, "payment", ask.amount, 0, None, m))
      BY <1>3 DEF pay, ProposePayment
    <2>2. ask.amount \in Nat
      BY <1>3, ProposalsAssumption DEF pay, Asked
    <2>3. DraftOf(t, "payment", ask.amount, 0, None, m) \in Draft
      BY <2>2, DraftType DEF Kinds, Classic, Calling
    <2> QED BY <1>2, <2>1, <2>3, SpendProgress
  <1>4. CASE trust(r, m, name, ask)
    <2>1. PICK t \in Treasuries : checkSpend(r, DraftOf(t, "trustline", 0, 0, None, m))
      BY <1>4 DEF trust, classicTreasury
    <2>2. DraftOf(t, "trustline", 0, 0, None, m) \in Draft
      BY DraftType DEF Kinds, Classic, Calling
    <2> QED BY <1>2, <2>1, <2>2, SpendProgress
  <1>5. CASE swap(r, m, name, ask)
    <2>0. PICK t \in Treasuries, paths \in Markets, amount \in {0, ask.amount} :
            \E floor \in floorOf(ask, QuoteStrictSend(paths)) :
              checkSpend(r, DraftOf(t, "dex", amount, floor, None, m))
      BY <1>5 DEF swap, classicTreasury
    <2>1. PICK floor \in floorOf(ask, QuoteStrictSend(paths)) :
            checkSpend(r, DraftOf(t, "dex", amount, floor, None, m))
      BY <2>0
    <2>2. ask.kind = "dex"
      BY <1>5 DEF swap, Asked
    <2>3. amount \in Nat
      BY <2>2, ProposalsAssumption
    <2>4. floor \in Nat
      BY <2>2, FloorType
    <2>5. DraftOf(t, "dex", amount, floor, None, m) \in Draft
      BY <2>3, <2>4, DraftType DEF Kinds, Classic, Calling
    <2> QED BY <1>2, <2>1, <2>5, SpendProgress
  <1>6. CASE invoke(r, m, name, ask) \/ restore(r, m, name, ask)
    <2>1. call(r, m, name, ask)
      BY <1>6 DEF invoke, restore
    <2>2. PICK t \in Treasuries, pin \in Codes :
            Goto(r, [pc |-> "pin", pin |-> pin,
                     draft |-> DraftOf(t, ask.kind, 0, 0, ask.callee, m)])
      BY <2>1 DEF call, classicTreasury, allowedWhere
    <2>3. /\ Others(r)
          /\ req'[r] = [pc |-> "pin", pin |-> pin,
                        draft |-> DraftOf(t, ask.kind, 0, 0, ask.callee, m)]
      BY <2>2, GoesOn
    <2>4. req'[r].pc = "pin" /\ req'[r].draft.amount = 0 /\ req'[r].draft.treasury = t
      BY <2>3 DEF DraftOf
    <2>5. Within(Policy[OrgOf[t]].PerPayment, 0) /\ Within(MaxPayment, 0)
      BY ProposalsAssumption DEF Within
    <2>6. SmallDraft(req'[r])
      BY <2>4, <2>5 DEF SmallDraft
    <2> QED BY <1>2, <2>3, <2>4, <2>6 DEF Progress, Asking
  <1> QED BY <1>1, <1>3, <1>4, <1>5, <1>6

(* Drafting goes on. *)
LEMMA DraftProgress ==
    ASSUME IInv, NEW r \in Requests, ProposeInvoke(r) \/ ProposeRestore(r) \/ Build(r)
    PROVE  Progress(r)
  <1>1. rows' = rows /\ now' = now
    BY DEF ProposeInvoke, ProposeRestore, Pinned, Build, store
  <1>2. CASE Build(r)
    <2>1. PICK seq, expires :
            Goto(r, [pc |-> "create", draft |-> req[r].draft, seq |-> seq, expires |-> expires])
      BY <1>2 DEF Build
    <2>2. /\ Others(r) /\ req[r].pc = "build"
          /\ req'[r] = [pc |-> "create", draft |-> req[r].draft, seq |-> seq, expires |-> expires]
      BY <1>2, <2>1, GoesOn DEF Build, At
    <2>3. req'[r].pc = "create" /\ req'[r].draft = req[r].draft
      BY <2>2
    <2> QED BY <1>1, <2>2, <2>3 DEF Progress, Onward
  <1>3. CASE ProposeInvoke(r) \/ ProposeRestore(r)
    <2>1. Goto(r, [pc |-> "build", draft |-> req[r].draft]) /\ req[r].pc = "pin"
      BY <1>3 DEF ProposeInvoke, ProposeRestore, Pinned, At
    <2>2. Others(r) /\ req'[r] = [pc |-> "build", draft |-> req[r].draft]
      BY <2>1, GoesOn
    <2>3. req'[r].pc = "build" /\ req'[r].draft = req[r].draft
      BY <2>2
    <2> QED BY <1>1, <2>1, <2>2, <2>3 DEF Progress, Onward
  <1> QED BY <1>2, <1>3

(* Rows that expire keep to what they are. *)
LEMMA ExpiredKept ==
    ASSUME IInv, ExpireProposals
    PROVE  Kept
  BY ExpiredRows DEF ExpireProposals, Kept, Counts

(* A request that goes elsewhere drafts nothing. *)
LEMMA ElsewhereProgress ==
    ASSUME IInv, NEW r \in Requests, NEW q, Goto(r, q), q.pc \notin Drafting, Kept, now' = now
    PROVE  Progress(r)
  <1>1. Others(r) /\ req'[r] = q
    BY GoesOn
  <1>2. now' >= now
    BY DEF IInv, Tables
  <1> QED BY <1>1, <1>2 DEF Progress, Elsewhere

(* ResolveProposal closes what counted, or nothing. *)
LEMMA ResolveProgress ==
    ASSUME IInv, NEW r \in Requests, ResolveProposal(r)
    PROVE  Progress(r)
  <1> DEFINE id == req[r].id
             as == req[r].as
             new == [rows[id] EXCEPT !.status = as]
  <1>1. id \in DOMAIN rows /\ rows[id] \in Row /\ req[r] \in Request
    BY About DEF ResolveProposal, At
  <1>2. as \in Status
    BY <1>1, Shapes DEF ResolveProposal, At
  <1>3. /\ rows' = [rows EXCEPT ![id].status = IF @ = "open" THEN as ELSE @]
        /\ Goto(r, Idle) /\ now' = now
    BY DEF ResolveProposal
  <1>4. Fixed(rows[id], new)
    BY <1>1, <1>2, Relabelled
  <1>5. rows' = rows \/ (rows[id].status = "open" /\ rows' = [rows EXCEPT ![id] = new])
    <2>1. CASE rows[id].status = "open"
      BY <1>3, <2>1
    <2>2. CASE rows[id].status # "open"
      <3>1. rows[id] = [rows[id] EXCEPT !.status = rows[id].status]
        BY <1>1 DEF Row
      <3>2. rows' = [rows EXCEPT ![id] = rows[id]]
        BY <1>3, <2>2, <3>1
      <3>3. rows \in Seq(Row)
        BY DEF IInv, Tables
      <3> QED BY <1>1, <3>2, <3>3
    <2> QED BY <2>1, <2>2
  <1> HIDE DEF id, as, new
  <1>6. Kept
    <2>1. CASE rows' = rows
      BY <2>1, SameKept
    <2>2. CASE rows[id].status = "open" /\ rows' = [rows EXCEPT ![id] = new]
      <3>1. DOMAIN rows' = DOMAIN rows
        BY <2>2
      <3>2. ASSUME NEW i \in DOMAIN rows
            PROVE  Fixed(rows[i], rows'[i])
                   /\ (rows'[i].status \in Counts => rows[i].status \in Counts)
        <4>1. CASE i = id
          BY <1>1, <1>4, <2>2, <4>1 DEF Counts
        <4>2. CASE i # id
          BY <2>2, <4>2, Still
        <4> QED BY <4>1, <4>2
      <3> QED BY <3>1, <3>2 DEF Kept
    <2> QED BY <1>5, <2>1, <2>2
  <1>7. Idle.pc \notin Drafting
    BY DEF Idle, Drafting
  <1> QED BY <1>3, <1>6, <1>7, ElsewhereProgress

(* Any other step of a request drafts nothing. *)
LEMMA QuietProgress ==
    ASSUME IInv, NEW r \in Requests,
           \/ \E id \in DOMAIN rows, keys \in Handovers : Approve(r, id, keys)
           \/ \E k \in Keys : AddSignature(r, k)
           \/ SequenceGuard(r) \/ applySignatures(r) \/ Requote(r) \/ LookUpCallee(r)
           \/ PinnedStill(r) \/ Submit(r) \/ Refused(r) \/ Answered(r) \/ Unanswered(r)
           \/ LookupTransaction(r) \/ Allow(r) \/ Quit(r)
           \/ \E m \in Members, c \in Callees : contractAllow(r, m, c)
    PROVE  Progress(r)
  <1>1. rows' = rows /\ now' = now
    BY DEF Approve, AddSignature, SequenceGuard, applySignatures, Requote, LookUpCallee,
           PinnedStill, Submit, Refused, Answered, Unanswered, LookupTransaction, Allow, Quit,
           contractAllow, store
  <1>2. SUFFICES \E q : Goto(r, q) /\ q.pc \notin Drafting
    BY <1>1, <1>2, SameKept, ElsewhereProgress
  <1>3. Idle.pc \notin Drafting
    BY DEF Idle, Drafting
  <1>4. CASE \E id \in DOMAIN rows, keys \in Handovers : Approve(r, id, keys)
    BY <1>4 DEF Approve, Drafting
  <1>5. CASE \E k \in Keys : AddSignature(r, k)
    <2>1. PICK id, left : Goto(r, [pc |-> "view", id |-> id])
                          \/ Goto(r, [pc |-> "sign", id |-> id, keys |-> left])
      BY <1>5 DEF AddSignature
    <2> QED BY <2>1 DEF Drafting
  <1>6. CASE SequenceGuard(r)
    <2>1. \/ Goto(r, [pc |-> "resolve", id |-> req[r].id, as |-> "failed"])
          \/ Goto(r, [pc |-> "rebuild", id |-> req[r].id])
      BY <1>6 DEF SequenceGuard
    <2> QED BY <2>1 DEF Drafting
  <1>7. CASE applySignatures(r)
    <2> DEFINE id == req[r].id
    <2>1. \/ Goto(r, [pc |-> "quote", id |-> id, keys |-> sigs[id]])
          \/ Goto(r, [pc |-> "callee", id |-> id, keys |-> sigs[id]])
          \/ Goto(r, Idle) \/ Goto(r, ToSubmit(id, sigs[id], None))
      <3>1. CASE rows[id].kind = "dex"
        BY <1>7, <3>1 DEF applySignatures
      <3>2. CASE rows[id].kind = "invoke"
        BY <1>7, <3>2 DEF applySignatures
      <3>3. CASE rows[id].kind = "restore" /\ ~ContractCalls
        BY <1>7, <3>3 DEF applySignatures
      <3>4. CASE rows[id].kind \notin {"dex", "invoke"}
                 /\ ~(rows[id].kind = "restore" /\ ~ContractCalls)
        BY <1>7, <3>4 DEF applySignatures
      <3> QED BY <3>1, <3>2, <3>3, <3>4
    <2> HIDE DEF id
    <2> QED BY <1>3, <2>1 DEF ToSubmit, Drafting
  <1>8. CASE Requote(r)
    BY <1>3, <1>8 DEF Requote, ToSubmit, Drafting
  <1>9. CASE LookUpCallee(r) \/ PinnedStill(r)
    <2>1. CASE LookUpCallee(r)
      <3>1. PICK pin : Goto(r, [pc |-> "pinned", id |-> req[r].id, keys |-> req[r].keys,
                                pin |-> pin])
        BY <2>1 DEF LookUpCallee
      <3> QED BY <3>1 DEF Drafting
    <2>2. CASE PinnedStill(r)
      <3>1. PICK seen : Goto(r, ToSubmit(req[r].id, req[r].keys, seen))
        BY <2>2 DEF PinnedStill
      <3> QED BY <3>1 DEF ToSubmit, Drafting
    <2> QED BY <1>9, <2>1, <2>2
  <1>10. CASE Submit(r) \/ Answered(r) \/ Unanswered(r)
    BY <1>10 DEF Submit, Answered, Unanswered, Drafting
  <1>11. CASE Refused(r)
    <2> DEFINE q(as) == [pc |-> "resolve", id |-> req[r].id, as |-> as]
    <2>1. Goto(r, q("expired")) \/ Goto(r, q("failed")) \/ Goto(r, Idle)
      <3>1. PICK result \in Refusals(req[r].id, req[r].keys) :
              Goto(r, IF rows[req[r].id].kind \in Classic /\ Spent(result)
                      THEN q(IF result = "tx_too_late" THEN "expired" ELSE "failed") ELSE Idle)
        BY <1>11 DEF Refused
      <3> HIDE DEF q
      <3>2. CASE result = "tx_too_late"
        BY <3>1, <3>2
      <3>3. CASE result # "tx_too_late"
        BY <3>1, <3>3
      <3> QED BY <3>2, <3>3
    <2>2. q("expired").pc \notin Drafting /\ q("failed").pc \notin Drafting
      BY DEF Drafting
    <2> HIDE DEF q
    <2> QED BY <1>3, <2>1, <2>2
  <1>12. CASE LookupTransaction(r)
    <2>1. \/ Goto(r, [pc |-> "resolve", id |-> req[r].id, as |-> "executed"])
          \/ Goto(r, Idle)
      BY <1>12 DEF LookupTransaction
    <2> QED BY <1>3, <2>1 DEF Drafting
  <1>13. CASE Allow(r) \/ Quit(r)
    BY <1>3, <1>13 DEF Allow, Quit
  <1>14. CASE \E m \in Members, c \in Callees : contractAllow(r, m, c)
    BY <1>14 DEF contractAllow, Drafting
  <1> QED BY <1>4, <1>5, <1>6, <1>7, <1>8, <1>9, <1>10, <1>11, <1>12, <1>13, <1>14

(* Every step is the progress of one request, or of none. *)
LEMMA EveryStep ==
    ASSUME IInv, [Next]_vars
    PROVE  \E r \in Requests : Progress(r)
  <1>1. ASSUME NEW r \in Requests, Serve(r)
        PROVE  Progress(r)
    <2>1. CASE CheckWorkspaceDay(r) \/ CheckDeploymentDay(r) \/ CreateProposal(r)
      <3>1. \E q : Goto(r, q)
        BY <2>1 DEF CheckWorkspaceDay, CheckDeploymentDay, CreateProposal
      <3> QED BY <2>1, <3>1, GoesOn DEF Progress
    <2>2. CASE \/ View(r)
               \/ \E id \in DOMAIN rows, m \in Members : execute(r, m, id) \/ cancel(r, m, id)
               \/ \E id \in DOMAIN rows : ExecuteProposal(r, id)
      <3>1. ExpireProposals /\ now' = now
        BY <2>2 DEF View, execute, cancel, ExecuteProposal, CancelProposal
      <3>2. \/ Goto(r, Idle)
            \/ \E id \in DOMAIN rows : \/ Goto(r, [pc |-> "loaded", id |-> id])
                                       \/ Goto(r, [pc |-> "resolve", id |-> id, as |-> "cancelled"])
        <4>1. CASE View(r)
          BY <4>1 DEF View
        <4>2. ASSUME NEW id \in DOMAIN rows, ExecuteProposal(r, id)
              PROVE  Goto(r, [pc |-> "loaded", id |-> id]) \/ Goto(r, Idle)
          BY <4>2 DEF ExecuteProposal
        <4>3. ASSUME NEW id \in DOMAIN rows, NEW m \in Members, cancel(r, m, id)
              PROVE  Goto(r, [pc |-> "resolve", id |-> id, as |-> "cancelled"]) \/ Goto(r, Idle)
          BY <4>3 DEF cancel, CancelProposal
        <4> QED BY <2>2, <4>1, <4>2, <4>3 DEF execute
      <3>3. \E q : Goto(r, q) /\ q.pc \notin Drafting
        <4>1. Idle.pc \notin Drafting
          BY DEF Idle, Drafting
        <4>2. ASSUME NEW id
              PROVE  /\ [pc |-> "loaded", id |-> id].pc \notin Drafting
                     /\ [pc |-> "resolve", id |-> id, as |-> "cancelled"].pc \notin Drafting
          BY DEF Drafting
        <4> QED BY <3>2, <4>1, <4>2
      <3> QED BY <3>1, <3>3, ExpiredKept, ElsewhereProgress
    <2> QED BY <1>1, <2>1, <2>2, AskProgress, DraftProgress, ResolveProgress, QuietProgress
        DEF Serve
  <1>2. ASSUME req' = req, Kept, now' >= now
        PROVE  \E r \in Requests : Progress(r)
    BY <1>2, ProposalsAssumption DEF Progress, Others, Elsewhere
  <1>3. now \in Nat
    BY DEF IInv, Tables
  <1>4. CASE Sweep \/ Statements
    <2>1. req' = req /\ now' = now /\ (ExpireProposals \/ rows' = rows)
      BY <1>4 DEF Sweep, Statements, proposals, approve, contractRemove, store
    <2> QED BY <1>2, <1>3, <2>1, ExpiredKept, SameKept
  <1>5. CASE World \/ UNCHANGED vars
    <2>1. req' = req /\ rows' = rows /\ (now' = now \/ now' = now + 1)
      BY <1>5 DEF World, Include, Foreign, ChangeSigners, Upgrade, Tick, vars, store
    <2>2. now' >= now
      BY <1>3, <2>1
    <2> QED BY <1>2, <2>1, <2>2, SameKept
  <1> QED BY <1>1, <1>4, <1>5 DEF Next

(* What a request owes is at most one payment. *)
LEMMA SmallDue ==
    ASSUME NEW q \in Request, SmallDraft(q), NEW P \in SUBSET Drafting
    PROVE  /\ \A org \in Orgs : Policy[org].PerPayment > 0 =>
                Due(q, TreasuriesOf(org), P) <= Policy[org].PerPayment
           /\ MaxPayment > 0 => Due(q, Treasuries, P) <= MaxPayment
  <1>1. CASE q.pc \notin P
    <2>1. \A T : Due(q, T, P) = 0
      BY <1>1 DEF Due
    <2>2. MaxPayment \in Nat /\ \A org \in Orgs : Policy[org].PerPayment \in Nat
      BY ProposalsAssumption
    <2> QED BY <2>1, <2>2
  <1>2. CASE q.pc \in P
    <2>1. q.pc \in Drafting
      BY <1>2
    <2>2. q.draft \in Draft
      BY <2>1, Shapes DEF Drafting
    <2>3. q.draft.amount \in Nat
      BY <2>2 DEF Draft
    <2>4. /\ Within(Policy[OrgOf[q.draft.treasury]].PerPayment, q.draft.amount)
          /\ Within(MaxPayment, q.draft.amount)
      BY <2>1 DEF SmallDraft
    <2>5. MaxPayment > 0 => Due(q, Treasuries, P) <= MaxPayment
      <3>1. Due(q, Treasuries, P) \in {0, q.draft.amount} /\ MaxPayment \in Nat
        BY ProposalsAssumption DEF Due
      <3> QED BY <2>3, <2>4, <3>1 DEF Within
    <2>6. ASSUME NEW org \in Orgs, Policy[org].PerPayment > 0
          PROVE  Due(q, TreasuriesOf(org), P) <= Policy[org].PerPayment
      <3>1. Policy[org].PerPayment \in Nat
        BY ProposalsAssumption
      <3>2. CASE q.draft.treasury \in TreasuriesOf(org)
        <4>1. OrgOf[q.draft.treasury] = org
          BY <3>2 DEF TreasuriesOf
        <4>2. Due(q, TreasuriesOf(org), P) = q.draft.amount
          BY <1>2, <3>2 DEF Due
        <4> QED BY <2>3, <2>4, <2>6, <3>1, <4>1, <4>2 DEF Within
      <3>3. CASE q.draft.treasury \notin TreasuriesOf(org)
        <4>1. Due(q, TreasuriesOf(org), P) = 0
          BY <3>3 DEF Due
        <4> QED BY <2>6, <3>1, <4>1
      <3> QED BY <3>2, <3>3
    <2> QED BY <2>5, <2>6
  <1> QED BY <1>1, <1>2

(* A check moves its request on with its draft. *)
LEMMA CheckedOn ==
    ASSUME IInv, NEW r \in Requests
    PROVE  /\ CheckWorkspaceDay(r) => Onward(r, "workspace", "deployment")
           /\ CheckDeploymentDay(r) => Onward(r, "deployment", "build")
  <1>1. ASSUME CheckWorkspaceDay(r) PROVE Onward(r, "workspace", "deployment")
    <2>1. Goto(r, [pc |-> "deployment", draft |-> req[r].draft]) /\ req[r].pc = "workspace"
      BY <1>1 DEF CheckWorkspaceDay, At
    <2>2. rows' = rows /\ now' = now
      BY <1>1 DEF CheckWorkspaceDay, store
    <2>3. req'[r] = [pc |-> "deployment", draft |-> req[r].draft]
      BY <2>1, GoesOn
    <2> QED BY <2>1, <2>2, <2>3 DEF Onward
  <1>2. ASSUME CheckDeploymentDay(r) PROVE Onward(r, "deployment", "build")
    <2>1. Goto(r, [pc |-> "build", draft |-> req[r].draft]) /\ req[r].pc = "deployment"
      BY <1>2 DEF CheckDeploymentDay, At
    <2>2. rows' = rows /\ now' = now
      BY <1>2 DEF CheckDeploymentDay, store
    <2>3. req'[r] = [pc |-> "build", draft |-> req[r].draft]
      BY <2>1, GoesOn
    <2> QED BY <2>1, <2>2, <2>3 DEF Onward
  <1> QED BY <1>1, <1>2

(* A draft stays within what one payment may be. *)
LEMMA SmallStep ==
    ASSUME IInv, NEW r \in Requests, Progress(r), \A s \in Requests : SmallDraft(req[s])
    PROVE  \A s \in Requests : SmallDraft(req'[s])
  <1>1. ASSUME NEW s \in Requests \ {r} PROVE SmallDraft(req'[s])
    BY DEF Progress, Others
  <1>2. SmallDraft(req'[r])
    <2>1. CASE Elsewhere(r)
      <3>1. CASE req'[r] = req[r]
        BY <3>1
      <3>2. CASE req'[r].pc \notin Drafting
        BY <3>2 DEF SmallDraft
      <3> QED BY <2>1, <3>1, <3>2 DEF Elsewhere
    <2>2. CASE Asking(r)
      BY <2>2 DEF Asking
    <2>3. CASE CreateProposal(r)
      <3>1. req'[r] = Idle
        BY <2>3, GoesOn DEF CreateProposal
      <3> QED BY <3>1 DEF Idle, SmallDraft, Drafting
    <2>4. ASSUME NEW from \in Drafting, NEW to \in Drafting \ {"pin"}, Onward(r, from, to)
          PROVE  SmallDraft(req'[r])
      <3>1. SmallDraft(req[r])
        OBVIOUS
      <3>2. /\ req[r].pc = from /\ req'[r].pc = to /\ req'[r].draft = req[r].draft
        BY <2>4 DEF Onward
      <3> QED BY <2>4, <3>1, <3>2 DEF SmallDraft
    <2>5. {"pin", "workspace", "deployment", "build"} \subseteq Drafting
          /\ {"deployment", "build", "create"} \subseteq Drafting \ {"pin"}
      BY DEF Drafting
    <2> QED BY <2>1, <2>2, <2>3, CheckedOn, <2>4, <2>5 DEF Progress
  <1> QED BY <1>1, <1>2

(* A step a bound does not hang on keeps it, given that a request only passes   *)
(* the check where it says.                                                     *)
LEMMA Unchecked ==
    ASSUME IInv, IInv', NEW r \in Requests, Progress(r), SmallDraft(req[r]),
           NEW T, NEW P \in {PastWorkspace, PastDeployment},
           P = PastWorkspace => ~CheckWorkspaceDay(r),
           P = PastDeployment => ~CheckDeploymentDay(r)
    PROVE  \/ Kept /\ Due(req'[r], T, P) <= Due(req[r], T, P)
           \/ CreateProposal(r)
  <1>1. req \in [Requests -> Request] /\ req' \in [Requests -> Request]
    BY DEF IInv, Tables
  <1>2. P \in SUBSET Drafting /\ "pin" \notin P /\ "workspace" \notin P
        /\ "build" \in P /\ "create" \in P
        /\ (P = PastWorkspace => "deployment" \in P) /\ (P = PastDeployment => "deployment" \notin P)
    BY DEF PastWorkspace, PastDeployment, Drafting
  <1>3. Due(req[r], T, P) \in Nat /\ Due(req'[r], T, P) \in Nat
    BY <1>1, <1>2, DuesType
  <1> HIDE DEF SmallDraft
  <1>4. ASSUME Due(req'[r], T, P) = 0, Kept
        PROVE  Kept /\ Due(req'[r], T, P) <= Due(req[r], T, P)
    BY <1>3, <1>4
  <1>5. ASSUME req'[r].pc \notin P PROVE Due(req'[r], T, P) = 0
    BY <1>5 DEF Due
  <1>6. CASE Elsewhere(r)
    <2>1. CASE req'[r] = req[r]
      BY <1>3, <1>6, <2>1 DEF Elsewhere
    <2>2. CASE req'[r].pc \notin Drafting
      BY <1>2, <1>4, <1>5, <1>6, <2>2 DEF Elsewhere
    <2> QED BY <1>6, <2>1, <2>2 DEF Elsewhere
  <1>7. CASE Asking(r)
    <2>1. Kept
      BY <1>7, SameKept DEF Asking
    <2>2. CASE req'[r].pc \in {"pin", "workspace"}
      BY <1>2, <1>4, <1>5, <2>1, <2>2
    <2>3. CASE req'[r].pc = "build" /\ req'[r].draft.amount = 0
      BY <1>4, <2>1, <2>3 DEF Due
    <2> QED BY <1>7, <2>2, <2>3 DEF Asking
  <1>8. ASSUME NEW from, NEW to, Onward(r, from, to), from \in P
        PROVE  Kept /\ Due(req'[r], T, P) <= Due(req[r], T, P)
    <2>1. Kept
      BY <1>8, SameKept DEF Onward
    <2>2. CASE to \in P
      <3>1. Due(req'[r], T, P) = Due(req[r], T, P)
        BY <1>8, <2>2 DEF Due, Onward
      <3> QED BY <1>3, <2>1, <3>1
    <2>3. CASE to \notin P
      BY <1>4, <1>5, <1>8, <2>1, <2>3 DEF Onward
    <2> QED BY <2>2, <2>3
  <1>9. CASE Onward(r, "build", "create")
    BY <1>2, <1>8, <1>9
  <1>10. CASE Onward(r, "pin", "build")
    <2>1. Kept
      BY <1>10, SameKept DEF Onward
    <2>2. req'[r].draft.amount = 0
      BY <1>10 DEF Onward, SmallDraft, Drafting
    <2> QED BY <1>4, <2>1, <2>2 DEF Due
  <1>11. CASE CheckDeploymentDay(r)
    <2>1. P = PastWorkspace /\ Onward(r, "deployment", "build")
      BY <1>11, CheckedOn
    <2> QED BY <1>2, <1>8, <2>1
  <1>12. CASE CheckWorkspaceDay(r)
    <2>1. P = PastDeployment /\ Onward(r, "workspace", "deployment")
      BY <1>12, CheckedOn
    <2>2. req'[r].pc \notin P /\ Kept
      BY <1>2, <2>1, SameKept DEF Onward
    <2> QED BY <1>4, <1>5, <2>2
  <1> QED BY <1>6, <1>7, <1>9, <1>10, <1>11, <1>12 DEF Progress

(* The ceiling of a workspace: CheckWorkspaceDay is what its payments pass. *)
LEMMA WorkspaceStep ==
    ASSUME IInv, IInv', NEW r \in Requests, Progress(r), NEW org \in Orgs,
           Policy[org].Daily > 0, Policy[org].PerPayment > 0, WorkspaceBound(org),
           \A s \in Requests : SmallDraft(req[s])
    PROVE  Bounded(rows', now', req', TreasuriesOf(org), PastWorkspace, Policy[org].Daily,
                   Policy[org].PerPayment)
  <1> DEFINE T == TreasuriesOf(org)
             P == PastWorkspace
             D == Policy[org].Daily
             b == Policy[org].PerPayment
  <1>1. D \in Nat /\ b \in Nat /\ P \in SUBSET Drafting /\ "create" \in P
    BY ProposalsAssumption DEF PastWorkspace, Drafting
  <1>2. Bounded(rows, now, req, T, P, D, b)
    BY DEF WorkspaceBound
  <1>3. \A s \in Requests \ {r} : req'[s] = req[s]
    BY DEF Progress, Others
  <1>4. \A s \in Requests : Due(req'[s], T, P) <= b
    <2>1. \A s \in Requests : SmallDraft(req'[s]) /\ req'[s] \in Request
      BY SmallStep DEF IInv, Tables
    <2> HIDE DEF SmallDraft
    <2> QED BY <1>1, <2>1, SmallDue
  <1>5. now' >= now
    <2>1. now \in Nat
      BY DEF IInv, Tables
    <2> QED BY <2>1, CheckedOn DEF Progress, Elsewhere, Asking, Onward, CreateProposal
  <1>6. P \in {PastWorkspace, PastDeployment} /\ P # PastDeployment
    BY DEF PastWorkspace, PastDeployment
  <1>7. CASE ~CheckWorkspaceDay(r)
    <2>1. \/ Kept /\ Due(req'[r], T, P) <= Due(req[r], T, P)
          \/ CreateProposal(r)
      BY <1>6, <1>7, Unchecked
    <2> HIDE DEF T, P, D, b
    <2>2. Bounded(rows', now', req', T, P, D, b)
      BY <1>1, <1>2, <1>3, <1>4, <1>5, <2>1, BoundStep
    <2> QED BY <2>2 DEF T, P, D, b
  <1>8. CASE CheckWorkspaceDay(r)
    <2> DEFINE d == req[r].draft
    <2>1. Onward(r, "workspace", "deployment")
      BY <1>8, CheckedOn
    <2>2. rows' = rows /\ now' = now /\ req'[r].draft = d /\ req'[r].pc = "deployment"
      BY <2>1 DEF Onward
    <2>3. Within(Policy[OrgOf[d.treasury]].Daily,
                 ProposedSince(TreasuriesOf(OrgOf[d.treasury]), now - Day) + d.amount)
      BY <1>8 DEF CheckWorkspaceDay
    <2>4. CASE d.treasury \in T
      <3>1. OrgOf[d.treasury] = org
        BY <2>4 DEF TreasuriesOf
      <3>2. Due(req'[r], T, P) = d.amount
        BY <2>2, <2>4 DEF Due, PastWorkspace
      <3>3. Within(D, Moved(rows, T, now) + d.amount)
        BY <2>3, <3>1, CommittedIsSpent
      <3>4. Moved(rows, T, now) + Due(req'[r], T, P) <= D
        BY <1>1, <3>2, <3>3 DEF Within
      <3> HIDE DEF T, P, D, b, d
      <3>5. Bounded(rows', now', req', T, P, D, b)
        BY <1>1, <1>2, <1>3, <1>4, <1>5, <2>2, <3>4, BoundStep
      <3> QED BY <3>5 DEF T, P, D, b
    <2>5. CASE d.treasury \notin T
      <3>1. Due(req'[r], T, P) = 0
        BY <2>2, <2>5 DEF Due
      <3>2. Due(req[r], T, P) \in Nat
        BY <1>1, DuesType DEF IInv, Tables
      <3>3. Kept
        BY <2>2, SameKept
      <3> HIDE DEF T, P, D, b, d
      <3>4. Due(req'[r], T, P) <= Due(req[r], T, P)
        BY <3>1, <3>2
      <3>5. Bounded(rows', now', req', T, P, D, b)
        BY <1>1, <1>2, <1>3, <1>4, <1>5, <3>3, <3>4, BoundStep
      <3> QED BY <3>5 DEF T, P, D, b
    <2> QED BY <2>4, <2>5
  <1> QED BY <1>7, <1>8

(* The ceiling of the deployment: CheckDeploymentDay is what all payments pass. *)
LEMMA DeploymentStep ==
    ASSUME IInv, IInv', NEW r \in Requests, Progress(r), MaxDaily > 0, MaxPayment > 0,
           DeploymentBound, \A s \in Requests : SmallDraft(req[s])
    PROVE  Bounded(rows', now', req', Treasuries, PastDeployment, MaxDaily, MaxPayment)
  <1> DEFINE T == Treasuries
             P == PastDeployment
  <1>1. MaxDaily \in Nat /\ MaxPayment \in Nat /\ P \in SUBSET Drafting /\ "create" \in P
    BY ProposalsAssumption DEF PastDeployment, Drafting
  <1>2. Bounded(rows, now, req, T, P, MaxDaily, MaxPayment)
    BY DEF DeploymentBound
  <1>3. \A s \in Requests \ {r} : req'[s] = req[s]
    BY DEF Progress, Others
  <1>4. \A s \in Requests : Due(req'[s], T, P) <= MaxPayment
    <2>1. \A s \in Requests : SmallDraft(req'[s]) /\ req'[s] \in Request
      BY SmallStep DEF IInv, Tables
    <2> HIDE DEF SmallDraft
    <2> QED BY <1>1, <2>1, SmallDue
  <1>5. now' >= now
    <2>1. now \in Nat
      BY DEF IInv, Tables
    <2> QED BY <2>1, CheckedOn DEF Progress, Elsewhere, Asking, Onward, CreateProposal
  <1>6. P \in {PastWorkspace, PastDeployment} /\ P # PastWorkspace
    BY DEF PastWorkspace, PastDeployment
  <1>7. CASE ~CheckDeploymentDay(r)
    <2>1. \/ Kept /\ Due(req'[r], T, P) <= Due(req[r], T, P)
          \/ CreateProposal(r)
      BY <1>6, <1>7, Unchecked
    <2> HIDE DEF T, P
    <2>2. Bounded(rows', now', req', T, P, MaxDaily, MaxPayment)
      BY <1>1, <1>2, <1>3, <1>4, <1>5, <2>1, BoundStep
    <2> QED BY <2>2 DEF T, P
  <1>8. CASE CheckDeploymentDay(r)
    <2> DEFINE d == req[r].draft
    <2>1. Onward(r, "deployment", "build")
      BY <1>8, CheckedOn
    <2>2. /\ rows' = rows /\ now' = now /\ req'[r].draft = d /\ req'[r].pc = "build"
          /\ req[r].pc = "deployment"
      BY <2>1 DEF Onward
    <2>3. d.treasury \in T
      <3>1. req[r].pc \in Drafting
        BY <2>2 DEF Drafting
      <3> QED BY <3>1, Drafted DEF Draft
    <2>4. Due(req'[r], T, P) = d.amount
      BY <2>2, <2>3 DEF Due, PastDeployment
    <2>5. Within(MaxDaily, Moved(rows, T, now) + d.amount)
      BY <1>8, CommittedIsSpent DEF CheckDeploymentDay
    <2>6. Moved(rows, T, now) + Due(req'[r], T, P) <= MaxDaily
      BY <1>1, <2>4, <2>5 DEF Within
    <2> HIDE DEF T, P, d
    <2>7. Bounded(rows', now', req', T, P, MaxDaily, MaxPayment)
      BY <1>1, <1>2, <1>3, <1>4, <1>5, <2>2, <2>6, BoundStep
    <2> QED BY <2>7 DEF T, P
  <1> QED BY <1>7, <1>8

(* What is moved and owed are natural numbers. *)
LEMMA SpendType ==
    ASSUME IInv, NEW T, NEW P \in SUBSET Drafting
    PROVE  Moved(rows, T, now) \in Nat /\ Owed(req, T, P) \in Nat /\ Racing \in Nat
  <1>1. rows \in Seq(Row) /\ LiveRows(rows, T, now) \in SUBSET DOMAIN rows
        /\ req \in [Requests -> Request]
    BY DEF IInv, Tables, LiveRows
  <1>2. IsFiniteSet(DOMAIN rows) /\ Amounts(rows) \in [DOMAIN rows -> Nat]
    BY <1>1, AmountsType
  <1>3. Moved(rows, T, now) \in Nat
    BY <1>1, <1>2, SumTerm DEF Moved
  <1>4. IsFiniteSet(Requests) /\ Dues(req, T, P) \in [Requests -> Nat]
    BY <1>1, DuesType
  <1>5. Owed(req, T, P) \in Nat
    BY <1>4, SumTerm DEF Owed
  <1>6. Cardinality(Requests) \in Nat /\ Cardinality(Requests) # 0
    BY ProposalsAssumption, FS_CardinalityType, FS_EmptySet
  <1> QED BY <1>3, <1>5, <1>6 DEF Racing

(* The bounds hold at first: nothing is moved and nothing owed. *)
LEMMA InitSpend == Init => SpendInv
  <1> SUFFICES ASSUME Init PROVE SpendInv
    OBVIOUS
  <1>1. IInv
    BY InitIInv
  <1>2. \A r \in Requests : req[r] = Idle
    BY DEF Init
  <1>3. \A r \in Requests : SmallDraft(req[r])
    BY <1>2 DEF Idle, SmallDraft, Drafting
  <1>4. ASSUME NEW T, NEW P \in SUBSET Drafting, NEW D \in Nat, NEW b \in Nat
        PROVE  Bounded(rows, now, req, T, P, D, b)
    <2>1. /\ IsFiniteSet(Requests) /\ Dues(req, T, P) \in [Requests -> Nat]
          /\ \A r \in Requests : Dues(req, T, P)[r] = Due(req[r], T, P)
      BY <1>1, DuesType DEF IInv, Tables
    <2>2. \A r \in Requests : Dues(req, T, P)[r] <= 0
      BY <1>2, <2>1 DEF Due, Idle, Drafting
    <2>3. Owed(req, T, P) <= Cardinality(Requests) * 0
      BY <2>1, <2>2, SumBound DEF Owed
    <2>4. Cardinality(Requests) \in Nat
      BY <2>1, FS_CardinalityType
    <2>5. Moved(rows, T, now) = 0
      <3>1. rows \in Seq(Row) /\ LiveRows(rows, T, now) = {}
        BY DEF Init, LiveRows
      <3>2. IsFiniteSet(DOMAIN rows) /\ Amounts(rows) \in [DOMAIN rows -> Nat]
        BY <3>1, AmountsType
      <3> QED BY <3>1, <3>2, SumTerm DEF Moved
    <2>6. Owed(req, T, P) \in Nat /\ Racing \in Nat
      BY <1>1, SpendType
    <2>7. Racing * b \in Nat
      BY <2>6
    <2>8. Moved(rows, T, now) + Owed(req, T, P) <= D + Racing * b
      BY <2>3, <2>4, <2>5, <2>6, <2>7
    <2> QED BY <2>8 DEF Bounded
  <1>5. PastWorkspace \in SUBSET Drafting /\ PastDeployment \in SUBSET Drafting
    BY DEF PastWorkspace, PastDeployment, Drafting
  <1>6. \A org \in Orgs : WorkspaceBound(org)
    BY <1>4, <1>5, ProposalsAssumption DEF WorkspaceBound
  <1>7. DeploymentBound
    BY <1>4, <1>5, ProposalsAssumption DEF DeploymentBound
  <1> QED BY <1>3, <1>6, <1>7 DEF SpendInv

(* And every step keeps them. *)
LEMMA NextSpend == IInv /\ IInv' /\ SpendInv /\ [Next]_vars => SpendInv'
  <1> SUFFICES ASSUME IInv, IInv', SpendInv, [Next]_vars PROVE SpendInv'
    OBVIOUS
  <1>1. PICK r \in Requests : Progress(r)
    BY EveryStep
  <1>2. \A s \in Requests : SmallDraft(req[s])
    BY DEF SpendInv
  <1>3. \A s \in Requests : SmallDraft(req'[s])
    BY <1>1, <1>2, SmallStep
  <1>4. ASSUME NEW org \in Orgs PROVE WorkspaceBound(org)'
    BY <1>1, <1>2, WorkspaceStep DEF SpendInv, WorkspaceBound
  <1>5. DeploymentBound'
    BY <1>1, <1>2, DeploymentStep DEF SpendInv, DeploymentBound
  <1> QED BY <1>3, <1>4, <1>5 DEF SpendInv

(* What the bounds say of what is committed. *)
LEMMA SpendCeilings == IInv /\ SpendInv => CeilingsHold
  <1> SUFFICES ASSUME IInv, SpendInv PROVE CeilingsHold
    OBVIOUS
  <1>1. ASSUME NEW T, NEW P \in SUBSET Drafting, NEW D \in Nat, NEW b \in Nat,
               Bounded(rows, now, req, T, P, D, b)
        PROVE  Committed(T) <= D + Racing * b
    <2>1. Moved(rows, T, now) \in Nat /\ Owed(req, T, P) \in Nat /\ Racing \in Nat
      BY SpendType
    <2>2. Racing * b \in Nat
      BY <2>1
    <2>3. Moved(rows, T, now) + Owed(req, T, P) <= D + Racing * b
      BY <1>1 DEF Bounded
    <2>4. Moved(rows, T, now) <= D + Racing * b
      BY <2>1, <2>2, <2>3
    <2> QED BY <2>4, CommittedIsSpent
  <1>2. PastWorkspace \in SUBSET Drafting /\ PastDeployment \in SUBSET Drafting
    BY DEF PastWorkspace, PastDeployment, Drafting
  <1>3. ASSUME NEW org \in Orgs, Policy[org].Daily > 0, Policy[org].PerPayment > 0
        PROVE  Committed(TreasuriesOf(org)) <= Policy[org].Daily + Racing * Policy[org].PerPayment
    <2>1. Bounded(rows, now, req, TreasuriesOf(org), PastWorkspace, Policy[org].Daily,
                  Policy[org].PerPayment)
      BY <1>3 DEF SpendInv, WorkspaceBound
    <2>2. Policy[org].Daily \in Nat /\ Policy[org].PerPayment \in Nat
      BY ProposalsAssumption
    <2> QED BY <1>1, <1>2, <2>1, <2>2
  <1>4. ASSUME MaxDaily > 0, MaxPayment > 0
        PROVE  Committed(Treasuries) <= MaxDaily + Racing * MaxPayment
    <2>1. Bounded(rows, now, req, Treasuries, PastDeployment, MaxDaily, MaxPayment)
      BY <1>4 DEF SpendInv, DeploymentBound
    <2> QED BY <1>1, <1>2, <2>1, ProposalsAssumption
  <1> QED BY <1>3, <1>4 DEF CeilingsHold

(* The daily ceilings, read without a lock, are passed by at most one payment   *)
(* for each request that raced beyond the first.                                *)
THEOREM CeilingsAlwaysHold == Spec => []CeilingsHold
  <1>1. IInv /\ IInv' /\ SpendInv /\ [Next]_vars => SpendInv'
    BY NextSpend
  <1> QED BY <1>1, InitSpend, SpendCeilings, ProposalsSound, PTL DEF Spec
================================================================================
