----------------------------- MODULE WalletsProofs -----------------------------
(* Theorems about Wallets, for every set of members, keys and requests. *)
EXTENDS Wallets, FiniteSetTheorems, TLAPS

(***************************************************************************)
(* What an envelope may still do is told by where it is.  ClaimInv follows *)
(* a claim: nothing reaches the network unclaimed, one request holds it,   *)
(* and it is only given back while the network cannot have it.             *)
(***************************************************************************)
Sent == queue \cup done \cup failed

ClaimInv ==
    /\ Sent \subseteq claimed
    /\ \A r \in Requests : Beyond(r) => req[r].env \in claimed
    /\ \A r, s \in Requests : r # s /\ Beyond(r) /\ Beyond(s) => req[r].env # req[s].env
    /\ \A r \in Requests :
         req[r].pc \in {"count", "insert", "unclaim", "submit"} => req[r].env \notin Sent

(***************************************************************************)
(* GrantInv follows a grant from the envelope it was given for to the      *)
(* account that comes of it, and to the envelope that hands it back.       *)
(***************************************************************************)
Holding == {r \in Requests : req[r].pc # "idle"}
Known == pending \cup claimed \cup Sent \cup {req[r].env : r \in Holding}

\* Past the grant, and not finished.
Granting(r) ==
    /\ req[r].pc \in {"submit", "sent", "refused", "finish"}
    /\ req[r].env.kind = "enroll"
Active ==
    {e \in queue \cup done : e.kind = "enroll"}
    \cup {req[r].env : r \in {s \in Requests : Granting(s)}}

Genuine ==
    \A e \in Known :
      /\ e.kind = "enroll" => e.by = DeviceOf[e.address]
      /\ e.kind # "send" => e.address \notin linked
Kinds ==
    \A r \in Requests :
      /\ req[r].pc \in {"count", "insert", "unclaim", "refused"} => req[r].env.kind = "enroll"
      /\ req[r].pc = "bump" => req[r].env.kind = "reclaim"
OneGrantEach ==
    /\ \A g \in grants : g.member = DeviceOf[g.address] /\ g.address \notin linked
    /\ \A g, h \in grants : g.member = h.member => g = h
Backed(a) == \E g \in grants : g.address = a
OneEnrolmentEach ==
    /\ \A e \in Active : Backed(e.address)
    /\ \A e, f \in Active : e.by = f.by => e = f
    /\ \A e \in failed : e.kind # "enroll"
    /\ \A r \in Requests : req[r].pc = "refused" => req[r].env \notin Sent
Sponsored ==
    /\ \A a \in Addresses \ linked : account[a].state # "none" =>
         \E e \in done : e.kind = "enroll" /\ e.address = a
    /\ \A a \in tracked \ linked : Backed(a)

AllReclaimed(a) == \A g \in grants : g.address = a => g.reclaimed
HandingBack(a) == \E e \in Known : e.kind = "reclaim" /\ e.address = a
Returns ==
    /\ \A a \in Addresses : HandingBack(a) => Backed(a) /\ (a \in tracked \/ AllReclaimed(a))
    /\ \A r \in Requests, a \in Addresses : Granting(r) /\ req[r].env.address = a =>
         a \notin tracked /\ ~HandingBack(a)
    /\ \A a \in Addresses : account[a].state = "merged" \/ a \in closes =>
         \E e \in done : e.kind = "reclaim" /\ e.address = a

GrantInv ==
    /\ Genuine /\ Kinds /\ OneGrantEach /\ OneEnrolmentEach /\ Sponsored /\ Returns
    /\ HandedBackIsForgotten

--------------------------------------------------------------------------------
Pc == {"record", "bump", "count", "insert", "unclaim", "submit", "sent", "refused", "finish"}

(* A request that is doing something holds an envelope. *)
LEMMA RequestShape ==
    ASSUME NEW x \in Request, x.pc # "idle"
    PROVE  x.env \in Envelope /\ x.pc \in Pc
  BY DEF Request, Pc

(* It keeps it while it goes on. *)
LEMMA StepShape ==
    ASSUME NEW x \in Request, x.pc # "idle", NEW p \in Pc
    PROVE  /\ [x EXCEPT !.pc = p] \in Request
           /\ [x EXCEPT !.pc = p].pc = p /\ [x EXCEPT !.pc = p].env = x.env
  <1>1. x \in [pc: Pc, env: Envelope]
    BY DEF Request, Pc
  <1>2. [x EXCEPT !.pc = p] \in [pc: Pc, env: Envelope]
    BY <1>1
  <1>3. [x EXCEPT !.pc = p].pc = p /\ [x EXCEPT !.pc = p].env = x.env
    BY <1>1
  <1> QED BY <1>2, <1>3 DEF Request, Pc

(* A request newly given an envelope. *)
LEMMA HoldShape ==
    ASSUME NEW p \in Pc, NEW e \in Envelope
    PROVE  [pc |-> p, env |-> e] \in Request
  BY DEF Request, Pc

(* The wallet of a member is an address. *)
LEMMA StellarAddressType ==
    ASSUME TypeOK, NEW m, hasStellarAccount(m)
    PROVE  /\ stellarAddress(m) \in tracked \cup linked
           /\ stellarAddress(m) \in Addresses
  <1> DEFINE own == AddressForOwner(m)
             wallet == {a \in linked : DeviceOf[a] = m}
  <1>1. CASE own # {}
    <2>1. stellarAddress(m) \in own
      BY <1>1 DEF stellarAddress
    <2> QED BY <2>1 DEF AddressForOwner, TypeOK
  <1>2. CASE own = {} /\ wallet # {}
    <2>1. stellarAddress(m) \in wallet
      BY <1>2 DEF stellarAddress
    <2> QED BY <2>1 DEF TypeOK
  <1>3. CASE own = {} /\ wallet = {}
    <2>1. stellarAddress(m) = None
      BY <1>3 DEF stellarAddress
    <2> QED BY <2>1 DEF hasStellarAccount
  <1> QED BY <1>1, <1>2, <1>3

(* What is built is an envelope. *)
LEMMA BuiltType ==
    ASSUME TypeOK, NEW k \in Kind, NEW m \in Members, NEW a \in Addresses, NEW n \in Nat
    PROVE  Built(k, m, a, n) \in Envelope
  <1>1. now + TTL \in Nat
    BY WalletsAssumption DEF TypeOK
  <1> QED BY <1>1 DEF Built, Envelope

--------------------------------------------------------------------------------
(* Types. *)

(* Every step keeps the types. *)
LEMMA TypeStep ==
    ASSUME TypeOK, [Next]_vars
    PROVE  TypeOK'
  <1> USE WalletsAssumption
  <1>idle. Idle \in Request
    BY DEF Idle, Request
  <1>1. ASSUME NEW on \in BOOLEAN, NEW cap \in Caps, provisioning(on, cap)
        PROVE  TypeOK'
    <2>1. policy.cap \in Nat /\ EnrollmentPolicyOf.cap = policy.cap /\ cap \in Nat
      BY DEF EnrollmentPolicyOf, TypeOK
    <2>2. [on |-> TRUE, cap |-> cap] \in [on: BOOLEAN, cap: Nat]
      BY <2>1
    <2>a. [on |-> FALSE, cap |-> policy.cap] \in [on: BOOLEAN, cap: Nat]
      BY <2>1
    <2>b. \/ policy' = [on |-> TRUE, cap |-> cap]
          \/ policy' = [on |-> FALSE, cap |-> policy.cap]
      BY <1>1, <2>1 DEF provisioning, SetEnrollmentPolicy
    <2>3. policy' \in [on: BOOLEAN, cap: Nat]
      BY <2>2, <2>a, <2>b
    <2> QED BY <1>1, <2>3 DEF provisioning, network, TypeOK
  <1>2. ASSUME NEW r \in Requests, NEW e \in Envelope, Prepare(r, e)
        PROVE  TypeOK'
    <2>1. [pc |-> "record", env |-> e] \in Request
      BY HoldShape DEF Pc
    <2> QED BY <1>2, <2>1 DEF Prepare, Goto, store, network, TypeOK
  <1>3. ASSUME NEW r \in Requests, NEW m \in Members, NEW a \in Addresses,
               PrepareEnrollment(r, m, a)
        PROVE  TypeOK'
    <2>1. sponsor + 1 \in Nat
      BY DEF TypeOK
    <2>2. BuildProvision(m, a) \in Envelope
      BY <2>1, BuiltType DEF BuildProvision, Kind
    <2> QED BY <1>2, <1>3, <2>2 DEF PrepareEnrollment
  <1>4. ASSUME NEW r \in Requests, NEW m \in Members, HandleSend(r, m) \/ reclaim(r, m)
        PROVE  TypeOK'
    <2> DEFINE a == stellarAddress(m)
    <2>1. a \in Addresses
      BY <1>4, StellarAddressType DEF HandleSend, reclaim
    <2>2. account[a].seq + 1 \in Nat
      BY <2>1 DEF TypeOK, Account
    <2>3. BuildPayment(m, a) \in Envelope /\ Build(m, a) \in Envelope
      BY <2>1, <2>2, BuiltType DEF BuildPayment, Build, Kind
    <2> QED BY <1>2, <1>4, <2>3 DEF HandleSend, PrepareSend, reclaim, PrepareReclaim
  <1>5. ASSUME NEW r \in Requests, Record(r)
        PROVE  TypeOK'
    <2>1. req[r].env \in Envelope
      BY <1>5, RequestShape DEF Record, At, TypeOK
    <2> QED BY <1>5, <1>idle, <2>1 DEF Record, Goto, network, TypeOK
  <1>6. ASSUME NEW r \in Requests, NEW e \in Envelope, NEW p \in Pc, Claim(r, e, p)
        PROVE  TypeOK'
    <2>1. [pc |-> p, env |-> e] \in Request
      BY HoldShape
    <2> QED BY <1>6, <2>1 DEF Claim, Goto, network, TypeOK
  <1>7. ASSUME NEW r \in Requests, NEW e \in pending, NEW m \in Members,
               Submit(r, e, m) \/ SubmitEnrollment(r, e, m) \/ SubmitReclaim(r, e, m)
        PROVE  TypeOK'
    <2>1. e \in Envelope
      BY DEF TypeOK
    <2>2. [pc |-> "bump", env |-> e] \in Request
      BY <2>1, HoldShape DEF Pc
    <2>3. CASE Submit(r, e, m) \/ SubmitEnrollment(r, e, m)
      BY <2>3, <2>1, <1>6 DEF Submit, SubmitEnrollment, authorise, authoriseEnrollment, Pc
    <2>4. CASE SubmitReclaim(r, e, m)
      BY <2>4, <2>2 DEF SubmitReclaim, Goto, store, network, TypeOK
    <2> QED BY <1>7, <2>3, <2>4
  <1>8. ASSUME NEW r \in Requests, ClaimReclaim(r)
        PROVE  TypeOK'
    <2>1. req[r].env \in Envelope
      BY <1>8, RequestShape DEF ClaimReclaim, At, TypeOK
    <2> QED BY <1>8, <1>6, <2>1 DEF ClaimReclaim, Pc
  <1>9. ASSUME NEW r \in Requests, NEW p \in Pc, req[r].pc # "idle", Step(r, p)
        PROVE  req' \in [Requests -> Request]
    <2>1. [req[r] EXCEPT !.pc = p] \in Request
      BY <1>9, StepShape DEF TypeOK
    <2> QED BY <1>9, <2>1 DEF Step, Goto, TypeOK
  <1>10. ASSUME NEW r \in Requests, CountGrants(r) \/ GrantRefused(r)
         PROVE  TypeOK'
    <2>1. req' \in [Requests -> Request]
      BY <1>9, <1>10 DEF CountGrants, GrantRefused, At, Pc
    <2> QED BY <1>10, <2>1 DEF CountGrants, GrantRefused, store, network, TypeOK
  <1>11. ASSUME NEW r \in Requests, InsertGrant(r)
         PROVE  TypeOK'
    <2>1. req' \in [Requests -> Request]
      BY <1>9, <1>11 DEF InsertGrant, At, Pc
    <2>2. req[r].env \in Envelope
      BY <1>11, RequestShape DEF InsertGrant, At, TypeOK
    <2> DEFINE g == [member |-> req[r].env.by, address |-> req[r].env.address, at |-> now,
                     reclaimed |-> FALSE]
    <2>3. g \in Grant
      BY <2>2 DEF Envelope, Grant, TypeOK
    <2>a. grants' = grants \/ grants' = grants \cup {g}
      BY <1>11 DEF InsertGrant
    <2>4. grants' \subseteq Grant
      <3> HIDE DEF g
      <3> QED BY <2>3, <2>a DEF TypeOK
    <2> QED BY <1>11, <2>1, <2>4 DEF InsertGrant, network, TypeOK
  <1>12. ASSUME NEW r \in Requests, ReleaseClaim(r)
         PROVE  TypeOK'
    <2>1. req[r].env \in Envelope
      BY <1>12, RequestShape DEF ReleaseClaim, At, TypeOK
    <2> QED BY <1>12, <1>idle, <2>1 DEF ReleaseClaim, Goto, network, TypeOK
  <1>13. ASSUME NEW r \in Requests, Send(r)
         PROVE  TypeOK'
    <2>1. req' \in [Requests -> Request]
      BY <1>9, <1>13 DEF Send, At, Pc
    <2>2. req[r].env \in Envelope
      BY <1>13, RequestShape DEF Send, At, TypeOK
    <2> QED BY <1>13, <2>1, <2>2 DEF Send, store, TypeOK
  <1>14. ASSUME NEW r \in Requests, Rejected(r)
         PROVE  TypeOK'
    <2>1. CASE req[r].env.kind = "enroll"
      <3>1. req' \in [Requests -> Request]
        BY <1>9, <1>14, <2>1 DEF Rejected, At, Pc
      <3> QED BY <1>14, <3>1 DEF Rejected, store, network, TypeOK
    <2>2. CASE req[r].env.kind # "enroll"
      BY <1>14, <2>2, <1>idle DEF Rejected, Goto, store, network, TypeOK
    <2> QED BY <2>1, <2>2
  <1>15. ASSUME NEW r \in Requests, Answered(r) \/ resolveAmbiguous(r)
         PROVE  TypeOK'
    <2>1. req[r].env \in Envelope
      BY <1>15, RequestShape DEF Answered, resolveAmbiguous, At, TypeOK
    <2>2. After(req[r].env) \in Request
      BY <2>1, <1>idle, HoldShape DEF After, Pc
    <2>3. req' \in [Requests -> Request]
      BY <1>15, <1>idle, <2>2 DEF Answered, resolveAmbiguous, Goto, TypeOK
    <2> QED BY <1>15, <2>3 DEF Answered, resolveAmbiguous, store, network, TypeOK
  <1>16. ASSUME NEW r \in Requests, ReleaseGrant(r)
         PROVE  TypeOK'
    BY <1>16, <1>idle DEF ReleaseGrant, Goto, network, TypeOK
  <1>17. ASSUME NEW r \in Requests, finalizeEnrollment(r)
         PROVE  TypeOK'
    <2>1. req[r].env.address \in Addresses
      BY <1>17, RequestShape DEF finalizeEnrollment, At, TypeOK, Envelope
    <2>2. tracked' \subseteq Addresses
      BY <1>17, <2>1 DEF finalizeEnrollment, TrackAddress, TypeOK
    <2> QED BY <1>17, <1>idle, <2>2 DEF finalizeEnrollment, Goto, network, TypeOK
  <1>18. ASSUME NEW a, ReleaseAddress(a)
         PROVE  grants' \subseteq Grant /\ tracked' \subseteq Addresses /\ linked' \subseteq Addresses
    <2>1. ASSUME NEW g \in Grant PROVE [g EXCEPT !.reclaimed = TRUE] \in Grant
      BY DEF Grant
    <2> QED BY <1>18, <2>1 DEF ReleaseAddress, TypeOK
  <1>19. ASSUME NEW r \in Requests, FinishReclaim(r)
         PROVE  TypeOK'
    <2>1. grants' \subseteq Grant /\ tracked' \subseteq Addresses /\ linked' \subseteq Addresses
      BY <1>18, <1>19 DEF FinishReclaim
    <2> QED BY <1>19, <1>idle, <2>1 DEF FinishReclaim, Goto, network, TypeOK
  <1>20. ASSUME NEW a \in Addresses, applyClose(a)
         PROVE  TypeOK'
    <2>1. grants' \subseteq Grant /\ tracked' \subseteq Addresses /\ linked' \subseteq Addresses
      BY <1>18, <1>20 DEF applyClose, TypeOK
    <2> QED BY <1>20, <2>1 DEF applyClose, TypeOK
  <1>21. ASSUME NEW r \in Requests, Quit(r)
         PROVE  TypeOK'
    BY <1>21, <1>idle DEF Quit, Goto, store, network, TypeOK
  <1>22. ASSUME NEW e \in queue, Include(e)
         PROVE  TypeOK'
    <2>1. e \in Envelope /\ e.address \in Addresses /\ e.seq \in Nat /\ e.kind \in Kind
      BY DEF TypeOK, Envelope
    <2>2. sponsor' \in Nat
      BY <1>22, <2>1 DEF Include, TypeOK
    <2>3. ASSUME Works(e) PROVE Effect(e) \in Account
      <3>1. account[e.address] \in Account
        BY <2>1 DEF TypeOK
      <3>2. CASE e.kind = "enroll"
        BY <3>2 DEF Effect, Account
      <3>3. CASE e.kind = "send"
        <4>1. account[e.address].balance - 1 \in Nat
          BY <2>3, <3>1, <3>3 DEF Works, Account
        <4> QED BY <2>1, <3>1, <3>3, <4>1 DEF Effect, Account
      <3>4. CASE e.kind = "reclaim"
        BY <2>1, <3>1, <3>4 DEF Effect, Account
      <3> QED BY <2>1, <3>2, <3>3, <3>4 DEF Kind
    <2>4. [account[e.address] EXCEPT !.seq = e.seq] \in Account
      BY <2>1 DEF TypeOK, Account
    <2>5. account' \in [Addresses -> Account]
      BY <1>22, <2>1, <2>3, <2>4 DEF Include, TypeOK
    <2> QED BY <1>22, <2>1, <2>2, <2>5 DEF Include, store, TypeOK
  <1>23. ASSUME NEW a \in Addresses, Receive(a)
         PROVE  TypeOK'
    <2>1. [account[a] EXCEPT !.balance = @ + 1] \in Account
      BY DEF TypeOK, Account
    <2>2. account' \in [Addresses -> Account]
      BY <1>23, <2>1 DEF Receive, TypeOK
    <2> QED BY <1>23, <2>2 DEF Receive, store, TypeOK
  <1>24. CASE Tick
    BY <1>24 DEF Tick, store, network, TypeOK
  <1>25. CASE UNCHANGED vars
    BY <1>25 DEF vars, store, network, TypeOK
  <1> QED BY <1>1, <1>3, <1>4, <1>5, <1>7, <1>8, <1>10, <1>11, <1>12, <1>13, <1>14, <1>15,
             <1>16, <1>17, <1>19, <1>20, <1>21, <1>22, <1>23, <1>24, <1>25 DEF Next

--------------------------------------------------------------------------------
(* Claims. *)

Early == {"count", "insert", "unclaim", "submit"}
Past == {"count", "insert", "unclaim", "submit", "sent", "refused", "finish"}

(* A request that goes on with the envelope it claimed, or drops it, disturbs no claim. *)
LEMMA ClaimKept ==
    ASSUME TypeOK, ClaimInv, NEW r \in Requests, NEW x,
           req' = [req EXCEPT ![r] = x], claimed' = claimed, Sent' = Sent,
           x.pc \in Past => Beyond(r) /\ x.env = req[r].env,
           x.pc \in Early => req[r].pc \in Early
    PROVE  ClaimInv'
  <1>1. /\ req'[r] = x
        /\ \A s \in Requests : s # r => req'[s] = req[s]
    BY DEF TypeOK
  <1>2. ASSUME NEW s \in Requests, Beyond(s)'
        PROVE  Beyond(s) /\ req'[s].env = req[s].env
    BY <1>1, <1>2 DEF Beyond, Past
  <1>3. ASSUME NEW s \in Requests, req'[s].pc \in Early
        PROVE  req[s].pc \in Early /\ Beyond(s)'
    BY <1>1, <1>3 DEF Beyond, Early
  <1>4. Sent' \subseteq claimed'
    BY DEF ClaimInv
  <1>5. \A s \in Requests : Beyond(s)' => req'[s].env \in claimed'
    BY <1>2 DEF ClaimInv
  <1>6. \A s, t \in Requests : s # t /\ Beyond(s)' /\ Beyond(t)' => req'[s].env # req'[t].env
    BY <1>2 DEF ClaimInv
  <1>7. \A s \in Requests : req'[s].pc \in Early => req'[s].env \notin Sent'
    BY <1>2, <1>3 DEF ClaimInv, Early
  <1> QED BY <1>4, <1>5, <1>6, <1>7 DEF ClaimInv, Early

(* Claiming an envelope nobody claimed. *)
LEMMA ClaimTaken ==
    ASSUME TypeOK, ClaimInv, NEW r \in Requests, NEW e \in pending,
           NEW p \in {"count", "submit"}, Claim(r, e, p)
    PROVE  ClaimInv'
  <1>1. /\ req'[r] = [pc |-> p, env |-> e]
        /\ \A s \in Requests : s # r => req'[s] = req[s]
    BY DEF Claim, Goto, TypeOK
  <1>2. e \notin claimed /\ claimed' = claimed \cup {e} /\ Sent' = Sent
    BY DEF Claim, network, Sent, TypeOK
  <1>3. \A s \in Requests : s # r /\ Beyond(s)' => Beyond(s) /\ req'[s].env \in claimed
    BY <1>1 DEF Beyond, ClaimInv
  <1>4. Sent' \subseteq claimed' /\ \A s \in Requests : Beyond(s)' => req'[s].env \in claimed'
    BY <1>1, <1>2, <1>3 DEF ClaimInv
  <1>5. \A s, t \in Requests : s # t /\ Beyond(s)' /\ Beyond(t)' => req'[s].env # req'[t].env
    BY <1>1, <1>2, <1>3 DEF ClaimInv
  <1>6. \A s \in Requests : req'[s].pc \in Early => req'[s].env \notin Sent'
    BY <1>1, <1>2 DEF ClaimInv, Early
  <1> QED BY <1>4, <1>5, <1>6 DEF ClaimInv, Early

(* Every step keeps the claims. *)
LEMMA ClaimStep ==
    ASSUME TypeOK, ClaimInv, [Next]_vars
    PROVE  ClaimInv'
  <1>1. ASSUME UNCHANGED <<req, claimed, queue, done, failed>>
        PROVE  ClaimInv'
    BY <1>1 DEF ClaimInv, Beyond, Sent
  <1>2. CASE \/ \E on \in BOOLEAN, cap \in Caps : provisioning(on, cap)
             \/ \E a \in Addresses : applyClose(a) \/ Receive(a)
             \/ Tick \/ UNCHANGED vars
    BY <1>1, <1>2 DEF provisioning, applyClose, Receive, Tick, vars, store, network
  <1>3. ASSUME NEW r \in Requests, NEW e, Prepare(r, e) \/ (SubmitReclaim(r, e, e.by))
        PROVE  ClaimInv'
    <2>1. \E p \in {"record", "bump"} : req' = [req EXCEPT ![r] = [pc |-> p, env |-> e]]
      BY <1>3 DEF Prepare, SubmitReclaim, Goto
    <2>2. claimed' = claimed /\ Sent' = Sent
      BY <1>3 DEF Prepare, SubmitReclaim, store, network, Sent
    <2> QED BY <2>1, <2>2, ClaimKept DEF Past, Early
  <1>4. ASSUME NEW r \in Requests,
               \/ \E m \in Members, a \in Addresses : PrepareEnrollment(r, m, a)
               \/ \E m \in Members : HandleSend(r, m) \/ reclaim(r, m)
        PROVE  ClaimInv'
    BY <1>3, <1>4 DEF PrepareEnrollment, HandleSend, PrepareSend, reclaim, PrepareReclaim
  <1>5. ASSUME NEW r \in Requests, NEW e \in pending, NEW m \in Members,
               Submit(r, e, m) \/ SubmitEnrollment(r, e, m) \/ SubmitReclaim(r, e, m)
        PROVE  ClaimInv'
    <2>1. SubmitReclaim(r, e, m) => SubmitReclaim(r, e, e.by)
      BY DEF SubmitReclaim, LiveReclaim, Live
    <2> QED BY <1>3, <1>5, <2>1, ClaimTaken
            DEF Submit, SubmitEnrollment, authorise, authoriseEnrollment
  <1>6. ASSUME NEW r \in Requests, ClaimReclaim(r)
        PROVE  ClaimInv'
    BY <1>6, ClaimTaken DEF ClaimReclaim, Live
  <1>7. ASSUME NEW r \in Requests, Goto(r, Idle), claimed' = claimed, Sent' = Sent
        PROVE  ClaimInv'
    <2>1. Idle.pc \notin Past /\ Idle.pc \notin Early
      BY DEF Idle, Past, Early
    <2> QED BY <1>7, <2>1, ClaimKept DEF Goto
  <1>8. ASSUME NEW r \in Requests, Record(r) \/ ReleaseGrant(r) \/ finalizeEnrollment(r)
                                   \/ FinishReclaim(r) \/ Quit(r)
        PROVE  ClaimInv'
    BY <1>7, <1>8 DEF Record, ReleaseGrant, finalizeEnrollment, FinishReclaim, Quit, store, network, Sent
  <1>9. ASSUME NEW r \in Requests, NEW p \in Past, Step(r, p), Beyond(r),
               p \in Early => req[r].pc \in Early, claimed' = claimed, Sent' = Sent
        PROVE  ClaimInv'
    <2>1. req[r] \in Request /\ req[r].pc # "idle" /\ p \in Pc
      BY <1>9 DEF TypeOK, Beyond, Past, Pc
    <2>2. [req[r] EXCEPT !.pc = p].pc = p /\ [req[r] EXCEPT !.pc = p].env = req[r].env
      BY <2>1, StepShape
    <2> QED BY <1>9, <2>2, ClaimKept DEF Step, Goto
  <1>10. ASSUME NEW r \in Requests, CountGrants(r) \/ InsertGrant(r) \/ GrantRefused(r)
         PROVE  ClaimInv'
    <2>1. claimed' = claimed /\ Sent' = Sent
      BY <1>10 DEF CountGrants, InsertGrant, GrantRefused, store, network, Sent
    <2>2. Beyond(r) /\ req[r].pc \in Early
      BY <1>10 DEF CountGrants, InsertGrant, GrantRefused, At, Beyond, Early
    <2>3. \E p \in Early : Step(r, p)
      BY <1>10 DEF CountGrants, InsertGrant, GrantRefused, Early
    <2> QED BY <1>9, <2>1, <2>2, <2>3 DEF Early, Past
  <1>11. ASSUME NEW r \in Requests, Rejected(r)
         PROVE  ClaimInv'
    <2>1. claimed' = claimed /\ Sent' = Sent /\ Beyond(r)
      BY <1>11 DEF Rejected, At, Beyond, store, network, Sent
    <2>2. Step(r, "refused") \/ Goto(r, Idle)
      BY <1>11 DEF Rejected
    <2> QED BY <1>7, <1>9, <2>1, <2>2 DEF Early, Past
  <1>12. ASSUME NEW r \in Requests, Answered(r) \/ resolveAmbiguous(r)
         PROVE  ClaimInv'
    <2>1. claimed' = claimed /\ Sent' = Sent /\ Beyond(r)
      BY <1>12 DEF Answered, resolveAmbiguous, At, Beyond, store, network, Sent
    <2>2. \/ Goto(r, Idle)
          \/ req' = [req EXCEPT ![r] = [pc |-> "finish", env |-> req[r].env]]
      BY <1>12 DEF Answered, resolveAmbiguous, After, Goto
    <2> QED BY <1>7, <2>1, <2>2, ClaimKept DEF Early, Past
  <1>13. ASSUME NEW r \in Requests, ReleaseClaim(r)
         PROVE  ClaimInv'
    <2> DEFINE e == req[r].env
    <2>1. CASE claimed' = claimed
      BY <1>13, <2>1, <1>7 DEF ReleaseClaim, network, Sent
    <2>2. CASE claimed' = claimed \ {e}
      <3>1. /\ req'[r] = Idle /\ ~Beyond(r)' /\ req'[r].pc \notin Early
            /\ \A s \in Requests : s # r => req'[s] = req[s]
        BY <1>13 DEF ReleaseClaim, Goto, TypeOK, Idle, Beyond, Early
      <3>2. Beyond(r) /\ e \notin Sent /\ Sent' = Sent
        BY <1>13 DEF ReleaseClaim, At, Beyond, ClaimInv, network, Sent
      <3>3. \A s \in Requests : Beyond(s)' => s # r /\ Beyond(s) /\ req'[s].env = req[s].env
        BY <3>1 DEF Beyond
      <3>4. Sent' \subseteq claimed'
        BY <2>2, <3>2 DEF ClaimInv
      <3>5. \A s \in Requests : Beyond(s)' => req'[s].env \in claimed'
        BY <2>2, <3>2, <3>3 DEF ClaimInv
      <3>6. \A s, t \in Requests : s # t /\ Beyond(s)' /\ Beyond(t)' => req'[s].env # req'[t].env
        BY <3>3 DEF ClaimInv
      <3>7. \A s \in Requests : req'[s].pc \in Early => req'[s].env \notin Sent'
        BY <3>1, <3>2 DEF ClaimInv, Early
      <3> QED BY <3>4, <3>5, <3>6, <3>7 DEF ClaimInv, Early
    <2> QED BY <1>13, <2>1, <2>2 DEF ReleaseClaim
  <1>14. ASSUME NEW r \in Requests, Send(r)
         PROVE  ClaimInv'
    <2> DEFINE e == req[r].env
    <2>1. req[r] \in Request /\ req[r].pc # "idle" /\ Beyond(r)
      BY <1>14 DEF Send, At, TypeOK, Beyond
    <2>2. /\ req'[r].pc = "sent" /\ req'[r].env = e
          /\ \A s \in Requests : s # r => req'[s] = req[s]
      <3>1. req'[r] = [req[r] EXCEPT !.pc = "sent"] /\ \A s \in Requests : s # r => req'[s] = req[s]
        BY <1>14 DEF Send, Step, Goto, TypeOK
      <3> QED BY <2>1, <3>1, StepShape DEF Pc
    <2>3. claimed' = claimed /\ Sent' \subseteq Sent \cup {e}
      BY <1>14 DEF Send, store, Sent
    <2>4. \A s \in Requests : Beyond(s)' => Beyond(s) /\ req'[s].env = req[s].env
      BY <2>1, <2>2 DEF Beyond
    <2>5. Sent' \subseteq claimed'
      BY <2>1, <2>3 DEF ClaimInv
    <2>6. \A s \in Requests : Beyond(s)' => req'[s].env \in claimed'
      BY <2>3, <2>4 DEF ClaimInv
    <2>7. \A s, t \in Requests : s # t /\ Beyond(s)' /\ Beyond(t)' => req'[s].env # req'[t].env
      BY <2>4 DEF ClaimInv
    <2>8. ASSUME NEW s \in Requests, req'[s].pc \in Early
          PROVE  req'[s].env \notin Sent'
      <3>1. s # r /\ Beyond(s) /\ req'[s] = req[s]
        BY <2>2, <2>8 DEF Early, Beyond
      <3>2. req[s].env # e /\ req[s].env \notin Sent
        BY <2>1, <2>8, <3>1 DEF ClaimInv, Early
      <3> QED BY <2>3, <3>1, <3>2
    <2> QED BY <2>5, <2>6, <2>7, <2>8 DEF ClaimInv, Early
  <1>15. ASSUME NEW e \in queue, Include(e)
         PROVE  ClaimInv'
    <2>1. Sent' \subseteq Sent /\ UNCHANGED <<req, claimed>>
      BY <1>15 DEF Include, Sent, store
    <2> QED BY <2>1 DEF ClaimInv, Beyond
  <1> QED BY <1>2, <1>4, <1>5, <1>6, <1>8, <1>10, <1>11, <1>12, <1>13, <1>14, <1>15 DEF Next

(* The types hold at first, and so do the claims. *)
LEMMA ClaimsInit ==
    ASSUME Init
    PROVE  TypeOK /\ ClaimInv
  <1>1. /\ Idle \in Request /\ [on |-> FALSE, cap |-> 0] \in [on: BOOLEAN, cap: Nat]
        /\ \A s \in {"none", "live"} : [state |-> s, seq |-> 0, balance |-> 0] \in Account
    BY DEF Idle, Request, Account
  <1>2. linked \subseteq Addresses
    BY WalletsAssumption DEF Init
  <1>3. account \in [Addresses -> Account]
    BY <1>1, <1>2 DEF Init
  <1>4. TypeOK
    BY <1>1, <1>2, <1>3 DEF Init, TypeOK
  <1>5. \A r \in Requests : req[r].pc = "idle"
    BY DEF Init, Idle
  <1>6. ClaimInv
    BY <1>5 DEF Init, ClaimInv, Beyond, Sent
  <1> QED BY <1>4, <1>6

(* The tables of api/enroll.go, api/send.go and api/reclaim.go hold rows and *)
(* every request what its step needs, whatever is served at a time.          *)
THEOREM TypeCorrect == Spec => []TypeOK
  <1>1. Init => TypeOK
    BY ClaimsInit
  <1>2. TypeOK /\ [Next]_vars => TypeOK'
    BY TypeStep
  <1> QED BY <1>1, <1>2, PTL DEF Spec

(* An envelope is claimed before the network can have it and never given   *)
(* back after.                                                             *)
THEOREM ClaimsHold == Spec => []ClaimInv
  <1>1. Init => TypeOK /\ ClaimInv
    BY ClaimsInit
  <1>2. TypeOK /\ ClaimInv /\ [Next]_vars => TypeOK' /\ ClaimInv'
    BY TypeStep, ClaimStep
  <1> QED BY <1>1, <1>2, PTL DEF Spec

(* api/submit.go:146, api/enroll.go:333: no envelope that the network may  *)
(* have waits to be submitted, and no two requests hold the same one.      *)
THEOREM NeverSubmittedTwice == Spec => []SubmittedOnce
  <1>1. TypeOK /\ ClaimInv => SubmittedOnce
    BY DEF TypeOK, ClaimInv, Sent, SubmittedOnce
  <1> QED BY <1>1, TypeCorrect, ClaimsHold, PTL

--------------------------------------------------------------------------------
(* Grants. *)

Late == {"submit", "sent", "refused", "finish"}
Judged == {"count", "insert", "unclaim", "refused"}

\* What a request may newly prepare.
Fresh(e) ==
    \/ e.kind = "send"
    \/ e.kind = "enroll" /\ e.by = DeviceOf[e.address] /\ e.address \notin linked
    \/ e.kind = "reclaim" /\ e.address \in tracked \ linked /\ Backed(e.address)

\* The grants, the wallets and the accounts stay as they are.
Quiet ==
    /\ UNCHANGED <<grants, tracked, linked, done, failed, closes>>
    /\ \A a \in Addresses : account'[a].state = account[a].state

(* A step that leaves grants, wallets and accounts alone, and puts no enrolment *)
(* past its grant, keeps the invariant.                                         *)
LEMMA QuietStep ==
    ASSUME TypeOK, GrantInv, Quiet, Kinds', Active' \subseteq Active,
           \A e \in Known' : e \in Known \/ Fresh(e),
           \A s \in Requests : Granting(s)' => Granting(s) /\ req'[s].env = req[s].env,
           \A s \in Requests : req'[s].pc = "refused" => req'[s].env \notin Sent'
    PROVE  GrantInv'
  <1>1. Genuine'
    BY DEF GrantInv, Genuine, Fresh, Quiet
  <1>2. OneGrantEach'
    BY DEF GrantInv, OneGrantEach, Quiet
  <1>3. \A a : Backed(a)' <=> Backed(a)
    BY DEF Backed, Quiet
  <1>4. OneEnrolmentEach'
    BY <1>3 DEF GrantInv, OneEnrolmentEach, Quiet
  <1>5. Sponsored'
    BY <1>3 DEF GrantInv, Sponsored, Quiet
  <1>6. \A a \in Addresses : HandingBack(a)' => HandingBack(a) \/ (a \in tracked /\ Backed(a))
    BY DEF HandingBack, Fresh
  <1>7. \A a \in Addresses : HandingBack(a)' => Backed(a)' /\ (a \in tracked' \/ AllReclaimed(a)')
    BY <1>3, <1>6 DEF GrantInv, Returns, AllReclaimed, Quiet
  <1>8. \A s \in Requests, a \in Addresses : Granting(s)' /\ req'[s].env.address = a =>
          a \notin tracked' /\ ~HandingBack(a)'
    BY <1>6 DEF GrantInv, Returns, Quiet
  <1>9. Returns'
    <2>1. \A a \in Addresses : account'[a].state = "merged" \/ a \in closes' =>
            \E e \in done' : e.kind = "reclaim" /\ e.address = a
      BY DEF GrantInv, Returns, Quiet
    <2> QED BY <1>7, <1>8, <2>1 DEF Returns
  <1>10. HandedBackIsForgotten'
    BY DEF GrantInv, HandedBackIsForgotten, Quiet
  <1> QED BY <1>1, <1>2, <1>4, <1>5, <1>9, <1>10 DEF GrantInv

(* What is known after one request goes on. *)
LEMMA KnownMove ==
    ASSUME TypeOK, NEW r \in Requests, NEW x, req' = [req EXCEPT ![r] = x],
           pending' \cup claimed' \cup Sent' \subseteq Known
    PROVE  \A e \in Known' : e \in Known \/ (x.pc # "idle" /\ e = x.env)
  <1>1. req'[r] = x /\ \A s \in Requests : s # r => req'[s] = req[s]
    BY DEF TypeOK
  <1>2. ASSUME NEW s \in Requests, req'[s].pc # "idle"
        PROVE  req'[s].env \in Known \/ (x.pc # "idle" /\ req'[s].env = x.env)
    BY <1>1, <1>2 DEF Known, Holding
  <1> QED BY <1>2 DEF Known, Holding

(* One request goes on, and grants, wallets and accounts are left alone. *)
LEMMA QuietMove ==
    ASSUME TypeOK, ClaimInv, GrantInv, NEW r \in Requests, NEW x,
           req' = [req EXCEPT ![r] = x],
           UNCHANGED <<grants, tracked, linked, account, done, failed, closes>>,
           pending' \cup claimed' \subseteq Known,
           queue' = queue \/ (At(r, "submit") /\ x.pc = "sent" /\ queue' = queue \cup {req[r].env}),
           x.pc = "idle" \/ x.env \in Known \/ Fresh(x.env),
           x.pc \in Judged => x.env.kind = "enroll",
           x.pc = "bump" => x.env.kind = "reclaim",
           x.pc \in Late /\ x.env.kind = "enroll" => Granting(r) /\ x.env = req[r].env,
           x.pc = "refused" => x.env \notin Sent /\ x.env = req[r].env
    PROVE  GrantInv'
  <1>1. req'[r] = x /\ \A s \in Requests : s # r => req'[s] = req[s]
    BY DEF TypeOK
  <1>2. At(r, "submit") => req[r].env \in Known /\ Beyond(r)
    BY DEF At, Known, Holding, Beyond
  <1>3. pending' \cup claimed' \cup Sent' \subseteq Known
    BY <1>2 DEF Sent, Known
  <1>4. \A e \in Known' : e \in Known \/ Fresh(e)
    BY <1>3, KnownMove
  <1>5. Kinds'
    BY <1>1 DEF GrantInv, Kinds, Judged
  <1>6. \A s \in Requests : Granting(s)' => Granting(s) /\ req'[s].env = req[s].env
    BY <1>1 DEF Granting, Late
  <1>7. ASSUME NEW e \in Active'
        PROVE  e \in Active
    <2>1. CASE e \in queue' \cup done' /\ e.kind = "enroll"
      <3>1. CASE e \in queue \cup done
        BY <2>1, <3>1 DEF Active
      <3>2. CASE At(r, "submit") /\ e = req[r].env
        <4>1. Granting(r)
          BY <2>1, <3>2 DEF Granting, At
        <4> QED BY <3>2, <4>1 DEF Active
      <3> QED BY <2>1, <3>1, <3>2
    <2>2. CASE \E s \in Requests : Granting(s)' /\ e = req'[s].env
      BY <2>2, <1>6 DEF Active
    <2> QED BY <2>1, <2>2 DEF Active
  <1>8. ASSUME NEW s \in Requests, req'[s].pc = "refused"
        PROVE  req'[s].env \notin Sent'
    <2>1. req'[s].env = req[s].env /\ req[s].env \notin Sent
      BY <1>1, <1>8 DEF GrantInv, OneEnrolmentEach
    <2>2. CASE queue' = queue
      BY <2>1, <2>2 DEF Sent
    <2>3. CASE At(r, "submit") /\ x.pc = "sent" /\ queue' = queue \cup {req[r].env}
      <3>1. s # r /\ Beyond(s) /\ Beyond(r)
        BY <1>1, <1>2, <1>8, <2>3 DEF Beyond
      <3>2. req[s].env # req[r].env
        BY <3>1 DEF ClaimInv
      <3> QED BY <2>1, <2>3, <3>2 DEF Sent
    <2> QED BY <2>2, <2>3
  <1> QED BY <1>4, <1>5, <1>6, <1>7, <1>8, QuietStep DEF Quiet

(* A request ends, and the envelopes stay where they are. *)
LEMMA EndMove ==
    ASSUME TypeOK, GrantInv, NEW r \in Requests, Goto(r, Idle),
           UNCHANGED <<pending, claimed, queue, done, failed>>
    PROVE  /\ Known' \subseteq Known /\ Active' \subseteq Active /\ Kinds' /\ Sent' = Sent
           /\ \A s \in Requests : Granting(s)' => s # r /\ Granting(s) /\ req'[s].env = req[s].env
           /\ \A s \in Requests : req'[s].pc = "refused" => req'[s].env \notin Sent'
  <1>1. /\ req' = [req EXCEPT ![r] = Idle] /\ Idle.pc = "idle"
        /\ req'[r] = Idle /\ \A s \in Requests : s # r => req'[s] = req[s]
    BY DEF Goto, TypeOK, Idle
  <1>2. Sent' = Sent /\ pending' \cup claimed' \cup Sent' \subseteq Known
    BY DEF Sent, Known
  <1>3. Known' \subseteq Known
    BY <1>1, <1>2, KnownMove
  <1>4. Kinds'
    BY <1>1 DEF GrantInv, Kinds
  <1>5. \A s \in Requests : Granting(s)' => s # r /\ Granting(s) /\ req'[s].env = req[s].env
    BY <1>1 DEF Granting
  <1>6. Active' \subseteq Active
    BY <1>5 DEF Active
  <1>7. \A s \in Requests : req'[s].pc = "refused" => req'[s].env \notin Sent'
    BY <1>1, <1>2 DEF GrantInv, OneEnrolmentEach
  <1> QED BY <1>2, <1>3, <1>4, <1>5, <1>6, <1>7

(* Enrolments past their grant are somebody's own, and of addresses. *)
LEMMA ActiveShape ==
    ASSUME TypeOK, GrantInv, NEW e \in Active
    PROVE  /\ e \in Known /\ e \in Envelope /\ e.kind = "enroll" /\ e.address \in Addresses
           /\ e.by = DeviceOf[e.address] /\ e.address \notin linked
  <1>1. CASE e \in queue \cup done /\ e.kind = "enroll"
    BY <1>1 DEF Known, Sent, TypeOK, Envelope, GrantInv, Genuine
  <1>2. CASE \E s \in Requests : Granting(s) /\ e = req[s].env
    <2>1. PICK s \in Requests : Granting(s) /\ e = req[s].env
      BY <1>2
    <2>2. e \in Envelope /\ e \in Known /\ e.kind = "enroll"
      BY <2>1, RequestShape DEF Granting, TypeOK, Known, Holding
    <2> QED BY <2>2 DEF Envelope, GrantInv, Genuine
  <1> QED BY <1>1, <1>2 DEF Active

(* An address nobody's grant was for has no wallet, no account, nothing that hands *)
(* it back, and its member no enrolment past its grant.                            *)
LEMMA Untouched ==
    ASSUME TypeOK, GrantInv, NEW a \in Addresses \ linked, ~Granted(DeviceOf[a])
    PROVE  /\ ~Backed(a) /\ a \notin tracked /\ ~HandingBack(a) /\ a \notin closes
           /\ account[a].state # "merged" /\ \A e \in Active : e.by # DeviceOf[a]
  <1>1. ~Backed(a)
    BY DEF Backed, Granted, GrantInv, OneGrantEach
  <1>2. a \notin tracked /\ ~HandingBack(a)
    BY <1>1 DEF GrantInv, Sponsored, Returns
  <1>3. a \notin closes /\ account[a].state # "merged"
    BY <1>2 DEF GrantInv, Returns, HandingBack, Known, Sent
  <1>4. ASSUME NEW e \in Active, e.by = DeviceOf[a]
        PROVE  FALSE
    <2>1. PICK g \in grants : g.address = e.address
      BY DEF GrantInv, OneEnrolmentEach, Backed
    <2>2. g.member = DeviceOf[e.address] /\ DeviceOf[e.address] = DeviceOf[a]
      BY <1>4, <2>1, ActiveShape DEF GrantInv, OneGrantEach
    <2> QED BY <2>2 DEF Granted
  <1> QED BY <1>1, <1>2, <1>3, <1>4

(* The grant of a member who has none. *)
LEMMA GrantInserted ==
    ASSUME TypeOK, ClaimInv, GrantInv, NEW r \in Requests, InsertGrant(r), ~Granted(req[r].env.by)
    PROVE  GrantInv'
  <1> DEFINE e == req[r].env
             a == e.address
             new == [member |-> e.by, address |-> a, at |-> now, reclaimed |-> FALSE]
  <1>1. /\ req[r] \in Request /\ req[r].pc = "insert" /\ e \in Envelope /\ e \in Known
        /\ e.kind = "enroll" /\ a \in Addresses /\ e.by = DeviceOf[a] /\ a \notin linked
    <2>1. req[r] \in Request /\ req[r].pc = "insert" /\ e \in Envelope /\ e \in Known
      BY RequestShape DEF InsertGrant, At, TypeOK, Known, Holding
    <2>2. e.kind = "enroll" /\ a \in Addresses
      BY <2>1 DEF GrantInv, Kinds, Envelope
    <2> QED BY <2>1, <2>2 DEF GrantInv, Genuine
  <1>2. /\ UNCHANGED <<policy, pending, claimed, tracked, linked, network, now>>
        /\ grants' = grants \cup {new} /\ Step(r, "submit")
    BY DEF InsertGrant
  <1>3. /\ req'[r].pc = "submit" /\ req'[r].env = e
        /\ \A s \in Requests : s # r => req'[s] = req[s]
    <2>1. req'[r] = [req[r] EXCEPT !.pc = "submit"] /\ \A s \in Requests : s # r => req'[s] = req[s]
      BY <1>2 DEF Step, Goto, TypeOK
    <2> QED BY <1>1, <2>1, StepShape DEF Pc
  <1>4. /\ ~Backed(a) /\ a \notin tracked /\ ~HandingBack(a) /\ a \notin closes
        /\ account[a].state # "merged" /\ \A f \in Active : f.by # e.by
    BY <1>1, Untouched
  <1>5. new.member = e.by /\ new.address = a
    OBVIOUS
  <1>6. /\ UNCHANGED <<pending, claimed, tracked, linked, account, queue, done, failed, closes>>
        /\ Sent' = Sent
    BY <1>2 DEF network, Sent
  <1> HIDE DEF new
  <1>7. \A s \in Requests : req'[s].pc # "idle" => req[s].pc # "idle" /\ req'[s].env = req[s].env
    BY <1>1, <1>3
  <1>8. Known' \subseteq Known
    BY <1>6, <1>7 DEF Known, Holding
  <1>9. \A s \in Requests : Granting(s)' => s = r \/ (Granting(s) /\ req'[s] = req[s])
    BY <1>3 DEF Granting
  <1>10. Active' \subseteq Active \cup {e}
    BY <1>3, <1>6, <1>9 DEF Active
  <1>11. Genuine' /\ Kinds'
    BY <1>3, <1>6, <1>8 DEF GrantInv, Genuine, Kinds
  <1>12. OneGrantEach'
    <2>1. \A g \in grants : g.member # new.member
      BY <1>5 DEF Granted
    <2> QED BY <1>1, <1>2, <1>5, <1>6, <2>1 DEF GrantInv, OneGrantEach
  <1>13. \A b : b = a \/ Backed(b) => Backed(b)'
    BY <1>2, <1>5 DEF Backed
  <1>14. OneEnrolmentEach'
    <2>1. \A f \in Active' : Backed(f.address)'
      BY <1>10, <1>13 DEF GrantInv, OneEnrolmentEach
    <2>2. \A f, g \in Active' : f.by = g.by => f = g
      BY <1>4, <1>10 DEF GrantInv, OneEnrolmentEach
    <2>3. \A s \in Requests : req'[s].pc = "refused" => req'[s].env \notin Sent'
      BY <1>3, <1>6 DEF GrantInv, OneEnrolmentEach
    <2> QED BY <1>6, <2>1, <2>2, <2>3 DEF GrantInv, OneEnrolmentEach
  <1>15. Sponsored'
    BY <1>6, <1>13 DEF GrantInv, Sponsored
  <1>16. \A b \in Addresses : HandingBack(b)' => HandingBack(b) /\ b # a
    BY <1>4, <1>8 DEF HandingBack
  <1>17. Returns'
    <2>1. \A b \in Addresses : b # a /\ AllReclaimed(b) => AllReclaimed(b)'
      BY <1>2, <1>5 DEF AllReclaimed
    <2>2. \A b \in Addresses : HandingBack(b)' => Backed(b)' /\ (b \in tracked' \/ AllReclaimed(b)')
      BY <1>6, <1>13, <1>16, <2>1 DEF GrantInv, Returns
    <2>3. \A s \in Requests, b \in Addresses : Granting(s)' /\ req'[s].env.address = b =>
            b \notin tracked' /\ ~HandingBack(b)'
      BY <1>3, <1>4, <1>6, <1>9, <1>16 DEF GrantInv, Returns
    <2> QED BY <1>6, <2>2, <2>3 DEF GrantInv, Returns
  <1>18. HandedBackIsForgotten'
    BY <1>2, <1>4, <1>5, <1>6 DEF GrantInv, HandedBackIsForgotten
  <1> QED BY <1>11, <1>12, <1>14, <1>15, <1>17, <1>18 DEF GrantInv

(* A grant released after a refusal: nothing of its envelope is left. *)
LEMMA GrantReleased ==
    ASSUME TypeOK, ClaimInv, GrantInv, NEW r \in Requests, ReleaseGrant(r)
    PROVE  GrantInv'
  <1> DEFINE e == req[r].env
             a == e.address
  <1>1. /\ req[r].pc = "refused" /\ Beyond(r) /\ Granting(r) /\ e \in Active /\ e \notin Sent
    BY DEF ReleaseGrant, At, Beyond, Granting, Active, GrantInv, Kinds, OneEnrolmentEach
  <1>2. a \in Addresses /\ e.by = DeviceOf[a] /\ a \notin linked
    BY <1>1, ActiveShape
  <1>3. a \notin tracked /\ ~HandingBack(a)
    BY <1>1, <1>2 DEF GrantInv, Returns
  <1>4. /\ UNCHANGED <<pending, claimed, tracked, linked, account, queue, done, failed, closes>>
        /\ Goto(r, Idle) /\ grants' \subseteq grants
        /\ \A g \in grants : g.address # a => g \in grants'
    BY DEF ReleaseGrant, network
  <1>5. /\ Known' \subseteq Known /\ Active' \subseteq Active /\ Kinds' /\ Sent' = Sent
        /\ \A s \in Requests : Granting(s)' => s # r /\ Granting(s) /\ req'[s].env = req[s].env
        /\ \A s \in Requests : req'[s].pc = "refused" => req'[s].env \notin Sent'
    BY <1>4, EndMove
  <1>6. e \notin Active'
    <2>1. e \notin queue' \cup done'
      BY <1>1, <1>4 DEF Sent
    <2>2. ASSUME NEW s \in Requests, Granting(s)'
          PROVE  req'[s].env # e
      <3>1. s # r /\ Granting(s) /\ req'[s].env = req[s].env
        BY <1>5, <2>2
      <3>2. Beyond(s)
        BY <3>1 DEF Granting, Beyond
      <3> QED BY <1>1, <3>1, <3>2 DEF ClaimInv
    <2> QED BY <2>1, <2>2 DEF Active
  <1>7. \A b : b # a /\ Backed(b) => Backed(b)'
    BY <1>4 DEF Backed
  <1>8. ASSUME NEW f \in Active'
        PROVE  f \in Active /\ f.address # a
    <2>1. f \in Active /\ f # e
      BY <1>5, <1>6
    <2>2. f.by # e.by
      BY <1>1, <2>1 DEF GrantInv, OneEnrolmentEach
    <2>3. f.by = DeviceOf[f.address]
      BY <2>1, ActiveShape
    <2> QED BY <1>2, <2>1, <2>2, <2>3
  <1>9. Genuine'
    BY <1>4, <1>5 DEF GrantInv, Genuine
  <1>10. OneGrantEach'
    BY <1>4 DEF GrantInv, OneGrantEach
  <1>11. OneEnrolmentEach'
    <2>1. \A f \in Active' : Backed(f.address)'
      BY <1>7, <1>8 DEF GrantInv, OneEnrolmentEach
    <2> QED BY <1>4, <1>5, <2>1 DEF GrantInv, OneEnrolmentEach
  <1>12. Sponsored'
    BY <1>3, <1>4, <1>7 DEF GrantInv, Sponsored
  <1>13. \A b \in Addresses : HandingBack(b)' => HandingBack(b) /\ b # a
    BY <1>3, <1>5 DEF HandingBack
  <1>14. Returns'
    <2>1. \A b \in Addresses : AllReclaimed(b) => AllReclaimed(b)'
      BY <1>4 DEF AllReclaimed
    <2>2. \A b \in Addresses : HandingBack(b)' => Backed(b)' /\ (b \in tracked' \/ AllReclaimed(b)')
      BY <1>4, <1>7, <1>13, <2>1 DEF GrantInv, Returns
    <2>3. \A s \in Requests, b \in Addresses : Granting(s)' /\ req'[s].env.address = b =>
            b \notin tracked' /\ ~HandingBack(b)'
      BY <1>4, <1>5, <1>13 DEF GrantInv, Returns
    <2> QED BY <1>4, <2>2, <2>3 DEF GrantInv, Returns
  <1>15. HandedBackIsForgotten'
    BY <1>4 DEF GrantInv, HandedBackIsForgotten
  <1> QED BY <1>5, <1>9, <1>10, <1>11, <1>12, <1>14, <1>15 DEF GrantInv

(* The wallet of an enrolment that landed. *)
LEMMA WalletTracked ==
    ASSUME TypeOK, ClaimInv, GrantInv, NEW r \in Requests, finalizeEnrollment(r)
    PROVE  GrantInv'
  <1> DEFINE e == req[r].env
             a == e.address
  <1>1. /\ Beyond(r) /\ Granting(r) /\ e \in Active
    BY DEF finalizeEnrollment, At, Beyond, Granting, Active
  <1>2. a \in Addresses /\ e.by = DeviceOf[a] /\ Backed(a)
    BY <1>1, ActiveShape DEF GrantInv, OneEnrolmentEach
  <1>3. ~HandingBack(a)
    BY <1>1, <1>2 DEF GrantInv, Returns
  <1>4. /\ UNCHANGED <<pending, claimed, grants, linked, account, queue, done, failed, closes>>
        /\ Goto(r, Idle) /\ tracked \subseteq tracked' /\ tracked' \subseteq tracked \cup {a}
    BY DEF finalizeEnrollment, TrackAddress, network
  <1>5. /\ Known' \subseteq Known /\ Active' \subseteq Active /\ Kinds' /\ Sent' = Sent
        /\ \A s \in Requests : Granting(s)' => s # r /\ Granting(s) /\ req'[s].env = req[s].env
        /\ \A s \in Requests : req'[s].pc = "refused" => req'[s].env \notin Sent'
    BY <1>4, EndMove
  <1>6. \A b : (Backed(b)' <=> Backed(b)) /\ (AllReclaimed(b)' <=> AllReclaimed(b))
    BY <1>4 DEF Backed, AllReclaimed
  <1>7. Genuine' /\ OneGrantEach'
    BY <1>4, <1>5 DEF GrantInv, Genuine, OneGrantEach
  <1>8. OneEnrolmentEach'
    BY <1>4, <1>5, <1>6 DEF GrantInv, OneEnrolmentEach
  <1>9. Sponsored'
    BY <1>2, <1>4, <1>6 DEF GrantInv, Sponsored
  <1>10. \A b \in Addresses : HandingBack(b)' => HandingBack(b)
    BY <1>5 DEF HandingBack
  <1>11. ASSUME NEW s \in Requests, s # r, Granting(s)
         PROVE  req[s].env.address # a
    <2>1. req[s].env \in Active /\ Beyond(s)
      BY <1>11 DEF Active, Granting, Beyond
    <2>2. req[s].env # e
      BY <1>1, <1>11, <2>1 DEF ClaimInv
    <2>3. req[s].env.by # e.by
      BY <1>1, <2>1, <2>2 DEF GrantInv, OneEnrolmentEach
    <2> QED BY <1>2, <2>1, <2>3, ActiveShape
  <1>12. Returns'
    <2>1. \A b \in Addresses : HandingBack(b)' => Backed(b)' /\ (b \in tracked' \/ AllReclaimed(b)')
      BY <1>4, <1>6, <1>10 DEF GrantInv, Returns
    <2>2. \A s \in Requests, b \in Addresses : Granting(s)' /\ req'[s].env.address = b =>
            b \notin tracked' /\ ~HandingBack(b)'
      BY <1>4, <1>5, <1>10, <1>11 DEF GrantInv, Returns
    <2> QED BY <1>4, <2>1, <2>2 DEF GrantInv, Returns
  <1>13. account[a].state # "merged"
    BY <1>2, <1>3 DEF GrantInv, Returns, HandingBack, Known, Sent
  <1>14. HandedBackIsForgotten'
    BY <1>4, <1>13 DEF GrantInv, HandedBackIsForgotten
  <1> QED BY <1>5, <1>7, <1>8, <1>9, <1>12, <1>14 DEF GrantInv

(* Marking the grants of an address changes nothing else about them. *)
LEMMA Marking ==
    ASSUME NEW g \in Grant, NEW a
    PROVE  LET h == IF g.address = a THEN [g EXCEPT !.reclaimed = TRUE] ELSE g
           IN  /\ h.member = g.member /\ h.address = g.address /\ h.at = g.at
               /\ g.address = a => h.reclaimed
               /\ g.address # a => h = g
  BY DEF Grant

(* An address that is released was not linked before. *)
LEMMA AddressReleased ==
    ASSUME TypeOK, GrantInv, NEW a \in Addresses \ linked, ReleaseAddress(a),
           UNCHANGED <<account, done, failed>>,
           closes' \subseteq closes, closes \subseteq closes' \cup {a},
           Known' \subseteq Known, Active' \subseteq Active, Kinds', Sent' = Sent,
           \A s \in Requests : Granting(s)' => Granting(s) /\ req'[s].env = req[s].env,
           \A s \in Requests : req'[s].pc = "refused" => req'[s].env \notin Sent'
    PROVE  GrantInv'
  <1> DEFINE F(g) == IF g.address = a THEN [g EXCEPT !.reclaimed = TRUE] ELSE g
  <1>1. tracked' = tracked \ {a} /\ linked' = linked
    BY DEF ReleaseAddress
  <1>2. grants' = {F(g) : g \in grants}
    BY DEF ReleaseAddress
  <1>3. ASSUME NEW g \in grants
        PROVE  /\ F(g).member = g.member /\ F(g).address = g.address
               /\ g.address = a => F(g).reclaimed
               /\ g.address # a => F(g) = g
    BY Marking DEF TypeOK
  <1> HIDE DEF F
  <1>4. \A b : (Backed(b)' <=> Backed(b)) /\ (AllReclaimed(b) => AllReclaimed(b)')
    <2>1. \A b : Backed(b) => Backed(b)'
      BY <1>2, <1>3 DEF Backed
    <2>2. \A b : Backed(b)' => Backed(b)
      BY <1>2, <1>3 DEF Backed
    <2>3. \A b : AllReclaimed(b) => AllReclaimed(b)'
      BY <1>2, <1>3 DEF AllReclaimed
    <2> QED BY <2>1, <2>2, <2>3
  <1>5. \A g \in grants' : g.address = a => g.reclaimed
    BY <1>2, <1>3
  <1>6. Genuine'
    BY <1>1 DEF GrantInv, Genuine
  <1>7. OneGrantEach'
    <2>1. \A g \in grants' : g.member = DeviceOf[g.address] /\ g.address \notin linked'
      BY <1>1, <1>2, <1>3 DEF GrantInv, OneGrantEach
    <2>2. \A g, h \in grants' : g.member = h.member => g = h
      BY <1>2, <1>3 DEF GrantInv, OneGrantEach
    <2> QED BY <2>1, <2>2 DEF OneGrantEach
  <1>8. OneEnrolmentEach'
    BY <1>4 DEF GrantInv, OneEnrolmentEach
  <1>9. Sponsored'
    BY <1>1, <1>4 DEF GrantInv, Sponsored
  <1>10. \A b \in Addresses : HandingBack(b)' => HandingBack(b)
    BY DEF HandingBack
  <1>11. Returns'
    <2>1. \A b \in Addresses : HandingBack(b)' => Backed(b)' /\ (b \in tracked' \/ AllReclaimed(b)')
      <3>1. \A b \in Addresses : b = a => AllReclaimed(b)'
        BY <1>5 DEF AllReclaimed
      <3> QED BY <1>1, <1>4, <1>10, <3>1 DEF GrantInv, Returns
    <2>2. \A s \in Requests, b \in Addresses : Granting(s)' /\ req'[s].env.address = b =>
            b \notin tracked' /\ ~HandingBack(b)'
      BY <1>1, <1>10 DEF GrantInv, Returns
    <2> QED BY <2>1, <2>2 DEF GrantInv, Returns
  <1>12. HandedBackIsForgotten'
    <2>1. ASSUME NEW b \in Addresses, account'[b].state = "merged", b \notin closes'
          PROVE  b \notin tracked' /\ \A g \in grants' : g.address = b => g.reclaimed
      <3>1. CASE b = a
        BY <1>1, <1>5, <3>1
      <3>2. CASE b # a
        <4>1. b \notin tracked /\ AllReclaimed(b)
          BY <2>1, <3>2 DEF GrantInv, HandedBackIsForgotten, AllReclaimed
        <4>2. AllReclaimed(b)'
          BY <1>4, <4>1
        <4> QED BY <1>1, <4>1, <4>2 DEF AllReclaimed
      <3> QED BY <3>1, <3>2
    <2> QED BY <2>1 DEF HandedBackIsForgotten
  <1> QED BY <1>6, <1>7, <1>8, <1>9, <1>11, <1>12 DEF GrantInv

(* Ingestion reads a merge. *)
LEMMA CloseApplied ==
    ASSUME TypeOK, GrantInv, NEW a \in Addresses, applyClose(a)
    PROVE  GrantInv'
  <1>1. HandingBack(a) /\ a \notin linked
    <2>1. PICK e \in done : e.kind = "reclaim" /\ e.address = a
      BY DEF applyClose, GrantInv, Returns
    <2>2. e \in Known
      BY DEF Known, Sent
    <2> QED BY <2>1, <2>2 DEF HandingBack, GrantInv, Genuine
  <1>2. /\ UNCHANGED <<pending, claimed, req, account, queue, done, failed>>
        /\ closes' = closes \ {a}
    BY DEF applyClose
  <1>3. /\ Known' = Known /\ Active' = Active /\ Kinds' /\ Sent' = Sent
        /\ \A s \in Requests : Granting(s)' => Granting(s) /\ req'[s].env = req[s].env
        /\ \A s \in Requests : req'[s].pc = "refused" => req'[s].env \notin Sent'
    BY <1>2 DEF Known, Holding, Active, Granting, Kinds, Sent, GrantInv, OneEnrolmentEach
  <1>4. CASE a \in tracked
    BY <1>1, <1>2, <1>3, <1>4, AddressReleased DEF applyClose
  <1>5. CASE a \notin tracked
    <2>1. UNCHANGED <<tracked, linked, grants>>
      BY <1>5 DEF applyClose
    <2>2. \A g \in grants : g.address = a => g.reclaimed
      BY <1>1, <1>5 DEF GrantInv, Returns, AllReclaimed
    <2>3. Genuine' /\ OneGrantEach' /\ OneEnrolmentEach'
      BY <1>2, <1>3, <2>1 DEF GrantInv, Genuine, OneGrantEach, OneEnrolmentEach, Backed
    <2>4. Sponsored'
      BY <1>2, <2>1 DEF GrantInv, Sponsored, Backed
    <2>5. Returns'
      <3>1. \A b : /\ HandingBack(b)' <=> HandingBack(b)
                   /\ Backed(b)' <=> Backed(b)
                   /\ AllReclaimed(b)' <=> AllReclaimed(b)
        BY <1>3, <2>1 DEF HandingBack, Backed, AllReclaimed
      <3> QED BY <1>2, <1>3, <2>1, <3>1 DEF GrantInv, Returns
    <2>6. HandedBackIsForgotten'
      BY <1>2, <1>5, <2>1, <2>2 DEF GrantInv, HandedBackIsForgotten
    <2> QED BY <1>3, <2>3, <2>4, <2>5, <2>6 DEF GrantInv
  <1> QED BY <1>4, <1>5

(* The hand-back finishes. *)
LEMMA ReclaimFinished ==
    ASSUME TypeOK, GrantInv, NEW r \in Requests, FinishReclaim(r)
    PROVE  GrantInv'
  <1>1. req[r].env \in Known /\ req[r].env.address \in Addresses \ linked
    <2>1. req[r].env \in Known /\ req[r].env \in Envelope
      BY RequestShape DEF FinishReclaim, At, TypeOK, Known, Holding
    <2> QED BY <2>1 DEF FinishReclaim, Envelope, GrantInv, Genuine
  <1>2. /\ UNCHANGED <<pending, claimed, account, queue, done, failed, closes>>
        /\ Goto(r, Idle) /\ ReleaseAddress(req[r].env.address)
    BY DEF FinishReclaim, network
  <1>3. /\ Known' \subseteq Known /\ Active' \subseteq Active /\ Kinds' /\ Sent' = Sent
        /\ \A s \in Requests : Granting(s)' => s # r /\ Granting(s) /\ req'[s].env = req[s].env
        /\ \A s \in Requests : req'[s].pc = "refused" => req'[s].env \notin Sent'
    BY <1>2, EndMove
  <1> QED BY <1>1, <1>2, <1>3, AddressReleased

(* An enrolment the network accepts is the first of its address, and works. *)
LEMMA EnrolmentWorks ==
    ASSUME TypeOK, GrantInv, NEW e \in queue, e.kind = "enroll", Acceptable(e)
    PROVE  Works(e)
  <1>1. e \in Active /\ e \notin done
    BY DEF Active, Acceptable
  <1>2. e.address \in Addresses \ linked /\ e.by = DeviceOf[e.address]
    BY <1>1, ActiveShape
  <1>3. ASSUME account[e.address].state # "none"
        PROVE  FALSE
    <2>1. PICK f \in done : f.kind = "enroll" /\ f.address = e.address
      BY <1>2, <1>3 DEF GrantInv, Sponsored
    <2>2. f \in Active
      BY <2>1 DEF Active
    <2>3. f.by = e.by
      BY <1>2, <2>1, <2>2, ActiveShape
    <2>4. f = e
      BY <1>1, <2>2, <2>3 DEF GrantInv, OneEnrolmentEach
    <2> QED BY <1>1, <2>4
  <1> QED BY <1>3 DEF Works

(* What an envelope leaves of its account. *)
LEMMA EffectState ==
    ASSUME TypeOK, NEW e \in Envelope, Acceptable(e), Works(e)
    PROVE  /\ e.kind = "enroll" => Effect(e).state = "live"
           /\ e.kind = "send" => Effect(e).state = "live"
           /\ e.kind = "reclaim" => Effect(e).state = "merged"
           /\ e.kind # "enroll" => account[e.address].state = "live"
  <1>1. account[e.address] \in Account
    BY DEF TypeOK, Envelope
  <1>2. e.kind # "enroll" => account[e.address].state = "live"
    BY DEF Acceptable
  <1>3. CASE e.kind = "enroll"
    BY <1>3 DEF Effect
  <1>4. CASE e.kind = "send"
    BY <1>1, <1>2, <1>4 DEF Effect, Account
  <1>5. CASE e.kind = "reclaim"
    BY <1>1, <1>2, <1>5 DEF Effect, Account
  <1> QED BY <1>2, <1>3, <1>4, <1>5 DEF Envelope, Kind

(* The network includes an envelope. *)
LEMMA Included ==
    ASSUME TypeOK, ClaimInv, GrantInv, NEW e \in queue, Include(e)
    PROVE  GrantInv'
  <1>1. /\ UNCHANGED <<grants, tracked, linked, pending, claimed, req>>
        /\ Sent' \subseteq Sent /\ done \subseteq done' /\ done' \subseteq done \cup {e}
        /\ queue' \subseteq queue /\ e \in Envelope /\ e.address \in Addresses /\ e \in Known
    BY DEF Include, store, Sent, Known, TypeOK, Envelope
  <1>2. Known' \subseteq Known /\ Active' \subseteq Active /\ Kinds'
    BY <1>1 DEF Known, Holding, Active, Granting, Kinds, GrantInv
  <1>3. \A s \in Requests : Granting(s)' => Granting(s) /\ req'[s].env = req[s].env
    BY <1>1 DEF Granting
  <1>4. \A b : (Backed(b)' <=> Backed(b)) /\ (AllReclaimed(b)' <=> AllReclaimed(b))
    BY <1>1 DEF Backed, AllReclaimed
  <1>5. \A b : HandingBack(b)' => HandingBack(b)
    BY <1>2 DEF HandingBack
  <1>6. Genuine' /\ OneGrantEach'
    BY <1>1, <1>2 DEF GrantInv, Genuine, OneGrantEach
  <1>7. OneEnrolmentEach'
    <2>1. \A f \in failed' : f.kind # "enroll"
      BY EnrolmentWorks DEF Include, GrantInv, OneEnrolmentEach
    <2> QED BY <1>1, <1>2, <1>4, <2>1 DEF GrantInv, OneEnrolmentEach
  <1>8. CASE ~Acceptable(e) \/ ~Works(e)
    <2>1. UNCHANGED <<done, closes>> /\ \A b \in Addresses : account'[b].state = account[b].state
      <3>1. [account[e.address] EXCEPT !.seq = e.seq].state = account[e.address].state
        BY <1>1 DEF TypeOK, Account
      <3>2. UNCHANGED <<done, closes>>
        BY <1>8 DEF Include
      <3>3. \/ account' = account
            \/ account' = [account EXCEPT ![e.address].seq = e.seq]
        BY <1>8 DEF Include
      <3>4. account' = [account EXCEPT ![e.address].seq = e.seq] =>
              \A b \in Addresses : account'[b].state = account[b].state
        BY <1>1, <3>1 DEF TypeOK
      <3> QED BY <3>2, <3>3, <3>4
    <2>2. Sponsored'
      BY <1>1, <1>4, <2>1 DEF GrantInv, Sponsored
    <2>3. Returns'
      BY <1>1, <1>3, <1>4, <1>5, <2>1 DEF GrantInv, Returns
    <2>4. HandedBackIsForgotten'
      BY <1>1, <2>1 DEF GrantInv, HandedBackIsForgotten
    <2> QED BY <1>2, <1>6, <1>7, <2>2, <2>3, <2>4 DEF GrantInv
  <1>9. CASE Acceptable(e) /\ Works(e)
    <2>1. /\ done' = done \cup {e}
          /\ closes' = IF e.kind = "reclaim" THEN closes \cup {e.address} ELSE closes
          /\ account' = [account EXCEPT ![e.address] = Effect(e)]
      BY <1>9 DEF Include
    <2>2. \A b \in Addresses : b # e.address => account'[b] = account[b]
      BY <2>1 DEF TypeOK
    <2>3. account'[e.address] = Effect(e)
      BY <1>1, <2>1 DEF TypeOK
    <2>4. e.kind # "enroll" => account[e.address].state = "live" /\ Works(e)
      BY <1>1, <1>9, EffectState
    <2>5. e.kind # "reclaim" => account'[e.address].state = "live"
      BY <1>1, <1>9, <2>3, EffectState DEF Envelope, Kind
    <2>6. Sponsored'
      <3>1. ASSUME NEW b \in Addresses \ linked, account'[b].state # "none"
            PROVE  \E f \in done' : f.kind = "enroll" /\ f.address = b
        <4>1. CASE b # e.address
          BY <2>1, <2>2, <3>1, <4>1 DEF GrantInv, Sponsored
        <4>2. CASE b = e.address /\ e.kind = "enroll"
          BY <2>1, <4>2
        <4>3. CASE b = e.address /\ e.kind # "enroll"
          BY <2>1, <2>4, <4>3 DEF GrantInv, Sponsored
        <4> QED BY <4>1, <4>2, <4>3
      <3> QED BY <1>1, <1>4, <3>1 DEF GrantInv, Sponsored
    <2>7. Returns'
      <3>1. ASSUME NEW b \in Addresses, account'[b].state = "merged" \/ b \in closes'
            PROVE  \E f \in done' : f.kind = "reclaim" /\ f.address = b
        <4>1. CASE account[b].state = "merged" \/ b \in closes
          BY <2>1, <4>1 DEF GrantInv, Returns
        <4>2. CASE b = e.address /\ e.kind = "reclaim"
          BY <2>1, <4>2
        <4> QED BY <2>1, <2>2, <2>5, <3>1, <4>1, <4>2
      <3> QED BY <1>1, <1>3, <1>4, <1>5, <3>1 DEF GrantInv, Returns
    <2>8. HandedBackIsForgotten'
      <3>1. ASSUME NEW b \in Addresses, account'[b].state = "merged", b \notin closes'
            PROVE  account[b].state = "merged" /\ b \notin closes
        BY <2>1, <2>2, <2>5, <3>1
      <3> QED BY <1>1, <3>1 DEF GrantInv, HandedBackIsForgotten
    <2> QED BY <1>2, <1>6, <1>7, <2>6, <2>7, <2>8 DEF GrantInv
  <1> QED BY <1>8, <1>9

(* Every step keeps the grants and what comes of them. *)
LEMMA GrantStep ==
    ASSUME TypeOK, ClaimInv, GrantInv, [Next]_vars
    PROVE  GrantInv'
  <1>1. ASSUME UNCHANGED <<pending, claimed, grants, tracked, linked, req, queue, done, failed,
                           closes>>,
               \A a \in Addresses : account'[a].state = account[a].state
        PROVE  GrantInv'
    <2>1. Known' = Known /\ Active' = Active /\ Kinds' /\ Sent' = Sent
      BY <1>1 DEF Known, Holding, Active, Granting, Kinds, Sent, GrantInv
    <2>2. \A s \in Requests : Granting(s)' => Granting(s) /\ req'[s].env = req[s].env
      BY <1>1 DEF Granting
    <2>3. \A s \in Requests : req'[s].pc = "refused" => req'[s].env \notin Sent'
      BY <1>1, <2>1 DEF GrantInv, OneEnrolmentEach
    <2> QED BY <1>1, <2>1, <2>2, <2>3, QuietStep DEF Quiet
  <1>2. CASE \/ \E on \in BOOLEAN, cap \in Caps : provisioning(on, cap)
             \/ Tick \/ UNCHANGED vars
    BY <1>1, <1>2 DEF provisioning, Tick, vars, store, network
  <1>3. ASSUME NEW a \in Addresses, Receive(a)
        PROVE  GrantInv'
    <2>1. [account[a] EXCEPT !.balance = @ + 1].state = account[a].state
      BY DEF TypeOK, Account
    <2>2. \A b \in Addresses : account'[b].state = account[b].state
      BY <1>3, <2>1 DEF Receive, TypeOK
    <2> QED BY <1>1, <1>3, <2>2 DEF Receive, store
  <1>4. ASSUME NEW r \in Requests, NEW e, Fresh(e), Prepare(r, e)
        PROVE  GrantInv'
    <2>1. /\ req' = [req EXCEPT ![r] = [pc |-> "record", env |-> e]]
          /\ UNCHANGED <<pending, claimed, grants, tracked, linked, account, queue, done, failed, closes>>
      BY <1>4 DEF Prepare, Goto, store, network
    <2>2. pending' \cup claimed' \subseteq Known
      BY <2>1 DEF Known
    <2> QED BY <1>4, <2>1, <2>2, QuietMove DEF Judged, Late
  <1>5. ASSUME NEW r \in Requests, NEW m \in Members, NEW a \in Addresses,
               PrepareEnrollment(r, m, a)
        PROVE  GrantInv'
    <2>1. Fresh(BuildProvision(m, a))
      BY <1>5 DEF PrepareEnrollment, BuildProvision, Built, Fresh
    <2> QED BY <1>4, <1>5, <2>1 DEF PrepareEnrollment
  <1>6. ASSUME NEW r \in Requests, NEW m \in Members, HandleSend(r, m)
        PROVE  GrantInv'
    <2>1. Fresh(BuildPayment(m, stellarAddress(m)))
      BY DEF BuildPayment, Built, Fresh
    <2> QED BY <1>4, <1>6, <2>1 DEF HandleSend, PrepareSend
  <1>7. ASSUME NEW r \in Requests, NEW m \in Members, reclaim(r, m)
        PROVE  GrantInv'
    <2> DEFINE a == stellarAddress(m)
    <2>1. a \in tracked \cup linked /\ Backed(a)
      BY <1>7, StellarAddressType DEF reclaim, PrepareReclaim, GrantFor, Backed
    <2>2. a \notin linked
      BY <2>1 DEF Backed, GrantInv, OneGrantEach
    <2>3. Build(m, a).kind = "reclaim" /\ Build(m, a).address = a
      BY DEF Build, Built
    <2>4. Fresh(Build(m, a))
      BY <2>1, <2>2, <2>3 DEF Fresh
    <2> QED BY <1>4, <1>7, <2>4 DEF reclaim, PrepareReclaim
  <1>8. ASSUME NEW r \in Requests, NEW e \in Known, NEW p, Claim(r, e, p),
               \/ p = "count" /\ e.kind = "enroll"
               \/ p = "submit" /\ e.kind # "enroll"
        PROVE  GrantInv'
    <2>1. /\ req' = [req EXCEPT ![r] = [pc |-> p, env |-> e]]
          /\ UNCHANGED <<grants, tracked, linked, account, queue, done, failed, closes>>
      BY <1>8 DEF Claim, Goto, network
    <2>2. pending' \cup claimed' \subseteq Known
      BY <1>8 DEF Claim, Known
    <2> QED BY <1>8, <2>1, <2>2, QuietMove DEF Judged, Late
  <1>9. ASSUME NEW r \in Requests, NEW e \in pending, NEW m \in Members,
               Submit(r, e, m) \/ SubmitEnrollment(r, e, m) \/ SubmitReclaim(r, e, m)
        PROVE  GrantInv'
    <2>1. e \in Known
      BY DEF Known
    <2>2. CASE Submit(r, e, m) \/ SubmitEnrollment(r, e, m)
      BY <1>8, <2>1, <2>2 DEF Submit, SubmitEnrollment, authorise, authoriseEnrollment
    <2>3. CASE SubmitReclaim(r, e, m)
      <3>1. /\ req' = [req EXCEPT ![r] = [pc |-> "bump", env |-> e]] /\ e.kind = "reclaim"
            /\ UNCHANGED <<pending, claimed, grants, tracked, linked, account, queue, done, failed, closes>>
        BY <2>3 DEF SubmitReclaim, LiveReclaim, Goto, store, network
      <3>2. pending' \cup claimed' \subseteq Known
        BY <3>1 DEF Known
      <3> QED BY <2>1, <3>1, <3>2, QuietMove DEF Judged, Late
    <2> QED BY <1>9, <2>2, <2>3
  <1>10. ASSUME NEW r \in Requests, ClaimReclaim(r)
         PROVE  GrantInv'
    <2>1. req[r].env \in Known /\ req[r].env.kind = "reclaim"
      BY <1>10 DEF ClaimReclaim, At, Known, Holding, GrantInv, Kinds
    <2> QED BY <1>8, <1>10, <2>1 DEF ClaimReclaim
  <1>11. ASSUME NEW r \in Requests, Goto(r, Idle), pending' \cup claimed' \subseteq Known,
                UNCHANGED <<grants, tracked, linked, account, queue, done, failed, closes>>
         PROVE  GrantInv'
    <2>1. Idle.pc = "idle"
      BY DEF Idle
    <2> QED BY <1>11, <2>1, QuietMove DEF Goto, Judged, Late
  <1>12. ASSUME NEW r \in Requests, Record(r) \/ ReleaseClaim(r) \/ Quit(r)
         PROVE  GrantInv'
    <2>1. req[r].pc # "idle" /\ Goto(r, Idle)
      BY <1>12 DEF Record, ReleaseClaim, Quit, At
    <2>2. req[r].env \in Known
      BY <2>1 DEF Known, Holding
    <2>3. pending' \cup claimed' \subseteq Known
      BY <1>12, <2>2 DEF Record, ReleaseClaim, Quit, store, Known
    <2> QED BY <1>11, <1>12, <2>1, <2>3 DEF Record, ReleaseClaim, Quit, store, network
  <1>13. ASSUME NEW r \in Requests, req[r].pc # "idle", NEW p \in Pc, Step(r, p)
         PROVE  \E x : /\ req' = [req EXCEPT ![r] = x]
                       /\ x.pc = p /\ x.env = req[r].env /\ x.env \in Known
    <2>1. [req[r] EXCEPT !.pc = p].pc = p /\ [req[r] EXCEPT !.pc = p].env = req[r].env
      BY <1>13, StepShape DEF TypeOK
    <2>2. req[r].env \in Known
      BY <1>13 DEF Known, Holding
    <2> QED BY <1>13, <2>1, <2>2 DEF Step, Goto
  <1>14. ASSUME NEW r \in Requests,
                \/ CountGrants(r) \/ GrantRefused(r)
                \/ InsertGrant(r) /\ Granted(req[r].env.by)
         PROVE  GrantInv'
    <2>1. req[r].pc \in {"count", "insert"} /\ req[r].env.kind = "enroll"
      BY <1>14 DEF CountGrants, GrantRefused, InsertGrant, At, GrantInv, Kinds
    <2>2. /\ UNCHANGED <<pending, claimed, grants, tracked, linked, account, queue, done, failed, closes>>
          /\ Step(r, "insert") \/ Step(r, "unclaim")
      BY <1>14 DEF CountGrants, GrantRefused, InsertGrant, store, network
    <2>3. PICK x : /\ req' = [req EXCEPT ![r] = x] /\ x.pc \in {"insert", "unclaim"}
                   /\ x.env = req[r].env /\ x.env \in Known
      BY <1>13, <2>1, <2>2 DEF Pc
    <2>4. pending' \cup claimed' \subseteq Known
      BY <2>2 DEF Known
    <2> QED BY <2>1, <2>2, <2>3, <2>4, QuietMove DEF Judged, Late
  <1>15. ASSUME NEW r \in Requests, Send(r)
         PROVE  GrantInv'
    <2>1. PICK x : /\ req' = [req EXCEPT ![r] = x] /\ x.pc = "sent"
                   /\ x.env = req[r].env /\ x.env \in Known
      BY <1>13, <1>15 DEF Send, At, Pc
    <2>2. x.env.kind = "enroll" => Granting(r)
      BY <1>15, <2>1 DEF Send, At, Granting
    <2>3. /\ UNCHANGED <<pending, claimed, grants, tracked, linked, account, done, failed, closes>>
          /\ At(r, "submit") /\ (queue' = queue \/ queue' = queue \cup {req[r].env})
      BY <1>15 DEF Send, store
    <2>4. pending' \cup claimed' \subseteq Known
      BY <2>3 DEF Known
    <2> QED BY <2>1, <2>2, <2>3, <2>4, QuietMove DEF Judged, Late
  <1>16. ASSUME NEW r \in Requests, Rejected(r)
         PROVE  GrantInv'
    <2>1. /\ UNCHANGED <<pending, claimed, grants, tracked, linked, account, queue, done, failed, closes>>
          /\ pending' \cup claimed' \subseteq Known
      BY <1>16 DEF Rejected, store, network, Known
    <2>2. CASE req[r].env.kind = "enroll"
      <3>1. At(r, "submit") /\ req[r].pc # "idle" /\ Step(r, "refused")
        BY <1>16, <2>2 DEF Rejected, At, GrantInv, OneEnrolmentEach
      <3>2. Granting(r) /\ req[r].env \notin Sent
        BY <2>2, <3>1 DEF Granting, At, ClaimInv
      <3>3. PICK x : /\ req' = [req EXCEPT ![r] = x] /\ x.pc = "refused"
                     /\ x.env = req[r].env /\ x.env \in Known
        BY <1>13, <3>1 DEF Pc
      <3> QED BY <2>1, <2>2, <3>2, <3>3, QuietMove
    <2>3. CASE req[r].env.kind # "enroll"
      BY <1>11, <1>16, <2>1, <2>3 DEF Rejected
    <2> QED BY <2>2, <2>3
  <1>17. ASSUME NEW r \in Requests, Answered(r) \/ resolveAmbiguous(r)
         PROVE  GrantInv'
    <2>1. /\ UNCHANGED <<pending, claimed, grants, tracked, linked, account, queue, done, failed, closes>>
          /\ pending' \cup claimed' \subseteq Known
      BY <1>17 DEF Answered, resolveAmbiguous, store, network, Known
    <2>2. /\ req[r].pc = "sent" /\ req[r].env \in Known
          /\ req[r].env.kind = "enroll" => Granting(r)
      BY <1>17 DEF Answered, resolveAmbiguous, At, Known, Holding, Granting
    <2>3. \/ Goto(r, Idle)
          \/ req' = [req EXCEPT ![r] = [pc |-> "finish", env |-> req[r].env]]
      BY <1>17 DEF Answered, resolveAmbiguous, After, Goto
    <2> QED BY <1>11, <2>1, <2>2, <2>3, QuietMove DEF Judged, Late
  <1>18. ASSUME NEW r \in Requests, InsertGrant(r)
         PROVE  GrantInv'
    BY <1>14, <1>18, GrantInserted
  <1> QED BY <1>2, <1>3, <1>5, <1>6, <1>7, <1>9, <1>10, <1>12, <1>14, <1>15, <1>16, <1>17, <1>18,
             GrantReleased, WalletTracked, CloseApplied, ReclaimFinished, Included DEF Next

(* Nobody has a grant, a wallet of the operator's or an envelope at first. *)
LEMMA GrantInit ==
    ASSUME Init
    PROVE  GrantInv
  <1>1. \A r \in Requests : req[r].pc = "idle"
    BY DEF Init, Idle
  <1>2. Known = {} /\ Active = {} /\ Kinds /\ Genuine
    BY <1>1 DEF Init, Known, Holding, Sent, Active, Granting, Kinds, Genuine
  <1>3. \A a \in Addresses : account[a].state = IF a \in linked THEN "live" ELSE "none"
    BY DEF Init
  <1>4. OneGrantEach /\ OneEnrolmentEach
    BY <1>1, <1>2 DEF Init, OneGrantEach, OneEnrolmentEach
  <1>5. Sponsored
    BY <1>3 DEF Init, Sponsored
  <1>6. Returns
    BY <1>1, <1>2, <1>3 DEF Init, Returns, HandingBack, Granting
  <1>7. HandedBackIsForgotten
    BY <1>3 DEF HandedBackIsForgotten
  <1> QED BY <1>2, <1>4, <1>5, <1>6, <1>7 DEF GrantInv

(* A grant belongs to one member, stands behind one enrolment past it and  *)
(* the one account that comes of it, until the account is handed back.     *)
THEOREM GrantsHold == Spec => []GrantInv
  <1>1. Init => TypeOK /\ ClaimInv /\ GrantInv
    BY ClaimsInit, GrantInit
  <1>2. TypeOK /\ ClaimInv /\ GrantInv /\ [Next]_vars => TypeOK' /\ ClaimInv' /\ GrantInv'
    BY TypeStep, ClaimStep, GrantStep
  <1> QED BY <1>1, <1>2, PTL DEF Spec

(* api/reclaim.go:294: once ingestion has read the merge of an account that *)
(* was handed back, it is tracked no longer and its reserve counts as       *)
(* released, wherever the request that handed it back stopped.              *)
THEOREM HandedBack == Spec => []HandedBackIsForgotten
  <1>1. GrantInv => HandedBackIsForgotten
    BY DEF GrantInv
  <1> QED BY <1>1, GrantsHold, PTL

(* Of a member's own keys at most one has an account, and a grant stands for it. *)
LEMMA AccountsBacked ==
    ASSUME TypeOK, GrantInv, NEW a \in Addresses \ linked, account[a].state # "none"
    PROVE  \E g \in grants : g.member = DeviceOf[a] /\ g.address = a
  <1>1. PICK e \in done : e.kind = "enroll" /\ e.address = a
    BY DEF GrantInv, Sponsored
  <1>2. Backed(a)
    BY <1>1 DEF Active, GrantInv, OneEnrolmentEach
  <1> QED BY <1>2 DEF Backed, GrantInv, OneGrantEach

(* api/enroll.go:318: the operator pays for at most one account per member, *)
(* and the grant that paid for it is never released while it exists or may  *)
(* still come into being.                                                   *)
THEOREM OnePaidAccount == Spec => []OneAccountEach
  <1>1. ASSUME TypeOK, GrantInv, NEW m \in Members
        PROVE  /\ Cardinality({a \in Addresses \ linked :
                                 DeviceOf[a] = m /\ account[a].state # "none"}) <= 1
               /\ \A a \in Addresses \ linked : DeviceOf[a] = m /\ account[a].state # "none" =>
                    \E g \in grants : g.member = m /\ g.address = a
    <2> DEFINE S == {a \in Addresses \ linked : DeviceOf[a] = m /\ account[a].state # "none"}
    <2>1. \A a \in S : \E g \in grants : g.member = m /\ g.address = a
      BY <1>1, AccountsBacked
    <2>2. \A a, b \in S : a = b
      BY <1>1, <2>1 DEF GrantInv, OneGrantEach
    <2>3. Cardinality(S) <= 1
      <3>1. CASE S = {}
        <4>1. Cardinality(S) = 0
          BY <3>1, FS_EmptySet
        <4> QED BY <4>1
      <3>2. CASE S # {}
        <4>1. PICK x : S = {x}
          BY <2>2, <3>2
        <4>2. Cardinality(S) = 1
          BY <4>1, FS_Singleton
        <4> QED BY <4>2
      <3> QED BY <3>1, <3>2
    <2> QED BY <2>1, <2>3
  <1>2. TypeOK /\ GrantInv => OneAccountEach
    BY <1>1 DEF OneAccountEach
  <1> QED BY <1>2, TypeCorrect, GrantsHold, PTL

--------------------------------------------------------------------------------
(* The daily limit. *)

CapInv == IsFiniteSet(grants) /\ NearlyWithinCap

(* With no more grants of today and no more requests that counted, the limit holds. *)
LEMMA CapKept ==
    ASSUME TypeOK, CapInv, IsFiniteSet(grants'),
           NEW R, NEW C, IsFiniteSet(R), IsFiniteSet(C),
           Cardinality(R) + Cardinality(C) <= GlobalCap + Cardinality(Requests) - 1,
           Cardinality(Recent') <= Cardinality(R), Counted' \subseteq C
    PROVE  CapInv'
  <1>1. IsFiniteSet(Recent') /\ IsFiniteSet(Counted')
    <2>1. Recent' \in SUBSET grants' /\ Counted' \in SUBSET C
      BY DEF Recent
    <2> QED BY <2>1, FS_Subset
  <1>2. Cardinality(Counted') <= Cardinality(C)
    BY FS_Subset
  <1>3. /\ Cardinality(Recent') \in Nat /\ Cardinality(Counted') \in Nat
        /\ Cardinality(R) \in Nat /\ Cardinality(C) \in Nat
        /\ Cardinality(Requests) \in Nat /\ GlobalCap \in Nat
    BY <1>1, FS_CardinalityType, WalletsAssumption
  <1>4. Cardinality(Recent') + Cardinality(Counted') <= GlobalCap + Cardinality(Requests) - 1
    BY <1>2, <1>3
  <1> QED BY <1>4 DEF CapInv, NearlyWithinCap

(* Every step keeps the daily limit nearly. *)
LEMMA CapStep ==
    ASSUME TypeOK, CapInv, [Next]_vars
    PROVE  CapInv'
  <1>1. /\ IsFiniteSet(Recent) /\ IsFiniteSet(Counted) /\ IsFiniteSet(Requests)
        /\ Cardinality(Recent) \in Nat /\ Cardinality(Counted) \in Nat
        /\ Cardinality(Requests) \in Nat /\ GlobalCap \in Nat \ {0}
        /\ Cardinality(Recent) + Cardinality(Counted) <= GlobalCap + Cardinality(Requests) - 1
    <2>1. Recent \in SUBSET grants /\ Counted \in SUBSET Requests
      BY DEF Recent, Counted
    <2>2. IsFiniteSet(Recent) /\ IsFiniteSet(Counted) /\ IsFiniteSet(Requests)
      BY <2>1, FS_Subset, WalletsAssumption DEF CapInv
    <2> QED BY <2>2, FS_CardinalityType, WalletsAssumption DEF CapInv, NearlyWithinCap
  <1>2. ASSUME grants' \subseteq grants, now <= now', now' \in Nat, Counted' \subseteq Counted
        PROVE  CapInv'
    <2>1. IsFiniteSet(grants')
      BY <1>2, FS_Subset DEF CapInv
    <2>4. ASSUME NEW g \in Recent'
          PROVE  g \in Recent
      <3>1. g \in grants /\ g.at \in Nat /\ g.at > now' - Day
        BY <1>2 DEF Recent, TypeOK, Grant
      <3>2. g.at > now - Day
        BY <1>2, <3>1, WalletsAssumption DEF TypeOK
      <3> QED BY <3>1, <3>2 DEF Recent
    <2>2. Recent' \in SUBSET Recent
      BY <2>4
    <2>3. Cardinality(Recent') <= Cardinality(Recent)
      BY <1>1, <2>2, FS_Subset
    <2> QED BY <1>1, <1>2, <2>1, <2>3, CapKept
  <1>3. ASSUME req' = req
        PROVE  Counted' = Counted
    BY <1>3 DEF Counted, At
  <1>4. ASSUME NEW r \in Requests, NEW x, Goto(r, x), x.pc # "insert"
        PROVE  Counted' \subseteq Counted
    <2>1. req'[r] = x /\ \A s \in Requests : s # r => req'[s] = req[s]
      BY <1>4 DEF Goto, TypeOK
    <2> QED BY <1>4, <2>1 DEF Counted, At
  <1>5. ASSUME NEW r \in Requests, NEW p \in Pc, p # "insert", req[r].pc # "idle", Step(r, p)
        PROVE  Counted' \subseteq Counted
    <2>1. [req[r] EXCEPT !.pc = p].pc = p
      BY <1>5, StepShape DEF TypeOK
    <2> QED BY <1>4, <1>5, <2>1 DEF Step
  <1>6. CASE \/ \E on \in BOOLEAN, cap \in Caps : provisioning(on, cap)
             \/ \E a \in Addresses : Receive(a)
             \/ \E e \in queue : Include(e)
             \/ Tick \/ UNCHANGED vars
    <2>1. req' = req /\ grants' = grants
      BY <1>6 DEF provisioning, Receive, Include, Tick, vars, store, network
    <2>2. now' = now \/ now' = now + 1
      BY <1>6 DEF provisioning, Receive, Include, Tick, vars
    <2>3. now <= now' /\ now' \in Nat
      BY <2>2 DEF TypeOK
    <2> QED BY <1>2, <1>3, <2>1, <2>3
  <1>7. ASSUME NEW r \in Requests, NEW x, Goto(r, x), x.pc # "insert", grants' = grants, now' = now
        PROVE  CapInv'
    BY <1>2, <1>4, <1>7 DEF TypeOK
  <1>8. Idle.pc # "insert"
    BY DEF Idle
  <1>9. ASSUME NEW r \in Requests,
               \/ \E m \in Members, a \in Addresses : PrepareEnrollment(r, m, a)
               \/ \E m \in Members : HandleSend(r, m) \/ reclaim(r, m)
        PROVE  CapInv'
    <2>1. PICK e : Prepare(r, e)
      BY <1>9 DEF PrepareEnrollment, HandleSend, PrepareSend, reclaim, PrepareReclaim
    <2>2. Goto(r, [pc |-> "record", env |-> e]) /\ grants' = grants /\ now' = now
      BY <2>1 DEF Prepare, store
    <2> QED BY <1>7, <2>2
  <1>10. ASSUME NEW r \in Requests,
                \/ \E e \in pending : \E m \in Members :
                     Submit(r, e, m) \/ SubmitEnrollment(r, e, m) \/ SubmitReclaim(r, e, m)
                \/ ClaimReclaim(r)
         PROVE  CapInv'
    <2>1. \E e, p : /\ Goto(r, [pc |-> p, env |-> e]) /\ p # "insert"
                    /\ grants' = grants /\ now' = now
      BY <1>10 DEF Submit, SubmitEnrollment, SubmitReclaim, ClaimReclaim, authorise,
                   authoriseEnrollment, Claim, store
    <2> QED BY <1>7, <2>1
  <1>11. ASSUME NEW r \in Requests, Record(r) \/ ReleaseClaim(r) \/ finalizeEnrollment(r) \/ Quit(r)
         PROVE  CapInv'
    BY <1>7, <1>8, <1>11 DEF Record, ReleaseClaim, finalizeEnrollment, Quit, store
  <1>12. ASSUME NEW r \in Requests, Rejected(r)
         PROVE  CapInv'
    <2>1. grants' = grants /\ now' = now /\ req[r].pc # "idle"
      BY <1>12 DEF Rejected, store, At
    <2>2. CASE Step(r, "refused")
      BY <1>2, <1>5, <2>1, <2>2 DEF Pc, TypeOK
    <2> QED BY <1>7, <1>8, <1>12, <2>1, <2>2 DEF Rejected
  <1>13. ASSUME NEW r \in Requests, Answered(r) \/ resolveAmbiguous(r)
         PROVE  CapInv'
    <2>1. /\ grants' = grants /\ now' = now
          /\ Goto(r, Idle) \/ Goto(r, [pc |-> "finish", env |-> req[r].env])
      BY <1>13 DEF Answered, resolveAmbiguous, After, store
    <2> QED BY <1>7, <1>8, <2>1
  <1>14. ASSUME NEW r \in Requests, Send(r) \/ GrantRefused(r)
         PROVE  CapInv'
    <2>1. /\ grants' = grants /\ now' = now /\ req[r].pc # "idle"
          /\ Step(r, "sent") \/ Step(r, "unclaim")
      BY <1>14 DEF Send, GrantRefused, store, At
    <2> QED BY <1>2, <1>5, <2>1 DEF Pc, TypeOK
  <1>15. ASSUME NEW r \in Requests, CountGrants(r)
         PROVE  CapInv'
    <2>1. Cardinality(Recent) < GlobalCap /\ grants' = grants /\ now' = now
      BY <1>15 DEF CountGrants, store
    <2>2. Recent' = Recent /\ Counted' \subseteq Requests /\ IsFiniteSet(grants')
      BY <2>1 DEF Recent, Counted, CapInv
    <2>3. Cardinality(Recent) + Cardinality(Requests) <= GlobalCap + Cardinality(Requests) - 1
      BY <1>1, <2>1
    <2>4. Cardinality(Recent') <= Cardinality(Recent)
      BY <1>1, <2>2
    <2> QED BY <1>1, <2>2, <2>3, <2>4, CapKept
  <1>16. ASSUME NEW r \in Requests, InsertGrant(r)
         PROVE  CapInv'
    <2>1. CASE Granted(req[r].env.by)
      <3>1. Step(r, "unclaim") /\ grants' = grants /\ now' = now /\ req[r].pc # "idle"
        BY <1>16, <2>1 DEF InsertGrant, At
      <3> QED BY <1>2, <1>5, <3>1 DEF Pc, TypeOK
    <2>2. CASE ~Granted(req[r].env.by)
      <3> DEFINE g == [member |-> req[r].env.by, address |-> req[r].env.address, at |-> now,
                       reclaimed |-> FALSE]
      <3>1. /\ Step(r, "submit") /\ grants' = grants \cup {g} /\ now' = now /\ req[r].pc = "insert"
        BY <1>16, <2>2 DEF InsertGrant, At
      <3> HIDE DEF g
      <3>2. IsFiniteSet(grants')
        BY <3>1, FS_AddElement DEF CapInv
      <3>3. Recent' \in SUBSET (Recent \cup {g})
        <4>1. \A h \in Recent' : h \in grants \cup {g} /\ h.at > now - Day
          BY <3>1 DEF Recent
        <4> QED BY <4>1 DEF Recent
      <3>4. /\ IsFiniteSet(Recent \cup {g})
            /\ Cardinality(Recent \cup {g}) <= Cardinality(Recent) + 1
            /\ Cardinality(Recent \cup {g}) \in Nat
        <4>1. /\ IsFiniteSet(Recent \cup {g})
              /\ Cardinality(Recent \cup {g})
                   = IF g \in Recent THEN Cardinality(Recent) ELSE Cardinality(Recent) + 1
          BY <1>1, FS_AddElement
        <4>2. Cardinality(Recent \cup {g}) \in Nat
          BY <4>1, FS_CardinalityType
        <4> QED BY <1>1, <4>1, <4>2
      <3>5. Cardinality(Recent') <= Cardinality(Recent \cup {g})
        BY <3>3, <3>4, FS_Subset
      <3>6. r \in Counted
        BY <3>1 DEF Counted, At
      <3>7. /\ IsFiniteSet(Counted \ {r}) /\ Cardinality(Counted \ {r}) = Cardinality(Counted) - 1
            /\ Cardinality(Counted \ {r}) \in Nat
        BY <1>1, <3>6, FS_RemoveElement, FS_CardinalityType
      <3>8. Counted' \subseteq Counted \ {r}
        <4>1. [req[r] EXCEPT !.pc = "submit"].pc = "submit"
          BY <3>1, StepShape DEF TypeOK, Pc
        <4>2. req'[r].pc = "submit"
          BY <3>1, <4>1 DEF Step, Goto, TypeOK
        <4>3. Counted' \subseteq Counted
          BY <1>5, <3>1 DEF Pc
        <4> QED BY <4>2, <4>3 DEF Counted, At
      <3>9. Cardinality(Recent \cup {g}) + Cardinality(Counted \ {r})
              <= GlobalCap + Cardinality(Requests) - 1
        BY <1>1, <3>4, <3>7
      <3> QED BY <3>2, <3>4, <3>5, <3>7, <3>8, <3>9, CapKept
    <2> QED BY <2>1, <2>2
  <1>17. ASSUME NEW r \in Requests, ReleaseGrant(r)
         PROVE  CapInv'
    <2>1. Counted' \subseteq Counted /\ grants' \subseteq grants /\ now' = now
      BY <1>4, <1>8, <1>17 DEF ReleaseGrant
    <2> QED BY <1>2, <2>1 DEF TypeOK
  <1>18. ASSUME NEW a, ReleaseAddress(a), now' = now, Counted' \subseteq Counted
         PROVE  CapInv'
    <2> DEFINE F(g) == IF g.address = a THEN [g EXCEPT !.reclaimed = TRUE] ELSE g
               f == [g \in Recent |-> F(g)]
    <2>1. grants' = {F(g) : g \in grants}
      BY <1>18 DEF ReleaseAddress
    <2>2. \A g \in grants : F(g).at = g.at
      BY Marking DEF TypeOK
    <2> HIDE DEF F
    <2>3. Recent' = {F(g) : g \in Recent}
      BY <1>18, <2>1, <2>2 DEF Recent
    <2>4. f \in Surjection(Recent, Recent')
      BY <2>3 DEF Surjection
    <2>5. Cardinality(Recent') <= Cardinality(Recent)
      BY <1>1, <2>4, FS_Surjection
    <2>6. [g \in grants |-> F(g)] \in Surjection(grants, grants')
      BY <2>1 DEF Surjection
    <2>7. IsFiniteSet(grants')
      BY <2>6, FS_Surjection DEF CapInv
    <2> QED BY <1>1, <1>18, <2>5, <2>7, CapKept
  <1>19. ASSUME NEW r \in Requests, FinishReclaim(r)
         PROVE  CapInv'
    <2>1. Counted' \subseteq Counted /\ now' = now /\ ReleaseAddress(req[r].env.address)
      BY <1>4, <1>8, <1>19 DEF FinishReclaim
    <2> QED BY <1>18, <2>1
  <1>20. ASSUME NEW a \in Addresses, applyClose(a)
         PROVE  CapInv'
    <2>1. Counted' \subseteq Counted /\ now' = now
      BY <1>3, <1>20 DEF applyClose
    <2>2. ReleaseAddress(a) \/ grants' = grants
      BY <1>20 DEF applyClose
    <2> QED BY <1>2, <1>18, <2>1, <2>2 DEF TypeOK
  <1> QED BY <1>6, <1>9, <1>10, <1>11, <1>12, <1>13, <1>14, <1>15, <1>16, <1>17, <1>19, <1>20 DEF Next

(* ledger/store/enrollment.go:158: however requests interleave, the grants of   *)
(* a day pass the deployment's limit by fewer than there are requests at a time. *)
THEOREM DailyLimit == Spec => []NearlyWithinCap
  <1>1. Init => TypeOK /\ CapInv
    <2> SUFFICES ASSUME Init PROVE TypeOK /\ CapInv
      OBVIOUS
    <2>1. Recent = {} /\ Counted = {} /\ grants = {}
      BY DEF Init, Recent, Counted, At, Idle
    <2>2. Cardinality(Requests) \in Nat /\ GlobalCap \in Nat \ {0}
      BY FS_CardinalityType, WalletsAssumption
    <2>3. CapInv
      BY <2>1, <2>2, FS_EmptySet DEF CapInv, NearlyWithinCap
    <2> QED BY <2>3, ClaimsInit
  <1>2. TypeOK /\ CapInv /\ [Next]_vars => TypeOK' /\ CapInv'
    BY TypeStep, CapStep
  <1>3. CapInv => NearlyWithinCap
    BY DEF CapInv
  <1> QED BY <1>1, <1>2, <1>3, PTL DEF Spec
================================================================================
