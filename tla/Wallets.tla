-------------------------------- MODULE Wallets --------------------------------
(***************************************************************************)
(* The life of a member's wallet: an account the operator sponsors is      *)
(* created (api/enroll.go, ledger/store/enrollment.go), payments are made  *)
(* from it (api/send.go, api/submit.go), and it is handed back             *)
(* (api/reclaim.go, ledger/store/reclaim.go).  In all three an unsigned    *)
(* envelope is recorded, the member signs it on a page, and whoever brings *)
(* it back claims it before anything is sent.                              *)
(*                                                                         *)
(* Each element of Requests serves one chat or HTTP request at a time; a   *)
(* step of it is one statement, one transaction or one answer of the       *)
(* network.                                                                *)
(***************************************************************************)
EXTENDS Integers, FiniteSets

CONSTANTS
    Members,
    Addresses,  \* keys that devices generated, and wallets members had
    DeviceOf,   \* the member each key belongs to
    Wallets,    \* the sets of addresses that may be wallets linked before
    None,       \* no address
    Requests,   \* requests served at a time
    HasTreasury,\* whether a treasury of the workspace is verified
    Caps,       \* what /provisioning may set the daily limit to
    GlobalCap,  \* store.GlobalDailyGrants
    Day,        \* 24 hours
    TTL,        \* settlement.DefaultTimeout, ReclaimTimeout
    MaxRows,    \* bound: envelopes recorded
    MaxBalance, \* bound: what an account holds of the asset
    MaxTime     \* bound: clock

VARIABLES
    policy,   \* table orgs: on (a budget is set), cap
    pending,  \* tables pending_sends, pending_enrollments, pending_reclaims: not submitted
    claimed,  \* the same tables: submitted
    grants,   \* table enrollment_grants
    tracked,  \* table tracked_addresses
    linked,   \* members.address: the wallets linked with /link
    req,      \* the requests in progress
    account,  \* every address on the network
    sponsor,  \* the sequence number of the operator's account
    queue,    \* envelopes the network has queued
    done,     \* envelopes included, with success
    failed,   \* envelopes included, without
    closes,   \* merges ingestion has not read yet
    now

store   == <<policy, pending, claimed, grants, tracked, linked>>
network == <<account, sponsor, queue, done, failed, closes>>
vars    == <<store, req, network, now>>

Kind == {"enroll", "send", "reclaim"}
Envelope == [kind: Kind, by: Members, address: Addresses, seq: Nat, expires: Nat]
Grant == [member: Members, address: Addresses, at: Nat, reclaimed: BOOLEAN]
Account == [state: {"none", "live", "merged"}, seq: Nat, balance: Nat]
Request ==
    [pc: {"idle"}]
    \cup [pc: {"record", "bump", "count", "insert", "unclaim", "submit", "sent", "refused",
               "finish"}, env: Envelope]

ASSUME WalletsAssumption ==
    /\ DeviceOf \in [Addresses -> Members] /\ Wallets \subseteq SUBSET Addresses
    /\ \A S \in Wallets : \A a, b \in S : DeviceOf[a] = DeviceOf[b] => a = b
    /\ None \notin Addresses
    /\ Caps \subseteq Nat \ {0} /\ GlobalCap \in Nat \ {0}
    /\ Day \in Nat \ {0} /\ TTL \in Nat \ {0}
    /\ HasTreasury \in BOOLEAN /\ MaxRows \in Nat /\ MaxBalance \in Nat /\ MaxTime \in Nat
    /\ IsFiniteSet(Requests) /\ IsFiniteSet(Members)

Idle == [pc |-> "idle"]
At(r, pc) == req[r].pc = pc
Goto(r, next) == req' = [req EXCEPT ![r] = next]
Step(r, pc) == Goto(r, [req[r] EXCEPT !.pc = pc])

--------------------------------------------------------------------------------
(* Which wallet is a member's, and whether one may be provisioned. *)

\* The address tracked for the member's own ledger account.
AddressForOwner(m) == {a \in tracked \ linked : DeviceOf[a] = m}

\* That one, else the linked one.
stellarAddress(m) ==
    LET own == AddressForOwner(m)
        wallet == {a \in linked : DeviceOf[a] = m}
    IN  IF own # {} THEN CHOOSE a \in own : TRUE
        ELSE IF wallet # {} THEN CHOOSE a \in wallet : TRUE ELSE None
hasStellarAccount(m) == stellarAddress(m) # None

EnrollmentPolicyOf == [on |-> policy.on, cap |-> policy.cap, treasury |-> HasTreasury]
On(p) == p.on /\ p.cap > 0 /\ p.treasury
provisioningOpen == On(EnrollmentPolicyOf)

SetEnrollmentPolicy(on, cap) == policy' = [on |-> on, cap |-> cap]
provisioning(on, cap) ==
    /\ \/ on /\ EnrollmentPolicyOf.treasury /\ SetEnrollmentPolicy(TRUE, cap)
       \/ ~on /\ SetEnrollmentPolicy(FALSE, EnrollmentPolicyOf.cap)
    /\ UNCHANGED <<pending, claimed, grants, tracked, req, linked, network, now>>

--------------------------------------------------------------------------------
(* Preparing an envelope: the account's next sequence number, a deadline, and  *)
(* only then a row.                                                           *)
Built(kind, m, a, seq) ==
    [kind |-> kind, by |-> m, address |-> a, seq |-> seq, expires |-> now + TTL]
BuildProvision(m, a) == Built("enroll", m, a, sponsor + 1)
BuildPayment(m, a) == Built("send", m, a, account[a].seq + 1)
Build(m, a) == Built("reclaim", m, a, account[a].seq + 1)
Prepare(r, e) ==
    /\ now + TTL <= MaxTime /\ Cardinality(pending \cup claimed) < MaxRows
    /\ Goto(r, [pc |-> "record", env |-> e])
    /\ UNCHANGED <<store, network, now>>

PrepareEnrollment(r, m, a) ==
    /\ At(r, "idle")
    /\ DeviceOf[a] = m /\ a \notin linked
    /\ ~hasStellarAccount(m) /\ provisioningOpen
    /\ Prepare(r, BuildProvision(m, a))

\* Only from an account that is on the network.
PrepareSend(r, m) ==
    LET a == stellarAddress(m)
    IN  account[a].state = "live" /\ Prepare(r, BuildPayment(m, a))

\* Whoever has no wallet is sent to the page that makes one instead.
HandleSend(r, m) == At(r, "idle") /\ hasStellarAccount(m) /\ PrepareSend(r, m)

\* Only an account a grant paid for, not yet handed back, and holding nothing.
GrantFor(a) == {g \in grants : g.address = a}
PrepareReclaim(r, m, a) ==
    /\ \E g \in GrantFor(a) : ~g.reclaimed
    /\ account[a].state = "live" /\ account[a].balance = 0
    /\ Prepare(r, Build(m, a))

\* The provisioned wallet comes before the linked one here too.
reclaim(r, m) ==
    /\ At(r, "idle") /\ hasStellarAccount(m)
    /\ PrepareReclaim(r, m, stellarAddress(m))

(* One row per send; a new enrolment replaces its owner's that still waits, a  *)
(* new hand-back its address's.  An envelope claimed before cannot be recorded *)
(* again.                                                                     *)
recordPendingEnrollment(e) == {p \in pending : p.kind = "enroll" /\ p.by = e.by}
SaveReclaim(e) == {p \in pending : p.kind = "reclaim" /\ p.address = e.address}
Superseded(e) ==
    CASE e.kind = "send"    -> {}
      [] e.kind = "enroll"  -> recordPendingEnrollment(e)
      [] e.kind = "reclaim" -> SaveReclaim(e)
Record(r) ==
    /\ At(r, "record")
    /\ LET e == req[r].env
       IN  pending' = IF e \in claimed THEN pending
                      ELSE (pending \ Superseded(e)) \cup {e}
    /\ Goto(r, Idle)
    /\ UNCHANGED <<policy, claimed, grants, tracked, linked, network, now>>

--------------------------------------------------------------------------------
(* Claiming: one conditional UPDATE, by its owner, before its deadline. *)
\* Mutant: whoever has the signed envelope may send it.
Live_Always(e, m) == e.by = m /\ now < e.expires

Live(e, m) == e \in pending /\ e.by = m /\ now < e.expires

Claim(r, e, pc) ==
    /\ pending' = pending \ {e} /\ claimed' = claimed \cup {e}
    /\ Goto(r, [pc |-> pc, env |-> e])
    /\ UNCHANGED <<policy, grants, tracked, linked, network, now>>

authorise(r, e, m) == Live(e, m) /\ Claim(r, e, "submit")
authoriseEnrollment(r, e, m) == Live(e, m) /\ Claim(r, e, "count")

\* A send goes straight to the network; an enrolment needs a grant first.
Submit(r, e, m) == At(r, "idle") /\ e.kind = "send" /\ authorise(r, e, m)
SubmitEnrollment(r, e, m) == At(r, "idle") /\ e.kind = "enroll" /\ authoriseEnrollment(r, e, m)

\* The fee bump of a hand-back is built and signed before the row is claimed.
LiveReclaim(e, m) == e.kind = "reclaim" /\ Live(e, m)
SubmitReclaim(r, e, m) ==
    /\ At(r, "idle") /\ LiveReclaim(e, m)
    /\ Goto(r, [pc |-> "bump", env |-> e])
    /\ UNCHANGED <<store, network, now>>
ClaimReclaim(r) ==
    /\ At(r, "bump") /\ Live(req[r].env, req[r].env.by)
    /\ Claim(r, req[r].env, "submit")

--------------------------------------------------------------------------------
(* The grant: counted and inserted in one transaction, which locks nothing. *)
Recent == {g \in grants : g.at > now - Day}
Granted(m) == \E g \in grants : g.member = m

\* Mutant: leaves the counting to the unique index.
CountGrants_Never(r) ==
    /\ At(r, "count")
    /\ ~Granted(req[r].env.by) /\ provisioningOpen
    /\ Step(r, "insert")
    /\ UNCHANGED <<store, network, now>>

CountGrants(r) ==
    /\ At(r, "count")
    /\ ~Granted(req[r].env.by) /\ provisioningOpen
    /\ Cardinality(Recent) < policy.cap /\ Cardinality(Recent) < GlobalCap
    /\ Step(r, "insert")
    /\ UNCHANGED <<store, network, now>>

InsertGrant(r) ==
    /\ At(r, "insert")
    /\ LET e == req[r].env
       IN  IF Granted(e.by) THEN UNCHANGED grants /\ Step(r, "unclaim")
           ELSE /\ grants' = grants \cup {[member |-> e.by, address |-> e.address,
                                           at |-> now, reclaimed |-> FALSE]}
                /\ Step(r, "submit")
    /\ UNCHANGED <<policy, pending, claimed, tracked, linked, network, now>>

\* A grant refused, on any count, or because the float is low or somebody too new.
GrantRefused(r) ==
    /\ At(r, "count")
    /\ Step(r, "unclaim")
    /\ UNCHANGED <<store, network, now>>

\* The claim is given back, unless a newer envelope waits for the same owner.
ReleaseClaim(r) ==
    /\ At(r, "unclaim")
    /\ LET e == req[r].env
       IN  IF Superseded(e) # {} THEN UNCHANGED <<pending, claimed>>
           ELSE pending' = pending \cup {e} /\ claimed' = claimed \ {e}
    /\ Goto(r, Idle)
    /\ UNCHANGED <<policy, grants, tracked, linked, network, now>>

--------------------------------------------------------------------------------
(* Submitting: Submit and SubmitFeeBump of settlement, and what they make of   *)
(* the answer.                                                                *)
SeqOf(e) == IF e.kind = "enroll" THEN sponsor ELSE account[e.address].seq
Acceptable(e) ==
    /\ e \notin done \cup failed /\ SeqOf(e) + 1 = e.seq /\ now <= e.expires
    /\ e.kind # "enroll" => account[e.address].state = "live"

\* The envelope is signed and sent; it is queued, or lost on the way.
Send(r) ==
    /\ At(r, "submit")
    /\ \/ Acceptable(req[r].env) /\ queue' = queue \cup {req[r].env}
       \/ UNCHANGED queue
    /\ Step(r, "sent")
    /\ UNCHANGED <<store, account, sponsor, done, failed, closes, now>>

\* ErrNoEffect: Horizon answered with result codes.
Rejected(r) ==
    /\ \/ At(r, "submit")
       \/ At(r, "sent") /\ req[r].env \in failed
    /\ IF req[r].env.kind = "enroll" THEN Step(r, "refused") ELSE Goto(r, Idle)
    /\ UNCHANGED <<store, network, now>>

After(e) == IF e.kind = "send" THEN Idle ELSE [pc |-> "finish", env |-> e]
Answered(r) ==
    /\ At(r, "sent") /\ req[r].env \in done
    /\ Goto(r, After(req[r].env))
    /\ UNCHANGED <<store, network, now>>

LookupTransaction(e) == e \in done \cup failed

\* Mutant: takes not found for never sent.
resolveAmbiguous_Refused(r) ==
    /\ At(r, "sent")
    /\ Goto(r, IF LookupTransaction(req[r].env) THEN After(req[r].env)
               ELSE IF req[r].env.kind = "enroll" THEN [req[r] EXCEPT !.pc = "refused"] ELSE Idle)
    /\ UNCHANGED <<store, network, now>>

\* No answer: the hash is looked up, and found counts as landed.  Not found leaves
\* the claim and the grant as they are.
resolveAmbiguous(r) ==
    /\ At(r, "sent")
    /\ Goto(r, IF LookupTransaction(req[r].env) THEN After(req[r].env) ELSE Idle)
    /\ UNCHANGED <<store, network, now>>

ReleaseGrant(r) ==
    /\ At(r, "refused")
    /\ grants' = {g \in grants : g.address # req[r].env.address \/ g.reclaimed}
    /\ Goto(r, Idle)
    /\ UNCHANGED <<policy, pending, claimed, tracked, linked, network, now>>

--------------------------------------------------------------------------------
(* What follows once it landed. *)

\* One address per ledger account: a second one for the same member is an error.
TrackAddress(a) ==
    tracked' = IF AddressForOwner(DeviceOf[a]) # {} THEN tracked ELSE tracked \cup {a}
finalizeEnrollment(r) ==
    /\ At(r, "finish") /\ req[r].env.kind = "enroll"
    /\ TrackAddress(req[r].env.address)
    /\ Goto(r, Idle)
    /\ UNCHANGED <<policy, pending, claimed, grants, linked, network, now>>

\* Mutant: leaves the grant as it was.
ReleaseAddress_KeepsGrant(a) ==
    /\ tracked' = tracked \ {a} /\ linked' = linked \ {a} /\ UNCHANGED grants

\* One transaction.
ReleaseAddress(a) ==
    /\ tracked' = tracked \ {a} /\ linked' = linked \ {a}
    /\ grants' = {IF g.address = a THEN [g EXCEPT !.reclaimed = TRUE] ELSE g : g \in grants}

FinishReclaim(r) ==
    /\ At(r, "finish") /\ req[r].env.kind = "reclaim"
    /\ ReleaseAddress(req[r].env.address)
    /\ Goto(r, Idle)
    /\ UNCHANGED <<policy, pending, claimed, network, now>>

\* Ingestion reads the merge, and finishes what SubmitReclaim may not have.
applyClose(a) ==
    /\ a \in closes /\ closes' = closes \ {a}
    /\ IF a \in tracked THEN ReleaseAddress(a) ELSE UNCHANGED <<tracked, linked, grants>>
    /\ UNCHANGED <<policy, pending, claimed, req, account, sponsor, queue, done,
                   failed, now>>

\* A request ends early: a read or a statement fails, the process stops.
Quit(r) ==
    /\ ~At(r, "idle") /\ Goto(r, Idle)
    /\ UNCHANGED <<store, network, now>>

--------------------------------------------------------------------------------
(* The network. *)
Works(e) ==
    CASE e.kind = "enroll"  -> account[e.address].state = "none"
      [] e.kind = "send"    -> account[e.address].balance > 0
      [] e.kind = "reclaim" -> account[e.address].balance = 0
Effect(e) ==
    CASE e.kind = "enroll"  -> [state |-> "live", seq |-> 0, balance |-> 0]
      [] e.kind = "send"    -> [account[e.address] EXCEPT !.seq = e.seq, !.balance = @ - 1]
      [] e.kind = "reclaim" -> [account[e.address] EXCEPT !.seq = e.seq, !.state = "merged"]
Include(e) ==
    /\ e \in queue /\ queue' = queue \ {e}
    /\ IF ~Acceptable(e) THEN UNCHANGED <<account, sponsor, done, failed, closes>>
       ELSE /\ sponsor' = IF e.kind = "enroll" THEN e.seq ELSE sponsor
            /\ IF Works(e)
               THEN /\ account' = [account EXCEPT ![e.address] = Effect(e)]
                    /\ done' = done \cup {e} /\ UNCHANGED failed
                    /\ closes' = IF e.kind = "reclaim" THEN closes \cup {e.address} ELSE closes
               ELSE /\ account' = IF e.kind = "enroll" THEN account
                                  ELSE [account EXCEPT ![e.address].seq = e.seq]
                    /\ failed' = failed \cup {e} /\ UNCHANGED <<done, closes>>
    /\ UNCHANGED <<store, req, now>>

Receive(a) ==
    /\ account[a].state = "live" /\ account[a].balance < MaxBalance
    /\ account' = [account EXCEPT ![a].balance = @ + 1]
    /\ UNCHANGED <<store, req, sponsor, queue, done, failed, closes, now>>

Tick ==
    /\ now < MaxTime /\ now' = now + 1
    /\ UNCHANGED <<store, req, network>>

--------------------------------------------------------------------------------
Init ==
    /\ policy = [on |-> FALSE, cap |-> 0]
    /\ pending = {} /\ claimed = {} /\ grants = {} /\ linked \in Wallets /\ tracked = linked
    /\ req = [r \in Requests |-> Idle]
    /\ account = [a \in Addresses |->
                    [state |-> IF a \in linked THEN "live" ELSE "none", seq |-> 0, balance |-> 0]]
    /\ sponsor = 0 /\ queue = {} /\ done = {} /\ failed = {} /\ closes = {}
    /\ now = 0

Next ==
    \/ \E on \in BOOLEAN, cap \in Caps : provisioning(on, cap)
    \/ \E r \in Requests :
         \/ \E m \in Members, a \in Addresses : PrepareEnrollment(r, m, a)
         \/ \E m \in Members : HandleSend(r, m) \/ reclaim(r, m)
         \/ Record(r)
         \/ \E e \in pending : \E m \in Members :
              Submit(r, e, m) \/ SubmitEnrollment(r, e, m) \/ SubmitReclaim(r, e, m)
         \/ ClaimReclaim(r)
         \/ CountGrants(r) \/ InsertGrant(r) \/ GrantRefused(r) \/ ReleaseClaim(r)
         \/ Send(r) \/ Rejected(r) \/ Answered(r) \/ resolveAmbiguous(r)
         \/ ReleaseGrant(r) \/ finalizeEnrollment(r) \/ FinishReclaim(r)
         \/ Quit(r)
    \/ \E a \in Addresses : applyClose(a) \/ Receive(a)
    \/ \E e \in queue : Include(e)
    \/ Tick

Spec == Init /\ [][Next]_vars

--------------------------------------------------------------------------------
(* Properties. *)

(* The tables hold rows, requests hold what their step needs, and an envelope  *)
(* is not both waiting and claimed.                                           *)
TypeOK ==
    /\ policy \in [on: BOOLEAN, cap: Nat]
    /\ pending \subseteq Envelope /\ claimed \subseteq Envelope /\ pending \cap claimed = {}
    /\ grants \subseteq Grant /\ tracked \subseteq Addresses /\ linked \subseteq Addresses
    /\ req \in [Requests -> Request]
    /\ account \in [Addresses -> Account] /\ sponsor \in Nat
    /\ queue \subseteq Envelope /\ done \subseteq Envelope /\ failed \subseteq Envelope
    /\ closes \subseteq Addresses /\ now \in Nat

(* api/submit.go:146, api/enroll.go:333: an envelope is handled by one request *)
(* at a time and, once the network may have it, can never be submitted again,  *)
(* whether or not anybody learned what became of it.                          *)
Beyond(r) == req[r].pc \in {"count", "insert", "unclaim", "submit", "sent", "refused", "finish"}
SubmittedOnce ==
    /\ (queue \cup done \cup failed) \cap pending = {}
    /\ \A r, s \in Requests : r # s /\ Beyond(r) /\ Beyond(s) => req[r].env # req[s].env

(* api/enroll.go:318: the operator pays for one account per member, ever: what *)
(* is released after a refusal never belongs to an account that exists or may  *)
(* still come into being.                                                     *)
OneAccountEach ==
    \A m \in Members :
      /\ Cardinality({a \in Addresses \ linked : DeviceOf[a] = m /\ account[a].state # "none"}) <= 1
      /\ \A a \in Addresses \ linked : DeviceOf[a] = m /\ account[a].state # "none" =>
           \E g \in grants : g.member = m /\ g.address = a

(* ledger/store/enrollment.go:158: the daily limits may be passed by requests  *)
(* that counted before the others inserted, and by no more than those.        *)
Counted == {r \in Requests : At(r, "insert")}
NearlyWithinCap ==
    Cardinality(Recent) + Cardinality(Counted) <= GlobalCap + Cardinality(Requests) - 1

(* api/reclaim.go:294: an account handed back is forgotten, and its reserve    *)
(* counted as released, even if the process stops first: once ingestion has    *)
(* read the merge, at the latest.                                             *)
HandedBackIsForgotten ==
    \A a \in Addresses :
      account[a].state = "merged" /\ a \notin closes =>
        a \notin tracked /\ \A g \in grants : g.address = a => g.reclaimed
================================================================================
