------------------------------- MODULE Connectors -------------------------------
(***************************************************************************)
(* Connectors of one workspace under one name: registering one, setting it *)
(* up from its page, putting a grant to a treasury's signers, and reading  *)
(* through the guard (api/connectors.go, core/connectors.go,               *)
(* connector/guard.go, ledger/store/connector.go).  Each statement another *)
(* transaction can come between is a step of its own.                      *)
(***************************************************************************)
EXTENDS Reads, FiniteSetsExt

CONSTANTS
    Hour,             \* the window a grant's calls are counted over
    Stories,          \* bound: what happens in a behaviour, one of them
    MaxRows, MaxRevs, MaxGrants \* bounds: connectors registered, set-ups tried, grants requested

VARIABLES
    row,      \* table connectors
    grants,   \* table connector_grants, each with its row of auth_challenges
    calls,    \* table connector_calls: how many at each instant
    admitted, \* every call the guard let through, by instant
    revs,     \* set-ups that were sealed: each seal differs from every other
    cached,   \* the client kept for a connector, 0 if none
    story     \* the bound that is in force

guarding == <<row, grants, calls, admitted, revs, cached>>
outside == <<clock, offers, outgoing>>

Ids == 1..MaxRows
GrantIds == 1..MaxGrants
NoRow == [at |-> "none", kind |-> "webhook", end |-> Google, surface |-> "webhook", rev |-> 0,
          ready |-> FALSE]
NoGrant == [at |-> "none", id |-> 1, kind |-> "webhook", end |-> Google, surface |-> "webhook",
            rate |-> 0, between |-> FALSE]
Use == {"read", "payroll", "grant", "check"}

ASSUME ConnectorsAssumption ==
    /\ Hour \in Nat \ {0}
    /\ MaxRows \in Nat \ {0} /\ MaxRevs \in Nat /\ MaxGrants \in Nat \ {0}
    /\ Stories \subseteq [does: SUBSET {"register", "set up", "remove", "grant", "revoke", "read",
                                        "payroll", "propose", "save", "agent", "offer", "restart", "time"},
                          kinds: SUBSET Kinds, rates: SUBSET (Nat \ {0}), granted: BOOLEAN]

Does(what) == what \in story.does
Descriptor(c) == [kind |-> c.kind, surface |-> c.surface]
Live == {i \in Ids : row[i].at = "live"}
InForce(i) == {g \in GrantIds : grants[g].at = "in force" /\ grants[g].id = i}
\* The set-ups of a connector that hold the lock on its row.
SettingUp(i) == {q \in Requests : At(q, "drop") /\ req[q].id = i}
Locked(g) == \E q \in Requests : At(q, "drop") /\ g \in req[q].revokes

--------------------------------------------------------------------------------
(* Registering and setting up.                                                *)
\* A spreadsheet needs nothing more; anything else is told where it is on a page.
Registered(kind) ==
    [NoRow EXCEPT !.at = "live", !.kind = kind, !.ready = kind = "sheets",
                  !.surface = IF kind = "sheets" THEN kind ELSE @]

RegisterConnector(kind) ==
    /\ Does("register") /\ kind \in story.kinds /\ Live = {}
    /\ \E i \in Ids :
          /\ row[i].at = "none" /\ \A j \in 1..(i - 1) : row[j].at # "none"
          /\ row' = [row EXCEPT ![i] = Registered(kind)]
    /\ UNCHANGED <<outside, req, grants, calls, admitted, revs, cached>>

\* The page's endpoint is tried: an MCP server lists its tools, a webhook is read.
SetUpConnector(r, i, e) ==
    /\ Does("set up") /\ At(r, "idle") /\ revs < MaxRevs
    /\ row[i].at = "live" /\ row[i].kind # "sheets"
    /\ revs' = revs + 1
    /\ \E surface \in IF row[i].kind = "mcp" THEN Discover(e) ELSE {"webhook"} :
          Goto(r, [pc |-> "revoke", id |-> i, end |-> e, rev |-> revs', surface |-> surface])
    /\ UNCHANGED <<outside, row, grants, calls, admitted, cached>>

\* CompleteConnectorSetup: the row is updated and the grant in force revoked, none of it
\* seen by others yet ...
RevokeSuperseded(r) ==
    /\ At(r, "revoke")
    /\ row[req[r].id].at = "live" /\ SettingUp(req[r].id) = {}
    /\ Goto(r, [pc |-> "drop", id |-> req[r].id, end |-> req[r].end, surface |-> req[r].surface,
                rev |-> req[r].rev, revokes |-> InForce(req[r].id)])
    /\ UNCHANGED <<outside, guarding>>

Drop_Nothing(i, revokes) ==
    [g \in GrantIds |-> IF g \in revokes THEN [grants[g] EXCEPT !.at = "revoked"] ELSE grants[g]]

\* ... then what still waits for signatures is deleted, and the transaction committed.
Drop(i, revokes) ==
    [g \in GrantIds |->
        IF g \in revokes THEN [grants[g] EXCEPT !.at = "revoked"]
        ELSE IF grants[g].id = i /\ grants[g].at = "requested"
        THEN [grants[g] EXCEPT !.at = "dropped"]
        ELSE grants[g]]

CompleteConnectorSetup(r) ==
    LET s == req[r]
    IN  /\ At(r, "drop")
        /\ row' = [row EXCEPT ![s.id] = [@ EXCEPT !.end = s.end, !.surface = s.surface,
                                                 !.rev = s.rev, !.ready = TRUE]]
        /\ grants' = Drop(s.id, s.revokes)
        /\ Goto(r, [pc |-> "forget", id |-> s.id])
        /\ UNCHANGED <<outside, calls, admitted, revs, cached>>

forget(r) ==
    /\ At(r, "forget")
    /\ cached' = [cached EXCEPT ![req[r].id] = 0]
    /\ Finish(r)
    /\ UNCHANGED <<outside, row, grants, calls, admitted, revs>>

RemoveConnector(i) ==
    /\ Does("remove") /\ i \in Live /\ SettingUp(i) = {}
    /\ row' = [row EXCEPT ![i].at = "removed"]
    /\ grants' = [g \in GrantIds |->
                     IF g \in InForce(i) THEN [grants[g] EXCEPT !.at = "revoked"] ELSE grants[g]]
    /\ UNCHANGED <<outside, req, calls, admitted, revs, cached>>

--------------------------------------------------------------------------------
(* A connector's row is read, and the client for it taken or built.            *)
Reading(use, i, g) ==
    [pc |-> "row", use |-> use, id |-> i, row |-> row[i], grant |-> g, client |-> 0,
     probe |-> FALSE, flight |-> 0, at |-> 0, came |-> "none"]

ConnectorByName(r, use) ==
    \E i \in Live :
        /\ At(r, "idle") /\ row[i].ready /\ Does(use) /\ use \in {"read", "payroll", "grant"}
        /\ Goto(r, Reading(use, i, 0))
        /\ UNCHANGED <<outside, guarding>>

\* A client is served again only for the registration it was built for.
Serves(c, known) == c # 0 /\ client[c].rev = known.rev

reader(r) ==
    LET i == req[r].id
        known == req[r].row
        c == IF Serves(cached[i], known) THEN cached[i] ELSE Cardinality(DOMAIN client) + 1
    IN  /\ At(r, "row") /\ c <= MaxClients
        /\ cached' = [cached EXCEPT ![i] = c]
        /\ IF c \in DOMAIN client THEN UNCHANGED <<client, breaker>>
           ELSE /\ client' = [d \in 1..c |-> IF d \in DOMAIN client THEN client[d]
                                ELSE [id |-> i, kind |-> known.kind, end |-> known.end,
                                      surface |-> known.surface, rev |-> known.rev]]
                /\ breaker' = [d \in 1..c |-> IF d \in DOMAIN breaker THEN breaker[d] ELSE Closed]
        /\ Goto(r, [req[r] EXCEPT !.client = c,
                       !.pc = CASE req[r].use = "grant" -> "request"
                                [] req[r].use = "check" -> "check"
                                [] OTHER                -> "guard"])
        /\ UNCHANGED <<clock, offers, account, flight, row, grants, calls, admitted, revs>>

--------------------------------------------------------------------------------
(* A grant is put to the signers of a treasury.                               *)
grantStatement(known, c, rate) ==
    [kind |-> known.kind, end |-> known.end, surface |-> Descriptor(client[c]).surface, rate |-> rate]
\* The challenge that commits to a statement, to be signed within the hour.
BuildStatement(i, s) ==
    [at |-> "requested", id |-> i, kind |-> s.kind, end |-> s.end, surface |-> s.surface,
     rate |-> s.rate, between |-> FALSE]
StatementOf(g) == [kind |-> g.kind, end |-> g.end, surface |-> g.surface, rate |-> g.rate]

\* PrepareGrant: the last ask, if nobody has signed it, is replaced.
RequestGrant(r, rate) ==
    LET s == grantStatement(req[r].row, req[r].client, rate)
        i == req[r].id
    IN  /\ At(r, "request")
        /\ \E n \in GrantIds :
              /\ grants[n].at = "none" /\ \A m \in 1..(n - 1) : grants[m].at # "none"
              /\ grants' = [Drop(i, {}) EXCEPT ![n] = BuildStatement(i, s)]
        /\ Finish(r)
        /\ UNCHANGED <<outside, row, calls, admitted, revs, cached>>

\* SubmitGrant: the challenge and the request are still there, and so is the connector.
SubmitGrant(r, g) ==
    /\ Does("grant") /\ At(r, "idle") /\ grants[g].at = "requested" /\ row[grants[g].id].at = "live"
    /\ row[grants[g].id].ready
    /\ Goto(r, Reading("check", grants[g].id, g))
    /\ UNCHANGED <<outside, guarding>>

\* An envelope is signed by the weight a payment takes, and carries one statement: this one.
\* A proof that the signers hold the account carries none.
Envelopes ==
    [weight: {"enough", "short"}, carries: {<<>>, <<"this">>, <<"another">>, <<"this", "this">>}]
VerifyStatement(env) == env.weight = "enough" /\ env.carries = <<"this">>

\* The statement is written again from the connector as it was read, and compared.
CheckStatement(r) ==
    LET g == grants[req[r].grant]
    IN  /\ At(r, "check")
        /\ \E env \in Envelopes :
              IF /\ grantStatement(req[r].row, req[r].client, g.rate) = StatementOf(g)
                 /\ VerifyStatement(env)
              THEN Step(r, "consume") ELSE Finish(r)
        /\ UNCHANGED <<outside, guarding>>

\* The challenge is spent and the request, if it is still there, put in force in the place
\* of the grant there was.  It waits for a set-up that is revoking that one.
ConsumeGrantChallenge(r) ==
    LET g == req[r].grant
        i == grants[g].id
    IN  /\ At(r, "consume")
        /\ \A old \in InForce(i) : ~Locked(old)
        /\ IF grants[g].at = "requested"
           THEN grants' = [h \in GrantIds |->
                   IF h = g THEN [grants[g] EXCEPT !.at = "in force", !.between = SettingUp(i) # {}]
                   ELSE IF h \in InForce(i) THEN [grants[h] EXCEPT !.at = "revoked"]
                   ELSE grants[h]]
           ELSE UNCHANGED grants
        /\ Finish(r)
        /\ UNCHANGED <<outside, row, calls, admitted, revs, cached>>

RevokeGrant(g) ==
    /\ Does("revoke") /\ grants[g].at = "in force" /\ row[grants[g].id].at = "live" /\ ~Locked(g)
    /\ grants' = [grants EXCEPT ![g].at = "revoked"]
    /\ UNCHANGED <<outside, req, row, calls, admitted, revs, cached>>

--------------------------------------------------------------------------------
(* A read goes through the guard: the grant of that name, the surface it was   *)
(* given for, and one of the calls it allows.                                  *)
GrantInForce_Removed == {g \in GrantIds : grants[g].at = "in force"}
GrantInForce == {g \in GrantIds : grants[g].at = "in force" /\ row[grants[g].id].at = "live"}

\* A read needs one capability, and an MCP server has one for each tool that was pinned.
capabilityFor(kind, tool) == IF kind = "mcp" THEN <<kind, tool>> ELSE <<kind, "rows">>
covers(g, capability) == capability = <<g.kind, IF g.kind = "mcp" THEN "pinned" ELSE "rows">>

authorise(r) ==
    LET c == client[req[r].client]
        Covered(tool) == {g \in GrantInForce : /\ Descriptor(c).surface = grants[g].surface
                                              /\ covers(grants[g], capabilityFor(c.kind, tool))}
    IN  /\ At(r, "guard")
        /\ \E tool \in {"pinned", "another"} :
              \/ \E g \in Covered(tool) : Goto(r, [req[r] EXCEPT !.pc = "rate", !.grant = g])
              \/ Covered(tool) = {} /\ Finish(r)
        /\ UNCHANGED <<outside, guarding>>

Recent_Early(times) ==
    [t \in 0..MaxTime |-> IF t <= clock - Hour + 1 /\ t < clock THEN 0 ELSE times[t]]

Recent(times) == [t \in 0..MaxTime |-> IF t <= clock - Hour THEN 0 ELSE times[t]]
Between(times, from, to) == MapThenSumSet(LAMBDA t : times[t], from..to)

AllowConnectorCall(r) ==
    LET kept == Recent(calls)
    IN  /\ At(r, "rate")
        /\ IF Between(kept, 0, MaxTime) < grants[req[r].grant].rate
           THEN /\ calls' = [kept EXCEPT ![clock] = @ + 1]
                /\ admitted' = [admitted EXCEPT ![clock] = @ + 1]
                /\ Step(r, CASE req[r].row.kind = "mcp" -> "mcp"
                             [] req[r].row.kind = "sheets" -> "token"
                             [] OTHER -> "fetch")
           ELSE Finish(r) /\ UNCHANGED <<calls, admitted>>
        /\ UNCHANGED <<outside, row, grants, revs, cached>>

\* A statement fails, the page's endpoint does not answer, or the request goes away.
Fail(r) ==
    /\ req[r].pc \in {"revoke", "drop", "forget", "row", "request", "check", "consume", "guard",
                     "rate"}
    /\ Finish(r)
    /\ UNCHANGED <<outside, guarding>>

\* The process starts again: what is in memory is gone, and open transactions with it.
Restart ==
    /\ Does("restart") /\ DOMAIN client # {}
    /\ req' = [r \in Requests |-> Idle]
    /\ client' = <<>> /\ breaker' = <<>>
    /\ account' = NoToken /\ flight' = [f \in 1..MaxFlights |-> "none"]
    /\ cached' = [i \in Ids |-> 0]
    /\ UNCHANGED <<clock, offers, row, grants, calls, admitted, revs>>

Guarding(r) ==
    \/ \E i \in Ids, e \in Ends : SetUpConnector(r, i, e)
    \/ RevokeSuperseded(r) \/ CompleteConnectorSetup(r) \/ forget(r)
    \/ \E use \in Use : ConnectorByName(r, use)
    \/ reader(r)
    \/ \E rate \in story.rates : RequestGrant(r, rate)
    \/ \E g \in GrantIds : SubmitGrant(r, g)
    \/ CheckStatement(r) \/ ConsumeGrantChallenge(r)
    \/ authorise(r) \/ AllowConnectorCall(r) \/ Fail(r)

\* What an admin does alone.
connectorCmd ==
    \/ \E kind \in Kinds : RegisterConnector(kind)
    \/ \E i \in Ids : RemoveConnector(i)
    \/ \E g \in GrantIds : RevokeGrant(g)
--------------------------------------------------------------------------------
\* One connector has the name, one grant is in force for it, and what the grant says is the
\* connector as it is now: set-up does not change what the signers agreed to.  The one way
\* past is a grant put in force while a set-up had revoked and not yet committed.
\* ledger/store/connector.go:161 "Any grant in force is revoked in the same transaction."
GrantsDescribe ==
    /\ Cardinality(Live) <= 1
    /\ \A i \in Live : Cardinality(InForce(i)) <= 1
    /\ \A g \in GrantInForce :
          LET now == row[grants[g].id]
          IN  \/ grants[g].between
              \/ <<grants[g].kind, grants[g].end, grants[g].surface>> = <<now.kind, now.end, now.surface>>

\* What is called is what the signers agreed to call, with the tools they saw, unless the
\* connector was set up again or removed since the read began.
\* api/connectors.go:463 "The digest still binds the grant to the one endpoint it was given for."
CallsAsSigned ==
    \A r \in Requests :
        req[r].pc \in {"mcp", "session", "list", "tool", "token", "lead", "fetch", "range"} =>
        LET g == grants[req[r].grant]
            c == client[req[r].client]
        IN  \/ <<c.kind, c.end, c.surface>> = <<g.kind, g.end, g.surface>>
            \/ row[req[r].id] # req[r].row
            \/ g.between

\* Whoever asks, through whichever client and under whichever grant, no more calls go out in
\* any hour than the most a grant may allow.
\* ledger/store/connector.go:601 "two instances asking at the same moment cannot both take
\* the last slot"
RateHeld ==
    \A t \in 0..MaxTime : \A most \in story.rates :
        (\A m \in story.rates : m <= most) =>
            Between(admitted, IF t < Hour THEN 0 ELSE t - Hour + 1, t) <= most
================================================================================
