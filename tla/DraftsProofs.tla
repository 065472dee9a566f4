------------------------------ MODULE DraftsProofs ------------------------------
(* Theorems about Reads, Connectors and Drafts, for every value of their constants. *)
EXTENDS Drafts, SequenceTheorems, SumProofs

(***************************************************************************)
(* The types of the tables, of what the process holds in memory and of the *)
(* requests in progress.  A request that reads is one record throughout;   *)
(* the others are named by where they are.                                 *)
(***************************************************************************)
Row ==
    [at: {"none", "live", "removed"}, kind: Kinds, end: Ends \cup {Google},
     surface: Surfaces \cup Kinds, rev: Nat, ready: BOOLEAN]
Grant ==
    [at: {"none", "requested", "in force", "revoked", "dropped"}, id: Ids, kind: Kinds,
     end: Ends \cup {Google}, surface: Surfaces \cup Kinds, rate: Nat, between: BOOLEAN]
Client ==
    [id: Ids, kind: Kinds, end: Ends \cup {Google}, surface: Surfaces \cup Kinds, rev: Nat]
Breaker == [failures: Nat, open: BOOLEAN, openedAt: Nat, probing: BOOLEAN]
Came == {"none", "ok", "failed", "abandoned", "panicked"}

\* Before the guard has let the call through, and after.
Early == {"row", "request", "check", "consume", "guard", "rate"}
Past == {"mcp", "session", "list", "tool", "fetch", "token", "wait", "lead", "asking", "settle",
         "close", "range", "answered"}
Other == {"idle", "propose", "resolve", "agent"}
Reader ==
    [pc: Early \cup Past, use: Use, id: Ids, row: Row, grant: 0..MaxGrants, client: 0..MaxClients,
     probe: BOOLEAN, flight: 0..MaxFlights, at: Nat, came: Came]
Setting ==
    [pc: {"revoke"}, id: Ids, end: Ends, rev: Nat, surface: Surfaces \cup Kinds]
    \cup [pc: {"drop"}, id: Ids, end: Ends, surface: Surfaces \cup Kinds, rev: Nat,
          revokes: SUBSET GrantIds]
Shape(x) ==
    \/ x.pc \in Early \cup Past /\ x \in Reader
    \/ x.pc \in {"revoke", "drop"} /\ x \in Setting
    \/ x.pc = "forget" /\ x \in [pc: {"forget"}, id: Ids]
    \/ x.pc \in Other

Clients(cl, br) == \E n \in 0..MaxClients : cl \in [1..n -> Client] /\ br \in [1..n -> Breaker]

Memory ==
    /\ clock \in 0..MaxTime /\ story \in Stories /\ offers \in [Ends -> Surfaces]
    /\ Clients(client, breaker)
    /\ account \in [refreshAt: Nat, flight: 0..MaxFlights]
    /\ flight \in [1..MaxFlights -> Came \cup {"running"}]
Stored ==
    /\ row \in [Ids -> Row] /\ grants \in [GrantIds -> Grant] /\ revs \in Nat
    /\ cached \in [Ids -> 0..MaxClients]
    /\ calls \in [0..MaxTime -> Nat] /\ admitted \in [0..MaxTime -> Nat]
Typed == Memory /\ Stored /\ DOMAIN req = Requests /\ \A r \in Requests : Shape(req[r])

(***************************************************************************)
(* The breaker.  The one call that came in through an open breaker is the  *)
(* only one that carries the mark, and it is the only one that clears it.  *)
(***************************************************************************)
InCall == {"session", "list", "tool"}
Probes(q, c) == {r \in Requests : q[r].pc \in InCall /\ q[r].client = c /\ q[r].probe}
BreakerOK(b, P) ==
    /\ b.probing => b.open /\ \E r \in P : P = {r}
    /\ P # {} => b.probing
    /\ b.open <=> b.failures >= Threshold
Breakers ==
    /\ \A r \in Requests : req[r].pc \in Past => req[r].client \in DOMAIN breaker
    /\ \A c \in DOMAIN breaker : BreakerOK(breaker[c], Probes(req, c))

(***************************************************************************)
(* The exchanges.                                                          *)
(***************************************************************************)
Leads == {"lead", "asking", "settle", "close"}
Flights ==
    /\ \A r \in Requests : req[r].pc \in Leads \cup {"wait"} => req[r].flight \in 1..MaxFlights
    /\ \A r \in Requests : req[r].pc \in {"settle", "close"} => req[r].came # "none"
    /\ account.flight # 0 =>
         \E r \in Requests : req[r].pc \in Leads \ {"close"} /\ req[r].flight = account.flight
    /\ \A f \in 1..MaxFlights : flight[f] = "running" =>
         \E r \in Requests : req[r].pc \in Leads /\ req[r].flight = f

(***************************************************************************)
(* What is known of a connector.  Two registrations of it with the same    *)
(* seal are the same, wherever they are kept, and no set-up under way has  *)
(* a seal that is known.                                                   *)
(***************************************************************************)
Alike(x, y) == x.kind = y.kind /\ x.end = y.end /\ x.surface = y.surface
OnRead(x) == x.pc \in Early \cup Past
SetsUp(x) == x.pc \in {"revoke", "drop"}

\* A reader's copy x of a row of R, the clients K and n seals made so far.
ReadSeal(x, R, n) ==
    /\ x.row.at = "live" /\ R[x.id].at # "none" /\ x.row.rev <= n
    /\ x.row.rev = R[x.id].rev => Alike(x.row, R[x.id])
GoesTo(x, K) == x.pc # "row" => x.client \in DOMAIN K /\ Alike(K[x.client], x.row)
Pair(k, x) == x.id = k.id /\ x.row.rev = k.rev => Alike(k, x.row)
ReaderSeal(x, R, K, n) ==
    OnRead(x) => ReadSeal(x, R, n) /\ GoesTo(x, K) /\ \A c \in DOMAIN K : Pair(K[c], x)
ClientSeal(k, R, n) ==
    /\ k.rev <= n /\ R[k.id].at # "none"
    /\ k.rev = R[k.id].rev => Alike(k, R[k.id])
\* The seal of the set-up that request r makes, among the requests q.
SetSeal(r, R, K, q, n) ==
    SetsUp(q[r]) =>
       /\ q[r].rev \in 1..n /\ R[q[r].id].at # "none"
       /\ \A i \in Ids : R[i].rev # q[r].rev
       /\ \A c \in DOMAIN K : K[c].rev # q[r].rev
       /\ \A p \in Requests : OnRead(q[p]) => q[p].row.rev # q[r].rev
       /\ \A p \in Requests \ {r} : SetsUp(q[p]) => q[p].rev # q[r].rev
CacheSeal(C, K) == \A i \in Ids : C[i] # 0 => C[i] \in DOMAIN K /\ K[C[i]].id = i
RowSeal(R, n) == \A i \in Ids : R[i].rev <= n
Twins(x, y) ==
    OnRead(x) /\ OnRead(y) /\ x.id = y.id /\ x.row.rev = y.row.rev => Alike(x.row, y.row)

Seals ==
    /\ RowSeal(row, revs) /\ CacheSeal(cached, client)
    /\ \A c \in DOMAIN client : ClientSeal(client[c], row, revs)
    /\ \A r \in Requests : ReaderSeal(req[r], row, client, revs) /\ SetSeal(r, row, client, req, revs)
    /\ \A r, q \in Requests : Twins(req[r], req[q])

(***************************************************************************)
(* The grants G of the connectors R.                                       *)
(***************************************************************************)
Standing(g, R, G) ==
    /\ G[g].at # "none" => R[G[g].id].at # "none" /\ G[g].rate \in story.rates
    /\ G[g].at = "in force" => G[g].between \/ Alike(G[g], R[G[g].id])
    /\ \A h \in GrantIds :
         G[g].at = "in force" /\ G[h].at = "in force" /\ G[g].id = G[h].id => g = h
OneLive(R) == \A i, j \in Ids : R[i].at = "live" /\ R[j].at = "live" => i = j
\* What a set-up is to revoke is all there is, but for a grant put in force meanwhile.
DropOK(x, G) ==
    x.pc = "drop" => \A g \in GrantIds : G[g].at = "in force" /\ x.id = G[g].id =>
                        G[g].between \/ g \in x.revokes
\* What it is to revoke has been in force.
RevokeOK(x, G) ==
    x.pc = "drop" => \A g \in x.revokes : g \in GrantIds /\ G[g].at \in {"in force", "revoked"}
\* A grant that is checked is of the connector that was read; while it is still only requested
\* that connector has not been set up again.
CheckOK(x, R, G) ==
    /\ x.pc \in {"check", "consume"} => x.use = "check"
    /\ OnRead(x) /\ x.use = "check" =>
         /\ x.grant \in GrantIds /\ G[x.grant].at # "none" /\ x.id = G[x.grant].id
         /\ x.pc \in {"row", "check", "consume"}
         /\ G[x.grant].at = "requested" => x.row.rev = R[x.id].rev
         /\ x.pc = "consume" => Alike(G[x.grant], x.row)
SignOK(x, R, G, K) ==
    x.pc \in Past \cup {"rate"} =>
       /\ x.grant \in GrantIds /\ G[x.grant].at \in {"in force", "revoked"}
       /\ Alike(K[x.client], G[x.grant]) \/ R[x.id] # x.row \/ G[x.grant].between

Granted ==
    /\ OneLive(row) /\ \A g \in GrantIds : Standing(g, row, grants)
    /\ \A r \in Requests : /\ DropOK(req[r], grants) /\ RevokeOK(req[r], grants)
                            /\ CheckOK(req[r], row, grants) /\ SignOK(req[r], row, grants, client)

(***************************************************************************)
(* The rate.  What the table has forgotten is older than an hour.          *)
(***************************************************************************)
Counts == \A t \in 0..MaxTime : t > clock - Hour => calls[t] = admitted[t]

IInv == Typed /\ Breakers /\ Flights /\ Seals /\ Granted /\ Counts /\ RateHeld

--------------------------------------------------------------------------------
(* The bounds are numbers. *)
LEMMA Numbers ==
    /\ MaxGrants \in Nat /\ MaxRows \in Nat /\ MaxClients \in Nat /\ MaxFlights \in Nat
    /\ MaxTime \in Nat /\ Hour \in Nat /\ Hour # 0
    /\ 0 \in 0..MaxGrants /\ 0 \in 0..MaxClients /\ 0 \in 0..MaxFlights
    /\ 1 \in Ids /\ 1 \in GrantIds /\ \A g \in GrantIds : g \in 0..MaxGrants
  <1>1. /\ MaxGrants \in Nat /\ MaxRows \in Nat /\ MaxClients \in Nat /\ MaxFlights \in Nat
        /\ MaxTime \in Nat /\ Hour \in Nat /\ Hour # 0 /\ MaxGrants # 0 /\ MaxRows # 0
    BY ReadsAssumption, ConnectorsAssumption
  <1> QED BY <1>1 DEF Ids, GrantIds

(* A request moves: it becomes y, and no other changes.                        *)
LEMMA Moves ==
    ASSUME Typed, NEW r \in Requests, NEW y, Goto(r, y)
    PROVE  /\ DOMAIN req' = Requests /\ req'[r] = y
           /\ \A q \in Requests \ {r} : req'[q] = req[q]
  BY DEF Typed, Goto

(* A reading request keeps what it read and who asked. *)
Kin(x, y) == y \in Reader /\ y.use = x.use /\ y.id = x.id /\ y.row = x.row

(* So it does when only its place moves. *)
LEMMA StepKin ==
    ASSUME NEW x \in Reader, NEW pc \in Early \cup Past
    PROVE  LET y == [x EXCEPT !.pc = pc]
           IN  /\ Kin(x, y) /\ y.pc = pc /\ y.grant = x.grant /\ y.client = x.client
               /\ y.probe = x.probe /\ y.flight = x.flight /\ y.at = x.at /\ y.came = x.came
  BY DEF Reader, Kin

(* A request at a place of a reader is one. *)
LEMMA IsReader ==
    ASSUME Typed, NEW r \in Requests, req[r].pc \in Early \cup Past
    PROVE  req[r] \in Reader
  BY DEF Typed, Shape, Other, Early, Past

(* What is known of the clients. *)
LEMMA ClientsType ==
    ASSUME Typed
    PROVE  /\ DOMAIN client = DOMAIN breaker
           /\ \A c \in DOMAIN client : client[c] \in Client /\ breaker[c] \in Breaker
           /\ \E n \in 0..MaxClients : DOMAIN client = 1..n /\ Cardinality(DOMAIN client) = n
  <1>1. PICK n \in 0..MaxClients : client \in [1..n -> Client] /\ breaker \in [1..n -> Breaker]
    BY DEF Typed, Memory, Clients
  <1>2. n \in Nat /\ 1 \in Int /\ n \in Int
    BY ReadsAssumption
  <1>3. Cardinality(1..n) = n
    BY <1>2, FS_Interval
  <1> QED BY <1>1, <1>3

(* Where a call that has passed the guard goes, and that it takes nothing new with it. *)
Onward(x, y) ==
    \/ y = Idle
    \/ Kin(x, y) /\ y.pc \in Past /\ y.grant = x.grant /\ y.client = x.client

(* ReadMCP. *)
LEMMA ReadMCPMoves ==
    ASSUME Typed, Breakers, NEW r \in Requests, ReadMCP(r)
    PROVE  /\ req[r] \in Reader /\ req[r].pc = "mcp" /\ req[r].client \in DOMAIN breaker
           /\ UNCHANGED <<account, flight>>
           /\ \E y : /\ Goto(r, y) /\ Onward(req[r], y)
                     /\ \/ y = Idle /\ breaker' = breaker
                        \/ /\ y.pc = "session" /\ y.probe = breaker[req[r].client].open
                           /\ Allowed(breaker[req[r].client])
                           /\ breaker' = [breaker EXCEPT ![req[r].client] = enter(@)]
  <1> DEFINE c == req[r].client
             y == [req[r] EXCEPT !.pc = "session", !.probe = breaker[c].open]
  <1>1. req[r].pc = "mcp" /\ UNCHANGED <<account, flight>>
    BY DEF ReadMCP, At
  <1>2. req[r] \in Reader /\ c \in DOMAIN breaker
    BY <1>1, IsReader DEF Breakers, Early, Past
  <1>3. breaker[c].open \in BOOLEAN
    BY <1>2, ClientsType DEF Breaker
  <1>4. /\ Kin(req[r], y) /\ y.pc = "session" /\ y.grant = req[r].grant /\ y.client = c
        /\ y.probe = breaker[c].open
    <2>1. "session" \in Early \cup Past
      BY DEF Past
    <2>2. ASSUME NEW probe \in BOOLEAN
          PROVE  LET z == [req[r] EXCEPT !.pc = "session", !.probe = probe]
                 IN  /\ Kin(req[r], z) /\ z.pc = "session" /\ z.grant = req[r].grant
                     /\ z.client = c /\ z.probe = probe
      BY <1>2, <2>1 DEF Reader, Kin
    <2> QED BY <1>3, <2>2
  <1>5. \/ /\ Allowed(breaker[c]) /\ breaker' = [breaker EXCEPT ![c] = enter(@)] /\ Goto(r, y)
        \/ Goto(r, Idle) /\ breaker' = breaker
    BY DEF ReadMCP, Finish
  <1> HIDE DEF y
  <1>6. Onward(req[r], y) /\ Onward(req[r], Idle)
    BY <1>4 DEF Onward, Past
  <1> QED BY <1>1, <1>2, <1>4, <1>5, <1>6

(* initialise, listTools, callTool: the call goes on, or is over and tells the breaker. *)
LEMMA CallMoves ==
    ASSUME Typed, Breakers, NEW r \in Requests, initialise(r) \/ listTools(r) \/ callTool(r)
    PROVE  /\ req[r] \in Reader /\ req[r].pc \in InCall /\ req[r].client \in DOMAIN breaker
           /\ UNCHANGED <<account, flight>>
           /\ \E y : /\ Goto(r, y) /\ Onward(req[r], y)
                     /\ \/ y.pc \in InCall /\ y.probe = req[r].probe /\ breaker' = breaker
                        \/ y.pc \in {"idle", "answered"} /\ \E reply \in Reply : Leave(r, reply)
  <1>1. req[r].pc \in InCall /\ UNCHANGED <<account, flight>>
    BY DEF initialise, listTools, callTool, At, InCall
  <1>2. req[r] \in Reader /\ req[r].client \in DOMAIN breaker
    BY <1>1, IsReader DEF Breakers, Early, Past, InCall
  <1> DEFINE To(pc) == [req[r] EXCEPT !.pc = pc]
  <1>3. ASSUME NEW pc \in {"list", "tool", "answered"}
        PROVE  /\ Onward(req[r], To(pc)) /\ To(pc).pc = pc /\ To(pc).probe = req[r].probe
    BY <1>2, StepKin DEF Onward, Early, Past
  <1>4. Onward(req[r], Idle) /\ Idle.pc = "idle"
    BY DEF Onward, Idle
  <1>5. \/ \E pc \in {"list", "tool"} : Goto(r, To(pc)) /\ breaker' = breaker
        \/ \E reply \in Reply : Leave(r, reply) /\ (Goto(r, Idle) \/ Goto(r, To("answered")))
    BY DEF initialise, listTools, callTool, Ended, Step, Finish, Reply, toolReply
  <1> HIDE DEF To
  <1>6. CASE \E pc \in {"list", "tool"} : Goto(r, To(pc)) /\ breaker' = breaker
    <2>1. PICK pc \in {"list", "tool"} : Goto(r, To(pc)) /\ breaker' = breaker
      BY <1>6
    <2>2. To(pc).pc \in InCall
      BY <1>3 DEF InCall
    <2> QED BY <1>1, <1>2, <1>3, <2>1, <2>2
  <1>7. CASE \E reply \in Reply : Leave(r, reply) /\ (Goto(r, Idle) \/ Goto(r, To("answered")))
    BY <1>1, <1>2, <1>3, <1>4, <1>7
  <1> QED BY <1>5, <1>6, <1>7

(* FetchRows and FetchRange. *)
LEMMA FetchMoves ==
    ASSUME Typed, NEW r \in Requests, FetchRows(r) \/ FetchRange(r)
    PROVE  /\ req[r] \in Reader /\ req[r].pc \in {"fetch", "range"}
           /\ UNCHANGED <<account, flight, breaker>>
           /\ \E y : Goto(r, y) /\ Onward(req[r], y) /\ y.pc \in {"idle", "answered"}
  <1>1. req[r].pc \in {"fetch", "range"} /\ UNCHANGED <<account, flight, breaker>>
    BY DEF FetchRows, FetchRange, At, outgoing
  <1>2. req[r] \in Reader
    BY <1>1, IsReader DEF Early, Past
  <1> DEFINE y == [req[r] EXCEPT !.pc = "answered"]
  <1>3. Onward(req[r], y) /\ y.pc = "answered"
    BY <1>2, StepKin DEF Onward, Early, Past
  <1>4. Onward(req[r], Idle) /\ Idle.pc = "idle"
    BY DEF Onward, Idle
  <1>5. Goto(r, y) \/ Goto(r, Idle)
    BY DEF FetchRows, FetchRange, Step, Finish
  <1> HIDE DEF y
  <1> QED BY <1>1, <1>2, <1>3, <1>4, <1>5

(* Token: the token is fresh, somebody is already asking for one, or this request is to. *)
LEMMA TokenMoves ==
    ASSUME Typed, NEW r \in Requests, Token(r)
    PROVE  /\ req[r] \in Reader /\ req[r].pc = "token" /\ breaker' = breaker
           /\ \E y : /\ Goto(r, y) /\ Onward(req[r], y)
                     /\ \/ y.pc = "range" /\ UNCHANGED <<account, flight>>
                        \/ /\ y.pc = "wait" /\ y.flight \in 1..MaxFlights
                           /\ UNCHANGED <<account, flight>>
                        \/ /\ y.pc = "lead" /\ y.flight \in 1..MaxFlights
                           /\ account' = [account EXCEPT !.flight = y.flight]
                           /\ flight' = [flight EXCEPT ![y.flight] = "running"]
  <1>1. req[r].pc = "token" /\ breaker' = breaker
    BY DEF Token, At
  <1>2. req[r] \in Reader
    BY <1>1, IsReader DEF Early, Past
  <1>3. account.flight \in 0..MaxFlights
    BY DEF Typed, Memory
  <1> DEFINE y == [req[r] EXCEPT !.pc = "range"]
             z(pc, f) == [req[r] EXCEPT !.pc = pc, !.flight = f]
  <1>4. Onward(req[r], y) /\ y.pc = "range"
    BY <1>2, StepKin DEF Onward, Early, Past
  <1>5. ASSUME NEW pc \in {"wait", "lead"}, NEW f \in 1..MaxFlights
        PROVE  Onward(req[r], z(pc, f)) /\ z(pc, f).pc = pc /\ z(pc, f).flight = f
    <2>1. pc \in Past /\ f \in 0..MaxFlights
      BY DEF Past
    <2> QED BY <1>2, <2>1 DEF Onward, Kin, Reader
  <1>6. \/ Goto(r, y) /\ UNCHANGED <<account, flight>>
        \/ /\ account.flight # 0 /\ Goto(r, z("wait", account.flight))
           /\ UNCHANGED <<account, flight>>
        \/ \E f \in 1..MaxFlights : /\ Goto(r, z("lead", f))
                                    /\ account' = [account EXCEPT !.flight = f]
                                    /\ flight' = [flight EXCEPT ![f] = "running"]
    BY DEF Token, Step
  <1> HIDE DEF y, z
  <1>7. CASE Goto(r, y) /\ UNCHANGED <<account, flight>>
    BY <1>1, <1>2, <1>4, <1>7
  <1>8. CASE account.flight # 0 /\ Goto(r, z("wait", account.flight)) /\ UNCHANGED <<account, flight>>
    <2>1. PICK f \in 1..MaxFlights : f = account.flight
      BY <1>3, <1>8
    <2> QED BY <1>1, <1>2, <1>5, <1>8, <2>1
  <1>9. ASSUME NEW f \in 1..MaxFlights, Goto(r, z("lead", f)),
               account' = [account EXCEPT !.flight = f],
               flight' = [flight EXCEPT ![f] = "running"]
        PROVE  \E w : /\ Goto(r, w) /\ Onward(req[r], w)
                      /\ w.pc = "lead" /\ w.flight \in 1..MaxFlights
                      /\ account' = [account EXCEPT !.flight = w.flight]
                      /\ flight' = [flight EXCEPT ![w.flight] = "running"]
    <2>1. PICK w : w = z("lead", f)
      OBVIOUS
    <2>2. w.flight = f /\ w.pc = "lead" /\ Onward(req[r], w)
      BY <1>5, <2>1
    <2> QED BY <1>9, <2>1, <2>2
  <1> QED BY <1>1, <1>2, <1>6, <1>7, <1>8, <1>9

(* exchange and lead: the leader asks, and is answered one way or another. *)
LEMMA LeadMoves ==
    ASSUME Typed, NEW r \in Requests, exchange(r) \/ lead(r)
    PROVE  /\ req[r] \in Reader /\ req[r].pc \in {"lead", "asking"}
           /\ UNCHANGED <<breaker, account, flight>>
           /\ \E y : /\ Goto(r, y) /\ Onward(req[r], y) /\ y.flight = req[r].flight
                     /\ \/ y.pc = "asking"
                        \/ y.pc = "settle" /\ y.came # "none"
  <1>1. req[r].pc \in {"lead", "asking"} /\ UNCHANGED <<breaker, account, flight>>
    BY DEF exchange, lead, At, outgoing
  <1>2. req[r] \in Reader
    BY <1>1, IsReader DEF Early, Past
  <1>3. CASE exchange(r)
    <2> DEFINE y == [req[r] EXCEPT !.pc = "asking", !.at = clock]
    <2>1. Goto(r, y)
      BY <1>3 DEF exchange
    <2>2. clock \in Nat
      BY DEF Typed, Memory
    <2>3. Onward(req[r], y) /\ y.flight = req[r].flight /\ y.pc = "asking"
      BY <1>2, <2>2 DEF Onward, Kin, Reader, Past
    <2> HIDE DEF y
    <2> QED BY <1>1, <1>2, <2>1, <2>3
  <1>4. CASE lead(r)
    <2> DEFINE y(came) == [req[r] EXCEPT !.pc = "settle", !.came = came]
    <2>1. PICK came \in {"ok", "failed", "abandoned", "panicked"} : Goto(r, y(came))
      BY <1>4 DEF lead
    <2>2. /\ Onward(req[r], y(came)) /\ y(came).flight = req[r].flight /\ y(came).pc = "settle"
          /\ y(came).came = came
      BY <1>2 DEF Onward, Kin, Reader, Past, Came
    <2> HIDE DEF y
    <2> QED BY <1>1, <1>2, <2>1, <2>2
  <1> QED BY <1>3, <1>4

(* settle. *)
LEMMA SettleMoves ==
    ASSUME Typed, NEW r \in Requests, settle(r)
    PROVE  /\ req[r] \in Reader /\ req[r].pc = "settle" /\ UNCHANGED <<breaker, flight>>
           /\ account' \in [refreshAt: Nat, flight: 0..MaxFlights] /\ account'.flight = 0
           /\ \E y : /\ Goto(r, y) /\ Onward(req[r], y) /\ y.pc = "close"
                     /\ y.flight = req[r].flight /\ y.came = req[r].came
  <1>1. req[r].pc = "settle" /\ UNCHANGED <<breaker, flight>>
    BY DEF settle, At
  <1>2. req[r] \in Reader
    BY <1>1, IsReader DEF Early, Past
  <1>3. account' \in [refreshAt: Nat, flight: 0..MaxFlights] /\ account'.flight = 0
    <2>1. req[r].at \in Nat /\ account.refreshAt \in Nat /\ TokenLife \in Nat /\ MaxFlights \in Nat
      BY <1>2, ReadsAssumption DEF Reader, Typed, Memory
    <2> QED BY <2>1 DEF settle
  <1> DEFINE y == [req[r] EXCEPT !.pc = "close"]
  <1>4. /\ Onward(req[r], y) /\ y.pc = "close" /\ y.flight = req[r].flight /\ y.came = req[r].came
    BY <1>2, StepKin DEF Onward, Early, Past
  <1>5. Goto(r, y)
    BY DEF settle, Step
  <1> HIDE DEF y
  <1> QED BY <1>1, <1>2, <1>3, <1>4, <1>5

(* Close: the flight says what it came to, and is not running any more. *)
LEMMA CloseMoves ==
    ASSUME Typed, Flights, NEW r \in Requests, Close(r)
    PROVE  /\ req[r] \in Reader /\ req[r].pc = "close" /\ UNCHANGED <<breaker, account>>
           /\ \E came \in Came : flight' = [flight EXCEPT ![req[r].flight] = came]
           /\ \E y : Goto(r, y) /\ Onward(req[r], y) /\ y.pc \in {"idle", "range"}
  <1>1. req[r].pc = "close" /\ UNCHANGED <<breaker, account>>
    BY DEF Close, At
  <1>2. req[r] \in Reader
    BY <1>1, IsReader DEF Early, Past
  <1>3. \E came \in Came : flight' = [flight EXCEPT ![req[r].flight] = came]
    <2>1. req[r].came \in Came /\ "failed" \in Came
      BY <1>2 DEF Reader, Came
    <2> QED BY <2>1 DEF Close
  <1> DEFINE y == [req[r] EXCEPT !.pc = "range"]
  <1>4. Onward(req[r], y) /\ y.pc = "range"
    BY <1>2, StepKin DEF Onward, Early, Past
  <1>5. Onward(req[r], Idle) /\ Idle.pc = "idle"
    BY DEF Onward, Idle
  <1>6. Goto(r, y) \/ Goto(r, Idle)
    BY DEF Close, Step, Finish
  <1> HIDE DEF y
  <1> QED BY <1>1, <1>2, <1>3, <1>4, <1>5, <1>6

(* Wake. *)
LEMMA WakeMoves ==
    ASSUME Typed, NEW r \in Requests, Wake(r)
    PROVE  /\ req[r] \in Reader /\ req[r].pc = "wait" /\ UNCHANGED <<breaker, account, flight>>
           /\ \E y : Goto(r, y) /\ Onward(req[r], y) /\ y.pc \in {"idle", "range", "token"}
  <1>1. req[r].pc = "wait" /\ UNCHANGED <<breaker, account, flight>>
    BY DEF Wake, At, outgoing
  <1>2. req[r] \in Reader
    BY <1>1, IsReader DEF Early, Past
  <1> DEFINE y(pc) == [req[r] EXCEPT !.pc = pc]
  <1>3. ASSUME NEW pc \in {"range", "token"}
        PROVE  Onward(req[r], y(pc)) /\ y(pc).pc = pc
    BY <1>2, StepKin DEF Onward, Early, Past
  <1>4. Onward(req[r], Idle) /\ Idle.pc = "idle"
    BY DEF Onward, Idle
  <1>5. Goto(r, y("range")) \/ Goto(r, y("token")) \/ Goto(r, Idle)
    BY DEF Wake, Step, Finish
  <1> HIDE DEF y
  <1> QED BY <1>1, <1>2, <1>3, <1>4, <1>5

--------------------------------------------------------------------------------
(* The breaker's own steps. *)
LEMMA EnterHolds ==
    ASSUME NEW b \in Breaker, NEW P, BreakerOK(b, P), Allowed(b), NEW r
    PROVE  /\ enter(b) \in Breaker
           /\ b.open => BreakerOK(enter(b), {r}) /\ P = {}
           /\ ~b.open => BreakerOK(enter(b), {}) /\ P = {}
  <1>1. /\ enter(b) \in Breaker /\ enter(b).probing = b.open /\ enter(b).open = b.open
        /\ enter(b).failures = b.failures
    BY DEF enter, Breaker
  <1>2. P = {}
    BY DEF Allowed, BreakerOK
  <1>3. b.open \in BOOLEAN /\ b.probing \in BOOLEAN
    BY DEF Breaker
  <1> HIDE DEF enter
  <1> QED BY <1>1, <1>2, <1>3 DEF BreakerOK

(* A probe ends: its mark is gone with it, and the count agrees with the state. *)
LEMMA ProbedHolds ==
    ASSUME clock \in Nat, NEW b \in Breaker, NEW P, BreakerOK(b, P), P # {}, NEW result
    PROVE  probed(b, result) \in Breaker /\ BreakerOK(probed(b, result), {})
  <1>1. b.open = TRUE /\ b.failures >= Threshold /\ b.failures \in Nat
    BY DEF BreakerOK, Breaker
  <1>2. Threshold \in Nat /\ Threshold # 0
    BY ReadsAssumption
  <1>3. CASE result = "succeeded"
    <2>1. /\ probed(b, result) \in Breaker /\ probed(b, result).probing = FALSE
          /\ probed(b, result).open = FALSE /\ probed(b, result).failures = 0
      BY <1>3 DEF probed, Breaker
    <2>2. ~(0 >= Threshold)
      BY <1>2
    <2> HIDE DEF probed
    <2> QED BY <2>1, <2>2 DEF BreakerOK
  <1>4. CASE result = "failed"
    <2>1. /\ probed(b, result) \in Breaker /\ probed(b, result).probing = FALSE
          /\ probed(b, result).open = b.open /\ probed(b, result).failures = b.failures
      BY <1>4 DEF probed, Breaker
    <2> QED BY <1>1, <2>1 DEF BreakerOK
  <1>5. CASE result \notin {"succeeded", "failed"}
    <2>1. /\ probed(b, result) \in Breaker /\ probed(b, result).probing = FALSE
          /\ probed(b, result).open = b.open /\ probed(b, result).failures = b.failures
      BY <1>5 DEF probed, Breaker
    <2> QED BY <1>1, <2>1 DEF BreakerOK
  <1> QED BY <1>3, <1>4, <1>5

(* An ordinary call ends, the breaker closed: it opens when the count says so. *)
LEMMA CountedHolds ==
    ASSUME clock \in Nat, NEW b \in Breaker, NEW P, BreakerOK(b, P), ~b.open, NEW result
    PROVE  counted(b, result) \in Breaker /\ BreakerOK(counted(b, result), P)
  <1>1. b.open = FALSE /\ b.probing = FALSE /\ P = {} /\ ~(b.failures >= Threshold)
        /\ b.failures \in Nat
    BY DEF BreakerOK, Breaker
  <1>2. Threshold \in Nat /\ Threshold # 0
    BY ReadsAssumption
  <1>3. CASE result = "succeeded"
    <2>1. /\ counted(b, result) \in Breaker /\ counted(b, result).probing = FALSE
          /\ counted(b, result).open = FALSE /\ counted(b, result).failures = 0
      BY <1>1, <1>3 DEF counted, Breaker
    <2>2. ~(0 >= Threshold)
      BY <1>2
    <2> QED BY <1>1, <2>1, <2>2 DEF BreakerOK
  <1>4. CASE result = "failed" /\ b.failures + 1 < Threshold
    <2>1. ~(b.failures + 1 >= Threshold)
      BY <1>1, <1>2, <1>4
    <2>2. /\ counted(b, result) \in Breaker /\ counted(b, result).probing = FALSE
          /\ counted(b, result).open = FALSE /\ counted(b, result).failures = b.failures + 1
      <3>1. counted(b, result) = [b EXCEPT !.failures = @ + 1]
        BY <1>4, <2>1 DEF counted
      <3>2. b.failures + 1 \in Nat
        BY <1>1
      <3> QED BY <1>1, <3>1, <3>2 DEF Breaker
    <2> QED BY <1>1, <2>1, <2>2 DEF BreakerOK
  <1>5. CASE result = "failed" /\ ~(b.failures + 1 < Threshold)
    <2>1. b.failures + 1 >= Threshold
      BY <1>1, <1>2, <1>5
    <2>2. /\ counted(b, result) \in Breaker /\ counted(b, result).probing = FALSE
          /\ counted(b, result).open = TRUE /\ counted(b, result).failures = b.failures + 1
      <3>1. counted(b, result) = [b EXCEPT !.failures = @ + 1, !.open = TRUE, !.openedAt = clock]
        BY <1>5, <2>1 DEF counted
      <3>2. b.failures + 1 \in Nat
        BY <1>1
      <3> QED BY <1>1, <3>1, <3>2 DEF Breaker
    <2> QED BY <1>1, <2>1, <2>2 DEF BreakerOK
  <1>6. CASE result \notin {"succeeded", "failed"}
    BY <1>6 DEF counted
  <1> QED BY <1>3, <1>4, <1>5, <1>6

(* What a call tells the breaker when it is over. *)
LEMMA DoneHolds ==
    ASSUME clock \in Nat, NEW b \in Breaker, NEW P, BreakerOK(b, P), NEW r,
           NEW probe \in BOOLEAN, probe <=> r \in P, NEW result
    PROVE  done(b, probe, result) \in Breaker /\ BreakerOK(done(b, probe, result), P \ {r})
  <1>1. CASE probe
    <2>1. P # {} /\ P \ {r} = {}
      <3>1. r \in P
        BY <1>1
      <3>2. b.probing
        BY <3>1 DEF BreakerOK
      <3>3. \E s \in P : P = {s}
        BY <3>2 DEF BreakerOK
      <3> QED BY <3>1, <3>3
    <2>2. done(b, probe, result) = probed(b, result)
      BY <1>1 DEF done
    <2> QED BY <2>1, <2>2, ProbedHolds
  <1>2. CASE ~probe
    <2>1. P \ {r} = P
      BY <1>2
    <2>2. CASE b.open
      BY <1>2, <2>1, <2>2 DEF done
    <2>3. CASE ~b.open
      <3>1. done(b, probe, result) = counted(b, result)
        BY <1>2, <2>3 DEF done
      <3> QED BY <2>1, <2>3, <3>1, CountedHolds
    <2> QED BY <2>2, <2>3
  <1> QED BY <1>1, <1>2

(* Who is probing after one request has moved. *)
LEMMA ProbesMoved ==
    ASSUME Typed, NEW r \in Requests, NEW y, Goto(r, y), NEW c
    PROVE  /\ y.pc \in InCall /\ y.client = c /\ y.probe => Probes(req', c) = Probes(req, c) \cup {r}
           /\ ~(y.pc \in InCall /\ y.client = c /\ y.probe) => Probes(req', c) = Probes(req, c) \ {r}
  <1>1. req'[r] = y /\ \A q \in Requests \ {r} : req'[q] = req[q]
    BY Moves
  <1> QED BY <1>1 DEF Probes

(* A step that no call takes part in. *)
LEMMA BreakersQuiet ==
    ASSUME Typed, Breakers, NEW r \in Requests, NEW y, Goto(r, y), breaker' = breaker,
           req[r].pc \notin InCall, y.pc \notin InCall,
           y.pc \in Past => y.client \in DOMAIN breaker
    PROVE  Breakers'
  <1>1. req'[r] = y /\ \A q \in Requests \ {r} : req'[q] = req[q]
    BY Moves
  <1>2. \A c : Probes(req', c) = Probes(req, c)
    BY <1>1 DEF Probes
  <1>3. \A q \in Requests : req'[q].pc \in Past => req'[q].client \in DOMAIN breaker'
    BY <1>1 DEF Breakers
  <1>4. \A c \in DOMAIN breaker' : BreakerOK(breaker'[c], Probes(req', c))
    BY <1>2 DEF Breakers
  <1> QED BY <1>3, <1>4 DEF Breakers

(* The breaker of one client changes and agrees with whoever probes through it. *)
LEMMA BreakersMoved ==
    ASSUME Typed, Breakers, NEW r \in Requests, NEW y, Goto(r, y),
           NEW c \in DOMAIN breaker, NEW b, breaker' = [breaker EXCEPT ![c] = b],
           req[r].pc \in InCall => req[r].client = c,
           y.pc \in InCall => y.client = c,
           y.pc \in Past => y.client \in DOMAIN breaker,
           BreakerOK(b, Probes(req', c))
    PROVE  Breakers'
  <1>1. req'[r] = y /\ \A q \in Requests \ {r} : req'[q] = req[q]
    BY Moves
  <1>2. DOMAIN breaker' = DOMAIN breaker /\ breaker'[c] = b
        /\ \A d \in DOMAIN breaker \ {c} : breaker'[d] = breaker[d]
    OBVIOUS
  <1>3. \A d : d # c => Probes(req', d) = Probes(req, d)
    BY <1>1 DEF Probes
  <1>4. \A q \in Requests : req'[q].pc \in Past => req'[q].client \in DOMAIN breaker'
    BY <1>1, <1>2 DEF Breakers
  <1>5. \A d \in DOMAIN breaker' : BreakerOK(breaker'[d], Probes(req', d))
    BY <1>2, <1>3 DEF Breakers
  <1> QED BY <1>4, <1>5 DEF Breakers

(* The breakers, whichever step a call that has passed the guard takes. *)
LEMMA OutBreakers ==
    ASSUME Typed, Breakers, Flights, NEW r \in Requests, Out(r)
    PROVE  Breakers' /\ Clients(client', breaker')
  <1> DEFINE x == req[r]
             c == x.client
  <1>0. client' = client /\ clock \in Nat
    <2>1. clock \in Nat
      BY DEF Typed, Memory
    <2>2. CASE ReadMCP(r) \/ initialise(r) \/ listTools(r) \/ callTool(r)
      BY <2>1, <2>2 DEF ReadMCP, initialise, listTools, callTool
    <2>3. CASE FetchRows(r) \/ FetchRange(r) \/ Token(r) \/ exchange(r) \/ lead(r) \/ settle(r)
                 \/ Close(r) \/ Wake(r)
      BY <2>1, <2>3 DEF FetchRows, FetchRange, Token, exchange, lead, settle, Close, Wake, outgoing
    <2> QED BY <2>2, <2>3 DEF Out
  <1>1. ASSUME NEW b \in Breaker, c \in DOMAIN breaker, breaker' = [breaker EXCEPT ![c] = b]
        PROVE  Clients(client', breaker')
    BY <1>0, <1>1 DEF Typed, Memory, Clients
  <1>2. ASSUME breaker' = breaker
        PROVE  Clients(client', breaker')
    BY <1>0, <1>2 DEF Typed, Memory
  <1>3. CASE ReadMCP(r)
    <2>1. x.pc = "mcp" /\ x.pc \notin InCall /\ c \in DOMAIN breaker
      BY <1>3, ReadMCPMoves DEF InCall
    <2>2. PICK y : /\ Goto(r, y) /\ Onward(x, y)
                   /\ \/ y = Idle /\ breaker' = breaker
                      \/ /\ y.pc = "session" /\ y.probe = breaker[c].open
                         /\ Allowed(breaker[c])
                         /\ breaker' = [breaker EXCEPT ![c] = enter(@)]
      BY <1>3, ReadMCPMoves
    <2>3. CASE y = Idle /\ breaker' = breaker
      <3>1. y.pc = "idle" /\ y.pc \notin InCall /\ y.pc \notin Past
        BY <2>3 DEF Idle, InCall, Past
      <3> QED BY <1>2, <2>1, <2>2, <2>3, <3>1, BreakersQuiet
    <2>4. CASE /\ y.pc = "session" /\ y.probe = breaker[c].open /\ Allowed(breaker[c])
               /\ breaker' = [breaker EXCEPT ![c] = enter(@)]
      <3> DEFINE b == breaker[c]
                 P == Probes(req, c)
      <3>1. y.client = c /\ y.pc \in InCall
        BY <2>2, <2>4 DEF Onward, Idle, InCall
      <3>2. b \in Breaker /\ BreakerOK(b, P)
        BY <2>1, ClientsType DEF Breakers
      <3>3. /\ enter(b) \in Breaker
            /\ b.open => BreakerOK(enter(b), {r}) /\ P = {}
            /\ ~b.open => BreakerOK(enter(b), {}) /\ P = {}
        BY <2>4, <3>2, EnterHolds
      <3>4. /\ b.open => Probes(req', c) = P \cup {r}
            /\ ~b.open => Probes(req', c) = P \ {r}
        BY <2>2, <2>4, <3>1, ProbesMoved
      <3>5. BreakerOK(enter(b), Probes(req', c))
        BY <3>3, <3>4
      <3>6. breaker' = [breaker EXCEPT ![c] = enter(b)]
        BY <2>4
      <3>7. Clients(client', breaker')
        BY <1>1, <2>1, <3>3, <3>6
      <3> HIDE DEF b, P, c, x
      <3>8. Breakers'
        BY <2>1, <2>2, <3>1, <3>5, <3>6, BreakersMoved DEF c, x
      <3> QED BY <3>7, <3>8
    <2> QED BY <2>2, <2>3, <2>4
  <1>4. CASE initialise(r) \/ listTools(r) \/ callTool(r)
    <2>1. x \in Reader /\ x.pc \in InCall /\ c \in DOMAIN breaker
      BY <1>4, CallMoves
    <2>2. PICK y : /\ Goto(r, y) /\ Onward(x, y)
                   /\ \/ y.pc \in InCall /\ y.probe = x.probe /\ breaker' = breaker
                      \/ y.pc \in {"idle", "answered"} /\ \E reply \in Reply : Leave(r, reply)
      BY <1>4, CallMoves
    <2> DEFINE b == breaker[c]
               P == Probes(req, c)
    <2>3. b \in Breaker /\ BreakerOK(b, P) /\ x.probe \in BOOLEAN
      BY <2>1, ClientsType DEF Breakers, Reader
    <2>4. x.probe <=> r \in P
      BY <2>1 DEF Probes
    <2>5. CASE y.pc \in InCall /\ y.probe = x.probe /\ breaker' = breaker
      <3>1. y.client = c
        BY <2>2, <2>5 DEF Onward, Idle, InCall
      <3>2. Probes(req', c) = P
        <4>1. /\ x.probe => Probes(req', c) = P \cup {r}
              /\ ~x.probe => Probes(req', c) = P \ {r}
          BY <2>2, <2>5, <3>1, ProbesMoved
        <4> QED BY <2>4, <4>1
      <3>3. breaker' = [breaker EXCEPT ![c] = b]
        BY <2>1, <2>5 DEF Typed, Memory, Clients
      <3>4. Clients(client', breaker')
        BY <1>2, <2>5
      <3> HIDE DEF b, P, c, x
      <3>5. Breakers'
        BY <2>1, <2>2, <2>3, <3>1, <3>2, <3>3, BreakersMoved DEF c, x
      <3> QED BY <3>4, <3>5
    <2>6. CASE y.pc \in {"idle", "answered"} /\ \E reply \in Reply : Leave(r, reply)
      <3>1. PICK reply \in Reply : Leave(r, reply)
        BY <2>6
      <3> DEFINE d == done(b, x.probe, verdict(reply))
      <3>2. breaker' = [breaker EXCEPT ![c] = d]
        BY <3>1 DEF Leave
      <3>3. d \in Breaker /\ BreakerOK(d, P \ {r})
        BY <1>0, <2>3, <2>4, DoneHolds
      <3>4. y.pc \notin InCall /\ (y.pc \in Past => y.client \in DOMAIN breaker)
        BY <2>1, <2>2, <2>6 DEF Onward, Idle, InCall, Past
      <3>5. Probes(req', c) = P \ {r}
        BY <2>2, <3>4, ProbesMoved
      <3> HIDE DEF d
      <3>6. Clients(client', breaker')
        BY <1>1, <2>1, <3>2, <3>3
      <3> HIDE DEF b, P, c, x
      <3>7. Breakers'
        BY <2>1, <2>2, <3>2, <3>3, <3>4, <3>5, BreakersMoved DEF c, x
      <3> QED BY <3>6, <3>7
    <2> QED BY <2>2, <2>5, <2>6
  <1>5. CASE FetchRows(r) \/ FetchRange(r) \/ Token(r) \/ exchange(r) \/ lead(r) \/ settle(r)
               \/ Close(r) \/ Wake(r)
    <2>1. /\ x \in Reader /\ breaker' = breaker /\ x.pc \in Past /\ x.pc \notin InCall
          /\ \E y : Goto(r, y) /\ Onward(x, y) /\ y.pc \notin InCall
      <3>1. CASE FetchRows(r) \/ FetchRange(r)
        BY <3>1, FetchMoves DEF Past, InCall
      <3>2. CASE Token(r)
        BY <3>2, TokenMoves DEF Past, InCall
      <3>3. CASE exchange(r) \/ lead(r)
        BY <3>3, LeadMoves DEF Past, InCall
      <3>4. CASE settle(r)
        BY <3>4, SettleMoves DEF Past, InCall
      <3>5. CASE Close(r)
        BY <3>5, CloseMoves DEF Past, InCall
      <3>6. CASE Wake(r)
        BY <3>6, WakeMoves DEF Past, InCall
      <3> QED BY <1>5, <3>1, <3>2, <3>3, <3>4, <3>5, <3>6
    <2>2. PICK y : Goto(r, y) /\ Onward(x, y) /\ y.pc \notin InCall
      BY <2>1
    <2>3. c \in DOMAIN breaker
      BY <2>1 DEF Breakers
    <2>4. y.pc \in Past => y.client \in DOMAIN breaker
      BY <2>2, <2>3 DEF Onward, Idle, Past
    <2> QED BY <1>2, <2>1, <2>2, <2>4, BreakersQuiet
  <1> QED BY <1>3, <1>4, <1>5 DEF Out

--------------------------------------------------------------------------------
(* A step that has no part in an exchange. *)
LEMMA FlightsQuiet ==
    ASSUME Typed, Flights, NEW r \in Requests, NEW y, Goto(r, y), UNCHANGED <<account, flight>>,
           req[r].pc \notin Leads, y.pc \notin Leads \cup {"wait"}
    PROVE  Flights'
  <1>1. req'[r] = y /\ \A q \in Requests \ {r} : req'[q] = req[q]
    BY Moves
  <1>2. \A q \in Requests : req'[q].pc \in Leads \cup {"wait"} => req'[q] = req[q]
    BY <1>1
  <1>3. \A q \in Requests : req[q].pc \in Leads => req'[q] = req[q]
    BY <1>1
  <1>4. \A q \in Requests : req'[q].pc \in Leads \cup {"wait"} => req'[q].flight \in 1..MaxFlights
    BY <1>2 DEF Flights
  <1>5. \A q \in Requests : req'[q].pc \in {"settle", "close"} => req'[q].came # "none"
    BY <1>2 DEF Flights, Leads
  <1>6. account.flight # 0 =>
          \E q \in Requests : req'[q].pc \in Leads \ {"close"} /\ req'[q].flight = account.flight
    BY <1>3 DEF Flights
  <1>7. \A f \in 1..MaxFlights : flight[f] = "running" =>
          \E q \in Requests : req'[q].pc \in Leads /\ req'[q].flight = f
    BY <1>3 DEF Flights
  <1> QED BY <1>4, <1>5, <1>6, <1>7 DEF Flights

(* Everybody who waits waits on an exchange somebody is making, whichever step is taken. *)
LEMMA OutFlights ==
    ASSUME Typed, Breakers, Flights, NEW r \in Requests, Out(r)
    PROVE  /\ Flights'
           /\ account' \in [refreshAt: Nat, flight: 0..MaxFlights]
           /\ flight' \in [1..MaxFlights -> Came \cup {"running"}]
  <1> DEFINE x == req[r]
  <1>1. /\ account \in [refreshAt: Nat, flight: 0..MaxFlights]
        /\ flight \in [1..MaxFlights -> Came \cup {"running"}]
    BY DEF Typed, Memory
  <1>2. CASE UNCHANGED <<account, flight>> /\ x.pc \notin Leads
             /\ \E y : Goto(r, y) /\ y.pc \notin Leads \cup {"wait"}
    BY <1>1, <1>2, FlightsQuiet
  <1>3. CASE ReadMCP(r)
    BY <1>2, <1>3, ReadMCPMoves DEF Leads, Idle
  <1>4. CASE initialise(r) \/ listTools(r) \/ callTool(r)
    BY <1>2, <1>4, CallMoves DEF Leads, InCall
  <1>5. CASE FetchRows(r) \/ FetchRange(r)
    BY <1>2, <1>5, FetchMoves DEF Leads
  <1>6. CASE Wake(r)
    BY <1>2, <1>6, WakeMoves DEF Leads
  <1>7. CASE Token(r)
    <2>1. x.pc = "token"
      BY <1>7, TokenMoves
    <2>2. PICK y : /\ Goto(r, y)
                   /\ \/ y.pc = "range" /\ UNCHANGED <<account, flight>>
                      \/ /\ y.pc = "wait" /\ y.flight \in 1..MaxFlights
                         /\ UNCHANGED <<account, flight>>
                      \/ /\ y.pc = "lead" /\ y.flight \in 1..MaxFlights
                         /\ account' = [account EXCEPT !.flight = y.flight]
                         /\ flight' = [flight EXCEPT ![y.flight] = "running"]
      BY <1>7, TokenMoves
    <2>3. req'[r] = y /\ \A q \in Requests \ {r} : req'[q] = req[q]
      BY <2>2, Moves
    <2>4. CASE y.pc = "range" /\ UNCHANGED <<account, flight>>
      BY <1>2, <2>1, <2>2, <2>4 DEF Leads
    <2>5. CASE y.pc = "wait" /\ y.flight \in 1..MaxFlights /\ UNCHANGED <<account, flight>>
      <3>1. \A q \in Requests : req[q].pc \in Leads => req'[q] = req[q]
        BY <2>1, <2>3 DEF Leads
      <3>2. \A q \in Requests : req'[q].pc \in Leads => req'[q] = req[q]
        BY <2>3, <2>5 DEF Leads
      <3>3. /\ \A q \in Requests : req'[q].pc \in Leads \cup {"wait"} =>
                  req'[q].flight \in 1..MaxFlights
            /\ \A q \in Requests : req'[q].pc \in {"settle", "close"} => req'[q].came # "none"
        BY <2>3, <2>5, <3>2 DEF Flights, Leads
      <3>4. /\ account.flight # 0 =>
                 \E q \in Requests : req'[q].pc \in Leads \ {"close"} /\ req'[q].flight = account.flight
            /\ \A f \in 1..MaxFlights : flight[f] = "running" =>
                 \E q \in Requests : req'[q].pc \in Leads /\ req'[q].flight = f
        BY <3>1 DEF Flights
      <3> QED BY <1>1, <2>5, <3>3, <3>4 DEF Flights
    <2>6. CASE /\ y.pc = "lead" /\ y.flight \in 1..MaxFlights
               /\ account' = [account EXCEPT !.flight = y.flight]
               /\ flight' = [flight EXCEPT ![y.flight] = "running"]
      <3>1. \A q \in Requests : req[q].pc \in Leads => req'[q] = req[q]
        BY <2>1, <2>3 DEF Leads
      <3>2. /\ account' \in [refreshAt: Nat, flight: 0..MaxFlights] /\ account'.flight = y.flight
            /\ flight' \in [1..MaxFlights -> Came \cup {"running"}]
            /\ \A f \in 1..MaxFlights : f # y.flight => flight'[f] = flight[f]
        BY <1>1, <2>6
      <3>3. /\ \A q \in Requests : req'[q].pc \in Leads \cup {"wait"} =>
                  req'[q].flight \in 1..MaxFlights
            /\ \A q \in Requests : req'[q].pc \in {"settle", "close"} => req'[q].came # "none"
        BY <2>3, <2>6 DEF Flights, Leads
      <3>4. \E q \in Requests : req'[q].pc \in Leads \ {"close"} /\ req'[q].flight = account'.flight
        BY <2>3, <2>6, <3>2 DEF Leads
      <3>5. \A f \in 1..MaxFlights : flight'[f] = "running" =>
                 \E q \in Requests : req'[q].pc \in Leads /\ req'[q].flight = f
        BY <2>3, <2>6, <3>1, <3>2 DEF Flights, Leads
      <3> QED BY <3>2, <3>3, <3>4, <3>5 DEF Flights
    <2> QED BY <2>2, <2>4, <2>5, <2>6
  <1>8. CASE exchange(r) \/ lead(r)
    <2>1. x.pc \in {"lead", "asking"} /\ UNCHANGED <<account, flight>>
      BY <1>8, LeadMoves
    <2>2. PICK y : /\ Goto(r, y) /\ y.flight = x.flight
                   /\ y.pc = "asking" \/ (y.pc = "settle" /\ y.came # "none")
      BY <1>8, LeadMoves
    <2>3. req'[r] = y /\ \A q \in Requests \ {r} : req'[q] = req[q]
      BY <2>2, Moves
    <2>4. x.flight \in 1..MaxFlights
      BY <2>1 DEF Flights, Leads
    <2>5. /\ \A q \in Requests : req'[q].pc \in Leads \cup {"wait"} => req'[q].flight \in 1..MaxFlights
          /\ \A q \in Requests : req'[q].pc \in {"settle", "close"} => req'[q].came # "none"
      BY <2>2, <2>3, <2>4 DEF Flights
    <2>6. \A q \in Requests : req[q].pc \in Leads \ {"close"} =>
             req'[q].pc \in Leads \ {"close"} /\ req'[q].flight = req[q].flight
      BY <2>2, <2>3 DEF Leads
    <2>7. \A q \in Requests : req[q].pc \in Leads => req'[q].pc \in Leads /\ req'[q].flight = req[q].flight
      BY <2>2, <2>3 DEF Leads
    <2>8. /\ account.flight # 0 =>
               \E q \in Requests : req'[q].pc \in Leads \ {"close"} /\ req'[q].flight = account.flight
          /\ \A f \in 1..MaxFlights : flight[f] = "running" =>
               \E q \in Requests : req'[q].pc \in Leads /\ req'[q].flight = f
      BY <2>6, <2>7 DEF Flights
    <2> QED BY <1>1, <2>1, <2>5, <2>8 DEF Flights
  <1>9. CASE settle(r)
    <2>1. /\ x.pc = "settle" /\ flight' = flight /\ account'.flight = 0
          /\ account' \in [refreshAt: Nat, flight: 0..MaxFlights]
      BY <1>9, SettleMoves
    <2>2. PICK y : Goto(r, y) /\ y.pc = "close" /\ y.flight = x.flight /\ y.came = x.came
      BY <1>9, SettleMoves
    <2>3. req'[r] = y /\ \A q \in Requests \ {r} : req'[q] = req[q]
      BY <2>2, Moves
    <2>4. x.flight \in 1..MaxFlights /\ x.came # "none"
      BY <2>1 DEF Flights, Leads
    <2>5. /\ \A q \in Requests : req'[q].pc \in Leads \cup {"wait"} => req'[q].flight \in 1..MaxFlights
          /\ \A q \in Requests : req'[q].pc \in {"settle", "close"} => req'[q].came # "none"
      BY <2>2, <2>3, <2>4 DEF Flights
    <2>6. \A q \in Requests : req[q].pc \in Leads => req'[q].pc \in Leads /\ req'[q].flight = req[q].flight
      BY <2>2, <2>3 DEF Leads
    <2>7. \A f \in 1..MaxFlights : flight[f] = "running" =>
               \E q \in Requests : req'[q].pc \in Leads /\ req'[q].flight = f
      BY <2>6 DEF Flights
    <2> QED BY <1>1, <2>1, <2>5, <2>7 DEF Flights
  <1>10. CASE Close(r)
    <2>1. x.pc = "close" /\ account' = account
      BY <1>10, CloseMoves
    <2>2. PICK came \in Came : flight' = [flight EXCEPT ![x.flight] = came]
      BY <1>10, CloseMoves
    <2>3. PICK y : Goto(r, y) /\ y.pc \in {"idle", "range"}
      BY <1>10, CloseMoves
    <2>4. req'[r] = y /\ \A q \in Requests \ {r} : req'[q] = req[q]
      BY <2>3, Moves
    <2>5. x.flight \in 1..MaxFlights /\ came # "running"
      BY <2>1 DEF Flights, Leads, Came
    <2>6. /\ flight' \in [1..MaxFlights -> Came \cup {"running"}]
          /\ \A f \in 1..MaxFlights : flight'[f] = "running" => f # x.flight /\ flight[f] = "running"
      BY <1>1, <2>2, <2>5
    <2>7. /\ \A q \in Requests : req'[q].pc \in Leads \cup {"wait"} => req'[q].flight \in 1..MaxFlights
          /\ \A q \in Requests : req'[q].pc \in {"settle", "close"} => req'[q].came # "none"
      BY <2>3, <2>4 DEF Flights, Leads
    <2>8. account.flight # 0 =>
            \E q \in Requests : req'[q].pc \in Leads \ {"close"} /\ req'[q].flight = account.flight
      BY <2>1, <2>4 DEF Flights
    <2>9. \A f \in 1..MaxFlights : flight'[f] = "running" =>
            \E q \in Requests : req'[q].pc \in Leads /\ req'[q].flight = f
      BY <2>4, <2>6 DEF Flights
    <2> QED BY <1>1, <2>1, <2>6, <2>7, <2>8, <2>9 DEF Flights
  <1> QED BY <1>3, <1>4, <1>5, <1>6, <1>7, <1>8, <1>9, <1>10 DEF Out

(* A call past the guard goes on, under the same grant and through the same client. *)
LEMMA OutMoves ==
    ASSUME Typed, Breakers, Flights, NEW r \in Requests, Out(r)
    PROVE  /\ req[r] \in Reader /\ req[r].pc \in Past /\ UNCHANGED <<clock, offers, client>>
           /\ \E y : Goto(r, y) /\ Onward(req[r], y)
  <1>1. CASE ReadMCP(r)
    BY <1>1, ReadMCPMoves DEF Past, ReadMCP
  <1>2. CASE initialise(r) \/ listTools(r) \/ callTool(r)
    BY <1>2, CallMoves DEF Past, InCall, initialise, listTools, callTool
  <1>3. CASE FetchRows(r) \/ FetchRange(r)
    BY <1>3, FetchMoves DEF Past, FetchRows, FetchRange, outgoing
  <1>4. CASE Token(r)
    BY <1>4, TokenMoves DEF Past, Token
  <1>5. CASE exchange(r) \/ lead(r)
    BY <1>5, LeadMoves DEF Past, exchange, lead, outgoing
  <1>6. CASE settle(r)
    BY <1>6, SettleMoves DEF Past, settle
  <1>7. CASE Close(r)
    BY <1>7, CloseMoves DEF Past, Close
  <1>8. CASE Wake(r)
    BY <1>8, WakeMoves DEF Past, Wake, outgoing
  <1> QED BY <1>1, <1>2, <1>3, <1>4, <1>5, <1>6, <1>7, <1>8 DEF Out

--------------------------------------------------------------------------------
(* Everything but the rate, which only two steps touch. *)
Sound == Typed /\ Breakers /\ Flights /\ Seals /\ Granted

(* The tables and what is in memory, typed after one request has moved. *)
LEMMA TypedMoves ==
    ASSUME Typed, NEW r \in Requests, NEW y, Goto(r, y), Shape(y), Memory', Stored'
    PROVE  Typed'
  <1>1. DOMAIN req' = Requests /\ req'[r] = y /\ \A q \in Requests \ {r} : req'[q] = req[q]
    BY Moves
  <1>2. \A q \in Requests : Shape(req'[q])
    BY <1>1 DEF Typed
  <1> QED BY <1>1, <1>2 DEF Typed

(* A reading request that goes on with what it has is as good as it was. *)
LEMMA KinSeal ==
    ASSUME NEW x, NEW y, NEW R, NEW K, NEW n, ReaderSeal(x, R, K, n), OnRead(x), x.pc # "row",
           Kin(x, y), y.client = x.client
    PROVE  ReaderSeal(y, R, K, n)
  BY DEF ReaderSeal, ReadSeal, GoesTo, Pair, Kin

(* The seals, where the rows, the clients and the seals made so far stay as they are. *)
LEMMA SealsKept ==
    ASSUME Typed, Seals, NEW r \in Requests, NEW y, Goto(r, y),
           UNCHANGED <<row, client, revs>>, CacheSeal(cached', client),
           ReaderSeal(y, row, client, revs),
           SetsUp(y) => SetsUp(req[r]) /\ y.rev = req[r].rev /\ y.id = req[r].id,
           OnRead(y) => \/ OnRead(req[r]) /\ y.row = req[r].row /\ y.id = req[r].id
                        \/ y.id \in Ids /\ y.row = row[y.id]
    PROVE  Seals'
  <1>1. req'[r] = y /\ \A q \in Requests \ {r} : req'[q] = req[q]
    BY Moves
  <1>2. \A q \in Requests : ReaderSeal(req'[q], row, client, revs)
    BY <1>1 DEF Seals
  <1>3. ASSUME NEW q \in Requests
        PROVE  SetSeal(q, row, client, req', revs)
    <2>1. SetsUp(req'[q]) => SetsUp(req[q]) /\ req'[q].rev = req[q].rev /\ req'[q].id = req[q].id
      BY <1>1
    <2>2. SetSeal(q, row, client, req, revs)
      BY DEF Seals
    <2>3. ASSUME SetsUp(req'[q]), NEW p \in Requests, OnRead(req'[p])
          PROVE  req'[p].row.rev # req[q].rev
      <3>1. CASE p = r
        BY <1>1, <2>1, <2>2, <2>3, <3>1 DEF SetSeal
      <3>2. CASE p # r
        BY <1>1, <2>1, <2>2, <2>3, <3>2 DEF SetSeal
      <3> QED BY <3>1, <3>2
    <2>4. ASSUME SetsUp(req'[q]), NEW p \in Requests \ {q}, SetsUp(req'[p])
          PROVE  req'[p].rev # req[q].rev
      <3>1. SetsUp(req[p]) /\ req'[p].rev = req[p].rev
        BY <1>1, <2>4
      <3> QED BY <2>1, <2>2, <2>4, <3>1 DEF SetSeal
    <2> QED BY <2>1, <2>2, <2>3, <2>4 DEF SetSeal
  <1>4. \A p \in Requests : Twins(y, req'[p]) /\ Twins(req'[p], y)
    <2>1. CASE OnRead(y) /\ OnRead(req[r]) /\ y.row = req[r].row /\ y.id = req[r].id
      BY <1>1, <2>1 DEF Seals, Twins, Alike
    <2>2. CASE OnRead(y) /\ y.id \in Ids /\ y.row = row[y.id]
      BY <1>1, <2>2 DEF Seals, Twins, Alike, ReaderSeal, ReadSeal
    <2>3. CASE ~OnRead(y)
      BY <2>3 DEF Twins
    <2> QED BY <2>1, <2>2, <2>3
  <1>5. \A p, q \in Requests : Twins(req'[p], req'[q])
    BY <1>1, <1>4 DEF Seals
  <1> QED BY <1>2, <1>3, <1>5 DEF Seals

(* The same, where the cache stays as it is too. *)
LEMMA SealsQuiet ==
    ASSUME Typed, Seals, NEW r \in Requests, NEW y, Goto(r, y),
           UNCHANGED <<row, client, cached, revs>>,
           ReaderSeal(y, row, client, revs),
           SetsUp(y) => SetsUp(req[r]) /\ y.rev = req[r].rev /\ y.id = req[r].id,
           OnRead(y) => \/ OnRead(req[r]) /\ y.row = req[r].row /\ y.id = req[r].id
                        \/ y.id \in Ids /\ y.row = row[y.id]
    PROVE  Seals'
  <1>1. CacheSeal(cached', client)
    BY DEF Seals
  <1> QED BY <1>1, SealsKept

(* The grants, where the rows, the grants and the clients stay as they are. *)
LEMMA GrantedQuiet ==
    ASSUME Typed, Granted, NEW r \in Requests, NEW y, Goto(r, y),
           UNCHANGED <<row, client, grants, story>>,
           DropOK(y, grants), RevokeOK(y, grants), CheckOK(y, row, grants), SignOK(y, row, grants, client)
    PROVE  Granted'
  <1>1. req'[r] = y /\ \A q \in Requests \ {r} : req'[q] = req[q]
    BY Moves
  <1>2. \A q \in Requests : /\ DropOK(req'[q], grants) /\ RevokeOK(req'[q], grants)
                            /\ CheckOK(req'[q], row, grants) /\ SignOK(req'[q], row, grants, client)
    BY <1>1 DEF Granted
  <1>3. \A g \in GrantIds : Standing(g, row, grants)'
    BY DEF Granted, Standing
  <1> QED BY <1>2, <1>3 DEF Granted

(* What no step of a request that is not calling out changes. *)
still == <<clock, offers, client, breaker, account, flight, story, row, grants, revs, cached>>

(* A request is put aside: it ends, or turns to something that reads and sets up nothing. *)
LEMMA AsideStep ==
    ASSUME Sound, NEW r \in Requests, NEW y, Goto(r, y), y.pc \in Other \/ y \in [pc: {"forget"}, id: Ids],
           req[r].pc \notin InCall \cup Leads, UNCHANGED <<still, calls, admitted>>
    PROVE  Sound'
  <1>1. /\ y.pc \notin Early /\ y.pc \notin Past /\ y.pc \notin {"revoke", "drop"}
        /\ y.pc \notin InCall /\ y.pc \notin Leads \cup {"wait"} /\ Shape(y)
    BY DEF Other, Early, Past, InCall, Leads, Shape
  <1>2. Typed'
    <2>1. Memory' /\ Stored'
      BY DEF Sound, Typed, Memory, Stored, still
    <2> QED BY <1>1, <2>1, TypedMoves DEF Sound
  <1>3. Breakers'
    BY <1>1, BreakersQuiet DEF Sound, still
  <1>4. Flights'
    BY <1>1, FlightsQuiet DEF Sound, still
  <1>5. ReaderSeal(y, row, client, revs) /\ ~SetsUp(y) /\ ~OnRead(y)
    BY <1>1 DEF ReaderSeal, SetsUp, OnRead
  <1>6. Seals'
    BY <1>5, SealsQuiet DEF Sound, still
  <1>7. DropOK(y, grants) /\ RevokeOK(y, grants) /\ CheckOK(y, row, grants) /\ SignOK(y, row, grants, client)
    BY <1>1, <1>5 DEF DropOK, RevokeOK, CheckOK, SignOK, Early
  <1>8. Granted'
    BY <1>7, GrantedQuiet DEF Sound, still
  <1> QED BY <1>2, <1>3, <1>4, <1>6, <1>8 DEF Sound

(* A request starts reading, or goes on to its next question. *)
LEMMA ReadStep ==
    ASSUME Sound, NEW r \in Requests, NEW y \in Reader, Goto(r, y),
           y.pc \in Early \cup {"mcp", "token", "fetch"}, req[r].pc \notin InCall \cup Leads,
           UNCHANGED still,
           calls' \in [0..MaxTime -> Nat], admitted' \in [0..MaxTime -> Nat],
           ReaderSeal(y, row, client, revs),
           \/ OnRead(req[r]) /\ y.row = req[r].row /\ y.id = req[r].id
           \/ y.id \in Ids /\ y.row = row[y.id],
           CheckOK(y, row, grants), SignOK(y, row, grants, client)
    PROVE  Sound'
  <1>1. /\ y.pc \in Early \cup Past /\ y.pc \notin {"revoke", "drop"}
        /\ y.pc \notin InCall /\ y.pc \notin Leads \cup {"wait"} /\ Shape(y)
    BY DEF Other, Early, Past, InCall, Leads, Shape
  <1>2. Typed'
    <2>1. Memory' /\ Stored'
      BY DEF Sound, Typed, Memory, Stored, still
    <2> QED BY <1>1, <2>1, TypedMoves DEF Sound
  <1>3. Breakers'
    <2>1. y.pc \in Past => y.client \in DOMAIN breaker
      <3>1. y.pc \in Past => y.pc # "row" /\ OnRead(y)
        BY DEF Past, OnRead
      <3>2. DOMAIN client = DOMAIN breaker
        BY ClientsType DEF Sound
      <3> QED BY <3>1, <3>2 DEF ReaderSeal, GoesTo
    <2> QED BY <1>1, <2>1, BreakersQuiet DEF Sound, still
  <1>4. Flights'
    BY <1>1, FlightsQuiet DEF Sound, still
  <1>5. ~SetsUp(y)
    BY <1>1 DEF SetsUp
  <1>6. Seals'
    BY <1>5, SealsQuiet DEF Sound, still
  <1>7. DropOK(y, grants) /\ RevokeOK(y, grants)
    BY <1>1 DEF DropOK, RevokeOK
  <1>8. Granted'
    BY <1>7, GrantedQuiet DEF Sound, still
  <1> QED BY <1>2, <1>3, <1>4, <1>6, <1>8 DEF Sound

(* Calling out changes nothing the signers agreed to. *)
LEMMA OutStep ==
    ASSUME Sound, NEW r \in Requests, Out(r), UNCHANGED <<guarding, story>>
    PROVE  Sound'
  <1> DEFINE x == req[r]
  <1>1. x \in Reader /\ x.pc \in Past /\ UNCHANGED <<clock, offers, client>>
    BY OutMoves DEF Sound
  <1>2. PICK y : Goto(r, y) /\ Onward(x, y)
    BY OutMoves DEF Sound
  <1>3. /\ Breakers' /\ Flights' /\ Clients(client', breaker')
        /\ account' \in [refreshAt: Nat, flight: 0..MaxFlights]
        /\ flight' \in [1..MaxFlights -> Came \cup {"running"}]
    BY OutBreakers, OutFlights DEF Sound
  <1>4. UNCHANGED <<row, grants, calls, admitted, revs, cached, story>>
    BY DEF guarding
  <1>5. y = Idle \/ (y \in Reader /\ y.pc \in Past)
    BY <1>2 DEF Onward, Kin
  <1>6. Typed'
    <2>1. Memory' /\ Stored'
      BY <1>1, <1>3, <1>4 DEF Sound, Typed, Memory, Stored
    <2>2. Shape(y)
      BY <1>5 DEF Shape, Idle, Other
    <2> QED BY <1>2, <2>1, <2>2, TypedMoves DEF Sound
  <1>7. OnRead(x) /\ x.pc # "row" /\ ReaderSeal(x, row, client, revs)
        /\ SignOK(x, row, grants, client) /\ CheckOK(x, row, grants)
    BY <1>1 DEF OnRead, Past, Sound, Seals, Granted
  <1>8. ReaderSeal(y, row, client, revs) /\ ~SetsUp(y)
        /\ (OnRead(y) => y.row = x.row /\ y.id = x.id)
    <2>1. CASE y = Idle
      BY <2>1 DEF Idle, ReaderSeal, OnRead, SetsUp, Early, Past
    <2>2. CASE y # Idle
      <3>1. Kin(x, y) /\ y.client = x.client /\ y.pc \in Past
        BY <1>2, <2>2 DEF Onward
      <3>2. ReaderSeal(y, row, client, revs)
        BY <1>7, <3>1, KinSeal
      <3> QED BY <3>1, <3>2 DEF Kin, SetsUp, Past
    <2> QED BY <2>1, <2>2
  <1>9. Seals'
    BY <1>1, <1>2, <1>4, <1>7, <1>8, SealsQuiet DEF Sound
  <1>10. DropOK(y, grants) /\ RevokeOK(y, grants) /\ CheckOK(y, row, grants) /\ SignOK(y, row, grants, client)
    <2>1. CASE y = Idle
      BY <2>1 DEF Idle, DropOK, RevokeOK, CheckOK, SignOK, OnRead, Early, Past
    <2>2. CASE y # Idle
      <3>1. Kin(x, y) /\ y.client = x.client /\ y.grant = x.grant /\ y.pc \in Past
        BY <1>2, <2>2 DEF Onward
      <3>2. x.use # "check"
        BY <1>1, <1>7 DEF CheckOK, Past
      <3> QED BY <1>1, <1>7, <3>1, <3>2 DEF Kin, DropOK, RevokeOK, CheckOK, SignOK, Past
    <2> QED BY <2>1, <2>2
  <1>11. Granted'
    BY <1>1, <1>2, <1>4, <1>10, GrantedQuiet DEF Sound
  <1> QED BY <1>3, <1>6, <1>9, <1>11 DEF Sound

--------------------------------------------------------------------------------
(* A row is read: what is held of it is what it is. *)
LEMMA ReadingStep ==
    ASSUME Sound, NEW r \in Requests, req[r].pc = "idle", NEW use \in Use, NEW i \in Ids,
           row[i].at = "live", NEW g \in 0..MaxGrants, Goto(r, Reading(use, i, g)),
           use = "check" => g \in GrantIds /\ grants[g].at # "none" /\ grants[g].id = i,
           UNCHANGED <<still, calls, admitted>>
    PROVE  Sound'
  <1> DEFINE y == Reading(use, i, g)
  <1>1. row[i] \in Row /\ MaxClients \in Nat /\ MaxFlights \in Nat
    BY ReadsAssumption DEF Sound, Typed, Stored
  <1>2. /\ y \in Reader /\ y.pc = "row" /\ y.use = use /\ y.id = i /\ y.row = row[i]
        /\ y.grant = g
    BY <1>1 DEF Reading, Reader, Early, Came
  <1> HIDE DEF y
  <1>3. ReaderSeal(y, row, client, revs)
    <2>1. ReadSeal(y, row, revs)
      BY <1>2 DEF ReadSeal, Alike, Sound, Seals, RowSeal
    <2>2. \A c \in DOMAIN client : Pair(client[c], y)
      BY <1>2 DEF Pair, Sound, Seals, ClientSeal
    <2> QED BY <1>2, <2>1, <2>2 DEF ReaderSeal, GoesTo
  <1>4. CheckOK(y, row, grants) /\ SignOK(y, row, grants, client)
    BY <1>2 DEF CheckOK, SignOK, Past
  <1>5. calls' \in [0..MaxTime -> Nat] /\ admitted' \in [0..MaxTime -> Nat]
    BY DEF Sound, Typed, Stored
  <1>6. y.pc \in Early /\ req[r].pc \notin InCall \cup Leads /\ y.id \in Ids /\ y.row = row[y.id]
    BY <1>2 DEF Early, InCall, Leads
  <1> QED BY <1>2, <1>3, <1>4, <1>5, <1>6, ReadStep DEF y

(* ConnectorByName and SubmitGrant. *)
LEMMA LookUpStep ==
    ASSUME Sound, NEW r \in Requests,
           \/ \E use \in Use : ConnectorByName(r, use)
           \/ \E g \in GrantIds : SubmitGrant(r, g),
           UNCHANGED story
    PROVE  Sound'
  <1>1. CASE \E use \in Use : ConnectorByName(r, use)
    <2>1. PICK use \in Use : ConnectorByName(r, use)
      BY <1>1
    <2>2. PICK i \in Live : At(r, "idle") /\ use # "check" /\ Goto(r, Reading(use, i, 0))
      BY <2>1 DEF ConnectorByName
    <2>3. UNCHANGED <<still, calls, admitted>>
      BY <2>1 DEF ConnectorByName, outside, outgoing, guarding, still
    <2>4. 0 \in 0..MaxGrants /\ i \in Ids /\ row[i].at = "live"
      BY <2>2, Numbers DEF Live
    <2> QED BY <2>2, <2>3, <2>4, ReadingStep DEF At
  <1>2. CASE \E g \in GrantIds : SubmitGrant(r, g)
    <2>1. PICK g \in GrantIds : SubmitGrant(r, g)
      BY <1>2
    <2>2. /\ At(r, "idle") /\ grants[g].at = "requested" /\ row[grants[g].id].at = "live"
          /\ Goto(r, Reading("check", grants[g].id, g))
      BY <2>1 DEF SubmitGrant
    <2>3. UNCHANGED <<still, calls, admitted>>
      BY <2>1 DEF SubmitGrant, outside, outgoing, guarding, still
    <2>4. grants[g].id \in Ids /\ g \in 0..MaxGrants /\ "check" \in Use
      BY Numbers DEF Sound, Typed, Stored, Grant, Use
    <2> QED BY <2>2, <2>3, <2>4, ReadingStep DEF At
  <1> QED BY <1>1, <1>2

(* The next question of a request past its row, through the same client. *)
LEMMA QuestionStep ==
    ASSUME Sound, NEW r \in Requests, NEW y, Goto(r, y), req[r].pc \in Early \ {"row"},
           Kin(req[r], y), y.client = req[r].client,
           y.pc \in Early \cup {"mcp", "token", "fetch"}, UNCHANGED still,
           calls' \in [0..MaxTime -> Nat], admitted' \in [0..MaxTime -> Nat],
           CheckOK(y, row, grants), SignOK(y, row, grants, client)
    PROVE  Sound'
  <1>1. OnRead(req[r]) /\ req[r].pc # "row" /\ req[r].pc \notin InCall \cup Leads
    BY DEF OnRead, Early, InCall, Leads
  <1>2. ReaderSeal(y, row, client, revs)
    BY <1>1, KinSeal DEF Sound, Seals
  <1>3. y \in Reader /\ y.row = req[r].row /\ y.id = req[r].id
    BY DEF Kin
  <1> QED BY <1>1, <1>2, <1>3, ReadStep

(* A statement fails, or what is asked is refused. *)
LEMMA RefusedStep ==
    ASSUME Sound, NEW r \in Requests, Finish(r), req[r].pc \notin InCall \cup Leads,
           UNCHANGED <<still, calls, admitted>>
    PROVE  Sound'
  <1>1. Goto(r, Idle) /\ Idle.pc \in Other
    BY DEF Finish, Idle, Other
  <1> QED BY <1>1, AsideStep

(* CheckStatement. *)
LEMMA CheckStep ==
    ASSUME Sound, NEW r \in Requests, CheckStatement(r), UNCHANGED story
    PROVE  Sound'
  <1> DEFINE x == req[r]
             y == [x EXCEPT !.pc = "consume"]
  <1>1. x.pc = "check" /\ UNCHANGED <<still, calls, admitted>>
    BY DEF CheckStatement, At, outside, outgoing, guarding, still
  <1>2. x \in Reader
    BY <1>1, IsReader DEF Sound, Early
  <1>3. \/ Finish(r)
        \/ /\ grantStatement(x.row, x.client, grants[x.grant].rate) = StatementOf(grants[x.grant])
           /\ Goto(r, y)
    BY DEF CheckStatement, Step
  <1>4. CASE Finish(r)
    BY <1>1, <1>4, RefusedStep DEF InCall, Leads
  <1>5. CASE /\ grantStatement(x.row, x.client, grants[x.grant].rate) = StatementOf(grants[x.grant])
             /\ Goto(r, y)
    <2>1. Kin(x, y) /\ y.pc = "consume" /\ y.client = x.client /\ y.grant = x.grant
      BY <1>2, StepKin DEF Early
    <2>2. CheckOK(x, row, grants) /\ ReaderSeal(x, row, client, revs)
      BY DEF Sound, Granted, Seals
    <2>3. Alike(client[x.client], x.row)
      BY <1>1, <2>2 DEF ReaderSeal, GoesTo, OnRead, Early
    <2>4. Alike(grants[x.grant], x.row)
      BY <1>5, <2>3 DEF grantStatement, StatementOf, Descriptor, Alike
    <2> HIDE DEF y
    <2>5. CheckOK(y, row, grants)
      BY <1>1, <2>1, <2>2, <2>4 DEF CheckOK, Kin, OnRead, Early
    <2>6. SignOK(y, row, grants, client)
      BY <2>1 DEF SignOK, Past
    <2>7. calls' \in [0..MaxTime -> Nat] /\ admitted' \in [0..MaxTime -> Nat]
      BY <1>1 DEF Sound, Typed, Stored
    <2>8. x.pc \in Early \ {"row"} /\ y.pc \in Early
      BY <1>1, <2>1 DEF Early
    <2> QED BY <1>1, <1>5, <2>1, <2>5, <2>6, <2>7, <2>8, QuestionStep
  <1> QED BY <1>3, <1>4, <1>5

(* authorise: the grant in force is for what is about to be called, unless the connector   *)
(* has changed since it was read.                                                         *)
LEMMA AuthoriseStep ==
    ASSUME Sound, NEW r \in Requests, authorise(r), UNCHANGED story
    PROVE  Sound'
  <1> DEFINE x == req[r]
             y(g) == [x EXCEPT !.pc = "rate", !.grant = g]
  <1>1. x.pc = "guard" /\ UNCHANGED <<still, calls, admitted>>
    BY DEF authorise, At, outside, outgoing, guarding, still
  <1>2. x \in Reader
    BY <1>1, IsReader DEF Sound, Early
  <1>3. Finish(r) \/ \E g \in GrantInForce : Goto(r, y(g))
    BY DEF authorise
  <1>4. CASE Finish(r)
    BY <1>1, <1>4, RefusedStep DEF InCall, Leads
  <1>5. ASSUME NEW g \in GrantInForce, Goto(r, y(g))
        PROVE  Sound'
    <2>1. g \in GrantIds /\ g \in 0..MaxGrants /\ grants[g].at = "in force"
          /\ row[grants[g].id].at = "live" /\ grants[g].id \in Ids
      BY Numbers DEF GrantInForce, Sound, Typed, Stored, Grant
    <2>2. Kin(x, y(g)) /\ y(g).pc = "rate" /\ y(g).client = x.client /\ y(g).grant = g
      BY <1>2, <2>1 DEF Kin, Reader, Early
    <2>3. CheckOK(x, row, grants) /\ ReaderSeal(x, row, client, revs) /\ x.id \in Ids
      BY <1>2 DEF Sound, Granted, Seals, Reader
    <2>4. Alike(client[x.client], x.row) /\ x.row.at = "live"
      BY <1>1, <2>3 DEF ReaderSeal, GoesTo, ReadSeal, OnRead, Early
    <2>5. Alike(client[x.client], grants[g]) \/ row[x.id] # x.row \/ grants[g].between
      <3> SUFFICES ASSUME row[x.id] = x.row, ~grants[g].between
                   PROVE  Alike(client[x.client], grants[g])
        OBVIOUS
      <3>1. grants[g].id = x.id
        BY <2>1, <2>3, <2>4 DEF Sound, Granted, OneLive
      <3>2. Alike(grants[g], row[grants[g].id])
        BY <2>1 DEF Sound, Granted, Standing
      <3> QED BY <2>4, <3>1, <3>2 DEF Alike
    <2>6. x.use # "check"
      BY <1>1, <2>3 DEF CheckOK, OnRead, Early
    <2> HIDE DEF y
    <2>7. CheckOK(y(g), row, grants)
      BY <2>2, <2>6 DEF CheckOK, Kin
    <2>8. SignOK(y(g), row, grants, client)
      BY <2>1, <2>2, <2>5 DEF SignOK, Kin
    <2>9. calls' \in [0..MaxTime -> Nat] /\ admitted' \in [0..MaxTime -> Nat]
      BY <1>1 DEF Sound, Typed, Stored
    <2>10. x.pc \in Early \ {"row"} /\ y(g).pc \in Early
      BY <1>1, <2>2 DEF Early
    <2> QED BY <1>1, <1>5, <2>2, <2>7, <2>8, <2>9, <2>10, QuestionStep
  <1> QED BY <1>3, <1>4, <1>5

(* AllowConnectorCall: one of the calls the grant allows is taken, or the call refused. *)
LEMMA AllowStep ==
    ASSUME Sound, NEW r \in Requests, AllowConnectorCall(r), UNCHANGED story
    PROVE  Sound'
  <1> DEFINE x == req[r]
             y(pc) == [x EXCEPT !.pc = pc]
             Out3 == {"mcp", "token", "fetch"}
  <1>1. x.pc = "rate" /\ UNCHANGED still
    BY DEF AllowConnectorCall, At, outside, outgoing, still
  <1>2. x \in Reader
    BY <1>1, IsReader DEF Sound, Early
  <1>3. /\ calls \in [0..MaxTime -> Nat] /\ admitted \in [0..MaxTime -> Nat] /\ clock \in 0..MaxTime
    BY DEF Sound, Typed, Stored, Memory
  <1>4. \/ Finish(r) /\ UNCHANGED <<calls, admitted>>
        \/ /\ calls' = [Recent(calls) EXCEPT ![clock] = @ + 1]
           /\ admitted' = [admitted EXCEPT ![clock] = @ + 1]
           /\ \E pc \in Out3 : Goto(r, y(pc))
    BY DEF AllowConnectorCall, Step
  <1>5. CASE Finish(r) /\ UNCHANGED <<calls, admitted>>
    BY <1>1, <1>5, RefusedStep DEF InCall, Leads
  <1>6. ASSUME NEW pc \in Out3, Goto(r, y(pc)),
               calls' = [Recent(calls) EXCEPT ![clock] = @ + 1],
               admitted' = [admitted EXCEPT ![clock] = @ + 1]
        PROVE  Sound'
    <2>1. pc \in Early \cup Past
      BY DEF Past
    <2>2. /\ Kin(x, y(pc)) /\ y(pc).pc = pc /\ y(pc).client = x.client /\ y(pc).grant = x.grant
      BY <1>2, <2>1, StepKin
    <2>3. CheckOK(x, row, grants) /\ SignOK(x, row, grants, client)
      BY DEF Sound, Granted
    <2>4. x.use # "check"
      BY <1>1, <2>3 DEF CheckOK, OnRead, Early
    <2> HIDE DEF y
    <2>5. CheckOK(y(pc), row, grants)
      BY <2>2, <2>4 DEF CheckOK, Kin
    <2>6. SignOK(y(pc), row, grants, client)
      BY <1>1, <2>2, <2>3 DEF SignOK, Kin
    <2>7. calls' \in [0..MaxTime -> Nat] /\ admitted' \in [0..MaxTime -> Nat]
      <3>1. Recent(calls) \in [0..MaxTime -> Nat]
        BY <1>3 DEF Recent
      <3> QED BY <1>3, <1>6, <3>1
    <2>8. x.pc \in Early \ {"row"}
      BY <1>1 DEF Early
    <2> QED BY <1>1, <1>6, <2>2, <2>5, <2>6, <2>7, <2>8, QuestionStep
  <1> QED BY <1>4, <1>5, <1>6

(* Fail. *)
LEMMA FailStep ==
    ASSUME Sound, NEW r \in Requests, Fail(r), UNCHANGED story
    PROVE  Sound'
  <1>1. /\ Finish(r) /\ req[r].pc \notin InCall \cup Leads
        /\ UNCHANGED <<still, calls, admitted>>
    BY DEF Fail, InCall, Leads, outside, outgoing, guarding, still
  <1> QED BY <1>1, RefusedStep

--------------------------------------------------------------------------------
(* Time passes, a server changes its tools, or a step is taken that none of this is about. *)
LEMMA OutsideStep ==
    ASSUME Sound, clock' \in 0..MaxTime, offers' \in [Ends -> Surfaces],
           UNCHANGED <<client, breaker, account, flight, req, story>>,
           UNCHANGED <<row, grants, revs, cached, calls, admitted>>
    PROVE  Sound'
  <1>1. Typed'
    <2>1. Memory' /\ Stored'
      BY DEF Sound, Typed, Memory, Stored
    <2> QED BY <2>1 DEF Sound, Typed
  <1>2. Breakers'
    BY DEF Sound, Breakers
  <1>3. Flights'
    BY DEF Sound, Flights
  <1>4. Seals'
    BY DEF Sound, Seals
  <1>5. Granted'
    <2>1. \A g \in GrantIds : Standing(g, row, grants)'
      BY DEF Sound, Granted, Standing
    <2> QED BY <2>1 DEF Sound, Granted
  <1> QED BY <1>1, <1>2, <1>3, <1>4, <1>5 DEF Sound

(* A set-up has revoked: all there was in force is among what it is to revoke. *)
LEMMA RevokeStep ==
    ASSUME Sound, NEW r \in Requests, RevokeSuperseded(r), UNCHANGED story
    PROVE  Sound'
  <1> DEFINE x == req[r]
             y == [pc |-> "drop", id |-> x.id, end |-> x.end, surface |-> x.surface,
                   rev |-> x.rev, revokes |-> InForce(x.id)]
  <1>1. x.pc = "revoke" /\ Goto(r, y) /\ UNCHANGED <<still, calls, admitted>>
    BY DEF RevokeSuperseded, At, outside, outgoing, guarding, still
  <1>2. x \in [pc: {"revoke"}, id: Ids, end: Ends, rev: Nat, surface: Surfaces \cup Kinds]
    BY <1>1 DEF Sound, Typed, Shape, Setting, Other, Early, Past
  <1>3. y \in Setting /\ y.pc = "drop" /\ y.id = x.id /\ y.rev = x.rev /\ y.revokes = InForce(x.id)
    BY <1>2 DEF Setting, InForce
  <1> HIDE DEF y
  <1>4. /\ y.pc \notin Early /\ y.pc \notin Past /\ y.pc \notin InCall /\ Shape(y)
        /\ y.pc \notin Leads \cup {"wait"} /\ x.pc \notin InCall /\ x.pc \notin Leads
    BY <1>1, <1>3 DEF Early, Past, InCall, Leads, Shape
  <1>5. Typed'
    <2>1. Memory' /\ Stored'
      BY <1>1 DEF Sound, Typed, Memory, Stored, still
    <2> QED BY <1>1, <1>4, <2>1, TypedMoves DEF Sound
  <1>6. Breakers'
    BY <1>1, <1>4, BreakersQuiet DEF Sound, still
  <1>7. Flights'
    BY <1>1, <1>4, FlightsQuiet DEF Sound, still
  <1>8. ~OnRead(y) /\ SetsUp(x)
    BY <1>1, <1>4 DEF OnRead, SetsUp
  <1>9. Seals'
    BY <1>1, <1>3, <1>8, SealsQuiet DEF Sound, still, ReaderSeal
  <1>10. DropOK(y, grants) /\ RevokeOK(y, grants)
    BY <1>3 DEF DropOK, RevokeOK, InForce
  <1>11. CheckOK(y, row, grants) /\ SignOK(y, row, grants, client)
    BY <1>3, <1>8 DEF CheckOK, SignOK, Past
  <1>12. Granted'
    BY <1>1, <1>10, <1>11, GrantedQuiet DEF Sound, still
  <1> QED BY <1>5, <1>6, <1>7, <1>9, <1>12 DEF Sound

(* The cache forgets a connector's client. *)
LEMMA ForgetStep ==
    ASSUME Sound, NEW r \in Requests, forget(r), UNCHANGED story
    PROVE  Sound'
  <1>1. /\ req[r].pc = "forget" /\ Goto(r, Idle) /\ cached' = [cached EXCEPT ![req[r].id] = 0]
        /\ UNCHANGED <<clock, offers, client, breaker, account, flight, story>>
        /\ UNCHANGED <<row, grants, revs, calls, admitted>>
    BY DEF forget, At, Finish, outside, outgoing
  <1>2. /\ Idle.pc \notin Early /\ Idle.pc \notin Past /\ Idle.pc \notin InCall /\ Shape(Idle)
        /\ Idle.pc \notin Leads \cup {"wait"} /\ ~OnRead(Idle) /\ ~SetsUp(Idle)
        /\ req[r].pc \notin InCall /\ req[r].pc \notin Leads
    BY <1>1 DEF Early, Past, InCall, Leads, Shape, Idle, OnRead, SetsUp, Other
  <1>3. cached \in [Ids -> 0..MaxClients] /\ CacheSeal(cached, client) /\ 0 \in 0..MaxClients
    BY Numbers DEF Sound, Typed, Stored, Seals
  <1>4. cached' \in [Ids -> 0..MaxClients] /\ CacheSeal(cached', client)
    BY <1>1, <1>3 DEF CacheSeal
  <1>5. Typed'
    <2>1. Memory' /\ Stored'
      BY <1>1, <1>4 DEF Sound, Typed, Memory, Stored
    <2> QED BY <1>1, <1>2, <2>1, TypedMoves DEF Sound
  <1>6. Breakers'
    BY <1>1, <1>2, BreakersQuiet DEF Sound
  <1>7. Flights'
    BY <1>1, <1>2, FlightsQuiet DEF Sound
  <1>8. Seals'
    BY <1>1, <1>2, <1>4, SealsKept DEF Sound, ReaderSeal
  <1>9. DropOK(Idle, grants) /\ RevokeOK(Idle, grants) /\ CheckOK(Idle, row, grants) /\ SignOK(Idle, row, grants, client)
    BY <1>2 DEF DropOK, RevokeOK, CheckOK, SignOK, Idle, Past
  <1>10. Granted'
    BY <1>1, <1>9, GrantedQuiet DEF Sound
  <1> QED BY <1>5, <1>6, <1>7, <1>8, <1>10 DEF Sound

--------------------------------------------------------------------------------
(* The tables change.  No request starts to read or to set up, and one that ends was not   *)
(* calling out.                                                                            *)
Settled ==
    /\ DOMAIN req' = Requests
    /\ \A q \in Requests :
          \/ req'[q] = req[q]
          \/ /\ req[q].pc \notin InCall \cup Leads
             /\ Shape(req'[q]) /\ req'[q].pc \in Other \cup {"forget"}

\* What may become of a grant: it says what it said, it is not asked for twice, and once it has
\* been in force it is that or revoked.
GrantGoes(a, b) ==
    \/ a.at = "none" /\ b.at \in {"none", "requested"}
    \/ /\ a.at # "none" /\ b.at # "none"
       /\ b.id = a.id /\ b.rate = a.rate /\ Alike(b, a)
       /\ b.at = "requested" => a.at = "requested"
       /\ a.at \in {"in force", "revoked"} => b.at \in {"in force", "revoked"} /\ b.between = a.between

\* What may become of the row of a connector that has been read: nothing, or it is another one
\* and no grant of the old one is still waiting.
RowGoes(x, R, S, H) ==
    \/ S[x.id] = R[x.id]
    \/ /\ S[x.id] # x.row
       /\ S[x.id].rev = R[x.id].rev \/ \A h \in GrantIds : H[h].id = x.id => H[h].at # "requested"

(* A grant that is checked, and one a call goes under, stay what they were. *)
LEMMA CheckMoves ==
    ASSUME NEW x, NEW R, NEW S, NEW G, NEW H, CheckOK(x, R, G), OnRead(x), RowGoes(x, R, S, H),
           \A g \in GrantIds : GrantGoes(G[g], H[g])
    PROVE  CheckOK(x, S, H)
  <1>1. CASE x.use # "check"
    BY <1>1 DEF CheckOK
  <1>2. CASE x.use = "check"
    <2>1. /\ x.grant \in GrantIds /\ G[x.grant].at # "none" /\ x.id = G[x.grant].id
          /\ x.pc \in {"row", "check", "consume"}
          /\ G[x.grant].at = "requested" => x.row.rev = R[x.id].rev
          /\ x.pc = "consume" => Alike(G[x.grant], x.row)
      BY <1>2 DEF CheckOK
    <2>2. /\ H[x.grant].at # "none" /\ H[x.grant].id = x.id /\ Alike(H[x.grant], G[x.grant])
          /\ H[x.grant].at = "requested" => G[x.grant].at = "requested"
      BY <2>1 DEF GrantGoes
    <2>3. H[x.grant].at = "requested" => x.row.rev = S[x.id].rev
      BY <2>1, <2>2 DEF RowGoes
    <2>4. x.pc = "consume" => Alike(H[x.grant], x.row)
      BY <2>1, <2>2 DEF Alike
    <2> QED BY <1>2, <2>1, <2>2, <2>3, <2>4 DEF CheckOK
  <1> QED BY <1>1, <1>2

(* A request's signature stands while rows and grants only move as they may. *)
LEMMA SignMoves ==
    ASSUME NEW x, NEW R, NEW S, NEW G, NEW H, NEW K, SignOK(x, R, G, K), RowGoes(x, R, S, H),
           \A g \in GrantIds : GrantGoes(G[g], H[g])
    PROVE  SignOK(x, S, H, K)
  <1> SUFFICES ASSUME x.pc \in Past \cup {"rate"}
               PROVE  /\ x.grant \in GrantIds /\ H[x.grant].at \in {"in force", "revoked"}
                      /\ Alike(K[x.client], H[x.grant]) \/ S[x.id] # x.row \/ H[x.grant].between
    BY DEF SignOK
  <1>1. /\ x.grant \in GrantIds /\ G[x.grant].at \in {"in force", "revoked"}
        /\ Alike(K[x.client], G[x.grant]) \/ R[x.id] # x.row \/ G[x.grant].between
    BY DEF SignOK
  <1>2. /\ H[x.grant].at \in {"in force", "revoked"} /\ Alike(H[x.grant], G[x.grant])
        /\ H[x.grant].between = G[x.grant].between
    BY <1>1 DEF GrantGoes
  <1>3. S[x.id] # x.row \/ S[x.id] = R[x.id]
    BY DEF RowGoes
  <1>4. Alike(K[x.client], G[x.grant]) => Alike(K[x.client], H[x.grant])
    BY <1>2 DEF Alike
  <1> QED BY <1>1, <1>2, <1>3, <1>4

(* The step, from what it does to the rows and the grants. *)
LEMMA TableStep ==
    ASSUME Sound, Settled,
           UNCHANGED <<clock, offers, client, breaker, account, flight, story>>,
           UNCHANGED <<revs, cached, calls, admitted>>,
           row' \in [Ids -> Row], grants' \in [GrantIds -> Grant],
           RowSeal(row', revs), OneLive(row'),
           \A c \in DOMAIN client : ClientSeal(client[c], row', revs),
           \A q \in Requests : OnRead(req[q]) =>
               ReadSeal(req[q], row', revs) /\ RowGoes(req[q], row, row', grants'),
           \A q \in Requests : SetsUp(req'[q]) =>
               row'[req[q].id].at # "none" /\ \A i \in Ids : row'[i].rev # req[q].rev,
           \A g \in GrantIds : GrantGoes(grants[g], grants'[g]) /\ Standing(g, row', grants'),
           \A q \in Requests : DropOK(req'[q], grants')
    PROVE  Sound'
  <1>1. \A q \in Requests : OnRead(req'[q]) \/ SetsUp(req'[q]) => req'[q] = req[q]
    BY DEF Settled, OnRead, SetsUp, Other, Early, Past
  <1>2. \A q \in Requests : req[q].pc \in InCall \cup Leads => req'[q] = req[q]
    BY DEF Settled
  <1>3. \A q \in Requests : req'[q].pc \in Past \cup Leads \cup InCall => req'[q] = req[q]
    BY DEF Settled, Other, Past, Leads, InCall
  <1>4. Typed'
    <2>1. Memory' /\ Stored'
      BY DEF Sound, Typed, Memory, Stored
    <2>2. \A q \in Requests : Shape(req'[q])
      BY DEF Settled, Sound, Typed
    <2> QED BY <2>1, <2>2 DEF Typed, Settled
  <1>5. Breakers'
    <2>1. \A c : Probes(req', c) = Probes(req, c)
      BY <1>2, <1>3 DEF Probes
    <2> QED BY <1>3, <2>1 DEF Sound, Breakers
  <1>6. Flights'
    <2>1. "wait" \in Past
      BY DEF Past
    <2>2. /\ \A q \in Requests : req'[q].pc \in Leads \cup {"wait"} => req'[q].flight \in 1..MaxFlights
          /\ \A q \in Requests : req'[q].pc \in {"settle", "close"} => req'[q].came # "none"
      BY <1>3, <2>1 DEF Sound, Flights, Leads
    <2>3. /\ account.flight # 0 =>
               \E q \in Requests : req'[q].pc \in Leads \ {"close"} /\ req'[q].flight = account.flight
          /\ \A f \in 1..MaxFlights : flight[f] = "running" =>
               \E q \in Requests : req'[q].pc \in Leads /\ req'[q].flight = f
      BY <1>2 DEF Sound, Flights
    <2> QED BY <2>2, <2>3 DEF Flights
  <1>7. Seals'
    <2>1. \A q \in Requests : ReaderSeal(req'[q], row', client, revs)
      BY <1>1 DEF Sound, Seals, ReaderSeal
    <2>2. \A q \in Requests : SetSeal(q, row', client, req', revs)
      <3> SUFFICES ASSUME NEW q \in Requests, SetsUp(req'[q])
                   PROVE  SetSeal(q, row', client, req', revs)
        BY DEF SetSeal
      <3>1. req'[q] = req[q] /\ SetSeal(q, row, client, req, revs)
        BY <1>1 DEF Sound, Seals
      <3> QED BY <1>1, <3>1 DEF SetSeal
    <2>3. \A p, q \in Requests : Twins(req'[p], req'[q])
      BY <1>1 DEF Sound, Seals, Twins
    <2>4. CacheSeal(cached, client)
      BY DEF Sound, Seals
    <2> QED BY <2>1, <2>2, <2>3, <2>4 DEF Seals
  <1>8. Granted'
    <2>1. ASSUME NEW q \in Requests
          PROVE  /\ CheckOK(req'[q], row', grants') /\ SignOK(req'[q], row', grants', client)
                 /\ RevokeOK(req'[q], grants')
      <3>1. ASSUME ~OnRead(req'[q])
            PROVE  CheckOK(req'[q], row', grants') /\ SignOK(req'[q], row', grants', client)
        BY <3>1 DEF CheckOK, SignOK, OnRead, Early
      <3>2. ASSUME OnRead(req'[q])
            PROVE  CheckOK(req'[q], row', grants') /\ SignOK(req'[q], row', grants', client)
        <4>1. req'[q] = req[q] /\ CheckOK(req[q], row, grants) /\ SignOK(req[q], row, grants, client)
          BY <1>1, <3>2 DEF Sound, Granted
        <4>2. RowGoes(req[q], row, row', grants') /\ OnRead(req[q])
          BY <3>2, <4>1
        <4>3. CheckOK(req[q], row', grants')
          BY <4>1, <4>2, CheckMoves
        <4>4. SignOK(req[q], row', grants', client)
          BY <4>1, <4>2, SignMoves
        <4> QED BY <4>1, <4>3, <4>4
      <3>3. RevokeOK(req'[q], grants')
        <4>1. req'[q].pc = "drop" => req'[q] = req[q] /\ RevokeOK(req[q], grants)
          BY <1>1 DEF SetsUp, Sound, Granted
        <4>2. \A g \in GrantIds : grants[g].at \in {"in force", "revoked"} =>
                 grants'[g].at \in {"in force", "revoked"}
          BY DEF GrantGoes
        <4> QED BY <4>1, <4>2 DEF RevokeOK
      <3> QED BY <3>1, <3>2, <3>3
    <2>2. \A g \in GrantIds : Standing(g, row, grants)'
      BY DEF Standing
    <2> QED BY <2>1, <2>2 DEF Granted
  <1> QED BY <1>4, <1>5, <1>6, <1>7, <1>8 DEF Sound

(* A request that was not calling out ends. *)
LEMMA FinishSettles ==
    ASSUME Typed, NEW r \in Requests, Finish(r), req[r].pc \notin InCall \cup Leads
    PROVE  Settled /\ \A q \in Requests : req'[q] = req[q] \/ req'[q].pc = "idle"
  <1>1. DOMAIN req' = Requests /\ req'[r] = Idle /\ \A q \in Requests \ {r} : req'[q] = req[q]
    BY Moves DEF Finish
  <1>2. Shape(Idle) /\ Idle.pc = "idle" /\ "idle" \in Other
    BY DEF Shape, Idle, Other
  <1> QED BY <1>1, <1>2 DEF Settled

(* Only grants change. *)
LEMMA GrantStep ==
    ASSUME Sound, Settled,
           UNCHANGED <<clock, offers, client, breaker, account, flight, story>>,
           UNCHANGED <<row, revs, cached, calls, admitted>>,
           grants' \in [GrantIds -> Grant],
           \A g \in GrantIds : GrantGoes(grants[g], grants'[g]) /\ Standing(g, row, grants'),
           \A q \in Requests : DropOK(req'[q], grants')
    PROVE  Sound'
  <1>1. \A q \in Requests : SetsUp(req'[q]) => req'[q] = req[q]
    BY DEF Settled, SetsUp, Other
  <1>2. \A q \in Requests : SetsUp(req'[q]) =>
           row'[req[q].id].at # "none" /\ \A i \in Ids : row'[i].rev # req[q].rev
    BY <1>1 DEF Sound, Seals, SetSeal
  <1>3. \A q \in Requests : OnRead(req[q]) =>
           ReadSeal(req[q], row', revs) /\ RowGoes(req[q], row, row', grants')
    BY DEF Sound, Seals, ReaderSeal, RowGoes
  <1>4. /\ row' \in [Ids -> Row] /\ RowSeal(row', revs) /\ OneLive(row')
        /\ \A c \in DOMAIN client : ClientSeal(client[c], row', revs)
    BY DEF Sound, Typed, Stored, Seals, Granted
  <1>5. \A g \in GrantIds : GrantGoes(grants[g], grants'[g]) /\ Standing(g, row', grants')
    BY DEF Standing
  <1> QED BY <1>2, <1>3, <1>4, <1>5, TableStep

(* A grant is revoked, or an ask dropped: it says what it said. *)
LEMMA EndsWell ==
    ASSUME NEW a \in Grant, NEW at \in {"revoked", "dropped"}, a.at # "none",
           a.at \in {"in force", "revoked"} => at = "revoked"
    PROVE  LET b == [a EXCEPT !.at = at]
           IN  b \in Grant /\ GrantGoes(a, b) /\ b.at = at /\ b.id = a.id /\ b.rate = a.rate
  BY DEF Grant, GrantGoes, Alike

(* A grant that does not change. *)
LEMMA StaysWell ==
    ASSUME NEW a \in Grant
    PROVE  GrantGoes(a, a)
  BY DEF Grant, GrantGoes, Alike

(* RevokeGrant. *)
LEMMA RevokeGrantStep ==
    ASSUME Sound, NEW g \in GrantIds, RevokeGrant(g), UNCHANGED story
    PROVE  Sound'
  <1> DEFINE b == [grants[g] EXCEPT !.at = "revoked"]
  <1>1. /\ grants[g].at = "in force"
        /\ UNCHANGED <<clock, offers, client, breaker, account, flight, story>>
        /\ UNCHANGED <<req, row, revs, cached, calls, admitted>>
    BY DEF RevokeGrant, outside, outgoing
  <1>2. grants \in [GrantIds -> Grant]
    BY DEF Sound, Typed, Stored
  <1>3. grants' = [grants EXCEPT ![g] = b]
    BY DEF RevokeGrant
  <1>4. b \in Grant /\ GrantGoes(grants[g], b) /\ b.at = "revoked" /\ b.id = grants[g].id
        /\ b.rate = grants[g].rate
    BY <1>1, <1>2, EndsWell
  <1> HIDE DEF b
  <1>5. /\ grants' \in [GrantIds -> Grant] /\ grants'[g] = b
        /\ \A h \in GrantIds \ {g} : grants'[h] = grants[h]
    BY <1>2, <1>3, <1>4
  <1>6. \A h \in GrantIds : GrantGoes(grants[h], grants'[h])
    BY <1>2, <1>4, <1>5, StaysWell
  <1>7. \A h \in GrantIds : Standing(h, row, grants')
    <2>1. \A h \in GrantIds : Standing(h, row, grants)
      BY DEF Sound, Granted
    <2>2. \A h \in GrantIds : grants'[h].at = "in force" => grants'[h] = grants[h]
      BY <1>4, <1>5
    <2>3. ASSUME NEW h \in GrantIds, grants'[h].at # "none"
          PROVE  row[grants'[h].id].at # "none" /\ grants'[h].rate \in story.rates
      BY <1>1, <1>4, <1>5, <2>1, <2>3 DEF Standing
    <2> QED BY <2>1, <2>2, <2>3 DEF Standing
  <1>8. \A q \in Requests : DropOK(req'[q], grants')
    <2>1. \A q \in Requests : DropOK(req[q], grants)
      BY DEF Sound, Granted
    <2>2. \A h \in GrantIds : grants'[h].at = "in force" => grants'[h] = grants[h]
      BY <1>4, <1>5
    <2> QED BY <1>1, <2>1, <2>2 DEF DropOK
  <1>9. Settled
    BY <1>1 DEF Settled, Sound, Typed
  <1> QED BY <1>1, <1>5, <1>6, <1>7, <1>8, <1>9, GrantStep

(* RequestGrant: what waits for the same connector is dropped, and the statement put. *)
LEMMA RequestStep ==
    ASSUME Sound, NEW r \in Requests, NEW rate \in story.rates, RequestGrant(r, rate), UNCHANGED story
    PROVE  Sound'
  <1> DEFINE x == req[r]
             s == grantStatement(x.row, x.client, rate)
             new == BuildStatement(x.id, s)
  <1>1. /\ x.pc = "request" /\ Finish(r)
        /\ UNCHANGED <<clock, offers, client, breaker, account, flight, story>>
        /\ UNCHANGED <<row, revs, cached, calls, admitted>>
    BY DEF RequestGrant, At, outside, outgoing
  <1>2. PICK n \in GrantIds : grants[n].at = "none" /\ grants' = [Drop(x.id, {}) EXCEPT ![n] = new]
    BY DEF RequestGrant
  <1>3. x \in Reader /\ grants \in [GrantIds -> Grant] /\ rate \in Nat
    <2>1. story.rates \subseteq Nat
      BY ConnectorsAssumption DEF Sound, Typed, Memory
    <2>2. x \in Reader
      BY <1>1, IsReader DEF Sound, Early
    <2> QED BY <2>1, <2>2 DEF Sound, Typed, Stored
  <1>4. /\ x.id \in Ids /\ x.row \in Row /\ row[x.id].at # "none" /\ x.client \in DOMAIN client
        /\ client[x.client] \in Client
    <2>1. OnRead(x) /\ x.pc # "row" /\ ReaderSeal(x, row, client, revs)
      BY <1>1 DEF OnRead, Early, Sound, Seals
    <2> QED BY <1>3, <2>1, ClientsType DEF ReaderSeal, ReadSeal, GoesTo, Reader, Sound
  <1>5. new \in Grant /\ new.at = "requested" /\ new.id = x.id /\ new.rate = rate
    BY <1>3, <1>4 DEF BuildStatement, grantStatement, Descriptor, Grant, Client, Row
  <1> HIDE DEF new
  <1>6. \A h \in GrantIds \ {n} :
           \/ grants'[h] = grants[h]
           \/ grants[h].at = "requested" /\ grants'[h] = [grants[h] EXCEPT !.at = "dropped"]
    BY <1>2 DEF Drop
  <1>7. grants'[n] = new /\ DOMAIN grants' = GrantIds
    BY <1>2 DEF Drop
  <1>8. ASSUME NEW h \in GrantIds \ {n}
        PROVE  /\ grants'[h] \in Grant /\ GrantGoes(grants[h], grants'[h])
               /\ grants'[h].id = grants[h].id /\ grants'[h].rate = grants[h].rate
               /\ grants'[h].at = "in force" => grants'[h] = grants[h]
               /\ grants'[h].at # "none" => grants[h].at # "none"
    <2>1. grants[h] \in Grant
      BY <1>3
    <2>2. CASE grants'[h] = grants[h]
      BY <2>1, <2>2, StaysWell
    <2>3. CASE grants[h].at = "requested" /\ grants'[h] = [grants[h] EXCEPT !.at = "dropped"]
      BY <2>1, <2>3, EndsWell
    <2> QED BY <1>6, <2>2, <2>3
  <1>9. \E G \in [GrantIds -> Grant] : G = grants'
    <2>1. \A h \in GrantIds : grants'[h] \in Grant
      BY <1>5, <1>7, <1>8
    <2>2. grants' = [h \in GrantIds |-> grants'[h]]
      BY <1>2 DEF Drop
    <2> QED BY <2>1, <2>2
  <1>10. \A h \in GrantIds : GrantGoes(grants[h], grants'[h])
    BY <1>2, <1>5, <1>7, <1>8 DEF GrantGoes
  <1>11. \A h \in GrantIds : grants'[h].at = "in force" => grants'[h] = grants[h]
    BY <1>5, <1>7, <1>8
  <1>12. \A h \in GrantIds : Standing(h, row, grants')
    <2>1. \A h \in GrantIds : Standing(h, row, grants)
      BY DEF Sound, Granted
    <2>2. ASSUME NEW h \in GrantIds, grants'[h].at # "none"
          PROVE  row[grants'[h].id].at # "none" /\ grants'[h].rate \in story.rates
      BY <1>4, <1>5, <1>7, <1>8, <2>1, <2>2 DEF Standing
    <2> QED BY <1>11, <2>1, <2>2 DEF Standing
  <1>13. Settled /\ \A q \in Requests : req'[q] = req[q] \/ req'[q].pc = "idle"
    BY <1>1, FinishSettles DEF Sound, InCall, Leads
  <1>14. \A q \in Requests : DropOK(req'[q], grants')
    <2>1. \A q \in Requests : DropOK(req[q], grants)
      BY DEF Sound, Granted
    <2> QED BY <1>11, <1>13, <2>1 DEF DropOK
  <1> QED BY <1>1, <1>9, <1>10, <1>12, <1>13, <1>14, GrantStep

(* ConsumeGrantChallenge: what is put in force describes the connector as it is, and a     *)
(* set-up that is about to change it knows that it came between.                           *)
LEMMA ConsumeStep ==
    ASSUME Sound, NEW r \in Requests, ConsumeGrantChallenge(r), UNCHANGED story
    PROVE  Sound'
  <1> DEFINE x == req[r]
             g == x.grant
             i == grants[g].id
             new == [grants[g] EXCEPT !.at = "in force", !.between = SettingUp(i) # {}]
             Next3(h) == IF h = g THEN new
                         ELSE IF h \in InForce(i) THEN [grants[h] EXCEPT !.at = "revoked"]
                         ELSE grants[h]
  <1>1. /\ x.pc = "consume" /\ Finish(r)
        /\ UNCHANGED <<clock, offers, client, breaker, account, flight, story>>
        /\ UNCHANGED <<row, revs, cached, calls, admitted>>
    BY DEF ConsumeGrantChallenge, At, outside, outgoing
  <1>2. \/ grants' = grants
        \/ grants[g].at = "requested" /\ grants' = [h \in GrantIds |-> Next3(h)]
    BY DEF ConsumeGrantChallenge
  <1>3. grants \in [GrantIds -> Grant] /\ x \in Reader
    BY <1>1, IsReader DEF Sound, Typed, Stored, Early
  <1>4. Settled /\ \A q \in Requests : req'[q] = req[q] \/ req'[q].pc = "idle"
    BY <1>1, FinishSettles DEF Sound, InCall, Leads
  <1>5. \A q \in Requests : DropOK(req[q], grants)
    BY DEF Sound, Granted
  <1>6. CASE grants' = grants
    <2>1. \A q \in Requests : DropOK(req'[q], grants')
      BY <1>4, <1>5, <1>6 DEF DropOK
    <2>2. \A h \in GrantIds : GrantGoes(grants[h], grants'[h]) /\ Standing(h, row, grants')
      BY <1>3, <1>6, StaysWell DEF Sound, Granted
    <2> QED BY <1>1, <1>3, <1>4, <1>6, <2>1, <2>2, GrantStep
  <1>7. CASE grants[g].at = "requested" /\ grants' = [h \in GrantIds |-> Next3(h)]
    <2>1. /\ g \in GrantIds /\ i = x.id /\ x.row.rev = row[x.id].rev /\ Alike(grants[g], x.row)
          /\ x.id \in Ids
      <3>1. CheckOK(x, row, grants)
        BY DEF Sound, Granted
      <3>2. x.use = "check" /\ OnRead(x)
        BY <1>1, <3>1 DEF CheckOK, OnRead, Early
      <3> QED BY <1>1, <1>3, <1>7, <3>1, <3>2 DEF CheckOK, Reader
    <2>2. Alike(grants[g], row[i])
      <3>1. OnRead(x) /\ ReaderSeal(x, row, client, revs)
        BY <1>1 DEF OnRead, Early, Sound, Seals
      <3> QED BY <2>1, <3>1 DEF ReaderSeal, ReadSeal, Alike
    <2>3. /\ new \in Grant /\ new.at = "in force" /\ new.id = i /\ new.rate = grants[g].rate
          /\ Alike(new, grants[g]) /\ (new.between <=> SettingUp(i) # {})
      <3>1. ASSUME NEW a \in Grant, NEW b \in BOOLEAN
            PROVE  LET z == [a EXCEPT !.at = "in force", !.between = b]
                   IN  /\ z \in Grant /\ z.at = "in force" /\ z.id = a.id /\ z.rate = a.rate
                       /\ Alike(z, a) /\ z.between = b
        BY DEF Grant, Alike
      <3>2. grants[g] \in Grant
        BY <1>3, <2>1
      <3>3. (SettingUp(i) # {}) \in BOOLEAN
        OBVIOUS
      <3> QED BY <3>1, <3>2, <3>3
    <2> HIDE DEF new
    <2>4. DOMAIN grants' = GrantIds /\ grants'[g] = new
      BY <1>7, <2>1
    <2>5. ASSUME NEW h \in GrantIds \ {g}
          PROVE  /\ grants'[h] \in Grant /\ GrantGoes(grants[h], grants'[h])
                 /\ grants'[h].id = grants[h].id /\ grants'[h].rate = grants[h].rate
                 /\ grants'[h].at = "in force" => grants'[h] = grants[h] /\ grants[h].id # i
                 /\ grants'[h].at # "none" => grants[h].at # "none"
      <3>1. grants[h] \in Grant
        BY <1>3
      <3>2. CASE h \in InForce(i)
        <4>1. grants'[h] = [grants[h] EXCEPT !.at = "revoked"]
          BY <1>7, <2>5, <3>2
        <4>2. grants[h].at = "in force"
          BY <3>2 DEF InForce
        <4> QED BY <3>1, <4>1, <4>2, EndsWell
      <3>3. CASE h \notin InForce(i)
        <4>1. grants'[h] = grants[h]
          BY <1>7, <2>5, <3>3
        <4> QED BY <3>1, <3>3, <4>1, StaysWell DEF InForce
      <3> QED BY <3>2, <3>3
    <2>6. grants' \in [GrantIds -> Grant]
      <3>1. \A h \in GrantIds : grants'[h] \in Grant
        BY <2>3, <2>4, <2>5
      <3>2. grants' = [h \in GrantIds |-> grants'[h]]
        BY <1>7
      <3> QED BY <3>1, <3>2
    <2>7. \A h \in GrantIds : GrantGoes(grants[h], grants'[h])
      <3>1. GrantGoes(grants[g], new)
        BY <1>7, <2>3 DEF GrantGoes
      <3> QED BY <2>4, <2>5, <3>1
    <2>8. \A h \in GrantIds : Standing(h, row, grants')
      <3>1. \A h \in GrantIds : Standing(h, row, grants)
        BY DEF Sound, Granted
      <3>2. ASSUME NEW h \in GrantIds, grants'[h].at # "none"
            PROVE  row[grants'[h].id].at # "none" /\ grants'[h].rate \in story.rates
        <4>1. grants[h].at # "none" /\ grants'[h].id = grants[h].id /\ grants'[h].rate = grants[h].rate
          <5>1. CASE h = g
            BY <1>7, <2>3, <2>4, <5>1
          <5>2. CASE h # g
            BY <2>5, <3>2, <5>2
          <5> QED BY <5>1, <5>2
        <4> QED BY <3>1, <4>1 DEF Standing
      <3>3. \A h \in GrantIds : grants'[h].at = "in force" =>
               grants'[h].between \/ Alike(grants'[h], row[grants'[h].id])
        <4>1. Alike(new, row[i])
          BY <2>2, <2>3 DEF Alike
        <4> QED BY <2>3, <2>4, <2>5, <3>1, <4>1 DEF Standing
      <3>4. ASSUME NEW h \in GrantIds, NEW k \in GrantIds, grants'[h].at = "in force",
                   grants'[k].at = "in force", grants'[h].id = grants'[k].id
            PROVE  h = k
        <4>1. \A j \in GrantIds \ {g} : grants'[j].at = "in force" =>
                 grants[j].at = "in force" /\ grants'[j].id = grants[j].id /\ grants[j].id # i
          BY <2>5
        <4>2. grants'[g].id = i
          BY <2>3, <2>4
        <4>3. CASE h = g \/ k = g
          BY <3>4, <4>1, <4>2, <4>3
        <4>4. CASE h # g /\ k # g
          BY <3>1, <3>4, <4>1, <4>4 DEF Standing
        <4> QED BY <4>3, <4>4
      <3> QED BY <3>2, <3>3, <3>4 DEF Standing
    <2>9. \A q \in Requests : DropOK(req'[q], grants')
      <3> SUFFICES ASSUME NEW q \in Requests, req'[q].pc = "drop", NEW h \in GrantIds,
                          grants'[h].at = "in force", req'[q].id = grants'[h].id
                   PROVE  grants'[h].between \/ h \in req'[q].revokes
        BY DEF DropOK
      <3>1. req'[q] = req[q]
        BY <1>4
      <3>2. CASE h = g
        <4>1. q \in SettingUp(i)
          BY <2>3, <2>4, <3>1, <3>2 DEF SettingUp, At
        <4> QED BY <2>3, <2>4, <3>2, <4>1
      <3>3. CASE h # g
        BY <1>5, <2>5, <3>1, <3>3 DEF DropOK
      <3> QED BY <3>2, <3>3
    <2> QED BY <1>1, <1>4, <2>6, <2>7, <2>8, <2>9, GrantStep
  <1> QED BY <1>2, <1>6, <1>7

(* A set-up under way, and the connector it is of. *)
LEMMA IsSetting ==
    ASSUME Sound, NEW r \in Requests, SetsUp(req[r])
    PROVE  req[r] \in Setting /\ req[r].id \in Ids /\ SetSeal(r, row, client, req, revs)
  <1>1. Shape(req[r])
    BY DEF Sound, Typed
  <1>2. req[r] \in Setting
    BY <1>1 DEF Shape, SetsUp, Early, Past, Other
  <1> QED BY <1>2 DEF Setting, Sound, Seals

(* RegisterConnector: nothing is known yet of a connector that was not there. *)
LEMMA RegisterStep ==
    ASSUME Sound, NEW kind \in Kinds, RegisterConnector(kind), UNCHANGED story
    PROVE  Sound'
  <1> DEFINE new == Registered(kind)
  <1>1. /\ Live = {}
        /\ UNCHANGED <<clock, offers, client, breaker, account, flight, story>>
        /\ UNCHANGED <<req, grants, revs, cached, calls, admitted>>
    BY DEF RegisterConnector, outside, outgoing
  <1>2. PICK i \in Ids : row[i].at = "none" /\ row' = [row EXCEPT ![i] = new]
    BY DEF RegisterConnector
  <1>3. new \in Row /\ new.at = "live" /\ new.rev = 0
    BY DEF Registered, NoRow, Row, Kinds
  <1> HIDE DEF new
  <1>4. row \in [Ids -> Row] /\ grants \in [GrantIds -> Grant] /\ revs \in Nat
    BY DEF Sound, Typed, Stored
  <1>5. /\ row' \in [Ids -> Row] /\ row'[i] = new /\ \A j \in Ids \ {i} : row'[j] = row[j]
    BY <1>2, <1>3, <1>4
  <1>6. \A j \in Ids : row[j].at # "none" => row'[j] = row[j]
    BY <1>2, <1>5
  <1>7. RowSeal(row', revs) /\ OneLive(row')
    <2>1. RowSeal(row, revs)
      BY DEF Sound, Seals
    <2>2. \A j \in Ids : row[j].at # "live"
      BY <1>1 DEF Live
    <2> QED BY <1>3, <1>4, <1>5, <2>1, <2>2 DEF RowSeal, OneLive
  <1>8. \A c \in DOMAIN client : ClientSeal(client[c], row', revs)
    <2> SUFFICES ASSUME NEW c \in DOMAIN client PROVE ClientSeal(client[c], row', revs)
      OBVIOUS
    <2>1. ClientSeal(client[c], row, revs) /\ client[c].id \in Ids
      BY ClientsType DEF Sound, Seals, Client
    <2> QED BY <1>6, <2>1 DEF ClientSeal
  <1>9. ASSUME NEW q \in Requests, OnRead(req[q])
        PROVE  ReadSeal(req[q], row', revs) /\ RowGoes(req[q], row, row', grants')
    <2>1. req[q].id \in Ids /\ ReadSeal(req[q], row, revs)
      BY <1>9, IsReader DEF Sound, Seals, ReaderSeal, Reader, OnRead
    <2> QED BY <1>6, <2>1 DEF ReadSeal, RowGoes
  <1>10. ASSUME NEW q \in Requests, SetsUp(req'[q])
         PROVE  row'[req[q].id].at # "none" /\ \A j \in Ids : row'[j].rev # req[q].rev
    <2>1. SetsUp(req[q]) /\ SetSeal(q, row, client, req, revs) /\ req[q].id \in Ids
      BY <1>1, <1>10, IsSetting
    <2> QED BY <1>3, <1>4, <1>5, <1>6, <2>1 DEF SetSeal
  <1>11. \A g \in GrantIds : GrantGoes(grants[g], grants'[g]) /\ Standing(g, row', grants')
    <2> SUFFICES ASSUME NEW g \in GrantIds
                 PROVE  GrantGoes(grants[g], grants'[g]) /\ Standing(g, row', grants')
      OBVIOUS
    <2>1. Standing(g, row, grants) /\ grants[g].id \in Ids /\ GrantGoes(grants[g], grants[g])
      BY <1>4, StaysWell DEF Sound, Granted, Grant
    <2> QED BY <1>1, <1>6, <2>1 DEF Standing
  <1>12. \A q \in Requests : DropOK(req'[q], grants')
    BY <1>1 DEF Sound, Granted
  <1>13. Settled
    BY <1>1 DEF Settled, Sound, Typed
  <1> QED BY <1>1, <1>4, <1>5, <1>7, <1>8, <1>9, <1>10, <1>11, <1>12, <1>13, TableStep

(* RemoveConnector: the name is free, and its grant is revoked with it. *)
LEMMA RemoveStep ==
    ASSUME Sound, NEW i \in Ids, RemoveConnector(i), UNCHANGED story
    PROVE  Sound'
  <1> DEFINE new == [row[i] EXCEPT !.at = "removed"]
  <1>1. /\ UNCHANGED <<clock, offers, client, breaker, account, flight, story>>
        /\ UNCHANGED <<req, revs, cached, calls, admitted>>
    BY DEF RemoveConnector, outside, outgoing
  <1>2. /\ row[i].at = "live" /\ row' = [row EXCEPT ![i] = new]
        /\ grants' = [g \in GrantIds |->
                        IF g \in InForce(i) THEN [grants[g] EXCEPT !.at = "revoked"] ELSE grants[g]]
    BY DEF RemoveConnector, Live
  <1>3. row \in [Ids -> Row] /\ grants \in [GrantIds -> Grant]
    BY DEF Sound, Typed, Stored
  <1>4. new \in Row /\ new.at = "removed" /\ new.rev = row[i].rev /\ Alike(new, row[i])
    <2>1. row[i] \in Row
      BY <1>3
    <2> QED BY <2>1 DEF Row, Alike
  <1> HIDE DEF new
  <1>5. row' \in [Ids -> Row] /\ row'[i] = new /\ \A j \in Ids \ {i} : row'[j] = row[j]
    BY <1>2, <1>3, <1>4
  <1>6. \A j \in Ids : /\ row'[j].rev = row[j].rev /\ Alike(row'[j], row[j])
                       /\ row[j].at # "none" => row'[j].at # "none"
                       /\ row'[j].at = "live" => row[j].at = "live"
    BY <1>2, <1>4, <1>5 DEF Alike
  <1>7. RowSeal(row', revs) /\ OneLive(row')
    <2>1. RowSeal(row, revs) /\ OneLive(row)
      BY DEF Sound, Seals, Granted
    <2> QED BY <1>6, <2>1 DEF RowSeal, OneLive
  <1>8. \A c \in DOMAIN client : ClientSeal(client[c], row', revs)
    <2> SUFFICES ASSUME NEW c \in DOMAIN client PROVE ClientSeal(client[c], row', revs)
      OBVIOUS
    <2>1. ClientSeal(client[c], row, revs) /\ client[c].id \in Ids
      BY ClientsType DEF Sound, Seals, Client
    <2> QED BY <1>6, <2>1 DEF ClientSeal, Alike
  <1>9. ASSUME NEW q \in Requests, OnRead(req[q])
        PROVE  ReadSeal(req[q], row', revs) /\ RowGoes(req[q], row, row', grants')
    <2>1. req[q].id \in Ids /\ ReadSeal(req[q], row, revs)
      BY <1>9, IsReader DEF Sound, Seals, ReaderSeal, Reader, OnRead
    <2>2. ReadSeal(req[q], row', revs)
      BY <1>6, <2>1 DEF ReadSeal, Alike
    <2>3. row'[req[q].id] = row[req[q].id] \/ row'[req[q].id] # req[q].row
      BY <1>4, <1>5, <2>1 DEF ReadSeal
    <2>4. RowGoes(req[q], row, row', grants')
      BY <1>6, <2>1, <2>3 DEF RowGoes
    <2> QED BY <2>2, <2>4
  <1>10. ASSUME NEW q \in Requests, SetsUp(req'[q])
         PROVE  row'[req[q].id].at # "none" /\ \A j \in Ids : row'[j].rev # req[q].rev
    <2>1. SetsUp(req[q]) /\ SetSeal(q, row, client, req, revs) /\ req[q].id \in Ids
      BY <1>1, <1>10, IsSetting
    <2> QED BY <1>6, <2>1 DEF SetSeal
  <1>11. ASSUME NEW g \in GrantIds
         PROVE  /\ grants'[g] \in Grant /\ GrantGoes(grants[g], grants'[g])
                /\ grants'[g].id = grants[g].id /\ grants'[g].rate = grants[g].rate
                /\ grants'[g].at = "in force" => grants'[g] = grants[g]
                /\ grants'[g].at # "none" => grants[g].at # "none"
    <2>1. grants[g] \in Grant
      BY <1>3
    <2>2. CASE g \in InForce(i)
      <3>1. grants'[g] = [grants[g] EXCEPT !.at = "revoked"] /\ grants[g].at = "in force"
        BY <1>2, <2>2 DEF InForce
      <3> QED BY <2>1, <3>1, EndsWell
    <2>3. CASE g \notin InForce(i)
      <3>1. grants'[g] = grants[g]
        BY <1>2, <2>3
      <3> QED BY <2>1, <3>1, StaysWell
    <2> QED BY <2>2, <2>3
  <1>12. grants' \in [GrantIds -> Grant]
    <2>1. grants' = [g \in GrantIds |-> grants'[g]]
      BY <1>2
    <2> QED BY <1>11, <2>1
  <1>13. \A g \in GrantIds : Standing(g, row', grants')
    <2>1. \A g \in GrantIds : Standing(g, row, grants) /\ grants[g].id \in Ids
      BY <1>3 DEF Sound, Granted, Grant
    <2>2. ASSUME NEW g \in GrantIds
          PROVE  /\ grants'[g].at # "none" =>
                      row'[grants'[g].id].at # "none" /\ grants'[g].rate \in story.rates
                 /\ grants'[g].at = "in force" =>
                      grants'[g].between \/ Alike(grants'[g], row'[grants'[g].id])
      <3>1. Standing(g, row, grants) /\ grants[g].id \in Ids
        BY <2>1
      <3> QED BY <1>6, <1>11, <3>1 DEF Standing, Alike
    <2>3. \A g, h \in GrantIds :
             grants'[g].at = "in force" /\ grants'[h].at = "in force" /\ grants'[g].id = grants'[h].id
             => g = h
      BY <1>11, <2>1 DEF Standing
    <2> QED BY <2>2, <2>3 DEF Standing
  <1>14. \A q \in Requests : DropOK(req'[q], grants')
    <2>1. \A q \in Requests : DropOK(req[q], grants)
      BY DEF Sound, Granted
    <2> QED BY <1>1, <1>11, <2>1 DEF DropOK
  <1>15. Settled
    BY <1>1 DEF Settled, Sound, Typed
  <1> QED BY <1>1, <1>5, <1>7, <1>8, <1>9, <1>10, <1>11, <1>12, <1>13, <1>14, <1>15, TableStep

(* CompleteConnectorSetup: the row has a seal nobody has seen, what was in force when it   *)
(* began is revoked, and what waited for signatures dropped.                               *)
LEMMA CompleteStep ==
    ASSUME Sound, NEW r \in Requests, CompleteConnectorSetup(r), UNCHANGED story
    PROVE  Sound'
  <1> DEFINE s == req[r]
             i == s.id
             new == [row[i] EXCEPT !.end = s.end, !.surface = s.surface, !.rev = s.rev, !.ready = TRUE]
             y == [pc |-> "forget", id |-> i]
  <1>1. /\ s.pc = "drop" /\ Goto(r, y)
        /\ row' = [row EXCEPT ![i] = new] /\ grants' = Drop(i, s.revokes)
        /\ UNCHANGED <<clock, offers, client, breaker, account, flight, story>>
        /\ UNCHANGED <<revs, cached, calls, admitted>>
    BY DEF CompleteConnectorSetup, At, outside, outgoing
  <1>2. SetsUp(s) /\ s \in Setting /\ i \in Ids /\ SetSeal(r, row, client, req, revs)
    BY <1>1, IsSetting DEF SetsUp
  <1>3. row \in [Ids -> Row] /\ grants \in [GrantIds -> Grant] /\ revs \in Nat
    BY DEF Sound, Typed, Stored
  <1>4. new \in Row /\ new.at = row[i].at /\ new.rev = s.rev
    <2>1. s.end \in Ends /\ s.surface \in Surfaces \cup Kinds /\ s.rev \in Nat /\ row[i] \in Row
      BY <1>2, <1>3 DEF Setting
    <2> QED BY <2>1 DEF Row
  <1> HIDE DEF new
  <1>5. row' \in [Ids -> Row] /\ row'[i] = new /\ \A j \in Ids \ {i} : row'[j] = row[j]
    BY <1>1, <1>2, <1>3, <1>4
  <1>6. s.rev \in 1..revs /\ row[i].at # "none" /\ \A j \in Ids : row'[j].at = row[j].at
    BY <1>2, <1>4, <1>5 DEF SetSeal
  <1>7. RowSeal(row', revs) /\ OneLive(row')
    <2>1. RowSeal(row, revs) /\ OneLive(row)
      BY DEF Sound, Seals, Granted
    <2> QED BY <1>3, <1>4, <1>5, <1>6, <2>1 DEF RowSeal, OneLive
  <1>8. \A c \in DOMAIN client : ClientSeal(client[c], row', revs)
    <2> SUFFICES ASSUME NEW c \in DOMAIN client PROVE ClientSeal(client[c], row', revs)
      OBVIOUS
    <2>1. ClientSeal(client[c], row, revs) /\ client[c].id \in Ids /\ client[c].rev # s.rev
      BY <1>2, ClientsType DEF Sound, Seals, Client, SetSeal
    <2> QED BY <1>4, <1>5, <1>6, <2>1 DEF ClientSeal
  <1>9. DOMAIN req' = Requests /\ req'[r] = y /\ \A q \in Requests \ {r} : req'[q] = req[q]
    BY <1>1, Moves DEF Sound
  <1>10. y.pc = "forget" /\ Shape(y)
    BY <1>2 DEF Shape
  <1> HIDE DEF y
  <1>11. Settled
    BY <1>1, <1>9, <1>10 DEF Settled, InCall, Leads
  <1>12. ASSUME NEW g \in GrantIds
         PROVE  /\ grants'[g] \in Grant /\ GrantGoes(grants[g], grants'[g])
                /\ grants'[g].id = grants[g].id /\ grants'[g].rate = grants[g].rate
                /\ grants'[g].at = "in force" =>
                     grants'[g] = grants[g] /\ g \notin s.revokes
                /\ grants'[g].at # "none" => grants[g].at # "none"
                /\ grants'[g].id = i => grants'[g].at # "requested"
    <2>1. grants[g] \in Grant
      BY <1>3
    <2>2. CASE g \in s.revokes
      <3>1. grants'[g] = [grants[g] EXCEPT !.at = "revoked"]
        BY <1>1, <2>2 DEF Drop
      <3>2. grants[g].at \in {"in force", "revoked"}
        BY <1>1, <2>2 DEF Sound, Granted, RevokeOK
      <3> QED BY <2>1, <3>1, <3>2, EndsWell
    <2>3. CASE g \notin s.revokes /\ grants[g].id = i /\ grants[g].at = "requested"
      <3>1. grants'[g] = [grants[g] EXCEPT !.at = "dropped"]
        BY <1>1, <2>3 DEF Drop
      <3> QED BY <2>1, <2>3, <3>1, EndsWell
    <2>4. CASE g \notin s.revokes /\ ~(grants[g].id = i /\ grants[g].at = "requested")
      <3>1. grants'[g] = grants[g]
        BY <1>1, <2>4 DEF Drop
      <3> QED BY <2>1, <2>4, <3>1, StaysWell
    <2> QED BY <2>2, <2>3, <2>4
  <1>13. grants' \in [GrantIds -> Grant]
    <2>1. grants' = [g \in GrantIds |-> grants'[g]]
      BY <1>1 DEF Drop
    <2> QED BY <1>12, <2>1
  <1>14. ASSUME NEW q \in Requests, OnRead(req[q])
         PROVE  ReadSeal(req[q], row', revs) /\ RowGoes(req[q], row, row', grants')
    <2>1. req[q].id \in Ids /\ ReadSeal(req[q], row, revs) /\ req[q].row.rev # s.rev
      BY <1>2, <1>14, IsReader DEF Sound, Seals, ReaderSeal, Reader, OnRead, SetSeal
    <2>2. ReadSeal(req[q], row', revs)
      BY <1>4, <1>5, <1>6, <2>1 DEF ReadSeal
    <2>3. RowGoes(req[q], row, row', grants')
      BY <1>4, <1>5, <1>12, <2>1 DEF RowGoes
    <2> QED BY <2>2, <2>3
  <1>15. ASSUME NEW q \in Requests, SetsUp(req'[q])
         PROVE  row'[req[q].id].at # "none" /\ \A j \in Ids : row'[j].rev # req[q].rev
    <2>1. q # r /\ req'[q] = req[q]
      BY <1>9, <1>10, <1>15 DEF SetsUp
    <2>2. SetsUp(req[q]) /\ SetSeal(q, row, client, req, revs) /\ req[q].id \in Ids
      BY <1>15, <2>1, IsSetting
    <2>3. s.rev # req[q].rev
      BY <1>2, <2>1, <2>2 DEF SetSeal
    <2> QED BY <1>4, <1>5, <1>6, <2>2, <2>3 DEF SetSeal
  <1>16. \A g \in GrantIds : Standing(g, row', grants')
    <2>1. \A g \in GrantIds : Standing(g, row, grants) /\ grants[g].id \in Ids
      BY <1>3 DEF Sound, Granted, Grant
    <2>2. ASSUME NEW g \in GrantIds
          PROVE  /\ grants'[g].at # "none" =>
                      row'[grants'[g].id].at # "none" /\ grants'[g].rate \in story.rates
                 /\ grants'[g].at = "in force" =>
                      grants'[g].between \/ Alike(grants'[g], row'[grants'[g].id])
      <3>1. Standing(g, row, grants) /\ grants[g].id \in Ids
        BY <2>1
      <3>2. grants'[g].at # "none" =>
              row'[grants'[g].id].at # "none" /\ grants'[g].rate \in story.rates
        BY <1>6, <1>12, <3>1 DEF Standing
      <3>3. ASSUME grants'[g].at = "in force", grants[g].id = i
            PROVE  grants'[g].between
        <4>1. DropOK(s, grants)
          BY DEF Sound, Granted
        <4> QED BY <1>1, <1>12, <3>3, <4>1 DEF DropOK
      <3>4. ASSUME grants'[g].at = "in force", grants[g].id # i
            PROVE  grants'[g].between \/ Alike(grants'[g], row'[grants'[g].id])
        BY <1>5, <1>12, <3>1, <3>4 DEF Standing
      <3> QED BY <3>2, <3>3, <3>4
    <2>3. \A g, h \in GrantIds :
             grants'[g].at = "in force" /\ grants'[h].at = "in force" /\ grants'[g].id = grants'[h].id
             => g = h
      BY <1>12, <2>1 DEF Standing
    <2> QED BY <2>2, <2>3 DEF Standing
  <1>17. \A q \in Requests : DropOK(req'[q], grants')
    <2>1. \A q \in Requests : DropOK(req[q], grants)
      BY DEF Sound, Granted
    <2> QED BY <1>9, <1>10, <1>12, <2>1 DEF DropOK
  <1> QED BY <1>1, <1>5, <1>7, <1>8, <1>11, <1>12, <1>13, <1>14, <1>15, <1>16, <1>17, TableStep

--------------------------------------------------------------------------------
(* SetUpConnector: the seal is new. *)
LEMMA SetUpStep ==
    ASSUME Sound, NEW r \in Requests, NEW i \in Ids, NEW e \in Ends, SetUpConnector(r, i, e),
           UNCHANGED story
    PROVE  Sound'
  <1>1. /\ req[r].pc = "idle" /\ row[i].at = "live" /\ revs' = revs + 1
        /\ UNCHANGED <<clock, offers, client, breaker, account, flight, story>>
        /\ UNCHANGED <<row, grants, cached, calls, admitted>>
    BY DEF SetUpConnector, At, outside, outgoing
  <1>2. revs \in Nat /\ revs' \in Nat /\ offers[e] \in Surfaces
    BY <1>1 DEF Sound, Typed, Stored, Memory
  <1>3. PICK surface \in Surfaces \cup Kinds :
           Goto(r, [pc |-> "revoke", id |-> i, end |-> e, rev |-> revs', surface |-> surface])
    <2>1. Discover(e) \subseteq {offers[e]}
      BY DEF Discover, SurfaceDigest
    <2>2. PICK surface \in IF row[i].kind = "mcp" THEN Discover(e) ELSE {"webhook"} :
             Goto(r, [pc |-> "revoke", id |-> i, end |-> e, rev |-> revs', surface |-> surface])
      BY DEF SetUpConnector
    <2>3. surface \in Surfaces \cup Kinds
      BY <1>2, <2>1, <2>2 DEF Kinds
    <2> QED BY <2>2, <2>3
  <1> DEFINE y == [pc |-> "revoke", id |-> i, end |-> e, rev |-> revs', surface |-> surface]
  <1>4. y \in Setting /\ y.pc = "revoke" /\ y.id = i /\ y.rev = revs + 1
    BY <1>1, <1>2 DEF Setting
  <1>5. Goto(r, y)
    BY <1>3
  <1> HIDE DEF y
  <1>6. /\ y.pc \notin Early /\ y.pc \notin Past /\ y.pc \notin InCall /\ Shape(y)
        /\ y.pc \notin Leads \cup {"wait"} /\ req[r].pc \notin InCall /\ req[r].pc \notin Leads
    BY <1>1, <1>4 DEF Early, Past, InCall, Leads, Shape
  <1>7. Typed'
    <2>1. Memory' /\ Stored'
      BY <1>1, <1>2 DEF Sound, Typed, Memory, Stored
    <2> QED BY <1>5, <1>6, <2>1, TypedMoves DEF Sound
  <1>8. Breakers'
    BY <1>1, <1>5, <1>6, BreakersQuiet DEF Sound
  <1>9. Flights'
    BY <1>1, <1>5, <1>6, FlightsQuiet DEF Sound
  <1>10. ~OnRead(y) /\ SetsUp(y)
    BY <1>4, <1>6 DEF OnRead, SetsUp
  <1>11. req'[r] = y /\ \A q \in Requests \ {r} : req'[q] = req[q]
    BY <1>5, Moves DEF Sound
  <1>12. Seals'
    <2> DEFINE n == revs + 1
    <2>1. n \in Nat /\ \A k \in Nat : k <= revs => k <= n /\ k # n
      BY <1>2
    <2>2. \A j \in Ids : row[j].rev \in Nat /\ row[j].rev <= revs
      BY DEF Sound, Typed, Stored, Row, Seals, RowSeal
    <2>3. \A c \in DOMAIN client : client[c].rev \in Nat /\ client[c].rev <= revs
      BY ClientsType DEF Sound, Seals, ClientSeal, Client
    <2>4. \A q \in Requests : OnRead(req[q]) => req[q].row.rev \in Nat /\ req[q].row.rev <= revs
      BY IsReader DEF Sound, Seals, ReaderSeal, ReadSeal, Reader, Row, OnRead
    <2>5. \A q \in Requests : SetsUp(req[q]) => req[q].rev \in 1..revs
      BY DEF Sound, Seals, SetSeal
    <2> HIDE DEF n
    <2>6. RowSeal(row, n)
      BY <2>1, <2>2 DEF RowSeal
    <2>7. \A c \in DOMAIN client : ClientSeal(client[c], row, n)
      BY <2>1, <2>3 DEF Sound, Seals, ClientSeal
    <2>8. ASSUME NEW q \in Requests
          PROVE  ReaderSeal(req'[q], row, client, n)
      <3>1. CASE q = r
        BY <1>10, <1>11, <3>1 DEF ReaderSeal
      <3>2. CASE q # r
        <4>1. ReaderSeal(req[q], row, client, revs) /\ req'[q] = req[q]
          BY <1>11, <3>2 DEF Sound, Seals
        <4> QED BY <2>1, <2>4, <4>1 DEF ReaderSeal, ReadSeal
      <3> QED BY <3>1, <3>2
    <2>9. ASSUME NEW q \in Requests
          PROVE  SetSeal(q, row, client, req', n)
      <3>1. \A p \in Requests : OnRead(req'[p]) => p # r /\ req'[p] = req[p]
        BY <1>10, <1>11
      <3>2. ASSUME q = r
            PROVE  SetSeal(q, row, client, req', n)
        <4>1. y.rev = n /\ n \in 1..n /\ row[y.id].at # "none"
          BY <1>1, <1>2, <1>4 DEF n
        <4>2. \A j \in Ids : row[j].rev # n
          BY <2>1, <2>2
        <4>3. \A c \in DOMAIN client : client[c].rev # n
          BY <2>1, <2>3
        <4>4. \A p \in Requests : OnRead(req'[p]) => req'[p].row.rev # n
          BY <2>1, <2>4, <3>1
        <4>5. \A p \in Requests \ {r} : SetsUp(req'[p]) => req'[p].rev # n
          BY <1>2, <1>11, <2>5 DEF n
        <4> QED BY <1>11, <3>2, <4>1, <4>2, <4>3, <4>4, <4>5 DEF SetSeal
      <3>3. ASSUME q # r, SetsUp(req'[q])
            PROVE  SetSeal(q, row, client, req', n)
        <4>1. req'[q] = req[q] /\ SetSeal(q, row, client, req, revs) /\ SetsUp(req[q])
          BY <1>11, <3>3 DEF Sound, Seals
        <4>2. req[q].rev \in 1..n /\ req[q].rev # n
          BY <1>2, <2>5, <4>1 DEF n
        <4>3. \A p \in Requests : OnRead(req'[p]) => req'[p].row.rev # req[q].rev
          BY <3>1, <4>1 DEF SetSeal
        <4>4. ASSUME NEW p \in Requests \ {q}, SetsUp(req'[p])
              PROVE  req'[p].rev # req[q].rev
          <5>1. CASE p = r
            BY <1>1, <1>4, <1>11, <4>2, <5>1 DEF n
          <5>2. CASE p # r
            BY <1>11, <4>1, <4>4, <5>2 DEF SetSeal
          <5> QED BY <5>1, <5>2
        <4> QED BY <4>1, <4>2, <4>3, <4>4 DEF SetSeal
      <3>4. ~SetsUp(req'[q]) => SetSeal(q, row, client, req', n)
        BY DEF SetSeal
      <3> QED BY <3>2, <3>3, <3>4
    <2>10. \A p, q \in Requests : Twins(req'[p], req'[q])
      BY <1>10, <1>11 DEF Sound, Seals, Twins
    <2>11. CacheSeal(cached, client) /\ revs' = n
      BY <1>1 DEF Sound, Seals, n
    <2> QED BY <1>1, <2>6, <2>7, <2>8, <2>9, <2>10, <2>11 DEF Seals
  <1>13. /\ DropOK(y, grants) /\ RevokeOK(y, grants)
         /\ CheckOK(y, row, grants) /\ SignOK(y, row, grants, client)
    BY <1>4, <1>10 DEF DropOK, RevokeOK, CheckOK, SignOK, Past
  <1>14. Granted'
    BY <1>1, <1>5, <1>13, GrantedQuiet DEF Sound
  <1> QED BY <1>7, <1>8, <1>9, <1>12, <1>14 DEF Sound

(* Restart: nobody is doing anything, and the tables are what they were. *)
LEMMA RestartStep ==
    ASSUME Sound, Restart, UNCHANGED story
    PROVE  Sound'
  <1>1. /\ req' = [r \in Requests |-> Idle] /\ client' = <<>> /\ breaker' = <<>>
        /\ account' = NoToken /\ flight' = [f \in 1..MaxFlights |-> "none"]
        /\ cached' = [i \in Ids |-> 0]
        /\ UNCHANGED <<clock, offers, row, grants, calls, admitted, revs, story>>
    BY DEF Restart
  <1>2. /\ DOMAIN req' = Requests /\ \A q \in Requests : req'[q] = Idle
        /\ Idle.pc = "idle" /\ Shape(Idle) /\ ~OnRead(Idle) /\ ~SetsUp(Idle)
        /\ Idle.pc \notin Past /\ Idle.pc \notin Leads \cup {"wait"} /\ Idle.pc \notin InCall
    BY <1>1 DEF Idle, Shape, Other, OnRead, SetsUp, Past, Early, Leads, InCall
  <1>3. DOMAIN client' = {} /\ DOMAIN breaker' = {}
    BY <1>1
  <1>4. Typed'
    <2>1. Clients(client', breaker')
      <3>1. 1..0 = {} /\ client' \in [1..0 -> Client] /\ breaker' \in [1..0 -> Breaker]
        BY <1>1
      <3> QED BY <3>1, Numbers DEF Clients
    <2>2. /\ account' \in [refreshAt: Nat, flight: 0..MaxFlights]
          /\ flight' \in [1..MaxFlights -> Came \cup {"running"}]
          /\ cached' \in [Ids -> 0..MaxClients]
      BY <1>1, Numbers DEF NoToken, Came
    <2>3. Memory' /\ Stored'
      BY <1>1, <2>1, <2>2 DEF Sound, Typed, Memory, Stored
    <2> QED BY <1>2, <2>3 DEF Typed
  <1>5. Breakers'
    BY <1>2, <1>3 DEF Breakers
  <1>6. Flights'
    <2>1. account'.flight = 0 /\ \A f \in 1..MaxFlights : flight'[f] # "running"
      BY <1>1 DEF NoToken
    <2>2. \A q \in Requests : req'[q].pc \notin {"settle", "close"}
      BY <1>2
    <2> QED BY <1>2, <2>1, <2>2 DEF Flights
  <1>7. Seals'
    <2>1. \A q \in Requests : ReaderSeal(req'[q], row, client', revs)
      BY <1>2 DEF ReaderSeal
    <2>2. \A q \in Requests : SetSeal(q, row, client', req', revs)
      BY <1>2 DEF SetSeal
    <2>3. \A p, q \in Requests : Twins(req'[p], req'[q])
      BY <1>2 DEF Twins
    <2>4. RowSeal(row, revs) /\ CacheSeal(cached', client')
      BY <1>1 DEF Sound, Seals, CacheSeal
    <2> QED BY <1>1, <1>3, <2>1, <2>2, <2>3, <2>4 DEF Seals
  <1>8. Granted'
    <2>1. \A q \in Requests : /\ DropOK(req'[q], grants) /\ RevokeOK(req'[q], grants)
                              /\ CheckOK(req'[q], row, grants) /\ SignOK(req'[q], row, grants, client')
      BY <1>2 DEF DropOK, RevokeOK, CheckOK, SignOK, Past
    <2>2. \A g \in GrantIds : Standing(g, row, grants)'
      BY <1>1 DEF Sound, Granted, Standing
    <2> QED BY <1>1, <2>1, <2>2 DEF Sound, Granted
  <1> QED BY <1>4, <1>5, <1>6, <1>7, <1>8 DEF Sound

--------------------------------------------------------------------------------
(* A client is built: it is for what was read, and those there were are as they were. *)
LEMMA GrowStep ==
    ASSUME Sound, NEW r \in Requests, NEW n \in Nat, n + 1 \in 0..MaxClients, DOMAIN client = 1..n,
           NEW y \in Reader, Goto(r, y), req[r].pc = "row", Kin(req[r], y), y.client = n + 1,
           y.grant = req[r].grant, y.pc \in {"request", "check", "guard"},
           y.pc = "check" <=> y.use = "check",
           DOMAIN client' = 1..(n + 1), client' = [d \in 1..(n + 1) |-> client'[d]],
           DOMAIN breaker' = 1..(n + 1), breaker' = [d \in 1..(n + 1) |-> breaker'[d]],
           \A d \in 1..n : client'[d] = client[d] /\ breaker'[d] = breaker[d],
           client'[n + 1] \in Client, client'[n + 1].id = req[r].id,
           client'[n + 1].rev = req[r].row.rev, Alike(client'[n + 1], req[r].row),
           breaker'[n + 1] = Closed, cached' = [cached EXCEPT ![req[r].id] = n + 1],
           UNCHANGED <<clock, offers, account, flight, story>>,
           UNCHANGED <<row, grants, revs, calls, admitted>>
    PROVE  Sound'
  <1> DEFINE x == req[r]
             new == client'[n + 1]
  <1>1. req'[r] = y /\ \A q \in Requests \ {r} : req'[q] = req[q]
    BY Moves DEF Sound
  <1>2. /\ 1..n \subseteq 1..(n + 1) /\ n + 1 \notin 1..n /\ n + 1 # 0 /\ n + 1 \in 1..(n + 1)
        /\ \A d \in 1..(n + 1) : d \in 1..n \/ d = n + 1
    OBVIOUS
  <1>3. /\ y.pc \in Early /\ y.pc \notin Past /\ y.pc \notin InCall /\ y.pc \notin Leads \cup {"wait"}
        /\ y.pc # "rate" /\ y.pc # "row" /\ y.pc # "consume" /\ Shape(y) /\ OnRead(y) /\ ~SetsUp(y)
        /\ y.pc # "drop"
    BY DEF Early, Past, InCall, Leads, Shape, OnRead, SetsUp
  <1>4. /\ x.pc \in Early /\ x.pc \notin InCall /\ x.pc \notin Leads /\ OnRead(x) /\ x \in Reader
        /\ x.id \in Ids /\ x.row \in Row /\ x.pc \notin Past
    <2>1. x.pc \in Early /\ x.pc \notin InCall /\ x.pc \notin Leads /\ OnRead(x) /\ x.pc \notin Past
      BY DEF Early, InCall, Leads, OnRead, Past
    <2>2. x \in Reader
      BY <2>1, IsReader DEF Sound
    <2> QED BY <2>1, <2>2 DEF Reader
  <1>5. /\ DOMAIN breaker = 1..n /\ \A d \in 1..n : client[d] \in Client /\ breaker[d] \in Breaker
    BY ClientsType DEF Sound
  <1>6. Closed \in Breaker /\ BreakerOK(Closed, {})
    BY ReadsAssumption DEF Closed, Breaker, BreakerOK
  <1>7. Typed'
    <2>1. /\ \A d \in 1..(n + 1) : client'[d] \in Client /\ breaker'[d] \in Breaker
      BY <1>2, <1>5, <1>6
    <2>2. client' \in [1..(n + 1) -> Client] /\ breaker' \in [1..(n + 1) -> Breaker]
      BY <2>1
    <2>3. Clients(client', breaker')
      BY <2>2 DEF Clients
    <2>4. cached' \in [Ids -> 0..MaxClients]
      BY <1>4 DEF Sound, Typed, Stored
    <2>5. Memory' /\ Stored'
      BY <2>3, <2>4 DEF Sound, Typed, Memory, Stored
    <2> QED BY <1>3, <2>5, TypedMoves DEF Sound
  <1>8. Breakers'
    <2>1. \A c : Probes(req', c) = Probes(req, c)
      BY <1>1, <1>3, <1>4 DEF Probes
    <2>2. \A q \in Requests : req[q].pc \in InCall => req[q].client \in 1..n
      BY <1>5 DEF Sound, Breakers, InCall, Past
    <2>3. Probes(req, n + 1) = {}
      BY <1>2, <2>2 DEF Probes
    <2>4. \A q \in Requests : req'[q].pc \in Past => req'[q].client \in DOMAIN breaker'
      BY <1>1, <1>2, <1>3, <1>5 DEF Sound, Breakers
    <2>5. \A c \in 1..n : BreakerOK(breaker[c], Probes(req, c))
      BY <1>5 DEF Sound, Breakers
    <2>6. \A c \in DOMAIN breaker' : BreakerOK(breaker'[c], Probes(req', c))
      BY <1>2, <1>6, <2>1, <2>3, <2>5
    <2> QED BY <2>4, <2>6 DEF Breakers
  <1>9. Flights'
    BY <1>3, <1>4, FlightsQuiet DEF Sound
  <1>10. /\ \A q \in Requests : ReaderSeal(req[q], row, client, revs)
         /\ \A q \in Requests : SetSeal(q, row, client, req, revs)
         /\ \A p, q \in Requests : Twins(req[p], req[q])
         /\ RowSeal(row, revs) /\ CacheSeal(cached, client)
         /\ \A c \in 1..n : ClientSeal(client[c], row, revs)
    BY DEF Sound, Seals
  <1>11. y.id = x.id /\ y.row = x.row /\ y.use = x.use
    BY DEF Kin
  <1>12. \A q \in Requests : OnRead(req'[q]) =>
            OnRead(req[q]) /\ req'[q].id = req[q].id /\ req'[q].row = req[q].row
    BY <1>1, <1>4, <1>11
  <1>13. Seals'
    <2>1. \A c \in DOMAIN client' : ClientSeal(client'[c], row, revs)
      <3>1. ClientSeal(new, row, revs)
        <4>1. ReadSeal(x, row, revs)
          BY <1>4, <1>10 DEF ReaderSeal
        <4> QED BY <4>1 DEF ReadSeal, ClientSeal, Alike
      <3> QED BY <1>2, <1>10, <3>1
    <2>2. ASSUME NEW q \in Requests, OnRead(req'[q])
          PROVE  ReaderSeal(req'[q], row, client', revs)
      <3>1. ReaderSeal(req[q], row, client, revs) /\ OnRead(req[q]) /\ Twins(x, req[q])
        BY <1>10, <1>12, <2>2
      <3>2. req'[q].id = req[q].id /\ req'[q].row = req[q].row
        BY <1>12, <2>2
      <3>3. ReadSeal(req'[q], row, revs)
        BY <3>1, <3>2 DEF ReaderSeal, ReadSeal
      <3>4. Pair(new, req'[q])
        <4>1. x.id = req[q].id /\ x.row.rev = req[q].row.rev => Alike(x.row, req[q].row)
          BY <1>4, <3>1 DEF Twins
        <4> QED BY <3>2, <4>1 DEF Pair, Alike
      <3>5. \A c \in 1..n : Pair(client[c], req'[q])
        BY <3>1, <3>2 DEF ReaderSeal, Pair
      <3>6. \A c \in DOMAIN client' : Pair(client'[c], req'[q])
        BY <1>2, <3>4, <3>5
      <3>7. GoesTo(req'[q], client')
        <4>1. CASE q = r
          <5>1. y.client \in DOMAIN client' /\ Alike(client'[y.client], y.row)
            BY <1>2, <1>11
          <5> QED BY <1>1, <4>1, <5>1 DEF GoesTo
        <4>2. CASE q # r
          <5>1. req'[q] = req[q] /\ GoesTo(req[q], client)
            BY <1>1, <3>1, <4>2 DEF ReaderSeal
          <5> QED BY <1>2, <5>1 DEF GoesTo
        <4> QED BY <4>1, <4>2
      <3> QED BY <3>3, <3>6, <3>7 DEF ReaderSeal
    <2>3. ASSUME NEW q \in Requests, SetsUp(req'[q])
          PROVE  SetSeal(q, row, client', req', revs)
      <3>1. q # r /\ req'[q] = req[q] /\ SetSeal(q, row, client, req, revs) /\ SetsUp(req[q])
        BY <1>1, <1>3, <1>10, <2>3
      <3>2. new.rev # req[q].rev
        BY <1>4, <3>1 DEF SetSeal
      <3>3. \A c \in DOMAIN client' : client'[c].rev # req[q].rev
        BY <1>2, <3>1, <3>2 DEF SetSeal
      <3>4. \A p \in Requests : OnRead(req'[p]) => req'[p].row.rev # req[q].rev
        BY <1>12, <3>1 DEF SetSeal
      <3>5. \A p \in Requests \ {q} : SetsUp(req'[p]) => req'[p].rev # req[q].rev
        BY <1>1, <1>3, <3>1 DEF SetSeal
      <3> QED BY <3>1, <3>3, <3>4, <3>5 DEF SetSeal
    <2>4. \A p, q \in Requests : Twins(req'[p], req'[q])
      BY <1>10, <1>12 DEF Twins
    <2>5. CacheSeal(cached', client')
      <3>1. cached \in [Ids -> 0..MaxClients]
        BY DEF Sound, Typed, Stored
      <3> SUFFICES ASSUME NEW j \in Ids, cached'[j] # 0
                   PROVE  cached'[j] \in DOMAIN client' /\ client'[cached'[j]].id = j
        BY DEF CacheSeal
      <3>2. CASE j = x.id
        BY <1>2, <3>1, <3>2
      <3>3. CASE j # x.id
        <4>1. cached'[j] = cached[j]
          BY <3>1, <3>3
        <4>2. cached[j] \in 1..n /\ client[cached[j]].id = j
          BY <1>10, <4>1 DEF CacheSeal
        <4> QED BY <1>2, <4>1, <4>2
      <3> QED BY <3>2, <3>3
    <2>6. \A q \in Requests : ReaderSeal(req'[q], row, client', revs) /\ SetSeal(q, row, client', req', revs)
      BY <2>2, <2>3 DEF ReaderSeal, SetSeal
    <2> QED BY <1>10, <2>1, <2>4, <2>5, <2>6 DEF Seals
  <1>14. Granted'
    <2>1. \A q \in Requests : /\ DropOK(req[q], grants) /\ RevokeOK(req[q], grants)
                              /\ CheckOK(req[q], row, grants) /\ SignOK(req[q], row, grants, client)
      BY DEF Sound, Granted
    <2>2. /\ DropOK(y, grants) /\ RevokeOK(y, grants) /\ SignOK(y, row, grants, client')
      BY <1>3 DEF DropOK, RevokeOK, SignOK
    <2>3. CheckOK(y, row, grants)
      <3>1. CheckOK(x, row, grants)
        BY <2>1
      <3> QED BY <1>3, <1>4, <1>11, <3>1 DEF CheckOK
    <2>4. ASSUME NEW q \in Requests \ {r}
          PROVE  SignOK(req[q], row, grants, client')
      <3>1. req[q].pc \in Past \cup {"rate"} => req[q].client \in 1..n
        BY <1>10 DEF ReaderSeal, GoesTo, OnRead, Past, Early
      <3> QED BY <2>1, <3>1 DEF SignOK
    <2>5. \A q \in Requests : /\ DropOK(req'[q], grants) /\ RevokeOK(req'[q], grants)
                              /\ CheckOK(req'[q], row, grants) /\ SignOK(req'[q], row, grants, client')
      BY <1>1, <2>1, <2>2, <2>3, <2>4
    <2>6. \A g \in GrantIds : Standing(g, row, grants)'
      BY DEF Sound, Granted, Standing
    <2> QED BY <2>5, <2>6 DEF Sound, Granted
  <1> QED BY <1>7, <1>8, <1>9, <1>13, <1>14 DEF Sound

(* reader: the client that is served, or built, is for the registration that was read. *)
LEMMA ReaderStep ==
    ASSUME Sound, NEW r \in Requests, reader(r), UNCHANGED story
    PROVE  Sound'
  <1> DEFINE x == req[r]
             i == x.id
             known == x.row
             c == IF Serves(cached[i], known) THEN cached[i] ELSE Cardinality(DOMAIN client) + 1
             pc == CASE x.use = "grant" -> "request" [] x.use = "check" -> "check" [] OTHER -> "guard"
             y == [x EXCEPT !.client = c, !.pc = pc]
             built == [id |-> i, kind |-> known.kind, end |-> known.end, surface |-> known.surface,
                       rev |-> known.rev]
  <1>1. /\ x.pc = "row" /\ c <= MaxClients /\ cached' = [cached EXCEPT ![i] = c] /\ Goto(r, y)
        /\ IF c \in DOMAIN client THEN UNCHANGED <<client, breaker>>
           ELSE /\ client' = [d \in 1..c |-> IF d \in DOMAIN client THEN client[d] ELSE built]
                /\ breaker' = [d \in 1..c |-> IF d \in DOMAIN breaker THEN breaker[d] ELSE Closed]
        /\ UNCHANGED <<clock, offers, account, flight, story>>
        /\ UNCHANGED <<row, grants, revs, calls, admitted>>
    BY DEF reader, At
  <1>2. PICK n \in 0..MaxClients : DOMAIN client = 1..n /\ Cardinality(DOMAIN client) = n
    BY ClientsType DEF Sound
  <1>3. x \in Reader /\ OnRead(x) /\ i \in Ids /\ known \in Row
    <2>1. x \in Reader /\ OnRead(x)
      BY <1>1, IsReader DEF Sound, Early, OnRead
    <2> QED BY <2>1 DEF Reader
  <1>4. pc \in {"request", "check", "guard"} /\ (pc = "check" <=> x.use = "check")
    BY <1>3 DEF Reader, Use
  <1>5. cached \in [Ids -> 0..MaxClients] /\ CacheSeal(cached, client) /\ ReaderSeal(x, row, client, revs)
        /\ CheckOK(x, row, grants)
    BY DEF Sound, Typed, Stored, Seals, Granted
  <1>6. c \in 0..MaxClients
    <2>1. cached[i] \in 0..MaxClients /\ n \in Nat /\ MaxClients \in Nat
      BY <1>2, <1>3, <1>5, Numbers
    <2>2. CASE Serves(cached[i], known)
      BY <2>1, <2>2
    <2>3. CASE ~Serves(cached[i], known)
      <3>1. c = n + 1
        BY <1>2, <2>3
      <3> QED BY <1>1, <2>1, <3>1
    <2> QED BY <2>2, <2>3
  <1>7. /\ y \in Reader /\ Kin(x, y) /\ y.pc = pc /\ y.client = c /\ y.grant = x.grant
    <2>1. pc \in Early
      BY <1>4 DEF Early
    <2> HIDE DEF pc, c
    <2> QED BY <1>3, <1>6, <2>1 DEF Reader, Kin
  <1> HIDE DEF pc, y
  <1>8. y.pc = "check" <=> y.use = "check"
    BY <1>4, <1>7 DEF Kin
  <1>9. CASE Serves(cached[i], known)
    <2>1. c = cached[i] /\ c # 0 /\ client[c].rev = known.rev
      BY <1>9 DEF Serves
    <2>2. c \in DOMAIN client /\ client[c].id = i
      BY <1>3, <1>5, <2>1 DEF CacheSeal
    <2>3. Alike(client[c], known)
      BY <1>3, <1>5, <2>1, <2>2 DEF ReaderSeal, Pair
    <2>4. cached' = cached
      BY <1>1, <1>3, <1>5, <2>1
    <2>5. UNCHANGED still
      BY <1>1, <2>2, <2>4 DEF still
    <2> HIDE DEF c
    <2>6. ReaderSeal(y, row, client, revs)
      BY <1>3, <1>5, <1>7, <2>2, <2>3 DEF ReaderSeal, ReadSeal, GoesTo, Pair, Kin
    <2>7. CheckOK(y, row, grants)
      <3>1. y.pc # "consume" /\ y.pc # "row" /\ OnRead(y)
        BY <1>4, <1>7 DEF OnRead, Early
      <3> QED BY <1>3, <1>5, <1>7, <1>8, <3>1 DEF CheckOK, Kin
    <2>8. SignOK(y, row, grants, client)
      BY <1>4, <1>7 DEF SignOK, Past
    <2>9. y.pc \in Early /\ x.pc \notin InCall \cup Leads /\ y.row = x.row /\ y.id = x.id
      BY <1>1, <1>4, <1>7 DEF Early, InCall, Leads, Kin
    <2>10. calls' \in [0..MaxTime -> Nat] /\ admitted' \in [0..MaxTime -> Nat]
      BY <1>1 DEF Sound, Typed, Stored
    <2> QED BY <1>1, <1>3, <1>7, <2>5, <2>6, <2>7, <2>8, <2>9, <2>10, ReadStep
  <1>10. CASE ~Serves(cached[i], known)
    <2>1. c = n + 1 /\ n \in Nat
      BY <1>2, <1>10, Numbers
    <2>2. c \notin 1..n /\ 1..n \subseteq 1..(n + 1) /\ n + 1 \in 1..(n + 1) /\ n + 1 \notin 1..n
      BY <2>1
    <2>3. DOMAIN breaker = 1..n
      BY <1>2, ClientsType DEF Sound
    <2>4. /\ client' = [d \in 1..(n + 1) |-> IF d \in 1..n THEN client[d] ELSE built]
          /\ breaker' = [d \in 1..(n + 1) |-> IF d \in 1..n THEN breaker[d] ELSE Closed]
      BY <1>1, <1>2, <2>1, <2>2, <2>3
    <2>5. /\ built \in Client /\ built.id = i /\ built.rev = known.rev /\ Alike(built, known)
      BY <1>3 DEF Client, Row, Alike
    <2> HIDE DEF built
    <2>6. /\ DOMAIN client' = 1..(n + 1) /\ client' = [d \in 1..(n + 1) |-> client'[d]]
          /\ DOMAIN breaker' = 1..(n + 1) /\ breaker' = [d \in 1..(n + 1) |-> breaker'[d]]
          /\ \A d \in 1..n : client'[d] = client[d] /\ breaker'[d] = breaker[d]
          /\ client'[n + 1] = built /\ breaker'[n + 1] = Closed
      BY <2>2, <2>4
    <2>7. n + 1 \in 0..MaxClients /\ y.client = n + 1 /\ cached' = [cached EXCEPT ![i] = n + 1]
      BY <1>1, <1>6, <1>7, <2>1
    <2> HIDE DEF c, x
    <2>8. y.pc \in {"request", "check", "guard"}
      BY <1>4, <1>7
    <2> QED BY <1>1, <1>2, <1>7, <1>8, <2>1, <2>5, <2>6, <2>7, <2>8, GrowStep DEF x
  <1> QED BY <1>9, <1>10

--------------------------------------------------------------------------------
(* The hour that ends at t. *)
Window(t) == (IF t < Hour THEN 0 ELSE t - Hour + 1)..t

(* That hour is a finite stretch of the times there are. *)
LEMMA Windows ==
    ASSUME NEW t \in 0..MaxTime
    PROVE  /\ Window(t) \in SUBSET (0..MaxTime) /\ IsFiniteSet(0..MaxTime)
           /\ \A s \in Window(t) : s > t - Hour /\ s <= t
  <1>1. MaxTime \in Nat /\ Hour \in Nat /\ 0 \in Int /\ MaxTime \in Int /\ Hour # 0
    BY Numbers
  <1>2. IsFiniteSet(0..MaxTime)
    BY <1>1, FS_Interval
  <1> QED BY <1>1, <1>2 DEF Window

(* What Between adds up. *)
LEMMA BetweenIsSum ==
    ASSUME NEW f \in [0..MaxTime -> Nat], NEW from, NEW to, from..to \in SUBSET (0..MaxTime)
    PROVE  Between(f, from, to) = Sum(f, from..to)
  <1>1. IsFiniteSet(DOMAIN f) /\ from..to \subseteq DOMAIN f
    <2>1. MaxTime \in Int /\ 0 \in Int
      BY Numbers
    <2>2. IsFiniteSet(0..MaxTime)
      BY <2>1, FS_Interval
    <2> QED BY <2>2
  <1> QED BY <1>1, SumComputes DEF Between

(* No more than the most any grant allows, told as sums. *)
LEMMA RateIsSum ==
    ASSUME Typed
    PROVE  RateHeld <=> \A t \in 0..MaxTime : \A most \in story.rates :
                           (\A m \in story.rates : m <= most) => Sum(admitted, Window(t)) <= most
  <1>1. admitted \in [0..MaxTime -> Nat]
    BY DEF Typed, Stored
  <1>2. \A t \in 0..MaxTime :
           Between(admitted, IF t < Hour THEN 0 ELSE t - Hour + 1, t) = Sum(admitted, Window(t))
    BY <1>1, Windows, BetweenIsSum DEF Window
  <1> QED BY <1>2 DEF RateHeld

(* AllowConnectorCall: what is kept holds every call of the hour that ends now or later,   *)
(* so one more than what is kept is within what the grant allows.                          *)
LEMMA AllowRates ==
    ASSUME IInv, NEW r \in Requests, AllowConnectorCall(r), UNCHANGED story, Typed'
    PROVE  Counts' /\ RateHeld'
  <1> DEFINE D == 0..MaxTime
             kept == Recent(calls)
             rate == grants[req[r].grant].rate
  <1>1. clock' = clock /\ clock \in D /\ calls \in [D -> Nat] /\ admitted \in [D -> Nat]
        /\ admitted' \in [D -> Nat]
    BY DEF IInv, Typed, Memory, Stored, AllowConnectorCall, outside
  <1>2. \/ UNCHANGED <<calls, admitted>>
        \/ /\ Between(kept, 0, MaxTime) < rate
           /\ calls' = [kept EXCEPT ![clock] = @ + 1]
           /\ admitted' = [admitted EXCEPT ![clock] = @ + 1]
    BY DEF AllowConnectorCall
  <1>3. CASE UNCHANGED <<calls, admitted>>
    BY <1>1, <1>3 DEF IInv, Counts, RateHeld
  <1>4. ASSUME Between(kept, 0, MaxTime) < rate,
               calls' = [kept EXCEPT ![clock] = @ + 1],
               admitted' = [admitted EXCEPT ![clock] = @ + 1]
        PROVE  Counts' /\ RateHeld'
    <2>1. Hour \in Nat /\ Hour # 0 /\ MaxTime \in Nat
      BY Numbers
    <2>2. /\ kept \in [D -> Nat] /\ \A t \in D : t > clock - Hour => kept[t] = calls[t]
      BY <1>1, <2>1 DEF Recent
    <2>3. \A t \in D : t > clock - Hour => kept[t] = admitted[t]
      BY <2>2 DEF IInv, Counts
    <2> HIDE DEF kept
    <2>4. /\ calls'[clock] = kept[clock] + 1 /\ admitted'[clock] = admitted[clock] + 1
          /\ \A t \in D \ {clock} : calls'[t] = kept[t] /\ admitted'[t] = admitted[t]
      BY <1>1, <1>4, <2>2
    <2>5. Counts'
      <3>1. \A t \in D : t > clock - Hour => calls'[t] = admitted'[t]
        BY <2>3, <2>4
      <3> QED BY <1>1, <3>1 DEF Counts
    <2>6. rate \in story.rates /\ story.rates \subseteq Nat
      <3>1. req[r].pc = "rate" /\ SignOK(req[r], row, grants, client)
        BY DEF AllowConnectorCall, At, IInv, Granted
      <3>2. req[r].grant \in GrantIds /\ grants[req[r].grant].at # "none"
        BY <3>1 DEF SignOK
      <3>3. rate \in story.rates
        BY <3>2 DEF IInv, Granted, Standing
      <3>4. story.rates \subseteq Nat
        BY ConnectorsAssumption DEF IInv, Typed, Memory
      <3> QED BY <3>3, <3>4
    <2>7. Sum(kept, D) < rate /\ Sum(kept, D) \in Nat
      <3>1. IsFiniteSet(D) /\ D \in SUBSET D
        BY <1>1, Windows
      <3>2. Between(kept, 0, MaxTime) = Sum(kept, D)
        BY <2>2, <3>1, BetweenIsSum
      <3>3. Sum(kept, D) \in Nat
        BY <2>2, <3>1, SumTerm
      <3> QED BY <1>4, <3>2, <3>3
    <2>8. ASSUME NEW t \in D, NEW most \in story.rates, \A m \in story.rates : m <= most
          PROVE  Sum(admitted', Window(t)) <= most
      <3> DEFINE W == Window(t)
      <3>1. W \in SUBSET D /\ IsFiniteSet(D) /\ W \ {clock} \in SUBSET D
            /\ DOMAIN admitted = D /\ DOMAIN admitted' = D /\ DOMAIN kept = D
        BY <1>1, <2>2, Windows
      <3>2. Sum(admitted, W) <= most
        BY <2>8, RateIsSum DEF IInv
      <3>3. CASE clock \notin W
        <4>1. \A s \in W : admitted'[s] = admitted[s]
          BY <2>4, <3>1, <3>3
        <4>2. Sum(admitted', W) = Sum(admitted, W)
          BY <3>1, <4>1, SumAgree
        <4> QED BY <3>2, <4>2
      <3>4. CASE clock \in W
        <4>1. \A s \in W : s > clock - Hour
          <5>1. t >= clock /\ \A s \in W : s > t - Hour /\ s \in D
            BY <3>1, <3>4, Windows
          <5> QED BY <1>1, <2>1, <5>1
        <4>2. \A s \in W : kept[s] = admitted[s]
          BY <2>3, <3>1, <4>1
        <4>3. Sum(kept, W) = Sum(admitted, W)
          BY <3>1, <4>2, SumAgree
        <4>4. Sum(kept, W) <= Sum(kept, D) /\ Sum(kept, W) \in Nat
          <5>1. D \in SUBSET D /\ W \in SUBSET D
            BY <3>1
          <5> QED BY <2>2, <3>1, <5>1, SumGrows, SumTerm
        <4>5. /\ Sum(admitted', W) = admitted'[clock] + Sum(admitted', W \ {clock})
              /\ Sum(admitted, W) = admitted[clock] + Sum(admitted, W \ {clock})
          <5> HIDE DEF W, D
          <5>1. Sum(admitted', W) = admitted'[clock] + Sum(admitted', W \ {clock})
            BY <1>1, <3>1, <3>4, SumTerm
          <5>2. Sum(admitted, W) = admitted[clock] + Sum(admitted, W \ {clock})
            BY <1>1, <3>1, <3>4, SumTerm
          <5> QED BY <5>1, <5>2
        <4>6. Sum(admitted', W \ {clock}) = Sum(admitted, W \ {clock})
          <5>1. \A s \in W \ {clock} : admitted'[s] = admitted[s]
            BY <2>4, <3>1
          <5> QED BY <3>1, <5>1, SumAgree
        <4>7. Sum(admitted, W \ {clock}) \in Nat /\ admitted[clock] \in Nat
          BY <1>1, <3>1, SumTerm
        <4>8. Sum(admitted', W) = Sum(kept, W) + 1
          BY <2>4, <4>3, <4>5, <4>6, <4>7
        <4>9. rate <= most /\ rate \in Nat /\ most \in Nat
          BY <2>6, <2>8
        <4> HIDE DEF W, D, rate
        <4>10. Sum(admitted', W) <= most
          BY <2>7, <4>4, <4>8, <4>9
        <4> QED BY <4>10 DEF W
      <3> QED BY <3>3, <3>4
    <2>9. RateHeld'
      <3>1. \A t \in D : \A most \in story'.rates :
               (\A m \in story'.rates : m <= most) => Sum(admitted', Window(t)) <= most
        BY <2>8
      <3>2. RateHeld' <=> \A t \in 0..MaxTime : \A most \in story'.rates :
                           (\A m \in story'.rates : m <= most) => Sum(admitted', Window(t)) <= most
        <4>1. \A t \in 0..MaxTime :
                 Between(admitted', IF t < Hour THEN 0 ELSE t - Hour + 1, t) = Sum(admitted', Window(t))
          BY <1>1, Windows, BetweenIsSum DEF Window
        <4> QED BY <4>1 DEF RateHeld
      <3> QED BY <3>1, <3>2
    <2> QED BY <2>5, <2>9
  <1> QED BY <1>2, <1>3, <1>4

--------------------------------------------------------------------------------
(* Drafts and proposals: the request ends, or turns to its draft. *)
LEMMA DecidingStep ==
    ASSUME Sound, NEW r \in Requests, Deciding(r), UNCHANGED story
    PROVE  Sound' /\ UNCHANGED <<clock, calls, admitted, story>>
  <1>1. UNCHANGED <<still, calls, admitted>>
    BY DEF Deciding, DraftPayroll, Show, ProposeDraft, proposeBatch, Resolve, callAgentTool,
           DraftForAgent, outside, outgoing, guarding, still
  <1>2. req[r].pc \in Other \cup {"answered"}
    BY DEF Deciding, DraftPayroll, Show, ProposeDraft, proposeBatch, Resolve, callAgentTool,
           DraftForAgent, At, Other
  <1>3. \E y : Goto(r, y) /\ y.pc \in Other
    <2> DEFINE Turns == \E y : Goto(r, y) /\ y.pc \in Other
    <2>1. ASSUME Finish(r) PROVE Turns
      BY <2>1 DEF Finish, Idle, Other
    <2>2. ASSUME NEW d, NEW pays, Goto(r, [pc |-> "propose", draft |-> d, pays |-> pays]) PROVE Turns
      BY <2>2 DEF Other
    <2>3. ASSUME NEW d, NEW n, Goto(r, [pc |-> "resolve", draft |-> d, proposal |-> n]) PROVE Turns
      BY <2>3 DEF Other
    <2>4. ASSUME NEW list, Goto(r, [pc |-> "agent", list |-> list]) PROVE Turns
      BY <2>4 DEF Other
    <2> HIDE DEF Turns
    <2>5. CASE DraftPayroll(r) \/ Show(r) \/ Resolve(r) \/ DraftForAgent(r)
      BY <2>1, <2>5 DEF DraftPayroll, Show, Resolve, DraftForAgent, Turns
    <2>6. CASE \E d \in DOMAIN drafts : ProposeDraft(r, d)
      BY <2>2, <2>6 DEF ProposeDraft, Turns
    <2>7. CASE proposeBatch(r)
      BY <2>1, <2>3, <2>7 DEF proposeBatch, Turns
    <2>8. CASE \E t \in 1..MaxTokens, list \in Lists : callAgentTool(r, t, list)
      BY <2>4, <2>8 DEF callAgentTool, Turns
    <2> QED BY <2>5, <2>6, <2>7, <2>8 DEF Deciding
  <1>4. req[r].pc \notin InCall \cup Leads
    BY <1>2 DEF Other, InCall, Leads
  <1>5. Sound'
    BY <1>1, <1>3, <1>4, AsideStep
  <1> QED BY <1>1, <1>5 DEF still

(* What is none of the connectors' business. *)
LEMMA ElsewhereStep ==
    ASSUME Sound, Elsewhere, UNCHANGED story
    PROVE  Sound' /\ UNCHANGED <<clock, calls, admitted, story>>
  <1>1. /\ UNCHANGED <<clock, offers, client, breaker, account, flight, req, story>>
        /\ UNCHANGED <<row, grants, revs, cached, calls, admitted>>
    BY DEF Elsewhere, discard, CloseProposal, IssueMCPToken, RevokeMCPToken, SaveBeneficiary,
           ForgetBeneficiary, outside, outgoing, guarding
  <1>2. clock' \in 0..MaxTime /\ offers' \in [Ends -> Surfaces]
    BY <1>1 DEF Sound, Typed, Memory
  <1> QED BY <1>1, <1>2, OutsideStep

(* A step of a request at the guard, or of an admin. *)
LEMMA GuardingStep ==
    ASSUME Sound, NEW r \in Requests, Guarding(r), UNCHANGED story
    PROVE  Sound' /\ (AllowConnectorCall(r) \/ UNCHANGED <<clock, calls, admitted, story>>)
  <1>1. CASE \E i \in Ids, e \in Ends : SetUpConnector(r, i, e)
    BY <1>1, SetUpStep DEF SetUpConnector, outside
  <1>2. CASE RevokeSuperseded(r)
    BY <1>2, RevokeStep DEF RevokeSuperseded, outside, guarding
  <1>3. CASE CompleteConnectorSetup(r)
    BY <1>3, CompleteStep DEF CompleteConnectorSetup, outside
  <1>4. CASE forget(r)
    BY <1>4, ForgetStep DEF forget, outside
  <1>5. CASE \E use \in Use : ConnectorByName(r, use)
    BY <1>5, LookUpStep DEF ConnectorByName, outside, guarding
  <1>6. CASE reader(r)
    BY <1>6, ReaderStep DEF reader
  <1>7. CASE \E rate \in story.rates : RequestGrant(r, rate)
    BY <1>7, RequestStep DEF RequestGrant, outside
  <1>8. CASE \E g \in GrantIds : SubmitGrant(r, g)
    BY <1>8, LookUpStep DEF SubmitGrant, outside, guarding
  <1>9. CASE CheckStatement(r)
    BY <1>9, CheckStep DEF CheckStatement, outside, guarding
  <1>10. CASE ConsumeGrantChallenge(r)
    BY <1>10, ConsumeStep DEF ConsumeGrantChallenge, outside
  <1>11. CASE authorise(r)
    BY <1>11, AuthoriseStep DEF authorise, outside, guarding
  <1>12. CASE AllowConnectorCall(r)
    BY <1>12, AllowStep
  <1>13. CASE Fail(r)
    BY <1>13, FailStep DEF Fail, outside, guarding
  <1> QED BY <1>1, <1>2, <1>3, <1>4, <1>5, <1>6, <1>7, <1>8, <1>9, <1>10, <1>11, <1>12, <1>13
       DEF Guarding

(* What administrators do to connectors keeps the invariant. *)
LEMMA AdminStep ==
    ASSUME Sound, connectorCmd, UNCHANGED story
    PROVE  Sound' /\ UNCHANGED <<clock, calls, admitted, story>>
  <1>1. CASE \E kind \in Kinds : RegisterConnector(kind)
    BY <1>1, RegisterStep DEF RegisterConnector, outside
  <1>2. CASE \E i \in Ids : RemoveConnector(i)
    BY <1>2, RemoveStep DEF RemoveConnector, outside
  <1>3. CASE \E g \in GrantIds : RevokeGrant(g)
    BY <1>3, RevokeGrantStep DEF RevokeGrant, outside
  <1> QED BY <1>1, <1>2, <1>3 DEF connectorCmd

(* Every step preserves all of it. *)
LEMMA NextKeeps ==
    ASSUME IInv, [Next]_vars
    PROVE  IInv'
  <1>1. Sound
    BY DEF IInv, Sound
  <1>2. ASSUME UNCHANGED <<clock, calls, admitted, story>> PROVE Counts' /\ RateHeld'
    BY <1>2 DEF IInv, Counts, RateHeld
  <1>3. ASSUME Sound', Counts' /\ RateHeld' PROVE IInv'
    BY <1>3 DEF IInv, Sound
  <1>4. CASE connectorCmd /\ UNCHANGED <<deciding, story>>
    BY <1>1, <1>2, <1>3, <1>4, AdminStep
  <1>5. CASE Restart /\ UNCHANGED <<deciding, story>>
    BY <1>1, <1>2, <1>3, <1>5, RestartStep DEF Restart
  <1>6. CASE \E r \in Requests : Guarding(r) /\ UNCHANGED <<deciding, story>>
    <2>1. PICK r \in Requests : Guarding(r) /\ UNCHANGED story
      BY <1>6
    <2>2. Sound' /\ (AllowConnectorCall(r) \/ UNCHANGED <<clock, calls, admitted, story>>)
      BY <1>1, <2>1, GuardingStep
    <2>3. CASE AllowConnectorCall(r)
      <3>1. Typed'
        BY <2>2 DEF Sound
      <3>2. Counts' /\ RateHeld'
        BY <2>1, <2>3, <3>1, AllowRates
      <3> QED BY <1>3, <2>2, <3>2
    <2>4. CASE UNCHANGED <<clock, calls, admitted, story>>
      BY <1>2, <1>3, <2>2, <2>4
    <2> QED BY <2>2, <2>3, <2>4
  <1>7. CASE \E r \in Requests : Out(r) /\ UNCHANGED <<guarding, deciding, story>>
    <2>1. PICK r \in Requests : Out(r) /\ UNCHANGED <<guarding, story>>
      BY <1>7
    <2>2. Sound'
      BY <1>1, <2>1, OutStep
    <2>3. UNCHANGED <<clock, calls, admitted, story>>
      BY <1>1, <2>1, OutMoves DEF Sound, guarding
    <2> QED BY <1>2, <1>3, <2>2, <2>3
  <1>8. CASE Tick /\ UNCHANGED <<guarding, deciding, story>>
    <2>1. /\ clock' = clock + 1 /\ clock \in 0..MaxTime /\ clock < MaxTime /\ offers' = offers
          /\ offers \in [Ends -> Surfaces]
          /\ UNCHANGED <<client, breaker, account, flight, req, story>>
          /\ UNCHANGED <<row, grants, revs, cached, calls, admitted>>
      BY <1>1, <1>8 DEF Tick, outgoing, guarding, Sound, Typed, Memory
    <2>2. MaxTime \in Nat /\ Hour \in Nat
      BY Numbers
    <2>3. clock' \in 0..MaxTime
      BY <2>1, <2>2
    <2>4. Sound'
      BY <1>1, <2>1, <2>3, OutsideStep
    <2>5. Counts'
      <3>1. \A t \in 0..MaxTime : t > clock + 1 - Hour => t > clock - Hour
        BY <2>1, <2>2
      <3>2. \A t \in 0..MaxTime : t > clock - Hour => calls[t] = admitted[t]
        BY DEF IInv, Counts
      <3>3. \A t \in 0..MaxTime : t > clock + 1 - Hour => calls[t] = admitted[t]
        BY <3>1, <3>2
      <3>4. clock' = clock + 1 /\ clock \in Int /\ Hour \in Int /\ calls' = calls /\ admitted' = admitted
        BY <2>1, <2>2
      <3>5. \A t \in 0..MaxTime : t > clock' - Hour => calls'[t] = admitted'[t]
        BY <3>3, <3>4
      <3> QED BY <3>5 DEF Counts
    <2>6. RateHeld'
      BY <2>1 DEF IInv, RateHeld
    <2> QED BY <1>3, <2>4, <2>5, <2>6
  <1>9. CASE \E e \in Ends, s \in Surfaces : Offer(e, s) /\ UNCHANGED <<guarding, deciding, story>>
    <2>1. PICK e \in Ends, s \in Surfaces : Offer(e, s) /\ UNCHANGED <<guarding, story>>
      BY <1>9
    <2>2. /\ offers' = [offers EXCEPT ![e] = s] /\ offers \in [Ends -> Surfaces]
          /\ clock' = clock /\ clock \in 0..MaxTime
          /\ UNCHANGED <<client, breaker, account, flight, req, story>>
          /\ UNCHANGED <<row, grants, revs, cached, calls, admitted>>
      BY <1>1, <2>1 DEF Offer, outgoing, guarding, Sound, Typed, Memory
    <2>3. offers' \in [Ends -> Surfaces]
      BY <2>2
    <2>4. Sound'
      BY <1>1, <2>2, <2>3, OutsideStep
    <2> QED BY <1>2, <1>3, <2>2, <2>4
  <1>10. CASE \E r \in Requests : Deciding(r) /\ UNCHANGED story
    BY <1>1, <1>2, <1>3, <1>10, DecidingStep
  <1>11. CASE Elsewhere /\ UNCHANGED story
    BY <1>1, <1>2, <1>3, <1>11, ElsewhereStep
  <1>12. CASE UNCHANGED vars
    <2>1. /\ UNCHANGED <<clock, offers, client, breaker, account, flight, req, story>>
          /\ UNCHANGED <<row, grants, revs, cached, calls, admitted>>
      BY <1>12 DEF vars, outgoing, guarding
    <2>2. clock' \in 0..MaxTime /\ offers' \in [Ends -> Surfaces]
      BY <1>1, <2>1 DEF Sound, Typed, Memory
    <2>3. Sound'
      BY <1>1, <2>1, <2>2, OutsideStep
    <2> QED BY <1>2, <1>3, <2>1, <2>3
  <1> QED BY <1>4, <1>5, <1>6, <1>7, <1>8, <1>9, <1>10, <1>11, <1>12 DEF Next

--------------------------------------------------------------------------------
(* Initially nobody reads, and one connector may have been granted already. *)
LEMMA InitHolds ==
    ASSUME Init
    PROVE  IInv
  <1>1. /\ DOMAIN req = Requests /\ \A q \in Requests : req[q] = Idle
        /\ Idle.pc = "idle" /\ Shape(Idle) /\ ~OnRead(Idle) /\ ~SetsUp(Idle)
        /\ Idle.pc \notin Past /\ Idle.pc \notin Leads \cup {"wait"} /\ Idle.pc \notin InCall
    BY DEF Init, Idle, Shape, Other, OnRead, SetsUp, Past, Early, Leads, InCall
  <1>2. client = <<>> /\ breaker = <<>> /\ DOMAIN client = {} /\ DOMAIN breaker = {}
    <2>1. client = <<>> /\ breaker = <<>>
      BY DEF Init
    <2> QED BY <2>1
  <1>3. /\ clock = 0 /\ revs = 0 /\ story \in Stories /\ offers \in [Ends -> Surfaces]
        /\ account = NoToken /\ flight = [f \in 1..MaxFlights |-> "none"]
        /\ calls = [t \in 0..MaxTime |-> 0] /\ admitted = calls /\ cached = [i \in Ids |-> 0]
    BY DEF Init
  <1>4. story.kinds \subseteq Kinds /\ story.rates \subseteq Nat \ {0}
    BY <1>3, ConnectorsAssumption
  <1>5. /\ row \in [Ids -> Row] /\ grants \in [GrantIds -> Grant]
        /\ \A i \in Ids : row[i].rev = 0 /\ (row[i].at = "live" => i = 1)
        /\ \A g \in GrantIds : grants[g].at # "none" =>
             /\ g = 1 /\ grants[g].id = 1 /\ row[1].at = "live" /\ grants[g].rate \in story.rates
             /\ Alike(grants[g], row[1])
    <2>1. NoRow \in Row /\ NoRow.rev = 0 /\ NoRow.at = "none"
      BY DEF NoRow, Row, Kinds
    <2>2. NoGrant \in Grant /\ NoGrant.at = "none" /\ 1 \in Ids /\ 1 \in GrantIds
      <3>1. 1 \in Ids /\ 1 \in GrantIds
        BY Numbers
      <3> QED BY <3>1 DEF NoGrant, Grant, Kinds
    <2>3. CASE ~story.granted
      BY <2>1, <2>2, <2>3 DEF Init
    <2>4. CASE story.granted
      <3>1. PICK kind \in story.kinds, e \in Ends, rate \in story.rates :
               LET end == IF kind = "sheets" THEN Google ELSE e
                   surface == IF kind = "mcp" THEN offers[e] ELSE kind
               IN  /\ row = [i \in Ids |-> IF i > 1 THEN NoRow
                               ELSE [at |-> "live", kind |-> kind, end |-> end, surface |-> surface,
                                     rev |-> 0, ready |-> TRUE]]
                   /\ grants = [g \in GrantIds |-> IF g > 1 THEN NoGrant
                                  ELSE [at |-> "in force", id |-> 1, kind |-> kind, end |-> end,
                                        surface |-> surface, rate |-> rate, between |-> FALSE]]
        BY <2>4 DEF Init
      <3> DEFINE end == IF kind = "sheets" THEN Google ELSE e
                 surface == IF kind = "mcp" THEN offers[e] ELSE kind
                 one == [at |-> "live", kind |-> kind, end |-> end, surface |-> surface,
                         rev |-> 0, ready |-> TRUE]
                 first == [at |-> "in force", id |-> 1, kind |-> kind, end |-> end,
                           surface |-> surface, rate |-> rate, between |-> FALSE]
      <3>2. end \in Ends \cup {Google} /\ surface \in Surfaces \cup Kinds /\ kind \in Kinds /\ rate \in Nat
        BY <1>3, <1>4, <3>1
      <3>3. row = [i \in Ids |-> IF i > 1 THEN NoRow ELSE one]
            /\ grants = [g \in GrantIds |-> IF g > 1 THEN NoGrant ELSE first]
        BY <3>1
      <3> HIDE DEF end, surface
      <3>4. one \in Row /\ one.rev = 0 /\ one.at = "live"
        BY <3>2 DEF Row
      <3>5. first \in Grant /\ first.id = 1 /\ first.rate = rate /\ Alike(first, one)
        BY <2>2, <3>2 DEF Grant, Alike
      <3> HIDE DEF one, first
      <3>6. /\ \A i \in Ids : i > 1 \/ i = 1
            /\ \A g \in GrantIds : g > 1 \/ g = 1
        BY Numbers DEF Ids, GrantIds
      <3>7. row[1] = one /\ row \in [Ids -> Row]
            /\ \A i \in Ids : i # 1 => row[i] = NoRow
        BY <2>1, <2>2, <3>3, <3>4, <3>6
      <3>8. grants[1] = first /\ grants \in [GrantIds -> Grant]
            /\ \A g \in GrantIds : g # 1 => grants[g] = NoGrant
        BY <2>2, <3>3, <3>5, <3>6
      <3> QED BY <2>1, <2>2, <3>1, <3>4, <3>5, <3>7, <3>8
    <2> QED BY <2>3, <2>4
  <1>6. Typed
    <2>1. Clients(client, breaker)
      <3>1. 1..0 = {} /\ client \in [1..0 -> Client] /\ breaker \in [1..0 -> Breaker]
        BY <1>2
      <3> QED BY <3>1, Numbers DEF Clients
    <2>2. /\ account \in [refreshAt: Nat, flight: 0..MaxFlights]
          /\ flight \in [1..MaxFlights -> Came \cup {"running"}]
          /\ cached \in [Ids -> 0..MaxClients]
      BY <1>3, Numbers DEF NoToken, Came
    <2>3. clock \in 0..MaxTime /\ revs \in Nat /\ calls \in [0..MaxTime -> Nat]
          /\ admitted \in [0..MaxTime -> Nat]
      BY <1>3, Numbers
    <2>4. Memory /\ Stored
      BY <1>3, <1>5, <2>1, <2>2, <2>3 DEF Memory, Stored
    <2> QED BY <1>1, <2>4 DEF Typed
  <1>7. Breakers
    BY <1>1, <1>2 DEF Breakers
  <1>8. Flights
    <2>1. account.flight = 0 /\ \A f \in 1..MaxFlights : flight[f] # "running"
      BY <1>3 DEF NoToken
    <2>2. \A q \in Requests : req[q].pc \notin {"settle", "close"}
      BY <1>1
    <2> QED BY <1>1, <2>1, <2>2 DEF Flights
  <1>9. Seals
    <2>1. \A q \in Requests : ReaderSeal(req[q], row, client, revs) /\ SetSeal(q, row, client, req, revs)
      BY <1>1 DEF ReaderSeal, SetSeal
    <2>2. \A p, q \in Requests : Twins(req[p], req[q])
      BY <1>1 DEF Twins
    <2>3. RowSeal(row, revs) /\ CacheSeal(cached, client)
      BY <1>3, <1>5 DEF RowSeal, CacheSeal
    <2> QED BY <1>2, <2>1, <2>2, <2>3 DEF Seals
  <1>10. Granted
    <2>1. \A q \in Requests : /\ DropOK(req[q], grants) /\ RevokeOK(req[q], grants)
                              /\ CheckOK(req[q], row, grants) /\ SignOK(req[q], row, grants, client)
      BY <1>1 DEF DropOK, RevokeOK, CheckOK, SignOK, Past
    <2>2. OneLive(row)
      BY <1>5 DEF OneLive
    <2>3. \A g \in GrantIds : Standing(g, row, grants)
      BY <1>5 DEF Standing
    <2> QED BY <2>1, <2>2, <2>3 DEF Granted
  <1>11. Counts
    BY <1>3 DEF Counts
  <1>12. RateHeld
    <2>1. \A t \in 0..MaxTime : Sum(admitted, Window(t)) = 0
      <3> SUFFICES ASSUME NEW t \in 0..MaxTime PROVE Sum(admitted, Window(t)) = 0
        OBVIOUS
      <3>1. /\ Window(t) \in SUBSET (0..MaxTime) /\ IsFiniteSet(0..MaxTime)
            /\ admitted \in [0..MaxTime -> Nat] /\ \A s \in Window(t) : admitted[s] <= 0
        BY <1>3, <1>6, Windows DEF Typed, Stored
      <3>2. Sum(admitted, Window(t)) <= Cardinality(Window(t)) * 0 /\ Sum(admitted, Window(t)) \in Nat
        BY <3>1, SumBound, SumTerm
      <3>3. Cardinality(Window(t)) \in Nat
        BY <3>1, FS_Subset, FS_CardinalityType
      <3> QED BY <3>2, <3>3
    <2>2. \A most \in story.rates : 0 <= most
      BY <1>4
    <2> QED BY <1>6, <2>1, <2>2, RateIsSum
  <1> QED BY <1>6, <1>7, <1>8, <1>9, <1>10, <1>11, <1>12 DEF IInv

(* All of it holds of every behaviour. *)
THEOREM ConnectorsSound == Spec => []IInv
  <1>1. Init => IInv
    BY InitHolds
  <1>2. IInv /\ [Next]_vars => IInv'
    BY NextKeeps
  <1> QED BY <1>1, <1>2, PTL DEF Spec

(* A breaker probes exactly while one call that came in through it open is under way       *)
(* (connector/mcpclient/breaker.go), whatever the calls come to and however they overlap.   *)
THEOREM OneProbe == Spec => []BreakerAgrees
  <1>1. IInv => BreakerAgrees
    <2> SUFFICES ASSUME IInv, NEW c \in DOMAIN breaker
                 PROVE  /\ breaker[c].probing => breaker[c].open /\ Cardinality(Probes(req, c)) = 1
                        /\ Probes(req, c) # {} => breaker[c].probing
                        /\ breaker[c].open <=> breaker[c].failures >= Threshold
      BY DEF BreakerAgrees, Probes, InCall
    <2>1. BreakerOK(breaker[c], Probes(req, c))
      BY DEF IInv, Breakers
    <2>2. \A r : Cardinality({r}) = 1
      BY FS_Singleton
    <2> QED BY <2>1, <2>2 DEF BreakerOK
  <1> QED BY <1>1, ConnectorsSound, PTL

(* Nobody waits for a token on an exchange nobody makes, and none holds up a later reader   *)
(* (connector/sheets/serviceaccount.go).                                                   *)
THEOREM NobodyIsLeftWaiting == Spec => []WaitersAreServed
  <1>1. IInv => WaitersAreServed
    <2> SUFFICES ASSUME IInv PROVE WaitersAreServed
      OBVIOUS
    <2>1. \A r \in Requests : req[r].pc = "wait" => req[r].flight \in 1..MaxFlights
      BY DEF IInv, Flights
    <2>2. \A f \in 1..MaxFlights : flight[f] = "running" =>
             \E r \in Requests : req[r].pc \in Leads /\ req[r].flight = f
      BY DEF IInv, Flights
    <2>3. account.flight # 0 =>
             \E r \in Requests : req[r].pc \in Leads /\ req[r].flight = account.flight
      BY DEF IInv, Flights
    <2> QED BY <2>1, <2>2, <2>3 DEF WaitersAreServed, At, Leads
  <1> QED BY <1>1, ConnectorsSound, PTL

(* A set of which every two elements are one has at most one. *)
LEMMA AtMostOne ==
    ASSUME NEW S, \A x, y \in S : x = y
    PROVE  Cardinality(S) <= 1
  <1>1. CASE S = {}
    BY <1>1, FS_EmptySet
  <1>2. CASE S # {}
    <2>1. PICK x \in S : S = {x}
      BY <1>2
    <2>2. Cardinality({x}) = 1
      BY FS_Singleton
    <2> QED BY <2>1, <2>2
  <1> QED BY <1>1, <1>2

(* One connector has the name, one grant is in force for it, and what it says is the        *)
(* connector as it is now, unless it came between a set-up's statements (CompleteConnectorSetup, *)
(* ConsumeGrantChallenge).                                                                 *)
THEOREM GrantsSayWhatIs == Spec => []GrantsDescribe
  <1>1. IInv => GrantsDescribe
    <2> SUFFICES ASSUME IInv PROVE GrantsDescribe
      OBVIOUS
    <2>1. Cardinality(Live) <= 1
      <3>1. \A i, j \in Live : i = j
        BY DEF Live, IInv, Granted, OneLive
      <3> QED BY <3>1, AtMostOne
    <2>2. \A i \in Live : Cardinality(InForce(i)) <= 1
      <3> SUFFICES ASSUME NEW i \in Live PROVE Cardinality(InForce(i)) <= 1
        OBVIOUS
      <3>1. \A g, h \in InForce(i) : g = h
        BY DEF InForce, IInv, Granted, Standing
      <3> QED BY <3>1, AtMostOne
    <2>3. \A g \in GrantInForce : grants[g].between \/ Alike(grants[g], row[grants[g].id])
      BY DEF GrantInForce, IInv, Granted, Standing
    <2> QED BY <2>1, <2>2, <2>3 DEF GrantsDescribe, Alike
  <1> QED BY <1>1, ConnectorsSound, PTL

(* What is called is what the signers agreed to, unless the connector was set up again or   *)
(* removed since the read began (authorise, api/connectors.go).                            *)
THEOREM CallsWereSigned == Spec => []CallsAsSigned
  <1>1. IInv => CallsAsSigned
    <2> SUFFICES ASSUME IInv, NEW r \in Requests,
                        req[r].pc \in {"mcp", "session", "list", "tool", "token", "lead", "fetch", "range"}
                 PROVE  \/ Alike(client[req[r].client], grants[req[r].grant])
                        \/ row[req[r].id] # req[r].row
                        \/ grants[req[r].grant].between
      BY DEF CallsAsSigned, Alike
    <2>1. req[r].pc \in Past
      BY DEF Past
    <2> QED BY <2>1 DEF IInv, Granted, SignOK
  <1> QED BY <1>1, ConnectorsSound, PTL

(* No more calls go out in any hour than the most a grant allows (AllowConnectorCall).      *)
THEOREM RateIsHeld == Spec => []RateHeld
  <1>1. IInv => RateHeld
    BY DEF IInv
  <1> QED BY <1>1, ConnectorsSound, PTL

--------------------------------------------------------------------------------
(* Drafts.  A draft keeps what was read and what it pays from the moment it is saved, a    *)
(* request to propose it carries those payments, and so does the proposal it becomes.      *)
IsDraft(d) == DOMAIN d = {"rows", "status", "proposal", "document", "names"}
Drafting == {"propose", "resolve", "agent"}
CarriesOK(x, D) ==
    /\ x.pc \in {"propose", "resolve"} => x.draft \in DOMAIN D
    /\ x.pc = "propose" => x.pays = D[x.draft].rows
    /\ x.pc = "agent" => x.list \in Lists /\ draftPayments(x.list)
ProposedOK(p, D) ==
    DOMAIN p = {"draft", "pays", "status"} /\ p.draft \in DOMAIN D /\ p.pays = D[p.draft].rows
Kept(D, E) ==
    \A d \in DOMAIN D : d \in DOMAIN E /\ E[d].rows = D[d].rows /\ E[d].document = D[d].document
                        /\ E[d].names = D[d].names
Drafts ==
    /\ \E n \in Nat : DOMAIN drafts = 1..n
    /\ \A d \in DOMAIN drafts : IsDraft(drafts[d])
    /\ \A r \in Requests : CarriesOK(req[r], drafts)
Proposed ==
    /\ \E n \in Nat : DOMAIN proposals = 1..n
    /\ \A p \in DOMAIN proposals : ProposedOK(proposals[p], drafts)

(* What is carried stays right while drafts are kept. *)
LEMMA KeptCarries ==
    ASSUME NEW x, NEW D, NEW E, Kept(D, E)
    PROVE  /\ CarriesOK(x, D) => CarriesOK(x, E)
           /\ ProposedOK(x, D) => ProposedOK(x, E)
  BY DEF Kept, CarriesOK, ProposedOK

(* SaveDraft adds one, and the others are as they were. *)
LEMMA SaveKeeps ==
    ASSUME Drafts, NEW rows, NEW document, SaveDraft(rows, document)
    PROVE  /\ Kept(drafts, drafts') /\ \E n \in Nat : DOMAIN drafts' = 1..n
           /\ \A d \in DOMAIN drafts' : IsDraft(drafts'[d])
  <1>1. PICK n \in Nat : DOMAIN drafts = 1..n
    BY DEF Drafts
  <1>2. Cardinality(1..n) = n
    <2>1. 1 \in Int /\ n \in Int
      OBVIOUS
    <2> QED BY <2>1, FS_Interval
  <1> DEFINE new == [rows |-> rows, status |-> "open", proposal |-> 0, document |-> document,
                     names |-> saved]
  <1>3. drafts' = [d \in 1..(n + 1) |-> IF d < n + 1 THEN drafts[d] ELSE new]
    BY <1>1, <1>2 DEF SaveDraft
  <1>4. IsDraft(new)
    BY DEF IsDraft
  <1> HIDE DEF new
  <1>5. /\ DOMAIN drafts' = 1..(n + 1) /\ \A d \in 1..n : drafts'[d] = drafts[d]
        /\ \A d \in 1..(n + 1) : d \in 1..n \/ drafts'[d] = new
    BY <1>3
  <1>6. Kept(drafts, drafts')
    BY <1>1, <1>5 DEF Kept
  <1>7. \A d \in DOMAIN drafts' : IsDraft(drafts'[d])
    BY <1>1, <1>4, <1>5 DEF Drafts
  <1> QED BY <1>5, <1>6, <1>7

(* ResolveDraft closes one, and it pays what it paid. *)
LEMMA ResolveKeeps ==
    ASSUME Drafts, NEW d \in DOMAIN drafts, NEW status, NEW p, ResolveDraft(d, status, p)
    PROVE  /\ Kept(drafts, drafts') /\ \E n \in Nat : DOMAIN drafts' = 1..n
           /\ \A e \in DOMAIN drafts' : IsDraft(drafts'[e])
  <1>1. CASE ~OpenDraft(d)
    BY <1>1 DEF ResolveDraft, Drafts, Kept
  <1>2. CASE OpenDraft(d)
    <2> DEFINE one == [drafts[d] EXCEPT !.status = status, !.proposal = p]
    <2>1. IsDraft(drafts[d]) /\ \E n \in Nat : DOMAIN drafts = 1..n
      BY DEF Drafts
    <2>2. /\ IsDraft(one) /\ one.rows = drafts[d].rows /\ one.document = drafts[d].document
          /\ one.names = drafts[d].names
      BY <2>1 DEF IsDraft
    <2>3. DOMAIN drafts' = DOMAIN drafts /\ drafts'[d] = one
          /\ \A e \in DOMAIN drafts \ {d} : drafts'[e] = drafts[e]
      BY <1>2 DEF ResolveDraft
    <2> HIDE DEF one
    <2>4. Kept(drafts, drafts')
      BY <2>2, <2>3 DEF Kept
    <2>5. \A e \in DOMAIN drafts' : IsDraft(drafts'[e])
      BY <2>2, <2>3 DEF Drafts
    <2> QED BY <2>1, <2>3, <2>4, <2>5
  <1> QED BY <1>1, <1>2

(* Nothing but drafting starts to carry payments. *)
LEMMA NotDrafting ==
    ASSUME Sound, NEW r \in Requests, Guarding(r) \/ Out(r)
    PROVE  \A q \in Requests : req'[q].pc \in Drafting => req'[q] = req[q]
  <1>1. ASSUME NEW y, Goto(r, y), y.pc \notin Drafting
        PROVE  \A q \in Requests : req'[q].pc \in Drafting => req'[q] = req[q]
    BY <1>1, Moves DEF Sound
  <1>2. ASSUME NEW y, Goto(r, y), y.pc \in Early \cup Past \cup {"idle", "revoke", "drop", "forget"}
        PROVE  \A q \in Requests : req'[q].pc \in Drafting => req'[q] = req[q]
    BY <1>1, <1>2 DEF Drafting, Early, Past
  <1>3. ASSUME Finish(r)
        PROVE  \A q \in Requests : req'[q].pc \in Drafting => req'[q] = req[q]
    BY <1>2, <1>3 DEF Finish, Idle
  <1>4. ASSUME req[r].pc \in Early, NEW pc \in Early \cup Past, Step(r, pc)
        PROVE  \A q \in Requests : req'[q].pc \in Drafting => req'[q] = req[q]
    <2>1. req[r] \in Reader
      BY <1>4, IsReader DEF Sound
    <2>2. [req[r] EXCEPT !.pc = pc].pc = pc
      BY <2>1, StepKin
    <2> QED BY <1>2, <1>4, <2>2 DEF Step
  <1>5. CASE Out(r)
    <2>1. PICK y : Goto(r, y) /\ Onward(req[r], y)
      BY <1>5, OutMoves DEF Sound
    <2>2. y.pc \in Past \cup {"idle"}
      BY <2>1 DEF Onward, Idle
    <2> QED BY <1>2, <2>1, <2>2
  <1>6. CASE \E i \in Ids, e \in Ends : SetUpConnector(r, i, e)
    <2>1. PICK i, e, surface :
            Goto(r, [pc |-> "revoke", id |-> i, end |-> e, rev |-> revs', surface |-> surface])
      BY <1>6 DEF SetUpConnector
    <2> QED BY <1>2, <2>1
  <1>7. CASE RevokeSuperseded(r)
    BY <1>2, <1>7 DEF RevokeSuperseded
  <1>8. CASE CompleteConnectorSetup(r)
    BY <1>2, <1>8 DEF CompleteConnectorSetup
  <1>9. CASE (\E use \in Use : ConnectorByName(r, use)) \/ (\E g \in GrantIds : SubmitGrant(r, g))
    <2>1. PICK use, i, g : Goto(r, Reading(use, i, g))
      BY <1>9 DEF ConnectorByName, SubmitGrant
    <2>2. Reading(use, i, g).pc \in Early
      BY DEF Reading, Early
    <2> QED BY <1>2, <2>1, <2>2
  <1>10. CASE reader(r)
    <2> DEFINE x == req[r]
               pc == CASE x.use = "grant" -> "request" [] x.use = "check" -> "check" [] OTHER -> "guard"
    <2>1. PICK c : Goto(r, [x EXCEPT !.client = c, !.pc = pc])
      BY <1>10 DEF reader
    <2>2. x \in Reader
      BY <1>10, IsReader DEF Sound, reader, At, Early
    <2>3. pc \in Early
      BY <2>2 DEF Reader, Use, Early
    <2> HIDE DEF pc
    <2>4. [x EXCEPT !.client = c, !.pc = pc].pc = pc
      BY <2>2 DEF Reader
    <2> QED BY <1>2, <2>1, <2>3, <2>4
  <1>11. CASE forget(r) \/ (\E rate \in story.rates : RequestGrant(r, rate))
               \/ ConsumeGrantChallenge(r) \/ Fail(r)
    BY <1>3, <1>11 DEF forget, RequestGrant, ConsumeGrantChallenge, Fail
  <1>12. CASE CheckStatement(r)
    <2>1. req[r].pc \in Early /\ (Finish(r) \/ Step(r, "consume")) /\ "consume" \in Early
      BY <1>12 DEF CheckStatement, At, Early
    <2> QED BY <1>3, <1>4, <2>1
  <1>13. CASE authorise(r)
    <2>1. req[r] \in Reader /\ (Finish(r) \/ \E g : Goto(r, [req[r] EXCEPT !.pc = "rate", !.grant = g]))
      BY <1>13, IsReader DEF authorise, At, Early, Sound
    <2>2. CASE Finish(r)
      BY <1>3, <2>2
    <2>3. ASSUME NEW g, Goto(r, [req[r] EXCEPT !.pc = "rate", !.grant = g])
          PROVE  \A q \in Requests : req'[q].pc \in Drafting => req'[q] = req[q]
      <3>1. [req[r] EXCEPT !.pc = "rate", !.grant = g].pc = "rate" /\ "rate" \in Early
        BY <2>1 DEF Reader, Early
      <3> QED BY <1>2, <2>3, <3>1
    <2> QED BY <2>1, <2>2, <2>3
  <1>14. CASE AllowConnectorCall(r)
    <2>1. req[r].pc \in Early /\ (Finish(r) \/ \E pc \in {"mcp", "token", "fetch"} : Step(r, pc))
      BY <1>14 DEF AllowConnectorCall, At, Early
    <2>2. {"mcp", "token", "fetch"} \subseteq Past
      BY DEF Past
    <2> QED BY <1>3, <1>4, <2>1, <2>2
  <1> QED BY <1>5, <1>6, <1>7, <1>8, <1>9, <1>10, <1>11, <1>12, <1>13, <1>14 DEF Guarding

(* Drafts and proposals after a step, from what it does to them. *)
LEMMA DraftsMove ==
    ASSUME Drafts, Proposed, Kept(drafts, drafts'), \E n \in Nat : DOMAIN drafts' = 1..n,
           \A d \in DOMAIN drafts' : IsDraft(drafts'[d]),
           \A q \in Requests : req'[q] = req[q] \/ CarriesOK(req'[q], drafts),
           \E n \in Nat : DOMAIN proposals' = 1..n,
           \A p \in DOMAIN proposals' : ProposedOK(proposals'[p], drafts)
    PROVE  Drafts' /\ Proposed'
  <1>1. \A q \in Requests : CarriesOK(req'[q], drafts)
    BY DEF Drafts
  <1>2. \A q \in Requests : CarriesOK(req'[q], drafts')
    BY <1>1, KeptCarries
  <1>3. \A p \in DOMAIN proposals' : ProposedOK(proposals'[p], drafts')
    BY KeptCarries
  <1> QED BY <1>2, <1>3 DEF Drafts, Proposed

(* A draft that stays is kept. *)
LEMMA SameKept ==
    ASSUME Drafts, UNCHANGED drafts
    PROVE  /\ Kept(drafts, drafts') /\ \E n \in Nat : DOMAIN drafts' = 1..n
           /\ \A d \in DOMAIN drafts' : IsDraft(drafts'[d])
  BY DEF Drafts, Kept

(* The proposals stay as they are. *)
LEMMA SameProposed ==
    ASSUME Proposed, UNCHANGED proposals
    PROVE  /\ \E n \in Nat : DOMAIN proposals' = 1..n
           /\ \A p \in DOMAIN proposals' : ProposedOK(proposals'[p], drafts)
  BY DEF Proposed

(* proposeBatch: the proposal pays what the request carries. *)
LEMMA ProposeKeeps ==
    ASSUME Drafts, Proposed, NEW r \in Requests, proposeBatch(r)
    PROVE  /\ \E n \in Nat : DOMAIN proposals' = 1..n
           /\ \A p \in DOMAIN proposals' : ProposedOK(proposals'[p], drafts)
           /\ \/ Finish(r)
              \/ \E n : Goto(r, [pc |-> "resolve", draft |-> req[r].draft, proposal |-> n])
           /\ req[r].draft \in DOMAIN drafts
  <1>1. req[r].pc = "propose" /\ CarriesOK(req[r], drafts)
    BY DEF proposeBatch, At, Drafts
  <1>2. req[r].draft \in DOMAIN drafts /\ req[r].pays = drafts[req[r].draft].rows
    BY <1>1 DEF CarriesOK, Drafting
  <1>3. CASE Finish(r) /\ UNCHANGED proposals
    BY <1>2, <1>3, SameProposed
  <1>4. CASE \E n \in 1..MaxProposals :
               /\ n = Cardinality(DOMAIN proposals) + 1
               /\ proposals' = [p \in 1..n |-> IF p < n THEN proposals[p]
                                  ELSE [draft |-> req[r].draft, pays |-> req[r].pays, status |-> "open"]]
               /\ Goto(r, [pc |-> "resolve", draft |-> req[r].draft, proposal |-> n])
    <2> DEFINE new == [draft |-> req[r].draft, pays |-> req[r].pays, status |-> "open"]
    <2>1. PICK n \in Nat : DOMAIN proposals = 1..n
      BY DEF Proposed
    <2>2. Cardinality(1..n) = n
      <3>1. 1 \in Int /\ n \in Int
        OBVIOUS
      <3> QED BY <3>1, FS_Interval
    <2>3. /\ proposals' = [p \in 1..(n + 1) |-> IF p < n + 1 THEN proposals[p] ELSE new]
          /\ \E k : Goto(r, [pc |-> "resolve", draft |-> req[r].draft, proposal |-> k])
      BY <1>4, <2>1, <2>2
    <2>4. ProposedOK(new, drafts)
      BY <1>2 DEF ProposedOK
    <2> HIDE DEF new
    <2>5. /\ DOMAIN proposals' = 1..(n + 1) /\ \A p \in 1..n : proposals'[p] = proposals[p]
          /\ \A p \in 1..(n + 1) : p \in 1..n \/ proposals'[p] = new
      BY <2>3
    <2>6. \A p \in DOMAIN proposals' : ProposedOK(proposals'[p], drafts)
      BY <2>1, <2>4, <2>5 DEF Proposed
    <2>7. n + 1 \in Nat
      BY <2>1
    <2>8. \E k \in Nat : DOMAIN proposals' = 1..k
      BY <2>5, <2>7
    <2>9. \/ Finish(r)
          \/ \E k : Goto(r, [pc |-> "resolve", draft |-> req[r].draft, proposal |-> k])
      BY <2>3
    <2> QED BY <1>2, <2>6, <2>8, <2>9
  <1> QED BY <1>3, <1>4 DEF proposeBatch

(* Deciding. *)
LEMMA DecidingKeeps ==
    ASSUME Sound, Drafts, Proposed, NEW r \in Requests, Deciding(r)
    PROVE  Drafts' /\ Proposed' /\ Kept(drafts, drafts')
  <1> DEFINE Carried == \A q \in Requests : req'[q] = req[q] \/ CarriesOK(req'[q], drafts)
             Filed == /\ Kept(drafts, drafts') /\ \E n \in Nat : DOMAIN drafts' = 1..n
                      /\ \A d \in DOMAIN drafts' : IsDraft(drafts'[d])
             Listed == /\ \E n \in Nat : DOMAIN proposals' = 1..n
                       /\ \A p \in DOMAIN proposals' : ProposedOK(proposals'[p], drafts)
  <1>1. ASSUME NEW y, Goto(r, y), CarriesOK(y, drafts) PROVE Carried
    <2>1. req'[r] = y /\ \A q \in Requests \ {r} : req'[q] = req[q]
      BY <1>1, Moves DEF Sound
    <2> QED BY <1>1, <2>1
  <1>2. ASSUME Finish(r) PROVE Carried
    <2>1. CarriesOK(Idle, drafts)
      BY DEF CarriesOK, Idle, Drafting
    <2> QED BY <1>1, <1>2, <2>1 DEF Finish
  <1>3. UNCHANGED drafts => Filed
    BY SameKept
  <1>4. UNCHANGED proposals => Listed
    BY SameProposed
  <1>5. \A rows, document : SaveDraft(rows, document) => Filed
    BY SaveKeeps
  <1>6. ASSUME Carried, Filed, Listed PROVE Drafts' /\ Proposed' /\ Kept(drafts, drafts')
    BY <1>6, DraftsMove
  <1> HIDE DEF Carried, Filed, Listed
  <1>7. CASE DraftPayroll(r)
    <2>1. /\ Finish(r) /\ UNCHANGED proposals
          /\ UNCHANGED drafts \/ \E rows, document : SaveDraft(rows, document)
      BY <1>7 DEF DraftPayroll
    <2> QED BY <1>2, <1>3, <1>4, <1>5, <1>6, <2>1
  <1>8. CASE Show(r)
    <2>1. Finish(r) /\ UNCHANGED proposals /\ UNCHANGED drafts
      BY <1>8 DEF Show, deciding
    <2> QED BY <1>2, <1>3, <1>4, <1>6, <2>1
  <1>9. CASE \E d \in DOMAIN drafts : ProposeDraft(r, d)
    <2>1. PICK d \in DOMAIN drafts : ProposeDraft(r, d)
      BY <1>9
    <2>2. Goto(r, [pc |-> "propose", draft |-> d, pays |-> drafts[d].rows])
          /\ UNCHANGED proposals /\ UNCHANGED drafts
      BY <2>1 DEF ProposeDraft, batchOf, deciding
    <2>3. CarriesOK([pc |-> "propose", draft |-> d, pays |-> drafts[d].rows], drafts)
      BY DEF CarriesOK
    <2>4. Carried
      BY <1>1, <2>2, <2>3
    <2> QED BY <1>3, <1>4, <1>6, <2>2, <2>4
  <1>10. CASE proposeBatch(r)
    <2>1. Listed /\ req[r].draft \in DOMAIN drafts
      BY <1>10, ProposeKeeps DEF Listed
    <2>2. UNCHANGED drafts
      BY <1>10 DEF proposeBatch
    <2>3. CASE Finish(r)
      BY <1>2, <1>3, <1>6, <2>1, <2>2, <2>3
    <2>4. ASSUME NEW n, Goto(r, [pc |-> "resolve", draft |-> req[r].draft, proposal |-> n])
          PROVE  Carried
      <3>1. CarriesOK([pc |-> "resolve", draft |-> req[r].draft, proposal |-> n], drafts)
        BY <2>1 DEF CarriesOK
      <3> QED BY <1>1, <2>4, <3>1
    <2> QED BY <1>3, <1>6, <1>10, <2>1, <2>2, <2>3, <2>4, ProposeKeeps
  <1>11. CASE Resolve(r)
    <2>1. /\ req[r].pc = "resolve" /\ Finish(r) /\ UNCHANGED proposals
          /\ UNCHANGED drafts \/ ResolveDraft(req[r].draft, "proposed", req[r].proposal)
      BY <1>11 DEF Resolve, At
    <2>2. req[r].draft \in DOMAIN drafts
      BY <2>1 DEF Drafts, CarriesOK, Drafting
    <2>3. Filed
      <3>1. CASE UNCHANGED drafts
        BY <1>3, <3>1
      <3>2. CASE ResolveDraft(req[r].draft, "proposed", req[r].proposal)
        BY <2>2, <3>2, ResolveKeeps DEF Filed
      <3> QED BY <2>1, <3>1, <3>2
    <2> QED BY <1>2, <1>4, <1>6, <2>1, <2>3
  <1>12. CASE \E t \in 1..MaxTokens, list \in Lists : callAgentTool(r, t, list)
    <2>1. PICK list \in Lists : draftPayments(list) /\ Goto(r, [pc |-> "agent", list |-> list])
      BY <1>12 DEF callAgentTool
    <2>2. UNCHANGED proposals /\ UNCHANGED drafts
      BY <1>12 DEF callAgentTool, deciding
    <2>3. CarriesOK([pc |-> "agent", list |-> list], drafts)
      BY <2>1 DEF CarriesOK
    <2>4. Carried
      BY <1>1, <2>1, <2>3
    <2> QED BY <1>3, <1>4, <1>6, <2>2, <2>4
  <1>13. CASE DraftForAgent(r)
    <2>1. /\ Finish(r) /\ UNCHANGED proposals
          /\ UNCHANGED drafts \/ \E rows, document : SaveDraft(rows, document)
      BY <1>13 DEF DraftForAgent
    <2> QED BY <1>2, <1>3, <1>4, <1>5, <1>6, <2>1
  <1> QED BY <1>7, <1>8, <1>9, <1>10, <1>11, <1>12, <1>13 DEF Deciding

(* Elsewhere: a draft discarded, a proposal closed. *)
LEMMA ElsewhereKeeps ==
    ASSUME Drafts, Proposed, Elsewhere
    PROVE  Drafts' /\ Proposed' /\ Kept(drafts, drafts')
  <1>1. UNCHANGED req
    BY DEF Elsewhere, discard, CloseProposal, IssueMCPToken, RevokeMCPToken, SaveBeneficiary,
           ForgetBeneficiary
  <1>2. CASE \E d \in DOMAIN drafts : discard(d)
    <2>1. PICK d \in DOMAIN drafts : discard(d)
      BY <1>2
    <2>2. ResolveDraft(d, "discarded", 0) /\ UNCHANGED proposals
      BY <2>1 DEF discard
    <2> QED BY <1>1, <2>2, ResolveKeeps, SameProposed, DraftsMove
  <1>3. CASE \E p \in DOMAIN proposals, status \in {"executed", "cancelled"} : CloseProposal(p, status)
    <2>1. PICK p \in DOMAIN proposals, status \in {"executed", "cancelled"} : CloseProposal(p, status)
      BY <1>3
    <2> DEFINE one == [proposals[p] EXCEPT !.status = status]
    <2>2. ProposedOK(proposals[p], drafts) /\ \E n \in Nat : DOMAIN proposals = 1..n
      BY DEF Proposed
    <2>3. ProposedOK(one, drafts)
      BY <2>2 DEF ProposedOK
    <2>4. /\ DOMAIN proposals' = DOMAIN proposals /\ proposals'[p] = one /\ UNCHANGED drafts
          /\ \A q \in DOMAIN proposals \ {p} : proposals'[q] = proposals[q]
      BY <2>1 DEF CloseProposal
    <2> HIDE DEF one
    <2>5. \A q \in DOMAIN proposals' : ProposedOK(proposals'[q], drafts)
      BY <2>3, <2>4 DEF Proposed
    <2> QED BY <1>1, <2>2, <2>4, <2>5, SameKept, DraftsMove
  <1>4. CASE UNCHANGED drafts /\ UNCHANGED proposals
    BY <1>1, <1>4, SameKept, SameProposed, DraftsMove
  <1>5. \/ \E d \in DOMAIN drafts : discard(d)
        \/ \E p \in DOMAIN proposals, status \in {"executed", "cancelled"} : CloseProposal(p, status)
        \/ UNCHANGED drafts /\ UNCHANGED proposals
    BY DEF Elsewhere, IssueMCPToken, RevokeMCPToken, SaveBeneficiary, ForgetBeneficiary
  <1> QED BY <1>2, <1>3, <1>4, <1>5

(* Every step keeps the drafts there are. *)
LEMMA DraftsKeep ==
    ASSUME IInv, Drafts, Proposed, [Next]_vars
    PROVE  Drafts' /\ Proposed' /\ Kept(drafts, drafts')
  <1>1. Sound
    BY DEF IInv, Sound
  <1>2. ASSUME UNCHANGED drafts, UNCHANGED proposals,
               \A q \in Requests : req'[q].pc \in Drafting => req'[q] = req[q]
        PROVE  Drafts' /\ Proposed' /\ Kept(drafts, drafts')
    <2>1. \A q \in Requests : req'[q] = req[q] \/ CarriesOK(req'[q], drafts)
      BY <1>2 DEF CarriesOK, Drafting
    <2> QED BY <1>2, <2>1, SameKept, SameProposed, DraftsMove
  <1>3. CASE connectorCmd /\ UNCHANGED <<deciding, story>>
    BY <1>2, <1>3 DEF connectorCmd, RegisterConnector, RemoveConnector, RevokeGrant, deciding
  <1>4. CASE Restart /\ UNCHANGED <<deciding, story>>
    BY <1>2, <1>4 DEF Restart, deciding, Idle, Drafting
  <1>5. CASE \E r \in Requests : (Guarding(r) \/ Out(r)) /\ UNCHANGED deciding
    BY <1>1, <1>2, <1>5, NotDrafting DEF deciding
  <1>6. CASE Tick /\ UNCHANGED <<guarding, deciding, story>>
    BY <1>2, <1>6 DEF Tick, deciding
  <1>7. CASE \E e \in Ends, s \in Surfaces : Offer(e, s) /\ UNCHANGED <<guarding, deciding, story>>
    BY <1>2, <1>7 DEF Offer, deciding
  <1>8. CASE \E r \in Requests : Deciding(r)
    BY <1>1, <1>8, DecidingKeeps
  <1>9. CASE Elsewhere
    BY <1>9, ElsewhereKeeps
  <1>10. CASE UNCHANGED vars
    BY <1>2, <1>10 DEF vars, deciding
  <1> QED BY <1>3, <1>4, <1>5, <1>6, <1>7, <1>8, <1>9, <1>10 DEF Next

(* What a proposal pays is what its draft held, ... *)
ProposalsPayDrafts == \A p \in DOMAIN proposals : proposals[p].pays = drafts[proposals[p].draft].rows

(* All drafts and proposals are sound in every behaviour. *)
THEOREM DraftsSound == Spec => [](IInv /\ Drafts /\ Proposed)
  <1>1. Init => IInv /\ Drafts /\ Proposed
    <2> SUFFICES ASSUME Init PROVE Drafts /\ Proposed
      BY InitHolds
    <2>1. drafts = <<>> /\ proposals = <<>> /\ \A q \in Requests : req[q] = Idle
      BY DEF Init
    <2>2. DOMAIN drafts = {} /\ DOMAIN proposals = {} /\ 1..0 = {} /\ 0 \in Nat
      BY <2>1
    <2>3. CarriesOK(Idle, drafts)
      BY DEF CarriesOK, Idle, Drafting
    <2>4. \E n \in Nat : 1..n = {}
      BY <2>2
    <2> QED BY <2>1, <2>2, <2>3, <2>4 DEF Drafts, Proposed
  <1>2. (IInv /\ Drafts /\ Proposed) /\ [Next]_vars => (IInv /\ Drafts /\ Proposed)'
    BY NextKeeps, DraftsKeep
  <1> QED BY <1>1, <1>2, PTL DEF Spec

(* Whoever proposes a draft, and whatever its document or the saved names have become, the  *)
(* proposal pays the rows that were read (ProposeDraft, proposeBatch, api/connectors.go).   *)
THEOREM ProposalsPayWhatWasDrafted == Spec => []ProposalsPayDrafts
  <1>1. Proposed => ProposalsPayDrafts
    BY DEF Proposed, ProposedOK, ProposalsPayDrafts
  <1> QED BY <1>1, DraftsSound, PTL

(* No step changes what a saved draft pays, the document it came from or what names stood   *)
(* for when it was read: resolving or discarding it only closes it.                         *)
THEOREM DraftsStay == Spec => [][Kept(drafts, drafts')]_vars
  <1>1. (IInv /\ Drafts /\ Proposed) /\ [Next]_vars => [Kept(drafts, drafts')]_vars
    BY DraftsKeep
  <1> QED BY <1>1, DraftsSound, PTL DEF Spec

--------------------------------------------------------------------------------
(***************************************************************************)
(* What a draft pays.  However a document is read, a cell of the table is  *)
(* a cell of the same line of the document, and under the same key where   *)
(* the line has keys; a table that was not cut short has as many lines;    *)
(* and each line of the draft comes from one of them.                      *)
(***************************************************************************)
Text == Cells \cup {"nested"}

(* A row of a table whose columns are named so, and the line w it was read from. *)
Line(cells, w, columns) ==
    /\ cells \in Seq(Text)
    /\ \A i \in DOMAIN cells : \E k \in DOMAIN w.cells :
         /\ cells[i] = w.cells[k]
         /\ w.shape = "object" => i \in DOMAIN columns /\ w.keys[k] = columns[i]
Laid(t, ws) ==
    /\ t.columns \in Seq(Cells) /\ DOMAIN t.rows = DOMAIN ws /\ t.rows \in Seq(Seq(Text))
    /\ \A n \in DOMAIN ws : Line(t.rows[n], ws[n], t.columns)

(* What was observed and not cut short is what was read, line by line. *)
LEMMA ObservedLaid ==
    ASSUME NEW ws \in Seq(Written), NEW columns \in Seq(Cells), NEW rows,
           \A n \in DOMAIN ws : \E cells : rows[n] = {cells} /\ Line(cells, ws[n], columns),
           ~Observed(columns, rows, Len(ws)).truncated
    PROVE  Laid(Observed(columns, rows, Len(ws)), ws)
  <1> DEFINE t == Observed(columns, rows, Len(ws))
             Kept1(n) == CHOOSE cells \in rows[n] : TRUE
  <1>1. Len(ws) \in Nat /\ DOMAIN ws = 1..Len(ws)
    OBVIOUS
  <1>2. bound(Len(ws)) = Len(ws)
    BY <1>1, DraftsAssumption DEF Observed, bound
  <1>3. t.columns = columns /\ t.rows = [i \in 1..Len(ws) |-> Kept1(i)]
    BY <1>2 DEF Observed
  <1>4. \A n \in DOMAIN ws : Line(Kept1(n), ws[n], columns)
    OBVIOUS
  <1> HIDE DEF t, Kept1
  <1>5. \A n \in DOMAIN ws : Kept1(n) \in Seq(Text)
    BY <1>4 DEF Line
  <1>6. t.rows \in [1..Len(ws) -> Seq(Text)] /\ DOMAIN t.rows = DOMAIN ws
        /\ \A n \in DOMAIN ws : t.rows[n] = Kept1(n)
    BY <1>1, <1>3, <1>5
  <1>7. t.rows \in Seq(Seq(Text))
    <2> DEFINE S == Seq(Text)
    <2>1. t.rows \in [1..Len(ws) -> S]
      BY <1>6
    <2> HIDE DEF S
    <2>2. t.rows \in Seq(S)
      BY <1>1, <2>1
    <2> QED BY <2>2 DEF S
  <1> QED BY <1>3, <1>4, <1>6, <1>7 DEF Laid, t

(* A line kept as it is. *)
LEMMA LineItself ==
    ASSUME NEW w \in Written, NEW columns, w.shape # "object" \/ (w.keys = columns /\ Len(w.keys) = Len(w.cells))
    PROVE  Line(w.cells, w, columns)
  <1>1. w.cells \in Seq(Text) /\ w.keys \in Seq(Cells)
    BY DEF Written, Text
  <1> HIDE DEF Text
  <1>2. w.keys = columns /\ Len(w.keys) = Len(w.cells) => DOMAIN w.cells = DOMAIN columns
    BY <1>1
  <1> QED BY <1>1, <1>2 DEF Line

(* A later object, laid out under the keys of the first. *)
LEMMA ObjectLine ==
    ASSUME NEW w \in Written, NEW columns \in Seq(Cells), Len(w.keys) = Len(w.cells),
           NEW cells, readObjectRow(w, columns) = {cells}
    PROVE  Line(cells, w, columns)
  <1> DEFINE at(i) == CHOOSE j \in DOMAIN w.keys : w.keys[j] = columns[i]
             row1 == [i \in DOMAIN columns |-> w.cells[at(i)]]
  <1>1. w.cells \in Seq(Text) /\ w.keys \in Seq(Cells)
    BY DEF Written, Text
  <1>2. Range(w.keys) = Range(columns) /\ cells = row1
    <2>1. readObjectRow(w, columns) # {}
      OBVIOUS
    <2>2. readCell(w) /\ IsInjective(w.keys) /\ Range(w.keys) = Range(columns)
      BY <2>1 DEF readObjectRow
    <2>3. readObjectRow(w, columns) = {row1}
      BY <2>2 DEF readObjectRow
    <2> HIDE DEF row1
    <2> QED BY <2>2, <2>3
  <1>3. ASSUME NEW i \in DOMAIN columns
        PROVE  at(i) \in DOMAIN w.keys /\ w.keys[at(i)] = columns[i]
    <2>1. columns[i] \in Range(w.keys)
      BY <1>2 DEF Range
    <2>2. \E j \in DOMAIN w.keys : w.keys[j] = columns[i]
      BY <2>1 DEF Range
    <2> QED BY <2>2
  <1>4. DOMAIN w.keys = DOMAIN w.cells /\ DOMAIN columns = 1..Len(columns) /\ Len(columns) \in Nat
    <2> HIDE DEF Text
    <2> QED BY <1>1
  <1> HIDE DEF at, Text
  <1>5. \A i \in DOMAIN columns : at(i) \in DOMAIN w.cells /\ w.cells[at(i)] \in Text
    BY <1>1, <1>3, <1>4
  <1>6. row1 \in [1..Len(columns) -> Text] /\ DOMAIN row1 = DOMAIN columns
        /\ \A i \in DOMAIN columns : row1[i] = w.cells[at(i)]
    BY <1>4, <1>5
  <1> HIDE DEF row1
  <1>7. row1 \in Seq(Text)
    BY <1>4, <1>6
  <1> QED BY <1>2, <1>3, <1>5, <1>6, <1>7 DEF Line

(* What JSON is read as. *)
LEMMA JSONLaid ==
    ASSUME NEW ws \in Seq(Written), \A w \in Range(ws) : w.shape = "object" => Len(w.keys) = Len(w.cells),
           NEW t \in readJSON(ws), ~t.truncated
    PROVE  Laid(t, ws)
  <1> DEFINE first == ws[1]
             rows == [n \in DOMAIN ws |->
                        IF ws[n].shape # first.shape THEN {}
                        ELSE CASE first.shape = "array" -> readArrayRow(ws[n])
                               [] first.shape = "object" /\ n = 1 -> readFirstObject(first)
                               [] first.shape = "object" /\ n > 1 -> readObjectRow(ws[n], first.keys)
                               [] OTHER -> {}]
             columns == IF ws # <<>> /\ first.shape = "object" THEN first.keys ELSE <<>>
  <1>1. {} \notin Range(rows) /\ t = Observed(columns, rows, Len(ws))
    BY DEF readJSON
  <1>2. ASSUME NEW n \in DOMAIN ws
        PROVE  /\ ws[n] \in Written /\ n \in Nat /\ n >= 1 /\ ws # <<>> /\ 1 \in DOMAIN ws
               /\ ws[n].shape = "object" => Len(ws[n].keys) = Len(ws[n].cells)
    BY DEF Range
  <1>3. columns \in Seq(Cells)
    <2>1. CASE ws # <<>>
      <3>1. 1 \in DOMAIN ws
        BY <2>1
      <3> QED BY <1>2, <3>1 DEF Written
    <2>2. CASE ws = <<>>
      BY <2>2
    <2> QED BY <2>1, <2>2
  <1>4. ASSUME NEW n \in DOMAIN ws
        PROVE  \E cells : rows[n] = {cells} /\ Line(cells, ws[n], columns)
    <2>1. rows[n] # {}
      BY <1>1 DEF Range
    <2>2. ws[n].shape = first.shape
      BY <2>1
    <2>3. rows[n] = CASE first.shape = "array" -> readArrayRow(ws[n])
                      [] first.shape = "object" /\ n = 1 -> readFirstObject(first)
                      [] first.shape = "object" /\ n > 1 -> readObjectRow(ws[n], first.keys)
                      [] OTHER -> {}
      BY <2>2
    <2> HIDE DEF rows
    <2>4. CASE first.shape = "array"
      <3>1. rows[n] = {ws[n].cells}
        BY <2>1, <2>3, <2>4 DEF readArrayRow
      <3>2. Line(ws[n].cells, ws[n], columns)
        BY <1>2, <2>2, <2>4, LineItself
      <3> QED BY <3>1, <3>2
    <2>5. CASE first.shape = "object" /\ n = 1
      <3>1. rows[n] = readFirstObject(first)
        BY <2>3, <2>5
      <3>2. rows[n] = {ws[n].cells}
        BY <2>1, <2>5, <3>1 DEF readFirstObject
      <3>3. columns = ws[n].keys
        BY <1>2, <2>5
      <3> HIDE DEF columns
      <3>4. Line(ws[n].cells, ws[n], columns)
        BY <1>2, <2>2, <2>5, <3>3, LineItself
      <3> QED BY <3>2, <3>4
    <2>6. CASE first.shape = "object" /\ n > 1
      <3>1. rows[n] = readObjectRow(ws[n], first.keys)
        BY <2>3, <2>6
      <3>2. columns = first.keys
        BY <1>2, <2>6
      <3> HIDE DEF columns, first
      <3>3. \E cells : rows[n] = {cells}
        BY <2>1, <3>1 DEF readObjectRow
      <3>4. PICK cells : rows[n] = {cells}
        BY <3>3
      <3>5. Line(cells, ws[n], columns)
        BY <1>2, <1>3, <2>2, <2>6, <3>1, <3>2, <3>4, ObjectLine
      <3> QED BY <3>4, <3>5
    <2>7. CASE first.shape \notin {"array", "object"}
      BY <2>1, <2>3, <2>7
    <2> QED BY <1>2, <2>4, <2>5, <2>6, <2>7
  <1> HIDE DEF rows, columns
  <1> QED BY <1>1, <1>3, <1>4, ObservedLaid

(* What a file, a range or a tool's text is read as. *)
LEMMA PlainLaid ==
    ASSUME NEW ws \in Seq(Written), NEW rows,
           \A n \in DOMAIN ws : ws[n].shape = "array"
             /\ (rows[n] = {ws[n].cells} \/ (rows[n] = {SubSeq(ws[n].cells, 1, 1)} /\ ws[n].cells # <<>>)),
           NEW t, t = Observed(<<>>, rows, Len(ws)), ~t.truncated
    PROVE  Laid(t, ws)
  <1>1. ASSUME NEW n \in DOMAIN ws
        PROVE  \E cells : rows[n] = {cells} /\ Line(cells, ws[n], <<>>)
    <2>1. ws[n] \in Written /\ ws[n].shape = "array"
      OBVIOUS
    <2>2. Line(ws[n].cells, ws[n], <<>>)
      BY <2>1, LineItself
    <2>3. CASE rows[n] = {ws[n].cells}
      BY <2>2, <2>3
    <2>4. CASE rows[n] = {SubSeq(ws[n].cells, 1, 1)} /\ ws[n].cells # <<>>
      <3> DEFINE cells == SubSeq(ws[n].cells, 1, 1)
      <3>1. ws[n].cells \in Seq(Text)
        BY <2>1 DEF Written, Text
      <3> HIDE DEF Text
      <3>2. cells \in Seq(Text) /\ DOMAIN cells = {1} /\ cells[1] = ws[n].cells[1]
            /\ 1 \in DOMAIN ws[n].cells
        BY <2>4, <3>1
      <3> HIDE DEF cells
      <3>3. Line(cells, ws[n], <<>>)
        BY <2>1, <3>2 DEF Line
      <3> QED BY <2>4, <3>3 DEF cells
    <2> QED BY <2>3, <2>4
  <1>2. <<>> \in Seq(Cells)
    OBVIOUS
  <1> QED BY <1>1, <1>2, ObservedLaid

(* Whatever it was read from, a table that was not cut short has the document's lines. *)
LEMMA ReadLaid ==
    ASSUME NEW d \in Documents, NEW t \in readDocument(d), ~t.truncated
    PROVE  Laid(t, d.rows) /\ d.rows \in Seq(Written)
  <1> DEFINE ws == d.rows
  <1>1. d \in Document /\ ws \in Seq(Written)
    BY DraftsAssumption DEF Document
  <1>2. \A w \in Range(ws) : w.shape = "object" => Len(w.keys) = Len(w.cells)
    BY DraftsAssumption
  <1>3. d.from # "webhook" => \A w \in Range(ws) : w.shape = "array" /\ (d.from = "mcp" => w.cells # <<>>)
    BY DraftsAssumption
  <1>4. \A n \in DOMAIN ws : ws[n] \in Range(ws)
    BY DEF Range
  <1>5. CASE d.from = "webhook" /\ d.form = "json"
    BY <1>1, <1>2, <1>5, JSONLaid DEF readDocument
  <1>6. CASE d.from = "webhook" /\ d.form = "csv"
    <2> DEFINE rows == [n \in DOMAIN ws |-> {ws[n].cells}]
    <2>1. t \in readCSV(ws)
      BY <1>6 DEF readDocument
    <2>2. t = Observed(<<>>, rows, Len(ws)) /\ \A w \in Range(ws) : w.shape = "array"
      BY <2>1 DEF readCSV
    <2>3. \A n \in DOMAIN ws : ws[n].shape = "array" /\ rows[n] = {ws[n].cells}
      BY <1>4, <2>2
    <2> HIDE DEF rows
    <2> QED BY <1>1, <2>2, <2>3, PlainLaid
  <1>7. CASE d.from = "sheets"
    <2> DEFINE rows == [n \in DOMAIN ws |-> {ws[n].cells}]
    <2>1. t \in readRange(ws)
      BY <1>7 DEF readDocument
    <2>2. t = Observed(<<>>, rows, Len(ws))
      BY <2>1 DEF readRange
    <2>3. \A n \in DOMAIN ws : ws[n].shape = "array" /\ rows[n] = {ws[n].cells}
      BY <1>3, <1>4, <1>7
    <2> HIDE DEF rows
    <2> QED BY <1>1, <2>2, <2>3, PlainLaid
  <1>8. CASE d.from = "mcp"
    <2> DEFINE rows == [n \in DOMAIN ws |-> {SubSeq(ws[n].cells, 1, 1)}]
    <2>1. t \in readLines(ws)
      BY <1>8 DEF readDocument
    <2>2. t = Observed(<<>>, rows, Len(ws))
      BY <2>1 DEF readLines
    <2>3. \A n \in DOMAIN ws : /\ ws[n].shape = "array" /\ ws[n].cells # <<>>
                               /\ rows[n] = {SubSeq(ws[n].cells, 1, 1)}
      BY <1>3, <1>4, <1>8
    <2> HIDE DEF rows
    <2> QED BY <1>1, <2>2, <2>3, PlainLaid
  <1> QED BY <1>1, <1>5, <1>6, <1>7, <1>8 DEF readDocument

(* The lines of a batch, each found in the document, pay what it holds. *)
Found(cell, w, keys) ==
    cell # "" => \E i \in DOMAIN w.cells :
      w.cells[i] = cell /\ (w.shape = "object" => w.keys[i] \in keys)
LEMMA BatchPays ==
    ASSUME NEW ws \in Seq(Written), NEW said, NEW mayName, Resolves(said, mayName),
           \A s \in said : /\ s.line \in DOMAIN ws
                           /\ Found(s.to, ws[s.line], Destinations)
                           /\ Found(s.amount, ws[s.line], Sums),
           \A s, u \in said : s.line = u.line => s = u,
           \A n \in Holding(ws) : \E s \in said : s.line = n
    PROVE  Pays(ResolveBatch(said, mayName), ws, saved)
  <1> DEFINE rows == ResolveBatch(said, mayName)
             H == Holding(ws)
  <1>1. "" \notin DOMAIN Figures /\ "" \notin Addresses /\ "" \notin Names
    BY DraftsAssumption DEF Values
  <1>2. ASSUME NEW s \in said
        PROVE  /\ s.amount \in DOMAIN Figures /\ s.amount # ""
               /\ s.to \in Addresses \/ (s.to \in Names /\ mayName)
               /\ s.to # ""
    <2>1. NormalizeTabularAmount(s.amount) /\ resolveDestination(s.to, mayName) # Nobody
      BY DEF Resolves
    <2>2. s.amount \in DOMAIN Figures
      BY <2>1 DEF NormalizeTabularAmount
    <2>3. s.to \in Addresses \/ (s.to \in Names /\ mayName)
      BY <2>1 DEF resolveDestination
    <2> QED BY <1>1, <2>2, <2>3
  <1>3. ASSUME NEW p \in rows
        PROVE  \E s \in said : /\ p.line = s.line /\ p.amount = Figures[s.amount].units
                               /\ p.to = resolveDestination(s.to, mayName)
                               /\ p = resolveRow(s, mayName)
    <2>1. PICK s \in said : p = resolveRow(s, mayName)
      BY DEF ResolveBatch
    <2> QED BY <2>1 DEF resolveRow
  <1>4. \A s \in said : resolveRow(s, mayName) \in rows /\ resolveRow(s, mayName).line = s.line
    BY DEF ResolveBatch, resolveRow
  <1>5. ASSUME NEW s \in said
        PROVE  s.line \in H
    <2>1. PICK j \in DOMAIN ws[s.line].cells : ws[s.line].cells[j] = s.amount
      BY <1>2 DEF Found
    <2>2. s.amount \in Range(ws[s.line].cells) \cap Values
      BY <1>2, <2>1 DEF Range, Values
    <2>3. s.line \in DOMAIN ws
      OBVIOUS
    <2> QED BY <2>2, <2>3 DEF Holding
  <1> HIDE DEF rows, H
  <1>6. {p.line : p \in rows} = H
    <2>1. \A p \in rows : p.line \in H
      BY <1>3, <1>5
    <2>2. ASSUME NEW n \in H PROVE \E p \in rows : p.line = n
      BY <1>4 DEF H
    <2> QED BY <2>1, <2>2
  <1>7. \A p, q \in rows : p.line = q.line => p = q
    BY <1>3
  <1>8. Cardinality(rows) = Cardinality(H)
    <2> DEFINE g == [n \in H |-> CHOOSE p \in rows : p.line = n]
    <2>1. IsFiniteSet(H)
      <3>1. DOMAIN ws = 1..Len(ws) /\ 1 \in Int /\ Len(ws) \in Int
        OBVIOUS
      <3>2. IsFiniteSet(DOMAIN ws)
        BY <3>1, FS_Interval
      <3>3. H \subseteq DOMAIN ws
        BY DEF H, Holding
      <3> QED BY <3>2, <3>3, FS_Subset
    <2>2. \A n \in H : g[n] \in rows /\ g[n].line = n
      BY <1>6
    <2>3. DOMAIN g = H /\ g \in [H -> rows]
      BY <2>2
    <2> HIDE DEF g
    <2>4. \A m, n \in H : g[m] = g[n] => m = n
      BY <2>2
    <2>5. ASSUME NEW p \in rows PROVE \E n \in H : g[n] = p
      <3>1. p.line \in H
        BY <1>6
      <3>2. g[p.line] \in rows /\ g[p.line].line = p.line
        BY <2>2, <3>1
      <3>3. g[p.line] = p
        BY <1>7, <3>2
      <3> QED BY <3>1, <3>3
    <2>6. g \in Bijection(H, rows)
      BY <2>3, <2>4, <2>5 DEF Bijection, Injection, Surjection, IsInjective
    <2>7. ExistsBijection(H, rows)
      BY <2>6 DEF ExistsBijection
    <2> QED BY <2>1, <2>7, FS_Bijection
  <1>9. ASSUME NEW p \in rows
        PROVE  \E i, j \in DOMAIN ws[p.line].cells :
                 LET to == ws[p.line].cells[i]
                     amount == ws[p.line].cells[j]
                 IN  /\ ws[p.line].shape = "object" => ws[p.line].keys[i] \in Destinations
                     /\ ws[p.line].shape = "object" => ws[p.line].keys[j] \in Sums
                     /\ to = p.to \/ (to \in Names /\ saved[to] = p.to)
                     /\ amount \in DOMAIN Figures /\ Figures[amount].units = p.amount
    <2>1. PICK s \in said : /\ p.line = s.line /\ p.amount = Figures[s.amount].units
                            /\ p.to = resolveDestination(s.to, mayName)
      BY <1>3
    <2>2. PICK i \in DOMAIN ws[s.line].cells :
            /\ ws[s.line].cells[i] = s.to
            /\ ws[s.line].shape = "object" => ws[s.line].keys[i] \in Destinations
      BY <1>2 DEF Found
    <2>3. PICK j \in DOMAIN ws[s.line].cells :
            /\ ws[s.line].cells[j] = s.amount
            /\ ws[s.line].shape = "object" => ws[s.line].keys[j] \in Sums
      BY <1>2 DEF Found
    <2>4. s.to = p.to \/ (s.to \in Names /\ saved[s.to] = p.to)
      BY <1>2, <2>1 DEF resolveDestination
    <2>5. ws[p.line].cells[i] = s.to /\ ws[p.line].cells[j] = s.amount
      BY <2>1, <2>2, <2>3
    <2>6. /\ ws[p.line].shape = "object" => ws[p.line].keys[i] \in Destinations
          /\ ws[p.line].shape = "object" => ws[p.line].keys[j] \in Sums
      BY <2>1, <2>2, <2>3
    <2>7. s.amount \in DOMAIN Figures /\ Figures[s.amount].units = p.amount
      BY <1>2, <2>1
    <2>8. i \in DOMAIN ws[p.line].cells /\ j \in DOMAIN ws[p.line].cells
      BY <2>1
    <2> HIDE DEF Destinations, Sums
    <2> QED BY <2>4, <2>5, <2>6, <2>7, <2>8
  <1> QED BY <1>6, <1>8, <1>9 DEF Pays, rows, H

(* A heading that is found is one of those looked for. *)
LEMMA FirstIs ==
    ASSUME NEW cells \in Seq(Text), NEW names, First(cells, names) # 0
    PROVE  First(cells, names) \in DOMAIN cells /\ cells[First(cells, names)] \in names
  <1> DEFINE T == {i \in DOMAIN cells : cells[i] \in names}
  <1>1. T # {} /\ T \subseteq Nat
    BY DEF First
  <1>2. PICK i \in T : \A j \in T : i <= j
    BY <1>1, LeastNatural
  <1>3. \A j \in 1..(i - 1) : cells[j] \notin names
    <2>1. \A j \in 1..(i - 1) : j \in DOMAIN cells /\ ~(i <= j)
      BY <1>1
    <2> QED BY <1>2, <2>1
  <1>4. \E k \in DOMAIN cells : cells[k] \in names /\ \A j \in 1..(k - 1) : cells[j] \notin names
    BY <1>3
  <1>5. First(cells, names) =
          CHOOSE k \in DOMAIN cells : cells[k] \in names /\ \A j \in 1..(k - 1) : cells[j] \notin names
    BY <1>1 DEF First
  <1> QED BY <1>4, <1>5

(* Where there are no headings there is none to find. *)
LEMMA NoColumns == \A c : c = <<>> => DOMAIN c = {}
  OBVIOUS

(* A draft of a tidy document pays what the document says. *)
LEMMA PayrollPays ==
    ASSUME NEW d \in Documents, Tidy(d), NEW t \in readDocument(d), Drafted(t)
    PROVE  Pays(ResolveBatch(draftFromRows(t), TRUE), d.rows, saved)
  <1> DEFINE ws == d.rows
             said == draftFromRows(t)
             at == Columns(t)
             Says(n) == [line |-> n, to |-> Cell(t.rows[n], at.to), amount |-> Cell(t.rows[n], at.amount)]
  <1>1. Laid(t, ws) /\ ws \in Seq(Written) /\ Resolves(said, TRUE)
    BY ReadLaid DEF Drafted
  <1>2. said # {}
    BY <1>1 DEF Resolves
  <1>3. at.to # 0 /\ at.amount # 0
        /\ said = {s \in {Says(n) : n \in Lines(t)} : s.to # "" \/ s.amount # ""}
    BY <1>2 DEF draftFromRows
  <1>4. t.rows \in Seq(Seq(Text)) /\ DOMAIN t.rows = DOMAIN ws
        /\ \A n \in DOMAIN ws : Line(t.rows[n], ws[n], t.columns)
    BY <1>1 DEF Laid
  <1>5. Lines(t) \subseteq DOMAIN ws
    <2> DEFINE S == Seq(Text)
    <2>1. t.rows \in Seq(S)
      BY <1>4
    <2> HIDE DEF S
    <2> QED BY <1>4, <2>1 DEF Lines
  <1> HIDE DEF at
  <1>6. ASSUME NEW n \in DOMAIN ws, NEW i, NEW keys,
               t.columns # <<>> /\ i \in DOMAIN t.columns => t.columns[i] \in keys
        PROVE  Found(Cell(t.rows[n], i), ws[n], keys)
    <2> SUFFICES ASSUME Cell(t.rows[n], i) # ""
                 PROVE  \E k \in DOMAIN ws[n].cells : ws[n].cells[k] = Cell(t.rows[n], i)
                          /\ (ws[n].shape = "object" => ws[n].keys[k] \in keys)
      BY DEF Found
    <2>1. i \in DOMAIN t.rows[n] /\ Cell(t.rows[n], i) = t.rows[n][i]
      BY DEF Cell
    <2>2. PICK k \in DOMAIN ws[n].cells :
            /\ t.rows[n][i] = ws[n].cells[k]
            /\ ws[n].shape = "object" => i \in DOMAIN t.columns /\ ws[n].keys[k] = t.columns[i]
      BY <1>4, <2>1 DEF Line
    <2>3. i \in DOMAIN t.columns => t.columns # <<>>
      BY NoColumns
    <2> QED BY <1>6, <2>1, <2>2, <2>3
  <1>7. /\ t.columns # <<>> => t.columns[at.to] \in Destinations
        /\ t.columns # <<>> => t.columns[at.amount] \in Sums
    <2> SUFFICES ASSUME t.columns # <<>>
                 PROVE  t.columns[at.to] \in Destinations /\ t.columns[at.amount] \in Sums
      OBVIOUS
    <2>1. Header(t) = t.columns
      BY DEF Header, Headed
    <2>2. at = [to |-> First(t.columns, Destinations), amount |-> First(t.columns, Sums)]
      BY <2>1 DEF at, Columns
    <2>3. at.to = First(t.columns, Destinations) /\ at.amount = First(t.columns, Sums)
      BY <2>2
    <2>4. t.columns \in Seq(Text)
      <3>1. t.columns \in Seq(Cells) /\ Cells \subseteq Text
        BY <1>1 DEF Laid, Text
      <3> HIDE DEF Text, Cells
      <3> QED BY <3>1
    <2> QED BY <1>3, <2>3, <2>4, FirstIs
  <1>8. ASSUME NEW s \in said
        PROVE  /\ s.line \in DOMAIN ws /\ s = Says(s.line)
               /\ Found(s.to, ws[s.line], Destinations) /\ Found(s.amount, ws[s.line], Sums)
    <2>1. PICK n \in Lines(t) : s = Says(n)
      BY <1>3
    <2>2. s.line = n /\ s.to = Cell(t.rows[n], at.to) /\ s.amount = Cell(t.rows[n], at.amount)
      BY <2>1
    <2>3. Found(Cell(t.rows[n], at.to), ws[n], Destinations)
          /\ Found(Cell(t.rows[n], at.amount), ws[n], Sums)
      BY <1>5, <1>6, <1>7
    <2> QED BY <1>5, <2>1, <2>2, <2>3
  <1>9. \A s, u \in said : s.line = u.line => s = u
    BY <1>8
  <1>10. ASSUME NEW n \in Holding(ws)
         PROVE  \E s \in said : s.line = n
    <2>1. n \in DOMAIN t.rows \cap Holding(ws)
      BY <1>4 DEF Holding
    <2>2. ~(Headed(t) /\ n = 1) /\ (Cell(t.rows[n], at.to) # "" \/ Cell(t.rows[n], at.amount) # "")
      BY <2>1 DEF Tidy, at
    <2>3. n \in Lines(t)
      <3> DEFINE S == Seq(Text)
      <3>1. t.rows \in Seq(S)
        BY <1>4
      <3> HIDE DEF S
      <3>2. n \in Nat /\ n >= 1 /\ n <= Len(t.rows) /\ Len(t.rows) \in Nat
        BY <2>1, <3>1
      <3>3. CASE Headed(t)
        <4>1. n # 1
          BY <2>2, <3>3
        <4> QED BY <3>2, <3>3, <4>1 DEF Lines
      <3>4. CASE ~Headed(t)
        BY <3>2, <3>4 DEF Lines
      <3> QED BY <3>3, <3>4
    <2>4. Says(n).line = n /\ Says(n).to = Cell(t.rows[n], at.to)
          /\ Says(n).amount = Cell(t.rows[n], at.amount)
      OBVIOUS
    <2> HIDE DEF Says, said
    <2>5. Says(n) \in said
      BY <1>3, <2>2, <2>3, <2>4
    <2> QED BY <2>4, <2>5
  <1> HIDE DEF said, Says
  <1> QED BY <1>1, <1>8, <1>9, <1>10, BatchPays DEF said

(* And so does a draft of what an agent asked to pay. *)
LEMMA AgentPays ==
    ASSUME NEW list \in Lists, draftPayments(list),
           Resolves({lineOf(list[n], n) : n \in DOMAIN list}, FALSE)
    PROVE  Pays(ResolveBatch({lineOf(list[n], n) : n \in DOMAIN list}, FALSE), list, saved)
  <1> DEFINE said == {lineOf(list[n], n) : n \in DOMAIN list}
             At1(n, key) == CHOOSE i \in DOMAIN list[n].keys : list[n].keys[i] = key
  <1>1. list \in Seq(Written)
    BY DraftsAssumption
  <1>2. ASSUME NEW n \in DOMAIN list
        PROVE  /\ list[n] \in Written /\ DOMAIN list[n].keys = DOMAIN list[n].cells
               /\ Range(list[n].keys) = {"to", "amount"}
    <2>1. list[n] \in Range(list) /\ list[n] \in Written
      BY <1>1 DEF Range
    <2>2. list[n].shape = "object"
      BY <2>1, DraftsAssumption
    <2>3. Len(list[n].keys) = Len(list[n].cells)
      BY <2>1, <2>2, DraftsAssumption
    <2>4. list[n].keys \in Seq(Cells) /\ list[n].cells \in Seq(Text)
      BY <2>1 DEF Written, Text
    <2>5. Range(list[n].keys) = {"to", "amount"}
      BY <2>1 DEF draftPayments
    <2> HIDE DEF Text
    <2>6. DOMAIN list[n].keys = DOMAIN list[n].cells
      BY <2>3, <2>4
    <2> QED BY <2>1, <2>5, <2>6
  <1>3. ASSUME NEW n \in DOMAIN list, NEW key \in {"to", "amount"}
        PROVE  At1(n, key) \in DOMAIN list[n].cells /\ list[n].keys[At1(n, key)] = key
    <2>1. \E i \in DOMAIN list[n].keys : list[n].keys[i] = key
      <3>1. key \in Range(list[n].keys)
        BY <1>2
      <3> QED BY <3>1 DEF Range
    <2> QED BY <1>2, <2>1
  <1>4. ASSUME NEW n \in DOMAIN list
        PROVE  /\ lineOf(list[n], n).line = n
               /\ lineOf(list[n], n).to = list[n].cells[At1(n, "to")]
               /\ lineOf(list[n], n).amount = list[n].cells[At1(n, "amount")]
    BY DEF lineOf
  <1> HIDE DEF At1
  <1>5. ASSUME NEW n \in DOMAIN list
        PROVE  /\ Found(lineOf(list[n], n).to, list[n], Destinations)
               /\ Found(lineOf(list[n], n).amount, list[n], Sums)
    BY <1>3, <1>4 DEF Found, Destinations, Sums
  <1>6. \A s \in said : /\ s.line \in DOMAIN list
                        /\ Found(s.to, list[s.line], Destinations)
                        /\ Found(s.amount, list[s.line], Sums)
    BY <1>4, <1>5
  <1>7. \A s, u \in said : s.line = u.line => s = u
    BY <1>4
  <1>8. \A n \in Holding(list) : \E s \in said : s.line = n
    <2>1. Holding(list) \subseteq DOMAIN list
      BY DEF Holding
    <2> QED BY <1>4, <2>1
  <1> HIDE DEF said
  <1>9. Resolves(said, FALSE)
    BY DEF said
  <1> QED BY <1>1, <1>6, <1>7, <1>8, <1>9, BatchPays DEF said

--------------------------------------------------------------------------------
(* Every draft there is pays what its document says. *)
Paid == \A d \in DOMAIN drafts : Pays(drafts[d].rows, drafts[d].document, drafts[d].names)

(* A draft that is saved pays what it was made of, and the others what they did. *)
LEMMA SavePays ==
    ASSUME Drafts, Paid, NEW rows, NEW document, SaveDraft(rows, document),
           Pays(rows, document, saved)
    PROVE  Paid'
  <1>1. PICK n \in Nat : DOMAIN drafts = 1..n
    BY DEF Drafts
  <1>2. Cardinality(1..n) = n
    <2>1. 1 \in Int /\ n \in Int
      OBVIOUS
    <2> QED BY <2>1, FS_Interval
  <1> DEFINE new == [rows |-> rows, status |-> "open", proposal |-> 0, document |-> document,
                     names |-> saved]
  <1>3. drafts' = [d \in 1..(n + 1) |-> IF d < n + 1 THEN drafts[d] ELSE new]
    BY <1>1, <1>2 DEF SaveDraft
  <1>4. new.rows = rows /\ new.document = document /\ new.names = saved
    OBVIOUS
  <1> HIDE DEF new
  <1>5. DOMAIN drafts' = 1..(n + 1) /\ \A d \in 1..(n + 1) :
          (d \in 1..n /\ drafts'[d] = drafts[d]) \/ drafts'[d] = new
    BY <1>3
  <1>6. ASSUME NEW d \in DOMAIN drafts'
        PROVE  Pays(drafts'[d].rows, drafts'[d].document, drafts'[d].names)
    <2>1. CASE d \in 1..n /\ drafts'[d] = drafts[d]
      BY <1>1, <2>1 DEF Paid
    <2>2. CASE drafts'[d] = new
      BY <1>4, <2>2
    <2> QED BY <1>5, <2>1, <2>2
  <1> QED BY <1>6 DEF Paid

(* No draft is added, and those there are pay what they did. *)
LEMMA SamePays ==
    ASSUME Paid, Kept(drafts, drafts'), DOMAIN drafts' = DOMAIN drafts
    PROVE  Paid'
  BY DEF Paid, Kept

(* Only DraftPayroll and DraftForAgent add a draft. *)
LEMMA PaidStep ==
    ASSUME \A d \in Documents : Tidy(d), IInv, Drafts, Proposed, Paid, [Next]_vars
    PROVE  Paid'
  <1>1. Kept(drafts, drafts')
    BY DraftsKeep
  <1>2. UNCHANGED drafts => DOMAIN drafts' = DOMAIN drafts
    OBVIOUS
  <1>3. ASSUME NEW d, NEW status, NEW p, ResolveDraft(d, status, p)
        PROVE  DOMAIN drafts' = DOMAIN drafts
    BY <1>3 DEF ResolveDraft
  <1>4. ASSUME NEW r \in Requests, DraftPayroll(r)
        PROVE  Paid'
    <2>1. PICK d \in Documents :
            \/ \E t \in readDocument(d) :
                 Drafted(t) /\ SaveDraft(ResolveBatch(draftFromRows(t), TRUE), d.rows)
            \/ UNCHANGED drafts
      BY <1>4 DEF DraftPayroll
    <2>2. CASE UNCHANGED drafts
      BY <1>1, <1>2, <2>2, SamePays
    <2>3. ASSUME NEW t \in readDocument(d), Drafted(t),
                 SaveDraft(ResolveBatch(draftFromRows(t), TRUE), d.rows)
          PROVE  Paid'
      <3>1. Pays(ResolveBatch(draftFromRows(t), TRUE), d.rows, saved)
        BY <2>3, PayrollPays
      <3> QED BY <2>3, <3>1, SavePays
    <2> QED BY <2>1, <2>2, <2>3
  <1>5. ASSUME NEW r \in Requests, DraftForAgent(r)
        PROVE  Paid'
    <2> DEFINE list == req[r].list
               said == {lineOf(list[n], n) : n \in DOMAIN list}
    <2>1. list \in Lists /\ draftPayments(list)
      BY <1>5 DEF DraftForAgent, At, Drafts, CarriesOK
    <2>2. \/ Resolves(said, FALSE) /\ SaveDraft(ResolveBatch(said, FALSE), list)
          \/ UNCHANGED drafts
      BY <1>5 DEF DraftForAgent
    <2>3. CASE UNCHANGED drafts
      BY <1>1, <1>2, <2>3, SamePays
    <2>4. CASE Resolves(said, FALSE) /\ SaveDraft(ResolveBatch(said, FALSE), list)
      <3>1. Pays(ResolveBatch(said, FALSE), list, saved)
        BY <2>1, <2>4, AgentPays
      <3> QED BY <2>4, <3>1, SavePays
    <2> QED BY <2>2, <2>3, <2>4
  <1>6. ASSUME NEW r \in Requests, Deciding(r), ~DraftPayroll(r), ~DraftForAgent(r)
        PROVE  Paid'
    <2>1. UNCHANGED drafts \/ \E d, status, p : ResolveDraft(d, status, p)
      BY <1>6 DEF Deciding, Show, ProposeDraft, proposeBatch, Resolve, callAgentTool, deciding
    <2> QED BY <1>1, <1>2, <1>3, <2>1, SamePays
  <1>7. CASE Elsewhere
    <2>1. UNCHANGED drafts \/ \E d, status, p : ResolveDraft(d, status, p)
      BY <1>7 DEF Elsewhere, discard, CloseProposal, IssueMCPToken, RevokeMCPToken, SaveBeneficiary,
                  ForgetBeneficiary
    <2> QED BY <1>1, <1>2, <1>3, <2>1, SamePays
  <1>8. CASE UNCHANGED drafts
    BY <1>1, <1>2, <1>8, SamePays
  <1>9. CASE UNCHANGED vars
    BY <1>8, <1>9 DEF vars, deciding
  <1>10. CASE Next
    BY <1>4, <1>5, <1>6, <1>7, <1>8, <1>10 DEF Next, deciding
  <1> QED BY <1>9, <1>10

(* A draft pays every line of the document it was read from, each its own amount to its own  *)
(* destination, and nothing else, and its proposal pays that (readJSON, readCSV, readRange,  *)
(* draftFromRows, ResolveBatch, api/connectors.go): proved of documents with nothing payable *)
(* in their heading or beside their two columns.                                             *)
THEOREM WhatWasReadIsPaid ==
    ASSUME \A d \in Documents : Tidy(d) PROVE Spec => []PaysWhatWasRead
  <1>1. Init => Paid
    BY NoColumns DEF Init, Paid
  <1>2. IInv /\ Drafts /\ Proposed /\ Paid /\ [Next]_vars => Paid'
    BY PaidStep
  <1>3. Paid /\ Proposed => PaysWhatWasRead
    BY DEF Paid, Proposed, ProposedOK, PaysWhatWasRead
  <1> QED BY <1>1, <1>2, <1>3, DraftsSound, PTL DEF Spec
================================================================================
