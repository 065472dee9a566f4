--------------------------------- MODULE Reads ---------------------------------
(***************************************************************************)
(* How a connector is called once it may be: an MCP server behind its      *)
(* circuit breaker and its pinned tools (connector/mcpclient), a webhook   *)
(* (connector/webhook) and a spreadsheet, whose readers share one exchange *)
(* of the service account's key for a token (connector/sheets).            *)
(* Every reader is a goroutine; each lock, call and wake-up is one step.   *)
(***************************************************************************)
EXTENDS Integers, FiniteSets, Sequences

CONSTANTS
    Requests,   \* requests being handled at a time
    Ends,       \* endpoints a connector may be set up with
    Surfaces,   \* digests of the tools an MCP server may offer
    Answers,    \* what may come back over the wire from an MCP server
    Threshold,  \* consecutive failures that open a breaker
    CoolDown,   \* how long it stays open
    TokenLife,  \* how long a token is handed out, the early refresh taken off
    MaxTime, MaxClients, MaxFlights \* bounds: the clock, clients built, exchanges made

VARIABLES
    clock,
    offers,  \* the network: the tools an MCP server presents at an endpoint
    client,  \* the clients this process has built, by number
    breaker, \* the breaker of each
    account, \* the service account: when its token is to be refreshed, the flight under way
    flight,  \* the exchanges this process has started, by number
    req      \* requests in progress

outgoing == <<client, breaker, account, flight>>

Google == "google"
Kinds == {"sheets", "webhook", "mcp"}
Message == {"result", "error", "neither", "theirs", "ask", "note", "noise"}
Result == {"as asked", "failed", "paginated", "repeated", "too many", "image", "version"}
Wire == [status: {"ok", "other"}, form: {"json", "stream", "html"}, says: Seq(Message),
         result: Result]

ASSUME ReadsAssumption ==
    /\ Threshold \in Nat \ {0} /\ CoolDown \in Nat /\ TokenLife \in Nat
    /\ MaxTime \in Nat /\ MaxClients \in Nat /\ MaxFlights \in Nat
    /\ Answers \subseteq Wire
    /\ Google \notin Ends /\ Surfaces \cap Kinds = {} /\ IsFiniteSet(Requests)

Idle == [pc |-> "idle"]
At(r, pc) == req[r].pc = pc
Goto(r, state) == req' = [req EXCEPT ![r] = state]
Step(r, pc) == Goto(r, [req[r] EXCEPT !.pc = pc])
Finish(r) == Goto(r, Idle)

Closed == [failures |-> 0, open |-> FALSE, openedAt |-> 0, probing |-> FALSE]
NoToken == [refreshAt |-> 0, flight |-> 0]

--------------------------------------------------------------------------------
(* The breaker.                                                               *)
Allowed(b) == ~b.open \/ (~b.probing /\ clock - b.openedAt >= CoolDown)
enter(b) == [b EXCEPT !.probing = b.open]

probed_Kept(b, result) ==
    CASE result = "succeeded" -> Closed
      [] result = "failed"    -> [b EXCEPT !.probing = FALSE, !.openedAt = clock]
      [] OTHER                -> b

\* The probe decides whether the breaker closes, or that its cool-down starts again.
probed(b, result) ==
    CASE result = "succeeded" -> [b EXCEPT !.probing = FALSE, !.open = FALSE, !.failures = 0]
      [] result = "failed"    -> [b EXCEPT !.probing = FALSE, !.openedAt = clock]
      [] OTHER                -> [b EXCEPT !.probing = FALSE]

counted(b, result) ==
    CASE result = "succeeded" -> [b EXCEPT !.failures = 0]
      [] result = "failed" /\ b.failures + 1 < Threshold -> [b EXCEPT !.failures = @ + 1]
      [] result = "failed" /\ b.failures + 1 >= Threshold ->
           [b EXCEPT !.failures = @ + 1, !.open = TRUE, !.openedAt = clock]
      [] OTHER -> b

\* A call that came in before the breaker opened tells it nothing once it has.
done(b, probe, result) ==
    IF probe THEN probed(b, result) ELSE IF b.open THEN b ELSE counted(b, result)

(* The wire.  A message answers the request with a result, an error or neither,   *)
(* answers another request, asks something of the client, notifies it, or is noise. *)
checkID(m) == IF m = "theirs" THEN "noise" ELSE m

\* In an event stream notifications are read past; the first thing that is not one is the
\* answer, and what follows it is never seen.
readStream(says) ==
    LET heard == {i \in DOMAIN says : says[i] # "note"}
    IN  IF heard = {} THEN "noise"
        ELSE checkID(says[CHOOSE i \in heard : \A j \in heard : i <= j])

\* A body holds one message and nothing else, and that one is an answer.
answer(w) ==
    CASE w.form = "stream"                       -> readStream(w.says)
      [] w.form = "json" /\ Len(w.says) = 1      -> checkID(w.says[1])
      [] OTHER                                   -> "noise"

\* What one request comes to: its result, or nothing the client will use.  A server that asks
\* something of the client ends the call.
call(w) == IF w.status = "ok" /\ answer(w) = "result" THEN w.result ELSE "broken"

\* The surface a list of tools is pinned by, whichever order they are listed in.  There is none
\* for a list that comes in pages, names a tool twice or is longer than anybody read.
SurfaceDigest(listed, surface) ==
    IF listed = "as asked" THEN {surface} ELSE {}

(* An MCP server answers, reports that the tool failed, breaks the protocol or does not *)
(* answer; or the caller goes away first.                                               *)
Reply == {"rows", "tool failed", "broken", "gone"}
verdict(reply) ==
    CASE reply \in {"rows", "tool failed"} -> "succeeded"
      [] reply = "gone"                    -> "inconclusive"
      [] OTHER                             -> "failed"

Leave(r, reply) ==
    breaker' = [breaker EXCEPT ![req[r].client] = done(@, req[r].probe, verdict(reply))]
\* The call is over and has told the breaker what it came to.
Ended(r, reply) == Leave(r, reply) /\ Finish(r)

\* Refused at once while the breaker is open.
ReadMCP(r) ==
    LET c == req[r].client
    IN  /\ At(r, "mcp")
        /\ IF Allowed(breaker[c])
           THEN /\ breaker' = [breaker EXCEPT ![c] = enter(@)]
                /\ Goto(r, [req[r] EXCEPT !.pc = "session", !.probe = breaker[c].open])
           ELSE Finish(r) /\ UNCHANGED breaker
        /\ UNCHANGED <<clock, offers, client, account, flight>>

\* A session is opened in a version both speak.
initialise(r) ==
    /\ At(r, "session")
    /\ \/ \E w \in Answers : IF call(w) = "as asked" THEN Step(r, "list") /\ UNCHANGED breaker
                             ELSE Ended(r, "broken")
       \/ Ended(r, "gone")
    /\ UNCHANGED <<clock, offers, client, account, flight>>

\* The tools are listed, and the tool called only if they are the pinned ones.
listTools(r) ==
    LET c == client[req[r].client]
    IN  /\ At(r, "list")
        /\ \/ \E w \in Answers :
                 IF SurfaceDigest(call(w), offers[c.end]) = {c.surface}
                 THEN Step(r, "tool") /\ UNCHANGED breaker
                 ELSE Ended(r, "broken")
           \/ Ended(r, "gone")
        /\ UNCHANGED <<clock, offers, client, account, flight>>

\* A result that is not all text is refused whole.
toolReply(w) ==
    CASE call(w) = "as asked" -> "rows"
      [] call(w) = "failed"   -> "tool failed"
      [] OTHER                -> "broken"

callTool(r) ==
    /\ At(r, "tool")
    /\ \E reply \in {toolReply(w) : w \in Answers} \cup {"gone"} :
          /\ Leave(r, reply)
          /\ IF reply = "rows" THEN Step(r, "answered") ELSE Finish(r)
    /\ UNCHANGED <<clock, offers, client, account, flight>>

\* For registration: the surface an endpoint would be pinned by, where one can be found.
Discover(e) == UNION {SurfaceDigest(call(w), offers[e]) : w \in Answers}

--------------------------------------------------------------------------------
(* A webhook is fetched, and a spreadsheet with a token: whole or not at all.  *)
FetchRows(r) ==
    /\ At(r, "fetch")
    /\ Step(r, "answered") \/ Finish(r)
    /\ UNCHANGED <<clock, offers, outgoing>>

FetchRange(r) ==
    /\ At(r, "range")
    /\ Step(r, "answered") \/ Finish(r)
    /\ UNCHANGED <<clock, offers, outgoing>>

(* The token of a spreadsheet.                                                *)
Fresh == clock < account.refreshAt
Started == {f \in 1..MaxFlights : flight[f] # "none"}

Token(r) ==
    /\ At(r, "token")
    /\ \/ /\ Fresh
          /\ Step(r, "range")
          /\ UNCHANGED <<account, flight>>
       \/ /\ ~Fresh /\ account.flight # 0
          /\ Goto(r, [req[r] EXCEPT !.pc = "wait", !.flight = account.flight])
          /\ UNCHANGED <<account, flight>>
       \/ \E f \in 1..MaxFlights :
             /\ ~Fresh /\ account.flight = 0 /\ f = Cardinality(Started) + 1
             /\ account' = [account EXCEPT !.flight = f]
             /\ flight' = [flight EXCEPT ![f] = "running"]
             /\ Goto(r, [req[r] EXCEPT !.pc = "lead", !.flight = f])
    /\ UNCHANGED <<clock, offers, client, breaker>>

\* The leader reads the clock before it asks.
exchange(r) ==
    /\ At(r, "lead")
    /\ Goto(r, [req[r] EXCEPT !.pc = "asking", !.at = clock])
    /\ UNCHANGED <<clock, offers, outgoing>>

lead_Undeferred(r) ==
    /\ At(r, "asking")
    /\ \/ \E came \in {"ok", "failed", "abandoned"} :
             Goto(r, [req[r] EXCEPT !.pc = "settle", !.came = came])
       \/ Finish(r)
    /\ UNCHANGED <<clock, offers, outgoing>>

\* The exchange ends well, is refused, is abandoned by a leader whose own time ran out,
\* or panics; whichever it is, the flight is settled.
lead(r) ==
    /\ At(r, "asking")
    /\ \E came \in {"ok", "failed", "abandoned", "panicked"} :
          Goto(r, [req[r] EXCEPT !.pc = "settle", !.came = came])
    /\ UNCHANGED <<clock, offers, outgoing>>

\* Recorded under the lock, and only then told to whoever waits.
settle(r) ==
    /\ At(r, "settle")
    /\ account' = [refreshAt |-> IF req[r].came = "ok" THEN req[r].at + TokenLife ELSE account.refreshAt,
                   flight |-> 0]
    /\ Step(r, "close")
    /\ UNCHANGED <<clock, offers, client, breaker, flight>>

Close(r) ==
    /\ At(r, "close")
    /\ flight' = [flight EXCEPT ![req[r].flight] =
                     IF req[r].came = "panicked" THEN "failed" ELSE req[r].came]
    /\ IF req[r].came = "ok" THEN Step(r, "range") ELSE Finish(r)
    /\ UNCHANGED <<clock, offers, client, breaker, account>>

\* A waiter is woken, or its own time runs out first.  One whose leader gave up goes round again.
Wake(r) ==
    LET f == flight[req[r].flight]
    IN  /\ At(r, "wait")
        /\ \/ f = "ok" /\ Step(r, "range")
           \/ f = "abandoned" /\ Step(r, "token")
           \/ Finish(r)
        /\ UNCHANGED <<clock, offers, outgoing>>

--------------------------------------------------------------------------------
Tick ==
    /\ clock < MaxTime
    /\ clock' = clock + 1
    /\ UNCHANGED <<offers, outgoing, req>>

\* A server changes its tools.
Offer(e, s) ==
    /\ offers[e] # s
    /\ offers' = [offers EXCEPT ![e] = s]
    /\ UNCHANGED <<clock, outgoing, req>>

Out(r) ==
    \/ ReadMCP(r) \/ initialise(r) \/ listTools(r) \/ callTool(r) \/ FetchRows(r) \/ FetchRange(r)
    \/ Token(r) \/ exchange(r) \/ lead(r) \/ settle(r) \/ Close(r) \/ Wake(r)

--------------------------------------------------------------------------------
\* A breaker is probing exactly while one call that came in through it open is under way:
\* never two of them, and never none, which would leave the endpoint refused for good.  A
\* breaker that is closed has not counted to its threshold.
\* connector/mcpclient/breaker.go:48 "probing is set while the one call allowed through an
\* open breaker is in flight"
BreakerAgrees ==
    \A c \in DOMAIN breaker :
        LET probes == {r \in Requests : /\ req[r].pc \in {"session", "list", "tool"}
                                        /\ req[r].client = c /\ req[r].probe}
        IN  /\ breaker[c].probing => breaker[c].open /\ Cardinality(probes) = 1
            /\ probes # {} => breaker[c].probing
            /\ breaker[c].open <=> breaker[c].failures >= Threshold

\* Whoever waits for a token waits on an exchange that somebody is still making, and an
\* exchange that nobody is making holds up no later reader.
\* connector/sheets/serviceaccount.go:388 "Settled in a defer so that waiters are released
\* even if a caller's transport panics"
WaitersAreServed ==
    LET Leading(f) == \E r \in Requests : /\ req[r].pc \in {"lead", "asking", "settle", "close"}
                                          /\ req[r].flight = f
    IN  /\ \A r \in Requests :
              At(r, "wait") /\ flight[req[r].flight] = "running" => Leading(req[r].flight)
        /\ account.flight # 0 => Leading(account.flight)
================================================================================
