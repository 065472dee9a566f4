--------------------------------- MODULE Drafts ---------------------------------
(***************************************************************************)
(* From a table somebody else keeps to a proposal: what a reader returns   *)
(* of it, how it is read as a payroll, the draft that is kept, and the     *)
(* proposal it becomes (api/connectors.go, api/batch.go, connector,        *)
(* connector/webhook, connector/sheets, ledger/store/connector.go).  An    *)
(* agent writes drafts too, with a token an admin issued (mcp,             *)
(* ledger/store/mcp.go).                                                   *)
(***************************************************************************)
EXTENDS Connectors, Functions

CONSTANTS
    Documents,  \* what a connector may answer with
    Lists,      \* what an agent may ask to pay
    Names,      \* cells that are a name somebody may save
    Addresses,  \* cells that are an address
    Figures,    \* cells that look like an amount, and what is written in them
    MaxSeen,    \* rows a reader returns at most
    MaxColumns, \* cells a row may have
    MaxPlaces,  \* decimal places the ledger holds
    MaxPaid,    \* payments one transaction holds
    MaxDrafts, MaxProposals, MaxTokens \* bounds: rows ever inserted

VARIABLES
    saved,     \* table beneficiaries, of the one member who reads tables here
    drafts,    \* table drafts
    proposals, \* the treasury's proposals that came of them
    tokens     \* table mcp_tokens: the tier of each

deciding == <<saved, drafts, proposals, tokens>>
vars == <<clock, offers, outgoing, req, guarding, story, deciding>>

Nobody == "nobody"
Destinations == {"to", "address", "account"}
Sums == {"amount", "total"}
Values == DOMAIN Figures \cup Addresses \cup Names
Cells == Destinations \cup Sums \cup Values \cup {"", "other"}
\* A number: its mark if it has one, the length of each group of digits before the point, whether
\* there is a point and how many places follow it, and its value in the ledger's smallest unit.
Figure == [mark: {"none", "formula", "accounting", "minus", "plus", "word"}, groups: Seq(Nat),
           point: BOOLEAN, places: Nat, units: Nat]
\* A row as it is written: an array of cells, an object of keys and cells, or neither.
Written == [shape: {"array", "object", "neither"}, keys: Seq(Cells), cells: Seq(Cells \cup {"nested"})]
Document == [from: Kinds, form: {"json", "csv", "lines", "html"}, rows: Seq(Written)]

ASSUME DraftsAssumption ==
    /\ Documents \subseteq Document /\ Lists \subseteq Seq(Written)
    /\ Figures \in [DOMAIN Figures -> Figure] /\ Nobody \notin Addresses
    /\ "" \notin Values
    \* An object has a cell for every key; a sheet's rows are arrays, a tool's are lines of
    \* text; and an agent's payments are objects.
    /\ \A ws \in {d.rows : d \in Documents} \cup Lists : \A w \in Range(ws) :
          w.shape = "object" => Len(w.keys) = Len(w.cells)
    /\ \A d \in Documents : d.from # "webhook" =>
          \A w \in Range(d.rows) : w.shape = "array" /\ (d.from = "mcp" => w.cells # <<>>)
    /\ \A list \in Lists : \A w \in Range(list) : w.shape = "object"
    /\ MaxSeen \in Nat /\ MaxColumns \in Nat /\ MaxPlaces \in Nat /\ MaxPaid \in Nat
    /\ MaxDrafts \in Nat /\ MaxProposals \in Nat /\ MaxTokens \in Nat

--------------------------------------------------------------------------------
(* What a reader makes of a document: at most one observation, and none where *)
(* any part of it cannot be read.                                             *)
bound(n) == IF n > MaxSeen THEN MaxSeen ELSE n
Observed(columns, rows, n) ==
    [columns |-> columns, truncated |-> n > MaxSeen,
     rows |-> [i \in 1..bound(n) |-> CHOOSE cells \in rows[i] : TRUE]]

readCell(w) == "nested" \notin Range(w.cells)
readArrayRow(w) == IF readCell(w) /\ Len(w.cells) <= MaxColumns THEN {w.cells} ELSE {}

\* The first object names the columns.
readFirstObject(w) ==
    IF readCell(w) /\ Len(w.cells) <= MaxColumns /\ IsInjective(w.keys) THEN {w.cells} ELSE {}

\* A later one is laid out under them: every key once, and no other.
readObjectRow(w, columns) ==
    IF readCell(w) /\ IsInjective(w.keys) /\ Range(w.keys) = Range(columns)
    THEN {[i \in DOMAIN columns |-> w.cells[CHOOSE j \in DOMAIN w.keys : w.keys[j] = columns[i]]]}
    ELSE {}

\* Rows past the limit are read too, and not kept.
readJSON(ws) ==
    LET first == ws[1]
        rows == [n \in DOMAIN ws |->
                    IF ws[n].shape # first.shape THEN {}
                    ELSE CASE first.shape = "array" -> readArrayRow(ws[n])
                           [] first.shape = "object" /\ n = 1 -> readFirstObject(first)
                           [] first.shape = "object" /\ n > 1 -> readObjectRow(ws[n], first.keys)
                           [] OTHER -> {}]
    IN  IF {} \in Range(rows) THEN {}
        ELSE {Observed(IF ws # <<>> /\ first.shape = "object" THEN first.keys ELSE <<>>, rows, Len(ws))}

\* Records may differ in length; one that is not well formed spoils the file.
readCSV(ws) ==
    IF \E w \in Range(ws) : w.shape # "array" \/ Len(w.cells) > MaxColumns THEN {}
    ELSE {Observed(<<>>, [n \in DOMAIN ws |-> {ws[n].cells}], Len(ws))}

\* A range of a sheet is cut first, and only what is left is looked at.
readRange(ws) ==
    IF \E n \in 1..bound(Len(ws)) : ~readCell(ws[n]) THEN {}
    ELSE {Observed(<<>>, [n \in DOMAIN ws |-> {ws[n].cells}], Len(ws))}

\* The text of a tool is rows of one cell, a line each.
readLines(ws) == {Observed(<<>>, [n \in DOMAIN ws |-> {SubSeq(ws[n].cells, 1, 1)}], Len(ws))}

readDocument(d) ==
    CASE d.from = "webhook" /\ d.form = "json" -> readJSON(d.rows)
      [] d.from = "webhook" /\ d.form = "csv"  -> readCSV(d.rows)
      [] d.from = "sheets"                     -> readRange(d.rows)
      [] d.from = "mcp"                        -> readLines(d.rows)
      [] OTHER                                 -> {}

--------------------------------------------------------------------------------
(* A table read as a payroll.                                                 *)
looksLikeHeader(cells) == Cardinality({i \in DOMAIN cells : cells[i] \in Destinations \cup Sums}) >= 2
First(cells, names) ==
    IF \E i \in DOMAIN cells : cells[i] \in names
    THEN CHOOSE i \in DOMAIN cells : cells[i] \in names /\ \A j \in 1..(i - 1) : cells[j] \notin names
    ELSE 0
Cell(cells, i) == IF i \in DOMAIN cells THEN cells[i] ELSE ""

\* The columns are found by their headings where there are any, by position where not.
Headed(t) == t.columns = <<>> /\ t.rows # <<>> /\ looksLikeHeader(t.rows[1])
Header(t) == IF Headed(t) THEN t.rows[1] ELSE t.columns
Columns(t) ==
    IF Header(t) = <<>> THEN [to |-> 1, amount |-> 2]
    ELSE [to |-> First(Header(t), Destinations), amount |-> First(Header(t), Sums)]
Lines(t) == (IF Headed(t) THEN 2 ELSE 1)..Len(t.rows)

\* Every line that is not wholly empty is a row of the draft; none where the headings name
\* no destination or no amount.
draftFromRows(t) ==
    LET at == Columns(t)
        said == {[line |-> n, to |-> Cell(t.rows[n], at.to), amount |-> Cell(t.rows[n], at.amount)] :
                    n \in Lines(t)}
    IN  IF at.to = 0 \/ at.amount = 0 THEN {} ELSE {s \in said : s.to # "" \/ s.amount # ""}

\* One to three digits, then groups of three.
stripGrouping(groups) ==
    Len(groups) > 1 => groups[1] \in 1..3 /\ \A i \in 2..Len(groups) : groups[i] = 3

\* A plain decimal that the ledger can hold, and not nothing.
NormalizeTabularAmount(cell) ==
    /\ cell \in DOMAIN Figures
    /\ LET f == Figures[cell]
       IN  /\ f.mark = "none" /\ stripGrouping(f.groups)
           /\ IF f.point THEN f.places \in 1..MaxPlaces ELSE f.groups # <<>>
           /\ f.units > 0

\* An address stands for itself; a name for what the member who reads it saved under it.
resolveDestination(cell, mayName) ==
    IF cell \in Addresses THEN cell
    ELSE IF cell \in Names /\ mayName THEN saved[cell] ELSE Nobody

resolveRow(said, mayName) ==
    [line |-> said.line, amount |-> Figures[said.amount].units,
     to |-> resolveDestination(said.to, mayName)]

\* Every row can be read, or there is no batch.
Resolves(said, mayName) ==
    /\ said # {} /\ Cardinality(said) <= MaxPaid
    /\ \A s \in said : NormalizeTabularAmount(s.amount) /\ resolveDestination(s.to, mayName) # Nobody
ResolveBatch(said, mayName) == {resolveRow(s, mayName) : s \in said}

SaveBeneficiary(name, address) ==
    /\ Does("save") /\ saved[name] = Nobody
    /\ saved' = [saved EXCEPT ![name] = address]
    /\ UNCHANGED <<outside, req, guarding, drafts, proposals, tokens>>

ForgetBeneficiary(name) ==
    /\ Does("save") /\ saved[name] # Nobody
    /\ saved' = [saved EXCEPT ![name] = Nobody]
    /\ UNCHANGED <<outside, req, guarding, drafts, proposals, tokens>>

--------------------------------------------------------------------------------
(* Drafts.                                                                     *)
SaveDraft(rows, document) ==
    \E n \in 1..MaxDrafts :
        /\ n = Cardinality(DOMAIN drafts) + 1
        /\ drafts' = [d \in 1..n |-> IF d < n THEN drafts[d]
                        ELSE [rows |-> rows, status |-> "open", proposal |-> 0,
                              document |-> document, names |-> saved]]

Drafted_CutShort(t) == Resolves(draftFromRows(t), TRUE)

Drafted(t) == ~t.truncated /\ Resolves(draftFromRows(t), TRUE)

\* The rows come back.  A read shows them and keeps nothing; a payroll that was cut short or
\* holds a row that cannot be read is refused whole.
DraftPayroll(r) ==
    /\ At(r, "answered") /\ req[r].use = "payroll"
    /\ \E d \in Documents :
          /\ d.from = req[r].row.kind
          /\ \/ \E t \in readDocument(d) :
                   Drafted(t) /\ SaveDraft(ResolveBatch(draftFromRows(t), TRUE), d.rows)
             \/ (\A t \in readDocument(d) : ~Drafted(t)) /\ UNCHANGED drafts
    /\ Finish(r)
    /\ UNCHANGED <<outside, guarding, saved, proposals, tokens>>

Show(r) ==
    /\ At(r, "answered") /\ req[r].use = "read"
    /\ Finish(r)
    /\ UNCHANGED <<outside, guarding, deciding>>

\* OpenDraft, and the batch as it was stored: not the sheet again.
OpenDraft(d) == drafts[d].status = "open"
batchOf(d) == drafts[d].rows

ProposeDraft(r, d) ==
    /\ Does("propose") /\ At(r, "idle") /\ OpenDraft(d)
    /\ Goto(r, [pc |-> "propose", draft |-> d, pays |-> batchOf(d)])
    /\ UNCHANGED <<outside, guarding, deciding>>

\* The treasury has at most one proposal open.
proposeBatch(r) ==
    /\ At(r, "propose")
    /\ IF \E p \in DOMAIN proposals : proposals[p].status = "open"
       THEN Finish(r) /\ UNCHANGED proposals
       ELSE \E n \in 1..MaxProposals :
               /\ n = Cardinality(DOMAIN proposals) + 1
               /\ proposals' = [p \in 1..n |-> IF p < n THEN proposals[p]
                                  ELSE [draft |-> req[r].draft, pays |-> req[r].pays, status |-> "open"]]
               /\ Goto(r, [pc |-> "resolve", draft |-> req[r].draft, proposal |-> n])
    /\ UNCHANGED <<outside, guarding, saved, drafts, tokens>>

\* Closed only if it is still open; the draft names the proposal it became.
ResolveDraft(d, status, p) ==
    drafts' = IF OpenDraft(d) THEN [drafts EXCEPT ![d].status = status, ![d].proposal = p] ELSE drafts

Resolve(r) ==
    /\ At(r, "resolve")
    /\ \/ ResolveDraft(req[r].draft, "proposed", req[r].proposal)
       \/ UNCHANGED drafts
    /\ Finish(r)
    /\ UNCHANGED <<outside, guarding, saved, proposals, tokens>>

discard(d) ==
    /\ Does("propose") /\ OpenDraft(d)
    /\ ResolveDraft(d, "discarded", 0)
    /\ UNCHANGED <<outside, req, guarding, saved, proposals, tokens>>

\* The signers pay a proposal, or it is withdrawn or expires.
CloseProposal(p, status) ==
    /\ proposals[p].status = "open"
    /\ proposals' = [proposals EXCEPT ![p].status = status]
    /\ UNCHANGED <<outside, req, guarding, saved, drafts, tokens>>

--------------------------------------------------------------------------------
(* Agents.                                                                     *)
IssueMCPToken(t, tier) ==
    /\ Does("agent") /\ tokens[t] = "none" /\ \A u \in 1..(t - 1) : tokens[u] # "none"
    /\ tokens' = [tokens EXCEPT ![t] = tier]
    /\ UNCHANGED <<outside, req, guarding, saved, drafts, proposals>>

RevokeMCPToken(t) ==
    /\ tokens[t] \in {"read", "propose"}
    /\ tokens' = [tokens EXCEPT ![t] = "revoked"]
    /\ UNCHANGED <<outside, req, guarding, saved, drafts, proposals>>

LookupMCPToken(t) == tokens[t] \in {"read", "propose"}
allows(tier, tool) == tier = tool \/ (tool = "read" /\ tier = "propose")

\* Each payment is a destination and an amount, both as text.
draftPayments(list) ==
    /\ list # <<>> /\ Len(list) <= MaxPaid
    /\ \A w \in Range(list) : readCell(w) /\ Range(w.keys) = {"to", "amount"} /\ "" \notin Range(w.cells)
lineOf(w, n) ==
    LET Field(key) == w.cells[CHOOSE i \in DOMAIN w.keys : w.keys[i] = key]
    IN  [line |-> n, to |-> Field("to"), amount |-> Field("amount")]

\* A call with a token that allows it.  Tools that read leave nothing behind.
callAgentTool(r, t, list) ==
    /\ At(r, "idle") /\ LookupMCPToken(t) /\ allows(tokens[t], "propose")
    /\ draftPayments(list)
    /\ Goto(r, [pc |-> "agent", list |-> list])
    /\ UNCHANGED <<outside, guarding, deciding>>

\* The same reading as a sheet's, and every destination an address.
DraftForAgent(r) ==
    LET said == {lineOf(req[r].list[n], n) : n \in DOMAIN req[r].list}
    IN  /\ At(r, "agent")
        /\ IF Resolves(said, FALSE) THEN SaveDraft(ResolveBatch(said, FALSE), req[r].list)
           ELSE UNCHANGED drafts
        /\ Finish(r)
        /\ UNCHANGED <<outside, guarding, saved, proposals, tokens>>

--------------------------------------------------------------------------------
Init ==
    /\ clock = 0
    /\ story \in Stories
    /\ offers \in [Ends -> Surfaces]
    /\ "mcp" \in story.kinds \/ \A e, f \in Ends : offers[e] = offers[f]
    /\ client = <<>> /\ breaker = <<>>
    /\ account = NoToken /\ flight = [f \in 1..MaxFlights |-> "none"]
    /\ req = [r \in Requests |-> Idle]
    /\ calls = [t \in 0..MaxTime |-> 0] /\ admitted = calls
    /\ cached = [i \in Ids |-> 0]
    /\ revs = 0
    /\ IF story.granted
       THEN \E kind \in story.kinds, e \in Ends, rate \in story.rates :
               LET end == IF kind = "sheets" THEN Google ELSE e
                   surface == IF kind = "mcp" THEN offers[e] ELSE kind
               IN  /\ row = [i \in Ids |-> IF i > 1 THEN NoRow
                               ELSE [at |-> "live", kind |-> kind, end |-> end, surface |-> surface,
                                     rev |-> 0, ready |-> TRUE]]
                   /\ grants = [g \in GrantIds |-> IF g > 1 THEN NoGrant
                                  ELSE [at |-> "in force", id |-> 1, kind |-> kind, end |-> end,
                                        surface |-> surface, rate |-> rate, between |-> FALSE]]
       ELSE row = [i \in Ids |-> NoRow] /\ grants = [g \in GrantIds |-> NoGrant]
    /\ saved = [name \in Names |-> Nobody] /\ drafts = <<>> /\ proposals = <<>>
    /\ tokens = [t \in 1..MaxTokens |-> "none"]

Deciding(r) ==
    \/ DraftPayroll(r) \/ Show(r)
    \/ \E d \in DOMAIN drafts : ProposeDraft(r, d)
    \/ proposeBatch(r) \/ Resolve(r)
    \/ \E t \in 1..MaxTokens, list \in Lists : callAgentTool(r, t, list)
    \/ DraftForAgent(r)

Elsewhere ==
    \/ \E d \in DOMAIN drafts : discard(d)
    \/ \E p \in DOMAIN proposals, status \in {"executed", "cancelled"} : CloseProposal(p, status)
    \/ \E t \in 1..MaxTokens, tier \in {"read", "propose"} : IssueMCPToken(t, tier)
    \/ \E t \in 1..MaxTokens : RevokeMCPToken(t)
    \/ \E name \in Names, address \in Addresses : SaveBeneficiary(name, address)
    \/ \E name \in Names : ForgetBeneficiary(name)

Next ==
    \/ connectorCmd /\ UNCHANGED <<deciding, story>>
    \/ Restart /\ UNCHANGED <<deciding, story>>
    \/ \E r \in Requests : Guarding(r) /\ UNCHANGED <<deciding, story>>
    \/ \E r \in Requests : Out(r) /\ UNCHANGED <<guarding, deciding, story>>
    \/ Does("time") /\ Tick /\ UNCHANGED <<guarding, deciding, story>>
    \/ \E e \in Ends, s \in Surfaces :
         Does("offer") /\ Offer(e, s) /\ UNCHANGED <<guarding, deciding, story>>
    \/ \E r \in Requests : Deciding(r) /\ UNCHANGED story
    \/ Elsewhere /\ UNCHANGED story

Spec == Init /\ [][Next]_vars

--------------------------------------------------------------------------------
\* The lines that hold an address, a name or an amount.
Holding(lines) == {n \in DOMAIN lines : Range(lines[n].cells) \cap Values # {}}

\* Each of them is one of the payments, of that line's amount to that line's address, or to
\* whom its name stood for; and there are no others.
Pays(rows, lines, names) ==
    LET Under(n, i, keys) == lines[n].shape = "object" => lines[n].keys[i] \in keys
    IN  /\ {p.line : p \in rows} = Holding(lines)
        /\ Cardinality(rows) = Cardinality(Holding(lines))
        /\ \A p \in rows : \E i, j \in DOMAIN lines[p.line].cells :
              LET to == lines[p.line].cells[i]
                  amount == lines[p.line].cells[j]
              IN  /\ Under(p.line, i, Destinations) /\ Under(p.line, j, Sums)
                  /\ to = p.to \/ (to \in Names /\ names[to] = p.to)
                  /\ amount \in DOMAIN Figures /\ Figures[amount].units = p.amount

\* A draft pays every line of the document it was read from and nothing else, whichever way
\* round the columns are, whatever order an object's keys come in, and however long the
\* document is; a name is paid to whom it stood for when it was read.  Whoever proposes it
\* later proposes those payments, whatever the document or the names have become.
\* api/connectors.go:812 "a payroll with one row quietly dropped pays everyone but one
\* person, and nobody finds out from the total"
PaysWhatWasRead ==
    /\ \A d \in DOMAIN drafts : Pays(drafts[d].rows, drafts[d].document, drafts[d].names)
    /\ \A p \in DOMAIN proposals : proposals[p].pays = drafts[proposals[p].draft].rows

\* What it needs of a document: nothing that could be paid or be paid to is in the heading,
\* or on a line with nothing in either of the two columns.
Tidy(d) ==
    \A t \in readDocument(d) : \A n \in DOMAIN t.rows \cap Holding(d.rows) :
      /\ ~(Headed(t) /\ n = 1)
      /\ Cell(t.rows[n], Columns(t).to) # "" \/ Cell(t.rows[n], Columns(t).amount) # ""
================================================================================
