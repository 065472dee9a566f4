------------------------------ MODULE MCConnectors ------------------------------
(* Small instances of Connectors, Reads and Drafts for TLC. *)
EXTENDS Drafts, TLC

Answer(status, form, says, result) ==
    [status |-> status, form |-> form, says |-> says, result |-> result]
MCAnswers ==
    {Answer("ok", "json", <<"result">>, result) : result \in Result}
    \cup {Answer("ok", "json", says, "as asked") :
            says \in {<<>>, <<"note">>, <<"ask">>, <<"theirs">>, <<"error">>, <<"result", "noise">>}}
    \cup {Answer("ok", "stream", says, "as asked") :
            says \in {<<"note">>, <<"note", "result", "ask">>, <<"note", "ask", "result">>,
                      <<"theirs", "result">>, <<"neither">>}}
    \cup {Answer("ok", "html", <<"result">>, "as asked"), Answer("other", "json", <<"result">>, "as asked")}

Plain(groups, units) == [mark |-> "none", groups |-> groups, point |-> FALSE, places |-> 0, units |-> units]
MCFigures ==
    [x \in {"1", "2", "0.5", "0", "-1", "1,00", "0.005", "1."} |->
        CASE x = "1"     -> Plain(<<1>>, 100)
          [] x = "2"     -> Plain(<<1>>, 200)
          [] x = "0.5"   -> [Plain(<<>>, 50) EXCEPT !.point = TRUE, !.places = 1]
          [] x = "0"     -> Plain(<<1>>, 0)
          [] x = "-1"    -> [Plain(<<1>>, 100) EXCEPT !.mark = "minus"]
          [] x = "1,00"  -> Plain(<<1, 2>>, 10000)
          [] x = "0.005" -> [Plain(<<1>>, 1) EXCEPT !.point = TRUE, !.places = 3]
          [] x = "1."    -> [Plain(<<1>>, 100) EXCEPT !.point = TRUE]]
MCAddresses == {"A", "B"}
MCNames == {"ann"}

Array(cells) == [shape |-> "array", keys |-> <<>>, cells |-> cells]
Object(keys, cells) == [shape |-> "object", keys |-> keys, cells |-> cells]
Arrays(rows) == [n \in DOMAIN rows |-> Array(rows[n])]
MCSheets ==
    {Arrays(<<>>),
     Arrays(<< <<"A", "1">>, <<"ann", "2">> >>),
     Arrays(<< <<"amount", "to">>, <<"0.5", "A">>, <<"", "">>, <<"2", "B">> >>),
     Arrays(<< <<"address", "amount">>, <<"A", "">> >>),
     Arrays(<< <<"total", "amount">>, <<"1", "2">> >>),
     Arrays(<< <<"other", "other">>, <<"A", "1">> >>),
     Arrays(<< <<"A", "1">>, <<"", "">>, <<"", "">>, <<"B", "2">>, <<"A", "1">> >>),
     Arrays(<< <<"A", "1">>, <<"B", "1">>, <<"A", "2">>, <<"B", "2">> >>),
     Arrays(<< <<"A", "nested">> >>), Arrays(<< <<"A", "1", "", "">> >>)}
     \cup {Arrays(<< <<"A", x>> >>) : x \in DOMAIN MCFigures}
MCObjects ==
    {<<Object(<<"other", "total", "account">>, <<"", "2", "ann">>),
       Object(<<"account", "other", "total">>, <<"B", "other", "1">>)>>,
     <<Object(<<"other", "to">>, <<"1", "A">>)>>,
     <<Object(<<"to", "to", "amount">>, <<"A", "B", "1">>)>>,
     <<Object(<<"to", "amount">>, <<"A", "1">>), Object(<<"to", "other">>, <<"B", "1">>)>>,
     <<Object(<<"to", "amount">>, <<"A", "1">>), Object(<<"to">>, <<"B">>)>>,
     <<Object(<<"to", "amount">>, <<"A", "1">>), Array(<<"B", "1">>)>>}
MCDocuments ==
    {[from |-> "webhook", form |-> form, rows |-> rows] : rows \in MCSheets \cup MCObjects, form \in {"json"}}
    \cup {[from |-> "webhook", form |-> "csv", rows |-> rows] : rows \in MCSheets \ {Arrays(<< <<"A", "nested">> >>)}}
    \cup {[from |-> "sheets", form |-> "json", rows |-> rows] : rows \in MCSheets}
    \cup {[from |-> "mcp", form |-> "lines", rows |-> rows] : rows \in {Arrays(<< <<"A">>, <<"1">> >>)}}
MCLists ==
    {<<Object(<<"amount", "to">>, <<"1", "B">>)>>, <<Object(<<"to", "amount">>, <<"ann", "1">>)>>,
     <<Object(<<"to", "amount">>, <<"A", "nested">>)>>, <<>>}

Granting ==
    [does |-> {"register", "set up", "remove", "grant", "read"},
     kinds |-> {"webhook"}, rates |-> {1}, granted |-> FALSE]
Changing == [does |-> {"set up", "grant", "read"}, kinds |-> {"mcp"}, rates |-> {1}, granted |-> TRUE]
Calling == [does |-> {"read", "offer", "time"}, kinds |-> {"mcp"}, rates |-> {2}, granted |-> TRUE]
Sharing == [does |-> {"read", "revoke", "restart", "time"}, kinds |-> {"sheets"}, rates |-> {2}, granted |-> TRUE]
Asking == [does |-> {"agent", "propose"}, kinds |-> {"sheets"}, rates |-> {2}, granted |-> TRUE]
Paying == [does |-> {"payroll"}, kinds |-> {"sheets", "mcp"}, rates |-> {2}, granted |-> TRUE]
Naming == [does |-> {"payroll", "save", "propose"}, kinds |-> {"webhook"}, rates |-> {1}, granted |-> TRUE]
MCStories == {Granting, Changing, Calling, Sharing, Asking, Paying, Naming}

\* Every document here is laid out as PaysWhatWasRead takes it to be.
ASSUME TidyDocuments == \A d \in Documents : Tidy(d)

Interchangeable == Permutations(Requests) \cup Permutations(Ends) \cup Permutations(Surfaces)
================================================================================
