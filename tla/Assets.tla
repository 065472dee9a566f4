--------------------------------- MODULE Assets --------------------------------
(***************************************************************************)
(* What is checked against the network before something is put to a        *)
(* treasury's signers: whether a payment can be received (api/rails.go),   *)
(* a trustline opened or closed (api/trust.go), an exchange carried out    *)
(* and at what floor (api/swap.go), and which asset somebody means         *)
(* (api/assets.go).  Operators only: the accounts are what Horizon says of *)
(* them at the moment they are asked about.                                *)
(***************************************************************************)
EXTENDS Integers, FiniteSets, FiniteSetsExt

CONSTANTS
    Native,      \* XLM
    Asset,       \* the deployment's asset: Native, or a code with its issuer
    BaseReserve  \* what the network makes an account keep for each thing it owns

(* Horizon's account is a record: exists, isIssuer (of the deployment's        *)
(* asset); native and selling, the XLM held and promised; owns, sponsoring and *)
(* sponsored, which set the reserve; lines, its trustlines by asset, each with *)
(* balance, limit, selling and authorized.                                     *)

(* What it can part with in XLM, and what it holds of each asset. *)
stateOf(a) ==
    [spare |-> Max({0, a.native - a.selling
                      - Max({0, 2 + a.owns + a.sponsoring - a.sponsored}) * BaseReserve}),
     holding |-> [x \in {Native} \cup DOMAIN a.lines |->
                    IF x = Native
                    THEN [balance |-> a.native, limit |-> 0, selling |-> a.selling,
                          authorized |-> TRUE]
                    ELSE a.lines[x]]]

(* The assets a text may mean; none when it is refused.  A bare code is the    *)
(* deployment's asset, or the one asset held under that code.                  *)
parseAsset(text, held) ==
    CASE text.form = "native" -> {Native}
      [] text.form = "full" -> {text.asset}
      [] text.form = "code" ->
           IF Asset # Native /\ Asset.code = text.code THEN {Asset}
           ELSE LET match == {x \in held \ {Native} : x.code = text.code}
                IN  IF Cardinality(match) = 1 THEN match ELSE {}

(* preflight: a destination that can be paid the deployment's asset. *)
preflight(a, amount) ==
    /\ a.exists
    /\ \/ Asset = Native
       \/ a.isIssuer
       \/ /\ Asset \in DOMAIN a.lines
          /\ a.lines[Asset].authorized
          /\ a.lines[Asset].balance + amount <= a.lines[Asset].limit

(* Trust of settlement/ops_trustline.go: an issuer needs no line to its own. *)
Trust(t, x) == x # Native /\ x.issuer # t

(* ProposeTrust: an issued asset of somebody else, not held yet, whose issuer  *)
(* exists, with the reserve to spare.                                          *)
mayTrust(t, a, text, issuerExists) ==
    /\ a.exists
    /\ \E x \in parseAsset(text, {}) :
         Trust(t, x) /\ x \notin DOMAIN a.lines
    /\ issuerExists
    /\ stateOf(a).spare >= BaseReserve

(* ProposeUntrust: a line that holds nothing and has nothing promised. *)
mayUntrust(a, text) ==
    \E x \in parseAsset(text, DOMAIN stateOf(a).holding) :
        /\ x # Native /\ x \in DOMAIN a.lines
        /\ a.lines[x].balance = 0 /\ a.lines[x].selling = 0

(* QuoteStrictSend: the best of the paths found; 0 when nobody offers one. *)
QuoteStrictSend(paths) == Max({0} \cup paths)

(* quoteSwap: both assets known and different, the one sent held, free and     *)
(* enough, the one received holdable.                                          *)
quoteSwap(a, amount, from, to) ==
    LET s == stateOf(a)
    IN  /\ amount > 0 /\ a.exists
        /\ from # to
        /\ from \in DOMAIN s.holding /\ s.holding[from].authorized
        /\ amount <= IF from = Native THEN s.spare
                     ELSE s.holding[from].balance - s.holding[from].selling
        /\ to # Native => to \in DOMAIN a.lines /\ a.lines[to].authorized

(* The assets a swap may be read as, against what the treasury holds. *)
swapsOf(swap, a) ==
    LET held == DOMAIN stateOf(a).holding
    IN  {x \in parseAsset(swap.from, held) \X parseAsset(swap.to, held) :
            quoteSwap(a, swap.amount, x[1], x[2])}

(* SlippageBound: truncated, so never above what was agreed to. *)
SlippageBound(quote, bps) == (quote * (10000 - bps)) \div 10000

(* Swap of settlement/ops_dex.go. *)
Swap(amount, floor) == amount > 0 /\ floor > 0

(* The floor ProposeSwap writes into the envelope: named outright, or so far   *)
(* below the market; something, and no more than the market gives today.       *)
floorOf(swap, quote) ==
    LET bound == IF swap.minimum > 0 THEN swap.minimum ELSE SlippageBound(quote, swap.slippage)
    IN  {m \in {bound} : Swap(swap.amount, m) /\ m <= quote}

(* stillDelivers, asked again before submitting; a market that cannot be       *)
(* asked stops nothing.                                                        *)
stillDelivers(paths, asked, floor) == ~asked \/ QuoteStrictSend(paths) >= floor
================================================================================
