-------------------------------- MODULE Members --------------------------------
(***************************************************************************)
(* Workspaces, who belongs to them and what they have proved               *)
(* (core/router.go, core/commands.go, core/roles.go, core/link.go,         *)
(* core/workspace.go, api/link.go, api/treasury.go and the tables behind   *)
(* them in ledger/store).  A message is looked up, claimed, given to the   *)
(* member it comes from and dispatched; a signed challenge comes back      *)
(* through the web.  Each database transaction is one step, and a request  *)
(* may die between any two of them.                                        *)
(***************************************************************************)
EXTENDS Integers, FiniteSets

CONSTANTS
    People,      \* chat accounts
    Spaces,      \* groups and servers
    Administers, \* the chat accounts that administer a space
    Orgs,        \* workspaces that can be created
    Wallets,     \* addresses of wallets
    Holder,      \* the chat accounts of whoever holds the key of a wallet
    Accounts,    \* addresses of accounts that may be linked as a treasury
    SignerSets,  \* who may sign for such an account, each with weight one
    Medium,      \* the weight a payment of such an account needs
    Stories,     \* bound: who writes which command where, and what happens elsewhere
    Grantable,   \* roles that are given: 1 observer, 2 proposer, 3 approver, 4 admin
    Requests,    \* messages and page submissions being handled at a time
    None,
    MaxMembers, MaxChallenges, MaxCodes, MaxSpaceCodes \* bounds: rows ever inserted

VARIABLES
    space,      \* table org_spaces
    suspended,  \* column status of table orgs
    members,    \* table members, with the roles of table member_roles
    voice,      \* table user_identities: the member a chat account speaks for, 0 if none
    challenges, \* the live rows of table auth_challenges
    codes,      \* the live rows of table identity_link_codes
    spaceCodes, \* the live rows of table space_link_codes
    treasury,   \* tables org_treasuries and treasury_signers
    next,       \* the numbers given out: members, challenges, codes, space codes
    lock,       \* the row lock on an org
    signers,    \* the network: who signs for an account
    req,        \* requests in progress
    story       \* the bound that is in force

tables == <<space, suspended, members, voice, challenges, codes, spaceCodes, treasury, next>>
outside == <<signers, story>>
vars == <<tables, lock, outside, req>>

Admin == 4
Member == [org: Orgs, address: Wallets \cup {None}, roles: SUBSET (1..Admin)]
Challenge ==
    [hash: 1..MaxChallenges, org: Orgs, who: People, purpose: {"member"}, address: Wallets]
    \cup [hash: 1..MaxChallenges, org: Orgs, who: People, purpose: {"treasury"}, address: Accounts]
Code == [code: 1..MaxCodes, org: Orgs, member: 1..MaxMembers]
SpaceCode == [code: 1..MaxSpaceCodes, org: Orgs]
Command ==
    [name: {"setup", "connect", "link-code"}]
    \cup [name: {"link"}, address: Wallets]
    \cup [name: {"link-treasury"}, address: Accounts]
    \cup [name: {"connect"}, code: 1..MaxSpaceCodes]
    \cup [name: {"claim"}, code: 1..MaxCodes]
    \cup [name: {"grant"}, member: 1..MaxMembers, role: Grantable]
    \cup [name: {"grant"}, picked: People, role: Grantable]
    \cup [name: {"revoke"}, member: 1..MaxMembers]
Request ==
    [pc: {"idle"}]
    \cup [pc: {"create"}, who: People, space: Spaces]
    \cup [pc: {"attach"}, space: Spaces, code: 1..MaxSpaceCodes]
    \cup [pc: {"insert"}, org: Orgs, founds: BOOLEAN, active: BOOLEAN, who: People, cmd: Command]
    \cup [pc: {"run", "pick", "commit"}, org: Orgs, who: People, member: 1..MaxMembers,
          cmd: Command]
    \cup [pc: {"first"}, org: Orgs, member: 1..MaxMembers]
    \cup [pc: {"consume", "cache"}, challenge: Challenge, set: SUBSET People]

ASSUME MembersAssumption ==
    /\ Administers \in [Spaces -> SUBSET People]
    /\ Holder \in [Wallets -> SUBSET People]
    /\ Stories \subseteq [says: SUBSET (People \X Spaces \X {c.name : c \in Command}),
                         elsewhere: SUBSET {"suspend", "signers"}]
    /\ SignerSets \subseteq SUBSET People
    /\ Medium \in Nat \ {0} /\ Grantable \subseteq 1..Admin
    /\ None \notin Orgs \cup Wallets \cup Requests
    /\ MaxMembers \in Nat /\ MaxChallenges \in Nat /\ MaxCodes \in Nat /\ MaxSpaceCodes \in Nat
    /\ IsFiniteSet(People) /\ IsFiniteSet(Requests)

Idle == [pc |-> "idle"]
At(r, pc) == req[r].pc = pc
Goto(r, state) == req' = [req EXCEPT ![r] = state]
Step(r, pc) == Goto(r, [req[r] EXCEPT !.pc = pc])
Finish(r) == Goto(r, Idle)
Has(cmd, field) == field \in DOMAIN cmd

--------------------------------------------------------------------------------
(* A message arrives.  Its tenant is looked up, the delivery is claimed so that a   *)
(* repeated one is dropped, the member it comes from is read and their role with it. *)
(* A message that is only replied to leaves no trace here.                          *)
OrgForSpace(s) == space[s]
MemberByIdentity(o, who) == voice[o][who]
Active(o) == o \notin suspended
IsSpaceAdmin(who, s) == who \in Administers[s]

Highest(S) == IF S = {} THEN 0 ELSE CHOOSE x \in S : \A y \in S : y <= x
EffectiveRole(m) == Highest(members[m].roles)
\* connect checks for itself, and only where it gives out a code.
minRole(cmd) ==
    IF cmd.name \in {"grant", "revoke", "link-treasury"} \/ cmd = [name |-> "connect"]
    THEN Admin ELSE 0

\* What a command finds of the member it runs for before it changes anything.
link(cmd, address) == cmd.name = "link" /\ cmd.address # address
linkCode(cmd, address) == cmd.name = "link-code" /\ address # None
claim(cmd, address) == cmd.name = "claim" /\ address = None
connect(cmd) == cmd = [name |-> "connect"]
linkTreasury(cmd) == cmd.name = "link-treasury" /\ cmd.address \in Accounts
Runs(cmd, active, role, address) ==
    /\ active /\ role >= minRole(cmd)
    /\ \/ link(cmd, address) \/ linkCode(cmd, address) \/ claim(cmd, address) \/ connect(cmd)
       \/ linkTreasury(cmd) \/ cmd.name \in {"grant", "revoke"}

\* What a person may type: codes and numbers are ones that have been given out.
Typed(who, s) ==
    {c \in Command : <<who, s, c.name>> \in story.says /\
      (CASE c.name = "claim"   -> c.code \in {x.code : x \in codes}
         [] c.name = "connect" -> Has(c, "code") => c.code \in {x.code : x \in spaceCodes}
         [] c.name = "revoke"  -> c.member \in DOMAIN members
         [] c.name = "grant"   -> /\ Has(c, "member") => c.member \in DOMAIN members
                                  /\ Has(c, "picked") => c.picked # who
         [] OTHER              -> TRUE)}

\* In a space no workspace has claimed there is only setting one up and joining one.
runSetup(r, who, s, cmd) ==
    cmd.name = "setup" /\ Goto(r, [pc |-> "create", who |-> who, space |-> s])
connectHere(r, who, s, cmd) ==
    /\ cmd.name = "connect" /\ IsSpaceAdmin(who, s) /\ Has(cmd, "code")
    /\ Goto(r, [pc |-> "attach", space |-> s, code |-> cmd.code])
handleUnregistered(r, who, s, cmd) ==
    /\ At(r, "idle") /\ OrgForSpace(s) = None /\ cmd \in Typed(who, s)
    /\ runSetup(r, who, s, cmd) \/ connectHere(r, who, s, cmd)
    /\ UNCHANGED <<tables, lock, outside>>

Handle(r, who, s, cmd) ==
    LET o == OrgForSpace(s)
        m == MemberByIdentity(o, who)
    IN  /\ At(r, "idle") /\ o # None /\ cmd \in Typed(who, s)
        /\ IF m = 0
           THEN Goto(r, [pc |-> "insert", org |-> o, founds |-> FALSE, active |-> Active(o),
                        who |-> who, cmd |-> cmd])
           ELSE /\ Runs(cmd, Active(o), EffectiveRole(m), members[m].address)
                /\ Goto(r, [pc |-> "run", org |-> o, who |-> who, member |-> m, cmd |-> cmd])
        /\ UNCHANGED <<tables, lock, outside>>

\* EnsureMember inserts what was missing and reads again: two first messages both insert a
\* member, and one of the two has nobody to speak for it.
EnsureMember(o, who) ==
    /\ next.member < MaxMembers
    /\ next' = [next EXCEPT !.member = @ + 1]
    /\ members' = [m \in DOMAIN members \cup {next.member + 1} |->
                     IF m \in DOMAIN members THEN members[m]
                     ELSE [org |-> o, address |-> None, roles |-> {}]]
    /\ voice' = [voice EXCEPT ![o][who] = IF @ = 0 THEN next.member + 1 ELSE @]

\* A first message: then its role, and the command, as in Handle.
insertMember(r) ==
    LET q == req[r]
        m == voice'[q.org][q.who]
    IN  /\ At(r, "insert")
        /\ EnsureMember(q.org, q.who)
        /\ IF q.founds THEN Goto(r, [pc |-> "first", org |-> q.org, member |-> m])
           ELSE IF Runs(q.cmd, q.active, Highest(members'[m].roles), members'[m].address)
           THEN Goto(r, [pc |-> "run", org |-> q.org, who |-> q.who, member |-> m, cmd |-> q.cmd])
           ELSE Finish(r)
        /\ UNCHANGED <<space, suspended, challenges, codes, spaceCodes, treasury, lock, outside>>

Running(r, name) == At(r, "run") /\ req[r].cmd.name = name

--------------------------------------------------------------------------------
(* Setup: the workspace and its space in one transaction, its first admin in others. *)
CreateOrg(s, o) ==
    /\ space[s] = None /\ o \notin {space[x] : x \in Spaces}
    /\ space' = [space EXCEPT ![s] = o]
setupHere(r) ==
    /\ At(r, "create")
    /\ IF OrgForSpace(req[r].space) # None \/ ~IsSpaceAdmin(req[r].who, req[r].space)
       THEN Finish(r) /\ UNCHANGED space
       ELSE \E o \in Orgs :
              /\ CreateOrg(req[r].space, o)
              /\ Goto(r, [pc |-> "insert", org |-> o, founds |-> TRUE, active |-> TRUE,
                          who |-> req[r].who, cmd |-> [name |-> "setup"]])
    /\ UNCHANGED <<suspended, members, voice, challenges, codes, spaceCodes, treasury, next, lock,
                   outside>>

GrantRole(r) ==
    /\ At(r, "first")
    /\ members' = IF req[r].member \in DOMAIN members
                  THEN [members EXCEPT ![req[r].member].roles = @ \cup {Admin}] ELSE members
    /\ Finish(r)
    /\ UNCHANGED <<space, suspended, voice, challenges, codes, spaceCodes, treasury, next, lock,
                   outside>>

--------------------------------------------------------------------------------
(* Roles. *)
Admins(o) == {m \in DOMAIN members : members[m].org = o /\ Admin \in members[m].roles}

\* grant to somebody picked from the platform's list, who need not have spoken.
grantPicked(r) ==
    LET cmd == req[r].cmd
        here == MemberByIdentity(req[r].org, cmd.picked)
        to(m) == [name |-> "grant", member |-> m, role |-> cmd.role]
    IN  /\ Running(r, "grant") /\ Has(cmd, "picked")
        /\ IF here # 0 THEN Goto(r, [req[r] EXCEPT !.cmd = to(here)]) ELSE Step(r, "pick")
        /\ UNCHANGED <<tables, lock, outside>>

insertPicked(r) ==
    LET cmd == req[r].cmd
    IN  /\ At(r, "pick")
        /\ EnsureMember(req[r].org, cmd.picked)
        /\ Goto(r, [req[r] EXCEPT !.pc = "run",
                      !.cmd = [name |-> "grant", member |-> voice'[req[r].org][cmd.picked],
                                   role |-> cmd.role]])
        /\ UNCHANGED <<space, suspended, challenges, codes, spaceCodes, treasury, lock,
                       outside>>

\* The roles SetRole leaves a member.
Left(cmd) == IF cmd.name = "grant" THEN {cmd.role} ELSE {}

\* Mutant: counts without holding the lock.
SetRole_Unlocked(r) ==
    LET cmd == req[r].cmd
        o == req[r].org
    IN  /\ Running(r, "grant") \/ Running(r, "revoke")
        /\ Has(cmd, "member")
        /\ IF \/ cmd.member \notin DOMAIN members \/ members[cmd.member].org # o
              \/ Admins(o) \ {cmd.member} = {} /\ Admin \notin Left(cmd)
           THEN Finish(r)
           ELSE Step(r, "commit")
        /\ UNCHANGED <<tables, lock, outside>>

\* SetRole up to its count of the admins left, under the lock on the org.
SetRole(r) ==
    LET cmd == req[r].cmd
        o == req[r].org
    IN  /\ Running(r, "grant") \/ Running(r, "revoke")
        /\ Has(cmd, "member")
        /\ lock[o] = None
        /\ IF \/ cmd.member \notin DOMAIN members \/ members[cmd.member].org # o
              \/ Admins(o) \ {cmd.member} = {} /\ Admin \notin Left(cmd)
           THEN Finish(r) /\ UNCHANGED lock
           ELSE Step(r, "commit") /\ lock' = [lock EXCEPT ![o] = r]
        /\ UNCHANGED <<tables, outside>>

CommitRole(r) ==
    LET cmd == req[r].cmd
    IN  /\ At(r, "commit")
        /\ members' = IF cmd.member \in DOMAIN members
                      THEN [members EXCEPT ![cmd.member].roles = Left(cmd)] ELSE members
        /\ lock' = [lock EXCEPT ![req[r].org] = IF @ = r THEN None ELSE @]
        /\ Finish(r)
        /\ UNCHANGED <<space, suspended, voice, challenges, codes, spaceCodes, treasury, next,
                       outside>>

--------------------------------------------------------------------------------
(* Another space for the workspace: a code from an admin here, presented by an *)
(* administrator there.                                                        *)
IssueSpaceCode(r) ==
    /\ Running(r, "connect") /\ next.spaceCode < MaxSpaceCodes
    /\ next' = [next EXCEPT !.spaceCode = @ + 1]
    /\ spaceCodes' = {x \in spaceCodes : x.org # req[r].org}
                        \cup {[code |-> next.spaceCode + 1, org |-> req[r].org]}
    /\ Finish(r)
    /\ UNCHANGED <<space, suspended, members, voice, challenges, codes, treasury, lock, outside>>

ClaimSpaceCode(r) ==
    LET s == req[r].space
        live == {x \in spaceCodes : x.code = req[r].code}
    IN  /\ At(r, "attach")
        /\ IF live = {} \/ space[s] # None
           THEN UNCHANGED <<spaceCodes, space>>
           ELSE \E x \in live :
                  /\ spaceCodes' = spaceCodes \ {x}
                  /\ space' = [space EXCEPT ![s] = x.org]
        /\ Finish(r)
        /\ UNCHANGED <<suspended, members, voice, challenges, codes, treasury, next, lock, outside>>

--------------------------------------------------------------------------------
(* Another chat account for a member. *)
IssueLinkCode(r) ==
    /\ Running(r, "link-code") /\ next.code < MaxCodes
    /\ next' = [next EXCEPT !.code = @ + 1]
    /\ codes' = {x \in codes : x.member # req[r].member}
                  \cup {[code |-> next.code + 1, org |-> req[r].org, member |-> req[r].member]}
    /\ Finish(r)
    /\ UNCHANGED <<space, suspended, members, voice, challenges, spaceCodes, treasury, lock,
                   outside>>

\* Nothing points at it: no address, no role, no other chat account.
Empty(o, m, who) ==
    /\ members[m].address = None /\ members[m].roles = {}
    /\ \A p \in People \ {who} : voice[o][p] # m

deleteEmptyMember(o, m, who) ==
    members' = [n \in {k \in DOMAIN members : k # m \/ ~Empty(o, m, who)} |-> members[n]]

\* Mutant: trusts that the command checked that the account speaks for nobody with a wallet.
Moves_Trusting(m, target) == m # target
Moves(m, target) == m # target /\ members[m].address = None

ClaimLinkCode(r) ==
    LET o == req[r].org
        who == req[r].who
        live == {x \in codes : x.code = req[r].cmd.code /\ x.org = o}
        m == voice[o][who]
    IN  /\ Running(r, "claim")
        /\ IF live = {} THEN UNCHANGED <<codes, voice, members>>
           ELSE \E x \in live :
                  IF Moves(m, x.member)
                  THEN /\ codes' = codes \ {x}
                       /\ voice' = [voice EXCEPT ![o][who] = x.member]
                       /\ deleteEmptyMember(o, m, who)
                  ELSE /\ codes' = IF m = x.member THEN codes \ {x} ELSE codes
                       /\ UNCHANGED <<voice, members>>
        /\ Finish(r)
        /\ UNCHANGED <<space, suspended, challenges, spaceCodes, treasury, next, lock, outside>>

--------------------------------------------------------------------------------
(* Challenges.  Asking again replaces the one before. *)
Build(r, purpose) ==
    [hash |-> next.hash + 1, org |-> req[r].org, who |-> req[r].who, purpose |-> purpose,
     address |-> req[r].cmd.address]
SaveChallenge(r, c) ==
    /\ next.hash < MaxChallenges
    /\ next' = [next EXCEPT !.hash = @ + 1]
    /\ challenges' = {x \in challenges : <<x.org, x.who, x.purpose>> # <<c.org, c.who, c.purpose>>}
                       \cup {c}
    /\ Finish(r)
    /\ UNCHANGED <<space, suspended, members, voice, codes, spaceCodes, treasury, lock, outside>>

PrepareLink(r) == Running(r, "link") /\ SaveChallenge(r, Build(r, "member"))

\* Only an account whose signers can reach what a payment needs.
PrepareTreasuryLink(r) ==
    /\ Running(r, "link-treasury")
    /\ IF Cardinality(signers[req[r].cmd.address]) >= Medium
       THEN SaveChallenge(r, Build(r, "treasury"))
       ELSE Finish(r) /\ UNCHANGED <<tables, lock, outside>>

\* The signed challenge comes back: it is live, and the signatures on it are those of
\* whoever holds the key, or of enough of those who sign for the account now.
VerifyMember(c, signed) == signed = {c.who} /\ c.who \in Holder[c.address]
VerifyThreshold(c, signed) == signed \subseteq signers[c.address] /\ Cardinality(signed) >= Medium

SubmitLink(r, c, signed) ==
    /\ c.purpose = "member" /\ VerifyMember(c, signed)
    /\ Goto(r, [pc |-> "consume", challenge |-> c, set |-> {}])
\* The signers are read again, and remembered as they were when they were checked.
SubmitTreasuryLink(r, c, signed) ==
    /\ c.purpose = "treasury" /\ VerifyThreshold(c, signed)
    /\ Goto(r, [pc |-> "consume", challenge |-> c, set |-> signers[c.address]])
\* What it proves depends on what it was issued for.
SubmitChallenge(r, c, signed) ==
    /\ At(r, "idle") /\ c \in challenges
    /\ SubmitLink(r, c, signed) \/ SubmitTreasuryLink(r, c, signed)
    /\ UNCHANGED <<tables, lock, outside>>

\* Mutant: spends what was live when it was read.
Live_Read(c) == TRUE
Live(c) == c \in challenges

ConsumeChallenge(r) ==
    LET c == req[r].challenge
        m == MemberByIdentity(c.org, c.who)
        taken == \E n \in DOMAIN members \ {m} :
                   members[n].org = c.org /\ members[n].address = c.address
    IN  /\ At(r, "consume") /\ c.purpose = "member"
        /\ IF ~Live(c) \/ taken THEN UNCHANGED <<challenges, members>>
           ELSE /\ challenges' = challenges \ {c}
                /\ members' = [members EXCEPT ![m].address = c.address]
        /\ Goto(r, Idle)
        /\ UNCHANGED <<space, suspended, voice, codes, spaceCodes, treasury, next, lock,
                       outside>>

\* Mutant: another workspace's row is refreshed like one's own.
MayLink_Any(a, o) == TRUE
\* ON CONFLICT (address) DO UPDATE ... WHERE org_id = EXCLUDED.org_id
MayLink(a, o) == treasury[a].org \in {None, o}

ConsumeTreasuryChallenge(r) ==
    LET c == req[r].challenge
    IN  /\ At(r, "consume") /\ c.purpose = "treasury"
        /\ IF ~Live(c) \/ ~MayLink(c.address, c.org)
           THEN Goto(r, Idle) /\ UNCHANGED <<challenges, treasury>>
           ELSE /\ challenges' = challenges \ {c}
                /\ treasury' = [treasury EXCEPT ![c.address].org = c.org]
                /\ Step(r, "cache")
        /\ UNCHANGED <<space, suspended, members, voice, codes, spaceCodes, next, lock,
                       outside>>

SaveSignerSet(r) ==
    /\ At(r, "cache")
    /\ treasury' = [treasury EXCEPT ![req[r].challenge.address].signers = req[r].set]
    /\ Goto(r, Idle)
    /\ UNCHANGED <<space, suspended, members, voice, challenges, codes, spaceCodes, next,
                   lock, outside>>

--------------------------------------------------------------------------------
(* The operator suspends a workspace; time passes; accounts change; requests die. *)
SetOrgStatus(o) ==
    /\ \E s \in Spaces : space[s] = o
    /\ "suspend" \in story.elsewhere
    /\ suspended' = IF o \in suspended THEN suspended \ {o} ELSE suspended \cup {o}
    /\ UNCHANGED <<space, members, voice, challenges, codes, spaceCodes, treasury, next,
                   lock, outside, req>>

Expire ==
    /\ \/ \E c \in challenges : challenges' = challenges \ {c} /\ UNCHANGED <<codes, spaceCodes>>
       \/ \E x \in codes : codes' = codes \ {x} /\ UNCHANGED <<challenges, spaceCodes>>
       \/ \E x \in spaceCodes : spaceCodes' = spaceCodes \ {x} /\ UNCHANGED <<challenges, codes>>
    /\ UNCHANGED <<space, suspended, members, voice, treasury, next, lock, outside, req>>

ChangeSigners(a, S) ==
    /\ "signers" \in story.elsewhere /\ S # signers[a]
    /\ signers' = [signers EXCEPT ![a] = S]
    /\ UNCHANGED <<tables, lock, req, story>>

\* The transaction it is in, if it is in one, is rolled back.
Die(r) ==
    /\ ~At(r, "idle")
    /\ Finish(r)
    /\ lock' = [o \in Orgs |-> IF lock[o] = r THEN None ELSE lock[o]]
    /\ UNCHANGED <<tables, outside>>

--------------------------------------------------------------------------------
Init ==
    /\ space = [s \in Spaces |-> None] /\ suspended = {}
    /\ members = [m \in {} |-> None]
    /\ voice = [o \in Orgs |-> [p \in People |-> 0]]
    /\ challenges = {} /\ codes = {} /\ spaceCodes = {}
    /\ treasury = [a \in Accounts |-> [org |-> None, signers |-> {}]]
    /\ next = [member |-> 0, hash |-> 0, code |-> 0, spaceCode |-> 0]
    /\ lock = [o \in Orgs |-> None]
    /\ signers \in [Accounts -> SignerSets]
    /\ req = [r \in Requests |-> Idle]
    /\ story \in Stories

Next ==
    \/ \E r \in Requests :
         \/ \E who \in People, s \in Spaces, cmd \in Command :
              handleUnregistered(r, who, s, cmd) \/ Handle(r, who, s, cmd)
         \/ insertMember(r)
         \/ setupHere(r) \/ GrantRole(r)
         \/ grantPicked(r) \/ insertPicked(r) \/ SetRole(r) \/ CommitRole(r)
         \/ IssueSpaceCode(r) \/ ClaimSpaceCode(r)
         \/ IssueLinkCode(r) \/ ClaimLinkCode(r)
         \/ PrepareLink(r) \/ PrepareTreasuryLink(r)
         \/ \E c \in challenges, signed \in SUBSET People : SubmitChallenge(r, c, signed)
         \/ ConsumeChallenge(r) \/ ConsumeTreasuryChallenge(r) \/ SaveSignerSet(r)
         \/ Die(r)
    \/ \E o \in Orgs : SetOrgStatus(o)
    \/ Expire
    \/ \E a \in Accounts, S \in SignerSets : ChangeSigners(a, S)

Spec == Init /\ [][Next]_vars

--------------------------------------------------------------------------------
(* Properties. *)

\* The tables, the locks and the requests have the shapes they are declared with.
TypeOK ==
    /\ space \in [Spaces -> Orgs \cup {None}] /\ suspended \subseteq Orgs
    /\ DOMAIN members \subseteq 1..MaxMembers /\ \A m \in DOMAIN members : members[m] \in Member
    /\ voice \in [Orgs -> [People -> {0} \cup DOMAIN members]]
    /\ challenges \subseteq Challenge /\ codes \subseteq Code /\ spaceCodes \subseteq SpaceCode
    /\ treasury \in [Accounts -> [org: Orgs \cup {None}, signers: SUBSET People]]
    /\ next \in [member: 0..MaxMembers, hash: 0..MaxChallenges, code: 0..MaxCodes,
                 spaceCode: 0..MaxSpaceCodes]
    /\ lock \in [Orgs -> Requests \cup {None}]
    /\ signers \in [Accounts -> SUBSET People] /\ req \in [Requests -> Request] /\ story \in Stories

\* A workspace that has an admin keeps one, whoever demotes whom at the same moment
\* (store SetRole and ErrLastAdmin).
AdminsRemain == [][\A o \in Orgs : Admins(o) # {} => Admins(o)' # {}]_vars

\* An address becomes a member's in the step that spends a live challenge for it, one that
\* was asked for by a chat account that speaks for that member (store ConsumeChallenge).
ProofsAreSpent ==
    [][\A m \in DOMAIN members \cap DOMAIN members' :
         members'[m].address # members[m].address
           => \E c \in challenges \ challenges' :
                /\ c.purpose = "member" /\ c.address = members'[m].address
                /\ voice[c.org][c.who] = m]_vars

\* A chat account that speaks for a member who has proved a wallet goes on speaking for
\* that member, whatever codes are typed (store ClaimLinkCode).
VoicesKept ==
    [][\A o \in Orgs, p \in People :
         (voice[o][p] # 0 /\ members[voice[o][p]].address # None)
           => voice'[o][p] = voice[o][p]]_vars

\* A space, and an account that was proved, stay with the workspace they came to
\* (store ClaimSpaceCode, CreateOrg and linkTreasuryTx).
NothingMoves ==
    [][/\ \A s \in Spaces : space[s] # None => space'[s] = space[s]
       /\ \A a \in Accounts : treasury[a].org # None => treasury'[a].org = treasury[a].org]_vars
================================================================================
