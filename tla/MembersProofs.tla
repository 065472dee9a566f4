----------------------------- MODULE MembersProofs -----------------------------
(* Theorems about Members, for every workspace, member and number of requests. *)
EXTENDS Members, TLAPS

(***************************************************************************)
(* A chat account speaks for a member that exists, of its own workspace,   *)
(* although members are deleted: a code only stands for a member with a    *)
(* wallet, and such a member is never empty.  Whoever is about to write a  *)
(* role holds the lock, so that what it counted is still true.             *)
(***************************************************************************)
Numbered == DOMAIN members \subseteq 1..next.member

OwnVoices ==
    \A o \in Orgs, p \in People : voice[o][p] # 0 => members[voice[o][p]].org = o

\* A member of the workspace who has proved a wallet.
Proved(o, m) == m \in DOMAIN members /\ members[m].org = o /\ members[m].address # None
CodesStand ==
    /\ \A x \in codes : Proved(x.org, x.member)
    /\ \A r \in Requests, o \in Orgs, m \in 1..MaxMembers :
         Running(r, "link-code") /\ req[r].org = o /\ req[r].member = m => Proved(o, m)

\* Only a grant to somebody picked waits for that somebody to be inserted.
Picking ==
    \A r \in Requests : At(r, "pick") => req[r].cmd.name = "grant" /\ Has(req[r].cmd, "picked")

\* What SetRole found holds until it is committed.
Kept(o, cmd) ==
    /\ cmd.member \in 1..next.member
    /\ cmd.member \in DOMAIN members => members[cmd.member].org = o
    /\ Admins(o) \ {cmd.member} # {} \/ Admin \in Left(cmd)
Committing ==
    \A r \in Requests, o \in Orgs, cmd \in Command :
      At(r, "commit") /\ req[r].org = o /\ req[r].cmd = cmd => lock[o] = r /\ Kept(o, cmd)

IInv == TypeOK /\ Numbered /\ OwnVoices /\ CodesStand /\ Picking /\ Committing

--------------------------------------------------------------------------------
(* Commands and requests. *)

(* What the name of a command says about it. *)
LEMMA CommandShape ==
    ASSUME NEW c \in Command
    PROVE  /\ c.name = "link" => c.address \in Wallets
           /\ c.name = "link-treasury" => c.address \in Accounts
           /\ c.name = "claim" => c.code \in 1..MaxCodes
           /\ c.name = "grant" => c.role \in Grantable
           /\ c.name \in {"grant", "revoke"} /\ Has(c, "member") => c.member \in 1..MaxMembers
           /\ c.name = "grant" /\ Has(c, "picked") => c.picked \in People
           /\ c.name = "connect" /\ Has(c, "code") => c.code \in 1..MaxSpaceCodes
  BY DEF Command, Has

(* What the state of a request says about it. *)
LEMMA RequestShape ==
    ASSUME NEW q \in Request
    PROVE  /\ q.pc = "create" => q.who \in People /\ q.space \in Spaces
           /\ q.pc = "attach" => q.space \in Spaces /\ q.code \in 1..MaxSpaceCodes
           /\ q.pc = "insert" => /\ q.org \in Orgs /\ q.who \in People /\ q.cmd \in Command
                                 /\ q.founds \in BOOLEAN /\ q.active \in BOOLEAN
           /\ q.pc \in {"run", "pick", "commit"} =>
                q.org \in Orgs /\ q.who \in People /\ q.member \in 1..MaxMembers /\ q.cmd \in Command
           /\ q.pc = "first" => q.org \in Orgs /\ q.member \in 1..MaxMembers
           /\ q.pc \in {"consume", "cache"} => q.challenge \in Challenge /\ q.set \in SUBSET People
  BY DEF Request

(* A running command goes on, with the same or another one. *)
LEMMA RunShape ==
    ASSUME NEW q \in Request, q.pc \in {"run", "pick", "commit"},
           NEW p \in {"run", "pick", "commit"}, NEW c \in Command
    PROVE  /\ [q EXCEPT !.pc = p] \in Request
           /\ [q EXCEPT !.cmd = c] \in Request
           /\ [q EXCEPT !.pc = p, !.cmd = c] \in Request
  <1> DEFINE R == [pc: {"run", "pick", "commit"}, org: Orgs, who: People, member: 1..MaxMembers,
                   cmd: Command]
  <1>1. q \in R
    BY DEF Request
  <1>2. [q EXCEPT !.pc = p] \in R /\ [q EXCEPT !.cmd = c] \in R /\ [q EXCEPT !.pc = p, !.cmd = c] \in R
    BY <1>1
  <1> QED BY <1>2 DEF Request

(* And which fields it has then. *)
LEMMA RunFields ==
    ASSUME NEW q \in Request, q.pc \in {"run", "pick", "commit"}, NEW p, NEW c
    PROVE  /\ [q EXCEPT !.pc = p].pc = p /\ [q EXCEPT !.pc = p].org = q.org
           /\ [q EXCEPT !.pc = p].cmd = q.cmd /\ [q EXCEPT !.pc = p].member = q.member
           /\ [q EXCEPT !.cmd = c].pc = q.pc /\ [q EXCEPT !.cmd = c].cmd = c
           /\ [q EXCEPT !.pc = p, !.cmd = c].pc = p /\ [q EXCEPT !.pc = p, !.cmd = c].cmd = c
  <1> DEFINE R == [pc: {"run", "pick", "commit"}, org: Orgs, who: People, member: 1..MaxMembers,
                   cmd: Command]
  <1>1. q \in R
    BY DEF Request
  <1> QED BY <1>1

--------------------------------------------------------------------------------
(* What no step does to the members. *)

\* Numbers are not given out twice, and a member with a wallet keeps one.
MembersKept ==
    /\ next.member <= next'.member /\ Numbered'
    /\ \A m \in DOMAIN members' :
         (m \in DOMAIN members /\ members'[m].org = members[m].org) \/ m = next.member + 1
    /\ \A m \in DOMAIN members : members[m].address # None =>
         m \in DOMAIN members' /\ members'[m].address # None

(* Whoever was proved stays proved. *)
LEMMA ProvedKept ==
    ASSUME TypeOK, Numbered, MembersKept, NEW o, NEW m, Proved(o, m)
    PROVE  Proved(o, m)'
  <1>1. m \in DOMAIN members' /\ members'[m].address # None
    BY DEF Proved, MembersKept
  <1>2. m # next.member + 1
    BY DEF Proved, Numbered, TypeOK
  <1> QED BY <1>1, <1>2 DEF Proved, MembersKept

(* What SetRole found stays true while no admin is lost. *)
LEMMA KeptKept ==
    ASSUME TypeOK, Numbered, MembersKept, NEW o, NEW cmd, Kept(o, cmd), Admins(o) \subseteq Admins(o)',
           next'.member \in Nat
    PROVE  Kept(o, cmd)'
  <1>1. cmd.member \in 1..next'.member
    BY DEF Kept, MembersKept, TypeOK
  <1>2. cmd.member # next.member + 1
    BY DEF Kept, TypeOK
  <1>3. cmd.member \in DOMAIN members' => members'[cmd.member].org = o
    BY <1>2 DEF Kept, MembersKept
  <1>4. Admins(o)' \ {cmd.member} # {} \/ Admin \in Left(cmd)
    BY DEF Kept
  <1> QED BY <1>1, <1>3, <1>4 DEF Kept

(* The parts of the invariant about requests, when one request goes on. *)
LEMMA RequestsKept ==
    ASSUME IInv, MembersKept, next'.member \in Nat, NEW r \in Requests, NEW q \in Request,
           req' = [req EXCEPT ![r] = q],
           \A x \in codes' : x \in codes \/ Proved(x.org, x.member)',
           q.pc = "pick" => q.cmd.name = "grant" /\ Has(q.cmd, "picked"),
           q.pc = "run" /\ q.cmd.name = "link-code" => Proved(q.org, q.member)',
           q.pc = "commit" => lock'[q.org] = r /\ Kept(q.org, q.cmd)',
           \A s \in Requests \ {r}, o \in Orgs : At(s, "commit") /\ req[s].org = o =>
             lock'[o] = s /\ Admins(o) \subseteq Admins(o)'
    PROVE  req' \in [Requests -> Request] /\ CodesStand' /\ Picking' /\ Committing'
  <1>1. req' \in [Requests -> Request] /\ req'[r] = q /\ \A s \in Requests : s # r => req'[s] = req[s]
    BY DEF IInv, TypeOK
  <1>2. CodesStand'
    <2>1. \A x \in codes' : Proved(x.org, x.member)'
      BY ProvedKept DEF IInv, CodesStand
    <2>2. ASSUME NEW s \in Requests, NEW o \in Orgs, NEW m \in 1..MaxMembers,
                 Running(s, "link-code")', req'[s].org = o, req'[s].member = m
          PROVE  Proved(o, m)'
      <3>1. CASE s = r
        BY <1>1, <2>2, <3>1 DEF Running, At
      <3>2. CASE s # r
        <4>1. Proved(o, m)
          BY <1>1, <2>2, <3>2 DEF Running, At, IInv, CodesStand
        <4> QED BY <4>1, ProvedKept DEF IInv
      <3> QED BY <3>1, <3>2
    <2> QED BY <2>1, <2>2 DEF CodesStand
  <1>3. Picking'
    BY <1>1 DEF IInv, Picking, At
  <1>4. ASSUME NEW s \in Requests, NEW o \in Orgs, NEW cmd \in Command,
               At(s, "commit")', req'[s].org = o, req'[s].cmd = cmd
        PROVE  lock'[o] = s /\ Kept(o, cmd)'
    <2>1. CASE s = r
      BY <1>1, <1>4, <2>1 DEF At
    <2>2. CASE s # r
      <3>1. lock[o] = s /\ Kept(o, cmd) /\ lock'[o] = s /\ Admins(o) \subseteq Admins(o)'
        BY <1>1, <1>4, <2>2 DEF At, IInv, Committing
      <3> QED BY <3>1, KeptKept DEF IInv
    <2> QED BY <2>1, <2>2
  <1>5. Committing'
    BY <1>4 DEF Committing
  <1> QED BY <1>1, <1>2, <1>3, <1>5

(* The same, when no request is concerned. *)
LEMMA RequestsUntouched ==
    ASSUME IInv, UNCHANGED <<req, members, next, lock>>, codes' \subseteq codes
    PROVE  req' \in [Requests -> Request] /\ CodesStand' /\ Picking' /\ Committing'
  <1>1. req' \in [Requests -> Request]
    BY DEF IInv, TypeOK
  <1>2. \A o, m : Proved(o, m) => Proved(o, m)'
    BY DEF Proved
  <1>3. CodesStand'
    BY <1>2 DEF IInv, CodesStand, Running, At
  <1>4. Picking'
    BY DEF IInv, Picking, At
  <1>5. \A o, cmd : Kept(o, cmd) => Kept(o, cmd)'
    BY DEF Kept, Admins
  <1>6. Committing'
    BY <1>5 DEF IInv, Committing, At
  <1> QED BY <1>1, <1>3, <1>4, <1>6

(* Steps that leave the members and their voices as they are. *)
LEMMA SameMembers ==
    ASSUME IInv, UNCHANGED <<members, voice>>, next'.member = next.member
    PROVE  /\ Numbered' /\ OwnVoices' /\ \A o : Admins(o)' = Admins(o)
           /\ next'.member = next.member /\ MembersKept
           /\ DOMAIN members' \subseteq 1..MaxMembers /\ \A m \in DOMAIN members' : members'[m] \in Member
           /\ voice' \in [Orgs -> [People -> {0} \cup DOMAIN members']]
  <1>1. next'.member = next.member /\ next.member \in Nat
    BY MembersAssumption DEF IInv, TypeOK
  <1>2. Numbered' /\ OwnVoices'
    BY <1>1 DEF IInv, Numbered, OwnVoices
  <1>3. \A o : Admins(o)' = Admins(o)
    BY DEF Admins
  <1>4. MembersKept
    BY <1>1, <1>2 DEF MembersKept
  <1> QED BY <1>1, <1>2, <1>3, <1>4 DEF IInv, TypeOK

(* The types of the tables about members. *)
MemberTypes ==
    /\ DOMAIN members \subseteq 1..MaxMembers /\ \A m \in DOMAIN members : members[m] \in Member
    /\ voice \in [Orgs -> [People -> {0} \cup DOMAIN members]]

(* A member is inserted, and somebody speaks for one. *)
LEMMA MemberInserted ==
    ASSUME IInv, NEW o \in Orgs, NEW who \in People, EnsureMember(o, who)
    PROVE  /\ MembersKept /\ OwnVoices' /\ MemberTypes' /\ next'.member \in Nat
           /\ next' \in [member: 0..MaxMembers, hash: 0..MaxChallenges, code: 0..MaxCodes,
                         spaceCode: 0..MaxSpaceCodes]
           /\ voice'[o][who] \in DOMAIN members' /\ members'[voice'[o][who]].org = o
           /\ \A x \in Orgs : Admins(x) \subseteq Admins(x)'
           /\ \A m \in DOMAIN members : m \in DOMAIN members' /\ members'[m] = members[m]
           /\ \A x \in Orgs, p \in People : voice[x][p] # 0 => voice'[x][p] = voice[x][p]
  <1> DEFINE n == next.member + 1
             new == [org |-> o, address |-> None, roles |-> {}]
  <1>1. next.member \in Nat /\ n \in 1..MaxMembers /\ n \notin DOMAIN members
    BY MembersAssumption DEF EnsureMember, IInv, TypeOK, Numbered
  <1>2. /\ next' \in [member: 0..MaxMembers, hash: 0..MaxChallenges, code: 0..MaxCodes,
                      spaceCode: 0..MaxSpaceCodes]
        /\ next'.member = n
    BY <1>1 DEF EnsureMember, IInv, TypeOK
  <1>3. /\ DOMAIN members' = DOMAIN members \cup {n}
        /\ members'[n] = new /\ \A m \in DOMAIN members : members'[m] = members[m]
    BY <1>1 DEF EnsureMember
  <1>4. new \in Member /\ new.org = o
    BY DEF Member
  <1> HIDE DEF new
  <1>5. /\ DOMAIN members' \subseteq 1..MaxMembers /\ \A m \in DOMAIN members' : members'[m] \in Member
        /\ Numbered'
    BY <1>1, <1>2, <1>3, <1>4 DEF IInv, TypeOK, Numbered
  <1>6. voice \in [Orgs -> [People -> {0} \cup DOMAIN members]]
    BY DEF IInv, TypeOK
  <1>7. /\ voice' \in [Orgs -> [People -> {0} \cup DOMAIN members']]
        /\ voice'[o][who] = IF voice[o][who] = 0 THEN n ELSE voice[o][who]
        /\ \A x \in Orgs, p \in People : x # o \/ p # who => voice'[x][p] = voice[x][p]
    <2>1. voice' = [voice EXCEPT ![o][who] = IF voice[o][who] = 0 THEN n ELSE voice[o][who]]
      BY DEF EnsureMember
    <2>2. (IF voice[o][who] = 0 THEN n ELSE voice[o][who]) \in DOMAIN members'
      BY <1>3, <1>6
    <2> QED BY <1>3, <1>6, <2>1, <2>2
  <1>8. \A x \in Orgs, p \in People : voice[x][p] # 0 => voice'[x][p] = voice[x][p]
    BY <1>7
  <1>9. OwnVoices'
    <2>1. ASSUME NEW x \in Orgs, NEW p \in People, voice'[x][p] # 0
          PROVE  members'[voice'[x][p]].org = x
      <3>1. CASE voice[x][p] # 0
        BY <1>3, <1>6, <1>8, <3>1 DEF IInv, OwnVoices
      <3>2. CASE voice[x][p] = 0
        BY <1>3, <1>4, <1>7, <2>1, <3>2
      <3> QED BY <3>1, <3>2
    <2> QED BY <2>1 DEF OwnVoices
  <1>10. MembersKept
    BY <1>1, <1>2, <1>3, <1>5 DEF MembersKept
  <1>11. \A x \in Orgs : Admins(x) \subseteq Admins(x)'
    BY <1>3 DEF Admins
  <1>12. voice'[o][who] \in DOMAIN members' /\ members'[voice'[o][who]].org = o
    <2>1. voice'[o][who] # 0
      BY <1>1, <1>7
    <2> QED BY <1>7, <1>9, <2>1 DEF OwnVoices
  <1>13. n \in Nat
    BY <1>1
  <1> QED BY <1>2, <1>3, <1>5, <1>7, <1>8, <1>9, <1>10, <1>11, <1>12, <1>13 DEF MemberTypes

(* A member is changed in place, in their role or their address. *)
LEMMA MemberChanged ==
    ASSUME IInv, NEW m \in DOMAIN members, NEW x \in Member,
           members' = [members EXCEPT ![m] = x],
           x.org = members[m].org, members[m].address # None => x.address # None,
           voice' = voice, next' = next
    PROVE  MembersKept /\ Numbered' /\ OwnVoices' /\ MemberTypes' /\ next'.member \in Nat
  <1>1. /\ DOMAIN members' = DOMAIN members /\ members'[m] = x
        /\ \A n \in DOMAIN members : n # m => members'[n] = members[n]
    OBVIOUS
  <1>2. Numbered' /\ MemberTypes' /\ next'.member \in Nat
    BY <1>1, MembersAssumption DEF IInv, TypeOK, Numbered, MemberTypes
  <1>3. \A n \in DOMAIN members : members'[n].org = members[n].org
    BY <1>1
  <1>4. OwnVoices'
    BY <1>1, <1>3 DEF IInv, TypeOK, OwnVoices
  <1>5. MembersKept
    BY <1>1, <1>2, <1>3 DEF MembersKept
  <1> QED BY <1>2, <1>4, <1>5

(* A chat account moves to a member who has proved a wallet, and what it leaves *)
(* behind is deleted if nothing points at it.                                   *)
LEMMA VoiceMoved ==
    ASSUME IInv, NEW o \in Orgs, NEW who \in People, NEW t, Proved(o, t),
           t # voice[o][who], next' = next,
           voice' = [voice EXCEPT ![o][who] = t],
           deleteEmptyMember(o, voice[o][who], who)
    PROVE  /\ MembersKept /\ Numbered' /\ OwnVoices' /\ MemberTypes' /\ next'.member \in Nat
           /\ \A x \in Orgs : Admins(x) \subseteq Admins(x)'
           /\ \A m \in DOMAIN members' : m \in DOMAIN members /\ members'[m] = members[m]
  <1> DEFINE m == voice[o][who]
  <1>1. voice \in [Orgs -> [People -> {0} \cup DOMAIN members]]
    BY DEF IInv, TypeOK
  <1>2. /\ DOMAIN members' = {k \in DOMAIN members : k # m \/ ~Empty(o, m, who)}
        /\ \A k \in DOMAIN members' : members'[k] = members[k]
    BY DEF deleteEmptyMember
  <1>3. \A k \in DOMAIN members : k \notin DOMAIN members' =>
          k = m /\ members[k].address = None /\ members[k].roles = {}
    BY <1>2 DEF Empty
  <1>4. t \in DOMAIN members /\ t \in DOMAIN members' /\ members'[t].org = o /\ t # 0
    BY <1>2, <1>3 DEF Proved, IInv, TypeOK
  <1>5. /\ voice'[o][who] = t
        /\ \A x \in Orgs, p \in People : x # o \/ p # who => voice'[x][p] = voice[x][p]
    BY <1>1
  <1>6. ASSUME NEW x \in Orgs, NEW p \in People, x # o \/ p # who, voice[x][p] # 0
        PROVE  voice[x][p] \in DOMAIN members'
    <2>1. voice[x][p] \in DOMAIN members /\ members[voice[x][p]].org = x
      BY <1>1, <1>6 DEF IInv, OwnVoices
    <2>2. CASE x = o
      <3>1. p # who
        BY <1>6, <2>2
      <3>2. voice[x][p] = m => ~Empty(o, m, who)
        BY <2>2, <3>1 DEF Empty
      <3> QED BY <1>2, <2>1, <3>2
    <2>3. CASE x # o
      <3>1. m # 0 => members[m].org = o
        BY DEF IInv, OwnVoices
      <3>2. voice[x][p] # m
        BY <1>6, <2>1, <2>3, <3>1
      <3> QED BY <1>2, <2>1, <3>2
    <2> QED BY <2>2, <2>3
  <1>7. voice' \in [Orgs -> [People -> {0} \cup DOMAIN members']]
    <2>1. \A x \in Orgs, p \in People : voice'[x][p] \in {0} \cup DOMAIN members'
      BY <1>4, <1>5, <1>6
    <2>2. voice' \in [Orgs -> [People -> {0} \cup DOMAIN members]]
      BY <1>1, <1>4
    <2> QED BY <2>1, <2>2
  <1>8. OwnVoices'
    <2>1. \A x \in Orgs, p \in People : voice'[x][p] # 0 => members'[voice'[x][p]].org = x
      BY <1>1, <1>2, <1>4, <1>5, <1>6 DEF IInv, OwnVoices
    <2> QED BY <2>1 DEF OwnVoices
  <1>9. /\ DOMAIN members' \subseteq 1..MaxMembers /\ Numbered' /\ next'.member \in Nat
        /\ \A k \in DOMAIN members' : k \in DOMAIN members /\ members'[k] = members[k]
    BY <1>2, MembersAssumption DEF IInv, TypeOK, Numbered
  <1>10. MemberTypes'
    BY <1>7, <1>9 DEF MemberTypes, IInv, TypeOK
  <1>11. MembersKept
    BY <1>2, <1>3, <1>9 DEF MembersKept
  <1>12. \A x \in Orgs : Admins(x) \subseteq Admins(x)'
    BY <1>2, <1>3 DEF Admins
  <1> QED BY <1>8, <1>9, <1>10, <1>11, <1>12

--------------------------------------------------------------------------------
(* The invariant, step by step. *)

(* The types of the other tables, of the locks and of the network. *)
RestTypes ==
    /\ space \in [Spaces -> Orgs \cup {None}] /\ suspended \subseteq Orgs
    /\ challenges \subseteq Challenge /\ codes \subseteq Code /\ spaceCodes \subseteq SpaceCode
    /\ treasury \in [Accounts -> [org: Orgs \cup {None}, signers: SUBSET People]]
    /\ next \in [member: 0..MaxMembers, hash: 0..MaxChallenges, code: 0..MaxCodes,
                 spaceCode: 0..MaxSpaceCodes]
    /\ lock \in [Orgs -> Requests \cup {None}]
    /\ signers \in [Accounts -> SUBSET People] /\ story \in Stories

(* The parts make up the types. *)
LEMMA Types ==
    TypeOK <=> RestTypes /\ MemberTypes /\ req \in [Requests -> Request]
  BY DEF TypeOK, RestTypes, MemberTypes

(* A request goes on that changes nothing about members, and holds no lock after. *)
LEMMA PlainStep ==
    ASSUME IInv, NEW r \in Requests, NEW q \in Request, Goto(r, q),
           UNCHANGED <<members, voice, lock>>, next'.member = next.member, RestTypes',
           \A x \in codes' : x \in codes \/ Proved(x.org, x.member),
           q.pc \notin {"pick", "commit"},
           q.pc = "run" /\ q.cmd.name = "link-code" => Proved(q.org, q.member)
    PROVE  IInv'
  <1>1. /\ Numbered' /\ OwnVoices' /\ MembersKept /\ MemberTypes' /\ next'.member \in Nat
        /\ \A o : Admins(o)' = Admins(o)
    BY SameMembers, MembersAssumption DEF MemberTypes, RestTypes
  <1>2. \A o, m : Proved(o, m) => Proved(o, m)'
    BY DEF Proved
  <1>3. \A s \in Requests \ {r}, o \in Orgs : At(s, "commit") /\ req[s].org = o =>
          lock'[o] = s /\ Admins(o) \subseteq Admins(o)'
    <2>1. ASSUME NEW s \in Requests, At(s, "commit"), req[s].org \in Orgs
          PROVE  lock[req[s].org] = s
      <3>1. req[s].cmd \in Command
        BY <2>1, RequestShape DEF At, IInv, TypeOK
      <3> QED BY <2>1, <3>1 DEF IInv, Committing
    <2> QED BY <1>1, <2>1
  <1>4. req' \in [Requests -> Request] /\ CodesStand' /\ Picking' /\ Committing'
    BY <1>1, <1>2, <1>3, RequestsKept DEF Goto
  <1>5. TypeOK'
    BY <1>1, <1>4 DEF TypeOK, RestTypes, MemberTypes
  <1> QED BY <1>1, <1>4, <1>5 DEF IInv

(* Whoever is about to commit holds the lock. *)
LEMMA Locked ==
    ASSUME IInv, NEW s \in Requests, At(s, "commit")
    PROVE  /\ req[s].org \in Orgs /\ req[s].cmd \in Command
           /\ lock[req[s].org] = s /\ Kept(req[s].org, req[s].cmd)
  <1>1. req[s].org \in Orgs /\ req[s].cmd \in Command
    BY RequestShape DEF At, IInv, TypeOK
  <1> QED BY <1>1 DEF IInv, Committing

(* A message arrives. *)
LEMMA MessageStep ==
    ASSUME IInv, NEW r \in Requests, NEW who \in People, NEW s \in Spaces, NEW cmd \in Command,
           handleUnregistered(r, who, s, cmd) \/ Handle(r, who, s, cmd)
    PROVE  IInv'
  <1>1. /\ UNCHANGED <<members, voice, lock, next, codes>> /\ RestTypes'
    BY DEF handleUnregistered, Handle, tables, outside, IInv, TypeOK, RestTypes
  <1>2. CASE handleUnregistered(r, who, s, cmd)
    <2>1. \/ Goto(r, [pc |-> "create", who |-> who, space |-> s])
          \/ Goto(r, [pc |-> "attach", space |-> s, code |-> cmd.code])
             /\ cmd.name = "connect" /\ Has(cmd, "code")
      BY <1>2 DEF handleUnregistered, runSetup, connectHere
    <2>2. [pc |-> "create", who |-> who, space |-> s] \in Request
      BY DEF Request
    <2>3. ASSUME cmd.name = "connect", Has(cmd, "code")
          PROVE  [pc |-> "attach", space |-> s, code |-> cmd.code] \in Request
      <3>1. cmd.code \in 1..MaxSpaceCodes
        BY <2>3, CommandShape
      <3> QED BY <3>1 DEF Request
    <2> QED BY <1>1, <2>1, <2>2, <2>3, PlainStep
  <1>3. CASE Handle(r, who, s, cmd)
    <2> DEFINE o == space[s]
               m == voice[o][who]
               q1 == [pc |-> "insert", org |-> o, founds |-> FALSE, active |-> Active(o),
                      who |-> who, cmd |-> cmd]
               q2 == [pc |-> "run", org |-> o, who |-> who, member |-> m, cmd |-> cmd]
    <2>1. o \in Orgs
      BY <1>3 DEF Handle, OrgForSpace, IInv, TypeOK
    <2>2. m \in {0} \cup DOMAIN members
      BY <2>1 DEF IInv, TypeOK
    <2>3. CASE m = 0
      <3>1. Goto(r, q1)
        BY <1>3, <2>3 DEF Handle, OrgForSpace, MemberByIdentity
      <3>2. q1 \in Request
        BY <2>1 DEF Request, Active
      <3> QED BY <1>1, <3>1, <3>2, PlainStep
    <2>4. CASE m # 0
      <3>1. Goto(r, q2) /\ Runs(cmd, Active(o), EffectiveRole(m), members[m].address)
        BY <1>3, <2>4 DEF Handle, OrgForSpace, MemberByIdentity
      <3>2. q2 \in Request
        BY <2>1, <2>2, <2>4 DEF Request, IInv, TypeOK
      <3>3. cmd.name = "link-code" => Proved(o, m)
        <4>1. cmd.name = "link-code" => members[m].address # None
          BY <3>1 DEF Runs, link, linkCode, claim, connect, linkTreasury
        <4> QED BY <2>1, <2>2, <2>4, <4>1 DEF Proved, IInv, OwnVoices
      <3> QED BY <1>1, <3>1, <3>2, <3>3, PlainStep
    <2> QED BY <2>3, <2>4
  <1> QED BY <1>2, <1>3

(* A first message, and the founder of a workspace. *)
LEMMA InsertStep ==
    ASSUME IInv, NEW r \in Requests, insertMember(r)
    PROVE  IInv'
  <1> DEFINE q == req[r]
             m == voice'[q.org][q.who]
             q1 == [pc |-> "first", org |-> q.org, member |-> m]
             q2 == [pc |-> "run", org |-> q.org, who |-> q.who, member |-> m, cmd |-> q.cmd]
  <1>1. q.pc = "insert" /\ q.org \in Orgs /\ q.who \in People /\ q.cmd \in Command
    BY RequestShape DEF insertMember, At, IInv, TypeOK
  <1>2. EnsureMember(q.org, q.who)
    BY DEF insertMember
  <1>3. /\ MembersKept /\ OwnVoices' /\ MemberTypes' /\ next'.member \in Nat
        /\ next' \in [member: 0..MaxMembers, hash: 0..MaxChallenges, code: 0..MaxCodes,
                      spaceCode: 0..MaxSpaceCodes]
        /\ m \in DOMAIN members' /\ members'[m].org = q.org
        /\ \A x \in Orgs : Admins(x) \subseteq Admins(x)'
    BY <1>1, <1>2, MemberInserted
  <1>4. RestTypes' /\ UNCHANGED <<codes, lock>>
    BY <1>3 DEF insertMember, outside, IInv, TypeOK, RestTypes
  <1>5. m \in 1..MaxMembers
    BY <1>3 DEF MemberTypes
  <1>6. Idle \in Request /\ q1 \in Request /\ q2 \in Request
    BY <1>1, <1>5 DEF Idle, Request
  <1>7. \/ req' = [req EXCEPT ![r] = Idle]
        \/ req' = [req EXCEPT ![r] = q1]
        \/ req' = [req EXCEPT ![r] = q2]
           /\ Runs(q.cmd, q.active, Highest(members'[m].roles), members'[m].address)
    BY DEF insertMember, Goto, Finish
  <1>8. \A s \in Requests \ {r}, o \in Orgs : At(s, "commit") /\ req[s].org = o =>
          lock'[o] = s /\ Admins(o) \subseteq Admins(o)'
    BY <1>3, <1>4, Locked
  <1>9. PICK x \in Request :
          /\ req' = [req EXCEPT ![r] = x] /\ x.pc \in {"idle", "first", "run"}
          /\ x.pc = "run" /\ x.cmd.name = "link-code" => Proved(x.org, x.member)'
    <2>1. CASE req' = [req EXCEPT ![r] = Idle]
      BY <1>6, <2>1 DEF Idle
    <2>2. CASE req' = [req EXCEPT ![r] = q1]
      BY <1>6, <2>2
    <2>3. CASE req' = [req EXCEPT ![r] = q2]
               /\ Runs(q.cmd, q.active, Highest(members'[m].roles), members'[m].address)
      <3>1. q.cmd.name = "link-code" => members'[m].address # None
        BY <2>3 DEF Runs, link, linkCode, claim, connect, linkTreasury
      <3>2. \A o, n : o = q.org /\ n = m /\ q.cmd.name = "link-code" => Proved(o, n)'
        BY <1>3, <3>1 DEF Proved
      <3> QED BY <1>6, <2>3, <3>2
    <2> QED BY <1>7, <2>1, <2>2, <2>3
  <1>10. req' \in [Requests -> Request] /\ CodesStand' /\ Picking' /\ Committing'
    BY <1>3, <1>4, <1>8, <1>9, RequestsKept
  <1>11. TypeOK'
    BY <1>3, <1>4, <1>10 DEF TypeOK, RestTypes, MemberTypes
  <1> QED BY <1>3, <1>10, <1>11 DEF IInv, MembersKept

(* Setting a workspace up, up to its first admin. *)
LEMMA SetupStep ==
    ASSUME IInv, NEW r \in Requests, setupHere(r)
    PROVE  IInv'
  <1>1. UNCHANGED <<members, voice, lock, next, codes>>
    BY DEF setupHere
  <1>2. Idle \in Request /\ Idle.pc = "idle"
    BY DEF Idle, Request
  <1>3. req[r].who \in People /\ req[r].space \in Spaces
    BY RequestShape DEF setupHere, At, IInv, TypeOK
  <1>4. CASE space' = space /\ Finish(r)
    <2>1. RestTypes'
      BY <1>4 DEF setupHere, outside, IInv, TypeOK, RestTypes
    <2> QED BY <1>1, <1>2, <1>4, <2>1, PlainStep DEF Finish
  <1>5. ASSUME NEW o \in Orgs, CreateOrg(req[r].space, o),
               Goto(r, [pc |-> "insert", org |-> o, founds |-> TRUE, active |-> TRUE,
                        who |-> req[r].who, cmd |-> [name |-> "setup"]])
        PROVE  IInv'
    <2>1. space' \in [Spaces -> Orgs \cup {None}]
      BY <1>5 DEF CreateOrg, IInv, TypeOK
    <2>2. RestTypes'
      BY <2>1 DEF setupHere, outside, IInv, TypeOK, RestTypes
    <2>3. [name |-> "setup"] \in Command
      BY DEF Command
    <2> DEFINE q == [pc |-> "insert", org |-> o, founds |-> TRUE, active |-> TRUE,
                     who |-> req[r].who, cmd |-> [name |-> "setup"]]
    <2>4. q \in Request
      BY <1>3, <2>3 DEF Request
    <2>5. q.pc = "insert"
      OBVIOUS
    <2> HIDE DEF q
    <2>6. Goto(r, q)
      BY <1>5 DEF q
    <2> QED BY <1>1, <2>2, <2>4, <2>5, <2>6, PlainStep
  <1> QED BY <1>4, <1>5 DEF setupHere

(* Requests that end, and change members in place. *)
LEMMA EndStep ==
    ASSUME IInv, NEW r \in Requests, Finish(r), MembersKept, OwnVoices', MemberTypes',
           RestTypes', codes' \subseteq codes,
           \A s \in Requests \ {r}, o \in Orgs : At(s, "commit") /\ req[s].org = o =>
             lock'[o] = s /\ Admins(o) \subseteq Admins(o)'
    PROVE  IInv'
  <1>1. Idle \in Request /\ Idle.pc = "idle" /\ req' = [req EXCEPT ![r] = Idle]
    BY DEF Idle, Request, Finish, Goto
  <1>2. next'.member \in Nat
    BY MembersAssumption DEF RestTypes
  <1>3. req' \in [Requests -> Request] /\ CodesStand' /\ Picking' /\ Committing'
    BY <1>1, <1>2, RequestsKept
  <1>4. TypeOK'
    BY <1>3 DEF TypeOK, RestTypes, MemberTypes
  <1> QED BY <1>3, <1>4 DEF IInv, MembersKept

(* The first admin of a workspace. *)
LEMMA FirstAdminStep ==
    ASSUME IInv, NEW r \in Requests, GrantRole(r)
    PROVE  IInv' /\ \A o \in Orgs : Admins(o) \subseteq Admins(o)'
  <1> DEFINE m == req[r].member
             x == [members[m] EXCEPT !.roles = @ \cup {Admin}]
  <1>1. /\ UNCHANGED <<voice, next, codes, lock>> /\ RestTypes' /\ Finish(r)
    BY DEF GrantRole, outside, IInv, TypeOK, RestTypes
  <1>2. /\ MembersKept /\ OwnVoices' /\ MemberTypes' /\ \A o \in Orgs : Admins(o) \subseteq Admins(o)'
    <2>1. CASE m \in DOMAIN members
      <3>1. members[m] \in Member
        BY <2>1 DEF IInv, TypeOK
      <3>2. x \in Member /\ x.org = members[m].org /\ x.address = members[m].address
            /\ x.roles = members[m].roles \cup {Admin}
        BY <3>1 DEF Member, Admin
      <3>3. members' = [members EXCEPT ![m] = x]
        BY <2>1 DEF GrantRole
      <3>4. MembersKept /\ OwnVoices' /\ MemberTypes'
        BY <1>1, <2>1, <3>2, <3>3, MemberChanged
      <3>5. \A o \in Orgs : Admins(o) \subseteq Admins(o)'
        BY <2>1, <3>2, <3>3 DEF Admins
      <3> QED BY <3>4, <3>5
    <2>2. CASE m \notin DOMAIN members
      <3>1. members' = members
        BY <2>2 DEF GrantRole
      <3> QED BY <1>1, <3>1, SameMembers DEF MemberTypes
    <2> QED BY <2>1, <2>2
  <1>3. IInv'
    BY <1>1, <1>2, EndStep, Locked
  <1> QED BY <1>2, <1>3

(* Somebody picked from the platform's list. *)
LEMMA PickStep ==
    ASSUME IInv, NEW r \in Requests, grantPicked(r)
    PROVE  IInv'
  <1> DEFINE cmd == req[r].cmd
             here == voice[req[r].org][cmd.picked]
             to == [name |-> "grant", member |-> here, role |-> cmd.role]
  <1>1. /\ UNCHANGED <<members, voice, lock, next, codes>> /\ RestTypes'
    BY DEF grantPicked, tables, outside, IInv, TypeOK, RestTypes
  <1>2. /\ req[r] \in Request /\ req[r].pc = "run" /\ cmd.name = "grant" /\ Has(cmd, "picked")
        /\ req[r].org \in Orgs /\ cmd \in Command
    BY RequestShape DEF grantPicked, Running, At, IInv, TypeOK
  <1>3. cmd.picked \in People /\ cmd.role \in Grantable
    BY <1>2, CommandShape
  <1>4. here \in {0} \cup DOMAIN members
    BY <1>2, <1>3 DEF IInv, TypeOK
  <1>5. CASE here # 0
    <2>1. here \in 1..MaxMembers
      BY <1>4, <1>5 DEF IInv, TypeOK
    <2>2. to \in Command /\ to.name = "grant"
      BY <1>3, <2>1 DEF Command
    <2>3. Goto(r, [req[r] EXCEPT !.cmd = to])
      BY <1>5 DEF grantPicked, MemberByIdentity
    <2> HIDE DEF to
    <2>4. /\ [req[r] EXCEPT !.cmd = to] \in Request /\ [req[r] EXCEPT !.cmd = to].pc = "run"
          /\ [req[r] EXCEPT !.cmd = to].cmd = to
      BY <1>2, <2>2, RunShape, RunFields
    <2> QED BY <1>1, <2>2, <2>3, <2>4, PlainStep
  <1>6. CASE here = 0
    <2> DEFINE q == [req[r] EXCEPT !.pc = "pick"]
    <2>1. q \in Request /\ q.pc = "pick" /\ q.cmd = cmd
      <3>1. q \in Request
        BY <1>2, RunShape
      <3>2. q.pc = "pick" /\ q.cmd = cmd
        BY <1>2, RunFields
      <3> QED BY <3>1, <3>2
    <2>2. req' = [req EXCEPT ![r] = q]
      BY <1>6 DEF grantPicked, MemberByIdentity, Step, Goto
    <2> HIDE DEF q
    <2>3. /\ Numbered' /\ OwnVoices' /\ MembersKept /\ MemberTypes' /\ next'.member \in Nat
          /\ \A o : Admins(o)' = Admins(o)
      BY <1>1, SameMembers, MembersAssumption DEF MemberTypes, RestTypes
    <2>4. \A s \in Requests \ {r}, o \in Orgs : At(s, "commit") /\ req[s].org = o =>
            lock'[o] = s /\ Admins(o) \subseteq Admins(o)'
      BY <1>1, <2>3, Locked
    <2>5. req' \in [Requests -> Request] /\ CodesStand' /\ Picking' /\ Committing'
      BY <1>1, <1>2, <2>1, <2>2, <2>3, <2>4, RequestsKept
    <2>6. TypeOK'
      BY <1>1, <2>3, <2>5 DEF TypeOK, RestTypes, MemberTypes
    <2> QED BY <2>3, <2>5, <2>6 DEF IInv
  <1> QED BY <1>5, <1>6

(* The member picked is inserted. *)
LEMMA InsertPickedStep ==
    ASSUME IInv, NEW r \in Requests, insertPicked(r)
    PROVE  IInv'
  <1> DEFINE cmd == req[r].cmd
             m == voice'[req[r].org][cmd.picked]
             to == [name |-> "grant", member |-> m, role |-> cmd.role]
             q == [req[r] EXCEPT !.pc = "run", !.cmd = to]
  <1>1. /\ req[r] \in Request /\ req[r].pc = "pick" /\ cmd.name = "grant" /\ Has(cmd, "picked")
        /\ req[r].org \in Orgs /\ cmd \in Command
    BY RequestShape DEF insertPicked, At, IInv, Picking, TypeOK
  <1>2. cmd.picked \in People /\ cmd.role \in Grantable
    BY <1>1, CommandShape
  <1>3. EnsureMember(req[r].org, cmd.picked)
    BY DEF insertPicked
  <1>4. /\ MembersKept /\ OwnVoices' /\ MemberTypes' /\ next'.member \in Nat
        /\ next' \in [member: 0..MaxMembers, hash: 0..MaxChallenges, code: 0..MaxCodes,
                      spaceCode: 0..MaxSpaceCodes]
        /\ m \in DOMAIN members' /\ \A x \in Orgs : Admins(x) \subseteq Admins(x)'
    BY <1>1, <1>2, <1>3, MemberInserted
  <1>5. RestTypes' /\ UNCHANGED <<codes, lock>>
    BY <1>4 DEF insertPicked, outside, IInv, TypeOK, RestTypes
  <1>6. m \in 1..MaxMembers
    BY <1>4 DEF MemberTypes
  <1>7. to \in Command /\ to.name = "grant"
    BY <1>2, <1>6 DEF Command
  <1>8. req' = [req EXCEPT ![r] = q]
    BY DEF insertPicked, Goto
  <1> HIDE DEF to
  <1>9. q \in Request /\ q.pc = "run" /\ q.cmd = to
    <2>1. q \in Request
      BY <1>1, <1>7, RunShape
    <2>2. q.pc = "run" /\ q.cmd = to
      BY <1>1, RunFields
    <2> QED BY <2>1, <2>2
  <1> HIDE DEF q
  <1>10. \A s \in Requests \ {r}, o \in Orgs : At(s, "commit") /\ req[s].org = o =>
           lock'[o] = s /\ Admins(o) \subseteq Admins(o)'
    BY <1>4, <1>5, Locked
  <1>11. req' \in [Requests -> Request] /\ CodesStand' /\ Picking' /\ Committing'
    BY <1>4, <1>5, <1>7, <1>8, <1>9, <1>10, RequestsKept
  <1>12. TypeOK'
    BY <1>4, <1>5, <1>11 DEF TypeOK, RestTypes, MemberTypes
  <1> QED BY <1>4, <1>11, <1>12 DEF IInv, MembersKept

(* SetRole counts the admins that would be left, under the lock. *)
LEMMA CountStep ==
    ASSUME IInv, NEW r \in Requests, SetRole(r)
    PROVE  IInv'
  <1> DEFINE cmd == req[r].cmd
             o == req[r].org
  <1>1. /\ UNCHANGED <<members, voice, next, codes>>
        /\ UNCHANGED <<space, suspended, challenges, spaceCodes, treasury, signers, story>>
    BY DEF SetRole, tables, outside
  <1>2. /\ req[r] \in Request /\ req[r].pc = "run" /\ o \in Orgs /\ cmd \in Command
        /\ cmd.name \in {"grant", "revoke"} /\ Has(cmd, "member")
    BY RequestShape DEF SetRole, Running, At, IInv, TypeOK
  <1>3. CASE Finish(r) /\ lock' = lock
    <2>1. RestTypes'
      BY <1>1, <1>3 DEF IInv, TypeOK, RestTypes
    <2>2. Idle \in Request /\ Idle.pc = "idle"
      BY DEF Idle, Request
    <2> QED BY <1>1, <1>3, <2>1, <2>2, PlainStep DEF Finish
  <1>4. CASE /\ Step(r, "commit") /\ lock' = [lock EXCEPT ![o] = r] /\ lock[o] = None
             /\ cmd.member \in DOMAIN members /\ members[cmd.member].org = o
             /\ Admins(o) \ {cmd.member} # {} \/ Admin \in Left(cmd)
    <2> DEFINE q == [req[r] EXCEPT !.pc = "commit"]
    <2>1. q \in Request
      BY <1>2, RunShape
    <2>2. q.pc = "commit" /\ q.cmd = cmd /\ q.org = o
      BY <1>2, RunFields
    <2>3. req' = [req EXCEPT ![r] = q]
      BY <1>4 DEF Step, Goto
    <2> HIDE DEF q
    <2>4. lock' \in [Orgs -> Requests \cup {None}] /\ lock'[o] = r
          /\ \A x \in Orgs : x # o => lock'[x] = lock[x]
      BY <1>2, <1>4 DEF IInv, TypeOK
    <2>5. RestTypes'
      BY <1>1, <2>4 DEF IInv, TypeOK, RestTypes
    <2>6. /\ Numbered' /\ OwnVoices' /\ MembersKept /\ MemberTypes' /\ next'.member \in Nat
          /\ \A x : Admins(x)' = Admins(x)
      BY <1>1, <2>5, SameMembers, MembersAssumption DEF MemberTypes, RestTypes
    <2>7. \A x, c : x = o /\ c = cmd => Kept(x, c)'
      <3>1. cmd.member \in 1..next.member
        BY <1>4 DEF IInv, Numbered
      <3> QED BY <1>1, <1>4, <2>6, <3>1 DEF Kept
    <2>8. ASSUME NEW s \in Requests \ {r}, NEW x \in Orgs, At(s, "commit"), req[s].org = x
          PROVE  lock'[x] = s /\ Admins(x) \subseteq Admins(x)'
      <3>1. lock[x] = s
        BY <2>8, Locked
      <3>2. x # o
        BY <1>4, <3>1, MembersAssumption
      <3> QED BY <2>4, <2>6, <3>1, <3>2
    <2>9. req' \in [Requests -> Request] /\ CodesStand' /\ Picking' /\ Committing'
      BY <1>1, <1>2, <2>1, <2>2, <2>3, <2>4, <2>6, <2>7, <2>8, RequestsKept
    <2>10. TypeOK'
      BY <2>5, <2>6, <2>9 DEF TypeOK, RestTypes, MemberTypes
    <2> QED BY <2>6, <2>9, <2>10 DEF IInv
  <1> QED BY <1>3, <1>4 DEF SetRole

(* The role is written and the lock released; the admins of other workspaces are *)
(* not concerned, and of this one somebody remains.                              *)
LEMMA CommitStep ==
    ASSUME IInv, NEW r \in Requests, CommitRole(r)
    PROVE  /\ IInv' /\ \A o \in Orgs : Admins(o) # {} => Admins(o)' # {}
           /\ \A m \in DOMAIN members : m \in DOMAIN members' /\ members'[m].address = members[m].address
  <1> DEFINE cmd == req[r].cmd
             m == cmd.member
             o == req[r].org
             x == [members[m] EXCEPT !.roles = Left(cmd)]
  <1>1. /\ req[r] \in Request /\ o \in Orgs /\ cmd \in Command /\ lock[o] = r /\ Kept(o, cmd)
    BY Locked DEF CommitRole, IInv, TypeOK
  <1>2. /\ UNCHANGED <<voice, next, codes>> /\ Finish(r)
        /\ lock' = [lock EXCEPT ![o] = None]
    BY <1>1 DEF CommitRole
  <1>3. lock' \in [Orgs -> Requests \cup {None}] /\ \A y \in Orgs : y # o => lock'[y] = lock[y]
    BY <1>2 DEF IInv, TypeOK
  <1>4. RestTypes'
    BY <1>3 DEF CommitRole, outside, IInv, TypeOK, RestTypes
  <1>5. CASE m \in DOMAIN members
    <2>1. members[m] \in Member /\ members[m].org = o
      BY <1>1, <1>5 DEF IInv, TypeOK, Kept
    <2>2. Left(cmd) \in SUBSET (1..Admin)
      <3>1. cmd.name = "grant" => cmd.role \in 1..Admin
        BY <1>1, CommandShape, MembersAssumption
      <3> QED BY <3>1 DEF Left
    <2>3. /\ x \in Member /\ x.org = members[m].org /\ x.address = members[m].address
          /\ x.roles = Left(cmd)
      BY <2>1, <2>2 DEF Member
    <2>4. members' = [members EXCEPT ![m] = x]
      BY <1>5 DEF CommitRole
    <2> HIDE DEF x
    <2>5. MembersKept /\ OwnVoices' /\ MemberTypes'
      BY <1>2, <1>5, <2>3, <2>4, MemberChanged
    <2>6. /\ DOMAIN members' = DOMAIN members /\ members'[m] = x
          /\ \A n \in DOMAIN members : n # m => members'[n] = members[n]
      BY <1>5, <2>4
    <2>7. \A y \in Orgs : y # o => Admins(y) \subseteq Admins(y)'
      BY <2>1, <2>6 DEF Admins
    <2>8. ASSUME NEW y \in Orgs, y = o
          PROVE  Admins(y)' # {}
      <3>1. CASE Admins(o) \ {m} # {}
        <4>1. PICK n \in Admins(o) : n # m
          BY <3>1
        <4>2. n \in Admins(y)'
          BY <2>6, <2>8, <4>1 DEF Admins
        <4> QED BY <4>2
      <3>2. CASE Admin \in Left(cmd)
        <4>1. m \in Admins(y)'
          BY <1>5, <2>1, <2>3, <2>6, <2>8, <3>2 DEF Admins
        <4> QED BY <4>1
      <3> QED BY <1>1, <3>1, <3>2 DEF Kept
    <2>9. IInv'
      <3>1. \A s \in Requests \ {r}, y \in Orgs : At(s, "commit") /\ req[s].org = y =>
              lock'[y] = s /\ Admins(y) \subseteq Admins(y)'
        BY <1>1, <1>3, <2>7, Locked
      <3> QED BY <1>2, <1>4, <2>5, <3>1, EndStep
    <2>10. \A n \in DOMAIN members : n \in DOMAIN members' /\ members'[n].address = members[n].address
      BY <2>3, <2>6
    <2> QED BY <2>7, <2>8, <2>9, <2>10
  <1>6. CASE m \notin DOMAIN members
    <2>1. members' = members
      BY <1>6 DEF CommitRole
    <2>2. /\ MembersKept /\ OwnVoices' /\ MemberTypes' /\ \A y : Admins(y)' = Admins(y)
      BY <1>2, <2>1, SameMembers DEF MemberTypes
    <2>3. \A s \in Requests \ {r}, y \in Orgs : At(s, "commit") /\ req[s].org = y =>
            lock'[y] = s /\ Admins(y) \subseteq Admins(y)'
      BY <1>1, <1>3, <2>2, Locked
    <2>4. IInv'
      BY <1>2, <1>4, <2>2, <2>3, EndStep
    <2> QED BY <2>1, <2>2, <2>4
  <1> QED BY <1>5, <1>6

(* A code or a challenge is given out, or a code for a space used. *)
LEMMA TableStep ==
    ASSUME IInv, NEW r \in Requests, Finish(r), UNCHANGED <<members, voice, lock>>,
           next'.member = next.member, RestTypes',
           \A x \in codes' : x \in codes \/ Proved(x.org, x.member)
    PROVE  IInv'
  <1>1. Idle \in Request /\ Idle.pc = "idle"
    BY DEF Idle, Request
  <1> QED BY <1>1, PlainStep DEF Finish

(* Codes for spaces. *)
LEMMA SpaceCodeStep ==
    ASSUME IInv, NEW r \in Requests, IssueSpaceCode(r) \/ ClaimSpaceCode(r)
    PROVE  IInv'
  <1>1. CASE IssueSpaceCode(r)
    <2>1. req[r].org \in Orgs
      BY <1>1, RequestShape DEF IssueSpaceCode, Running, At, IInv, TypeOK
    <2>2. /\ next' \in [member: 0..MaxMembers, hash: 0..MaxChallenges, code: 0..MaxCodes,
                        spaceCode: 0..MaxSpaceCodes]
          /\ next'.member = next.member /\ next.spaceCode + 1 \in 1..MaxSpaceCodes
      BY <1>1, MembersAssumption DEF IssueSpaceCode, IInv, TypeOK
    <2>3. [code |-> next.spaceCode + 1, org |-> req[r].org] \in SpaceCode
      BY <2>1, <2>2 DEF SpaceCode
    <2>4. spaceCodes' \subseteq SpaceCode
      BY <1>1, <2>3 DEF IssueSpaceCode, IInv, TypeOK
    <2>5. RestTypes'
      BY <1>1, <2>2, <2>4 DEF IssueSpaceCode, outside, IInv, TypeOK, RestTypes
    <2> QED BY <1>1, <2>2, <2>5, TableStep DEF IssueSpaceCode
  <1>2. CASE ClaimSpaceCode(r)
    <2>1. spaceCodes' \subseteq spaceCodes /\ space' \in [Spaces -> Orgs \cup {None}]
      BY <1>2 DEF ClaimSpaceCode, IInv, TypeOK, SpaceCode
    <2>2. RestTypes'
      BY <1>2, <2>1 DEF ClaimSpaceCode, outside, IInv, TypeOK, RestTypes
    <2> QED BY <1>2, <2>2, TableStep DEF ClaimSpaceCode
  <1> QED BY <1>1, <1>2

(* A code for another chat account of a member with a wallet. *)
LEMMA LinkCodeStep ==
    ASSUME IInv, NEW r \in Requests, IssueLinkCode(r)
    PROVE  IInv'
  <1> DEFINE new == [code |-> next.code + 1, org |-> req[r].org, member |-> req[r].member]
  <1>1. req[r].org \in Orgs /\ req[r].member \in 1..MaxMembers
    BY RequestShape DEF IssueLinkCode, Running, At, IInv, TypeOK
  <1>2. Proved(req[r].org, req[r].member)
    BY <1>1 DEF IssueLinkCode, IInv, CodesStand
  <1>3. /\ next' \in [member: 0..MaxMembers, hash: 0..MaxChallenges, code: 0..MaxCodes,
                      spaceCode: 0..MaxSpaceCodes]
        /\ next'.member = next.member /\ next.code + 1 \in 1..MaxCodes
    BY MembersAssumption DEF IssueLinkCode, IInv, TypeOK
  <1>4. new \in Code /\ Proved(new.org, new.member)
    BY <1>1, <1>2, <1>3 DEF Code
  <1>5. codes' \subseteq codes \cup {new}
    BY DEF IssueLinkCode
  <1> HIDE DEF new
  <1>6. codes' \subseteq Code /\ \A x \in codes' : x \in codes \/ Proved(x.org, x.member)
    BY <1>4, <1>5 DEF IInv, TypeOK
  <1>7. RestTypes'
    BY <1>3, <1>6 DEF IssueLinkCode, outside, IInv, TypeOK, RestTypes
  <1> QED BY <1>3, <1>6, <1>7, TableStep DEF IssueLinkCode

(* The code is typed by another chat account. *)
LEMMA ClaimStep ==
    ASSUME IInv, NEW r \in Requests, ClaimLinkCode(r)
    PROVE  /\ IInv' /\ \A x \in Orgs : Admins(x) \subseteq Admins(x)'
           /\ \A m \in DOMAIN members' : m \in DOMAIN members /\ members'[m] = members[m]
  <1> DEFINE o == req[r].org
             who == req[r].who
             m == voice[o][who]
  <1>1. o \in Orgs /\ who \in People
    BY RequestShape DEF ClaimLinkCode, Running, At, IInv, TypeOK
  <1>2. /\ UNCHANGED <<next, lock>> /\ Finish(r) /\ codes' \subseteq codes /\ codes' \subseteq Code
    BY DEF ClaimLinkCode, IInv, TypeOK
  <1>3. RestTypes'
    BY <1>2 DEF ClaimLinkCode, outside, IInv, TypeOK, RestTypes
  <1>4. CASE UNCHANGED <<voice, members>>
    <2>1. IInv'
      BY <1>2, <1>3, <1>4, TableStep
    <2> QED BY <1>4, <2>1 DEF Admins
  <1>5. CASE \E x \in codes : /\ x.org = o /\ x.member # m
                              /\ voice' = [voice EXCEPT ![o][who] = x.member]
                              /\ deleteEmptyMember(o, m, who)
    <2>1. PICK x \in codes : /\ x.org = o /\ x.member # m
                             /\ voice' = [voice EXCEPT ![o][who] = x.member]
                             /\ deleteEmptyMember(o, m, who)
      BY <1>5
    <2>2. Proved(o, x.member)
      BY <2>1 DEF IInv, CodesStand
    <2>3. /\ MembersKept /\ OwnVoices' /\ MemberTypes'
          /\ \A y \in Orgs : Admins(y) \subseteq Admins(y)'
          /\ \A n \in DOMAIN members' : n \in DOMAIN members /\ members'[n] = members[n]
      BY <1>1, <1>2, <2>1, <2>2, VoiceMoved
    <2>4. \A s \in Requests \ {r}, y \in Orgs : At(s, "commit") /\ req[s].org = y =>
            lock'[y] = s /\ Admins(y) \subseteq Admins(y)'
      BY <1>2, <2>3, Locked
    <2>5. IInv'
      BY <1>2, <1>3, <2>3, <2>4, EndStep
    <2> QED BY <2>3, <2>5
  <1> QED BY <1>4, <1>5 DEF ClaimLinkCode, Moves

(* Challenges are given out. *)
LEMMA ChallengeStep ==
    ASSUME IInv, NEW r \in Requests, PrepareLink(r) \/ PrepareTreasuryLink(r)
    PROVE  IInv'
  <1>1. ASSUME NEW c \in Challenge, SaveChallenge(r, c)
        PROVE  IInv'
    <2>1. /\ next' \in [member: 0..MaxMembers, hash: 0..MaxChallenges, code: 0..MaxCodes,
                        spaceCode: 0..MaxSpaceCodes]
          /\ next'.member = next.member
      BY <1>1, MembersAssumption DEF SaveChallenge, IInv, TypeOK
    <2>2. challenges' \subseteq Challenge
      BY <1>1 DEF SaveChallenge, IInv, TypeOK
    <2>3. RestTypes'
      BY <1>1, <2>1, <2>2 DEF SaveChallenge, outside, IInv, TypeOK, RestTypes
    <2> QED BY <1>1, <2>1, <2>3, TableStep DEF SaveChallenge
  <1>2. req[r].org \in Orgs /\ req[r].who \in People /\ req[r].cmd \in Command
    BY RequestShape DEF PrepareLink, PrepareTreasuryLink, Running, At, IInv, TypeOK
  <1>3. next.hash < MaxChallenges => next.hash + 1 \in 1..MaxChallenges
    BY MembersAssumption DEF IInv, TypeOK
  <1>4. CASE PrepareLink(r)
    <2>1. req[r].cmd.address \in Wallets
      BY <1>2, <1>4, CommandShape DEF PrepareLink, Running
    <2>2. Build(r, "member") \in Challenge
      BY <1>2, <1>3, <1>4, <2>1 DEF PrepareLink, SaveChallenge, Build, Challenge
    <2> QED BY <1>1, <1>4, <2>2 DEF PrepareLink
  <1>5. CASE PrepareTreasuryLink(r) /\ SaveChallenge(r, Build(r, "treasury"))
    <2>1. req[r].cmd.address \in Accounts
      BY <1>2, <1>5, CommandShape DEF PrepareTreasuryLink, Running
    <2>2. Build(r, "treasury") \in Challenge
      BY <1>2, <1>3, <1>5, <2>1 DEF SaveChallenge, Build, Challenge
    <2> QED BY <1>1, <1>5, <2>2
  <1>6. CASE PrepareTreasuryLink(r) /\ Finish(r) /\ UNCHANGED <<tables, lock, outside>>
    <2>1. RestTypes' /\ UNCHANGED <<members, voice, lock, next, codes>>
      BY <1>6 DEF tables, outside, IInv, TypeOK, RestTypes
    <2> QED BY <1>6, <2>1, TableStep
  <1> QED BY <1>4, <1>5, <1>6 DEF PrepareTreasuryLink

(* A signed challenge comes back. *)
LEMMA SubmitStep ==
    ASSUME IInv, NEW r \in Requests, NEW c \in challenges, NEW signed, SubmitChallenge(r, c, signed)
    PROVE  IInv'
  <1>1. RestTypes' /\ UNCHANGED <<members, voice, lock, next, codes>>
    BY DEF SubmitChallenge, tables, outside, IInv, TypeOK, RestTypes
  <1>2. c \in Challenge
    BY DEF IInv, TypeOK
  <1>3. CASE SubmitLink(r, c, signed)
    <2>1. [pc |-> "consume", challenge |-> c, set |-> {}] \in Request
      BY <1>2 DEF Request
    <2> QED BY <1>1, <1>3, <2>1, PlainStep DEF SubmitLink
  <1>4. CASE SubmitTreasuryLink(r, c, signed)
    <2>1. c.address \in Accounts
      BY <1>2, <1>4 DEF SubmitTreasuryLink, Challenge
    <2>2. signers[c.address] \in SUBSET People
      BY <2>1 DEF IInv, TypeOK
    <2>3. [pc |-> "consume", challenge |-> c, set |-> signers[c.address]] \in Request
      BY <1>2, <2>2 DEF Request
    <2> QED BY <1>1, <1>4, <2>3, PlainStep DEF SubmitTreasuryLink
  <1> QED BY <1>3, <1>4 DEF SubmitChallenge

(* It is spent for a member's address. *)
LEMMA ConsumeStep ==
    ASSUME IInv, NEW r \in Requests, ConsumeChallenge(r)
    PROVE  /\ IInv' /\ \A o \in Orgs : Admins(o) \subseteq Admins(o)'
           /\ \A m \in DOMAIN members : /\ m \in DOMAIN members'
                                        /\ members'[m].roles = members[m].roles
                                        /\ members'[m].org = members[m].org
  <1> DEFINE c == req[r].challenge
             m == voice[c.org][c.who]
             x == [members[m] EXCEPT !.address = c.address]
  <1>1. c \in Challenge /\ c.purpose = "member"
    BY RequestShape DEF ConsumeChallenge, At, IInv, TypeOK
  <1>2. c.address \in Wallets /\ c.org \in Orgs /\ c.who \in People
    BY <1>1 DEF Challenge
  <1>3. UNCHANGED <<voice, next, lock, codes>> /\ Finish(r) /\ RestTypes'
    BY DEF ConsumeChallenge, Finish, outside, IInv, TypeOK, RestTypes
  <1>4. members' = members \/ members' = [members EXCEPT ![m].address = c.address]
    BY DEF ConsumeChallenge, MemberByIdentity
  <1>5. CASE members' = members
    <2>1. \A o : Admins(o)' = Admins(o)
      BY <1>5 DEF Admins
    <2>2. IInv'
      BY <1>3, <1>5, TableStep
    <2> QED BY <1>5, <2>1, <2>2
  <1>6. CASE m \in DOMAIN members /\ members' = [members EXCEPT ![m].address = c.address]
    <2>1. members[m] \in Member
      BY <1>6 DEF IInv, TypeOK
    <2>2. /\ x \in Member /\ x.org = members[m].org /\ x.roles = members[m].roles
          /\ x.address = c.address
      BY <1>2, <2>1 DEF Member
    <2>3. members' = [members EXCEPT ![m] = x]
      BY <1>6
    <2> HIDE DEF x
    <2>4. x.address # None
      BY <1>2, <2>2, MembersAssumption
    <2>5. MembersKept /\ OwnVoices' /\ MemberTypes'
      BY <1>3, <1>6, <2>2, <2>3, <2>4, MemberChanged
    <2>6. /\ DOMAIN members' = DOMAIN members /\ members'[m] = x
          /\ \A n \in DOMAIN members : n # m => members'[n] = members[n]
      BY <1>6, <2>3
    <2>7. \A o \in Orgs : Admins(o) \subseteq Admins(o)'
      BY <2>2, <2>6 DEF Admins
    <2>8. \A n \in DOMAIN members : members'[n].roles = members[n].roles
                                    /\ members'[n].org = members[n].org
      BY <2>2, <2>6
    <2>9. \A s \in Requests \ {r}, o \in Orgs : At(s, "commit") /\ req[s].org = o =>
            lock'[o] = s /\ Admins(o) \subseteq Admins(o)'
      BY <1>3, <2>7, Locked
    <2>10. IInv'
      BY <1>3, <2>5, <2>9, EndStep
    <2> QED BY <2>6, <2>7, <2>8, <2>10
  <1>7. CASE m \notin DOMAIN members /\ members' = [members EXCEPT ![m].address = c.address]
    <2>1. \A f, k, v : k \notin DOMAIN f => [f EXCEPT ![k] = v] = [y \in DOMAIN f |-> f[y]]
      OBVIOUS
    <2>2. members' = [y \in DOMAIN members |-> members[y]]
      BY <1>7, <2>1
    <2>3. DOMAIN members' = DOMAIN members /\ \A n \in DOMAIN members : members'[n] = members[n]
      BY <2>2
    <2>4. \A o \in Orgs : Admins(o) \subseteq Admins(o)'
      BY <2>3 DEF Admins
    <2>5. MembersKept /\ OwnVoices' /\ MemberTypes'
      <3>1. Numbered' /\ MemberTypes' /\ next.member \in Nat
        BY <1>3, <2>3, MembersAssumption DEF IInv, TypeOK, Numbered, MemberTypes
      <3>2. OwnVoices'
        BY <1>3, <2>3 DEF IInv, TypeOK, OwnVoices
      <3> QED BY <1>3, <2>3, <3>1, <3>2 DEF MembersKept
    <2>6. \A s \in Requests \ {r}, o \in Orgs : At(s, "commit") /\ req[s].org = o =>
            lock'[o] = s /\ Admins(o) \subseteq Admins(o)'
      BY <1>3, <2>4, Locked
    <2>7. IInv'
      BY <1>3, <2>5, <2>6, EndStep
    <2> QED BY <2>3, <2>4, <2>7
  <1> QED BY <1>4, <1>5, <1>6, <1>7

(* It is spent for an account, and the signers remembered. *)
LEMMA TreasuryStep ==
    ASSUME IInv, NEW r \in Requests, ConsumeTreasuryChallenge(r) \/ SaveSignerSet(r)
    PROVE  IInv'
  <1> DEFINE c == req[r].challenge
             q == [req[r] EXCEPT !.pc = "cache"]
             T == [org: Orgs \cup {None}, signers: SUBSET People]
  <1>1. /\ req[r] \in Request /\ req[r].pc \in {"consume", "cache"} /\ c \in Challenge
        /\ req[r].set \in SUBSET People /\ c.org \in Orgs
    BY RequestShape DEF ConsumeTreasuryChallenge, SaveSignerSet, At, IInv, TypeOK, Challenge
  <1>2. UNCHANGED <<members, voice, next, lock, codes>>
    BY DEF ConsumeTreasuryChallenge, SaveSignerSet
  <1>3. treasury' \in [Accounts -> T]
    <2>1. treasury \in [Accounts -> T]
      BY DEF IInv, TypeOK
    <2>2. \A t \in T : [t EXCEPT !.org = c.org] \in T /\ [t EXCEPT !.signers = req[r].set] \in T
      BY <1>1
    <2>3. \/ treasury' = treasury
          \/ treasury' = [treasury EXCEPT ![c.address] = [treasury[c.address] EXCEPT !.org = c.org]]
          \/ treasury' = [treasury EXCEPT ![c.address] =
                            [treasury[c.address] EXCEPT !.signers = req[r].set]]
      BY DEF ConsumeTreasuryChallenge, SaveSignerSet
    <2>4. c.address \in Accounts => treasury[c.address] \in T
      BY <2>1
    <2> HIDE DEF T
    <2> QED BY <2>1, <2>2, <2>3, <2>4
  <1>4. challenges' \subseteq challenges
    BY DEF ConsumeTreasuryChallenge, SaveSignerSet
  <1>5. RestTypes'
    BY <1>2, <1>3, <1>4 DEF ConsumeTreasuryChallenge, SaveSignerSet, outside, IInv, TypeOK, RestTypes
  <1>6. CASE Goto(r, Idle)
    BY <1>2, <1>5, <1>6, TableStep DEF Finish
  <1>7. CASE Step(r, "cache")
    <2> DEFINE R == [pc: {"consume", "cache"}, challenge: Challenge, set: SUBSET People]
    <2>1. req[r] \in R
      BY <1>1 DEF Request
    <2>2. q \in R /\ q.pc = "cache"
      BY <2>1
    <2>3. q \in Request
      BY <2>2 DEF Request
    <2>4. Goto(r, q)
      BY <1>7 DEF Step
    <2> HIDE DEF q
    <2> QED BY <1>2, <1>5, <2>2, <2>3, <2>4, PlainStep
  <1> QED BY <1>6, <1>7 DEF ConsumeTreasuryChallenge, SaveSignerSet

(* A request dies, and what it locked is unlocked. *)
LEMMA DieStep ==
    ASSUME IInv, NEW r \in Requests, Die(r)
    PROVE  IInv'
  <1>1. /\ UNCHANGED <<members, voice, next, codes>> /\ Finish(r)
        /\ UNCHANGED <<space, suspended, challenges, spaceCodes, treasury, signers, story>>
    BY DEF Die, tables, outside
  <1>2. /\ lock' \in [Orgs -> Requests \cup {None}]
        /\ \A o \in Orgs : lock[o] # r => lock'[o] = lock[o]
    BY DEF Die, IInv, TypeOK
  <1>3. RestTypes'
    BY <1>1, <1>2 DEF IInv, TypeOK, RestTypes
  <1>4. MembersKept /\ OwnVoices' /\ MemberTypes' /\ \A o : Admins(o)' = Admins(o)
    BY <1>1, SameMembers DEF MemberTypes
  <1>5. \A s \in Requests \ {r}, o \in Orgs : At(s, "commit") /\ req[s].org = o =>
          lock'[o] = s /\ Admins(o) \subseteq Admins(o)'
    BY <1>2, <1>4, Locked
  <1> QED BY <1>1, <1>3, <1>4, <1>5, EndStep

(* What happens elsewhere, or nothing. *)
LEMMA ElsewhereStep ==
    ASSUME IInv,
           \/ \E o \in Orgs : SetOrgStatus(o)
           \/ Expire
           \/ \E a \in Accounts, S \in SignerSets : ChangeSigners(a, S)
           \/ UNCHANGED vars
    PROVE  IInv' /\ UNCHANGED <<members, voice, space, treasury>>
  <1>1. UNCHANGED <<members, voice, space, treasury, next, lock, req>> /\ codes' \subseteq codes
    BY DEF SetOrgStatus, Expire, ChangeSigners, tables, outside, vars
  <1>2. RestTypes'
    <2>1. suspended' \subseteq Orgs
      BY DEF SetOrgStatus, Expire, ChangeSigners, tables, vars, IInv, TypeOK
    <2>2. challenges' \subseteq Challenge /\ spaceCodes' \subseteq SpaceCode /\ story' \in Stories
      BY DEF SetOrgStatus, Expire, ChangeSigners, tables, outside, vars, IInv, TypeOK
    <2>3. signers' \in [Accounts -> SUBSET People]
      BY MembersAssumption DEF SetOrgStatus, Expire, ChangeSigners, outside, vars, IInv, TypeOK
    <2> QED BY <1>1, <2>1, <2>2, <2>3 DEF IInv, TypeOK, RestTypes
  <1>3. /\ Numbered' /\ OwnVoices' /\ MemberTypes'
    BY <1>1, SameMembers DEF MemberTypes
  <1>4. req' \in [Requests -> Request] /\ CodesStand' /\ Picking' /\ Committing'
    BY <1>1, RequestsUntouched
  <1>5. TypeOK'
    BY <1>2, <1>3, <1>4 DEF TypeOK, RestTypes, MemberTypes
  <1> QED BY <1>1, <1>3, <1>4, <1>5 DEF IInv

(* The invariant holds at first. *)
LEMMA InvInit ==
    ASSUME Init
    PROVE  IInv
  <1>1. \A r \in Requests : req[r] \in Request /\ req[r].pc = "idle"
    BY DEF Init, Idle, Request
  <1>2. DOMAIN members = {} /\ codes = {}
    BY DEF Init
  <1>3. RestTypes
    BY MembersAssumption DEF Init, RestTypes
  <1>4. MemberTypes
    BY <1>2 DEF Init, MemberTypes
  <1>5. req \in [Requests -> Request]
    BY <1>1 DEF Init
  <1>6. Numbered /\ OwnVoices
    BY <1>2 DEF Init, Numbered, OwnVoices
  <1>7. CodesStand /\ Picking /\ Committing
    BY <1>1, <1>2 DEF CodesStand, Picking, Committing, Running, At
  <1> QED BY <1>3, <1>4, <1>5, <1>6, <1>7, Types DEF IInv

(* Every step keeps it. *)
LEMMA InvStep ==
    ASSUME IInv, [Next]_vars
    PROVE  IInv'
  BY MessageStep, InsertStep, SetupStep, FirstAdminStep, PickStep, InsertPickedStep, CountStep,
     CommitStep, SpaceCodeStep, LinkCodeStep, ClaimStep, ChallengeStep, SubmitStep, ConsumeStep,
     TreasuryStep, DieStep, ElsewhereStep DEF Next

(* Chat accounts speak for members that exist and codes stand for members  *)
(* with a wallet, and whoever writes a role holds the lock under which the *)
(* admins were counted (store EnsureMember, ClaimLinkCode and SetRole).    *)
THEOREM MembersSound == Spec => []IInv
  <1>1. Init => IInv
    BY InvInit
  <1>2. IInv /\ [Next]_vars => IInv'
    BY InvStep
  <1> QED BY <1>1, <1>2, PTL DEF Spec

(* The tables of ledger/store keep the shapes they are declared with. *)
THEOREM TypeCorrect == Spec => []TypeOK
  <1>1. IInv => TypeOK
    BY DEF IInv
  <1> QED BY <1>1, MembersSound, PTL

--------------------------------------------------------------------------------
(* What a step may never do. *)

(* Few steps write to the tables of members and of who speaks for them. *)
LEMMA Writers ==
    ASSUME IInv, [Next]_vars
    PROVE  \/ UNCHANGED <<members, voice>>
           \/ \E r \in Requests :
                \/ insertMember(r) \/ insertPicked(r) \/ GrantRole(r) \/ CommitRole(r)
                \/ ClaimLinkCode(r) \/ ConsumeChallenge(r)
  <1>1. ASSUME NEW r \in Requests,
               \/ \E who \in People, s \in Spaces, cmd \in Command :
                    handleUnregistered(r, who, s, cmd) \/ Handle(r, who, s, cmd)
               \/ setupHere(r) \/ grantPicked(r) \/ SetRole(r)
               \/ IssueSpaceCode(r) \/ ClaimSpaceCode(r) \/ IssueLinkCode(r)
               \/ PrepareLink(r) \/ PrepareTreasuryLink(r)
               \/ \E c \in challenges, signed \in SUBSET People : SubmitChallenge(r, c, signed)
               \/ ConsumeTreasuryChallenge(r) \/ SaveSignerSet(r) \/ Die(r)
        PROVE  UNCHANGED <<members, voice>>
    BY <1>1 DEF handleUnregistered, Handle, setupHere, grantPicked, SetRole, IssueSpaceCode,
                ClaimSpaceCode, IssueLinkCode, PrepareLink, PrepareTreasuryLink, SaveChallenge,
                SubmitChallenge, ConsumeTreasuryChallenge, SaveSignerSet, Die, tables
  <1>2. CASE \/ \E o \in Orgs : SetOrgStatus(o)
             \/ Expire
             \/ \E a \in Accounts, S \in SignerSets : ChangeSigners(a, S)
             \/ UNCHANGED vars
    BY <1>2, ElsewhereStep
  <1> QED BY <1>1, <1>2 DEF Next

(* Inserting a member takes nobody's role, address or voice. *)
LEMMA Inserting ==
    ASSUME IInv, NEW r \in Requests, insertMember(r) \/ insertPicked(r)
    PROVE  /\ \A o \in Orgs : Admins(o) \subseteq Admins(o)'
           /\ \A m \in DOMAIN members : m \in DOMAIN members' /\ members'[m] = members[m]
           /\ \A o \in Orgs, p \in People : voice[o][p] # 0 => voice'[o][p] = voice[o][p]
  <1>1. CASE insertMember(r)
    <2>1. req[r].org \in Orgs /\ req[r].who \in People /\ EnsureMember(req[r].org, req[r].who)
      BY <1>1, RequestShape DEF insertMember, At, IInv, TypeOK
    <2> QED BY <2>1, MemberInserted
  <1>2. CASE insertPicked(r)
    <2>1. req[r].org \in Orgs /\ req[r].cmd.picked \in People
      BY <1>2, RequestShape, CommandShape DEF insertPicked, At, IInv, Picking, TypeOK
    <2>2. EnsureMember(req[r].org, req[r].cmd.picked)
      BY <1>2 DEF insertPicked
    <2> QED BY <2>1, <2>2, MemberInserted
  <1> QED BY <1>1, <1>2

(* store SetRole, ErrLastAdmin: no step takes the last admin of a workspace, *)
(* however requests that demote each other's senders interleave, and however *)
(* many die on the way.                                                      *)
THEOREM LastAdminStays == Spec => AdminsRemain
  <1>1. ASSUME IInv, [Next]_vars
        PROVE  \A o \in Orgs : Admins(o) # {} => Admins(o)' # {}
    <2>1. CASE members' = members
      BY <2>1 DEF Admins
    <2>2. ASSUME NEW r \in Requests,
                 \/ insertMember(r) \/ insertPicked(r) \/ GrantRole(r) \/ ClaimLinkCode(r)
                 \/ ConsumeChallenge(r)
          PROVE  \A o \in Orgs : Admins(o) # {} => Admins(o)' # {}
      <3>1. \A o \in Orgs : Admins(o) \subseteq Admins(o)'
        BY <1>1, <2>2, Inserting, FirstAdminStep, ClaimStep, ConsumeStep
      <3> QED BY <3>1
    <2> QED BY <1>1, <2>1, <2>2, Writers, CommitStep
  <1>2. IInv /\ [Next]_vars => [\A o \in Orgs : Admins(o) # {} => Admins(o)' # {}]_vars
    BY <1>1
  <1> QED BY <1>2, MembersSound, PTL DEF Spec, AdminsRemain

(* store ConsumeChallenge: an address becomes a member's only as a live      *)
(* challenge for it is spent, one asked for by a voice of that member, and a *)
(* challenge spent or replaced since the page read it proves nothing.        *)
THEOREM AddressNeedsProof == Spec => ProofsAreSpent
  <1> DEFINE A == \A m \in DOMAIN members \cap DOMAIN members' :
                    members'[m].address # members[m].address
                      => \E c \in challenges \ challenges' :
                           /\ c.purpose = "member" /\ c.address = members'[m].address
                           /\ voice[c.org][c.who] = m
  <1>1. ASSUME IInv, [Next]_vars
        PROVE  A
    <2>1. ASSUME NEW r \in Requests, GrantRole(r)
          PROVE  \A m \in DOMAIN members : members'[m].address = members[m].address
      <3>1. \A m \in DOMAIN members : [members[m] EXCEPT !.roles = @ \cup {Admin}].address
                                         = members[m].address
        BY <1>1 DEF IInv, TypeOK, Member
      <3> QED BY <2>1, <3>1 DEF GrantRole
    <2>2. ASSUME NEW r \in Requests, ConsumeChallenge(r)
          PROVE  A
      <3> DEFINE c == req[r].challenge
                 n == voice[c.org][c.who]
      <3>1. CASE members' = members
        BY <3>1
      <3>2. CASE /\ c \in challenges /\ challenges' = challenges \ {c} /\ c.purpose = "member"
                 /\ members' = [members EXCEPT ![n].address = c.address]
        <4>1. c \in challenges \ challenges'
          BY <3>2
        <4>2. \A m \in DOMAIN members : m # n => members'[m] = members[m]
          BY <3>2
        <4>3. n \in DOMAIN members => members'[n].address = c.address
          <5>1. n \in DOMAIN members => [members[n] EXCEPT !.address = c.address].address = c.address
            BY <1>1 DEF IInv, TypeOK, Member
          <5> QED BY <3>2, <5>1
        <4> QED BY <3>2, <4>1, <4>2, <4>3
      <3> QED BY <2>2, <3>1, <3>2 DEF ConsumeChallenge, MemberByIdentity, Live
    <2>3. ASSUME NEW r \in Requests, insertMember(r) \/ insertPicked(r) \/ CommitRole(r)
                                     \/ ClaimLinkCode(r)
          PROVE  \A m \in DOMAIN members \cap DOMAIN members' :
                   members'[m].address = members[m].address
      BY <1>1, <2>3, Inserting, CommitStep, ClaimStep
    <2> QED BY <1>1, <2>1, <2>2, <2>3, Writers
  <1>2. IInv /\ [Next]_vars => [A]_vars
    BY <1>1
  <1> QED BY <1>2, MembersSound, PTL DEF Spec, ProofsAreSpent

(* store ClaimLinkCode: a chat account that speaks for a member with a wallet  *)
(* is never moved to another, although what the command saw may be old by then. *)
THEOREM VoicesStay == Spec => VoicesKept
  <1> DEFINE A == \A o \in Orgs, p \in People :
                    (voice[o][p] # 0 /\ members[voice[o][p]].address # None)
                      => voice'[o][p] = voice[o][p]
  <1>1. ASSUME IInv, [Next]_vars
        PROVE  A
    <2>1. ASSUME NEW r \in Requests, ClaimLinkCode(r)
          PROVE  A
      <3> DEFINE o == req[r].org
                 who == req[r].who
      <3>1. o \in Orgs /\ who \in People /\ voice \in [Orgs -> [People -> {0} \cup DOMAIN members]]
        BY <1>1, <2>1, RequestShape DEF ClaimLinkCode, Running, At, IInv, TypeOK
      <3>2. \/ voice' = voice
            \/ /\ members[voice[o][who]].address = None
               /\ \E t : voice' = [voice EXCEPT ![o][who] = t]
        BY <2>1 DEF ClaimLinkCode, Moves
      <3>3. SUFFICES ASSUME NEW n \in Orgs, NEW p \in People,
                            voice[n][p] # 0, members[voice[n][p]].address # None
                     PROVE  voice'[n][p] = voice[n][p]
        OBVIOUS
      <3>4. CASE voice' = voice
        BY <3>4
      <3>5. ASSUME members[voice[o][who]].address = None,
                   NEW t, voice' = [voice EXCEPT ![o][who] = t]
            PROVE  voice'[n][p] = voice[n][p]
        <4> HIDE DEF o, who
        <4>1. ~(n = o /\ p = who)
          BY <3>3, <3>5
        <4> QED BY <3>1, <3>5, <4>1
      <3> QED BY <3>2, <3>4, <3>5
    <2>2. ASSUME NEW r \in Requests, GrantRole(r) \/ CommitRole(r) \/ ConsumeChallenge(r)
          PROVE  voice' = voice
      BY <2>2 DEF GrantRole, CommitRole, ConsumeChallenge
    <2>3. ASSUME NEW r \in Requests, insertMember(r) \/ insertPicked(r)
          PROVE  A
      BY <1>1, <2>3, Inserting
    <2> QED BY <1>1, <2>1, <2>2, <2>3, Writers
  <1>2. IInv /\ [Next]_vars => [A]_vars
    BY <1>1
  <1> QED BY <1>2, MembersSound, PTL DEF Spec, VoicesKept

(* store ClaimSpaceCode, CreateOrg, linkTreasuryTx: a space or an account  *)
(* that came to a workspace never goes to another.                         *)
THEOREM SpacesAndAccountsStay == Spec => NothingMoves
  <1> DEFINE A == /\ \A s \in Spaces : space[s] # None => space'[s] = space[s]
                  /\ \A a \in Accounts : treasury[a].org # None => treasury'[a].org = treasury[a].org
  <1>1. ASSUME IInv, [Next]_vars
        PROVE  A
    <2>1. space \in [Spaces -> Orgs \cup {None}]
          /\ treasury \in [Accounts -> [org: Orgs \cup {None}, signers: SUBSET People]]
      BY <1>1 DEF IInv, TypeOK
    <2>2. CASE UNCHANGED <<space, treasury>>
      BY <2>2
    <2>3. ASSUME NEW r \in Requests, setupHere(r)
          PROVE  A
      BY <2>1, <2>3 DEF setupHere, CreateOrg
    <2>4. ASSUME NEW r \in Requests, ClaimSpaceCode(r)
          PROVE  A
      BY <2>1, <2>4 DEF ClaimSpaceCode
    <2>5. ASSUME NEW r \in Requests, ConsumeTreasuryChallenge(r)
          PROVE  A
      <3> DEFINE c == req[r].challenge
      <3>1. space' = space
        BY <2>5 DEF ConsumeTreasuryChallenge
      <3>2. \/ treasury' = treasury
            \/ treasury[c.address].org \in {None, c.org}
               /\ treasury' = [treasury EXCEPT ![c.address] =
                                 [treasury[c.address] EXCEPT !.org = c.org]]
        BY <2>5 DEF ConsumeTreasuryChallenge, MayLink
      <3>3. c.address \in Accounts =>
              [treasury[c.address] EXCEPT !.org = c.org].org = c.org
        BY <2>1
      <3> QED BY <2>1, <3>1, <3>2, <3>3
    <2>6. ASSUME NEW r \in Requests, SaveSignerSet(r)
          PROVE  A
      <3> DEFINE a == req[r].challenge.address
      <3>1. /\ space' = space
            /\ treasury' = [treasury EXCEPT ![a] = [treasury[a] EXCEPT !.signers = req[r].set]]
        BY <2>6 DEF SaveSignerSet
      <3>2. a \in Accounts =>
              [treasury[a] EXCEPT !.signers = req[r].set].org = treasury[a].org
        BY <2>1
      <3> QED BY <2>1, <3>1, <3>2
    <2>7. ASSUME NEW r \in Requests,
                 \/ \E who \in People, s \in Spaces, cmd \in Command :
                      handleUnregistered(r, who, s, cmd) \/ Handle(r, who, s, cmd)
                 \/ insertMember(r) \/ GrantRole(r) \/ grantPicked(r) \/ insertPicked(r)
                 \/ SetRole(r) \/ CommitRole(r) \/ IssueSpaceCode(r) \/ IssueLinkCode(r)
                 \/ ClaimLinkCode(r) \/ PrepareLink(r) \/ PrepareTreasuryLink(r)
                 \/ \E c \in challenges, signed \in SUBSET People : SubmitChallenge(r, c, signed)
                 \/ ConsumeChallenge(r) \/ Die(r)
          PROVE  UNCHANGED <<space, treasury>>
      BY <2>7 DEF handleUnregistered, Handle, insertMember, GrantRole, grantPicked, insertPicked,
                  SetRole, CommitRole, IssueSpaceCode, IssueLinkCode, ClaimLinkCode, PrepareLink,
                  PrepareTreasuryLink, SaveChallenge, SubmitChallenge, ConsumeChallenge, Die, tables
    <2>8. CASE \/ \E o \in Orgs : SetOrgStatus(o)
               \/ Expire
               \/ \E a \in Accounts, S \in SignerSets : ChangeSigners(a, S)
               \/ UNCHANGED vars
      BY <1>1, <2>2, <2>8, ElsewhereStep
    <2> QED BY <1>1, <2>2, <2>3, <2>4, <2>5, <2>6, <2>7, <2>8 DEF Next
  <1>2. IInv /\ [Next]_vars => [A]_vars
    BY <1>1
  <1> QED BY <1>2, MembersSound, PTL DEF Spec, NothingMoves
================================================================================
