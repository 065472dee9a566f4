------------------------------- MODULE MCMembers -------------------------------
(* Small instances of module Members. *)
EXTENDS Members, TLC

CONSTANTS p1, p2, s1, s2, w1, w2

\* One group is run by one of the two and one by both; each holds the key of a wallet.
MCAdministers == (s1 :> {p1}) @@ (s2 :> {p1, p2})
\* Two admins change each other's roles; one links a wallet and takes a code the other
\* gave out; two workspaces compete for an account, or for a space while one of them is
\* suspended.
Demoting ==
    [says |-> {<<p1, s1, c>> : c \in {"setup", "grant", "revoke"}} \cup {<<p2, s1, "revoke">>},
     elsewhere |-> {}]
Linking ==
    [says |-> {<<p1, s1, c>> : c \in {"setup", "grant", "link", "claim"}}
              \cup {<<p2, s1, "link">>, <<p2, s1, "link-code">>},
     elsewhere |-> {}]
Between ==
    [says |-> {<<p1, s1, c>> : c \in {"setup", "link-treasury"}}
              \cup {<<p2, s2, "setup">>, <<p2, s2, "link-treasury">>},
     elsewhere |-> {"signers"}]
Joining ==
    [says |-> {<<p1, s1, c>> : c \in {"setup", "connect"}}
              \cup {<<p1, s2, "connect">>, <<p2, s2, "setup">>},
     elsewhere |-> {"suspend"}]
MCStories == {Demoting, Linking, Between, Joining}
MCSignerSets == {{}, {p1}, {p2}}
MCSymmetry == Permutations(Requests) \cup Permutations(Orgs)
MCHolder == (w1 :> {p1}) @@ (w2 :> {p2})
================================================================================
