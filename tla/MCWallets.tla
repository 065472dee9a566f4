------------------------------- MODULE MCWallets -------------------------------
(* A member with two devices, and one with a device or a linked wallet. *)
EXTENDS Wallets, TLC

CONSTANTS m1, m2, a1, b1, a2, r1, r2

MCMembers == {m1, m2}
MCAddresses == {a1, b1, a2}
MCDeviceOf == (a1 :> m1) @@ (b1 :> m1) @@ (a2 :> m2)
MCLinked == {{}, {a2}}
MCRequests == {r1, r2}
================================================================================
