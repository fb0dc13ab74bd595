----------------------------- MODULE MCRateWindow -----------------------------
(* RateWindow with four asks of one client and three logins of two users behind two      *)
(* addresses: one login shares its user with another and its address with the third.    *)
EXTENDS RateWindow, TLC

CONSTANTS a1, a2, a3, a4, l1, l2, l3

MCAsks == {a1, a2, a3, a4}
MCLogins == {l1, l2, l3}
MCKeys == {"client", "ip1", "ip2", "user1", "user2"}
MCKeysOf == [c \in MCAsks |-> <<"client">>]
            @@ (l1 :> <<"user1", "ip1">> @@ l2 :> <<"user1", "ip2">> @@ l3 :> <<"user2", "ip1">>)
MCLimit == [k \in MCKeys |-> IF k = "client" THEN 2 ELSE 1]
MCWindow == [k \in MCKeys |-> IF k \in {"user1", "user2"} THEN 3 ELSE 2]
MCSymmetry == Permutations(MCAsks)
=============================================================================
