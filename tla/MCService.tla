----------------------------- MODULE MCService ------------------------------
(* Two servers and the requests they may meet, a few at a time. *)
EXTENDS Service, TLC

CONSTANTS s1, s2, u1, u2, v1, z1, n1, c1, g1, g2, g3

MCServerOf == (u1 :> s1) @@ (u2 :> s2) @@ (v1 :> s2) @@ (z1 :> s1) @@ (n1 :> s2)
              @@ (g1 :> s1) @@ (g2 :> s1) @@ (g3 :> s2)
MCKindOf == [w \in Workers |-> IF w = z1 THEN "reset" ELSE "update"]

\* v1 is sent to /campaigns/Demo, which _normalize_campaign_id makes demo.
MCKeyOf == (u1 :> "demo") @@ (u2 :> "demo") @@ (z1 :> "demo") @@ (v1 :> "Demo")
           @@ (n1 :> "new")
MCCampaignOf == [r \in Requests |-> IF r = n1 THEN "new" ELSE "demo"]

\* g1 and g2 ask for one id, g3 for another.
MCRecordOf == (g1 :> [id |-> "new", root |-> "a"]) @@ (g2 :> [id |-> "new", root |-> "b"])
              @@ (g3 :> [id |-> "other", root |-> "c"])
MCRegistered == {[id |-> "demo", root |-> "d"]}

MCSetups == {[arrivals |-> {u1, u2}, lease |-> TRUE],
             [arrivals |-> {u1, z1}, lease |-> TRUE],
             [arrivals |-> {u2, v1}, lease |-> TRUE],
             [arrivals |-> {u1, c1}, lease |-> TRUE],
             [arrivals |-> {u1, z1}, lease |-> FALSE],
             [arrivals |-> {g1, n1}, lease |-> TRUE],
             [arrivals |-> {g1, g2, g3}, lease |-> TRUE]}
=============================================================================
