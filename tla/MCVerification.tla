--------------------------- MODULE MCVerification ---------------------------
(***************************************************************************)
(* Five objects of three origins, three verifiers, three addresses of two  *)
(* nodes, and the requests that make the cases of the verification plane   *)
(* meet: routes beside routes and cross-verification, rounds with a late,  *)
(* a repeated, a forged and a dishonest call, a round opened again after a *)
(* restart forgot it.                                                      *)
(***************************************************************************)
EXTENDS Verification

MCObjects == <<"a", "b", "c", "d", "e">>
Node(topics, origin, capacity, reproducible) ==
    [topics |-> topics, origin |-> origin, capacity |-> capacity, reproducible |-> reproducible]
MCAbout == [a |-> Node({"m"}, "x", 1, TRUE), b |-> Node({"m"}, "z", 1, TRUE),
            c |-> Node({"m", "n"}, "y", 1, TRUE), d |-> Node({"m", "n"}, "y", 1, TRUE),
            e |-> Node({"n"}, "z", 0, FALSE)]
From(base, arch, training, operator, jurisdiction) ==
    [base |-> base, arch |-> arch, training |-> training, operator |-> operator,
     jurisdiction |-> jurisdiction]
(* a and b share a base, c and d an operator; d is silent on its training. *)
MCProv == [a |-> From("b1", "r1", {1}, "p1", "j1"), b |-> From("b1", "r2", {2}, "p2", "j2"),
           c |-> From("b2", "r3", {1, 3}, "p3", "j3"), d |-> From("b3", "r4", {}, "p3", "j4"),
           e |-> From("unknown", "unknown", {}, "unknown", "unknown")]
MCDenyRules == {<<"s", "y">>, <<"w", "x">>}
MCNodeOf == [u1 |-> "k1", u2 |-> "k2", u3 |-> "k2"]

RouteCall(topics, attrs, prefer, verify) ==
    [op |-> "route", topics |-> topics, attrs |-> attrs, prefer |-> prefer, verify |-> verify]
CrossCall(urls, nonce) == [op |-> "cross", generator |-> "u0", urls |-> urls, nonce |-> nonce]
OpenCall == [op |-> "open"]
SeatCall(v, proof) == [op |-> "seat", v |-> v, proof |-> proof]
CommitCall(v, verdict) == [op |-> "commit", v |-> v, verdict |-> verdict]
RevealCall(v, verdict) == [op |-> "reveal", v |-> v, verdict |-> verdict]
ResolveCall == [op |-> "resolve"]

Work(m, s1, s2, s3) == [mode |-> m, script |-> [t1 |-> s1, t2 |-> s2, t3 |-> s3]]

MCWorks == {
    Work("strict", <<RouteCall(<<"m">>, {}, "-", TRUE), RouteCall(<<"m">>, {"s"}, "-", TRUE)>>,
               <<RouteCall(<<"m">>, {}, "d", TRUE)>>, <<>>),
    Work("degraded", <<RouteCall(<<"m">>, {"s"}, "-", TRUE), RouteCall(<<"m">>, {"s", "w"}, "-", TRUE)>>,
                     <<>>, <<>>),
    Work("strict", <<RouteCall(<<"m">>, {}, "-", TRUE), RouteCall(<<"m">>, {}, "-", TRUE)>>, <<>>, <<>>),
    Work("self", <<RouteCall(<<"m", "n">>, {}, "-", TRUE)>>,
                <<RouteCall(<<>>, {}, "-", FALSE), RouteCall(<<"n">>, {"s"}, "e", TRUE)>>, <<>>),
    Work("strict", <<CrossCall(<<"u0", "u1", "u2", "u3">>, 1), CrossCall(<<"u0">>, 2)>>,
               <<CrossCall(<<"u1", "u2">>, 1)>>, <<>>),
    Work("strict", <<OpenCall, SeatCall("v2", "wins"), ResolveCall>>,
               <<SeatCall("v1", "wins"), CommitCall("v1", "yes"), RevealCall("v1", "yes")>>,
               <<CommitCall("v2", "no"), RevealCall("v2", "yes")>>),
    Work("strict", <<OpenCall, SeatCall("v1", "wins"), ResolveCall, OpenCall>>,
               <<CommitCall("v1", "yes"), RevealCall("v1", "no")>>,
               <<CommitCall("v1", "yes"), RevealCall("v1", "yes")>>),
    Work("strict", <<OpenCall, SeatCall("v3", "forged"), SeatCall("v2", "loses"), SeatCall("v1", "wins"),
                 SeatCall("v2", "wins")>>,
               <<CommitCall("v1", "yes"), RevealCall("v1", "yes")>>,
               <<CommitCall("v2", "no"), RevealCall("v2", "no"), ResolveCall>>),
    Work("strict", <<OpenCall, SeatCall("v1", "wins"), OpenCall, SeatCall("v1", "wins"), ResolveCall>>,
               <<CommitCall("v1", "yes"), RevealCall("v1", "yes"),
                 CommitCall("v1", "yes"), RevealCall("v1", "yes")>>, <<>>) }
=============================================================================
