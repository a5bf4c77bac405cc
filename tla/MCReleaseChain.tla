-------------------------- MODULE MCReleaseChain --------------------------
EXTENDS ReleaseChain, TLC

(* kb builds on d1, kv verifies on d2; kw is another device declared on    *)
(* kb's physical host.                                                     *)
MCKeyInfo ==
    ("kb" :> [public |-> 1, device |-> "d1", host |-> "h1",
              principal |-> "p1", roles |-> {"builder"}]) @@
    ("kv" :> [public |-> 2, device |-> "d2", host |-> "h2",
              principal |-> "p1", roles |-> {"verifier"}]) @@
    ("kw" :> [public |-> 3, device |-> "d3", host |-> "h1",
              principal |-> "p1", roles |-> {"builder", "verifier"}])
MCFirstKeys == <<"kb", "kv">>
MCVersionOf == <<1, 1>>

(* Bounds: once a release is out the frozen build is looked at with nobody *)
(* at work; the suite and the build, which share only the tree they read,  *)
(* take turns.                                                             *)
Settled == /\ ~Building => job = Idle /\ suite = 0 /\ ~dirty
           /\ job = Idle \/ suite = 0
===========================================================================
