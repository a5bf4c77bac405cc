----------------------------- MODULE MCToolRun -----------------------------
EXTENDS ToolRun, TLC

Doc(form, signer, signed, claims, class, limit, mod) ==
    [form |-> form, signer |-> signer, signed |-> signed, claims |-> claims,
     class |-> class, limit |-> limit, module |-> mod]

(* A sound manifest, a sound one with a wider limit and another module,    *)
(* one the release-signing domain signed, one whose signature is broken,   *)
(* one that dates itself, one of an unknown effect class, and one whose    *)
(* module imports a clock.                                                 *)
MCManifestInfo ==
    ("good"    :> Doc(TRUE, TRUE, TRUE, 0, "pure", 1, "w1")) @@
    ("wide"    :> Doc(TRUE, TRUE, TRUE, 0, "pure", 2, "w2")) @@
    ("foreign" :> Doc(TRUE, FALSE, TRUE, 0, "pure", 1, "w1")) @@
    ("broken"  :> Doc(TRUE, TRUE, FALSE, 0, "pure", 1, "w1")) @@
    ("dated"   :> Doc(TRUE, TRUE, TRUE, 1, "pure", 1, "w1")) @@
    ("reach"   :> Doc(TRUE, TRUE, TRUE, 0, "unknown", 1, "w1")) @@
    ("clock"   :> Doc(TRUE, TRUE, TRUE, 0, "pure", 1, "w3"))
MCManifests == DOMAIN MCManifestInfo
===========================================================================
