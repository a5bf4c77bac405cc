----------------------------- MODULE MCIngress -----------------------------
(***************************************************************************)
(* The node under small loads, each aimed at one part: connections         *)
(* that stall, flood or hold the accept loop; a burst of generations by    *)
(* one certificate around a containment; two admissions of one node and    *)
(* its own signed request, replayed; an admission repeated after a         *)
(* restart; scoring beside a witness that goes away.                       *)
(***************************************************************************)
EXTENDS Ingress

Ask(kind, cert, role) ==
    [kind |-> kind, cert |-> cert, role |-> role, framed |-> TRUE, valid |-> TRUE]
Infer == Ask("infer", "a", "peer")
Good == [node |-> "n", selfSigned |-> TRUE, countersigned |-> TRUE]
HelloAsk == [kind |-> "hello", cert |-> "a", role |-> "peer", framed |-> TRUE, valid |-> TRUE,
             bundle |-> Good]
Salt(nonce, ts) ==
    [kind |-> "salt", cert |-> "a", role |-> "peer", framed |-> TRUE, valid |-> TRUE,
     env |-> [sender |-> "n", nonce |-> nonce, ts |-> ts, bound |-> TRUE]]

MCLoads == {
    <<Ask("stall", "b", "peer"), Ask("read", "b", "peer"), Ask("stall", "b", "peer"),
      Ask("read", "r", "peer")>>,
    <<Infer, Infer, Infer, Infer>>,
    <<Infer, Ask("contain", "x", "admin"), Infer, Infer>>,
    <<Ask("contain", "x", "peer"), Ask("contain", "x", "admin"),
      Ask("release", "x", "admin"), Infer>>,
    <<HelloAsk, HelloAsk, Salt("k", 1), Salt("k", 1)>>,
    <<HelloAsk, Ask("mute", "b", "peer"), HelloAsk, Ask("mute", "b", "peer")>>,
    <<HelloAsk, Salt("k", 2), Salt("l", 0), [HelloAsk EXCEPT !.bundle.countersigned = FALSE]>>,
    <<Ask("score", "b", "peer"), Ask("unwitness", "x", "admin"),
      [Infer EXCEPT !.valid = FALSE], [Infer EXCEPT !.framed = FALSE]>>
  }

MCRules == {
    [covers |-> {"infer", "score", "hello", "salt", "read", "stall", "mute"},
     length |-> 1, allow |-> {"peer", "admin"}],
    [covers |-> {"contain", "release", "unwitness"}, length |-> 6, allow |-> {"admin"}]
  }
=============================================================================
