----------------------------- MODULE MCSegments -----------------------------
(* Model-checking instance of Segments: one origin, one issuer, one peer.  *)
EXTENDS Segments

=============================================================================
