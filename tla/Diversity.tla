----------------------------- MODULE Diversity -----------------------------
(***************************************************************************)
(* Verifier panels: core/diversity.py.  Provenance is a record of declared *)
(* origins, "unknown" where a manifest is silent; scores are percentages.  *)
(***************************************************************************)
EXTENDS Integers, Sequences, FiniteSets

CONSTANTS
    Prov,             \* object -> provenance manifest
    PanelK,           \* Router.panel_k
    MinIndependence,  \* Router.min_independence, in percent
    MaxPerGroup       \* Router.max_per_group

(* select_verifiers refuses a k below one; training data are listed.       *)
ASSUME DiversityAssumption ==
    /\ PanelK \in Nat \ {0} /\ MinIndependence \in Int /\ MaxPerGroup \in Int
    /\ \A o \in DOMAIN Prov : IsFiniteSet(Prov[o].training)

GroupDims == {"base", "arch", "operator", "jurisdiction"}
WeightOf == [base |-> 35, arch |-> 20, training |-> 20, operator |-> 15, jurisdiction |-> 10]

(* Full weight for a dimension either side is silent on.                   *)
Overlap(a, b, d) ==
    IF d = "training"
    THEN IF a[d] = {} \/ b[d] = {} THEN WeightOf[d]
         ELSE (WeightOf[d] * Cardinality(a[d] \intersect b[d])) \div Cardinality(a[d] \union b[d])
    ELSE IF "unknown" \in {a[d], b[d]} \/ a[d] = b[d] THEN WeightOf[d] ELSE 0

IndependenceOf ==
    [x \in (DOMAIN Prov) \X (DOMAIN Prov) |->
        LET shared(d) == Overlap(Prov[x[1]], Prov[x[2]], d)
        IN  100 - (shared("base") + shared("arch") + shared("training")
                   + shared("operator") + shared("jurisdiction"))]
Independence(o, p) == IndependenceOf[<<o, p>>]

Clashes(o, panel) == \E s \in panel : Independence(o, s) < MinIndependence

OverCap(o, panel) ==
    \E d \in GroupDims :
        /\ Prov[o][d] # "unknown"
        /\ Cardinality({s \in panel : Prov[s][d] = Prov[o][d]}) + 1 > MaxPerGroup

CanJoin(o, panel, generator) ==
    /\ o # generator /\ Independence(o, generator) # 0
    /\ ~Clashes(o, panel) /\ ~OverCap(o, panel)

(* select_verifiers: greedily, in the order given, until the panel is full.*)
SelectVerifiers(order, candidates, generator) ==
    LET panel[n \in 0..Len(order)] ==
            IF n = 0 THEN {}
            ELSE IF /\ order[n] \in candidates /\ Cardinality(panel[n - 1]) < PanelK
                    /\ CanJoin(order[n], panel[n - 1], generator)
                 THEN panel[n - 1] \union {order[n]} ELSE panel[n - 1]
    IN  panel[Len(order)]
=============================================================================
