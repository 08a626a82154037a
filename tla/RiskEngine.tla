----------------------------- MODULE RiskEngine -----------------------------
(***************************************************************************)
(* risk-engine: evidence of one asset comes in, scan by scan, and every    *)
(* POST /score scores what there is.                                       *)
(***************************************************************************)
EXTENDS RiskScore

CONSTANTS FactorValues,  \* the factor profiles of assets: [Factors -> 0 .. MaxFactor]
          ValuesOf,      \* ValuesOf[f]: what a scanner may report in field f
          MaxFields      \* bound: fields that are filled in

FactorsAssumption ==
    /\ FactorValues \subseteq [Factors -> 0 .. MaxFactor]
    /\ DOMAIN ValuesOf \subseteq Fields
    /\ \A f \in DOMAIN ValuesOf \intersect Numbers : ValuesOf[f] \subseteq Nat

VARIABLES factors, scenario, doc

vars == <<factors, scenario, doc>>

Init == /\ factors \in FactorValues
        /\ scenario \in DOMAIN ScenarioMultiplier
        /\ doc = Missing

Filled == {f \in Fields : doc[f] # Missing[f]}

Collect(f, v) == /\ Cardinality(Filled) < MaxFields
                 /\ doc[f] = Missing[f]
                 /\ doc' = [doc EXCEPT ![f] = v]
                 /\ UNCHANGED <<factors, scenario>>

(* GET /scenarios: the same asset under another one.                        *)
Rescore(sc) == scenario' = sc /\ UNCHANGED <<factors, doc>>

Next == \/ \E f \in DOMAIN ValuesOf : \E v \in ValuesOf[f] : Collect(f, v)
        \/ \E sc \in DOMAIN ScenarioMultiplier : Rescore(sc)

Spec == Init /\ [][Next]_vars

-----------------------------------------------------------------------------
Now == Normalized(factors, scenario, doc)

(* README "Final normalized score is capped at 100", dimensions and         *)
(* confidence are 0..100, and the plan hint's "-0.10, floor at 0.0".        *)
ScoresAreBounded ==
    /\ Now \in 0 .. MaxNormalized
    /\ Adjustment(doc) >= 0
    /\ Confidence(factors, doc) \in 50 .. 100
    /\ LET scores == Dimensions(factors, doc)
       IN \A x \in DOMAIN scores : scores[x] \in 0 .. MaxDimension

(* README "Missing optional evidence blocks are non-fatal and do not reduce *)
(* score": filling in a field lowers neither the score nor the confidence   *)
(* nor any dimension.  Only the notes may (a migration plan), by 0.10.      *)
NeverLowers ==
    doc' # doc /\ scenario' = scenario =>
        /\ Normalized(factors, scenario, doc') >= Now - (IF doc'.notes # doc.notes THEN 200000 ELSE 0)
        /\ Confidence(factors, doc') >= Confidence(factors, doc)
        /\ LET scores == Dimensions(factors, doc)
               later  == Dimensions(factors, doc')
           IN \A x \in DOMAIN scores : later[x] >= scores[x]
=============================================================================
