------------------------------ MODULE Decisions ------------------------------
(***************************************************************************)
(* scenario-engine (POST /run over a portfolio) and policy-engine (POST    *)
(* /evaluate), fed with what risk-engine reported: numbers pass between    *)
(* the services rounded, and every service rates for itself.               *)
(*                                                                         *)
(* An exact base score is a number of 1/20000, a reported one of 1/10000;  *)
(* normalized scores are exact in 1/100000, reported in 1/100 (of 100).    *)
(***************************************************************************)
EXTENDS RiskScore, Sequences, Functions

CONSTANTS Portfolio,    \* sequence of assets: [blocked, production, criticality, dependencies]
          ExactBases,   \* base scores that risk-engine computes
          Scenarios     \* the scenarios that are asked for

MaxBase == 100000      \* the largest base score, 5

PortfolioAssumption ==
    /\ Portfolio \in Seq([blocked : BOOLEAN, production : BOOLEAN,
                          criticality : 0 .. 5, dependencies : Nat])
    /\ ExactBases \subseteq 0 .. MaxBase
    /\ Scenarios \subseteq DOMAIN ScenarioMultiplier

Index == DOMAIN Portfolio
NoRun == [results |-> <<>>, scenario |-> "none"]

VARIABLES exact,     \* exact[i]: the base score risk-engine computed of asset i
          base,      \* base[i]: the base score it reported
          run,       \* the last response of scenario-engine
          decision   \* decision[i]: the last response of policy-engine

vars == <<exact, base, run, decision>>

-----------------------------------------------------------------------------
(* round(n / unit): half way the floats decide.                             *)
Rounded(n, unit) == {k \in {n \div unit, n \div unit + 1} : 2 * (n - k * unit) \in -unit .. unit}

Scenario(b, sc) == AtMost(2 * b * ScenarioMultiplier[sc], MaxNormalized)

Rank(r) == [minimal |-> 1, low |-> 2, medium |-> 3, high |-> 4, critical |-> 5][r]

(* What the scores of a run may be reported as.                             *)
Reports(sc) ==
    {reported \in [Index -> UNION {Rounded(Scenario(base[i], sc), 1000) : i \in Index}] :
        \A i \in Index : reported[i] \in Rounded(Scenario(base[i], sc), 1000)}

(* results.sort(key = normalized_score_100, reverse) is stable.             *)
ScoreOrder(i, j, reported) == reported[i] > reported[j] \/ (reported[i] = reported[j] /\ i < j)
Sorted(reported) == {order \in Bijection(Index, Index) :
                        \A m, n \in Index : m < n => ScoreOrder(order[m], order[n], reported)}

(* apply_scenario, the rounding of result i to reported[i] given: the       *)
(* rating is that of the exact number.                                      *)
Result(i, sc, reported) ==
    [of |-> i, score |-> reported[i], rating |-> Rating(Scenario(base[i], sc)),
     was |-> exact[i]]
Highest(results) == IF results = <<>> THEN "minimal" ELSE results[1].rating

(* evaluate_policy.  Faulty: production is looked at before the score.      *)
ReviewFirst(a, score) ==
    CASE a.blocked                                                 -> "deny"
      [] a.production /\ a.criticality >= 4 /\ score >= 6000       -> "review"
      [] score >= 8000                                             -> "deny"
      [] OTHER                                                     -> "allow"
Policy(a, score) ==
    IF a.blocked \/ score >= 8000 THEN "deny"
    ELSE IF \/ a.production /\ a.criticality >= 4 /\ score >= 6000
            \/ a.dependencies >= 5 /\ score >= 5000 THEN "review"
    ELSE "allow"

-----------------------------------------------------------------------------
Init == /\ exact = [i \in Index |-> 0]
        /\ base = [i \in Index |-> 0]
        /\ run = NoRun
        /\ decision = [i \in Index |-> {}]

(* risk-engine scores the asset again and reports round(base_score, 4).     *)
Assess(i, e) ==
    /\ exact' = [exact EXCEPT ![i] = e]
    /\ \E r \in Rounded(e, 2) : base' = [base EXCEPT ![i] = r]
    /\ UNCHANGED <<run, decision>>

RunScenario(sc) ==
    /\ \E reported \in Reports(sc) : \E order \in Sorted(reported) :
          run' = [results |-> [n \in Index |-> Result(order[n], sc, reported)], scenario |-> sc]
    /\ UNCHANGED <<exact, base, decision>>

(* The result of the run is handed to policy-engine.                        *)
Evaluate(n) ==
    LET r == run.results[n] IN
    /\ decision' = [decision EXCEPT ![r.of] =
                       {[score |-> r.score, rating |-> r.rating, verdict |-> Policy(Portfolio[r.of], r.score)]}]
    /\ UNCHANGED <<exact, base, run>>

Next == \/ \E i \in Index : \E e \in ExactBases : Assess(i, e)
        \/ \E sc \in Scenarios : RunScenario(sc)
        \/ \E n \in DOMAIN run.results : Evaluate(n)

Spec == Init /\ [][Next]_vars

-----------------------------------------------------------------------------
(* highest_rating is the rating of the first result: no result rates higher *)
(* unless it is reported with the very same score (two scores that differ   *)
(* by less than a hundredth may be rated apart and sorted either way).      *)
TopIsWorst ==
    \A n \in DOMAIN run.results :
        Rank(run.results[n].rating) > Rank(Highest(run.results))
            => run.results[n].score = run.results[1].score

(* Comment of SCENARIOS, "aligned with risk-engine": what the portfolio run *)
(* reports is what risk-engine says of an asset without evidence under that *)
(* scenario, to two hundredths.                                             *)
Expected(e, sc) == AtMost(e * ScenarioMultiplier[sc], MaxNormalized)
AgreesWithRiskEngine ==
    \A n \in DOMAIN run.results :
        LET gap == 1000 * run.results[n].score - Expected(run.results[n].was, run.scenario)
        IN -2000 <= gap /\ gap <= 2000

(* What is rated critical is denied, whichever service rounds.              *)
CriticalIsDenied ==
    \A i \in Index : \A d \in decision[i] : d.rating = "critical" => d.verdict = "deny"

(* What is rated is, to the rounding, what is reported; a verdict is that   *)
(* on the reported score.                                                   *)
Rated(rating, score) == rating \in {Rating(1000 * score - 500), Rating(1000 * score + 500)}

BasesOK ==
    /\ exact \in [Index -> 0 .. MaxBase] /\ base \in [Index -> Nat]
    /\ \A i \in Index : base[i] \in Rounded(exact[i], 2)

ResultsOK ==
    /\ run.scenario \in Scenarios \union {"none"}
    /\ DOMAIN run.results \in {{}, Index}
    /\ \A n \in DOMAIN run.results :
          LET r == run.results[n]
          IN r.of \in Index /\ r.was \in 0 .. MaxBase /\ r.score \in Int /\ Rated(r.rating, r.score)

DecisionsOK ==
    /\ DOMAIN decision = Index
    /\ \A i \in Index : \A d \in decision[i] :
          d.score \in Int /\ Rated(d.rating, d.score) /\ d.verdict = Policy(Portfolio[i], d.score)

TypeOK == BasesOK /\ ResultsOK /\ DecisionsOK

VerdictsAreRight == TypeOK /\ AgreesWithRiskEngine /\ TopIsWorst /\ CriticalIsDenied

(* A later evaluation of an asset with a higher score is never more lenient *)
(* (reasons are tried in order; a reviewed asset may not become allowed).   *)
NeverMoreLenient ==
    \A i \in Index : \A d \in decision[i] : \A e \in decision'[i] :
        e.score >= d.score =>
            /\ d.verdict = "deny"   => e.verdict = "deny"
            /\ d.verdict = "review" => e.verdict # "allow"
=============================================================================
