------------------------------ MODULE Evidence ------------------------------
(***************************************************************************)
(* The services that judge evidence, side by side: POST /api/assess with   *)
(* the fingerprint that it begins with, the four readers of a certificate, *)
(* risk-engine, the mapper from a scan to risk-engine's factors, and       *)
(* scenario-engine with policy-engine.  The modules share the word for     *)
(* what is missing, and no state.                                          *)
(***************************************************************************)
EXTENDS Assess

CONSTANTS Algorithms, Counts, Junk,         \* EvidenceForms
          FactorValues, ValuesOf, MaxFields, \* RiskEngine
          Keys, Assets, MaxStore, MaxAssets, \* HostEvidence
          Portfolio, ExactBases, Scenarios   \* Decisions

VARIABLES form_certificate, tls, form_host
VARIABLES factors, scenario, doc
VARIABLES host, source, batch, certificate
VARIABLES exact, base, run, decision

formVars     == <<form_certificate, tls, form_host>>
riskVars     == <<factors, scenario, doc>>
hostVars     == <<host, source, batch, certificate>>
decisionVars == <<exact, base, run, decision>>

Reading    == INSTANCE EvidenceForms WITH certificate <- form_certificate, host <- form_host
Scoring    == INSTANCE RiskEngine
Collecting == INSTANCE HostEvidence
Deciding   == INSTANCE Decisions

ScoresSpec == Scoring!Spec /\ Collecting!Spec /\ Deciding!Spec

-----------------------------------------------------------------------------
(* EvidenceForms: four services read the same certificate alike, the        *)
(* normalized document is a fixed point of them, and a short RSA key of an  *)
(* accepted ingest is a signal.                                             *)
FormsAreReadAlike == /\ Reading!TypeOK
                     /\ Reading!ReadersAgree
                     /\ Reading!CanonicalIsReadAlike
                     /\ Reading!WeakKeysAreScored

(* RiskEngine: scores stay within their bounds, whatever the evidence.      *)
(* HostEvidence: no evidence leads to a factor that risk-engine refuses.    *)
(* Decisions: scenario-engine and risk-engine compute the same scores, the  *)
(* first result is the worst, and what is rated critical is denied.         *)
ScoresAndVerdictsAgree == /\ Scoring!ScoresAreBounded
                          /\ Collecting!FactorsInRange
                          /\ Deciding!VerdictsAreRight

(* Worse evidence never makes it look better: not a fingerprint that gets   *)
(* one more finding, not the score of an asset whose evidence says more,    *)
(* not the factors and the score of a host to which something of            *)
(* Collecting!ScoresNoLower happens (a first RSA or EC certificate counts,  *)
(* further ones and DSA or DH ones do not), not the verdict on a portfolio  *)
(* with higher base scores.                                                 *)
WorseNeverLooksBetter ==
    [][/\ OnlyWorsens
       /\ Scoring!NeverLowers
       /\ Collecting!ScoresNoLower
       /\ Deciding!NeverMoreLenient]_<<vars, riskVars, hostVars, decisionVars>>
=============================================================================
