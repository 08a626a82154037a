------------------------------- MODULE Assess -------------------------------
(***************************************************************************)
(* The API gateway's POST /api/assess: it asks crypto-fingerprint-service, *)
(* pqc-readiness-service, finding-attribution-service and, if the caller   *)
(* gives risk factors, risk-engine, one after the other, each with what    *)
(* the first one found.  Every one of them may fail.                       *)
(***************************************************************************)
EXTENDS Fingerprint

Options == [vendor_blocked : BOOLEAN, hybrid_supported : BOOLEAN, risk_factors : BOOLEAN,
            target : BOOLEAN]   \* the evidence names the endpoint it is of

VARIABLES asked,     \* {} or the options of the request that is being answered
          stage,     \* the service that is asked next, or how the request ended
          findings,  \* what crypto-fingerprint-service answered
          result     \* the response, as far as it is put together

assessVars == <<evidence, asked, stage, findings, result>>

(* The response: what each service answered, and which ones did.            *)
Answer(summary, readiness, attributed, risk, services) ==
    [summary |-> summary, readiness |-> readiness, attributed |-> attributed,
     risk |-> risk, pipeline |-> services]
Blank == Answer({}, {}, {}, FALSE, {})

-----------------------------------------------------------------------------
(* pqc-readiness-service, classify_readiness.  Faulty: post-quantum         *)
(* algorithms are looked at before the pair of both.                        *)
PqcFirst(Fs, o) ==
    CASE o.vendor_blocked -> "vendor_blocked"
      [] ~o.vendor_blocked /\ Of(Fs, "pqc_ready") # {} -> "pqc_ready"
      [] OTHER -> IF Of(Fs, "classical_vulnerable") # {} THEN "classical_only" ELSE "unknown"
Readiness(Fs, o) ==
    LET classical == Of(Fs, "classical_vulnerable") # {}
        pqc       == Of(Fs, "pqc_ready") # {}
    IN CASE o.vendor_blocked                           -> "vendor_blocked"
         [] ~o.vendor_blocked /\ ~classical /\ ~pqc    -> "unknown"
         [] ~o.vendor_blocked /\ classical /\ pqc      -> "hybrid_capable"
         [] ~o.vendor_blocked /\ ~classical /\ pqc     -> "pqc_ready"
         [] ~o.vendor_blocked /\ classical /\ ~pqc     ->
                IF o.hybrid_supported THEN "hybrid_capable" ELSE "classical_only"

Classification(Fs, o) == [readiness |-> Readiness(Fs, o), hndl |-> \E f \in Fs : f.hndl,
                     weak_key |-> \E f \in Fs : f.weak_key, count |-> Cardinality(Fs)]

(* finding-attribution-service, attribute_finding: by source, the kind of   *)
(* the place and of the crypto object.                                      *)
Place(source) ==
    CASE source \in {"public_key", "signature"} -> <<"network_endpoint", "certificate">>
      [] source = "cipher"                      -> <<"network_endpoint", "cipher_suite">>
      [] source = "package"                     -> <<"package", "library">>
      [] source = "signing_command"             -> <<"config_file", "pipeline">>
      [] source = "embedded_key"                -> <<"config_file", "config">>
      [] source = "explicit"                    -> <<"manual", "none">>
      [] OTHER                                  -> <<"unknown", "none">>

AttributeFinding(f, o) ==
    [finding |-> f, location |-> Place(f.source)[1], object |-> Place(f.source)[2],
     service |-> o.target /\ Place(f.source)[1] = "network_endpoint"]

Attribute(Fs, o)  == {AttributeFinding(f, o) : f \in Fs}
IsAttributed(a)   == a.service \/ a.object # "none"

-----------------------------------------------------------------------------
AssessInit == /\ Init
              /\ asked = {} /\ stage = "collecting" /\ findings = {} /\ result = Blank

Collect == /\ stage = "collecting"
           /\ Next
           /\ UNCHANGED <<asked, stage, findings, result>>

Ask(o) == /\ stage = "collecting"
          /\ asked' = {o} /\ stage' = "fingerprint" /\ findings' = {} /\ result' = Blank
          /\ UNCHANGED evidence

(* _request_json raises and the request ends.                               *)
After(ok, next)  == IF ok THEN next ELSE "failed"
Done(service)    == result.pipeline \union {service}

Fingerprinted(ok) ==
    /\ stage = "fingerprint"
    /\ stage' = After(ok, "readiness")
    /\ findings' = IF ok THEN Findings(evidence) ELSE {}
    /\ result' = IF ok THEN Answer({Summary(Findings(evidence))}, result.readiness, result.attributed,
                                   result.risk, Done("fingerprint"))
                 ELSE result
    /\ UNCHANGED <<evidence, asked>>

Classified(ok) ==
    /\ stage = "readiness"
    /\ stage' = After(ok, "attribution")
    /\ result' = IF ok THEN Answer(result.summary, {Classification(findings, o) : o \in asked},
                                   result.attributed, result.risk, Done("readiness"))
                 ELSE result
    /\ UNCHANGED <<evidence, asked, findings>>

Attributed(ok) ==
    /\ stage = "attribution"
    /\ stage' = After(ok, IF \E o \in asked : o.risk_factors THEN "risk" ELSE "answered")
    /\ result' = IF ok THEN Answer(result.summary, result.readiness, UNION {Attribute(findings, o) : o \in asked},
                                   result.risk, Done("attribution"))
                 ELSE result
    /\ UNCHANGED <<evidence, asked, findings>>

Scored(ok) ==
    /\ stage = "risk"
    /\ stage' = After(ok, "answered")
    /\ result' = IF ok THEN Answer(result.summary, result.readiness, result.attributed, TRUE, Done("risk"))
                 ELSE result
    /\ UNCHANGED <<evidence, asked, findings>>

(* The caller reads the answer, or the error, and may come back with more.  *)
Return == /\ stage \in {"answered", "failed"}
          /\ stage' = "collecting" /\ asked' = {} /\ findings' = {} /\ result' = Blank
          /\ UNCHANGED evidence

AssessNext ==
    \/ Collect \/ Return
    \/ \E o \in Options : Ask(o)
    \/ \E ok \in BOOLEAN : Fingerprinted(ok) \/ Classified(ok) \/ Attributed(ok) \/ Scored(ok)

AssessSpec == AssessInit /\ [][AssessNext]_assessVars

-----------------------------------------------------------------------------
Answered == stage = "answered"

(* An answer is whole: every service of its pipeline answered, risk-engine  *)
(* if and only if it was asked, and nothing is answered in part.            *)
AnswerIsWhole ==
    Answered =>
        /\ result.summary # {} /\ result.readiness # {}
        /\ Cardinality(result.attributed) = Cardinality(Findings(evidence))
        /\ result.risk <=> \E o \in asked : o.risk_factors
        /\ result.pipeline = {"fingerprint", "readiness", "attribution"}
                                 \union (IF result.risk THEN {"risk"} ELSE {})

(* Two services judge the same findings: the fingerprint's summary and the  *)
(* readiness engine never contradict each other.                            *)
VerdictsAgree ==
    Answered => \A s \in result.summary : \A r \in result.readiness : \A o \in asked :
        /\ r.hndl = s.hndl /\ r.count = s.total
        /\ r.weak_key => s.weak > 0
        /\ ~o.vendor_blocked =>
              /\ s.readiness = "hybrid_partial" => r.readiness = "hybrid_capable"
              /\ s.readiness = "pqc_ready" <=> r.readiness = "pqc_ready"
              /\ s.readiness = "classical_only" <=> (s.vulnerable > 0 /\ s.pqc = 0)
              /\ r.readiness = "classical_only" => s.readiness = "classical_only"
              /\ r.readiness = "unknown" <=> s.readiness \in {"unknown", "no_quantum_vulnerable_detected"}

(* Every finding is attributed but the names that the caller listed: what   *)
(* can be harvested, or is weak, always has a place to look at.             *)
OnlyListedIsUnattributed ==
    Answered => \A a \in result.attributed : ~IsAttributed(a) <=> a.finding.source = "explicit"

(* The inductive invariant: until the answer is read the evidence stays as  *)
(* it is, and the response is what the services asked so far make of it.    *)
DoneAt(o) == [fingerprint |-> {}, readiness |-> {"fingerprint"},
              attribution |-> {"fingerprint", "readiness"},
              risk        |-> {"fingerprint", "readiness", "attribution"},
              answered    |-> {"fingerprint", "readiness", "attribution"}
                                  \union (IF o.risk_factors THEN {"risk"} ELSE {})]

Response(Fs, o, services) ==
    Answer(IF "fingerprint" \in services THEN {Summary(Fs)} ELSE {},
           IF "readiness" \in services THEN {Classification(Fs, o)} ELSE {},
           IF "attribution" \in services THEN Attribute(Fs, o) ELSE {},
           IF "risk" \in services THEN TRUE ELSE FALSE, services)

Assembled ==
    /\ stage \in {"collecting", "fingerprint", "readiness", "attribution", "risk", "answered", "failed"}
    /\ stage \notin {"collecting", "failed"} => \E o \in Options :
          /\ asked = {o}
          /\ stage = "risk" => o.risk_factors
          /\ stage # "fingerprint" => findings = Findings(evidence)
          /\ result = Response(Findings(evidence), o, DoneAt(o)[stage])

(* An answer is whole, the fingerprint and the readiness engine do not      *)
(* contradict each other in it, and only the names that the caller listed   *)
(* lack a place (assess).                                                   *)
AssessAgrees == Assembled /\ AnswerIsWhole /\ VerdictsAgree /\ OnlyListedIsUnattributed
=============================================================================
