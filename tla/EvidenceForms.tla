---------------------------- MODULE EvidenceForms ---------------------------
(***************************************************************************)
(* One scan payload and the services that read it: evidence-normalizer     *)
(* (POST /normalize), crypto-fingerprint-service, inventory-service (the   *)
(* validators of its ingest models) and risk-engine, which reads the flat  *)
(* certificate only, either as the inventory forwards it or, in            *)
(* /api/assess, as it came.                                                *)
(*                                                                         *)
(* A block is {} or holds its only element.  A string that is missing, not *)
(* a string or blank is None to every reader; Junk is a value of a type    *)
(* that the field does not have.                                           *)
(***************************************************************************)
EXTENDS Integers, FiniteSets

CONSTANTS Algorithms,  \* names of algorithms
          Counts,     \* key sizes, ports, counts: positive numbers
          None, Junk

EvidenceAssumption ==
    /\ Counts \subseteq Nat \ {0}
    /\ None \notin Algorithms /\ None \notin Nat /\ None # Junk
    /\ Junk \notin Algorithms /\ Junk \notin Nat

AlgorithmNames == [public_key : Algorithms \union {None}, signature : Algorithms \union {None}]
Amount == Counts \union {None, Junk}

Missing == [algorithms |-> {}, key |-> {}, validity |-> {},
            flat |-> [public_key |-> None, signature |-> None], flat_size |-> None, flat_until |-> None]

VARIABLES certificate,  \* {} or [algorithms, key, validity, flat, flat_size, flat_until]
          tls,          \* [collected, chain, port]
          host          \* [packages, indicators, keys]: crypto_evidence of the host

vars == <<certificate, tls, host>>

Number(x) == IF x = Junk THEN None ELSE x   \* _safe_int

-----------------------------------------------------------------------------
(* What a reader makes of a certificate: names, size of the key, not_after. *)

Only(S)         == CHOOSE x \in S : TRUE
Nested(b, flat) == IF b # {} THEN Only(b) ELSE flat

(* A key block without a size: two readers go on to the flat field.         *)
SizeOf(c) == IF c.key \ {None} # {} THEN Only(c.key) ELSE c.flat_size

(* _certificate_algorithms of crypto-fingerprint-service.                   *)
Fingerprinted(c) == [names |-> Nested(c.algorithms, c.flat), size |-> Number(SizeOf(c))]

(* _normalize_certificate, _normalize_chain, _normalize_network of          *)
(* evidence-normalizer.                                                     *)
Normalized(c) == [names |-> Nested(c.algorithms, c.flat), size |-> Number(SizeOf(c)),
                  until |-> Nested(c.validity, c.flat_until)]

(* The length if it is a number, or else the number of fingerprints.        *)
HasChain(chain) == \E n \in chain \ {Junk} :
    IF Number(n.length) # None THEN n.length > 0 ELSE n.fingerprints \notin {0, Junk}

(* A normalized document, sent on as the evidence of a request.             *)
AsFlat(n) == [Missing EXCEPT !.flat = n.names, !.flat_size = n.size, !.flat_until = n.until]

(* TLSEvidenceCertificate.normalize_payload: the nested blocks move to the  *)
(* flat fields (and stay).  Faulty: the size stays where it is.             *)
KeyForgotten(c) == [c EXCEPT !.flat = Nested(c.algorithms, c.flat),
                             !.flat_until = Nested(c.validity, c.flat_until)]
Flattened(c)    == [c EXCEPT !.flat = Nested(c.algorithms, c.flat),
                             !.flat_until = Nested(c.validity, c.flat_until),
                             !.flat_size = Nested(c.key, c.flat_size)]

(* TLSEvidence.normalize_payload, validate_port_type; CryptoEvidence and    *)
(* Stage2CertIndicators: what makes the ingest request fail.                *)
Refused == \/ tls.port = Junk \/ host.packages = {Junk}
           \/ \E c \in certificate : Flattened(c).flat_size = Junk
           \/ \E n \in tls.chain \ {Junk} : n.fingerprints = Junk

(* An indicator block of the wrong type is kept, as it is, by the second    *)
(* alternative of Stage2CertIndicators | dict.                              *)
Stored ==
    [certificate |-> {Flattened(c) : c \in certificate},
     collected   |-> IF certificate # {} /\ tls.collected = None THEN TRUE ELSE tls.collected,
     chain       |-> tls.chain \ {Junk},
     packages    |-> host.packages, indicators |-> host.indicators, keys |-> host.keys]

(* extract_stage2_signals of risk-engine: it takes the flat certificate.    *)
Scored(c) == [names |-> c.flat, size |-> Number(c.flat_size), until |-> c.flat_until]

WeakKeySignal(c) == c.flat.public_key = "RSA" /\ Number(c.flat_size) \in 1 .. 2047

(* .get("certificate_file_indicators", {}).get("counts", {}): fails on what *)
(* is not an object.                                                        *)
ScoringFails(s) == s.indicators = Junk

ChainSignal(s)      == \E n \in s.chain : Number(n.length) \in Nat \ {0}
KeyFilesSignal(s)   == Number(s.keys) \in Nat \ {0}
PrivateKeyIndicator == host.indicators # Junk /\ Number(host.keys) \in Nat \ {0}

-----------------------------------------------------------------------------
Init == /\ certificate = {}
        /\ tls = [collected |-> None, chain |-> {}, port |-> None]
        /\ host = [packages |-> {}, indicators |-> None, keys |-> None]

(* The scanners' nested form, the older flat one, or a mixture of both that *)
(* names its algorithms once.                                               *)
Certificate ==
    /\ certificate = {}
    /\ \E names \in AlgorithmNames, k, s \in Amount, nested, keyed, until \in BOOLEAN :
          certificate' = {[algorithms |-> IF nested THEN {names} ELSE {},
                           key        |-> IF keyed THEN {k} ELSE {},
                           validity   |-> IF until THEN {"soon"} ELSE {},
                           flat       |-> IF nested THEN Missing.flat ELSE names,
                           flat_size  |-> s,
                           flat_until |-> IF until THEN None ELSE "soon"]}
    /\ UNCHANGED <<tls, host>>

Handshake ==
    /\ tls.port = None
    /\ \E collected \in BOOLEAN \union {None}, port \in Counts \union {Junk} :
          tls' = [tls EXCEPT !.collected = collected, !.port = port]
    /\ UNCHANGED <<certificate, host>>

Chain ==
    /\ tls.chain = {}
    /\ \E length \in Amount, fingerprints \in {0, 2, Junk} :
          \E chain \in {[length |-> length, fingerprints |-> fingerprints], Junk} :
             tls' = [tls EXCEPT !.chain = {chain}]
    /\ UNCHANGED <<certificate, host>>

HostScan ==
    /\ host.packages = {}
    /\ \E packages \in Counts \union {Junk}, indicators \in {"object", Junk}, keys \in Amount :
          host' = [packages |-> {packages}, indicators |-> indicators,
                   keys |-> IF indicators = Junk THEN None ELSE keys]
    /\ UNCHANGED <<certificate, tls>>

Next == Certificate \/ Handshake \/ Chain \/ HostScan

Spec == Init /\ [][Next]_vars

-----------------------------------------------------------------------------
(* The same certificate means the same to all: what the fingerprint says of *)
(* a name and of a size, the normalizer says too, and risk-engine gets it   *)
(* of every ingest.  The one exception is a key block without a size next   *)
(* to a flat size, which the inventory does not go on to.  A chain or key   *)
(* files that are scored are also in the normalized document.               *)
ReadersAgree ==
    /\ ~Refused /\ ChainSignal(Stored) => HasChain(tls.chain)
    /\ ~Refused /\ ~ScoringFails(Stored) => (KeyFilesSignal(Stored) <=> PrivateKeyIndicator)
    /\ \A c \in certificate :
          /\ Normalized(c).names = Fingerprinted(c).names /\ Normalized(c).size = Fingerprinted(c).size
          /\ ~Refused =>
                \A d \in Stored.certificate :
                    /\ Scored(d).names = Normalized(c).names /\ Scored(d).until = Normalized(c).until
                    /\ Scored(d).size # Normalized(c).size => c.key = {None} /\ Scored(d).size = None

(* README of evidence-normalizer: "one canonical evidence document so       *)
(* downstream consumers (crypto-fingerprint-service, risk-engine) do not    *)
(* each re-handle the flat-vs-nested certificate ambiguity".                *)
CanonicalIsReadAlike ==
    \A c \in certificate :
        LET n == Normalized(c) IN
        /\ Fingerprinted(AsFlat(n)) = Fingerprinted(c)
        /\ Scored(AsFlat(n)) = n
        /\ Normalized(AsFlat(n)) = n

(* inventory README: a weak key "could never fire from a real Stage-2-      *)
(* shaped network scan" before the size was moved: what the fingerprint     *)
(* reads as a short RSA key is a signal of every accepted ingest.           *)
WeakKeysAreScored ==
    \A c \in certificate :
        (/\ ~Refused /\ Fingerprinted(c).names.public_key = "RSA"
         /\ Fingerprinted(c).size \in 1 .. 2047 /\ c.key # {None})
        => \A d \in Stored.certificate : WeakKeySignal(d)

(* A block has at most one element, a field a value of its kind or Junk.    *)
AtMostOne(b) == \A x, y \in b : x = y

TypeOK ==
    /\ certificate \subseteq [algorithms : SUBSET AlgorithmNames, key : SUBSET Amount,
                              validity : SUBSET {"soon"}, flat : AlgorithmNames,
                              flat_size : Amount, flat_until : {None, "soon"}]
    /\ tls \in [collected : BOOLEAN \union {None}, port : Counts \union {None, Junk},
                chain : SUBSET ([length : Amount, fingerprints : {0, 2, Junk}] \union {Junk})]
    /\ host \in [packages : SUBSET (Counts \union {Junk}), indicators : {None, "object", Junk},
                 keys : Amount]
    /\ AtMostOne(certificate) /\ AtMostOne(tls.chain) /\ AtMostOne(host.packages)
    /\ \A c \in certificate : AtMostOne(c.algorithms) /\ AtMostOne(c.key)
=============================================================================
