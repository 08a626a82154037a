---------------------------- MODULE HostEvidence ----------------------------
(***************************************************************************)
(* inventory-service, from a scan to the request that risk-engine scores:  *)
(* windows_evidence.py turns the document of a Windows host into an ingest *)
(* request, risk_mapper.py any ingest request into the factors and the     *)
(* evidence of one of its assets.                                          *)
(*                                                                         *)
(* The behaviour is one document growing: a Windows host to which things   *)
(* happen between two collections, or the assets and the certificate of    *)
(* another scan.                                                           *)
(***************************************************************************)
EXTENDS RiskScore, Sequences

CONSTANTS Keys,        \* certificates: [pk |-> friendly name, bits, expires]
          Assets,      \* assets of other scans: [name, type, vendor, criticality]
          MaxStore,    \* bound: certificates in the surface of a host
          MaxAssets    \* bound: assets in one scan

KeysAssumption ==
    Keys \subseteq [pk : {"RSA", "ECC", "DSA", "DH", "ML-DSA", "ML-KEM", ""}, bits : Nat, expires : -1 .. 365]
AssetsAssumption == \A a \in Assets : a.vendor \in BOOLEAN /\ a.criticality \in 0 .. 5

AssetTypes == {"server", "service", "endpoint", "certificate", "pipeline", "backup", "library",
               "vendor_product", "other"}
Sources    == {"host", "network", "repo", "manual"}

VARIABLES host,     \* the Windows evidence document: {} or its only element
          source, batch, certificate   \* another scan's request

vars == <<host, source, batch, certificate>>

-----------------------------------------------------------------------------
(* windows_evidence.py                                                      *)

(* _normalize_pk_algorithm: "RSA" in it, begins with EC, "DSA" in it, DH,   *)
(* or the name itself.                                                      *)
NormalizePk(name) == IF name = "ECC" THEN "EC" ELSE IF name \in {"DSA", "ML-DSA"} THEN "DSA" ELSE name

(* _representative_certificate: without the size of its key.                *)
First(N) == CHOOSE n \in N : \A m \in N : n <= m
Representative(store) ==
    LET candidates == {n \in DOMAIN store : store[n].pk # ""}
        vulnerable == {n \in candidates : NormalizePk(store[n].pk) \in {"RSA", "EC", "DSA", "DH"}}
    IN IF candidates = {} THEN {}
       ELSE {store[First(IF vulnerable = {} THEN candidates ELSE vulnerable)]}

Carried(c) == [pk |-> NormalizePk(c.pk), bits |-> 0, expires |-> c.expires]

(* _criticality.                                                            *)
HostCriticality(d) == IF d.dc THEN 5 ELSE IF d.type = "server" THEN 4 ELSE IF d.joined THEN 3 ELSE 2

(* build_ingest_request, build_windows_normalized_signals.                  *)
IngestRequest(d) ==
    [source |-> "host", openssl |-> d.software > 0, windows |-> {d},
     assets |-> <<[name |-> "host", vendor |-> FALSE, criticality |-> HostCriticality(d),
                   type |-> IF d.type \in AssetTypes THEN d.type ELSE "other"]>>,
     certificate |-> {Carried(c) : c \in Representative(d.store)}]

-----------------------------------------------------------------------------
(* risk_mapper.py: factors in thousandths                                   *)

Target(r, name) == IF \E i \in DOMAIN r.assets : r.assets[i].name = name
                   THEN r.assets[CHOOSE i \in DOMAIN r.assets :
                            /\ r.assets[i].name = name
                            /\ \A j \in 1 .. (i - 1) : r.assets[j].name # name]
                   ELSE r.assets[1]

IsDc(r)     == \E w \in r.windows : w.dc
IsJoined(r) == \E w \in r.windows : w.joined

Exposure(r) ==
    IF r.certificate # {}
    THEN IF \E c \in r.certificate : c.pk \in {"RSA", "ECDSA", "ECDH", "EC"} THEN 5000 ELSE 3000
    ELSE IF r.openssl THEN 4000 ELSE 2000

Base(r, network, onHost, others) ==
    IF r.source = "network" THEN network ELSE IF r.source = "host" THEN onHost ELSE others

(* Faulty: membership is looked at before the role.                         *)
JoinedFirst(r) == IF IsJoined(r) THEN 4000 ELSE IF IsDc(r) THEN 5000 ELSE Base(r, 4000, 3000, 2000)
BlastRadius(r) == IF IsDc(r) THEN 5000
                  ELSE AtLeast(Base(r, 4000, 3000, 2000), IF IsJoined(r) THEN 4000 ELSE 0)

RawDifficulty(r) ==
    Base(r, 2000, 3000, 2000)
    + (IF \E w \in r.windows : w.certs >= 50 THEN 2000
       ELSE IF \E w \in r.windows : w.certs >= 10 THEN 1000 ELSE 0)
    + (IF \E w \in r.windows : w.weak > 0 \/ w.expired > 0 THEN 1000 ELSE 0)
Difficulty(r) == AtMost(RawDifficulty(r), MaxFactor)

DependencyCount(a, r) ==
    (IF a.type \in {"endpoint", "service"} THEN 3 ELSE IF a.type \in {"server", "pipeline"} THEN 2 ELSE 1)
    + (IF IsDc(r) THEN 2 ELSE IF IsJoined(r) THEN 1 ELSE 0)

(* build_risk_payload: criticality or 3.                                    *)
FactorsOf(r, name) ==
    LET a == Target(r, name) IN
    [criticality              |-> IF a.criticality = 0 THEN 3000 ELSE 1000 * a.criticality,
     confidentiality_lifetime |-> Base(r, 3000, 4000, 2000),
     quantum_exposure         |-> Exposure(r),
     blast_radius             |-> BlastRadius(r),
     vendor_lock_in           |-> IF a.vendor THEN 3000 ELSE 1000,
     migration_difficulty     |-> Difficulty(r)]

(* The evidence that is forwarded.  TLSEvidence takes a certificate without *)
(* a collected flag for collected; the environment is not forwarded.        *)
Flag(b)           == IF b THEN 1 ELSE 0
Certificate(r)    == CHOOSE c \in r.certificate : TRUE
Forwarded(r, a) ==
    [tls        |-> Flag(r.certificate # {}),
     rsa_bits   |-> IF r.certificate # {} /\ Certificate(r).pk = "RSA" THEN Certificate(r).bits ELSE 0,
     expires_in |-> IF r.certificate # {} THEN Certificate(r).expires ELSE -1,
     dependency_count        |-> DependencyCount(a, r),
     vendor_blocked          |-> Flag(a.vendor),
     windows_expired         |-> Flag(\E w \in r.windows : w.expired > 0),
     windows_weak_signature  |-> Flag(\E w \in r.windows : w.weak > 0),
     windows_dc              |-> Flag(IsDc(r)),
     windows_large_estate    |-> IF \E w \in r.windows : w.certs >= 50 THEN 50 ELSE 0,
     windows_crypto_services |-> Flag(\E w \in r.windows : w.services > 0)]

EvidenceOf(r, name) ==
    LET given == Forwarded(r, Target(r, name))
    IN [f \in Fields |-> IF f \in DOMAIN given THEN given[f] ELSE Missing[f]]

Score(r, name) == Normalized(FactorsOf(r, name), "public_timeline", EvidenceOf(r, name))

-----------------------------------------------------------------------------
Requests == {IngestRequest(d) : d \in host}
            \union (IF batch = <<>> THEN {}
                    ELSE {[source |-> source, openssl |-> FALSE, windows |-> {}, assets |-> batch,
                           certificate |-> certificate]})

AssetNames(r) == {r.assets[i].name : i \in DOMAIN r.assets}

FreshHost(type) == [type |-> type, dc |-> FALSE, joined |-> FALSE, software |-> 0, certs |-> 0,
                    expired |-> 0, weak |-> 0, services |-> 0, store |-> <<>>]

Init == /\ certificate = {}
        /\ source \in Sources
        /\ \/ /\ host \in {{FreshHost(t)} : t \in {"server", "endpoint", "toaster"}}
              /\ batch = <<>>
           \/ /\ host = {}
              /\ batch \in {<<a>> : a \in Assets}

(* What happens to a Windows host; counts only say whether there are some,  *)
(* and certificates are counted apart from the surface that lists them.     *)
Later(d) ==
    ({[d EXCEPT !.dc = TRUE], [d EXCEPT !.joined = TRUE], [d EXCEPT !.software = 1],
      [d EXCEPT !.expired = 1], [d EXCEPT !.weak = 1], [d EXCEPT !.services = 1]}
     \union {[d EXCEPT !.certs = n] : n \in {n \in {9, 10, 50} : n > d.certs}}
     \union {[d EXCEPT !.store = Append(@, k)] : k \in {k \in Keys : Len(d.store) < MaxStore}}) \ {d}

Change == /\ \E d \in host : \E e \in Later(d) : host' = {e}
          /\ UNCHANGED <<source, batch, certificate>>

AddAsset(a) == /\ host = {} /\ Len(batch) < MaxAssets
               /\ batch' = Append(batch, a)
               /\ UNCHANGED <<host, source, certificate>>

AddCertificate(k) == /\ host = {} /\ certificate = {}
                     /\ certificate' = {k}
                     /\ UNCHANGED <<host, source, batch>>

Next == Change \/ (\E a \in Assets : AddAsset(a)) \/ (\E k \in Keys : AddCertificate(k))

Spec == Init /\ [][Next]_vars

-----------------------------------------------------------------------------
(* "Risk-engine factors are all constrained to [0, 5]; keep derived values  *)
(* in range": out of range the request is refused and the asset of a        *)
(* committed scan stays without a score.                                    *)
FactorsInRange ==
    \A r \in Requests : \A name \in AssetNames(r) : FactorsOf(r, name) \in [Factors -> 0 .. MaxFactor]

(* When something happens to a host (a role, a membership, expired or weak  *)
(* certificates, software, services, a first RSA or EC certificate), none   *)
(* of its factors falls, none of its signals is lost, its score is not      *)
(* lower: the factors are computed of overlapping facts, in chains of elif. *)
ScoresNoLower ==
    \A d \in host : \A e \in host' :
        (e.store = d.store \/ (d.store = <<>> /\ e.store[1].pk \in {"RSA", "ECC"})) =>
            LET before == IngestRequest(d)
                after  == IngestRequest(e)
            IN /\ \A f \in Factors : FactorsOf(after, "host")[f] >= FactorsOf(before, "host")[f]
               /\ Signals(EvidenceOf(before, "host")) \subseteq Signals(EvidenceOf(after, "host"))
               /\ Score(after, "host") >= Score(before, "host")
=============================================================================
