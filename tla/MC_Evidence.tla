----------------------------- MODULE MC_Evidence -----------------------------
(***************************************************************************)
(* Small instances of what judges evidence, for TLC: one part moves, which *)
(* the initial state chooses.  The fingerprint and /api/assess are the     *)
(* modules' own; the others are instances.                                 *)
(*                                                                         *)
(* The tokens are those that the fingerprint's substring test finds in     *)
(* RSA, ecdsa-with-SHA1, TLS_ECDHE_RSA_WITH_AES_256_GCM_SHA384, ML-DSA-65, *)
(* AES-256-GCM, secp256r1, AES-128-ECB, HQC and MD5.                       *)
(***************************************************************************)
EXTENDS Evidence, Functions

VARIABLE part

-----------------------------------------------------------------------------
(* Fingerprint and Assess: nine names, four of them in a request, whose    *)
(* certificate has the nested form: what a flat one adds is the question of *)
(* the first part.                                                          *)
SomeTokens  == [rsa        |-> {"RSA"},
                ecdsa_sha1 |-> {"ECDSA", "DSA", "EC", "SHA1"},
                ecdhe_rsa  |-> {"ECDH", "RSA", "DHE", "DH", "EC", "AES", "SHA384", "SHA3"},
                ml_dsa     |-> {"MLDSA", "DSA"},
                aes_gcm    |-> {"AES"},
                secp256r1  |-> {"EC"},
                aes_ecb    |-> {"AES", "EC"},
                hqc        |-> {},
                md5        |-> {"MD5"}]
SomeNames == DOMAIN SomeTokens

(* Of two sizes of one key, equal ones say no more than one.                *)
SizesDiffer == evidence.nested_size = 0 \/ evidence.flat_size # evidence.nested_size

Requested == {None, "rsa", "ml_dsa", "ecdhe_rsa", "md5"}
IsRequested(e) ==
    /\ e.algorithms \subseteq Requested /\ e.cipher_suite \in Requested
    /\ e.flat = NoForm /\ e.flat_size = 0
    /\ \A form \in {e.nested} \ {None} : Range(form) \subseteq Requested
    /\ e.nested_size \in {0, 2047}

-----------------------------------------------------------------------------
(* RiskEngine: every field, at and around the value where its signal begins.*)
Risk == INSTANCE RiskScore
Flat(n) == [f \in Risk!Factors |-> n]
Profiles == {Flat(0), Flat(5000), [Flat(4000) EXCEPT !.confidentiality_lifetime = 3999]}
AllValues ==
    [f \in Risk!Fields |->
        CASE f = "ad_large_estate"      -> {19, 20}
          [] f = "windows_large_estate" -> {49, 50}
          [] f = "rsa_bits"             -> {2047, 2048}
          [] f = "expires_in"           -> {0, 90, 91}
          [] f = "dependency_count"     -> {9, 10, 30}
          [] f = "production"           -> {1, 2}
          [] f = "notes"                -> {{"hndl"}, {"plan"}, {"other"}}
          [] f \in {"kex", "host_key"}  -> {{"ssh-rsa", "diffie-hellman-group1-sha1"}, {"ed25519"}}
          [] f \in {"cipher_to_server", "cipher_to_client"} -> {{"aes256-ctr", "arcfour"}}
          [] f \in {"mac_to_server", "mac_to_client"}       -> {{"hmac-md5"}}
          [] f \in Risk!Lists           -> {{"DES-MAC"}, {"HMAC-SHA1"}, {"3DES"}, {"768-bit MODP"}}
          [] OTHER                      -> {1}]

(* The least multiplier, the greatest and one between.                      *)
SomeScenarios == {"public_timeline", "vendor_lag", "hndl_active_now"}

(* Decisions: base scores at the boundaries of ratings and verdicts: 50, 60,*)
(* 79.996 and 80 under public_timeline.                                     *)
Asset(b, p, c, n) == [blocked |-> b, production |-> p, criticality |-> c, dependencies |-> n]

TwoAssets == <<Asset(FALSE, TRUE, 4, 0), Asset(FALSE, FALSE, 3, 5)>>

(* HostEvidence: two assets of one name, which the inventory tells apart by *)
(* their types.                                                             *)
Key(pk, bits, expires) == [pk |-> pk, bits |-> bits, expires |-> expires]

SomeKeys   == {Key("RSA", 1024, 30), Key("ECC", 256, -1), Key("ML-DSA", 0, 365), Key("ML-KEM", 0, 30)}
SomeAssets == {[name |-> "web", type |-> "service", vendor |-> TRUE, criticality |-> 0],
               [name |-> "web", type |-> "endpoint", vendor |-> FALSE, criticality |-> 5],
               [name |-> "ci", type |-> "pipeline", vendor |-> FALSE, criticality |-> 1]}

(* EvidenceForms: each clause of its properties reads one block and whether *)
(* any other is refused, so two blocks at a time show all of them.          *)
Blocks    == <<form_certificate # {}, tls.port # None, tls.chain # {}, form_host.packages # {}>>
TwoBlocks == Cardinality({b \in DOMAIN Blocks : Blocks[b]}) <= 2

ASSUME Scoring!FactorsAssumption /\ Deciding!PortfolioAssumption
ASSUME Collecting!KeysAssumption /\ Collecting!AssetsAssumption /\ Reading!EvidenceAssumption
ASSUME NamesAssumption /\ SizesAssumption /\ TokensAssumption

-----------------------------------------------------------------------------
EvidenceInit ==
    /\ part \in {"fingerprint", "assess", "scoring", "deciding", "collecting", "reading"}
    /\ AssessInit /\ Deciding!Init /\ Reading!Init
    /\ IF part = "scoring" THEN Scoring!Init /\ scenario \in SomeScenarios
       ELSE factors = Flat(0) /\ scenario = "public_timeline" /\ doc = Risk!Missing
    /\ IF part = "collecting" THEN Collecting!Init /\ (host # {} => source = "host")
       ELSE host = {} /\ source = "host" /\ batch = <<>> /\ certificate = {}

EvidenceNext ==
    /\ UNCHANGED part
    /\ \/ part = "fingerprint" /\ Collect /\ SizesDiffer'
       \/ part = "assess" /\ AssessNext /\ IsRequested(evidence')
       \/ part \notin {"fingerprint", "assess"} /\ UNCHANGED assessVars
    /\ IF part = "scoring"    THEN Scoring!Next /\ scenario' \in SomeScenarios ELSE UNCHANGED riskVars
    /\ IF part = "deciding"   THEN Deciding!Next   ELSE UNCHANGED decisionVars
    /\ IF part = "collecting" THEN Collecting!Next ELSE UNCHANGED hostVars
    /\ IF part = "reading"    THEN Reading!Next /\ TwoBlocks' ELSE UNCHANGED formVars

EvidenceSpec ==
    EvidenceInit /\ [][EvidenceNext]_<<part, assessVars, riskVars, decisionVars, hostVars, formVars>>

=============================================================================
