------------------------------ MODULE RiskScore ------------------------------
(***************************************************************************)
(* risk-engine: what POST /score computes of the factors of an asset and   *)
(* the evidence of it.                                                     *)
(*                                                                         *)
(* Arithmetic is exact: a factor is a number of thousandths, a base score  *)
(* of 1/20000 (the weights are multiples of 0.05), a final score of        *)
(* 1/2000000 (multipliers of 0.01); 2000000 of them are one point, so a    *)
(* normalized score (20 times the final one) is a number of 1/100000.      *)
(***************************************************************************)
EXTENDS Integers, FiniteSets

Factors == {"criticality", "confidentiality_lifetime", "quantum_exposure",
            "blast_radius", "vendor_lock_in", "migration_difficulty"}

MaxFactor     == 5000       \* 5
MaxNormalized == 10000000   \* 100
MaxDimension  == 100000     \* 100

ScenarioMultiplier == [public_timeline |-> 100, early_break |-> 120, hidden_capability |-> 135,
                       hndl_active_now |-> 140, partial_break |-> 110, vendor_lag |-> 115,
                       compliance_pressure |-> 118]

(* EVIDENCE_SIGNAL_WEIGHTS and WINDOWS_SIGNAL_WEIGHTS, in points.           *)
EvidenceWeight ==
    [crypto_packages |-> 3, certificate_files |-> 5, private_key_files |-> 10, tls_config |-> 4,
     ssh_config |-> 3, tls |-> 4, weak_public_key |-> 15, expiring_certificate |-> 8,
     certificate_chain |-> 2, weak_ssh_kex |-> 6, legacy_ssh_host_key |-> 8,
     weak_ssh_cipher |-> 4, weak_ssh_mac |-> 3, embedded_private_key |-> 12,
     ci_signing_command |-> 3, weak_ipsec_encryption |-> 6, weak_ipsec_integrity |-> 3,
     weak_ipsec_prf |-> 4, legacy_ipsec_dh_group |-> 8, ad_weak_template |-> 10,
     ad_ca_expiring |-> 8, ad_large_estate |-> 3]
WindowsWeight ==
    [windows_expired |-> 8, windows_weak_signature |-> 6, windows_dc |-> 5,
     windows_large_estate |-> 3, windows_crypto_services |-> 2]

-----------------------------------------------------------------------------
(* The evidence: fields of the request's blocks, 0 or {} when missing.      *)

(* Counts and flags (0 or 1), with the least value that makes the signal.   *)
Least ==
    [s \in {"crypto_packages", "certificate_files", "private_key_files", "tls_config", "ssh_config",
            "tls", "embedded_private_key", "ci_signing_command", "ad_ca_expiring", "ad_large_estate",
            "windows_expired", "windows_weak_signature", "windows_dc", "windows_large_estate",
            "windows_crypto_services"} |->
        IF s = "ad_large_estate" THEN 20 ELSE IF s = "windows_large_estate" THEN 50 ELSE 1]

(* What a server offers, or selects, and the names that count as weak.      *)
Weak == [kex |-> {"diffie-hellman-group1-sha1", "diffie-hellman-group14-sha1",
                  "diffie-hellman-group-exchange-sha1"},
         host_key |-> {"ssh-rsa", "ssh-dss"},
         cipher |-> {"3des-cbc", "des-cbc", "arcfour", "arcfour128", "arcfour256",
                     "blowfish-cbc", "cast128-cbc"},
         mac |-> {"hmac-md5", "hmac-md5-96", "hmac-sha1", "hmac-sha1-96"},
         encryption |-> {"DES-IV64", "DES", "3DES", "NULL"},
         integrity |-> {"HMAC-MD5-96", "DES-MAC", "KPDK-MD5", "HMAC-SHA1-96"},
         prf |-> {"HMAC-MD5", "HMAC-SHA1"}, dh_group |-> {"768-bit MODP", "1024-bit MODP"}]

(* The fields each of those signals looks at: ciphers and MACs of SSH in    *)
(* both directions.                                                         *)
Offered ==
    [weak_ssh_kex |-> <<"kex", {"kex"}>>, legacy_ssh_host_key |-> <<"host_key", {"host_key"}>>,
     weak_ssh_cipher |-> <<"cipher", {"cipher_to_server", "cipher_to_client"}>>,
     weak_ssh_mac |-> <<"mac", {"mac_to_server", "mac_to_client"}>>,
     weak_ipsec_encryption |-> <<"encryption", {"encryption"}>>,
     weak_ipsec_integrity |-> <<"integrity", {"integrity"}>>,
     weak_ipsec_prf |-> <<"prf", {"prf"}>>, legacy_ipsec_dh_group |-> <<"dh_group", {"dh_group"}>>]

Lists   == UNION {Offered[s][2] : s \in DOMAIN Offered}
Windows == DOMAIN WindowsWeight
Crypto  == {"crypto_packages", "certificate_files", "private_key_files", "tls_config", "ssh_config",
            "embedded_private_key", "ci_signing_command", "ad_ca_expiring", "ad_large_estate",
            "ad_weak_key_templates", "ad_weak_signature_templates"}

(* rsa_bits: size of an RSA key; expires_in: days, -1: no date; chain: its  *)
(* length if it is available; notes: the words that stage2_notes mentions;  *)
(* production: 0 no environment, 1 some other, 2 production.                *)
Numbers == DOMAIN Least \union Crypto \union {"rsa_bits", "chain", "dependency_count",
                                              "vendor_blocked", "production"}
Fields  == Numbers \union Lists \union {"expires_in", "notes"}
Missing == [f \in Fields |-> IF f \in Lists \union {"notes"} THEN {}
                             ELSE IF f = "expires_in" THEN -1 ELSE 0]

(* extract_stage2_signals.                                                  *)
Detected(d, s) ==
    \/ s \in DOMAIN Least /\ d[s] >= Least[s]
    \/ s \in DOMAIN Offered /\ \E f \in Offered[s][2] : d[f] \intersect Weak[Offered[s][1]] # {}
    \/ s = "weak_public_key" /\ 0 < d.rsa_bits /\ d.rsa_bits < 2048
    \/ s = "expiring_certificate" /\ d.expires_in \in 0 .. 90
    \/ s = "certificate_chain" /\ d.chain > 0
    \/ s = "ad_weak_template" /\ (d.ad_weak_key_templates > 0 \/ d.ad_weak_signature_templates > 0)

Signals(d) == {s \in DOMAIN EvidenceWeight \union Windows : Detected(d, s)}

(* What the signals are worth together: a table gives each its points.      *)
Points(table, S)  == UNION {{s} \X (1 .. table[s]) : s \in S \intersect DOMAIN table}
SumOver(table, S) == Cardinality(Points(table, S))

-----------------------------------------------------------------------------
(* calculate_base_score, calculate_stage2_adjustment, score                 *)

BaseScore(p) == 5 * p.criticality + 4 * p.confidentiality_lifetime + 4 * p.quantum_exposure
                + 3 * p.blast_radius + 2 * p.vendor_lock_in + 2 * p.migration_difficulty

AtLeast(x, low)  == IF x < low THEN low ELSE x
AtMost(x, high)  == IF x > high THEN high ELSE x

Hints(d) == (IF d.vendor_blocked > 0 THEN 20 ELSE 0) + (IF d.dependency_count >= 10 THEN 15 ELSE 0)
            + (IF "hndl" \in d.notes THEN 10 ELSE 0) - (IF "plan" \in d.notes THEN 10 ELSE 0)

(* In hundredths of a point.                                                *)
RawAdjustment(d) == LET signals == Signals(d)
                    IN Hints(d) + 100 * SumOver(EvidenceWeight, signals)
                                + 100 * SumOver(WindowsWeight, signals)
Adjustment(d)    == AtLeast(RawAdjustment(d), 0)

Normalized(p, sc, d) == AtMost(BaseScore(p) * ScenarioMultiplier[sc] + 20000 * Adjustment(d), MaxNormalized)

Rating(n) == IF n >= 8000000 THEN "critical" ELSE IF n >= 6000000 THEN "high"
             ELSE IF n >= 4000000 THEN "medium" ELSE IF n >= 2000000 THEN "low" ELSE "minimal"

(* calculate_confidence_score.                                              *)
Worth(condition, n) == IF condition THEN n ELSE 0

Confidence(p, d) ==
    LET raw == 50 + Worth(p.criticality > 0, 10) + Worth(d.production > 0, 10)
                  + Worth(Signals(d) \intersect DOMAIN EvidenceWeight # {}, 10)
                  + Worth(d.tls > 0, 10) + Worth(\E f \in Crypto : d[f] > 0, 10)
                  + Worth(\E f \in Windows : d[f] > 0, 10)
                  + Worth(d.chain > 0, 5) + Worth(d.notes # {}, 5)
    IN AtLeast(AtMost(raw, 100), 0)

(* calculate_risk_dimensions, in thousandths.                               *)
ExposureOf   == [tls |-> 10, tls_config |-> 8, ssh_config |-> 6, weak_ssh_kex |-> 8,
                 legacy_ssh_host_key |-> 8, legacy_ipsec_dh_group |-> 8, ad_weak_template |-> 8,
                 windows_dc |-> 10]
ImpactOf     == [windows_dc |-> 10]
UrgencyOf    == [expiring_certificate |-> 45, weak_public_key |-> 30, private_key_files |-> 25,
                 embedded_private_key |-> 25, ad_weak_template |-> 25, ad_ca_expiring |-> 40,
                 windows_expired |-> 40, windows_weak_signature |-> 25]
ComplexityOf == [certificate_files |-> 10, private_key_files |-> 15, embedded_private_key |-> 15,
                 ci_signing_command |-> 10, ad_weak_template |-> 20, ad_large_estate |-> 15,
                 windows_large_estate |-> 15, windows_dc |-> 10]

(* _cap_score.                                                              *)
CapScore(x)  == AtLeast(AtMost(x, MaxDimension), 0)

Dimensions(p, d) ==
    LET signals == Signals(d) IN
    [exposure  |-> CapScore(20 * p.quantum_exposure + 1000 * SumOver(ExposureOf, signals)),
     impact    |-> CapScore(20 * p.criticality + Worth(d.production = 2, 10000)
                            + 1000 * SumOver(ImpactOf, signals)),
     urgency   |-> CapScore(1000 * SumOver(UrgencyOf, signals)),
     migration_complexity |-> CapScore(AtMost(4000 * d.dependency_count, 70000)
                            + Worth(d.vendor_blocked > 0, 20000)
                            + 1000 * SumOver(ComplexityOf, signals))]
=============================================================================
