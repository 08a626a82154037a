---------------------------- MODULE Fingerprint -----------------------------
(***************************************************************************)
(* crypto-fingerprint-service: what the algorithm names in the evidence of *)
(* an asset mean for its quantum risk.                                     *)
(*                                                                         *)
(* The service knows a name only by the tokens it finds in it (substring   *)
(* test on the name without case and punctuation).  TokensIn is that test; *)
(* it also finds what nobody meant, like the EC in AES-128-ECB, and        *)
(* nothing in a name that the tables do not know, like HQC.                *)
(***************************************************************************)
EXTENDS Integers, Sequences, FiniteSets, FiniteSetsExt

CONSTANTS Names,     \* algorithm names that scanners report
          TokensIn,  \* TokensIn[n]: the tokens in the squashed name
          KeyNames,  \* bound: those that certificates hold
          Sizes,     \* key sizes in bits; 0: not given
          MaxPieces, \* bound: pieces of evidence in one payload
          None

NamesAssumption == KeyNames \subseteq Names /\ None \notin Names /\ DOMAIN TokensIn = Names
SizesAssumption == Sizes \subseteq Nat /\ 0 \in Sizes

(* _PUBLIC_KEY_FAMILIES: token, family, whether it is post-quantum, and     *)
(* hndl_capable.  The first token found in the name counts.                 *)
Pqc(t, f)           == [token |-> t, family |-> f, pqc |-> TRUE, hndl |-> FALSE]
Classical(t, f, hn) == [token |-> t, family |-> f, pqc |-> FALSE, hndl |-> hn]

PublicKeyFamilies ==
    << Pqc("MLKEM", "ML-KEM"), Pqc("KYBER", "ML-KEM"), Pqc("MLDSA", "ML-DSA"),
       Pqc("DILITHIUM", "ML-DSA"), Pqc("SLHDSA", "SLH-DSA"), Pqc("SPHINCS", "SLH-DSA"),
       Pqc("FALCON", "Falcon"), Pqc("FRODO", "FrodoKEM"),
       Classical("ECDSA", "ECDSA", FALSE), Classical("EDDSA", "EdDSA", FALSE),
       Classical("ED25519", "Ed25519", FALSE), Classical("ED448", "Ed448", FALSE),
       Classical("X25519", "X25519", TRUE), Classical("X448", "X448", TRUE),
       Classical("ECDH", "ECDH", TRUE), Classical("ECPUBLICKEY", "EC", TRUE),
       Classical("RSASSA", "RSA", TRUE), Classical("RSAPSS", "RSA", TRUE),
       Classical("RSA", "RSA", TRUE), Classical("DSA", "DSA", FALSE),
       Classical("DIFFIEHELLMAN", "DH", TRUE), Classical("DHE", "DH", TRUE),
       Classical("DH", "DH", TRUE), Classical("EC", "EC", TRUE) >>

WeakTokens      == {"MD5", "SHA1", "RC4", "TRIPLEDES", "3DES", "DES"}
SymmetricTokens == {"CHACHA", "AES"}
HashTokens      == {"SHA512", "SHA384", "SHA256", "SHA224", "SHA3"}
WeakRsaMinBits  == 2048

SeverityRank == [info |-> 0, low |-> 1, medium |-> 2, high |-> 3, critical |-> 4]
Rank(s)      == SeverityRank[s]

-----------------------------------------------------------------------------
(* classify_algorithm *)

Has(n, T) == TokensIn[n] \intersect T # {}

(* _find_public_key_family.                                                 *)
Found(n)           == {i \in DOMAIN PublicKeyFamilies : PublicKeyFamilies[i].token \in TokensIn[n]}
PublicKeyFamily(n) == Min(Found(n))
Family             == [n \in {m \in Names : Found(m) # {}} |-> PublicKeyFamilies[PublicKeyFamily(n)]]

(* Faulty: a broken hash or cipher in the name settles its class.           *)
WeakFirst(n)   == n \in DOMAIN Family /\ ~Has(n, WeakTokens)
IsPublicKey(n) == n \in DOMAIN Family

Class ==
    [n \in Names |->
        CASE IsPublicKey(n)          -> IF Family[n].pqc THEN "pqc_ready" ELSE "classical_vulnerable"
          [] ~IsPublicKey(n) /\ Has(n, WeakTokens) -> "deprecated_weak"
          [] OTHER -> IF Has(n, SymmetricTokens) THEN "symmetric_reduced"
                      ELSE IF Has(n, HashTokens) THEN "hash" ELSE "unknown"]

WeakKey(n, bits) == Family[n].family = "RSA" /\ bits > 0 /\ bits < WeakRsaMinBits

(* Only what is exchanged or transported can be harvested.                  *)
Harvest(n, usage)  == usage \in {"public_key", "explicit"} /\ Family[n].hndl

SeverityOf(n, bits) ==
    CASE Class[n] \in {"pqc_ready", "hash"}             -> "info"
      [] Class[n] \in {"symmetric_reduced", "unknown"}  -> "low"
      [] Class[n] = "deprecated_weak"                   -> "high"
      [] OTHER -> IF WeakKey(n, bits) \/ Has(n, WeakTokens) THEN "critical" ELSE "high"

Classify(n, usage, bits) ==
    LET classical == Class[n] = "classical_vulnerable"
    IN [source |-> usage, value |-> n, class |-> Class[n],
        hndl |-> classical /\ Harvest(n, usage), weak_key |-> classical /\ WeakKey(n, bits),
        severity |-> SeverityOf(n, bits)]

-----------------------------------------------------------------------------
(* extract_findings *)

VARIABLE evidence  \* the payload of POST /fingerprint, as it is put together

vars == <<evidence>>

(* _certificate_algorithms: the nested names, if there is a nested block,   *)
(* hide the flat ones; the sizes are looked up one after the other.         *)
NoForm      == [public_key |-> None, signature |-> None]
AnyForm     == [public_key : KeyNames \union {None}, signature : KeyNames \union {None}]
KeySize(e)  == IF e.nested_size # 0 THEN e.nested_size ELSE e.flat_size
NamesOf(e)  == IF e.nested # None THEN e.nested ELSE e.flat

CertificateFindings(e) ==
    {Classify(NamesOf(e)[u], u, KeySize(e)) : u \in {v \in DOMAIN NoForm : NamesOf(e)[v] # None}}

CipherFindings(e) == {Classify(n, "cipher", 0) : n \in {e.cipher_suite} \ {None}}
ListedFindings(e) == {Classify(n, "explicit", 0) : n \in e.algorithms}

(* Packages, signing commands of a pipeline, keys found in a repository.    *)
Others == {"package", "signing_command", "embedded_key"}
Unnamed(source, weak, severity) ==
    [source |-> source, value |-> None, class |-> "unknown", hndl |-> FALSE,
     weak_key |-> weak, severity |-> severity]
RepositoryFindings(e) ==
    {IF s = "embedded_key" THEN Unnamed(s, TRUE, "critical") ELSE Unnamed(s, FALSE, "info") : s \in e.others}

Findings(e) == CertificateFindings(e) \union CipherFindings(e)
                   \union ListedFindings(e) \union RepositoryFindings(e)

-----------------------------------------------------------------------------
(* summarize *)

Of(F, c) == {f \in F : f.class = c}

ReadinessOf(F) ==
    LET vulnerable == Of(F, "classical_vulnerable") # {}
        pqc        == Of(F, "pqc_ready") # {}
    IN CASE vulnerable /\ pqc  -> "hybrid_partial"
         [] vulnerable /\ ~pqc -> "classical_only"
         [] ~vulnerable /\ pqc -> "pqc_ready"
         [] ~vulnerable /\ ~pqc ->
                IF F \ Of(F, "unknown") # {} THEN "no_quantum_vulnerable_detected" ELSE "unknown"

HighestSeverity(F) == IF F = {} THEN "info"
                      ELSE (CHOOSE f \in F : \A g \in F : Rank(g.severity) <= Rank(f.severity)).severity

Summary(F) ==
    [total |-> Cardinality(F), vulnerable |-> Cardinality(Of(F, "classical_vulnerable")),
     pqc |-> Cardinality(Of(F, "pqc_ready")),
     weak |-> Cardinality(Of(F, "deprecated_weak") \union {f \in F : f.weak_key}),
     hndl |-> \E f \in F : f.hndl, highest |-> HighestSeverity(F), readiness |-> ReadinessOf(F)]

-----------------------------------------------------------------------------
(* Evidence comes in piece by piece; each payload is judged on its own.     *)

Pieces(e) == Cardinality(e.algorithms) + Cardinality(e.others)
                 + (IF e.cipher_suite = None THEN 0 ELSE 1)
                 + (IF e.nested = None /\ e.flat = NoForm THEN 0 ELSE 1)

Init == evidence = [nested |-> None, flat |-> NoForm, nested_size |-> 0, flat_size |-> 0,
                    cipher_suite |-> None, algorithms |-> {}, others |-> {}]

Certificate ==
    /\ evidence.nested = None /\ evidence.flat = NoForm
    /\ \E n \in AnyForm \union {None}, f \in AnyForm, ns, fs \in Sizes :
          /\ n = None \/ f = NoForm \/ n = f
          /\ evidence' = [evidence EXCEPT !.nested = n, !.flat = f,
                                          !.nested_size = ns, !.flat_size = fs]

Cipher == /\ evidence.cipher_suite = None
          /\ \E n \in Names : evidence' = [evidence EXCEPT !.cipher_suite = n]

Algorithm == \E n \in Names : evidence' = [evidence EXCEPT !.algorithms = @ \union {n}]

Other == \E s \in Others :
            evidence' = [evidence EXCEPT !.others = @ \union {s}]

Next == /\ Pieces(evidence) < MaxPieces
        /\ Certificate \/ Cipher \/ Algorithm \/ Other

Spec == Init /\ [][Next]_vars

-----------------------------------------------------------------------------
(* The tokens of the tables: one of a post-quantum algorithm counts before  *)
(* any other, one of a classical public-key algorithm before the rest.      *)
PqcFamilies     == {i \in DOMAIN PublicKeyFamilies : PublicKeyFamilies[i].pqc}
PqcTokens       == {PublicKeyFamilies[i].token : i \in PqcFamilies}
ClassicalTokens == {PublicKeyFamilies[i].token : i \in DOMAIN PublicKeyFamilies \ PqcFamilies}

ReadsAsPqc(n)       == Has(n, PqcTokens)
ReadsAsClassical(n) == Has(n, ClassicalTokens) /\ ~Has(n, PqcTokens)
IsKnown(n)          == ReadsAsPqc(n) \/ ReadsAsClassical(n)
                           \/ Has(n, WeakTokens \union SymmetricTokens \union HashTokens)

(* Of the substring test only this is assumed: what contains RSASSA or      *)
(* RSAPSS contains RSA.                                                     *)
TokensAssumption == \A n \in Names : Has(n, {"RSASSA", "RSAPSS"}) => Has(n, {"RSA"})

F  == Findings(evidence)

(* "Ordered most-specific-first.  The first token found in the squashed     *)
(* value wins": a public key is never overlooked for the hash or the cipher *)
(* in its name, nor a post-quantum signature (ML-DSA) taken for the         *)
(* classical one whose name it contains; and a name that no table knows     *)
(* (HQC, ElGamal) is unknown, never good news.                              *)
NamesAreClassed ==
    \A f \in F : f.value # None =>
        /\ f.class = "pqc_ready" <=> ReadsAsPqc(f.value)
        /\ f.class = "classical_vulnerable" <=> ReadsAsClassical(f.value)
        /\ f.class = "unknown" <=> ~IsKnown(f.value)

(* What the verdict on a payload stands on (summarize): every name that is  *)
(* reported anywhere in it, in the certificate, the cipher suite or the     *)
(* list, has its say, and nothing else has.  So a payload is not cleared    *)
(* while a known vulnerable name is in it; names that no table knows do not *)
(* count, for better or worse.                                              *)
Reported(e) == ({e.cipher_suite} \union e.algorithms
                   \union {NamesOf(e)[u] : u \in DOMAIN NoForm}) \ {None}

VerdictIsEarned ==
    LET verdict == Summary(F).readiness
        names   == Reported(evidence)
    IN /\ verdict \in {"classical_only", "hybrid_partial"} <=> \E n \in names : ReadsAsClassical(n)
       /\ verdict \in {"pqc_ready", "hybrid_partial"} <=> \E n \in names : ReadsAsPqc(n)
       /\ verdict = "unknown" <=> \A n \in names : ~IsKnown(n)

(* README "Flags weak keys (RSA < 2048)": a short elliptic-curve key is not *)
(* a weak one, although its size is read from the same certificate fields.  *)
OnlyRsaIsShort ==
    \A f \in F : f.weak_key /\ f.value # None => "RSA" \in TokensIn[f.value] /\ KeySize(evidence) < 2048

(* Each further piece of evidence leaves the verdict as it was or makes it  *)
(* worse: no severity, count or exposure that was reported goes away.       *)
OnlyWorsens ==
    Pieces(evidence') > Pieces(evidence) =>
        LET s == Summary(Findings(evidence))
            t == Summary(Findings(evidence'))
        IN /\ Rank(s.highest) <= Rank(t.highest)
           /\ s.hndl => t.hndl
           /\ s.vulnerable <= t.vulnerable /\ s.weak <= t.weak
           /\ s.vulnerable > 0 => t.readiness \in {"classical_only", "hybrid_partial"}

(* A certificate is not exposed to harvesting by its signature, nor by the  *)
(* cipher suite: without a key of its own, and without listed algorithms,   *)
(* nothing is (classify_algorithm: "HNDL only applies to confidentiality    *)
(* primitives").                                                            *)
ExposureNeedsAKey ==
    Summary(F).hndl => NamesOf(evidence).public_key # None \/ evidence.algorithms # {}

(* A payload is well-formed, and lists finitely many names.                 *)
TypeOK ==
    /\ evidence \in [nested : AnyForm \union {None}, flat : AnyForm, nested_size : Sizes,
                     flat_size : Sizes, cipher_suite : Names \union {None},
                     algorithms : SUBSET Names, others : SUBSET Others]
    /\ IsFiniteSet(evidence.algorithms)

(* Names are classed by the first token that counts, the verdict stands on  *)
(* all that is reported, a weak key is a short RSA key, and nothing is      *)
(* exposed without a key (classify_algorithm, extract_findings, summarize). *)
FindingsAreRight == /\ TypeOK
                    /\ NamesAreClassed /\ VerdictIsEarned
                    /\ OnlyRsaIsShort /\ ExposureNeedsAKey
=============================================================================
