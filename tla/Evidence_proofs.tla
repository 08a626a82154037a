--------------------------- MODULE Evidence_proofs ---------------------------
(***************************************************************************)
(* Proofs about the services that judge evidence, for every set of names,  *)
(* key sizes and documents: the readers of a certificate agree, the        *)
(* fingerprint overlooks nothing that its names say, the answers of POST   *)
(* /api/assess are whole and do not contradict themselves, scores and      *)
(* verdicts keep their bounds and agree, and more evidence never makes     *)
(* anything look better.                                                   *)
(***************************************************************************)
EXTENDS Evidence, FiniteSetTheorems, WellFoundedInduction, TLAPS

-----------------------------------------------------------------------------
(* The readers of one certificate *)

(* The only element of a block.                                             *)
LEMMA OnlyOf == \A x : Reading!Only({x}) = x
BY DEF Reading!Only

LEMMA OnlyIn ==
    ASSUME NEW b, Reading!AtMostOne(b), b # {}
    PROVE  b = {Reading!Only(b)}
<1>1. PICK x : x \in b
    OBVIOUS
<1>2. b = {x}
    BY <1>1 DEF Reading!AtMostOne
<1> QED
    BY <1>2, OnlyOf

LEMMA FormsInit ==
    ASSUME Reading!EvidenceAssumption, Reading!Init
    PROVE  Reading!TypeOK
BY DEF Reading!EvidenceAssumption, Reading!Init, Reading!TypeOK, Reading!AtMostOne,
       Reading!Amount

LEMMA FormsStep ==
    ASSUME Reading!EvidenceAssumption, Reading!TypeOK, [Reading!Next]_(Reading!vars)
    PROVE  Reading!TypeOK'
<1>1. CASE Reading!Certificate
  <2>1. PICK names \in Reading!AlgorithmNames, k \in Reading!Amount, s \in Reading!Amount,
             nested \in BOOLEAN, keyed \in BOOLEAN, until \in BOOLEAN :
             form_certificate' = {[algorithms |-> IF nested THEN {names} ELSE {},
                                   key        |-> IF keyed THEN {k} ELSE {},
                                   validity   |-> IF until THEN {"soon"} ELSE {},
                                   flat       |-> IF nested THEN Reading!Missing.flat ELSE names,
                                   flat_size  |-> s,
                                   flat_until |-> IF until THEN None ELSE "soon"]}
    BY <1>1 DEF Reading!Certificate
  <2> DEFINE flat == IF nested THEN Reading!Missing.flat ELSE names
             c == [algorithms |-> IF nested THEN {names} ELSE {},
                   key |-> IF keyed THEN {k} ELSE {},
                   validity |-> IF until THEN {"soon"} ELSE {},
                   flat |-> flat, flat_size |-> s,
                   flat_until |-> IF until THEN None ELSE "soon"]
  <2>2. form_certificate' = {c}
    BY <2>1
  <2>3. flat \in Reading!AlgorithmNames
    BY DEF Reading!AlgorithmNames, Reading!Missing
  <2>4. c \in [algorithms : SUBSET Reading!AlgorithmNames, key : SUBSET Reading!Amount,
               validity : SUBSET {"soon"}, flat : Reading!AlgorithmNames,
               flat_size : Reading!Amount, flat_until : {None, "soon"}]
    BY <2>3
  <2>5. Reading!AtMostOne(c.algorithms) /\ Reading!AtMostOne(c.key)
    BY DEF Reading!AtMostOne
  <2> HIDE DEF c
  <2>6. Reading!AtMostOne(form_certificate')
    BY <2>2 DEF Reading!AtMostOne
  <2>7. UNCHANGED <<tls, form_host>>
    BY <1>1 DEF Reading!Certificate
  <2> QED
    BY <2>2, <2>4, <2>5, <2>6, <2>7 DEF Reading!TypeOK
<1>2. CASE Reading!Handshake
    BY <1>2 DEF Reading!Handshake, Reading!TypeOK
<1>3. CASE Reading!Chain
  <2>1. PICK chain \in [length : Reading!Amount, fingerprints : {0, 2, Junk}] \union {Junk} :
             tls' = [tls EXCEPT !.chain = {chain}]
    BY <1>3 DEF Reading!Chain
  <2>2. tls' \in [collected : BOOLEAN \union {None}, port : Counts \union {None, Junk},
                  chain : SUBSET ([length : Reading!Amount, fingerprints : {0, 2, Junk}] \union {Junk})]
    BY <2>1 DEF Reading!TypeOK
  <2>3. tls'.chain = {chain}
    BY <2>1 DEF Reading!TypeOK
  <2>4. Reading!AtMostOne(tls'.chain)
    BY <2>3 DEF Reading!AtMostOne
  <2> QED
    BY <1>3, <2>2, <2>4 DEF Reading!Chain, Reading!TypeOK
<1>4. CASE Reading!HostScan
  <2>1. PICK packages \in Counts \union {Junk}, indicators \in {"object", Junk}, keys \in Reading!Amount :
             form_host' = [packages |-> {packages}, indicators |-> indicators,
                           keys |-> IF indicators = Junk THEN None ELSE keys]
    BY <1>4 DEF Reading!HostScan
  <2>2. (IF indicators = Junk THEN None ELSE keys) \in Reading!Amount
    BY DEF Reading!Amount
  <2>3. form_host' \in [packages : SUBSET (Counts \union {Junk}), indicators : {None, "object", Junk},
                        keys : Reading!Amount]
    BY <2>1, <2>2
  <2>4. Reading!AtMostOne(form_host'.packages)
    BY <2>1 DEF Reading!AtMostOne
  <2> QED
    BY <1>4, <2>3, <2>4 DEF Reading!HostScan, Reading!TypeOK
<1>5. CASE UNCHANGED Reading!vars
    BY <1>5 DEF Reading!vars, Reading!TypeOK
<1> QED
    BY <1>1, <1>2, <1>3, <1>4, <1>5 DEF Reading!Next

(* The size that a reader finds is that which the inventory moves, but for  *)
(* a key block without a size.                                              *)
LEMMA SizeIsMoved ==
    ASSUME Reading!TypeOK, NEW c \in form_certificate, c.key # {None}
    PROVE  Reading!SizeOf(c) = Reading!Nested(c.key, c.flat_size)
<1>1. Reading!AtMostOne(c.key)
    BY DEF Reading!TypeOK
<1>2. CASE c.key = {}
    BY <1>2 DEF Reading!SizeOf, Reading!Nested
<1>3. CASE c.key # {}
  <2>1. c.key = {Reading!Only(c.key)}
    BY <1>1, <1>3, OnlyIn
  <2>2. c.key \ {None} = c.key
    BY <2>1
  <2> QED
    BY <1>3, <2>2 DEF Reading!SizeOf, Reading!Nested
<1> QED
    BY <1>2, <1>3

LEMMA StoredIsFlat ==
    ASSUME NEW d \in Reading!Stored.certificate
    PROVE  \E c \in form_certificate : d = Reading!Flattened(c)
BY DEF Reading!Stored

LEMMA FlattenedIs ==
    ASSUME Reading!TypeOK, NEW c \in form_certificate
    PROVE  /\ Reading!Flattened(c).flat = Reading!Nested(c.algorithms, c.flat)
           /\ Reading!Flattened(c).flat_until = Reading!Nested(c.validity, c.flat_until)
           /\ Reading!Flattened(c).flat_size = Reading!Nested(c.key, c.flat_size)
<1>1. c \in [algorithms : SUBSET Reading!AlgorithmNames, key : SUBSET Reading!Amount,
            validity : SUBSET {"soon"}, flat : Reading!AlgorithmNames,
            flat_size : Reading!Amount, flat_until : {None, "soon"}]
    BY DEF Reading!TypeOK
<1> QED
    BY <1>1 DEF Reading!Flattened

LEMMA AgreeOnTheRest ==
    ASSUME Reading!EvidenceAssumption, Reading!TypeOK, ~Reading!Refused
    PROVE  /\ Reading!ChainSignal(Reading!Stored) => Reading!HasChain(tls.chain)
           /\ ~Reading!ScoringFails(Reading!Stored) =>
                 (Reading!KeyFilesSignal(Reading!Stored) <=> Reading!PrivateKeyIndicator)
<1>1. /\ Reading!Stored.chain = tls.chain \ {Junk}
      /\ Reading!Stored.indicators = form_host.indicators
      /\ Reading!Stored.keys = form_host.keys
    BY DEF Reading!Stored
<1>2. ASSUME NEW n \in tls.chain \ {Junk}, Reading!Number(n.length) \in Nat \ {0}
      PROVE  Reading!Number(n.length) # None /\ n.length > 0
    BY <1>2 DEF Reading!Number, Reading!EvidenceAssumption
<1>3. Reading!ChainSignal(Reading!Stored) => Reading!HasChain(tls.chain)
    BY <1>1, <1>2 DEF Reading!ChainSignal, Reading!HasChain
<1> QED
    BY <1>1, <1>3 DEF Reading!ScoringFails, Reading!KeyFilesSignal, Reading!PrivateKeyIndicator

LEMMA SameToAll ==
    ASSUME Reading!EvidenceAssumption, Reading!TypeOK, ~Reading!Refused,
           NEW c \in form_certificate, NEW d \in Reading!Stored.certificate
    PROVE  /\ Reading!Scored(d).names = Reading!Normalized(c).names
           /\ Reading!Scored(d).until = Reading!Normalized(c).until
           /\ Reading!Scored(d).size # Reading!Normalized(c).size =>
                 c.key = {None} /\ Reading!Scored(d).size = None
<1>1. d = Reading!Flattened(c)
    BY StoredIsFlat DEF Reading!TypeOK, Reading!AtMostOne
<1>2. /\ Reading!Scored(d).names = Reading!Normalized(c).names
      /\ Reading!Scored(d).until = Reading!Normalized(c).until
    BY <1>1, FlattenedIs DEF Reading!Scored, Reading!Normalized
<1>3. Reading!Scored(d).size = Reading!Number(Reading!Nested(c.key, c.flat_size))
    BY <1>1, FlattenedIs DEF Reading!Scored
<1>4. c.key # {None} => Reading!Scored(d).size = Reading!Normalized(c).size
    BY <1>3, SizeIsMoved DEF Reading!Normalized
<1>5. c.key = {None} => Reading!Scored(d).size = None
  <2> SUFFICES ASSUME c.key = {None} PROVE Reading!Scored(d).size = None
    OBVIOUS
  <2>1. Reading!Nested(c.key, c.flat_size) = None
    BY OnlyOf DEF Reading!Nested
  <2> QED
    BY <1>3, <2>1 DEF Reading!Number
<1> QED
    BY <1>2, <1>4, <1>5

LEMMA ReadersDoAgree ==
    ASSUME Reading!EvidenceAssumption, Reading!TypeOK
    PROVE  Reading!ReadersAgree
<1>1. \A c \in form_certificate : /\ Reading!Normalized(c).names = Reading!Fingerprinted(c).names
                                  /\ Reading!Normalized(c).size = Reading!Fingerprinted(c).size
    BY DEF Reading!Normalized, Reading!Fingerprinted
<1> QED
    BY <1>1, AgreeOnTheRest, SameToAll DEF Reading!ReadersAgree

(* A document that was normalized is read as the one it was made of.        *)
LEMMA CanonicalIsFixed ==
    ASSUME Reading!EvidenceAssumption
    PROVE  Reading!CanonicalIsReadAlike
<1> SUFFICES ASSUME NEW c \in form_certificate
             PROVE  LET n == Reading!Normalized(c) IN
                    /\ Reading!Fingerprinted(Reading!AsFlat(n)) = Reading!Fingerprinted(c)
                    /\ Reading!Scored(Reading!AsFlat(n)) = n
                    /\ Reading!Normalized(Reading!AsFlat(n)) = n
    BY DEF Reading!CanonicalIsReadAlike
<1> DEFINE n == Reading!Normalized(c)
           f == Reading!AsFlat(n)
<1>1. \A m : /\ Reading!AsFlat(m).flat = m.names /\ Reading!AsFlat(m).flat_size = m.size
             /\ Reading!AsFlat(m).flat_until = m.until
             /\ Reading!AsFlat(m).algorithms = {} /\ Reading!AsFlat(m).key = {}
             /\ Reading!AsFlat(m).validity = {}
    BY DEF Reading!AsFlat, Reading!Missing
<1>2. n = [names |-> Reading!Nested(c.algorithms, c.flat), size |-> Reading!Number(Reading!SizeOf(c)),
           until |-> Reading!Nested(c.validity, c.flat_until)]
    BY DEF Reading!Normalized
<1>3. Reading!Number(n.size) = n.size
    BY <1>2 DEF Reading!Number, Reading!EvidenceAssumption
<1>4. n = [names |-> n.names, size |-> n.size, until |-> n.until]
    BY <1>2
<1>5. Reading!Fingerprinted(c) = [names |-> n.names, size |-> n.size]
    BY <1>2 DEF Reading!Fingerprinted
<1> HIDE DEF n
<1>6. Reading!SizeOf(f) = n.size
    BY <1>1 DEF Reading!SizeOf
<1>7. Reading!Nested(f.algorithms, f.flat) = n.names /\ Reading!Nested(f.validity, f.flat_until) = n.until
    BY <1>1 DEF Reading!Nested
<1>8. Reading!Fingerprinted(f) = Reading!Fingerprinted(c)
    BY <1>3, <1>5, <1>6, <1>7 DEF Reading!Fingerprinted
<1>9. Reading!Scored(f) = n
    BY <1>1, <1>3, <1>4 DEF Reading!Scored
<1>10. Reading!Normalized(f) = n
    BY <1>3, <1>4, <1>6, <1>7 DEF Reading!Normalized
<1> QED
    BY <1>8, <1>9, <1>10 DEF n

LEMMA ShortKeysAreSignals ==
    ASSUME Reading!EvidenceAssumption, Reading!TypeOK
    PROVE  Reading!WeakKeysAreScored
<1> SUFFICES ASSUME NEW c \in form_certificate, ~Reading!Refused,
                    Reading!Fingerprinted(c).names.public_key = "RSA",
                    Reading!Fingerprinted(c).size \in 1 .. 2047, c.key # {None},
                    NEW d \in Reading!Stored.certificate
             PROVE  Reading!WeakKeySignal(d)
    BY DEF Reading!WeakKeysAreScored
<1>1. /\ Reading!Scored(d).names = Reading!Normalized(c).names
      /\ Reading!Scored(d).size = Reading!Normalized(c).size
    BY SameToAll
<1>2. d.flat.public_key = "RSA" /\ Reading!Number(d.flat_size) \in 1 .. 2047
    BY <1>1 DEF Reading!Scored, Reading!Normalized, Reading!Fingerprinted
<1> QED
    BY <1>2 DEF Reading!WeakKeySignal

(* Four services read the same certificate alike, in whatever mixture of    *)
(* the nested and the flat form it comes; the document that evidence-       *)
(* normalizer makes of it is read as it was; and a short RSA key of an      *)
(* accepted ingest is a signal (normalize_payload, _normalize_certificate,  *)
(* _certificate_algorithms, extract_stage2_signals).                        *)
THEOREM ReadersAgreeOnForms ==
    ASSUME Reading!EvidenceAssumption
    PROVE  Reading!Spec => []FormsAreReadAlike
<1>1. Reading!Spec => []Reading!TypeOK
  <2>1. Reading!Init => Reading!TypeOK
    BY FormsInit
  <2>2. Reading!TypeOK /\ [Reading!Next]_(Reading!vars) => Reading!TypeOK'
    BY FormsStep
  <2> QED
    BY <2>1, <2>2, PTL DEF Reading!Spec
<1>2. Reading!TypeOK => FormsAreReadAlike
    BY ReadersDoAgree, CanonicalIsFixed, ShortKeysAreSignals DEF FormsAreReadAlike
<1> QED
    BY <1>1, <1>2, PTL

-----------------------------------------------------------------------------
(* What the fingerprint makes of a name *)

(* The least of the places at which a token is found.                       *)
LEMMA MinIs ==
    ASSUME NEW S \in SUBSET Nat, S # {}
    PROVE  Min(S) \in S /\ \A m \in S : Min(S) <= m
<1> DEFINE R == OpToRel(<, Nat)
<1>1. PICK n \in S : \A m \in S : ~ (<<m, n>> \in R)
  <2>1. IsWellFoundedOn(R, Nat)
    BY NatLessThanWellFounded
  <2> HIDE DEF R
  <2> QED
    BY <2>1, WFMin, Zenon
<1>2. \A m \in S : ~ (m < n)
    BY <1>1 DEF OpToRel
<1>3. \A m \in S : n <= m
    BY <1>2
<1> QED
    BY <1>3 DEF Min

(* The table: the post-quantum tokens come first.                           *)
LEMMA TableIs ==
    /\ DOMAIN PublicKeyFamilies = 1 .. 24
    /\ PqcFamilies = 1 .. 8
    /\ \A i \in 1 .. 24 : PublicKeyFamilies[i].family = "RSA" =>
          PublicKeyFamilies[i].token \in {"RSASSA", "RSAPSS", "RSA"}
<1>1. DOMAIN PublicKeyFamilies = 1 .. 24
    BY DEF PublicKeyFamilies
<1>2. \A i \in 1 .. 24 : i <= 8 =>
          i = 1 \/ i = 2 \/ i = 3 \/ i = 4 \/ i = 5 \/ i = 6 \/ i = 7 \/ i = 8
    OBVIOUS
<1>3. \A i \in 1 .. 24 : i > 8 =>
          \/ i = 9 \/ i = 10 \/ i = 11 \/ i = 12 \/ i = 13 \/ i = 14 \/ i = 15 \/ i = 16
          \/ i = 17 \/ i = 18 \/ i = 19 \/ i = 20 \/ i = 21 \/ i = 22 \/ i = 23 \/ i = 24
    OBVIOUS
<1>4. \A i \in 1 .. 24 : i <= 8 => PublicKeyFamilies[i].pqc
    BY <1>2 DEF PublicKeyFamilies, Pqc, Classical
<1>5. \A i \in 1 .. 24 : i > 8 => ~PublicKeyFamilies[i].pqc
    BY <1>3 DEF PublicKeyFamilies, Pqc, Classical
<1>6. PqcFamilies = 1 .. 8
    BY <1>1, <1>4, <1>5 DEF PqcFamilies
<1>7. \A i \in 1 .. 24 : PublicKeyFamilies[i].family = "RSA" =>
          PublicKeyFamilies[i].token \in {"RSASSA", "RSAPSS", "RSA"}
    BY DEF PublicKeyFamilies, Pqc, Classical
<1> QED
    BY <1>1, <1>6, <1>7

LEMMA FamilyIs ==
    ASSUME NEW n \in DOMAIN Family
    PROVE  /\ n \in Names
           /\ PublicKeyFamily(n) \in Found(n) /\ \A i \in Found(n) : PublicKeyFamily(n) <= i
           /\ Family[n] = PublicKeyFamilies[PublicKeyFamily(n)]
<1>1. n \in Names /\ Found(n) # {} /\ Family[n] = PublicKeyFamilies[PublicKeyFamily(n)]
    BY DEF Family
<1>2. Found(n) \in SUBSET Nat
    BY TableIs DEF Found
<1> QED
    BY <1>1, <1>2, MinIs DEF PublicKeyFamily

(* The family is post-quantum as soon as one token in the name is.          *)
LEMMA PqcCountsFirst ==
    ASSUME NEW n \in Names
    PROVE  /\ n \in DOMAIN Family <=> Has(n, PqcTokens) \/ Has(n, ClassicalTokens)
           /\ n \in DOMAIN Family => (Family[n].pqc <=> Has(n, PqcTokens))
<1>1. /\ Has(n, PqcTokens) <=> \E i \in Found(n) : i \in 1 .. 8
      /\ Has(n, ClassicalTokens) <=> \E i \in Found(n) : i \notin 1 .. 8
    BY TableIs DEF Has, PqcTokens, ClassicalTokens, Found
<1>2. n \in DOMAIN Family <=> Found(n) # {}
    BY DEF Family
<1>3. n \in DOMAIN Family <=> Has(n, PqcTokens) \/ Has(n, ClassicalTokens)
    BY <1>1, <1>2
<1>4. ASSUME n \in DOMAIN Family
      PROVE  Family[n].pqc <=> Has(n, PqcTokens)
  <2>1. PICK m \in Found(n) : (\A i \in Found(n) : m <= i) /\ Family[n] = PublicKeyFamilies[m]
    BY <1>4, FamilyIs
  <2>2. \A i \in Found(n) : i \in 1 .. 24
    BY TableIs DEF Found
  <2>3. m \in 1 .. 8 <=> \E i \in Found(n) : i \in 1 .. 8
    BY <2>1, <2>2
  <2>4. Family[n].pqc <=> m \in 1 .. 8
    BY <2>1, <2>2, TableIs DEF PqcFamilies
  <2> QED
    BY <1>1, <2>3, <2>4
<1> QED
    BY <1>3, <1>4

LEMMA ClassIs ==
    ASSUME NEW n \in Names
    PROVE  /\ Class[n] = "classical_vulnerable" <=> n \in DOMAIN Family /\ ~Family[n].pqc
           /\ Class[n] = "pqc_ready" <=> n \in DOMAIN Family /\ Family[n].pqc
<1>1. CASE IsPublicKey(n)
  <2>1. Class[n] = IF Family[n].pqc THEN "pqc_ready" ELSE "classical_vulnerable"
    BY <1>1 DEF Class
  <2> QED
    BY <1>1, <2>1 DEF IsPublicKey
<1>2. CASE ~IsPublicKey(n)
  <2>1. Class[n] \in {"deprecated_weak", "symmetric_reduced", "hash", "unknown"}
    BY <1>2 DEF Class
  <2> QED
    BY <1>2, <2>1 DEF IsPublicKey
<1> QED
    BY <1>1, <1>2

(* The class of a name by its tokens.                                       *)
LEMMA ClassByTokens ==
    ASSUME NEW n \in Names
    PROVE  /\ Class[n] = "pqc_ready" <=> ReadsAsPqc(n)
           /\ Class[n] = "classical_vulnerable" <=> ReadsAsClassical(n)
           /\ Class[n] = "unknown" <=> ~IsKnown(n)
<1>1. /\ Class[n] = "pqc_ready" <=> ReadsAsPqc(n)
      /\ Class[n] = "classical_vulnerable" <=> ReadsAsClassical(n)
    BY PqcCountsFirst, ClassIs DEF ReadsAsPqc, ReadsAsClassical
<1>2. IsPublicKey(n) <=> ReadsAsPqc(n) \/ ReadsAsClassical(n)
    BY PqcCountsFirst DEF ReadsAsPqc, ReadsAsClassical, IsPublicKey
<1>3. Has(n, WeakTokens \union SymmetricTokens \union HashTokens)
          <=> Has(n, WeakTokens) \/ Has(n, SymmetricTokens) \/ Has(n, HashTokens)
    BY DEF Has
<1>4. CASE IsPublicKey(n)
  <2>1. Class[n] \in {"pqc_ready", "classical_vulnerable"}
    BY <1>1, <1>2, <1>4
  <2> QED
    BY <1>1, <1>2, <1>4, <2>1 DEF IsKnown
<1>5. CASE ~IsPublicKey(n) /\ Has(n, WeakTokens)
  <2>1. Class[n] = "deprecated_weak"
    BY <1>5 DEF Class
  <2> QED
    BY <1>1, <1>3, <1>5, <2>1 DEF IsKnown
<1>6. CASE ~IsPublicKey(n) /\ ~Has(n, WeakTokens)
  <2>1. Class[n] = IF Has(n, SymmetricTokens) THEN "symmetric_reduced"
                   ELSE IF Has(n, HashTokens) THEN "hash" ELSE "unknown"
    BY <1>6 DEF Class
  <2>2. Class[n] = "unknown" <=> ~Has(n, SymmetricTokens) /\ ~Has(n, HashTokens)
    BY <2>1
  <2> QED
    BY <1>1, <1>2, <1>3, <1>6, <2>2 DEF IsKnown
<1> QED
    BY <1>4, <1>5, <1>6

-----------------------------------------------------------------------------
(* The fingerprint's findings *)

(* Where a finding comes from: a name read in one of four usages, which is  *)
(* listed if its usage is, or something without a name.                     *)
Usages == {"public_key", "signature", "cipher", "explicit"}

Named(e, f) ==
    \E n \in Names, u \in Usages :
        /\ f = Classify(n, u, IF u \in {"public_key", "signature"} THEN KeySize(e) ELSE 0)
        /\ u = "explicit" => n \in e.algorithms
        /\ u = "public_key" => NamesOf(e).public_key # None
        /\ n \in Reported(e)
Nameless(f) == /\ f.source \in Others /\ f.value = None
               /\ f.class = "unknown" /\ f.hndl = FALSE

LEMMA FormsAreNames ==
    ASSUME NamesAssumption, TypeOK
    PROVE  NamesOf(evidence) \in AnyForm
BY DEF TypeOK, NamesOf

LEMMA FindingIs ==
    ASSUME NamesAssumption, TypeOK, NEW f \in Findings(evidence)
    PROVE  Named(evidence, f) \/ Nameless(f)
<1>1. CASE f \in CertificateFindings(evidence)
  <2>1. PICK u \in DOMAIN NoForm : /\ NamesOf(evidence)[u] # None
                                   /\ f = Classify(NamesOf(evidence)[u], u, KeySize(evidence))
    BY <1>1 DEF CertificateFindings
  <2>2. u \in {"public_key", "signature"}
    BY DEF NoForm
  <2>3. NamesOf(evidence)[u] \in Names
    BY <2>1, <2>2, FormsAreNames DEF AnyForm, NamesAssumption
  <2>4. u = "public_key" => NamesOf(evidence).public_key # None
    BY <2>1
  <2>5. NamesOf(evidence)[u] \in Reported(evidence)
    BY <2>1 DEF Reported
  <2> QED
    BY <2>1, <2>2, <2>3, <2>4, <2>5 DEF Named, Usages
<1>2. CASE f \in CipherFindings(evidence)
  <2>1. /\ evidence.cipher_suite \in Names /\ f = Classify(evidence.cipher_suite, "cipher", 0)
        /\ evidence.cipher_suite \in Reported(evidence)
    BY <1>2 DEF CipherFindings, TypeOK, Reported
  <2> QED
    BY <2>1 DEF Named, Usages
<1>3. CASE f \in ListedFindings(evidence)
  <2>1. PICK n \in evidence.algorithms : f = Classify(n, "explicit", 0)
    BY <1>3 DEF ListedFindings
  <2>2. n \in Names /\ n \in Reported(evidence)
    BY DEF TypeOK, Reported, NamesAssumption
  <2> QED
    BY <2>1, <2>2 DEF Named, Usages
<1>4. CASE f \in RepositoryFindings(evidence)
  <2>1. PICK s \in evidence.others :
            f = IF s = "embedded_key" THEN Unnamed(s, TRUE, "critical") ELSE Unnamed(s, FALSE, "info")
    BY <1>4 DEF RepositoryFindings
  <2>2. s \in Others
    BY DEF TypeOK
  <2> QED
    BY <2>1, <2>2 DEF Nameless, Unnamed
<1> QED
    BY <1>1, <1>2, <1>3, <1>4 DEF Findings

(* What Classify says that the properties need; the severity is left out.   *)
LEMMA ClassifyIs ==
    ASSUME NEW n \in Names, NEW u, NEW bits
    PROVE  LET f == Classify(n, u, bits)
           IN /\ f.source = u /\ f.value = n /\ f.class = Class[n]
              /\ f.hndl => Harvest(n, u)
              /\ f.weak_key => n \in DOMAIN Family /\ WeakKey(n, bits)
<1>1. Class[n] = "classical_vulnerable" => n \in DOMAIN Family
    BY ClassIs
<1> QED
    BY <1>1 DEF Classify

(* And every reported name has a finding.                                   *)
LEMMA ReportedIsFound ==
    ASSUME NamesAssumption, TypeOK, NEW n \in Reported(evidence)
    PROVE  n \in Names /\ \E f \in Findings(evidence) : f.value = n /\ f.class = Class[n]
<1>1. CASE n = evidence.cipher_suite
  <2>1. n \in Names /\ Classify(n, "cipher", 0) \in Findings(evidence)
    BY <1>1 DEF TypeOK, Reported, Findings, CipherFindings
  <2> QED
    BY <2>1 DEF Classify
<1>2. CASE n \in evidence.algorithms
  <2>1. n \in Names /\ Classify(n, "explicit", 0) \in Findings(evidence)
    BY <1>2 DEF TypeOK, Findings, ListedFindings
  <2> QED
    BY <2>1 DEF Classify
<1>3. ASSUME NEW u \in DOMAIN NoForm, n = NamesOf(evidence)[u]
      PROVE  n \in Names /\ \E f \in Findings(evidence) : f.value = n /\ f.class = Class[n]
  <2>1. n # None
    BY DEF Reported
  <2>2. n \in Names
    BY <1>3, <2>1, FormsAreNames DEF AnyForm, NamesAssumption, NoForm
  <2>3. Classify(n, u, KeySize(evidence)) \in Findings(evidence)
    BY <1>3, <2>1 DEF Findings, CertificateFindings
  <2> QED
    BY <2>2, <2>3 DEF Classify
<1> QED
    BY <1>1, <1>2, <1>3 DEF Reported

(* What a class among the findings says of the reported names.              *)
LEMMA ClassesAreReported ==
    ASSUME NamesAssumption, TypeOK, NEW c, c # "unknown"
    PROVE  Of(Findings(evidence), c) # {} <=> \E n \in Reported(evidence) : Class[n] = c
<1>1. ASSUME NEW f \in Findings(evidence), f.class = c
      PROVE  \E n \in Reported(evidence) : Class[n] = c
  <2>1. Named(evidence, f)
    BY <1>1, FindingIs DEF Nameless
  <2> QED
    BY <1>1, <2>1, ClassifyIs DEF Named
<1>2. ASSUME NEW n \in Reported(evidence), Class[n] = c
      PROVE  \E f \in Findings(evidence) : f.class = c
    BY <1>2, ReportedIsFound
<1> QED
    BY <1>1, <1>2 DEF Of

LEMMA VerdictOk ==
    ASSUME NamesAssumption, TypeOK
    PROVE  VerdictIsEarned
<1> DEFINE Fs    == Findings(evidence)
           names == Reported(evidence)
           verdict == ReadinessOf(Fs)
<1>1. \A n \in names : /\ Class[n] = "pqc_ready" <=> ReadsAsPqc(n)
                       /\ Class[n] = "classical_vulnerable" <=> ReadsAsClassical(n)
                       /\ Class[n] = "unknown" <=> ~IsKnown(n)
    BY ReportedIsFound, ClassByTokens
<1>2. /\ Of(Fs, "classical_vulnerable") # {} <=> \E n \in names : ReadsAsClassical(n)
      /\ Of(Fs, "pqc_ready") # {} <=> \E n \in names : ReadsAsPqc(n)
    BY <1>1, ClassesAreReported
<1>3. Fs \ Of(Fs, "unknown") # {} <=> \E n \in names : IsKnown(n)
  <2>1. ASSUME NEW f \in Fs, f.class # "unknown"
        PROVE  \E n \in names : IsKnown(n)
    <3>1. \E n \in names : Class[n] = f.class
      BY <2>1, ClassesAreReported DEF Of
    <3> QED
      BY <1>1, <2>1, <3>1
  <2>2. ASSUME NEW n \in names, IsKnown(n)
        PROVE  \E f \in Fs : f.class # "unknown"
      BY <1>1, <2>2, ReportedIsFound
  <2> QED
      BY <2>1, <2>2 DEF Of
<1>4. /\ verdict \in {"classical_only", "hybrid_partial"} <=> Of(Fs, "classical_vulnerable") # {}
      /\ verdict \in {"pqc_ready", "hybrid_partial"} <=> Of(Fs, "pqc_ready") # {}
      /\ verdict = "unknown" <=> /\ Of(Fs, "classical_vulnerable") = {}
                                 /\ Of(Fs, "pqc_ready") = {}
                                 /\ Fs \ Of(Fs, "unknown") = {}
    BY DEF ReadinessOf
<1>5. \A n \in names : ReadsAsClassical(n) \/ ReadsAsPqc(n) => IsKnown(n)
    BY DEF IsKnown
<1>6. Summary(F).readiness = verdict
    BY DEF Summary, F
<1> HIDE DEF Fs, names, verdict
<1>7. verdict = "unknown" <=> \A n \in names : ~IsKnown(n)
    BY <1>2, <1>3, <1>4, <1>5
<1> QED
    BY <1>2, <1>4, <1>6, <1>7 DEF VerdictIsEarned, names

LEMMA FindingsOk ==
    ASSUME NamesAssumption, SizesAssumption, TokensAssumption, TypeOK
    PROVE  NamesAreClassed /\ OnlyRsaIsShort /\ ExposureNeedsAKey
<1> SUFFICES ASSUME NEW f \in Findings(evidence)
             PROVE  /\ f.value # None =>
                          /\ f.class = "pqc_ready" <=> ReadsAsPqc(f.value)
                          /\ f.class = "classical_vulnerable" <=> ReadsAsClassical(f.value)
                          /\ f.class = "unknown" <=> ~IsKnown(f.value)
                    /\ f.weak_key /\ f.value # None =>
                          "RSA" \in TokensIn[f.value] /\ KeySize(evidence) < 2048
                    /\ f.hndl => NamesOf(evidence).public_key # None \/ evidence.algorithms # {}
    BY DEF NamesAreClassed, OnlyRsaIsShort, ExposureNeedsAKey, F, Summary
<1>1. CASE Nameless(f)
    BY <1>1 DEF Nameless
<1>2. CASE Named(evidence, f)
  <2> DEFINE bits(u) == IF u \in {"public_key", "signature"} THEN KeySize(evidence) ELSE 0
  <2>1. PICK n \in Names, u \in Usages :
            /\ f = Classify(n, u, bits(u))
            /\ u = "explicit" => n \in evidence.algorithms
            /\ u = "public_key" => NamesOf(evidence).public_key # None
    BY <1>2 DEF Named
  <2>2. /\ f.value = n /\ f.class = Class[n]
        /\ f.hndl => Harvest(n, u)
        /\ f.weak_key => n \in DOMAIN Family /\ WeakKey(n, bits(u))
    BY <2>1, ClassifyIs
  <2>3. /\ Class[n] = "pqc_ready" <=> ReadsAsPqc(n)
        /\ Class[n] = "classical_vulnerable" <=> ReadsAsClassical(n)
        /\ Class[n] = "unknown" <=> ~IsKnown(n)
    BY ClassByTokens
  <2>4. ASSUME n \in DOMAIN Family, WeakKey(n, bits(u))
        PROVE  "RSA" \in TokensIn[n] /\ KeySize(evidence) < 2048
    <3>1. Family[n].family = "RSA" /\ bits(u) > 0 /\ bits(u) < 2048
      BY <2>4 DEF WeakKey, WeakRsaMinBits
    <3>2. KeySize(evidence) < 2048
      <4>1. CASE u \in {"public_key", "signature"}
        BY <3>1, <4>1
      <4>2. CASE u \notin {"public_key", "signature"}
        BY <3>1, <4>2
      <4> QED
        BY <4>1, <4>2
    <3>3. PICK i \in Found(n) : Family[n] = PublicKeyFamilies[i]
      BY <2>4, FamilyIs
    <3>4. i \in 1 .. 24 /\ PublicKeyFamilies[i].token \in TokensIn[n]
      BY TableIs DEF Found
    <3>5. PublicKeyFamilies[i].token \in {"RSASSA", "RSAPSS", "RSA"}
      BY <3>1, <3>3, <3>4, TableIs
    <3>6. "RSA" \in TokensIn[n]
      BY <3>4, <3>5 DEF TokensAssumption, Has
    <3> QED
      BY <3>2, <3>6
  <2>5. Harvest(n, u) => NamesOf(evidence).public_key # None \/ evidence.algorithms # {}
    BY <2>1 DEF Harvest
  <2> QED
    BY <2>2, <2>3, <2>4, <2>5
<1> QED
    BY <1>1, <1>2, FindingIs

(* The payload stays well-formed as pieces come in.                         *)
LEMMA EvidenceInitOk ==
    ASSUME NamesAssumption, SizesAssumption, Init
    PROVE  TypeOK
BY FS_EmptySet DEF Init, TypeOK, NoForm, AnyForm, SizesAssumption

LEMMA EvidenceStepOk ==
    ASSUME NamesAssumption, SizesAssumption, TypeOK, Next
    PROVE  TypeOK'
<1>1. CASE Certificate
    BY <1>1 DEF Certificate, TypeOK
<1>2. CASE Cipher
    BY <1>2 DEF Cipher, TypeOK
<1>3. CASE Algorithm
  <2>1. PICK n \in Names : evidence' = [evidence EXCEPT !.algorithms = @ \union {n}]
    BY <1>3 DEF Algorithm
  <2>2. evidence'.algorithms = evidence.algorithms \union {n}
    BY <2>1 DEF TypeOK
  <2>3. IsFiniteSet(evidence'.algorithms)
    BY <2>2, FS_AddElement DEF TypeOK
  <2> QED
    BY <2>1, <2>3 DEF TypeOK
<1>4. CASE Other
    BY <1>4 DEF Other, TypeOK, Others
<1> QED
    BY <1>1, <1>2, <1>3, <1>4 DEF Next

(* A request gathers finitely many findings, so that counts mean something. *)
LEMMA FindingsAreFinite ==
    ASSUME TypeOK
    PROVE  IsFiniteSet(Findings(evidence))
<1>1. \A x, y, z : IsFiniteSet({x, y, z}) /\ IsFiniteSet({x, y}) /\ IsFiniteSet({x})
  <2> TAKE x, y, z
  <2>1. IsFiniteSet({x}) /\ IsFiniteSet({x} \union {y})
    BY FS_Singleton, FS_AddElement
  <2>2. IsFiniteSet(({x} \union {y}) \union {z})
    BY <2>1, FS_AddElement
  <2>3. ({x} \union {y}) \union {z} = {x, y, z} /\ {x} \union {y} = {x, y}
    OBVIOUS
  <2> QED
    BY <2>1, <2>2, <2>3
<1>2. IsFiniteSet(CertificateFindings(evidence))
  <2> DEFINE at(u) == Classify(NamesOf(evidence)[u], u, KeySize(evidence))
  <2>1. CertificateFindings(evidence) \in SUBSET {at("public_key"), at("signature")}
    BY DEF CertificateFindings, NoForm
  <2> QED
    BY <1>1, <2>1, FS_Subset
<1>3. IsFiniteSet(CipherFindings(evidence))
  <2> DEFINE c == Classify(evidence.cipher_suite, "cipher", 0)
  <2>1. CipherFindings(evidence) \in SUBSET {c}
    BY DEF CipherFindings
  <2> HIDE DEF c
  <2> QED
    BY <1>1, <2>1, FS_Subset
<1>4. IsFiniteSet(ListedFindings(evidence))
  <2> DEFINE g == [n \in evidence.algorithms |-> Classify(n, "explicit", 0)]
  <2>1. g \in Surjection(evidence.algorithms, ListedFindings(evidence))
    BY DEF Surjection, ListedFindings
  <2>2. IsFiniteSet(evidence.algorithms)
    BY DEF TypeOK
  <2> HIDE DEF g
  <2> QED
    BY <2>1, <2>2, FS_Surjection
<1>5. IsFiniteSet(RepositoryFindings(evidence))
  <2> DEFINE of(s) == IF s = "embedded_key" THEN Unnamed(s, TRUE, "critical") ELSE Unnamed(s, FALSE, "info")
  <2>1. RepositoryFindings(evidence) = {of(s) : s \in evidence.others} /\ evidence.others \subseteq Others
    BY DEF RepositoryFindings, TypeOK
  <2> HIDE DEF of
  <2>2. RepositoryFindings(evidence) \in SUBSET {of("package"), of("signing_command"), of("embedded_key")}
    BY <2>1 DEF Others
  <2> QED
    BY <1>1, <2>2, FS_Subset
<1> QED
    BY <1>2, <1>3, <1>4, <1>5, FS_Union DEF Findings

-----------------------------------------------------------------------------
(* The answer of POST /api/assess *)

LEMMA AssembledInit ==
    ASSUME AssessInit
    PROVE  Assembled
BY DEF AssessInit, Assembled

(* What a service adds to the response, the rest of which stays.            *)
LEMMA FingerprintedStep ==
    ASSUME Assembled, NEW ok \in BOOLEAN, Fingerprinted(ok)
    PROVE  Assembled'
<1>1. PICK o \in Options : asked = {o} /\ result = Response(Findings(evidence), o, {})
    BY DEF Assembled, Fingerprinted, DoneAt
<1>2. evidence' = evidence /\ asked' = {o}
    BY <1>1 DEF Fingerprinted
<1>3. CASE ok
  <2>1. stage' = "readiness" /\ findings' = Findings(evidence)
    BY <1>3 DEF Fingerprinted, After
  <2>2. result' = Response(Findings(evidence), o, {"fingerprint"})
    BY <1>1, <1>3 DEF Fingerprinted, Response, Answer, Done
  <2> QED
    BY <1>2, <2>1, <2>2 DEF Assembled, DoneAt
<1>4. CASE ~ok
    BY <1>4 DEF Fingerprinted, After, Assembled
<1> QED
    BY <1>3, <1>4

LEMMA ClassifiedStep ==
    ASSUME Assembled, NEW ok \in BOOLEAN, Classified(ok)
    PROVE  Assembled'
<1>1. PICK o \in Options : /\ asked = {o} /\ findings = Findings(evidence)
                           /\ result = Response(Findings(evidence), o, {"fingerprint"})
    BY DEF Assembled, Classified, DoneAt
<1>2. evidence' = evidence /\ asked' = {o} /\ findings' = Findings(evidence)
    BY <1>1 DEF Classified
<1>3. CASE ok
  <2>1. stage' = "attribution"
    BY <1>3 DEF Classified, After
  <2>2. {Classification(findings, p) : p \in asked} = {Classification(Findings(evidence), o)}
    BY <1>1
  <2>3. result' = Response(Findings(evidence), o, {"fingerprint", "readiness"})
    BY <1>1, <1>3, <2>2 DEF Classified, Response, Answer, Done
  <2> QED
    BY <1>2, <2>1, <2>3 DEF Assembled, DoneAt
<1>4. CASE ~ok
    BY <1>4 DEF Classified, After, Assembled
<1> QED
    BY <1>3, <1>4

LEMMA AttributedStep ==
    ASSUME Assembled, NEW ok \in BOOLEAN, Attributed(ok)
    PROVE  Assembled'
<1> DEFINE services == {"fingerprint", "readiness", "attribution"}
<1>1. PICK o \in Options : /\ asked = {o} /\ findings = Findings(evidence)
                           /\ result = Response(Findings(evidence), o, {"fingerprint", "readiness"})
    BY DEF Assembled, Attributed, DoneAt
<1>2. evidence' = evidence /\ asked' = {o} /\ findings' = Findings(evidence)
    BY <1>1 DEF Attributed
<1>3. CASE ok
  <2>1. stage' = IF o.risk_factors THEN "risk" ELSE "answered"
    BY <1>1, <1>3 DEF Attributed, After
  <2>2. UNION {Attribute(findings, p) : p \in asked} = Attribute(Findings(evidence), o)
    BY <1>1
  <2>3. result' = Response(Findings(evidence), o, services)
    <3>0. result = Answer({Summary(Findings(evidence))}, {Classification(Findings(evidence), o)}, {},
                          FALSE, {"fingerprint", "readiness"})
      <4> DEFINE two == {"fingerprint", "readiness"}
      <4>1. "fingerprint" \in two /\ "readiness" \in two /\ "attribution" \notin two /\ "risk" \notin two
        OBVIOUS
      <4>2. result = Response(Findings(evidence), o, two)
        BY <1>1
      <4> HIDE DEF two
      <4>3. result = Answer({Summary(Findings(evidence))}, {Classification(Findings(evidence), o)}, {},
                            FALSE, two)
        BY <4>1, <4>2 DEF Response
      <4> QED
        BY <4>3 DEF two
    <3>1. /\ result.summary = {Summary(Findings(evidence))}
          /\ result.readiness = {Classification(Findings(evidence), o)}
          /\ result.risk = FALSE /\ result.pipeline = {"fingerprint", "readiness"}
      BY <3>0 DEF Answer
    <3>2. result' = Answer(result.summary, result.readiness, Attribute(Findings(evidence), o),
                           result.risk, result.pipeline \union {"attribution"})
      BY <1>3, <2>2 DEF Attributed, Done
    <3>3. Response(Findings(evidence), o, services) =
              Answer({Summary(Findings(evidence))}, {Classification(Findings(evidence), o)},
                     Attribute(Findings(evidence), o), FALSE, services)
      <4>1. /\ "fingerprint" \in services /\ "readiness" \in services
            /\ "attribution" \in services /\ "risk" \notin services
        OBVIOUS
      <4> HIDE DEF services
      <4> QED
        BY <4>1 DEF Response
    <3>4. services = {"fingerprint", "readiness"} \union {"attribution"}
      OBVIOUS
    <3> QED
      BY <3>1, <3>2, <3>3, <3>4
  <2>4. DoneAt(o)[stage'] = services
    BY <2>1 DEF DoneAt
  <2> QED
    BY <1>2, <2>1, <2>3, <2>4 DEF Assembled
<1>4. CASE ~ok
    BY <1>4 DEF Attributed, After, Assembled
<1> QED
    BY <1>3, <1>4

LEMMA ScoredStep ==
    ASSUME Assembled, NEW ok \in BOOLEAN, Scored(ok)
    PROVE  Assembled'
<1> DEFINE services == {"fingerprint", "readiness", "attribution"}
<1>1. PICK o \in Options : /\ asked = {o} /\ o.risk_factors /\ findings = Findings(evidence)
                           /\ result = Response(Findings(evidence), o, services)
    BY DEF Assembled, Scored, DoneAt
<1>2. evidence' = evidence /\ asked' = {o} /\ findings' = Findings(evidence)
    BY <1>1 DEF Scored
<1>3. CASE ok
  <2>1. stage' = "answered"
    BY <1>3 DEF Scored, After
  <2>2. result' = Response(Findings(evidence), o, services \union {"risk"})
    BY <1>1, <1>3 DEF Scored, Response, Answer, Done
  <2>3. DoneAt(o)[stage'] = services \union {"risk"}
    BY <1>1, <2>1 DEF DoneAt
  <2> QED
    BY <1>2, <2>1, <2>2, <2>3 DEF Assembled
<1>4. CASE ~ok
    BY <1>4 DEF Scored, After, Assembled
<1> QED
    BY <1>3, <1>4

LEMMA AssembledStep ==
    ASSUME Assembled, [AssessNext]_assessVars
    PROVE  Assembled'
<1>1. CASE Collect
    BY <1>1 DEF Collect, Assembled
<1>2. CASE Return
    BY <1>2 DEF Return, Assembled
<1>3. ASSUME NEW o \in Options, Ask(o) PROVE Assembled'
  <2>1. asked' = {o} /\ stage' = "fingerprint" /\ result' = Blank
    BY <1>3 DEF Ask
  <2>2. ("risk" \in {}) = FALSE
    OBVIOUS
  <2>3. Blank = Response(Findings(evidence)', o, {})
    BY <2>2 DEF Blank, Response, Answer
  <2> QED
    BY <2>1, <2>3 DEF Assembled, DoneAt
<1>4. CASE UNCHANGED assessVars
    BY <1>4 DEF assessVars, Assembled
<1> QED
    BY <1>1, <1>2, <1>3, <1>4, FingerprintedStep, ClassifiedStep, AttributedStep, ScoredStep
    DEF AssessNext

(* What an answer says of the findings.                                     *)
LEMMA AnswerIs ==
    ASSUME Assembled, Answered
    PROVE  \E o \in Options :
              /\ asked = {o}
              /\ result.summary = {Summary(Findings(evidence))}
              /\ result.readiness = {Classification(Findings(evidence), o)}
              /\ result.attributed = Attribute(Findings(evidence), o)
              /\ result.risk <=> o.risk_factors
              /\ result.pipeline = DoneAt(o).answered
<1>1. PICK o \in Options : asked = {o} /\ result = Response(Findings(evidence), o, DoneAt(o).answered)
    BY DEF Assembled, Answered
<1>2. o.risk_factors \in BOOLEAN
    BY DEF Options
<1>3. "risk" \in DoneAt(o).answered <=> o.risk_factors
    BY DEF DoneAt
<1>4. /\ "fingerprint" \in DoneAt(o).answered /\ "readiness" \in DoneAt(o).answered
      /\ "attribution" \in DoneAt(o).answered
    BY DEF DoneAt
<1>5. WITNESS o \in Options
<1> QED
    BY <1>1, <1>3, <1>4 DEF Response, Answer

LEMMA OneEach ==
    ASSUME NEW Fs, IsFiniteSet(Fs), NEW o
    PROVE  Cardinality(Attribute(Fs, o)) = Cardinality(Fs)
<1> DEFINE T == Attribute(Fs, o)
           g == [f \in Fs |-> AttributeFinding(f, o)]
<1>1. g \in [Fs -> T] /\ \A t \in T : \E f \in Fs : g[f] = t
    BY DEF Attribute
<1>2. \A f \in Fs : g[f].finding = f
    BY DEF AttributeFinding
<1> HIDE DEF g, T
<1>3. \A f1, f2 \in Fs : g[f1] = g[f2] => f1 = f2
    BY <1>2
<1>4. g \in Bijection(Fs, T)
    BY <1>1, <1>3 DEF Bijection, Injection, Surjection, IsInjective
<1> QED
    BY <1>4, FS_Bijection DEF ExistsBijection, T

LEMMA WholeOk ==
    ASSUME TypeOK, Assembled
    PROVE  AnswerIsWhole
<1> SUFFICES ASSUME Answered
             PROVE  /\ result.summary # {} /\ result.readiness # {}
                    /\ Cardinality(result.attributed) = Cardinality(Findings(evidence))
                    /\ result.risk <=> \E o \in asked : o.risk_factors
                    /\ result.pipeline = {"fingerprint", "readiness", "attribution"}
                                             \union (IF result.risk THEN {"risk"} ELSE {})
    BY DEF AnswerIsWhole
<1>1. PICK o \in Options :
              /\ asked = {o}
              /\ result.summary = {Summary(Findings(evidence))}
              /\ result.readiness = {Classification(Findings(evidence), o)}
              /\ result.attributed = Attribute(Findings(evidence), o)
              /\ result.risk <=> o.risk_factors
              /\ result.pipeline = DoneAt(o).answered
    BY AnswerIs
<1>2. Cardinality(result.attributed) = Cardinality(Findings(evidence))
    BY <1>1, OneEach, FindingsAreFinite
<1> QED
    BY <1>1, <1>2 DEF DoneAt

(* The two verdicts, by what is found at all.                               *)
LEMMA ReadinessOfIs ==
    ASSUME NEW Fs
    PROVE  LET V == Of(Fs, "classical_vulnerable") # {}
               P == Of(Fs, "pqc_ready") # {}
               r == ReadinessOf(Fs)
           IN /\ V /\ P => r = "hybrid_partial"
              /\ V /\ ~P => r = "classical_only"
              /\ ~V /\ P => r = "pqc_ready"
              /\ ~V /\ ~P => r \in {"unknown", "no_quantum_vulnerable_detected"}
BY DEF ReadinessOf

LEMMA ReadinessIs ==
    ASSUME NEW Fs, NEW o \in Options, ~o.vendor_blocked
    PROVE  LET V == Of(Fs, "classical_vulnerable") # {}
               P == Of(Fs, "pqc_ready") # {}
               r == Readiness(Fs, o)
           IN /\ V /\ P => r = "hybrid_capable"
              /\ V /\ ~P => r \in {"hybrid_capable", "classical_only"}
              /\ ~V /\ P => r = "pqc_ready"
              /\ ~V /\ ~P => r = "unknown"
BY DEF Readiness, Options

LEMMA VerdictsOk ==
    ASSUME TypeOK, Assembled
    PROVE  VerdictsAgree
<1> DEFINE Fs == Findings(evidence)
           V  == Of(Fs, "classical_vulnerable")
           P  == Of(Fs, "pqc_ready")
           W  == Of(Fs, "deprecated_weak") \union {f \in Fs : f.weak_key}
<1>1. SUFFICES ASSUME NEW o \in Options, Answered
               PROVE  LET s == Summary(Fs)
                          r == Classification(Fs, o)
                      IN /\ r.hndl = s.hndl /\ r.count = s.total
                         /\ r.weak_key => s.weak > 0
                         /\ ~o.vendor_blocked =>
                               /\ s.readiness = "hybrid_partial" => r.readiness = "hybrid_capable"
                               /\ s.readiness = "pqc_ready" <=> r.readiness = "pqc_ready"
                               /\ s.readiness = "classical_only" <=> (s.vulnerable > 0 /\ s.pqc = 0)
                               /\ r.readiness = "classical_only" => s.readiness = "classical_only"
                               /\ r.readiness = "unknown" <=>
                                     s.readiness \in {"unknown", "no_quantum_vulnerable_detected"}
  <2> SUFFICES ASSUME Answered
               PROVE  VerdictsAgree
    BY DEF VerdictsAgree
  <2>1. PICK o \in Options : /\ asked = {o} /\ result.summary = {Summary(Fs)}
                             /\ result.readiness = {Classification(Fs, o)}
    BY AnswerIs
  <2> QED
    BY <2>1 DEF VerdictsAgree
<1>2. \A T \in SUBSET Fs : Cardinality(T) \in Nat /\ (Cardinality(T) = 0 <=> T = {})
  <2>1. IsFiniteSet(Fs)
    BY FindingsAreFinite
  <2> HIDE DEF Fs
  <2> QED
    BY <2>1, FS_Subset, FS_CardinalityType, FS_EmptySet
<1>3. V \in SUBSET Fs /\ P \in SUBSET Fs /\ W \in SUBSET Fs
    BY DEF Of
<1>4. /\ Summary(Fs).hndl = (\E f \in Fs : f.hndl) /\ Summary(Fs).total = Cardinality(Fs)
      /\ Summary(Fs).vulnerable = Cardinality(V) /\ Summary(Fs).pqc = Cardinality(P)
      /\ Summary(Fs).weak = Cardinality(W) /\ Summary(Fs).readiness = ReadinessOf(Fs)
    BY DEF Summary
<1>5. /\ Classification(Fs, o).hndl = (\E f \in Fs : f.hndl)
      /\ Classification(Fs, o).count = Cardinality(Fs)
      /\ Classification(Fs, o).weak_key = (\E f \in Fs : f.weak_key)
      /\ Classification(Fs, o).readiness = Readiness(Fs, o)
    BY DEF Classification
<1>6. (\E f \in Fs : f.weak_key) => Cardinality(W) > 0
    BY <1>2, <1>3
<1> HIDE DEF Fs
<1>7. ASSUME ~o.vendor_blocked
      PROVE  /\ ReadinessOf(Fs) = "hybrid_partial" => Readiness(Fs, o) = "hybrid_capable"
             /\ ReadinessOf(Fs) = "pqc_ready" <=> Readiness(Fs, o) = "pqc_ready"
             /\ ReadinessOf(Fs) = "classical_only" <=> V # {} /\ P = {}
             /\ Readiness(Fs, o) = "classical_only" => ReadinessOf(Fs) = "classical_only"
             /\ Readiness(Fs, o) = "unknown" <=>
                   ReadinessOf(Fs) \in {"unknown", "no_quantum_vulnerable_detected"}
    BY <1>7, ReadinessOfIs, ReadinessIs
<1>8. Cardinality(V) > 0 /\ Cardinality(P) = 0 <=> V # {} /\ P = {}
    BY <1>2, <1>3
<1> HIDE DEF V, P, W
<1> QED
    BY <1>4, <1>5, <1>6, <1>7, <1>8

LEMMA PlacesOk ==
    ASSUME NamesAssumption, TypeOK, Assembled
    PROVE  OnlyListedIsUnattributed
<1> SUFFICES ASSUME Answered, NEW a \in result.attributed
             PROVE  ~IsAttributed(a) <=> a.finding.source = "explicit"
    BY DEF OnlyListedIsUnattributed
<1>1. PICK o \in Options : result.attributed = Attribute(Findings(evidence), o)
    BY AnswerIs
<1>2. PICK f \in Findings(evidence) : a = AttributeFinding(f, o)
    BY <1>1 DEF Attribute
<1>3. f.source \in Usages \union Others
  <2>1. CASE Nameless(f)
    BY <2>1 DEF Nameless
  <2>2. CASE Named(evidence, f)
    <3>1. PICK n \in Names, u \in Usages :
              f = Classify(n, u, IF u \in {"public_key", "signature"} THEN KeySize(evidence) ELSE 0)
      BY <2>2 DEF Named
    <3> QED
      BY <3>1, ClassifyIs
  <2> QED
    BY <2>1, <2>2, FindingIs
<1>4. /\ a.finding = f /\ a.object = Place(f.source)[2]
      /\ a.service => Place(f.source)[1] = "network_endpoint"
    BY <1>2 DEF AttributeFinding
<1>5. /\ f.source = "explicit" => Place(f.source) = <<"manual", "none">>
      /\ f.source \in {"public_key", "signature"} => Place(f.source) = <<"network_endpoint", "certificate">>
      /\ f.source = "cipher" => Place(f.source) = <<"network_endpoint", "cipher_suite">>
      /\ f.source = "package" => Place(f.source) = <<"package", "library">>
      /\ f.source = "signing_command" => Place(f.source) = <<"config_file", "pipeline">>
      /\ f.source = "embedded_key" => Place(f.source) = <<"config_file", "config">>
    BY DEF Place
<1> QED
    BY <1>3, <1>4, <1>5 DEF IsAttributed, Usages, Others

(* A document is well-formed whatever pieces come in, and requests come and *)
(* go beside it.                                                            *)
LEMMA AssessIsSafe ==
    ASSUME NamesAssumption, SizesAssumption
    PROVE  AssessSpec => [](TypeOK /\ Assembled)
<1>1. AssessInit => TypeOK /\ Assembled
    BY EvidenceInitOk, AssembledInit DEF AssessInit
<1>2. TypeOK /\ Assembled /\ [AssessNext]_assessVars => TypeOK' /\ Assembled'
  <2> SUFFICES ASSUME TypeOK, Assembled, [AssessNext]_assessVars PROVE TypeOK' /\ Assembled'
    OBVIOUS
  <2>1. Next \/ UNCHANGED evidence
    BY DEF AssessNext, assessVars, Collect, Return, Ask, Fingerprinted, Classified, Attributed, Scored
  <2>2. TypeOK'
    <3>1. CASE Next
      BY <3>1, EvidenceStepOk
    <3>2. CASE UNCHANGED evidence
      BY <3>2 DEF TypeOK
    <3> QED
      BY <2>1, <3>1, <3>2
  <2> QED
    BY <2>2, AssembledStep
<1> QED
    BY <1>1, <1>2, PTL DEF AssessSpec

(* Whatever tokens the names contain, none of the tables' included, a name  *)
(* is classed by the first that counts, the verdict on a payload stands on  *)
(* all the names reported in it and on nothing else, a weak key is a short  *)
(* RSA key, and nothing is exposed without a key (classify_algorithm,       *)
(* extract_findings, summarize).                                            *)
THEOREM TheFindingsAreRight ==
    ASSUME NamesAssumption, SizesAssumption, TokensAssumption
    PROVE  AssessSpec => []FindingsAreRight
<1>1. TypeOK /\ Assembled => FindingsAreRight
    BY FindingsOk, VerdictOk DEF FindingsAreRight
<1> QED
    BY <1>1, AssessIsSafe, PTL

(* An answer of POST /api/assess is whole, its verdicts agree, and only the *)
(* names that the caller listed lack a place, whichever services fail       *)
(* (assess, summarize, classify_readiness, attribute_finding).              *)
THEOREM AnswersAgree ==
    ASSUME NamesAssumption, SizesAssumption
    PROVE  AssessSpec => []AssessAgrees
<1>1. TypeOK /\ Assembled => AssessAgrees
    BY WholeOk, VerdictsOk, PlacesOk DEF AssessAgrees
<1> QED
    BY <1>1, AssessIsSafe, PTL

-----------------------------------------------------------------------------
(* More evidence for the fingerprint                                        *)

LEMMA SeverityIsRanked ==
    ASSUME NamesAssumption, TypeOK, NEW f \in Findings(evidence)
    PROVE  Rank(f.severity) \in 0 .. 4
<1>1. \A s \in {"info", "low", "high", "critical"} : Rank(s) \in 0 .. 4
    BY DEF Rank, SeverityRank
<1>2. \A n, u, bits : Classify(n, u, bits).severity \in {"info", "low", "high", "critical"}
  <2>1. \A n, bits : SeverityOf(n, bits) \in {"info", "low", "high", "critical"}
    BY DEF SeverityOf
  <2> QED
    BY <2>1 DEF Classify
<1>3. \A s, b : /\ Unnamed(s, b, "info").severity = "info"
                /\ Unnamed(s, b, "critical").severity = "critical"
    BY DEF Unnamed
<1>4. f.severity \in {"info", "low", "high", "critical"}
  <2>1. CASE f \in CertificateFindings(evidence)
    BY <1>2, <2>1 DEF CertificateFindings
  <2>2. CASE f \in CipherFindings(evidence)
    BY <1>2, <2>2 DEF CipherFindings
  <2>3. CASE f \in ListedFindings(evidence)
    BY <1>2, <2>3 DEF ListedFindings
  <2>4. CASE f \in RepositoryFindings(evidence)
    BY <1>3, <2>4 DEF RepositoryFindings
  <2> QED
    BY <2>1, <2>2, <2>3, <2>4 DEF Findings
<1> QED
    BY <1>1, <1>4

(* The worst severity is that of a finding, and no finding's is worse.      *)
LEMMA HighestIs ==
    ASSUME NEW Fs, Fs # {}, \A f \in Fs : Rank(f.severity) \in 0 .. 4
    PROVE  \E g \in Fs : /\ HighestSeverity(Fs) = g.severity
                         /\ \A f \in Fs : Rank(f.severity) <= Rank(g.severity)
<1> DEFINE S == {4 - Rank(f.severity) : f \in Fs}
<1>1. S \in SUBSET Nat /\ S # {}
    OBVIOUS
<1>2. Min(S) \in S /\ \A m \in S : Min(S) <= m
  <2> HIDE DEF S
  <2> QED
    BY <1>1, MinIs
<1>3. PICK g \in Fs : Min(S) = 4 - Rank(g.severity)
    BY <1>2
<1>4. ASSUME NEW f \in Fs PROVE Rank(f.severity) <= Rank(g.severity)
  <2>1. Min(S) <= 4 - Rank(f.severity)
    BY <1>2
  <2>2. Rank(f.severity) \in 0 .. 4 /\ Rank(g.severity) \in 0 .. 4
    OBVIOUS
  <2> QED
    BY <1>3, <2>1, <2>2
<1> DEFINE top == CHOOSE f \in Fs : \A h \in Fs : Rank(h.severity) <= Rank(f.severity)
<1>5. top \in Fs /\ \A h \in Fs : Rank(h.severity) <= Rank(top.severity)
    BY <1>4
<1>6. HighestSeverity(Fs) = top.severity
    BY DEF HighestSeverity
<1> QED
    BY <1>5, <1>6

LEMMA HighestGrows ==
    ASSUME NEW Fs, NEW Gs, Fs \subseteq Gs, \A f \in Gs : Rank(f.severity) \in 0 .. 4
    PROVE  Rank(HighestSeverity(Fs)) <= Rank(HighestSeverity(Gs))
<1>1. CASE Gs = {}
  <2>1. Fs = {} /\ Rank("info") = 0
    BY <1>1 DEF Rank, SeverityRank
  <2> QED
    BY <1>1, <2>1 DEF HighestSeverity
<1>2. ASSUME Gs # {}
      PROVE  Rank(HighestSeverity(Fs)) <= Rank(HighestSeverity(Gs))
  <2>1. PICK g \in Gs : /\ HighestSeverity(Gs) = g.severity
                        /\ \A f \in Gs : Rank(f.severity) <= Rank(g.severity)
    BY <1>2, HighestIs
  <2>2. CASE Fs = {}
    <3>1. Rank(HighestSeverity(Fs)) = 0
      BY <2>2 DEF HighestSeverity, Rank, SeverityRank
    <3>2. Rank(g.severity) \in 0 .. 4
      OBVIOUS
    <3> QED
      BY <2>1, <3>1, <3>2
  <2>3. ASSUME Fs # {}
        PROVE  Rank(HighestSeverity(Fs)) <= Rank(HighestSeverity(Gs))
    <3>1. PICK f \in Fs : HighestSeverity(Fs) = f.severity
      BY <2>3, HighestIs
    <3> QED
      BY <2>1, <3>1
  <2> QED
    BY <2>2, <2>3
<1> QED
    BY <1>1, <1>2

(* A further piece takes no finding away.                                   *)
LEMMA FindingsGrow ==
    ASSUME TypeOK, Next, Pieces(evidence') > Pieces(evidence)
    PROVE  Findings(evidence) \subseteq Findings(evidence')
<1>1. CASE Certificate
  <2>1. CertificateFindings(evidence) = {}
    <3>1. NamesOf(evidence) = NoForm
      BY <1>1 DEF Certificate, NamesOf
    <3>2. \A u \in DOMAIN NoForm : NoForm[u] = None
      BY DEF NoForm
    <3> QED
      BY <3>1, <3>2 DEF CertificateFindings
  <2>2. PICK n \in AnyForm \union {None}, f \in AnyForm, ns, fs \in Sizes :
            /\ n = None \/ f = NoForm \/ n = f
            /\ evidence' = [evidence EXCEPT !.nested = n, !.flat = f,
                                            !.nested_size = ns, !.flat_size = fs]
    BY <1>1 DEF Certificate
  <2>3. /\ evidence'.cipher_suite = evidence.cipher_suite
        /\ evidence'.algorithms = evidence.algorithms /\ evidence'.others = evidence.others
    BY <2>2 DEF TypeOK
  <2> QED
    BY <2>1, <2>3 DEF Findings, CipherFindings, ListedFindings, RepositoryFindings
<1>2. CASE Cipher
  <2>1. evidence.cipher_suite = None
    BY <1>2 DEF Cipher
  <2>2. CipherFindings(evidence) = {}
    BY <2>1 DEF CipherFindings
  <2>3. PICK n \in Names : evidence' = [evidence EXCEPT !.cipher_suite = n]
    BY <1>2 DEF Cipher
  <2>4. /\ evidence'.nested = evidence.nested /\ evidence'.flat = evidence.flat
        /\ evidence'.nested_size = evidence.nested_size /\ evidence'.flat_size = evidence.flat_size
        /\ evidence'.algorithms = evidence.algorithms /\ evidence'.others = evidence.others
    BY <2>3 DEF TypeOK
  <2>5. CertificateFindings(evidence') = CertificateFindings(evidence)
    BY <2>4 DEF CertificateFindings, NamesOf, KeySize
  <2> QED
    BY <2>2, <2>4, <2>5 DEF Findings, ListedFindings, RepositoryFindings
<1>3. CASE Algorithm
  <2>1. PICK n \in Names : evidence' = [evidence EXCEPT !.algorithms = @ \union {n}]
    BY <1>3 DEF Algorithm
  <2>2. /\ evidence'.nested = evidence.nested /\ evidence'.flat = evidence.flat
        /\ evidence'.nested_size = evidence.nested_size /\ evidence'.flat_size = evidence.flat_size
        /\ evidence'.cipher_suite = evidence.cipher_suite /\ evidence'.others = evidence.others
        /\ evidence'.algorithms = evidence.algorithms \union {n}
    BY <2>1 DEF TypeOK
  <2>3. CertificateFindings(evidence') = CertificateFindings(evidence)
    BY <2>2 DEF CertificateFindings, NamesOf, KeySize
  <2>4. ListedFindings(evidence) \subseteq ListedFindings(evidence')
    BY <2>2 DEF ListedFindings
  <2> QED
    BY <2>2, <2>3, <2>4 DEF Findings, CipherFindings, RepositoryFindings
<1>4. CASE Other
  <2>1. PICK s \in Others : evidence' = [evidence EXCEPT !.others = @ \union {s}]
    BY <1>4 DEF Other
  <2>2. /\ evidence'.nested = evidence.nested /\ evidence'.flat = evidence.flat
        /\ evidence'.nested_size = evidence.nested_size /\ evidence'.flat_size = evidence.flat_size
        /\ evidence'.cipher_suite = evidence.cipher_suite /\ evidence'.algorithms = evidence.algorithms
        /\ evidence'.others = evidence.others \union {s}
    BY <2>1 DEF TypeOK
  <2>3. CertificateFindings(evidence') = CertificateFindings(evidence)
    BY <2>2 DEF CertificateFindings, NamesOf, KeySize
  <2>4. RepositoryFindings(evidence) \subseteq RepositoryFindings(evidence')
    BY <2>2 DEF RepositoryFindings
  <2> QED
    BY <2>2, <2>3, <2>4 DEF Findings, CipherFindings, ListedFindings
<1> QED
    BY <1>1, <1>2, <1>3, <1>4 DEF Next

LEMMA CountsGrow ==
    ASSUME NEW Gs, IsFiniteSet(Gs), NEW Fs \in SUBSET Gs
    PROVE  Cardinality(Fs) \in Nat /\ Cardinality(Fs) <= Cardinality(Gs)
BY FS_Subset, FS_CardinalityType

LEMMA SummaryGrows ==
    ASSUME NEW Fs, NEW Gs, Fs \subseteq Gs, IsFiniteSet(Gs), \A f \in Gs : Rank(f.severity) \in 0 .. 4
    PROVE  LET s == Summary(Fs)
               t == Summary(Gs)
           IN /\ Rank(s.highest) <= Rank(t.highest)
              /\ s.hndl => t.hndl
              /\ s.vulnerable <= t.vulnerable /\ s.weak <= t.weak
              /\ s.vulnerable > 0 => t.readiness \in {"classical_only", "hybrid_partial"}
<1> DEFINE V(Hs) == Of(Hs, "classical_vulnerable")
           W(Hs) == Of(Hs, "deprecated_weak") \union {f \in Hs : f.weak_key}
<1>1. V(Fs) \subseteq V(Gs) /\ W(Fs) \subseteq W(Gs) /\ V(Gs) \subseteq Gs /\ W(Gs) \subseteq Gs
    BY DEF Of
<1>2. \A Hs : LET s == Summary(Hs)
              IN /\ s.highest = HighestSeverity(Hs) /\ s.vulnerable = Cardinality(V(Hs))
                 /\ s.weak = Cardinality(W(Hs)) /\ s.readiness = ReadinessOf(Hs)
                 /\ s.hndl <=> \E f \in Hs : f.hndl
    BY DEF Summary
<1> HIDE DEF V, W
<1>3. IsFiniteSet(V(Gs)) /\ IsFiniteSet(W(Gs))
    BY <1>1, FS_Subset
<1>4. Cardinality(V(Fs)) <= Cardinality(V(Gs)) /\ Cardinality(W(Fs)) <= Cardinality(W(Gs))
    BY <1>1, <1>3, CountsGrow
<1>5. Rank(HighestSeverity(Fs)) <= Rank(HighestSeverity(Gs))
    BY HighestGrows
<1>6. (\E f \in Fs : f.hndl) => \E f \in Gs : f.hndl
    OBVIOUS
<1>7. ASSUME Cardinality(V(Fs)) > 0
      PROVE  ReadinessOf(Gs) \in {"classical_only", "hybrid_partial"}
  <2>1. V(Fs) # {}
    BY <1>7, FS_EmptySet
  <2>2. Of(Gs, "classical_vulnerable") # {}
    BY <1>1, <2>1 DEF V
  <2> QED
    BY <2>2, ReadinessOfIs
<1> QED
    BY <1>2, <1>4, <1>5, <1>6, <1>7

(* Findings can be counted and compared.                                    *)
Comparable == /\ IsFiniteSet(Findings(evidence))
              /\ \A f \in Findings(evidence) : Rank(f.severity) \in 0 .. 4

LEMMA EvidenceOnlyWorsens ==
    ASSUME TypeOK, Comparable', Next \/ UNCHANGED evidence
    PROVE  OnlyWorsens
<1> SUFFICES ASSUME Pieces(evidence') > Pieces(evidence)
             PROVE  OnlyWorsens
    BY DEF OnlyWorsens
<1>1. Findings(evidence) \subseteq Findings(evidence')
  <2>1. CASE UNCHANGED evidence
    BY <2>1
  <2>2. CASE Next
    BY <2>2, FindingsGrow
  <2> QED
    BY <2>1, <2>2
<1> DEFINE Fs == Findings(evidence)
           Gs == Findings(evidence')
<1>2. Fs \subseteq Gs /\ IsFiniteSet(Gs) /\ \A f \in Gs : Rank(f.severity) \in 0 .. 4
    BY <1>1 DEF Comparable
<1> HIDE DEF Fs, Gs
<1>3. /\ Rank(Summary(Fs).highest) <= Rank(Summary(Gs).highest)
      /\ Summary(Fs).hndl => Summary(Gs).hndl
      /\ Summary(Fs).vulnerable <= Summary(Gs).vulnerable /\ Summary(Fs).weak <= Summary(Gs).weak
      /\ Summary(Fs).vulnerable > 0 => Summary(Gs).readiness \in {"classical_only", "hybrid_partial"}
    BY <1>2, SummaryGrows
<1> QED
    BY <1>3 DEF OnlyWorsens, Fs, Gs

-----------------------------------------------------------------------------
(* risk-engine: points of signals *)

(* A table of points for finitely many signals.                             *)
Table(t) == IsFiniteSet(DOMAIN t) /\ \A s \in DOMAIN t : t[s] \in 0 .. 100

LEMMA PointsAreFinite ==
    ASSUME NEW t, Table(t), NEW S
    PROVE  IsFiniteSet(Scoring!Points(t, S))
<1>1. IsFiniteSet(1 .. 100)
    BY 1 \in Int, 100 \in Int, FS_Interval
<1>2. IsFiniteSet((DOMAIN t) \X (1 .. 100))
    BY <1>1, FS_Product DEF Table
<1>3. Scoring!Points(t, S) \subseteq (DOMAIN t) \X (1 .. 100)
  <2> SUFFICES ASSUME NEW s \in S \intersect DOMAIN t, NEW n \in 1 .. t[s]
               PROVE  s \in DOMAIN t /\ n \in 1 .. 100
    BY DEF Scoring!Points
  <2>1. t[s] \in 0 .. 100
    BY DEF Table
  <2> QED
    BY <2>1
<1> QED
    BY <1>2, <1>3, FS_Subset

(* More signals are worth no fewer points.                                  *)
LEMMA PointsGrow ==
    ASSUME NEW t, Table(t), NEW S, NEW T, S \subseteq T
    PROVE  /\ Cardinality(Scoring!Points(t, S)) \in Nat
           /\ Cardinality(Scoring!Points(t, T)) \in Nat
           /\ Cardinality(Scoring!Points(t, S)) <= Cardinality(Scoring!Points(t, T))
<1>1. Scoring!Points(t, S) \subseteq Scoring!Points(t, T)
    BY DEF Scoring!Points
<1>2. IsFiniteSet(Scoring!Points(t, S)) /\ IsFiniteSet(Scoring!Points(t, T))
    BY PointsAreFinite
<1> QED
    BY <1>1, <1>2, FS_Subset, FS_CardinalityType

LEMMA FewAreFinite ==
    ASSUME NEW a, NEW b, NEW c, NEW d, NEW e, NEW f
    PROVE  IsFiniteSet({a, b, c, d, e, f})
<1>1. IsFiniteSet({a}) /\ IsFiniteSet({b}) /\ IsFiniteSet({c})
      /\ IsFiniteSet({d}) /\ IsFiniteSet({e}) /\ IsFiniteSet({f})
    BY FS_Singleton
<1>2. IsFiniteSet({a} \union {b}) /\ IsFiniteSet({c} \union {d}) /\ IsFiniteSet({e} \union {f})
    BY <1>1, FS_Union
<1>3. IsFiniteSet(({a} \union {b}) \union ({c} \union {d}))
    BY <1>2, FS_Union
<1>4. IsFiniteSet((({a} \union {b}) \union ({c} \union {d})) \union ({e} \union {f}))
    BY <1>2, <1>3, FS_Union
<1>5. (({a} \union {b}) \union ({c} \union {d})) \union ({e} \union {f}) = {a, b, c, d, e, f}
    OBVIOUS
<1> QED
    BY <1>4, <1>5

LEMMA TheTables ==
    /\ Table(Scoring!EvidenceWeight) /\ Table(Scoring!WindowsWeight) /\ Table(Scoring!ExposureOf)
    /\ Table(Scoring!ImpactOf) /\ Table(Scoring!UrgencyOf) /\ Table(Scoring!ComplexityOf)
<1>1. /\ \A s \in DOMAIN Scoring!EvidenceWeight : Scoring!EvidenceWeight[s] \in 0 .. 100
      /\ \A s \in DOMAIN Scoring!WindowsWeight : Scoring!WindowsWeight[s] \in 0 .. 100
      /\ \A s \in DOMAIN Scoring!ExposureOf : Scoring!ExposureOf[s] \in 0 .. 100
      /\ \A s \in DOMAIN Scoring!ImpactOf : Scoring!ImpactOf[s] \in 0 .. 100
      /\ \A s \in DOMAIN Scoring!UrgencyOf : Scoring!UrgencyOf[s] \in 0 .. 100
      /\ \A s \in DOMAIN Scoring!ComplexityOf : Scoring!ComplexityOf[s] \in 0 .. 100
    BY DEF Scoring!EvidenceWeight, Scoring!WindowsWeight, Scoring!ExposureOf, Scoring!ImpactOf,
           Scoring!UrgencyOf, Scoring!ComplexityOf
<1>2. IsFiniteSet(DOMAIN Scoring!EvidenceWeight)
  <2> DEFINE A == {"crypto_packages", "certificate_files", "private_key_files", "tls_config",
                   "ssh_config", "tls"}
             B == {"weak_public_key", "expiring_certificate", "certificate_chain", "weak_ssh_kex",
                   "legacy_ssh_host_key", "weak_ssh_cipher"}
             C == {"weak_ssh_mac", "embedded_private_key", "ci_signing_command",
                   "weak_ipsec_encryption", "weak_ipsec_integrity", "weak_ipsec_prf"}
             D == {"legacy_ipsec_dh_group", "ad_weak_template", "ad_ca_expiring",
                   "ad_large_estate", "ad_ca_expiring", "ad_large_estate"}
  <2>1. IsFiniteSet(A) /\ IsFiniteSet(B) /\ IsFiniteSet(C) /\ IsFiniteSet(D)
    BY FewAreFinite
  <2>2. DOMAIN Scoring!EvidenceWeight \subseteq (A \union B) \union (C \union D)
    BY DEF Scoring!EvidenceWeight
  <2> HIDE DEF A, B, C, D
  <2>3. IsFiniteSet((A \union B) \union (C \union D))
    BY <2>1, FS_Union
  <2> QED
    BY <2>2, <2>3, FS_Subset
<1>3. IsFiniteSet(DOMAIN Scoring!WindowsWeight)
  <2>1. IsFiniteSet({"windows_expired", "windows_weak_signature", "windows_dc",
                     "windows_large_estate", "windows_crypto_services", "windows_dc"})
    BY FewAreFinite
  <2>2. DOMAIN Scoring!WindowsWeight \subseteq
            {"windows_expired", "windows_weak_signature", "windows_dc",
             "windows_large_estate", "windows_crypto_services", "windows_dc"}
    BY DEF Scoring!WindowsWeight
  <2> QED
    BY <2>1, <2>2, FS_Subset
<1>4. IsFiniteSet(DOMAIN Scoring!ExposureOf) /\ IsFiniteSet(DOMAIN Scoring!ImpactOf)
  <2> DEFINE A == {"tls", "tls_config", "ssh_config", "weak_ssh_kex", "windows_dc", "windows_dc"}
             B == {"legacy_ssh_host_key", "legacy_ipsec_dh_group", "ad_weak_template",
                   "windows_dc", "windows_dc", "windows_dc"}
  <2>1. IsFiniteSet(A) /\ IsFiniteSet(B)
    BY FewAreFinite
  <2>2. DOMAIN Scoring!ExposureOf \subseteq A \union B /\ DOMAIN Scoring!ImpactOf \subseteq A
    BY DEF Scoring!ExposureOf, Scoring!ImpactOf
  <2> HIDE DEF A, B
  <2> QED
    BY <2>1, <2>2, FS_Subset, FS_Union
<1>5. IsFiniteSet(DOMAIN Scoring!UrgencyOf) /\ IsFiniteSet(DOMAIN Scoring!ComplexityOf)
  <2> DEFINE A == {"expiring_certificate", "weak_public_key", "private_key_files",
                   "embedded_private_key", "ad_weak_template", "ad_ca_expiring"}
             B == {"windows_expired", "windows_weak_signature", "certificate_files",
                   "ci_signing_command", "windows_large_estate", "windows_dc"}
             C == {"ad_large_estate", "ad_large_estate", "ad_large_estate",
                   "ad_large_estate", "ad_large_estate", "ad_large_estate"}
  <2>1. IsFiniteSet(A) /\ IsFiniteSet(B) /\ IsFiniteSet(C)
    BY FewAreFinite
  <2>2. /\ DOMAIN Scoring!UrgencyOf \subseteq (A \union B) \union C
        /\ DOMAIN Scoring!ComplexityOf \subseteq (A \union B) \union C
    BY DEF Scoring!UrgencyOf, Scoring!ComplexityOf
  <2> HIDE DEF A, B, C
  <2>3. IsFiniteSet((A \union B) \union C)
    BY <2>1, FS_Union
  <2> QED
    BY <2>2, <2>3, FS_Subset
<1> QED
    BY <1>1, <1>2, <1>3, <1>4, <1>5 DEF Table

-----------------------------------------------------------------------------
(* risk-engine: an asset's evidence *)

LEMMA FieldsAre ==
    /\ Scoring!Numbers \subseteq Scoring!Fields /\ Scoring!Lists \subseteq Scoring!Fields
    /\ DOMAIN Scoring!Least \subseteq Scoring!Numbers /\ Scoring!Crypto \subseteq Scoring!Numbers
    /\ {"rsa_bits", "chain", "dependency_count", "vendor_blocked", "production"} \subseteq Scoring!Numbers
    /\ {"expires_in", "notes"} \subseteq Scoring!Fields
BY DEF Scoring!Numbers, Scoring!Fields

LEMMA LeastIs ==
    /\ \A s \in DOMAIN Scoring!Least : Scoring!Least[s] \in Nat /\ Scoring!Least[s] > 0
    /\ DOMAIN Scoring!WindowsWeight \subseteq DOMAIN Scoring!Least
    /\ "tls" \in DOMAIN Scoring!Least
BY DEF Scoring!Least, Scoring!WindowsWeight

LEMMA ListsAre ==
    Scoring!Lists \subseteq {"kex", "host_key", "cipher_to_server", "cipher_to_client", "mac_to_server",
                             "mac_to_client", "encryption", "integrity", "prf", "dh_group"}
<1>1. \A s \in DOMAIN Scoring!Offered :
          Scoring!Offered[s][2] \subseteq {"kex", "host_key", "cipher_to_server", "cipher_to_client",
              "mac_to_server", "mac_to_client", "encryption", "integrity", "prf", "dh_group"}
    BY DEF Scoring!Offered
<1> QED
    BY <1>1 DEF Scoring!Lists

LEMMA MissingIs ==
    /\ \A f \in Scoring!Numbers : Scoring!Missing[f] = 0
    /\ \A f \in Scoring!Lists : Scoring!Missing[f] = {}
    /\ Scoring!Missing["notes"] = {} /\ Scoring!Missing["expires_in"] = -1
    /\ DOMAIN Scoring!Missing = Scoring!Fields
<1>1. \A f \in Scoring!Numbers : f \notin Scoring!Lists /\ f # "notes" /\ f # "expires_in"
  <2>1. \A f \in DOMAIN Scoring!Least : f \notin Scoring!Lists /\ f # "notes" /\ f # "expires_in"
      BY ListsAre DEF Scoring!Least
  <2>2. \A f \in Scoring!Crypto : f \notin Scoring!Lists /\ f # "notes" /\ f # "expires_in"
      BY ListsAre DEF Scoring!Crypto
  <2> QED
      BY <2>1, <2>2, ListsAre DEF Scoring!Numbers
<1>2. "expires_in" \notin Scoring!Lists
    BY ListsAre
<1> QED
    BY <1>1, <1>2, FieldsAre DEF Scoring!Missing

(* A document whose fields have their types.                                *)
Document(d) ==
    DOMAIN d = Scoring!Fields /\ \A f \in Scoring!Numbers : d[f] \in Nat

ScoringOk == /\ factors \in [Scoring!Factors -> 0 .. Scoring!MaxFactor]
             /\ scenario \in DOMAIN Scoring!ScenarioMultiplier
             /\ Document(doc)

LEMMA ScoringInit ==
    ASSUME Scoring!FactorsAssumption, Scoring!Init
    PROVE  ScoringOk
BY MissingIs DEF Scoring!FactorsAssumption, Scoring!Init, ScoringOk, Document

LEMMA ScoringStep ==
    ASSUME Scoring!FactorsAssumption, ScoringOk, [Scoring!Next]_Scoring!vars
    PROVE  ScoringOk'
<1>1. CASE UNCHANGED Scoring!vars
    BY <1>1 DEF ScoringOk, Document, Scoring!vars
<1>2. ASSUME NEW f \in DOMAIN ValuesOf, NEW v \in ValuesOf[f], Scoring!Collect(f, v)
      PROVE  ScoringOk'
  <2>1. DOMAIN doc' = Scoring!Fields
      BY <1>2 DEF Scoring!Collect, ScoringOk, Document
  <2>2. ASSUME NEW g \in Scoring!Numbers PROVE doc'[g] \in Nat
    <3>1. doc'[g] = IF g = f THEN v ELSE doc[g]
        BY <1>2, FieldsAre DEF Scoring!Collect, ScoringOk, Document
    <3> QED
        BY <1>2, <3>1 DEF Scoring!FactorsAssumption, ScoringOk, Document
  <2> QED
      BY <1>2, <2>1, <2>2 DEF Scoring!Collect, ScoringOk, Document
<1>3. ASSUME NEW sc \in DOMAIN Scoring!ScenarioMultiplier, Scoring!Rescore(sc)
      PROVE  ScoringOk'
    BY <1>3 DEF Scoring!Rescore, ScoringOk, Document
<1> QED
    BY <1>1, <1>2, <1>3 DEF Scoring!Next

-----------------------------------------------------------------------------
(* risk-engine: bounds *)

LEMMA SumIs ==
    ASSUME NEW S, NEW t
    PROVE  Scoring!SumOver(t, S) = Cardinality(Scoring!Points(t, S))
BY DEF Scoring!SumOver, Scoring!Cardinality, Cardinality

LEMMA SumsAreNatural ==
    \A S : /\ Scoring!SumOver(Scoring!EvidenceWeight, S) \in Nat
           /\ Scoring!SumOver(Scoring!WindowsWeight, S) \in Nat
           /\ Scoring!SumOver(Scoring!ExposureOf, S) \in Nat
           /\ Scoring!SumOver(Scoring!ImpactOf, S) \in Nat
           /\ Scoring!SumOver(Scoring!UrgencyOf, S) \in Nat
           /\ Scoring!SumOver(Scoring!ComplexityOf, S) \in Nat
<1> SUFFICES ASSUME NEW S
             PROVE  \A t : Table(t) => Scoring!SumOver(t, S) \in Nat
    BY TheTables
<1> TAKE t
<1> HAVE Table(t)
<1>1. Scoring!SumOver(t, S) = Cardinality(Scoring!Points(t, S))
    BY SumIs
<1> QED
    BY <1>1, PointsGrow

LEMMA AdjustmentIs ==
    ASSUME NEW d
    PROVE  /\ Scoring!Hints(d) \in Int /\ Scoring!RawAdjustment(d) \in Int
           /\ Scoring!Adjustment(d) \in Nat
<1>1. Scoring!Hints(d) \in Int
    BY DEF Scoring!Hints
<1>2. Scoring!RawAdjustment(d) \in Int
    BY <1>1, SumsAreNatural DEF Scoring!RawAdjustment
<1> QED
    BY <1>1, <1>2 DEF Scoring!Adjustment, Scoring!AtLeast

LEMMA MultiplierIs ==
    \A sc \in DOMAIN Scoring!ScenarioMultiplier : Scoring!ScenarioMultiplier[sc] \in 100 .. 140
BY DEF Scoring!ScenarioMultiplier

LEMMA TheBounds ==
    /\ Scoring!MaxFactor = 5000 /\ Collecting!MaxFactor = 5000
    /\ Scoring!MaxNormalized = 10000000 /\ Deciding!MaxNormalized = 10000000
    /\ Collecting!MaxNormalized = Scoring!MaxNormalized
    /\ Scoring!MaxDimension = 100000
BY DEF Scoring!MaxFactor, Collecting!MaxFactor, Scoring!MaxNormalized, Deciding!MaxNormalized,
       Collecting!MaxNormalized, Scoring!MaxDimension

LEMMA AtMostIs ==
    ASSUME NEW high \in Nat
    PROVE  \A x \in Nat : Scoring!AtMost(x, high) \in 0 .. high
BY DEF Scoring!AtMost

LEMMA FactorsAre ==
    ASSUME NEW p \in [Scoring!Factors -> 0 .. Scoring!MaxFactor]
    PROVE  /\ p.criticality \in Nat /\ p.confidentiality_lifetime \in Nat /\ p.quantum_exposure \in Nat
           /\ p.blast_radius \in Nat /\ p.vendor_lock_in \in Nat /\ p.migration_difficulty \in Nat
<1>1. p \in [Scoring!Factors -> Nat]
    OBVIOUS
<1> QED
    BY <1>1 DEF Scoring!Factors

LEMMA TimesIsNat == \A a \in Nat, b \in Nat : a * b \in Nat
OBVIOUS

LEMMA NormalizedIs ==
    ASSUME NEW p \in [Scoring!Factors -> 0 .. Scoring!MaxFactor], NEW sc \in DOMAIN Scoring!ScenarioMultiplier, NEW d
    PROVE  Scoring!Normalized(p, sc, d) \in 0 .. Scoring!MaxNormalized
<1>1. Scoring!BaseScore(p) \in Nat
    BY FactorsAre DEF Scoring!BaseScore
<1>2. Scoring!BaseScore(p) * Scoring!ScenarioMultiplier[sc] \in Nat
    BY <1>1, MultiplierIs, TimesIsNat
<1>3. 20000 * Scoring!Adjustment(d) \in Nat
    BY AdjustmentIs
<1> DEFINE x == Scoring!BaseScore(p) * Scoring!ScenarioMultiplier[sc] + 20000 * Scoring!Adjustment(d)
<1>4. Scoring!Normalized(p, sc, d) = Scoring!AtMost(x, Scoring!MaxNormalized)
    BY DEF Scoring!Normalized
<1>5. x \in Nat
    BY <1>2, <1>3
<1>6. Scoring!MaxNormalized \in Nat
    BY TheBounds
<1> HIDE DEF x
<1> QED
    BY <1>4, <1>5, <1>6, AtMostIs

LEMMA WorthIs ==
    \A c : \A n \in Nat : Scoring!Worth(c, n) \in {0, n}
BY DEF Scoring!Worth

LEMMA ConfidenceIs ==
    ASSUME NEW p, NEW d
    PROVE  Scoring!Confidence(p, d) \in 50 .. 100
<1> DEFINE a == Scoring!Worth(p.criticality > 0, 10)
           b == Scoring!Worth(d.production > 0, 10)
           c == Scoring!Worth(Scoring!Signals(d) \intersect DOMAIN Scoring!EvidenceWeight # {}, 10)
           e == Scoring!Worth(d.tls > 0, 10)
           g == Scoring!Worth(\E f \in Scoring!Crypto : d[f] > 0, 10)
           h == Scoring!Worth(\E f \in Scoring!Windows : d[f] > 0, 10)
           i == Scoring!Worth(d.chain > 0, 5)
           j == Scoring!Worth(d.notes # {}, 5)
<1>1. a \in 0 .. 10 /\ b \in 0 .. 10 /\ c \in 0 .. 10 /\ e \in 0 .. 10 /\ g \in 0 .. 10
      /\ h \in 0 .. 10 /\ i \in 0 .. 10 /\ j \in 0 .. 10
    BY DEF Scoring!Worth
<1>2. Scoring!Confidence(p, d) =
          Scoring!AtLeast(Scoring!AtMost(50 + a + b + c + e + g + h + i + j, 100), 0)
    BY DEF Scoring!Confidence
<1> HIDE DEF a, b, c, e, g, h, i, j
<1> QED
    BY <1>1, <1>2 DEF Scoring!AtLeast, Scoring!AtMost

LEMMA CapIs == \A x \in Int : Scoring!CapScore(x) \in 0 .. Scoring!MaxDimension
<1>1. Scoring!MaxDimension \in Nat
    BY TheBounds
<1> QED
    BY <1>1 DEF Scoring!CapScore, Scoring!AtLeast, Scoring!AtMost

LEMMA DimensionsAre ==
    ASSUME NEW p \in [Scoring!Factors -> 0 .. Scoring!MaxFactor], NEW d, Document(d)
    PROVE  \A x \in DOMAIN Scoring!Dimensions(p, d) : Scoring!Dimensions(p, d)[x] \in 0 .. Scoring!MaxDimension
<1> DEFINE A == 20 * p.quantum_exposure
                    + 1000 * Scoring!SumOver(Scoring!ExposureOf, Scoring!Signals(d))
           B == 20 * p.criticality + Scoring!Worth(d.production = 2, 10000)
                    + 1000 * Scoring!SumOver(Scoring!ImpactOf, Scoring!Signals(d))
           C == 1000 * Scoring!SumOver(Scoring!UrgencyOf, Scoring!Signals(d))
           D == Scoring!AtMost(4000 * d.dependency_count, 70000)
                    + Scoring!Worth(d.vendor_blocked > 0, 20000)
                    + 1000 * Scoring!SumOver(Scoring!ComplexityOf, Scoring!Signals(d))
<1>1. Scoring!Dimensions(p, d) =
          [exposure |-> Scoring!CapScore(A), impact |-> Scoring!CapScore(B),
           urgency |-> Scoring!CapScore(C), migration_complexity |-> Scoring!CapScore(D)]
    BY DEF Scoring!Dimensions
<1>2. A \in Int /\ C \in Int
    BY FactorsAre, SumsAreNatural
<1>3. B \in Int
  <2>1. Scoring!Worth(d.production = 2, 10000) \in Int
    BY DEF Scoring!Worth
  <2> QED
    BY <2>1, FactorsAre, SumsAreNatural
<1>4. D \in Int
  <2>1. d.dependency_count \in Nat
    BY FieldsAre DEF Document
  <2>2. Scoring!Worth(d.vendor_blocked > 0, 20000) \in Int
    BY DEF Scoring!Worth
  <2>3. Scoring!AtMost(4000 * d.dependency_count, 70000) \in Int
    BY <2>1 DEF Scoring!AtMost
  <2> QED
    BY <2>2, <2>3, SumsAreNatural
<1> HIDE DEF A, B, C, D
<1> QED
    BY <1>1, <1>2, <1>3, <1>4, CapIs

LEMMA ScoresBounded ==
    ASSUME ScoringOk
    PROVE  Scoring!ScoresAreBounded
BY NormalizedIs, AdjustmentIs, ConfidenceIs, DimensionsAre
DEF ScoringOk, Scoring!ScoresAreBounded, Scoring!Now

-----------------------------------------------------------------------------
(* risk-engine: more evidence *)

(* What d says, e says too; more fields may be filled in.                   *)
SaysMore(d, e) ==
    /\ Document(d) /\ Document(e)
    /\ \A f \in Scoring!Fields : e[f] = d[f] \/ d[f] = Scoring!Missing[f]

LEMMA NumbersGrow ==
    ASSUME NEW d, NEW e, SaysMore(d, e)
    PROVE  \A f \in Scoring!Numbers : d[f] \in Nat /\ e[f] \in Nat /\ (e[f] = d[f] \/ d[f] = 0)
BY FieldsAre, MissingIs DEF SaysMore, Document

LEMMA OfferedIs ==
    \A s \in DOMAIN Scoring!Offered : Scoring!Offered[s][2] \subseteq Scoring!Lists
BY DEF Scoring!Lists

(* The ways in which a document has a signal.                               *)
Counted(d, s)      == s \in DOMAIN Scoring!Least /\ d[s] >= Scoring!Least[s]
OfferedWeak(d, s)  == /\ s \in DOMAIN Scoring!Offered
                      /\ \E f \in Scoring!Offered[s][2] :
                            d[f] \intersect Scoring!Weak[Scoring!Offered[s][1]] # {}
ShortKey(d, s)     == s = "weak_public_key" /\ 0 < d.rsa_bits /\ d.rsa_bits < 2048
Expiring(d, s)     == s = "expiring_certificate" /\ d.expires_in \in 0 .. 90
Chained(d, s)      == s = "certificate_chain" /\ d.chain > 0
WeakTemplate(d, s) == /\ s = "ad_weak_template"
                      /\ d.ad_weak_key_templates > 0 \/ d.ad_weak_signature_templates > 0

LEMMA DetectedIs ==
    ASSUME NEW d, NEW s
    PROVE  Scoring!Detected(d, s) <=> \/ Counted(d, s) \/ OfferedWeak(d, s) \/ ShortKey(d, s)
                                      \/ Expiring(d, s) \/ Chained(d, s) \/ WeakTemplate(d, s)
BY DEF Scoring!Detected, Counted, OfferedWeak, ShortKey, Expiring, Chained, WeakTemplate

LEMMA SignalsGrow ==
    ASSUME NEW d, NEW e, SaysMore(d, e)
    PROVE  Scoring!Signals(d) \subseteq Scoring!Signals(e)
<1> SUFFICES ASSUME NEW s, Scoring!Detected(d, s)
             PROVE  Scoring!Detected(e, s)
    BY DEF Scoring!Signals
<1>1. ASSUME Counted(d, s) PROVE Counted(e, s)
  <2>0. s \in DOMAIN Scoring!Least /\ d[s] >= Scoring!Least[s]
    BY <1>1 DEF Counted
  <2>1. /\ s \in Scoring!Numbers
        /\ Scoring!Least[s] \in Nat /\ Scoring!Least[s] > 0
    BY <2>0, FieldsAre, LeastIs
  <2>2. e[s] >= Scoring!Least[s]
    BY <2>0, <2>1, NumbersGrow
  <2> QED
    BY <2>0, <2>2 DEF Counted
<1>2. ASSUME OfferedWeak(d, s) PROVE OfferedWeak(e, s)
  <2>0. s \in DOMAIN Scoring!Offered
    BY <1>2 DEF OfferedWeak
  <2>1. PICK f \in Scoring!Offered[s][2] : d[f] \intersect Scoring!Weak[Scoring!Offered[s][1]] # {}
    BY <1>2 DEF OfferedWeak
  <2>2. f \in Scoring!Lists
    BY <2>0, <2>1, OfferedIs
  <2>3. e[f] = d[f]
    <3>1. f \in Scoring!Fields
      BY <2>2, FieldsAre
    <3>2. Scoring!Missing[f] = {}
      BY <2>2, MissingIs
    <3>3. d[f] # {}
      BY <2>1
    <3> QED
      BY <3>1, <3>2, <3>3 DEF SaysMore
  <2> QED
    BY <2>0, <2>1, <2>3 DEF OfferedWeak
<1>3. ASSUME ShortKey(d, s) PROVE ShortKey(e, s)
  <2>1. s = "weak_public_key" /\ 0 < d.rsa_bits /\ d.rsa_bits < 2048
    BY <1>3 DEF ShortKey
  <2>2. "rsa_bits" \in Scoring!Numbers
    BY FieldsAre
  <2>3. e.rsa_bits = d.rsa_bits
    <3>1. e.rsa_bits = d.rsa_bits \/ d.rsa_bits = 0
      BY <2>2, NumbersGrow
    <3> QED
      BY <2>1, <3>1
  <2> QED
    BY <2>1, <2>3 DEF ShortKey
<1>4. ASSUME Expiring(d, s) PROVE Expiring(e, s)
  <2>1. s = "expiring_certificate" /\ d.expires_in \in 0 .. 90
    BY <1>4 DEF Expiring
  <2>2. d.expires_in # -1
    BY <2>1
  <2>3. "expires_in" \in Scoring!Fields /\ Scoring!Missing["expires_in"] = -1
    BY FieldsAre, MissingIs
  <2>4. e.expires_in = d.expires_in
    BY <2>2, <2>3 DEF SaysMore
  <2> QED
    BY <2>1, <2>4 DEF Expiring
<1>5. ASSUME Chained(d, s) PROVE Chained(e, s)
  <2>1. s = "certificate_chain" /\ d.chain > 0
    BY <1>5 DEF Chained
  <2>2. "chain" \in Scoring!Numbers
    BY FieldsAre
  <2>3. e.chain > 0
    BY <2>1, <2>2, NumbersGrow
  <2> QED
    BY <2>1, <2>3 DEF Chained
<1>6. ASSUME WeakTemplate(d, s) PROVE WeakTemplate(e, s)
  <2>0. /\ s = "ad_weak_template"
        /\ d.ad_weak_key_templates > 0 \/ d.ad_weak_signature_templates > 0
    BY <1>6 DEF WeakTemplate
  <2>1. "ad_weak_key_templates" \in Scoring!Numbers /\ "ad_weak_signature_templates" \in Scoring!Numbers
    BY FieldsAre DEF Scoring!Crypto
  <2>3. ASSUME NEW f \in Scoring!Numbers, d[f] > 0 PROVE e[f] > 0
    BY <2>3, NumbersGrow
  <2>2. e.ad_weak_key_templates > 0 \/ e.ad_weak_signature_templates > 0
    BY <2>0, <2>1, <2>3
  <2> QED
    BY <2>0, <2>2 DEF WeakTemplate
<1> QED
    BY <1>1, <1>2, <1>3, <1>4, <1>5, <1>6, DetectedIs

LEMMA SumsGrow ==
    ASSUME NEW S, NEW T, S \subseteq T, NEW t, Table(t)
    PROVE  /\ Scoring!SumOver(t, S) \in Nat /\ Scoring!SumOver(t, T) \in Nat
           /\ Scoring!SumOver(t, S) <= Scoring!SumOver(t, T)
<1>1. \A U : Scoring!SumOver(t, U) = Cardinality(Scoring!Points(t, U))
    BY SumIs
<1> QED
    BY <1>1, PointsGrow

(* Only notes may lower what the hints add, by ten hundredths.              *)
LEMMA HintsGrow ==
    ASSUME NEW d, NEW e, SaysMore(d, e)
    PROVE  /\ Scoring!Hints(e) >= Scoring!Hints(d) - 10
           /\ e.notes = d.notes => Scoring!Hints(e) >= Scoring!Hints(d)
<1> DEFINE N(x) == (IF "hndl" \in x.notes THEN 10 ELSE 0) - (IF "plan" \in x.notes THEN 10 ELSE 0)
           V(x) == IF x.vendor_blocked > 0 THEN 20 ELSE 0
           M(x) == IF x.dependency_count >= 10 THEN 15 ELSE 0
<1>1. V(e) \in Int /\ V(d) \in Int /\ V(e) >= V(d)
    BY NumbersGrow, FieldsAre
<1>2. M(e) \in Int /\ M(d) \in Int /\ M(e) >= M(d)
    BY NumbersGrow, FieldsAre
<1>3. N(e) \in Int /\ N(d) \in Int /\ N(e) >= N(d) - 10 /\ (e.notes = d.notes => N(e) = N(d))
  <2>1. e.notes = d.notes \/ d.notes = {}
    BY FieldsAre, MissingIs DEF SaysMore
  <2> QED
    BY <2>1
<1>4. \A x : Scoring!Hints(x) = V(x) + M(x) + N(x)
  <2> TAKE x
  <2>1. V(x) \in Int /\ M(x) \in Int
    OBVIOUS
  <2> QED
    BY <2>1 DEF Scoring!Hints
<1>5. Scoring!Hints(d) = V(d) + M(d) + N(d) /\ Scoring!Hints(e) = V(e) + M(e) + N(e)
    BY <1>4
<1> HIDE DEF N, V, M
<1> QED
    BY <1>1, <1>2, <1>3, <1>5

(* Scores grow with the adjustment, up to the cap.                          *)
LEMMA NormalizedGrows ==
    ASSUME NEW p \in [Scoring!Factors -> 0 .. Scoring!MaxFactor], NEW sc \in DOMAIN Scoring!ScenarioMultiplier,
           NEW d, NEW e, SaysMore(d, e)
    PROVE  Scoring!Normalized(p, sc, e) >=
               Scoring!Normalized(p, sc, d) - (IF e.notes # d.notes THEN 200000 ELSE 0)
<1> DEFINE X == Scoring!BaseScore(p) * Scoring!ScenarioMultiplier[sc]
           lost == IF e.notes # d.notes THEN 10 ELSE 0
<1>1. X \in Nat
  <2>1. Scoring!BaseScore(p) \in Nat
    BY FactorsAre DEF Scoring!BaseScore
  <2> QED
    BY <2>1, MultiplierIs, TimesIsNat
<1>2. Scoring!RawAdjustment(e) >= Scoring!RawAdjustment(d) - lost
  <2>1. /\ Scoring!SumOver(Scoring!EvidenceWeight, Scoring!Signals(d)) \in Nat
        /\ Scoring!SumOver(Scoring!EvidenceWeight, Scoring!Signals(e)) \in Nat
        /\ Scoring!SumOver(Scoring!EvidenceWeight, Scoring!Signals(d))
               <= Scoring!SumOver(Scoring!EvidenceWeight, Scoring!Signals(e))
    BY SignalsGrow, SumsGrow, TheTables
  <2>2. /\ Scoring!SumOver(Scoring!WindowsWeight, Scoring!Signals(d)) \in Nat
        /\ Scoring!SumOver(Scoring!WindowsWeight, Scoring!Signals(e)) \in Nat
        /\ Scoring!SumOver(Scoring!WindowsWeight, Scoring!Signals(d))
               <= Scoring!SumOver(Scoring!WindowsWeight, Scoring!Signals(e))
    BY SignalsGrow, SumsGrow, TheTables
  <2>3. /\ Scoring!Hints(d) \in Int /\ Scoring!Hints(e) \in Int
        /\ Scoring!Hints(e) >= Scoring!Hints(d) - lost
    BY AdjustmentIs, HintsGrow
  <2> HIDE DEF lost
  <2>4. lost \in Int
    BY DEF lost
  <2> QED
    BY <2>1, <2>2, <2>3, <2>4 DEF Scoring!RawAdjustment
<1>3. lost \in {0, 10}
    OBVIOUS
<1> HIDE DEF lost
<1>4. /\ Scoring!Adjustment(d) \in Nat /\ Scoring!Adjustment(e) \in Nat
      /\ Scoring!Adjustment(e) >= Scoring!Adjustment(d) - lost
  <2>1. Scoring!RawAdjustment(d) \in Int /\ Scoring!RawAdjustment(e) \in Int
    BY AdjustmentIs
  <2> QED
    BY <1>2, <1>3, <2>1 DEF Scoring!Adjustment, Scoring!AtLeast
<1> DEFINE Y == X + 20000 * Scoring!Adjustment(d)
           Z == X + 20000 * Scoring!Adjustment(e)
<1>5. Y \in Nat /\ Z \in Nat /\ Z >= Y - 20000 * lost
    BY <1>1, <1>3, <1>4
<1>6. /\ Scoring!Normalized(p, sc, d) = Scoring!AtMost(Y, Scoring!MaxNormalized)
      /\ Scoring!Normalized(p, sc, e) = Scoring!AtMost(Z, Scoring!MaxNormalized)
    BY DEF Scoring!Normalized
<1> HIDE DEF X, Y, Z
<1>7. Scoring!AtMost(Z, Scoring!MaxNormalized) >= Scoring!AtMost(Y, Scoring!MaxNormalized) - 20000 * lost
  <2>1. Scoring!MaxNormalized \in Nat
    BY TheBounds
  <2> QED
    BY <1>3, <1>5, <2>1 DEF Scoring!AtMost
<1>8. 20000 * lost = IF e.notes # d.notes THEN 200000 ELSE 0
    BY DEF lost
<1> QED
    BY <1>6, <1>7, <1>8

LEMMA WorthGrows ==
    \A b, c : \A n \in Nat : (b => c) =>
        /\ Scoring!Worth(b, n) \in Nat /\ Scoring!Worth(c, n) \in Nat
        /\ Scoring!Worth(b, n) <= Scoring!Worth(c, n)
BY DEF Scoring!Worth

LEMMA ConfidenceGrows ==
    ASSUME NEW p, NEW d, NEW e, SaysMore(d, e)
    PROVE  Scoring!Confidence(p, e) >= Scoring!Confidence(p, d)
<1> DEFINE Evident(x) == Scoring!Signals(x) \intersect DOMAIN Scoring!EvidenceWeight # {}
           InCrypto(x)  == \E f \in Scoring!Crypto : x[f] > 0
           InWindows(x) == \E f \in Scoring!Windows : x[f] > 0
           a == Scoring!Worth(p.criticality > 0, 10)
           b(x) == Scoring!Worth(x.production > 0, 10)
           c(x) == Scoring!Worth(Evident(x), 10)
           t(x) == Scoring!Worth(x.tls > 0, 10)
           g(x) == Scoring!Worth(InCrypto(x), 10)
           h(x) == Scoring!Worth(InWindows(x), 10)
           i(x) == Scoring!Worth(x.chain > 0, 5)
           j(x) == Scoring!Worth(x.notes # {}, 5)
<1>1. a \in Nat
    BY WorthGrows
<1>2. b(d) \in Nat /\ b(e) \in Nat /\ b(d) <= b(e)
  <2>1. d.production > 0 => e.production > 0
    BY NumbersGrow, FieldsAre
  <2> QED
    BY <2>1, WorthGrows
<1>3. c(d) \in Nat /\ c(e) \in Nat /\ c(d) <= c(e)
  <2>1. Evident(d) => Evident(e)
    BY SignalsGrow
  <2> HIDE DEF Evident
  <2> QED
    BY <2>1, WorthGrows
<1>4. t(d) \in Nat /\ t(e) \in Nat /\ t(d) <= t(e)
  <2>1. d.tls > 0 => e.tls > 0
    BY NumbersGrow, FieldsAre, LeastIs
  <2> QED
    BY <2>1, WorthGrows
<1>5. g(d) \in Nat /\ g(e) \in Nat /\ g(d) <= g(e)
  <2>1. InCrypto(d) => InCrypto(e)
    BY NumbersGrow, FieldsAre
  <2> HIDE DEF InCrypto
  <2> QED
    BY <2>1, WorthGrows
<1>6. h(d) \in Nat /\ h(e) \in Nat /\ h(d) <= h(e)
  <2>1. InWindows(d) => InWindows(e)
    BY NumbersGrow, FieldsAre, LeastIs DEF Scoring!Windows
  <2> HIDE DEF InWindows
  <2> QED
    BY <2>1, WorthGrows
<1>7. i(d) \in Nat /\ i(e) \in Nat /\ i(d) <= i(e)
  <2>1. d.chain > 0 => e.chain > 0
    BY NumbersGrow, FieldsAre
  <2> QED
    BY <2>1, WorthGrows
<1>8. j(d) \in Nat /\ j(e) \in Nat /\ j(d) <= j(e)
  <2>1. d.notes # {} => e.notes # {}
    BY FieldsAre, MissingIs DEF SaysMore
  <2> QED
    BY <2>1, WorthGrows
<1> DEFINE raw(x) == 50 + a + b(x) + c(x) + t(x) + g(x) + h(x) + i(x) + j(x)
<1>9. /\ Scoring!Confidence(p, d) = Scoring!AtLeast(Scoring!AtMost(raw(d), 100), 0)
      /\ Scoring!Confidence(p, e) = Scoring!AtLeast(Scoring!AtMost(raw(e), 100), 0)
    BY DEF Scoring!Confidence
<1> HIDE DEF a, b, c, t, g, h, i, j
<1>10. raw(d) \in Nat /\ raw(e) \in Nat /\ raw(d) <= raw(e)
    BY <1>1, <1>2, <1>3, <1>4, <1>5, <1>6, <1>7, <1>8
<1> HIDE DEF raw
<1> QED
    BY <1>9, <1>10 DEF Scoring!AtLeast, Scoring!AtMost

LEMMA CapGrows ==
    \A x, y \in Int : x <= y => Scoring!CapScore(y) >= Scoring!CapScore(x)
<1>1. Scoring!MaxDimension \in Nat
    BY TheBounds
<1> QED
    BY <1>1 DEF Scoring!CapScore, Scoring!AtLeast, Scoring!AtMost

LEMMA DimensionsGrow ==
    ASSUME NEW p \in [Scoring!Factors -> 0 .. Scoring!MaxFactor], NEW d, NEW e, SaysMore(d, e)
    PROVE  \A x \in DOMAIN Scoring!Dimensions(p, d) :
               Scoring!Dimensions(p, e)[x] >= Scoring!Dimensions(p, d)[x]
<1> DEFINE A(x) == 20 * p.quantum_exposure
                    + 1000 * Scoring!SumOver(Scoring!ExposureOf, Scoring!Signals(x))
           B(x) == 20 * p.criticality + Scoring!Worth(x.production = 2, 10000)
                    + 1000 * Scoring!SumOver(Scoring!ImpactOf, Scoring!Signals(x))
           C(x) == 1000 * Scoring!SumOver(Scoring!UrgencyOf, Scoring!Signals(x))
           D(x) == Scoring!AtMost(4000 * x.dependency_count, 70000)
                    + Scoring!Worth(x.vendor_blocked > 0, 20000)
                    + 1000 * Scoring!SumOver(Scoring!ComplexityOf, Scoring!Signals(x))
           R(x) == [exposure |-> Scoring!CapScore(A(x)), impact |-> Scoring!CapScore(B(x)),
                    urgency |-> Scoring!CapScore(C(x)),
                    migration_complexity |-> Scoring!CapScore(D(x))]
<1>1. Scoring!Dimensions(p, d) = R(d) /\ Scoring!Dimensions(p, e) = R(e)
    BY DEF Scoring!Dimensions
<1>2. A(d) \in Int /\ A(e) \in Int /\ A(d) <= A(e)
  <2>1. /\ Scoring!SumOver(Scoring!ExposureOf, Scoring!Signals(d)) \in Nat
        /\ Scoring!SumOver(Scoring!ExposureOf, Scoring!Signals(e)) \in Nat
        /\ Scoring!SumOver(Scoring!ExposureOf, Scoring!Signals(d))
               <= Scoring!SumOver(Scoring!ExposureOf, Scoring!Signals(e))
    BY SignalsGrow, SumsGrow, TheTables
  <2> QED
    BY <2>1, FactorsAre
<1>3. B(d) \in Int /\ B(e) \in Int /\ B(d) <= B(e)
  <2>1. /\ Scoring!SumOver(Scoring!ImpactOf, Scoring!Signals(d)) \in Nat
        /\ Scoring!SumOver(Scoring!ImpactOf, Scoring!Signals(e)) \in Nat
        /\ Scoring!SumOver(Scoring!ImpactOf, Scoring!Signals(d))
               <= Scoring!SumOver(Scoring!ImpactOf, Scoring!Signals(e))
    BY SignalsGrow, SumsGrow, TheTables
  <2>2. d.production = 2 => e.production = 2
    BY NumbersGrow, FieldsAre
  <2>3. /\ Scoring!Worth(d.production = 2, 10000) \in Nat
        /\ Scoring!Worth(e.production = 2, 10000) \in Nat
        /\ Scoring!Worth(d.production = 2, 10000) <= Scoring!Worth(e.production = 2, 10000)
    BY <2>2 DEF Scoring!Worth
  <2> QED
    BY <2>1, <2>3, FactorsAre
<1>4. C(d) \in Int /\ C(e) \in Int /\ C(d) <= C(e)
  <2>1. /\ Scoring!SumOver(Scoring!UrgencyOf, Scoring!Signals(d)) \in Nat
        /\ Scoring!SumOver(Scoring!UrgencyOf, Scoring!Signals(e)) \in Nat
        /\ Scoring!SumOver(Scoring!UrgencyOf, Scoring!Signals(d))
               <= Scoring!SumOver(Scoring!UrgencyOf, Scoring!Signals(e))
    BY SignalsGrow, SumsGrow, TheTables
  <2> QED
    BY <2>1
<1>5. D(d) \in Int /\ D(e) \in Int /\ D(d) <= D(e)
  <2>1. /\ Scoring!SumOver(Scoring!ComplexityOf, Scoring!Signals(d)) \in Nat
        /\ Scoring!SumOver(Scoring!ComplexityOf, Scoring!Signals(e)) \in Nat
        /\ Scoring!SumOver(Scoring!ComplexityOf, Scoring!Signals(d))
               <= Scoring!SumOver(Scoring!ComplexityOf, Scoring!Signals(e))
    BY SignalsGrow, SumsGrow, TheTables
  <2>2. d.vendor_blocked > 0 => e.vendor_blocked > 0
    BY NumbersGrow, FieldsAre
  <2>3. /\ Scoring!Worth(d.vendor_blocked > 0, 20000) \in Nat
        /\ Scoring!Worth(e.vendor_blocked > 0, 20000) \in Nat
        /\ Scoring!Worth(d.vendor_blocked > 0, 20000) <= Scoring!Worth(e.vendor_blocked > 0, 20000)
    BY <2>2 DEF Scoring!Worth
  <2>4. d.dependency_count \in Nat /\ e.dependency_count \in Nat
        /\ d.dependency_count <= e.dependency_count
    BY NumbersGrow, FieldsAre
  <2>5. /\ Scoring!AtMost(4000 * d.dependency_count, 70000) \in Nat
        /\ Scoring!AtMost(4000 * e.dependency_count, 70000) \in Nat
        /\ Scoring!AtMost(4000 * d.dependency_count, 70000)
               <= Scoring!AtMost(4000 * e.dependency_count, 70000)
    BY <2>4 DEF Scoring!AtMost
  <2> QED
    BY <2>1, <2>3, <2>5
<1> HIDE DEF A, B, C, D
<1>6. /\ Scoring!CapScore(A(e)) >= Scoring!CapScore(A(d))
      /\ Scoring!CapScore(B(e)) >= Scoring!CapScore(B(d))
      /\ Scoring!CapScore(C(e)) >= Scoring!CapScore(C(d))
      /\ Scoring!CapScore(D(e)) >= Scoring!CapScore(D(d))
    BY <1>2, <1>3, <1>4, <1>5, CapGrows
<1>7. \A x \in DOMAIN R(d) : R(e)[x] >= R(d)[x]
    BY <1>6
<1> QED
    BY <1>1, <1>7

LEMMA StepSaysMore ==
    ASSUME Scoring!FactorsAssumption, ScoringOk, [Scoring!Next]_Scoring!vars,
           doc' # doc, ScoringOk'
    PROVE  SaysMore(doc, doc')
<1>1. PICK f \in DOMAIN ValuesOf : \E v \in ValuesOf[f] : Scoring!Collect(f, v)
    BY DEF Scoring!Next, Scoring!vars, Scoring!Rescore
<1>2. \A g \in Scoring!Fields : doc'[g] = doc[g] \/ doc[g] = Scoring!Missing[g]
    BY <1>1 DEF Scoring!Collect, ScoringOk, Document
<1> QED
    BY <1>2 DEF SaysMore, ScoringOk

LEMMA ScoresNeverLower ==
    ASSUME Scoring!FactorsAssumption, ScoringOk, [Scoring!Next]_Scoring!vars, ScoringOk'
    PROVE  Scoring!NeverLowers
<1> SUFFICES ASSUME doc' # doc, scenario' = scenario
             PROVE  Scoring!NeverLowers
    BY DEF Scoring!NeverLowers
<1>1. SaysMore(doc, doc')
    BY StepSaysMore
<1>2. factors \in [Scoring!Factors -> 0 .. Scoring!MaxFactor] /\ scenario \in DOMAIN Scoring!ScenarioMultiplier
    BY DEF ScoringOk
<1>3. Scoring!Normalized(factors, scenario, doc') >=
          Scoring!Normalized(factors, scenario, doc) - (IF doc'.notes # doc.notes THEN 200000 ELSE 0)
    BY <1>1, <1>2, NormalizedGrows
<1>4. Scoring!Confidence(factors, doc') >= Scoring!Confidence(factors, doc)
    BY <1>1, ConfidenceGrows
<1>5. \A x \in DOMAIN Scoring!Dimensions(factors, doc) :
          Scoring!Dimensions(factors, doc')[x] >= Scoring!Dimensions(factors, doc)[x]
    BY <1>1, <1>2, DimensionsGrow
<1> QED
    BY <1>3, <1>4, <1>5 DEF Scoring!NeverLowers, Scoring!Now

-----------------------------------------------------------------------------
(* The mapper's copy of risk-engine is the same                             *)

LEMMA SameTables ==
    /\ Collecting!EvidenceWeight = Scoring!EvidenceWeight
    /\ Collecting!WindowsWeight = Scoring!WindowsWeight
    /\ Collecting!ScenarioMultiplier = Scoring!ScenarioMultiplier
    /\ Collecting!Factors = Scoring!Factors /\ Collecting!Least = Scoring!Least
    /\ Collecting!Offered = Scoring!Offered /\ Collecting!Weak = Scoring!Weak
    /\ Collecting!Crypto = Scoring!Crypto
<1>1. Collecting!EvidenceWeight = Scoring!EvidenceWeight
    BY DEF Collecting!EvidenceWeight, Scoring!EvidenceWeight
<1>2. Collecting!WindowsWeight = Scoring!WindowsWeight
    BY DEF Collecting!WindowsWeight, Scoring!WindowsWeight
<1>3. Collecting!ScenarioMultiplier = Scoring!ScenarioMultiplier
    BY DEF Collecting!ScenarioMultiplier, Scoring!ScenarioMultiplier
<1>4. Collecting!Factors = Scoring!Factors
    BY DEF Collecting!Factors, Scoring!Factors
<1>5. Collecting!Least = Scoring!Least
    BY DEF Collecting!Least, Scoring!Least
<1>6. Collecting!Offered = Scoring!Offered
    BY DEF Collecting!Offered, Scoring!Offered
<1>7. Collecting!Weak = Scoring!Weak
    BY DEF Collecting!Weak, Scoring!Weak
<1>8. Collecting!Crypto = Scoring!Crypto
    BY DEF Collecting!Crypto, Scoring!Crypto
<1> QED
    BY <1>1, <1>2, <1>3, <1>4, <1>5, <1>6, <1>7, <1>8

LEMMA SameFields ==
    /\ Collecting!Lists = Scoring!Lists /\ Collecting!Numbers = Scoring!Numbers
    /\ Collecting!Fields = Scoring!Fields /\ Collecting!Missing = Scoring!Missing
    /\ Collecting!Windows = Scoring!Windows
<1>1. Collecting!Lists = Scoring!Lists
    BY SameTables DEF Collecting!Lists, Scoring!Lists
<1>2. Collecting!Numbers = Scoring!Numbers
    BY SameTables DEF Collecting!Numbers, Scoring!Numbers
<1>3. Collecting!Fields = Scoring!Fields
    BY <1>1, <1>2 DEF Collecting!Fields, Scoring!Fields
<1>4. Collecting!Missing = Scoring!Missing
    BY <1>1, <1>3 DEF Collecting!Missing, Scoring!Missing
<1>5. Collecting!Windows = Scoring!Windows
    BY SameTables DEF Collecting!Windows, Scoring!Windows
<1> QED
    BY <1>1, <1>2, <1>3, <1>4, <1>5

LEMMA SameSignals ==
    ASSUME NEW d
    PROVE  Collecting!Signals(d) = Scoring!Signals(d)
<1>1. ASSUME NEW s PROVE Collecting!Detected(d, s) <=> Scoring!Detected(d, s)
    BY SameTables DEF Collecting!Detected, Scoring!Detected
<1> QED
    BY <1>1, SameTables, SameFields DEF Collecting!Signals, Scoring!Signals

LEMMA SameSums ==
    ASSUME NEW t, NEW S
    PROVE  Collecting!SumOver(t, S) = Scoring!SumOver(t, S)
<1>1. Collecting!Points(t, S) = Scoring!Points(t, S)
    BY DEF Collecting!Points, Scoring!Points
<1> QED
    BY <1>1 DEF Collecting!SumOver, Scoring!SumOver, Collecting!Cardinality, Scoring!Cardinality

LEMMA SameAdjustment ==
    ASSUME NEW d
    PROVE  Collecting!Adjustment(d) = Scoring!Adjustment(d)
<1>1. Collecting!Hints(d) = Scoring!Hints(d)
    BY DEF Collecting!Hints, Scoring!Hints
<1>2. Collecting!RawAdjustment(d) = Scoring!RawAdjustment(d)
    BY <1>1, SameTables, SameSignals, SameSums DEF Collecting!RawAdjustment, Scoring!RawAdjustment
<1> QED
    BY <1>2 DEF Collecting!Adjustment, Scoring!Adjustment, Collecting!AtLeast, Scoring!AtLeast

LEMMA SameScore ==
    ASSUME NEW p, NEW sc, NEW d
    PROVE  Collecting!Normalized(p, sc, d) = Scoring!Normalized(p, sc, d)
<1> DEFINE x == Collecting!BaseScore(p) * Collecting!ScenarioMultiplier[sc] + 20000 * Collecting!Adjustment(d)
           y == Scoring!BaseScore(p) * Scoring!ScenarioMultiplier[sc] + 20000 * Scoring!Adjustment(d)
<1>1. Collecting!BaseScore(p) = Scoring!BaseScore(p)
    BY DEF Collecting!BaseScore, Scoring!BaseScore
<1>2. x = y
    BY <1>1, SameTables, SameAdjustment
<1>3. /\ Collecting!Normalized(p, sc, d) = Collecting!AtMost(x, Collecting!MaxNormalized)
      /\ Scoring!Normalized(p, sc, d) = Scoring!AtMost(y, Scoring!MaxNormalized)
    BY DEF Collecting!Normalized, Scoring!Normalized
<1>4. Collecting!MaxNormalized = Scoring!MaxNormalized
    BY TheBounds
<1> HIDE DEF x, y
<1> QED
    BY <1>2, <1>3, <1>4 DEF Collecting!AtMost, Scoring!AtMost

-----------------------------------------------------------------------------
(* The mapper: documents *)

Seen  == {"software", "expired", "weak", "services"}
Parts == {"type", "dc", "joined", "certs", "store"} \union Seen

HostOk(d) ==
    /\ DOMAIN d = Parts
    /\ d.dc \in BOOLEAN /\ d.joined \in BOOLEAN /\ d.certs \in Nat
    /\ \A f \in Seen : d[f] \in {0, 1}
    /\ d.store \in Seq(Keys)

CollectingOk ==
    /\ host = {} \/ \E d : HostOk(d) /\ host = {d}
    /\ batch \in Seq(Assets)
    /\ certificate = {} \/ \E k \in Keys : certificate = {k}

LEMMA CollectingInit ==
    ASSUME Collecting!Init
    PROVE  CollectingOk
<1>1. \A t : HostOk(Collecting!FreshHost(t))
    BY DEF HostOk, Parts, Seen, Collecting!FreshHost
<1>2. host = {} \/ \E d : HostOk(d) /\ host = {d}
    BY <1>1 DEF Collecting!Init
<1>3. batch \in Seq(Assets)
  <2>1. <<>> \in Seq(Assets) /\ \A a \in Assets : <<a>> \in Seq(Assets)
    OBVIOUS
  <2> QED
    BY <2>1 DEF Collecting!Init
<1> QED
    BY <1>2, <1>3 DEF Collecting!Init, CollectingOk

(* What happens to a host adds to it.                                       *)
Grows(d, e) ==
    /\ e.type = d.type /\ (d.dc => e.dc) /\ (d.joined => e.joined) /\ e.certs >= d.certs
    /\ \A f \in Seen : e[f] >= d[f]
    /\ e.store = d.store \/ \E k \in Keys : e.store = Append(d.store, k)

LEMMA LaterIs ==
    ASSUME NEW d, HostOk(d), NEW e \in Collecting!Later(d)
    PROVE  HostOk(e) /\ Grows(d, e)
<1>1. DOMAIN d = Parts
    BY DEF HostOk
<1>2. ASSUME NEW f \in {"dc", "joined"}, e = [d EXCEPT ![f] = TRUE]
      PROVE  HostOk(e) /\ Grows(d, e)
  <2>1. DOMAIN e = Parts /\ \A g \in Parts : e[g] = IF g = f THEN TRUE ELSE d[g]
    BY <1>1, <1>2 DEF Parts
  <2>2. e.certs = d.certs /\ e.store = d.store /\ e.type = d.type
    BY <1>2, <2>1 DEF Parts
  <2>4. e.dc \in BOOLEAN /\ e.joined \in BOOLEAN /\ (d.dc => e.dc) /\ (d.joined => e.joined)
    BY <1>2, <2>1 DEF Parts, HostOk
  <2>5. d.certs \in Nat /\ d.store \in Seq(Keys)
    BY DEF HostOk
  <2>3. \A g \in Seen : e[g] \in {0, 1} /\ e[g] >= d[g]
    <3>1. \A g \in Seen : g \in Parts /\ g # f
      BY <1>2 DEF Parts, Seen
    <3>2. \A g \in Seen : e[g] = d[g] /\ d[g] \in {0, 1}
      BY <2>1, <3>1 DEF HostOk
    <3> QED
      BY <3>2
  <2> QED
    BY <2>1, <2>2, <2>3, <2>4, <2>5 DEF HostOk, Grows
<1>3. ASSUME NEW f \in Seen, e = [d EXCEPT ![f] = 1]
      PROVE  HostOk(e) /\ Grows(d, e)
  <2>1. DOMAIN e = Parts /\ \A g \in Parts : e[g] = IF g = f THEN 1 ELSE d[g]
    BY <1>1, <1>3 DEF Parts
  <2>2. /\ e.dc = d.dc /\ e.joined = d.joined /\ e.certs = d.certs /\ e.store = d.store
        /\ e.type = d.type
    BY <1>3, <2>1 DEF Parts, Seen
  <2>3. \A g \in Seen : e[g] \in {0, 1} /\ e[g] >= d[g]
    <3>1. \A g \in Seen : g \in Parts /\ d[g] \in {0, 1}
      BY DEF Parts, HostOk
    <3>2. \A g \in Seen : e[g] = IF g = f THEN 1 ELSE d[g]
      BY <2>1, <3>1
    <3> QED
      BY <3>1, <3>2
  <2>4. d.dc \in BOOLEAN /\ d.joined \in BOOLEAN /\ d.certs \in Nat /\ d.store \in Seq(Keys)
    BY DEF HostOk
  <2>5. (d.dc => e.dc) /\ (d.joined => e.joined) /\ e.certs >= d.certs
    BY <2>2, <2>4
  <2>6. Grows(d, e)
    BY <2>2, <2>3, <2>5 DEF Grows
  <2> QED
    BY <2>1, <2>2, <2>3, <2>4, <2>6 DEF HostOk
<1>4. ASSUME NEW n \in {9, 10, 50}, n > d.certs, e = [d EXCEPT !.certs = n]
      PROVE  HostOk(e) /\ Grows(d, e)
  <2>1. DOMAIN e = Parts /\ \A g \in Parts : e[g] = IF g = "certs" THEN n ELSE d[g]
    BY <1>1, <1>4 DEF Parts
  <2>2. /\ e.dc = d.dc /\ e.joined = d.joined /\ e.certs \in Nat /\ e.certs >= d.certs
        /\ e.store = d.store /\ e.type = d.type
    BY <1>4, <2>1 DEF Parts, HostOk
  <2>3. \A g \in Seen : e[g] \in {0, 1} /\ e[g] >= d[g]
    BY <2>1 DEF Parts, Seen, HostOk
  <2> QED
    BY <2>1, <2>2, <2>3 DEF HostOk, Grows
<1>5. ASSUME NEW k \in Keys, e = [d EXCEPT !.store = Append(@, k)]
      PROVE  HostOk(e) /\ Grows(d, e)
  <2>1. DOMAIN e = Parts /\ \A g \in Parts : e[g] = IF g = "store" THEN Append(d.store, k) ELSE d[g]
    BY <1>1, <1>5 DEF Parts
  <2>2. /\ e.dc = d.dc /\ e.joined = d.joined /\ e.certs = d.certs
        /\ e.store = Append(d.store, k) /\ e.type = d.type
    BY <2>1 DEF Parts
  <2>3. e.store \in Seq(Keys)
    BY <2>2 DEF HostOk
  <2>4. \A g \in Seen : e[g] \in {0, 1} /\ e[g] >= d[g]
    BY <2>1 DEF Parts, Seen, HostOk
  <2>5. d.certs \in Nat
    BY DEF HostOk
  <2> QED
    BY <2>1, <2>2, <2>3, <2>4, <2>5 DEF HostOk, Grows
<1> QED
    BY <1>2, <1>3, <1>4, <1>5 DEF Collecting!Later, Seen

LEMMA CollectingStep ==
    ASSUME CollectingOk, [Collecting!Next]_Collecting!vars
    PROVE  CollectingOk'
<1>1. CASE UNCHANGED Collecting!vars
    BY <1>1 DEF Collecting!vars, CollectingOk
<1>2. CASE Collecting!Change
  <2>1. PICK d \in host : \E e \in Collecting!Later(d) : host' = {e}
    BY <1>2 DEF Collecting!Change
  <2>2. PICK e \in Collecting!Later(d) : host' = {e}
    BY <2>1
  <2>3. HostOk(d)
    BY <2>1 DEF CollectingOk
  <2>4. HostOk(e)
    BY <2>3, LaterIs
  <2> QED
    BY <1>2, <2>2, <2>4 DEF CollectingOk, Collecting!Change
<1>3. ASSUME NEW a \in Assets, Collecting!AddAsset(a)
      PROVE  CollectingOk'
  <2>1. batch' \in Seq(Assets)
    BY <1>3 DEF CollectingOk, Collecting!AddAsset
  <2> QED
    BY <1>3, <2>1 DEF CollectingOk, Collecting!AddAsset
<1>4. ASSUME NEW k \in Keys, Collecting!AddCertificate(k)
      PROVE  CollectingOk'
    BY <1>4 DEF CollectingOk, Collecting!AddCertificate
<1> QED
    BY <1>1, <1>2, <1>3, <1>4 DEF Collecting!Next

-----------------------------------------------------------------------------
(* The mapper: factors *)

LEMMA TargetIs ==
    ASSUME NEW r, NEW n \in Nat, n > 0, DOMAIN r.assets = 1 .. n, NEW name
    PROVE  \E i \in 1 .. n : Collecting!Target(r, name) = r.assets[i]
<1> DEFINE S == {i \in 1 .. n : r.assets[i].name = name}
<1>1. CASE S = {}
  <2>1. ~ \E i \in DOMAIN r.assets : r.assets[i].name = name
    BY <1>1
  <2>2. Collecting!Target(r, name) = r.assets[1]
    BY <2>1 DEF Collecting!Target
  <2> QED
    BY <2>2
<1>2. CASE S # {}
  <2>0. S \in SUBSET Nat
    OBVIOUS
  <2>1. Min(S) \in S /\ \A m \in S : Min(S) <= m
    <3> HIDE DEF S
    <3> QED
      BY <1>2, <2>0, MinIs
  <2>2. PICK low \in 1 .. n : r.assets[low].name = name /\ \A m \in S : low <= m
    BY <2>1
  <2>3. \A j \in 1 .. (low - 1) : r.assets[j].name # name
    BY <2>2
  <2>4. \E i \in DOMAIN r.assets : /\ r.assets[i].name = name
                                   /\ \A j \in 1 .. (i - 1) : r.assets[j].name # name
    BY <2>2, <2>3
  <2>5. \E i \in DOMAIN r.assets : r.assets[i].name = name
    BY <2>4
  <2> HIDE DEF S
  <2> QED
    BY <2>4, <2>5 DEF Collecting!Target
<1> QED
    BY <1>1, <1>2

LEMMA BaseIs ==
    \A r : \A a, b, c \in Nat : Collecting!Base(r, a, b, c) \in {a, b, c}
BY DEF Collecting!Base

LEMMA BlastIs == \A r : Collecting!BlastRadius(r) \in {5000, 4000, 3000, 2000}
BY DEF Collecting!BlastRadius, Collecting!AtLeast, Collecting!Base

LEMMA DifficultyIs == \A r : Collecting!Difficulty(r) \in 0 .. Scoring!MaxFactor
<1> TAKE r
<1>1. Collecting!Base(r, 2000, 3000, 2000) \in {2000, 3000}
    BY DEF Collecting!Base
<1>2. Collecting!RawDifficulty(r) \in Nat
    BY <1>1 DEF Collecting!RawDifficulty
<1>3. Collecting!MaxFactor \in Nat /\ Scoring!MaxFactor = Collecting!MaxFactor
    BY TheBounds
<1> QED
    BY <1>2, <1>3 DEF Collecting!Difficulty, Collecting!AtMost

LEMMA FactorsInRangeOf ==
    ASSUME NEW r, NEW name, Collecting!Target(r, name).criticality \in 0 .. 5
    PROVE  Collecting!FactorsOf(r, name) \in [Scoring!Factors -> 0 .. Scoring!MaxFactor]
<1> DEFINE a == Collecting!Target(r, name)
           f1 == IF a.criticality = 0 THEN 3000 ELSE 1000 * a.criticality
           f2 == Collecting!Base(r, 3000, 4000, 2000)
           f3 == Collecting!Exposure(r)
           f4 == Collecting!BlastRadius(r)
           f5 == IF a.vendor THEN 3000 ELSE 1000
           f6 == Collecting!Difficulty(r)
<1>0. \A x \in Nat : x <= 5000 => x \in 0 .. Scoring!MaxFactor
    BY TheBounds
<1>1. f1 \in 0 .. Scoring!MaxFactor
  <2>1. f1 \in Nat /\ f1 <= 5000
    OBVIOUS
  <2> QED
    BY <1>0, <2>1
<1>2. f2 \in 0 .. Scoring!MaxFactor
    BY <1>0 DEF Collecting!Base
<1>3. f3 \in 0 .. Scoring!MaxFactor
    BY <1>0 DEF Collecting!Exposure
<1>4. f4 \in 0 .. Scoring!MaxFactor
    BY <1>0, BlastIs
<1>5. f5 \in 0 .. Scoring!MaxFactor
    BY <1>0
<1>6. f6 \in 0 .. Scoring!MaxFactor
    BY DifficultyIs
<1>7. Collecting!FactorsOf(r, name) =
          [criticality |-> f1, confidentiality_lifetime |-> f2, quantum_exposure |-> f3,
           blast_radius |-> f4, vendor_lock_in |-> f5, migration_difficulty |-> f6]
    BY DEF Collecting!FactorsOf
<1> HIDE DEF f1, f2, f3, f4, f5, f6
<1> DEFINE G == Collecting!FactorsOf(r, name)
<1>8. DOMAIN G = Scoring!Factors /\ \A f \in Scoring!Factors : G[f] \in 0 .. Scoring!MaxFactor
    BY <1>1, <1>2, <1>3, <1>4, <1>5, <1>6, <1>7 DEF Scoring!Factors
<1>9. G = [f \in DOMAIN G |-> G[f]]
    BY <1>7
<1> HIDE DEF G
<1>10. G \in [Scoring!Factors -> 0 .. Scoring!MaxFactor]
    BY <1>8, <1>9
<1> QED
    BY <1>10 DEF G

(* Every name means the only asset of a host.                               *)
LEMMA HostTarget ==
    ASSUME NEW d, NEW name
    PROVE  LET a == Collecting!Target(Collecting!IngestRequest(d), name)
           IN a.criticality = Collecting!HostCriticality(d) /\ a.vendor = FALSE
<1> DEFINE r == Collecting!IngestRequest(d)
           a == [name |-> "host", vendor |-> FALSE, criticality |-> Collecting!HostCriticality(d),
                 type |-> IF d.type \in Collecting!AssetTypes THEN d.type ELSE "other"]
<1>0. r.assets = <<a>>
    BY DEF Collecting!IngestRequest
<1>1. DOMAIN r.assets = 1 .. 1
    BY <1>0
<1> HIDE DEF r
<1>2. \E i \in 1 .. 1 : Collecting!Target(r, name) = r.assets[i]
  <2>1. 1 \in Nat /\ 1 > 0
    OBVIOUS
  <2> QED
    BY <1>1, <2>1, TargetIs
<1>3. Collecting!Target(r, name) = r.assets[1]
    BY <1>2
<1>4. r.assets[1].criticality = Collecting!HostCriticality(d) /\ r.assets[1].vendor = FALSE
    BY <1>0
<1>5. /\ Collecting!Target(r, name).criticality = Collecting!HostCriticality(d)
      /\ Collecting!Target(r, name).vendor = FALSE
    BY <1>3, <1>4
<1> QED
    BY <1>5 DEF r

LEMMA HasRange ==
    ASSUME NEW r, NEW name, Collecting!Target(r, name).criticality \in 0 .. 5
    PROVE  Collecting!FactorsOf(r, name) \in [Collecting!Factors -> 0 .. Collecting!MaxFactor]
<1>1. Collecting!FactorsOf(r, name) \in [Scoring!Factors -> 0 .. Scoring!MaxFactor]
    BY FactorsInRangeOf
<1>2. Collecting!Factors = Scoring!Factors
    BY SameTables
<1>3. Collecting!MaxFactor = Scoring!MaxFactor
    BY TheBounds
<1> QED
    BY <1>1, <1>2, <1>3

LEMMA FactorsStayInRange ==
    ASSUME Collecting!AssetsAssumption, CollectingOk
    PROVE  Collecting!FactorsInRange
<1> SUFFICES ASSUME NEW r \in Collecting!Requests, NEW name
             PROVE  Collecting!FactorsOf(r, name) \in [Collecting!Factors -> 0 .. Collecting!MaxFactor]
    BY DEF Collecting!FactorsInRange
<1>1. ASSUME NEW d, r = Collecting!IngestRequest(d)
      PROVE  Collecting!Target(r, name).criticality \in 0 .. 5
  <2>1. Collecting!HostCriticality(d) \in 0 .. 5
    BY DEF Collecting!HostCriticality
  <2>2. Collecting!Target(Collecting!IngestRequest(d), name).criticality
            = Collecting!HostCriticality(d)
    BY HostTarget
  <2> QED
    BY <1>1, <2>1, <2>2
<1>2. ASSUME batch # <<>>, r.assets = batch
      PROVE  Collecting!Target(r, name).criticality \in 0 .. 5
  <2>1. DOMAIN r.assets = 1 .. Len(batch) /\ Len(batch) \in Nat /\ Len(batch) > 0
    BY <1>2 DEF CollectingOk
  <2>2. \E j \in 1 .. Len(batch) : Collecting!Target(r, name) = r.assets[j]
    BY <2>1, TargetIs
  <2>4. PICK j \in 1 .. Len(batch) : Collecting!Target(r, name) = batch[j]
    BY <1>2, <2>2
  <2>3. batch[j] \in Assets
    BY DEF CollectingOk
  <2> QED
    BY <2>3, <2>4 DEF Collecting!AssetsAssumption
<1> DEFINE other == [source |-> source, openssl |-> FALSE, windows |-> {}, assets |-> batch,
                     certificate |-> certificate]
<1>3. (\E d \in host : r = Collecting!IngestRequest(d)) \/ (batch # <<>> /\ r.assets = batch)
  <2>1. other.assets = batch
    OBVIOUS
  <2>2. (\E d \in host : r = Collecting!IngestRequest(d)) \/ (batch # <<>> /\ r = other)
    BY DEF Collecting!Requests
  <2> HIDE DEF other
  <2> QED
    BY <2>1, <2>2
<1>4. Collecting!Target(r, name).criticality \in 0 .. 5
    BY <1>1, <1>2, <1>3
<1> QED
    BY <1>4, HasRange

-----------------------------------------------------------------------------
(* The mapper: what happens to a host                                       *)

Request(d) == Collecting!IngestRequest(d)
Given == {"tls", "rsa_bits", "expires_in", "dependency_count", "vendor_blocked", "windows_expired",
          "windows_weak_signature", "windows_dc", "windows_large_estate", "windows_crypto_services"}

LEMMA RequestIs ==
    ASSUME NEW d
    PROVE  /\ Request(d).source = "host"
           /\ Request(d).openssl <=> d.software > 0
           /\ Request(d).windows = {d}
           /\ Request(d).certificate = {Collecting!Carried(c) : c \in Collecting!Representative(d.store)}
BY DEF Request, Collecting!IngestRequest

LEMMA RepresentativeIs ==
    ASSUME NEW store \in Seq(Keys)
    PROVE  \/ Collecting!Representative(store) = {}
           \/ \E k \in Keys : Collecting!Representative(store) = {k}
<1> DEFINE C == {n \in DOMAIN store : store[n].pk # ""}
           V == {n \in C : Collecting!NormalizePk(store[n].pk) \in {"RSA", "EC", "DSA", "DH"}}
           N == IF V = {} THEN C ELSE V
<1>1. ASSUME C # {} PROVE Collecting!First(N) \in DOMAIN store
  <2>1. N # {} /\ N \subseteq DOMAIN store
    BY <1>1
  <2>3. DOMAIN store \subseteq Nat
    OBVIOUS
  <2>2. Collecting!First(N) = Min(N)
    BY DEF Collecting!First, Min
  <2> HIDE DEF N
  <2>4. N \in SUBSET Nat
    BY <2>1, <2>3
  <2> QED
    BY <2>1, <2>2, <2>4, MinIs
<1>2. Collecting!Representative(store) = IF C = {} THEN {} ELSE {store[Collecting!First(N)]}
    BY DEF Collecting!Representative
<1> HIDE DEF C, N
<1>3. \A n \in DOMAIN store : store[n] \in Keys
    OBVIOUS
<1> QED
    BY <1>1, <1>2, <1>3

LEMMA CertificateIs ==
    ASSUME NEW d, HostOk(d)
    PROVE  \/ Request(d).certificate = {}
           \/ \E k \in Keys : Request(d).certificate = {Collecting!Carried(k)}
<1>1. d.store \in Seq(Keys)
    BY DEF HostOk
<1>2. CASE Collecting!Representative(d.store) = {}
    BY <1>2, RequestIs
<1>3. ASSUME NEW k \in Keys, Collecting!Representative(d.store) = {k}
      PROVE  Request(d).certificate = {Collecting!Carried(k)}
    BY <1>3, RequestIs
<1> QED
    BY <1>1, <1>2, <1>3, RepresentativeIs

(* A first RSA or EC certificate is the one that is carried.                *)
LEMMA FirstIsCarried ==
    ASSUME NEW k, k.pk \in {"RSA", "ECC"}
    PROVE  Collecting!Representative(<<>>) = {} /\ Collecting!Representative(<<k>>) = {k}
<1>1. Collecting!Representative(<<>>) = {}
    BY DEF Collecting!Representative
<1> DEFINE C == {n \in DOMAIN <<k>> : <<k>>[n].pk # ""}
           V == {n \in C : Collecting!NormalizePk(<<k>>[n].pk) \in {"RSA", "EC", "DSA", "DH"}}
<1>2. C = {1}
  <2>1. DOMAIN <<k>> = {1} /\ <<k>>[1] = k
    OBVIOUS
  <2> QED
    BY <2>1
<1>3. V = {1}
  <2>0. <<k>>[1] = k
    OBVIOUS
  <2>1. Collecting!NormalizePk(k.pk) \in {"RSA", "EC"}
    BY DEF Collecting!NormalizePk
  <2> HIDE DEF C
  <2> QED
    BY <1>2, <2>0, <2>1
<1>4. Collecting!First({1}) = 1
    BY DEF Collecting!First
<1>5. Collecting!Representative(<<k>>) =
          IF C = {} THEN {} ELSE {<<k>>[Collecting!First(IF V = {} THEN C ELSE V)]}
    BY DEF Collecting!Representative
<1> HIDE DEF C, V
<1>6. Collecting!Representative(<<k>>) = {<<k>>[1]}
    BY <1>2, <1>3, <1>4, <1>5
<1> QED
    BY <1>1, <1>6

(* What happens to d between two collections, but for a certificate that is *)
(* not the first of its host.                                               *)
Happens(d, e) ==
    /\ HostOk(d) /\ HostOk(e) /\ Grows(d, e)
    /\ e.store = d.store \/ (d.store = <<>> /\ e.store[1].pk \in {"RSA", "ECC"})

LEMMA CertificateGrows ==
    ASSUME NEW d, NEW e, Happens(d, e)
    PROVE  \/ Request(e).certificate = Request(d).certificate
           \/ /\ Request(d).certificate = {}
              /\ \E k \in Keys : /\ Request(e).certificate = {Collecting!Carried(k)}
                                 /\ Collecting!Carried(k).pk \in {"RSA", "EC"}
<1>1. CASE e.store = d.store
  <2>1. /\ Request(d).certificate = {Collecting!Carried(c) : c \in Collecting!Representative(d.store)}
        /\ Request(e).certificate = {Collecting!Carried(c) : c \in Collecting!Representative(e.store)}
    BY RequestIs
  <2> QED
    BY <1>1, <2>1
<1>2. CASE e.store # d.store
  <2>1. PICK k \in Keys : e.store = Append(d.store, k)
    BY <1>2 DEF Happens, Grows
  <2>2. d.store = <<>> /\ e.store[1].pk \in {"RSA", "ECC"}
    BY <1>2 DEF Happens
  <2>3. e.store = <<k>> /\ k.pk \in {"RSA", "ECC"}
    BY <2>1, <2>2
  <2>4. Collecting!Representative(d.store) = {} /\ Collecting!Representative(e.store) = {k}
    BY <2>2, <2>3, FirstIsCarried
  <2>5. Request(d).certificate = {} /\ Request(e).certificate = {Collecting!Carried(k)}
    BY <2>4, RequestIs
  <2>6. Collecting!Carried(k).pk \in {"RSA", "EC"}
    BY <2>3 DEF Collecting!Carried, Collecting!NormalizePk
  <2> QED
    BY <2>5, <2>6
<1> QED
    BY <1>1, <1>2

LEMMA HostIs ==
    ASSUME NEW d, HostOk(d)
    PROVE  /\ Collecting!IsDc(Request(d)) <=> d.dc
           /\ Collecting!IsJoined(Request(d)) <=> d.joined
           /\ \A w \in Request(d).windows : w = d
           /\ d \in Request(d).windows
BY RequestIs DEF Collecting!IsDc, Collecting!IsJoined

-----------------------------------------------------------------------------
(* The mapper: a host's factors                                             *)

HostFactors(d) == Collecting!FactorsOf(Request(d), "host")

LEMMA HostFactorsAre ==
    ASSUME NEW d
    PROVE  /\ HostFactors(d).criticality = 1000 * Collecting!HostCriticality(d)
           /\ HostFactors(d).confidentiality_lifetime = 4000
           /\ HostFactors(d).quantum_exposure = Collecting!Exposure(Request(d))
           /\ HostFactors(d).blast_radius = Collecting!BlastRadius(Request(d))
           /\ HostFactors(d).vendor_lock_in = 1000
           /\ HostFactors(d).migration_difficulty = Collecting!Difficulty(Request(d))
<1> DEFINE t == Collecting!Target(Request(d), "host")
<1>1. t.criticality = Collecting!HostCriticality(d) /\ t.vendor = FALSE
    BY HostTarget DEF Request
<1>2. Collecting!HostCriticality(d) \in 2 .. 5
    BY DEF Collecting!HostCriticality
<1>3. Collecting!Base(Request(d), 3000, 4000, 2000) = 4000
    BY RequestIs DEF Collecting!Base
<1>4. HostFactors(d) =
          [criticality              |-> IF t.criticality = 0 THEN 3000 ELSE 1000 * t.criticality,
           confidentiality_lifetime |-> Collecting!Base(Request(d), 3000, 4000, 2000),
           quantum_exposure         |-> Collecting!Exposure(Request(d)),
           blast_radius             |-> Collecting!BlastRadius(Request(d)),
           vendor_lock_in           |-> IF t.vendor THEN 3000 ELSE 1000,
           migration_difficulty     |-> Collecting!Difficulty(Request(d))]
    BY DEF HostFactors, Collecting!FactorsOf
<1> HIDE DEF t
<1> QED
    BY <1>1, <1>2, <1>3, <1>4

LEMMA FactorsGrow ==
    ASSUME NEW d, NEW e, Happens(d, e)
    PROVE  \A f \in Scoring!Factors : HostFactors(e)[f] >= HostFactors(d)[f]
<1>0. HostOk(d) /\ HostOk(e) /\ Grows(d, e)
    BY DEF Happens
<1>1. Collecting!HostCriticality(e) >= Collecting!HostCriticality(d)
    BY <1>0 DEF Grows, Collecting!HostCriticality
<1>2. Collecting!Exposure(Request(e)) >= Collecting!Exposure(Request(d))
  <2>1. Request(d).openssl => Request(e).openssl
    <3>1. e.software \in {0, 1} /\ d.software \in {0, 1} /\ e.software >= d.software
      BY <1>0 DEF Grows, HostOk, Seen
    <3>2. (Request(d).openssl <=> d.software > 0) /\ (Request(e).openssl <=> e.software > 0)
      BY RequestIs
    <3>3. d.software > 0 => e.software > 0
      BY <3>1
    <3> QED
      BY <3>2, <3>3, Zenon
  <2>2. CASE Request(e).certificate = Request(d).certificate
    BY <2>1, <2>2 DEF Collecting!Exposure
  <2>3. ASSUME NEW k \in Keys, Request(e).certificate = {Collecting!Carried(k)},
               Collecting!Carried(k).pk \in {"RSA", "EC"}
        PROVE  Collecting!Exposure(Request(e)) >= Collecting!Exposure(Request(d))
    <3>1. Collecting!Exposure(Request(e)) = 5000
      BY <2>3 DEF Collecting!Exposure
    <3>2. Collecting!Exposure(Request(d)) <= 5000
      BY DEF Collecting!Exposure
    <3>3. Collecting!Exposure(Request(d)) \in Nat
      BY DEF Collecting!Exposure
    <3> DEFINE before == Collecting!Exposure(Request(d))
               after  == Collecting!Exposure(Request(e))
    <3>4. before \in Nat /\ before <= 5000 /\ after = 5000
      BY <3>1, <3>2, <3>3
    <3> HIDE DEF before, after
    <3>5. after >= before
      BY <3>4
    <3> QED
      BY <3>5 DEF before, after
  <2> QED
    BY <2>2, <2>3, CertificateGrows
<1>3. Collecting!BlastRadius(Request(e)) >= Collecting!BlastRadius(Request(d))
  <2>1. Collecting!IsDc(Request(d)) => Collecting!IsDc(Request(e))
    BY <1>0, HostIs DEF Grows
  <2>2. Collecting!IsJoined(Request(d)) => Collecting!IsJoined(Request(e))
    BY <1>0, HostIs DEF Grows
  <2>3. Request(d).source = "host" /\ Request(e).source = "host"
    BY RequestIs
  <2> QED
    BY <2>1, <2>2, <2>3 DEF Collecting!BlastRadius, Collecting!AtLeast, Collecting!Base
<1>4. Collecting!Difficulty(Request(e)) >= Collecting!Difficulty(Request(d))
  <2>1. \A x : Request(x).windows = {x} /\ Collecting!Base(Request(x), 2000, 3000, 2000) = 3000
    BY RequestIs DEF Collecting!Base
  <2> DEFINE Size(x)  == IF x.certs >= 50 THEN 2000 ELSE IF x.certs >= 10 THEN 1000 ELSE 0
             Fault(x) == IF x.weak > 0 \/ x.expired > 0 THEN 1000 ELSE 0
  <2>2. \A x : Collecting!RawDifficulty(Request(x)) = 3000 + Size(x) + Fault(x)
    BY <2>1 DEF Collecting!RawDifficulty
  <2>3. Size(e) >= Size(d) /\ Size(e) \in Nat /\ Size(d) \in Nat
    BY <1>0 DEF Grows, HostOk
  <2>4. Fault(e) >= Fault(d) /\ Fault(e) \in Nat /\ Fault(d) \in Nat
    BY <1>0 DEF Grows, HostOk, Seen
  <2>5. Collecting!MaxFactor \in Nat
    BY TheBounds
  <2> HIDE DEF Size, Fault
  <2> QED
    BY <2>2, <2>3, <2>4, <2>5 DEF Collecting!Difficulty, Collecting!AtMost
<1>5. Collecting!HostCriticality(e) \in Nat /\ Collecting!HostCriticality(d) \in Nat
    BY DEF Collecting!HostCriticality
<1>6. 1000 * Collecting!HostCriticality(e) >= 1000 * Collecting!HostCriticality(d)
    BY <1>1, <1>5
<1>7. /\ HostFactors(e).criticality >= HostFactors(d).criticality
      /\ HostFactors(e).confidentiality_lifetime >= HostFactors(d).confidentiality_lifetime
      /\ HostFactors(e).quantum_exposure >= HostFactors(d).quantum_exposure
      /\ HostFactors(e).blast_radius >= HostFactors(d).blast_radius
      /\ HostFactors(e).vendor_lock_in >= HostFactors(d).vendor_lock_in
      /\ HostFactors(e).migration_difficulty >= HostFactors(d).migration_difficulty
    BY <1>2, <1>3, <1>4, <1>6, HostFactorsAre
<1> QED
    BY <1>7 DEF Scoring!Factors

-----------------------------------------------------------------------------
(* The mapper: a host's evidence                                            *)

HostDoc(d) == Collecting!EvidenceOf(Request(d), "host")

LEMMA GivenAreFields ==
    /\ Given \subseteq Scoring!Fields
    /\ \A f \in Given : f \notin Scoring!Lists /\ f # "notes"
    /\ "rsa_bits" \in Given /\ "expires_in" \in Given /\ "tls" \in Given
    /\ {"windows_expired", "windows_weak_signature", "windows_dc", "windows_large_estate",
        "windows_crypto_services", "vendor_blocked", "dependency_count"} \subseteq Given
<1>1. {"tls", "windows_expired", "windows_weak_signature", "windows_dc", "windows_large_estate",
       "windows_crypto_services"} \subseteq DOMAIN Scoring!Least
    BY DEF Scoring!Least
<1>2. Given \subseteq Scoring!Fields
    BY <1>1, FieldsAre DEF Given
<1> QED
    BY <1>2, ListsAre DEF Given

LEMMA HostDocIs ==
    ASSUME NEW d, HostOk(d)
    PROVE  /\ DOMAIN HostDoc(d) = Scoring!Fields
           /\ \A f \in Scoring!Fields \ Given : HostDoc(d)[f] = Scoring!Missing[f]
           /\ HostDoc(d).tls = Collecting!Flag(Request(d).certificate # {})
           /\ HostDoc(d).rsa_bits = 0
           /\ HostDoc(d).expires_in = IF Request(d).certificate # {}
                                      THEN Collecting!Certificate(Request(d)).expires ELSE -1
           /\ HostDoc(d).vendor_blocked = 0
           /\ HostDoc(d).dependency_count \in 0 .. 9
           /\ HostDoc(d).windows_expired = Collecting!Flag(d.expired > 0)
           /\ HostDoc(d).windows_weak_signature = Collecting!Flag(d.weak > 0)
           /\ HostDoc(d).windows_dc = Collecting!Flag(d.dc)
           /\ HostDoc(d).windows_large_estate = IF d.certs >= 50 THEN 50 ELSE 0
           /\ HostDoc(d).windows_crypto_services = Collecting!Flag(d.services > 0)
<1> DEFINE r == Request(d)
           a == Collecting!Target(Request(d), "host")
           g == Collecting!Forwarded(r, a)
<1>1. a.vendor = FALSE
    BY HostTarget DEF Request
<1>2. Collecting!DependencyCount(a, r) \in 0 .. 9
    BY DEF Collecting!DependencyCount
<1>3. (IF r.certificate # {} /\ Collecting!Certificate(r).pk = "RSA"
       THEN Collecting!Certificate(r).bits ELSE 0) = 0
  <2>1. ASSUME NEW k, r.certificate = {Collecting!Carried(k)}
        PROVE  Collecting!Certificate(r).bits = 0
    <3>1. Collecting!Certificate(r) = Collecting!Carried(k)
      BY <2>1 DEF Collecting!Certificate
    <3> QED
      BY <3>1 DEF Collecting!Carried
  <2> QED
    BY <2>1, CertificateIs
<1>4. /\ DOMAIN g = Given
      /\ g.tls = Collecting!Flag(r.certificate # {})
      /\ g.rsa_bits = (IF r.certificate # {} /\ Collecting!Certificate(r).pk = "RSA"
                       THEN Collecting!Certificate(r).bits ELSE 0)
      /\ g.expires_in = IF r.certificate # {} THEN Collecting!Certificate(r).expires ELSE -1
      /\ g.dependency_count = Collecting!DependencyCount(a, r)
      /\ g.vendor_blocked = Collecting!Flag(a.vendor)
      /\ g.windows_expired = Collecting!Flag(\E w \in r.windows : w.expired > 0)
      /\ g.windows_weak_signature = Collecting!Flag(\E w \in r.windows : w.weak > 0)
      /\ g.windows_dc = Collecting!Flag(Collecting!IsDc(r))
      /\ g.windows_large_estate = IF \E w \in r.windows : w.certs >= 50 THEN 50 ELSE 0
      /\ g.windows_crypto_services = Collecting!Flag(\E w \in r.windows : w.services > 0)
    BY DEF Collecting!Forwarded, Given
<1>5. HostDoc(d) = [f \in Scoring!Fields |-> IF f \in Given THEN g[f] ELSE Scoring!Missing[f]]
    BY <1>4, SameFields DEF HostDoc, Collecting!EvidenceOf
<1>6. r.windows = {d}
    BY RequestIs
<1>7. /\ g.vendor_blocked = 0
      /\ g.windows_expired = Collecting!Flag(d.expired > 0)
      /\ g.windows_weak_signature = Collecting!Flag(d.weak > 0)
      /\ g.windows_dc = Collecting!Flag(d.dc)
      /\ g.windows_large_estate = IF d.certs >= 50 THEN 50 ELSE 0
      /\ g.windows_crypto_services = Collecting!Flag(d.services > 0)
  <2>1. g.vendor_blocked = 0
    BY <1>1, <1>4 DEF Collecting!Flag
  <2>2. /\ g.windows_expired = Collecting!Flag(d.expired > 0)
        /\ g.windows_weak_signature = Collecting!Flag(d.weak > 0)
        /\ g.windows_dc = Collecting!Flag(d.dc)
        /\ g.windows_large_estate = IF d.certs >= 50 THEN 50 ELSE 0
        /\ g.windows_crypto_services = Collecting!Flag(d.services > 0)
    BY <1>4, <1>6 DEF Collecting!Flag, Collecting!IsDc
  <2> QED
    BY <2>1, <2>2
<1> HIDE DEF g, a
<1>8. \A f \in Given : HostDoc(d)[f] = g[f]
    BY <1>5, GivenAreFields
<1>9. /\ DOMAIN HostDoc(d) = Scoring!Fields
      /\ \A f \in Scoring!Fields \ Given : HostDoc(d)[f] = Scoring!Missing[f]
    BY <1>5
<1>10. HostDoc(d).dependency_count = g.dependency_count /\ g.dependency_count \in 0 .. 9
    BY <1>2, <1>4, <1>8, GivenAreFields
<1>11. HostDoc(d).rsa_bits = 0
    BY <1>3, <1>4, <1>8, GivenAreFields
<1> QED
    BY <1>4, <1>7, <1>8, <1>9, <1>10, <1>11, GivenAreFields

(* What happens to a host loses no signal.                                  *)
LEMMA HostSignalsGrow ==
    ASSUME NEW d, NEW e, Happens(d, e)
    PROVE  Scoring!Signals(HostDoc(d)) \subseteq Scoring!Signals(HostDoc(e))
<1> DEFINE v == HostDoc(d)
           w == HostDoc(e)
<1>0. HostOk(d) /\ HostOk(e) /\ Grows(d, e)
    BY DEF Happens
<1> SUFFICES ASSUME NEW s, Scoring!Detected(v, s)
             PROVE  Scoring!Detected(w, s)
    BY DEF Scoring!Signals
<1>1. /\ v.tls \in {0, 1} /\ w.tls \in {0, 1} /\ w.tls >= v.tls
      /\ v.expires_in = w.expires_in \/ v.expires_in = -1
  <2>1. CASE Request(e).certificate = Request(d).certificate
    <3>1. Collecting!Certificate(Request(e)) = Collecting!Certificate(Request(d))
      BY <2>1 DEF Collecting!Certificate
    <3> QED
      BY <1>0, <2>1, <3>1, HostDocIs DEF Collecting!Flag
  <2>2. CASE Request(d).certificate = {}
    BY <1>0, <2>2, HostDocIs DEF Collecting!Flag
  <2> QED
    BY <2>1, <2>2, CertificateGrows
<1>2. /\ v.windows_expired \in Nat /\ w.windows_expired >= v.windows_expired
      /\ v.windows_weak_signature \in Nat /\ w.windows_weak_signature >= v.windows_weak_signature
      /\ v.windows_crypto_services \in Nat /\ w.windows_crypto_services >= v.windows_crypto_services
      /\ w.windows_expired \in Nat /\ w.windows_weak_signature \in Nat
      /\ w.windows_crypto_services \in Nat
  <2>1. \A f \in Seen : e[f] \in {0, 1} /\ d[f] \in {0, 1} /\ e[f] >= d[f]
    BY <1>0 DEF Grows, HostOk
  <2>2. /\ d.expired > 0 => e.expired > 0
        /\ d.weak > 0 => e.weak > 0
        /\ d.services > 0 => e.services > 0
    BY <2>1 DEF Seen
  <2> QED
    BY <1>0, <2>2, HostDocIs DEF Collecting!Flag
<1>3. /\ v.windows_dc \in Nat /\ w.windows_dc \in Nat /\ w.windows_dc >= v.windows_dc
  <2>1. d.dc => e.dc
    BY <1>0 DEF Grows
  <2> QED
    BY <1>0, <2>1, HostDocIs DEF Collecting!Flag
<1>4. /\ v.windows_large_estate \in Nat /\ w.windows_large_estate \in Nat
      /\ w.windows_large_estate >= v.windows_large_estate
  <2>1. d.certs \in Nat /\ e.certs \in Nat /\ e.certs >= d.certs
    BY <1>0 DEF Grows, HostOk
  <2> QED
    BY <1>0, <2>1, HostDocIs
<1>5. \A f \in Scoring!Fields \ Given : v[f] = Scoring!Missing[f]
    BY <1>0, HostDocIs
<1>6. ASSUME Counted(v, s) PROVE Counted(w, s)
  <2>0. s \in DOMAIN Scoring!Least /\ v[s] >= Scoring!Least[s]
    BY <1>6 DEF Counted
  <2>1. /\ s \in Scoring!Numbers /\ s \in Scoring!Fields
        /\ Scoring!Least[s] \in Nat /\ Scoring!Least[s] > 0
    BY <2>0, FieldsAre, LeastIs
  <2>2. s \in Given
    BY <1>5, <2>0, <2>1, MissingIs
  <2>3. s \in {"tls", "windows_expired", "windows_weak_signature", "windows_dc",
               "windows_large_estate", "windows_crypto_services"}
    BY <2>0, <2>2 DEF Scoring!Least, Given
  <2>4. v[s] \in Nat /\ w[s] \in Nat /\ w[s] >= v[s]
    BY <1>1, <1>2, <1>3, <1>4, <2>3
  <2>5. w[s] >= Scoring!Least[s]
    BY <2>0, <2>1, <2>4
  <2> QED
    BY <2>0, <2>5 DEF Counted
<1>7. ~ OfferedWeak(v, s)
  <2> SUFFICES ASSUME OfferedWeak(v, s) PROVE FALSE
    OBVIOUS
  <2>1. PICK f \in Scoring!Offered[s][2] : v[f] \intersect Scoring!Weak[Scoring!Offered[s][1]] # {}
    BY DEF OfferedWeak
  <2>2. f \in Scoring!Lists
    BY <2>1, OfferedIs DEF OfferedWeak
  <2>3. v[f] = {}
    BY <1>5, <2>2, FieldsAre, GivenAreFields, MissingIs
  <2> QED
    BY <2>1, <2>3
<1>8. ~ ShortKey(v, s)
  <2>1. v.rsa_bits = 0
    BY <1>0, HostDocIs
  <2> QED
    BY <2>1 DEF ShortKey
<1>9. ASSUME Expiring(v, s) PROVE Expiring(w, s)
  <2>1. s = "expiring_certificate" /\ v.expires_in \in 0 .. 90
    BY <1>9 DEF Expiring
  <2>2. v.expires_in # -1
    BY <2>1
  <2>3. w.expires_in \in 0 .. 90
    BY <1>1, <2>1, <2>2
  <2> QED
    BY <2>1, <2>3 DEF Expiring
<1>10. \A f \in {"chain", "ad_weak_key_templates", "ad_weak_signature_templates"} : v[f] = 0
  <2>1. \A f \in {"chain", "ad_weak_key_templates", "ad_weak_signature_templates"} :
            f \in Scoring!Numbers /\ f \notin Given
    BY FieldsAre DEF Scoring!Crypto, Given
  <2> QED
    BY <1>5, <2>1, FieldsAre, MissingIs
<1>11. ~ Chained(v, s)
    BY <1>10 DEF Chained
<1>12. ~ WeakTemplate(v, s)
    BY <1>10 DEF WeakTemplate
<1> HIDE DEF v, w
<1> QED
    BY <1>6, <1>7, <1>8, <1>9, <1>11, <1>12, DetectedIs

LEMMA HostHints ==
    ASSUME NEW d, HostOk(d)
    PROVE  Scoring!Hints(HostDoc(d)) = 0
<1>1. HostDoc(d).notes = {}
  <2>1. "notes" \in Scoring!Fields /\ "notes" \notin Given
    BY FieldsAre, GivenAreFields
  <2> QED
    BY <2>1, HostDocIs, MissingIs
<1>2. HostDoc(d).vendor_blocked = 0 /\ HostDoc(d).dependency_count \in 0 .. 9
    BY HostDocIs
<1>3. "hndl" \notin HostDoc(d).notes /\ "plan" \notin HostDoc(d).notes
    BY <1>1
<1>4. ~ HostDoc(d).vendor_blocked > 0 /\ ~ HostDoc(d).dependency_count >= 10
    BY <1>2
<1> QED
    BY <1>3, <1>4 DEF Scoring!Hints

LEMMA ScoreGrows ==
    ASSUME NEW p \in [Scoring!Factors -> 0 .. Scoring!MaxFactor], NEW q \in [Scoring!Factors -> 0 .. Scoring!MaxFactor],
           \A f \in Scoring!Factors : q[f] >= p[f],
           NEW v, NEW w, Scoring!Adjustment(w) >= Scoring!Adjustment(v)
    PROVE  Scoring!Normalized(q, "public_timeline", w) >= Scoring!Normalized(p, "public_timeline", v)
<1>1. /\ Scoring!BaseScore(p) \in Nat /\ Scoring!BaseScore(q) \in Nat
      /\ Scoring!BaseScore(q) >= Scoring!BaseScore(p)
  <2>1. /\ q.criticality >= p.criticality
        /\ q.confidentiality_lifetime >= p.confidentiality_lifetime
        /\ q.quantum_exposure >= p.quantum_exposure /\ q.blast_radius >= p.blast_radius
        /\ q.vendor_lock_in >= p.vendor_lock_in /\ q.migration_difficulty >= p.migration_difficulty
    BY DEF Scoring!Factors
  <2>2. /\ p.criticality \in Nat /\ p.confidentiality_lifetime \in Nat /\ p.quantum_exposure \in Nat
        /\ p.blast_radius \in Nat /\ p.vendor_lock_in \in Nat /\ p.migration_difficulty \in Nat
    BY FactorsAre
  <2>3. /\ q.criticality \in Nat /\ q.confidentiality_lifetime \in Nat /\ q.quantum_exposure \in Nat
        /\ q.blast_radius \in Nat /\ q.vendor_lock_in \in Nat /\ q.migration_difficulty \in Nat
    BY FactorsAre
  <2> QED
    BY <2>1, <2>2, <2>3 DEF Scoring!BaseScore
<1>2. Scoring!ScenarioMultiplier["public_timeline"] = 100
    BY DEF Scoring!ScenarioMultiplier
<1>3. Scoring!Adjustment(v) \in Nat /\ Scoring!Adjustment(w) \in Nat
    BY AdjustmentIs
<1> DEFINE X == Scoring!BaseScore(p) * 100 + 20000 * Scoring!Adjustment(v)
           Y == Scoring!BaseScore(q) * 100 + 20000 * Scoring!Adjustment(w)
<1>4. X \in Nat /\ Y \in Nat /\ Y >= X
    BY <1>1, <1>3
<1>5. /\ Scoring!Normalized(p, "public_timeline", v) = Scoring!AtMost(X, Scoring!MaxNormalized)
      /\ Scoring!Normalized(q, "public_timeline", w) = Scoring!AtMost(Y, Scoring!MaxNormalized)
    BY <1>2 DEF Scoring!Normalized
<1> HIDE DEF X, Y
<1>6. Scoring!MaxNormalized \in Nat
    BY TheBounds
<1> QED
    BY <1>4, <1>5, <1>6 DEF Scoring!AtMost

LEMMA HostScoreGrows ==
    ASSUME NEW d, NEW e, Happens(d, e)
    PROVE  Scoring!Normalized(HostFactors(e), "public_timeline", HostDoc(e)) >=
               Scoring!Normalized(HostFactors(d), "public_timeline", HostDoc(d))
<1>0. HostOk(d) /\ HostOk(e)
    BY DEF Happens
<1>1. /\ HostFactors(d) \in [Scoring!Factors -> 0 .. Scoring!MaxFactor]
      /\ HostFactors(e) \in [Scoring!Factors -> 0 .. Scoring!MaxFactor]
  <2>1. \A x : Collecting!Target(Request(x), "host").criticality \in 0 .. 5
    <3> TAKE x
    <3>1. Collecting!HostCriticality(x) \in 0 .. 5
      BY DEF Collecting!HostCriticality
    <3> QED
      BY <3>1, HostTarget DEF Request
  <2> QED
    BY <2>1, FactorsInRangeOf DEF HostFactors
<1>2. \A f \in Scoring!Factors : HostFactors(e)[f] >= HostFactors(d)[f]
    BY FactorsGrow
<1>3. Scoring!Signals(HostDoc(d)) \subseteq Scoring!Signals(HostDoc(e))
    BY HostSignalsGrow
<1>4. Scoring!Adjustment(HostDoc(e)) >= Scoring!Adjustment(HostDoc(d))
  <2>1. Scoring!Hints(HostDoc(d)) = 0 /\ Scoring!Hints(HostDoc(e)) = 0
    BY <1>0, HostHints
  <2>2. /\ Scoring!SumOver(Scoring!EvidenceWeight, Scoring!Signals(HostDoc(d))) \in Nat
        /\ Scoring!SumOver(Scoring!EvidenceWeight, Scoring!Signals(HostDoc(e))) \in Nat
        /\ Scoring!SumOver(Scoring!EvidenceWeight, Scoring!Signals(HostDoc(d)))
               <= Scoring!SumOver(Scoring!EvidenceWeight, Scoring!Signals(HostDoc(e)))
    BY <1>3, SumsGrow, TheTables
  <2>3. /\ Scoring!SumOver(Scoring!WindowsWeight, Scoring!Signals(HostDoc(d))) \in Nat
        /\ Scoring!SumOver(Scoring!WindowsWeight, Scoring!Signals(HostDoc(e))) \in Nat
        /\ Scoring!SumOver(Scoring!WindowsWeight, Scoring!Signals(HostDoc(d)))
               <= Scoring!SumOver(Scoring!WindowsWeight, Scoring!Signals(HostDoc(e)))
    BY <1>3, SumsGrow, TheTables
  <2>4. Scoring!RawAdjustment(HostDoc(e)) >= Scoring!RawAdjustment(HostDoc(d))
    BY <2>1, <2>2, <2>3 DEF Scoring!RawAdjustment
  <2>5. /\ Scoring!RawAdjustment(HostDoc(e)) \in Int /\ Scoring!RawAdjustment(HostDoc(d)) \in Int
    BY AdjustmentIs
  <2> QED
    BY <2>4, <2>5 DEF Scoring!Adjustment, Scoring!AtLeast
<1> QED
    BY <1>1, <1>2, <1>4, ScoreGrows

LEMMA HostsScoreNoLower ==
    ASSUME CollectingOk, [Collecting!Next]_Collecting!vars, CollectingOk'
    PROVE  Collecting!ScoresNoLower
<1> SUFFICES ASSUME NEW d \in host, NEW e \in host',
                    e.store = d.store \/ (d.store = <<>> /\ e.store[1].pk \in {"RSA", "ECC"})
             PROVE  /\ \A f \in Scoring!Factors : HostFactors(e)[f] >= HostFactors(d)[f]
                    /\ Scoring!Signals(HostDoc(d)) \subseteq Scoring!Signals(HostDoc(e))
                    /\ Scoring!Normalized(HostFactors(e), "public_timeline", HostDoc(e)) >=
                           Scoring!Normalized(HostFactors(d), "public_timeline", HostDoc(d))
    BY SameTables, SameSignals, SameScore
    DEF Collecting!ScoresNoLower, Collecting!Score, HostFactors, HostDoc, Request
<1>1. HostOk(d) /\ host = {d} /\ HostOk(e) /\ host' = {e}
    BY DEF CollectingOk
<1>2. Happens(d, e)
  <2>1. CASE e = d
    <3>1. Grows(d, d)
      BY <1>1 DEF HostOk, Grows, Seen
    <3> QED
      BY <1>1, <2>1, <3>1 DEF Happens
  <2>2. CASE e # d
    <3>1. e \in Collecting!Later(d)
      BY <1>1, <2>2 DEF Collecting!Next, Collecting!vars, Collecting!Change, Collecting!AddAsset,
                        Collecting!AddCertificate
    <3> QED
      BY <1>1, <3>1, LaterIs DEF Happens
  <2> QED
    BY <2>1, <2>2
<1> QED
    BY <1>2, FactorsGrow, HostSignalsGrow, HostScoreGrows

-----------------------------------------------------------------------------
(* scenario-engine and policy-engine                                        *)

LEMMA RoundedBase ==
    ASSUME NEW n \in Nat, NEW k \in Deciding!Rounded(n, 2)
    PROVE  k \in Nat /\ n - 2 * k \in -1 .. 1
<1>1. n \div 2 \in Nat
    OBVIOUS
<1>2. k \in {n \div 2, n \div 2 + 1} /\ 2 * (n - k * 2) \in -2 .. 2
    BY DEF Deciding!Rounded
<1> QED
    BY <1>1, <1>2

LEMMA RoundedScore ==
    ASSUME NEW n \in Nat, NEW k \in Deciding!Rounded(n, 1000)
    PROVE  k \in Nat /\ 1000 * k - 500 <= n /\ n <= 1000 * k + 500
<1>1. n \div 1000 \in Nat
    OBVIOUS
<1>2. k \in {n \div 1000, n \div 1000 + 1} /\ 2 * (n - k * 1000) \in -1000 .. 1000
    BY DEF Deciding!Rounded
<1> QED
    BY <1>1, <1>2

(* What is rated by the exact number is rated as just above or just below   *)
(* the reported one: the thresholds are whole hundredths.                   *)
LEMMA RatedIs ==
    ASSUME NEW n \in Nat, NEW k \in Nat, 1000 * k - 500 <= n, n <= 1000 * k + 500
    PROVE  Deciding!Rated(Deciding!Rating(n), k)
<1> DEFINE low  == 1000 * k - 500
           high == 1000 * k + 500
<1>1. low \in Int /\ high \in Int /\ low <= n /\ n <= high
    OBVIOUS
<1>2. \A t \in {2000000, 4000000, 6000000, 8000000} : low < t /\ t <= high => 1000 * k = t
    OBVIOUS
<1>3. (\A t \in {2000000, 4000000, 6000000, 8000000} : n >= t <=> low >= t)
      \/ (\A t \in {2000000, 4000000, 6000000, 8000000} : n >= t <=> high >= t)
    BY <1>1, <1>2
<1> HIDE DEF low, high
<1>4. Deciding!Rating(n) = Deciding!Rating(low) \/ Deciding!Rating(n) = Deciding!Rating(high)
    BY <1>3 DEF Deciding!Rating
<1> QED
    BY <1>4 DEF Deciding!Rated, low, high

LEMMA RatingGrows ==
    ASSUME NEW m \in Int, NEW n \in Int, m <= n
    PROVE  Deciding!Rank(Deciding!Rating(m)) <= Deciding!Rank(Deciding!Rating(n))
BY DEF Deciding!Rank, Deciding!Rating

LEMMA ScenarioIs ==
    ASSUME NEW b \in Nat, NEW sc \in DOMAIN Deciding!ScenarioMultiplier
    PROVE  /\ Deciding!ScenarioMultiplier[sc] \in 100 .. 140
           /\ Deciding!Scenario(b, sc) \in Nat
           /\ Deciding!Scenario(b, sc) =
                  Deciding!AtMost(2 * b * Deciding!ScenarioMultiplier[sc], Deciding!MaxNormalized)
<1>1. Deciding!ScenarioMultiplier[sc] \in 100 .. 140
    BY DEF Deciding!ScenarioMultiplier
<1>2. \A m \in Nat : 2 * b * m \in Nat
    OBVIOUS
<1>3. Deciding!MaxNormalized \in Nat
    BY TheBounds
<1> QED
    BY <1>1, <1>2, <1>3 DEF Deciding!Scenario, Deciding!AtMost

(* The base score is reported to half of its last digit, which the          *)
(* multiplier makes less than two tenths of a hundredth.                    *)
LEMMA BasesAgree ==
    ASSUME NEW e \in Nat, NEW b \in Nat, e - 2 * b \in -1 .. 1,
           NEW sc \in DOMAIN Deciding!ScenarioMultiplier
    PROVE  /\ Deciding!Expected(e, sc) \in Int
           /\ Deciding!Scenario(b, sc) <= Deciding!Expected(e, sc) + 140
           /\ Deciding!Expected(e, sc) <= Deciding!Scenario(b, sc) + 140
<1> DEFINE m == Deciding!ScenarioMultiplier[sc]
           x == e * m
           y == 2 * b * m
<1>0. m \in 100 .. 140
    BY ScenarioIs
<1> HIDE DEF m
<1>1. x \in Nat /\ y \in Nat
    BY <1>0
<1>2. y <= x + 140 /\ x <= y + 140
  <2>1. e = 2 * b \/ e = 2 * b + 1 \/ e = 2 * b - 1
    OBVIOUS
  <2>2. (2 * b + 1) * m = 2 * b * m + m /\ (2 * b - 1) * m = 2 * b * m - m
    BY <1>0
  <2> QED
    BY <1>0, <1>1, <2>1, <2>2
<1> HIDE DEF x, y
<1>4. Deciding!MaxNormalized \in Nat
    BY TheBounds
<1>3. /\ Deciding!AtMost(x, Deciding!MaxNormalized) \in Int
      /\ Deciding!AtMost(y, Deciding!MaxNormalized) <= Deciding!AtMost(x, Deciding!MaxNormalized) + 140
      /\ Deciding!AtMost(x, Deciding!MaxNormalized) <= Deciding!AtMost(y, Deciding!MaxNormalized) + 140
    BY <1>1, <1>2, <1>4 DEF Deciding!AtMost
<1> QED
    BY <1>3 DEF x, y, m, Deciding!Scenario, Deciding!Expected

LEMMA DecidingInit ==
    ASSUME Deciding!Init
    PROVE  Deciding!VerdictsAreRight
<1>1. 0 \in Deciding!Rounded(0, 2)
    BY DEF Deciding!Rounded
<1>2. Deciding!BasesOK
    BY <1>1 DEF Deciding!Init, Deciding!BasesOK, Deciding!MaxBase
<1>3. Deciding!ResultsOK /\ Deciding!AgreesWithRiskEngine /\ Deciding!TopIsWorst
    BY DEF Deciding!Init, Deciding!NoRun, Deciding!ResultsOK, Deciding!AgreesWithRiskEngine,
           Deciding!TopIsWorst
<1>4. Deciding!DecisionsOK /\ Deciding!CriticalIsDenied
    BY DEF Deciding!Init, Deciding!DecisionsOK, Deciding!CriticalIsDenied
<1> QED
    BY <1>2, <1>3, <1>4 DEF Deciding!VerdictsAreRight, Deciding!TypeOK

LEMMA CriticalMeansDeny ==
    ASSUME NEW d, NEW a, d.score \in Int, Deciding!Rated(d.rating, d.score), d.rating = "critical",
           d.verdict = Deciding!Policy(a, d.score)
    PROVE  d.verdict = "deny"
<1>1. \A x \in Int : Deciding!Rating(x) = "critical" => x >= 8000000
    BY DEF Deciding!Rating
<1>2. 1000 * d.score - 500 >= 8000000 \/ 1000 * d.score + 500 >= 8000000
    BY <1>1 DEF Deciding!Rated
<1>3. d.score >= 8000
    BY <1>2
<1> QED
    BY <1>3 DEF Deciding!Policy

LEMMA RunIsRight ==
    ASSUME Deciding!PortfolioAssumption, Deciding!TypeOK,
           NEW sc \in Scenarios, Deciding!RunScenario(sc)
    PROVE  Deciding!TypeOK' /\ Deciding!AgreesWithRiskEngine' /\ Deciding!TopIsWorst'
<1>0. sc \in DOMAIN Deciding!ScenarioMultiplier
    BY DEF Deciding!PortfolioAssumption
<1>1. PICK reported \in Deciding!Reports(sc) :
          \E order \in Deciding!Sorted(reported) :
              run' = [results |-> [n \in Deciding!Index |-> Deciding!Result(order[n], sc, reported)],
                      scenario |-> sc]
    BY DEF Deciding!RunScenario
<1>2. PICK order \in Deciding!Sorted(reported) :
          run' = [results |-> [n \in Deciding!Index |-> Deciding!Result(order[n], sc, reported)],
                  scenario |-> sc]
    BY <1>1
<1>3. ASSUME NEW n \in Deciding!Index
      PROVE  order[n] \in Deciding!Index
    BY DEF Deciding!Sorted, Deciding!Bijection, Deciding!Injection
<1>9. \A m, n \in Deciding!Index : m < n => Deciding!ScoreOrder(order[m], order[n], reported)
    BY DEF Deciding!Sorted
<1>4. /\ DOMAIN run'.results = Deciding!Index /\ run'.scenario = sc
      /\ \A n \in Deciding!Index : run'.results[n] = Deciding!Result(order[n], sc, reported)
    BY <1>2
<1>5. ASSUME NEW i \in Deciding!Index
      PROVE  /\ base[i] \in Nat /\ exact[i] \in 0 .. Deciding!MaxBase /\ exact[i] - 2 * base[i] \in -1 .. 1
             /\ Deciding!Scenario(base[i], sc) \in Nat /\ reported[i] \in Nat
             /\ 1000 * reported[i] - 500 <= Deciding!Scenario(base[i], sc)
             /\ Deciding!Scenario(base[i], sc) <= 1000 * reported[i] + 500
  <2>1. base[i] \in Nat /\ exact[i] \in 0 .. Deciding!MaxBase /\ base[i] \in Deciding!Rounded(exact[i], 2)
    BY DEF Deciding!TypeOK, Deciding!BasesOK
  <2>2. exact[i] - 2 * base[i] \in -1 .. 1
    BY <2>1, RoundedBase
  <2>3. Deciding!Scenario(base[i], sc) \in Nat
    BY <1>0, <2>1, ScenarioIs
  <2>4. reported[i] \in Deciding!Rounded(Deciding!Scenario(base[i], sc), 1000)
    BY <1>1 DEF Deciding!Reports
  <2>5. /\ reported[i] \in Nat
        /\ 1000 * reported[i] - 500 <= Deciding!Scenario(base[i], sc)
        /\ Deciding!Scenario(base[i], sc) <= 1000 * reported[i] + 500
    BY <2>3, <2>4, RoundedScore
  <2> QED
    BY <2>1, <2>2, <2>3, <2>5
<1>6. \A i : /\ Deciding!Result(i, sc, reported).of = i
             /\ Deciding!Result(i, sc, reported).score = reported[i]
             /\ Deciding!Result(i, sc, reported).rating = Deciding!Rating(Deciding!Scenario(base[i], sc))
             /\ Deciding!Result(i, sc, reported).was = exact[i]
    BY DEF Deciding!Result
<1>7. Deciding!TypeOK'
  <2>1. ASSUME NEW n \in Deciding!Index
        PROVE  /\ run'.results[n].of \in Deciding!Index /\ run'.results[n].was \in 0 .. Deciding!MaxBase
               /\ run'.results[n].score \in Int
               /\ Deciding!Rated(run'.results[n].rating, run'.results[n].score)
    <3>1. PICK i \in Deciding!Index : run'.results[n] = Deciding!Result(i, sc, reported)
      BY <1>3, <1>4
    <3>2. Deciding!Rated(Deciding!Rating(Deciding!Scenario(base[i], sc)), reported[i])
      BY <1>5, RatedIs
    <3> QED
      BY <1>5, <1>6, <3>1, <3>2
  <2>2. UNCHANGED <<exact, base, decision>>
    BY DEF Deciding!RunScenario
  <2>3. Deciding!BasesOK' /\ Deciding!DecisionsOK'
    BY <2>2 DEF Deciding!TypeOK, Deciding!BasesOK, Deciding!DecisionsOK
  <2> QED
    BY <1>4, <2>1, <2>2, <2>3 DEF Deciding!TypeOK, Deciding!ResultsOK
<1>8. Deciding!AgreesWithRiskEngine'
  <2>1. ASSUME NEW n \in Deciding!Index
        PROVE  /\ -2000 <= 1000 * run'.results[n].score - Deciding!Expected(run'.results[n].was, sc)
               /\ 1000 * run'.results[n].score - Deciding!Expected(run'.results[n].was, sc) <= 2000
    <3>1. PICK i \in Deciding!Index : run'.results[n] = Deciding!Result(i, sc, reported)
      BY <1>3, <1>4
    <3>2. run'.results[n].score = reported[i] /\ run'.results[n].was = exact[i]
      BY <1>6, <3>1
    <3>3. exact[i] \in Nat
      BY <1>5
    <3>4. /\ Deciding!Expected(exact[i], sc) \in Int
          /\ Deciding!Scenario(base[i], sc) <= Deciding!Expected(exact[i], sc) + 140
          /\ Deciding!Expected(exact[i], sc) <= Deciding!Scenario(base[i], sc) + 140
      BY <1>0, <1>5, <3>3, BasesAgree
    <3> QED
      BY <1>5, <3>2, <3>4
  <2> QED
    BY <1>4, <2>1 DEF Deciding!AgreesWithRiskEngine
<1>10. Deciding!TopIsWorst'
  <2>1. ASSUME NEW n \in Deciding!Index,
               Deciding!Rank(run'.results[n].rating) > Deciding!Rank(Deciding!Highest(run'.results))
        PROVE  run'.results[n].score = run'.results[1].score
    <3>1. 1 \in Deciding!Index /\ n \in Nat /\ 1 <= n
      BY DEF Deciding!PortfolioAssumption, Deciding!Index
    <3>2. Deciding!Highest(run'.results) = run'.results[1].rating
      BY <1>4, <3>1 DEF Deciding!Highest
    <3> DEFINE i == order[1]
               j == order[n]
    <3>3. i \in Deciding!Index /\ j \in Deciding!Index
      BY <1>3, <3>1
    <3> DEFINE x == Deciding!Scenario(base[i], sc)
               y == Deciding!Scenario(base[j], sc)
    <3>4. /\ run'.results[1].rating = Deciding!Rating(x) /\ run'.results[1].score = reported[i]
          /\ run'.results[n].rating = Deciding!Rating(y) /\ run'.results[n].score = reported[j]
      BY <1>4, <1>6, <3>1
    <3>6. n # 1 => Deciding!ScoreOrder(i, j, reported)
      BY <1>9, <3>1
    <3> HIDE DEF i, j
    <3>5. /\ x \in Nat /\ 1000 * reported[i] - 500 <= x /\ x <= 1000 * reported[i] + 500
          /\ y \in Nat /\ 1000 * reported[j] - 500 <= y /\ y <= 1000 * reported[j] + 500
          /\ reported[i] \in Nat /\ reported[j] \in Nat
      BY <1>5, <3>3
    <3> HIDE DEF x, y
    <3>7. CASE n = 1
      BY <3>7
    <3>8. CASE n # 1
      <4>1. reported[i] >= reported[j]
        BY <3>5, <3>6, <3>8 DEF Deciding!ScoreOrder
      <4>2. Deciding!Rank(Deciding!Rating(y)) \in Int /\ Deciding!Rank(Deciding!Rating(x)) \in Int
        BY DEF Deciding!Rank, Deciding!Rating
      <4>3. ~ (y <= x)
        BY <2>1, <3>2, <3>4, <3>5, <4>2, RatingGrows
      <4>4. reported[i] = reported[j]
        BY <3>5, <4>1, <4>3
      <4> QED
        BY <3>4, <4>4
    <3> QED
      BY <3>7, <3>8
  <2> QED
    BY <1>4, <2>1 DEF Deciding!TopIsWorst
<1> QED
    BY <1>7, <1>8, <1>10

LEMMA DecidingStep ==
    ASSUME Deciding!PortfolioAssumption, Deciding!VerdictsAreRight, [Deciding!Next]_Deciding!vars
    PROVE  Deciding!VerdictsAreRight'
<1>0. Deciding!TypeOK /\ Deciding!AgreesWithRiskEngine /\ Deciding!TopIsWorst
    BY DEF Deciding!VerdictsAreRight
<1>2. ASSUME UNCHANGED Deciding!vars
      PROVE  Deciding!TypeOK' /\ Deciding!AgreesWithRiskEngine' /\ Deciding!TopIsWorst'
  <2>1. UNCHANGED exact /\ UNCHANGED base /\ UNCHANGED run /\ UNCHANGED decision
    BY <1>2 DEF Deciding!vars
  <2>2. Deciding!BasesOK' /\ Deciding!DecisionsOK'
    BY <1>0, <2>1 DEF Deciding!TypeOK, Deciding!BasesOK, Deciding!DecisionsOK
  <2>3. Deciding!ResultsOK'
    BY <1>0, <2>1 DEF Deciding!TypeOK, Deciding!ResultsOK
  <2>4. Deciding!AgreesWithRiskEngine'
    BY <1>0, <2>1 DEF Deciding!AgreesWithRiskEngine
  <2>5. Deciding!TopIsWorst'
    BY <1>0, <2>1 DEF Deciding!TopIsWorst
  <2> QED
    BY <2>2, <2>3, <2>4, <2>5 DEF Deciding!TypeOK
<1>3. ASSUME NEW i \in Deciding!Index, NEW e \in ExactBases, Deciding!Assess(i, e)
      PROVE  Deciding!TypeOK' /\ Deciding!AgreesWithRiskEngine' /\ Deciding!TopIsWorst'
  <2>1. PICK r \in Deciding!Rounded(e, 2) : base' = [base EXCEPT ![i] = r]
    BY <1>3 DEF Deciding!Assess
  <2>2. e \in 0 .. Deciding!MaxBase /\ r \in Nat
    <3>1. e \in 0 .. Deciding!MaxBase
      BY DEF Deciding!PortfolioAssumption
    <3>2. e \in Nat
      BY <3>1
    <3> QED
      BY <3>1, <3>2, RoundedBase
  <2>3. /\ exact' = [exact EXCEPT ![i] = e] /\ UNCHANGED <<run, decision>>
    BY <1>3 DEF Deciding!Assess
  <2>4. /\ exact' \in [Deciding!Index -> 0 .. Deciding!MaxBase] /\ base' \in [Deciding!Index -> Nat]
        /\ \A j \in Deciding!Index : base'[j] \in Deciding!Rounded(exact'[j], 2)
    BY <1>0, <2>1, <2>2, <2>3 DEF Deciding!TypeOK, Deciding!BasesOK
  <2>5. Deciding!ResultsOK' /\ Deciding!DecisionsOK'
    BY <1>0, <2>3 DEF Deciding!TypeOK, Deciding!ResultsOK, Deciding!DecisionsOK
  <2>6. Deciding!AgreesWithRiskEngine' /\ Deciding!TopIsWorst'
    BY <1>0, <2>3 DEF Deciding!AgreesWithRiskEngine, Deciding!TopIsWorst
  <2> QED
    BY <2>4, <2>5, <2>6 DEF Deciding!TypeOK, Deciding!BasesOK
<1>4. ASSUME NEW sc \in Scenarios, Deciding!RunScenario(sc)
      PROVE  Deciding!TypeOK' /\ Deciding!AgreesWithRiskEngine' /\ Deciding!TopIsWorst'
    BY <1>0, <1>4, RunIsRight
<1>5. ASSUME NEW n \in DOMAIN run.results, Deciding!Evaluate(n)
      PROVE  Deciding!TypeOK' /\ Deciding!AgreesWithRiskEngine' /\ Deciding!TopIsWorst'
  <2> DEFINE r == run.results[n]
             d == [score |-> r.score, rating |-> r.rating,
                   verdict |-> Deciding!Policy(Portfolio[r.of], r.score)]
  <2>1. /\ decision' = [decision EXCEPT ![r.of] = {d}] /\ UNCHANGED <<exact, base, run>>
    BY <1>5 DEF Deciding!Evaluate
  <2>2. r.of \in Deciding!Index /\ r.score \in Int /\ Deciding!Rated(r.rating, r.score)
    BY <1>0, <1>5 DEF Deciding!TypeOK, Deciding!ResultsOK
  <2>3. /\ d.score = r.score /\ d.rating = r.rating
        /\ d.verdict = Deciding!Policy(Portfolio[r.of], r.score)
    OBVIOUS
  <2> HIDE DEF d
  <2>4. /\ DOMAIN decision' = Deciding!Index
        /\ \A i \in Deciding!Index : decision'[i] = IF i = r.of THEN {d} ELSE decision[i]
    BY <1>0, <2>1, <2>2 DEF Deciding!TypeOK, Deciding!DecisionsOK
  <2>5. \A i \in Deciding!Index : \A f \in decision'[i] :
            /\ f.score \in Int /\ Deciding!Rated(f.rating, f.score)
            /\ f.verdict = Deciding!Policy(Portfolio[i], f.score)
    BY <1>0, <2>2, <2>3, <2>4 DEF Deciding!TypeOK, Deciding!DecisionsOK
  <2>6. Deciding!BasesOK' /\ Deciding!ResultsOK'
    BY <1>0, <2>1 DEF Deciding!TypeOK, Deciding!BasesOK, Deciding!ResultsOK
  <2>7. Deciding!AgreesWithRiskEngine' /\ Deciding!TopIsWorst'
    BY <1>0, <2>1 DEF Deciding!AgreesWithRiskEngine, Deciding!TopIsWorst
  <2> QED
    BY <2>4, <2>5, <2>6, <2>7 DEF Deciding!TypeOK, Deciding!DecisionsOK
<1>6. Deciding!TypeOK' /\ Deciding!AgreesWithRiskEngine' /\ Deciding!TopIsWorst'
    BY <1>2, <1>3, <1>4, <1>5 DEF Deciding!Next
<1>7. Deciding!CriticalIsDenied'
  <2> SUFFICES ASSUME NEW i \in Deciding!Index, NEW d \in decision'[i], d.rating = "critical"
               PROVE  d.verdict = "deny"
    BY DEF Deciding!CriticalIsDenied
  <2>1. d.score \in Int /\ Deciding!Rated(d.rating, d.score) /\ d.verdict = Deciding!Policy(Portfolio[i], d.score)
    BY <1>6 DEF Deciding!TypeOK, Deciding!DecisionsOK
  <2> QED
    BY <2>1, CriticalMeansDeny
<1> QED
    BY <1>6, <1>7 DEF Deciding!VerdictsAreRight

LEMMA VerdictsNeverMoreLenient ==
    ASSUME Deciding!VerdictsAreRight, Deciding!VerdictsAreRight'
    PROVE  Deciding!NeverMoreLenient
<1> SUFFICES ASSUME NEW i \in Deciding!Index, NEW d \in decision[i], NEW e \in decision'[i],
                    e.score >= d.score
             PROVE  /\ d.verdict = "deny"   => e.verdict = "deny"
                    /\ d.verdict = "review" => e.verdict # "allow"
    BY DEF Deciding!NeverMoreLenient
<1>1. d.score \in Int /\ d.verdict = Deciding!Policy(Portfolio[i], d.score)
    BY DEF Deciding!VerdictsAreRight, Deciding!TypeOK, Deciding!DecisionsOK
<1>2. e.score \in Int /\ e.verdict = Deciding!Policy(Portfolio[i], e.score)
    BY DEF Deciding!VerdictsAreRight, Deciding!TypeOK, Deciding!DecisionsOK
<1> QED
    BY <1>1, <1>2 DEF Deciding!Policy

-----------------------------------------------------------------------------
(* Scores and verdicts *)

(* The invariants of the four state machines that score.                    *)
LEMMA ScoringIsSafe ==
    ASSUME Scoring!FactorsAssumption
    PROVE  Scoring!Spec => []ScoringOk
<1>1. Scoring!Init => ScoringOk
    BY ScoringInit
<1>2. ScoringOk /\ [Scoring!Next]_(Scoring!vars) => ScoringOk'
    BY ScoringStep
<1> QED
    BY <1>1, <1>2, PTL DEF Scoring!Spec

LEMMA CollectingIsSafe == Collecting!Spec => []CollectingOk
<1>1. Collecting!Init => CollectingOk
    BY CollectingInit
<1>2. CollectingOk /\ [Collecting!Next]_(Collecting!vars) => CollectingOk'
    BY CollectingStep
<1> QED
    BY <1>1, <1>2, PTL DEF Collecting!Spec

LEMMA DecidingIsSafe ==
    ASSUME Deciding!PortfolioAssumption
    PROVE  Deciding!Spec => []Deciding!VerdictsAreRight
<1>1. Deciding!Init => Deciding!VerdictsAreRight
    BY DecidingInit
<1>2. Deciding!VerdictsAreRight /\ [Deciding!Next]_(Deciding!vars) => Deciding!VerdictsAreRight'
    BY DecidingStep
<1> QED
    BY <1>1, <1>2, PTL DEF Deciding!Spec

LEMMA FindingsAreComparable ==
    ASSUME NamesAssumption, TypeOK
    PROVE  Comparable
BY FindingsAreFinite, SeverityIsRanked DEF Comparable

(* Whatever the evidence, scores stay within their bounds and the mapper    *)
(* sends no factor that risk-engine refuses; the portfolio run and risk-    *)
(* engine compute the same scores to the rounding, the first result is the  *)
(* worst, and what is rated critical is denied (score_asset, build_asset_   *)
(* risk_request, run_scenario, evaluate_policy).                            *)
THEOREM ScoresAgree ==
    ASSUME Scoring!FactorsAssumption, Collecting!AssetsAssumption, Deciding!PortfolioAssumption
    PROVE  ScoresSpec => []ScoresAndVerdictsAgree
<1>1. ScoringOk /\ CollectingOk /\ Deciding!VerdictsAreRight => ScoresAndVerdictsAgree
    BY ScoresBounded, FactorsStayInRange DEF ScoresAndVerdictsAgree
<1> QED
    BY <1>1, ScoringIsSafe, CollectingIsSafe, DecidingIsSafe, PTL DEF ScoresSpec

(* One more finding never makes a fingerprint look better (summarize), nor  *)
(* more evidence a score (calculate_stage2_adjustment), nor what happens to *)
(* a host its factors (build_risk_payload), nor higher base scores the      *)
(* policy's verdict (evaluate_policy), whatever the names and the values.   *)
(* Of a host's certificates the first one, with an RSA or EC key, is what   *)
(* the claim covers.                                                        *)
THEOREM NothingLooksBetter ==
    ASSUME NamesAssumption, SizesAssumption,
           Scoring!FactorsAssumption, Deciding!PortfolioAssumption
    PROVE  AssessSpec /\ ScoresSpec => WorseNeverLooksBetter
<1>1. TypeOK => Comparable
    BY FindingsAreComparable
<1>2. TypeOK /\ Comparable' /\ [AssessNext]_assessVars => OnlyWorsens
  <2> SUFFICES ASSUME TypeOK, Comparable', [AssessNext]_assessVars PROVE OnlyWorsens
    OBVIOUS
  <2>1. Next \/ UNCHANGED evidence
    BY DEF AssessNext, assessVars, Collect, Return, Ask, Fingerprinted, Classified, Attributed, Scored
  <2> QED
    BY <2>1, EvidenceOnlyWorsens
<1>3. ScoringOk /\ [Scoring!Next]_(Scoring!vars) /\ ScoringOk' => Scoring!NeverLowers
    BY ScoresNeverLower
<1>4. CollectingOk /\ [Collecting!Next]_(Collecting!vars) /\ CollectingOk' => Collecting!ScoresNoLower
    BY HostsScoreNoLower
<1>5. Deciding!VerdictsAreRight /\ Deciding!VerdictsAreRight' => Deciding!NeverMoreLenient
    BY VerdictsNeverMoreLenient
<1>6. /\ AssessSpec => [](TypeOK /\ Assembled)
      /\ Scoring!Spec => []ScoringOk
      /\ Collecting!Spec => []CollectingOk
      /\ Deciding!Spec => []Deciding!VerdictsAreRight
    BY AssessIsSafe, ScoringIsSafe, CollectingIsSafe, DecidingIsSafe
<1> QED
    BY <1>1, <1>2, <1>3, <1>4, <1>5, <1>6, PTL
    DEF WorseNeverLooksBetter, ScoresSpec, AssessSpec, Scoring!Spec, Collecting!Spec, Deciding!Spec
=============================================================================
