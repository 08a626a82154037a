--------------------------- MODULE GraphProjection ---------------------------
(***************************************************************************)
(* tools/graph_projection/project_stage2_fixtures.py: the snapshot that is *)
(* made of the evidence of one host and of one TLS service, which          *)
(* demo load writes for graph-service.                                     *)
(*                                                                         *)
(* A host's evidence is [asset, packages, configs, keys: how many private  *)
(* key files].  A network's is [asset, target, leaf, chain]; a certificate *)
(* is [cert: which one it is, fp: whether the evidence has its SHA-256     *)
(* fingerprint, alg, size], size 0 when missing.  An asset is None when    *)
(* the evidence does not name it.                                          *)
(***************************************************************************)
EXTENDS GraphService

CONSTANTS Hosts, Networks

Node(kind, of, cert) == [type |-> kind, of |-> of, alg |-> cert.alg, size |-> cert.size]
NoKey == [alg |-> "none", size |-> 0]
Edge(from, kind, to) == [from |-> from, type |-> kind, to |-> to]

(* Nodes and edges are dictionaries by id: a later node of the same id      *)
(* replaces an earlier one, an edge keeps its place.  (Edges of one id are  *)
(* equal, and only a chain that repeats itself has them.)                   *)
Later(old, new) == [id \in DOMAIN old \union DOMAIN new |->
                       IF id \in DOMAIN new THEN new[id] ELSE old[id]]
AddEdge(seq, e) == IF \E i \in DOMAIN seq : seq[i] = e THEN seq ELSE Append(seq, e)

Nodes(ids, kind) == [id \in ids |-> Node(kind, id, NoKey)]

AssetId(asset) == <<"asset", asset>>

-----------------------------------------------------------------------------
(* project_host *)

HostNodes(h) ==
    LET a == AssetId(h.asset)
    IN Later(Later(Nodes({a}, "Asset"), Nodes({<<"package", a, p>> : p \in h.packages}, "Package")),
             Later(Nodes({<<"config", a, c>> : c \in h.configs}, "ConfigFile"),
                   Nodes({<<"finding", a, "private_key">> : k \in 1 .. h.keys}, "CryptoFinding")))

HostEdges(h) ==
    LET a == AssetId(h.asset)
    IN SetToSeq({Edge(a, "HAS_PACKAGE", <<"package", a, p>>) : p \in h.packages})
       \o SetToSeq({Edge(a, "HAS_CONFIG", <<"config", a, c>>) : c \in h.configs})
       \o SetToSeq({Edge(a, "HAS_FINDING", <<"finding", a, "private_key">>) : k \in 1 .. h.keys})

-----------------------------------------------------------------------------
(* project_network *)

ServiceId(n) == <<"service", AssetId(n.asset), n.target>>

(* Without a fingerprint the leaf is known by the hash of its fields.       *)
LeafId(n) == <<IF n.leaf.fp THEN "certificate" ELSE "hash", n.leaf.cert>>

(* Names in which one of the tokens RSA, ECDSA, ECDH, DSA, DH, ED25519 and  *)
(* EC occurs.                                                               *)
VulnerableNames == {"RSA", "EC", "Ed25519", "DSA", "ML-DSA"}

FindingsOf(cert) == (IF cert.alg \in VulnerableNames THEN {"vulnerable"} ELSE {})
                    \union (IF cert.size \in 1 .. 2047 THEN {"weak"} ELSE {})

FindingId(n, kind) == <<"finding", ServiceId(n), kind>>

(* Certificates of the chain without a fingerprint are passed over.         *)
Listed(n)   == {c \in Range(n.chain) : c.fp}
CertId(c)   == <<"certificate", c.cert>>
ChainIds(n) == {CertId(c) : c \in Listed(n)}

(* The nodes of the chain have no key, also the one of the leaf.            *)
NetworkNodes(n) ==
    LET service == [id \in {ServiceId(n), LeafId(n)} \union {FindingId(n, k) : k \in FindingsOf(n.leaf)} |->
                       IF id = LeafId(n) THEN Node("Certificate", n.leaf.cert, n.leaf)
                       ELSE IF id = ServiceId(n) THEN Node("Service", id, NoKey)
                       ELSE Node("CryptoFinding", id[3], n.leaf)]
        above   == [id \in ChainIds(n) |-> Node("Certificate", id[2], NoKey)]
        asset   == IF n.asset = None THEN <<>> ELSE Nodes({AssetId(n.asset)}, "Asset")
    IN Later(asset, Later(service, above))

(* A turn of the loop over the chain: a certificate that is listed has      *)
(* signed the one that the climb is at, if it is another.                   *)
(* Faulty: the climb stays at the leaf.                                     *)
Stay(s, c) == IF c.fp /\ CertId(c) # s.at
              THEN [at |-> s.at, edges |-> AddEdge(s.edges, Edge(s.at, "SIGNED_BY", CertId(c)))]
              ELSE s
Climb(s, c) == IF c.fp /\ CertId(c) # s.at
               THEN [at |-> CertId(c), edges |-> AddEdge(s.edges, Edge(s.at, "SIGNED_BY", CertId(c)))]
               ELSE s

Climbs(n) ==
    LET upto[k \in 0 .. Len(n.chain)] ==
            IF k = 0 THEN [at |-> LeafId(n), edges |-> <<>>] ELSE Climb(upto[k - 1], n.chain[k])
    IN upto

ChainEdges(n) == Climbs(n)[Len(n.chain)].edges

(* Only when the evidence names the asset.                                  *)
RunsEdge(n) == IF n.asset = None THEN <<>> ELSE <<Edge(AssetId(n.asset), "RUNS", ServiceId(n))>>

NetworkEdges(n) ==
    RunsEdge(n)
    \o <<Edge(ServiceId(n), "USES_CERTIFICATE", LeafId(n))>>
    \o SetToSeq({Edge(ServiceId(n), "SERVICE_HAS_FINDING", FindingId(n, k)) : k \in FindingsOf(n.leaf)})
    \o ChainEdges(n)

-----------------------------------------------------------------------------
(* main *)

Project(h, n) == [nodes |-> Later(HostNodes(h), NetworkNodes(n)),
                  edges |-> HostEdges(h) \o NetworkEdges(n)]

Projections == {Project(h, n) : h \in Hosts, n \in Networks}

(* The evidence: a server sends a certificate once, its own first, if it is *)
(* among those that are listed.                                             *)
ListedOnce(n) ==
    \A i, j \in DOMAIN n.chain : n.chain[i].fp /\ n.chain[j].fp =>
        /\ n.chain[i].cert = n.chain[j].cert => i = j
        /\ CertId(n.chain[i]) = LeafId(n) => i <= j

ProjectionAssumption ==
    /\ \A h \in Hosts : IsFiniteSet(h.packages) /\ IsFiniteSet(h.configs)
    /\ \A n \in Networks : n.chain \in Seq(Range(n.chain)) /\ ListedOnce(n)

-----------------------------------------------------------------------------
(* What validate asks of a snapshot, and the loaders after it.              *)
SnapshotIsClosed == \A e \in Edges(graph) : {e.from, e.to} \subseteq DOMAIN graph.nodes

AssetsOf(g) == {id \in DOMAIN g.nodes : g.nodes[id].type = "Asset"}
Named(g)    == \A id \in DOMAIN g.nodes : g.nodes[id].type = "Service" =>
                   \E e \in Edges(g) : e.type = "RUNS" /\ e.to = id

(* Whatever object of a named asset is compromised, its asset is affected:  *)
(* the projection links every object, along the whole certificate chain, so *)
(* that an unrestricted blast radius ends at an asset.                      *)
RadiusReachesAsset ==
    query = "radius" /\ done /\ limit = 0 /\ filter = {} /\ Named(graph) /\ start \notin AssetsOf(graph) =>
        DOMAIN depth \intersect AssetsOf(graph) # {}

(* The evidence path of a finding of a service names this service, the      *)
(* asset that runs it and the certificate it uses, and nothing else.        *)
ServiceFindingsAreLocated ==
    query = "path" /\ graph.nodes[start].type = "CryptoFinding" =>
        \A e \in Edges(graph) : e.type = "SERVICE_HAS_FINDING" /\ e.to = start =>
            /\ <<"service", e.from>> \in found
            /\ \A f \in Edges(graph) : f.type = "RUNS" /\ f.to = e.from => <<"asset", f.from>> \in found
            /\ \A f \in Edges(graph) :
                  f.type = "USES_CERTIFICATE" /\ f.from = e.from => <<"crypto", f.to>> \in found

(* The trust chain of the certificate that a service uses goes through all  *)
(* certificates that the evidence lists above it.                           *)
ChainIsWhole ==
    query = "chain" /\ done /\ (\E e \in Edges(graph) : e.type = "USES_CERTIFICATE" /\ e.to = start) =>
        \A id \in DOMAIN graph.nodes : graph.nodes[id].type = "Certificate" => id \in Range(chain)

(* Of every snapshot of the projection: both ends of every edge are in it;  *)
(* whatever is compromised, its asset is affected; a finding of a service   *)
(* is located at it; and a trust chain has every certificate listed.        *)
ProjectionIsWhole ==
    graph \in Projections => /\ SnapshotIsClosed /\ RadiusReachesAsset
                             /\ ServiceFindingsAreLocated /\ ChainIsWhole
=============================================================================
