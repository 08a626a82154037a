---------------------------- MODULE GraphService ----------------------------
(***************************************************************************)
(* graph-service: the queries over a graph snapshot.  The two that walk    *)
(* the graph (blast radius, trust chain) are a step per turn of their      *)
(* loops, because that they end on a graph with cycles is a question; the  *)
(* others answer at once.  A snapshot of a request may be any JSON, so     *)
(* edges may repeat, close cycles and lead to nodes it does not have.      *)
(* The service keeps nothing between requests: a behaviour is one of them. *)
(***************************************************************************)
EXTENDS Integers, Sequences, FiniteSets, SequencesExt

CONSTANTS Snapshots,  \* [nodes: id -> [type, ...], edges: Seq of [from, type, to]]
          Filters,    \* sets of edge types; {} is no filter
          Depths,     \* values of max_depth; 0 is no limit
          None        \* no node

Edges(g) == {g.edges[i] : i \in DOMAIN g.edges}

SnapshotAssumption ==
    /\ Depths \subseteq Nat
    /\ \A s \in Snapshots : None \notin DOMAIN s.nodes /\ s.edges \in Seq(Edges(s))

VARIABLES graph,  \* the snapshot the request has loaded
          query,  \* "none", "radius", "chain", "neighbors" or "path"
          start,  \* node_id of the request
          filter, \* its edge_types
          limit,  \* its max_depth
          queue,  \* blast_radius: what is still to visit, <<node, depth>>
          depth,  \* blast_radius: the depth of each affected node
          chain,  \* trust_chain: the chain so far
          found,  \* the answer of neighbors or evidence_path
          done    \* the request is answered

graphVars == <<graph, query, start, filter, limit, queue, depth, chain, found, done>>

Wanted(e, F)   == F = {} \/ e.type \in F
Into(g, n, F)  == {e.from : e \in {e \in Edges(g) : e.to = n /\ Wanted(e, F)}}
OutOf(g, n, F) == {e.to : e \in {e \in Edges(g) : e.from = n /\ Wanted(e, F)}}

GraphInit ==
    /\ graph = [nodes |-> <<>>, edges |-> <<>>]
    /\ query = "none"
    /\ start = None
    /\ filter = {}
    /\ limit = 0
    /\ queue = <<>>
    /\ depth = <<>>
    /\ chain = <<>>
    /\ found = {}
    /\ done = TRUE

(* A request: the snapshot is loaded and must have the node (404).          *)
Asked(q, g, n, F, max) ==
    /\ n \in DOMAIN g.nodes
    /\ graph' = g
    /\ query' = q
    /\ start' = n
    /\ filter' = F
    /\ limit' = max

-----------------------------------------------------------------------------
(* blast_radius *)

AskRadius ==
    /\ query = "none"
    /\ \E g \in Snapshots : \E n \in DOMAIN g.nodes, F \in Filters, max \in Depths :
          /\ Asked("radius", g, n, F, max)
          /\ queue' = <<<<n, 0>>>>
          /\ depth' = <<>>
          /\ chain' = <<>>
          /\ found' = {}
          /\ done' = FALSE

(* Faulty: the newest is visited first.                                     *)
AtTheFront(q, new) == new \o q
Behind(q, new)     == q \o new

Unvisited(q) == Tail(q)

Seen      == DOMAIN depth \union {start}

(* What leads to n is affected, at the depth next; a depth already known is *)
(* lowered to it.                                                           *)
Affected(n, next) == IF limit > 0 /\ next > limit THEN {} ELSE Into(graph, n, filter)

Enter(from, next) ==
    LET new == SetToSeq(from \ Seen)
    IN /\ queue' = Behind(Unvisited(queue), [i \in DOMAIN new |-> <<new[i], next>>])
       /\ depth' = [m \in DOMAIN depth \union (from \ Seen) |->
                       IF m \notin DOMAIN depth \/ (m \in from /\ depth[m] > next)
                       THEN next ELSE depth[m]]

(* Visit the first of the queue.                                            *)
Visit ==
    /\ query = "radius"
    /\ queue # <<>>
    /\ LET next == Head(queue)[2] + 1
       IN Enter(Affected(Head(queue)[1], next), next)
    /\ UNCHANGED <<graph, query, start, filter, limit, chain, found, done>>

RadiusEnds == /\ query = "radius"
              /\ ~ done
              /\ queue = <<>>
              /\ done' = TRUE
              /\ UNCHANGED <<graph, query, start, filter, limit, queue, depth, chain, found>>

-----------------------------------------------------------------------------
(* trust_chain *)

AskChain ==
    /\ query = "none"
    /\ \E g \in Snapshots : \E n \in DOMAIN g.nodes :
          /\ Asked("chain", g, n, {}, 0)
          /\ chain' = <<n>>
          /\ queue' = <<>>
          /\ depth' = <<>>
          /\ found' = {}
          /\ done' = FALSE

(* The edge lists are in the order of the snapshot: the first issuer counts.*)
Leaving(g, n, t)  == {i \in DOMAIN g.edges : g.edges[i].from = n /\ g.edges[i].type = t}
Entering(g, n, t) == {i \in DOMAIN g.edges : g.edges[i].to = n /\ g.edges[i].type = t}
FirstOf(g, I)     == g.edges[CHOOSE i \in I : \A j \in I : i <= j]

SignedBy(n) == Leaving(graph, n, "SIGNED_BY")
Issuer(n)   == FirstOf(graph, SignedBy(n)).to

(* The cycle guard.                                                         *)
NotYet(n)  == \A i \in DOMAIN chain : chain[i] # n

Follow ==
    /\ query = "chain"
    /\ ~ done
    /\ LET n == Last(chain)
       IN IF SignedBy(n) # {} /\ NotYet(Issuer(n))
          THEN /\ chain' = Append(chain, Issuer(n))
               /\ UNCHANGED done
          ELSE /\ done' = TRUE
               /\ UNCHANGED chain
    /\ UNCHANGED <<graph, query, start, filter, limit, queue, depth, found>>

-----------------------------------------------------------------------------
(* neighbors, with direction "in", "out" or "both" *)

Neighbors(g, n, F) == {<<"in", m>> : m \in Into(g, n, F)}
                      \union {<<"out", m>> : m \in OutOf(g, n, F)}

AskNeighbors ==
    /\ query = "none"
    /\ \E g \in Snapshots : \E n \in DOMAIN g.nodes, F \in Filters :
          /\ Asked("neighbors", g, n, F, 0)
          /\ found' = Neighbors(g, n, F)
          /\ queue' = <<>>
          /\ depth' = <<>>
          /\ chain' = <<>>
          /\ UNCHANGED done

-----------------------------------------------------------------------------
(* evidence_path *)

(* The first edge of a type, or none, and what of two is there.             *)
FirstFrom(g, n, t) == IF Entering(g, n, t) = {} THEN None ELSE FirstOf(g, Entering(g, n, t)).from
FirstTo(g, n, t)   == IF Leaving(g, n, t) = {} THEN None ELSE FirstOf(g, Leaving(g, n, t)).to
Or(a, b)           == IF a # None THEN a ELSE b

EvidencePath(g, n) ==
    LET type     == g.nodes[n].type
        If(t, m) == IF type = t THEN m ELSE None
        finding  == If("CryptoFinding", n)
        crypto1  == IF type \in {"Certificate", "Package", "Library", "Pipeline"} THEN n ELSE None
        service1 == Or(If("Service", n), Or(If("CryptoFinding", FirstFrom(g, n, "SERVICE_HAS_FINDING")),
                                            If("Certificate", FirstFrom(g, n, "USES_CERTIFICATE"))))
        asset1   == Or(If("Asset", n), Or(If("CryptoFinding", FirstFrom(g, n, "HAS_FINDING")),
                          IF type \in {"Package", "Library"} THEN FirstFrom(g, n, "HAS_PACKAGE") ELSE None))
        asset    == Or(asset1, FirstFrom(g, service1, "RUNS"))
        service  == Or(service1, FirstTo(g, asset, "RUNS"))
        crypto   == Or(Or(crypto1, FirstTo(g, service, "USES_CERTIFICATE")),
                       FirstTo(g, asset, "HAS_PACKAGE"))
        role     == [finding |-> finding, service |-> service, asset |-> asset, crypto |-> crypto]
    IN {<<r, role[r]>> : r \in {r \in DOMAIN role : role[r] \in DOMAIN g.nodes}}

AskPath ==
    /\ query = "none"
    /\ \E g \in Snapshots : \E n \in DOMAIN g.nodes :
          /\ Asked("path", g, n, {}, 0)
          /\ found' = EvidencePath(g, n)
          /\ queue' = <<>>
          /\ depth' = <<>>
          /\ chain' = <<>>
          /\ UNCHANGED done

Walk == Visit \/ RadiusEnds \/ Follow
GraphNext == AskRadius \/ AskChain \/ AskNeighbors \/ AskPath \/ Walk

(* Nothing keeps the loops of a request from their next turn.               *)
GraphSpec == GraphInit /\ [][GraphNext]_graphVars /\ WF_graphVars(Walk)

-----------------------------------------------------------------------------
(* What is reached against the edges in at most k steps: the reference.     *)
Reached(g, n, F) ==
    LET level[k \in 0 .. Len(g.edges)] ==
            IF k = 0 THEN {n}
            ELSE LET before == level[k - 1]
                 IN before \union UNION {Into(g, m, F) : m \in before}
    IN level

(* A blast radius is exactly what depends on the node within the limit,     *)
(* each with the length of its shortest way, also on cycles and where ways  *)
(* of different lengths meet; the node itself is not affected.              *)
RadiusIsExact ==
    query = "radius" /\ done =>
        LET level == Reached(graph, start, filter)
            all   == IF limit > 0 /\ limit < Len(graph.edges) THEN limit ELSE Len(graph.edges)
        IN /\ DOMAIN depth = level[all] \ {start}
           /\ \A m \in DOMAIN depth : m \in level[depth[m]] /\ m \notin level[depth[m] - 1]

(* No node is put into the queue twice, whatever the cycles.                *)
VisitedOnce == \A i, j \in DOMAIN queue : queue[i][1] = queue[j][1] => i = j

(* "A certificate's chain to its root": a certificate occurs once, and who  *)
(* is in it is in danger if its root is, so blast radius and trust chain    *)
(* agree about the direction of SIGNED_BY.                                  *)
RootEndangersChain ==
    query = "chain" =>
        /\ \A i, j \in DOMAIN chain : chain[i] = chain[j] => i = j
        /\ start \in Reached(graph, Last(chain), {"SIGNED_BY"})[Len(graph.edges)]

(* The inductive invariant.  Of a radius: what is seen has the length of    *)
(* some way, the next of which was seen too; the queue has what is seen and *)
(* not visited, in order of the distances, of which there are no others     *)
(* than that of its first and the next; and what leads to a visited node is *)
(* seen, unless it is beyond the limit.                                     *)
Distance(m) == IF m = start THEN 0 ELSE depth[m]
Waiting     == {queue[i][1] : i \in DOMAIN queue}

HaveWays ==
    \A m \in DOMAIN depth :
        /\ m # start
        /\ depth[m] \in Nat \ {0}
        /\ limit > 0 => depth[m] <= limit
        /\ \E v \in Seen : m \in Into(graph, v, filter) /\ depth[m] = Distance(v) + 1
InOrder ==
    /\ queue \in Seq(Seen \X Nat)
    /\ \A i \in DOMAIN queue : queue[i][2] = Distance(queue[i][1])
    /\ \A i, j \in DOMAIN queue : i < j => queue[i][2] <= queue[j][2]
    /\ queue # <<>> => \A m \in Seen : Distance(m) <= queue[1][2] + 1
LeaveNoGap ==
    \A v \in Seen \ Waiting : limit = 0 \/ Distance(v) < limit =>
        \A m \in Into(graph, v, filter) : m \in Seen /\ Distance(m) <= Distance(v) + 1

(* Of a chain: it begins at the start, and the next has signed.             *)
ChainIsSigned ==
    /\ chain \in Seq({start} \union {e.to : e \in Edges(graph)})
    /\ chain # <<>> /\ chain[1] = start
    /\ \A i \in 1 .. Len(chain) - 1 : chain[i] \in Into(graph, chain[i + 1], {"SIGNED_BY"})
    /\ \A i, j \in DOMAIN chain : chain[i] = chain[j] => i = j

GraphInv ==
    /\ query # "none" => graph.edges \in Seq(Edges(graph)) /\ limit \in Nat
    /\ query = "radius" => HaveWays /\ InOrder /\ LeaveNoGap /\ VisitedOnce
                           /\ (done => queue = <<>>)
    /\ query = "chain" => ChainIsSigned
    /\ query # "radius" => queue = <<>>

(* The answers, and the invariant that they follow from.                    *)
GraphAnswersAreExact == GraphInv /\ RadiusIsExact /\ VisitedOnce /\ RootEndangersChain

(* Every walk ends, on every snapshot.                                      *)
QueriesEnd == ~ done ~> done
=============================================================================
