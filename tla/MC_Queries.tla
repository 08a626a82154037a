----------------------------- MODULE MC_Queries ------------------------------
(***************************************************************************)
(* Small instances of what must come to an end, for TLC: the graph queries,*)
(* and the long requests of one client at a time.  One part moves, which   *)
(* the initial state chooses.                                              *)
(***************************************************************************)
EXTENDS GraphProjection, MigrationPlan

VARIABLE part
VARIABLES loaded, scans, scored, workspaces, snapshot, load_pc, known, at, request, step,
          audit, load_disturbed

loadVars     == <<loaded, scans, scored, workspaces, snapshot, load_pc, known, at, request,
                  step, audit, load_disturbed>>

-----------------------------------------------------------------------------
(* GraphService: every graph of up to three edges over three nodes, of up   *)
(* to two where the snapshot lacks one of these, and larger ones: two ways  *)
(* from d to a, of two and of three steps, something beyond them, cycles.   *)
(* The only loop is that of a.                                              *)
Certificates(N)      == [n \in {<<a>> : a \in N} |-> [type |-> "Certificate"]]
Link(from, kind, to) == Edge(<<from>>, kind, <<to>>)

Pairs      == {"a", "b", "c"} \X {"a", "b", "c"} \ {<<"b", "b">>, <<"c", "c">>}
SmallEdges == {Link(p[1], "SIGNED_BY", p[2]) : p \in Pairs}
              \union {Link("a", "RUNS", "b"), Link("c", "RUNS", "a")}
UpTo(n, N) == {[nodes |-> Certificates(N), edges |-> s] : s \in UNION {[1 .. k -> SmallEdges] : k \in 0 .. n}}
Small      == UpTo(2, {"a", "b"}) \union UpTo(3, {"a", "b", "c"})

Ways == <<Link("b", "RUNS", "a"), Link("c", "RUNS", "b"), Link("d", "RUNS", "c"),
          Link("f", "SIGNED_BY", "a"), Link("d", "SIGNED_BY", "f"), Link("e", "RUNS", "d"),
          Link("a", "SIGNED_BY", "d"), Link("a", "RUNS", "e")>>
Large == {[nodes |-> Certificates({"a", "b", "c", "d", "e", "f"}), edges |-> s] :
             s \in {Ways, Reverse(Ways)}}

(* GraphProjection: one host, with one thing or with everything on it, one  *)
(* service of the same asset or of another, and chains that list the leaf   *)
(* first, as the scanner does, or do not.                                   *)
SomeHosts == {[asset |-> "web", packages |-> {}, configs |-> {"sshd_config"}, keys |-> 0],
              [asset |-> "web", packages |-> {"openssl"}, configs |-> {"sshd_config"}, keys |-> 2]}

Cert(c, fp, alg, size) == [cert |-> c, fp |-> fp, alg |-> alg, size |-> size]
Leaves    == {Cert("leaf", fp, alg, size) : fp \in BOOLEAN, alg \in {"none", "RSA"},
                                            size \in {0, 1024, 2048}}
             \union {Cert("leaf", TRUE, "EC", 256), Cert("leaf", TRUE, "ML-KEM", 0)}
Above(fp) == <<Cert("issuer", fp, "none", 0), Cert("root", TRUE, "none", 0)>>
SomeNetworks ==
    {[asset |-> a, target |-> "api", leaf |-> l, chain |-> c] :
        a \in {"web", "edge", None}, l \in Leaves,
        c \in {<<>>, Above(TRUE), Above(FALSE), <<Cert("leaf", TRUE, "none", 0)>> \o Above(TRUE)}}

AllSnapshots == Small \union Large \union Projections

-----------------------------------------------------------------------------
(* DemoLoad: one load after the other.                                      *)
Clicks     == {"l1", "l2"}
DemoFiles  == <<"host", "network", "repo">>
WholeCalls == {"workspace", "refuse", "files"}

Loading == INSTANCE DemoLoad WITH
    Loads <- Clicks, Demo <- DemoFiles, MaxOpen <- 1, Faults <- WholeCalls,
    assets <- loaded, pc <- load_pc, disturbed <- load_disturbed

(* MigrationPlan: an exporter that waits for its answer and tries again;    *)
(* two that overlap and time out, one of them once; and scans without       *)
(* exporters, with risks on both sides of the two wave boundaries and       *)
(* boosts that carry them across.                                           *)
PlanRisk(n, score, rating, deps, blocked, ev) ==
    [name |-> n, score |-> score, rating |-> rating, deps |-> deps, blocked |-> blocked,
     evidence |-> ev, urgency |-> 0, exposure |-> 0, impact |-> 0, confidence |-> -1]

Detailed(r, urgency, confidence) == [r EXCEPT !.urgency = urgency, !.exposure = 100,
                                              !.impact = 40, !.confidence = confidence]

TwoRisks == {PlanRisk("web", 6499, "high", 0, FALSE, {}), PlanRisk("db", 6600, "high", 0, TRUE, {})}
FewRisks == TwoRisks \union
            {PlanRisk("web", 6499, "high", 1, FALSE, {"windows_dc"}),
             PlanRisk("web", 2000, "low", 6, FALSE, {}),
             [PlanRisk("db", 300, "minimal", 0, FALSE, {}) EXCEPT !.confidence = 20]}

ManyRisks == {PlanRisk("web", score, "high", deps, b, ev) :
                  score \in {0, 2900, 4499, 6500, 9900}, deps \in {0, 11},
                  b \in BOOLEAN, ev \in SUBSET {"windows_dc", "weak_public_key", "tls"}}
             \union {Detailed(PlanRisk("web", score, "high", 0, FALSE, ev), u, c) :
                  score \in {400, 4400, 6000}, ev \in {{}, {"private_key_files"}},
                  u \in {0, 100}, c \in {-1, 49, 50, 80}}
AllRisks  == FewRisks \union ManyRisks

SomeRequests == {<<"wave_1">>, <<"wave_2", "wave_1">>, <<"wave_1", "wave_2", "wave_3">>}

Retrying    == INSTANCE MigrationPlan WITH Risks <- FewRisks
Overlapping == INSTANCE MigrationPlan WITH
    Risks <- TwoRisks, Requests <- {<<"wave_1", "wave_2", "wave_3">>}, MaxFaults <- 1
Scanning    == INSTANCE MigrationPlan WITH Risks <- ManyRisks, Names <- {"web"}, Exporters <- {}

(* Scans arrive until y asks, which asks once.                              *)
AskOnce == /\ stored' # stored => asked'["y"] = <<>>
           /\ answer["y"] # "none" => pc'["y"] = "idle"

PlanNext == \/ part = "exporting" /\ Retrying!Next /\ pc'["y"] = "idle" /\ ~ disturbed'
            \/ part = "exports" /\ Overlapping!Next /\ AskOnce
            \/ part = "planning" /\ Scanning!Next

ASSUME SnapshotAssumption /\ ProjectionAssumption /\ PlanAssumption /\ Loading!DemoAssumption

-----------------------------------------------------------------------------
(* One side of the graphs at a time; the projection's with neither filter   *)
(* nor limit.                                                               *)
WalkNext == GraphNext /\ (query = "none" =>
    IF part = "walking" THEN graph' \notin Projections
                        ELSE graph' \in Projections /\ filter' = {} /\ limit' = 0)

QueriesInit ==
    /\ part \in {"walking", "projected", "loading", "exporting", "exports", "planning"}
    /\ GraphInit /\ Loading!Init /\ Init

QueriesNext ==
    /\ UNCHANGED part
    /\ IF part = "loading" THEN Loading!Next ELSE UNCHANGED loadVars
    /\ IF part \in {"walking", "projected"} THEN WalkNext ELSE UNCHANGED graphVars
    /\ IF part \in {"exporting", "exports", "planning"} THEN PlanNext ELSE UNCHANGED vars

QueriesSpec ==
    /\ QueriesInit
    /\ [][QueriesNext]_<<part, graphVars, loadVars, vars>>
    /\ WF_graphVars(Walk)
    /\ \A l \in Clicks :
          /\ WF_loadVars(load_pc[l] # "idle" /\ Loading!Load(l))
          /\ WF_loadVars(load_pc[l] # "idle" /\ Loading!Inventory(l))
    /\ Fairness

(* Every walk and every demo load ends, and every export is answered.       *)
EverythingEnds == QueriesEnd /\ Loading!LoadsEnd /\ ExportsEnd
=============================================================================
