---------------------------- MODULE MigrationPlan ----------------------------
(***************************************************************************)
(* planner-service: waves of remediation planned from the assets and risks *)
(* of inventory-service (build_plan), and their export as tasks to         *)
(* workflow-service, one request per task, while scans arrive, requests    *)
(* fail and answers are lost.  An exporter is a client that repeats        *)
(* POST /export-tasks; it may ask again after any answer.                  *)
(*                                                                         *)
(* Scores are hundredths of a point (0 .. 10000).  A risk is a record      *)
(*   name, score, rating, deps, blocked: what inventory-service stores;    *)
(*   evidence: the stage 2 signals and the Windows flags of the rationale; *)
(*   urgency, exposure, impact: its dimensions, 0 when missing;            *)
(*   confidence: -1 when missing.                                          *)
(* inventory-service stores no stage 2 signals, dimensions and confidence  *)
(* (models.RiskRecord), the planner reads them if a risk has them.         *)
(***************************************************************************)
EXTENDS Integers, Sequences, FiniteSets, SequencesExt, FiniteSetsExt

CONSTANTS Names,      \* asset names
          Types,      \* asset types
          Risks,      \* the risk results that scans can produce
          Requests,   \* the wave lists that are asked for
          Exporters,  \* clients of POST /export-tasks
          MaxRisks,   \* bound on the stored risk results
          MaxFaults   \* bound on lost and failed requests

Waves == {"wave_1", "wave_2", "wave_3"}

Ratings == {"critical", "high", "medium", "low", "minimal"}

RiskRecord == [name : Names, score : Nat, rating : Ratings, deps : Nat, blocked : BOOLEAN,
               evidence : SUBSET STRING, urgency : 0 .. 100, exposure : 0 .. 100,
               impact : 0 .. 100, confidence : -1 .. 100]

PlanAssumption ==
    /\ Risks \subseteq RiskRecord
    /\ Requests \subseteq Seq(Waves)
    /\ {MaxRisks, MaxFaults} \subseteq Nat

VARIABLES assets,   \* inventory: pairs <<name, type>>
          risks,    \* inventory: risk results, newest first as GET /risks lists them
          tasks,    \* workflow: sequence of [asset, wave, action]
          pc,       \* pc[x]: "idle", "read" (has the assets), "post" or "wait"
          type,     \* type[x]: asset_map of the running export, as types by name
          waves,    \* waves[x]: the plan of the export that runs, or ran last
          asked,    \* asked[x]: the waves it asks for
          todo,     \* todo[x]: what is left to post, pairs <<k, item>>: item of wave asked[x][k]
          inserting,\* requests of workflow-service between their find and their INSERT
          answer,   \* answer[x]: "none", "ok" or "failed"
          faults,
          disturbed \* history: exports overlapped, or one timed out

stored == <<assets, risks>>
export == <<pc, type, waves, asked, todo, answer>>
trouble == <<faults, disturbed>>
vars == <<stored, tasks, export, inserting, trouble>>

-----------------------------------------------------------------------------
(* build_plan *)

HighSignals   == {"private_key_files", "weak_public_key", "expiring_certificate"}
MediumSignals == {"certificate_files", "tls_config", "ssh_config", "tls", "crypto_packages"}
HighWindows   == {"windows_dc", "windows_expired", "windows_weak_signature"}
MediumWindows == {"windows_large_estate"}

Worth(set, r, points) == IF set \intersect r.evidence # {} THEN points ELSE 0
AtMost(x, high)       == IF x > high THEN high ELSE x

Confidence(r) == IF r.confidence >= 80 THEN 500
                 ELSE IF r.confidence \in 0 .. 49 THEN -500 ELSE 0

(* _priority_score, in hundredths.                                          *)
RawPriority(r) == r.score + 10 * r.urgency + 5 * r.exposure + 5 * r.impact + Confidence(r)
                  + 150 * AtMost(r.deps, 10) + (IF r.blocked THEN 800 ELSE 0)
                  + Worth(HighSignals, r, 1500) + Worth(MediumSignals, r, 500)
                  + Worth(HighWindows, r, 1500) + Worth(MediumWindows, r, 500)
MaxPriority    == 10000
Priority(r)    == IF RawPriority(r) < 0 THEN 0 ELSE AtMost(RawPriority(r), MaxPriority)

(* _enforce_stage2_wave_caps: what does not stay in the last wave.          *)
Capped(r) == r.evidence \intersect (HighWindows \union {"private_key_files", "weak_public_key"}) # {}

(* Faulty: the cap moves items out of the first wave as well.               *)
CapFirst(r) == IF Capped(r) THEN "wave_2" ELSE IF Priority(r) >= 6500 THEN "wave_1"
               ELSE IF Priority(r) >= 4500 THEN "wave_2" ELSE "wave_3"
WaveOf(r)   == IF Priority(r) >= 6500 THEN "wave_1"
               ELSE IF Priority(r) >= 4500 \/ Capped(r) THEN "wave_2" ELSE "wave_3"

(* The risks kept of a name: the first of those with the highest score.     *)
(* Faulty: all of them.                                                     *)
AllOf(list, n) == {i \in DOMAIN list : list[i].name = n}
Kept(list, n)  == {i \in AllOf(list, n) : \A j \in AllOf(list, n) :
                       list[j].score < list[i].score \/ (list[j].score = list[i].score /\ j >= i)}

(* recommend_action, each text by the word it is about.                     *)
Actions == {"vendor_escalation", "sequencing_in_wave_1", "endpoint", "server", "critical",
            "high", "track"}
Action(r, t) ==
    IF r.blocked THEN "vendor_escalation"
    ELSE IF r.deps >= 5 THEN "sequencing_in_wave_1"
    ELSE IF t \in {"endpoint", "server"} THEN t
    ELSE IF r.rating \in {"critical", "high"} THEN r.rating ELSE "track"

Item(r, t) == [asset |-> r.name, action |-> Action(r, t), risk |-> r]

(* types: asset_map.  A plan maps each wave to its items.                   *)
Plan(list, types) ==
    [w \in Waves |-> {Item(list[i], types[list[i].name]) : i \in
        {i \in UNION {Kept(list, n) : n \in Names} : WaveOf(list[i]) = w}}]

(* _ordering_tuple.                                                         *)
Before(a, b)  == \/ Priority(a.risk) > Priority(b.risk)
                 \/ /\ Priority(a.risk) = Priority(b.risk)
                    /\ \/ a.risk.blocked /\ ~ b.risk.blocked
                       \/ a.risk.blocked = b.risk.blocked /\ a.risk.deps > b.risk.deps

(* What export_tasks posts for a list of waves, and what of it can be next: *)
(* wave by wave, as the request lists them, and in each the most urgent.    *)
(* Which of two equals is first depends on the order of GET /risks.         *)
Posts(plan, list) == UNION {{k} \X plan[list[k]] : k \in DOMAIN list}
Due(posts) == {p \in posts : \A q \in posts :
                  p[1] <= q[1] /\ (p[1] = q[1] => ~ Before(q[2], p[2]))}

-----------------------------------------------------------------------------
NoPlan == [w \in Waves |-> {}]

Init == /\ assets = {}
        /\ risks = <<>>
        /\ tasks = <<>>
        /\ pc = [x \in Exporters |-> "idle"]
        /\ type = [x \in Exporters |-> [n \in Names |-> "unknown"]]
        /\ waves = [x \in Exporters |-> NoPlan]
        /\ asked = [x \in Exporters |-> <<>>]
        /\ todo = [x \in Exporters |-> {}]
        /\ inserting = <<>>
        /\ answer = [x \in Exporters |-> "none"]
        /\ faults = 0
        /\ disturbed = FALSE

(* inventory-service commits the asset of a scan before its risk result.    *)
AddAsset(n, t) == /\ <<n, t>> \notin assets
                  /\ assets' = assets \union {<<n, t>>}
                  /\ UNCHANGED <<risks, tasks, export, inserting, trouble>>

AddRisk(r) == /\ Len(risks) < MaxRisks
              /\ \E t \in Types : <<r.name, t>> \in assets
              /\ risks' = <<r>> \o risks
              /\ UNCHANGED <<assets, tasks, export, inserting, trouble>>

(* export_tasks, POST /export-tasks                                         *)

(* get_assets.  Of the assets with one name the last listed stays; GET      *)
(* /assets orders by name alone.                                            *)
ReadAssets(x) ==
    /\ pc[x] = "idle"
    /\ \E list \in Requests, f \in [Names -> Types \union {"unknown"}] :
          /\ \A n \in Names : IF \E t \in Types : <<n, t>> \in assets
                                THEN <<n, f[n]>> \in assets ELSE f[n] = "unknown"
          /\ asked' = [asked EXCEPT ![x] = list]
          /\ type' = [type EXCEPT ![x] = f]
    /\ pc' = [pc EXCEPT ![x] = "read"]
    /\ waves' = [waves EXCEPT ![x] = NoPlan]
    /\ answer' = [answer EXCEPT ![x] = "none"]
    /\ todo' = [todo EXCEPT ![x] = {}]
    /\ disturbed' = (disturbed \/ \E y \in Exporters : pc[y] # "idle")
    /\ UNCHANGED <<stored, tasks, inserting, faults>>

(* get_risks and build_plan.                                                *)
ReadRisks(x) ==
    /\ pc[x] = "read"
    /\ LET plan == Plan(risks, type[x])
       IN /\ waves' = [waves EXCEPT ![x] = plan]
          /\ todo' = [todo EXCEPT ![x] = Posts(plan, asked[x])]
    /\ pc' = [pc EXCEPT ![x] = "post"]
    /\ UNCHANGED <<stored, tasks, type, asked, inserting, answer, trouble>>

Reply(x, result) == /\ pc' = [pc EXCEPT ![x] = "idle"]
                    /\ answer' = [answer EXCEPT ![x] = result]

TaskOf(wave, item) == [asset |-> item.asset, wave |-> wave, action |-> item.action]

(* _find_existing_task of workflow-service.  Faulty: finds nothing.         *)
NeverSame(t, u) == FALSE
SameTask(t, u)  == t = u

Found(u) == \E i \in DOMAIN tasks : SameTask(tasks[i], u)

(* Faulty: the same request again and again.                                *)
Again(posts, p) == posts
Rest(posts, p)  == posts \ {p}

(* The next task is posted and workflow-service looks for it: it answers    *)
(* with the task it has, or goes on to the INSERT.                          *)
Post(x) ==
    /\ pc[x] = "post"
    /\ \E p \in Due(todo[x]) :
          LET u == TaskOf(asked[x][p[1]], p[2])
          IN /\ todo' = [todo EXCEPT ![x] = Rest(todo[x], p)]
             /\ IF Found(u)
                THEN UNCHANGED <<pc, inserting>>
                ELSE /\ inserting' = Append(inserting, <<x, u>>)
                     /\ pc' = [pc EXCEPT ![x] = "wait"]
    /\ UNCHANGED <<stored, tasks, type, waves, asked, answer, trouble>>

(* The request of inserting[i] is the one that x waits for, the last of its *)
(* requests; what it no longer waits for was posted before.                 *)
Awaited(x, i) == /\ pc[x] = "wait"
                 /\ inserting[i][1] = x
                 /\ \A j \in DOMAIN inserting : inserting[j][1] = x => j <= i

(* The INSERT; its answer finds the exporter waiting or gone.               *)
Insert(i) ==
    LET x == inserting[i][1]
    IN /\ tasks' = Append(tasks, inserting[i][2])
       /\ inserting' = RemoveAt(inserting, i)
       /\ pc' = IF Awaited(x, i) THEN [pc EXCEPT ![x] = "post"] ELSE pc
       /\ UNCHANGED <<stored, type, waves, asked, todo, answer, trouble>>

Finish(x) == /\ pc[x] = "post"
             /\ todo[x] = {}
             /\ Reply(x, "ok")
             /\ UNCHANGED <<stored, tasks, type, waves, asked, todo, inserting, trouble>>

Fault(x) == /\ faults < MaxFaults
            /\ faults' = faults + 1
            /\ UNCHANGED <<stored, type, waves, asked>>

(* A read of inventory-service fails: 500.                                  *)
ReadFails(x) == /\ pc[x] = "read"
                /\ Fault(x)
                /\ Reply(x, "failed")
                /\ UNCHANGED <<tasks, todo, inserting, disturbed>>

(* The post fails before workflow-service has it: 500.  What was posted     *)
(* stays.  Faulty: the item is skipped.                                     *)
SkipItem(x)  == /\ pc[x] = "post"
                /\ todo[x] # {}
                /\ Fault(x)
                /\ \E p \in Due(todo[x]) : todo' = [todo EXCEPT ![x] = @ \ {p}]
                /\ UNCHANGED <<tasks, pc, inserting, answer, disturbed>>
PostFails(x) == /\ pc[x] = "post"
                /\ todo[x] # {}
                /\ Fault(x)
                /\ Reply(x, "failed")
                /\ UNCHANGED <<tasks, todo, inserting, disturbed>>

(* The client waits 10 seconds for workflow-service, which inserts later.   *)
TimesOut(x) == /\ pc[x] = "wait"
               /\ Fault(x)
               /\ Reply(x, "failed")
               /\ disturbed' = TRUE
               /\ UNCHANGED <<tasks, todo, inserting>>

(* The task is inserted, its answer is lost: 500.                           *)
LoseAnswer(x) == /\ pc[x] = "wait"
                 /\ Fault(x)
                 /\ \E i \in DOMAIN inserting :
                       /\ inserting[i][1] = x
                       /\ tasks' = Append(tasks, inserting[i][2])
                       /\ inserting' = RemoveAt(inserting, i)
                 /\ Reply(x, "failed")
                 /\ UNCHANGED <<todo, disturbed>>

Proceed(x) == ReadRisks(x) \/ Post(x) \/ Finish(x)
Fails(x)   == ReadFails(x) \/ PostFails(x) \/ TimesOut(x) \/ LoseAnswer(x)

Next == \/ \E n \in Names, t \in Types : AddAsset(n, t)
        \/ \E r \in Risks : AddRisk(r)
        \/ \E x \in Exporters : ReadAssets(x) \/ Proceed(x) \/ Fails(x)
        \/ \E i \in DOMAIN inserting : Insert(i)

(* Every call has a time limit and both services answer: an export goes on. *)
Fairness == /\ \A x \in Exporters : WF_vars(Proceed(x))
            /\ WF_vars(\E i \in DOMAIN inserting : Insert(i))

Spec     == Init /\ [][Next]_vars
FairSpec == Spec /\ Fairness

-----------------------------------------------------------------------------
Items == [asset : Names, action : Actions, risk : Risks]
Tasks == [asset : Names, wave : Waves, action : Actions]

WithinRange(plan) == \A w \in Waves : \A item \in plan[w] : Priority(item.risk) \in 0 .. MaxPriority

(* Types, and every planned priority is within 0 and 100.                   *)
TypeOK ==
    /\ assets \subseteq Names \X Types
    /\ risks \in Seq(Risks)
    /\ tasks \in Seq(Tasks)
    /\ pc \in [Exporters -> {"idle", "read", "post", "wait"}]
    /\ type \in [Exporters -> [Names -> Types \union {"unknown"}]]
    /\ waves \in [Exporters -> [Waves -> SUBSET Items]]
    /\ asked \in [Exporters -> Seq(Waves)]
    /\ \A x \in Exporters : todo[x] \subseteq Posts(waves[x], asked[x])
    /\ DOMAIN todo = Exporters
    /\ inserting \in Seq(Exporters \X Tasks)
    /\ answer \in [Exporters -> {"none", "ok", "failed"}]
    /\ \A x \in Exporters : WithinRange(waves[x])

(* However often an asset was scanned, and however its scores compare, it   *)
(* is planned once, in one wave (build_plan and its wave caps).             *)
EachNameOnce ==
    \A x \in Exporters : pc[x] \in {"post", "wait"} =>
        \A n \in Names : \A v, w \in Waves : \A i \in waves[x][v], j \in waves[x][w] :
            i.asset = n /\ j.asset = n => v = w /\ i = j

(* While an export runs, every item it was asked for is left to post, filed *)
(* or on its way into the table (export_tasks).                             *)
NothingIsDropped ==
    \A x \in Exporters : pc[x] \in {"post", "wait"} =>
        \A p \in Posts(waves[x], asked[x]) \ todo[x] :
            LET u == TaskOf(asked[x][p[1]], p[2])
            IN Found(u) \/ \E i \in DOMAIN inserting : Awaited(x, i) /\ inserting[i][2] = u

(* An export that answered success has filed a task for every item of the   *)
(* waves it was asked for, with the wave and the advice of its plan, also   *)
(* when workflow-service already had some of them (export_tasks).           *)
SuccessIsFiled ==
    \A x \in Exporters : answer[x] = "ok" =>
        \A k \in DOMAIN asked[x] : \A item \in waves[x][asked[x][k]] :
            Found(TaskOf(asked[x][k], item))

(* An export stops at the first failure: what it leaves unfiled of a wave   *)
(* is never more urgent than what it filed (build_plan's order, kept by     *)
(* export_tasks).                                                           *)
MostUrgentFirst ==
    \A x \in Exporters : \A p \in todo[x], q \in Posts(waves[x], asked[x]) \ todo[x] :
        p[1] = q[1] => Priority(q[2].risk) >= Priority(p[2].risk)

ExportsFileInOrder == SuccessIsFiled /\ MostUrgentFirst

(* The inductive invariant.                                                 *)
IInv == /\ TypeOK
        /\ EachNameOnce
        /\ NothingIsDropped
        /\ SuccessIsFiled
        /\ MostUrgentFirst
        /\ \A x \in Exporters : answer[x] = "none" \/ pc[x] = "idle"

(* Clients that wait for each other and for the answers, and repeat the     *)
(* export after refusals and lost answers, never file a task twice          *)
(* (create_task).                                                           *)
TasksAreUnique == \A i, j \in DOMAIN tasks : i # j => ~ (tasks[i] = tasks[j])

(* What makes it so: one export runs, and the one request under way is that *)
(* of the exporter that waits, for a task that is not in the table.         *)
OneUnderway ==
    /\ \A x, y \in Exporters : pc[x] # "idle" /\ pc[y] # "idle" => x = y
    /\ Len(inserting) <= 1
    /\ \A x \in Exporters : pc[x] = "wait" <=> \E i \in DOMAIN inserting : inserting[i][1] = x
    /\ \A i \in DOMAIN inserting : ~ Found(inserting[i][2])

RetriesFileOnce == IInv /\ (~ disturbed => OneUnderway /\ TasksAreUnique)

(* Evidence that is worse in every respect.                                 *)
NoBetter(r, q) == /\ r.name = q.name
                  /\ r.score >= q.score /\ r.deps >= q.deps
                  /\ q.blocked => r.blocked
                  /\ q.evidence \subseteq r.evidence
                  /\ r.urgency >= q.urgency /\ r.exposure >= q.exposure /\ r.impact >= q.impact
                  /\ r.confidence = q.confidence

Rank(w) == CHOOSE k \in 1 .. 3 : w = <<"wave_1", "wave_2", "wave_3">>[k]

WaveIn(list, n) == CHOOSE w \in Waves : \E i \in Kept(list, n) : WaveOf(list[i]) = w

(* A scan that finds an asset no better in any respect than what it is      *)
(* planned by never moves it to a later wave: the kept risk, the boosts and *)
(* the caps work in one direction (build_plan).                             *)
PostponesNoWorse ==
    \A n \in Names : Kept(risks, n) # {} /\ Len(risks') > Len(risks) =>
        ((\A i \in Kept(risks, n) : NoBetter(risks'[1], risks[i])) =>
            Rank(WaveIn(risks', n)) <= Rank(WaveIn(risks, n)))
NoBetterIsNotPostponed == [][PostponesNoWorse]_vars

(* Every export is answered, whatever fails on its way.                     *)
ExportsEnd == \A x \in Exporters : pc[x] # "idle" ~> pc[x] = "idle"
=============================================================================
