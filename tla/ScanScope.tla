----------------------------- MODULE ScanScope ------------------------------
(***************************************************************************)
(* Scan scopes of the api-gateway: a scan of a workspace is passed on to   *)
(* the inventory only if the newest scope of the workspace approves every  *)
(* target of its network evidence.                                         *)
(*                                                                         *)
(* A host is a kind and a path: the bits of an address ("ip"), or the      *)
(* labels of a name, the top-level one first ("dns").  So a network is a   *)
(* prefix of the addresses in it, and *.d of the names under d.            *)
(***************************************************************************)
EXTENDS Integers, Sequences, SequencesExt, FiniteSets

CONSTANTS Scanners,    \* request threads
          Workspaces,
          Scopes,     \* the scopes people create: [cidrs, domains, excluded]
          Targets,    \* the targets of evidence: [host, port]
          MaxScopes,  \* bound: rows of scan_scopes per workspace
          MaxBlocks,  \* bound: evidence blocks with a target in one payload
          None

(* Bits of an address, labels of a name.                                    *)
IsPath(x) == x.path \in IF x.kind \in {"ip", "net"} THEN Seq({0, 1}) ELSE Seq(STRING)

ScopesAssumption ==
    \A s \in Scopes : /\ DOMAIN s = {"cidrs", "domains", "excluded"}
                      /\ \A p \in s.cidrs \union s.domains \union s.excluded : IsPath(p)
TargetsAssumption == \A t \in Targets : t.host.kind \in {"ip", "dns"} /\ IsPath(t.host)
NoScopeAssumption == None \notin Workspaces \union Scopes

(* _validate_cidr refuses a network of all addresses.                       *)
CidrAssumption == \A s \in Scopes : \A p \in s.cidrs : p.path # <<>>

ScopeAssumption == ScopesAssumption /\ TargetsAssumption /\ NoScopeAssumption

VARIABLES scopes,   \* scopes[w]: the rows of w, in order of created_at
          scope_pc, \* scope_pc[h]: what request thread h does next
          ws,       \* ws[h]: the workspace_id of its scan, or None
          targets,  \* targets[h]: _evidence_targets of its payload
          verdict,  \* verdict[h]: what became of the last scan h handled
          window    \* history: window[h]: scopes in force while h handled it

scopeVars == <<scopes, scope_pc, ws, targets, verdict, window>>

-----------------------------------------------------------------------------
(* check_target *)

(* _extract_host: what precedes the last ":" if digits follow it.           *)
HostOf(t) == IF t.port = "text" THEN [kind |-> "raw", path |-> t.host.path] ELSE t.host

(* _matches_any: *.d does not take d itself.                                *)
Under(p, host) == IsStrictPrefix(p.path, host.path)
Matches(p, host) ==
    \/ p = host
    \/ p.kind = "wild" /\ host.kind = "dns" /\ Under(p, host)
    \/ p.kind = "net" /\ host.kind = "ip" /\ IsPrefix(p.path, host.path)

MatchesAny(host, P) == \E p \in P : Matches(p, host)

(* Faulty: what is allowed is not looked up among the excluded.             *)
AllowedFirst(s, t) ==
    LET host == HostOf(t)
    IN MatchesAny(host, s.cidrs) \/ MatchesAny(host, s.domains)
CheckTarget(s, t) ==
    LET host == HostOf(t)
    IN /\ ~MatchesAny(host, s.excluded)
       /\ MatchesAny(host, s.cidrs) \/ MatchesAny(host, s.domains)

-----------------------------------------------------------------------------
(* The requests *)

ScopeInit == /\ scopes = [w \in Workspaces |-> <<>>]
             /\ scope_pc = [h \in Scanners |-> "idle"]
             /\ ws = [h \in Scanners |-> None]
             /\ targets = [h \in Scanners |-> {}]
             /\ verdict = [h \in Scanners |-> "none"]
             /\ window = [h \in Scanners |-> {}]

InForce(w) == IF w = None \/ scopes[w] = <<>> THEN None ELSE Last(scopes[w])

Turn(h, p) == scope_pc' = [scope_pc EXCEPT ![h] = p]

CreateScope(w, s) ==
    /\ Len(scopes[w]) < MaxScopes
    /\ scopes' = [scopes EXCEPT ![w] = Append(@, s)]
    /\ window' = [h \in Scanners |-> IF scope_pc[h] # "idle" /\ ws[h] = w THEN window[h] \union {s}
                                                                        ELSE window[h]]
    /\ UNCHANGED <<scope_pc, ws, targets, verdict>>

Arrive(h, w, T) ==
    /\ scope_pc[h] = "idle"
    /\ ws' = [ws EXCEPT ![h] = w]
    /\ targets' = [targets EXCEPT ![h] = T]
    /\ window' = [window EXCEPT ![h] = {InForce(w)}]
    /\ verdict' = [verdict EXCEPT ![h] = "none"]
    /\ Turn(h, "has_scope")
    /\ UNCHANGED scopes

(* Without a workspace_id, or without a scope, the scan is passed on.       *)
Unscoped(w) == InForce(w) = None

HasScope(h) ==
    /\ scope_pc[h] = "has_scope"
    /\ Turn(h, IF Unscoped(ws[h]) THEN "ingest" ELSE "check")
    /\ UNCHANGED <<scopes, ws, targets, verdict, window>>

Leave(h, v) == /\ Turn(h, "idle")
               /\ verdict' = [verdict EXCEPT ![h] = v]
               /\ UNCHANGED <<scopes, ws, targets, window>>

(* list_scopes()[0], the newest row.                                        *)
NewestRow(w)  == Last(scopes[w])
Approves(s, T) == \A t \in T : CheckTarget(s, t)

CheckScope(h) ==
    /\ scope_pc[h] = "check"
    /\ IF Approves(NewestRow(ws[h]), targets[h])
       THEN Turn(h, "ingest") /\ UNCHANGED <<scopes, ws, targets, verdict, window>>
       ELSE Leave(h, "refused")

(* POST /scans/ingest.                                                      *)
PassOn(h) == scope_pc[h] = "ingest" /\ Leave(h, "passed")

Payloads == {T \in SUBSET Targets : Cardinality(T) <= MaxBlocks}

ScopeNext == \/ \E w \in Workspaces, s \in Scopes : CreateScope(w, s)
             \/ \E h \in Scanners :
                   \/ \E w \in Workspaces \union {None}, T \in Payloads : Arrive(h, w, T)
                   \/ HasScope(h) \/ CheckScope(h) \/ PassOn(h)

ScopeSpec == ScopeInit /\ [][ScopeNext]_scopeVars

(* Types; and a request that looks for the newest scope finds one.          *)
ScopeTypeOK == /\ scopes \in [Workspaces -> Seq(Scopes)]
               /\ scope_pc \in [Scanners -> {"idle", "has_scope", "check", "ingest"}]
               /\ ws \in [Scanners -> Workspaces \union {None}]
               /\ targets \in [Scanners -> SUBSET Targets]
               /\ verdict \in [Scanners -> {"none", "passed", "refused"}]
               /\ window \in [Scanners -> SUBSET (Scopes \union {None})]
               /\ \A h \in Scanners : scope_pc[h] = "check" => ws[h] # None /\ scopes[ws[h]] # <<>>

-----------------------------------------------------------------------------
(* What a scope says, by the set of hosts it approves: those of its         *)
(* networks, domains and names, less those of the excluded.                 *)
Hosts     == {HostOf(t) : t \in Targets}
Covers(p) == {host \in Hosts :
                 CASE p.kind = "net"  -> host.kind = "ip" /\ \E q \in {SubSeq(host.path, 1, Len(p.path))} :
                                             Len(p.path) <= Len(host.path) /\ q = p.path
                   [] p.kind = "wild" -> host.kind = "dns" /\ Len(host.path) > Len(p.path)
                                             /\ SubSeq(host.path, 1, Len(p.path)) = p.path
                   [] OTHER           -> host = p}
Approved(s) == (UNION {Covers(p) : p \in s.cidrs \union s.domains})
                   \ (UNION {Covers(p) : p \in s.excluded})

(* scan_scope.py, _enforce_scan_scope: what is passed on was approved, in   *)
(* every target, by a scope in force at some time while it was handled, or  *)
(* there was none; excluded targets never are.                              *)
PassedOnWasApproved ==
    \A h \in Scanners : verdict[h] = "passed" =>
        \E s \in window[h] : s = None \/ {HostOf(t) : t \in targets[h]} \subseteq Approved(s)

(* Nothing is refused that every scope in force meanwhile approved.         *)
RefusedWasNot ==
    \A h \in Scanners : verdict[h] = "refused" =>
        \E s \in window[h] : s # None /\ ~({HostOf(t) : t \in targets[h]} \subseteq Approved(s))

(* The inductive invariant: the scope in force is one of those the request  *)
(* has met, and a request that is let through has met one that approves it. *)
Met ==
    \A h \in Scanners : scope_pc[h] # "idle" =>
        /\ InForce(ws[h]) \in window[h]
        /\ verdict[h] = "none"
        /\ scope_pc[h] = "ingest" =>
              \E s \in window[h] : s = None \/ {HostOf(t) : t \in targets[h]} \subseteq Approved(s)

ScopeInv == ScopeTypeOK /\ Met /\ PassedOnWasApproved /\ RefusedWasNot
=============================================================================
