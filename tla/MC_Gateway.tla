----------------------------- MODULE MC_Gateway -----------------------------
(***************************************************************************)
(* A small instance of the api-gateway for TLC.  Its parts share no state, *)
(* so the initial state chooses one, and only that part moves.  Accounts   *)
(* has two: a few routes for overlapping requests, and every route and     *)
(* setting for one request at a time.                                      *)
(***************************************************************************)
EXTENDS Gateway, TLC

CONSTANTS h1, h2, u1, u2, s1, w1

VARIABLE part

Minimum  == <<1, 2, 0>>
Older    == {<<1, 2>>, <<2>>, <<1, 2, 0>>}
AnyRoute == {"bootstrap", "login", "logout", "users", "list_users", "audit_log",
             "read", "write", "compute"}
DemoFiles == <<"host", "network", "repo">>

(* Of the six ingests of two loads at most two come to an error.            *)
Errors    == {p \in Loads \X Load!DemoNames : step[p[1]][p[2]] = "error"}
FewErrors == Cardinality(Errors) <= 2

Overlapping == INSTANCE Accounts WITH
    Roles <- {"auditor"},
    Routes <- {"bootstrap", "login", "logout", "users", "write", "audit_log"},
    Keys <- {FALSE}, DemoModes <- {FALSE}, MaxOpen <- 2, pc <- account_pc

Single == INSTANCE Accounts WITH Threads <- {h1}, MaxOpen <- 1, pc <- account_pc

(* Addresses of two bits, names of up to three labels.                      *)
Ip(b)   == [kind |-> "ip", path |-> b]
Dns(l)  == [kind |-> "dns", path |-> l]
Net(b)  == [kind |-> "net", path |-> b]
Wild(l) == [kind |-> "wild", path |-> l]
At(h)   == [host |-> h, port |-> "digits"]

SmallTargets == {At(Ip(<<1, 0>>)), At(Ip(<<1, 1>>)), At(Dns(<<"com", "a">>)),
                 At(Dns(<<"com", "a", "db">>)), [host |-> Dns(<<"com", "a">>), port |-> "text"]}

Wide   == [cidrs |-> {Net(<<1>>)}, domains |-> {Dns(<<"com", "a">>), Wild(<<"com", "a">>)},
           excluded |-> {}]
Narrow == [cidrs |-> {Net(<<1>>)}, domains |-> {Wild(<<"com", "a">>)},
           excluded |-> {Ip(<<1, 1>>)}]
Below  == [cidrs |-> {}, domains |-> {Dns(<<"com", "a">>)}, excluded |-> {Wild(<<"com", "a">>)}]

SmallScopes == {Wide, Narrow, Below}

ASSUME GatewayAssumption

-----------------------------------------------------------------------------
SmallInit ==
    /\ part \in {"enrollment", "accounts", "settings", "scopes", "demo"}
    /\ Init /\ ScopeInit /\ Load!Init
    /\ IF part = "settings" THEN Acc!Init ELSE Overlapping!Init

SmallNext ==
    /\ UNCHANGED part
    /\ \/ /\ part = "enrollment" /\ Next
          /\ UNCHANGED <<accountVars, scopeVars, loadVars>>
       \/ /\ \/ part = "accounts" /\ Overlapping!Next
             \/ part = "settings" /\ Single!Next
          /\ UNCHANGED <<vars, scopeVars, loadVars>>
       \/ /\ part = "scopes" /\ ScopeNext
          /\ UNCHANGED <<vars, accountVars, loadVars>>
       \/ /\ part = "demo" /\ Load!Next /\ FewErrors'
          /\ UNCHANGED <<vars, accountVars, scopeVars>>

SmallSpec == SmallInit /\ [][SmallNext]_<<part, gatewayVars>>

Symmetry == Permutations({h1, h2}) \union Permutations({u1, u2})
=============================================================================
