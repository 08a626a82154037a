------------------------------- MODULE Gateway -------------------------------
(***************************************************************************)
(* The api-gateway: enrollment, accounts, scan scopes and the demo load.   *)
(* Each has tables and requests of its own, so the gateway is the four of  *)
(* them side by side, and says of each what its callers rely on.           *)
(*                                                                         *)
(* Accounts and the demo load are instances, of the modules that also hold *)
(* their theorems.                                                         *)
(***************************************************************************)
EXTENDS Enrollment, ScanScope

CONSTANTS UserNames, Sessions, Roles, Routes, Keys, DemoModes,
          AccOpen,      \* bound: account requests handled at the same time
          Loads, Demo, Faults,
          LoadOpen      \* bound: demo loads handled at the same time

VARIABLES key_set, demo, role, user_of, state, account_pc, route, cookie, with_key,
          name, passed, arrived, left, boots, raced, answer
VARIABLES assets, scans, scored, workspaces, snapshot, load_pc, known, at, request, step,
          audit, disturbed

accountVars == <<key_set, demo, role, user_of, state, account_pc, route, cookie, with_key,
                 name, passed, arrived, left, boots, raced, answer>>
loadVars    == <<assets, scans, scored, workspaces, snapshot, load_pc, known, at, request,
                 step, audit, disturbed>>

Acc  == INSTANCE Accounts_proofs WITH MaxOpen <- AccOpen, pc <- account_pc
Load == INSTANCE DemoLoad_proofs WITH MaxOpen <- LoadOpen, pc <- load_pc

GatewayAssumption ==
    /\ Acc!RoutesAssumption /\ Acc!NoneAssumption /\ Acc!ModesAssumption
    /\ ScopeAssumption
    /\ Load!DemoAssumption

GatewayInit == Init /\ Acc!Init /\ ScopeInit /\ Load!Init

GatewayNext ==
    \/ Next       /\ UNCHANGED <<accountVars, scopeVars, loadVars>>
    \/ Acc!Next   /\ UNCHANGED <<vars, scopeVars, loadVars>>
    \/ ScopeNext /\ UNCHANGED <<vars, accountVars, loadVars>>
    \/ Load!Next  /\ UNCHANGED <<vars, accountVars, scopeVars>>

gatewayVars == <<vars, accountVars, scopeVars, loadVars>>

GatewaySpec == GatewayInit /\ [][GatewayNext]_gatewayVars

-----------------------------------------------------------------------------
(* auth.py: who is in a route got there with a role of it, no session that  *)
(* was logged out lets anybody in, and no request is in a route without the *)
(* key; from the invariant that makes them inductive.  Bootstraps that do   *)
(* not race create one admin.                                               *)
RequestsAreChecked == Acc!IInv /\ Acc!OneBootstrap

(* auth.py: of two creations of one name the first stays, with its role; in *)
(* demo mode users and sessions stay as they are.                           *)
AccountsAreKept == Acc!UsersAreKept /\ Acc!DemoKeepsAccounts

(* scan_scopes.py: what is passed on was in scope, and what is refused was  *)
(* out of scope, at some time while it was checked; from the invariant that *)
(* makes this inductive.                                                    *)
ScopesDecide == ScopeInv

(* demo_load: an audited success has loaded every demo asset, a failure of  *)
(* one step does not hide the others, a click that skips everything leaves  *)
(* no workspace behind, and a click saves a payload at most once.  Loads    *)
(* that do not overlap save it once and score it, however many they are.    *)
LoadsAreHonest ==
    /\ Load!IInv /\ Load!EveryStepIsRecorded /\ Load!NoIdleWorkspace
    /\ Load!ScansAreCounted /\ Load!OneScanPerLoad
    /\ Load!Undisturbed /\ Load!LoadsOnce /\ Load!SuccessIsScored
=============================================================================
