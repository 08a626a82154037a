------------------------------ MODULE Accounts ------------------------------
(***************************************************************************)
(* Who gets through the api-gateway: users and sessions (auth.py) and the  *)
(* three middlewares of main.py that a request passes before its route --  *)
(* RBAC, then the demo-mode allowlist, then the API key.                   *)
(*                                                                         *)
(* A route stands for all that the middlewares treat alike.  A password is *)
(* known or not: hashing, and changing it, touches nothing else here.      *)
(***************************************************************************)
EXTENDS Integers, FiniteSets

CONSTANTS Threads,   \* request threads
          UserNames, \* usernames
          Sessions,  \* bound: session tokens ever handed out
          Roles,     \* the roles POST /api/users gives
          Routes,    \* bound: the routes clients call, of AllRoutes
          Keys,      \* values of "QRP_API_KEY is set"
          DemoModes, \* values of QRP_DEMO_MODE
          MaxOpen,   \* bound: requests handled at the same time
          None

AllRoutes == {"bootstrap", "login", "logout", "users", "list_users", "audit_log",
              "read", "write", "compute"}

RoutesAssumption == Routes \subseteq AllRoutes
ModesAssumption  == Keys \subseteq BOOLEAN /\ DemoModes \subseteq BOOLEAN
NoneAssumption   == None \notin UserNames \union Sessions \union Roles \union {"admin"}

VARIABLES key_set,    \* QRP_API_KEY is set
          demo,       \* QRP_DEMO_MODE
          role,       \* role[u]: role of the row of u; None: no row
          user_of,    \* user_of[s]: user_id of session s; None: no row
          state,      \* state[s]: "unused", "valid", "expired" or "deleted"
          pc,         \* pc[h]: what request thread h does next
          route,      \* route[h]
          cookie,     \* cookie[h]: the session its request carries
          with_key,   \* with_key[h]: whether it carries the API key
          name,       \* name[h]: the username it is about
          passed,     \* passed[h]: the role that RBAC let through
          arrived,    \* history: arrived[h]: <<users exist, logged out sessions>>
          left,       \* history: sessions whose logout was answered
          boots,      \* history: users created by bootstrap
          raced,      \* history: a bootstrap began to insert while another one was about to
          answer      \* answer[h]: status of the answer to its last request; 0: none yet

config  == <<key_set, demo>>
tables  == <<role, user_of, state>>
request == <<route, cookie, with_key, name, passed, arrived>>
history == <<left, boots, raced>>
vars    == <<config, tables, pc, request, history, answer>>

Users == {u \in UserNames : role[u] # None}

TypeOK == /\ key_set \in BOOLEAN /\ demo \in BOOLEAN
          /\ role \in [UserNames -> Roles \union {"admin", None}]
          /\ user_of \in [Sessions -> UserNames \union {None}]
          /\ state \in [Sessions -> {"unused", "valid", "expired", "deleted"}]
          /\ \A s \in Sessions : state[s] # "unused" => user_of[s] \in Users
          /\ pc \in [Threads -> {"idle", "gate", "route", "insert", "session"}]
          /\ route \in [Threads -> AllRoutes \union {None}]
          /\ cookie \in [Threads -> Sessions \union {None}]
          /\ with_key \in [Threads -> BOOLEAN]
          /\ name \in [Threads -> UserNames \union {None}]
          /\ passed \in [Threads -> Roles \union {"admin", "anyone", None}]
          /\ arrived \in [Threads -> BOOLEAN \X SUBSET Sessions]
          /\ left \subseteq Sessions /\ boots \subseteq UserNames /\ raced \in BOOLEAN
          /\ answer \in [Threads -> {0, 200, 401, 403, 409, 500}]

Init == /\ key_set \in Keys /\ demo \in DemoModes
        /\ role = [u \in UserNames |-> None]
        /\ user_of = [s \in Sessions |-> None]
        /\ state = [s \in Sessions |-> "unused"]
        /\ pc = [h \in Threads |-> "idle"]
        /\ route = [h \in Threads |-> None]
        /\ cookie = [h \in Threads |-> None]
        /\ with_key = [h \in Threads |-> FALSE]
        /\ name = [h \in Threads |-> None]
        /\ passed = [h \in Threads |-> None]
        /\ arrived = [h \in Threads |-> <<FALSE, {}>>]
        /\ left = {} /\ boots = {} /\ raced = FALSE
        /\ answer = [h \in Threads |-> 0]

Goto(h, p) == pc' = [pc EXCEPT ![h] = p]

Answer(h, code) == /\ Goto(h, "idle")
                   /\ answer' = [answer EXCEPT ![h] = code]
                   /\ route' = [route EXCEPT ![h] = None]
                   /\ cookie' = [cookie EXCEPT ![h] = None]
                   /\ with_key' = [with_key EXCEPT ![h] = FALSE]
                   /\ name' = [name EXCEPT ![h] = None]
                   /\ passed' = [passed EXCEPT ![h] = None]
                   /\ arrived' = [arrived EXCEPT ![h] = <<FALSE, {}>>]

(* get_session_user: the role behind a cookie, None if there is none.       *)
(* Faulty: deleted or expired rows count.                                   *)
RoleOfAnyRow(s) == IF s # None /\ user_of[s] # None THEN role[user_of[s]] ELSE None
RoleOf(s)       == IF s # None /\ state[s] = "valid" THEN role[user_of[s]] ELSE None

-----------------------------------------------------------------------------
(* The middlewares *)

Arrive(h) ==
    /\ pc[h] = "idle"
    /\ Cardinality({g \in Threads : pc[g] # "idle"}) < MaxOpen
    /\ \E r \in Routes : route' = [route EXCEPT ![h] = r]
    /\ \E s \in {t \in Sessions : state[t] # "unused"} \union {None} :
          cookie' = [cookie EXCEPT ![h] = s]
    /\ \E k \in {FALSE, key_set} : with_key' = [with_key EXCEPT ![h] = k]
    /\ \E u \in UserNames : name' = [name EXCEPT ![h] = u]
    /\ arrived' = [arrived EXCEPT ![h] = <<Users # {}, left>>]
    /\ answer' = [answer EXCEPT ![h] = 0]
    /\ Goto(h, "gate")
    /\ UNCHANGED <<config, tables, passed, history>>

IsRead(r) == r \in {"list_users", "audit_log", "read"}

(* RBAC_PUBLIC_PATHS, ADMIN_ONLY_PREFIXES, AUDIT_LOG_PREFIXES,              *)
(* PRIVILEGED_WRITE_PREFIXES.                                               *)
Public == {"bootstrap", "login"}
May(r, x) ==
    /\ r \in {"users", "list_users"} => x = "admin"
    /\ r = "audit_log" => x \in {"admin", "auditor"}
    /\ r \in {"write", "compute"} => x \in {"admin", "security_architect"}

(* A public route, setup mode and the API key: RBAC does not apply.         *)
Exempt(h) == route[h] \in Public \/ Users = {} \/ (key_set /\ with_key[h])

(* enforce_demo_mode_allowlist: of what is not a GET, only the routes that  *)
(* persist nothing.                                                         *)
DemoAllows(r) == IsRead(r) \/ r = "compute"

(* require_api_key.                                                         *)
KeyFits(h) == key_set => with_key[h]

Gate(h) ==
    /\ pc[h] = "gate"
    /\ LET x == RoleOf(cookie[h])
           denied == IF Exempt(h) THEN 200
                     ELSE IF x = None THEN 401
                     ELSE IF ~May(route[h], x) THEN 403 ELSE 200
       IN IF denied # 200 THEN Answer(h, denied)
          ELSE IF demo /\ ~DemoAllows(route[h]) THEN Answer(h, 403)
          ELSE IF ~KeyFits(h) THEN Answer(h, 401)
          ELSE /\ passed' = [passed EXCEPT ![h] = IF Exempt(h) THEN "anyone" ELSE x]
               /\ Goto(h, "route")
               /\ UNCHANGED <<route, cookie, with_key, name, arrived, answer>>
    /\ UNCHANGED <<config, tables, history>>

-----------------------------------------------------------------------------
(* The routes *)

On(h, r, p) == pc[h] = p /\ route[h] = r

(* bootstrap_admin: count_users, then create_user.                          *)
NoneYet(h) == Users = {}

BootstrapCount(h) ==
    /\ On(h, "bootstrap", "route")
    /\ IF NoneYet(h)
       THEN /\ raced' = (raced \/ \E g \in Threads : On(g, "bootstrap", "insert"))
            /\ Goto(h, "insert") /\ UNCHANGED <<request, answer>>
       ELSE Answer(h, 409) /\ UNCHANGED raced
    /\ UNCHANGED <<config, tables, left, boots>>

(* create_user: get_user_by_username, then the same INSERT.                 *)
NameCheck(h) ==
    /\ On(h, "users", "route")
    /\ IF name[h] \notin Users THEN Goto(h, "insert") /\ UNCHANGED <<request, answer>>
                               ELSE Answer(h, 409)
    /\ UNCHANGED <<config, tables, history>>

(* INSERT INTO users; the loser of a race meets UNIQUE, as a 500.           *)
(* Faulty: no such constraint.                                              *)
Anything(u) == TRUE
Unique(u)   == u \notin Users

Insert(h) ==
    /\ pc[h] = "insert"
    /\ IF Unique(name[h])
       THEN /\ \E x \in IF route[h] = "bootstrap" THEN {"admin"} ELSE Roles :
                  role' = [role EXCEPT ![name[h]] = x]
            /\ boots' = IF route[h] = "bootstrap" THEN boots \union {name[h]} ELSE boots
            /\ Answer(h, 200)
       ELSE Answer(h, 500) /\ UNCHANGED <<role, boots>>
    /\ UNCHANGED <<config, user_of, state, left, raced>>

(* login: verify_credentials, then create_session.                          *)
Known(u) == u \in Users

Verify(h) ==
    /\ On(h, "login", "route")
    /\ \/ Answer(h, 401)
       \/ Known(name[h]) /\ Goto(h, "session") /\ UNCHANGED <<request, answer>>
    /\ UNCHANGED <<config, tables, history>>

CreateSession(h) ==
    /\ pc[h] = "session"
    /\ \E s \in Sessions : /\ state[s] = "unused"
                           /\ state' = [state EXCEPT ![s] = "valid"]
                           /\ user_of' = [user_of EXCEPT ![s] = name[h]]
    /\ Answer(h, 200)
    /\ UNCHANGED <<config, role, history>>

(* logout: delete_session of whatever the cookie holds.                     *)
Logout(h) ==
    /\ On(h, "logout", "route")
    /\ IF cookie[h] = None THEN UNCHANGED <<state, left>>
       ELSE /\ state' = [state EXCEPT ![cookie[h]] = "deleted"]
            /\ left' = left \union {cookie[h]}
    /\ Answer(h, 200)
    /\ UNCHANGED <<config, role, user_of, boots, raced>>

(* The routes that are proxied or only read.                                *)
Serve(h) ==
    /\ pc[h] = "route"
    /\ route[h] \in {"list_users", "audit_log", "read", "write", "compute"}
    /\ Answer(h, 200)
    /\ UNCHANGED <<config, tables, history>>

(* A transaction fails or the process dies.                                 *)
Abort(h) ==
    /\ pc[h] # "idle"
    /\ Answer(h, 500)
    /\ UNCHANGED <<config, tables, history>>

(* expires_at passes.                                                       *)
Expire ==
    /\ \E s \in Sessions : state[s] = "valid" /\ state' = [state EXCEPT ![s] = "expired"]
    /\ UNCHANGED <<config, role, user_of, pc, request, history, answer>>

(* The process starts again, perhaps in another mode; the tables stay.      *)
Restart ==
    /\ \A h \in Threads : pc[h] = "idle"
    /\ key_set' \in Keys /\ demo' \in DemoModes
    /\ UNCHANGED <<tables, pc, request, history, answer>>

-----------------------------------------------------------------------------
(* The specification *)

Handler(h) == \/ Arrive(h) \/ Gate(h) \/ BootstrapCount(h) \/ NameCheck(h) \/ Insert(h)
              \/ Verify(h) \/ CreateSession(h) \/ Logout(h) \/ Serve(h) \/ Abort(h)

Next == Expire \/ Restart \/ \E h \in Threads : Handler(h)

Spec == Init /\ [][Next]_vars

-----------------------------------------------------------------------------
(* Whatever overlaps *)

InRoute(h) == pc[h] \in {"route", "insert", "session"}

(* README.md "RBAC v1": once there is a user, a request that arrives gets   *)
(* to its route with the API key, on a public path, or with a role that the *)
(* route is for -- although the role was looked up before the route runs,   *)
(* and bootstrap may have been under way.                                   *)
RolesAreRespected ==
    \A h \in Threads : InRoute(h) /\ arrived[h][1] /\ route[h] \notin Public /\ ~key_set =>
        CASE route[h] \in {"users", "list_users"} -> passed[h] = "admin"
          [] route[h] = "audit_log"               -> passed[h] \in {"admin", "auditor"}
          [] route[h] \in {"write", "compute"}    -> passed[h] \in {"admin", "security_architect"}
          [] OTHER                                -> passed[h] \in Roles \union {"admin"}

(* logout: a request that arrives after it was answered is not let through  *)
(* on the session any more.                                                 *)
LogoutHolds ==
    \A h \in Threads : InRoute(h) /\ cookie[h] \in arrived[h][2] => passed[h] = "anyone"

(* QRP_API_KEY: when it is set, every request that reaches a route carries  *)
(* it, whatever session it has.                                             *)
KeyIsAsked == \A h \in Threads : InRoute(h) /\ key_set => with_key[h]

(* main.py:78-80, demo mode: visitors cannot "otherwise mutate persisted    *)
(* state"; here: users and sessions.                                        *)
DemoKeepsAccounts == [][demo => role' = role /\ user_of' = user_of]_vars

(* users.username is UNIQUE: of two overlapping creations of one name the   *)
(* first stays as it is, with its role, for ever.                           *)
UsersAreKept == [][\A u \in UserNames : role[u] # None => role'[u] = role[u]]_vars

(* The inductive invariant.  Of what a request read, these stay true: that  *)
(* there is a user, that a session was given out or logged out, and what    *)
(* the middlewares decided (the modes change between requests only).        *)
RequestArgs ==
    \A h \in Threads :
        /\ pc[h] # "idle" => name[h] \in UserNames
        /\ pc[h] = "insert" => route[h] \in {"bootstrap", "users"}
        /\ pc[h] = "session" => route[h] = "login" /\ name[h] \in Users
        /\ cookie[h] # None => state[cookie[h]] # "unused"
        /\ arrived[h][1] => Users # {}
        /\ arrived[h][2] \subseteq left
LeftAreDeleted == \A s \in left : state[s] = "deleted"
Checked(h) ==
    /\ demo => DemoAllows(route[h])
    /\ arrived[h][1] /\ route[h] \notin Public /\ ~key_set =>
          /\ passed[h] \in Roles \union {"admin"}
          /\ May(route[h], passed[h])
    /\ cookie[h] \in arrived[h][2] => passed[h] = "anyone"
    /\ key_set => with_key[h]
IInv == /\ TypeOK /\ RequestArgs /\ LeftAreDeleted
        /\ \A h \in Threads : InRoute(h) => Checked(h)

(* create_user, main.py:265-267: "bootstrap only ever creates one Admin",   *)
(* unless two bootstraps count the users before either inserts; since a     *)
(* bootstrap that is about to insert is then alone and the first.           *)
Bootstraps == \A u, v \in boots : u = v
FirstAndAlone ==
    \A h \in Threads : On(h, "bootstrap", "insert") =>
        /\ boots = {}
        /\ \A g \in Threads : On(g, "bootstrap", "insert") => g = h
OneBootstrap == /\ boots \subseteq Users
                /\ ~raced => Bootstraps /\ FirstAndAlone
=============================================================================
