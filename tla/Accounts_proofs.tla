--------------------------- MODULE Accounts_proofs ---------------------------
(***************************************************************************)
(* What holds of users, sessions and the middlewares of the api-gateway    *)
(* for any number of users, sessions and overlapping requests.             *)
(*                                                                         *)
(* The middlewares read the role, the session and the mode before the      *)
(* route runs.  The inductive invariant IInv of Accounts.tla says which of *)
(* that cannot become false meanwhile: users are never removed, a session  *)
(* that was deleted stays deleted, and the process restarts only between   *)
(* requests.                                                               *)
(***************************************************************************)
EXTENDS Accounts, TLAPS

(* Whoever was in a route before the step and keeps the request as it was,  *)
(* in the same mode, is still checked.                                      *)
LEMMA CheckedStays ==
    ASSUME NEW g \in Threads, Checked(g), UNCHANGED config,
           route'[g] = route[g], cookie'[g] = cookie[g], with_key'[g] = with_key[g],
           passed'[g] = passed[g], arrived'[g] = arrived[g]
    PROVE  Checked(g)'
BY DEF Checked, config, DemoAllows, IsRead, Public, May

(* The two halves of TypeOK: the requests under way, and all else.          *)
RequestsOK == /\ pc \in [Threads -> {"idle", "gate", "route", "insert", "session"}]
              /\ route \in [Threads -> AllRoutes \union {None}]
              /\ cookie \in [Threads -> Sessions \union {None}]
              /\ with_key \in [Threads -> BOOLEAN]
              /\ name \in [Threads -> UserNames \union {None}]
              /\ passed \in [Threads -> Roles \union {"admin", "anyone", None}]
              /\ arrived \in [Threads -> BOOLEAN \X SUBSET Sessions]
              /\ answer \in [Threads -> {0, 200, 401, 403, 409, 500}]
RowsOK == /\ role \in [UserNames -> Roles \union {"admin", None}]
          /\ user_of \in [Sessions -> UserNames \union {None}]
          /\ state \in [Sessions -> {"unused", "valid", "expired", "deleted"}]
          /\ \A s \in Sessions : state[s] # "unused" => user_of[s] \in Users
ModesOK == /\ key_set \in BOOLEAN /\ demo \in BOOLEAN
           /\ left \subseteq Sessions /\ boots \subseteq UserNames /\ raced \in BOOLEAN

LEMMA AnswerIsTyped ==
    ASSUME TypeOK, NEW h \in Threads, NEW code \in {0, 200, 401, 403, 409, 500}, Answer(h, code)
    PROVE  RequestsOK'
<1>1. pc' \in [Threads -> {"idle", "gate", "route", "insert", "session"}]
  <2>1. pc' = [pc EXCEPT ![h] = "idle"] /\ pc \in [Threads -> {"idle", "gate", "route", "insert", "session"}]
    BY DEF Answer, Goto, TypeOK
  <2> QED
    BY <2>1
<1>2. route' \in [Threads -> AllRoutes \union {None}] /\ cookie' \in [Threads -> Sessions \union {None}]
  <2>1. /\ route' = [route EXCEPT ![h] = None] /\ route \in [Threads -> AllRoutes \union {None}]
        /\ cookie' = [cookie EXCEPT ![h] = None] /\ cookie \in [Threads -> Sessions \union {None}]
    BY DEF Answer, TypeOK
  <2> QED
    BY <2>1
<1>3. with_key' \in [Threads -> BOOLEAN] /\ arrived' \in [Threads -> BOOLEAN \X SUBSET Sessions]
  <2>1. /\ with_key' = [with_key EXCEPT ![h] = FALSE] /\ with_key \in [Threads -> BOOLEAN]
        /\ arrived' = [arrived EXCEPT ![h] = <<FALSE, {}>>]
        /\ arrived \in [Threads -> BOOLEAN \X SUBSET Sessions]
    BY DEF Answer, TypeOK
  <2>2. with_key' \in [Threads -> BOOLEAN]
    BY <2>1
  <2> QED
    BY <2>1, <2>2
<1>4. /\ name' \in [Threads -> UserNames \union {None}]
      /\ passed' \in [Threads -> Roles \union {"admin", "anyone", None}]
  <2>1. /\ name' = [name EXCEPT ![h] = None] /\ name \in [Threads -> UserNames \union {None}]
        /\ passed' = [passed EXCEPT ![h] = None]
        /\ passed \in [Threads -> Roles \union {"admin", "anyone", None}]
    BY DEF Answer, TypeOK
  <2> QED
    BY <2>1
<1>5. answer' \in [Threads -> {0, 200, 401, 403, 409, 500}]
  <2>1. answer' = [answer EXCEPT ![h] = code] /\ answer \in [Threads -> {0, 200, 401, 403, 409, 500}]
    BY DEF Answer, TypeOK
  <2> QED
    BY <2>1
<1> QED
    BY <1>1, <1>2, <1>3, <1>4, <1>5 DEF RequestsOK

(* A request that ends changes no row.                                      *)
LEMMA AnswerKeeps ==
    ASSUME NoneAssumption, IInv, NEW h \in Threads, NEW code \in {0, 200, 401, 403, 409, 500},
           Answer(h, code), UNCHANGED <<config, tables, history>>
    PROVE  IInv'
<1>0. TypeOK /\ RequestArgs /\ LeftAreDeleted /\ \A g \in Threads : InRoute(g) => Checked(g)
    BY DEF IInv
<1>1. TypeOK'
  <2>1. ModesOK'
    BY <1>0 DEF TypeOK, ModesOK, config, history
  <2>2. RowsOK'
    BY <1>0 DEF TypeOK, RowsOK, Users, tables
  <2>3. RequestsOK'
    BY <1>0, AnswerIsTyped
  <2> QED
    BY <2>1, <2>2, <2>3 DEF TypeOK, RequestsOK, RowsOK, ModesOK
<1>2. RequestArgs'
    BY <1>0 DEF Answer, Goto, RequestArgs, TypeOK, tables, history, Users
<1>3. LeftAreDeleted'
    BY <1>0 DEF LeftAreDeleted, tables, history
<1>4. ASSUME NEW g \in Threads, InRoute(g)' PROVE Checked(g)'
  <2>1. g # h /\ InRoute(g)
    BY <1>0, <1>4 DEF Answer, Goto, TypeOK, InRoute
  <2>2. /\ route'[g] = route[g] /\ cookie'[g] = cookie[g] /\ with_key'[g] = with_key[g]
        /\ passed'[g] = passed[g] /\ arrived'[g] = arrived[g]
    BY <1>0, <2>1 DEF Answer, TypeOK
  <2> QED
    BY <1>0, <2>1, <2>2, CheckedStays
<1> QED
    BY <1>1, <1>2, <1>3, <1>4 DEF IInv

(* A request goes on to its next transaction with what it has.              *)
LEMMA GoOnKeeps ==
    ASSUME NoneAssumption, IInv, NEW h \in Threads, NEW p \in {"insert", "session"}, Goto(h, p),
           pc[h] = "route",
           p = "insert"  => route[h] \in {"bootstrap", "users"},
           p = "session" => route[h] = "login" /\ name[h] \in Users,
           raced' \in BOOLEAN,
           UNCHANGED <<config, tables, request, left, boots, answer>>
    PROVE  IInv'
<1>0. TypeOK /\ RequestArgs /\ LeftAreDeleted /\ \A g \in Threads : InRoute(g) => Checked(g)
    BY DEF IInv
<1>1. TypeOK'
    BY <1>0 DEF Goto, TypeOK, config, tables, request, Users
<1>2. RequestArgs'
    BY <1>0 DEF Goto, RequestArgs, TypeOK, tables, request, Users
<1>3. LeftAreDeleted'
    BY <1>0 DEF LeftAreDeleted, tables
<1>4. ASSUME NEW g \in Threads, InRoute(g)' PROVE Checked(g)'
  <2>1. InRoute(g)
    BY <1>0, <1>4 DEF Goto, TypeOK, InRoute
  <2>2. /\ route'[g] = route[g] /\ cookie'[g] = cookie[g] /\ with_key'[g] = with_key[g]
        /\ passed'[g] = passed[g] /\ arrived'[g] = arrived[g]
    BY DEF request
  <2> QED
    BY <1>0, <2>1, <2>2, CheckedStays
<1> QED
    BY <1>1, <1>2, <1>3, <1>4 DEF IInv

LEMMA ArriveKeeps ==
    ASSUME NoneAssumption, IInv, NEW h \in Threads, Arrive(h), Routes \subseteq AllRoutes
    PROVE  IInv'
<1>0. TypeOK /\ RequestArgs /\ LeftAreDeleted /\ \A g \in Threads : InRoute(g) => Checked(g)
    BY DEF IInv
<1>1. PICK r \in Routes, s \in {t \in Sessions : state[t] # "unused"} \union {None},
           k \in {FALSE, key_set}, u \in UserNames :
        /\ route' = [route EXCEPT ![h] = r] /\ cookie' = [cookie EXCEPT ![h] = s]
        /\ with_key' = [with_key EXCEPT ![h] = k] /\ name' = [name EXCEPT ![h] = u]
    BY DEF Arrive
<1>2. /\ arrived' = [arrived EXCEPT ![h] = <<Users # {}, left>>]
      /\ pc' = [pc EXCEPT ![h] = "gate"]
      /\ answer' = [answer EXCEPT ![h] = 0]
      /\ UNCHANGED <<config, tables, passed, history>>
    BY DEF Arrive, Goto
<1>3. TypeOK'
  <2>1. arrived' \in [Threads -> BOOLEAN \X SUBSET Sessions]
    BY <1>0, <1>2 DEF TypeOK
  <2>2. with_key' \in [Threads -> BOOLEAN]
    BY <1>0, <1>1 DEF TypeOK
  <2>3. /\ route' \in [Threads -> AllRoutes \union {None}]
        /\ cookie' \in [Threads -> Sessions \union {None}]
        /\ name' \in [Threads -> UserNames \union {None}]
    BY <1>0, <1>1 DEF TypeOK
  <2>4. pc' \in [Threads -> {"idle", "gate", "route", "insert", "session"}]
    BY <1>0, <1>2 DEF TypeOK
  <2>5. answer' \in [Threads -> {0, 200, 401, 403, 409, 500}]
    BY <1>0, <1>2 DEF TypeOK
  <2> QED
    BY <1>0, <1>2, <2>1, <2>2, <2>3, <2>4, <2>5 DEF TypeOK, config, tables, history, Users
<1>4. RequestArgs'
  <2>1. ASSUME NEW g \in Threads
        PROVE  /\ cookie'[g] # None => state[cookie'[g]] # "unused"
               /\ arrived'[g][1] => Users # {}
               /\ arrived'[g][2] \subseteq left
    BY <1>0, <1>1, <1>2 DEF RequestArgs, TypeOK
  <2>2. ASSUME NEW g \in Threads
        PROVE  /\ pc'[g] # "idle" => name'[g] \in UserNames
               /\ pc'[g] = "insert" => route'[g] \in {"bootstrap", "users"}
               /\ pc'[g] = "session" => route'[g] = "login" /\ name'[g] \in Users
    BY <1>0, <1>1, <1>2 DEF RequestArgs, TypeOK
  <2> QED
    BY <1>2, <2>1, <2>2 DEF RequestArgs, tables, history, Users
<1>5. LeftAreDeleted'
    BY <1>0, <1>2 DEF LeftAreDeleted, tables, history
<1>6. ASSUME NEW g \in Threads, InRoute(g)' PROVE Checked(g)'
  <2>1. g # h /\ InRoute(g)
    BY <1>0, <1>2, <1>6 DEF TypeOK, InRoute
  <2>2. /\ route'[g] = route[g] /\ cookie'[g] = cookie[g] /\ with_key'[g] = with_key[g]
        /\ passed'[g] = passed[g] /\ arrived'[g] = arrived[g]
    BY <1>0, <1>1, <1>2, <2>1 DEF TypeOK
  <2> QED
    BY <1>0, <1>2, <2>1, <2>2, CheckedStays
<1> QED
    BY <1>3, <1>4, <1>5, <1>6 DEF IInv

(* The decision: a session whose logout was answered has no role, and once  *)
(* there are users nobody is exempt without the key but on public routes.   *)
LEMMA GateKeeps ==
    ASSUME NoneAssumption, IInv, NEW h \in Threads, Gate(h)
    PROVE  IInv'
<1>0. TypeOK /\ RequestArgs /\ LeftAreDeleted /\ \A g \in Threads : InRoute(g) => Checked(g)
    BY DEF IInv
<1> DEFINE x == RoleOf(cookie[h])
<1>1. CASE \E code \in {401, 403} : Answer(h, code)
    BY <1>1, AnswerKeeps DEF Gate
<1>2. CASE ~\E code \in {401, 403} : Answer(h, code)
  <2>1. /\ Exempt(h) \/ (x # None /\ May(route[h], x))
        /\ demo => DemoAllows(route[h])
        /\ KeyFits(h)
        /\ passed' = [passed EXCEPT ![h] = IF Exempt(h) THEN "anyone" ELSE x]
        /\ pc' = [pc EXCEPT ![h] = "route"]
        /\ UNCHANGED <<route, cookie, with_key, name, arrived, answer, config, tables, history>>
    BY <1>2 DEF Gate, Goto
  <2>2. x # None => x \in Roles \union {"admin"} /\ cookie[h] # None /\ state[cookie[h]] = "valid"
  <3> SUFFICES ASSUME x # None PROVE x \in Roles \union {"admin"} /\ cookie[h] # None /\ state[cookie[h]] = "valid"
    OBVIOUS
  <3>1. cookie[h] # None /\ state[cookie[h]] = "valid" /\ x = role[user_of[cookie[h]]]
    BY DEF RoleOf
  <3>2. user_of[cookie[h]] \in Users
    BY <1>0, <3>1 DEF TypeOK
  <3> QED
    BY <1>0, <3>1, <3>2 DEF TypeOK, Users
  <2>3. TypeOK'
    <3>1. passed' \in [Threads -> Roles \union {"admin", "anyone", None}]
      BY <1>0, <2>1, <2>2 DEF TypeOK
    <3>2. pc' \in [Threads -> {"idle", "gate", "route", "insert", "session"}]
      BY <1>0, <2>1 DEF TypeOK
    <3> QED
      BY <1>0, <2>1, <3>1, <3>2 DEF TypeOK, config, tables, history, Users
  <2>4. RequestArgs'
    BY <1>0, <2>1 DEF Gate, RequestArgs, TypeOK, tables, history, Users
  <2>5. LeftAreDeleted'
    BY <1>0, <2>1 DEF LeftAreDeleted, tables, history
  <2>6. Checked(h)'
    <3>1. passed'[h] = IF Exempt(h) THEN "anyone" ELSE x
      BY <1>0, <2>1 DEF TypeOK
    <3>2. arrived[h][1] /\ route[h] \notin Public /\ ~key_set => ~Exempt(h)
      BY <1>0 DEF Exempt, RequestArgs
    <3>3. cookie[h] \in arrived[h][2] => passed'[h] = "anyone"
      BY <1>0, <2>1, <2>2, <3>1 DEF RequestArgs, LeftAreDeleted
    <3>4. key_set => with_key[h]
      BY <2>1 DEF KeyFits
    <3> QED
      BY <2>1, <2>2, <3>1, <3>2, <3>3, <3>4 DEF Checked, config, Public, May, DemoAllows, IsRead
  <2>7. ASSUME NEW g \in Threads, InRoute(g)' PROVE Checked(g)'
    <3>1. CASE g = h
      BY <2>6, <3>1
    <3>2. CASE g # h
      <4>1. InRoute(g) /\ passed'[g] = passed[g]
        BY <1>0, <2>1, <2>7, <3>2 DEF TypeOK, InRoute
      <4> QED
        BY <1>0, <2>1, <4>1, CheckedStays
    <3> QED
      BY <3>1, <3>2
  <2> QED
    BY <2>3, <2>4, <2>5, <2>7 DEF IInv
<1> QED
    BY <1>1, <1>2

LEMMA BootstrapCountKeeps ==
    ASSUME NoneAssumption, IInv, NEW h \in Threads, BootstrapCount(h)
    PROVE  IInv'
<1>1. raced' \in BOOLEAN
    BY DEF BootstrapCount, IInv, TypeOK
<1> QED
    BY <1>1, AnswerKeeps, GoOnKeeps DEF BootstrapCount, On, history

LEMMA NameCheckKeeps ==
    ASSUME NoneAssumption, IInv, NEW h \in Threads, NameCheck(h)
    PROVE  IInv'
BY AnswerKeeps, GoOnKeeps DEF NameCheck, On, history, IInv, TypeOK

LEMMA VerifyKeeps ==
    ASSUME NoneAssumption, IInv, NEW h \in Threads, Verify(h)
    PROVE  IInv'
BY AnswerKeeps, GoOnKeeps DEF Verify, On, Known, history, IInv, TypeOK

(* A new row: nobody loses theirs.                                          *)
LEMMA InsertKeeps ==
    ASSUME NoneAssumption, IInv, NEW h \in Threads, Insert(h)
    PROVE  IInv'
<1>0. TypeOK /\ RequestArgs /\ LeftAreDeleted /\ \A g \in Threads : InRoute(g) => Checked(g)
    BY DEF IInv
<1>1. CASE ~Unique(name[h])
    BY <1>1, AnswerKeeps DEF Insert, tables, history
<1>2. CASE Unique(name[h])
  <2>1. name[h] \in UserNames /\ name[h] \notin Users
    BY <1>0, <1>2 DEF Insert, RequestArgs, Unique
  <2>2. PICK r \in Roles \union {"admin"} : role' = [role EXCEPT ![name[h]] = r]
    BY <1>2 DEF Insert
  <2>3. Answer(h, 200) /\ UNCHANGED <<config, user_of, state, left, raced>> /\ boots' \in {boots, boots \union {name[h]}}
    BY <1>2 DEF Insert
  <2>4. Users \subseteq Users'
    BY <1>0, <2>1, <2>2 DEF TypeOK, Users, NoneAssumption
  <2>5. TypeOK'
    <3>1. role' \in [UserNames -> Roles \union {"admin", None}] /\ boots' \subseteq UserNames
      BY <1>0, <2>1, <2>2, <2>3 DEF TypeOK
    <3>2. \A s \in Sessions : state'[s] # "unused" => user_of'[s] \in Users'
      BY <1>0, <2>3, <2>4 DEF TypeOK
    <3>3. RowsOK'
      BY <1>0, <2>3, <3>1, <3>2 DEF TypeOK, RowsOK
    <3>4. ModesOK'
      BY <1>0, <2>3, <3>1 DEF TypeOK, ModesOK, config
    <3>5. RequestsOK'
      BY <1>0, <2>3, AnswerIsTyped
    <3> QED
      BY <3>3, <3>4, <3>5 DEF TypeOK, RequestsOK, RowsOK, ModesOK
  <2>6. RequestArgs'
    BY <1>0, <2>3, <2>4 DEF RequestArgs, TypeOK, Answer, Goto
  <2>7. LeftAreDeleted'
    BY <1>0, <2>3 DEF LeftAreDeleted
  <2>8. ASSUME NEW g \in Threads, InRoute(g)' PROVE Checked(g)'
    <3>1. g # h /\ InRoute(g)
      BY <1>0, <2>3, <2>8 DEF Answer, Goto, TypeOK, InRoute
    <3>2. /\ route'[g] = route[g] /\ cookie'[g] = cookie[g] /\ with_key'[g] = with_key[g]
          /\ passed'[g] = passed[g] /\ arrived'[g] = arrived[g]
      BY <1>0, <2>3, <3>1 DEF Answer, TypeOK
    <3> QED
      BY <1>0, <2>3, <3>1, <3>2, CheckedStays
  <2> QED
    BY <2>5, <2>6, <2>7, <2>8 DEF IInv
<1> QED
    BY <1>1, <1>2

(* A session of an existing user, with a token nobody has yet.              *)
LEMMA CreateSessionKeeps ==
    ASSUME NoneAssumption, IInv, NEW h \in Threads, CreateSession(h)
    PROVE  IInv'
<1>0. TypeOK /\ RequestArgs /\ LeftAreDeleted /\ \A g \in Threads : InRoute(g) => Checked(g)
    BY DEF IInv
<1>1. PICK s \in Sessions : /\ state[s] = "unused"
                            /\ state' = [state EXCEPT ![s] = "valid"]
                            /\ user_of' = [user_of EXCEPT ![s] = name[h]]
    BY DEF CreateSession
<1>2. Answer(h, 200) /\ UNCHANGED <<config, role, history>> /\ name[h] \in Users /\ Users \subseteq UserNames
    BY <1>0 DEF CreateSession, RequestArgs, Users
<1>3. Users' = Users
    BY <1>2 DEF Users
<1>4. TypeOK'
  <2>1. /\ user_of' \in [Sessions -> UserNames \union {None}]
        /\ state' \in [Sessions -> {"unused", "valid", "expired", "deleted"}]
        /\ \A t \in Sessions : state'[t] # "unused" => user_of'[t] \in Users
    BY <1>0, <1>1, <1>2 DEF TypeOK
  <2>2. RowsOK'
    BY <1>0, <1>2, <1>3, <2>1 DEF TypeOK, RowsOK
  <2>3. ModesOK'
    BY <1>0, <1>2 DEF TypeOK, ModesOK, config, history
  <2>4. RequestsOK'
    BY <1>0, <1>2, AnswerIsTyped
  <2> QED
    BY <2>2, <2>3, <2>4 DEF TypeOK, RequestsOK, RowsOK, ModesOK
<1>5. RequestArgs'
    BY <1>0, <1>1, <1>2, <1>3 DEF RequestArgs, TypeOK, Answer, Goto, history
<1>6. LeftAreDeleted'
    BY <1>0, <1>1, <1>2 DEF LeftAreDeleted, TypeOK, history
<1>7. ASSUME NEW g \in Threads, InRoute(g)' PROVE Checked(g)'
  <2>1. g # h /\ InRoute(g)
    BY <1>0, <1>2, <1>7 DEF Answer, Goto, TypeOK, InRoute
  <2>2. /\ route'[g] = route[g] /\ cookie'[g] = cookie[g] /\ with_key'[g] = with_key[g]
        /\ passed'[g] = passed[g] /\ arrived'[g] = arrived[g]
    BY <1>0, <1>2, <2>1 DEF Answer, TypeOK
  <2> QED
    BY <1>0, <1>2, <2>1, <2>2, CheckedStays
<1> QED
    BY <1>4, <1>5, <1>6, <1>7 DEF IInv

(* What is deleted was given out, and is deleted for good.                  *)
LEMMA LogoutKeeps ==
    ASSUME NoneAssumption, IInv, NEW h \in Threads, Logout(h)
    PROVE  IInv'
<1>0. TypeOK /\ RequestArgs /\ LeftAreDeleted /\ \A g \in Threads : InRoute(g) => Checked(g)
    BY DEF IInv
<1>1. CASE cookie[h] = None
    BY <1>1, AnswerKeeps DEF Logout, tables, history
<1>2. CASE cookie[h] # None
  <2>1. /\ cookie[h] \in Sessions /\ state[cookie[h]] # "unused"
        /\ state' = [state EXCEPT ![cookie[h]] = "deleted"]
        /\ left' = left \union {cookie[h]}
        /\ Answer(h, 200) /\ UNCHANGED <<config, role, user_of, boots, raced>>
    BY <1>0, <1>2 DEF Logout, RequestArgs, TypeOK
  <2>2. Users' = Users
    BY <2>1 DEF Users
  <2>3. TypeOK'
    <3>1. /\ state' \in [Sessions -> {"unused", "valid", "expired", "deleted"}]
          /\ left' \subseteq Sessions
          /\ \A t \in Sessions : state'[t] # "unused" => user_of[t] \in Users
      BY <1>0, <2>1 DEF TypeOK
    <3>2. RowsOK'
      BY <1>0, <2>1, <2>2, <3>1 DEF TypeOK, RowsOK
    <3>3. ModesOK'
      BY <1>0, <2>1, <3>1 DEF TypeOK, ModesOK, config
    <3>4. RequestsOK'
      BY <1>0, <2>1, AnswerIsTyped
    <3> QED
      BY <3>2, <3>3, <3>4 DEF TypeOK, RequestsOK, RowsOK, ModesOK
  <2>4. RequestArgs'
    BY <1>0, <2>1, <2>2 DEF RequestArgs, TypeOK, Answer, Goto
  <2>5. LeftAreDeleted'
    BY <1>0, <2>1 DEF LeftAreDeleted, TypeOK
  <2>6. ASSUME NEW g \in Threads, InRoute(g)' PROVE Checked(g)'
    <3>1. g # h /\ InRoute(g)
      BY <1>0, <2>1, <2>6 DEF Answer, Goto, TypeOK, InRoute
    <3>2. /\ route'[g] = route[g] /\ cookie'[g] = cookie[g] /\ with_key'[g] = with_key[g]
          /\ passed'[g] = passed[g] /\ arrived'[g] = arrived[g]
      BY <1>0, <2>1, <3>1 DEF Answer, TypeOK
    <3> QED
      BY <1>0, <2>1, <3>1, <3>2, CheckedStays
  <2> QED
    BY <2>3, <2>4, <2>5, <2>6 DEF IInv
<1> QED
    BY <1>1, <1>2

LEMMA ExpireKeeps ==
    ASSUME NoneAssumption, IInv, Expire
    PROVE  IInv'
<1>0. TypeOK /\ RequestArgs /\ LeftAreDeleted /\ \A g \in Threads : InRoute(g) => Checked(g)
    BY DEF IInv
<1>1. PICK s \in Sessions : state[s] = "valid" /\ state' = [state EXCEPT ![s] = "expired"]
    BY DEF Expire
<1>2. UNCHANGED <<config, role, user_of, pc, request, history, answer>> /\ Users' = Users
    BY DEF Expire, Users
<1>3. TypeOK'
  <2>1. /\ state' \in [Sessions -> {"unused", "valid", "expired", "deleted"}]
        /\ \A t \in Sessions : state'[t] # "unused" => user_of[t] \in Users
    BY <1>0, <1>1 DEF TypeOK
  <2> QED
    BY <1>0, <1>2, <2>1 DEF TypeOK, config, request, history
<1>4. RequestArgs'
    BY <1>0, <1>1, <1>2 DEF RequestArgs, TypeOK, request, history
<1>5. LeftAreDeleted'
    BY <1>0, <1>1, <1>2 DEF LeftAreDeleted, TypeOK, history
<1>6. ASSUME NEW g \in Threads, InRoute(g)' PROVE Checked(g)'
    BY <1>0, <1>2, <1>6, CheckedStays DEF InRoute, request
<1> QED
    BY <1>3, <1>4, <1>5, <1>6 DEF IInv

(* No request is in a route when the mode changes.                          *)
LEMMA RestartKeeps ==
    ASSUME NoneAssumption, IInv, Restart, Keys \subseteq BOOLEAN, DemoModes \subseteq BOOLEAN
    PROVE  IInv'
<1>0. TypeOK /\ RequestArgs /\ LeftAreDeleted
    BY DEF IInv
<1>1. TypeOK'
    BY <1>0 DEF Restart, TypeOK, tables, request, history, Users
<1>2. RequestArgs'
    BY <1>0 DEF Restart, RequestArgs, tables, request, history, Users
<1>3. LeftAreDeleted'
    BY <1>0 DEF Restart, LeftAreDeleted, tables, history
<1>4. \A g \in Threads : ~InRoute(g)'
    BY DEF Restart, InRoute
<1> QED
    BY <1>1, <1>2, <1>3, <1>4 DEF IInv

LEMMA StepKeeps ==
    ASSUME RoutesAssumption, NoneAssumption, ModesAssumption, IInv, Next
    PROVE  IInv'
<1>1. CASE Expire \/ Restart
    BY <1>1, ExpireKeeps, RestartKeeps DEF ModesAssumption
<1>2. CASE \E h \in Threads : Handler(h)
  <2>1. PICK h \in Threads : Handler(h)
    BY <1>2
  <2>2. CASE Arrive(h) \/ Gate(h) \/ BootstrapCount(h) \/ NameCheck(h)
    BY <2>2, ArriveKeeps, GateKeeps, BootstrapCountKeeps, NameCheckKeeps DEF RoutesAssumption
  <2>3. CASE Insert(h) \/ Verify(h) \/ CreateSession(h) \/ Logout(h)
    BY <2>3, InsertKeeps, VerifyKeeps, CreateSessionKeeps, LogoutKeeps
  <2>4. CASE Serve(h) \/ Abort(h)
    BY <2>4, AnswerKeeps DEF Serve, Abort
  <2> QED
    BY <2>1, <2>2, <2>3, <2>4 DEF Handler
<1> QED
    BY <1>1, <1>2 DEF Next

LEMMA InitIsGood ==
    ASSUME NoneAssumption, ModesAssumption, Init
    PROVE  IInv
<1>1. TypeOK
    BY DEF Init, TypeOK, ModesAssumption
<1>2. RequestArgs /\ LeftAreDeleted
    BY DEF Init, RequestArgs, LeftAreDeleted
<1>3. \A g \in Threads : ~InRoute(g)
    BY DEF Init, InRoute
<1> QED
    BY <1>1, <1>2, <1>3 DEF IInv

(* The inductive invariant, for every value of the constants.               *)
THEOREM Inductive ==
    ASSUME RoutesAssumption, NoneAssumption, ModesAssumption
    PROVE  Spec => []IInv
<1>1. Init => IInv
    BY InitIsGood
<1>2. IInv /\ UNCHANGED vars => IInv'
    BY DEF IInv, TypeOK, RequestArgs, LeftAreDeleted, Checked, InRoute, Users, DemoAllows,
           IsRead, Public, May, vars, config, tables, request, history
<1>3. IInv /\ [Next]_vars => IInv'
    BY <1>2, StepKeeps
<1> QED
    BY <1>1, <1>3, PTL DEF Spec

(* README.md, RBAC v1: once there is a user, whoever is in a route got      *)
(* there with a role of that route, with the API key or on a public path.   *)
THEOREM RolesCount ==
    ASSUME RoutesAssumption, NoneAssumption, ModesAssumption
    PROVE  Spec => []RolesAreRespected
<1>1. IInv => RolesAreRespected
  <2> SUFFICES ASSUME IInv, NEW h \in Threads, InRoute(h), arrived[h][1],
                      route[h] \notin Public, ~key_set
               PROVE  CASE route[h] \in {"users", "list_users"} -> passed[h] = "admin"
                        [] route[h] = "audit_log"               -> passed[h] \in {"admin", "auditor"}
                        [] route[h] \in {"write", "compute"}    -> passed[h] \in {"admin", "security_architect"}
                        [] OTHER                                -> passed[h] \in Roles \union {"admin"}
    BY DEF RolesAreRespected
  <2>1. passed[h] \in Roles \union {"admin"} /\ May(route[h], passed[h])
    BY DEF IInv, Checked
  <2> QED
    BY <2>1 DEF May
<1> QED
    BY Inductive, <1>1, PTL

(* A session that was logged out lets nobody through, whatever overlaps.    *)
THEOREM LogoutIsFinal ==
    ASSUME RoutesAssumption, NoneAssumption, ModesAssumption
    PROVE  Spec => []LogoutHolds
<1>1. IInv => LogoutHolds
    BY DEF IInv, Checked, LogoutHolds
<1> QED
    BY Inductive, <1>1, PTL

(* With QRP_API_KEY set, no request is in a route without the key.          *)
THEOREM KeyIsNeeded ==
    ASSUME RoutesAssumption, NoneAssumption, ModesAssumption
    PROVE  Spec => []KeyIsAsked
<1>1. IInv => KeyIsAsked
    BY DEF IInv, Checked, KeyIsAsked
<1> QED
    BY Inductive, <1>1, PTL

(* The tables that a step may change, and how: only Insert writes roles,    *)
(* where there is none, and only CreateSession gives a session its user.    *)
LEMMA WhoWrites ==
    ASSUME IInv, Next
    PROVE  /\ \/ UNCHANGED role
              \/ \E h \in Threads : /\ pc[h] = "insert" /\ name[h] \notin Users
                                    /\ \E r : role' = [role EXCEPT ![name[h]] = r]
           /\ UNCHANGED user_of \/ \E h \in Threads : pc[h] = "session"
<1>1. CASE Expire \/ Restart
    BY <1>1 DEF Expire, Restart, tables
<1>2. CASE \E h \in Threads : Insert(h)
    BY <1>2 DEF Insert, Unique
<1>3. CASE \E h \in Threads : CreateSession(h)
    BY <1>3 DEF CreateSession
<1>4. CASE \E h \in Threads : Handler(h) /\ ~Insert(h) /\ ~CreateSession(h)
    BY <1>4 DEF Handler, Arrive, Gate, BootstrapCount, NameCheck, Verify, Logout, Serve,
                Abort, tables
<1> QED
    BY <1>1, <1>2, <1>3, <1>4 DEF Next

(* A request that ends is not about to insert.                              *)
LEMMA AnswerLeaves ==
    ASSUME TypeOK, NEW h \in Threads, NEW code, Answer(h, code),
           NEW g \in Threads, On(g, "bootstrap", "insert")'
    PROVE  g # h /\ On(g, "bootstrap", "insert")
BY DEF Answer, Goto, On, TypeOK

(* Nobody else comes to insert a first admin.                               *)
LEMMA BootstrapsUntouched ==
    ASSUME OneBootstrap, UNCHANGED <<role, boots, raced>>,
           \A g \in Threads : On(g, "bootstrap", "insert")' => On(g, "bootstrap", "insert")
    PROVE  OneBootstrap'
BY DEF OneBootstrap, Bootstraps, FirstAndAlone, Users

(* A bootstrap counts no users: none has inserted, and one that is about to *)
(* is a race.                                                               *)
LEMMA CountKeepsOne ==
    ASSUME IInv, OneBootstrap, NEW h \in Threads, BootstrapCount(h)
    PROVE  OneBootstrap'
<1>0. TypeOK
    BY DEF IInv
<1>1. CASE NoneYet(h)
  <2>1. /\ boots = {} /\ UNCHANGED <<role, boots, route>> /\ pc' = [pc EXCEPT ![h] = "insert"]
        /\ raced' = (raced \/ \E g \in Threads : On(g, "bootstrap", "insert"))
      BY <1>1 DEF BootstrapCount, NoneYet, OneBootstrap, tables, request, Goto
  <2>2. ASSUME ~raced', NEW g \in Threads, On(g, "bootstrap", "insert")' PROVE g = h
    <3>1. ~ On(g, "bootstrap", "insert")
        BY <2>1, <2>2
    <3> QED
        BY <1>0, <2>1, <2>2, <3>1 DEF On, TypeOK
  <2> QED
      BY <2>1, <2>2 DEF OneBootstrap, Bootstraps, FirstAndAlone
<1>2. CASE ~NoneYet(h)
    BY <1>0, <1>2, AnswerLeaves, BootstrapsUntouched DEF BootstrapCount, tables
<1> QED
    BY <1>1, <1>2

LEMMA InsertKeepsOne ==
    ASSUME NoneAssumption, IInv, OneBootstrap, NEW h \in Threads, Insert(h)
    PROVE  OneBootstrap'
<1>0. TypeOK /\ RequestArgs /\ pc[h] = "insert"
    BY DEF IInv, Insert
<1>1. \A g \in Threads : On(g, "bootstrap", "insert")' => g # h /\ On(g, "bootstrap", "insert")
    BY <1>0, AnswerLeaves DEF Insert
<1>2. CASE ~Unique(name[h])
    BY <1>1, <1>2, BootstrapsUntouched DEF Insert
<1>3. CASE Unique(name[h])
  <2>1. name[h] \in UserNames /\ name[h] \notin Users
      BY <1>0, <1>3 DEF RequestArgs, Unique
  <2>2. PICK r \in Roles \union {"admin"} : role' = [role EXCEPT ![name[h]] = r]
      BY <1>3 DEF Insert
  <2>3. Users' = Users \union {name[h]}
      BY <1>0, <2>1, <2>2 DEF TypeOK, Users, NoneAssumption
  <2>4. CASE route[h] = "bootstrap"
    <3>1. boots' = boots \union {name[h]} /\ raced' = raced /\ On(h, "bootstrap", "insert")
        BY <1>0, <1>3, <2>4 DEF Insert, On
    <3>2. ASSUME ~raced PROVE boots = {} /\ \A g \in Threads : ~On(g, "bootstrap", "insert")'
        BY <1>1, <3>1, <3>2 DEF OneBootstrap, FirstAndAlone
    <3>3. boots' \subseteq Users'
        BY <2>3, <3>1 DEF OneBootstrap
    <3>4. ASSUME ~raced' PROVE Bootstraps' /\ FirstAndAlone'
        BY <3>1, <3>2, <3>4 DEF Bootstraps, FirstAndAlone
    <3> QED
        BY <3>3, <3>4 DEF OneBootstrap
  <2>5. CASE route[h] # "bootstrap"
    <3>1. UNCHANGED <<boots, raced>>
        BY <1>3, <2>5 DEF Insert
    <3> QED
        BY <1>1, <2>3, <3>1 DEF OneBootstrap, Bootstraps, FirstAndAlone
  <2> QED
      BY <2>4, <2>5
<1> QED
    BY <1>2, <1>3

LEMMA StepKeepsOne ==
    ASSUME NoneAssumption, IInv, OneBootstrap, [Next]_vars
    PROVE  OneBootstrap'
<1>0. TypeOK
    BY DEF IInv
<1>1. CASE Expire \/ Restart \/ UNCHANGED vars
    BY <1>1, BootstrapsUntouched DEF Expire, Restart, vars, tables, request, history, On
<1>2. ASSUME NEW h \in Threads, Arrive(h) \/ Gate(h) \/ NameCheck(h) PROVE OneBootstrap'
  <2>1. UNCHANGED <<role, boots, raced>>
      BY <1>2 DEF Arrive, Gate, NameCheck, tables, history
  <2>2. ASSUME NEW g \in Threads, On(g, "bootstrap", "insert")' PROVE On(g, "bootstrap", "insert")
    <3>1. CASE Arrive(h)
        BY <1>0, <2>2, <3>1 DEF Arrive, Goto, On, TypeOK
    <3>2. CASE \E code : Answer(h, code)
        BY <1>0, <2>2, <3>2, AnswerLeaves
    <3>3. CASE Goto(h, "route") /\ UNCHANGED route
        BY <1>0, <2>2, <3>3 DEF Goto, On, TypeOK
    <3>4. CASE On(h, "users", "route") /\ Goto(h, "insert") /\ UNCHANGED request
        BY <1>0, <2>2, <3>4 DEF Goto, On, TypeOK, request
    <3> QED
        BY <1>2, <3>1, <3>2, <3>3, <3>4 DEF Gate, NameCheck
  <2> QED
      BY <2>1, <2>2, BootstrapsUntouched
<1>3. ASSUME NEW h \in Threads,
             Verify(h) \/ CreateSession(h) \/ Logout(h) \/ Serve(h) \/ Abort(h)
      PROVE  OneBootstrap'
  <2>1. UNCHANGED <<role, boots, raced>>
      BY <1>3 DEF Verify, CreateSession, Logout, Serve, Abort, tables, history
  <2>2. ASSUME NEW g \in Threads, On(g, "bootstrap", "insert")' PROVE On(g, "bootstrap", "insert")
    <3>1. CASE \E code : Answer(h, code)
        BY <1>0, <2>2, <3>1, AnswerLeaves
    <3>2. CASE Goto(h, "session") /\ UNCHANGED request
        BY <1>0, <2>2, <3>2 DEF Goto, On, TypeOK, request
    <3> QED
        BY <1>3, <3>1, <3>2 DEF Verify, CreateSession, Logout, Serve, Abort
  <2> QED
      BY <2>1, <2>2, BootstrapsUntouched
<1> QED
    BY <1>1, <1>2, <1>3, CountKeepsOne, InsertKeepsOne DEF Next, Handler

(* create_user, main.py:265-267: bootstrap creates one admin, unless two    *)
(* bootstraps count the users before either inserts.                        *)
THEOREM BootstrapCreatesOne ==
    ASSUME RoutesAssumption, NoneAssumption, ModesAssumption
    PROVE  Spec => []OneBootstrap
<1>1. Init => OneBootstrap
    BY DEF Init, OneBootstrap, Bootstraps, FirstAndAlone, On
<1>2. IInv /\ OneBootstrap /\ [Next]_vars => OneBootstrap'
    BY StepKeepsOne
<1> QED
    BY Inductive, <1>1, <1>2, PTL DEF Spec

(* users.username is UNIQUE: a user keeps the role of the first creation.   *)
THEOREM FirstCreationStays ==
    ASSUME RoutesAssumption, NoneAssumption, ModesAssumption
    PROVE  Spec => UsersAreKept
<1>1. ASSUME IInv, Next, NEW u \in UserNames, role[u] # None
      PROVE  role'[u] = role[u]
    BY <1>1, WhoWrites DEF Users, IInv, TypeOK
<1>2. IInv /\ [Next]_vars => [\A u \in UserNames : role[u] # None => role'[u] = role[u]]_vars
    BY <1>1
<1> QED
    BY Inductive, <1>2, PTL DEF Spec, UsersAreKept

(* In demo mode the requests that are in their route are reads and          *)
(* computations, so no user and no session is created.                      *)
THEOREM DemoIsReadOnly ==
    ASSUME RoutesAssumption, NoneAssumption, ModesAssumption
    PROVE  Spec => DemoKeepsAccounts
<1>1. ASSUME IInv, Next, demo
      PROVE  role' = role /\ user_of' = user_of
  <2>1. ASSUME NEW h \in Threads, pc[h] \in {"insert", "session"}
        PROVE  FALSE
    <3>1. route[h] \in {"bootstrap", "users", "login"} /\ DemoAllows(route[h])
      BY <1>1, <2>1 DEF IInv, RequestArgs, InRoute, Checked
    <3> QED
      BY <3>1 DEF DemoAllows, IsRead
  <2> QED
    BY <1>1, <2>1, WhoWrites
<1>2. IInv /\ [Next]_vars => [demo => role' = role /\ user_of' = user_of]_vars
    BY <1>1
<1> QED
    BY Inductive, <1>2, PTL DEF Spec, DemoKeepsAccounts
=============================================================================
