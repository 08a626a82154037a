--------------------------- MODULE Gateway_proofs ---------------------------
(***************************************************************************)
(* What holds of the api-gateway, for any number of tokens, agents, users, *)
(* sessions, workspaces, demo assets and request threads, however their    *)
(* transactions interleave.                                                *)
(*                                                                         *)
(* Enrollment: by one inductive invariant, IInv.  What a request found of  *)
(* its token may be stale by the time it writes, but only in one way: the  *)
(* token may have been revoked since.  A revocation that was answered      *)
(* before the request came is in the table already, so the request cannot  *)
(* have passed verify_token with that token.                               *)
(*                                                                         *)
(* Scan scopes: the order in which check_target matches decides as the set *)
(* of approved hosts says, and a scan is passed on or refused for a scope  *)
(* that was in force while it was handled, whatever scopes are created     *)
(* meanwhile.                                                              *)
(*                                                                         *)
(* Accounts and the demo load have their theorems in modules of their own, *)
(* which the gateway instantiates.  What is left to prove of every part is *)
(* that a step of the gateway is a step of it or leaves it alone.          *)
(***************************************************************************)
EXTENDS Gateway, FiniteSets, TLAPS

(* A request that ends changes no row: whatever it was, the others keep     *)
(* what they know.                                                          *)
LEMMA AnswerKeeps ==
    ASSUME IInv, NEW h \in Threads, Answer(h), UNCHANGED <<clock, tables, acked>>
    PROVE  IInv'
<1>0. TypeOK /\ RequestArgs /\ AckedIsRevoked /\ RevocationHolds /\ RegisteredWithToken
    BY DEF IInv
<1>1. TypeOK'
    BY <1>0, ClockAssumption DEF Answer, TypeOK, Goto, tables, Times, NoAgent
<1>2. RequestArgs'
    BY <1>0 DEF Answer, RequestArgs, TypeOK, Goto, tables
<1>3. (AckedIsRevoked /\ RegisteredWithToken)'
    BY <1>0 DEF AckedIsRevoked, RegisteredWithToken, tables
<1>4. RevocationHolds'
    BY <1>0 DEF Answer, RevocationHolds, TypeOK, Goto
<1> QED
    BY <1>1, <1>2, <1>3, <1>4 DEF IInv

(* A new token has no revocation to forget.                                 *)
LEMMA CreateTokenKeeps ==
    ASSUME IInv, NEW t \in Tokens, CreateToken(t)
    PROVE  IInv'
<1>0. TypeOK /\ RequestArgs /\ AckedIsRevoked /\ RevocationHolds /\ RegisteredWithToken
    BY DEF IInv
<1>1. TypeOK'
    BY <1>0, ClockAssumption DEF CreateToken, TypeOK, Times, locals
<1>2. RequestArgs'
    BY <1>0, NoAgentAssumption DEF CreateToken, RequestArgs, TypeOK, Times, locals
<1>3. AckedIsRevoked' /\ RegisteredWithToken'
    BY <1>0 DEF CreateToken, AckedIsRevoked, RegisteredWithToken, TypeOK, Times, NoAgent
<1>4. RevocationHolds'
    BY <1>0 DEF CreateToken, RevocationHolds, locals
<1> QED
    BY <1>1, <1>2, <1>3, <1>4 DEF IInv

(* A request arrives and knows its token, and its agent or none.            *)
LEMMA RevokeKeeps ==
    ASSUME IInv, NEW h \in Threads, NEW t \in Tokens, Revoke(h, t)
    PROVE  IInv'
<1>0. TypeOK /\ RequestArgs /\ AckedIsRevoked /\ RevocationHolds /\ RegisteredWithToken
    BY DEF IInv
<1>1. TypeOK'
    BY <1>0 DEF Revoke, TypeOK, Goto, tables
<1>2. RequestArgs'
    BY <1>0 DEF Revoke, RequestArgs, TypeOK, Goto, tables
<1>3. (AckedIsRevoked /\ RegisteredWithToken)'
    BY <1>0 DEF Revoke, AckedIsRevoked, RegisteredWithToken, tables
<1>4. RevocationHolds'
    BY <1>0 DEF Revoke, RevocationHolds, TypeOK, Goto
<1> QED
    BY <1>1, <1>2, <1>3, <1>4 DEF IInv

LEMMA RegisterKeeps ==
    ASSUME IInv, NEW h \in Threads, NEW t \in Tokens, Register(h, t)
    PROVE  IInv'
<1>0. TypeOK /\ RequestArgs /\ AckedIsRevoked /\ RevocationHolds /\ RegisteredWithToken
    BY DEF IInv
<1>1. TypeOK'
    BY <1>0 DEF Register, Request, TypeOK, Goto, tables
<1>2. RequestArgs'
    BY <1>0 DEF Register, Request, RequestArgs, TypeOK, Goto, tables
<1>3. (AckedIsRevoked /\ RegisteredWithToken)'
    BY <1>0 DEF Register, Request, AckedIsRevoked, RegisteredWithToken, tables
<1>4. RevocationHolds'
    BY <1>0 DEF Register, Request, RevocationHolds, TypeOK, Goto
<1> QED
    BY <1>1, <1>2, <1>3, <1>4 DEF IInv

LEMMA HeartbeatKeeps ==
    ASSUME IInv, NEW h \in Threads, NEW t \in Tokens, NEW a \in Agents, Heartbeat(h, t, a)
    PROVE  IInv'
<1>0. TypeOK /\ RequestArgs /\ AckedIsRevoked /\ RevocationHolds /\ RegisteredWithToken
    BY DEF IInv
<1>1. TypeOK'
    BY <1>0 DEF Heartbeat, Request, TypeOK, Goto, tables
<1>2. RequestArgs'
    BY <1>0 DEF Heartbeat, Request, RequestArgs, TypeOK, Goto, tables
<1>3. (AckedIsRevoked /\ RegisteredWithToken)'
    BY <1>0 DEF Heartbeat, Request, AckedIsRevoked, RegisteredWithToken, tables
<1>4. RevocationHolds'
    BY <1>0 DEF Heartbeat, Request, RevocationHolds, TypeOK, Goto
<1> QED
    BY <1>1, <1>2, <1>3, <1>4 DEF IInv

(* A row is never cleared: what others found of a token, that it has a row  *)
(* or that it is revoked, stays true.                                       *)
LEMMA RevokeUpdateKeeps ==
    ASSUME IInv, NEW h \in Threads, RevokeUpdate(h)
    PROVE  IInv'
<1>0. TypeOK /\ RequestArgs /\ AckedIsRevoked /\ RevocationHolds /\ RegisteredWithToken
    BY DEF IInv
<1>1. clock \in 1 .. MaxClock /\ clock' = clock + 1 /\ token[h] \in Tokens
    BY <1>0, ClockAssumption DEF RevokeUpdate, Now, TypeOK, RequestArgs
<1>2. revoked_at[token[h]] # -1
    BY <1>0 DEF RevokeUpdate, RequestArgs
<1>3. /\ revoked_at' \in [Tokens -> Times]
      /\ \A t \in Tokens : /\ revoked_at[t] # -1 => revoked_at'[t] # -1
                           /\ revoked_at[t] > 0 => revoked_at'[t] > 0
      /\ revoked_at'[token[h]] > 0
    BY <1>0, <1>1, <1>2, ClockAssumption DEF RevokeUpdate, NotRevoked, TypeOK, Times
<1>4. TypeOK'
    BY <1>0, <1>1, <1>3, ClockAssumption DEF RevokeUpdate, TypeOK, Goto, locals
<1>5. RequestArgs'
    BY <1>0, <1>1, <1>3 DEF RevokeUpdate, RequestArgs, TypeOK, Goto, locals
<1>6. AckedIsRevoked' /\ RegisteredWithToken'
    BY <1>0, <1>3 DEF RevokeUpdate, AckedIsRevoked, RegisteredWithToken, TypeOK, NoAgent
<1>7. RevocationHolds'
    BY <1>0 DEF RevokeUpdate, RevocationHolds, TypeOK, Goto, locals
<1> QED
    BY <1>4, <1>5, <1>6, <1>7 DEF IInv

(* The revocation is answered after the row was written.                    *)
LEMMA RevokeAnswerKeeps ==
    ASSUME IInv, NEW h \in Threads, RevokeAnswer(h)
    PROVE  IInv'
<1>0. TypeOK /\ RequestArgs /\ AckedIsRevoked /\ RevocationHolds /\ RegisteredWithToken
    BY DEF IInv
<1>1. token[h] \in Tokens /\ revoked_at[token[h]] > 0
    BY <1>0 DEF RevokeAnswer, RequestArgs
<1>2. TypeOK'
    BY <1>0, <1>1, ClockAssumption DEF RevokeAnswer, Answer, TypeOK, Goto, tables, Times, NoAgent
<1>3. RequestArgs'
    BY <1>0 DEF RevokeAnswer, Answer, RequestArgs, TypeOK, Goto, tables
<1>4. AckedIsRevoked'
    BY <1>0, <1>1 DEF RevokeAnswer, AckedIsRevoked, tables
<1>5. RegisteredWithToken'
    BY <1>0 DEF RevokeAnswer, RegisteredWithToken, tables
<1>6. RevocationHolds'
    BY <1>0 DEF RevokeAnswer, Answer, RevocationHolds, TypeOK, Goto
<1> QED
    BY <1>2, <1>3, <1>4, <1>5, <1>6 DEF IInv

(* A token that verify_token accepts is not revoked, so no revocation of it *)
(* was answered when the request came.                                      *)
LEMMA VerifyKeeps ==
    ASSUME IInv, NEW h \in Threads, Verify(h)
    PROVE  IInv'
<1>0. TypeOK /\ RequestArgs /\ AckedIsRevoked /\ RevocationHolds /\ RegisteredWithToken
    BY DEF IInv
<1>1. CASE ~Verifies(token[h])
    BY <1>1, AnswerKeeps DEF Verify
<1>2. CASE Verifies(token[h])
  <2>1. pc' = [pc EXCEPT ![h] = IF pc[h] = "verify_register" THEN "register" ELSE "get"]
    BY <1>2 DEF Verify, Goto
  <2>2. token[h] \notin cut[h] /\ revoked_at[token[h]] # -1
    BY <1>0, <1>2 DEF Verifies, RequestArgs, AckedIsRevoked
  <2>3. TypeOK'
    BY <1>0, <1>2, <2>1 DEF Verify, TypeOK, tables, locals
  <2>4. RequestArgs'
    BY <1>0, <1>2, <2>1, <2>2 DEF Verify, RequestArgs, TypeOK, tables, locals
  <2>5. (AckedIsRevoked /\ RegisteredWithToken)'
    BY <1>0 DEF Verify, AckedIsRevoked, RegisteredWithToken, tables
  <2>6. RevocationHolds'
    BY <1>0, <1>2, <2>1, <2>2 DEF Verify, RevocationHolds, TypeOK, locals
  <2> QED
    BY <2>3, <2>4, <2>5, <2>6 DEF IInv
<1> QED
    BY <1>1, <1>2

(* The agent's row names the token that was verified.                       *)
LEMMA RegisterAgentKeeps ==
    ASSUME IInv, NEW h \in Threads, RegisterAgent(h)
    PROVE  IInv'
<1>0. TypeOK /\ RequestArgs /\ AckedIsRevoked /\ RevocationHolds /\ RegisteredWithToken
    BY DEF IInv
<1>1. clock \in 1 .. MaxClock /\ clock' = clock + 1
    BY <1>0, ClockAssumption DEF RegisterAgent, Now, TypeOK
<1>2. token[h] \in Tokens /\ revoked_at[token[h]] # -1
    BY <1>0 DEF RegisterAgent, RequestArgs
<1>3. PICK a \in Agents, v \in Versions :
          /\ token_of[a] = NoAgent
          /\ token_of' = [token_of EXCEPT ![a] = token[h]]
          /\ status' = [status EXCEPT ![a] = <<StatusOf(v), v>>]
          /\ last_seen' = [last_seen EXCEPT ![a] = clock]
          /\ agent' = [agent EXCEPT ![h] = a]
    BY DEF RegisterAgent
<1>4. token[h] # NoAgent
    BY <1>2, NoAgentAssumption DEF NoAgent
<1>5. TypeOK'
  <2>1. StatusOf(v) \in {"none", "active", "unsupported_version"}
    BY DEF StatusOf
  <2>2. <<StatusOf(v), v>> \in {"none", "active", "unsupported_version"} \X (Versions \union {<<>>})
    BY <2>1
  <2>3. status' \in [Agents -> {"none", "active", "unsupported_version"} \X (Versions \union {<<>>})]
    BY <1>0, <1>3, <2>2 DEF TypeOK
  <2>4. last_seen' \in [Agents -> Times]
    BY <1>0, <1>1, <1>3, ClockAssumption DEF TypeOK, Times
  <2>5. /\ token_of' \in [Agents -> Tokens \union {NoAgent}]
        /\ agent' \in [Threads -> Agents \union {NoAgent}]
    BY <1>0, <1>2, <1>3 DEF TypeOK
  <2>6. clock' \in 1 .. MaxClock + 1
    BY <1>1, ClockAssumption
  <2>7. pc' = [pc EXCEPT ![h] = "audit"] /\ UNCHANGED <<revoked_at, audited, token, stamp, cut, acked>>
    BY DEF RegisterAgent, Goto
  <2> QED
    BY <1>0, <2>3, <2>4, <2>5, <2>6, <2>7 DEF TypeOK
<1>6. RequestArgs'
    BY <1>0, <1>3, <1>4 DEF RegisterAgent, RequestArgs, TypeOK, Goto
<1>7. AckedIsRevoked' /\ RegisteredWithToken'
    BY <1>0, <1>2, <1>3, <1>4 DEF RegisterAgent, AckedIsRevoked, RegisteredWithToken, TypeOK
<1>8. RevocationHolds'
    BY <1>0 DEF RegisterAgent, RevocationHolds, TypeOK, Goto
<1> QED
    BY <1>5, <1>6, <1>7, <1>8 DEF IInv

(* The agent that is audited has its row.                                   *)
LEMMA AuditRegisterKeeps ==
    ASSUME IInv, NEW h \in Threads, AuditRegister(h)
    PROVE  IInv'
<1>0. TypeOK /\ RequestArgs /\ AckedIsRevoked /\ RevocationHolds /\ RegisteredWithToken
    BY DEF IInv
<1>1. agent[h] \in Agents /\ token_of[agent[h]] # NoAgent
    BY <1>0 DEF AuditRegister, RequestArgs
<1>2. TypeOK'
    BY <1>0, <1>1, ClockAssumption DEF AuditRegister, Answer, TypeOK, Goto, Times, NoAgent
<1>3. RequestArgs'
    BY <1>0 DEF AuditRegister, Answer, RequestArgs, TypeOK, Goto
<1>4. AckedIsRevoked' /\ RegisteredWithToken'
    BY <1>0, <1>1 DEF AuditRegister, AckedIsRevoked, RegisteredWithToken
<1>5. RevocationHolds'
    BY <1>0 DEF AuditRegister, Answer, RevocationHolds, TypeOK, Goto
<1> QED
    BY <1>2, <1>3, <1>4, <1>5 DEF IInv

LEMMA GetAgentKeeps ==
    ASSUME IInv, NEW h \in Threads, GetAgent(h)
    PROVE  IInv'
<1>0. TypeOK /\ RequestArgs /\ AckedIsRevoked /\ RevocationHolds /\ RegisteredWithToken
    BY DEF IInv
<1>1. CASE token_of[agent[h]] = NoAgent
    BY <1>1, AnswerKeeps DEF GetAgent
<1>2. CASE token_of[agent[h]] # NoAgent
  <2>1. clock \in 1 .. MaxClock /\ clock' = clock + 1
    BY <1>0, <1>2, ClockAssumption DEF GetAgent, Now, TypeOK
  <2>2. stamp' = [stamp EXCEPT ![h] = clock] /\ pc' = [pc EXCEPT ![h] = "touch"]
        /\ UNCHANGED <<token, agent, cut, tables, acked>>
    BY <1>2 DEF GetAgent, Goto
  <2>3. TypeOK'
    BY <1>0, <2>1, <2>2, ClockAssumption DEF TypeOK, tables, Times
  <2>4. RequestArgs'
    BY <1>0, <2>2 DEF GetAgent, RequestArgs, TypeOK, tables
  <2>5. (AckedIsRevoked /\ RegisteredWithToken)'
    BY <1>0, <2>2 DEF AckedIsRevoked, RegisteredWithToken, tables
  <2>6. RevocationHolds'
    BY <1>0, <2>2 DEF GetAgent, RevocationHolds, TypeOK
  <2> QED
    BY <2>3, <2>4, <2>5, <2>6 DEF IInv
<1> QED
    BY <1>1, <1>2

LEMMA TouchKeeps ==
    ASSUME IInv, NEW h \in Threads, Touch(h)
    PROVE  IInv'
<1>0. TypeOK /\ RequestArgs /\ AckedIsRevoked /\ RevocationHolds /\ RegisteredWithToken
    BY DEF IInv
<1>1. agent[h] \in Agents /\ stamp[h] \in Times
    BY <1>0 DEF Touch, RequestArgs, TypeOK
<1>2. TypeOK'
    BY <1>0, <1>1 DEF Touch, TypeOK, Goto, locals
<1>3. RequestArgs'
    BY <1>0 DEF Touch, RequestArgs, TypeOK, Goto, locals
<1>4. AckedIsRevoked' /\ RegisteredWithToken'
    BY <1>0 DEF Touch, AckedIsRevoked, RegisteredWithToken
<1>5. RevocationHolds'
    BY <1>0 DEF Touch, RevocationHolds, TypeOK, Goto, locals
<1> QED
    BY <1>2, <1>3, <1>4, <1>5 DEF IInv

(* One lemma per action makes a step.                                       *)
LEMMA StepKeeps ==
    ASSUME IInv, Next
    PROVE  IInv'
<1>1. CASE \E t \in Tokens : CreateToken(t)
    BY <1>1, CreateTokenKeeps
<1>2. CASE \E h \in Threads : Handler(h)
  <2>1. PICK h \in Threads : Handler(h)
    BY <1>2
  <2>2. CASE \E t \in Tokens : Revoke(h, t) \/ Register(h, t) \/ \E a \in Agents : Heartbeat(h, t, a)
    BY <2>2, RevokeKeeps, RegisterKeeps, HeartbeatKeeps
  <2>3. CASE RevokeUpdate(h) \/ RevokeAnswer(h) \/ Verify(h)
    BY <2>3, RevokeUpdateKeeps, RevokeAnswerKeeps, VerifyKeeps
  <2>4. CASE RegisterAgent(h) \/ AuditRegister(h) \/ GetAgent(h) \/ Touch(h)
    BY <2>4, RegisterAgentKeeps, AuditRegisterKeeps, GetAgentKeeps, TouchKeeps
  <2>5. CASE BeatAnswer(h) \/ Abort(h)
    BY <2>5, AnswerKeeps DEF BeatAnswer, Abort
  <2> QED
    BY <2>1, <2>2, <2>3, <2>4, <2>5 DEF Handler
<1> QED
    BY <1>1, <1>2 DEF Next

LEMMA InitIsGood == Init => IInv
<1> SUFFICES ASSUME Init PROVE IInv
    OBVIOUS
<1>1. TypeOK
    BY ClockAssumption DEF Init, TypeOK, Times, NoAgent
<1>2. RequestArgs /\ AckedIsRevoked /\ RevocationHolds /\ RegisteredWithToken
    BY DEF Init, RequestArgs, AckedIsRevoked, RevocationHolds, RegisteredWithToken
<1> QED
    BY <1>1, <1>2 DEF IInv

(* The inductive invariant, for every value of the constants.               *)
THEOREM Inductive == Spec => []IInv
<1>1. IInv /\ UNCHANGED vars => IInv'
    BY DEF IInv, TypeOK, RequestArgs, AckedIsRevoked, RevocationHolds,
           RegisteredWithToken, vars, tables, locals
<1>2. IInv /\ [Next]_vars => IInv'
    BY <1>1, StepKeeps
<1> QED
    BY InitIsGood, <1>2, PTL DEF Spec

(* Every row, argument and program counter keeps its type.                  *)
THEOREM TypeCorrect == Spec => []TypeOK
<1>1. IInv => TypeOK
    BY DEF IInv
<1> QED
    BY Inductive, <1>1, PTL

(* agents.py: no request that arrives after a revocation was answered is    *)
(* accepted with that token, for any number of requests under way.          *)
THEOREM RevokedIsCutOff == Spec => []RevocationHolds
<1>1. IInv => RevocationHolds
    BY DEF IInv
<1> QED
    BY Inductive, <1>1, PTL

(* Every agent's row names a token that exists, and every audited agent has *)
(* a row.                                                                   *)
THEOREM AgentsHaveTokens == Spec => []RegisteredWithToken
<1>1. IInv => RegisteredWithToken
    BY DEF IInv
<1> QED
    BY Inductive, <1>1, PTL

(* Only RevokeUpdate and CreateToken write revoked_at, the one where it is  *)
(* NULL and the other where there is no row: a time once written stays.     *)
THEOREM FirstRevocationStays == Spec => RevokedOnce
<1>1. ASSUME IInv, Next, NEW t \in Tokens, revoked_at[t] > 0
      PROVE  revoked_at'[t] = revoked_at[t]
  <2>1. CASE \E u \in Tokens : CreateToken(u)
    BY <1>1, <2>1 DEF CreateToken, IInv, TypeOK
  <2>2. CASE \E h \in Threads : RevokeUpdate(h)
    BY <1>1, <2>2 DEF RevokeUpdate, NotRevoked, IInv, TypeOK
  <2>3. CASE \E h \in Threads : Handler(h) /\ ~RevokeUpdate(h)
    BY <2>3 DEF Handler, Revoke, Register, Heartbeat, Request, RevokeAnswer, Verify,
                RegisterAgent, AuditRegister, GetAgent, Touch, BeatAnswer, Abort, tables
  <2> QED
    BY <1>1, <2>1, <2>2, <2>3 DEF Next
<1>2. IInv /\ [Next]_vars => [\A t \in Tokens : revoked_at[t] > 0 => revoked_at'[t] = revoked_at[t]]_vars
    BY <1>1
<1> QED
    BY Inductive, <1>2, PTL DEF Spec, RevokedOnce

-----------------------------------------------------------------------------
(* Scan scopes: check_target                                                *)

(* A path is a prefix if its labels, or bits, are the first of the other.   *)
LEMMA PrefixIsStart ==
    ASSUME NEW E, NEW p \in Seq(E), NEW q \in Seq(E)
    PROVE  /\ IsPrefix(p, q) <=> Len(p) <= Len(q) /\ SubSeq(q, 1, Len(p)) = p
           /\ IsStrictPrefix(p, q) <=> Len(p) < Len(q) /\ SubSeq(q, 1, Len(p)) = p
<1>1. SubSeq(p, 1, Len(p)) = p /\ SubSeq(q, 1, Len(q)) = q
    OBVIOUS
<1>2. IsPrefix(p, q) <=> Len(p) <= Len(q) /\ SubSeq(q, 1, Len(p)) = p
    BY <1>1 DEF IsPrefix
<1>3. Len(p) \in Nat /\ Len(q) \in Nat
    OBVIOUS
<1> QED
    BY <1>1, <1>2, <1>3 DEF IsStrictPrefix

LEMMA HostsHaveKinds ==
    ASSUME TargetsAssumption, NEW host \in Hosts
    PROVE  host.kind \in {"ip", "dns", "raw"} /\ (host.kind \in {"ip", "dns"} => IsPath(host))
BY DEF TargetsAssumption, Hosts, HostOf, IsPath

(* An entry of a scope matches the hosts it covers.                         *)
LEMMA MatchesCovered ==
    ASSUME TargetsAssumption, NEW host \in Hosts, NEW p, IsPath(p)
    PROVE  Matches(p, host) <=> host \in Covers(p)
<1>1. CASE p.kind = "net"
  <2>1. CASE host.kind = "ip"
    <3>1. p.path \in Seq({0, 1}) /\ host.path \in Seq({0, 1})
        BY <1>1, <2>1, HostsHaveKinds DEF IsPath
    <3>2. IsPrefix(p.path, host.path) <=>
              Len(p.path) <= Len(host.path) /\ SubSeq(host.path, 1, Len(p.path)) = p.path
        BY <3>1, PrefixIsStart
    <3>3. p # host
        BY <1>1, <2>1
    <3> QED
        BY <1>1, <2>1, <3>2, <3>3 DEF Matches, Covers
  <2>2. CASE host.kind # "ip"
      BY <1>1, <2>2, HostsHaveKinds DEF Matches, Covers
  <2> QED
      BY <2>1, <2>2
<1>2. CASE p.kind = "wild"
  <2>1. CASE host.kind = "dns"
    <3>1. p.path \in Seq(STRING) /\ host.path \in Seq(STRING)
        BY <1>2, <2>1, HostsHaveKinds DEF IsPath
    <3>2. Len(p.path) \in Nat /\ Len(host.path) \in Nat
        BY <3>1
    <3>3. Under(p, host) <=>
              Len(host.path) > Len(p.path) /\ SubSeq(host.path, 1, Len(p.path)) = p.path
        BY <3>1, <3>2, PrefixIsStart DEF Under
    <3>4. p # host
        BY <1>2, <2>1
    <3> QED
        BY <1>2, <2>1, <3>3, <3>4 DEF Matches, Covers
  <2>2. CASE host.kind # "dns"
      BY <1>2, <2>2, HostsHaveKinds DEF Matches, Covers
  <2> QED
      BY <2>1, <2>2
<1>3. CASE p.kind \notin {"net", "wild"}
    BY <1>3 DEF Matches, Covers
<1> QED
    BY <1>1, <1>2, <1>3

(* check_target, which looks at the excluded entries first, approves a      *)
(* target if and only if its host is allowed and not excluded.              *)
THEOREM CheckIsApproval ==
    ASSUME ScopesAssumption, TargetsAssumption, NEW s \in Scopes, NEW t \in Targets
    PROVE  CheckTarget(s, t) <=> HostOf(t) \in Approved(s)
<1>1. HostOf(t) \in Hosts
    BY DEF Hosts
<1>2. ASSUME NEW p \in s.cidrs \union s.domains \union s.excluded
      PROVE  Matches(p, HostOf(t)) <=> HostOf(t) \in Covers(p)
    BY <1>1, MatchesCovered DEF ScopesAssumption
<1>3. ASSUME NEW P \in SUBSET (s.cidrs \union s.domains \union s.excluded)
      PROVE  MatchesAny(HostOf(t), P) <=> HostOf(t) \in UNION {Covers(p) : p \in P}
    BY <1>2 DEF MatchesAny
<1>4. /\ MatchesAny(HostOf(t), s.excluded) <=> HostOf(t) \in UNION {Covers(p) : p \in s.excluded}
      /\ MatchesAny(HostOf(t), s.cidrs \union s.domains) <=>
            HostOf(t) \in UNION {Covers(p) : p \in s.cidrs \union s.domains}
    BY <1>3
<1>5. MatchesAny(HostOf(t), s.cidrs \union s.domains) <=>
          MatchesAny(HostOf(t), s.cidrs) \/ MatchesAny(HostOf(t), s.domains)
    BY DEF MatchesAny
<1>6. CheckTarget(s, t) <=> /\ ~MatchesAny(HostOf(t), s.excluded)
                            /\ MatchesAny(HostOf(t), s.cidrs) \/ MatchesAny(HostOf(t), s.domains)
    BY DEF CheckTarget
<1>7. HostOf(t) \in Approved(s) <=>
          /\ HostOf(t) \in UNION {Covers(p) : p \in s.cidrs \union s.domains}
          /\ HostOf(t) \notin UNION {Covers(p) : p \in s.excluded}
    BY DEF Approved
<1> QED
    BY <1>4, <1>5, <1>6, <1>7

LEMMA ApprovesAll ==
    ASSUME ScopeAssumption, NEW s \in Scopes, NEW T \in SUBSET Targets
    PROVE  Approves(s, T) <=> {HostOf(t) : t \in T} \subseteq Approved(s)
BY CheckIsApproval DEF Approves, ScopeAssumption

-----------------------------------------------------------------------------
(* The requests                                                             *)

LEMMA NewestIsInForce ==
    ASSUME ScopeTypeOK, NEW w \in Workspaces, scopes[w] # <<>>, NoScopeAssumption
    PROVE  /\ InForce(w) = NewestRow(w) /\ NewestRow(w) \in Scopes /\ NewestRow(w) # None
<1>1. scopes[w] \in Seq(Scopes) /\ w # None
    BY DEF ScopeTypeOK, NoScopeAssumption
<1>2. Last(scopes[w]) \in Scopes
    BY <1>1 DEF Last
<1> QED
    BY <1>1, <1>2 DEF InForce, NewestRow, NoScopeAssumption

LEMMA InForceType ==
    ASSUME ScopeTypeOK, NoScopeAssumption, NEW w \in Workspaces \union {None}
    PROVE  InForce(w) \in Scopes \union {None}
BY NewestIsInForce DEF InForce

(* A new scope is in force for the requests of its workspace.               *)
LEMMA CreateScopeKeeps ==
    ASSUME ScopeAssumption, ScopeInv, NEW w \in Workspaces, NEW s \in Scopes, CreateScope(w, s)
    PROVE  ScopeInv'
<1>1. ScopeTypeOK /\ Met /\ scopes[w] \in Seq(Scopes) /\ w # None
    BY DEF ScopeInv, ScopeTypeOK, ScopeAssumption, NoScopeAssumption
<1>2. Append(scopes[w], s) \in Seq(Scopes) /\ Append(scopes[w], s) # <<>>
      /\ Last(Append(scopes[w], s)) = s
    BY <1>1 DEF Last
<1>3. /\ scopes'[w] = Append(scopes[w], s)
      /\ \A v \in Workspaces \ {w} : scopes'[v] = scopes[v]
      /\ UNCHANGED <<scope_pc, ws, targets, verdict>>
    BY <1>1 DEF CreateScope, ScopeTypeOK
<1>4. \A h \in Scanners : window[h] \subseteq window'[h]
                          /\ window'[h] \subseteq window[h] \union {s}
                          /\ (scope_pc[h] # "idle" /\ ws[h] = w => s \in window'[h])
    BY DEF CreateScope
<1>5. ScopeTypeOK'
  <2>1. scopes' \in [Workspaces -> Seq(Scopes)]
      BY <1>1, <1>2 DEF CreateScope, ScopeTypeOK
  <2>2. window' \in [Scanners -> SUBSET (Scopes \union {None})]
      BY <1>1 DEF CreateScope, ScopeTypeOK
  <2>3. \A h \in Scanners : scope_pc'[h] = "check" => ws'[h] # None /\ scopes'[ws'[h]] # <<>>
      BY <1>1, <1>2, <1>3 DEF ScopeTypeOK
  <2> QED
      BY <1>1, <1>3, <2>1, <2>2, <2>3 DEF ScopeTypeOK
<1>6. Met'
  <2> SUFFICES ASSUME NEW h \in Scanners, scope_pc[h] # "idle"
               PROVE  /\ InForce(ws[h])' \in window'[h]
                      /\ verdict[h] = "none"
                      /\ scope_pc[h] = "ingest" => \E r \in window'[h] :
                            r = None \/ {HostOf(t) : t \in targets[h]} \subseteq Approved(r)
      BY <1>3 DEF Met
  <2>1. InForce(ws[h])' \in window'[h]
    <3>1. CASE ws[h] = w
        BY <1>1, <1>2, <1>3, <1>4, <3>1 DEF InForce
    <3>2. CASE ws[h] # w
      <4>1. ws[h] \in Workspaces \union {None}
          BY <1>1 DEF ScopeTypeOK
      <4>2. InForce(ws[h])' = InForce(ws[h])
          BY <1>3, <3>2, <4>1 DEF InForce
      <4> QED
          BY <1>1, <1>4, <4>2 DEF Met
    <3> QED
        BY <3>1, <3>2
  <2> QED
      BY <1>1, <1>4, <2>1 DEF Met
<1>7. PassedOnWasApproved' /\ RefusedWasNot'
    BY <1>3, <1>4 DEF ScopeInv, PassedOnWasApproved, RefusedWasNot
<1> QED
    BY <1>5, <1>6, <1>7 DEF ScopeInv

(* The other requests of a step of h.                                       *)
LEMMA OneMoves ==
    ASSUME ScopeInv, ScopeTypeOK', NEW h \in Scanners, UNCHANGED scopes,
           \A g \in Scanners \ {h} : /\ scope_pc'[g] = scope_pc[g] /\ ws'[g] = ws[g]
                                     /\ targets'[g] = targets[g] /\ verdict'[g] = verdict[g]
                                     /\ window'[g] = window[g],
           scope_pc'[h] # "idle" =>
                     /\ InForce(ws'[h]) \in window'[h]
                     /\ verdict'[h] = "none"
                     /\ scope_pc'[h] = "ingest" => \E s \in window'[h] :
                                 s = None \/ {HostOf(t) : t \in targets'[h]} \subseteq Approved(s),
           verdict'[h] = "passed" => \E s \in window'[h] :
               s = None \/ {HostOf(t) : t \in targets'[h]} \subseteq Approved(s),
           verdict'[h] = "refused" => \E s \in window'[h] :
               s # None /\ ~({HostOf(t) : t \in targets'[h]} \subseteq Approved(s))
    PROVE  ScopeInv'
<1>1. Met'
    BY DEF ScopeInv, Met, InForce
<1>2. PassedOnWasApproved'
    BY DEF ScopeInv, PassedOnWasApproved
<1>3. RefusedWasNot'
    BY DEF ScopeInv, RefusedWasNot
<1> QED
    BY <1>1, <1>2, <1>3 DEF ScopeInv

LEMMA ArriveKeeps ==
    ASSUME ScopeAssumption, ScopeInv, NEW h \in Scanners, NEW w \in Workspaces \union {None},
           NEW T \in Payloads, Arrive(h, w, T)
    PROVE  ScopeInv'
<1>1. ScopeTypeOK
    BY DEF ScopeInv
<1>2. InForce(w) \in Scopes \union {None}
    BY <1>1, InForceType DEF ScopeAssumption
<1>3. T \in SUBSET Targets
    BY DEF Payloads
<1>4. ScopeTypeOK'
    BY <1>1, <1>2, <1>3 DEF ScopeTypeOK, Arrive, Turn
<1>5. /\ scope_pc'[h] = "has_scope" /\ ws'[h] = w /\ verdict'[h] = "none"
      /\ window'[h] = {InForce(w)}
    BY <1>1 DEF ScopeTypeOK, Arrive, Turn
<1>6. \A g \in Scanners \ {h} : /\ scope_pc'[g] = scope_pc[g] /\ ws'[g] = ws[g]
                                /\ targets'[g] = targets[g] /\ verdict'[g] = verdict[g]
                                /\ window'[g] = window[g]
    BY <1>1 DEF ScopeTypeOK, Arrive, Turn
<1> QED
    BY <1>4, <1>5, <1>6, OneMoves DEF Arrive

(* Without a scope in force the scan is passed on for want of one.          *)
LEMMA HasScopeKeeps ==
    ASSUME ScopeAssumption, ScopeInv, NEW h \in Scanners, HasScope(h)
    PROVE  ScopeInv'
<1>1. ScopeTypeOK /\ Met /\ scope_pc[h] = "has_scope"
    BY DEF ScopeInv, HasScope
<1>2. /\ scope_pc'[h] = (IF InForce(ws[h]) = None THEN "ingest" ELSE "check")
      /\ UNCHANGED <<scopes, ws, targets, verdict, window>>
    BY <1>1 DEF HasScope, Turn, ScopeTypeOK, Unscoped
<1>3. InForce(ws[h]) \in window[h] /\ verdict[h] = "none"
    BY <1>1 DEF Met
<1>4. InForce(ws[h]) # None => ws[h] # None /\ scopes[ws[h]] # <<>>
    BY DEF InForce
<1>5. ScopeTypeOK'
    BY <1>1, <1>2, <1>4 DEF ScopeTypeOK, HasScope, Turn
<1>6. \A g \in Scanners \ {h} : scope_pc'[g] = scope_pc[g]
    BY <1>1 DEF HasScope, Turn, ScopeTypeOK
<1> QED
    BY <1>2, <1>3, <1>5, <1>6, OneMoves

(* The newest row decides, and it is the scope in force.                    *)
LEMMA CheckScopeKeeps ==
    ASSUME ScopeAssumption, ScopeInv, NEW h \in Scanners, CheckScope(h)
    PROVE  ScopeInv'
<1> DEFINE s == NewestRow(ws[h])
           hosts == {HostOf(t) : t \in targets[h]}
<1>1. ScopeTypeOK /\ Met /\ scope_pc[h] = "check"
    BY DEF ScopeInv, CheckScope
<1>2. ws[h] \in Workspaces /\ scopes[ws[h]] # <<>>
    BY <1>1 DEF ScopeTypeOK
<1>3. s \in window[h] /\ s \in Scopes /\ s # None /\ verdict[h] = "none"
      /\ InForce(ws[h]) = s
    BY <1>1, <1>2, NewestIsInForce DEF Met, ScopeAssumption
<1>4. Approves(s, targets[h]) <=> hosts \subseteq Approved(s)
    BY <1>1, <1>3, ApprovesAll DEF ScopeTypeOK
<1>5. CASE Approves(s, targets[h])
  <2>1. /\ scope_pc'[h] = "ingest" /\ \A g \in Scanners \ {h} : scope_pc'[g] = scope_pc[g]
        /\ UNCHANGED <<scopes, ws, targets, verdict, window>>
      BY <1>1, <1>5 DEF CheckScope, Turn, ScopeTypeOK
  <2>2. ScopeTypeOK'
      BY <1>1, <1>5, <2>1 DEF ScopeTypeOK, CheckScope, Turn
  <2> QED
      BY <1>3, <1>4, <1>5, <2>1, <2>2, OneMoves
<1>6. CASE ~Approves(s, targets[h])
  <2>1. /\ scope_pc'[h] = "idle" /\ verdict'[h] = "refused"
        /\ \A g \in Scanners \ {h} : scope_pc'[g] = scope_pc[g] /\ verdict'[g] = verdict[g]
        /\ UNCHANGED <<scopes, ws, targets, window>>
      BY <1>1, <1>6 DEF CheckScope, Leave, Turn, ScopeTypeOK
  <2>2. ScopeTypeOK'
    <3>1. /\ scope_pc' \in [Scanners -> {"idle", "has_scope", "check", "ingest"}]
          /\ verdict' \in [Scanners -> {"none", "passed", "refused"}]
        BY <1>1, <1>6 DEF ScopeTypeOK, CheckScope, Leave, Turn
    <3> QED
        BY <1>1, <2>1, <3>1 DEF ScopeTypeOK
  <2> QED
      BY <1>3, <1>4, <1>6, <2>1, <2>2, OneMoves
<1> QED
    BY <1>5, <1>6

LEMMA PassOnKeeps ==
    ASSUME ScopeAssumption, ScopeInv, NEW h \in Scanners, PassOn(h)
    PROVE  ScopeInv'
<1>1. ScopeTypeOK /\ Met /\ scope_pc[h] = "ingest"
    BY DEF ScopeInv, PassOn
<1>2. /\ scope_pc'[h] = "idle" /\ verdict'[h] = "passed"
      /\ \A g \in Scanners \ {h} : scope_pc'[g] = scope_pc[g] /\ verdict'[g] = verdict[g]
      /\ UNCHANGED <<scopes, ws, targets, window>>
    BY <1>1 DEF PassOn, Leave, Turn, ScopeTypeOK
<1>3. ScopeTypeOK'
    BY <1>1, <1>2 DEF ScopeTypeOK, PassOn, Leave, Turn
<1> QED
    BY <1>1, <1>2, <1>3, OneMoves DEF Met

-----------------------------------------------------------------------------
(* The three facts of the induction                                         *)

LEMMA ScopeInitInv == ASSUME ScopeAssumption PROVE ScopeInit => ScopeInv
BY DEF ScopeInit, ScopeInv, ScopeTypeOK, Met, PassedOnWasApproved, RefusedWasNot

LEMMA ScopeStepInv == ASSUME ScopeAssumption PROVE ScopeInv /\ [ScopeNext]_scopeVars => ScopeInv'
<1> SUFFICES ASSUME ScopeInv, [ScopeNext]_scopeVars PROVE ScopeInv'
    OBVIOUS
<1>1. CASE UNCHANGED scopeVars
    BY <1>1 DEF ScopeInv, ScopeTypeOK, Met, InForce, PassedOnWasApproved, RefusedWasNot, scopeVars
<1>2. CASE ScopeNext
    BY <1>2, CreateScopeKeeps, ArriveKeeps, HasScopeKeeps, CheckScopeKeeps, PassOnKeeps DEF ScopeNext
<1> QED
    BY <1>1, <1>2

(* ScopeInv is inductive: the scope in force is always one that the request met. *)
THEOREM ScopesInductive == ASSUME ScopeAssumption PROVE ScopeSpec => []ScopeInv
BY ScopeInitInv, ScopeStepInv, PTL DEF ScopeSpec

(* _enforce_scan_scope: what is passed on was approved in every target by a *)
(* scope in force while it was handled, or there was none.                  *)
THEOREM PassedWasInScope == ASSUME ScopeAssumption PROVE ScopeSpec => []PassedOnWasApproved
<1>1. ScopeInv => PassedOnWasApproved
    BY DEF ScopeInv
<1> QED
    BY <1>1, ScopesInductive, PTL

(* Nothing is refused that every scope in force meanwhile approved.         *)
THEOREM RefusedWasOutOfScope == ASSUME ScopeAssumption PROVE ScopeSpec => []RefusedWasNot
<1>1. ScopeInv => RefusedWasNot
    BY DEF ScopeInv
<1> QED
    BY <1>1, ScopesInductive, PTL

-----------------------------------------------------------------------------
(* The parts share no variable: a behaviour of the gateway is one of each.  *)
LEMMA GatewayRunsAccounts == GatewaySpec => Acc!Spec
<1>1. GatewayInit => Acc!Init
    BY DEF GatewayInit
<1>2. [GatewayNext]_gatewayVars => [Acc!Next]_(Acc!vars)
    BY DEF GatewayNext, gatewayVars, accountVars, Acc!vars, Acc!config, Acc!tables,
           Acc!request, Acc!history
<1> QED
    BY <1>1, <1>2, PTL DEF GatewaySpec, Acc!Spec

LEMMA GatewayRunsScopes == GatewaySpec => ScopeSpec
<1>1. GatewayInit => ScopeInit
    BY DEF GatewayInit
<1>2. [GatewayNext]_gatewayVars => [ScopeNext]_scopeVars
    BY DEF GatewayNext, gatewayVars
<1> QED
    BY <1>1, <1>2, PTL DEF GatewaySpec, ScopeSpec

LEMMA GatewayRunsLoads == GatewaySpec => Load!Spec
<1>1. GatewayInit => Load!Init
    BY DEF GatewayInit
<1>2. [GatewayNext]_gatewayVars => [Load!Next]_(Load!vars)
    BY DEF GatewayNext, gatewayVars, loadVars, Load!vars, Load!inventory
<1> QED
    BY <1>1, <1>2, PTL DEF GatewaySpec, Load!Spec

LEMMA GatewayRunsEnrollment == GatewaySpec => Spec
<1>1. GatewayInit => Init
    BY DEF GatewayInit
<1>2. [GatewayNext]_gatewayVars => [Next]_vars
    BY DEF GatewayNext, gatewayVars
<1> QED
    BY <1>1, <1>2, PTL DEF GatewaySpec, Spec

(* The gateway cuts off agents whose token was revoked.                     *)
THEOREM GatewayCutsOff == GatewaySpec => [](IInv /\ RevocationHolds)
BY GatewayRunsEnrollment, Inductive, RevokedIsCutOff, PTL

(* The middlewares let a request into a route with the key and a role of it *)
(* only, and never with a session that was logged out before it came;       *)
(* bootstraps that do not race create one admin.                            *)
THEOREM MiddlewaresHold == ASSUME GatewayAssumption PROVE GatewaySpec => []RequestsAreChecked
<1>1. Acc!RoutesAssumption /\ Acc!NoneAssumption /\ Acc!ModesAssumption
    BY DEF GatewayAssumption
<1>2. Acc!Spec => []Acc!IInv
    BY <1>1, Acc!Inductive
<1>3. Acc!Spec => []Acc!OneBootstrap
    BY <1>1, Acc!BootstrapCreatesOne
<1>4. Acc!IInv /\ Acc!OneBootstrap => RequestsAreChecked
    BY DEF RequestsAreChecked
<1> QED
    BY <1>2, <1>3, <1>4, GatewayRunsAccounts, PTL

(* A user's role stays what its first creation made it, and a gateway in    *)
(* demo mode changes no user and no session.                                *)
THEOREM RolesStay == ASSUME GatewayAssumption PROVE GatewaySpec => AccountsAreKept
<1>1. Acc!RoutesAssumption /\ Acc!NoneAssumption /\ Acc!ModesAssumption
    BY DEF GatewayAssumption
<1>2. Acc!Spec => Acc!UsersAreKept
    BY <1>1, Acc!FirstCreationStays
<1>3. Acc!Spec => Acc!DemoKeepsAccounts
    BY <1>1, Acc!DemoIsReadOnly
<1> QED
    BY <1>2, <1>3, GatewayRunsAccounts DEF AccountsAreKept

(* Scans are passed on and refused by scopes that were in force while they  *)
(* were handled.                                                            *)
THEOREM ScopesAreEnforced == ASSUME GatewayAssumption PROVE GatewaySpec => []ScopesDecide
<1>1. ScopeAssumption
    BY DEF GatewayAssumption
<1>2. ScopeSpec => []ScopeInv
    BY <1>1, ScopesInductive
<1>3. ScopeInv => ScopesDecide
    BY DEF ScopesDecide
<1> QED
    BY <1>2, <1>3, GatewayRunsScopes, PTL

(* The demo load says what it did: whatever overlaps and fails, a success   *)
(* has loaded all; if nothing does, it loaded it once and with its risk.    *)
THEOREM LoadsSayWhatTheyDid ==
    ASSUME GatewayAssumption, IsFiniteSet(Loads)
    PROVE  GatewaySpec => []LoadsAreHonest
<1>1. Load!DemoAssumption
    BY DEF GatewayAssumption
<1>2. Load!Spec => []Load!IInv
    BY <1>1, Load!Inductive
<1>3. Load!Spec => []Load!EveryStepIsRecorded
    BY <1>1, Load!NoStepIsHidden
<1>4. Load!Spec => []Load!NoIdleWorkspace
    BY <1>1, Load!WorkspacesAreUsed
<1>5. Load!Spec => [](Load!ScansAreCounted /\ Load!OneScanPerLoad)
    BY <1>1, Load!ClicksSaveOnce DEF IsFiniteSet, Load!IsFiniteSet
<1>6. Load!Spec => [](Load!Undisturbed /\ Load!LoadsOnce)
    BY <1>1, Load!LoadingTwiceSavesOnce
<1>7. Load!Spec => []Load!SuccessIsScored
    BY <1>1, Load!SuccessMeansScored
<1>8. /\ Load!IInv /\ Load!EveryStepIsRecorded /\ Load!NoIdleWorkspace
      /\ Load!ScansAreCounted /\ Load!OneScanPerLoad
      /\ Load!Undisturbed /\ Load!LoadsOnce /\ Load!SuccessIsScored
      => LoadsAreHonest
    BY DEF LoadsAreHonest
<1> QED
    BY <1>2, <1>3, <1>4, <1>5, <1>6, <1>7, <1>8, GatewayRunsLoads, PTL
=============================================================================
