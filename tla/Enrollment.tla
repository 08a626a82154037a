----------------------------- MODULE Enrollment -----------------------------
(***************************************************************************)
(* Agent enrollment of the api-gateway: enrollment tokens, their           *)
(* revocation, and the agents that register and send heartbeats with them. *)
(* A request is a sequence of transactions on connections of its own.      *)
(***************************************************************************)
EXTENDS Integers, Sequences

CONSTANTS Threads,     \* request threads
          Tokens,      \* enrollment tokens, by their hashes
          Agents,      \* bound: rows of the agents table
          Versions,    \* agent_version as _parse_version reads it: tuples
          MinSupported, \* MIN_SUPPORTED_AGENT_VERSION, parsed
          MaxClock     \* bound: time stamps

ASSUME VersionsAssumption == MinSupported \in Seq(Nat) /\ Versions \subseteq Seq(Nat)
ASSUME ClockAssumption == MaxClock \in Nat
ASSUME NoAgentAssumption == "none" \notin Tokens \union Agents

VARIABLES clock,       \* the next time stamp
          revoked_at,  \* revoked_at[t]: -1: no row, 0: NULL, or the time
          token_of,    \* token_of[a]: enrollment_token_id; "none": no row
          status,      \* status[a]: <<status, agent_version>>
          last_seen,   \* last_seen[a]
          audited,     \* agents with an agent.register event
          pc,          \* pc[h]: the transaction request thread h does next
          token,       \* token[h]: the token of its request
          agent,       \* agent[h]: the agent of its request
          stamp,       \* stamp[h]: the time it is about to write
          cut,         \* history: tokens revoked for sure when h's request came
          acked        \* history: tokens whose revocation was answered

tables == <<revoked_at, token_of, status, last_seen, audited>>
locals == <<token, agent, stamp, cut>>
vars   == <<clock, tables, pc, locals, acked>>

Times == -1 .. MaxClock
NoAgent == "none"

TypeOK == /\ clock \in 1 .. MaxClock + 1
          /\ revoked_at \in [Tokens -> Times]
          /\ token_of \in [Agents -> Tokens \union {NoAgent}]
          /\ status \in [Agents -> {"none", "active", "unsupported_version"} \X (Versions \union {<<>>})]
          /\ last_seen \in [Agents -> Times]
          /\ audited \subseteq Agents
          /\ pc \in [Threads -> {"idle", "revoke", "reread", "verify_register", "register",
                                 "audit", "verify_beat", "get", "touch", "answer"}]
          /\ token \in [Threads -> Tokens \union {NoAgent}]
          /\ agent \in [Threads -> Agents \union {NoAgent}]
          /\ stamp \in [Threads -> Times]
          /\ cut \in [Threads -> SUBSET Tokens]
          /\ acked \subseteq Tokens

Init == /\ clock = 1
        /\ revoked_at = [t \in Tokens |-> -1]
        /\ token_of = [a \in Agents |-> NoAgent]
        /\ status = [a \in Agents |-> <<"none", <<>>>>]
        /\ last_seen = [a \in Agents |-> 0]
        /\ audited = {} /\ acked = {}
        /\ pc = [h \in Threads |-> "idle"]
        /\ token = [h \in Threads |-> NoAgent]
        /\ agent = [h \in Threads |-> NoAgent]
        /\ stamp = [h \in Threads |-> 0]
        /\ cut = [h \in Threads |-> {}]

Goto(h, p) == pc' = [pc EXCEPT ![h] = p]

(* datetime.now *)
Now == clock <= MaxClock /\ clock' = clock + 1

Answer(h) == /\ Goto(h, "idle")
             /\ token' = [token EXCEPT ![h] = NoAgent]
             /\ agent' = [agent EXCEPT ![h] = NoAgent]
             /\ stamp' = [stamp EXCEPT ![h] = 0]
             /\ cut' = [cut EXCEPT ![h] = {}]

-----------------------------------------------------------------------------
(* create_token and revoke_token *)

CreateToken(t) ==
    /\ revoked_at[t] = -1
    /\ revoked_at' = [revoked_at EXCEPT ![t] = 0]
    /\ UNCHANGED <<clock, token_of, status, last_seen, audited, pc, locals, acked>>

(* get_token; 404 for an unknown one.                                       *)
Revoke(h, t) ==
    /\ pc[h] = "idle"
    /\ revoked_at[t] # -1
    /\ token' = [token EXCEPT ![h] = t]
    /\ Goto(h, "revoke")
    /\ UNCHANGED <<clock, tables, agent, stamp, cut, acked>>

(* UPDATE ... WHERE id = ? AND revoked_at IS NULL.  Faulty: without the     *)
(* second condition.                                                        *)
AnyToken(t)   == TRUE
NotRevoked(t) == revoked_at[t] = 0

RevokeUpdate(h) ==
    /\ pc[h] = "revoke"
    /\ Now
    /\ revoked_at' = [revoked_at EXCEPT ![token[h]] = IF NotRevoked(token[h]) THEN clock ELSE @]
    /\ Goto(h, "reread")
    /\ UNCHANGED <<token_of, status, last_seen, audited, locals, acked>>

(* get_token and the audit event: the revocation is answered.               *)
RevokeAnswer(h) ==
    /\ pc[h] = "reread"
    /\ acked' = acked \union {token[h]}
    /\ Answer(h)
    /\ UNCHANGED <<clock, tables>>

-----------------------------------------------------------------------------
(* POST /api/agents/register and /api/agents/{id}/heartbeat *)

Request(h, t, a, p) ==
    /\ pc[h] = "idle"
    /\ token' = [token EXCEPT ![h] = t]
    /\ agent' = [agent EXCEPT ![h] = a]
    /\ cut' = [cut EXCEPT ![h] = acked]
    /\ Goto(h, p)
    /\ UNCHANGED <<clock, tables, stamp, acked>>

Register(h, t)     == Request(h, t, NoAgent, "verify_register")
Heartbeat(h, t, a) == Request(h, t, a, "verify_beat")

(* verify_token: a row that is not revoked.  Faulty: any row will do, or no *)
(* row at all.                                                              *)
AnyHash(t)  == TRUE
IsKnown(t)  == revoked_at[t] # -1
Verifies(t) == revoked_at[t] = 0

Verify(h) ==
    /\ pc[h] \in {"verify_register", "verify_beat"}
    /\ IF Verifies(token[h])
       THEN /\ Goto(h, IF pc[h] = "verify_register" THEN "register" ELSE "get")
            /\ UNCHANGED locals
       ELSE Answer(h)
    /\ UNCHANGED <<clock, tables, acked>>

(* _is_supported_version compares the tuples from the left: at the first  *)
(* difference the greater number wins, without one the longer tuple.        *)
Agree(v, n)  == \A j \in 1 .. n : v[j] = MinSupported[j]
Supported(v) == \/ Len(v) >= Len(MinSupported) /\ Agree(v, Len(MinSupported))
                \/ \E i \in DOMAIN v \cap DOMAIN MinSupported :
                      v[i] > MinSupported[i] /\ Agree(v, i - 1)

(* AgentStatus.                                                             *)
StatusOf(v)  == IF Supported(v) THEN "active" ELSE "unsupported_version"

RegisterAgent(h) ==
    /\ pc[h] = "register"
    /\ Now
    /\ \E a \in Agents, v \in Versions :
          /\ token_of[a] = NoAgent
          /\ token_of' = [token_of EXCEPT ![a] = token[h]]
          /\ status' = [status EXCEPT ![a] = <<StatusOf(v), v>>]
          /\ last_seen' = [last_seen EXCEPT ![a] = clock]
          /\ agent' = [agent EXCEPT ![h] = a]
    /\ Goto(h, "audit")
    /\ UNCHANGED <<revoked_at, audited, token, stamp, cut, acked>>

AuditRegister(h) ==
    /\ pc[h] = "audit"
    /\ audited' = audited \union {agent[h]}
    /\ Answer(h)
    /\ UNCHANGED <<clock, revoked_at, token_of, status, last_seen, acked>>

(* get_agent, 404 for an unknown one; then the time the UPDATE will write.  *)
GetAgent(h) ==
    /\ pc[h] = "get"
    /\ IF token_of[agent[h]] = NoAgent
       THEN Answer(h) /\ UNCHANGED clock
       ELSE /\ Now
            /\ stamp' = [stamp EXCEPT ![h] = clock]
            /\ Goto(h, "touch")
            /\ UNCHANGED <<token, agent, cut>>
    /\ UNCHANGED <<tables, acked>>

Touch(h) ==
    /\ pc[h] = "touch"
    /\ last_seen' = [last_seen EXCEPT ![agent[h]] = stamp[h]]
    /\ Goto(h, "answer")
    /\ UNCHANGED <<clock, revoked_at, token_of, status, audited, locals, acked>>

BeatAnswer(h) ==
    /\ pc[h] = "answer"
    /\ Answer(h)
    /\ UNCHANGED <<clock, tables, acked>>

(* A transaction fails or the process dies; nothing is undone.              *)
Abort(h) ==
    /\ pc[h] # "idle"
    /\ Answer(h)
    /\ UNCHANGED <<clock, tables, acked>>

-----------------------------------------------------------------------------
(* The specification *)

Handler(h) ==
    \/ \E t \in Tokens : Revoke(h, t) \/ Register(h, t) \/ \E a \in Agents : Heartbeat(h, t, a)
    \/ RevokeUpdate(h) \/ RevokeAnswer(h)
    \/ Verify(h) \/ RegisterAgent(h) \/ AuditRegister(h)
    \/ GetAgent(h) \/ Touch(h) \/ BeatAnswer(h)
    \/ Abort(h)

Next == (\E t \in Tokens : CreateToken(t)) \/ (\E h \in Threads : Handler(h))

Spec == Init /\ [][Next]_vars

-----------------------------------------------------------------------------
(* agents.py: revoking a token "cuts off both new registrations and         *)
(* heartbeats from every agent that shares it": no request that arrives     *)
(* after the revocation was answered is accepted with the token, however    *)
(* the requests that were under way meanwhile went.                         *)
RevocationHolds ==
    \A h \in Threads : pc[h] \in {"register", "audit", "get", "touch", "answer"}
                       => token[h] \notin cut[h]

(* The time of the first revocation stays: revoked_at neither moves nor is  *)
(* cleared, although revocations of one token overlap.                      *)
RevokedOnce ==
    [][\A t \in Tokens : revoked_at[t] > 0 => revoked_at'[t] = revoked_at[t]]_vars

(* An agent is registered under a token that was valid at some time, and    *)
(* audited only if its row is there (the row is committed first).           *)
RegisteredWithToken ==
    \A a \in Agents : /\ token_of[a] # NoAgent => revoked_at[token_of[a]] # -1
                      /\ a \in audited => token_of[a] # NoAgent

(* The inductive invariant.  A request under way knows its token and, later *)
(* on, its agent; what it found of them stays true, but for a revocation;   *)
(* and a revocation that was answered is in the table.                      *)
RequestArgs ==
    \A h \in Threads :
        /\ pc[h] # "idle" => token[h] \in Tokens
        /\ pc[h] \in {"audit", "verify_beat", "get", "touch", "answer"} => agent[h] \in Agents
        /\ pc[h] \notin {"idle", "verify_register", "verify_beat"} => revoked_at[token[h]] # -1
        /\ pc[h] = "reread" => revoked_at[token[h]] > 0
        /\ pc[h] = "audit" => token_of[agent[h]] # NoAgent
        /\ cut[h] \subseteq acked
AckedIsRevoked == \A t \in acked : revoked_at[t] > 0
IInv == TypeOK /\ RequestArgs /\ AckedIsRevoked /\ RevocationHolds /\ RegisteredWithToken
=============================================================================
