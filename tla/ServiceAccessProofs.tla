------------------------- MODULE ServiceAccessProofs -------------------------
(***************************************************************************)
(* For every set of configurations an operator may write, no token of a    *)
(* running API combines two duties, and an API that runs with what was     *)
(* generated for the worker serves all it asks.                            *)
(***************************************************************************)
EXTENDS ServiceAccess, TLAPS

\* What the two files hold between generation, edits and removal.
FilesTyped ==
    /\ inits \in Nat
    /\ configFile \in Config \cup {None}

\* An API that is not limited runs with a configuration it found valid.
LoadedIsValid == api # None /\ ~limited => api \in Config /\ Valid(api)

AccessInv == FilesTyped /\ LoadedIsValid

\* The kinds and the duties of their ceilings.
LEMMA KindsEnumerated == Kinds = {"orchestrator", "approver", "executor", "operator"}
BY DEF Kinds, Ceiling

\* No route is both open and behind a scope (access-control.ts, ROUTE_ACCESS_RULES).
LEMMA OpenRoutesHaveNoScope == OpenRoutes \cap ServiceRoutes = {}
BY DEF OpenRoutes, ServiceRoutes, ScopeOf

\* What a kind may do beside reading the state is one duty (SERVICE_SCOPE_CEILINGS).
LEMMA CeilingIsOneDuty ==
    ASSUME NEW kind \in Kinds
    PROVE  \E duty \in Duties : Ceiling[kind] \ {"state:read"} \subseteq duty
<1>1. CASE kind = "orchestrator"
  <2>1. {"github:verify-ci", "evidence:collect", "decision:evaluate"} \in Duties
    BY DEF Duties
  <2> QED BY <1>1, <2>1 DEF Ceiling
<1>2. CASE kind = "approver"
  <2>1. {"approval:create"} \in Duties
    BY DEF Duties
  <2> QED BY <1>2, <2>1 DEF Ceiling
<1>3. CASE kind = "executor"
  <2>1. {"permit:execute"} \in Duties
    BY DEF Duties
  <2> QED BY <1>3, <2>1 DEF Ceiling
<1>4. CASE kind = "operator"
  <2>1. {"scenario:select", "network:select", "evidence:expire", "evidence:raw:read",
         "simulation:run", "system:reset"} \in Duties
    BY DEF Duties
  <2> QED BY <1>4, <2>1 DEF Ceiling
<1> QED BY <1>1, <1>2, <1>3, <1>4, KindsEnumerated

\* The files service-auth-init writes have the form the API expects.
LEMMA GeneratedIsConfig ==
    ASSUME NEW n \in Nat
    PROVE  Generated(n) \in Config
<1>1. ASSUME NEW kind \in Kinds
      PROVE  [id |-> kind, kind |-> kind, scopes |-> Ceiling[kind], token |-> Tokens(n)[kind]]
               \in [id : Ids, kind : Kinds, scopes : SUBSET Scopes, token : Ids \X Nat]
  <2>1. kind \in Ids
    BY AccessAssumption
  <2>2. Ceiling[kind] \in SUBSET Scopes
    BY DEF Scopes
  <2>3. Tokens(n)[kind] \in Ids \X Nat
    BY <2>1 DEF Tokens
  <2> QED BY <2>1, <2>2, <2>3
<1>2. {[id |-> "approver-key-local", approverId |-> "approver"]}
        \in SUBSET [id : Ids, approverId : Ids]
  BY KindsEnumerated, AccessAssumption
<1> QED BY <1>1, <1>2 DEF Generated, Config

-----------------------------------------------------------------------------
LEMMA AccessInit == Init => AccessInv
BY DEF Init, AccessInv, FilesTyped, LoadedIsValid

\* Files change under the processes, and an API loads what is valid then.
LEMMA AccessStep == AccessInv /\ [Next]_vars => AccessInv'
<1> SUFFICES ASSUME AccessInv, [Next]_vars PROVE AccessInv'
  OBVIOUS
<1> USE AccessAssumption
<1>1. FilesTyped'
  <2>1. CASE InitWritesConfig
    BY <2>1, GeneratedIsConfig DEF InitWritesConfig, AccessInv, FilesTyped
  <2>2. CASE \E config \in Edits \cup {None} : Edit(config)
    BY <2>2 DEF Edit, AccessInv, FilesTyped
  <2>3. CASE InitWritesSecrets \/ InitDies \/ RemoveSecrets \/ ApiStarts \/ ApiStops
             \/ WorkerLoads \/ WorkerRestarts \/ UNCHANGED vars
    BY <2>3 DEF InitWritesSecrets, InitDies, RemoveSecrets, ApiStarts, ApiStops, WorkerLoads,
                WorkerRestarts, vars, AccessInv, FilesTyped
  <2> QED BY <2>1, <2>2, <2>3 DEF Next
<1>2. LoadedIsValid'
  <2>1. CASE ApiStarts
    BY <2>1 DEF ApiStarts, AccessInv, FilesTyped, LoadedIsValid, Valid, PrincipalValid
  <2>2. CASE ApiStops
    BY <2>2 DEF ApiStops, LoadedIsValid
  <2>3. CASE UNCHANGED <<api, limited>>
    BY <2>3 DEF AccessInv, LoadedIsValid, Valid, PrincipalValid
  <2>4. \/ InitWritesConfig \/ InitWritesSecrets \/ InitDies
        \/ (\E config \in Edits \cup {None} : Edit(config))
        \/ RemoveSecrets \/ WorkerLoads \/ WorkerRestarts \/ UNCHANGED vars
        => UNCHANGED <<api, limited>>
    BY DEF InitWritesConfig, InitWritesSecrets, InitDies, Edit, RemoveSecrets, WorkerLoads,
           WorkerRestarts, vars
  <2> QED BY <2>1, <2>2, <2>3, <2>4 DEF Next
<1> QED BY <1>1, <1>2 DEF AccessInv

\* Served by a valid configuration means within the ceiling of the one principal who
\* has the token.
LEMMA ServedWithinCeiling ==
    ASSUME api \in Config, Valid(api), ~limited,
           NEW p \in api.principals, NEW route \in ServiceRoutes, Served(route, p.token)
    PROVE  p.kind \in Kinds /\ ScopeOf[route] \in Ceiling[p.kind] \ {"state:read"}
<1>1. p.kind \in Kinds
  BY DEF Config
<1>2. p \in PrincipalFor(p.token)
  BY DEF PrincipalFor
<1>3. Authenticate(route, p.token) = "passes"
  BY DEF Served, Answer, Authenticate
<1>4. ScopeOf[route] \in p.scopes
  BY <1>2, <1>3, OpenRoutesHaveNoScope DEF Authenticate
<1>5. p.scopes \subseteq Ceiling[p.kind]
  BY DEF Valid, PrincipalValid
<1> QED BY <1>1, <1>4, <1>5 DEF Served

\* The tokens of a valid configuration name one principal each.
LEMMA AccessInvImpliesOneDuty == AccessInv => OneDutyPerToken
<1> SUFFICES ASSUME AccessInv, api # None, ~limited, NEW p \in api.principals
             PROVE  \E duty \in Duties : \A route \in ServiceRoutes :
                      Served(route, p.token) => ScopeOf[route] \in duty
  BY DEF OneDutyPerToken
<1>1. api \in Config /\ Valid(api)
  BY DEF AccessInv, LoadedIsValid
<1>2. p.kind \in Kinds
  BY <1>1 DEF Config
<1>3. PICK duty \in Duties : Ceiling[p.kind] \ {"state:read"} \subseteq duty
  BY <1>2, CeilingIsOneDuty
<1>4. ASSUME NEW route \in ServiceRoutes, Served(route, p.token)
      PROVE  ScopeOf[route] \in duty
  BY <1>1, <1>3, <1>4, ServedWithinCeiling
<1> QED BY <1>3, <1>4

\* For every set of configurations an operator may write, loaded at any moment of
\* their generation, edits and removal, a token of a running API stays within one
\* of the duties to evaluate, approve, execute and operate (docs/SEGURANCA.md:37).
THEOREM AccessOneDutyPerToken == Spec => []OneDutyPerToken
<1>1. Init => AccessInv
  BY AccessInit
<1>2. AccessInv /\ [Next]_vars => AccessInv'
  BY AccessStep
<1>3. AccessInv => OneDutyPerToken
  BY AccessInvImpliesOneDuty
<1> QED BY <1>1, <1>2, <1>3, PTL DEF Spec

-----------------------------------------------------------------------------
(* What the worker asks of an API that fits it.                            *)

\* A principal of the generated configuration is served what its ceiling holds.
LEMMA GeneratedServes ==
    ASSUME NEW n, api = Generated(n), NEW kind \in Kinds, NEW route \in ServiceRoutes,
           ScopeOf[route] \in Ceiling[kind]
    PROVE  Answer(route, Tokens(n)[kind]) \in {"served", "unavailable"}
<1> DEFINE Principal(k) == [id |-> k, kind |-> k, scopes |-> Ceiling[k], token |-> Tokens(n)[k]]
<1>1. api.principals = {Principal(k) : k \in Kinds}
  BY DEF Generated
<1>2. \A k \in Kinds : Tokens(n)[k] = Tokens(n)[kind] => k = kind
  BY DEF Tokens
<1>3. \A p \in PrincipalFor(Tokens(n)[kind]) : p.scopes = Ceiling[kind]
  BY <1>1, <1>2 DEF PrincipalFor
<1>4. PrincipalFor(Tokens(n)[kind]) # {}
  <2>1. Principal(kind) \in api.principals /\ Principal(kind).token = Tokens(n)[kind]
    BY <1>1
  <2> QED BY <2>1 DEF PrincipalFor
<1>5. Authenticate(route, Tokens(n)[kind]) = "passes"
  BY <1>3, <1>4 DEF Authenticate
<1> QED BY <1>5 DEF Answer

\* The tools of the MCP worker stay within the ceilings (worker/src/index.ts).
LEMMA ToolsStayWithinCeilings ==
    \A call \in ToolCalls : /\ call[1] \in ServiceRoutes /\ call[2] \in Kinds
                            /\ ScopeOf[call[1]] \in Ceiling[call[2]]
BY DEF ToolCalls, ServiceRoutes, ScopeOf, Kinds, Ceiling

\* So do the routes of the HTTP worker (worker/src/index.ts, principalForRoute).
LEMMA ProxyStaysWithinCeilings ==
    \A route \in DOMAIN PrincipalForRoute :
        /\ route \in ServiceRoutes /\ PrincipalForRoute[route] \in Kinds
        /\ ScopeOf[route] \in Ceiling[PrincipalForRoute[route]]
BY DEF PrincipalForRoute, ServiceRoutes, ScopeOf, Kinds, Ceiling

\* The command numbers its runs up to the bound.
InitsBounded == inits \in 0..MaxInits

LEMMA InitsStayBounded == InitsBounded /\ [Next]_vars => InitsBounded'
<1> SUFFICES ASSUME InitsBounded, [Next]_vars PROVE InitsBounded'
  OBVIOUS
<1>1. CASE InitWritesConfig
  BY <1>1, AccessAssumption DEF InitWritesConfig, InitsBounded
<1>2. CASE UNCHANGED inits
  BY <1>2 DEF InitsBounded
<1>3. \/ InitWritesSecrets \/ InitDies \/ (\E config \in Edits \cup {None} : Edit(config))
      \/ RemoveSecrets \/ ApiStarts \/ ApiStops \/ WorkerLoads \/ WorkerRestarts
      \/ UNCHANGED vars
      => UNCHANGED inits
  BY DEF InitWritesSecrets, InitDies, Edit, RemoveSecrets, ApiStarts, ApiStops, WorkerLoads,
         WorkerRestarts, vars
<1> QED BY <1>1, <1>2, <1>3 DEF Next

LEMMA FittingApiServes == InitsBounded => WorkerIsServed
<1> SUFFICES ASSUME InitsBounded, NEW n \in 1..inits, api = Generated(n), worker = Tokens(n)
             PROVE  /\ \A call \in ToolCalls :
                          ToolAnswer(call[1], call[2]) \in {"served", "unavailable"}
                    /\ \A route \in DOMAIN PrincipalForRoute :
                          ProxyAnswer(route) \in {"served", "unavailable"}
  BY DEF WorkerIsServed, Fits
<1>1. worker # Rejected
  <2>1. n \in 0..MaxInits
    BY AccessAssumption DEF InitsBounded
  <2> QED BY <2>1, PromiseAssumption
<1>2. ASSUME NEW call \in ToolCalls
      PROVE  ToolAnswer(call[1], call[2]) \in {"served", "unavailable"}
  BY <1>1, ToolsStayWithinCeilings, GeneratedServes DEF ToolAnswer
<1>3. ASSUME NEW route \in DOMAIN PrincipalForRoute
      PROVE  ProxyAnswer(route) \in {"served", "unavailable"}
  <2>1. Answer(route, worker[PrincipalForRoute[route]]) \in {"served", "unavailable"}
    BY ProxyStaysWithinCeilings, GeneratedServes
  <2> QED BY <1>1, <2>1 DEF ProxyAnswer
<1> QED BY <1>2, <1>3

\* However often the files were generated, edited and removed meanwhile, an API and
\* a worker that loaded what one run generated agree: no tool and no proxied route
\* is refused.
THEOREM AccessWorkerIsServed == Spec => []WorkerIsServed
<1>1. Init => InitsBounded
  BY AccessAssumption DEF Init, InitsBounded
<1>2. InitsBounded /\ [Next]_vars => InitsBounded'
  BY InitsStayBounded
<1>3. InitsBounded => WorkerIsServed
  BY FittingApiServes
<1> QED BY <1>1, <1>2, <1>3, PTL DEF Spec
=============================================================================
