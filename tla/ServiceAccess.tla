---------------------------- MODULE ServiceAccess ----------------------------
(***************************************************************************)
(* Who may call which route: service-auth-init writes the credentials, the *)
(* API loads their hashes once when it starts (service-auth.ts), the       *)
(* worker loads the tokens once when it needs them (worker/src/index.ts),  *)
(* and every request passes the route matrix (access-control.ts) under the *)
(* ceilings of its principal's kind (day03.ts).  Operators edit, remove    *)
(* and generate the two files again while processes run.                   *)
(*                                                                         *)
(* A hash stands for its token.  The method of a route is that of its rule.*)
(***************************************************************************)
EXTENDS Naturals

CONSTANTS
    Ids,        \* of principals and of approver keys
    Edits,      \* service-auth.json as an operator may write it
    None,
    Unread, Rejected,   \* the worker's promise of tokens, not made or rejected
    MaxInits    \* runs of service-auth-init

\* SERVICE_SCOPE_CEILINGS
Ceiling ==
    [orchestrator |-> {"state:read", "github:verify-ci", "evidence:collect", "decision:evaluate"},
     approver     |-> {"state:read", "approval:create"},
     executor     |-> {"state:read", "permit:execute"},
     operator     |-> {"state:read", "scenario:select", "network:select", "evidence:expire",
                       "evidence:raw:read", "simulation:run", "system:reset"}]

\* ROUTE_ACCESS_RULES with authentication "service".
ScopeOf ==
    [state |-> "state:read", verifyCi |-> "github:verify-ci", reset |-> "system:reset",
     selectScenario |-> "scenario:select", selectNetwork |-> "network:select",
     selfDeclared |-> "evidence:collect", document |-> "evidence:collect",
     collect |-> "evidence:collect", evaluate |-> "decision:evaluate",
     approvals |-> "approval:create", simulation |-> "simulation:run",
     execute |-> "permit:execute", expire |-> "evidence:expire", raw |-> "evidence:raw:read"]

Kinds         == DOMAIN Ceiling
OpenRoutes    == {"health", "webhook"}
ServiceRoutes == DOMAIN ScopeOf

\* isLimitedPublicBrowserRoute, and the handlers that answer workerUnavailable.
BrowserRoutes == {"state", "selectScenario", "selfDeclared", "document"}
AnchorRoutes  == {"selectNetwork", "collect", "evaluate", "approvals", "simulation", "execute"}

-----------------------------------------------------------------------------
(* ServiceAuthFileSchema.                                                  *)

Scopes == UNION {Ceiling[kind] : kind \in Kinds}
Config ==
    [principals   : SUBSET [id : Ids, kind : Kinds, scopes : SUBSET Scopes,
                            token : Ids \X Nat],
     approverKeys : SUBSET [id : Ids, approverId : Ids]]

ASSUME AccessAssumption ==
    /\ Kinds \cup {"approver-key-local"} \subseteq Ids
    /\ Edits \subseteq Config /\ MaxInits \in Nat

MutPrincipalValid(principal) == principal.scopes # {}
PrincipalValid(principal) ==
    principal.scopes # {} /\ principal.scopes \subseteq Ceiling[principal.kind]

Valid(config) ==
    /\ config.principals # {}
    /\ \A p \in config.principals : PrincipalValid(p)
    /\ \A p, q \in config.principals : p.id = q.id \/ p.token = q.token => p = q
    /\ \A k, l \in config.approverKeys : k.id = l.id => k = l
    /\ \A k \in config.approverKeys :
          \E p \in config.principals : p.id = k.approverId /\ p.kind = "approver"
    /\ \A p \in config.principals : p.kind = "approver" =>
          \E k \in config.approverKeys : k.approverId = p.id

-----------------------------------------------------------------------------
(* service-auth-init and the worker, which know the principals by name: one *)
(* of each kind.                                                           *)

\* The tokens and the configuration of the n-th run.
Tokens(n) == [kind \in Kinds |-> <<kind, n>>]

\* A promise that was rejected has no tokens.
ASSUME PromiseAssumption == \A n \in 0..MaxInits : Tokens(n) # Rejected

Generated(n) ==
    [principals   |-> {[id |-> kind, kind |-> kind, scopes |-> Ceiling[kind],
                        token |-> Tokens(n)[kind]] : kind \in Kinds},
     approverKeys |-> {[id |-> "approver-key-local", approverId |-> "approver"]}]

\* The authenticator of a limited API without a configuration; nobody has its token.
Placeholder ==
    [principals   |-> {[id |-> "limited-public-api-placeholder", kind |-> "operator",
                        scopes |-> {"state:read"}, token |-> <<"random", 0>>]},
     approverKeys |-> {}]

MutPrincipalForRoute ==
    [state |-> "orchestrator", verifyCi |-> "orchestrator", selfDeclared |-> "orchestrator",
     document |-> "orchestrator", collect |-> "orchestrator", evaluate |-> "orchestrator",
     selectScenario |-> "operator", selectNetwork |-> "operator", simulation |-> "operator",
     expire |-> "orchestrator", reset |-> "operator", execute |-> "executor"]
\* The HTTP worker proxies these routes.
PrincipalForRoute ==
    [state |-> "orchestrator", verifyCi |-> "orchestrator", selfDeclared |-> "orchestrator",
     document |-> "orchestrator", collect |-> "orchestrator", evaluate |-> "orchestrator",
     selectScenario |-> "operator", selectNetwork |-> "operator", simulation |-> "operator",
     expire |-> "operator", reset |-> "operator", execute |-> "executor"]

\* The tools of the MCP worker: api's route and principalId.
ToolCalls ==
    {<<"state", "orchestrator">>, <<"verifyCi", "orchestrator">>, <<"state", "operator">>,
     <<"selectScenario", "operator">>, <<"selectNetwork", "operator">>,
     <<"simulation", "operator">>, <<"expire", "operator">>, <<"reset", "operator">>,
     <<"execute", "executor">>}
-----------------------------------------------------------------------------
VARIABLES
    limited,    \* PROOFRAIL_PUBLIC_API_MODE is "limited" (fixed)
    configFile, \* service-auth.json
    secretsFile,\* service-auth-secrets.json
    inits,      \* runs of service-auth-init so far
    writing,    \* the run that wrote the first file and not yet the second, 0 for none
    api,        \* the configuration the running API loaded
    worker      \* what the worker's promise of tokens is

vars == <<limited, configFile, secretsFile, inits, writing, api, worker>>

Init ==
    /\ limited \in BOOLEAN
    /\ configFile = None /\ secretsFile = None
    /\ inits = 0 /\ writing = 0
    /\ api = None
    /\ worker = Unread

\* Refuses to overwrite either file.
InitWritesConfig ==
    /\ writing = 0 /\ inits < MaxInits
    /\ configFile = None /\ secretsFile = None
    /\ inits' = inits + 1
    /\ writing' = inits + 1
    /\ configFile' = Generated(inits + 1)
    /\ UNCHANGED <<limited, secretsFile, api, worker>>

InitWritesSecrets ==
    /\ writing # 0
    /\ secretsFile' = Tokens(writing)
    /\ writing' = 0
    /\ UNCHANGED <<limited, configFile, inits, api, worker>>

InitDies ==
    /\ writing # 0
    /\ writing' = 0
    /\ UNCHANGED <<limited, configFile, secretsFile, inits, api, worker>>

\* An operator writes another configuration, or removes a file to generate it again.
Edit(config) ==
    /\ configFile' = config
    /\ UNCHANGED <<limited, secretsFile, inits, writing, api, worker>>

RemoveSecrets ==
    /\ secretsFile' = None
    /\ UNCHANGED <<limited, configFile, inits, writing, api, worker>>

\* loadServiceAuthenticator; it throws for an invalid configuration.
ApiStarts ==
    /\ api = None
    /\ IF configFile = None THEN limited ELSE Valid(configFile)
    /\ api' = IF configFile = None THEN Placeholder ELSE configFile
    /\ UNCHANGED <<limited, configFile, secretsFile, inits, writing, worker>>

ApiStops ==
    /\ api # None
    /\ api' = None
    /\ UNCHANGED <<limited, configFile, secretsFile, inits, writing, worker>>

\* The first call of loadServiceTokens; a rejection is kept as well.
WorkerLoads ==
    /\ worker = Unread
    /\ worker' = IF secretsFile = None THEN Rejected ELSE secretsFile
    /\ UNCHANGED <<limited, configFile, secretsFile, inits, writing, api>>

WorkerRestarts ==
    /\ worker # Unread
    /\ worker' = Unread
    /\ UNCHANGED <<limited, configFile, secretsFile, inits, writing, api>>

Next ==
    \/ InitWritesConfig \/ InitWritesSecrets \/ InitDies
    \/ \E config \in Edits \cup {None} : Edit(config)
    \/ RemoveSecrets
    \/ ApiStarts \/ ApiStops \/ WorkerLoads \/ WorkerRestarts

Spec == Init /\ [][Next]_vars

-----------------------------------------------------------------------------
(* What the running API answers to a request; it keeps nothing of it.      *)

\* principalForToken; at most one principal of a valid configuration has a token.
PrincipalFor(token) == {p \in api.principals : p.token = token}

Authenticate(route, token) ==
    IF route \in OpenRoutes \/ (limited /\ route \in BrowserRoutes) THEN "passes"
    ELSE IF route \notin ServiceRoutes THEN "forbidden"
    ELSE IF PrincipalFor(token) = {} THEN "unauthorized"
    ELSE IF \E p \in PrincipalFor(token) : ScopeOf[route] \notin p.scopes THEN "forbidden"
    ELSE "passes"

\* The hook in front of every handler.
Answer(route, token) ==
    LET verdict == Authenticate(route, token)
    IN IF verdict # "passes" THEN verdict
       ELSE IF limited /\ route \in AnchorRoutes THEN "unavailable"
       ELSE "served"

(* The worker's own answers: api, for the tools, and the HTTP proxy.       *)
ToolAnswer(route, principal) ==
    IF worker = Rejected THEN "throws" ELSE Answer(route, worker[principal])

ProxyAnswer(route) ==
    IF route = "health" THEN "served"
    ELSE IF route \notin DOMAIN PrincipalForRoute THEN "not found"
    ELSE IF worker = Rejected THEN "bad gateway"
    ELSE Answer(route, worker[PrincipalForRoute[route]])

Served(route, token) == ScopeOf[route] # "state:read" /\ Answer(route, token) = "served"

Duties == {{"github:verify-ci", "evidence:collect", "decision:evaluate"}, {"approval:create"},
           {"permit:execute"},
           {"scenario:select", "network:select", "evidence:expire", "evidence:raw:read",
            "simulation:run", "system:reset"}}

\* Whatever configuration an operator wrote, no token of a running API combines two
\* of the duties: to evaluate, to approve, to execute and to operate
\* (docs/SEGURANCA.md:37).
OneDutyPerToken ==
    api # None /\ ~limited =>
        \A token \in {p.token : p \in api.principals} :
            \E duty \in Duties : \A route \in ServiceRoutes :
                Served(route, token) => ScopeOf[route] \in duty

\* The running API loaded what was generated together with the worker's tokens.
Fits == \E n \in 1..inits : api = Generated(n) /\ worker = Tokens(n)

\* Such an API refuses no request the worker makes over HTTP or for an MCP tool:
\* the routes, the principals and the ceilings of four files agree.
WorkerIsServed ==
    Fits =>
        /\ \A call \in ToolCalls : ToolAnswer(call[1], call[2]) \in {"served", "unavailable"}
        /\ \A route \in DOMAIN PrincipalForRoute :
              ProxyAnswer(route) \in {"served", "unavailable"}
=============================================================================
