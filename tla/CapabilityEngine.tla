-------------------------- MODULE CapabilityEngine --------------------------
(***************************************************************************)
(* The governed capability gateway: plan_compiler resolves an intent to a  *)
(* registered capability, execution_engine takes it through policy,        *)
(* precondition, execution and independent verification, and policy.py     *)
(* decides from the code's defaults and capability_policy.yaml, of which   *)
(* every process keeps a copy.  The API server and the Temporal worker are *)
(* two processes; the admin endpoint that reloads the policy runs in one.  *)
(***************************************************************************)
EXTENDS Naturals, CapabilityModels

CONSTANTS Capabilities,      \* the ids in the registry
          ManualStep,        \* ops.manual_step, the fallback capability
          Intents,           \* intent types a plan's steps are mapped to
          IntentCapability,  \* INTENT_TO_CAPABILITY, on the types it knows
          CodeDefault,       \* the registry's risk level and autonomy mode
          Preconditions,     \* what precondition_check() may answer
          Executions,        \* what execute() may do
          Verifications,     \* what verify() may find after a real execution, or raise
          Overrides,         \* the entries an administrator may write
          Unset,             \* a field the file leaves out, or misspells
          Processes,
          Api,               \* the process that serves the admin endpoints
          Threads,           \* threads that execute actions
          ProcessOf,
          NotLoaded,         \* an empty policy cache
          MaxEdits,          \* bound: edits of the policy file
          MaxCalls           \* bound: actions executed

RiskLevel == {"READ_ONLY", "LOW", "MEDIUM", "HIGH", "PROHIBITED"}

AutonomyMode == {"AUTOMATIC", "HUMAN_APPROVAL_REQUIRED", "DUAL_APPROVAL_REQUIRED", "PROHIBITED"}

Override == [risk : RiskLevel \cup {Unset}, autonomy : AutonomyMode \cup {Unset}]

NoOverride == [risk |-> Unset, autonomy |-> Unset]

ASSUME EngineAssumption ==
    /\ ManualStep \in Capabilities
    /\ DOMAIN IntentCapability \subseteq Intents
    /\ \A i \in DOMAIN IntentCapability : IntentCapability[i] \in Capabilities
    /\ CodeDefault \in [Capabilities -> [risk : RiskLevel, autonomy : AutonomyMode]]
    /\ Preconditions \in [Capabilities -> SUBSET BOOLEAN]
    /\ Executions \in [Capabilities -> SUBSET {"done", "dry_run", "error"}]
    /\ Verifications \in [Capabilities -> SUBSET {"PASSED", "FAILED", "INCONCLUSIVE"}]
    /\ \A c \in Capabilities : /\ Preconditions[c] # {}
                               /\ Executions[c] # {}
                               /\ "done" \in Executions[c] => Verifications[c] # {}
    /\ Overrides \subseteq Override
    /\ Unset \notin RiskLevel \cup AutonomyMode
    /\ ProcessOf \in [Threads -> Processes]
    /\ Api \in Processes
    /\ MaxEdits \in Nat
    /\ MaxCalls \in Nat

VARIABLES
    file,      \* capability_policy.yaml as the loader reads it, with its version
    cache,     \* policy._overrides_cache of each process
    reloaded,  \* the version of the file when the reload endpoint last answered
    action,    \* the action each thread is executing
    calls      \* number of actions executed so far

vars == <<file, cache, reloaded, action, calls>>

\* An unreadable file reads as one without entries.
File == [version : Nat, entries : [Capabilities -> Override]]

Stage == {"idle", "compiled", "allowed", "ready", "executed", "returned"}

Action == [stage : Stage, capability : Capabilities, since : Nat, asOf : Nat,
           acted : BOOLEAN, outcome : Outcome]

NoAction == [stage |-> "idle", capability |-> ManualStep, since |-> 0, asOf |-> 0,
             acted |-> FALSE, outcome |-> Unsuccessful]

-----------------------------------------------------------------------------
(* plan_compiler and policy                                                *)

\* Mutation of Resolve: an unknown intent is looked up without a fallback.
ResolveKnown(i) == IF i \in DOMAIN IntentCapability THEN IntentCapability[i] ELSE Unset

\* Unknown intents become manual steps, never a guess.
Resolve(i) == IF i \in DOMAIN IntentCapability THEN IntentCapability[i] ELSE ManualStep

\* policy._load_overrides: the process's copy, read from the file when there is none.
Loaded(p) == IF cache[p] = NotLoaded THEN file ELSE cache[p]

\* policy._effective_risk_and_autonomy and evaluate_action: an entry wins over
\* the code's default, a field it lacks or misspells does not.
Denied(c, entries) ==
    LET risk == IF entries[c].risk = Unset THEN CodeDefault[c].risk ELSE entries[c].risk
        autonomy == IF entries[c].autonomy = Unset THEN CodeDefault[c].autonomy
                                                   ELSE entries[c].autonomy
    IN  risk = "PROHIBITED" \/ autonomy = "PROHIBITED"

-----------------------------------------------------------------------------
(* execution_engine.execute_compiled_action                                *)

\* The API's handlers run one at a time on its event loop, which an endpoint that
\* executes actions does not give up in between.
EventLoopFree == \A t \in Threads : ProcessOf[t] = Api => action[t].stage = "idle"

Start(t, i) ==
    /\ action[t].stage = "idle"
    /\ ProcessOf[t] = Api => EventLoopFree
    /\ calls < MaxCalls
    /\ calls' = calls + 1
    /\ action' = [action EXCEPT ![t] = [NoAction EXCEPT !.stage = "compiled",
                                                        !.capability = Resolve(i),
                                                        !.since = reloaded]]
    /\ UNCHANGED <<file, cache, reloaded>>

\* Step 0: the policy, as this process knows it.
CheckPolicy(t) ==
    LET p == ProcessOf[t] IN
    /\ action[t].stage = "compiled"
    /\ cache' = [cache EXCEPT ![p] = Loaded(p)]
    /\ action' = [action EXCEPT
            ![t].asOf = Loaded(p).version,
            ![t].stage = IF Denied(action[t].capability, Loaded(p).entries)
                         THEN "returned" ELSE "allowed",
            ![t].outcome = Unsuccessful]
    /\ UNCHANGED <<file, reloaded, calls>>

\* Step 1: the precondition, checked now; an exception counts as a refusal.
CheckPrecondition(t) ==
    /\ action[t].stage = "allowed"
    /\ \E ok \in Preconditions[action[t].capability] :
          action' = [action EXCEPT ![t].stage = IF ok THEN "ready" ELSE "returned",
                                   ![t].outcome = IF ok THEN @ ELSE Refused]
    /\ UNCHANGED <<file, cache, reloaded, calls>>

\* Mutation of ResultOf: what execute() returned counts as done.
ResultTrusted(x) == IF x = "error" THEN "FAILED" ELSE "SUCCESS"

\* The status of what execute() returned or raised.
ResultOf(x) ==
    IF x = "error" THEN "FAILED" ELSE IF x = "dry_run" THEN "DRY_RUN_ONLY" ELSE "SUCCESS"

\* Step 3.  An execution that fails may have acted before it failed, a dry run
\* has not; a failed one is not verified.
Execute(t) ==
    /\ action[t].stage = "ready"
    /\ \E x \in Executions[action[t].capability] :
          action' = [action EXCEPT
              ![t].stage = IF ResultOf(x) = "FAILED" THEN "returned" ELSE "executed",
              ![t].acted = x # "dry_run",
              ![t].outcome = [result |-> ResultOf(x), verification |-> "SKIPPED"]]
    /\ UNCHANGED <<file, cache, reloaded, calls>>

\* Step 4: verify() looks at the real state, except after a dry run, which has
\* none to look at; a verify() that raises is inconclusive.
Verify(t) ==
    /\ action[t].stage = "executed"
    /\ \E v \in IF action[t].acted THEN Verifications[action[t].capability] ELSE {"SKIPPED"} :
          action' = [action EXCEPT ![t].stage = "returned", ![t].outcome.verification = v]
    /\ UNCHANGED <<file, cache, reloaded, calls>>

\* The executor takes the record.
Return(t) ==
    /\ action[t].stage = "returned"
    /\ action' = [action EXCEPT ![t] = NoAction]
    /\ UNCHANGED <<file, cache, reloaded, calls>>

-----------------------------------------------------------------------------
(* The administrator, and restarts                                         *)

EditPolicy ==
    /\ file.version < MaxEdits
    /\ \E c \in Capabilities, o \in Overrides :
          file' = [version |-> file.version + 1, entries |-> [file.entries EXCEPT ![c] = o]]
    /\ UNCHANGED <<cache, reloaded, action, calls>>

\* Mutation of ReloadPolicy: the endpoint answers and the cache stays.
ReloadNothing ==
    /\ EventLoopFree
    /\ reloaded' = file.version
    /\ UNCHANGED <<file, cache, action, calls>>

\* POST /admin/capabilities/reload-policy, in the API process.
ReloadPolicy ==
    /\ EventLoopFree
    /\ reloaded' = file.version
    /\ cache' = [cache EXCEPT ![Api] = NotLoaded]
    /\ UNCHANGED <<file, action, calls>>

\* GET /admin/capabilities evaluates the policy and so fills the cache.
ListCapabilities ==
    /\ EventLoopFree
    /\ cache' = [cache EXCEPT ![Api] = Loaded(Api)]
    /\ UNCHANGED <<file, reloaded, action, calls>>

\* A process dies and comes back: its actions are gone and its cache is empty.
Restart(p) ==
    /\ cache' = [cache EXCEPT ![p] = NotLoaded]
    /\ action' = [t \in Threads |-> IF ProcessOf[t] = p THEN NoAction ELSE action[t]]
    /\ UNCHANGED <<file, reloaded, calls>>

-----------------------------------------------------------------------------
Init ==
    /\ file = [version |-> 0, entries |-> [c \in Capabilities |-> NoOverride]]
    /\ cache = [p \in Processes |-> NotLoaded]
    /\ reloaded = 0
    /\ action = [t \in Threads |-> NoAction]
    /\ calls = 0

Step(t) == CheckPolicy(t) \/ CheckPrecondition(t) \/ Execute(t) \/ Verify(t) \/ Return(t)

Next ==
    \/ \E t \in Threads : (\E i \in Intents : Start(t, i)) \/ Step(t)
    \/ EditPolicy
    \/ ReloadPolicy
    \/ ListCapabilities
    \/ \E p \in Processes : Restart(p)

Spec == Init /\ [][Next]_vars

-----------------------------------------------------------------------------
(* Properties                                                              *)

\* Every variable holds policy data and action records of its type.
TypeOK ==
    /\ file \in File
    /\ cache \in [Processes -> File \cup {NotLoaded}]
    /\ reloaded \in Nat
    /\ action \in [Threads -> Action]
    /\ calls \in Nat

\* What plan execution relies on: an engine call returns one of the outcomes
\* that EngineOutcomes lists -- success only with a verification that ran --
\* and a call that acted on the outside world does not look as if it had been
\* refused or rehearsed.
EngineContract ==
    \A t \in Threads : action[t].stage = "returned" =>
        /\ action[t].outcome \in EngineOutcomes
        /\ action[t].acted => ActsOutside(action[t].outcome)

\* An action that passed the policy check in process p went by a policy no
\* older than the last reload that had answered when the action started.
ObeysReload(p) ==
    \A t \in Threads :
        ProcessOf[t] = p /\ action[t].stage \in {"allowed", "ready", "executed"} =>
            action[t].asOf >= action[t].since

\* The reload endpoint does what it says for the process it runs in, whatever
\* edits, previews and restarts come between.
ApiObeysReload == ObeysReload(Api)

\* execution_engine: "If an admin has since marked this capability DENIED via
\* config/capability_policy.yaml ..., refuse to execute regardless"; the reload
\* endpoint: "force a live reload ... without a process restart".
EveryProcessObeysReload == \A p \in Processes : ObeysReload(p)

-----------------------------------------------------------------------------
(* Why they hold: an inductive invariant                                   *)

\* Nothing has acted before it is executed; what awaits verification was done
\* for real by a capability that can be verified, or was rehearsed.
ActionsSound ==
    \A t \in Threads :
        LET x == action[t] IN
        /\ x.stage \in {"compiled", "allowed", "ready"} => ~x.acted
        /\ x.stage \in {"allowed", "ready"} => x.outcome = Unsuccessful
        /\ x.stage = "executed" /\ x.acted =>
              x.outcome.result = "SUCCESS" /\ "done" \in Executions[x.capability]
        /\ x.stage = "executed" /\ ~x.acted => x.outcome.result = "DRY_RUN_ONLY"

\* Reloads are of versions the file has had; the API's copy is not older than
\* the last one, which no action started after.
PolicyVersions ==
    /\ reloaded <= file.version
    /\ cache[Api] # NotLoaded => cache[Api].version >= reloaded
    /\ \A t \in Threads : action[t].since <= reloaded

EngineInductive ==
    /\ TypeOK
    /\ ActionsSound
    /\ PolicyVersions
    /\ EngineContract
    /\ ApiObeysReload
=============================================================================
