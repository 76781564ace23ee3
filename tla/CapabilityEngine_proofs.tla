----------------------- MODULE CapabilityEngine_proofs -----------------------
(***************************************************************************)
(* Theorems about CapabilityEngine, for every registry, policy file and    *)
(* number of threads and processes.                                        *)
(***************************************************************************)
EXTENDS CapabilityEngine, TLAPS

LEMMA StatusesTyped ==
    /\ EngineOutcomes \subseteq Outcome
    /\ Unsuccessful \in EngineOutcomes /\ Refused \in EngineOutcomes
    /\ Rehearsed \in EngineOutcomes
BY DEF EngineOutcomes, Outcome, ActionResultStatus, VerificationStatus, Unsuccessful, Refused,
       Rehearsed, Executed

LEMMA NoActionTyped == NoAction \in Action
BY EngineAssumption, StatusesTyped DEF NoAction, Action, Stage

LEMMA LoadedTyped ==
    ASSUME TypeOK, NEW p \in Processes
    PROVE  Loaded(p) \in File
BY DEF TypeOK, Loaded

LEMMA ResolveTyped ==
    ASSUME NEW i
    PROVE  Resolve(i) \in Capabilities
BY EngineAssumption DEF Resolve

LEMMA EngineInit == Init => EngineInductive
<1> SUFFICES ASSUME Init PROVE EngineInductive
  OBVIOUS
<1>1. TypeOK
  BY NoActionTyped, EngineAssumption DEF Init, TypeOK, File, Override, NoOverride
<1>2. ActionsSound /\ EngineContract /\ ApiObeysReload
  BY DEF Init, NoAction, ActionsSound, EngineContract, ApiObeysReload, ObeysReload
<1>3. PolicyVersions
  BY EngineAssumption DEF Init, NoAction, PolicyVersions
<1>4. QED
  BY <1>1, <1>2, <1>3 DEF EngineInductive

\* A thread's step preserves the invariant if what it leaves in the thread's
\* own action is sound.
LEMMA ThreadFrame ==
    ASSUME EngineInductive, NEW t \in Threads, NEW x \in Action,
           action' = [action EXCEPT ![t] = x],
           UNCHANGED <<file, reloaded>>,
           cache' \in [Processes -> File \cup {NotLoaded}], calls' \in Nat,
           cache'[Api] # NotLoaded => cache'[Api].version >= reloaded,
           x.stage \in {"compiled", "allowed", "ready"} => ~x.acted,
           x.stage \in {"allowed", "ready"} => x.outcome = Unsuccessful,
           x.stage = "executed" /\ x.acted =>
               x.outcome.result = "SUCCESS" /\ "done" \in Executions[x.capability],
           x.stage = "executed" /\ ~x.acted => x.outcome.result = "DRY_RUN_ONLY",
           x.stage = "returned" =>
               x.outcome \in EngineOutcomes /\ (x.acted => ActsOutside(x.outcome)),
           x.since <= reloaded,
           ProcessOf[t] = Api /\ x.stage \in {"allowed", "ready", "executed"} =>
               x.asOf >= x.since
    PROVE  EngineInductive'
<1>1. /\ action'[t] = x
      /\ \A u \in Threads \ {t} : action'[u] = action[u]
      /\ action' \in [Threads -> Action]
  BY DEF EngineInductive, TypeOK
<1>2. TypeOK'
  BY <1>1 DEF EngineInductive, TypeOK
<1>3. ActionsSound'
  BY <1>1 DEF EngineInductive, ActionsSound
<1>4. PolicyVersions'
  BY <1>1 DEF EngineInductive, PolicyVersions
<1>5. EngineContract'
  BY <1>1 DEF EngineInductive, EngineContract
<1>6. ApiObeysReload'
  BY <1>1 DEF EngineInductive, ApiObeysReload, ObeysReload
<1>7. QED
  BY <1>2, <1>3, <1>4, <1>5, <1>6 DEF EngineInductive

LEMMA EngineThreadStep ==
    ASSUME EngineInductive, NEW t \in Threads,
           (\E i \in Intents : Start(t, i)) \/ Step(t)
    PROVE  EngineInductive'
<1> DEFINE a == action[t]
<1>0. /\ a \in Action
      /\ cache \in [Processes -> File \cup {NotLoaded}]
      /\ calls \in Nat /\ reloaded \in Nat
      /\ cache[Api] # NotLoaded => cache[Api].version >= reloaded
      /\ reloaded <= file.version
      /\ a.since <= reloaded /\ a.since \in Nat /\ a.asOf \in Nat
      /\ ProcessOf[t] = Api /\ a.stage \in {"allowed", "ready", "executed"} => a.asOf >= a.since
      /\ ProcessOf[t] \in Processes
      /\ TypeOK
  BY EngineAssumption
     DEF EngineInductive, TypeOK, PolicyVersions, ApiObeysReload, ObeysReload, Action
<1>1. ASSUME NEW i \in Intents, Start(t, i) PROVE EngineInductive'
  <2> DEFINE x == [NoAction EXCEPT !.stage = "compiled", !.capability = Resolve(i),
                                   !.since = reloaded]
  <2>1. /\ x \in Action
        /\ x.stage = "compiled" /\ ~x.acted /\ x.since = reloaded
    BY <1>0, NoActionTyped, ResolveTyped DEF NoAction, Action, Stage
  <2>2. action' = [action EXCEPT ![t] = x]
    BY <1>1 DEF Start
  <2>3. UNCHANGED <<file, cache, reloaded>> /\ calls' \in Nat
    <3>1. calls' = calls + 1 /\ UNCHANGED <<file, cache, reloaded>>
      BY <1>1 DEF Start
    <3>2. QED
      BY <1>0, <3>1
  <2> HIDE DEF x
  <2>4. /\ cache' \in [Processes -> File \cup {NotLoaded}]
        /\ cache'[Api] # NotLoaded => cache'[Api].version >= reloaded
        /\ x.since <= reloaded
    BY <1>0, <2>1, <2>3
  <2>5. QED
    BY <2>1, <2>2, <2>3, <2>4, ThreadFrame
<1>2. CASE CheckPolicy(t)
  <2> DEFINE p == ProcessOf[t]
             x == [a EXCEPT !.asOf = Loaded(p).version,
                            !.stage = IF Denied(a.capability, Loaded(p).entries)
                                      THEN "returned" ELSE "allowed",
                            !.outcome = Unsuccessful]
  <2>1. Loaded(p) \in File /\ Loaded(p).version \in Nat
    BY <1>0, LoadedTyped DEF File
  <2>2. ~a.acted
    BY <1>2 DEF CheckPolicy, EngineInductive, ActionsSound
  <2>3. /\ x \in Action
        /\ x.stage \in {"returned", "allowed"} /\ ~x.acted /\ x.outcome = Unsuccessful
        /\ x.since = a.since /\ x.asOf = Loaded(p).version
    BY <1>0, <2>1, <2>2, StatusesTyped DEF Action, Stage
  <2>4. p = Api => x.asOf >= x.since
    BY <1>0, <2>1, <2>3 DEF Loaded
  <2>5. /\ cache' \in [Processes -> File \cup {NotLoaded}]
        /\ cache'[Api] # NotLoaded => cache'[Api].version >= reloaded
    BY <1>0, <1>2, <2>1, EngineAssumption DEF CheckPolicy, Loaded
  <2> HIDE DEF x
  <2>6. /\ action' = [action EXCEPT ![t] = x]
        /\ UNCHANGED <<file, reloaded, calls>>
    BY <1>2 DEF CheckPolicy, x
  <2>7. QED
    BY <1>0, <2>3, <2>4, <2>5, <2>6, StatusesTyped, ThreadFrame
<1>3. CASE CheckPrecondition(t)
  <2>1. PICK ok \in BOOLEAN :
            action' = [action EXCEPT ![t].stage = IF ok THEN "ready" ELSE "returned",
                                     ![t].outcome = IF ok THEN @ ELSE Refused]
    <3>1. Preconditions[a.capability] \subseteq BOOLEAN
      BY <1>0, EngineAssumption DEF Action
    <3>2. QED
      BY <1>3, <3>1 DEF CheckPrecondition
  <2> DEFINE x == [a EXCEPT !.stage = IF ok THEN "ready" ELSE "returned",
                            !.outcome = IF ok THEN a.outcome ELSE Refused]
  <2>2. ~a.acted /\ a.outcome = Unsuccessful /\ a.stage = "allowed"
    BY <1>3 DEF CheckPrecondition, EngineInductive, ActionsSound
  <2>3. /\ x \in Action
        /\ x.stage = "ready" \/ (x.stage = "returned" /\ x.outcome = Refused)
        /\ x.stage = "ready" => x.outcome = Unsuccessful
        /\ ~x.acted /\ x.since = a.since /\ x.asOf = a.asOf
    BY <1>0, <2>2, StatusesTyped DEF Action, Stage
  <2> HIDE DEF x
  <2>4. /\ action' = [action EXCEPT ![t] = x]
        /\ UNCHANGED <<file, cache, reloaded, calls>>
    BY <1>3, <2>1 DEF CheckPrecondition, x
  <2>5. QED
    BY <1>0, <2>2, <2>3, <2>4, StatusesTyped, ThreadFrame
<1>4. CASE Execute(t)
  <2>1. PICK y \in Executions[a.capability] :
            action' = [action EXCEPT
                ![t].stage = IF ResultOf(y) = "FAILED" THEN "returned" ELSE "executed",
                ![t].acted = y # "dry_run",
                ![t].outcome = [result |-> ResultOf(y), verification |-> "SKIPPED"]]
    BY <1>4 DEF Execute
  <2>2. y \in {"done", "dry_run", "error"}
    BY <1>0, EngineAssumption DEF Action
  <2> DEFINE x == [a EXCEPT !.stage = IF ResultOf(y) = "FAILED" THEN "returned" ELSE "executed",
                            !.acted = y # "dry_run",
                            !.outcome = [result |-> ResultOf(y), verification |-> "SKIPPED"]]
  <2>3. /\ x \in Action /\ x.since = a.since /\ x.asOf = a.asOf /\ x.capability = a.capability
        /\ x.acted <=> y # "dry_run"
        /\ x.outcome = [result |-> ResultOf(y), verification |-> "SKIPPED"]
        /\ x.stage = IF ResultOf(y) = "FAILED" THEN "returned" ELSE "executed"
    BY <1>0, <2>2 DEF Action, Stage, Outcome, ResultOf, ActionResultStatus, VerificationStatus
  <2> HIDE DEF x
  <2>4. x.stage = "executed" =>
            \/ x.acted /\ x.outcome.result = "SUCCESS" /\ "done" \in Executions[x.capability]
            \/ ~x.acted /\ x.outcome.result = "DRY_RUN_ONLY"
    BY <2>1, <2>2, <2>3 DEF ResultOf
  <2>5. x.stage = "returned" => x.outcome = Unsuccessful
    BY <2>2, <2>3 DEF ResultOf, Unsuccessful
  <2>6. /\ action' = [action EXCEPT ![t] = x]
        /\ UNCHANGED <<file, cache, reloaded, calls>> /\ a.stage = "ready"
    BY <1>4, <2>1 DEF Execute, x
  <2>7. x.stage \in {"returned", "executed"}
    BY <2>3
  <2>8. QED
    BY <1>0, <2>3, <2>4, <2>5, <2>6, <2>7, StatusesTyped, ThreadFrame DEF ActsOutside
<1>5. CASE Verify(t)
  <2>1. PICK v \in IF a.acted THEN Verifications[a.capability] ELSE {"SKIPPED"} :
            action' = [action EXCEPT ![t].stage = "returned", ![t].outcome.verification = v]
    BY <1>5 DEF Verify
  <2> DEFINE x == [a EXCEPT !.stage = "returned", !.outcome.verification = v]
  <2>2. /\ a.acted => a.outcome.result = "SUCCESS" /\ v \in {"PASSED", "FAILED", "INCONCLUSIVE"}
        /\ ~a.acted => a.outcome.result = "DRY_RUN_ONLY" /\ v = "SKIPPED"
        /\ a.outcome \in Outcome
    BY <1>0, <1>5, <2>1, EngineAssumption DEF Verify, EngineInductive, ActionsSound, Action
  <2>3. [a.outcome EXCEPT !.verification = v]
            = IF a.acted THEN Executed(v) ELSE Rehearsed
    BY <2>2 DEF Executed, Rehearsed, Outcome
  <2>4. [a.outcome EXCEPT !.verification = v] \in EngineOutcomes
    BY <2>2, <2>3 DEF EngineOutcomes
  <2>5. /\ x \in Action /\ x.since = a.since /\ x.asOf = a.asOf /\ x.stage = "returned"
        /\ x.outcome = [a.outcome EXCEPT !.verification = v]
        /\ x.acted = a.acted
    BY <1>0, <2>4, StatusesTyped DEF Action, Stage
  <2>6. x.acted => ActsOutside(x.outcome)
    BY <2>3, <2>5 DEF ActsOutside, Executed
  <2> HIDE DEF x
  <2>7. /\ action' = [action EXCEPT ![t] = x]
        /\ UNCHANGED <<file, cache, reloaded, calls>>
    <3>1. [action EXCEPT ![t].stage = "returned", ![t].outcome.verification = v]
              = [action EXCEPT ![t] = x]
      BY <1>0 DEF x, TypeOK
    <3>2. QED
      BY <1>5, <2>1, <3>1 DEF Verify
  <2>8. QED
    BY <1>0, <2>4, <2>5, <2>6, <2>7, ThreadFrame
<1>6. CASE Return(t)
  <2>1. NoAction.stage = "idle" /\ NoAction.since = 0
    BY DEF NoAction
  <2>2. /\ action' = [action EXCEPT ![t] = NoAction]
        /\ UNCHANGED <<file, cache, reloaded, calls>>
    BY <1>6 DEF Return
  <2>3. /\ cache' \in [Processes -> File \cup {NotLoaded}] /\ calls' \in Nat
        /\ cache'[Api] # NotLoaded => cache'[Api].version >= reloaded
        /\ NoAction.since <= reloaded
    BY <1>0, <2>1, <2>2
  <2>4. QED
    BY <2>1, <2>2, <2>3, NoActionTyped, ThreadFrame
<1>7. QED
  BY <1>1, <1>2, <1>3, <1>4, <1>5, <1>6 DEF Step

LEMMA EngineAdministration ==
    ASSUME EngineInductive,
           EditPolicy \/ ReloadPolicy \/ ListCapabilities
    PROVE  EngineInductive'
<1>1. CASE EditPolicy
  <2>1. file' \in File /\ file'.version = file.version + 1 /\ file.version \in Nat
    BY <1>1, EngineAssumption DEF EngineInductive, TypeOK, EditPolicy, File
  <2>2. TypeOK' /\ PolicyVersions'
    BY <1>1, <2>1 DEF EngineInductive, TypeOK, EditPolicy, PolicyVersions
  <2>3. ActionsSound' /\ EngineContract' /\ ApiObeysReload'
    BY <1>1 DEF EngineInductive, EditPolicy, ActionsSound, EngineContract, ApiObeysReload,
                ObeysReload
  <2>4. QED
    BY <2>2, <2>3 DEF EngineInductive
<1>2. CASE ReloadPolicy
  <2>1. TypeOK'
    BY <1>2, EngineAssumption DEF EngineInductive, TypeOK, ReloadPolicy, File
  <2>2. PolicyVersions'
    <3>1. \A t \in Threads : action[t].since \in Nat /\ action[t].since <= reloaded
      BY DEF EngineInductive, TypeOK, Action, PolicyVersions
    <3>2. file.version \in Nat /\ reloaded \in Nat /\ reloaded <= file.version
      BY DEF EngineInductive, TypeOK, File, PolicyVersions
    <3>3. cache'[Api] = NotLoaded
      BY <1>2, EngineAssumption DEF EngineInductive, TypeOK, ReloadPolicy
    <3>4. QED
      BY <1>2, <3>1, <3>2, <3>3 DEF ReloadPolicy, PolicyVersions
  <2>3. ActionsSound' /\ EngineContract' /\ ApiObeysReload'
    BY <1>2 DEF EngineInductive, ReloadPolicy, ActionsSound, EngineContract, ApiObeysReload,
                ObeysReload
  <2>4. QED
    BY <2>1, <2>2, <2>3 DEF EngineInductive
<1>3. CASE ListCapabilities
  <2>1. TypeOK'
    BY <1>3, LoadedTyped, EngineAssumption DEF EngineInductive, TypeOK, ListCapabilities
  <2>2. PolicyVersions'
    BY <1>3, EngineAssumption
       DEF EngineInductive, TypeOK, ListCapabilities, PolicyVersions, Loaded
  <2>3. ActionsSound' /\ EngineContract' /\ ApiObeysReload'
    BY <1>3 DEF EngineInductive, ListCapabilities, ActionsSound, EngineContract, ApiObeysReload,
                ObeysReload
  <2>4. QED
    BY <2>1, <2>2, <2>3 DEF EngineInductive
<1>4. QED
  BY <1>1, <1>2, <1>3

LEMMA EngineRestart ==
    ASSUME EngineInductive, NEW p \in Processes, Restart(p)
    PROVE  EngineInductive'
<1>1. \A t \in Threads : action'[t] \in {action[t], NoAction}
  BY DEF Restart
<1>2. /\ action' \in [Threads -> Action]
      /\ cache' \in [Processes -> File \cup {NotLoaded}]
  BY NoActionTyped DEF Restart, EngineInductive, TypeOK
<1>3. TypeOK'
  BY <1>2 DEF Restart, EngineInductive, TypeOK
<1>4. NoAction.stage = "idle" /\ NoAction.since = 0
  BY DEF NoAction
<1>5. ActionsSound' /\ EngineContract' /\ ApiObeysReload'
  BY <1>1, <1>4 DEF Restart, EngineInductive, ActionsSound, EngineContract, ApiObeysReload,
                    ObeysReload
<1>6. PolicyVersions'
  BY <1>1, <1>4, EngineAssumption DEF Restart, EngineInductive, TypeOK, PolicyVersions
<1>7. QED
  BY <1>3, <1>5, <1>6 DEF EngineInductive

LEMMA EngineNext == EngineInductive /\ [Next]_vars => EngineInductive'
<1>1. ASSUME EngineInductive, Next PROVE EngineInductive'
  BY <1>1, EngineThreadStep, EngineAdministration, EngineRestart DEF Next
<1>2. ASSUME EngineInductive, UNCHANGED vars PROVE EngineInductive'
  BY <1>2 DEF vars, EngineInductive, TypeOK, ActionsSound, PolicyVersions, EngineContract,
              ApiObeysReload, ObeysReload
<1>3. QED
  BY <1>1, <1>2

LEMMA EngineAlways == Spec => []EngineInductive
<1>1. QED
  BY EngineInit, EngineNext, PTL DEF Spec

\* The policy copies and the action records keep their types.
THEOREM EngineTypeCorrect == Spec => []TypeOK
<1>1. EngineInductive => TypeOK
  BY DEF EngineInductive
<1>2. QED
  BY <1>1, EngineAlways, PTL

\* Whatever the registered capabilities do, the engine returns an outcome plan
\* execution can interpret, and an action that acted does not hide it.
THEOREM EngineKeepsContract == Spec => []EngineContract
<1>1. EngineInductive => EngineContract
  BY DEF EngineInductive
<1>2. QED
  BY <1>1, EngineAlways, PTL

\* The API process goes by no policy older than the last answered reload.
THEOREM ApiAlwaysObeysReload == Spec => []ApiObeysReload
<1>1. EngineInductive => ApiObeysReload
  BY DEF EngineInductive
<1>2. QED
  BY <1>1, EngineAlways, PTL
=============================================================================
