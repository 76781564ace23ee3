--------------------------- MODULE BlueprintRunner ---------------------------
(***************************************************************************)
(* The blueprint runner of NemoClaw (blueprint/runner.ts and the part of   *)
(* blueprint/runtime-identity.ts it calls): actionApply creates a sandbox, *)
(* an inference provider and, for some blueprints, a runtime identity      *)
(* provider, and keeps on disk, in the plan.json of its run, which of them *)
(* it made; when a step fails it removes what it made; actionRollback does *)
(* so later, in another process, from the plan alone.                      *)
(*                                                                         *)
(* All runs name the same sandbox and providers: that is where they meet.  *)
(* A step is one openshell command or one save of the plan.  Inspecting a  *)
(* resource and then removing it is one step (a resource that is gone is   *)
(* tolerated by both commands), and so is inspecting what an attachment    *)
(* needs and attaching.  Any command and any save may fail, an apply or a  *)
(* rollback may die between two steps or in a save, and a rollback may be  *)
(* repeated, or overlap an apply.                                          *)
(***************************************************************************)
EXTENDS Naturals, FiniteSets

CONSTANTS
    Runs,           \* the runs of apply
    WithIdentity,   \* those whose blueprint asks for a runtime identity
    None,           \* no resource
    Outside,        \* the maker of a resource no run made
    MaxFaults,      \* how many commands and saves may fail, or processes die
    MaxRollbacks    \* how many rollbacks are started

ASSUME RunsAssumption ==
    /\ WithIdentity \subseteq Runs
    /\ None \notin Runs
    /\ Outside \notin Runs
    /\ None # Outside
    /\ MaxFaults \in Nat
    /\ MaxRollbacks \in Nat

VARIABLES
    resource,   \* who made the sandbox and the providers that exist now
    attached,   \* is the identity provider attached to the sandbox?
    routed,     \* has openshell accepted the blueprint's inference route?
    plan,       \* plan.json of each run
    apply,      \* the process applying each run
    rollback,   \* the process rolling it back
    marked,     \* the runs with a rolled_back marker
    made,       \* what each run's create commands made (history)
    faults,     \* the failures so far
    rollbacks   \* the rollbacks so far

world == <<resource, attached, routed>>
vars == <<resource, attached, routed, plan, apply, rollback, marked, made, faults, rollbacks>>

Kinds == {"sandbox", "inference", "identity"}

(* The saves of the plan before anything fails, and those of the cleanup.  *)
Saving == {"save plan", "save identity", "save receipt", "save sandbox",
           "save inference", "save attach", "save end"}
Clearing == {"clear identity", "clear sandbox", "clear inference"}

Inspecting == {"see sandbox", "see inference", "see route",
               "see raced sandbox", "see raced inference"}
Acting == {"see identity", "make identity", "refresh", "make sandbox",
           "make inference", "set route", "attach", "set policy"}
Cleaning == {"unmake identity", "undo attach", "undo identity",
             "undo sandbox", "undo inference"}
Ended == {"done", "failed", "died"}

ApplySteps == {"new"} \cup Saving \cup Clearing \cup Inspecting \cup Acting
                  \cup Cleaning \cup Ended
RollbackSteps == {"idle", "detach", "identity", "sandbox", "inference", "mark"}

(* What a run has on disk: nothing, a file cut short, or its ownership.    *)
Plan == [state : {"absent", "torn", "kept"}, owns : SUBSET Kinds, attached : BOOLEAN]

NoPlan == [state |-> "absent", owns |-> {}, attached |-> FALSE]

(* What an apply keeps in memory: the ownership flags, what it found and   *)
(* will reuse, whether its error says that cleanup failed, and whether a   *)
(* save has failed.                                                        *)
Apply == [pc : ApplySteps, owns : SUBSET Kinds, attached : BOOLEAN,
          reuse : SUBSET {"sandbox", "inference", "route"},
          uncleaned : BOOLEAN, unsaved : BOOLEAN]

NewApply == [pc |-> "new", owns |-> {}, attached |-> FALSE, reuse |-> {},
             uncleaned |-> FALSE, unsaved |-> FALSE]

Rollback == [pc : RollbackSteps, owns : SUBSET Kinds, attached : BOOLEAN]

NoRollback == [pc |-> "idle", owns |-> {}, attached |-> FALSE]

(***************************************************************************)
(* Openshell, as the runner uses it.                                       *)
(***************************************************************************)
Exists(k) == resource[k] # None

(* `sandbox create`, `provider create` *)
CreatedBy(r, k) ==
    /\ resource' = [resource EXCEPT ![k] = r]
    /\ made' = [made EXCEPT ![r] = @ \cup {k}]
    /\ UNCHANGED <<attached, routed>>

(* `sandbox remove` and `provider delete`; the attachment goes with either *)
(* end, the route stays.                                                   *)
Removed(k) ==
    /\ resource' = [resource EXCEPT ![k] = None]
    /\ attached' = (attached /\ k = "inference")
    /\ UNCHANGED routed

Fault ==
    /\ faults < MaxFaults
    /\ faults' = faults + 1

(***************************************************************************)
(* An apply goes on with its memory changed, or ends and forgets it; what  *)
(* it leaves alone.                                                        *)
(***************************************************************************)
At(r, pc) == apply[r].pc = pc

Ends(a) == [a EXCEPT !.owns = {}, !.attached = FALSE, !.reuse = {}]

Goes(r, a) ==
    /\ apply' = [apply EXCEPT ![r] = IF a.pc \in Ended THEN Ends(a) ELSE a]
    /\ UNCHANGED <<rollback, marked, rollbacks>>

To(r, pc) == [apply[r] EXCEPT !.pc = pc]

(* Mutation of AfterSandbox: the provider is deleted under a sandbox whose *)
(* removal failed.                                                         *)
AfterSandboxAnyway(a) ==
    IF "inference" \in a.owns THEN "undo inference" ELSE "failed"

(* Cleanup after an error: the identity, then the sandbox, then the        *)
(* provider, which a sandbox that could not be removed still needs.        *)
AfterSandbox(a) ==
    IF "inference" \in a.owns /\ "sandbox" \notin a.owns THEN "undo inference" ELSE "failed"

AfterIdentity(a) ==
    IF "sandbox" \in a.owns THEN "undo sandbox" ELSE AfterSandbox(a)

Catch(a) ==
    CASE "identity" \in a.owns /\ a.attached -> "undo attach"
      [] "identity" \in a.owns /\ ~a.attached -> "undo identity"
      [] OTHER -> AfterIdentity(a)

Throw(a) == [a EXCEPT !.pc = Catch(a)]

(* The receipt is in memory before it is saved, so a failure to set up the *)
(* identity removes it twice: here, and in the cleanup of the apply.       *)
Throws(a) ==
    IF a.pc \in {"save identity", "refresh"}
    THEN [a EXCEPT !.pc = "unmake identity"]
    ELSE Throw(a)

(***************************************************************************)
(* The apply, one command at a time.                                       *)
(***************************************************************************)
Begin(r) ==
    /\ At(r, "new")
    /\ Goes(r, To(r, IF r \in WithIdentity THEN "see sandbox" ELSE "make sandbox"))
    /\ UNCHANGED <<world, plan, made, faults>>

(* Before it asks for an identity, an apply inspects what it could reuse.  *)
Inspect(r) ==
    LET Found(k) == IF Exists(k) THEN apply[r].reuse \cup {k} ELSE apply[r].reuse
    IN  /\ \/ /\ At(r, "see sandbox")
              /\ Goes(r, [To(r, "see inference") EXCEPT !.reuse = Found("sandbox")])
           \/ /\ At(r, "see inference")
              /\ Goes(r, [To(r, IF Found("inference") = {"sandbox", "inference"}
                               THEN "see route" ELSE "save plan")
                              EXCEPT !.reuse = Found("inference")])
           \/ /\ At(r, "see route")
              /\ Goes(r, [To(r, "save plan") EXCEPT
                              !.reuse = IF routed THEN @ \cup {"route"} ELSE @])
        /\ UNCHANGED <<world, plan, made, faults>>

(* An identity provider that exists is refused, whoever made it.           *)
SeeIdentity(r) ==
    /\ At(r, "see identity")
    /\ Goes(r, IF Exists("identity") THEN Throw(apply[r]) ELSE To(r, "make identity"))
    /\ UNCHANGED <<world, plan, made, faults>>

MakeIdentity(r) ==
    /\ At(r, "make identity")
    /\ IF Exists("identity")
       THEN Goes(r, Throw(apply[r])) /\ UNCHANGED <<world, made>>
       ELSE /\ CreatedBy(r, "identity")
            /\ Goes(r, [To(r, "save identity") EXCEPT !.owns = @ \cup {"identity"}])
    /\ UNCHANGED <<plan, faults>>

(* Configuring the refresh and minting the first credential.               *)
Refresh(r) ==
    /\ At(r, "refresh")
    /\ Goes(r, To(r, "save receipt"))
    /\ UNCHANGED <<world, plan, made, faults>>

UnmakeIdentity(r) ==
    /\ At(r, "unmake identity")
    /\ Removed("identity")
    /\ Goes(r, Throw(apply[r]))
    /\ UNCHANGED <<plan, made, faults>>

(* Where an apply goes on once it has its sandbox or its provider.         *)
(* Mutation of AfterInference: a provider that is reused needs no route.   *)
AfterInferenceReused(r) == IF "inference" \in apply[r].reuse THEN "attach" ELSE "set route"

AfterInference(r) == IF "route" \in apply[r].reuse THEN "attach" ELSE "set route"

Following(r, k) ==
    IF k = "sandbox" /\ "inference" \notin apply[r].reuse
    THEN "make inference" ELSE AfterInference(r)

AfterReceipt(r) ==
    IF "sandbox" \in apply[r].reuse THEN Following(r, "sandbox") ELSE "make sandbox"

(* Mutation of Make: a name that was taken counts as made.                 *)
MakeOrTake(r, k, make, save, raced) ==
    /\ At(r, make)
    /\ Goes(r, [To(r, save) EXCEPT !.owns = @ \cup {k}])
    /\ IF Exists(k) THEN UNCHANGED <<world, made>> ELSE CreatedBy(r, k)
    /\ UNCHANGED <<plan, faults>>

(* Mutation of Make: ownership waits for the next save.                    *)
MakeUnsaved(r, k, make, save, raced) ==
    /\ At(r, make)
    /\ IF Exists(k)
       THEN Goes(r, To(r, Following(r, k))) /\ UNCHANGED <<world, made>>
       ELSE /\ CreatedBy(r, k)
            /\ Goes(r, [To(r, Following(r, k)) EXCEPT !.owns = @ \cup {k}])
    /\ UNCHANGED <<plan, faults>>

(* A name that is taken is reused, and left unowned; with an identity, it  *)
(* is inspected again first.                                               *)
Make(r, k, make, save, raced) ==
    /\ At(r, make)
    /\ IF Exists(k)
       THEN /\ Goes(r, To(r, IF r \in WithIdentity THEN raced ELSE Following(r, k)))
            /\ UNCHANGED <<world, made>>
       ELSE /\ CreatedBy(r, k)
            /\ Goes(r, [To(r, save) EXCEPT !.owns = @ \cup {k}])
    /\ UNCHANGED <<plan, faults>>

MakeSandbox(r) == Make(r, "sandbox", "make sandbox", "save sandbox", "see raced sandbox")

MakeInference(r) ==
    Make(r, "inference", "make inference", "save inference", "see raced inference")

SeeRaced(r, k, raced) ==
    /\ At(r, raced)
    /\ Goes(r, IF Exists(k) THEN To(r, Following(r, k)) ELSE Throw(apply[r]))
    /\ UNCHANGED <<world, plan, made, faults>>

SeeRacedSandbox(r) == SeeRaced(r, "sandbox", "see raced sandbox")
SeeRacedInference(r) == SeeRaced(r, "inference", "see raced inference")

SetRoute(r) ==
    /\ At(r, "set route")
    /\ routed' = TRUE
    /\ Goes(r, To(r, IF r \in WithIdentity THEN "attach" ELSE "set policy"))
    /\ UNCHANGED <<resource, attached, plan, made, faults>>

(* "already attached" is a success that acquires nothing.                  *)
Attach(r) ==
    /\ At(r, "attach")
    /\ IF Exists("sandbox") /\ Exists("identity")
       THEN /\ attached' = TRUE
            /\ Goes(r, [To(r, "save attach") EXCEPT !.attached = ~attached])
       ELSE /\ Goes(r, Throw(apply[r]))
            /\ UNCHANGED attached
    /\ UNCHANGED <<resource, routed, plan, made, faults>>

(* Reading the policy, merging the additions and setting it; without any   *)
(* additions the sandbox is not asked.                                     *)
SetPolicy(r) ==
    /\ At(r, "set policy")
    /\ \/ Goes(r, To(r, "save end"))
       \/ ~Exists("sandbox") /\ Goes(r, Throw(apply[r]))
    /\ UNCHANGED <<world, plan, made, faults>>

(* Mutation of Recorded: what the run reuses goes on record as its own.    *)
RecordedWithReuse(a) ==
    [state |-> "kept", owns |-> a.owns \cup a.reuse, attached |-> a.attached]

Recorded(a) == [state |-> "kept", owns |-> a.owns, attached |-> a.attached]

AfterSave(r) ==
    CASE apply[r].pc = "save plan"      -> "see identity"
      [] apply[r].pc = "save identity"  -> "refresh"
      [] apply[r].pc = "save receipt"   -> AfterReceipt(r)
      [] apply[r].pc = "save sandbox"   -> Following(r, "sandbox")
      [] apply[r].pc = "save inference" -> Following(r, "inference")
      [] apply[r].pc = "save attach"    -> "set policy"
      [] apply[r].pc = "save end"       -> "done"
      [] apply[r].pc = "clear identity" -> AfterIdentity(apply[r])
      [] apply[r].pc = "clear sandbox"  -> AfterSandbox(apply[r])
      [] apply[r].pc = "clear inference" -> "failed"

(* persistRunPlan                                                          *)
Save(r) ==
    /\ apply[r].pc \in Saving \cup Clearing
    /\ plan' = [plan EXCEPT ![r] = Recorded(apply[r])]
    /\ Goes(r, To(r, AfterSave(r)))
    /\ UNCHANGED <<world, made, faults>>

(***************************************************************************)
(* Cleanup after an error.  A failure of one removal is remembered and the *)
(* next is still tried, but a save that fails ends the cleanup there.      *)
(***************************************************************************)
UndoAttach(r) ==
    /\ At(r, "undo attach")
    /\ attached' = FALSE
    /\ Goes(r, To(r, "undo identity"))
    /\ UNCHANGED <<resource, routed, plan, made, faults>>

Undo(r, k, undo, clear) ==
    /\ At(r, undo)
    /\ Removed(k)
    /\ Goes(r, [To(r, clear) EXCEPT !.owns = @ \ {k},
                                    !.attached = @ /\ k # "identity"])
    /\ UNCHANGED <<plan, made, faults>>

UndoIdentity(r) == Undo(r, "identity", "undo identity", "clear identity")
UndoSandbox(r) == Undo(r, "sandbox", "undo sandbox", "clear sandbox")
UndoInference(r) == Undo(r, "inference", "undo inference", "clear inference")

(* Mutation of Uncleaned: the error does not say that cleanup failed.      *)
UncleanedSilently(a) ==
    [a EXCEPT !.pc = CASE a.pc \in {"undo attach", "undo identity"} -> AfterIdentity(a)
                       [] a.pc = "undo sandbox" -> AfterSandbox(a)
                       [] a.pc = "undo inference" -> "failed"]

Uncleaned(a) ==
    [a EXCEPT !.uncleaned = TRUE,
              !.pc = CASE a.pc \in {"undo attach", "undo identity"} -> AfterIdentity(a)
                       [] a.pc = "undo sandbox" -> AfterSandbox(a)
                       [] a.pc = "undo inference" -> "failed"]

(* A command fails without effect.                                         *)
CommandFails(r) ==
    /\ apply[r].pc \in Inspecting \cup Acting \cup Cleaning
    /\ Fault
    /\ Goes(r, IF apply[r].pc \in Cleaning \ {"unmake identity"}
               THEN Uncleaned(apply[r]) ELSE Throws(apply[r]))
    /\ UNCHANGED <<world, plan, made>>

(* A file that is being written is left as it was or cut short.            *)
Torn(r) == plan' \in {plan, [plan EXCEPT ![r] = [NoPlan EXCEPT !.state = "torn"]]}

SaveFails(r) ==
    LET a == [apply[r] EXCEPT !.unsaved = TRUE]
    IN  /\ a.pc \in Saving \cup Clearing
        /\ Fault
        /\ Torn(r)
        /\ Goes(r, CASE a.pc \in Saving -> Throws(a)
                     [] a.pc = "clear identity" ->
                            [a EXCEPT !.uncleaned = TRUE, !.pc = AfterIdentity(a)]
                     [] a.pc \in {"clear sandbox", "clear inference"} ->
                            [a EXCEPT !.pc = "failed"])
        /\ UNCHANGED <<world, made>>

ApplyDies(r) ==
    /\ apply[r].pc \notin {"new"} \cup Ended
    /\ Fault
    /\ LET saving == apply[r].pc \in Saving \cup Clearing
       IN  /\ IF saving THEN Torn(r) ELSE UNCHANGED plan
           /\ Goes(r, [To(r, "died") EXCEPT !.unsaved = @ \/ saving])
    /\ UNCHANGED <<world, made>>

(***************************************************************************)
(* actionRollback: another process, which knows what the plan says.  Its   *)
(* failures and its death come to the same: it keeps nothing.              *)
(***************************************************************************)
Undoes(r, b) ==
    /\ rollback' = [rollback EXCEPT ![r] = b]
    /\ UNCHANGED <<plan, apply, made>>

(* What a rollback has left to remove.                                     *)
Remaining(b, ks) ==
    CASE "identity" \in ks /\ "identity" \in b.owns -> "identity"
      [] "sandbox" \in ks /\ "sandbox" \in b.owns
            /\ ~("identity" \in ks /\ "identity" \in b.owns) -> "sandbox"
      [] OTHER -> IF "inference" \in ks /\ "inference" \in b.owns THEN "inference" ELSE "mark"

StartRollback(r) ==
    /\ rollback[r].pc = "idle"
    /\ plan[r].state = "kept"
    /\ rollbacks < MaxRollbacks
    /\ rollbacks' = rollbacks + 1
    /\ LET b == [pc |-> "idle", owns |-> plan[r].owns, attached |-> plan[r].attached]
       IN  Undoes(r, [b EXCEPT !.pc = IF b.attached THEN "detach" ELSE Remaining(b, Kinds)])
    /\ UNCHANGED <<world, marked, faults>>

Detach(r) ==
    /\ rollback[r].pc = "detach"
    /\ attached' = FALSE
    /\ Undoes(r, [rollback[r] EXCEPT !.pc = Remaining(rollback[r], Kinds)])
    /\ UNCHANGED <<resource, routed, marked, faults, rollbacks>>

Left(k) == CASE k = "identity" -> {"sandbox", "inference"}
             [] k = "sandbox" -> {"inference"}
             [] k = "inference" -> {}

(* Mutation of Remove: a sandbox that could not be removed is passed over. *)
RemoveOrSkip(r, k) ==
    /\ rollback[r].pc = k
    /\ Undoes(r, [rollback[r] EXCEPT !.pc = Remaining(rollback[r], Left(k))])
    /\ \/ Removed(k) /\ UNCHANGED faults
       \/ Fault /\ k = "sandbox" /\ UNCHANGED world
    /\ UNCHANGED <<marked, rollbacks>>

Remove(r, k) ==
    /\ rollback[r].pc = k
    /\ Removed(k)
    /\ Undoes(r, [rollback[r] EXCEPT !.pc = Remaining(rollback[r], Left(k))])
    /\ UNCHANGED <<marked, faults, rollbacks>>

Mark(r) ==
    /\ rollback[r].pc = "mark"
    /\ marked' = marked \cup {r}
    /\ Undoes(r, NoRollback)
    /\ UNCHANGED <<world, faults, rollbacks>>

RollbackFails(r) ==
    /\ rollback[r].pc # "idle"
    /\ Fault
    /\ Undoes(r, NoRollback)
    /\ UNCHANGED <<world, marked, rollbacks>>

(***************************************************************************)
Init ==
    /\ resource \in [Kinds -> {None, Outside}]
    /\ attached = FALSE
    /\ routed \in (IF Exists("inference") THEN BOOLEAN ELSE {FALSE})
    /\ plan = [r \in Runs |-> NoPlan]
    /\ apply = [r \in Runs |-> NewApply]
    /\ rollback = [r \in Runs |-> NoRollback]
    /\ marked = {}
    /\ made = [r \in Runs |-> {}]
    /\ faults = 0
    /\ rollbacks = 0

ApplyStep(r) ==
    \/ Begin(r) \/ Inspect(r) \/ SeeIdentity(r) \/ MakeIdentity(r) \/ Refresh(r)
    \/ UnmakeIdentity(r) \/ MakeSandbox(r) \/ SeeRacedSandbox(r)
    \/ MakeInference(r) \/ SeeRacedInference(r) \/ SetRoute(r) \/ Attach(r)
    \/ SetPolicy(r) \/ Save(r)
    \/ UndoAttach(r) \/ UndoIdentity(r) \/ UndoSandbox(r) \/ UndoInference(r)
    \/ CommandFails(r) \/ SaveFails(r) \/ ApplyDies(r)

RollbackStep(r) ==
    \/ StartRollback(r) \/ Detach(r) \/ (\E k \in Kinds : Remove(r, k))
    \/ Mark(r) \/ RollbackFails(r)

Next == \E r \in Runs : ApplyStep(r) \/ RollbackStep(r)

Spec == Init /\ [][Next]_vars

-----------------------------------------------------------------------------
(* Every variable holds what the code can put there.                       *)
TypeOK ==
    /\ resource \in [Kinds -> Runs \cup {None, Outside}]
    /\ attached \in BOOLEAN
    /\ routed \in BOOLEAN
    /\ plan \in [Runs -> Plan]
    /\ apply \in [Runs -> Apply]
    /\ rollback \in [Runs -> Rollback]
    /\ marked \subseteq Runs
    /\ made \in [Runs -> SUBSET Kinds]
    /\ faults \in 0..MaxFaults
    /\ rollbacks \in 0..MaxRollbacks

(* What a run made and is still there is on record in its plan, so that a  *)
(* later rollback finds it, at any moment a process may die: except while  *)
(* it saves (runner.ts:1078, "Persist ownership immediately so a           *)
(* later-process rollback stays safe"), or once a save has failed or was   *)
(* cut short.                                                              *)
OwnershipIsDurable ==
    \A r \in Runs, k \in Kinds :
        resource[k] = r =>
            \/ k \in plan[r].owns
            \/ apply[r].pc \in Saving \cup Clearing
            \/ apply[r].unsaved

(* An apply that failed without reporting that cleanup or a save failed    *)
(* has left nothing of what it made, although other runs made and removed  *)
(* resources of the same names meanwhile.                                  *)
FailureLeavesNothing ==
    \A r \in Runs :
        (apply[r].pc = "failed" /\ ~apply[r].uncleaned /\ ~apply[r].unsaved)
            => /\ plan[r].owns = {}
               /\ \A k \in Kinds : resource[k] # r

(* A rollback that reaches its rolled_back marker has removed all that the *)
(* plan it read says the run made.                                         *)
RollbackIsComplete ==
    \A r \in Runs :
        rollback[r].pc = "mark" => \A k \in rollback[r].owns : resource[k] # r

(* Runtime credentials are on the sandbox only once openshell has accepted *)
(* its inference route (runner.ts:1102).                                   *)
RoutedBeforeAttached == attached => routed

(* The removal of k by a step of the apply or the rollback of r.           *)
Takes(r, k) ==
    /\ resource[k] # None
    /\ resource'[k] = None
    /\ apply'[r] # apply[r] \/ rollback'[r] # rollback[r]

(* A step of a run removes only what that run has made, by name: a name    *)
(* that it found taken stays.                                              *)
RemovesOnlyWhatItMade ==
    [][\A r \in Runs, k \in Kinds : Takes(r, k) => k \in made[r] /\ resource[k] # Outside]_vars

(* The provider a run made does not go before the sandbox it made, which   *)
(* needs it, be it in the cleanup or in a rollback.                        *)
SandboxBeforeProvider ==
    [][\A r \in Runs : Takes(r, "inference") => resource["sandbox"] # r]_vars
=============================================================================
