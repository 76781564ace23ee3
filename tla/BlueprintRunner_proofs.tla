------------------------ MODULE BlueprintRunner_proofs ------------------------
(***************************************************************************)
(* Theorems about BlueprintRunner, for every set of runs and every number  *)
(* of failures and rollbacks.  The invariant is one of each run: what the  *)
(* others do can only take a resource away from it.                        *)
(***************************************************************************)
EXTENDS BlueprintRunner, TLAPS

(* The steps before a run can have made k.                                 *)
BeforeIdentity ==
    {"new", "see sandbox", "see inference", "see route", "save plan", "see identity",
     "make identity"}
BeforeSandbox == BeforeIdentity \cup {"save identity", "refresh", "save receipt", "make sandbox"}
BeforeInference ==
    BeforeSandbox \cup {"save sandbox", "see raced sandbox", "make inference"}

Before(k) ==
    CASE k = "identity" -> BeforeIdentity
      [] k = "sandbox" -> BeforeSandbox
      [] k = "inference" -> BeforeInference

(* What is claimed as owned, by a process or on disk, was made; and a run  *)
(* makes a resource once.                                                  *)
Claims(r) ==
    /\ apply[r].owns \subseteq made[r]
    /\ plan[r].owns \subseteq made[r]
    /\ rollback[r].owns \subseteq made[r]
    /\ \A k \in Kinds : resource[k] = r => k \in made[r]
    /\ \A k \in made[r] : resource[k] # Outside
    /\ \A k \in Kinds : apply[r].pc \in Before(k) => k \notin made[r]

(* What a run made and is still there is owned by its process, and, when   *)
(* no save has failed, on disk.                                            *)
Ledger(r) ==
    /\ apply[r].pc \notin Ended => \A k \in Kinds : resource[k] = r => k \in apply[r].owns
    /\ ~apply[r].unsaved =>
          /\ apply[r].pc \notin Ended \cup Saving \cup Clearing => plan[r].owns = apply[r].owns
          /\ apply[r].pc \in Ended => \A k \in Kinds : resource[k] = r => k \in plan[r].owns

(* Cleanup removes what the process owns, and only that, in order.         *)
Cleans(r) ==
    LET a == apply[r]
    IN  /\ a.pc \in {"save identity", "refresh", "unmake identity", "undo attach",
                     "undo identity"} => "identity" \in a.owns
        /\ a.pc = "undo sandbox" => "sandbox" \in a.owns
        /\ a.pc = "undo inference" => "inference" \in a.owns /\ "sandbox" \notin a.owns
        /\ (a.pc \in {"undo sandbox", "undo inference"} \cup Clearing /\ ~a.uncleaned)
               => "identity" \notin a.owns
        /\ a.pc \in {"clear sandbox", "clear inference"} => "sandbox" \notin a.owns
        /\ a.pc = "clear inference" => "inference" \notin a.owns
        /\ (a.pc = "failed" /\ ~a.uncleaned /\ ~a.unsaved)
               => plan[r].owns = {} /\ \A k \in Kinds : resource[k] # r

(* What a rollback has passed is gone, and so is a sandbox of the run that *)
(* its plan does not know though it knows the provider.                    *)
Passed(pc) ==
    CASE pc = "sandbox" -> {"identity"}
      [] pc = "inference" -> {"identity", "sandbox"}
      [] pc = "mark" -> Kinds
      [] OTHER -> {}

Undone(r) ==
    LET b == rollback[r]
    IN  /\ b.pc \in Kinds => b.pc \in b.owns
        /\ \A k \in b.owns \cap Passed(b.pc) : resource[k] # r
        /\ "inference" \in b.owns /\ "sandbox" \notin b.owns => resource["sandbox"] # r
        /\ "inference" \in plan[r].owns /\ "sandbox" \notin plan[r].owns
              => resource["sandbox"] # r

Routes(r) ==
    /\ apply[r].pc = "attach" => routed
    /\ "route" \in apply[r].reuse => routed

RunInv(r) == Claims(r) /\ Ledger(r) /\ Cleans(r) /\ Undone(r) /\ Routes(r)

RunnerInductive == TypeOK /\ RoutedBeforeAttached /\ \A r \in Runs : RunInv(r)

-----------------------------------------------------------------------------
(* Types                                                                   *)

LEMMA PcTyped ==
    ASSUME NEW a \in Apply
    PROVE  /\ Catch(a) \in Cleaning \cup {"failed"}
           /\ AfterIdentity(a) \in Cleaning \cup {"failed"}
           /\ AfterSandbox(a) \in Cleaning \cup {"failed"}
           /\ Throw(a) \in Apply /\ Throws(a) \in Apply
<1>1. AfterSandbox(a) \in Cleaning \cup {"failed"}
  BY DEF AfterSandbox, Cleaning
<1>2. AfterIdentity(a) \in Cleaning \cup {"failed"}
  BY <1>1 DEF AfterIdentity, Cleaning
<1>3. Catch(a) \in Cleaning \cup {"failed"}
  <2>1. a.attached \in BOOLEAN
    BY DEF Apply
  <2>2. CASE "identity" \in a.owns /\ a.attached
    BY <2>2 DEF Catch, Cleaning
  <2>3. CASE "identity" \in a.owns /\ ~a.attached
    BY <2>3 DEF Catch, Cleaning
  <2>4. CASE "identity" \notin a.owns
    BY <2>4, <1>2 DEF Catch
  <2>5. QED
    BY <2>2, <2>3, <2>4
<1>4. "unmake identity" \in ApplySteps /\ Catch(a) \in ApplySteps
  BY <1>3 DEF ApplySteps, Cleaning, Ended
<1>5. QED
  BY <1>1, <1>2, <1>3, <1>4 DEF Throw, Throws, Apply

LEMMA FlagsTyped ==
    ASSUME NEW a \in Apply, NEW b \in BOOLEAN
    PROVE  /\ [a EXCEPT !.attached = b] \in Apply
           /\ [a EXCEPT !.unsaved = b] \in Apply
BY DEF Apply

LEMMA OwnershipTyped ==
    ASSUME NEW a \in Apply, NEW o \in SUBSET Kinds, NEW b \in BOOLEAN
    PROVE  [a EXCEPT !.owns = o, !.attached = b] \in Apply
BY DEF Apply

LEMMA UpdatesTyped ==
    ASSUME NEW a \in Apply, NEW pc \in ApplySteps, NEW o \in SUBSET Kinds
    PROVE  /\ [a EXCEPT !.pc = pc] \in Apply
           /\ [a EXCEPT !.owns = o] \in Apply
           /\ [a EXCEPT !.uncleaned = TRUE, !.pc = pc] \in Apply
BY DEF Apply

LEMMA FollowingTyped ==
    ASSUME NEW r \in Runs, NEW k
    PROVE  /\ Following(r, k) \in {"make inference", "attach", "set route"}
           /\ AfterReceipt(r) \in {"make sandbox", "make inference", "attach", "set route"}
           /\ k = "inference" => Following(r, k) \in {"attach", "set route"}
BY DEF Following, AfterInference, AfterReceipt

\* What an apply leaves, typed.
LEMMA GoesTyped ==
    ASSUME TypeOK, NEW r \in Runs, NEW a \in Apply, Goes(r, a)
    PROVE  /\ apply' \in [Runs -> Apply]
           /\ rollback' \in [Runs -> Rollback]
           /\ marked' \subseteq Runs
           /\ rollbacks' \in 0..MaxRollbacks
           /\ \A q \in Runs \ {r} : apply'[q] = apply[q]
           /\ apply'[r] = IF a.pc \in Ended THEN Ends(a) ELSE a
<1>1. Ends(a) \in Apply
  BY DEF Ends, Apply
<1>2. QED
  BY <1>1 DEF TypeOK, Goes

LEMMA FaultTyped ==
    ASSUME TypeOK, Fault
    PROVE  faults' \in 0..MaxFaults
BY RunsAssumption DEF TypeOK, Fault

LEMMA WorldTyped ==
    ASSUME TypeOK, NEW r \in Runs, NEW k \in Kinds, CreatedBy(r, k) \/ Removed(k)
    PROVE  /\ resource' \in [Kinds -> Runs \cup {None, Outside}]
           /\ attached' \in BOOLEAN /\ routed' \in BOOLEAN
           /\ CreatedBy(r, k) => made' \in [Runs -> SUBSET Kinds]
<1>1. CASE CreatedBy(r, k)
  BY <1>1 DEF TypeOK, CreatedBy
<1>2. CASE Removed(k)
  <2>1. attached' \in BOOLEAN
    BY <1>2, Zenon DEF TypeOK, Removed
  <2>2. QED
    BY <1>2, <2>1 DEF TypeOK, Removed, CreatedBy
<1>3. QED
  BY <1>1, <1>2

LEMMA TornTyped ==
    ASSUME TypeOK, NEW r \in Runs, Torn(r)
    PROVE  plan' \in [Runs -> Plan]
<1> DEFINE torn == [NoPlan EXCEPT !.state = "torn"]
<1>1. torn \in Plan
  BY DEF NoPlan, Plan
<1>2. plan \in [Runs -> Plan]
  BY DEF TypeOK
<1>3. plan' = plan \/ plan' = [plan EXCEPT ![r] = torn]
  BY Zenon DEF Torn
<1>4. QED
  <2> HIDE DEF torn
  <2>1. QED
    BY <1>1, <1>2, <1>3

LEMMA InitTyped == Init => TypeOK
<1> SUFFICES ASSUME Init PROVE TypeOK
  OBVIOUS
<1>1. routed \in BOOLEAN
  BY DEF Init
<1>2. NewApply \in Apply /\ NoPlan \in Plan /\ NoRollback \in Rollback
  BY DEF NewApply, Apply, ApplySteps, NoPlan, Plan, NoRollback, Rollback, RollbackSteps
<1>3. QED
  <2>1. /\ plan \in [Runs -> Plan] /\ apply \in [Runs -> Apply]
        /\ rollback \in [Runs -> Rollback] /\ made \in [Runs -> SUBSET Kinds]
    BY <1>2 DEF Init
  <2>2. /\ resource \in [Kinds -> Runs \cup {None, Outside}]
        /\ attached \in BOOLEAN /\ marked \subseteq Runs
    BY DEF Init
  <2>3. faults \in 0..MaxFaults /\ rollbacks \in 0..MaxRollbacks
    BY RunsAssumption DEF Init
  <2>4. QED
    BY <1>1, <2>1, <2>2, <2>3 DEF TypeOK

LEMMA ToTyped ==
    ASSUME TypeOK, NEW r \in Runs
    PROVE  /\ apply[r] \in Apply
           /\ \A pc \in ApplySteps : To(r, pc) \in Apply
BY DEF TypeOK, To, Apply

\* Each step of an apply goes on with a typed memory.
LEMMA ApplyGoes ==
    ASSUME TypeOK, NEW r \in Runs, ApplyStep(r)
    PROVE  \E a \in Apply : Goes(r, a)
<1> USE ToTyped
<1>a. Saving \cup Clearing \cup Inspecting \cup Acting \cup Cleaning \cup Ended \cup {"new"}
          = ApplySteps
  BY DEF ApplySteps
<1>1. CASE Begin(r)
  BY <1>1 DEF Begin, To, Apply, ApplySteps, Inspecting, Acting
<1>2. CASE Inspect(r)
  BY <1>2 DEF Inspect, To, Apply, ApplySteps, Inspecting, Saving
<1>3. CASE SeeIdentity(r) \/ MakeIdentity(r)
  <2>1. [To(r, "save identity") EXCEPT !.owns = @ \cup {"identity"}] \in Apply
    <3>1. To(r, "save identity") \in Apply
      BY <1>a DEF Saving
    <3>2. QED
      BY <3>1, UpdatesTyped DEF Apply, Kinds
  <2>2. "make identity" \in ApplySteps
    BY <1>a DEF Acting
  <2>3. QED
    BY <1>3, <2>1, <2>2, PcTyped DEF SeeIdentity, MakeIdentity
<1>4. CASE Refresh(r) \/ SetRoute(r)
  BY <1>4 DEF Refresh, SetRoute, ApplySteps, Acting, Saving
<1>5. CASE UnmakeIdentity(r)
  BY <1>5, PcTyped DEF UnmakeIdentity
<1>6. CASE MakeSandbox(r) \/ MakeInference(r)
  <2>1. ASSUME NEW k \in {"sandbox", "inference"}, NEW save \in Saving
        PROVE  [To(r, save) EXCEPT !.owns = @ \cup {k}] \in Apply
    <3>1. To(r, save) \in Apply
      BY <1>a
    <3>2. k \in Kinds
      BY DEF Kinds
    <3>3. To(r, save).owns \cup {k} \in SUBSET Kinds
      BY <3>1, <3>2 DEF Apply
    <3>4. QED
      BY <3>1, <3>3 DEF Apply
  <2>2. \A k : Following(r, k) \in ApplySteps
    BY <1>a, FollowingTyped DEF Acting
  <2>3. "save sandbox" \in Saving /\ "save inference" \in Saving
    BY DEF Saving
  <2>4. "see raced sandbox" \in ApplySteps /\ "see raced inference" \in ApplySteps
    BY DEF ApplySteps, Acting, Inspecting
  <2>5. CASE MakeSandbox(r)
    <3>1. \/ Goes(r, To(r, "see raced sandbox"))
          \/ Goes(r, To(r, Following(r, "sandbox")))
          \/ Goes(r, [To(r, "save sandbox") EXCEPT !.owns = @ \cup {"sandbox"}])
      BY <2>5 DEF MakeSandbox, Make
    <3>2. QED
      BY <2>1, <2>2, <2>3, <2>4, <3>1
  <2>6. CASE MakeInference(r)
    <3>1. \/ Goes(r, To(r, "see raced inference"))
          \/ Goes(r, To(r, Following(r, "inference")))
          \/ Goes(r, [To(r, "save inference") EXCEPT !.owns = @ \cup {"inference"}])
      BY <2>6 DEF MakeInference, Make
    <3>2. QED
      BY <2>1, <2>2, <2>3, <2>4, <3>1
  <2>7. QED
    BY <1>6, <2>5, <2>6
<1>7. CASE SeeRacedSandbox(r) \/ SeeRacedInference(r)
  BY <1>7, FollowingTyped, PcTyped
     DEF SeeRacedSandbox, SeeRacedInference, SeeRaced, ApplySteps, Acting
<1>8. CASE Attach(r)
  <2>1. (~attached) \in BOOLEAN
    OBVIOUS
  <2>2. To(r, "save attach") \in Apply
    BY <1>a DEF Saving
  <2>3. [To(r, "save attach") EXCEPT !.attached = ~attached] \in Apply
    BY <2>1, <2>2, FlagsTyped, Zenon
  <2>4. QED
    BY <1>8, <2>3, PcTyped DEF Attach
<1>9. CASE SetPolicy(r)
  BY <1>9, PcTyped DEF SetPolicy, ApplySteps, Saving
<1>10. CASE Save(r)
  <2>1. AfterSave(r) \in ApplySteps
    BY <1>10, FollowingTyped, PcTyped
       DEF Save, AfterSave, ApplySteps, Saving, Clearing, Acting, Ended, Cleaning
  <2>2. QED
    BY <1>10, <2>1 DEF Save
<1>11. CASE UndoAttach(r)
  BY <1>11 DEF UndoAttach, ApplySteps, Cleaning
<1>12. CASE UndoIdentity(r) \/ UndoSandbox(r) \/ UndoInference(r)
  <2>1. ASSUME NEW k, NEW pc \in Clearing
        PROVE  [To(r, pc) EXCEPT !.owns = @ \ {k}, !.attached = @ /\ k # "identity"] \in Apply
    <3>1. To(r, pc) \in Apply
      BY <2>1, <1>a
    <3>2. /\ To(r, pc).owns \ {k} \in SUBSET Kinds
          /\ (To(r, pc).attached /\ k # "identity") \in BOOLEAN
      BY <3>1, Zenon DEF Apply
    <3>3. QED
      BY <3>1, <3>2, OwnershipTyped, Zenon
  <2>2. QED
    <3>0. "clear identity" \in Clearing /\ "clear sandbox" \in Clearing
              /\ "clear inference" \in Clearing
      BY DEF Clearing
    <3>1. CASE UndoIdentity(r)
      BY <3>0, <3>1, <2>1, Zenon DEF UndoIdentity, Undo
    <3>2. CASE UndoSandbox(r)
      BY <3>0, <3>2, <2>1, Zenon DEF UndoSandbox, Undo
    <3>3. CASE UndoInference(r)
      BY <3>0, <3>3, <2>1, Zenon DEF UndoInference, Undo
    <3>4. QED
      BY <1>12, <3>1, <3>2, <3>3
<1>13. CASE CommandFails(r)
  <2>1. ASSUME apply[r].pc \in Cleaning \ {"unmake identity"} PROVE Uncleaned(apply[r]) \in Apply
    <3> DEFINE a == apply[r]
               next == CASE a.pc \in {"undo attach", "undo identity"} -> AfterIdentity(a)
                         [] a.pc = "undo sandbox" -> AfterSandbox(a)
                         [] a.pc = "undo inference" -> "failed"
    <3>1. next \in Cleaning \cup {"failed"}
      BY <2>1, PcTyped DEF Cleaning
    <3>2. next \in ApplySteps
      <4> HIDE DEF next
      <4>1. QED
        BY <3>1, <1>a DEF Ended
    <3>3. [a EXCEPT !.uncleaned = TRUE, !.pc = next] \in Apply
      <4> HIDE DEF next
      <4>1. QED
        BY <3>2, UpdatesTyped DEF Kinds
    <3>4. QED
      BY <3>3 DEF Uncleaned
  <2>2. QED
    BY <1>13, <2>1, PcTyped DEF CommandFails
<1>14. CASE SaveFails(r)
  <2> DEFINE a == [apply[r] EXCEPT !.unsaved = TRUE]
  <2>1. a \in Apply
    BY DEF Apply
  <2>2. AfterIdentity(a) \in ApplySteps /\ "failed" \in ApplySteps
    BY <1>a, <2>1, PcTyped DEF Ended
  <2>3. /\ [a EXCEPT !.uncleaned = TRUE, !.pc = AfterIdentity(a)] \in Apply
        /\ [a EXCEPT !.pc = "failed"] \in Apply
        /\ Throws(a) \in Apply
    <3> HIDE DEF a
    <3>1. QED
      BY <2>1, <2>2, PcTyped, UpdatesTyped
  <2>4. CASE a.pc \in Saving
    BY <1>14, <2>3, <2>4 DEF SaveFails
  <2>5. CASE a.pc = "clear identity"
    BY <1>14, <2>3, <2>5 DEF SaveFails, Saving
  <2>6. CASE a.pc \in {"clear sandbox", "clear inference"}
    BY <1>14, <2>3, <2>6 DEF SaveFails, Saving
  <2>7. QED
    BY <1>14, <2>4, <2>5, <2>6 DEF SaveFails, Clearing
<1>15. CASE ApplyDies(r)
  <2> DEFINE saving == apply[r].pc \in Saving \cup Clearing
  <2>1. To(r, "died") \in Apply
    BY <1>a DEF Ended
  <2>2. (To(r, "died").unsaved \/ saving) \in BOOLEAN
    BY <2>1, Zenon DEF Apply
  <2>3. [To(r, "died") EXCEPT !.unsaved = @ \/ saving] \in Apply
    BY <2>1, <2>2, FlagsTyped, Zenon
  <2>4. QED
    BY <1>15, <2>3, Zenon DEF ApplyDies
<1>16. QED
  BY <1>1, <1>2, <1>3, <1>4, <1>5, <1>6, <1>7, <1>8, <1>9, <1>10, <1>11, <1>12, <1>13, <1>14,
     <1>15 DEF ApplyStep

LEMMA ApplyTyped ==
    ASSUME TypeOK, NEW r \in Runs, ApplyStep(r)
    PROVE  TypeOK'
<1>1. /\ apply' \in [Runs -> Apply] /\ rollback' \in [Runs -> Rollback]
      /\ marked' \subseteq Runs /\ rollbacks' \in 0..MaxRollbacks
  BY ApplyGoes, GoesTyped
<1>2. plan' \in [Runs -> Plan]
  <2>1. CASE Save(r)
    BY <2>1, ToTyped DEF TypeOK, Save, Recorded, Plan, Apply
  <2>2. CASE SaveFails(r) \/ ApplyDies(r)
    BY <2>2, TornTyped DEF TypeOK, SaveFails, ApplyDies
  <2>3. QED
    BY <2>1, <2>2
       DEF TypeOK, ApplyStep, Begin, Inspect, SeeIdentity, MakeIdentity, Refresh, UnmakeIdentity,
           MakeSandbox, MakeInference, Make, SeeRacedSandbox, SeeRacedInference, SeeRaced,
           SetRoute, Attach, SetPolicy, UndoAttach, UndoIdentity, UndoSandbox, UndoInference,
           Undo, CommandFails
<1>3. faults' \in 0..MaxFaults
  BY FaultTyped
     DEF TypeOK, ApplyStep, Begin, Inspect, SeeIdentity, MakeIdentity, Refresh, UnmakeIdentity,
         MakeSandbox, MakeInference, Make, SeeRacedSandbox, SeeRacedInference, SeeRaced,
         SetRoute, Attach, SetPolicy, UndoAttach, UndoIdentity, UndoSandbox, UndoInference,
         Undo, CommandFails, Save, SaveFails, ApplyDies
<1>4. /\ resource' \in [Kinds -> Runs \cup {None, Outside}]
      /\ attached' \in BOOLEAN /\ routed' \in BOOLEAN
      /\ made' \in [Runs -> SUBSET Kinds]
  <2>1. CASE MakeIdentity(r) \/ MakeSandbox(r) \/ MakeInference(r)
    BY <2>1, WorldTyped, Zenon
       DEF TypeOK, MakeIdentity, MakeSandbox, MakeInference, Make, Kinds, world
  <2>2. CASE UnmakeIdentity(r) \/ UndoIdentity(r) \/ UndoSandbox(r) \/ UndoInference(r)
    BY <2>2, WorldTyped, Zenon
       DEF TypeOK, UnmakeIdentity, UndoIdentity, UndoSandbox, UndoInference, Undo, Kinds
  <2>3. QED
    BY <2>1, <2>2
       DEF TypeOK, ApplyStep, Begin, Inspect, SeeIdentity, Refresh, SeeRacedSandbox,
           SeeRacedInference, SeeRaced, SetRoute, Attach, SetPolicy, UndoAttach, CommandFails,
           Save, SaveFails, ApplyDies, world
<1>5. QED
  BY <1>1, <1>2, <1>3, <1>4 DEF TypeOK

LEMMA RollbackTyped ==
    ASSUME TypeOK, NEW r \in Runs, RollbackStep(r)
    PROVE  TypeOK'
<1>1. CASE StartRollback(r)
  BY <1>1, RunsAssumption
     DEF StartRollback, TypeOK, Undoes, Rollback, RollbackSteps, Remaining, Plan, world
<1>2. CASE Detach(r) \/ Mark(r)
  <2>1. Remaining(rollback[r], Kinds) \in RollbackSteps
    BY DEF Remaining, RollbackSteps
  <2>2. [rollback[r] EXCEPT !.pc = Remaining(rollback[r], Kinds)] \in Rollback
    BY <2>1 DEF TypeOK, Rollback
  <2>3. NoRollback \in Rollback
    BY DEF NoRollback, Rollback, RollbackSteps
  <2>4. CASE Detach(r)
    BY <2>2, <2>4 DEF Detach, TypeOK, Undoes
  <2>5. CASE Mark(r)
    BY <2>3, <2>5 DEF Mark, TypeOK, Undoes, world
  <2>6. QED
    BY <1>2, <2>4, <2>5
<1>3. ASSUME NEW k \in Kinds, Remove(r, k) PROVE TypeOK'
  <2>1. rollback' \in [Runs -> Rollback]
    BY <1>3 DEF Remove, TypeOK, Undoes, Rollback, RollbackSteps, Remaining
  <2>2. QED
    BY <1>3, <2>1, WorldTyped DEF Remove, TypeOK, Undoes
<1>4. CASE RollbackFails(r)
  BY <1>4, FaultTyped
     DEF RollbackFails, TypeOK, Undoes, Rollback, RollbackSteps, NoRollback, world
<1>5. QED
  BY <1>1, <1>2, <1>3, <1>4 DEF RollbackStep

\* Every variable has its type in every reachable state.
THEOREM RunnerTypeCorrect == Spec => []TypeOK
<1>1. TypeOK /\ [Next]_vars => TypeOK'
  <2>1. ASSUME TypeOK, Next PROVE TypeOK'
    BY <2>1, ApplyTyped, RollbackTyped DEF Next
  <2>2. ASSUME TypeOK, UNCHANGED vars PROVE TypeOK'
    BY <2>2 DEF TypeOK, vars
  <2>3. QED
    BY <2>1, <2>2
<1>2. QED
  BY <1>1, InitTyped, PTL DEF Spec

-----------------------------------------------------------------------------
(* The invariant                                                           *)

\* What another run does can only take a resource away, or make the route.
LEMMA OthersKeep ==
    ASSUME RunnerInductive, NEW r \in Runs, NEW q \in Runs \ {r},
           apply'[q] = apply[q], plan'[q] = plan[q], rollback'[q] = rollback[q],
           made'[q] = made[q], \A k \in Kinds : resource'[k] \in {resource[k], None, r},
           routed => routed'
    PROVE  RunInv(q)'
<1>1. RunInv(q) /\ made[q] \subseteq Kinds
  BY DEF RunnerInductive, TypeOK
<1>2. \A k \in Kinds : resource'[k] = q => resource[k] = q
  BY RunsAssumption
<1>3. Claims(q)'
  <2>1. \A k \in made[q] : resource'[k] # Outside
    BY <1>1, RunsAssumption DEF RunInv, Claims
  <2>2. QED
    BY <1>1, <1>2, <2>1 DEF RunInv, Claims
<1>4. Ledger(q)'
  BY <1>1, <1>2 DEF RunInv, Ledger
<1>5. Cleans(q)'
  BY <1>1, <1>2 DEF RunInv, Cleans
<1>6. Undone(q)'
  BY <1>1, <1>2 DEF RunInv, Undone, Passed, Kinds
<1>7. Routes(q)'
  BY <1>1 DEF RunInv, Routes
<1>8. QED
  BY <1>3, <1>4, <1>5, <1>6, <1>7 DEF RunInv

LEMMA ApplyLeavesOthers ==
    ASSUME TypeOK, NEW r \in Runs, ApplyStep(r), NEW q \in Runs \ {r}
    PROVE  /\ apply'[q] = apply[q] /\ plan'[q] = plan[q] /\ rollback'[q] = rollback[q]
           /\ made'[q] = made[q]
           /\ \A k \in Kinds : resource'[k] \in {resource[k], None, r}
           /\ routed => routed'
<1>1. apply'[q] = apply[q]
  BY ApplyGoes, GoesTyped
<1>2. rollback' = rollback
  BY ApplyGoes DEF Goes
<1>3. plan'[q] = plan[q]
  BY DEF TypeOK, ApplyStep, Begin, Inspect, SeeIdentity, MakeIdentity, Refresh, UnmakeIdentity,
         MakeSandbox, MakeInference, Make, SeeRacedSandbox, SeeRacedInference, SeeRaced,
         SetRoute, Attach, SetPolicy, UndoAttach, UndoIdentity, UndoSandbox, UndoInference,
         Undo, CommandFails, Save, SaveFails, ApplyDies, Torn
<1>4. /\ made'[q] = made[q]
      /\ \A k \in Kinds : resource'[k] \in {resource[k], None, r}
      /\ routed => routed'
  BY DEF TypeOK, ApplyStep, Begin, Inspect, SeeIdentity, MakeIdentity, Refresh, UnmakeIdentity,
         MakeSandbox, MakeInference, Make, SeeRacedSandbox, SeeRacedInference, SeeRaced,
         SetRoute, Attach, SetPolicy, UndoAttach, UndoIdentity, UndoSandbox, UndoInference,
         Undo, CommandFails, Save, SaveFails, ApplyDies, CreatedBy, Removed, world
<1>5. QED
  BY <1>1, <1>2, <1>3, <1>4

\* Where the cleanup goes on depends on what is still owned.
LEMMA CatchOwned ==
    ASSUME NEW a \in Apply
    PROVE  /\ Catch(a) \in {"undo attach", "undo identity"} => "identity" \in a.owns
           /\ Catch(a) \in {"undo sandbox", "undo inference"} => "identity" \notin a.owns
           /\ Catch(a) = "undo sandbox" => "sandbox" \in a.owns
           /\ Catch(a) = "undo inference" => "inference" \in a.owns /\ "sandbox" \notin a.owns
           /\ Catch(a) = "failed" => a.owns = {}
           /\ Catch(a) \in Cleaning \cup {"failed"} /\ Catch(a) # "unmake identity"
<1>1. a.attached \in BOOLEAN /\ a.owns \subseteq Kinds
  BY DEF Apply
<1>2. CASE "identity" \in a.owns
  <2>1. Catch(a) \in {"undo attach", "undo identity"}
    <3>1. CASE a.attached
      BY <1>2, <3>1 DEF Catch
    <3>2. CASE ~a.attached
      BY <1>2, <3>2 DEF Catch
    <3>3. QED
      BY <3>1, <3>2
  <2>2. QED
    BY <1>2, <2>1 DEF Cleaning
<1>3. CASE "identity" \notin a.owns
  <2>1. Catch(a) = AfterIdentity(a)
    BY <1>3 DEF Catch
  <2>2. QED
    BY <1>1, <1>3, <2>1 DEF AfterIdentity, AfterSandbox, Kinds, Cleaning
<1>4. QED
  BY <1>2, <1>3

LEMMA AfterOwned ==
    ASSUME NEW a \in Apply
    PROVE  /\ AfterIdentity(a) = "undo sandbox" => "sandbox" \in a.owns
           /\ AfterIdentity(a) = "undo inference" =>
                 "inference" \in a.owns /\ "sandbox" \notin a.owns
           /\ AfterIdentity(a) = "failed" /\ "identity" \notin a.owns => a.owns = {}
           /\ AfterIdentity(a) \in {"undo sandbox", "undo inference", "failed"}
           /\ AfterSandbox(a) = "undo inference" =>
                 "inference" \in a.owns /\ "sandbox" \notin a.owns
           /\ AfterSandbox(a) = "failed" /\ "identity" \notin a.owns /\ "sandbox" \notin a.owns
                 => a.owns = {}
           /\ AfterSandbox(a) \in {"undo inference", "failed"}
<1>1. a.owns \subseteq Kinds
  BY DEF Apply
<1>2. QED
  BY <1>1 DEF AfterIdentity, AfterSandbox, Kinds

LEMMA GoesFields ==
    ASSUME TypeOK, NEW r \in Runs, NEW a \in Apply, Goes(r, a)
    PROVE  /\ apply'[r].pc = a.pc /\ apply'[r].unsaved = a.unsaved
           /\ apply'[r].uncleaned = a.uncleaned
           /\ apply'[r].owns = IF a.pc \in Ended THEN {} ELSE a.owns
           /\ apply'[r].reuse = IF a.pc \in Ended THEN {} ELSE a.reuse
<1>1. /\ Ends(a).pc = a.pc /\ Ends(a).unsaved = a.unsaved /\ Ends(a).uncleaned = a.uncleaned
      /\ Ends(a).owns = {} /\ Ends(a).reuse = {}
  BY DEF Ends, Apply
<1>2. CASE a.pc \in Ended
  BY <1>1, <1>2, GoesTyped
<1>3. CASE a.pc \notin Ended
  BY <1>3, GoesTyped
<1>4. QED
  BY <1>2, <1>3

LEMMA GoesOn ==
    ASSUME TypeOK, NEW r \in Runs, NEW a \in Apply, Goes(r, a), a.pc \notin Ended
    PROVE  /\ apply'[r].pc = a.pc /\ apply'[r].unsaved = a.unsaved
           /\ apply'[r].uncleaned = a.uncleaned /\ apply'[r].owns = a.owns
           /\ apply'[r].reuse = a.reuse /\ rollback' = rollback
<1>1. rollback' = rollback
  BY DEF Goes
<1>2. QED
  BY <1>1, GoesFields

\* A step that changes neither what exists nor what is on disk.
LEMMA QuietKeeps ==
    ASSUME RunnerInductive, NEW r \in Runs, NEW a \in Apply, Goes(r, a),
           UNCHANGED <<resource, plan, made>>, routed => routed',
           apply[r].pc \notin Saving \cup Clearing \cup Ended,
           a.pc \notin Clearing,
           a.owns = apply[r].owns, a.unsaved = apply[r].unsaved,
           \A k \in Kinds : a.pc \in Before(k) => apply[r].pc \in Before(k),
           a.pc \in {"save identity", "refresh", "unmake identity", "undo attach",
                     "undo identity"} => "identity" \in a.owns,
           a.pc = "undo sandbox" => "sandbox" \in a.owns,
           a.pc = "undo inference" => "inference" \in a.owns /\ "sandbox" \notin a.owns,
           (a.pc \in {"undo sandbox", "undo inference"} /\ ~a.uncleaned)
               => "identity" \notin a.owns,
           (a.pc = "failed" /\ ~a.uncleaned) => a.owns = {},
           a.pc = "attach" => routed', "route" \in a.reuse => routed'
    PROVE  RunInv(r)'
<1> DEFINE b == apply'[r]
<1>1. /\ RunInv(r) /\ made[r] \subseteq Kinds
      /\ rollback' = rollback
  BY DEF RunnerInductive, TypeOK, Goes
<1>2. /\ b.pc = a.pc /\ b.unsaved = a.unsaved /\ b.uncleaned = a.uncleaned
      /\ b.owns = IF a.pc \in Ended THEN {} ELSE a.owns
      /\ b.reuse = IF a.pc \in Ended THEN {} ELSE a.reuse
  BY GoesFields DEF RunnerInductive
<1> HIDE DEF b
<1>3. Claims(r)'
  BY <1>1, <1>2 DEF RunInv, Claims, b
<1>4. Ledger(r)'
  BY <1>1, <1>2 DEF RunInv, Ledger, b
<1>5. Cleans(r)'
  BY <1>1, <1>2 DEF RunInv, Cleans, Ledger, Ended, Saving, Clearing, b
<1>6. Undone(r)'
  BY <1>1 DEF RunInv, Undone
<1>7. Routes(r)'
  BY <1>1, <1>2 DEF RunInv, Routes, b
<1>8. QED
  BY <1>3, <1>4, <1>5, <1>6, <1>7 DEF RunInv

\* After an error, cleanup goes by what is owned.
LEMMA ThrowKeeps ==
    ASSUME RunnerInductive, NEW r \in Runs, Goes(r, Throw(apply[r])),
           UNCHANGED <<resource, plan, made>>, routed => routed',
           apply[r].pc \notin Saving \cup Clearing \cup Ended
    PROVE  RunInv(r)'
<1> DEFINE a == Throw(apply[r])
<1>1. apply[r] \in Apply /\ RunInv(r)
  BY DEF RunnerInductive, TypeOK
<1>2. /\ a \in Apply /\ a.pc = Catch(apply[r]) /\ a.owns = apply[r].owns
      /\ a.unsaved = apply[r].unsaved /\ a.reuse = apply[r].reuse
  <2>1. a \in Apply
    BY <1>1, PcTyped
  <2>2. QED
    BY <1>1, <2>1 DEF Throw, Apply
<1>3. \A k \in Kinds : a.pc \notin Before(k)
  BY <1>1, <1>2, CatchOwned
     DEF Before, BeforeInference, BeforeSandbox, BeforeIdentity, Kinds, Cleaning
<1> HIDE DEF a
<1>4. /\ a.pc \notin Clearing
      /\ a.pc \in {"save identity", "refresh", "unmake identity", "undo attach",
                   "undo identity"} => "identity" \in a.owns
      /\ a.pc = "undo sandbox" => "sandbox" \in a.owns
      /\ a.pc = "undo inference" => "inference" \in a.owns /\ "sandbox" \notin a.owns
      /\ a.pc \in {"undo sandbox", "undo inference"} => "identity" \notin a.owns
      /\ a.pc = "failed" => a.owns = {}
      /\ a.pc # "attach"
  BY <1>1, <1>2, CatchOwned DEF Cleaning, Clearing
<1>5. "route" \in a.reuse => routed'
  BY <1>1, <1>2 DEF RunInv, Routes
<1>6. Goes(r, a)
  BY DEF a
<1>7. QED
  BY <1>2, <1>3, <1>4, <1>5, <1>6, QuietKeeps

\* Going on to a step that is neither cleanup nor an end, with nothing made or saved.
LEMMA OnwardKeeps ==
    ASSUME RunnerInductive, NEW r \in Runs, NEW a \in Apply, Goes(r, a),
           UNCHANGED <<resource, plan, made>>, routed => routed',
           apply[r].pc \notin Saving \cup Clearing \cup Ended,
           a.pc \notin Clearing \cup Cleaning \cup Ended, a.pc \notin {"save identity", "refresh"},
           a.owns = apply[r].owns, a.unsaved = apply[r].unsaved,
           \A k \in Kinds : a.pc \in Before(k) => apply[r].pc \in Before(k),
           a.pc = "attach" => routed', "route" \in a.reuse => routed'
    PROVE  RunInv(r)'
BY QuietKeeps DEF Cleaning, Ended

LEMMA ToFields ==
    ASSUME TypeOK, NEW r \in Runs, NEW pc \in ApplySteps
    PROVE  /\ To(r, pc) \in Apply /\ To(r, pc).pc = pc /\ To(r, pc).owns = apply[r].owns
           /\ To(r, pc).unsaved = apply[r].unsaved /\ To(r, pc).reuse = apply[r].reuse
           /\ To(r, pc).uncleaned = apply[r].uncleaned
BY DEF TypeOK, To, Apply

LEMMA ReuseFields ==
    ASSUME NEW a \in Apply, NEW u \in SUBSET {"sandbox", "inference", "route"}
    PROVE  LET c == [a EXCEPT !.reuse = u] IN
           /\ c \in Apply /\ c.pc = a.pc /\ c.owns = a.owns /\ c.unsaved = a.unsaved
           /\ c.reuse = u
BY DEF Apply

LEMMA AttachedFields ==
    ASSUME NEW a \in Apply, NEW b \in BOOLEAN
    PROVE  LET c == [a EXCEPT !.attached = b] IN
           /\ c \in Apply /\ c.pc = a.pc /\ c.owns = a.owns /\ c.unsaved = a.unsaved
           /\ c.reuse = a.reuse
BY DEF Apply

\* The same, from one step to another.
LEMMA StepKeeps ==
    ASSUME RunnerInductive, NEW r \in Runs, NEW pc \in ApplySteps, Goes(r, To(r, pc)),
           UNCHANGED <<resource, plan, made>>, routed => routed',
           apply[r].pc \notin Saving \cup Clearing \cup Ended,
           pc \notin Clearing \cup Cleaning \cup Ended, pc \notin {"save identity", "refresh"},
           \A k \in Kinds : pc \in Before(k) => apply[r].pc \in Before(k),
           pc = "attach" => routed'
    PROVE  RunInv(r)'
<1> DEFINE a == To(r, pc)
<1>1. TypeOK /\ RunInv(r)
  BY DEF RunnerInductive
<1>2. /\ a \in Apply /\ a.pc = pc /\ a.owns = apply[r].owns
      /\ a.unsaved = apply[r].unsaved /\ a.reuse = apply[r].reuse
  BY <1>1, ToFields
<1>3. "route" \in a.reuse => routed'
  BY <1>1, <1>2 DEF RunInv, Routes
<1>4. Goes(r, a)
  OBVIOUS
<1> HIDE DEF a
<1>5. QED
  BY <1>2, <1>3, <1>4, OnwardKeeps

LEMMA BeforeSteps ==
    \A pc : /\ pc \in Before("identity") <=> pc \in BeforeIdentity
            /\ pc \in Before("sandbox") <=> pc \in BeforeSandbox
            /\ pc \in Before("inference") <=> pc \in BeforeInference
BY DEF Before

LEMMA QuietSteps ==
    ASSUME RunnerInductive, NEW r \in Runs,
           Begin(r) \/ Inspect(r) \/ SeeIdentity(r) \/ Refresh(r) \/ SeeRacedSandbox(r)
              \/ SeeRacedInference(r) \/ SetRoute(r) \/ Attach(r) \/ SetPolicy(r) \/ UndoAttach(r)
    PROVE  RunInv(r)'
<1> USE BeforeSteps DEF BeforeIdentity, BeforeSandbox, BeforeInference, Kinds
<1>0. /\ TypeOK /\ RunInv(r) /\ apply[r] \in Apply
      /\ Saving \cup Clearing \cup Inspecting \cup Acting \cup Cleaning \cup Ended \cup {"new"}
            = ApplySteps
  BY DEF RunnerInductive, TypeOK, ApplySteps
<1>1. CASE Begin(r)
  <2>1. ASSUME NEW pc \in {"see sandbox", "make sandbox"}, Goes(r, To(r, pc))
        PROVE  RunInv(r)'
    <3>1. pc \in ApplySteps
      BY <1>0 DEF Inspecting, Acting
    <3>2. QED
      BY <1>1, <2>1, <3>1, StepKeeps DEF Begin, At, Saving, Clearing, Cleaning, Ended, world
  <2>2. QED
    BY <1>1, <2>1 DEF Begin
<1>2. CASE Inspect(r)
  <2>1. ASSUME NEW pc \in {"see inference", "see route", "save plan"}, NEW u,
               u \subseteq {"sandbox", "inference", "route"},
               "route" \in u => routed,
               Goes(r, [To(r, pc) EXCEPT !.reuse = u]),
               apply[r].pc \in {"see sandbox", "see inference", "see route"}
        PROVE  RunInv(r)'
    <3> DEFINE a == [To(r, pc) EXCEPT !.reuse = u]
    <3>1. pc \in ApplySteps
      BY <1>0, <2>1 DEF Inspecting, Saving
    <3>2. To(r, pc) \in Apply
      BY <1>0, <3>1, ToFields
    <3>a. /\ a \in Apply /\ a.pc = To(r, pc).pc /\ a.owns = To(r, pc).owns
          /\ a.unsaved = To(r, pc).unsaved /\ a.reuse = u
      BY <2>1, <3>2 DEF Apply
    <3> HIDE DEF a
    <3>3. /\ a \in Apply /\ a.pc = pc /\ a.owns = apply[r].owns
          /\ a.unsaved = apply[r].unsaved /\ a.reuse = u
      BY <1>0, <3>1, <3>a, ToFields
    <3>4. Goes(r, a)
      BY <2>1, Zenon DEF a
    <3>5. QED
      BY <1>2, <2>1, <3>3, <3>4, OnwardKeeps
         DEF Inspect, Saving, Clearing, Cleaning, Ended, world
  <2> DEFINE Found(k) == IF Exists(k) THEN apply[r].reuse \cup {k} ELSE apply[r].reuse
  <2>2. /\ Found("sandbox") \subseteq {"sandbox", "inference", "route"}
        /\ Found("inference") \subseteq {"sandbox", "inference", "route"}
        /\ "route" \in Found("sandbox") => routed
        /\ "route" \in Found("inference") => routed
    BY <1>0 DEF RunInv, Routes, Apply
  <2>3. CASE At(r, "see sandbox")
    <3>1. Goes(r, [To(r, "see inference") EXCEPT !.reuse = Found("sandbox")])
      BY <1>2, <2>3 DEF Inspect, At
    <3> HIDE DEF Found
    <3>2. QED
      BY <2>1, <2>2, <2>3, <3>1 DEF At
  <2>4. CASE At(r, "see inference")
    <3>1. PICK pc \in {"see route", "save plan"} :
             Goes(r, [To(r, pc) EXCEPT !.reuse = Found("inference")])
      BY <1>2, <2>4, Zenon DEF Inspect, At
    <3> HIDE DEF Found
    <3>2. QED
      BY <2>1, <2>2, <2>4, <3>1 DEF At
  <2>5. CASE At(r, "see route")
    <3> DEFINE u == IF routed THEN To(r, "save plan").reuse \cup {"route"}
                    ELSE To(r, "save plan").reuse
    <3>1. Goes(r, [To(r, "save plan") EXCEPT !.reuse = u])
      BY <1>2, <2>5, Zenon DEF Inspect, At
    <3>2. To(r, "save plan").reuse = apply[r].reuse
      BY <1>0, ToFields DEF Saving
    <3>3. u \subseteq {"sandbox", "inference", "route"} /\ ("route" \in u => routed)
      BY <1>0, <3>2 DEF RunInv, Routes, Apply
    <3> HIDE DEF u
    <3>4. QED
      BY <2>1, <2>5, <3>1, <3>3 DEF At
  <2>6. QED
    BY <1>2, <2>3, <2>4, <2>5 DEF Inspect
<1>3. CASE SeeIdentity(r)
  <2>1. "make identity" \in ApplySteps
    BY <1>0 DEF Acting
  <2>2. CASE Exists("identity")
    BY <1>3, <2>2, ThrowKeeps DEF SeeIdentity, At, Saving, Clearing, Ended, world
  <2>3. CASE ~Exists("identity")
    BY <1>3, <2>1, <2>3, StepKeeps DEF SeeIdentity, At, Saving, Clearing, Cleaning, Ended, world
  <2>4. QED
    BY <2>2, <2>3
<1>4. CASE Refresh(r)
  <2>1. "save receipt" \in ApplySteps
    BY <1>0 DEF Saving
  <2>2. QED
    BY <1>4, <2>1, StepKeeps DEF Refresh, At, Saving, Clearing, Cleaning, Ended, world
<1>5. ASSUME NEW k \in {"sandbox", "inference"},
             NEW raced \in {"see raced sandbox", "see raced inference"},
             k = "sandbox" <=> raced = "see raced sandbox", SeeRaced(r, k, raced)
      PROVE  RunInv(r)'
  <2>1. CASE Exists(k)
    <3>1. /\ Following(r, k) \in {"make inference", "attach", "set route"}
          /\ k = "inference" => Following(r, k) # "make inference"
      BY FollowingTyped
    <3>2. Following(r, k) \in ApplySteps
      BY <1>0, <3>1 DEF Acting
    <3>3. Following(r, k) = "attach" => routed
      BY <1>0 DEF Following, AfterInference, RunInv, Routes
    <3>4. QED
      BY <1>5, <2>1, <3>1, <3>2, <3>3, StepKeeps
         DEF SeeRaced, At, Saving, Clearing, Cleaning, Ended, world
  <2>2. CASE ~Exists(k)
    BY <1>5, <2>2, ThrowKeeps DEF SeeRaced, At, Saving, Clearing, Ended, world
  <2>3. QED
    BY <2>1, <2>2
<1>6. CASE SetRoute(r)
  <2>1. ASSUME NEW pc \in {"attach", "set policy"}, Goes(r, To(r, pc))
        PROVE  RunInv(r)'
    <3>1. pc \in ApplySteps
      BY <1>0 DEF Acting
    <3>2. QED
      BY <1>6, <2>1, <3>1, StepKeeps DEF SetRoute, At, Saving, Clearing, Cleaning, Ended
  <2>2. QED
    BY <1>6, <2>1 DEF SetRoute
<1>7. CASE Attach(r)
  <2>1. CASE Exists("sandbox") /\ Exists("identity")
    <3> DEFINE a == [To(r, "save attach") EXCEPT !.attached = ~attached]
    <3>1. "save attach" \in ApplySteps /\ (~attached) \in BOOLEAN
      BY <1>0 DEF Saving
    <3>2. To(r, "save attach") \in Apply
      BY <1>0, <3>1, ToFields
    <3>3. a \in Apply
      BY <3>1, <3>2, FlagsTyped, Zenon
    <3>4. LET c == To(r, "save attach") IN
             /\ a.pc = c.pc /\ a.owns = c.owns /\ a.unsaved = c.unsaved /\ a.reuse = c.reuse
      BY <3>1, <3>2, AttachedFields, Zenon
    <3>5. /\ a.pc = "save attach" /\ a.owns = apply[r].owns
          /\ a.unsaved = apply[r].unsaved /\ a.reuse = apply[r].reuse
      <4> HIDE DEF a
      <4>1. QED
        BY <1>0, <3>1, <3>4, ToFields
    <3>6. Goes(r, a)
      BY <1>7, <2>1, Zenon DEF Attach
    <3> HIDE DEF a
    <3>7. QED
      BY <1>0, <1>7, <2>1, <3>3, <3>5, <3>6, OnwardKeeps
         DEF Attach, At, Saving, Clearing, Cleaning, Ended, RunInv, Routes
  <2>2. CASE ~(Exists("sandbox") /\ Exists("identity"))
    BY <1>7, <2>2, ThrowKeeps DEF Attach, At, Saving, Clearing, Ended
  <2>3. QED
    BY <2>1, <2>2
<1>8. CASE SetPolicy(r)
  <2>1. "save end" \in ApplySteps
    BY <1>0 DEF Saving
  <2>2. CASE Goes(r, Throw(apply[r]))
    BY <1>8, <2>2, ThrowKeeps DEF SetPolicy, At, Saving, Clearing, Ended, world
  <2>3. CASE Goes(r, To(r, "save end"))
    BY <1>8, <2>1, <2>3, StepKeeps DEF SetPolicy, At, Saving, Clearing, Cleaning, Ended, world
  <2>4. QED
    BY <1>8, <2>2, <2>3 DEF SetPolicy
<1>9. CASE UndoAttach(r)
  <2>1. "undo identity" \in ApplySteps
    BY <1>0 DEF Cleaning
  <2>2. "identity" \in apply[r].owns /\ ("route" \in apply[r].reuse => routed)
    BY <1>0, <1>9 DEF UndoAttach, At, RunInv, Cleans, Routes
  <2> DEFINE a == To(r, "undo identity")
  <2>3. /\ a \in Apply /\ a.pc = "undo identity" /\ a.owns = apply[r].owns
        /\ a.unsaved = apply[r].unsaved /\ a.reuse = apply[r].reuse
    BY <1>0, <2>1, ToFields
  <2>4. Goes(r, a)
    BY <1>9 DEF UndoAttach
  <2> HIDE DEF a
  <2>5. QED
    BY <1>9, <2>2, <2>3, <2>4, QuietKeeps
       DEF UndoAttach, At, Saving, Clearing, Cleaning, Ended
<1>10. QED
  BY <1>1, <1>2, <1>3, <1>4, <1>5, <1>6, <1>7, <1>8, <1>9 DEF SeeRacedSandbox, SeeRacedInference

LEMMA OwnsFields ==
    ASSUME NEW a \in Apply, NEW o \in SUBSET Kinds, NEW b \in BOOLEAN
    PROVE  /\ LET c == [a EXCEPT !.owns = o] IN
              /\ c \in Apply /\ c.pc = a.pc /\ c.owns = o /\ c.unsaved = a.unsaved
              /\ c.uncleaned = a.uncleaned /\ c.reuse = a.reuse
           /\ LET c == [a EXCEPT !.owns = o, !.attached = b] IN
              /\ c \in Apply /\ c.pc = a.pc /\ c.owns = o /\ c.unsaved = a.unsaved
              /\ c.uncleaned = a.uncleaned /\ c.reuse = a.reuse
BY DEF Apply

LEMMA MadeFields ==
    ASSUME TypeOK, NEW r \in Runs, NEW k \in Kinds, NEW save \in Saving,
           Goes(r, [To(r, save) EXCEPT !.owns = @ \cup {k}])
    PROVE  \E a \in Apply :
              /\ Goes(r, a) /\ a.pc = save /\ a.owns = apply[r].owns \cup {k}
              /\ a.unsaved = apply[r].unsaved /\ a.uncleaned = apply[r].uncleaned
              /\ a.reuse = apply[r].reuse
<1> DEFINE a == [To(r, save) EXCEPT !.owns = @ \cup {k}]
<1>1. save \in ApplySteps
  BY DEF ApplySteps
<1>2. To(r, save) \in Apply /\ To(r, save).owns \cup {k} \in SUBSET Kinds
  BY <1>1, ToFields DEF Apply
<1>3. PICK c \in Apply : c = To(r, save)
  BY <1>2
<1>4. /\ c.pc = save /\ c.owns = apply[r].owns /\ c.unsaved = apply[r].unsaved
      /\ c.uncleaned = apply[r].uncleaned /\ c.reuse = apply[r].reuse
  BY <1>1, <1>3, ToFields
<1>5. a = [c EXCEPT !.owns = @ \cup {k}]
  BY <1>3, Zenon
<1>6. Goes(r, a)
  OBVIOUS
<1> HIDE DEF a
<1>7. /\ a \in Apply /\ a.pc = save /\ a.owns = apply[r].owns \cup {k}
      /\ a.unsaved = apply[r].unsaved /\ a.uncleaned = apply[r].uncleaned
      /\ a.reuse = apply[r].reuse
  BY <1>2, <1>3, <1>4, <1>5 DEF Apply
<1>8. QED
  BY <1>6, <1>7, Zenon

\* What is made is owned at once and saved next.
LEMMA CreateKeeps ==
    ASSUME RunnerInductive, NEW r \in Runs, NEW k \in Kinds, NEW make, NEW save \in Saving,
           apply[r].pc = make, CreatedBy(r, k), UNCHANGED plan,
           NEW a \in Apply, Goes(r, a), a.pc = save, a.owns = apply[r].owns \cup {k},
           a.unsaved = apply[r].unsaved, a.uncleaned = apply[r].uncleaned,
           a.reuse = apply[r].reuse,
           \/ k = "identity" /\ make = "make identity" /\ save = "save identity"
           \/ k = "sandbox" /\ make = "make sandbox" /\ save = "save sandbox"
           \/ k = "inference" /\ make = "make inference" /\ save = "save inference"
    PROVE  RunInv(r)'
<1> DEFINE b == apply'[r]
<1>1. /\ TypeOK /\ RunInv(r) /\ apply[r] \in Apply /\ rollback' = rollback /\ r # Outside
      /\ r # None
  BY RunsAssumption DEF RunnerInductive, TypeOK, Goes
<1>2. save \in ApplySteps /\ save \notin Ended \cup Clearing
  BY DEF ApplySteps, Saving, Ended, Clearing
<1>5. /\ b.pc = save /\ b.unsaved = apply[r].unsaved /\ b.uncleaned = apply[r].uncleaned
      /\ b.owns = apply[r].owns \cup {k} /\ b.reuse = apply[r].reuse
  BY <1>1, <1>2, GoesFields
<1> HIDE DEF b
<1>6. /\ resource' = [resource EXCEPT ![k] = r]
      /\ made'[r] = made[r] \cup {k}
      /\ routed' = routed /\ plan' = plan
      /\ resource \in [Kinds -> Runs \cup {None, Outside}] /\ made[r] \subseteq Kinds
  BY <1>1 DEF CreatedBy, TypeOK
<1>7. Claims(r)'
  <2>1. \A j \in Kinds : b.pc \in Before(j) => apply[r].pc \in Before(j) /\ j # k
    BY <1>5, BeforeSteps
       DEF Kinds, Saving, BeforeIdentity, BeforeSandbox, BeforeInference
  <2>2. QED
    BY <1>1, <1>5, <1>6, <2>1 DEF RunInv, Claims, b
<1>8. Ledger(r)'
  <2>1. apply[r].pc \notin Ended
    BY DEF Ended
  <2>2. QED
    BY <1>1, <1>2, <1>5, <1>6, <2>1 DEF RunInv, Ledger, b
<1>9. Cleans(r)'
  BY <1>1, <1>2, <1>5 DEF RunInv, Cleans, b, Clearing, Saving
<1>10. Undone(r)'
  <2>1. k \notin made[r] /\ ("inference" \in made[r] => k # "sandbox")
    BY <1>1, BeforeSteps
       DEF RunInv, Claims, Kinds, BeforeIdentity, BeforeSandbox, BeforeInference
  <2>2. k \notin rollback[r].owns /\ k \notin plan[r].owns
    BY <1>1, <2>1 DEF RunInv, Claims
  <2>3. ("inference" \in rollback[r].owns \/ "inference" \in plan[r].owns) => k # "sandbox"
    BY <1>1, <2>1 DEF RunInv, Claims
  <2>4. Passed(rollback[r].pc) \subseteq Kinds
    BY DEF Passed, Kinds
  <2>5. QED
    BY <1>1, <1>6, <2>2, <2>3, <2>4 DEF RunInv, Undone, Kinds
<1>11. Routes(r)'
  BY <1>1, <1>5, <1>6 DEF RunInv, Routes, b
<1>12. QED
  BY <1>7, <1>8, <1>9, <1>10, <1>11 DEF RunInv

LEMMA CreatesKeep ==
    ASSUME RunnerInductive, NEW r \in Runs, NEW k \in Kinds, NEW make, NEW save \in Saving,
           apply[r].pc = make, CreatedBy(r, k), UNCHANGED plan,
           Goes(r, [To(r, save) EXCEPT !.owns = @ \cup {k}]),
           \/ k = "identity" /\ make = "make identity" /\ save = "save identity"
           \/ k = "sandbox" /\ make = "make sandbox" /\ save = "save sandbox"
           \/ k = "inference" /\ make = "make inference" /\ save = "save inference"
    PROVE  RunInv(r)'
<1>1. PICK a \in Apply :
         /\ Goes(r, a) /\ a.pc = save /\ a.owns = apply[r].owns \cup {k}
         /\ a.unsaved = apply[r].unsaved /\ a.uncleaned = apply[r].uncleaned
         /\ a.reuse = apply[r].reuse
  <2>1. TypeOK
    BY DEF RunnerInductive
  <2>2. QED
    BY <2>1, MadeFields, Zenon
<1>2. QED
  BY <1>1, CreateKeeps

LEMMA MakeSteps ==
    ASSUME RunnerInductive, NEW r \in Runs,
           MakeIdentity(r) \/ MakeSandbox(r) \/ MakeInference(r)
    PROVE  RunInv(r)'
<1> USE BeforeSteps DEF BeforeIdentity, BeforeSandbox, BeforeInference, Kinds
<1>0. TypeOK /\ RunInv(r) /\ Acting \cup Inspecting \subseteq ApplySteps
  BY DEF RunnerInductive, ApplySteps
<1>1. CASE MakeIdentity(r)
  <2>0. apply[r].pc = "make identity" /\ UNCHANGED plan
    BY <1>1, Zenon DEF MakeIdentity, At
  <2>1. CASE Exists("identity")
    <3>1. Goes(r, Throw(apply[r])) /\ UNCHANGED <<world, made>>
      BY <1>1, <2>1, Zenon DEF MakeIdentity
    <3>2. QED
      BY <2>0, <3>1, ThrowKeeps DEF Saving, Clearing, Ended, world
  <2>2. CASE ~Exists("identity")
    <3>1. /\ Goes(r, [To(r, "save identity") EXCEPT !.owns = @ \cup {"identity"}])
          /\ CreatedBy(r, "identity")
      BY <1>1, <2>2, Zenon DEF MakeIdentity
    <3>2. "save identity" \in Saving /\ "identity" \in Kinds
      BY DEF Saving
    <3>3. QED
      BY <2>0, <3>1, <3>2, CreatesKeep, Zenon
  <2>3. QED
    BY <2>1, <2>2
<1>2. ASSUME NEW k \in {"sandbox", "inference"}, NEW make, NEW save \in Saving, NEW raced,
             Make(r, k, make, save, raced),
             \/ /\ k = "sandbox" /\ make = "make sandbox" /\ save = "save sandbox"
                /\ raced = "see raced sandbox"
             \/ /\ k = "inference" /\ make = "make inference" /\ save = "save inference"
                /\ raced = "see raced inference"
      PROVE  RunInv(r)'
  <2>1. CASE Exists(k)
    <3>1. /\ Following(r, k) \in {"make inference", "attach", "set route"}
          /\ k = "inference" => Following(r, k) # "make inference"
      BY FollowingTyped
    <3>2. Following(r, k) = "attach" => routed
      BY <1>0 DEF Following, AfterInference, RunInv, Routes
    <3>3. /\ apply[r].pc = make /\ UNCHANGED plan /\ UNCHANGED <<world, made>>
          /\ Goes(r, To(r, IF r \in WithIdentity THEN raced ELSE Following(r, k)))
      BY <1>2, <2>1, Zenon DEF Make, At
    <3> DEFINE pc == IF r \in WithIdentity THEN raced ELSE Following(r, k)
    <3>4. pc \in ApplySteps
      BY <1>0, <1>2, <3>1, <3>3 DEF Acting, Inspecting
    <3>5. QED
      BY <1>2, <2>1, <3>1, <3>2, <3>3, <3>4, StepKeeps
         DEF Saving, Clearing, Cleaning, Ended, world
  <2>2. CASE ~Exists(k)
    <3>1. /\ Goes(r, [To(r, save) EXCEPT !.owns = @ \cup {k}])
          /\ CreatedBy(r, k) /\ apply[r].pc = make /\ UNCHANGED plan
      BY <1>2, <2>2, Zenon DEF Make, At
    <3>2. k \in Kinds
      OBVIOUS
    <3>3. QED
      BY <1>2, <3>1, <3>2, CreatesKeep, Zenon
  <2>3. QED
    BY <2>1, <2>2
<1>3. QED
  BY <1>1, <1>2 DEF MakeSandbox, MakeInference, Saving

\* What is removed by a cleanup, of the run whose apply it is.
LEMMA RemovedMeans ==
    ASSUME TypeOK, NEW k \in Kinds, Removed(k)
    PROVE  /\ \A j \in Kinds : resource'[j] = IF j = k THEN None ELSE resource[j]
           /\ routed' = routed
BY DEF TypeOK, Removed

LEMMA UndoKeeps ==
    ASSUME RunnerInductive, NEW r \in Runs, NEW k \in Kinds, NEW undo, NEW clear \in Clearing,
           Undo(r, k, undo, clear),
           \/ k = "identity" /\ undo = "undo identity" /\ clear = "clear identity"
           \/ k = "sandbox" /\ undo = "undo sandbox" /\ clear = "clear sandbox"
           \/ k = "inference" /\ undo = "undo inference" /\ clear = "clear inference"
    PROVE  RunInv(r)'
<1> DEFINE a == [To(r, clear) EXCEPT !.owns = @ \ {k}, !.attached = @ /\ k # "identity"]
<1> DEFINE b == apply'[r]
<1>1. /\ Goes(r, a) /\ Removed(k) /\ apply[r].pc = undo /\ plan' = plan /\ made' = made
  BY Zenon DEF Undo, At
<1>2. /\ TypeOK /\ RunInv(r) /\ r # Outside /\ r # None /\ None # Outside
      /\ made[r] \subseteq Kinds
  BY RunsAssumption DEF RunnerInductive, TypeOK
<1>3. /\ a \in Apply /\ a.pc = clear /\ a.owns = apply[r].owns \ {k}
      /\ a.unsaved = apply[r].unsaved /\ a.uncleaned = apply[r].uncleaned
      /\ a.reuse = apply[r].reuse
  <2>1. clear \in ApplySteps
    BY DEF ApplySteps
  <2>2. PICK c \in Apply : c = To(r, clear)
    BY <1>2, <2>1, ToFields
  <2>3. /\ c.pc = clear /\ c.owns = apply[r].owns /\ c.unsaved = apply[r].unsaved
        /\ c.uncleaned = apply[r].uncleaned /\ c.reuse = apply[r].reuse
    BY <1>2, <2>1, <2>2, ToFields
  <2>4. c.owns \ {k} \in SUBSET Kinds
    BY DEF Apply
  <2>5. (c.attached /\ k # "identity") \in BOOLEAN
    OBVIOUS
  <2>6. PICK e \in BOOLEAN : e = (c.attached /\ k # "identity")
    BY <2>5, Zenon
  <2>7. a = [c EXCEPT !.owns = c.owns \ {k}, !.attached = e]
    BY <2>2, <2>6, Zenon
  <2> HIDE DEF a
  <2>8. QED
    BY <2>3, <2>4, <2>7 DEF Apply
<1> HIDE DEF a
<1>4. /\ b.pc = clear /\ b.unsaved = apply[r].unsaved /\ b.uncleaned = apply[r].uncleaned
      /\ b.owns = apply[r].owns \ {k} /\ b.reuse = apply[r].reuse /\ rollback' = rollback
  <2>1. clear \notin Ended
    BY DEF Clearing, Ended
  <2>2. QED
    BY <1>1, <1>2, <1>3, <2>1, GoesOn
<1> HIDE DEF b
<1>5. \A j \in Kinds : resource'[j] = IF j = k THEN None ELSE resource[j]
  BY <1>1, <1>2, RemovedMeans
<1>6. Claims(r)'
  <2>1. \A j \in Kinds : clear \notin Before(j)
    BY BeforeSteps DEF Kinds, Clearing, BeforeIdentity, BeforeSandbox, BeforeInference
  <2>2. QED
    BY <1>1, <1>2, <1>4, <1>5, <2>1 DEF RunInv, Claims, b
<1>7. Ledger(r)'
  <2>1. undo \notin Ended
    BY DEF Ended
  <2>2. QED
    BY <1>1, <1>2, <1>4, <1>5, <2>1 DEF RunInv, Ledger, b, Ended, Clearing
<1>8. Cleans(r)'
  BY <1>1, <1>2, <1>4, <1>5 DEF RunInv, Cleans, b, Clearing
<1>9. Undone(r)'
  <2>1. Passed(rollback[r].pc) \subseteq Kinds /\ "sandbox" \in Kinds
    BY DEF Passed, Kinds
  <2>2. QED
    BY <1>1, <1>2, <1>4, <1>5, <2>1 DEF RunInv, Undone
<1>10. Routes(r)'
  <2>1. routed' = routed
    BY <1>1, <1>2, RemovedMeans
  <2>2. QED
    BY <1>2, <1>4, <2>1 DEF RunInv, Routes, b, Clearing
<1>11. QED
  BY <1>6, <1>7, <1>8, <1>9, <1>10 DEF RunInv

LEMMA UnmakeKeeps ==
    ASSUME RunnerInductive, NEW r \in Runs, UnmakeIdentity(r)
    PROVE  RunInv(r)'
<1> DEFINE a == Throw(apply[r])
<1> DEFINE b == apply'[r]
<1>1. /\ Goes(r, a) /\ Removed("identity") /\ apply[r].pc = "unmake identity"
      /\ plan' = plan /\ made' = made
  BY DEF UnmakeIdentity, At
<1>2. /\ TypeOK /\ RunInv(r) /\ r # Outside /\ r # None /\ None # Outside
      /\ made[r] \subseteq Kinds /\ apply[r] \in Apply
  BY RunsAssumption DEF RunnerInductive, TypeOK
<1>3. /\ a \in Apply /\ a.pc = Catch(apply[r]) /\ a.owns = apply[r].owns
      /\ a.unsaved = apply[r].unsaved /\ a.uncleaned = apply[r].uncleaned
      /\ a.reuse = apply[r].reuse
  <2>1. a \in Apply
    BY <1>2, PcTyped
  <2>2. QED
    BY <1>2, <2>1 DEF Throw, Apply
<1> HIDE DEF a
<1>4. "identity" \in apply[r].owns
  BY <1>1, <1>2 DEF RunInv, Cleans
<1>5. Catch(apply[r]) \in {"undo attach", "undo identity"}
  BY <1>2, <1>4, CatchOwned DEF Cleaning
<1>6. /\ b.pc = Catch(apply[r]) /\ b.unsaved = apply[r].unsaved
      /\ b.uncleaned = apply[r].uncleaned
      /\ b.owns = apply[r].owns /\ b.reuse = apply[r].reuse /\ rollback' = rollback
  <2>1. Catch(apply[r]) \notin Ended
    BY <1>5 DEF Ended
  <2>2. QED
    BY <1>1, <1>2, <1>3, <2>1, GoesOn
<1> HIDE DEF b
<1>7. \A j \in Kinds : resource'[j] = IF j = "identity" THEN None ELSE resource[j]
  BY <1>1, <1>2, RemovedMeans DEF Kinds
<1>8. Claims(r)'
  <2>1. \A j \in Kinds : b.pc \notin Before(j)
    BY <1>5, <1>6, BeforeSteps DEF Kinds, BeforeIdentity, BeforeSandbox, BeforeInference
  <2>2. QED
    BY <1>1, <1>2, <1>6, <1>7, <2>1 DEF RunInv, Claims, b
<1>9. Ledger(r)'
  BY <1>1, <1>2, <1>5, <1>6, <1>7 DEF RunInv, Ledger, b, Ended, Saving, Clearing
<1>10. Cleans(r)'
  BY <1>1, <1>2, <1>4, <1>5, <1>6 DEF RunInv, Cleans, b, Clearing
<1>11. Undone(r)'
  <2>1. Passed(rollback[r].pc) \subseteq Kinds /\ "sandbox" \in Kinds
    BY DEF Passed, Kinds
  <2>2. QED
    BY <1>1, <1>2, <1>6, <1>7, <2>1 DEF RunInv, Undone
<1>12. Routes(r)'
  BY <1>1, <1>2, <1>5, <1>6 DEF RunInv, Routes, b, Removed
<1>13. QED
  BY <1>8, <1>9, <1>10, <1>11, <1>12 DEF RunInv

\* Where a save is followed by what.
LEMMA SaveLeads ==
    ASSUME RunnerInductive, NEW r \in Runs, apply[r].pc \in Saving \cup Clearing
    PROVE  LET n == AfterSave(r)  a == apply[r]
           IN  /\ n \in ApplySteps /\ n \notin Saving \cup Clearing
               /\ \A k \in Kinds : n \in Before(k) => a.pc \in Before(k)
               /\ n \in {"save identity", "refresh", "unmake identity", "undo attach",
                         "undo identity"} => "identity" \in a.owns
               /\ n = "undo sandbox" => "sandbox" \in a.owns
               /\ n = "undo inference" => "inference" \in a.owns /\ "sandbox" \notin a.owns
               /\ (n \in {"undo sandbox", "undo inference"} /\ ~a.uncleaned)
                     => "identity" \notin a.owns
               /\ (n = "failed" /\ ~a.uncleaned) => a.owns = {}
               /\ n = "attach" => routed
<1> DEFINE n == AfterSave(r)
<1> DEFINE a == apply[r]
<1>1. /\ a \in Apply /\ RunInv(r) /\ a.owns \subseteq Kinds
      /\ Saving \cup Clearing \cup Inspecting \cup Acting \cup Cleaning \cup Ended \cup {"new"}
            = ApplySteps
  BY DEF RunnerInductive, TypeOK, ApplySteps, Apply
<1> USE BeforeSteps DEF BeforeIdentity, BeforeSandbox, BeforeInference, Kinds
<1>2. CASE a.pc = "save plan"
  <2>1. n = "see identity"
    BY <1>2 DEF AfterSave
  <2>2. QED
    BY <1>1, <1>2, <2>1 DEF Saving, Clearing, Acting
<1>3. CASE a.pc = "save identity"
  <2>1. n = "refresh"
    BY <1>3 DEF AfterSave
  <2>2. "identity" \in a.owns
    BY <1>1, <1>3 DEF RunInv, Cleans
  <2>3. QED
    BY <1>1, <1>3, <2>1, <2>2 DEF Saving, Clearing, Acting
<1>4. ASSUME NEW k \in {"sandbox", "inference"}, n = Following(r, k),
             k = "sandbox" => a.pc \in {"save receipt", "save sandbox"},
             k = "inference" => a.pc = "save inference"
      PROVE  /\ n \in {"make inference", "attach", "set route"}
             /\ n = "make inference" => k = "sandbox"
             /\ n = "attach" => routed
  BY <1>1, <1>4, FollowingTyped DEF Following, AfterInference, RunInv, Routes
<1>5. CASE a.pc = "save receipt"
  <2>1. n \in {"make sandbox", "make inference", "attach", "set route"}
    BY <1>5, FollowingTyped DEF AfterSave
  <2>2. n = "attach" => routed
    BY <1>1, <1>5 DEF AfterSave, AfterReceipt, Following, AfterInference, RunInv, Routes
  <2>3. QED
    BY <1>1, <1>5, <2>1, <2>2 DEF Saving, Clearing, Acting
<1>6. CASE a.pc = "save sandbox"
  <2>1. n = Following(r, "sandbox")
    BY <1>6 DEF AfterSave
  <2>2. QED
    BY <1>1, <1>4, <1>6, <2>1 DEF Saving, Clearing, Acting
<1>7. CASE a.pc = "save inference"
  <2>1. n = Following(r, "inference")
    BY <1>7 DEF AfterSave
  <2>2. QED
    BY <1>1, <1>4, <1>7, <2>1 DEF Saving, Clearing, Acting
<1>8. CASE a.pc = "save attach" \/ a.pc = "save end"
  <2>1. n \in {"set policy", "done"}
    BY <1>8 DEF AfterSave
  <2>2. QED
    BY <1>1, <1>8, <2>1 DEF Saving, Clearing, Acting, Ended
<1>9. CASE a.pc \in Clearing
  <2>1. /\ a.pc = "clear identity" => n = AfterIdentity(a)
        /\ a.pc = "clear sandbox" => n = AfterSandbox(a)
        /\ a.pc = "clear inference" => n = "failed"
    BY <1>9 DEF AfterSave, Clearing
  <2>2. /\ ~a.uncleaned => "identity" \notin a.owns
        /\ a.pc \in {"clear sandbox", "clear inference"} => "sandbox" \notin a.owns
        /\ a.pc = "clear inference" => "inference" \notin a.owns
    BY <1>1, <1>9 DEF RunInv, Cleans
  <2>3. n \in {"undo sandbox", "undo inference", "failed"}
    BY <1>1, <1>9, <2>1, AfterOwned DEF Clearing
  <2>4. (n = "failed" /\ ~a.uncleaned) => a.owns = {}
    BY <1>1, <1>9, <2>1, <2>2, AfterOwned DEF Clearing
  <2>5. /\ n = "undo sandbox" => "sandbox" \in a.owns
        /\ n = "undo inference" => "inference" \in a.owns /\ "sandbox" \notin a.owns
    BY <1>1, <1>9, <2>1, AfterOwned DEF Clearing
  <2> HIDE DEF n, a
  <2>6. n \in ApplySteps /\ n \notin Saving \cup Clearing
    BY <1>1, <2>3 DEF Cleaning, Ended, Saving, Clearing
  <2>7. QED
    BY <2>2, <2>3, <2>4, <2>5, <2>6 DEF n, a
<1>10. QED
  BY <1>2, <1>3, <1>5, <1>6, <1>7, <1>8, <1>9 DEF Saving

LEMMA SaveKeeps ==
    ASSUME RunnerInductive, NEW r \in Runs, Save(r)
    PROVE  RunInv(r)'
<1> DEFINE n == AfterSave(r)
<1> DEFINE a == apply[r]
<1> DEFINE b == apply'[r]
<1>1. /\ TypeOK /\ RunInv(r) /\ a \in Apply /\ a.pc \in Saving \cup Clearing
      /\ resource' = resource /\ made' = made /\ routed' = routed
      /\ Goes(r, To(r, n)) /\ plan'[r].owns = a.owns /\ rollback' = rollback
  BY DEF RunnerInductive, TypeOK, Save, Recorded, Goes, world
<1>2. /\ n \in ApplySteps /\ n \notin Saving \cup Clearing
      /\ \A k \in Kinds : n \in Before(k) => a.pc \in Before(k)
      /\ n \in {"save identity", "refresh", "unmake identity", "undo attach",
                "undo identity"} => "identity" \in a.owns
      /\ n = "undo sandbox" => "sandbox" \in a.owns
      /\ n = "undo inference" => "inference" \in a.owns /\ "sandbox" \notin a.owns
      /\ (n \in {"undo sandbox", "undo inference"} /\ ~a.uncleaned) => "identity" \notin a.owns
      /\ (n = "failed" /\ ~a.uncleaned) => a.owns = {}
      /\ n = "attach" => routed
  BY <1>1, SaveLeads
<1> HIDE DEF n
<1>3. /\ b.pc = n /\ b.unsaved = a.unsaved /\ b.uncleaned = a.uncleaned
      /\ b.owns = IF n \in Ended THEN {} ELSE a.owns
      /\ b.reuse = IF n \in Ended THEN {} ELSE a.reuse
  <2> DEFINE c == To(r, n)
  <2>1. /\ c \in Apply /\ c.pc = n /\ c.unsaved = a.unsaved /\ c.uncleaned = a.uncleaned
        /\ c.owns = a.owns /\ c.reuse = a.reuse
    BY <1>1, <1>2, ToFields
  <2>2. Goes(r, c)
    BY <1>1
  <2> HIDE DEF c
  <2>3. QED
    BY <1>1, <2>1, <2>2, GoesFields
<1> HIDE DEF a, b
<1>4. /\ a.pc \notin Ended
      /\ \A k \in Kinds : resource[k] = r => k \in a.owns
  BY <1>1 DEF RunInv, Ledger, a, Ended, Saving, Clearing
<1>5. Claims(r)'
  BY <1>1, <1>2, <1>3 DEF RunInv, Claims, a, b
<1>6. Ledger(r)'
  BY <1>1, <1>2, <1>3, <1>4 DEF Ledger, a, b
<1>7. Cleans(r)'
  BY <1>1, <1>2, <1>3, <1>4 DEF Cleans, a, b, Clearing, Ended
<1>8. Undone(r)'
  BY <1>1, <1>4 DEF RunInv, Undone, Kinds
<1>9. Routes(r)'
  BY <1>1, <1>2, <1>3 DEF RunInv, Routes, a, b
<1>10. QED
  BY <1>5, <1>6, <1>7, <1>8, <1>9 DEF RunInv

\* A step that makes and removes nothing and ends, or goes to the cleanup.
LEMMA FallKeeps ==
    ASSUME RunnerInductive, NEW r \in Runs, NEW a \in Apply, Goes(r, a),
           UNCHANGED <<resource, routed, made>>,
           plan'[r].owns \in {plan[r].owns, {}},
           ~a.unsaved => plan' = plan /\ ~apply[r].unsaved /\ apply[r].pc \notin Saving \cup Clearing,
           apply[r].pc \notin Ended,
           a.pc \in Cleaning \cup {"failed", "died"},
           a.owns = apply[r].owns, a.reuse = apply[r].reuse,
           a.pc \in {"unmake identity", "undo attach", "undo identity"} => "identity" \in a.owns,
           a.pc = "undo sandbox" => "sandbox" \in a.owns,
           a.pc = "undo inference" => "inference" \in a.owns /\ "sandbox" \notin a.owns,
           (a.pc \in {"undo sandbox", "undo inference"} /\ ~a.uncleaned)
               => "identity" \notin a.owns,
           (a.pc = "failed" /\ ~a.uncleaned /\ ~a.unsaved) => a.owns = {}
    PROVE  RunInv(r)'
<1> DEFINE b == apply'[r]
<1>1. /\ TypeOK /\ RunInv(r) /\ made[r] \subseteq Kinds /\ rollback' = rollback
  BY DEF RunnerInductive, TypeOK, Goes
<1>2. /\ b.pc = a.pc /\ b.unsaved = a.unsaved /\ b.uncleaned = a.uncleaned
      /\ b.owns = IF a.pc \in Ended THEN {} ELSE a.owns
      /\ b.reuse = IF a.pc \in Ended THEN {} ELSE a.reuse
  BY <1>1, GoesFields
<1> HIDE DEF b
<1>3. /\ a.pc \notin Saving \cup Clearing /\ a.pc # "attach"
      /\ \A k \in Kinds : a.pc \notin Before(k)
  BY BeforeSteps
     DEF Cleaning, Saving, Clearing, BeforeIdentity, BeforeSandbox, BeforeInference, Kinds
<1>4. \A k \in Kinds : resource[k] = r => k \in a.owns
  BY <1>1 DEF RunInv, Ledger
<1>5. ~a.unsaved => plan'[r].owns = a.owns
  BY <1>1 DEF RunInv, Ledger
<1>6. Claims(r)'
  BY <1>1, <1>2, <1>3 DEF RunInv, Claims, b
<1>7. Ledger(r)'
  BY <1>1, <1>2, <1>4, <1>5 DEF Ledger, b
<1>8. Cleans(r)'
  <2>1. a.pc \notin Clearing \cup {"save identity", "refresh"}
    BY DEF Cleaning, Clearing
  <2>2. a.pc \in Ended => a.pc \in {"failed", "died"}
    BY DEF Cleaning, Ended
  <2>3. a.pc \in {"undo sandbox", "undo inference", "unmake identity", "undo attach",
                 "undo identity"} => a.pc \notin Ended
    BY DEF Ended
  <2>4. (b.pc = "failed" /\ ~b.uncleaned /\ ~b.unsaved)
           => (plan'[r].owns = {} /\ \A k \in Kinds : resource'[k] # r)
    BY <1>2, <1>4, <1>5
  <2>5. b.pc \in {"unmake identity", "undo attach", "undo identity", "undo sandbox",
                 "undo inference"} => b.owns = a.owns
    BY <1>2, <2>3
  <2>6. /\ b.pc \in {"save identity", "refresh", "unmake identity", "undo attach",
                    "undo identity"} => "identity" \in b.owns
        /\ b.pc = "undo sandbox" => "sandbox" \in b.owns
        /\ b.pc = "undo inference" => "inference" \in b.owns /\ "sandbox" \notin b.owns
        /\ b.pc \notin Clearing
        /\ b.pc # "clear sandbox" /\ b.pc # "clear inference"
    BY <1>2, <2>1, <2>5 DEF Clearing
  <2>7. (b.pc \in {"undo sandbox", "undo inference"} /\ ~b.uncleaned) => "identity" \notin b.owns
    BY <1>2, <2>5
  <2>8. QED
    BY <2>4, <2>6, <2>7 DEF Cleans, b
<1>9. Undone(r)'
  BY <1>1 DEF RunInv, Undone
<1>10. Routes(r)'
  BY <1>1, <1>2, <1>3 DEF RunInv, Routes, b
<1>11. QED
  BY <1>6, <1>7, <1>8, <1>9, <1>10 DEF RunInv

\* Where a failure leads.
LEMMA ThrowsLeads ==
    ASSUME NEW a \in Apply,
           a.pc \in {"save identity", "refresh"} => "identity" \in a.owns,
           NEW c, c = Throws(a)
    PROVE  /\ c \in Apply /\ c.pc \in Cleaning \cup {"failed"} /\ c.owns = a.owns
           /\ c.unsaved = a.unsaved /\ c.uncleaned = a.uncleaned /\ c.reuse = a.reuse
           /\ c.pc \in {"unmake identity", "undo attach", "undo identity"}
                 => "identity" \in c.owns
           /\ c.pc = "undo sandbox" => "sandbox" \in c.owns
           /\ c.pc = "undo inference" => "inference" \in c.owns /\ "sandbox" \notin c.owns
           /\ c.pc \in {"undo sandbox", "undo inference"} => "identity" \notin c.owns
           /\ c.pc = "failed" => c.owns = {}
<1>1. c \in Apply
  BY PcTyped
<1>2. CASE a.pc \in {"save identity", "refresh"}
  <2>1. c = [a EXCEPT !.pc = "unmake identity"]
    BY <1>2 DEF Throws
  <2>2. /\ c.pc = "unmake identity" /\ c.owns = a.owns /\ c.unsaved = a.unsaved
        /\ c.uncleaned = a.uncleaned /\ c.reuse = a.reuse
    BY <2>1 DEF Apply
  <2>3. QED
    BY <1>1, <1>2, <2>2 DEF Cleaning
<1>3. CASE a.pc \notin {"save identity", "refresh"}
  <2>1. c = [a EXCEPT !.pc = Catch(a)]
    BY <1>3 DEF Throws, Throw
  <2>2. /\ c.pc = Catch(a) /\ c.owns = a.owns /\ c.unsaved = a.unsaved
        /\ c.uncleaned = a.uncleaned /\ c.reuse = a.reuse
    BY <2>1 DEF Apply
  <2>3. QED
    BY <1>1, <2>2, CatchOwned
<1>4. QED
  BY <1>2, <1>3

LEMMA CommandFailsKeeps ==
    ASSUME RunnerInductive, NEW r \in Runs, CommandFails(r)
    PROVE  RunInv(r)'
<1> DEFINE p == apply[r]
<1>1. /\ TypeOK /\ RunInv(r) /\ p \in Apply
      /\ p.pc \in Inspecting \cup Acting \cup Cleaning
      /\ UNCHANGED <<resource, routed, made>> /\ plan' = plan
  BY DEF RunnerInductive, TypeOK, CommandFails, world
<1>2. /\ p.pc \notin Ended \cup Saving \cup Clearing
      /\ p.pc \in {"save identity", "refresh"} => "identity" \in p.owns
  BY <1>1 DEF Inspecting, Acting, Cleaning, Ended, Saving, Clearing, RunInv, Cleans
<1>3. CASE p.pc \in Cleaning \ {"unmake identity"}
  <2> DEFINE next == CASE p.pc \in {"undo attach", "undo identity"} -> AfterIdentity(p)
                       [] p.pc = "undo sandbox" -> AfterSandbox(p)
                       [] p.pc = "undo inference" -> "failed"
  <2> DEFINE a == [p EXCEPT !.uncleaned = TRUE, !.pc = next]
  <2>1. Goes(r, a)
    BY <1>3 DEF CommandFails, Uncleaned
  <2>2. /\ next \in {"undo sandbox", "undo inference", "failed"}
        /\ next = "undo sandbox" => "sandbox" \in p.owns
        /\ next = "undo inference" => "inference" \in p.owns /\ "sandbox" \notin p.owns
    BY <1>1, <1>3, AfterOwned DEF Cleaning
  <2> HIDE DEF next
  <2>3. next \in ApplySteps
    BY <2>2 DEF ApplySteps, Cleaning, Ended
  <2>4. /\ a \in Apply /\ a.pc = next /\ a.owns = p.owns /\ a.unsaved = p.unsaved
        /\ a.reuse = p.reuse /\ a.uncleaned
    <3> HIDE DEF p
    <3>1. QED
      BY <1>1, <2>3 DEF Apply
  <2> HIDE DEF a
  <2>5. /\ a.pc \in Cleaning \cup {"failed", "died"}
        /\ a.pc \notin {"unmake identity", "undo attach", "undo identity"}
    BY <2>2, <2>4 DEF Cleaning
  <2>6. QED
    BY <1>1, <1>2, <2>1, <2>2, <2>4, <2>5, FallKeeps
<1>4. CASE p.pc \notin Cleaning \ {"unmake identity"}
  <2> DEFINE a == Throws(p)
  <2>1. Goes(r, a)
    BY <1>4 DEF CommandFails
  <2>2. /\ a \in Apply /\ a.pc \in Cleaning \cup {"failed"} /\ a.owns = p.owns
        /\ a.unsaved = p.unsaved /\ a.uncleaned = p.uncleaned /\ a.reuse = p.reuse
        /\ a.pc \in {"unmake identity", "undo attach", "undo identity"} => "identity" \in a.owns
        /\ a.pc = "undo sandbox" => "sandbox" \in a.owns
        /\ a.pc = "undo inference" => "inference" \in a.owns /\ "sandbox" \notin a.owns
        /\ a.pc \in {"undo sandbox", "undo inference"} => "identity" \notin a.owns
        /\ a.pc = "failed" => a.owns = {}
    BY <1>1, <1>2, ThrowsLeads
  <2> HIDE DEF a
  <2>3. QED
    BY <1>1, <1>2, <2>1, <2>2, FallKeeps
<1>5. QED
  BY <1>3, <1>4

LEMMA TornLeaves ==
    ASSUME TypeOK, NEW r \in Runs, Torn(r)
    PROVE  plan'[r].owns \in {plan[r].owns, {}}
BY DEF TypeOK, Torn, NoPlan

LEMMA SaveFailsKeeps ==
    ASSUME RunnerInductive, NEW r \in Runs, SaveFails(r)
    PROVE  RunInv(r)'
<1> DEFINE p == apply[r]
<1> DEFINE u == [p EXCEPT !.unsaved = TRUE]
<1>1. /\ TypeOK /\ RunInv(r) /\ p \in Apply /\ p.pc \in Saving \cup Clearing
      /\ UNCHANGED <<resource, routed, made>> /\ plan'[r].owns \in {plan[r].owns, {}}
  <2>1. TypeOK /\ RunInv(r) /\ p \in Apply
    BY DEF RunnerInductive, TypeOK
  <2>2. u.pc = p.pc
    BY <2>1 DEF Apply
  <2>3. p.pc \in Saving \cup Clearing /\ Torn(r) /\ UNCHANGED <<resource, routed, made>>
    BY <2>2 DEF SaveFails, world
  <2>4. QED
    BY <2>1, <2>3, TornLeaves
<1>2. /\ u \in Apply /\ u.pc = p.pc /\ u.owns = p.owns /\ u.unsaved
      /\ u.uncleaned = p.uncleaned /\ u.reuse = p.reuse
  <2> HIDE DEF p
  <2>1. QED
    BY <1>1 DEF Apply
<1>3. /\ p.pc \notin Ended
      /\ p.pc \in {"save identity", "refresh"} => "identity" \in p.owns
      /\ p.pc \in Clearing => p.pc \in {"clear identity", "clear sandbox", "clear inference"}
                               /\ p.pc \notin Saving
  BY <1>1 DEF Ended, Saving, Clearing, RunInv, Cleans
<1>4. CASE p.pc \in Saving
  <2> DEFINE a == Throws(u)
  <2>0. /\ u.pc \in Saving /\ u.pc # "clear identity"
        /\ u.pc \notin {"clear sandbox", "clear inference"}
    BY <1>2, <1>4 DEF Saving
  <2>1. Goes(r, a)
    BY <2>0 DEF SaveFails
  <2>2. /\ a \in Apply /\ a.pc \in Cleaning \cup {"failed"} /\ a.owns = u.owns
        /\ a.unsaved = u.unsaved /\ a.uncleaned = u.uncleaned /\ a.reuse = u.reuse
        /\ a.pc \in {"unmake identity", "undo attach", "undo identity"} => "identity" \in a.owns
        /\ a.pc = "undo sandbox" => "sandbox" \in a.owns
        /\ a.pc = "undo inference" => "inference" \in a.owns /\ "sandbox" \notin a.owns
        /\ a.pc \in {"undo sandbox", "undo inference"} => "identity" \notin a.owns
        /\ a.pc = "failed" => a.owns = {}
    <3> HIDE DEF u
    <3>1. QED
      BY <1>2, <1>3, ThrowsLeads
  <2> HIDE DEF a, u
  <2>3. QED
    BY <1>1, <1>2, <1>3, <2>1, <2>2, FallKeeps
<1>5. CASE p.pc = "clear identity"
  <2> DEFINE next == AfterIdentity(u)
  <2> DEFINE a == [u EXCEPT !.uncleaned = TRUE, !.pc = next]
  <2>1. Goes(r, a)
    BY <1>2, <1>5 DEF SaveFails, Saving
  <2> HIDE DEF u
  <2>2. /\ next \in {"undo sandbox", "undo inference", "failed"}
        /\ next = "undo sandbox" => "sandbox" \in u.owns
        /\ next = "undo inference" => "inference" \in u.owns /\ "sandbox" \notin u.owns
    BY <1>2, AfterOwned
  <2> HIDE DEF next
  <2>3. next \in ApplySteps
    BY <2>2 DEF ApplySteps, Cleaning, Ended
  <2>4. /\ a \in Apply /\ a.pc = next /\ a.owns = u.owns /\ a.unsaved = u.unsaved
        /\ a.reuse = u.reuse /\ a.uncleaned
    BY <1>2, <2>3 DEF Apply
  <2> HIDE DEF a
  <2>5. /\ a.pc \in Cleaning \cup {"failed", "died"}
        /\ a.pc \notin {"unmake identity", "undo attach", "undo identity"}
    BY <2>2, <2>4 DEF Cleaning
  <2>6. QED
    BY <1>1, <1>2, <1>3, <2>1, <2>2, <2>4, <2>5, FallKeeps
<1>6. CASE p.pc \in {"clear sandbox", "clear inference"}
  <2> DEFINE a == [u EXCEPT !.pc = "failed"]
  <2>1. Goes(r, a)
    BY <1>2, <1>6 DEF SaveFails, Saving
  <2>2. "failed" \in ApplySteps
    BY DEF ApplySteps, Ended
  <2> HIDE DEF u
  <2>3. /\ a \in Apply /\ a.pc = "failed" /\ a.owns = u.owns /\ a.unsaved = u.unsaved
        /\ a.reuse = u.reuse
    BY <1>2, <2>2 DEF Apply
  <2> HIDE DEF a
  <2>4. QED
    BY <1>1, <1>2, <1>3, <2>1, <2>3, FallKeeps
<1>7. QED
  BY <1>1, <1>3, <1>4, <1>5, <1>6

LEMMA ApplyDiesKeeps ==
    ASSUME RunnerInductive, NEW r \in Runs, ApplyDies(r)
    PROVE  RunInv(r)'
<1> DEFINE saving == apply[r].pc \in Saving \cup Clearing
<1> DEFINE a == [To(r, "died") EXCEPT !.unsaved = @ \/ saving]
<1>1. /\ TypeOK /\ RunInv(r) /\ apply[r] \in Apply /\ apply[r].pc \notin Ended
      /\ UNCHANGED <<resource, routed, made>>
  BY DEF RunnerInductive, TypeOK, ApplyDies, world
<1>2. /\ plan'[r].owns \in {plan[r].owns, {}}
      /\ ~saving => plan' = plan
  <2>1. IF saving THEN Torn(r) ELSE UNCHANGED plan
    BY Zenon DEF ApplyDies
  <2>2. QED
    BY <1>1, <2>1, TornLeaves
<1>3. Goes(r, a)
  BY Zenon DEF ApplyDies
<1>4. PICK c \in Apply :
         /\ c = To(r, "died") /\ c.pc = "died" /\ c.owns = apply[r].owns
         /\ c.unsaved = apply[r].unsaved /\ c.uncleaned = apply[r].uncleaned
         /\ c.reuse = apply[r].reuse
  <2>1. "died" \in ApplySteps
    BY DEF ApplySteps, Ended
  <2>2. QED
    BY <1>1, <2>1, ToFields
<1>5. PICK e \in BOOLEAN : e = (c.unsaved \/ saving)
  <2>1. (c.unsaved \/ saving) \in BOOLEAN
    BY <1>4, Zenon DEF Apply
  <2>2. QED
    BY <2>1, Zenon
<1>6. a = [c EXCEPT !.unsaved = e]
  BY <1>4, <1>5, Zenon
<1> HIDE DEF a
<1>7. /\ a \in Apply /\ a.pc = "died" /\ a.owns = apply[r].owns /\ a.unsaved = e
      /\ a.reuse = apply[r].reuse
  BY <1>4, <1>6 DEF Apply
<1>8. ~e => ~apply[r].unsaved /\ ~saving
  BY <1>4, <1>5, Zenon
<1>9. QED
  BY <1>1, <1>2, <1>3, <1>7, <1>8, FallKeeps

LEMMA ApplyKeeps ==
    ASSUME RunnerInductive, NEW r \in Runs, ApplyStep(r)
    PROVE  RunnerInductive'
<1>1. TypeOK /\ RunInv(r) /\ RoutedBeforeAttached
  BY DEF RunnerInductive
<1>2. TypeOK'
  BY <1>1, ApplyTyped
<1>3. RunInv(r)'
  <2>1. CASE UndoIdentity(r) \/ UndoSandbox(r) \/ UndoInference(r)
    BY <2>1, UndoKeeps DEF UndoIdentity, UndoSandbox, UndoInference, Kinds, Clearing
  <2>2. CASE UnmakeIdentity(r) \/ MakeIdentity(r) \/ MakeSandbox(r) \/ MakeInference(r)
    BY <2>2, UnmakeKeeps, MakeSteps
  <2>3. CASE Save(r) \/ CommandFails(r) \/ SaveFails(r) \/ ApplyDies(r)
    BY <2>3, SaveKeeps, CommandFailsKeeps, SaveFailsKeeps, ApplyDiesKeeps
  <2>4. QED
    BY <2>1, <2>2, <2>3, QuietSteps DEF ApplyStep
<1>4. ASSUME NEW q \in Runs \ {r} PROVE RunInv(q)'
  BY <1>1, ApplyLeavesOthers, OthersKeep
<1>5. RoutedBeforeAttached'
  <2>1. CASE Attach(r)
    <3>1. routed' = routed /\ (attached' => routed)
      BY <1>1, <2>1 DEF Attach, At, RunInv, Routes, RoutedBeforeAttached
    <3>2. QED
      BY <3>1 DEF RoutedBeforeAttached
  <2>2. CASE ~Attach(r)
    <3>1. (attached' => attached) /\ (routed => routed')
      <4>1. CASE MakeIdentity(r) \/ MakeSandbox(r) \/ MakeInference(r)
        <5>1. UNCHANGED world \/ \E k \in Kinds : CreatedBy(r, k)
          BY <4>1 DEF MakeIdentity, MakeSandbox, MakeInference, Make, Kinds
        <5>2. QED
          BY <5>1 DEF CreatedBy, world
      <4>2. CASE UnmakeIdentity(r) \/ UndoIdentity(r) \/ UndoSandbox(r) \/ UndoInference(r)
        <5>1. \E k \in Kinds : Removed(k)
          BY <4>2, Zenon
             DEF UnmakeIdentity, UndoIdentity, UndoSandbox, UndoInference, Undo, Kinds
        <5>2. ASSUME NEW k, Removed(k) PROVE (attached' => attached) /\ (routed => routed')
          BY <5>2, Zenon DEF Removed
        <5>3. QED
          BY <5>1, <5>2
      <4>3. CASE SetRoute(r) \/ UndoAttach(r)
        <5>1. (attached' = attached /\ routed') \/ (~attached' /\ routed' = routed)
          BY <4>3, Zenon DEF SetRoute, UndoAttach
        <5>2. QED
          BY <5>1
      <4>4. CASE ApplyDies(r) \/ SaveFails(r) \/ CommandFails(r) \/ Save(r)
        <5>1. \/ UNCHANGED <<world, made>> \/ UNCHANGED <<world, plan, made>>
              \/ UNCHANGED <<world, made, faults>>
          BY <4>4, Zenon DEF ApplyDies, SaveFails, CommandFails, Save
        <5>2. QED
          BY <5>1 DEF world
      <4>5. CASE Begin(r) \/ Inspect(r) \/ SeeIdentity(r) \/ Refresh(r)
                   \/ SeeRacedSandbox(r) \/ SeeRacedInference(r) \/ SetPolicy(r)
        <5>1. UNCHANGED <<world, plan, made, faults>>
          BY <4>5, Zenon DEF Begin, Inspect, SeeIdentity, Refresh, SeeRacedSandbox,
                             SeeRacedInference, SeeRaced, SetPolicy
        <5>2. QED
          BY <5>1 DEF world
      <4>6. QED
        BY <2>2, <4>1, <4>2, <4>3, <4>4, <4>5 DEF ApplyStep
    <3>2. QED
      BY <1>1, <3>1 DEF RoutedBeforeAttached
  <2>3. QED
    BY <2>1, <2>2
<1>6. QED
  BY <1>2, <1>3, <1>4, <1>5 DEF RunnerInductive

\* A rollback goes through what its plan names, in order.
LEMMA RemainingOrder ==
    ASSUME NEW b, NEW ks \in SUBSET Kinds, ks \in {Kinds, {"sandbox", "inference"},
                                                  {"inference"}, {}}
    PROVE  /\ Remaining(b, ks) \in Kinds \cup {"mark"}
           /\ Remaining(b, ks) \in Kinds => Remaining(b, ks) \in b.owns
           /\ \A k \in ks : k \in b.owns => k \notin Passed(Remaining(b, ks))
<1>1. CASE "identity" \in ks /\ "identity" \in b.owns
  <2>1. Remaining(b, ks) = "identity"
    BY <1>1 DEF Remaining
  <2>2. QED
    BY <1>1, <2>1 DEF Kinds, Passed
<1>2. CASE ~("identity" \in ks /\ "identity" \in b.owns) /\ "sandbox" \in ks /\ "sandbox" \in b.owns
  <2>1. Remaining(b, ks) = "sandbox"
    BY <1>2 DEF Remaining
  <2>2. QED
    BY <1>2, <2>1 DEF Kinds, Passed
<1>3. CASE /\ ~("identity" \in ks /\ "identity" \in b.owns)
           /\ ~("sandbox" \in ks /\ "sandbox" \in b.owns)
  <2>1. Remaining(b, ks) = IF "inference" \in ks /\ "inference" \in b.owns
                           THEN "inference" ELSE "mark"
    BY <1>3 DEF Remaining
  <2>2. QED
    BY <1>3, <2>1 DEF Kinds, Passed
<1>4. QED
  BY <1>1, <1>2, <1>3

LEMMA UndoesKeeps ==
    ASSUME RunnerInductive, NEW r \in Runs, NEW b \in Rollback, Undoes(r, b),
           \A k \in Kinds : resource'[k] \in {resource[k], None}, routed' = routed,
           b.owns \subseteq made[r],
           b.pc \in Kinds => b.pc \in b.owns,
           \A k \in b.owns \cap Passed(b.pc) : resource'[k] # r,
           "inference" \in b.owns /\ "sandbox" \notin b.owns => resource'["sandbox"] # r
    PROVE  RunInv(r)'
<1>1. /\ TypeOK /\ RunInv(r) /\ made[r] \subseteq Kinds /\ apply' = apply /\ plan' = plan
      /\ made' = made /\ rollback'[r] = b
      /\ r # None /\ r # Outside /\ None # Outside /\ "sandbox" \in Kinds
  BY RunsAssumption DEF RunnerInductive, TypeOK, Undoes, Kinds
<1>2. \A k \in Kinds : resource'[k] = r => resource[k] = r
  BY <1>1
<1>3. Claims(r)'
  <2>1. \A k \in made[r] : resource'[k] # Outside
    BY <1>1 DEF RunInv, Claims
  <2>2. QED
    BY <1>1, <1>2, <2>1 DEF RunInv, Claims
<1>4. Ledger(r)'
  BY <1>1, <1>2 DEF RunInv, Ledger
<1>5. Cleans(r)'
  BY <1>1, <1>2 DEF RunInv, Cleans
<1>6. Undone(r)'
  BY <1>1, <1>2 DEF RunInv, Undone
<1>7. Routes(r)'
  BY <1>1 DEF RunInv, Routes
<1>8. QED
  BY <1>3, <1>4, <1>5, <1>6, <1>7 DEF RunInv

LEMMA RollbackFields ==
    ASSUME NEW b \in Rollback, NEW pc \in RollbackSteps
    PROVE  LET c == [b EXCEPT !.pc = pc]
           IN  c \in Rollback /\ c.pc = pc /\ c.owns = b.owns
BY DEF Rollback

LEMMA RollbackOwn ==
    ASSUME RunnerInductive, NEW r \in Runs, RollbackStep(r)
    PROVE  RunInv(r)'
<1>1. /\ TypeOK /\ RunInv(r) /\ made[r] \subseteq Kinds /\ rollback[r] \in Rollback
      /\ plan[r] \in Plan /\ plan[r].owns \subseteq Kinds
      /\ Kinds \cup {"idle", "detach", "mark"} = RollbackSteps
      /\ r # None
  BY RunsAssumption DEF RunnerInductive, TypeOK, Kinds, RollbackSteps, Plan
<1>2. CASE StartRollback(r)
  <2> DEFINE b == [pc |-> "idle", owns |-> plan[r].owns, attached |-> plan[r].attached]
  <2> DEFINE pc == IF b.attached THEN "detach" ELSE Remaining(b, Kinds)
  <2>1. b \in Rollback /\ b.owns = plan[r].owns
    BY <1>1 DEF Rollback, Plan
  <2> HIDE DEF b
  <2>2. PICK n \in RollbackSteps : n = pc
    BY <1>1, RemainingOrder
  <2>3. /\ n \in Kinds => n \in b.owns
        /\ \A k \in Kinds : k \in b.owns => k \notin Passed(n)
    <3>1. CASE n = "detach"
      BY <3>1 DEF Passed, Kinds
    <3>2. CASE n = Remaining(b, Kinds)
      BY <3>2, RemainingOrder
    <3>3. QED
      BY <2>2, <3>1, <3>2
  <2> DEFINE c == [b EXCEPT !.pc = n]
  <2>4. Undoes(r, c) /\ UNCHANGED <<resource, routed>>
    BY <1>2, <2>2, Zenon DEF StartRollback, world, b
  <2>5. c \in Rollback /\ c.pc = n /\ c.owns = b.owns
    BY <2>1, RollbackFields
  <2> HIDE DEF c
  <2>6. "inference" \in c.owns /\ "sandbox" \notin c.owns => resource'["sandbox"] # r
    BY <1>1, <2>1, <2>4, <2>5 DEF RunInv, Undone
  <2>7. c.owns \subseteq made[r]
    BY <1>1, <2>1, <2>5 DEF RunInv, Claims
  <2>8. \A k \in c.owns \cap Passed(c.pc) : resource'[k] # r
    BY <1>1, <2>3, <2>5, <2>7
  <2>9. QED
    BY <2>3, <2>4, <2>5, <2>6, <2>7, <2>8, UndoesKeeps
<1>3. CASE Detach(r)
  <2> DEFINE b == rollback[r]
  <2>1. PICK n \in RollbackSteps : n = Remaining(b, Kinds)
    BY <1>1, RemainingOrder
  <2>2. /\ n \in Kinds => n \in b.owns
        /\ \A k \in Kinds : k \in b.owns => k \notin Passed(n)
    BY <2>1, RemainingOrder
  <2> DEFINE c == [b EXCEPT !.pc = n]
  <2>3. Undoes(r, c) /\ UNCHANGED <<resource, routed>>
    BY <1>3, <2>1, Zenon DEF Detach
  <2>4. c \in Rollback /\ c.pc = n /\ c.owns = b.owns
    BY <1>1, RollbackFields
  <2> HIDE DEF c
  <2>5. c.owns \subseteq made[r]
    BY <1>1, <2>4 DEF RunInv, Claims
  <2>6. \A k \in c.owns \cap Passed(c.pc) : resource'[k] # r
    BY <1>1, <2>2, <2>4, <2>5
  <2>7. "inference" \in c.owns /\ "sandbox" \notin c.owns => resource'["sandbox"] # r
    BY <1>1, <2>3, <2>4 DEF RunInv, Undone
  <2>8. QED
    BY <2>2, <2>3, <2>4, <2>5, <2>6, <2>7, UndoesKeeps
<1>4. ASSUME NEW k \in Kinds, Remove(r, k) PROVE RunInv(r)'
  <2> DEFINE b == rollback[r]
  <2>0. Left(k) \in {{"sandbox", "inference"}, {"inference"}, {}} /\ Left(k) \subseteq Kinds
    BY DEF Left, Kinds
  <2>1. PICK n \in RollbackSteps : n = Remaining(b, Left(k))
    BY <1>1, <2>0, RemainingOrder
  <2>2. /\ n \in Kinds => n \in b.owns
        /\ \A j \in Left(k) : j \in b.owns => j \notin Passed(n)
    BY <2>0, <2>1, RemainingOrder
  <2> DEFINE c == [b EXCEPT !.pc = n]
  <2>3. Undoes(r, c) /\ Removed(k) /\ b.pc = k
    BY <1>4, <2>1, Zenon DEF Remove
  <2>4. c \in Rollback /\ c.pc = n /\ c.owns = b.owns
    BY <1>1, RollbackFields
  <2> HIDE DEF c
  <2>5. /\ \A j \in Kinds : resource'[j] = IF j = k THEN None ELSE resource[j]
        /\ routed' = routed
    BY <1>1, <2>3, RemovedMeans
  <2>6. c.owns \subseteq made[r] /\ c.owns \subseteq Kinds
    BY <1>1, <2>4 DEF RunInv, Claims
  <2>7. \A j \in c.owns \cap Passed(c.pc) : resource'[j] # r
    <3>1. SUFFICES ASSUME NEW j \in c.owns, j \in Passed(n), j # k PROVE resource'[j] # r
      BY <1>1, <2>4, <2>5, <2>6
    <3>2. j \notin Left(k)
      BY <2>2, <2>4, <3>1
    <3>3. j \in Passed(k)
      BY <2>6, <3>1, <3>2 DEF Left, Passed, Kinds
    <3>4. resource[j] # r
      BY <1>1, <2>3, <2>4, <3>3 DEF RunInv, Undone
    <3>5. QED
      BY <2>5, <2>6, <3>1, <3>4
  <2>8. "inference" \in c.owns /\ "sandbox" \notin c.owns => resource'["sandbox"] # r
    BY <1>1, <2>4, <2>5 DEF RunInv, Undone, Kinds
  <2>9. QED
    BY <2>2, <2>3, <2>4, <2>5, <2>6, <2>7, <2>8, UndoesKeeps
<1>5. CASE Mark(r) \/ RollbackFails(r)
  <2>1. Undoes(r, NoRollback) /\ UNCHANGED <<resource, routed>>
    BY <1>5 DEF Mark, RollbackFails, world
  <2>2. NoRollback \in Rollback /\ NoRollback.pc = "idle" /\ NoRollback.owns = {}
    BY DEF NoRollback, Rollback, RollbackSteps
  <2>3. NoRollback.pc \notin Kinds
    BY <2>2 DEF Kinds
  <2>4. QED
    BY <2>1, <2>2, <2>3, UndoesKeeps
<1>6. QED
  BY <1>2, <1>3, <1>4, <1>5 DEF RollbackStep

LEMMA RollbackKeeps ==
    ASSUME RunnerInductive, NEW r \in Runs, RollbackStep(r)
    PROVE  RunnerInductive'
<1>1. TypeOK /\ RoutedBeforeAttached
  BY DEF RunnerInductive
<1>2. TypeOK' /\ RunInv(r)'
  BY <1>1, RollbackTyped, RollbackOwn
<1>3. /\ apply' = apply /\ plan' = plan /\ made' = made /\ routed' = routed
      /\ \A q \in Runs \ {r} : rollback'[q] = rollback[q]
      /\ \A k \in Kinds : resource'[k] \in {resource[k], None, r}
  BY <1>1 DEF TypeOK, RollbackStep, StartRollback, Detach, Remove, Removed, Mark, RollbackFails,
              Undoes, world
<1>4. ASSUME NEW q \in Runs \ {r} PROVE RunInv(q)'
  BY <1>3, OthersKeep
<1>5. attached' => attached
  <2>1. ASSUME NEW k \in Kinds, Remove(r, k) PROVE attached' => attached
    BY <2>1, Zenon DEF Remove, Removed
  <2>2. QED
    BY <2>1 DEF RollbackStep, StartRollback, Detach, Mark, RollbackFails, world
<1>6. RoutedBeforeAttached'
  BY <1>1, <1>3, <1>5 DEF RoutedBeforeAttached
<1>7. QED
  BY <1>2, <1>4, <1>6 DEF RunnerInductive

LEMMA RunnerStarts == Init => RunnerInductive
<1> SUFFICES ASSUME Init PROVE RunnerInductive
  OBVIOUS
<1>1. TypeOK
  BY InitTyped
<1>2. ASSUME NEW r \in Runs PROVE RunInv(r)
  <2>1. /\ apply[r] = NewApply /\ plan[r] = NoPlan /\ rollback[r] = NoRollback /\ made[r] = {}
        /\ \A k \in Kinds : resource[k] # r
    BY RunsAssumption DEF Init
  <2>2. Claims(r) /\ Ledger(r)
    BY <2>1 DEF Claims, Ledger, NewApply, NoPlan, NoRollback, Ended
  <2>3. Cleans(r) /\ Routes(r)
    BY <2>1 DEF Cleans, Routes, NewApply, Clearing
  <2>4. Undone(r)
    BY <2>1 DEF Undone, NoRollback, NoPlan, Kinds
  <2>5. QED
    BY <2>2, <2>3, <2>4 DEF RunInv
<1>3. RoutedBeforeAttached
  BY DEF Init, RoutedBeforeAttached
<1>4. QED
  BY <1>1, <1>2, <1>3 DEF RunnerInductive

LEMMA RunnerSteps == RunnerInductive /\ [Next]_vars => RunnerInductive'
<1> SUFFICES ASSUME RunnerInductive, [Next]_vars PROVE RunnerInductive'
  OBVIOUS
<1>1. CASE Next
  BY <1>1, ApplyKeeps, RollbackKeeps DEF Next
<1>2. CASE UNCHANGED vars
  <2>1. /\ resource' = resource /\ attached' = attached /\ routed' = routed /\ plan' = plan
        /\ apply' = apply /\ rollback' = rollback /\ marked' = marked /\ made' = made
        /\ faults' = faults /\ rollbacks' = rollbacks
    BY <1>2 DEF vars
  <2>2. TypeOK' /\ RoutedBeforeAttached'
    BY <2>1 DEF RunnerInductive, TypeOK, RoutedBeforeAttached
  <2>3. ASSUME NEW r \in Runs PROVE RunInv(r)'
    <3>1. RunInv(r)
      BY DEF RunnerInductive
    <3>2. Claims(r)' /\ Ledger(r)'
      BY <2>1, <3>1 DEF RunInv, Claims, Ledger
    <3>3. Cleans(r)'
      BY <2>1, <3>1 DEF RunInv, Cleans
    <3>4. Undone(r)' /\ Routes(r)'
      BY <2>1, <3>1 DEF RunInv, Undone, Routes
    <3>5. QED
      BY <3>2, <3>3, <3>4 DEF RunInv
  <2>4. QED
    BY <2>2, <2>3 DEF RunnerInductive
<1>3. QED
  BY <1>1, <1>2

THEOREM RunnerInvariant == Spec => []RunnerInductive
BY RunnerStarts, RunnerSteps, PTL DEF Spec

\* The credentials are on the sandbox only behind an accepted route.
THEOREM RunnerRoutesFirst == Spec => []RoutedBeforeAttached
<1>1. RunnerInductive => RoutedBeforeAttached
  BY DEF RunnerInductive
<1>2. QED
  BY <1>1, RunnerInvariant, PTL

\* What a run made and is still there is on record whenever its process can die without
\* tearing the record.
THEOREM RunnerIsDurable == Spec => []OwnershipIsDurable
<1>1. RunnerInductive => OwnershipIsDurable
  <2> SUFFICES ASSUME RunnerInductive, NEW r \in Runs, NEW k \in Kinds, resource[k] = r,
                      apply[r].pc \notin Saving \cup Clearing, ~apply[r].unsaved
               PROVE  k \in plan[r].owns
    BY DEF OwnershipIsDurable
  <2>1. RunInv(r)
    BY DEF RunnerInductive
  <2>2. QED
    BY <2>1 DEF RunInv, Ledger
<1>2. QED
  BY <1>1, RunnerInvariant, PTL

\* An apply that failed and reported no failed cleanup or save has left nothing.
THEOREM RunnerCleansUp == Spec => []FailureLeavesNothing
<1>1. RunnerInductive => FailureLeavesNothing
  BY DEF RunnerInductive, RunInv, Cleans, FailureLeavesNothing
<1>2. QED
  BY <1>1, RunnerInvariant, PTL

\* A rollback that reaches its marker has removed all its plan names.
THEOREM RollbackCompletes == Spec => []RollbackIsComplete
<1>1. RunnerInductive => RollbackIsComplete
  <2> SUFFICES ASSUME RunnerInductive, NEW r \in Runs, rollback[r].pc = "mark",
                      NEW k \in rollback[r].owns
               PROVE  resource[k] # r
    BY DEF RollbackIsComplete
  <2>1. RunInv(r) /\ k \in Kinds
    BY DEF RunnerInductive, TypeOK, Rollback
  <2>2. k \in Passed(rollback[r].pc)
    BY <2>1 DEF Passed
  <2>3. QED
    BY <2>1, <2>2 DEF RunInv, Undone
<1>2. QED
  BY <1>1, RunnerInvariant, PTL

\* What a step of an apply removes is its own, and the provider goes last.
LEMMA ApplyTakes ==
    ASSUME RunnerInductive, NEW r \in Runs, NEW k \in Kinds, ApplyStep(r),
           resource[k] # None, resource'[k] = None
    PROVE  /\ k \in apply[r].owns /\ apply[r].pc \notin Ended
           /\ k = "inference" => "sandbox" \notin apply[r].owns
<1>1. TypeOK /\ RunInv(r) /\ r # None
  BY RunsAssumption DEF RunnerInductive
<1>2. ASSUME NEW j \in Kinds, Removed(j) PROVE k = j
  BY <1>1, <1>2, RemovedMeans
<1>3. CASE UnmakeIdentity(r)
  <2>1. Removed("identity") /\ apply[r].pc = "unmake identity"
    BY <1>3 DEF UnmakeIdentity, At
  <2>2. k = "identity"
    BY <1>2, <2>1 DEF Kinds
  <2>3. QED
    BY <1>1, <2>1, <2>2 DEF RunInv, Cleans, Ended
<1>4. ASSUME NEW j \in Kinds, NEW undo, NEW clear, Undo(r, j, undo, clear),
             \/ j = "identity" /\ undo = "undo identity"
             \/ j = "sandbox" /\ undo = "undo sandbox"
             \/ j = "inference" /\ undo = "undo inference"
      PROVE  /\ k \in apply[r].owns /\ apply[r].pc \notin Ended
             /\ k = "inference" => "sandbox" \notin apply[r].owns
  <2>1. Removed(j) /\ apply[r].pc = undo
    BY <1>4, Zenon DEF Undo, At
  <2>2. k = j
    BY <1>2, <2>1
  <2>3. QED
    BY <1>1, <1>4, <2>1, <2>2 DEF RunInv, Cleans, Ended
<1>5. CASE MakeIdentity(r) \/ MakeSandbox(r) \/ MakeInference(r)
  <2>1. UNCHANGED world \/ \E j \in Kinds : CreatedBy(r, j)
    BY <1>5 DEF MakeIdentity, MakeSandbox, MakeInference, Make, Kinds
  <2>2. QED
    BY <1>1, <2>1 DEF TypeOK, CreatedBy, world
<1>6. CASE SetRoute(r) \/ UndoAttach(r) \/ Attach(r)
  <2>1. resource' = resource
    BY <1>6 DEF SetRoute, UndoAttach, Attach
  <2>2. QED
    BY <2>1
<1>7. CASE ApplyDies(r) \/ SaveFails(r) \/ CommandFails(r) \/ Save(r)
  <2>1. \/ UNCHANGED <<world, made>> \/ UNCHANGED <<world, plan, made>>
        \/ UNCHANGED <<world, made, faults>>
    BY <1>7, Zenon DEF ApplyDies, SaveFails, CommandFails, Save
  <2>2. QED
    BY <2>1 DEF world
<1>8. CASE Begin(r) \/ Inspect(r) \/ SeeIdentity(r) \/ Refresh(r) \/ SeeRacedSandbox(r)
             \/ SeeRacedInference(r) \/ SetPolicy(r)
  <2>1. UNCHANGED <<world, plan, made, faults>>
    BY <1>8, Zenon DEF Begin, Inspect, SeeIdentity, Refresh, SeeRacedSandbox,
                       SeeRacedInference, SeeRaced, SetPolicy
  <2>2. QED
    BY <2>1 DEF world
<1>9. QED
  BY <1>3, <1>4, <1>5, <1>6, <1>7, <1>8
     DEF ApplyStep, UndoIdentity, UndoSandbox, UndoInference, Kinds

LEMMA RollbackTakes ==
    ASSUME RunnerInductive, NEW r \in Runs, NEW k \in Kinds, RollbackStep(r),
           resource[k] # None, resource'[k] = None
    PROVE  k \in rollback[r].owns /\ rollback[r].pc = k
<1>1. TypeOK /\ RunInv(r)
  BY DEF RunnerInductive
<1>2. PICK j \in Kinds : Remove(r, j)
  <2>1. resource' # resource
    OBVIOUS
  <2>2. ~StartRollback(r) /\ ~Mark(r) /\ ~RollbackFails(r)
    <3>1. ASSUME UNCHANGED <<world, marked, faults>> \/ UNCHANGED <<world, faults, rollbacks>>
                    \/ UNCHANGED <<world, marked, rollbacks>>
          PROVE  FALSE
      BY <2>1, <3>1 DEF world
    <3>2. QED
      BY <3>1, Zenon DEF StartRollback, Mark, RollbackFails
  <2>3. ~Detach(r)
    BY <2>1 DEF Detach
  <2>4. QED
    BY <2>2, <2>3, Zenon DEF RollbackStep
<1>3. j = k /\ rollback[r].pc = j
  BY <1>1, <1>2, RemovedMeans DEF Remove
<1>4. QED
  BY <1>1, <1>3 DEF RunInv, Undone

LEMMA TakesOwn ==
    ASSUME RunnerInductive, Next, NEW r \in Runs, NEW k \in Kinds, Takes(r, k)
    PROVE  /\ k \in made[r] /\ resource[k] # Outside
           /\ k = "inference" => resource["sandbox"] # r
<1>1. TypeOK /\ RunInv(r) /\ resource[k] # None /\ resource'[k] = None
  BY DEF RunnerInductive, Takes
<1>2. PICK q \in Runs : ApplyStep(q) \/ RollbackStep(q)
  BY DEF Next
<1>3. q = r
  <2>1. SUFFICES ASSUME q # r PROVE apply'[r] = apply[r] /\ rollback'[r] = rollback[r]
    BY DEF Takes
  <2>2. CASE ApplyStep(q)
    BY <1>1, <2>1, <2>2, ApplyLeavesOthers
  <2>3. CASE RollbackStep(q)
    BY <1>1, <2>1, <2>3
       DEF TypeOK, RollbackStep, StartRollback, Detach, Remove, Mark, RollbackFails, Undoes
  <2>4. QED
    BY <1>2, <2>2, <2>3
<1>4. CASE ApplyStep(r)
  <2>1. /\ k \in apply[r].owns /\ apply[r].pc \notin Ended
        /\ k = "inference" => "sandbox" \notin apply[r].owns
    BY <1>1, <1>4, ApplyTakes
  <2>2. QED
    BY <1>1, <2>1 DEF RunInv, Claims, Ledger, Kinds
<1>5. CASE RollbackStep(r)
  <2>1. k \in rollback[r].owns /\ rollback[r].pc = k
    BY <1>1, <1>5, RollbackTakes
  <2>2. k = "inference" => resource["sandbox"] # r
    <3>1. SUFFICES ASSUME k = "inference" PROVE resource["sandbox"] # r
      OBVIOUS
    <3>2. "sandbox" \in Passed(rollback[r].pc)
      BY <2>1, <3>1 DEF Passed
    <3>3. QED
      BY <1>1, <2>1, <3>1, <3>2 DEF RunInv, Undone
  <2>3. QED
    BY <1>1, <2>1, <2>2 DEF RunInv, Claims
<1>6. QED
  BY <1>2, <1>3, <1>4, <1>5

\* A step of a run removes only what that run has made.
THEOREM RunnerRemovesItsOwn == Spec => RemovesOnlyWhatItMade
<1>1. RunnerInductive /\ [Next]_vars =>
         [\A r \in Runs, k \in Kinds : Takes(r, k) => k \in made[r] /\ resource[k] # Outside]_vars
  BY TakesOwn
<1>2. QED
  BY <1>1, RunnerInvariant, PTL DEF Spec, RemovesOnlyWhatItMade

\* The provider a run made does not go before the sandbox it made.
THEOREM RunnerSandboxFirst == Spec => SandboxBeforeProvider
<1>1. RunnerInductive /\ [Next]_vars =>
         [\A r \in Runs : Takes(r, "inference") => resource["sandbox"] # r]_vars
  BY TakesOwn DEF Kinds
<1>2. QED
  BY <1>1, RunnerInvariant, PTL DEF Spec, SandboxBeforeProvider
=============================================================================
