--------------------------- MODULE SalesClose_proofs ---------------------------
(***************************************************************************)
(* The type invariant of EstimateLifecycle, whatever overlaps; and, when   *)
(* the requests of one estimate do not overlap (OneAtATime), the inductive *)
(* invariant SerialInv, from which follow the refinement of StatusMachine  *)
(* and the promises about the frozen crew rate and the approval records.   *)
(* Crashes, rate changes and stale editors are allowed throughout.         *)
(*                                                                         *)
(* Then lifecycle and ledger together (SalesClose): the background tasks,  *)
(* the payouts and the failures between them keep all that, and money is   *)
(* owed on a won estimate only.                                            *)
(***************************************************************************)
EXTENDS SalesClose, TLAPS

-----------------------------------------------------------------------------
(* The transition table.                                                    *)

\* The edges, one by one.
LEMMA Edges ==
  ASSUME NEW from \in Status, NEW target
  PROVE  CanTransition(from, target) <=>
           \/ from = "new_from_sales" /\ target \in {"queued", "in_progress"}
           \/ from = "queued" /\ target = "in_progress"
           \/ from = "in_progress" /\ target \in {"review", "pending_approval", "approved"}
           \/ from = "review" /\ target \in {"in_progress", "pending_approval", "approved"}
           \/ from = "pending_approval" /\ target \in {"in_progress", "approved"}
           \/ from = "approved" /\ target = "handed_back"
           \/ from = "handed_back" /\ target \in {"won", "lost"}
  BY DEF CanTransition, STATUS_TRANSITIONS, Status

-----------------------------------------------------------------------------
(* Type correctness.                                                        *)

LEMMA TypeInit == LifecycleInit => TypeInv
<1> SUFFICES ASSUME LifecycleInit PROVE TypeInv
  OBVIOUS
<1>1. /\ status \in Status /\ lifecycle \in Lifecycle /\ draft \in Lifecycle
      /\ lead \in LeadStatus /\ trail \subseteq Edge /\ tasks \subseteq Task
  BY InitialStatusAssumption DEF LifecycleInit, Init, Lifecycle, LeadStatus
<1>2. crew \in OptRate /\ prior \in OptRate /\ branchRate \in OptRate /\ submitted \in OptRate
  BY LifecycleAssumption DEF LifecycleInit, OptRate
<1>3. NoRow \in [status : Status, crew : OptRate, lifecycle : Lifecycle]
  BY DEF NoRow, Status, Lifecycle, OptRate
<1>4. /\ pc \in [Request -> Step] /\ to \in [Request -> Status \cup Lifecycle]
      /\ seen \in [Request -> [status : Status, crew : OptRate, lifecycle : Lifecycle]]
      /\ seenRate \in [Request -> OptRate]
      /\ \A r \in Request : TargetFits(r)
  BY <1>3 DEF LifecycleInit, Step, Status, OptRate, TargetFits
<1>5. mishap \in BOOLEAN
  BY Zenon DEF LifecycleInit
<1> QED BY <1>1, <1>2, <1>4, <1>5, Zenon DEF TypeInv, LifecycleTypeOK

\* The response of a request keeps the types of its local variables.
LEMMA RespondType ==
  ASSUME TypeInv, NEW r \in Request, Respond(r)
  PROVE  /\ pc' \in [Request -> Step]
         /\ to' \in [Request -> Status \cup Lifecycle]
         /\ seen' \in [Request -> [status : Status, crew : OptRate, lifecycle : Lifecycle]]
         /\ seenRate' \in [Request -> OptRate]
         /\ \A q \in Request : TargetFits(q)'
  BY DEF Respond, Goto, NoRow, TypeInv, TargetFits, LifecycleTypeOK, Step, Status,
         Lifecycle, OptRate

\* A step of a request to a point where it writes no target.
LEMMA GotoType ==
  ASSUME TypeInv, NEW r \in Request, NEW step \in Step \ {"patch_update", "flip_update"},
         Goto(r, step), to' = to
  PROVE  /\ pc' \in [Request -> Step]
         /\ \A q \in Request : TargetFits(q)'
  BY DEF Goto, TypeInv, TargetFits, LifecycleTypeOK

\* The first SELECT of a request keeps the types.
LEMMA ReadType ==
  ASSUME TypeInv, NEW r \in Request, NEW step \in Step,
         NEW target \in Status \cup Lifecycle, ReadRow(r, step, target),
         step = "patch_update" => target \in Status,
         step = "flip_update" => target \in Lifecycle
  PROVE  TypeInv'
<1>1. Row \in [status : Status, crew : OptRate, lifecycle : Lifecycle]
  BY DEF Row, TypeInv, LifecycleTypeOK
<1>2. LifecycleTypeOK'
  BY <1>1 DEF ReadRow, Goto, TypeInv, LifecycleTypeOK, rowVars
<1>3. \A q \in Request : TargetFits(q)'
  BY DEF ReadRow, Goto, TypeInv, TargetFits, LifecycleTypeOK
<1> QED BY <1>2, <1>3 DEF TypeInv

\* Every step keeps the types.
LEMMA TypeStep ==
  ASSUME TypeInv, [LifecycleNext]_vars
  PROVE  TypeInv'
<1> USE DEF TypeInv
<1>1. ASSUME NEW r \in Request, Accept(r) PROVE TypeInv'
  BY <1>1, ReadType DEF Accept, PatchRead, ApproveRead, FlipRead, Step, Status
<1>2. ASSUME NEW r \in Request, PatchUpdate(r) PROVE TypeInv'
  <2>1. to[r] \in Status
    BY <1>2 DEF PatchUpdate, TargetFits
  <2>2. pc' \in [Request -> Step] /\ \A q \in Request : TargetFits(q)'
    BY <1>2, GotoType DEF PatchUpdate, Step
  <2> QED BY <1>2, <2>1, <2>2 DEF PatchUpdate, LifecycleTypeOK, Lifecycle
<1>3. ASSUME NEW r \in Request,
             ClearSnapshot(r) \/ ReadBranchRate(r) \/ FreezeRate(r) \/ KeepSnapshot(r)
      PROVE TypeInv'
  <2>1. pc' \in [Request -> Step] /\ \A q \in Request : TargetFits(q)'
    BY <1>3, GotoType DEF ClearSnapshot, ReadBranchRate, FreezeRate, KeepSnapshot, Step
  <2> QED
    BY <1>3, <2>1
    DEF ClearSnapshot, ReadBranchRate, FreezeRate, KeepSnapshot, LifecycleTypeOK, OptRate,
        rowVars
<1>4. ASSUME NEW r \in Request, PatchRespond(r) PROVE TypeInv'
  BY <1>4, RespondType
  DEF PatchRespond, LifecycleTypeOK, ESTIMATE_TO_LEAD_STATUS, FREEZE_STATES, LeadStatus,
      Task, rowVars
<1>5. ASSUME NEW r \in Request, Approve(r) PROVE TypeInv'
  <2>1. CASE ApproveUpdate(r)
    BY <2>1, GotoType DEF ApproveUpdate, LifecycleTypeOK, Step, Status
  <2>2. CASE ApproveInsertFirst(r) \/ ApproveInsertLast(r)
    BY <2>2, GotoType
    DEF ApproveInsertFirst, ApproveInsertLast, LifecycleTypeOK, Step, Status, Edge, rowVars
  <2>3. CASE ApproveRespond(r)
    BY <2>3, RespondType DEF ApproveRespond, LifecycleTypeOK, LeadStatus, rowVars
  <2> QED BY <1>5, <2>1, <2>2, <2>3 DEF Approve
<1>6. ASSUME NEW r \in Request, Flip(r) PROVE TypeInv'
  <2>1. CASE FlipUpdate(r)
    BY <2>1, GotoType DEF FlipUpdate, TargetFits, LifecycleTypeOK, Step
  <2>2. CASE FlipRespond(r)
    BY <2>2, RespondType DEF FlipRespond, LifecycleTypeOK, rowVars
  <2> QED BY <1>6, <2>1, <2>2 DEF Flip
<1>7. CASE (\E rate \in Rate : SetBranchRate(rate)) \/ LoadDraft \/ SaveDraft
  BY <1>7
  DEF SetBranchRate, LoadDraft, SaveDraft, LifecycleTypeOK, TargetFits, OptRate, rowVars,
      requestVars
<1>8. CASE Crash
  BY <1>8
  DEF Crash, LifecycleTypeOK, TargetFits, NoRow, Step, Status, Lifecycle, OptRate, rowVars
<1>9. CASE UNCHANGED vars
  BY <1>9 DEF vars, rowVars, requestVars, LifecycleTypeOK, TargetFits
<1> QED
  BY <1>1, <1>2, <1>3, <1>4, <1>5, <1>6, <1>7, <1>8, <1>9
  DEF LifecycleNext, Proceed, Patch

\* The columns, the trail and the handlers' variables keep their types, however
\* requests, rate changes, stale editors and crashes interleave.
THEOREM TypeCorrect == LifecycleSpec => []LifecycleTypeOK
<1>1. TypeInv /\ [LifecycleNext]_vars => TypeInv'
  BY TypeStep
<1>2. TypeInv => LifecycleTypeOK
  BY DEF TypeInv
<1> QED BY <1>1, <1>2, TypeInit, PTL DEF LifecycleSpec

-----------------------------------------------------------------------------
(* One request at a time.                                                   *)

\* What the lemmas about the steps rely on.
Serial == SerialInv /\ OneAtATime

LEMMA SerialInit == LifecycleInit /\ OneAtATime => SerialInv
  BY TypeInit
  DEF LifecycleInit, SerialInv, Knows, SubmittedIsSomewhere, ApprovalRecordsFollowStatus

\* The handler that moves is the only one there is.
LEMMA OnlyRequest ==
  ASSUME OneAtATime, NEW r \in Request
  PROVE  Request = {r}
  BY DEF OneAtATime

\* Accepting a request: what it reads is what there is.
LEMMA AcceptKeepsSerial ==
  ASSUME Serial, NEW r \in Request, Accept(r)
  PROVE  SerialInv'
<1>1. TypeInv'
  BY TypeStep DEF Serial, SerialInv, LifecycleNext
<1>2. Request = {r} /\ r \in Request
  BY OnlyRequest DEF Serial
<1>3. UNCHANGED <<status, lifecycle, crew, prior, lead, trail, submitted>>
  BY DEF Accept, PatchRead, ApproveRead, FlipRead, ReadRow, rowVars
<1>4. /\ \/ pc'[r] = "patch_update" /\ (to'[r] = status \/ CanTransition(status, to'[r]))
         \/ pc'[r] = "approve_update" /\ CanApproveAndHandBack(status)
         \/ pc'[r] = "flip_update"
      /\ seen'[r].status = status /\ seen'[r].crew = crew
  BY DEF Accept, PatchRead, ApproveRead, FlipRead, ReadRow, Goto, Row, Serial, SerialInv,
         TypeInv, LifecycleTypeOK
<1>5. CanTransition(status, to'[r]) => CanTransition(status', to'[r])
  BY <1>3 DEF CanTransition
<1>6. CanApproveAndHandBack(status) => CanApproveAndHandBack(status')
  BY <1>3 DEF CanApproveAndHandBack, CanTransition
<1>7. Knows(r)'
  BY <1>3, <1>4, <1>5, <1>6 DEF Knows, CanTransition, CanApproveAndHandBack
<1>8. SubmittedIsSomewhere' /\ ApprovalRecordsFollowStatus'
  BY <1>3
  DEF Serial, SerialInv, SubmittedIsSomewhere, ApprovalRecordsFollowStatus
<1> QED BY <1>1, <1>2, <1>7, <1>8 DEF SerialInv

\* The UPDATE of a PATCH.
LEMMA PatchUpdateKeepsSerial ==
  ASSUME Serial, NEW r \in Request, PatchUpdate(r)
  PROVE  SerialInv'
<1>1. TypeInv'
  BY TypeStep DEF Serial, SerialInv, LifecycleNext, Proceed, Patch
<1>2. Request = {r} /\ r \in Request
  BY OnlyRequest DEF Serial
<1>3. /\ status \in Status /\ pc \in [Request -> Step]
      /\ Knows(r) /\ SubmittedIsSomewhere /\ ApprovalRecordsFollowStatus
  BY DEF Serial, SerialInv, TypeInv, LifecycleTypeOK
<1>4. /\ to[r] = status \/ CanTransition(status, to[r])
      /\ seen[r].status = status /\ seen[r].crew = crew
  BY <1>3 DEF PatchUpdate, Knows
<1>5. SubmittedIsSomewhere'
  BY <1>3, <1>4, Edges
  DEF PatchUpdate, SubmittedIsSomewhere, BeforeHandBack, FREEZE_STATES
<1>6. ApprovalRecordsFollowStatus'
  BY <1>3, <1>4, Edges DEF PatchUpdate, ApprovalRecordsFollowStatus, PastApproval
<1>7. Knows(r)'
  <2>1. pc'[r] = IF Changes(r) THEN "patch_snapshot" ELSE "patch_tasks"
    BY <1>3 DEF PatchUpdate, Goto
  <2>2. to'[r] = status' /\ seen'[r].crew = crew'
    BY <1>4 DEF PatchUpdate
  <2>3. ASSUME Changes(r), to[r] = "in_progress", crew = NoRate PROVE submitted' = NoRate
    BY <1>3, <1>4, <2>3, Edges
    DEF PatchUpdate, Changes, SubmittedIsSomewhere, BeforeHandBack, FREEZE_STATES
  <2> QED BY <2>1, <2>2, <2>3 DEF Knows, PatchUpdate
<1> QED BY <1>1, <1>2, <1>5, <1>6, <1>7 DEF SerialInv

\* The rest of a PATCH: snapshot, lead, response.
LEMMA PatchKeepsSerial ==
  ASSUME Serial, NEW r \in Request, Patch(r)
  PROVE  SerialInv'
<1>1. TypeInv'
  BY TypeStep DEF Serial, SerialInv, LifecycleNext, Proceed
<1>2. Request = {r} /\ r \in Request
  BY OnlyRequest DEF Serial
<1>3. /\ status \in Status /\ pc \in [Request -> Step] /\ NoRate \notin Rate
      /\ Knows(r) /\ SubmittedIsSomewhere /\ ApprovalRecordsFollowStatus
  BY LifecycleAssumption DEF Serial, SerialInv, TypeInv, LifecycleTypeOK
<1>4. CASE ClearSnapshot(r)
  <2>1. to[r] = status /\ to[r] = "in_progress" /\ (crew = NoRate => submitted = NoRate)
    BY <1>3, <1>4 DEF ClearSnapshot, Knows
  <2>2. SubmittedIsSomewhere'
    BY <1>3, <1>4, <2>1
    DEF ClearSnapshot, SubmittedIsSomewhere, BeforeHandBack, FREEZE_STATES
  <2>3. Knows(r)'
    BY <1>3, <1>4, <2>1 DEF ClearSnapshot, Goto, Knows
  <2>4. ApprovalRecordsFollowStatus'
    BY <1>3, <1>4 DEF ClearSnapshot, ApprovalRecordsFollowStatus
  <2> QED BY <1>1, <1>2, <2>2, <2>3, <2>4 DEF SerialInv
<1>5. CASE ReadBranchRate(r) \/ KeepSnapshot(r)
  <2>1. UNCHANGED <<status, lifecycle, crew, prior, lead, trail, submitted, to, seen>>
    BY <1>5 DEF ReadBranchRate, KeepSnapshot, rowVars
  <2>2. to[r] = status /\ (pc'[r] = "patch_tasks" \/ (pc'[r] = "patch_freeze" /\ crew = NoRate))
    BY <1>3, <1>5 DEF ReadBranchRate, KeepSnapshot, Goto, Knows
  <2>3. Knows(r)'
    BY <2>1, <2>2 DEF Knows
  <2>4. SubmittedIsSomewhere' /\ ApprovalRecordsFollowStatus'
    BY <1>3, <2>1 DEF SubmittedIsSomewhere, ApprovalRecordsFollowStatus
  <2> QED BY <1>1, <1>2, <2>3, <2>4 DEF SerialInv
<1>6. CASE FreezeRate(r)
  <2>1. Knows(r)'
    BY <1>3, <1>6 DEF FreezeRate, Goto, Knows
  <2>2. SubmittedIsSomewhere'
    BY <1>3, <1>6 DEF FreezeRate, SubmittedIsSomewhere
  <2>3. ApprovalRecordsFollowStatus'
    BY <1>3, <1>6 DEF FreezeRate, ApprovalRecordsFollowStatus
  <2> QED BY <1>1, <1>2, <2>1, <2>2, <2>3 DEF SerialInv
<1>7. CASE PatchRespond(r)
  <2>1. Knows(r)'
    BY <1>3, <1>7 DEF PatchRespond, Respond, Goto, Knows
  <2>2. SubmittedIsSomewhere'
    BY <1>3, <1>7 DEF PatchRespond, rowVars, SubmittedIsSomewhere
  <2>3. ApprovalRecordsFollowStatus'
    <3>1. to[r] = status
      BY <1>3, <1>7 DEF PatchRespond, Knows
    <3>2. lead' = "approved" => status \in PastApproval \/ lead = "approved"
      BY <1>7, <3>1
      DEF PatchRespond, ESTIMATE_TO_LEAD_STATUS, FREEZE_STATES, PastApproval
    <3> QED BY <1>3, <1>7, <3>2 DEF PatchRespond, rowVars, ApprovalRecordsFollowStatus
  <2> QED BY <1>1, <1>2, <2>1, <2>2, <2>3 DEF SerialInv
<1> QED BY <1>4, <1>5, <1>6, <1>7, PatchUpdateKeepsSerial DEF Patch

\* approve-handback: the estimate is handed back before anything is recorded.
LEMMA ApproveKeepsSerial ==
  ASSUME Serial, NEW r \in Request, Approve(r)
  PROVE  SerialInv'
<1>1. TypeInv'
  BY TypeStep DEF Serial, SerialInv, LifecycleNext, Proceed
<1>2. Request = {r} /\ r \in Request
  BY OnlyRequest DEF Serial
<1>3. /\ status \in Status /\ pc \in [Request -> Step]
      /\ Knows(r) /\ SubmittedIsSomewhere /\ ApprovalRecordsFollowStatus
  BY DEF Serial, SerialInv, TypeInv, LifecycleTypeOK
<1>4. status' = "handed_back" /\ UNCHANGED <<crew, prior, submitted>>
  BY <1>3
  DEF Approve, ApproveUpdate, ApproveInsertFirst, ApproveInsertLast, ApproveRespond, Knows,
      rowVars
<1>5. pc'[r] \in {"approve_first", "approve_last", "approve_lead", "idle"}
  BY <1>3
  DEF Approve, ApproveUpdate, ApproveInsertFirst, ApproveInsertLast, ApproveRespond, Respond,
      Goto
<1>6. Knows(r)'
  BY <1>4, <1>5 DEF Knows
<1>7. SubmittedIsSomewhere'
  BY <1>3, <1>4 DEF SubmittedIsSomewhere, BeforeHandBack, FREEZE_STATES
<1>8. ApprovalRecordsFollowStatus'
  BY <1>4 DEF ApprovalRecordsFollowStatus, PastApproval
<1> QED BY <1>1, <1>2, <1>6, <1>7, <1>8 DEF SerialInv

\* Every step keeps the serial invariant.
LEMMA SerialStep ==
  ASSUME Serial, [LifecycleNext]_vars
  PROVE  SerialInv'
<1>1. TypeInv'
  BY TypeStep DEF Serial, SerialInv
<1>2. /\ pc \in [Request -> Step]
      /\ \A r \in Request : Knows(r)
      /\ SubmittedIsSomewhere /\ ApprovalRecordsFollowStatus
  BY DEF Serial, SerialInv, TypeInv, LifecycleTypeOK
<1>3. ASSUME NEW r \in Request, Flip(r) PROVE SerialInv'
  <2>1. UNCHANGED <<status, crew, prior, lead, trail, submitted>>
    BY <1>3 DEF Flip, FlipUpdate, FlipRespond, rowVars
  <2>2. pc'[r] \in {"flip_trail", "idle"}
    BY <1>2, <1>3 DEF Flip, FlipUpdate, FlipRespond, Respond, Goto
  <2>3. Knows(r)'
    BY <2>2 DEF Knows
  <2>4. SubmittedIsSomewhere' /\ ApprovalRecordsFollowStatus'
    BY <1>2, <2>1 DEF SubmittedIsSomewhere, ApprovalRecordsFollowStatus
  <2> QED BY <1>1, <2>3, <2>4, OnlyRequest DEF Serial, SerialInv
<1>4. CASE (\E rate \in Rate : SetBranchRate(rate)) \/ LoadDraft \/ SaveDraft \/ UNCHANGED vars
  <2>1. UNCHANGED <<status, crew, prior, lead, trail, submitted, requestVars>>
    BY <1>4 DEF SetBranchRate, LoadDraft, SaveDraft, rowVars, vars
  <2>2. ASSUME NEW r \in Request PROVE Knows(r)'
    BY <1>2, <2>1 DEF Knows, requestVars, CanTransition, CanApproveAndHandBack
  <2>3. SubmittedIsSomewhere' /\ ApprovalRecordsFollowStatus'
    BY <1>2, <2>1 DEF SubmittedIsSomewhere, ApprovalRecordsFollowStatus
  <2> QED BY <1>1, <2>2, <2>3 DEF SerialInv
<1>5. CASE Crash
  <2>1. SubmittedIsSomewhere' /\ ApprovalRecordsFollowStatus'
    BY <1>2, <1>5 DEF Crash, rowVars, SubmittedIsSomewhere, ApprovalRecordsFollowStatus
  <2>2. \A r \in Request : pc'[r] = "idle"
    BY <1>5 DEF Crash
  <2> QED BY <1>1, <2>1, <2>2 DEF SerialInv, Knows
<1> QED
  BY <1>3, <1>4, <1>5, AcceptKeepsSerial, PatchKeepsSerial, ApproveKeepsSerial
  DEF LifecycleNext, Proceed

LEMMA SerialHolds ==
  ASSUME OneAtATime
  PROVE  LifecycleSpec => []SerialInv
<1>1. LifecycleInit => SerialInv
  BY SerialInit
<1>2. SerialInv /\ [LifecycleNext]_vars => SerialInv'
  BY SerialStep DEF Serial
<1> QED BY <1>1, <1>2, PTL DEF LifecycleSpec

\* The lead shows Approved, and the trail a hand-back, only for an estimate past
\* its approval.
THEOREM RecordsFollowStatus ==
  ASSUME OneAtATime
  PROVE  LifecycleSpec => []ApprovalRecordsFollowStatus
<1>1. SerialInv => ApprovalRecordsFollowStatus
  BY DEF SerialInv
<1> QED BY <1>1, SerialHolds, PTL

\* The submitted-at rate survives the hand-back, in prior or still in crew.
THEOREM SubmittedRateSurvives ==
  ASSUME OneAtATime
  PROVE  LifecycleSpec => []SubmittedRateKept
<1>1. SerialInv => SubmittedRateKept
  BY DEF SerialInv, SubmittedIsSomewhere, SubmittedRateKept
<1> QED BY <1>1, SerialHolds, PTL

\* A frozen crew rate is cleared or kept by every step.
LEMMA FrozenRateStep ==
  ASSUME SerialInv, [LifecycleNext]_vars
  PROVE  crew # NoRate /\ crew' # NoRate => crew' = crew
<1>1. ASSUME NEW r \in Request, FreezeRate(r) PROVE crew = NoRate
  BY <1>1 DEF SerialInv, Knows, FreezeRate
<1>2. ASSUME NEW r \in Request, Proceed(r), ~FreezeRate(r)
      PROVE  crew' \in {crew, NoRate}
  BY <1>2
  DEF Proceed, Patch, Approve, Flip, PatchUpdate, ClearSnapshot, ReadBranchRate,
      KeepSnapshot, PatchRespond, ApproveUpdate, ApproveInsertFirst, ApproveInsertLast,
      ApproveRespond, FlipUpdate, FlipRespond, rowVars
<1>3. ASSUME NEW r \in Request, Accept(r) PROVE crew' = crew
  BY <1>3 DEF Accept, PatchRead, ApproveRead, FlipRead, ReadRow, rowVars
<1>4. CASE \/ \E rate \in Rate : SetBranchRate(rate)
           \/ LoadDraft \/ SaveDraft \/ Crash \/ UNCHANGED vars
  BY <1>4 DEF SetBranchRate, LoadDraft, SaveDraft, Crash, rowVars, vars
<1> QED BY <1>1, <1>2, <1>3, <1>4 DEF LifecycleNext

\* A frozen crew rate is cleared or kept, never replaced by another.
THEOREM FrozenRateStays ==
  ASSUME OneAtATime
  PROVE  LifecycleSpec => FrozenRateNotRestated
<1>1. SerialInv /\ [LifecycleNext]_vars =>
        [crew # NoRate /\ crew' # NoRate => crew' = crew]_vars
  BY FrozenRateStep
<1> QED BY <1>1, SerialHolds, PTL DEF LifecycleSpec, FrozenRateNotRestated

-----------------------------------------------------------------------------
(* The refinement of StatusMachine.                                         *)

LEMMA MachineDefs ==
  /\ Machine!Init <=> Init
  /\ Machine!machineVars = machineVars
  /\ \A s \in Status : Machine!Transition(s) <=> Transition(s)
  /\ Machine!ApproveAndHandBack <=> ApproveAndHandBack
  /\ Machine!FlipLifecycle <=> FlipLifecycle
  /\ Machine!Status = Status
  BY DEF Machine!Init, Init, Machine!machineVars, machineVars, Machine!Transition, Transition,
         Machine!ApproveAndHandBack, ApproveAndHandBack, Machine!FlipLifecycle, FlipLifecycle,
         Machine!Status, Status, Machine!CanTransition, CanTransition,
         Machine!STATUS_TRANSITIONS, STATUS_TRANSITIONS, Machine!Lifecycle, Lifecycle,
         Machine!CanApproveAndHandBack, CanApproveAndHandBack

\* Each statement is one move of the machine, or none.
LEMMA MachineStep ==
  ASSUME SerialInv, [LifecycleNext]_vars
  PROVE  [Next]_machineVars
<1>1. /\ status \in Status /\ lifecycle \in Lifecycle /\ draft \in Lifecycle
      /\ \A r \in Request : Knows(r) /\ TargetFits(r)
  BY DEF SerialInv, TypeInv, LifecycleTypeOK
<1>2. ASSUME NEW r \in Request, PatchUpdate(r) PROVE [Next]_machineVars
  <2>1. to[r] = status \/ (CanTransition(status, to[r]) /\ to[r] \in Status)
    BY <1>1, <1>2 DEF PatchUpdate, Knows, TargetFits
  <2>2. CASE to[r] = status
    BY <1>1, <1>2, <2>2 DEF PatchUpdate, Next, FlipLifecycle, Lifecycle
  <2>3. CASE CanTransition(status, to[r]) /\ to[r] \in Status
    BY <1>2, <2>3 DEF PatchUpdate, Next, Transition
  <2> QED BY <2>1, <2>2, <2>3
<1>3. ASSUME NEW r \in Request, ApproveUpdate(r) PROVE [Next]_machineVars
  BY <1>1, <1>3 DEF ApproveUpdate, Knows, Next, ApproveAndHandBack
<1>4. ASSUME NEW r \in Request, FlipUpdate(r) PROVE [Next]_machineVars
  BY <1>1, <1>4 DEF FlipUpdate, TargetFits, Next, FlipLifecycle
<1>5. CASE SaveDraft
  BY <1>1, <1>5 DEF SaveDraft, Next, FlipLifecycle
<1>6. ASSUME NEW r \in Request,
             Accept(r) \/ Proceed(r), ~PatchUpdate(r), ~ApproveUpdate(r), ~FlipUpdate(r)
      PROVE  UNCHANGED machineVars
  BY <1>6
  DEF Accept, PatchRead, ApproveRead, FlipRead, ReadRow, Proceed, Patch, Approve, Flip,
      ClearSnapshot, ReadBranchRate, FreezeRate, KeepSnapshot, PatchRespond,
      ApproveInsertFirst, ApproveInsertLast, ApproveRespond, FlipRespond, rowVars, machineVars
<1>7. CASE \/ \E rate \in Rate : SetBranchRate(rate)
           \/ LoadDraft \/ Crash \/ UNCHANGED vars
  BY <1>7 DEF SetBranchRate, LoadDraft, Crash, rowVars, vars, machineVars
<1> QED BY <1>2, <1>3, <1>4, <1>5, <1>6, <1>7 DEF LifecycleNext

\* Without overlap every status write goes through the transition machine.
THEOREM StatusFollowsMachine ==
  ASSUME OneAtATime
  PROVE  LifecycleSpec => GoesThroughMachine
<1>1. LifecycleInit => Machine!Init
  BY MachineDefs DEF LifecycleInit
<1>2. SerialInv /\ [LifecycleNext]_vars => [Machine!Next]_(Machine!machineVars)
  <2> SUFFICES ASSUME SerialInv, [LifecycleNext]_vars
               PROVE  Machine!Next \/ UNCHANGED machineVars
    BY DEF machineVars, Machine!machineVars
  <2>1. Next => Machine!Next
    BY MachineDefs DEF Next, Machine!Next
  <2>2. [Next]_machineVars
    BY MachineStep
  <2> QED BY <2>1, <2>2
<1> QED
  BY <1>1, <1>2, SerialHolds, PTL DEF LifecycleSpec, GoesThroughMachine, Machine!Spec

\* Lead, audit trail and prior rate agree with the status of the estimate.
THEOREM SubmissionIsRemembered ==
  ASSUME OneAtATime
  PROVE  LifecycleSpec => []SubmissionRemembered
<1>1. ApprovalRecordsFollowStatus /\ SubmittedRateKept => SubmissionRemembered
  BY DEF SubmissionRemembered
<1> QED BY <1>1, RecordsFollowStatus, SubmittedRateSurvives, PTL

\* No step leaves the state machine or exchanges a frozen rate.
THEOREM EveryStepIsLegal ==
  ASSUME OneAtATime
  PROVE  LifecycleSpec => StepsAreLegal
BY StatusFollowsMachine, FrozenRateStays DEF StepsAreLegal
-----------------------------------------------------------------------------
(* The rate under review.                                                   *)

\* A rate is configured; an estimate under review without one is being frozen.
FrozenOrFreezing ==
    /\ branchRate # NoRate
    /\ \A r \in Request : pc[r] = "patch_freeze" => seenRate[r] # NoRate
    /\ ~mishap /\ status \in FREEZE_STATES /\ crew = NoRate =>
          \E r \in Request : pc[r] \in {"patch_snapshot", "patch_freeze"}

\* The branch has a rate before its first estimate; an estimate is not created under
\* review, or it is a maintenance one and has the rate from the start.
RateConfigured ==
    /\ NoRate \notin InitialRate
    /\ Maintenance \/ InitialStatus \cap FREEZE_STATES = {}

LEMMA FrozenInit ==
  ASSUME RateConfigured, LifecycleInit
  PROVE  FrozenOrFreezing
  BY DEF RateConfigured, LifecycleInit, Init, FrozenOrFreezing

\* Every step keeps it.
LEMMA FrozenStep ==
  ASSUME Serial, FrozenOrFreezing, [LifecycleNext]_vars
  PROVE  FrozenOrFreezing'
<1>1. /\ pc \in [Request -> Step] /\ seenRate \in [Request -> OptRate] /\ mishap \in BOOLEAN
      /\ branchRate # NoRate /\ NoRate \notin Rate
      /\ \A r \in Request : Knows(r) /\ (pc[r] = "patch_freeze" => seenRate[r] # NoRate)
  BY LifecycleAssumption DEF Serial, SerialInv, TypeInv, LifecycleTypeOK, FrozenOrFreezing
<1>2. ASSUME NEW r \in Request, Patch(r) PROVE FrozenOrFreezing'
  <2>1. Request = {r} /\ UNCHANGED <<branchRate, mishap>>
    BY <1>2, OnlyRequest
    DEF Serial, Patch, PatchUpdate, ClearSnapshot, ReadBranchRate, FreezeRate, KeepSnapshot,
        PatchRespond
  <2>2. CASE PatchUpdate(r)
    <3>1. CASE Changes(r)
      <4>1. pc'[r] = "patch_snapshot"
        BY <1>1, <2>2, <3>1 DEF PatchUpdate, Goto
      <4> QED BY <1>1, <2>1, <4>1 DEF FrozenOrFreezing
    <3>2. CASE ~Changes(r)
      <4>1. UNCHANGED <<status, crew>> /\ pc'[r] = "patch_tasks" /\ pc[r] = "patch_update"
        BY <1>1, <2>2, <3>2 DEF PatchUpdate, Goto, Knows, Changes
      <4> QED BY <1>1, <2>1, <4>1 DEF FrozenOrFreezing
    <3> QED BY <3>1, <3>2
  <2>3. CASE ClearSnapshot(r)
    <3>1. status' = "in_progress" /\ pc'[r] = "patch_tasks"
      BY <1>1, <2>3 DEF ClearSnapshot, Goto, Knows
    <3> QED BY <1>1, <2>1, <3>1 DEF FrozenOrFreezing, FREEZE_STATES
  <2>4. CASE ReadBranchRate(r)
    <3>1. pc'[r] = "patch_freeze" /\ seenRate'[r] # NoRate
      BY <1>1, <2>4 DEF ReadBranchRate, Goto
    <3> QED BY <1>1, <2>1, <3>1 DEF FrozenOrFreezing
  <2>5. CASE FreezeRate(r)
    <3>1. crew' # NoRate /\ pc'[r] = "patch_tasks"
      BY <1>1, <2>5 DEF FreezeRate, Goto
    <3> QED BY <1>1, <2>1, <3>1 DEF FrozenOrFreezing
  <2>6. CASE KeepSnapshot(r)
    <3>1. pc'[r] = "patch_tasks" /\ UNCHANGED <<status, crew>> /\ (status \in FREEZE_STATES => crew # NoRate)
      BY <1>1, <2>6 DEF KeepSnapshot, Goto, Knows, rowVars
    <3> QED BY <1>1, <2>1, <3>1 DEF FrozenOrFreezing
  <2>7. CASE PatchRespond(r)
    <3>1. pc'[r] = "idle" /\ pc[r] = "patch_tasks" /\ UNCHANGED <<status, crew>>
      BY <1>1, <2>7 DEF PatchRespond, Respond, Goto, rowVars
    <3> QED BY <1>1, <2>1, <3>1 DEF FrozenOrFreezing
  <2> QED BY <1>2, <2>2, <2>3, <2>4, <2>5, <2>6, <2>7 DEF Patch
<1>3. ASSUME NEW r \in Request, Approve(r) PROVE FrozenOrFreezing'
  <2>1. Request = {r} /\ UNCHANGED <<branchRate, mishap>>
    BY <1>3, OnlyRequest
    DEF Serial, Approve, ApproveUpdate, ApproveInsertFirst, ApproveInsertLast, ApproveRespond, rowVars
  <2>2. status' = "handed_back" /\ pc'[r] # "patch_freeze"
    BY <1>1, <1>3
    DEF Approve, ApproveUpdate, ApproveInsertFirst, ApproveInsertLast, ApproveRespond, Respond, Goto,
        Knows, rowVars
  <2> QED BY <1>1, <2>1, <2>2 DEF FrozenOrFreezing, FREEZE_STATES
<1>4. ASSUME NEW r \in Request, Accept(r) \/ Flip(r) PROVE FrozenOrFreezing'
  <2>1. Request = {r} /\ UNCHANGED <<branchRate, mishap, status, crew>>
    BY <1>4, OnlyRequest
    DEF Serial, Accept, PatchRead, ApproveRead, FlipRead, ReadRow, Flip, FlipUpdate, FlipRespond, rowVars
  <2>2. /\ pc[r] \in {"idle", "flip_update", "flip_trail"}
        /\ pc'[r] \in {"patch_update", "approve_update", "flip_update", "flip_trail", "idle"}
    BY <1>1, <1>4
    DEF Accept, PatchRead, ApproveRead, FlipRead, ReadRow, Flip, FlipUpdate, FlipRespond, Respond, Goto
  <2> QED BY <1>1, <2>1, <2>2 DEF FrozenOrFreezing
<1>5. CASE \E rate \in Rate : SetBranchRate(rate)
  <2>1. branchRate' # NoRate /\ UNCHANGED <<mishap, status, crew, pc, seenRate>>
    BY <1>1, <1>5 DEF SetBranchRate, rowVars, requestVars
  <2> QED BY <1>1, <2>1 DEF FrozenOrFreezing
<1>6. CASE LoadDraft \/ SaveDraft \/ UNCHANGED vars
  <2>1. UNCHANGED <<branchRate, mishap, status, crew, pc, seenRate>>
    BY <1>6 DEF LoadDraft, SaveDraft, vars, rowVars, requestVars
  <2> QED BY <2>1 DEF FrozenOrFreezing
<1>7. CASE Crash
  <2>1. mishap' /\ branchRate' = branchRate /\ \A r \in Request : pc'[r] = "idle"
    BY <1>7 DEF Crash
  <2> QED BY <1>1, <2>1 DEF FrozenOrFreezing
<1> QED BY <1>2, <1>3, <1>4, <1>5, <1>6, <1>7 DEF LifecycleNext, Proceed

\* Where a rate is configured, an estimate at rest under review has it frozen.
THEOREM ReviewIsFrozen ==
  ASSUME OneAtATime, RateConfigured
  PROVE  LifecycleSpec => []FrozenUnderReview
<1>1. LifecycleInit => SerialInv /\ FrozenOrFreezing
  BY SerialInit, FrozenInit
<1>2. SerialInv /\ FrozenOrFreezing /\ [LifecycleNext]_vars => (SerialInv /\ FrozenOrFreezing)'
  BY SerialStep, FrozenStep DEF Serial
<1>3. SerialInv /\ FrozenOrFreezing => FrozenUnderReview
  BY DEF FrozenOrFreezing, FrozenUnderReview, Quiet
<1> QED BY <1>1, <1>2, <1>3, PTL DEF LifecycleSpec

-----------------------------------------------------------------------------
(* The sale: the handlers, the tasks and the ledger.                        *)

\* A commission, and the task that will insert one, are there for a won estimate only.
OwedOnlyIfWon ==
    /\ commission # "none" => status = "won"
    /\ "create_on_won" \in tasks => status = "won"

CloseInv == SerialInv /\ OwedOnlyIfWon

\* What the ledger's side of a step leaves alone.
LedgerStep == CreateOnWon \/ CancelForEstimate \/ (\E task \in Task : TaskFails(task)) \/ Payout

\* A step is one of the lifecycle, or it moves neither row nor request.
LEMMA CloseSteps ==
  ASSUME SerialInv, [CloseNext]_closeVars
  PROVE  \/ [LifecycleNext]_vars /\ UNCHANGED bookVars
         \/ /\ LedgerStep /\ UNCHANGED lifecycleRest
            /\ tasks' \subseteq tasks /\ mishap' \in {mishap, TRUE}
  BY DEF CloseNext, closeVars, LedgerStep, CreateOnWon, CancelForEstimate, TaskFails, Finish, Payout, vars,
         lifecycleRest

\* The ledger's steps keep what the handlers know.
LEMMA LedgerKeepsSerial ==
  ASSUME Serial, UNCHANGED lifecycleRest, tasks' \subseteq tasks, mishap' \in {mishap, TRUE}
  PROVE  SerialInv' /\ (FrozenOrFreezing => FrozenOrFreezing')
<1>1. UNCHANGED <<status, lifecycle, crew, prior, branchRate, lead, trail, pc, to, seen, seenRate, draft, submitted>>
  BY DEF lifecycleRest, rowVars, requestVars
<1>2. mishap \in BOOLEAN /\ mishap' \in BOOLEAN /\ (mishap => mishap')
  <2>1. mishap \in BOOLEAN
    BY DEF Serial, SerialInv, TypeInv, LifecycleTypeOK
  <2>2. mishap' = mishap \/ mishap' = TRUE
    OBVIOUS
  <2>3. CASE mishap' = mishap BY <2>1, <2>3, Zenon
  <2>4. CASE mishap' = TRUE BY <2>1, <2>4, Zenon
  <2> QED BY <2>2, <2>3, <2>4
<1>3. TypeInv'
  <2>1. LifecycleTypeOK'
    BY <1>1, <1>2 DEF Serial, SerialInv, TypeInv, LifecycleTypeOK
  <2>2. \A r \in Request : TargetFits(r)'
    BY <1>1 DEF Serial, SerialInv, TypeInv, TargetFits
  <2> QED BY <2>1, <2>2 DEF TypeInv
<1>4. \A r \in Request : Knows(r)'
  BY <1>1 DEF Serial, SerialInv, Knows, CanTransition, CanApproveAndHandBack
<1>5. SubmittedIsSomewhere' /\ ApprovalRecordsFollowStatus'
  BY <1>1 DEF Serial, SerialInv, SubmittedIsSomewhere, ApprovalRecordsFollowStatus
<1>6. FrozenOrFreezing => FrozenOrFreezing'
  BY <1>1, <1>2 DEF FrozenOrFreezing
<1> QED BY <1>3, <1>4, <1>5, <1>6 DEF SerialInv

\* Nothing leaves won, and only a PATCH that made the estimate won leaves its task.
LEMMA WonIsFinal ==
  ASSUME Serial, [LifecycleNext]_vars
  PROVE  /\ status = "won" => status' = "won"
         /\ "create_on_won" \in tasks' /\ "create_on_won" \notin tasks => status' = "won"
<1>1. status \in Status /\ \A r \in Request : Knows(r)
  BY DEF Serial, SerialInv, TypeInv, LifecycleTypeOK
<1>2. ASSUME NEW r \in Request, Proceed(r), status = "won" PROVE status' = "won"
  <2>1. CASE PatchUpdate(r)
    BY <1>1, <1>2, <2>1, Edges DEF PatchUpdate, Knows
  <2>2. CASE ApproveUpdate(r)
    BY <1>1, <1>2, <2>2, Edges DEF ApproveUpdate, Knows, CanApproveAndHandBack
  <2> QED
    BY <1>2, <2>1, <2>2
    DEF Proceed, Patch, Approve, Flip, ClearSnapshot, ReadBranchRate, FreezeRate, KeepSnapshot, PatchRespond,
        ApproveInsertFirst, ApproveInsertLast, ApproveRespond, FlipUpdate, FlipRespond, rowVars
<1>3. ASSUME NEW r \in Request, Proceed(r), "create_on_won" \in tasks', "create_on_won" \notin tasks
      PROVE  status' = "won"
  <2>1. PatchRespond(r)
    BY <1>3
    DEF Proceed, Patch, Approve, Flip, PatchUpdate, ClearSnapshot, ReadBranchRate, FreezeRate, KeepSnapshot,
        ApproveUpdate, ApproveInsertFirst, ApproveInsertLast, ApproveRespond, FlipUpdate, FlipRespond
  <2> QED BY <1>1, <1>3, <2>1 DEF PatchRespond, Knows, rowVars
<1>4. ASSUME NEW r \in Request, Accept(r) PROVE UNCHANGED <<status, tasks>>
  BY <1>4 DEF Accept, PatchRead, ApproveRead, FlipRead, ReadRow, rowVars
<1>5. CASE (\E rate \in Rate : SetBranchRate(rate)) \/ LoadDraft \/ SaveDraft \/ UNCHANGED vars
  BY <1>5 DEF SetBranchRate, LoadDraft, SaveDraft, vars, rowVars
<1>6. CASE Crash
  BY <1>6 DEF Crash, rowVars
<1> QED BY <1>2, <1>3, <1>4, <1>5, <1>6 DEF LifecycleNext

LEMMA CloseInitInv == ASSUME OneAtATime, CloseInit PROVE CloseInv
  BY SerialInit DEF CloseInit, CloseInv, OwedOnlyIfWon, LifecycleInit

\* Every step keeps the invariant: a commission is inserted only by its task.
LEMMA CloseStep ==
  ASSUME OneAtATime, CloseInv, [CloseNext]_closeVars
  PROVE  CloseInv'
<1>1. Serial
  BY DEF CloseInv, Serial
<1>2. CASE [LifecycleNext]_vars /\ UNCHANGED bookVars
  <2>1. commission' = commission
    BY <1>2 DEF bookVars
  <2> QED BY <1>1, <1>2, <2>1, SerialStep, WonIsFinal DEF CloseInv, OwedOnlyIfWon
<1>3. CASE LedgerStep /\ UNCHANGED lifecycleRest /\ tasks' \subseteq tasks /\ mishap' \in {mishap, TRUE}
  <2>1. SerialInv' /\ status' = status
    BY <1>1, <1>3, LedgerKeepsSerial DEF lifecycleRest, rowVars
  <2>2. commission' # "none" => commission # "none" \/ "create_on_won" \in tasks
    BY <1>3
    DEF LedgerStep, CreateOnWon, CancelForEstimate, TaskFails, Finish, Payout, bookVars, Book!Create, Book!Cancel,
        Book!PayCommission, Book!PayInstallment, Book!BillingDataKnown
  <2> QED BY <1>3, <2>1, <2>2 DEF CloseInv, OwedOnlyIfWon
<1> QED BY <1>2, <1>3, CloseSteps DEF CloseInv

LEMMA CloseHolds == ASSUME OneAtATime PROVE CloseSpec => []CloseInv
<1>1. CloseInit => CloseInv
  BY CloseInitInv
<1>2. CloseInv /\ [CloseNext]_closeVars => CloseInv'
  BY CloseStep
<1> QED BY <1>1, <1>2, PTL DEF CloseSpec

-----------------------------------------------------------------------------

\* No commission without a won estimate: the task runs after the response of the PATCH
\* that won it, whatever fails, and nothing undoes that.
THEOREM OwedWhenWon == ASSUME OneAtATime PROVE CloseSpec => []CommissionOnlyIfWon
<1>1. CloseInv => CommissionOnlyIfWon
  BY DEF CloseInv, OwedOnlyIfWon, CommissionOnlyIfWon
<1> QED BY <1>1, CloseHolds, PTL

\* Lead, trail and the submitted rate agree with the status, tasks and payouts included.
THEOREM CloseRemembers == ASSUME OneAtATime PROVE CloseSpec => []SubmissionRemembered
<1>1. CloseInv => SubmissionRemembered
  BY DEF CloseInv, SerialInv, SubmittedIsSomewhere, SubmittedRateKept, SubmissionRemembered
<1> QED BY <1>1, CloseHolds, PTL

\* An estimate at rest under review has its rate, tasks and payouts included.
THEOREM CloseFreezes == ASSUME OneAtATime, RateConfigured PROVE CloseSpec => []FrozenUnderReview
<1>1. CloseInit => CloseInv /\ FrozenOrFreezing
  BY CloseInitInv, FrozenInit DEF CloseInit
<1>2. CloseInv /\ FrozenOrFreezing /\ [CloseNext]_closeVars => (CloseInv /\ FrozenOrFreezing)'
  <2> SUFFICES ASSUME CloseInv, FrozenOrFreezing, [CloseNext]_closeVars PROVE FrozenOrFreezing'
    BY CloseStep
  <2>1. Serial
    BY DEF CloseInv, Serial
  <2> QED BY <2>1, CloseSteps, FrozenStep, LedgerKeepsSerial DEF CloseInv
<1>3. FrozenOrFreezing => FrozenUnderReview
  BY DEF FrozenOrFreezing, FrozenUnderReview, Quiet
<1> QED BY <1>1, <1>2, <1>3, PTL DEF CloseSpec

\* The ledger's steps leave the columns alone that the state machine is about.
THEOREM CloseIsLegal == ASSUME OneAtATime PROVE CloseSpec => StepsAreLegal
<1>1. CloseInit => Machine!Init
  BY MachineDefs DEF CloseInit, LifecycleInit
<1>2. ASSUME CloseInv, [CloseNext]_closeVars
      PROVE  /\ [Machine!Next]_(Machine!machineVars)
             /\ [crew # NoRate /\ crew' # NoRate => crew' = crew]_vars
  <2>1. CASE [LifecycleNext]_vars
    <3>1. Machine!Next \/ UNCHANGED machineVars
      <4>1. Next => Machine!Next
        BY MachineDefs DEF Next, Machine!Next
      <4> QED BY <1>2, <2>1, <4>1, MachineStep DEF CloseInv
    <3>2. crew # NoRate /\ crew' # NoRate => crew' = crew
      BY <1>2, <2>1, FrozenRateStep DEF CloseInv
    <3> QED BY <3>1, <3>2 DEF machineVars, Machine!machineVars
  <2>2. CASE UNCHANGED lifecycleRest
    BY <2>2 DEF lifecycleRest, rowVars, machineVars, Machine!machineVars
  <2> QED BY <1>2, <2>1, <2>2, CloseSteps DEF CloseInv
<1>3. CloseInv /\ [CloseNext]_closeVars =>
        [Machine!Next]_(Machine!machineVars) /\ [crew # NoRate /\ crew' # NoRate => crew' = crew]_vars
  BY <1>2
<1> QED
  BY <1>1, <1>3, CloseHolds, PTL
  DEF CloseSpec, StepsAreLegal, GoesThroughMachine, Machine!Spec, FrozenRateNotRestated

===============================================================================
