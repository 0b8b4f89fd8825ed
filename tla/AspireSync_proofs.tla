--------------------------- MODULE AspireSync_proofs ---------------------------
(***************************************************************************)
(* For any number of estimates, background tasks and rows per sweep: what  *)
(* the rows say of Aspire is so, however tasks, sweeps and crashes overlap *)
(* and answers get lost; and nothing is created twice, or without the rows *)
(* knowing or being about to, but by pushes that crossed or broke off.     *)
(***************************************************************************)
EXTENDS AspireSync, FiniteSetTheorems, SequenceTheorems, TLAPS

TaskType == [at : Step, est : Estimate, result : Result]
HistoryType == [crossed : SUBSET Estimate, propertyCrossed : BOOLEAN, stranded : BOOLEAN]

\* What a task relies on while it waits for Aspire, and what it brings back.
TaskKnows(p) ==
    /\ task[p].at = "opp_post" => property.linked
    /\ task[p].at = "prop_persist" /\ task[p].result = "synced" => aspireProps > 0
    /\ task[p].at = "opp_persist" /\ task[p].result = "synced" => opportunities[task[p].est] > 0
    /\ task[p].at = "status_persist" => task[p].result # "synced"

SyncInv == SyncedIsInAspire /\ \A p \in Proc : TaskKnows(p)

-----------------------------------------------------------------------------
(* Types.                                                                   *)

LEMMA IdleType == Estimate # {} => Idle \in TaskType /\ Idle.at = "idle"
  BY DEF Idle, TaskType, Step, Result

\* Some estimate there is, once any task is typed.
LEMMA SomeEstimate == ASSUME SyncTypeOK PROVE Estimate # {}
  BY DEF SyncTypeOK, Proc

\* The youngest row moved to the end: the same rows in another order.
LEMMA TouchedType == ASSUME SyncTypeOK, NEW e \in Estimate PROVE Touched(e) \in Seq(Estimate)
<1>1. age \in Seq(Estimate) /\ Len(age) \in Nat /\ \A k \in 1..Len(age) : age[k] \in Estimate
  BY DEF SyncTypeOK
<1>2. \A k \in 1..Len(age) : k # Len(age) => k + 1 \in 1..Len(age)
  BY <1>1
<1>3. Touched(e) \in [1..Len(age) -> Estimate]
  BY <1>1, <1>2 DEF Touched
<1> QED BY <1>1, <1>3, SeqDef

\* How a step of one process moves it, and nobody else.
LEMMA TaskMoves ==
  ASSUME task \in [Proc -> TaskType], NEW p \in Proc, NEW step \in Step, NEW result \in Result
  PROVE  /\ Goto(p, step) =>
              /\ task' \in [Proc -> TaskType] /\ \A q \in Proc \ {p} : task'[q] = task[q]
              /\ task'[p].at = step /\ task'[p].est = task[p].est /\ task'[p].result = task[p].result
         /\ GotoWith(p, step, result) =>
              /\ task' \in [Proc -> TaskType] /\ \A q \in Proc \ {p} : task'[q] = task[q]
              /\ task'[p].at = step /\ task'[p].est = task[p].est /\ task'[p].result = result
  BY DEF Goto, GotoWith, TaskType

LEMMA TaskEnds ==
  ASSUME task \in [Proc -> TaskType], Estimate # {}, NEW p \in Proc, End(p)
  PROVE  /\ task' \in [Proc -> TaskType] /\ task'[p].at = "idle"
         /\ \A q \in Proc \ {p} : task'[q] = task[q]
  BY IdleType DEF End

LEMMA TaskStarts ==
  ASSUME task \in [Proc -> TaskType], NEW p \in Proc, NEW e \in Estimate, NEW step \in Step, Start(p, step, e)
  PROVE  /\ task[p].at = "idle" /\ task' \in [Proc -> TaskType]
         /\ task'[p].at = step /\ task'[p].est = e /\ task'[p].result = "pending"
         /\ \A q \in Proc \ {p} : task'[q] = task[q]
  BY DEF Start, TaskType, Result

-----------------------------------------------------------------------------
(* What the rows say of Aspire.                                             *)

LEMMA SyncTypes ==
  ASSUME SyncInv
  PROVE  /\ SyncTypeOK /\ Estimate # {} /\ task \in [Proc -> TaskType]
         /\ property \in [status : SyncStatus \cup {"unsynced"}, linked : BOOLEAN]
         /\ aspireProps \in 0..2 /\ opportunities \in [Estimate -> 0..2]
         /\ est \in [Estimate -> [exists : BOOLEAN, status : SyncStatus, linked : BOOLEAN, terminal : BOOLEAN]]
  BY SomeEstimate DEF SyncInv, SyncedIsInAspire, SyncTypeOK, TaskType, HistoryType

\* A step by which only one task moves.
LEMMA OnlyTask ==
  ASSUME SyncInv, history' \in HistoryType, NEW p \in Proc, UNCHANGED <<switches, rows, batch, aspire>>,
         task' \in [Proc -> TaskType], \A q \in Proc \ {p} : task'[q] = task[q], TaskKnows(p)'
  PROVE  SyncInv'
<1>1. UNCHANGED <<env, enabled, property, est, age, batch, aspireProps, opportunities>>
  BY DEF switches, rows, aspire
<1>2. SyncedIsInAspire'
  BY <1>1 DEF SyncInv, SyncedIsInAspire, SyncTypeOK, TaskType, HistoryType
<1>3. ASSUME NEW q \in Proc, q # p PROVE TaskKnows(q)'
  BY <1>1, <1>3 DEF SyncInv, TaskKnows
<1> QED BY <1>2, <1>3 DEF SyncInv

\* A task looks at the rows and decides where to go.
LEMMA LookSteps ==
  ASSUME SyncInv, history' \in HistoryType, NEW p \in Proc,
         CheckProperty(p) \/ ReadForOpportunity(p) \/ ReadForStatus(p)
  PROVE  SyncInv'
<1>1. task \in [Proc -> TaskType] /\ task[p] \in TaskType
  BY SyncTypes
<1>2. CASE CheckProperty(p)
  <2>1. UNCHANGED <<switches, rows, batch, aspire>> /\ (Goto(p, "prop_mark") \/ Goto(p, "opp_read"))
    BY <1>2 DEF CheckProperty
  <2>2. /\ task' \in [Proc -> TaskType] /\ task'[p].at \in {"prop_mark", "opp_read"}
        /\ \A q \in Proc \ {p} : task'[q] = task[q]
    BY <1>1, <2>1, TaskMoves DEF Step, Result
  <2>3. TaskKnows(p)'
    BY <2>2 DEF TaskKnows
  <2> QED BY <2>1, <2>2, <2>3, OnlyTask
<1>3. CASE ReadForOpportunity(p)
  <2>1. /\ UNCHANGED <<switches, rows, batch, aspire>>
        /\ \/ property.linked /\ Goto(p, "opp_post")
           \/ GotoWith(p, "opp_persist", "pending") \/ GotoWith(p, "opp_persist", "disabled")
    BY <1>3 DEF ReadForOpportunity
  <2>2. /\ task' \in [Proc -> TaskType] /\ \A q \in Proc \ {p} : task'[q] = task[q]
        /\ \/ property.linked /\ task'[p].at = "opp_post"
           \/ task'[p].at = "opp_persist" /\ task'[p].result \in {"pending", "disabled"}
    BY <1>1, <2>1, TaskMoves DEF Step, Result
  <2>3. TaskKnows(p)'
    BY <2>1, <2>2 DEF TaskKnows, rows
  <2> QED BY <2>1, <2>2, <2>3, OnlyTask
<1>4. CASE ReadForStatus(p)
  <2>1. /\ UNCHANGED <<switches, rows, batch, aspire>>
        /\ \/ GotoWith(p, "status_persist", "pending") \/ GotoWith(p, "status_persist", "disabled")
           \/ GotoWith(p, "status_persist", "failed")
    BY <1>4 DEF ReadForStatus
  <2>2. /\ task' \in [Proc -> TaskType] /\ \A q \in Proc \ {p} : task'[q] = task[q]
        /\ task'[p].at = "status_persist" /\ task'[p].result # "synced"
    BY <1>1, <2>1, TaskMoves DEF Step, Result
  <2>3. TaskKnows(p)'
    BY <2>2 DEF TaskKnows
  <2> QED BY <2>1, <2>2, <2>3, OnlyTask
<1> QED BY <1>2, <1>3, <1>4

\* The push of the property: mark, POST, outcome.
LEMMA PropertySteps ==
  ASSUME SyncInv, history' \in HistoryType, NEW p \in Proc,
         \/ MarkProperty(p) \/ PersistProperty(p)
         \/ \E answer \in env.answers : PostProperty(p, answer)
  PROVE  SyncInv'
<1>1. /\ task \in [Proc -> TaskType] /\ task[p] \in TaskType /\ SyncTypeOK
      /\ property \in [status : SyncStatus \cup {"unsynced"}, linked : BOOLEAN] /\ aspireProps \in 0..2
      /\ \A q \in Proc : TaskKnows(q)
  BY SyncTypes DEF SyncInv
<1>2. CASE MarkProperty(p)
  <2>1. /\ UNCHANGED <<env, enabled, est, age, batch, aspireProps, opportunities>>
        /\ property' = [property EXCEPT !.status = "pending"]
        /\ Goto(p, "prop_post") \/ GotoWith(p, "prop_persist", "disabled")
    BY <1>2 DEF MarkProperty, switches, aspire
  <2>2. /\ task' \in [Proc -> TaskType] /\ \A q \in Proc \ {p} : task'[q] = task[q]
        /\ \/ task'[p].at = "prop_post"
           \/ task'[p].at = "prop_persist" /\ task'[p].result = "disabled"
    BY <1>1, <2>1, TaskMoves DEF Step, Result
  <2>3. /\ property' \in [status : SyncStatus \cup {"unsynced"}, linked : BOOLEAN]
        /\ property'.status = "pending" /\ property'.linked = property.linked
    BY <1>1, <2>1 DEF SyncStatus
  <2>4. SyncedIsInAspire'
    BY <2>1, <2>2, <2>3 DEF SyncInv, SyncedIsInAspire, SyncTypeOK, TaskType, HistoryType
  <2>5. ASSUME NEW q \in Proc PROVE TaskKnows(q)'
    BY <1>1, <2>1, <2>2, <2>3 DEF TaskKnows
  <2> QED BY <2>4, <2>5 DEF SyncInv
<1>3. CASE \E answer \in env.answers : PostProperty(p, answer)
  <2>1. PICK answer \in env.answers : PostProperty(p, answer)
    BY <1>3
  <2>2. /\ UNCHANGED <<env, enabled, property, est, age, batch, opportunities>>
        /\ aspireProps' = IF answer = "refused" THEN aspireProps ELSE OneMore(aspireProps)
        /\ GotoWith(p, "prop_persist", IF answer = "id" THEN "synced" ELSE "failed")
    BY <2>1 DEF PostProperty, switches, rows
  <2>3. /\ task' \in [Proc -> TaskType] /\ \A q \in Proc \ {p} : task'[q] = task[q]
        /\ task'[p].at = "prop_persist" /\ task'[p].result = IF answer = "id" THEN "synced" ELSE "failed"
    BY <1>1, <2>2, TaskMoves DEF Step, Result
  <2>4. aspireProps' \in 0..2 /\ (aspireProps > 0 => aspireProps' > 0) /\ (answer = "id" => aspireProps' > 0)
    BY <1>1, <2>2 DEF OneMore
  <2>5. SyncedIsInAspire'
    BY <2>2, <2>3, <2>4 DEF SyncInv, SyncedIsInAspire, SyncTypeOK, TaskType, HistoryType
  <2>6. ASSUME NEW q \in Proc PROVE TaskKnows(q)'
    BY <1>1, <2>2, <2>3, <2>4 DEF TaskKnows
  <2> QED BY <2>5, <2>6 DEF SyncInv
<1>4. CASE PersistProperty(p)
  <2>1. /\ UNCHANGED <<env, enabled, est, age, batch, aspireProps, opportunities>> /\ Goto(p, "opp_read")
        /\ task[p].at = "prop_persist"
        /\ property' = [status |-> SyncStatusCol(task[p].result),
                        linked |-> property.linked \/ task[p].result = "synced"]
    BY <1>4 DEF PersistProperty, switches, aspire
  <2>2. /\ task' \in [Proc -> TaskType] /\ \A q \in Proc \ {p} : task'[q] = task[q]
        /\ task'[p].at = "opp_read"
    BY <1>1, <2>1, TaskMoves DEF Step, Result
  <2>3. (property.linked \/ task[p].result = "synced") \in BOOLEAN
    OBVIOUS
  <2>4. /\ property' \in [status : SyncStatus \cup {"unsynced"}, linked : BOOLEAN]
        /\ property'.status = SyncStatusCol(task[p].result)
        /\ property'.linked = (property.linked \/ task[p].result = "synced")
    BY <1>1, <2>1, <2>3 DEF SyncStatusCol, SyncStatus, Result, TaskType
  <2>5. /\ property'.status = "synced" => property'.linked
        /\ property'.linked => aspireProps > 0
        /\ property.linked => property'.linked
    BY <1>1, <2>1, <2>4 DEF SyncStatusCol, TaskKnows, SyncInv, SyncedIsInAspire
  <2>6. SyncedIsInAspire'
    BY <2>1, <2>2, <2>4, <2>5 DEF SyncInv, SyncedIsInAspire, SyncTypeOK, TaskType, HistoryType
  <2>7. ASSUME NEW q \in Proc PROVE TaskKnows(q)'
    BY <1>1, <2>1, <2>2, <2>5 DEF TaskKnows
  <2> QED BY <2>6, <2>7 DEF SyncInv
<1> QED BY <1>2, <1>3, <1>4

\* The push of an estimate, and the write-back of its status.
LEMMA OpportunitySteps ==
  ASSUME SyncInv, history' \in HistoryType, NEW p \in Proc,
         \/ PersistOpportunity(p) \/ PersistStatus(p)
         \/ \E answer \in env.answers : PostOpportunity(p, answer)
  PROVE  SyncInv'
<1> DEFINE e == task[p].est
           EstRow == [exists : BOOLEAN, status : SyncStatus, linked : BOOLEAN, terminal : BOOLEAN]
<1>1. /\ task \in [Proc -> TaskType] /\ task[p] \in TaskType /\ e \in Estimate /\ SyncTypeOK /\ Estimate # {}
      /\ opportunities \in [Estimate -> 0..2] /\ est \in [Estimate -> EstRow] /\ est[e] \in EstRow
      /\ \A q \in Proc : TaskKnows(q)
  BY SyncTypes DEF SyncInv, TaskType
<1>2. CASE \E answer \in env.answers : PostOpportunity(p, answer)
  <2>1. PICK answer \in env.answers : PostOpportunity(p, answer)
    BY <1>2
  <2>2. /\ UNCHANGED <<env, enabled, property, est, age, batch, aspireProps>> /\ property.linked
        /\ opportunities' = [opportunities EXCEPT ![e] = IF answer = "refused" THEN @ ELSE OneMore(@)]
        /\ GotoWith(p, "opp_persist", IF answer = "id" THEN "synced" ELSE "failed")
    BY <1>1, <2>1 DEF PostOpportunity, switches, rows, TaskKnows
  <2>3. /\ task' \in [Proc -> TaskType] /\ \A q \in Proc \ {p} : task'[q] = task[q]
        /\ task'[p].at = "opp_persist" /\ task'[p].est = e
        /\ task'[p].result = IF answer = "id" THEN "synced" ELSE "failed"
    BY <1>1, <2>2, TaskMoves DEF Step, Result
  <2>4. /\ opportunities' \in [Estimate -> 0..2]
        /\ \A f \in Estimate : opportunities[f] > 0 => opportunities'[f] > 0
        /\ answer = "id" => opportunities'[e] > 0
    BY <1>1, <2>2 DEF OneMore
  <2>5. SyncedIsInAspire'
    BY <2>2, <2>3, <2>4 DEF SyncInv, SyncedIsInAspire, SyncTypeOK, TaskType, HistoryType
  <2>6. ASSUME NEW q \in Proc PROVE TaskKnows(q)'
    BY <1>1, <2>2, <2>3, <2>4 DEF TaskKnows, TaskType
  <2> QED BY <2>5, <2>6 DEF SyncInv
<1>3. CASE PersistOpportunity(p) \/ PersistStatus(p)
  <2>1. /\ UNCHANGED <<env, enabled, property, batch, aspireProps, opportunities>> /\ End(p) /\ age' = Touched(e)
        /\ \/ task[p].at = "opp_persist"
              /\ est' = [est EXCEPT ![e].status = SyncStatusCol(task[p].result),
                                    ![e].linked = @ \/ task[p].result = "synced"]
           \/ task[p].at = "status_persist" /\ est' = [est EXCEPT ![e].status = SyncStatusCol(task[p].result)]
    BY <1>3 DEF PersistOpportunity, PersistStatus, switches, aspire
  <2>2. /\ task' \in [Proc -> TaskType] /\ \A q \in Proc \ {p} : task'[q] = task[q]
        /\ task'[p].at = "idle"
    BY <1>1, <2>1, TaskEnds
  <2>3. age' \in Seq(Estimate)
    BY <1>1, <2>1, TouchedType
  <2>4. SyncStatusCol(task[p].result) \in SyncStatus
    BY DEF SyncStatusCol, SyncStatus
  <2>5. (est[e].linked \/ task[p].result = "synced") \in BOOLEAN
    OBVIOUS
  <2>6. /\ est' \in [Estimate -> EstRow]
        /\ \A f \in Estimate \ {e} : est'[f] = est[f]
        /\ est'[e].status = SyncStatusCol(task[p].result)
        /\ \/ task[p].at = "opp_persist" /\ est'[e].linked = (est[e].linked \/ task[p].result = "synced")
           \/ task[p].at = "status_persist" /\ est'[e].linked = est[e].linked
    BY <1>1, <2>1, <2>4, <2>5
  <2>7. \A f \in Estimate : /\ est'[f].status = "synced" => est'[f].linked
                            /\ est'[f].linked => opportunities[f] > 0
    BY <1>1, <2>6 DEF SyncInv, SyncedIsInAspire, TaskKnows, SyncStatusCol
  <2>8. SyncedIsInAspire'
    BY <2>1, <2>2, <2>3, <2>6, <2>7 DEF SyncInv, SyncedIsInAspire, SyncTypeOK, TaskType, HistoryType
  <2>9. ASSUME NEW q \in Proc PROVE TaskKnows(q)'
    BY <1>1, <2>1, <2>2 DEF TaskKnows
  <2> QED BY <2>8, <2>9 DEF SyncInv
<1> QED BY <1>2, <1>3

\* Requests, the sweep and the process.
LEMMA OtherSteps ==
  ASSUME SyncInv, history' \in HistoryType, Request \/ SweepSelect \/ SweepNext \/ Crash
  PROVE  SyncInv'
<1> DEFINE EstRow == [exists : BOOLEAN, status : SyncStatus, linked : BOOLEAN, terminal : BOOLEAN]
<1>1. /\ task \in [Proc -> TaskType] /\ SyncTypeOK /\ Estimate # {} /\ est \in [Estimate -> EstRow]
      /\ \A q \in Proc : TaskKnows(q)
  BY SyncTypes DEF SyncInv
<1>2. ASSUME NEW p \in Worker, NEW e \in Estimate, CreateEstimate(p, e) \/ CloseEstimate(p, e) \/ Retry(p, e)
      PROVE  SyncInv'
  <2>1. PICK step \in {"prop_check", "status_read", "opp_read"} : Start(p, step, e)
    BY <1>2 DEF CreateEstimate, CloseEstimate, Retry
  <2>2. p \in Proc /\ step \in Step
    BY DEF Proc, Step
  <2>3. /\ task' \in [Proc -> TaskType] /\ \A q \in Proc \ {p} : task'[q] = task[q]
        /\ task'[p].at \in {"prop_check", "status_read", "opp_read"}
    BY <1>1, <2>1, <2>2, TaskStarts
  <2>4. /\ UNCHANGED <<env, enabled, property, batch, aspireProps, opportunities>>
        /\ \/ UNCHANGED <<est, age>>
           \/ est' = [est EXCEPT ![e].exists = TRUE] /\ age' = Append(age, e)
           \/ est' = [est EXCEPT ![e].terminal = TRUE] /\ age' = Touched(e)
    BY <1>2 DEF CreateEstimate, CloseEstimate, Retry, switches, rows, aspire
  <2>5. age' \in Seq(Estimate)
    <3>1. age \in Seq(Estimate) /\ Append(age, e) \in Seq(Estimate) /\ Touched(e) \in Seq(Estimate)
      BY <1>1, TouchedType DEF SyncTypeOK
    <3> QED BY <2>4, <3>1
  <2>6. /\ est' \in [Estimate -> EstRow]
        /\ \A f \in Estimate : est'[f].linked = est[f].linked /\ est'[f].status = est[f].status
    <3>1. CASE UNCHANGED est BY <1>1, <3>1
    <3>2. CASE est' = [est EXCEPT ![e].exists = TRUE] BY <1>1, <3>2
    <3>3. CASE est' = [est EXCEPT ![e].terminal = TRUE] BY <1>1, <3>3
    <3> QED BY <2>4, <3>1, <3>2, <3>3
  <2>7. SyncedIsInAspire'
    BY <2>3, <2>4, <2>5, <2>6 DEF SyncInv, SyncedIsInAspire, SyncTypeOK, TaskType, HistoryType
  <2>8. ASSUME NEW q \in Proc PROVE TaskKnows(q)'
    BY <1>1, <2>3, <2>4 DEF TaskKnows
  <2> QED BY <2>7, <2>8 DEF SyncInv
<1>3. CASE SweepSelect
  <2>1. PICK n \in 1..BatchLimit : \E b \in [1..n -> Due] : IsSelection(b) /\ batch' = b
    BY <1>3 DEF SweepSelect
  <2>2. batch' \in Seq(Due)
    BY <2>1, SyncAssumption, SeqDef
  <2>3. UNCHANGED <<env, enabled, property, est, age, task, aspireProps, opportunities>>
    BY <1>3 DEF SweepSelect, switches, rows, aspire
  <2> QED BY <2>2, <2>3 DEF SyncInv, SyncedIsInAspire, SyncTypeOK, TaskKnows, HistoryType
<1>4. CASE SweepNext
  <2>1. /\ batch # <<>> /\ batch' = Tail(batch) /\ batch \in Seq(Due)
        /\ UNCHANGED <<env, enabled, property, est, age, aspireProps, opportunities>>
    BY <1>1, <1>4 DEF SweepNext, switches, rows, aspire, SyncTypeOK
  <2>2. batch' \in Seq(Due) /\ Head(batch) \in Due
    BY <2>1
  <2>3. \/ UNCHANGED task
        \/ \E step \in {"status_read", "opp_read"} : Start(Sweeper, step, Head(batch).est)
    BY <1>4 DEF SweepNext
  <2>4. Sweeper \in Proc /\ Head(batch).est \in Estimate /\ {"status_read", "opp_read"} \subseteq Step
    BY <2>2 DEF Proc, Step, Due
  <2>5. /\ task' \in [Proc -> TaskType]
        /\ \A q \in Proc : task'[q] = task[q] \/ task'[q].at \in {"status_read", "opp_read"}
    BY <1>1, <2>3, <2>4, TaskStarts
  <2>6. SyncedIsInAspire'
    BY <2>1, <2>2, <2>5 DEF SyncInv, SyncedIsInAspire, SyncTypeOK, TaskType, HistoryType
  <2>7. ASSUME NEW q \in Proc PROVE TaskKnows(q)'
    BY <1>1, <2>1, <2>5 DEF TaskKnows
  <2> QED BY <2>6, <2>7 DEF SyncInv
<1>5. CASE Crash
  <2>1. /\ batch' = <<>> /\ task' = [p \in Proc |-> Idle] /\ enabled' \in {enabled, TRUE}
        /\ UNCHANGED <<env, property, est, age, aspireProps, opportunities>>
    BY <1>5 DEF Crash, rows, aspire
  <2>2. enabled' \in BOOLEAN
    <3>1. enabled \in BOOLEAN /\ (enabled' = enabled \/ enabled' = TRUE)
      BY <1>1, <2>1 DEF SyncTypeOK
    <3> QED BY <3>1, Zenon
  <2>3. task' \in [Proc -> TaskType] /\ \A p \in Proc : task'[p].at = "idle"
    BY <1>1, <2>1, IdleType
  <2>4. batch' \in Seq(Due)
    BY <2>1
  <2>5. SyncedIsInAspire'
    BY <2>1, <2>2, <2>3, <2>4 DEF SyncInv, SyncedIsInAspire, SyncTypeOK, TaskType, HistoryType
  <2>6. ASSUME NEW q \in Proc PROVE TaskKnows(q)'
    BY <2>3 DEF TaskKnows
  <2> QED BY <2>5, <2>6 DEF SyncInv
<1> QED BY <1>2, <1>3, <1>4, <1>5 DEF Request

\* What a step adds to the history: nothing is forgotten, and pushes that cross are noticed.
HistoryGrows ==
    /\ history' \in HistoryType
    /\ \A e \in Estimate : e \notin history'.crossed => e \notin history.crossed /\ ~Rivals(e)'
    /\ ~history'.propertyCrossed => ~history.propertyCrossed /\ ~PropertyRivals'
    /\ history.stranded => history'.stranded

LEMMA Remembered ==
  ASSUME SyncInv, NEW unheard \in SUBSET Estimate, NEW lost \in BOOLEAN, NEW stranded \in BOOLEAN,
         Remember(unheard, lost, stranded)
  PROVE  /\ HistoryGrows
         /\ unheard \subseteq history'.crossed
         /\ lost => history'.propertyCrossed
         /\ stranded => history'.stranded
<1> DEFINE seen == {e \in Estimate : Rivals(e)'}
           met == PropertyRivals'
<1>1. /\ history.crossed \in SUBSET Estimate /\ history.propertyCrossed \in BOOLEAN /\ history.stranded \in BOOLEAN
      /\ seen \in SUBSET Estimate /\ met \in BOOLEAN /\ \A e \in Estimate : e \notin seen => ~Rivals(e)'
  BY SyncTypes DEF SyncTypeOK, PropertyRivals
<1>2. history' = [crossed |-> history.crossed \cup unheard \cup seen,
                  propertyCrossed |-> history.propertyCrossed \/ lost \/ met,
                  stranded |-> history.stranded \/ stranded]
  BY DEF Remember
<1>3. (history.propertyCrossed \/ lost \/ met) \in BOOLEAN /\ (history.stranded \/ stranded) \in BOOLEAN
  BY <1>1
<1>4. ~met => ~PropertyRivals'
  OBVIOUS
<1> HIDE DEF seen, met
<1>5. history' \in HistoryType
  BY <1>1, <1>2, <1>3 DEF HistoryType
<1>6. /\ history'.crossed = history.crossed \cup unheard \cup seen
      /\ history'.propertyCrossed = (history.propertyCrossed \/ lost \/ met)
      /\ history'.stranded = (history.stranded \/ stranded)
  BY <1>2
<1> QED BY <1>1, <1>4, <1>5, <1>6 DEF HistoryGrows

\* Every step writes the history.
LEMMA StepRemembers == ASSUME SyncInv, Next PROVE HistoryGrows
<1>1. CASE Request \/ Sweep
  <2>1. Remember({}, FALSE, FALSE)
    BY <1>1 DEF Request, Sweep
  <2> QED BY <2>1, Remembered
<1>2. CASE Crash
  <2> DEFINE unheard == {e \in Estimate : \E p \in Proc : Pushes(p, e) /\ task[p].at = "opp_persist"}
             stranded == \E p \in Proc : task[p].at \in {"prop_post", "prop_persist"}
  <2>1. Remember(unheard, FALSE, stranded) /\ unheard \in SUBSET Estimate /\ stranded \in BOOLEAN
    BY <1>2 DEF Crash
  <2> HIDE DEF unheard, stranded
  <2> QED BY <2>1, Remembered
<1>3. ASSUME NEW p \in Proc, Advance(p) PROVE HistoryGrows
  <2> DEFINE stranded == task[p].at = "prop_persist" /\ task[p].result = "disabled"
  <2>1. Remember({}, FALSE, stranded) /\ stranded \in BOOLEAN
    BY <1>3 DEF Advance
  <2> HIDE DEF stranded
  <2> QED BY <2>1, Remembered
<1>4. ASSUME NEW p \in Proc, NEW answer \in env.answers, Post(p, answer) PROVE HistoryGrows
  <2>1. CASE Remember({}, answer = "lost", FALSE)
    BY <2>1, Remembered
  <2>2. CASE Remember(IF answer = "lost" THEN {task[p].est} ELSE {}, FALSE, FALSE)
    <3>1. task[p].est \in Estimate
      BY SyncTypes DEF TaskType
    <3>2. CASE Remember({task[p].est}, FALSE, FALSE)
      BY <3>1, <3>2, Remembered
    <3>3. CASE Remember({}, FALSE, FALSE)
      BY <3>3, Remembered
    <3> QED BY <2>2, <3>2, <3>3
  <2> QED BY <1>4, <2>1, <2>2 DEF Post
<1> QED BY <1>1, <1>2, <1>3, <1>4 DEF Next

LEMMA SyncStep == ASSUME SyncInv, [Next]_vars PROVE SyncInv'
<1>1. CASE UNCHANGED vars
  BY <1>1 DEF vars, SyncInv, SyncedIsInAspire, SyncTypeOK, TaskKnows
<1>2. Next => history' \in HistoryType
  BY StepRemembers DEF HistoryGrows
<1>3. ASSUME Next, NEW p \in Proc, Advance(p) \/ \E answer \in env.answers : Post(p, answer) PROVE SyncInv'
  BY <1>2, <1>3, LookSteps, PropertySteps, OpportunitySteps DEF Advance, Post
<1> QED BY <1>1, <1>2, <1>3, OtherSteps DEF Next, Sweep

LEMMA SyncInit == ASSUME Estimate # {}, Init PROVE SyncInv
<1>1. Idle \in TaskType /\ Idle.at = "idle"
  BY IdleType
<1>2. /\ env \in Environment /\ env.enabled \in BOOLEAN /\ enabled = env.enabled
  BY SyncAssumption DEF Init
<1>3. task \in [Proc -> TaskType] /\ \A p \in Proc : task[p].at = "idle"
  BY <1>1 DEF Init
<1>4. SyncTypeOK
  BY <1>2, <1>3 DEF Init, SyncTypeOK, TaskType, SyncStatus, HistoryType
<1>5. SyncedIsInAspire
  BY <1>4 DEF Init, SyncedIsInAspire
<1> QED BY <1>3, <1>5 DEF SyncInv, TaskKnows

\* synced means there is something in Aspire, whatever overlaps, dies or gets lost.
THEOREM SyncedExists == ASSUME Estimate # {} PROVE Spec => []SyncedIsInAspire
<1>1. Init => SyncInv
  BY SyncInit
<1>2. SyncInv /\ [Next]_vars => SyncInv'
  BY SyncStep
<1>3. SyncInv => SyncedIsInAspire
  BY DEF SyncInv
<1> QED BY <1>1, <1>2, <1>3, PTL DEF Spec

-----------------------------------------------------------------------------
(* Created once, and known or about to be.                                  *)

CarriedBy(p, e) == task[p].at = "opp_persist" /\ task[p].est = e /\ task[p].result = "synced"

\* An estimate whose pushes never crossed: nothing is created for it before a push, and
\* what one has created it stores.
Quiet(e) ==
    /\ \A p \in Proc : Pushes(p, e) => CarriedBy(p, e) \/ opportunities[e] = 0
    /\ Selected(e) => opportunities[e] = 0
    /\ opportunities[e] < 2
    /\ opportunities[e] > 0 => est[e].linked \/ \E p \in Proc : CarriedBy(p, e)
    /\ ~est[e].exists => opportunities[e] = 0 /\ ~Selected(e) /\ \A p \in Proc : ~Pushes(p, e)

\* The same of the property: its row says pending while a push is out and after it has
\* died, so no other push begins.
PropertyQuiet ==
    /\ \A p \in Proc : PushesProperty(p) =>
          /\ task[p].at # "prop_mark" => property.status = "pending"
          /\ (task[p].at = "prop_persist" /\ task[p].result = "synced") \/ aspireProps = 0
    /\ aspireProps < 2
    /\ aspireProps > 0 => property.status \in {"pending", "synced"}

EstimatesOnce == \A e \in Estimate : e \notin history.crossed => ~Rivals(e) /\ Quiet(e)
PropertyOnce == ~history.propertyCrossed => ~PropertyRivals /\ PropertyQuiet
PropertyCarried ==
    /\ property.status = "pending" =>
          history.stranded \/ \E p \in Proc : task[p].at \in {"prop_post", "prop_persist"}
    /\ \A p \in Proc : task[p].at = "prop_persist" => task[p].result # "pending"

OnceInv == EstimatesOnce /\ PropertyOnce /\ PropertyCarried

(* Steps away from an Opportunity. *)

\* Nothing is created for an estimate, and no push of it begins or is stored.
LEMMA QuietKept ==
  ASSUME NEW e \in Estimate, Quiet(e), NEW p \in Proc, \A q \in Proc \ {p} : task'[q] = task[q],
         task[p].at # "opp_persist", Pushes(p, e)' => Pushes(p, e),
         Selected(e)' => Selected(e), opportunities' = opportunities,
         est[e].exists => est'[e].exists, est[e].linked => est'[e].linked
  PROVE  Quiet(e)'
<1>1. \A q \in Proc : CarriedBy(q, e) => CarriedBy(q, e)'
  BY DEF CarriedBy
<1>2. \A q \in Proc : Pushes(q, e)' => Pushes(q, e)
  BY DEF Pushes
<1> QED BY <1>1, <1>2 DEF Quiet

\* The push of a property, a look at the rows, a status written back.
LEMMA EstimatesKept ==
  ASSUME SyncInv, EstimatesOnce, HistoryGrows, NEW p \in Proc,
         \/ CheckProperty(p) \/ MarkProperty(p) \/ PersistProperty(p)
         \/ ReadForOpportunity(p) \/ ReadForStatus(p) \/ PersistStatus(p)
         \/ \E answer \in env.answers : PostProperty(p, answer)
  PROVE  EstimatesOnce'
<1> DEFINE EstRow == [exists : BOOLEAN, status : SyncStatus, linked : BOOLEAN, terminal : BOOLEAN]
<1>1. task \in [Proc -> TaskType] /\ task[p] \in TaskType /\ Estimate # {} /\ est \in [Estimate -> EstRow]
  BY SyncTypes
<1>2. opportunities' = opportunities /\ batch' = batch
  BY DEF CheckProperty, MarkProperty, PersistProperty, ReadForOpportunity, ReadForStatus, PersistStatus,
     PostProperty, aspire
<1>3. /\ \A q \in Proc \ {p} : task'[q] = task[q]
      /\ task[p].at \in {"prop_check", "prop_mark", "prop_post", "prop_persist", "opp_read", "status_read", "status_persist"}
      /\ \/ task'[p].at \in {"idle", "status_persist"}
         \/ /\ task[p].at \notin {"status_read", "status_persist"} /\ task'[p].est = task[p].est
      /\ \A e \in Estimate : est'[e].exists = est[e].exists /\ est'[e].linked = est[e].linked
  <2>1. CASE CheckProperty(p) \/ MarkProperty(p) \/ PersistProperty(p) \/ ReadForOpportunity(p) \/ \E answer \in env.answers : PostProperty(p, answer)
    <3>1. /\ est' = est /\ task[p].at \in {"prop_check", "prop_mark", "prop_post", "prop_persist", "opp_read"}
          /\ \E step : Goto(p, step) \/ \E result : GotoWith(p, step, result)
      BY <2>1 DEF CheckProperty, MarkProperty, PersistProperty, ReadForOpportunity, PostProperty, rows
    <3>2. (\A q \in Proc \ {p} : task'[q] = task[q]) /\ task'[p].est = task[p].est
      BY <1>1, <3>1 DEF Goto, GotoWith, TaskType
    <3> QED BY <3>1, <3>2
  <2>2. CASE ReadForStatus(p)
    <3>1. /\ est' = est /\ task[p].at = "status_read"
          /\ \/ GotoWith(p, "status_persist", "pending") \/ GotoWith(p, "status_persist", "disabled")
             \/ GotoWith(p, "status_persist", "failed")
      BY <2>2 DEF ReadForStatus, rows
    <3> QED BY <1>1, <3>1, TaskMoves DEF Step, Result
  <2>3. CASE PersistStatus(p)
    <3>1. /\ est' = [est EXCEPT ![task[p].est].status = SyncStatusCol(task[p].result)]
          /\ task[p].at = "status_persist" /\ End(p)
      BY <2>3 DEF PersistStatus
    <3>2. \A e \in Estimate : est'[e].exists = est[e].exists /\ est'[e].linked = est[e].linked
      BY <1>1, <3>1
    <3> QED BY <1>1, <3>1, <3>2, TaskEnds
  <2> QED BY <2>1, <2>2, <2>3
<1>4. ASSUME NEW e \in Estimate, e \notin history'.crossed PROVE ~Rivals(e)' /\ Quiet(e)'
  <2>1. Quiet(e) /\ ~Rivals(e)'
    BY <1>4 DEF EstimatesOnce, HistoryGrows
  <2>2. Pushes(p, e)' => Pushes(p, e)
    BY <1>3 DEF Pushes
  <2>3. Selected(e)' => Selected(e)
    BY <1>2 DEF Selected
  <2> QED BY <1>2, <1>3, <2>1, <2>2, <2>3, QuietKept
<1> QED BY <1>4 DEF EstimatesOnce

(* The push of an estimate. *)

LEMMA PostOnce ==
  ASSUME SyncInv, EstimatesOnce, NEW p \in Proc, NEW answer \in env.answers, PostOpportunity(p, answer),
         Remember(IF answer = "lost" THEN {task[p].est} ELSE {}, FALSE, FALSE)
  PROVE  EstimatesOnce'
<1> DEFINE e == task[p].est
<1>1. /\ task \in [Proc -> TaskType] /\ task[p] \in TaskType /\ e \in Estimate
      /\ opportunities \in [Estimate -> 0..2]
  BY SyncTypes DEF TaskType
<1>2. /\ UNCHANGED <<est, batch>> /\ task[p].at = "opp_post"
      /\ opportunities' = [opportunities EXCEPT ![e] = IF answer = "refused" THEN @ ELSE OneMore(@)]
      /\ GotoWith(p, "opp_persist", IF answer = "id" THEN "synced" ELSE "failed")
  BY DEF PostOpportunity, rows
<1>3. /\ \A q \in Proc \ {p} : task'[q] = task[q]
      /\ task'[p].at = "opp_persist" /\ task'[p].est = e
      /\ task'[p].result = IF answer = "id" THEN "synced" ELSE "failed"
  BY <1>1, <1>2, TaskMoves DEF Step, Result
<1>4. answer \in {"id", "refused", "lost"}
  BY SyncAssumption DEF SyncInv, SyncedIsInAspire, SyncTypeOK
<1>5. HistoryGrows /\ (answer = "lost" => e \in history'.crossed)
  <2>1. (IF answer = "lost" THEN {e} ELSE {}) \in SUBSET Estimate
    BY <1>1
  <2> QED BY <2>1, Remembered
<1>6. ASSUME NEW f \in Estimate, f \notin history'.crossed PROVE ~Rivals(f)' /\ Quiet(f)'
  <2>1. Quiet(f) /\ ~Rivals(f)' /\ ~Rivals(f)
    BY <1>5, <1>6 DEF EstimatesOnce, HistoryGrows
  <2>2. CASE f # e
    <3>1. opportunities'[f] = opportunities[f] /\ ~Pushes(p, f) /\ ~Pushes(p, f)'
      BY <1>1, <1>2, <1>3, <2>2 DEF Pushes
    <3>2. \A q \in Proc : (CarriedBy(q, f)' <=> CarriedBy(q, f)) /\ (Pushes(q, f)' => Pushes(q, f))
      BY <1>2, <1>3, <2>2, <3>1 DEF CarriedBy, Pushes
    <3>3. Selected(f)' => Selected(f)
      BY <1>2 DEF Selected
    <3> QED BY <1>2, <2>1, <3>1, <3>2, <3>3 DEF Quiet
  <2>3. CASE f = e
    <3>1. Pushes(p, f) /\ ~CarriedBy(p, f) /\ opportunities[f] = 0 /\ est[f].exists
      BY <1>2, <2>1, <2>3 DEF Pushes, CarriedBy, Quiet
    <3>2. \A q \in Proc \ {p} : ~Pushes(q, f)'
      <4>1. \A q \in Proc \ {p} : ~Pushes(q, f)
        BY <2>1, <3>1 DEF Rivals
      <4> QED BY <1>3, <4>1 DEF Pushes
    <3>3. ~Selected(f)'
      <4>1. ~Selected(f)
        BY <2>1, <3>1 DEF Rivals
      <4> QED BY <1>2, <4>1 DEF Selected
    <3>4. CASE answer = "id"
      <4>1. opportunities'[f] = 1 /\ CarriedBy(p, f)'
        BY <1>1, <1>2, <1>3, <2>3, <3>1, <3>4 DEF OneMore, CarriedBy
      <4> QED BY <1>2, <2>1, <3>1, <3>2, <3>3, <4>1 DEF Quiet
    <3>5. CASE answer = "refused"
      <4>1. opportunities'[f] = 0
        BY <1>1, <1>2, <2>3, <3>1, <3>5
      <4> QED BY <1>2, <2>1, <3>1, <3>3, <4>1 DEF Quiet
    <3> QED BY <1>4, <1>5, <1>6, <2>3, <3>4, <3>5
  <2> QED BY <2>2, <2>3
<1> QED BY <1>6 DEF EstimatesOnce

LEMMA PersistOnce ==
  ASSUME SyncInv, EstimatesOnce, HistoryGrows, NEW p \in Proc, PersistOpportunity(p)
  PROVE  EstimatesOnce'
<1> DEFINE e == task[p].est
           EstRow == [exists : BOOLEAN, status : SyncStatus, linked : BOOLEAN, terminal : BOOLEAN]
<1>1. /\ task \in [Proc -> TaskType] /\ task[p] \in TaskType /\ e \in Estimate /\ Estimate # {}
      /\ est \in [Estimate -> EstRow] /\ est[e] \in EstRow
  BY SyncTypes DEF TaskType
<1>2. /\ UNCHANGED <<opportunities, batch>> /\ End(p) /\ task[p].at = "opp_persist"
      /\ est' = [est EXCEPT ![e].status = SyncStatusCol(task[p].result),
                            ![e].linked = @ \/ task[p].result = "synced"]
  BY DEF PersistOpportunity, aspire
<1>3. (\A q \in Proc \ {p} : task'[q] = task[q]) /\ task'[p].at = "idle"
  BY <1>1, <1>2, TaskEnds
<1>4. /\ \A f \in Estimate : est'[f].exists = est[f].exists /\ (est[f].linked => est'[f].linked)
      /\ task[p].result = "synced" => est'[e].linked
  BY <1>1, <1>2
<1>5. ASSUME NEW f \in Estimate, f \notin history'.crossed PROVE ~Rivals(f)' /\ Quiet(f)'
  <2>1. Quiet(f) /\ ~Rivals(f)'
    BY <1>5 DEF EstimatesOnce, HistoryGrows
  <2>2. \A q \in Proc : Pushes(q, f)' => Pushes(q, f) /\ (CarriedBy(q, f) => CarriedBy(q, f)')
    BY <1>3 DEF Pushes, CarriedBy
  <2>3. Selected(f)' => Selected(f)
    BY <1>2 DEF Selected
  <2>4. \A q \in Proc : CarriedBy(q, f) => CarriedBy(q, f)' \/ est'[f].linked
    BY <1>3, <1>4 DEF CarriedBy
  <2> QED BY <1>2, <1>4, <2>1, <2>2, <2>3, <2>4 DEF Quiet
<1> QED BY <1>5 DEF EstimatesOnce

(* Requests, the sweep and the process. *)

\* A push begins for an estimate of which nothing is in Aspire.
LEMMA BeginsOnce ==
  ASSUME SyncInv, NEW e \in Estimate, ~Rivals(e)', Quiet(e), NEW p \in Proc, NEW step \in Step, NEW f \in Estimate,
         Start(p, step, f), step \in {"prop_check", "opp_read", "status_read"},
         opportunities' = opportunities, Selected(e)' => Selected(e),
         est[e].exists => est'[e].exists, est[e].linked => est'[e].linked,
         step # "status_read" /\ f = e => est'[e].exists /\ (~est[e].linked \/ opportunities[e] = 0)
  PROVE  Quiet(e)'
<1>1. /\ task[p].at = "idle" /\ \A q \in Proc \ {p} : task'[q] = task[q]
      /\ task'[p].at = step /\ task'[p].est = f
  BY SyncTypes, TaskStarts
<1>2. \A q \in Proc : CarriedBy(q, e) => q # p /\ CarriedBy(q, e)' /\ Pushes(q, e)'
  BY <1>1 DEF CarriedBy, Pushes
<1>3. Pushes(p, e)' => f = e /\ step # "status_read"
  BY <1>1 DEF Pushes
<1>4. Pushes(p, e)' => opportunities[e] = 0
  <2>1. SUFFICES ASSUME Pushes(p, e)', ~est[e].linked, opportunities[e] # 0 PROVE FALSE
    BY <1>3
  <2>2. opportunities[e] > 0
    BY <2>1, SyncTypes
  <2>3. PICK q \in Proc : CarriedBy(q, e)
    BY <2>1, <2>2 DEF Quiet
  <2> QED BY <1>2, <2>1, <2>3 DEF Rivals
<1>5. \A q \in Proc \ {p} : Pushes(q, e)' => Pushes(q, e)
  BY <1>1 DEF Pushes
<1> QED BY <1>2, <1>3, <1>4, <1>5 DEF Quiet

LEMMA RequestOnce == ASSUME SyncInv, EstimatesOnce, HistoryGrows, Request PROVE EstimatesOnce'
<1> DEFINE EstRow == [exists : BOOLEAN, status : SyncStatus, linked : BOOLEAN, terminal : BOOLEAN]
<1>1. est \in [Estimate -> EstRow]
  BY SyncTypes
<1>2. PICK p \in Worker, f \in Estimate : CreateEstimate(p, f) \/ CloseEstimate(p, f) \/ Retry(p, f)
  BY DEF Request
<1>3. p \in Proc /\ opportunities' = opportunities /\ batch' = batch
  BY <1>2 DEF Proc, CreateEstimate, CloseEstimate, Retry, aspire
<1>4. ASSUME NEW e \in Estimate, e \notin history'.crossed PROVE ~Rivals(e)' /\ Quiet(e)'
  <2>1. Quiet(e) /\ ~Rivals(e)'
    BY <1>4 DEF EstimatesOnce, HistoryGrows
  <2>2. Selected(e)' => Selected(e)
    <3>1. est[e].linked \in BOOLEAN
      BY <1>1
    <3> QED BY <1>3 DEF Selected
  <2>3. CASE CreateEstimate(p, f)
    <3>1. est' = [est EXCEPT ![f].exists = TRUE] /\ Start(p, "prop_check", f) /\ ~est[f].exists
      BY <2>3 DEF CreateEstimate
    <3>2. /\ est'[f].exists /\ (est[e].exists => est'[e].exists)
          /\ est'[e].linked = est[e].linked
      BY <1>1, <3>1
    <3>3. f = e => opportunities[e] = 0
      BY <2>1, <3>1 DEF Quiet
    <3> QED BY <1>3, <2>1, <2>2, <3>1, <3>2, <3>3, BeginsOnce DEF Step
  <2>4. CASE CloseEstimate(p, f)
    <3>1. est' = [est EXCEPT ![f].terminal = TRUE] /\ Start(p, "status_read", f)
      BY <2>4 DEF CloseEstimate
    <3>2. est'[e].exists = est[e].exists /\ est'[e].linked = est[e].linked
      BY <1>1, <3>1
    <3> QED BY <1>3, <2>1, <2>2, <3>1, <3>2, BeginsOnce DEF Step
  <2>5. CASE Retry(p, f)
    <3>1. /\ est' = est /\ est[f].exists
          /\ \/ ~est[f].linked /\ Start(p, "opp_read", f)
             \/ Start(p, "status_read", f)
      BY <2>5 DEF Retry, rows
    <3> QED BY <1>3, <2>1, <2>2, <3>1, BeginsOnce DEF Step
  <2> QED BY <1>2, <2>1, <2>3, <2>4, <2>5
<1> QED BY <1>4 DEF EstimatesOnce

\* The sweep selects rows as they are, and pushes one whose id was missing then.
LEMMA SweepOnce == ASSUME SyncInv, EstimatesOnce, HistoryGrows, SweepSelect \/ SweepNext PROVE EstimatesOnce'
<1>1. est' = est /\ opportunities' = opportunities /\ batch \in Seq(Due)
  BY SyncTypes DEF SweepSelect, SweepNext, rows, aspire, SyncTypeOK
<1>2. ASSUME NEW e \in Estimate, e \notin history'.crossed PROVE ~Rivals(e)' /\ Quiet(e)'
  <2>1. Quiet(e) /\ ~Rivals(e)'
    BY <1>2 DEF EstimatesOnce, HistoryGrows
  <2>2. CASE SweepSelect
    <3>1. task' = task
      BY <2>2 DEF SweepSelect
    <3>2. PICK n \in 1..BatchLimit : \E b \in [1..n -> Due] : IsSelection(b) /\ batch' = b
      BY <2>2 DEF SweepSelect
    <3>3. Selected(e)' => est[e].exists /\ ~est[e].linked
      BY <3>2 DEF Selected, IsSelection, DueRow
    <3>4. Selected(e)' => opportunities[e] = 0
      <4>1. SUFFICES ASSUME Selected(e)', opportunities[e] # 0 PROVE FALSE
        OBVIOUS
      <4>2. opportunities[e] > 0
        BY <4>1, SyncTypes
      <4>3. PICK q \in Proc : CarriedBy(q, e)
        BY <2>1, <3>3, <4>1, <4>2 DEF Quiet
      <4>4. Pushes(q, e)'
        BY <3>1, <4>3 DEF CarriedBy, Pushes
      <4> QED BY <2>1, <4>1, <4>4 DEF Rivals
    <3>5. \A q \in Proc : (Pushes(q, e)' <=> Pushes(q, e)) /\ (CarriedBy(q, e)' <=> CarriedBy(q, e))
      BY <3>1 DEF Pushes, CarriedBy
    <3> QED BY <1>1, <2>1, <3>3, <3>4, <3>5 DEF Quiet
  <2>3. CASE SweepNext
    <3>1. /\ batch # <<>> /\ batch' = Tail(batch) /\ Head(batch) \in Due
      BY <1>1, <2>3 DEF SweepNext
    <3>2. Selected(e)' => Selected(e)
      <4>1. \A k \in DOMAIN Tail(batch) : k + 1 \in DOMAIN batch /\ Tail(batch)[k] = batch[k + 1]
        BY <1>1, <3>1
      <4> QED BY <3>1, <4>1 DEF Selected
    <3>3. ~Head(batch).linked /\ Head(batch).est = e => Selected(e)
      <4>1. 1 \in DOMAIN batch /\ Head(batch) = batch[1]
        BY <1>1, <3>1
      <4> QED BY <4>1 DEF Selected
    <3>4. Selected(e) => est[e].exists /\ opportunities[e] = 0
      BY <2>1 DEF Quiet
    <3>5. Sweeper \in Proc /\ Head(batch).est \in Estimate
      BY <3>1 DEF Proc, Due
    <3>6. CASE ~Head(batch).linked /\ Start(Sweeper, "opp_read", Head(batch).est)
      BY <1>1, <2>1, <3>2, <3>3, <3>4, <3>5, <3>6, BeginsOnce DEF Step
    <3>7. CASE Start(Sweeper, "status_read", Head(batch).est)
      BY <1>1, <2>1, <3>2, <3>5, <3>7, BeginsOnce DEF Step
    <3>8. CASE task' = task
      <4>1. \A q \in Proc : (Pushes(q, e)' <=> Pushes(q, e)) /\ (CarriedBy(q, e)' <=> CarriedBy(q, e))
        BY <3>8 DEF Pushes, CarriedBy
      <4> QED BY <1>1, <2>1, <3>2, <4>1 DEF Quiet
    <3> QED BY <2>1, <2>3, <3>6, <3>7, <3>8 DEF SweepNext
  <2> QED BY <2>2, <2>3
<1> QED BY <1>2 DEF EstimatesOnce

\* A crash between the POST and the UPDATE is remembered.
LEMMA CrashOnce == ASSUME SyncInv, EstimatesOnce, Crash PROVE EstimatesOnce'
<1> DEFINE unheard == {e \in Estimate : \E p \in Proc : Pushes(p, e) /\ task[p].at = "opp_persist"}
           dropped == \E p \in Proc : task[p].at \in {"prop_post", "prop_persist"}
<1>1. /\ Remember(unheard, FALSE, dropped) /\ unheard \in SUBSET Estimate /\ dropped \in BOOLEAN
      /\ UNCHANGED <<est, opportunities>> /\ batch' = <<>>
  BY DEF Crash, rows, aspire
<1>2. \A e \in Estimate, p \in Proc : CarriedBy(p, e) => e \in unheard
  BY DEF CarriedBy, Pushes
<1> HIDE DEF unheard, dropped
<1>3. HistoryGrows /\ unheard \subseteq history'.crossed
  BY <1>1, Remembered
<1>4. \A p \in Proc : task'[p].at = "idle"
  BY SyncTypes, IdleType DEF Crash
<1>5. ASSUME NEW e \in Estimate, e \notin history'.crossed PROVE ~Rivals(e)' /\ Quiet(e)'
  <2>1. Quiet(e) /\ ~Rivals(e)' /\ \A p \in Proc : ~CarriedBy(p, e)
    BY <1>2, <1>3, <1>5 DEF EstimatesOnce, HistoryGrows
  <2>2. (\A p \in Proc : ~Pushes(p, e)') /\ ~Selected(e)'
    BY <1>1, <1>4 DEF Pushes, Selected
  <2> QED BY <1>1, <2>1, <2>2 DEF Quiet
<1> QED BY <1>5 DEF EstimatesOnce

(* The push of the property. *)

\* Steps that neither take part in it nor write the row.
LEMMA PropertyKept ==
  ASSUME SyncInv, PropertyOnce, PropertyCarried, HistoryGrows, UNCHANGED <<property, aspireProps>>,
         \A q \in Proc : task'[q] = task[q] \/ (~PushesProperty(q) /\ ~PushesProperty(q)')
  PROVE  PropertyOnce' /\ PropertyCarried'
<1>1. \A q \in Proc : PushesProperty(q)' => PushesProperty(q) /\ task'[q] = task[q]
  BY DEF PushesProperty
<1>2. \A q \in Proc : PushesProperty(q) => task'[q] = task[q]
  BY DEF PushesProperty
<1>3. PropertyOnce'
  BY <1>1 DEF PropertyOnce, PropertyQuiet, HistoryGrows
<1>4. PropertyCarried'
  <2>1. \A q \in Proc : task[q].at \in {"prop_post", "prop_persist"} => task'[q] = task[q]
    BY <1>2 DEF PushesProperty
  <2>2. \A q \in Proc : task'[q].at \in {"prop_post", "prop_persist"} => task'[q] = task[q]
    BY <1>1 DEF PushesProperty
  <2> QED BY <2>1, <2>2 DEF PropertyCarried, HistoryGrows
<1> QED BY <1>3, <1>4

LEMMA PropertyAway ==
  ASSUME SyncInv, PropertyOnce, PropertyCarried, HistoryGrows,
         \/ Request \/ SweepSelect \/ SweepNext
         \/ \E p \in Proc : \/ ReadForOpportunity(p) \/ ReadForStatus(p) \/ PersistStatus(p) \/ PersistOpportunity(p)
                          \/ \E answer \in env.answers : PostOpportunity(p, answer)
  PROVE  PropertyOnce' /\ PropertyCarried'
<1> DEFINE Away == \A q \in Proc : task'[q] = task[q] \/ (~PushesProperty(q) /\ ~PushesProperty(q)')
<1>1. task \in [Proc -> TaskType] /\ Estimate # {} /\ batch \in Seq(Due)
  BY SyncTypes DEF SyncTypeOK
<1>2. UNCHANGED <<property, aspireProps>>
  BY DEF Request, CreateEstimate, CloseEstimate, Retry, SweepSelect, SweepNext, ReadForOpportunity, ReadForStatus,
     PersistStatus, PersistOpportunity, PostOpportunity, rows, aspire
<1>3. ASSUME NEW p \in Proc, NEW e \in Estimate, NEW step \in {"prop_check", "status_read", "opp_read"}, Start(p, step, e)
      PROVE  Away
  <2>1. step \in Step
    BY DEF Step
  <2>2. task[p].at = "idle" /\ task'[p].at = step /\ \A q \in Proc \ {p} : task'[q] = task[q]
    BY <1>1, <1>3, <2>1, TaskStarts
  <2> QED BY <2>2 DEF PushesProperty
<1>4. CASE Request
  <2>1. PICK p \in Worker, e \in Estimate : CreateEstimate(p, e) \/ CloseEstimate(p, e) \/ Retry(p, e)
    BY <1>4 DEF Request
  <2>2. p \in Proc /\ \E step \in {"prop_check", "status_read", "opp_read"} : Start(p, step, e)
    BY <2>1 DEF CreateEstimate, CloseEstimate, Retry, Proc
  <2>3. Away
    BY <1>3, <2>2
  <2> QED BY <1>2, <2>3, PropertyKept
<1>5. CASE SweepSelect \/ SweepNext
  <2>1. UNCHANGED task \/ (batch # <<>> /\ \E step \in {"status_read", "opp_read"} : Start(Sweeper, step, Head(batch).est))
    BY <1>5 DEF SweepSelect, SweepNext
  <2>2. Sweeper \in Proc /\ (batch # <<>> => Head(batch).est \in Estimate)
    <3>1. batch # <<>> => Head(batch) \in Due
      BY <1>1
    <3> QED BY <3>1 DEF Due, Proc
  <2>3. Away
    BY <1>3, <2>1, <2>2
  <2> QED BY <1>2, <2>3, PropertyKept
<1>6. ASSUME NEW p \in Proc, PersistOpportunity(p) \/ PersistStatus(p) PROVE Away
  <2>1. task[p].at \in {"opp_persist", "status_persist"} /\ End(p)
    BY <1>6 DEF PersistOpportunity, PersistStatus
  <2>2. task'[p].at = "idle" /\ \A q \in Proc \ {p} : task'[q] = task[q]
    BY <1>1, <2>1, TaskEnds
  <2> QED BY <2>1, <2>2 DEF PushesProperty
<1>7. ASSUME NEW p \in Proc,
             ReadForOpportunity(p) \/ ReadForStatus(p) \/ \E answer \in env.answers : PostOpportunity(p, answer)
      PROVE  Away
  <2>1. /\ task[p].at \in {"opp_read", "status_read", "opp_post"}
        /\ \E step \in {"opp_post", "opp_persist", "status_persist"} :
              Goto(p, step) \/ \E result \in Result : GotoWith(p, step, result)
    BY <1>7 DEF ReadForOpportunity, ReadForStatus, PostOpportunity, Result
  <2>2. PICK step \in {"opp_post", "opp_persist", "status_persist"} :
              Goto(p, step) \/ \E result \in Result : GotoWith(p, step, result)
    BY <2>1
  <2>3. step \in Step /\ Result # {}
    BY DEF Step, Result
  <2>4. task'[p].at = step /\ \A q \in Proc \ {p} : task'[q] = task[q]
    BY <1>1, <2>2, <2>3, TaskMoves
  <2> QED BY <2>1, <2>4 DEF PushesProperty
<1>8. ASSUME NEW p \in Proc,
             \/ ReadForOpportunity(p) \/ ReadForStatus(p) \/ PersistStatus(p) \/ PersistOpportunity(p)
             \/ \E answer \in env.answers : PostOpportunity(p, answer)
      PROVE  PropertyOnce' /\ PropertyCarried'
  <2>1. Away
    BY <1>6, <1>7, <1>8
  <2> QED BY <1>2, <2>1, PropertyKept
<1> QED BY <1>4, <1>5, <1>8

\* A push begins where the row says that nothing is out or in Aspire.
LEMMA CheckOnce ==
  ASSUME SyncInv, PropertyOnce, PropertyCarried, HistoryGrows, NEW p \in Proc, CheckProperty(p)
  PROVE  PropertyOnce' /\ PropertyCarried'
<1>1. task \in [Proc -> TaskType] /\ task[p] \in TaskType /\ aspireProps \in 0..2
  BY SyncTypes
<1>2. /\ UNCHANGED <<property, aspireProps>> /\ task[p].at = "prop_check"
      /\ \/ property.status \in {"unsynced", "failed"} /\ Goto(p, "prop_mark")
         \/ Goto(p, "opp_read")
  BY DEF CheckProperty, rows, aspire
<1>3. /\ \A q \in Proc \ {p} : task'[q] = task[q]
      /\ \/ property.status \in {"unsynced", "failed"} /\ task'[p].at = "prop_mark"
         \/ task'[p].at = "opp_read"
  BY <1>1, <1>2, TaskMoves DEF Step, Result
<1>4. PropertyOnce'
  <2>1. SUFFICES ASSUME ~history'.propertyCrossed PROVE PropertyQuiet'
    BY DEF PropertyOnce, HistoryGrows
  <2>2. PropertyQuiet
    BY <2>1 DEF PropertyOnce, HistoryGrows
  <2>3. \A q \in Proc \ {p} : PushesProperty(q)' => PushesProperty(q)
    BY <1>3 DEF PushesProperty
  <2>4. PushesProperty(p)' => task'[p].at = "prop_mark" /\ aspireProps = 0
    BY <1>1, <1>3, <2>2 DEF PropertyQuiet, PushesProperty
  <2> QED BY <1>2, <1>3, <2>2, <2>3, <2>4 DEF PropertyQuiet
<1>5. PropertyCarried'
  <2>1. \A q \in Proc : task[q].at \in {"prop_post", "prop_persist"} => task'[q] = task[q]
    BY <1>2, <1>3
  <2>2. \A q \in Proc : task'[q].at = "prop_persist" => task'[q] = task[q]
    BY <1>3
  <2> QED BY <1>2, <2>1, <2>2 DEF PropertyCarried, HistoryGrows
<1> QED BY <1>4, <1>5

\* The mark goes before the POST.
LEMMA MarkOnce ==
  ASSUME SyncInv, PropertyOnce, PropertyCarried, HistoryGrows, NEW p \in Proc, MarkProperty(p)
  PROVE  PropertyOnce' /\ PropertyCarried'
<1>1. /\ task \in [Proc -> TaskType] /\ task[p] \in TaskType /\ aspireProps \in 0..2
      /\ property \in [status : SyncStatus \cup {"unsynced"}, linked : BOOLEAN]
  BY SyncTypes
<1>2. /\ aspireProps' = aspireProps /\ task[p].at = "prop_mark"
      /\ property' = [property EXCEPT !.status = "pending"]
      /\ Goto(p, "prop_post") \/ GotoWith(p, "prop_persist", "disabled")
  BY DEF MarkProperty, aspire
<1>3. /\ \A q \in Proc \ {p} : task'[q] = task[q]
      /\ \/ task'[p].at = "prop_post"
         \/ task'[p].at = "prop_persist" /\ task'[p].result = "disabled"
  BY <1>1, <1>2, TaskMoves DEF Step, Result
<1>4. property'.status = "pending"
  BY <1>1, <1>2
<1>5. PropertyOnce'
  <2>1. SUFFICES ASSUME ~history'.propertyCrossed PROVE PropertyQuiet'
    BY DEF PropertyOnce, HistoryGrows
  <2>2. PropertyQuiet
    BY <2>1 DEF PropertyOnce, HistoryGrows
  <2>3. \A q \in Proc \ {p} : PushesProperty(q)' => PushesProperty(q)
    BY <1>3 DEF PushesProperty
  <2>4. aspireProps = 0
    BY <1>2, <2>2 DEF PropertyQuiet, PushesProperty
  <2> QED BY <1>2, <1>3, <1>4, <2>2, <2>3, <2>4 DEF PropertyQuiet
<1>6. PropertyCarried'
  BY <1>3, <1>4 DEF PropertyCarried
<1> QED BY <1>5, <1>6

LEMMA PostPropertyOnce ==
  ASSUME SyncInv, PropertyOnce, PropertyCarried, NEW p \in Proc, NEW answer \in env.answers, PostProperty(p, answer),
         Remember({}, answer = "lost", FALSE)
  PROVE  PropertyOnce' /\ PropertyCarried'
<1>1. task \in [Proc -> TaskType] /\ task[p] \in TaskType /\ aspireProps \in 0..2
  BY SyncTypes
<1>2. answer \in {"id", "refused", "lost"}
  BY SyncAssumption DEF SyncInv, SyncedIsInAspire, SyncTypeOK
<1>3. HistoryGrows /\ (answer = "lost" => history'.propertyCrossed)
  BY Remembered
<1>4. /\ property' = property /\ task[p].at = "prop_post"
      /\ aspireProps' = IF answer = "refused" THEN aspireProps ELSE OneMore(aspireProps)
      /\ GotoWith(p, "prop_persist", IF answer = "id" THEN "synced" ELSE "failed")
  BY DEF PostProperty, rows
<1>5. /\ \A q \in Proc \ {p} : task'[q] = task[q]
      /\ task'[p].at = "prop_persist" /\ task'[p].result = IF answer = "id" THEN "synced" ELSE "failed"
  BY <1>1, <1>4, TaskMoves DEF Step, Result
<1>6. PropertyOnce'
  <2>1. SUFFICES ASSUME ~history'.propertyCrossed PROVE PropertyQuiet'
    BY <1>3 DEF PropertyOnce, HistoryGrows
  <2>2. PropertyQuiet /\ ~PropertyRivals /\ ~PropertyRivals' /\ answer # "lost"
    BY <1>3, <2>1 DEF PropertyOnce, HistoryGrows
  <2>3. PushesProperty(p) /\ aspireProps = 0 /\ property.status = "pending"
    BY <1>4, <2>2 DEF PropertyQuiet, PushesProperty
  <2>4. \A q \in Proc \ {p} : ~PushesProperty(q)'
    <3>1. \A q \in Proc \ {p} : ~PushesProperty(q)
      BY <2>2, <2>3 DEF PropertyRivals
    <3> QED BY <1>5, <3>1 DEF PushesProperty
  <2>5. aspireProps' = IF answer = "refused" THEN 0 ELSE 1
    BY <1>2, <1>4, <2>3 DEF OneMore
  <2> QED BY <1>2, <1>4, <1>5, <2>2, <2>3, <2>4, <2>5 DEF PropertyQuiet
<1>7. PropertyCarried'
  BY <1>5 DEF PropertyCarried
<1> QED BY <1>6, <1>7

LEMMA PersistPropertyOnce ==
  ASSUME SyncInv, PropertyOnce, PropertyCarried, NEW p \in Proc, PersistProperty(p),
         Remember({}, FALSE, task[p].at = "prop_persist" /\ task[p].result = "disabled")
  PROVE  PropertyOnce' /\ PropertyCarried'
<1>1. task \in [Proc -> TaskType] /\ task[p] \in TaskType /\ aspireProps \in 0..2
  BY SyncTypes
<1>2. /\ aspireProps' = aspireProps /\ task[p].at = "prop_persist" /\ Goto(p, "opp_read")
      /\ property' = [status |-> SyncStatusCol(task[p].result),
                      linked |-> property.linked \/ task[p].result = "synced"]
  BY DEF PersistProperty, aspire
<1>3. (\A q \in Proc \ {p} : task'[q] = task[q]) /\ task'[p].at = "opp_read"
  BY <1>1, <1>2, TaskMoves DEF Step, Result
<1>4. HistoryGrows /\ (task[p].result = "disabled" => history'.stranded)
  <2> DEFINE dropped == task[p].at = "prop_persist" /\ task[p].result = "disabled"
  <2>1. dropped \in BOOLEAN /\ Remember({}, FALSE, dropped) /\ (task[p].result = "disabled" => dropped)
    BY <1>2
  <2> HIDE DEF dropped
  <2> QED BY <2>1, Remembered
<1>5. property'.status = SyncStatusCol(task[p].result)
  BY <1>2
<1>6. PropertyOnce'
  <2>1. SUFFICES ASSUME ~history'.propertyCrossed PROVE PropertyQuiet'
    BY <1>4 DEF PropertyOnce, HistoryGrows
  <2>2. PropertyQuiet /\ ~PropertyRivals
    BY <1>4, <2>1 DEF PropertyOnce, HistoryGrows
  <2>3. PushesProperty(p) /\ (task[p].result = "synced" \/ aspireProps = 0)
    BY <1>2, <2>2 DEF PropertyQuiet, PushesProperty
  <2>4. \A q \in Proc : ~PushesProperty(q)'
    <3>1. \A q \in Proc \ {p} : ~PushesProperty(q)
      BY <2>2, <2>3 DEF PropertyRivals
    <3> QED BY <1>3, <3>1 DEF PushesProperty
  <2> QED BY <1>2, <1>5, <2>2, <2>3, <2>4 DEF PropertyQuiet, SyncStatusCol
<1>7. PropertyCarried'
  <2>1. task[p].result \in {"synced", "failed", "disabled"}
    BY <1>1, <1>2 DEF PropertyCarried, TaskType, Result
  <2>2. property'.status = "pending" => history'.stranded
    BY <1>4, <1>5, <2>1 DEF SyncStatusCol
  <2>3. \A q \in Proc : task'[q].at = "prop_persist" => task'[q] = task[q]
    BY <1>3
  <2> QED BY <2>2, <2>3 DEF PropertyCarried
<1> QED BY <1>6, <1>7

\* The row of a property whose push has died stays pending, and is not pushed again.
LEMMA PropertyCrash == ASSUME SyncInv, PropertyOnce, PropertyCarried, Crash PROVE PropertyOnce' /\ PropertyCarried'
<1> DEFINE unheard == {e \in Estimate : \E p \in Proc : Pushes(p, e) /\ task[p].at = "opp_persist"}
           dropped == \E p \in Proc : task[p].at \in {"prop_post", "prop_persist"}
<1>1. /\ Remember(unheard, FALSE, dropped) /\ unheard \in SUBSET Estimate /\ dropped \in BOOLEAN
      /\ UNCHANGED <<property, aspireProps>>
  BY DEF Crash, rows, aspire
<1>2. \A p \in Proc : task'[p].at = "idle"
  BY SyncTypes, IdleType DEF Crash
<1>3. property.status = "pending" => history.stranded \/ dropped
  BY DEF PropertyCarried
<1> HIDE DEF unheard, dropped
<1>4. HistoryGrows /\ (dropped => history'.stranded)
  BY <1>1, Remembered
<1>5. PropertyOnce'
  BY <1>1, <1>2, <1>4 DEF PropertyOnce, PropertyQuiet, PushesProperty, HistoryGrows
<1>6. PropertyCarried'
  BY <1>1, <1>2, <1>3, <1>4 DEF PropertyCarried, HistoryGrows
<1> QED BY <1>5, <1>6

LEMMA OnceStep == ASSUME SyncInv, OnceInv, [Next]_vars PROVE OnceInv'
<1>1. EstimatesOnce /\ PropertyOnce /\ PropertyCarried /\ (Next => HistoryGrows)
  BY StepRemembers DEF OnceInv
<1>2. CASE UNCHANGED vars
  BY <1>1, <1>2 DEF vars, OnceInv, EstimatesOnce, PropertyOnce, PropertyCarried, PropertyRivals, PropertyQuiet,
     PushesProperty, Rivals, Quiet, Pushes, CarriedBy, Selected
<1>3. CASE Next /\ (Request \/ Sweep)
  BY <1>1, <1>3, RequestOnce, SweepOnce, PropertyAway DEF OnceInv, Sweep
<1>4. CASE Crash
  BY <1>1, <1>4, CrashOnce, PropertyCrash DEF OnceInv
<1>5. ASSUME Next, NEW p \in Proc, Advance(p) PROVE OnceInv'
  <2>1. CASE PersistOpportunity(p)
    BY <1>1, <1>5, <2>1, PersistOnce, PropertyAway DEF OnceInv
  <2>2. CASE ReadForOpportunity(p) \/ ReadForStatus(p) \/ PersistStatus(p)
    BY <1>1, <1>5, <2>2, EstimatesKept, PropertyAway DEF OnceInv
  <2>3. CASE CheckProperty(p) \/ MarkProperty(p)
    BY <1>1, <1>5, <2>3, EstimatesKept, CheckOnce, MarkOnce DEF OnceInv
  <2>4. CASE PersistProperty(p)
    BY <1>1, <1>5, <2>4, EstimatesKept, PersistPropertyOnce DEF OnceInv, Advance
  <2> QED BY <1>5, <2>1, <2>2, <2>3, <2>4 DEF Advance
<1>6. ASSUME Next, NEW p \in Proc, NEW answer \in env.answers, Post(p, answer) PROVE OnceInv'
  <2>1. CASE PostProperty(p, answer) /\ Remember({}, answer = "lost", FALSE)
    BY <1>1, <1>6, <2>1, EstimatesKept, PostPropertyOnce DEF OnceInv
  <2>2. CASE PostOpportunity(p, answer) /\ Remember(IF answer = "lost" THEN {task[p].est} ELSE {}, FALSE, FALSE)
    BY <1>1, <1>6, <2>2, PostOnce, PropertyAway DEF OnceInv
  <2> QED BY <1>6, <2>1, <2>2 DEF Post
<1> QED BY <1>2, <1>3, <1>4, <1>5, <1>6 DEF Next

LEMMA OnceInit == ASSUME Estimate # {}, Init PROVE OnceInv
<1>1. \A p \in Proc : task[p].at = "idle"
  BY IdleType DEF Init
<1>2. \A e \in Estimate : ~Selected(e)
  BY DEF Init, Selected
<1> QED BY <1>1, <1>2 DEF Init, OnceInv, EstimatesOnce, PropertyOnce, PropertyCarried, PropertyRivals, PropertyQuiet,
           PushesProperty, Rivals, Quiet, Pushes, CarriedBy

\* One Property and one Opportunity for an estimate, which the rows know or are about to,
\* whatever overlaps, dies or gets lost, unless pushes of the same row crossed or one
\* broke off between the POST and its outcome.
THEOREM CreatedOnceAndKnown == ASSUME Estimate # {} PROVE Spec => []OnceAndKnown
<1>1. Init => SyncInv /\ OnceInv
  BY SyncInit, OnceInit
<1>2. SyncInv /\ OnceInv /\ [Next]_vars => SyncInv' /\ OnceInv'
  BY SyncStep, OnceStep
<1>3. SyncInv /\ OnceInv => OnceAndKnown
  <2>1. ASSUME SyncInv, OnceInv PROVE CreatedOnce
    BY <2>1 DEF OnceInv, EstimatesOnce, PropertyOnce, CreatedOnce, Quiet, PropertyQuiet
  <2>2. ASSUME SyncInv, OnceInv PROVE InFlightIsCarried
    BY <2>2 DEF OnceInv, EstimatesOnce, PropertyCarried, InFlightIsCarried, Quiet, CarriedBy
  <2> QED BY <2>1, <2>2 DEF OnceAndKnown
<1> QED BY <1>1, <1>2, <1>3, PTL DEF Spec

===============================================================================
